------------------------------- MODULE LcdApi -------------------------------
(***************************************************************************)
(* What a caller of libevi_lcd may count on, with no daemon, socket or     *)
(* mutex in sight: a call's line takes effect at most once, at one instant *)
(* between the call and its return, or later if the caller's process has   *)
(* died or its wait was interrupted, and only "eof" leaves open whether it *)
(* did.                                                                    *)
(***************************************************************************)
EXTENDS LcdPanel

CONSTANTS Client, Request

VARIABLES phase, want, applied, result, panel

apiVars == <<phase, want, applied, result, panel>>

Init ==
  /\ phase = [c \in Client |-> "idle"]
  /\ want = [c \in Client |-> CHOOSE r \in Request : TRUE]
  /\ applied = [c \in Client |-> "no"]
  /\ result = [c \in Client |-> "none"]
  /\ panel = BlankPanel

Call(c) ==
  /\ phase[c] = "idle"
  /\ phase' = [phase EXCEPT ![c] = "called"]
  /\ \E r \in Request : want' = [want EXCEPT ![c] = r]
  /\ applied' = [applied EXCEPT ![c] = "no"]
  /\ result' = [result EXCEPT ![c] = "none"]
  /\ UNCHANGED panel

Settle(c, outcome) ==
  /\ phase[c] # "idle" /\ applied[c] = "no"
  /\ result[c] \in {"none", "eof"}
  /\ Understood(want[c])
  /\ applied' = [applied EXCEPT ![c] = outcome]
  /\ UNCHANGED <<phase, want, result>>

Apply(c) == Settle(c, "once") /\ panel' = Display(panel, c, want[c])

(* The daemon dies after some characters of a text.                        *)
ApplyPart(c) ==
  /\ Settle(c, "part")
  /\ want[c].op = "PUT"
  /\ \E k \in 1 .. want[c].arg - 1 : panel' = Write(panel, c, k)

(* The daemon has lost its grip on the pins.                               *)
ApplyBlind(c) == Settle(c, "blind") /\ panel' \in Panel

(* The daemon starts again.                                                *)
Restart == panel' = BlankPanel /\ UNCHANGED <<phase, want, applied, result>>

Return(c) ==
  /\ phase[c] = "called"
  /\ \E p \in {"idle", "gone"} : phase' = [phase EXCEPT ![c] = p]
  /\ \/ result' = [result EXCEPT ![c] = "ok"] /\ applied[c] \in {"once", "blind"}
     \/ \E e \in {"err", "nosock", "noconn"} :
          result' = [result EXCEPT ![c] = e] /\ applied[c] = "no"
     \/ result' = [result EXCEPT ![c] = "eof"]
  /\ UNCHANGED <<want, applied, panel>>

Die ==
  /\ \E gone \in SUBSET Client :
       phase' = [c \in Client |-> IF c \in gone THEN "dead" ELSE phase[c]]
  /\ UNCHANGED <<want, applied, result, panel>>

Next ==
  \/ \E c \in Client : Call(c) \/ Apply(c) \/ ApplyPart(c) \/ ApplyBlind(c) \/ Return(c)
  \/ Restart \/ Die

Spec == Init /\ [][Next]_apiVars
=============================================================================
