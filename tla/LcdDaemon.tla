----------------------------- MODULE LcdDaemon -----------------------------
(***************************************************************************)
(* What the clients of evi-lcdsvc may count on, with no lock, no socket    *)
(* path and no child process in sight: one process at a time is reached by *)
(* connect(), and it goes on answering until it ends.  A dead one may be   *)
(* reached for a while: a connection then waits for nobody.  LcdSvc's dpc  *)
(* is "down" as long as nobody is reached, and its Stop is Forget.         *)
(***************************************************************************)
CONSTANTS Inst, None

VARIABLES alive, reached

daemonVars == <<alive, reached>>

Init == alive = {} /\ reached = None

Begin(i) ==
  /\ i \notin alive /\ reached # i
  /\ alive' = alive \cup {i}
  /\ UNCHANGED reached

Answer(i) ==
  /\ i \in alive /\ reached = None
  /\ reached' = i
  /\ UNCHANGED alive

End(i) ==
  /\ i \in alive
  /\ alive' = alive \ {i}
  /\ reached' \in IF reached = i THEN {None, i} ELSE {reached}

Forget ==
  /\ reached # None /\ reached \notin alive
  /\ reached' = None
  /\ UNCHANGED alive

Next == Forget \/ \E i \in Inst : Begin(i) \/ Answer(i) \/ End(i)

Spec == Init /\ [][Next]_daemonVars
=============================================================================
