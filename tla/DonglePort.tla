----------------------------- MODULE DonglePort -----------------------------
(***************************************************************************)
(* evi-azurectl --set setDevOn/Off (package evi-azurectl: main.c 61-82 and *)
(* usb_dongle.c): runs of the command switch a relay of the USB dongle     *)
(* over one serial line and keep its state in UCI's dongleport mask.  The  *)
(* dongle, the kernel's serial buffers and the process that notices the    *)
(* dongle being pulled out are not in the repository; the dongle is taken  *)
(* to obey every setting within the half second that follows it, and to    *)
(* answer a query at once, late or not at all.  A run may be killed at any *)
(* step, and its calls of uci may fail.                                    *)
(***************************************************************************)
EXTENDS Integers, Sequences

CONSTANTS
  Run,     \* invocations that may be under way at the same time
  Port,    \* the ports of the dongle, 1 to 4
  Value,   \* the port numbers they are given
  Room     \* bound: messages that are on the line at once

Act == {"On", "Off"}
Gone == {-1}               \* dongleport once the dongle is out
Masks == SUBSET Port       \* dongleport otherwise, as the set of its one bits

ASSUME ValueAssumption ==
  Port \subseteq 1 .. 4 /\ Value \subseteq Int /\ Value # {} /\ Room \in Nat

NormallyClosed == {2, 3, 4}

VARIABLES
  pc, act, port,
  mask,     \* the mask a run has read and changed
  cut,      \* runs whose descriptor belongs to a dongle that is out
  plugged,
  wire,     \* bytes sent to the dongle: <<p, real>> for an A0 message, <<>> for a query
  late,     \* the dongle has yet to answer a query it has received
  rx,       \* enough bytes of a reply wait to be read
  relay,    \* ports whose relay is energised
  uci,      \* what "uci get system.@system[0].dongleport" returns
  crossed,  \* history: runs that another one met, or that the dongle left
  stale,    \* history: ports whose bit a run has not read, or that was saved since
  doubt     \* history: ports of which the mask may say something wrong

runVars == <<act, port>>
lineVars == <<plugged, wire, late, rx, relay>>
histories == <<crossed, stale, doubt>>
vars == <<pc, runVars, mask, cut, lineVars, uci, histories>>

TypeOK ==
  /\ pc \in [Run -> {"idle", "open", "flush", "send", "query", "read", "get", "save"}]
  /\ act \in [Run -> Act] /\ port \in [Run -> Value]
  /\ \A r \in Run : pc[r] # "idle" => port[r] \in Port
  /\ mask \in [Run -> Masks]
  /\ cut \subseteq Run /\ crossed \subseteq Run
  /\ plugged \in BOOLEAN
  /\ wire \in Seq((Port \X {0, 1}) \cup {<<>>})
  /\ rx \in BOOLEAN /\ late \in BOOLEAN
  /\ relay \subseteq Port
  /\ uci \in Masks \cup {Gone}
  /\ stale \in [Run -> Masks] /\ doubt \in Masks

(* The device behind p is on: ports 2 to 4 are wired to the closed contact.*)
DeviceOn(p) == (p \in relay) # (p \in NormallyClosed)
OnPorts == {p \in Port : DeviceOn(p)}

Init ==
  /\ pc = [r \in Run |-> "idle"]
  /\ act = [r \in Run |-> "Off"]
  /\ port = [r \in Run |-> CHOOSE v \in Value : TRUE]
  /\ mask = [r \in Run |-> {}]
  /\ plugged = TRUE /\ wire = <<>> /\ late = FALSE /\ rx = FALSE /\ cut = {}
  /\ relay = {}
  /\ uci = OnPorts
  /\ crossed = {} /\ stale = [r \in Run |-> {}] /\ doubt = {}

Goto(r, l) == pc' = [pc EXCEPT ![r] = l]

(* Whom a run meets that begins to talk to the dongle: runs in the middle  *)
(* of their exchange, and runs that have yet to save the same port.        *)
Talking == {r \in Run : pc[r] \in {"send", "query", "read"}}
Meets(r) ==
  {q \in Talking : q # r} \cup
  {q \in Run : q # r /\ pc[q] \in {"get", "save"} /\ port[q] = port[r]}

(* printf of devon or devoff, whether the exchange has succeeded or not;   *)
(* nothing is left of the process.                                         *)
Ended(r, others) ==
  /\ Goto(r, "idle")
  /\ act' = [act EXCEPT ![r] = "Off"]
  /\ port' = [port EXCEPT ![r] = CHOOSE v \in Value : TRUE]
  /\ mask' = [mask EXCEPT ![r] = {}]
  /\ cut' = cut \ {r} /\ crossed' = crossed \ {r}
  /\ stale' = [others EXCEPT ![r] = {}]

-----------------------------------------------------------------------------
(* Mutant: the range of the number is not checked.                         *)
StartUnchecked(r) ==
  /\ pc[r] = "idle"
  /\ \E a \in Act, v \in Value :
       act' = [act EXCEPT ![r] = a] /\ port' = [port EXCEPT ![r] = v]
  /\ Goto(r, "open")
  /\ UNCHANGED <<mask, cut, lineVars, uci, histories>>

(* A wrong number is answered with "Wrong settings" and changes nothing.   *)
(* Any key that begins with setDev and is not setDevOn switches off.       *)
Start(r) ==
  /\ pc[r] = "idle"
  /\ \E a \in Act, v \in Value :
       /\ v \in Port
       /\ act' = [act EXCEPT ![r] = a] /\ port' = [port EXCEPT ![r] = v]
  /\ Goto(r, "open")
  /\ UNCHANGED <<mask, cut, lineVars, uci, histories>>

(* find_ttyUSB and serial_open                                             *)
Open(r) ==
  /\ pc[r] = "open" /\ plugged
  /\ Goto(r, "flush")
  /\ UNCHANGED <<runVars, mask, cut, lineVars, uci, histories>>

OpenFails(r) ==
  /\ pc[r] = "open" /\ ~plugged
  /\ Ended(r, stale)
  /\ UNCHANGED <<lineVars, uci, doubt>>

(* tcflush(fd, TCIOFLUSH): of what any run has sent the bytes that are not *)
(* on their way yet go, and all that any run was about to read.  On a      *)
(* dongle that is out it fails, and is not looked at.                      *)
Flush(r) ==
  /\ pc[r] = "flush"
  /\ IF r \in cut THEN UNCHANGED <<wire, rx>>
     ELSE (\E k \in 0 .. Len(wire) : wire' = SubSeq(wire, 1, k)) /\ rx' = FALSE
  /\ Goto(r, "send")
  /\ crossed' = crossed \cup Meets(r) \cup (IF Meets(r) # {} THEN {r} ELSE {})
  /\ UNCHANGED <<runVars, mask, cut, plugged, late, relay, uci, stale, doubt>>

Real(r) == IF (act[r] = "On") # (port[r] \in NormallyClosed) THEN 1 ELSE 0

(* The A0 message.                                                         *)
Send(r) ==
  /\ pc[r] = "send" /\ r \notin cut /\ Len(wire) < Room
  /\ wire' = Append(wire, <<port[r], Real(r)>>)
  /\ Goto(r, "query")
  /\ UNCHANGED <<runVars, mask, cut, plugged, late, rx, relay, uci, histories>>

(* Mutant: the dongle is not given time to settle.                         *)
QueryAtOnce(r) ==
  /\ pc[r] = "query" /\ r \notin cut /\ Len(wire) < Room
  /\ wire' = Append(wire, <<>>)
  /\ Goto(r, "read")
  /\ UNCHANGED <<runVars, mask, cut, plugged, late, rx, relay, uci, histories>>

(* usleep(500000), in which the line carries the A0 message, and the query *)
(* byte 0xFF.                                                              *)
Query(r) ==
  /\ pc[r] = "query" /\ r \notin cut /\ Len(wire) < Room
  /\ \A i \in DOMAIN wire : wire[i] # <<port[r], Real(r)>>
  /\ wire' = Append(wire, <<>>)
  /\ Goto(r, "read")
  /\ UNCHANGED <<runVars, mask, cut, plugged, late, rx, relay, uci, histories>>

WriteFails(r) ==
  /\ pc[r] \in {"send", "query"} /\ r \in cut
  /\ Ended(r, stale)
  /\ UNCHANGED <<lineVars, uci, doubt>>

(* The read loop meets 40 bytes and four lines, of whichever reply; then   *)
(* tcflush(TCIFLUSH).                                                      *)
Read(r) ==
  /\ pc[r] = "read" /\ r \notin cut /\ rx
  /\ rx' = FALSE
  /\ Goto(r, "get")
  /\ UNCHANGED <<runVars, mask, cut, plugged, wire, late, relay, uci, histories>>

(* Twenty tries without them: no reply, only a part of one, or one that is *)
(* still to come.  They take a second, in which the line has carried all   *)
(* that was sent.  The relay has switched, and the mask stays.             *)
ReadTimesOut(r) ==
  /\ pc[r] = "read" /\ (r \in cut \/ (wire = <<>> /\ ~rx))
  /\ Ended(r, stale)
  /\ doubt' = doubt \cup {port[r]}
  /\ UNCHANGED <<lineVars, uci>>

(* Mutant: the mask starts from nothing.                                   *)
KnownNothing == {}

Known == IF uci = Gone THEN {} ELSE uci

Get(r) ==
  /\ pc[r] = "get"
  /\ mask' = [mask EXCEPT ![r] = IF act[r] = "On" THEN Known \cup {port[r]}
                                 ELSE Known \ {port[r]}]
  /\ Goto(r, "save")
  /\ UNCHANGED <<runVars, cut, lineVars, uci, histories>>

(* A uci get that fails reads like an empty mask.                          *)
GetFails(r) ==
  /\ pc[r] = "get"
  /\ mask' = [mask EXCEPT ![r] = IF act[r] = "On" THEN {port[r]} ELSE {}]
  /\ stale' = [stale EXCEPT ![r] = Port]
  /\ Goto(r, "save")
  /\ UNCHANGED <<runVars, cut, lineVars, uci, crossed, doubt>>

(* The masks that runs have read become out of date by a change to ports P.*)
Outdated(P) == [q \in Run |-> IF pc[q] = "save" THEN stale[q] \cup P ELSE stale[q]]

(* uci set, which every later uci get sees, and uci commit.  A run that    *)
(* was alone leaves its own port beyond doubt; it brings back what others  *)
(* have changed since it read the mask.                                    *)
Save(r) ==
  /\ pc[r] = "save"
  /\ uci' = mask[r]
  /\ Ended(r, Outdated({port[r]} \cup stale[r]))
  /\ doubt' = IF r \in crossed THEN doubt \cup stale[r] \cup {port[r]}
              ELSE (doubt \cup stale[r]) \ {port[r]}
  /\ UNCHANGED lineVars

(* uci set fails, and nobody looks.                                        *)
SaveFails(r) ==
  /\ pc[r] = "save"
  /\ Ended(r, stale)
  /\ doubt' = doubt \cup {port[r]}
  /\ UNCHANGED <<lineVars, uci>>

(* The run is killed; what it has sent goes its way.                       *)
RunDies(r) ==
  /\ pc[r] # "idle"
  /\ Ended(r, stale)
  /\ doubt' = IF pc[r] \in {"query", "read", "get", "save"} THEN doubt \cup {port[r]} ELSE doubt
  /\ UNCHANGED <<lineVars, uci>>

-----------------------------------------------------------------------------
(* The dongle obeys one message, or takes one query, which it answers      *)
(* whole at once, later, or not.                                           *)
Device ==
  /\ plugged /\ wire # <<>> /\ wire' = Tail(wire)
  /\ \/ /\ Head(wire) # <<>>
        /\ relay' = IF Head(wire)[2] = 1 THEN relay \cup {Head(wire)[1]}
                    ELSE relay \ {Head(wire)[1]}
        /\ UNCHANGED <<late, rx>>
     \/ /\ Head(wire) = <<>>
        /\ \/ rx' = TRUE /\ UNCHANGED late
           \/ late' = TRUE /\ UNCHANGED rx
           \/ UNCHANGED <<late, rx>>
        /\ UNCHANGED relay
  /\ UNCHANGED <<pc, runVars, mask, cut, plugged, uci, histories>>

AnswerLate ==
  /\ late /\ late' = FALSE /\ rx' = TRUE
  /\ UNCHANGED <<pc, runVars, mask, cut, plugged, wire, relay, uci, histories>>

(* Every relay falls, and every run that has the line open loses it.       *)
Unplug ==
  /\ plugged
  /\ plugged' = FALSE /\ wire' = <<>> /\ late' = FALSE /\ rx' = FALSE /\ relay' = {}
  /\ cut' = {r \in Run : pc[r] \in {"flush", "send", "query", "read"}}
  /\ crossed' = {r \in Run : pc[r] \notin {"idle", "open"}}
  /\ doubt' = Port
  /\ UNCHANGED <<pc, runVars, mask, uci, stale>>

Plug ==
  /\ ~plugged /\ plugged' = TRUE
  /\ UNCHANGED <<pc, runVars, mask, cut, wire, late, rx, relay, uci, histories>>

(* The process that watches the dongle writes -1 (ApiSampleDoc_azureProcess*)
(* _vs_v0.9.7.md:67).                                                      *)
Watch ==
  /\ ~plugged /\ uci # Gone
  /\ uci' = Gone
  /\ stale' = Outdated(Port)
  /\ UNCHANGED <<pc, runVars, mask, cut, lineVars, crossed, doubt>>

Next ==
  \/ \E r \in Run :
       \/ Start(r) \/ Open(r) \/ OpenFails(r) \/ Flush(r) \/ Send(r) \/ Query(r) \/ WriteFails(r)
       \/ Read(r) \/ ReadTimesOut(r) \/ Get(r) \/ GetFails(r) \/ Save(r) \/ SaveFails(r)
       \/ RunDies(r)
  \/ Device \/ AnswerLate \/ Unplug \/ Plug \/ Watch

Spec == Init /\ [][Next]_vars

-----------------------------------------------------------------------------
(* Properties.                                                             *)

(* usb_set_port returns 0 only when the device is in the state asked for,  *)
(* though the reply that it has read may be that to the query of an        *)
(* earlier run, which timed out or was killed, and may lack what the reply *)
(* says: unless another run has met this one on the line or at its port,   *)
(* or the dongle has been pulled out meanwhile (usb_dongle.c:33-74).       *)
SuccessMeansSwitched ==
  \A r \in Run :
    pc[r] \in {"get", "save"} /\ r \notin crossed => DeviceOn(port[r]) = (act[r] = "On")

(* The mask tells the state of every device, except for ports in doubt:    *)
(* those of runs that timed out, were killed or could not save once they   *)
(* had sent, or that met each other, those a run has brought back to what  *)
(* they were when it read the mask, or failed to, all of them once the     *)
(* dongle has been out; and a later run that is alone settles its port     *)
(* again (main.c:73-79).                                                   *)
MaskMirrors ==
  \A p \in Port \ doubt :
    (\A r \in Run : pc[r] \in {"idle", "open"} \/ port[r] # p) /\ uci # Gone
      => (p \in uci) = DeviceOn(p)

(* A run changes the bit of its own port and, when it could read the mask  *)
(* and nobody has saved since, no other; -1 included (main.c:74-78).       *)
OthersKept ==
  [][\A r \in Run :
       pc[r] = "save" /\ pc'[r] = "idle" /\ stale[r] = {} /\ uci' # uci =>
         (IF uci = Gone THEN uci' \subseteq {port[r]}
          ELSE \A p \in Port \ {port[r]} : (p \in uci) = (p \in uci'))]_vars
=============================================================================
