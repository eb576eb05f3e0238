----------------------------- MODULE LcdStartup -----------------------------
(***************************************************************************)
(* How lcdsvc comes up and goes down (lcdsvc.c, main): the instance that   *)
(* procd keeps and those started by hand race for /var/run/evi-lcd.lock,   *)
(* replace the socket path a dead one left, and read UCI through child     *)
(* processes that inherit the lock's descriptor and the listening socket,  *)
(* for nothing is opened close-on-exec.                                    *)
(***************************************************************************)
EXTENDS Integers, FiniteSets

CONSTANTS
  Inst,       \* processes that may be running lcdsvc
  MaxDeaths,  \* bound: how many of them are killed
  Respawns,   \* quick exits in a row after which procd still starts it again
  None

ASSUME InstAssumption == None \notin Inst /\ MaxDeaths \in Nat /\ Respawns \in Nat

VARIABLES
  pc,        \* where each instance is; "off" when there is no process
  locked,    \* instances whose process holds the flock
  child,     \* instances a uci child of which, alive, holds it too
  path,      \* whose socket /var/run/evi-lcd.sock names
  listening, \* sockets that accept connections
  managed,   \* the instance procd has started
  quick,     \* quick exits of such instances in a row
  excused,   \* each of those was killed or found the lock held
  deaths

procd == <<managed, quick, excused>>
vars == <<pc, locked, child, path, listening, procd, deaths>>

Past == {"unlink", "bind", "listen", "init", "uci", "serve"}   \* past the flock
Up == {"init", "uci", "serve"}                           \* past listen

TypeOK ==
  /\ pc \in [Inst -> {"off", "open", "flock"} \cup Past]
  /\ locked \subseteq Inst /\ child \subseteq Inst /\ listening \subseteq Inst
  /\ path \in Inst \cup {None} /\ managed \in Inst \cup {None}
  /\ quick \in 0 .. Respawns + 1 /\ excused \in BOOLEAN
  /\ managed # None => quick <= Respawns
  /\ deaths \in 0 .. MaxDeaths

Init ==
  /\ pc = [i \in Inst |-> "off"]
  /\ locked = {} /\ child = {} /\ listening = {}
  /\ path = None
  /\ managed = None /\ quick = 0 /\ excused = TRUE
  /\ deaths = 0

Goto(i, l) == pc' = [pc EXCEPT ![i] = l]

(* The process ends; the path stays, its child too, and what that holds.   *)
Exit(i) ==
  /\ Goto(i, "off")
  /\ locked' = locked \ {i}
  /\ listening' = IF i \in child THEN listening ELSE listening \ {i}
  /\ UNCHANGED <<child, path>>

(* procd's account of the exit of the instance that it keeps.              *)
Noted(i, long, excuse) ==
  IF i = managed
    THEN /\ managed' = None
         /\ quick' = IF long THEN 0 ELSE quick + 1
         /\ excused' = (long \/ (excused /\ excuse))
    ELSE UNCHANGED procd

(* A process that is new: it has no child yet.                             *)
Launch(i) ==
  /\ pc[i] = "off" /\ i \notin child
  /\ Goto(i, "open")
  /\ UNCHANGED <<locked, child, path, listening, deaths>>

LaunchByHand(i) == Launch(i) /\ UNCHANGED procd

GivenUp == quick > Respawns

Respawn(i) ==
  /\ managed = None /\ ~GivenUp
  /\ Launch(i)
  /\ managed' = i
  /\ UNCHANGED <<quick, excused>>

Open(i) ==
  /\ pc[i] = "open"
  /\ Goto(i, "flock")
  /\ UNCHANGED <<locked, child, path, listening, procd, deaths>>

(* Mutant: LOCK_SH for LOCK_EX.                                            *)
FlockShared(i) ==
  /\ pc[i] = "flock"
  /\ locked' = locked \cup {i} /\ Goto(i, "unlink")
  /\ UNCHANGED <<child, listening, path, procd, deaths>>

(* flock(lfd, LOCK_EX|LOCK_NB)                                             *)
Flock(i) ==
  /\ pc[i] = "flock"
  /\ IF locked = {} /\ child = {}
       THEN /\ locked' = locked \cup {i} /\ Goto(i, "unlink")
            /\ UNCHANGED <<child, listening, path, procd>>
       ELSE Exit(i) /\ Noted(i, FALSE, TRUE)
  /\ UNCHANGED deaths

(* Mutant: the stale path is left alone.                                   *)
UnlinkNothing(i) ==
  /\ pc[i] = "unlink"
  /\ Goto(i, "bind")
  /\ UNCHANGED <<locked, child, listening, path, procd, deaths>>

Unlink(i) ==
  /\ pc[i] = "unlink"
  /\ path' = None
  /\ Goto(i, "bind")
  /\ UNCHANGED <<locked, child, listening, procd, deaths>>

(* socket() and bind(); a path that exists is in use.                      *)
Bind(i) ==
  /\ pc[i] = "bind"
  /\ IF path = None
       THEN path' = i /\ Goto(i, "listen") /\ UNCHANGED <<locked, child, listening, procd>>
       ELSE Exit(i) /\ Noted(i, FALSE, FALSE)
  /\ UNCHANGED deaths

Listen(i) ==
  /\ pc[i] = "listen"
  /\ listening' = listening \cup {i}
  /\ Goto(i, "init")
  /\ UNCHANGED <<locked, child, path, procd, deaths>>

(* load_pins_from_uci, at start and for every INIT: popen, and pclose waits.*)
Fork(i) ==
  /\ pc[i] \in {"init", "serve"} /\ i \notin child
  /\ child' = child \cup {i}
  /\ Goto(i, IF pc[i] = "init" THEN "uci" ELSE "serve")
  /\ UNCHANGED <<locked, path, listening, procd, deaths>>

ChildEnds(i) ==
  /\ i \in child
  /\ child' = child \ {i}
  /\ listening' = IF pc[i] = "off" THEN listening \ {i} ELSE listening
  /\ UNCHANGED <<pc, locked, path, procd, deaths>>

Serve(i) ==
  /\ pc[i] = "uci" /\ i \notin child
  /\ Goto(i, "serve")
  /\ UNCHANGED <<locked, child, path, listening, procd, deaths>>

(* Killed by a signal: SIGPIPE, a shell, the kernel short of memory.       *)
Die(i) ==
  /\ pc[i] # "off" /\ deaths < MaxDeaths
  /\ Exit(i)
  /\ \E long \in BOOLEAN : (long => pc[i] = "serve") /\ Noted(i, long, TRUE)
  /\ deaths' = deaths + 1

Step(i) ==
  \/ Open(i) \/ Flock(i) \/ Unlink(i) \/ Bind(i) \/ Listen(i) \/ Serve(i)
  \/ pc[i] = "init" /\ Fork(i)

Next == \E i \in Inst : Respawn(i) \/ LaunchByHand(i) \/ Step(i) \/ Fork(i) \/ ChildEnds(i) \/ Die(i)

Spec == Init /\ [][Next]_vars

(* procd starts a daemon that is gone, unless it has given up; processes   *)
(* and children run.  Nobody need start one by hand.                       *)
FairSpec ==
  /\ Spec
  /\ WF_vars(\E i \in Inst : Respawn(i))
  /\ \A i \in Inst : WF_vars(Step(i)) /\ WF_vars(ChildEnds(i))

-----------------------------------------------------------------------------
(* A daemon that accepts connections owns the path clients connect to: no  *)
(* second instance, late or early, takes it away (lock file: avoid a       *)
(* second daemon, readme_evi_lcdsvc.md:32).                                *)
ServingIsReachable == \A i \in Inst : pc[i] \in Up => path = i /\ i \in listening

(* bind() never meets a path: whoever binds has just removed it, and no    *)
(* other instance is between its own unlink and the end.                   *)
BindNeverBusy == \A i \in Inst : pc[i] = "bind" => path = None

(* Of all the instances that start, fail and die, clients reach one at a   *)
(* time, which answers until it ends, as LcdDaemon has it: no other one    *)
(* takes its name away, before, while or after it serves, and none comes   *)
(* before a child that it left has let the socket go.                      *)
Alive == {i \in Inst : pc[i] # "off"}
Reached == IF path \in listening THEN path ELSE None
Daemon == INSTANCE LcdDaemon WITH alive <- Alive, reached <- Reached
OneAnswers == Daemon!Spec

(* Once the killing ends, a daemon serves for good, unless procd has given *)
(* up because it was killed, or found the lock held by an instance started *)
(* by hand or by a dead one's child, too often in a row                    *)
(* (evi-lcdsvc.init:7): what a dead daemon left never stops the next.      *)
ComesBack == <>[](\/ \E i \in Inst : pc[i] = "serve"
                  \/ GivenUp /\ excused)
=============================================================================
