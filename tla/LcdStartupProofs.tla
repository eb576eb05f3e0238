-------------------------- MODULE LcdStartupProofs --------------------------
(***************************************************************************)
(* However many instances of lcdsvc are started and killed, in whatever    *)
(* order, the one that serves is the one clients reach.                    *)
(***************************************************************************)
EXTENDS LcdStartup, TLAPS

(* Every variable has its type, at every instant of any number of starts.  *)
THEOREM TypeCorrect == Spec => []TypeOK
<1>1. Init => TypeOK
  BY InstAssumption DEF Init, TypeOK
<1>2. ASSUME TypeOK, [Next]_vars PROVE TypeOK'
  <2> USE <1>2, InstAssumption DEF TypeOK, Past, Goto, Exit, Noted, procd
  <2>1. ASSUME NEW i \in Inst, Step(i) PROVE TypeOK'
    <3>1. CASE Open(i)
      BY <3>1 DEF Open
    <3>2. CASE Flock(i)
      BY <3>2 DEF Flock
    <3>3. CASE Unlink(i)
      BY <3>3 DEF Unlink
    <3>6. CASE Bind(i)
      <4>1. CASE Exit(i) /\ Noted(i, FALSE, FALSE)
        <5>1. /\ managed' \in Inst \cup {None} /\ quick' \in 0 .. Respawns + 1
              /\ managed' # None => quick' <= Respawns
          <6>1. CASE i = managed
            BY <4>1, <6>1
          <6>2. CASE i # managed
            BY <4>1, <6>2
          <6> QED
            BY <6>1, <6>2
        <5>3. excused' \in BOOLEAN
          BY <4>1, Zenon
        <5>2. UNCHANGED <<child, path, deaths>> /\ pc' = [pc EXCEPT ![i] = "off"]
              /\ locked' \subseteq Inst /\ listening' \subseteq Inst
          BY <3>6, <4>1 DEF Bind
        <5> QED
          BY <5>1, <5>2, <5>3
      <4>2. CASE ~Exit(i) \/ ~Noted(i, FALSE, FALSE)
        <5>1. /\ path' = i /\ pc' = [pc EXCEPT ![i] = "listen"]
              /\ UNCHANGED <<locked, child, listening, procd, deaths>>
          BY <3>6, <4>2 DEF Bind
        <5> QED
          BY <5>1
      <4> QED
        BY <4>1, <4>2
    <3>4. CASE Listen(i) \/ Serve(i)
      BY <3>4 DEF Listen, Serve
    <3>5. CASE Fork(i)
      BY <3>5 DEF Fork
    <3> QED
      BY <2>1, <3>1, <3>2, <3>3, <3>4, <3>5, <3>6 DEF Step
  <2>2. ASSUME NEW i \in Inst, Fork(i) PROVE TypeOK'
    BY <2>2 DEF Fork
  <2>3. ASSUME NEW i \in Inst, ChildEnds(i) PROVE TypeOK'
    BY <2>3 DEF ChildEnds
  <2>4. ASSUME NEW i \in Inst, Die(i) PROVE TypeOK'
    BY <2>4 DEF Die
  <2>5. ASSUME NEW i \in Inst, Respawn(i) \/ LaunchByHand(i) PROVE TypeOK'
    BY <2>5 DEF Respawn, LaunchByHand, Launch, GivenUp
  <2>6. CASE UNCHANGED vars
    BY <2>6 DEF vars
  <2> QED
    BY <2>1, <2>2, <2>3, <2>4, <2>5, <2>6 DEF Next
<1> QED
  BY <1>1, <1>2, PTL DEF Spec

-----------------------------------------------------------------------------
(* The instance past its flock() is alone there, holds the lock, and after *)
(* its unlink() no one else touches the path.  A child shuts all others    *)
(* out, whether its parent lives or not.                                   *)
Alone ==
  /\ \A i \in Inst : pc[i] \in Past => i \in locked
  /\ \A i, j \in locked \cup child : i = j
Named ==
  \A i \in Inst :
    /\ pc[i] = "bind" => path = None
    /\ pc[i] \in {"listen"} \cup Up => path = i
    /\ pc[i] \in Up => i \in listening

IInv == TypeOK /\ Alone /\ Named

(* A step of Next keeps Alone: only Flock adds to locked, and only when    *)
(* nobody holds the lock.                                                  *)
LEMMA AloneKept == ASSUME IInv, [Next]_vars PROVE Alone'
<1> USE DEF IInv, TypeOK, Alone, Past, Goto, Exit
<1>1. ASSUME NEW i \in Inst, Step(i) PROVE Alone'
  <2>1. CASE Open(i)
    BY <2>1 DEF Open
  <2>2. CASE Flock(i)
    BY <2>2 DEF Flock
  <2>3. CASE Unlink(i) \/ Bind(i)
    BY <2>3 DEF Unlink, Bind
  <2>4. CASE Listen(i) \/ Serve(i)
    BY <2>4 DEF Listen, Serve
  <2>5. CASE Fork(i)
    BY <2>5 DEF Fork
  <2> QED
    BY <1>1, <2>1, <2>2, <2>3, <2>4, <2>5 DEF Step
<1>2. ASSUME NEW i \in Inst, Fork(i) PROVE Alone'
  BY <1>2 DEF Fork
<1>3. ASSUME NEW i \in Inst, ChildEnds(i) PROVE Alone'
  BY <1>3 DEF ChildEnds
<1>4. ASSUME NEW i \in Inst, Die(i) PROVE Alone'
  BY <1>4 DEF Die
<1>5. ASSUME NEW i \in Inst, Respawn(i) \/ LaunchByHand(i) PROVE Alone'
  BY <1>5 DEF Respawn, LaunchByHand, Launch
<1>6. CASE UNCHANGED vars
  BY <1>6 DEF vars
<1> QED
  BY <1>1, <1>2, <1>3, <1>4, <1>5, <1>6 DEF Next

(* A step of Next keeps Named: whoever changes the path or the listening   *)
(* sockets is past its flock(), and so is alone.                           *)
LEMMA NamedKept == ASSUME IInv, [Next]_vars PROVE Named'
<1> USE DEF IInv, TypeOK, Alone, Named, Past, Up, Goto, Exit
<1>1. ASSUME NEW i \in Inst, Step(i) PROVE Named'
  <2>1. CASE Open(i)
    BY <2>1 DEF Open
  <2>2. CASE Flock(i)
    BY <2>2 DEF Flock
  <2>3. CASE Unlink(i)
    BY <2>3 DEF Unlink
  <2>4. CASE Bind(i)
    <3>1. CASE Exit(i)
      BY <3>1
    <3>2. CASE ~Exit(i)
      <4>1. path' = i /\ pc' = [pc EXCEPT ![i] = "listen"] /\ UNCHANGED listening
        BY <2>4, <3>2 DEF Bind
      <4>2. \A j \in Inst \ {i} : pc[j] \notin Past
        BY <2>4 DEF Bind
      <4> QED
        BY <4>1, <4>2
    <3> QED
      BY <3>1, <3>2
  <2>5. CASE Listen(i)
    BY <2>5 DEF Listen
  <2>6. CASE Serve(i)
    BY <2>6 DEF Serve
  <2>7. CASE Fork(i)
    BY <2>7 DEF Fork
  <2> QED
    BY <1>1, <2>1, <2>2, <2>3, <2>4, <2>5, <2>6, <2>7 DEF Step
<1>2. ASSUME NEW i \in Inst, Fork(i) PROVE Named'
  BY <1>2 DEF Fork
<1>3. ASSUME NEW i \in Inst, ChildEnds(i) PROVE Named'
  BY <1>3 DEF ChildEnds
<1>4. ASSUME NEW i \in Inst, Die(i) PROVE Named'
  BY <1>4 DEF Die
<1>5. ASSUME NEW i \in Inst, Respawn(i) \/ LaunchByHand(i) PROVE Named'
  BY <1>5 DEF Respawn, LaunchByHand, Launch
<1>6. CASE UNCHANGED vars
  BY <1>6 DEF vars
<1> QED
  BY <1>1, <1>2, <1>3, <1>4, <1>5, <1>6 DEF Next

(* IInv holds throughout.                                                  *)
LEMMA Invariance == Spec => []IInv
<1>1. Init => Alone /\ Named
  BY DEF Init, Alone, Named, Past, Up
<1>2. TypeOK /\ Alone /\ Named /\ [Next]_vars => Alone' /\ Named'
  BY AloneKept, NamedKept DEF IInv
<1> QED
  BY <1>1, <1>2, TypeCorrect, PTL DEF Spec, IInv

(* A serving daemon owns the path that clients connect to, whatever other  *)
(* instances start or die: the flock of lcdsvc.c:65 comes before unlink.   *)
THEOREM Reachable == Spec => []ServingIsReachable
<1>1. IInv => ServingIsReachable
  BY DEF IInv, Named, ServingIsReachable, Up
<1> QED
  BY <1>1, Invariance, PTL

(* bind() finds no path in its way: lcdsvc.c:66 has just removed it, and   *)
(* no other instance can have made one since.                              *)
THEOREM BindFree == Spec => []BindNeverBusy
<1>1. IInv => BindNeverBusy
  BY DEF IInv, Named, BindNeverBusy
<1> QED
  BY <1>1, Invariance, PTL

-----------------------------------------------------------------------------
(* Nobody listens before bind() has given the socket its name, and of the  *)
(* dead only those listen that have left a child, under their own name.    *)
Listening ==
  /\ \A i \in listening : pc[i] \in Up \/ (pc[i] = "off" /\ i \in child)
  /\ \A i \in child : pc[i] \in Up \/ pc[i] = "off"
  /\ \A i \in child : path = i /\ i \in listening

LEMMA ListeningKept == ASSUME IInv, Listening, [Next]_vars PROVE Listening'
<1> USE DEF IInv, TypeOK, Alone, Named, Listening, Past, Up, Goto
<1>1. ASSUME NEW i \in Inst, Exit(i), pc[i] # "off" PROVE Listening'
  BY <1>1 DEF Exit
<1>2. ASSUME NEW i \in Inst, Step(i) PROVE Listening'
  <2>1. CASE Open(i)
    BY <2>1 DEF Open
  <2>2. CASE Flock(i)
    BY <1>1, <2>2 DEF Flock
  <2>3. CASE Unlink(i)
    <3>1. child = {}
      BY <2>3 DEF Unlink
    <3> QED
      BY <2>3, <3>1 DEF Unlink
  <2>4. CASE Bind(i)
    <3>1. CASE Exit(i)
      BY <1>1, <2>4, <3>1 DEF Bind
    <3>2. CASE ~Exit(i)
      <4>1. /\ pc[i] = "bind" /\ pc' = [pc EXCEPT ![i] = "listen"]
            /\ UNCHANGED <<child, listening>>
        BY <2>4, <3>2 DEF Bind
      <4>2. child = {}
        BY <4>1
      <4> QED
        BY <4>1, <4>2
    <3> QED
      BY <3>1, <3>2
  <2>5. CASE Listen(i) \/ Serve(i)
    BY <2>5 DEF Listen, Serve
  <2>6. CASE Fork(i)
    BY <2>6 DEF Fork
  <2> QED
    BY <1>2, <2>1, <2>2, <2>3, <2>4, <2>5, <2>6 DEF Step
<1>3. ASSUME NEW i \in Inst, Fork(i) PROVE Listening'
  BY <1>3 DEF Fork
<1>4. ASSUME NEW i \in Inst, ChildEnds(i) PROVE Listening'
  BY <1>4 DEF ChildEnds
<1>5. ASSUME NEW i \in Inst, Die(i) PROVE Listening'
  BY <1>1, <1>5 DEF Die
<1>6. ASSUME NEW i \in Inst, Respawn(i) \/ LaunchByHand(i) PROVE Listening'
  BY <1>6 DEF Respawn, LaunchByHand, Launch
<1>7. CASE UNCHANGED vars
  BY <1>7 DEF vars
<1> QED
  BY <1>2, <1>3, <1>4, <1>5, <1>6, <1>7 DEF Next

(* The end of a process is the end of what it answers: nobody is reached   *)
(* any more, or the dead one's socket, as long as a child keeps it.        *)
LEMMA ExitEnds ==
  ASSUME IInv, Listening, NEW i \in Inst, Exit(i), pc[i] # "off"
  PROVE  Daemon!End(i)
<1>1. Alive' = Alive \ {i} /\ i \in Alive
  BY DEF IInv, TypeOK, Exit, Goto, Alive
<1>2. Reached' \in IF Reached = i THEN {None, i} ELSE {Reached}
  BY InstAssumption DEF IInv, TypeOK, Exit, Reached
<1> QED
  BY <1>1, <1>2 DEF Daemon!End

(* Every step is a step of LcdDaemon, or none that clients can see.        *)
LEMMA StepRefines ==
  ASSUME IInv, Listening, [Next]_vars
  PROVE  [Daemon!Next]_(Daemon!daemonVars)
<1> USE InstAssumption DEF IInv, TypeOK, Goto, Alive, Reached
<1> DEFINE Hidden == Alive' = Alive /\ Reached' = Reached
<1>0. Hidden => UNCHANGED Daemon!daemonVars
  BY DEF Daemon!daemonVars
<1>1. ASSUME NEW i \in Inst, Step(i) PROVE [Daemon!Next]_(Daemon!daemonVars)
  <2>2. CASE Open(i)
    BY <1>0, <2>2 DEF Open
  <2>3. CASE Flock(i)
    <3>1. CASE Exit(i)
      BY <2>3, <3>1, ExitEnds DEF Flock, Daemon!Next
    <3>2. CASE ~Exit(i)
      <4>1. /\ pc[i] = "flock" /\ pc' = [pc EXCEPT ![i] = "unlink"]
            /\ UNCHANGED <<path, listening>>
        BY <2>3, <3>2 DEF Flock
      <4> QED
        BY <1>0, <4>1
    <3> QED
      BY <3>1, <3>2
  <2>4. CASE Unlink(i)
    <3>1. path \notin listening /\ None \notin listening
      BY <2>4 DEF Unlink, Listening, Alone, Past, Up
    <3> QED
      BY <1>0, <2>4, <3>1 DEF Unlink
  <2>5. CASE Bind(i)
    <3>1. CASE Exit(i)
      BY <2>5, <3>1, ExitEnds DEF Bind, Daemon!Next
    <3>2. CASE ~Exit(i)
      <4>1. /\ pc[i] = "bind" /\ path = None /\ path' = i
            /\ pc' = [pc EXCEPT ![i] = "listen"] /\ UNCHANGED listening
        BY <2>5, <3>2 DEF Bind
      <4>2. i \notin listening /\ None \notin listening
        BY <4>1 DEF Listening, Up
      <4> QED
        BY <1>0, <4>1, <4>2
    <3> QED
      BY <3>1, <3>2
  <2>6. CASE Listen(i)
    <3>1. path = i /\ i \notin listening
      BY <2>6 DEF Listen, Named, Listening, Up
    <3>2. Daemon!Answer(i)
      BY <2>6, <3>1 DEF Listen, Daemon!Answer
    <3> QED
      BY <3>2 DEF Daemon!Next
  <2>7. CASE Serve(i)
    BY <1>0, <2>7 DEF Serve
  <2>8. CASE Fork(i)
    BY <1>0, <2>8 DEF Fork
  <2> QED
    BY <1>1, <2>2, <2>3, <2>4, <2>5, <2>6, <2>7, <2>8 DEF Step
<1>2. ASSUME NEW i \in Inst, Fork(i) PROVE [Daemon!Next]_(Daemon!daemonVars)
  BY <1>0, <1>2 DEF Fork
<1>3. ASSUME NEW i \in Inst, ChildEnds(i) PROVE [Daemon!Next]_(Daemon!daemonVars)
  <2>1. path = i /\ i \in listening /\ i # None
    BY <1>3 DEF ChildEnds, Listening
  <2>2. CASE pc[i] = "off"
    <3>1. Daemon!Forget
      BY <1>3, <2>1, <2>2 DEF ChildEnds, Daemon!Forget
    <3> QED
      BY <3>1 DEF Daemon!Next
  <2>3. CASE pc[i] # "off"
    BY <1>0, <1>3, <2>3 DEF ChildEnds
  <2> QED
    BY <2>2, <2>3
<1>4. ASSUME NEW i \in Inst, Respawn(i) \/ LaunchByHand(i)
      PROVE  [Daemon!Next]_(Daemon!daemonVars)
  <2>1. Reached # i
    <3>1. pc[i] = "off" /\ i \notin child
      BY <1>4 DEF Respawn, LaunchByHand, Launch
    <3> QED
      BY <3>1 DEF Listening, Up
  <2>2. Daemon!Begin(i)
    BY <1>4, <2>1 DEF Respawn, LaunchByHand, Launch, Daemon!Begin
  <2> QED
    BY <2>2 DEF Daemon!Next
<1>5. ASSUME NEW i \in Inst, Die(i) PROVE [Daemon!Next]_(Daemon!daemonVars)
  BY <1>5, ExitEnds DEF Die, Daemon!Next
<1>6. CASE UNCHANGED vars
  BY <1>0, <1>6 DEF vars
<1> QED
  BY <1>1, <1>2, <1>3, <1>4, <1>5, <1>6 DEF Next

(* However many instances start and die in whatever order, clients reach   *)
(* one daemon at a time, which answers until it ends, and a dead one only  *)
(* until its child has let the socket go (lcdsvc.c:63-74): what LcdSvc     *)
(* assumes of Respawn, Stop and ConnectFails.                              *)
THEOREM StartRefines == Spec => OneAnswers
<1>1. Init => Daemon!Init /\ Listening
  BY InstAssumption DEF Init, Daemon!Init, Alive, Reached, Listening
<1>2. IInv /\ Listening /\ [Next]_vars => Listening' /\ [Daemon!Next]_(Daemon!daemonVars)
  BY ListeningKept, StepRefines
<1> QED
  BY <1>1, <1>2, Invariance, PTL DEF Spec, OneAnswers, Daemon!Spec
=============================================================================
