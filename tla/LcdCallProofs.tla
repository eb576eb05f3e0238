---------------------------- MODULE LcdCallProofs ----------------------------
(***************************************************************************)
(* Proofs about LcdSvc from a caller's side, for any number of clients and *)
(* processes and any lines: nobody waits for what nobody will do, a line   *)
(* that fits one write is never refused, and an OK to it is true.          *)
(***************************************************************************)
EXTENDS LcdSvcProofs

(* g_mu is held by the thread of its process that is inside a call.        *)
Inside == {"connect", "write", "rest", "read"}

HolderInv ==
  /\ \A c \in Client : cpc[c] \in Inside <=> holder[ProcessOf[c]] = c
  /\ \A p \in Process : holder[p] # None => ProcessOf[holder[p]] = p

(* A connection that has not been reset is queued or served, and a thread  *)
(* that reads has its line still to be received, or in the daemon's hand.  *)
Attended ==
  \A c \in Client :
    /\ link[c] = "up" => Queued(c) \/ InService(c)
    /\ cpc[c] = "read" /\ link[c] = "up" /\ down[c] = "none" =>
         up[c] # "none" \/ (InService(c) /\ dpc \in {"exec", "reply"})

LEMMA OfType == \A c \in Client : ProcessOf[c] \in Process
  BY ClientAssumption

LEMMA HolderNext == TypeOK /\ HolderInv /\ [Next]_vars => HolderInv'
<1> SUFFICES ASSUME TypeOK, HolderInv, [Next]_vars PROVE HolderInv'
  OBVIOUS
<1> USE OfType DEF Inside, Goto, HolderInv
<1>0. /\ HolderInv
      /\ cpc \in [Client -> {"idle", "lock", "connect", "write", "rest", "read", "dead", "gone"}]
      /\ holder \in [Process -> Client \cup {None}] /\ None \notin Client
  BY ClientAssumption DEF TypeOK
<1>1. ASSUME NEW c \in Client, Call(c) PROVE HolderInv'
  BY <1>0, <1>1 DEF Call
<1>2. ASSUME NEW c \in Client, Lock(c) PROVE HolderInv'
  BY <1>0, <1>2 DEF Lock
<1>3. ASSUME NEW c \in Client, NEW r, NEW l \in {"idle", "gone"}, Leave(c, r, l),
             cpc[c] \in Inside
      PROVE  HolderInv'
  <2>1. holder[ProcessOf[c]] = c
    BY <1>3 DEF HolderInv
  <2> QED
    BY <1>0, <1>3, <2>1 DEF Leave
<1>4. ASSUME NEW c \in Client, UNCHANGED holder, cpc[c] \in Inside,
             NEW l \in Inside, cpc' = [cpc EXCEPT ![c] = l]
      PROVE  HolderInv'
  BY <1>0, <1>4
<1>5. ASSUME NEW p \in Process, Dies(p) PROVE HolderInv'
  BY <1>0, <1>5 DEF Dies
<1>6. ASSUME UNCHANGED <<cpc, holder>> PROVE HolderInv'
  BY <1>0, <1>6
<1>7. ASSUME NEW c \in Client,
             \/ SocketFails(c) \/ ConnectFails(c) \/ ReadReply(c) \/ ReadFails(c)
             \/ ConnectInterrupted(c) \/ ReadInterrupted(c)
      PROVE  HolderInv'
  <2>1. cpc[c] \in Inside /\ \E r, l : l \in {"idle", "gone"} /\ Leave(c, r, l)
    BY <1>7
    DEF SocketFails, ConnectFails, ReadReply, ReadFails, ConnectInterrupted, ReadInterrupted, Return
  <2> QED
    BY <1>3, <2>1
<1>8. ASSUME NEW c \in Client,
             Connect(c) \/ WriteAll(c) \/ WriteHead(c) \/ WriteRest(c) \/ WriteFails(c)
      PROVE  HolderInv'
  BY <1>4, <1>8 DEF Connect, WriteAll, WriteHead, WriteRest, WriteFails
<1>9. ASSUME NEW c \in Client, WriteKills(c)
      PROVE  HolderInv'
  BY <1>5, <1>9 DEF WriteKills
<1>10. ASSUME NEW p \in Process, Kill(p) PROVE HolderInv'
  BY <1>5, <1>10 DEF Kill
<1>11. CASE Serve \/ Respawn \/ Crash \/ CrashMidPut \/ UNCHANGED vars
  <2>1. UNCHANGED <<cpc, holder>>
    BY <1>11 DEF Serve, InitHw, Accept, RecvPartial, RecvHead, RecvLine, RecvEnd, Exec, ExecUnknown,
       ExecStray, SendReply, SigPipe, Respawn, Crash, CrashMidPut, vars, clientVars
  <2> QED
    BY <1>6, <2>1
<1> QED
  BY <1>1, <1>2, <1>7, <1>8, <1>9, <1>10, <1>11 DEF Next, ClientStep

LEMMA AttendedNext == IInv /\ Attended /\ [Next]_vars => Attended'
<1> SUFFICES ASSUME IInv, Attended, [Next]_vars, NEW d \in Client
             PROVE  /\ link'[d] = "up" => Queued(d)' \/ InService(d)'
                    /\ cpc'[d] = "read" /\ link'[d] = "up" /\ down'[d] = "none" =>
                         up'[d] # "none" \/ (InService(d)' /\ dpc' \in {"exec", "reply"})
  BY DEF Attended
<1> DEFINE Connected == link[d] = "up" => Queued(d) \/ InService(d)
           Answered == cpc[d] = "read" /\ link[d] = "up" /\ down[d] = "none" =>
                         up[d] # "none" \/ (InService(d) /\ dpc \in {"exec", "reply"})
<1> USE DEF Goto, InService
<1>0. Connected /\ Answered /\ TypeOK
  BY DEF Attended, IInv
(* The caller's own steps.                                                 *)
<1>1. ASSUME NEW c \in Client, Call(c) \/ Lock(c) PROVE Connected' /\ Answered'
  BY <1>0, <1>1 DEF TypeOK, Call, Lock, Queued, netVars, daemonVars
<1>2. ASSUME NEW c \in Client, NEW r, NEW l \in {"idle", "gone"}, Leave(c, r, l),
             UNCHANGED <<dpc, cur, backlog, up>>
      PROVE  Connected' /\ Answered'
  BY <1>0, <1>2 DEF TypeOK, Leave, Queued
<1>3. ASSUME NEW c \in Client,
             \/ SocketFails(c) \/ ConnectFails(c) \/ ReadReply(c) \/ ReadFails(c)
             \/ ConnectInterrupted(c) \/ ReadInterrupted(c)
      PROVE  Connected' /\ Answered'
  <2>1. /\ UNCHANGED <<dpc, cur, backlog, up>>
        /\ \E r, l : l \in {"idle", "gone"} /\ Leave(c, r, l)
    BY <1>3
    DEF SocketFails, ConnectFails, ReadReply, ReadFails, ConnectInterrupted, ReadInterrupted, Return
  <2> QED
    BY <1>2, <2>1
<1>4. ASSUME NEW c \in Client, Connect(c) PROVE Connected' /\ Answered'
  <2>1. Queued(d) => Queued(d)'
    BY <1>0, <1>4 DEF Connect, Queued, TypeOK
  <2>2. Queued(c)'
    <3>1. Len(backlog') = Len(backlog) + 1 /\ backlog'[Len(backlog) + 1] = c
      BY <1>0, <1>4 DEF Connect, TypeOK
    <3>2. Len(backlog) + 1 \in 1 .. Len(backlog')
      BY <1>0, <3>1 DEF TypeOK
    <3> QED
      BY <3>1, <3>2 DEF Queued
  <2> QED
    BY <1>0, <1>4, <2>1, <2>2 DEF TypeOK, Connect, daemonVars
<1>5. ASSUME NEW c \in Client, WriteAll(c) \/ WriteHead(c) \/ WriteRest(c) \/ WriteFails(c)
      PROVE  Connected' /\ Answered'
  BY <1>0, <1>5 DEF TypeOK, WriteAll, WriteHead, WriteRest, WriteFails, Queued, daemonVars
<1>6. ASSUME NEW p \in Process, Dies(p), UNCHANGED <<daemonVars, backlog, up>>
      PROVE  Connected' /\ Answered'
  BY <1>0, <1>6 DEF TypeOK, Dies, Queued, daemonVars
<1>7. ASSUME NEW c \in Client, WriteKills(c) PROVE Connected' /\ Answered'
  BY <1>6, <1>7, OfType DEF WriteKills
<1>8. ASSUME NEW p \in Process, Kill(p) PROVE Connected' /\ Answered'
  BY <1>6, <1>8 DEF Kill
(* The daemon's.                                                           *)
<1>9. CASE Accept
  <2>1. Queued(d) => Queued(d)' \/ d = cur'
    <3> SUFFICES ASSUME NEW i \in 1 .. Len(backlog), backlog[i] = d, d # cur'
                 PROVE  Queued(d)'
      BY DEF Queued
    <3>1. cur' = backlog[1] /\ backlog' = Tail(backlog) /\ backlog \in Seq(Client)
      BY <1>0, <1>9 DEF Accept, TypeOK
    <3>2. i - 1 \in 1 .. Len(backlog') /\ backlog'[i - 1] = d
      BY <3>1
    <3> QED
      BY <3>2 DEF Queued
  <2>2. serving = "closed"
    BY <1>9 DEF Accept, IInv, ServedInv
  <2> QED
    BY <1>0, <1>9, <2>1, <2>2 DEF TypeOK, Accept, clientVars
<1>10. CASE InitHw \/ Respawn
  BY <1>0, <1>10 DEF TypeOK, InitHw, Respawn, Queued, clientVars, netVars, IInv, ServedInv
<1>11. CASE RecvPartial
  BY <1>0, <1>11 DEF TypeOK, RecvPartial, HeadAlone, Queued, daemonVars, clientVars, IInv, ClientInv
<1>12. CASE RecvLine \/ RecvHead
  BY <1>0, <1>12 DEF TypeOK, RecvLine, RecvHead, Take, Queued, clientVars
<1>13. CASE RecvEnd
  <2>1. link[d] = "up" => ~InService(d)
    <3> SUFFICES ASSUME link[d] = "up", cur = d, serving = "open" PROVE FALSE
      OBVIOUS
    <3>1. cpc[d] \in {"dead", "gone"}
      BY <1>13 DEF RecvEnd, Hungup, Left
    <3> QED
      BY <3>1 DEF IInv, ClientInv, Late
  <2> QED
    BY <1>0, <1>13, <2>1 DEF TypeOK, RecvEnd, Queued, clientVars, netVars
<1>14. CASE Exec \/ ExecUnknown \/ ExecStray
  BY <1>0, <1>14 DEF TypeOK, Exec, ExecUnknown, ExecStray, Owe, Queued, clientVars, netVars
<1>15. CASE SendReply
  <2>1. owe # "none" /\ cur \in Client
    BY <1>15 DEF SendReply, IInv, LineInv, ServedInv, TypeOK, Reply
  <2>2. InService(d) => down'[d] # "none"
    BY <1>0, <1>15, <2>1 DEF SendReply, TypeOK
  <2> QED
    BY <1>0, <1>15, <2>1, <2>2 DEF TypeOK, SendReply, Queued, clientVars
<1>16. CASE SigPipe \/ Crash \/ CrashMidPut
  <2>1. link'[d] # "up"
    BY <1>0, <1>16 DEF SigPipe, Crash, CrashMidPut, Stop, TypeOK
  <2> QED
    BY <2>1
<1>17. CASE UNCHANGED vars
  BY <1>0, <1>17 DEF vars, daemonVars, clientVars, netVars, Queued
<1> QED
  BY <1>1, <1>3, <1>4, <1>5, <1>7, <1>8, <1>9, <1>10, <1>11, <1>12, <1>13, <1>14, <1>15, <1>16,
     <1>17 DEF Next, ClientStep, Serve

(* Whoever waits - for the mutex or for a reply - waits for somebody who   *)
(* is still there to act.                                                  *)
THEOREM NobodyLeftWaiting == Spec => []NobodyForgotten
<1>1. Init => HolderInv /\ Attended
  BY OfType, ClientAssumption DEF Init, HolderInv, Inside, Attended
<1>2. IInv /\ HolderInv /\ Attended => NobodyForgotten
  <2> SUFFICES ASSUME IInv, HolderInv, Attended, NEW c \in Client
               PROVE  /\ holder[ProcessOf[c]] # None => cpc[holder[ProcessOf[c]]] \in Inside
                      /\ cpc[c] = "read" /\ link[c] = "up" /\ down[c] = "none" =>
                           \/ up[c] # "none" /\ (Queued(c) \/ InService(c))
                           \/ InService(c) /\ dpc \in {"exec", "reply"}
    BY DEF NobodyForgotten, Inside
  <2>1. ASSUME holder[ProcessOf[c]] # None PROVE cpc[holder[ProcessOf[c]]] \in Inside
    BY <2>1, OfType DEF IInv, TypeOK, HolderInv
  <2> QED
    BY <2>1 DEF Attended
<1>3. IInv /\ HolderInv /\ [Next]_vars => HolderInv'
  BY HolderNext DEF IInv
<1> QED
  BY <1>1, <1>2, <1>3, AttendedNext, Invariance, PTL DEF Spec

-----------------------------------------------------------------------------
(* Lines that fit one write.                                               *)
Short(c) == req[c].size = "short"
Carried(c) == done[c] \in {"once", "blind"}

(* Such a line never lies in two parts, is taken whole, and its reply says *)
(* whether it was understood.                                              *)
ShortInv ==
  \A c \in Client : Short(c) =>
    /\ cpc[c] # "rest" /\ up[c] \in {"none", "all"}
    /\ down[c] = "OK" => Carried(c)
    /\ down[c] = "ERR" => ~Understood(req[c])
    /\ rc[c] = "ok" => Carried(c)
    /\ rc[c] = "err" => ~Understood(req[c])
    /\ InService(c) /\ dpc \in {"exec", "reply"} => line # "torn"
    /\ InService(c) /\ dpc = "reply" /\ line = "whole" =>
         /\ owe = "OK" => Carried(c)
         /\ owe = "ERR" => ~Understood(req[c])

LEMMA ShortNext == IInv /\ ShortInv /\ [Next]_vars => ShortInv'
<1> SUFFICES ASSUME IInv, ShortInv, [Next]_vars PROVE ShortInv'
  OBVIOUS
<1> USE DEF Goto, InService, Short, Carried
<1>0. TypeOK
  BY DEF IInv
(* The caller's own steps.                                                 *)
<1>1. ASSUME NEW c \in Client, Call(c) PROVE ShortInv'
  <2>1. /\ \A d \in Client \ {c} : /\ req'[d] = req[d] /\ cpc'[d] = cpc[d]
                                   /\ rc'[d] = rc[d] /\ done'[d] = done[d]
        /\ UNCHANGED <<up, down, cur, serving, dpc, line, owe>>
        /\ cpc[c] = "idle" /\ cpc'[c] = "lock" /\ rc'[c] = "none"
    BY <1>0, <1>1 DEF TypeOK, Call, daemonVars, netVars
  <2>2. up[c] = "none" /\ down[c] = "none" /\ ~InService(c)
    BY <2>1 DEF IInv, ClientInv, ServedInv, Late, TypeOK
  <2> QED
    BY <2>1, <2>2 DEF ShortInv
<1>2. ASSUME NEW c \in Client, Lock(c) \/ Connect(c) PROVE ShortInv'
  BY <1>0, <1>2 DEF TypeOK, Lock, Connect, ShortInv, daemonVars, netVars
<1>3. ASSUME NEW c \in Client, NEW r, NEW l \in {"idle", "gone"}, Leave(c, r, l),
             UNCHANGED <<dpc, cur, line, owe, up, req, done>>,
             r \in {"nosock", "noconn", "eof"} \/ /\ r = "ok" /\ down[c] = "OK"
                                                 \/ /\ r = "err" /\ down[c] = "ERR"
      PROVE  ShortInv'
  BY <1>0, <1>3 DEF TypeOK, Leave, ShortInv
<1>4. ASSUME NEW c \in Client,
             \/ SocketFails(c) \/ ConnectFails(c) \/ ReadReply(c) \/ ReadFails(c)
             \/ ConnectInterrupted(c) \/ ReadInterrupted(c)
      PROVE  ShortInv'
  <2>1. UNCHANGED <<dpc, cur, line, owe, up, req, done>>
    BY <1>4
    DEF SocketFails, ConnectFails, ReadReply, ReadFails, ConnectInterrupted, ReadInterrupted
  <2>2. CASE ReadReply(c)
    BY <1>0, <1>3, <2>1, <2>2 DEF ReadReply, Return, TypeOK, Reply
  <2>3. CASE SocketFails(c) \/ ConnectFails(c) \/ ReadFails(c) \/ ConnectInterrupted(c) \/ ReadInterrupted(c)
    BY <1>3, <2>1, <2>3
    DEF SocketFails, ConnectFails, ReadFails, ConnectInterrupted, ReadInterrupted, Return
  <2> QED
    BY <1>4, <2>2, <2>3
<1>5. ASSUME NEW c \in Client, WriteAll(c) \/ WriteHead(c) \/ WriteRest(c) \/ WriteFails(c)
      PROVE  ShortInv'
  BY <1>0, <1>5 DEF TypeOK, WriteAll, WriteHead, WriteRest, WriteFails, ShortInv, daemonVars
<1>6. ASSUME NEW p \in Process, Dies(p), UNCHANGED <<daemonVars, req, backlog, up, done, rc, panel>>
      PROVE  ShortInv'
  BY <1>0, <1>6 DEF TypeOK, Dies, ShortInv, daemonVars
<1>7. ASSUME NEW c \in Client, WriteKills(c) PROVE ShortInv'
  BY <1>6, <1>7, OfType DEF WriteKills
<1>8. ASSUME NEW p \in Process, Kill(p) PROVE ShortInv'
  BY <1>6, <1>8 DEF Kill
(* The daemon's.                                                           *)
<1>9. CASE InitHw \/ Respawn \/ Accept \/ RecvEnd
  BY <1>9 DEF InitHw, Respawn, Accept, RecvEnd, ShortInv, clientVars, netVars
<1>10. CASE RecvPartial
  BY <1>0, <1>10 DEF TypeOK, RecvPartial, HeadAlone, ShortInv, daemonVars, clientVars
<1>11. CASE RecvLine \/ RecvHead
  BY <1>0, <1>11 DEF TypeOK, RecvLine, RecvHead, HeadAlone, Take, ShortInv, clientVars
<1>12. CASE Exec
  <2>1. done[cur] = "no" /\ cur \in Client /\ rc[cur] \in {"none", "eof"} /\ down[cur] = "none"
    BY <1>12 DEF Exec, IInv, LineInv, ServedInv, TypeOK
  <2>2. done' = [done EXCEPT ![cur] = IF hw' = "ok" THEN "once" ELSE "blind"]
    BY <1>12, <2>1 DEF Exec, Performed
  <2>3. done'[cur] \in {"once", "blind"} /\ \A d \in Client \ {cur} : done'[d] = done[d]
    BY <1>0, <2>1, <2>2 DEF TypeOK
  <2>4. /\ UNCHANGED <<cur, serving, line, cpc, req, rc, up, down>>
        /\ dpc' = "reply" /\ owe' = "OK" /\ dpc = "exec"
    BY <1>12 DEF Exec, Owe, clientVars, netVars
  <2> QED
    BY <2>1, <2>3, <2>4 DEF ShortInv
<1>13. CASE ExecUnknown \/ ExecStray
  <2>1. /\ UNCHANGED <<cur, serving, line, cpc, req, rc, up, down, done>>
        /\ dpc' = "reply" /\ dpc = "exec"
        /\ line = "whole" => owe' = "ERR" /\ ~Understood(req[cur])
    BY <1>13 DEF ExecUnknown, ExecStray, Owe, clientVars, netVars
  <2> QED
    BY <2>1 DEF ShortInv
<1>14. CASE SendReply
  <2>1. /\ UNCHANGED <<cur, serving, cpc, req, rc, up, done>> /\ dpc = "reply"
        /\ dpc' \in {"exec", "recv"} /\ line' \in {"junk", "none"}
        /\ down' = [down EXCEPT ![cur] = IF @ = "none" THEN owe ELSE @]
        /\ InService(cur) /\ ~Left(cur)
    BY <1>14 DEF SendReply, clientVars, Hungup, IInv, TypeOK
  <2>2. cur \in Client /\ line \in {"whole", "torn", "junk"} /\ owe \in Reply
    BY <2>1 DEF IInv, ServedInv, LineInv, TypeOK
  <2>3. line = "junk" => down[cur] # "none"
    BY <2>1 DEF IInv, LineInv
  <2> QED
    BY <1>0, <2>1, <2>2, <2>3 DEF ShortInv, TypeOK
<1>15. CASE SigPipe \/ Crash
  BY <1>15 DEF SigPipe, Crash, Stop, ShortInv, clientVars
<1>16. CASE CrashMidPut
  <2>1. done[cur] = "no" /\ cur \in Client /\ rc[cur] \in {"none", "eof"} /\ down[cur] = "none"
    BY <1>16 DEF CrashMidPut, IInv, LineInv, ServedInv, TypeOK
  <2>2. /\ UNCHANGED <<cpc, req, rc, down>> /\ dpc' = "down" /\ \A d \in Client : up'[d] = "none"
        /\ \A d \in Client \ {cur} : done'[d] = done[d]
    BY <1>0, <1>16 DEF CrashMidPut, Stop, clientVars, TypeOK
  <2> QED
    BY <2>1, <2>2 DEF ShortInv
<1>17. CASE UNCHANGED vars
  BY <1>17 DEF vars, daemonVars, clientVars, netVars, ShortInv
<1> QED
  BY <1>1, <1>2, <1>4, <1>5, <1>7, <1>8, <1>9, <1>10, <1>11, <1>12, <1>13, <1>14, <1>15, <1>16,
     <1>17 DEF Next, ClientStep, Serve

LEMMA ShortInvariance == Spec => []ShortInv
<1>1. Init => ShortInv
  BY DEF Init, ShortInv, InService
<1> QED
  BY <1>1, ShortNext, Invariance, PTL DEF Spec

(* A command that the protocol knows and that fits one write is never      *)
(* refused, though other clients' lines are torn, hold line feeds or spell *)
(* commands, and though the daemon and its clients may die at any step.    *)
THEOREM ShortAccepted == Spec => []NeverRefused
<1>1. ShortInv => NeverRefused
  BY DEF ShortInv, NeverRefused, Short
<1> QED
  BY <1>1, ShortInvariance, PTL

-----------------------------------------------------------------------------
(* Only INIT, which opens the pins once more, can take the daemon's grip   *)
(* on them away.                                                           *)
Steady == hw = "ok" /\ \A c \in Client : done[c] # "blind"

LEMMA SteadyNext ==
  ASSUME \A r \in Request \cup Spells : r.op # "INIT"
  PROVE  IInv /\ Steady /\ [Next]_vars => Steady'
<1> SUFFICES ASSUME IInv, TypeOK, Steady, [Next]_vars PROVE Steady'
  BY DEF IInv
<1>1. ASSUME NEW c \in Client,
             \/ Call(c) \/ SocketFails(c) \/ ClientStep(c)
             \/ ConnectInterrupted(c) \/ ReadInterrupted(c)
      PROVE  Steady'
  BY <1>1 DEF ConnectInterrupted, ReadInterrupted, Call, SocketFails, ClientStep, Lock, ConnectFails, Connect, WriteAll, WriteHead,
     WriteRest, WriteFails, WriteKills, ReadReply, ReadFails, daemonVars, Steady, TypeOK
<1>2. ASSUME NEW p \in Process, Kill(p) PROVE Steady'
  BY <1>2 DEF Kill, daemonVars, Steady
<1>3. CASE Exec
  <2>1. hw' = "ok"
    <3>1. cur \in Client /\ req[cur].op # "INIT"
      BY <1>3 DEF Exec, IInv, ServedInv, TypeOK
    <3> QED
      BY <1>3, <3>1 DEF Exec, Drive, Steady
  <2> QED
    BY <1>3, <2>1 DEF Exec, Performed, Steady, TypeOK
<1>4. CASE ExecStray
  BY <1>4 DEF ExecStray, Drive, Steady
<1>5. CASE InitHw \/ Accept \/ RecvPartial \/ RecvHead \/ RecvLine \/ RecvEnd \/ ExecUnknown \/ SendReply
           \/ Respawn
  BY <1>5 DEF InitHw, Accept, RecvPartial, RecvHead, RecvLine, RecvEnd, ExecUnknown, SendReply, Respawn,
     daemonVars, Steady
<1>6. CASE SigPipe \/ Crash \/ CrashMidPut
  BY <1>6 DEF SigPipe, Crash, CrashMidPut, Stop, Steady, TypeOK
<1>7. CASE UNCHANGED vars
  BY <1>7 DEF vars, daemonVars, Steady
<1> QED
  BY <1>1, <1>2, <1>3, <1>4, <1>5, <1>6, <1>7 DEF Next, Serve

(* As long as nobody sends INIT, 0 means that the panel obeyed: for lines  *)
(* that fit one write, whatever else is sent and whoever dies.             *)
THEOREM OkIsShown ==
  ASSUME \A r \in Request \cup Spells : r.op # "INIT"
  PROVE  Spec => []OkMeansShown
<1>1. Init => Steady
  BY DEF Init, Steady
<1>2. IInv /\ Steady /\ [Next]_vars => Steady'
  BY SteadyNext
<1>3. ShortInv /\ Steady => OkMeansShown
  BY DEF ShortInv, Steady, OkMeansShown, Short, Carried
<1> QED
  BY <1>1, <1>2, <1>3, ShortInvariance, Invariance, PTL DEF Spec
=============================================================================
