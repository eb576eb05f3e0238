---------------------------- MODULE LcdSvcProofs ----------------------------
(***************************************************************************)
(* Proofs about LcdSvc: its state is well typed, results are truthful, no  *)
(* line is carried out twice and only abandoned calls kill the daemon, for *)
(* any number of clients and processes, any requests and any backlog.      *)
(***************************************************************************)
EXTENDS LcdSvc, TLAPS

(* Where a client stands tells what its connection can hold.               *)
Early == {"lock", "connect", "write"}
Late  == {"write", "rest", "read"}

ClientInv ==
  \A c \in Client :
    /\ cpc[c] \in Early => done[c] = "no"
    /\ cpc[c] \notin {"idle", "dead", "gone"} => rc[c] = "none"
    /\ cpc[c] = "gone" => rc[c] # "none"
    /\ link[c] # "none" <=> cpc[c] \in Late
    /\ link[c] = "reset" => up[c] = "none"
    /\ up[c] \in {"head", "taken"} => cpc[c] \in {"rest", "dead"}
    /\ up[c] \in {"all", "tail", "beyond"} => cpc[c] \in {"read", "dead", "gone"}
    /\ up[c] \in {"head", "all", "tail"} =>
         done[c] = "no" /\ rc[c] \in {"none", "eof"} /\ down[c] = "none"
    /\ cpc[c] = "rest" /\ link[c] = "up" /\ up[c] # "taken" => done[c] = "no" /\ down[c] = "none"
    /\ down[c] # "none" => cpc[c] \in {"rest", "read"}
    /\ down[c] = "OK" /\ Spells = {} => done[c] \in {"once", "blind"}
    /\ down[c] = "ERR" => done[c] = "no"

(* What lies beyond a head follows the head's reply.                       *)
InHand(c) == cur = c /\ dpc \in {"exec", "reply"} /\ line = "whole"

HeadInv ==
  \A c \in Client :
    up[c] \in {"taken", "beyond"} /\ ~Left(c) => down[c] # "none" \/ InHand(c)

(* A connection in the queue is young, and queued once.                    *)
QueueInv ==
  /\ \A i \in 1 .. Len(backlog) :
       LET c == backlog[i]
       IN /\ cpc[c] \in Late \cup {"dead", "gone"}
          /\ ~Left(c) => link[c] = "up" /\ down[c] = "none"
          /\ up[c] \notin {"taken", "beyond"}
          /\ ~(cur = c /\ serving = "open")
  /\ \A i, j \in 1 .. Len(backlog) : backlog[i] = backlog[j] => i = j

(* The client being served, until it has closed.                           *)
ServedInv ==
  /\ dpc \in {"recv", "exec", "reply"} <=> cur # None
  /\ cur = None => serving = "closed"
  /\ serving = "open" =>
       /\ cpc[cur] \in Late \cup {"dead", "gone"}
       /\ ~Left(cur) => link[cur] = "up"

(* The line in hand has had no effect before it is carried out, and its    *)
(* reply matches its effect until it is sent.                              *)
LineInv ==
  /\ dpc \in {"exec", "reply"} => line \in {"whole", "torn", "junk"}
  /\ dpc = "reply" => owe \in Reply
  /\ dpc \in {"exec", "reply"} /\ serving = "open" =>
       Left(cur) \/ cpc[cur] = "read" \/ (cpc[cur] = "rest" /\ up[cur] = "taken")
  /\ dpc \in {"exec", "reply"} /\ line \in {"whole", "torn"} =>
       /\ serving = "open" /\ up[cur] \in {"none", "taken", "beyond"}
       /\ down[cur] = "none" /\ rc[cur] \in {"none", "eof"}
  /\ dpc \in {"exec", "reply"} /\ line = "torn" => up[cur] = "none"
  /\ dpc = "exec" /\ line \in {"whole", "torn"} => done[cur] = "no"
  /\ dpc = "reply" /\ line \in {"whole", "torn"} =>
       /\ owe = "OK" /\ Spells = {} => done[cur] \in {"once", "blind"}
       /\ owe = "ERR" => done[cur] = "no"
  /\ dpc \in {"exec", "reply"} /\ line = "junk" /\ serving = "open" /\ ~Left(cur) =>
       down[cur] # "none"

IInv ==
  /\ TypeOK
  /\ ClientInv
  /\ HeadInv
  /\ QueueInv
  /\ ServedInv
  /\ LineInv
  /\ Spells = {} => ResultsTruthful
  /\ AtMostOnce

USE DEF Left, InHand

-----------------------------------------------------------------------------
(* The panel stays a panel.                                                *)

(* An instruction byte leaves a panel.                                     *)
LEMMA ObeyType ==
  ASSUME NEW p \in Panel, NEW v \in Int
  PROVE  Obey(p, v) \in Panel
<1>1. ASSUME v >= 128 PROVE (v - 128) % Cells \in Addr
  BY CellsAssumption DEF Addr
<1>2. 0 \in Addr
  BY CellsAssumption DEF Addr
<1> QED
  BY <1>1, <1>2 DEF Obey, Panel, BlankPanel

(* So do data bytes.                                                       *)
LEMMA WriteType ==
  ASSUME NEW p \in Panel, NEW m \in Mark, NEW w \in Nat
  PROVE  Write(p, m, w) \in Panel
<1>1. (p.cursor + w) % Cells \in Addr
  BY CellsAssumption DEF Addr, Panel
<1> QED
  BY <1>1 DEF Write, Panel

(* And so does every line of the protocol.                                 *)
LEMMA DisplayType ==
  ASSUME NEW p \in Panel, NEW m \in Mark, NEW r \in Request \cup Spells
  PROVE  Display(p, m, r) \in Panel
<1>1. r \in Line /\ (r.op = "PUT" => r.arg \in Nat)
  BY RequestAssumption
<1>2. r.arg % 256 \in Int /\ 128 + (r.arg % 128) \in Int
  BY <1>1 DEF Line
<1> QED
  BY <1>1, <1>2, ObeyType, WriteType DEF Display
-----------------------------------------------------------------------------
(* A request's line feeds, and the length of its text, are counted.        *)
LEMMA RequestFields ==
  ASSUME NEW r \in Request
  PROVE  r.junk \in Nat /\ (r.op = "PUT" => r.arg \in Nat)
BY RequestAssumption DEF Line

(* A new call forgets the line and the result of the one before.           *)
LEMMA CallKeeps ==
  ASSUME IInv, NEW c \in Client, Call(c)
  PROVE  IInv'
<1>1. TypeOK'
  BY DEF IInv, TypeOK, Call, Goto, daemonVars, clientVars, netVars
<1>2. ClientInv'
  BY DEF IInv, TypeOK, ClientInv, Late, Call, Goto, netVars
<1>3. QueueInv'
  BY DEF IInv, QueueInv, Late, Call, Goto, daemonVars, clientVars, netVars
<1>4. ServedInv'
  BY DEF IInv, ServedInv, Late, Call, Goto, daemonVars, clientVars, netVars
<1>5. LineInv'
  BY DEF IInv, LineInv, Call, Goto, daemonVars, clientVars, netVars
<1>6. (Spells = {} => ResultsTruthful)'
  BY DEF IInv, TypeOK, ResultsTruthful, Call
<1>7. AtMostOnce'
  BY DEF IInv, AtMostOnce, Call
<1>8. HeadInv'
  BY DEF IInv, TypeOK, HeadInv, ClientInv, Late, Call, Goto, daemonVars, clientVars, netVars
<1> QED
  BY <1>1, <1>2, <1>3, <1>4, <1>5, <1>6, <1>7, <1>8 DEF IInv

(* Taking g_mu changes nothing the daemon sees.                            *)
LEMMA LockKeeps ==
  ASSUME IInv, NEW c \in Client, Lock(c)
  PROVE  IInv'
<1>1. TypeOK'
  BY DEF IInv, TypeOK, Lock, Goto, daemonVars, clientVars, netVars
<1>2. ClientInv'
  BY DEF IInv, ClientInv, Early, Late, Lock, Goto, netVars
<1>3. QueueInv'
  BY DEF IInv, QueueInv, Late, Lock, Goto, daemonVars, clientVars, netVars
<1>4. ServedInv'
  BY DEF IInv, ServedInv, Late, Lock, Goto, daemonVars, clientVars, netVars
<1>5. LineInv'
  BY DEF IInv, LineInv, Lock, Goto, daemonVars, clientVars, netVars
<1>6. (Spells = {} => ResultsTruthful)'
  BY DEF IInv, ResultsTruthful, Lock
<1>7. AtMostOnce'
  BY DEF IInv, AtMostOnce, Lock
<1>8. HeadInv'
  BY DEF IInv, TypeOK, HeadInv, ClientInv, Late, Lock, Goto, daemonVars, clientVars, netVars
<1> QED
  BY <1>1, <1>2, <1>3, <1>4, <1>5, <1>6, <1>7, <1>8 DEF IInv

(* A call that has no socket returns -2 with its line unsent.              *)
LEMMA SocketFailsKeeps ==
  ASSUME IInv, NEW c \in Client, SocketFails(c)
  PROVE  IInv'
<1>1. TypeOK'
  BY DEF IInv, TypeOK, SocketFails, Return, Leave, Goto, daemonVars, clientVars, netVars
<1>2. ClientInv'
  BY DEF IInv, TypeOK, ClientInv, Early, Late, SocketFails, Return, Leave, Goto, daemonVars,
         clientVars, netVars
<1>3. QueueInv'
  BY DEF IInv, QueueInv, Late, SocketFails, Return, Leave, Goto, daemonVars, clientVars, netVars
<1>4. ServedInv'
  BY DEF IInv, TypeOK, ClientInv, Late, ServedInv, SocketFails, Return, Leave, Goto, daemonVars, clientVars, netVars
<1>5. LineInv'
  <2>1. CASE cur = c
    BY <2>1 DEF IInv, LineInv, SocketFails, Return, Leave, daemonVars, clientVars, netVars
  <2>2. CASE cur # c
    BY DEF IInv, LineInv, SocketFails, Return, Leave, Goto, daemonVars, clientVars, netVars
  <2> QED
    BY <2>1, <2>2
<1>6. (Spells = {} => ResultsTruthful)'
  <2>1. done[c] = "no" /\ rc' = [rc EXCEPT ![c] = "nosock"]
    BY DEF IInv, ClientInv, Early, SocketFails, Return, Leave
  <2>2. done' = done /\ rc \in [Client -> {"none", "ok", "err", "nosock", "noconn", "eof"}]
    BY DEF IInv, TypeOK, SocketFails
  <2> QED
    BY <2>1, <2>2 DEF IInv, ResultsTruthful
<1>7. AtMostOnce'
  BY DEF IInv, AtMostOnce, SocketFails, daemonVars, clientVars, netVars
<1>8. HeadInv'
  BY DEF IInv, TypeOK, HeadInv, ClientInv, Late, SocketFails, Return, Leave, Goto, daemonVars, clientVars, netVars
<1> QED
  BY <1>1, <1>2, <1>3, <1>4, <1>5, <1>6, <1>7, <1>8 DEF IInv

(* A call that nobody listens for returns -3 with its line unsent.         *)
LEMMA ConnectFailsKeeps ==
  ASSUME IInv, NEW c \in Client, ConnectFails(c)
  PROVE  IInv'
<1>1. TypeOK'
  BY DEF IInv, TypeOK, ConnectFails, Return, Leave, Goto, daemonVars, clientVars, netVars
<1>2. ClientInv'
  BY DEF IInv, TypeOK, ClientInv, Early, Late, ConnectFails, Return, Leave, Goto, daemonVars,
         clientVars, netVars
<1>3. QueueInv'
  BY DEF IInv, QueueInv, Late, ConnectFails, Return, Leave, Goto, daemonVars, clientVars, netVars
<1>4. ServedInv'
  BY DEF IInv, ServedInv, ConnectFails, Return, Leave, daemonVars, clientVars, netVars
<1>5. LineInv'
  <2>1. CASE cur = c
    BY DEF LineInv, ConnectFails, daemonVars, clientVars, netVars
  <2>2. CASE cur # c
    BY DEF LineInv, ConnectFails, daemonVars, clientVars, netVars
  <2> QED
    BY <2>1, <2>2
<1>6. (Spells = {} => ResultsTruthful)'
  <2>1. done[c] = "no" /\ rc' = [rc EXCEPT ![c] = "noconn"]
    BY DEF IInv, ClientInv, Early, ConnectFails, Return, Leave
  <2>2. done' = done /\ rc \in [Client -> {"none", "ok", "err", "nosock", "noconn", "eof"}]
    BY DEF IInv, TypeOK, ConnectFails
  <2> QED
    BY <2>1, <2>2 DEF IInv, ResultsTruthful
<1>7. AtMostOnce'
  BY DEF IInv, AtMostOnce, ConnectFails, daemonVars, clientVars, netVars
<1>8. HeadInv'
  BY DEF IInv, TypeOK, HeadInv, ClientInv, Late, ConnectFails, Return, Leave, Goto, daemonVars, clientVars, netVars
<1> QED
  BY <1>1, <1>2, <1>3, <1>4, <1>5, <1>6, <1>7, <1>8 DEF IInv

(* So does one whose wait for the queue is interrupted.                    *)
LEMMA ConnectInterruptedKeeps ==
  ASSUME IInv, NEW c \in Client, ConnectInterrupted(c)
  PROVE  IInv'
<1>1. TypeOK'
  BY DEF IInv, TypeOK, ConnectInterrupted, Return, Leave, Goto, daemonVars, clientVars, netVars
<1>2. ClientInv'
  BY DEF IInv, TypeOK, ClientInv, Early, Late, ConnectInterrupted, Return, Leave, Goto, daemonVars,
         clientVars, netVars
<1>3. QueueInv'
  BY DEF IInv, QueueInv, Late, ConnectInterrupted, Return, Leave, Goto, daemonVars, clientVars, netVars
<1>4. ServedInv'
  BY DEF IInv, TypeOK, ClientInv, Late, ServedInv, ConnectInterrupted, Return, Leave, Goto, daemonVars, clientVars, netVars
<1>5. LineInv'
  <2>1. CASE cur = c
    BY <2>1 DEF IInv, LineInv, ConnectInterrupted, Return, Leave, daemonVars, clientVars, netVars
  <2>2. CASE cur # c
    BY <2>2 DEF IInv, LineInv, ConnectInterrupted, Return, Leave, Goto, daemonVars, clientVars,
           netVars
  <2> QED
    BY <2>1, <2>2
<1>6. (Spells = {} => ResultsTruthful)'
  <2>1. done[c] = "no" /\ rc' = [rc EXCEPT ![c] = "noconn"]
    BY DEF IInv, ClientInv, Early, ConnectInterrupted, Return, Leave
  <2>2. done' = done /\ rc \in [Client -> {"none", "ok", "err", "nosock", "noconn", "eof"}]
    BY DEF IInv, TypeOK, ConnectInterrupted
  <2> QED
    BY <2>1, <2>2 DEF IInv, ResultsTruthful
<1>7. AtMostOnce'
  BY DEF IInv, AtMostOnce, ConnectInterrupted, daemonVars, clientVars, netVars
<1>8. HeadInv'
  BY DEF IInv, TypeOK, HeadInv, ClientInv, Late, ConnectInterrupted, Return, Leave, Goto, daemonVars, clientVars, netVars
<1> QED
  BY <1>1, <1>2, <1>3, <1>4, <1>5, <1>6, <1>7, <1>8 DEF IInv

(* A connection enters the queue once, at its end.                         *)
LEMMA ConnectKeeps ==
  ASSUME IInv, NEW c \in Client, Connect(c)
  PROVE  IInv'
<1>1. TypeOK'
  BY DEF IInv, TypeOK, Connect, Goto, daemonVars, clientVars, netVars
<1>2. ClientInv'
  BY DEF IInv, TypeOK, ClientInv, Early, Late, Connect, Goto
<1>3. QueueInv'
  <2>1. \A i \in 1 .. Len(backlog) : backlog[i] # c
    BY DEF IInv, QueueInv, Connect, Late
  <2>2. /\ Len(backlog') = Len(backlog) + 1
        /\ backlog'[Len(backlog) + 1] = c
        /\ \A i \in 1 .. Len(backlog) : backlog'[i] = backlog[i]
    BY DEF Connect
  <2>3. ~(cur = c /\ serving = "open")
    BY DEF IInv, ServedInv, Connect, Late
  <2>4. down[c] = "none" /\ up[c] = "none"
    BY DEF IInv, TypeOK, ClientInv, Connect
  <2>5. ASSUME NEW i \in 1 .. Len(backlog')
        PROVE  /\ cpc'[backlog'[i]] \in Late \cup {"dead", "gone"}
               /\ cpc'[backlog'[i]] \notin {"dead", "gone"} =>
                    link'[backlog'[i]] = "up" /\ down'[backlog'[i]] = "none"
               /\ up'[backlog'[i]] \notin {"taken", "beyond"}
               /\ ~(cur' = backlog'[i] /\ serving' = "open")
    <3>1. CASE i = Len(backlog) + 1
      BY <2>2, <2>3, <2>4, <3>1 DEF IInv, TypeOK, Late, Connect, Goto, daemonVars
    <3>2. CASE i \in 1 .. Len(backlog)
      <4>1. backlog[i] \in Client /\ backlog[i] # c /\ backlog'[i] = backlog[i]
        BY <2>1, <2>2, <3>2 DEF IInv, TypeOK
      <4>2. /\ cpc'[backlog[i]] = cpc[backlog[i]] /\ link'[backlog[i]] = link[backlog[i]]
            /\ UNCHANGED <<down, up, cur, serving>>
        BY <4>1 DEF IInv, TypeOK, Connect, Goto, daemonVars
      <4> QED
        <5>1. /\ cpc[backlog[i]] \in Late \cup {"dead", "gone"}
              /\ cpc[backlog[i]] \notin {"dead", "gone"} =>
                   link[backlog[i]] = "up" /\ down[backlog[i]] = "none"
              /\ up[backlog[i]] \notin {"taken", "beyond"}
              /\ ~(cur = backlog[i] /\ serving = "open")
          BY <3>2 DEF IInv, QueueInv
        <5> QED
          BY <4>1, <4>2, <5>1
    <3> QED
      BY <2>2, <3>1, <3>2
  <2>6. \A i, j \in 1 .. Len(backlog') : backlog'[i] = backlog'[j] => i = j
    BY <2>1, <2>2 DEF IInv, QueueInv
  <2> QED
    BY <2>5, <2>6 DEF QueueInv
<1>4. ServedInv'
  BY DEF IInv, ServedInv, Late, Connect, Goto, daemonVars, clientVars, netVars
<1>5. LineInv'
  BY DEF IInv, LineInv, Connect, Goto, daemonVars, clientVars, netVars
<1>6. (Spells = {} => ResultsTruthful)'
  BY DEF IInv, ResultsTruthful, Connect
<1>7. AtMostOnce'
  BY DEF IInv, AtMostOnce, Connect
<1>8. HeadInv'
  BY DEF IInv, TypeOK, HeadInv, ClientInv, Late, Connect, Goto, daemonVars, clientVars, netVars
<1> QED
  BY <1>1, <1>2, <1>3, <1>4, <1>5, <1>6, <1>7, <1>8 DEF IInv

(* A line written at once has had no effect and no reply yet.              *)
LEMMA WriteAllKeeps ==
  ASSUME IInv, NEW c \in Client, WriteAll(c)
  PROVE  IInv'
<1>1. TypeOK'
  BY DEF IInv, TypeOK, WriteAll, Goto, daemonVars, clientVars, netVars
<1>2. ClientInv'
  BY DEF IInv, TypeOK, ClientInv, Early, Late, WriteAll, Goto
<1>3. QueueInv'
  BY DEF IInv, QueueInv, Late, WriteAll, Goto, daemonVars, clientVars, netVars
<1>4. ServedInv'
  BY DEF IInv, ServedInv, Late, WriteAll, Goto, daemonVars, clientVars, netVars
<1>5. LineInv'
  BY DEF IInv, LineInv, WriteAll, Goto, daemonVars, clientVars, netVars
<1>6. (Spells = {} => ResultsTruthful)'
  BY DEF IInv, ResultsTruthful, WriteAll
<1>7. AtMostOnce'
  BY DEF IInv, AtMostOnce, WriteAll
<1>8. HeadInv'
  BY DEF IInv, TypeOK, HeadInv, ClientInv, Late, WriteAll, Goto, daemonVars, clientVars, netVars
<1> QED
  BY <1>1, <1>2, <1>3, <1>4, <1>5, <1>6, <1>7, <1>8 DEF IInv

(* Nor has one of which dprintf has written the head.                      *)
LEMMA WriteHeadKeeps ==
  ASSUME IInv, NEW c \in Client, WriteHead(c)
  PROVE  IInv'
<1>1. TypeOK'
  BY DEF IInv, TypeOK, WriteHead, Goto, daemonVars, clientVars, netVars
<1>2. ClientInv'
  BY DEF IInv, TypeOK, ClientInv, Early, Late, WriteHead, Goto
<1>3. QueueInv'
  BY DEF IInv, QueueInv, Late, WriteHead, Goto, daemonVars, clientVars, netVars
<1>4. ServedInv'
  BY DEF IInv, ServedInv, Late, WriteHead, Goto, daemonVars, clientVars, netVars
<1>5. LineInv'
  BY DEF IInv, LineInv, WriteHead, Goto, daemonVars, clientVars, netVars
<1>6. (Spells = {} => ResultsTruthful)'
  BY DEF IInv, ResultsTruthful, WriteHead
<1>7. AtMostOnce'
  BY DEF IInv, AtMostOnce, WriteHead
<1>8. HeadInv'
  BY DEF IInv, TypeOK, HeadInv, ClientInv, Late, WriteHead, Goto, daemonVars, clientVars, netVars
<1> QED
  BY <1>1, <1>2, <1>3, <1>4, <1>5, <1>6, <1>7, <1>8 DEF IInv

(* Nor has one whose rest follows, whether the head was read or not.       *)
LEMMA WriteRestKeeps ==
  ASSUME IInv, NEW c \in Client, WriteRest(c)
  PROVE  IInv'
<1>1. TypeOK'
  BY DEF IInv, TypeOK, WriteRest, Goto, daemonVars, clientVars, netVars
<1>2. ClientInv'
  BY DEF IInv, TypeOK, ClientInv, Early, Late, WriteRest, Goto
<1>3. QueueInv'
  BY DEF IInv, QueueInv, Late, WriteRest, Goto, daemonVars, clientVars, netVars
<1>4. ServedInv'
  BY DEF IInv, ServedInv, Late, WriteRest, Goto, daemonVars, clientVars, netVars
<1>5. LineInv'
  BY DEF IInv, TypeOK, LineInv, ServedInv, ClientInv, WriteRest, Goto, daemonVars, clientVars, netVars
<1>6. (Spells = {} => ResultsTruthful)'
  BY DEF IInv, ResultsTruthful, WriteRest
<1>7. AtMostOnce'
  BY DEF IInv, AtMostOnce, WriteRest
<1>8. HeadInv'
  BY DEF IInv, TypeOK, HeadInv, ClientInv, Late, WriteRest, Goto, daemonVars, clientVars, netVars
<1> QED
  BY <1>1, <1>2, <1>3, <1>4, <1>5, <1>6, <1>7, <1>8 DEF IInv

(* A write to a dead daemon that goes unnoticed leaves the line unsent.    *)
LEMMA WriteFailsKeeps ==
  ASSUME IInv, NEW c \in Client, WriteFails(c)
  PROVE  IInv'
<1>1. TypeOK'
  BY DEF IInv, TypeOK, WriteFails, Goto, daemonVars, clientVars, netVars
<1>2. ClientInv'
  BY DEF IInv, ClientInv, Early, Late, WriteFails, Goto
<1>3. QueueInv'
  BY DEF IInv, QueueInv, WriteFails, Goto, daemonVars, clientVars, netVars
<1>4. ServedInv'
  BY DEF IInv, ServedInv, WriteFails, Goto, daemonVars, clientVars, netVars
<1>5. LineInv'
  <2>1. CASE cur = c
    BY <2>1 DEF IInv, TypeOK, LineInv, ServedInv, ClientInv, WriteFails, Goto, daemonVars, clientVars, netVars
  <2>2. CASE cur # c
    BY DEF IInv, LineInv, WriteFails, Goto, daemonVars, clientVars, netVars
  <2> QED
    BY <2>1, <2>2
<1>6. (Spells = {} => ResultsTruthful)'
  BY DEF IInv, ResultsTruthful, WriteFails
<1>7. AtMostOnce'
  BY DEF IInv, AtMostOnce, WriteFails
<1>8. HeadInv'
  BY DEF IInv, TypeOK, HeadInv, ClientInv, Late, WriteFails, Goto, daemonVars, clientVars, netVars
<1> QED
  BY <1>1, <1>2, <1>3, <1>4, <1>5, <1>6, <1>7, <1>8 DEF IInv

(* A write to a dead daemon takes the whole process with it.               *)
LEMMA WriteKillsKeeps ==
  ASSUME IInv, NEW c \in Client, WriteKills(c)
  PROVE  IInv'
<1>1. TypeOK'
  BY DEF IInv, TypeOK, WriteKills, Dies, daemonVars, clientVars, netVars
<1>2. ClientInv'
  BY DEF IInv, ClientInv, Early, Late, WriteKills, Dies
<1>3. QueueInv'
  <2>1. UNCHANGED <<backlog, cur, serving, up>>
    BY DEF WriteKills, daemonVars
  <2>2. \A d \in Client : \/ cpc'[d] = "dead"
                          \/ cpc'[d] = cpc[d] /\ link'[d] = link[d] /\ down'[d] = down[d]
    BY DEF WriteKills, Dies
  <2>3. \A i \in 1 .. Len(backlog) : backlog[i] \in Client
    BY DEF IInv, TypeOK
  <2> QED
    BY <2>1, <2>2, <2>3 DEF IInv, QueueInv
<1>4. ServedInv'
  BY DEF IInv, TypeOK, ServedInv, WriteKills, Dies, daemonVars, clientVars, netVars
<1>5. LineInv'
  BY DEF IInv, TypeOK, LineInv, ServedInv, WriteKills, Dies, daemonVars, clientVars,
         netVars
<1>6. (Spells = {} => ResultsTruthful)'
  BY DEF IInv, ResultsTruthful, WriteKills
<1>7. AtMostOnce'
  BY DEF IInv, AtMostOnce, WriteKills
<1>8. HeadInv'
  BY DEF IInv, TypeOK, HeadInv, ClientInv, Late, WriteKills, Dies, Goto, daemonVars, clientVars, netVars
<1> QED
  BY <1>1, <1>2, <1>3, <1>4, <1>5, <1>6, <1>7, <1>8 DEF IInv

(* The first reply is that of the line itself: the result it gives is      *)
(* true.                                                                   *)
LEMMA ReadReplyKeeps ==
  ASSUME IInv, NEW c \in Client, ReadReply(c)
  PROVE  IInv'
<1>1. TypeOK'
  BY DEF IInv, TypeOK, ReadReply, Return, Leave, Goto, daemonVars, clientVars, netVars
<1>2. ClientInv'
  BY DEF IInv, TypeOK, ClientInv, Early, Late, ReadReply, Return, Leave, Goto, daemonVars,
         clientVars, netVars
<1>3. QueueInv'
  BY DEF IInv, QueueInv, ReadReply, Return, Leave, Goto, daemonVars, clientVars, netVars
<1>4. ServedInv'
  BY DEF IInv, TypeOK, ServedInv, ReadReply, Return, Leave, Goto, daemonVars, clientVars, netVars
<1>5. LineInv'
  <2>1. CASE cur = c
    BY <2>1 DEF IInv, TypeOK, LineInv, ClientInv, ReadReply, Return, Leave, Goto, daemonVars, clientVars, netVars
  <2>2. CASE cur # c
    BY <2>2 DEF IInv, TypeOK, LineInv, ServedInv, ReadReply, Return, Leave, Goto, daemonVars, clientVars, netVars
  <2> QED
    BY <2>1, <2>2
<1>6. (Spells = {} => ResultsTruthful)'
  <2>1. /\ down[c] = "OK" /\ Spells = {} => done[c] \in {"once", "blind"}
        /\ down[c] # "OK" => done[c] = "no"
        /\ rc' = [rc EXCEPT ![c] = IF down[c] = "OK" THEN "ok" ELSE "err"]
    BY DEF IInv, TypeOK, ClientInv, Reply, ReadReply, Return, Leave
  <2>2. done' = done /\ rc \in [Client -> {"none", "ok", "err", "nosock", "noconn", "eof"}]
    BY DEF IInv, TypeOK, ReadReply
  <2> QED
    BY <2>1, <2>2 DEF IInv, ResultsTruthful
<1>7. AtMostOnce'
  BY DEF IInv, AtMostOnce, ReadReply, daemonVars, clientVars, netVars
<1>8. HeadInv'
  BY DEF IInv, TypeOK, HeadInv, ClientInv, Late, ReadReply, Return, Leave, Goto, daemonVars, clientVars, netVars
<1> QED
  BY <1>1, <1>2, <1>3, <1>4, <1>5, <1>6, <1>7, <1>8 DEF IInv

(* A connection that was lost gives -4, which claims nothing.              *)
LEMMA ReadFailsKeeps ==
  ASSUME IInv, NEW c \in Client, ReadFails(c)
  PROVE  IInv'
<1>1. TypeOK'
  BY DEF IInv, TypeOK, ReadFails, Return, Leave, Goto, daemonVars, clientVars, netVars
<1>2. ClientInv'
  BY DEF IInv, TypeOK, ClientInv, Early, Late, ReadFails, Return, Leave, Goto, daemonVars,
         clientVars, netVars
<1>3. QueueInv'
  BY DEF IInv, QueueInv, Late, ReadFails, Return, Leave, Goto, daemonVars, clientVars, netVars
<1>4. ServedInv'
  BY DEF IInv, ServedInv, ReadFails, Return, Leave, Goto, daemonVars, clientVars, netVars
<1>5. LineInv'
  BY DEF IInv, LineInv, ServedInv, ReadFails, Return, Leave, Goto, daemonVars, clientVars,
         netVars
<1>6. (Spells = {} => ResultsTruthful)'
  BY DEF IInv, ResultsTruthful, ReadFails, Return, Leave, daemonVars, clientVars, netVars
<1>7. AtMostOnce'
  BY DEF IInv, AtMostOnce, ReadFails, daemonVars, clientVars, netVars
<1>8. HeadInv'
  BY DEF IInv, TypeOK, HeadInv, ClientInv, Late, ReadFails, Return, Leave, Goto, daemonVars, clientVars, netVars
<1> QED
  BY <1>1, <1>2, <1>3, <1>4, <1>5, <1>6, <1>7, <1>8 DEF IInv

(* A read that is interrupted leaves the line to the daemon and claims     *)
(* nothing.                                                                *)
LEMMA ReadInterruptedKeeps ==
  ASSUME IInv, NEW c \in Client, ReadInterrupted(c)
  PROVE  IInv'
<1>1. TypeOK'
  BY DEF IInv, TypeOK, ReadInterrupted, Leave, Goto, daemonVars, clientVars, netVars
<1>2. ClientInv'
  BY DEF IInv, TypeOK, ClientInv, Early, Late, ReadInterrupted, Leave, Goto, daemonVars,
         clientVars, netVars
<1>3. QueueInv'
  BY DEF IInv, TypeOK, QueueInv, Late, ReadInterrupted, Leave, Goto, daemonVars, clientVars, netVars
<1>4. ServedInv'
  BY DEF IInv, TypeOK, ServedInv, ReadInterrupted, Leave, Goto, daemonVars, clientVars, netVars
<1>5. LineInv'
  BY DEF IInv, LineInv, ServedInv, ReadInterrupted, Leave, Goto, daemonVars, clientVars,
         netVars
<1>6. (Spells = {} => ResultsTruthful)'
  BY DEF IInv, ResultsTruthful, ReadInterrupted, Leave, daemonVars, clientVars, netVars
<1>7. AtMostOnce'
  BY DEF IInv, AtMostOnce, ReadInterrupted, daemonVars, clientVars, netVars
<1>8. HeadInv'
  BY DEF IInv, TypeOK, HeadInv, ClientInv, Late, ReadInterrupted, Leave, Goto, daemonVars, clientVars, netVars
<1> QED
  BY <1>1, <1>2, <1>3, <1>4, <1>5, <1>6, <1>7, <1>8 DEF IInv

(* A killed process leaves its lines to the daemon and reads no reply.     *)
LEMMA KillKeeps ==
  ASSUME IInv, NEW p \in Process, Kill(p)
  PROVE  IInv'
<1>1. TypeOK'
  BY DEF IInv, TypeOK, Kill, Dies, daemonVars, clientVars, netVars
<1>2. ClientInv'
  BY DEF IInv, ClientInv, Early, Late, Kill, Dies
<1>3. QueueInv'
  BY DEF IInv, TypeOK, QueueInv, Kill, Dies, daemonVars, clientVars, netVars
<1>4. ServedInv'
  BY DEF IInv, TypeOK, ServedInv, Kill, Dies, daemonVars, clientVars, netVars
<1>5. LineInv'
  BY DEF IInv, TypeOK, LineInv, ServedInv, Kill, Dies, daemonVars, clientVars, netVars
<1>6. (Spells = {} => ResultsTruthful)'
  BY DEF IInv, ResultsTruthful, Kill
<1>7. AtMostOnce'
  BY DEF IInv, AtMostOnce, Kill
<1>8. HeadInv'
  BY DEF IInv, TypeOK, HeadInv, ClientInv, Late, Kill, Dies, Goto, daemonVars, clientVars, netVars
<1> QED
  BY <1>1, <1>2, <1>3, <1>4, <1>5, <1>6, <1>7, <1>8 DEF IInv

(* A daemon that comes up serves nobody.                                   *)
LEMMA RespawnKeeps ==
  ASSUME IInv, Respawn
  PROVE  IInv'
<1>1. TypeOK'
  BY DEF IInv, TypeOK, Respawn, daemonVars, clientVars, netVars
<1>2. ClientInv'
  BY DEF IInv, ClientInv, Respawn, daemonVars, clientVars, netVars
<1>3. QueueInv'
  BY DEF IInv, QueueInv, Respawn, daemonVars, clientVars, netVars
<1>4. ServedInv'
  BY DEF IInv, ServedInv, Respawn, daemonVars
<1>5. LineInv'
  BY DEF LineInv, Respawn, daemonVars
<1>6. (Spells = {} => ResultsTruthful)'
  BY DEF IInv, ResultsTruthful, Respawn, daemonVars, clientVars
<1>7. AtMostOnce'
  BY DEF IInv, AtMostOnce, Respawn, daemonVars
<1>8. HeadInv'
  BY DEF IInv, TypeOK, HeadInv, ClientInv, Late, Respawn, Goto, daemonVars, clientVars, netVars
<1> QED
  BY <1>1, <1>2, <1>3, <1>4, <1>5, <1>6, <1>7, <1>8 DEF IInv

(* Nor does its first initialisation of the panel.                         *)
LEMMA InitHwKeeps ==
  ASSUME IInv, InitHw
  PROVE  IInv'
<1>1. TypeOK'
  BY BoundAssumption, CellsAssumption
  DEF TypeOK, BlankPanel, Panel, Addr, InitHw, daemonVars, clientVars, netVars
<1>2. ClientInv'
  BY DEF IInv, ClientInv, InitHw, daemonVars, clientVars, netVars
<1>3. QueueInv'
  BY DEF IInv, QueueInv, InitHw, daemonVars, clientVars, netVars
<1>4. ServedInv'
  BY DEF IInv, ServedInv, InitHw, daemonVars
<1>5. LineInv'
  BY DEF LineInv, InitHw, daemonVars
<1>6. (Spells = {} => ResultsTruthful)'
  BY DEF IInv, ResultsTruthful, InitHw, daemonVars, clientVars
<1>7. AtMostOnce'
  BY DEF IInv, AtMostOnce, InitHw, daemonVars
<1>8. HeadInv'
  BY DEF IInv, TypeOK, HeadInv, ClientInv, Late, InitHw, Goto, daemonVars, clientVars, netVars
<1> QED
  BY <1>1, <1>2, <1>3, <1>4, <1>5, <1>6, <1>7, <1>8 DEF IInv

(* The connection accepted leaves the queue for good.                      *)
LEMMA AcceptKeeps ==
  ASSUME IInv, Accept
  PROVE  IInv'
<1>1. TypeOK'
  BY DEF IInv, TypeOK, Accept, daemonVars, clientVars, netVars
<1>2. ClientInv'
  BY DEF IInv, ClientInv, Accept, daemonVars, clientVars, netVars
<1>3. QueueInv'
  <2>1. /\ backlog \in Seq(Client) /\ backlog # <<>>
        /\ backlog' = Tail(backlog) /\ cur' = backlog[1]
    BY DEF IInv, TypeOK, Accept
  <2>2. /\ \A i \in 1 .. Len(backlog') : i + 1 \in 1 .. Len(backlog) /\ backlog'[i] = backlog[i + 1]
        /\ 1 \in 1 .. Len(backlog)
    BY <2>1
  <2>3. \A i \in 1 .. Len(backlog') : backlog'[i] # cur'
    <3> SUFFICES ASSUME NEW i \in 1 .. Len(backlog'), backlog'[i] = cur' PROVE FALSE
      OBVIOUS
    <3>1. backlog[i + 1] = backlog[1] /\ i + 1 # 1
      BY <2>1, <2>2
    <3> QED
      BY <2>2, <3>1 DEF IInv, QueueInv
  <2>4. \A i, j \in 1 .. Len(backlog') : backlog'[i] = backlog'[j] => i = j
    <3> SUFFICES ASSUME NEW i \in 1 .. Len(backlog'), NEW j \in 1 .. Len(backlog'),
                        backlog'[i] = backlog'[j]
                 PROVE  i = j
      OBVIOUS
    <3>1. i + 1 = j + 1
      BY <2>2 DEF IInv, QueueInv
    <3> QED
      BY <2>1, <3>1
  <2>5. cpc' = cpc /\ link' = link /\ down' = down /\ up' = up
    BY DEF Accept, clientVars
  <2> QED
    BY <2>2, <2>3, <2>4, <2>5 DEF IInv, QueueInv
<1>4. ServedInv'
  BY ClientAssumption
  DEF IInv, TypeOK, ServedInv, QueueInv, Accept, daemonVars, clientVars, netVars
<1>5. LineInv'
  BY DEF LineInv, Accept, daemonVars
<1>6. (Spells = {} => ResultsTruthful)'
  BY DEF IInv, ResultsTruthful, Accept, daemonVars, clientVars, netVars
<1>7. AtMostOnce'
  BY DEF IInv, AtMostOnce, Accept, daemonVars
<1>8. HeadInv'
  BY DEF IInv, TypeOK, HeadInv, ClientInv, Late, Accept, Goto, daemonVars, clientVars, netVars
<1> QED
  BY <1>1, <1>2, <1>3, <1>4, <1>5, <1>6, <1>7, <1>8 DEF IInv

(* A piece without a line feed is dropped without effect.                  *)
LEMMA RecvPartialKeeps ==
  ASSUME IInv, RecvPartial
  PROVE  IInv'
<1>1. TypeOK'
  BY DEF IInv, TypeOK, RecvPartial, HeadAlone, daemonVars, clientVars, netVars
<1>2. ClientInv'
  BY DEF IInv, TypeOK, ClientInv, RecvPartial, HeadAlone, daemonVars, clientVars
<1>3. QueueInv'
  BY DEF IInv, QueueInv, RecvPartial, HeadAlone, daemonVars, clientVars, netVars
<1>4. ServedInv'
  BY DEF IInv, ServedInv, RecvPartial, HeadAlone, daemonVars, clientVars, netVars
<1>5. LineInv'
  BY DEF LineInv, RecvPartial, HeadAlone, daemonVars
<1>6. (Spells = {} => ResultsTruthful)'
  BY DEF IInv, ResultsTruthful, RecvPartial, clientVars
<1>7. AtMostOnce'
  BY DEF IInv, AtMostOnce, RecvPartial
<1>8. HeadInv'
  BY DEF IInv, TypeOK, HeadInv, ClientInv, Late, RecvPartial, HeadAlone, Goto, daemonVars, clientVars, netVars
<1> QED
  BY <1>1, <1>2, <1>3, <1>4, <1>5, <1>6, <1>7, <1>8 DEF IInv

(* A line taken from the socket cannot be received again.                  *)
LEMMA RecvLineKeeps ==
  ASSUME IInv, RecvLine
  PROVE  IInv'
<1>1. TypeOK'
  <2>1. cur \in Client /\ req[cur].junk \in Nat
    BY RequestFields DEF IInv, TypeOK, ServedInv, RecvLine
  <2>2. up' \in [Client -> {"none", "head", "all", "tail", "taken", "beyond"}] /\ dpc' = "exec"
        /\ line' \in {"whole", "torn", "junk"} /\ todo' \in Nat
    BY <2>1 DEF IInv, TypeOK, RecvLine, Take
  <2> QED
    BY <2>2 DEF IInv, TypeOK, RecvLine, clientVars
<1>2. ClientInv'
  BY DEF IInv, TypeOK, ClientInv, RecvLine, Take, daemonVars, clientVars, netVars
<1>3. QueueInv'
  BY DEF IInv, TypeOK, QueueInv, RecvLine, Take, daemonVars, clientVars, netVars
<1>4. ServedInv'
  BY DEF IInv, ServedInv, RecvLine, Take, daemonVars, clientVars, netVars
<1>5. LineInv'
  BY DEF IInv, TypeOK, LineInv, ServedInv, ClientInv, HeadInv, RecvLine, Take, daemonVars,
         clientVars, netVars
<1>6. (Spells = {} => ResultsTruthful)'
  BY DEF IInv, ResultsTruthful, RecvLine, daemonVars, clientVars, netVars
<1>7. AtMostOnce'
  BY DEF IInv, AtMostOnce, RecvLine, daemonVars
<1>8. HeadInv'
  BY DEF IInv, TypeOK, HeadInv, ClientInv, Late, RecvLine, Take, Goto, daemonVars, clientVars, netVars
<1> QED
  BY <1>1, <1>2, <1>3, <1>4, <1>5, <1>6, <1>7, <1>8 DEF IInv

(* Nor can a head that holds a line feed.                                  *)
LEMMA RecvHeadKeeps ==
  ASSUME IInv, RecvHead
  PROVE  IInv'
<1>1. TypeOK'
  <2>1. cur \in Client /\ req[cur].junk \in Nat
    BY RequestFields DEF IInv, TypeOK, ServedInv, RecvHead
  <2>2. up' \in [Client -> {"none", "head", "all", "tail", "taken", "beyond"}] /\ dpc' = "exec"
        /\ line' = "whole" /\ todo' \in Nat
    BY <2>1 DEF IInv, TypeOK, RecvHead, HeadAlone, Take
  <2> QED
    BY <2>2 DEF IInv, TypeOK, RecvHead, clientVars
<1>2. ClientInv'
  BY DEF IInv, TypeOK, ClientInv, RecvHead, HeadAlone, Take, daemonVars, clientVars, netVars
<1>3. QueueInv'
  BY DEF IInv, TypeOK, QueueInv, RecvHead, Take, daemonVars, clientVars, netVars
<1>4. ServedInv'
  BY DEF IInv, ServedInv, RecvHead, HeadAlone, Take, daemonVars, clientVars, netVars
<1>5. LineInv'
  BY DEF IInv, TypeOK, LineInv, ServedInv, ClientInv, RecvHead, HeadAlone, Take, daemonVars,
         clientVars, netVars
<1>6. (Spells = {} => ResultsTruthful)'
  BY DEF IInv, ResultsTruthful, RecvHead, daemonVars, clientVars, netVars
<1>7. AtMostOnce'
  BY DEF IInv, AtMostOnce, RecvHead, daemonVars
<1>8. HeadInv'
  BY DEF IInv, TypeOK, HeadInv, ClientInv, Late, RecvHead, HeadAlone, Take, Goto, daemonVars, clientVars, netVars
<1> QED
  BY <1>1, <1>2, <1>3, <1>4, <1>5, <1>6, <1>7, <1>8 DEF IInv

(* The connection of a client that has closed is given up.                 *)
LEMMA RecvEndKeeps ==
  ASSUME IInv, RecvEnd
  PROVE  IInv'
<1>1. TypeOK'
  BY DEF IInv, TypeOK, RecvEnd, daemonVars, clientVars, netVars
<1>2. ClientInv'
  BY DEF IInv, ClientInv, RecvEnd, daemonVars, clientVars, netVars
<1>3. QueueInv'
  BY DEF IInv, QueueInv, RecvEnd, daemonVars, clientVars, netVars
<1>4. ServedInv'
  BY DEF ServedInv, RecvEnd, daemonVars
<1>5. LineInv'
  BY DEF LineInv, RecvEnd, daemonVars
<1>6. (Spells = {} => ResultsTruthful)'
  BY DEF IInv, ResultsTruthful, RecvEnd, daemonVars, clientVars
<1>7. AtMostOnce'
  BY DEF IInv, AtMostOnce, RecvEnd, daemonVars
<1>8. HeadInv'
  BY DEF IInv, TypeOK, HeadInv, ClientInv, Late, RecvEnd, Hungup, Goto, daemonVars, clientVars, netVars
<1> QED
  BY <1>1, <1>2, <1>3, <1>4, <1>5, <1>6, <1>7, <1>8 DEF IInv

(* A line is carried out for the first time, and owed an OK.               *)
LEMMA ExecKeeps ==
  ASSUME IInv, Exec
  PROVE  IInv'
<1>1. TypeOK'
  <2>1. cur \in Client
    BY DEF IInv, TypeOK, ServedInv, Exec
  <2>2. panel' \in Panel
    BY <2>1, DisplayType, ClientAssumption DEF IInv, TypeOK, Exec, Drive
  <2>3. handles' \in 0 .. MaxHandles /\ hw' \in {"ok", "bad"}
    BY BoundAssumption DEF IInv, TypeOK, Exec, Drive
  <2> QED
    BY <2>2, <2>3
    DEF IInv, TypeOK, Reply, Exec, Performed, Owe, daemonVars, clientVars, netVars
<1>2. ClientInv'
  BY DEF IInv, ClientInv, Early, LineInv, Exec, Performed, daemonVars, clientVars, netVars
<1>3. QueueInv'
  BY DEF IInv, QueueInv, Exec, daemonVars, clientVars, netVars
<1>4. ServedInv'
  BY DEF IInv, ServedInv, Exec, Owe, daemonVars, clientVars, netVars
<1>5. LineInv'
  BY DEF IInv, TypeOK, LineInv, ServedInv, Reply, Exec, Performed, Owe, daemonVars,
         clientVars, netVars
<1>6. (Spells = {} => ResultsTruthful)'
  BY DEF IInv, ResultsTruthful, LineInv, Exec, Performed, daemonVars, clientVars
<1>7. AtMostOnce'
  BY DEF IInv, AtMostOnce, LineInv, Exec, Performed, daemonVars
<1>8. HeadInv'
  BY DEF IInv, TypeOK, HeadInv, ClientInv, Late, Exec, Owe, Goto, daemonVars, clientVars, netVars
<1> QED
  BY <1>1, <1>2, <1>3, <1>4, <1>5, <1>6, <1>7, <1>8 DEF IInv

(* A line that is not understood has no effect, and is owed an ERR.        *)
LEMMA ExecUnknownKeeps ==
  ASSUME IInv, ExecUnknown
  PROVE  IInv'
<1>1. TypeOK'
  BY DEF IInv, TypeOK, Reply, ExecUnknown, Owe, daemonVars, clientVars, netVars
<1>2. ClientInv'
  BY DEF IInv, ClientInv, ExecUnknown, daemonVars, clientVars, netVars
<1>3. QueueInv'
  BY DEF IInv, QueueInv, ExecUnknown, daemonVars, clientVars, netVars
<1>4. ServedInv'
  BY DEF IInv, ServedInv, ExecUnknown, Owe, daemonVars, clientVars, netVars
<1>5. LineInv'
  BY DEF IInv, LineInv, Reply, ExecUnknown, Owe, daemonVars, clientVars, netVars
<1>6. (Spells = {} => ResultsTruthful)'
  BY DEF IInv, ResultsTruthful, ExecUnknown, daemonVars, clientVars
<1>7. AtMostOnce'
  BY DEF IInv, AtMostOnce, ExecUnknown, daemonVars
<1>8. HeadInv'
  BY DEF IInv, TypeOK, HeadInv, ClientInv, Late, ExecUnknown, Owe, Goto, daemonVars, clientVars, netVars
<1> QED
  BY <1>1, <1>2, <1>3, <1>4, <1>5, <1>6, <1>7, <1>8 DEF IInv

(* A leftover that spells a command has an effect, but not that of the     *)
(* line.                                                                   *)
LEMMA ExecStrayKeeps ==
  ASSUME IInv, ExecStray
  PROVE  IInv'
<1>1. TypeOK'
  <2>1. cur \in Client
    BY DEF IInv, TypeOK, ServedInv, ExecStray
  <2>2. panel' \in Panel
    BY <2>1, DisplayType, ClientAssumption DEF IInv, TypeOK, ExecStray, Drive
  <2>3. handles' \in 0 .. MaxHandles /\ hw' \in {"ok", "bad"}
    BY BoundAssumption DEF IInv, TypeOK, ExecStray, Drive
  <2> QED
    BY <2>2, <2>3 DEF IInv, TypeOK, Reply, ExecStray, Owe, daemonVars, clientVars, netVars
<1>2. ClientInv'
  BY DEF IInv, ClientInv, ExecStray, daemonVars, clientVars, netVars
<1>3. QueueInv'
  BY DEF IInv, QueueInv, ExecStray, daemonVars, clientVars, netVars
<1>4. ServedInv'
  BY DEF IInv, ServedInv, ExecStray, Owe, daemonVars, clientVars, netVars
<1>5. LineInv'
  BY DEF IInv, LineInv, Reply, ExecStray, Owe, daemonVars, clientVars, netVars
<1>6. (Spells = {} => ResultsTruthful)'
  BY DEF ExecStray, daemonVars
<1>7. AtMostOnce'
  BY DEF IInv, AtMostOnce, ExecStray, daemonVars
<1>8. HeadInv'
  BY DEF IInv, TypeOK, HeadInv, ClientInv, Late, ExecStray, Owe, Goto, daemonVars, clientVars, netVars
<1> QED
  BY <1>1, <1>2, <1>3, <1>4, <1>5, <1>6, <1>7, <1>8 DEF IInv

(* The reply sent first is the one to the line itself.                     *)
LEMMA SendReplyKeeps ==
  ASSUME IInv, SendReply
  PROVE  IInv'
<1>1. TypeOK'
  <2>1. cur \in Client /\ owe \in Reply
    BY DEF IInv, TypeOK, ServedInv, LineInv, SendReply
  <2>2. todo' \in Nat /\ line' \in {"none", "junk"} /\ dpc' \in {"exec", "recv"}
    BY DEF IInv, TypeOK, SendReply
  <2> QED
    BY <2>2 DEF IInv, TypeOK, SendReply, daemonVars, clientVars, netVars
<1>2. ClientInv'
  BY DEF IInv, TypeOK, ClientInv, LineInv, SendReply, Hungup, daemonVars, clientVars,
         netVars
<1>3. QueueInv'
  BY DEF IInv, TypeOK, QueueInv, SendReply, Hungup, daemonVars, clientVars, netVars
<1>4. ServedInv'
  BY DEF IInv, ServedInv, SendReply, daemonVars, clientVars, netVars
<1>5. LineInv'
  BY DEF IInv, TypeOK, LineInv, ServedInv, Reply, SendReply, daemonVars, clientVars,
         netVars
<1>6. (Spells = {} => ResultsTruthful)'
  BY DEF IInv, ResultsTruthful, SendReply, daemonVars, clientVars, netVars
<1>7. AtMostOnce'
  BY DEF IInv, AtMostOnce, SendReply, daemonVars
<1>8. HeadInv'
  BY DEF IInv, TypeOK, HeadInv, ClientInv, LineInv, ServedInv, Reply, SendReply, Hungup, Goto, daemonVars, clientVars, netVars
<1> QED
  BY <1>1, <1>2, <1>3, <1>4, <1>5, <1>6, <1>7, <1>8 DEF IInv

(* A daemon killed by SIGPIPE resets every connection.                     *)
LEMMA SigPipeKeeps ==
  ASSUME IInv, SigPipe
  PROVE  IInv'
<1>1. TypeOK'
  BY BoundAssumption DEF IInv, TypeOK, SigPipe, Stop, daemonVars, clientVars, netVars
<1>2. ClientInv'
  BY DEF IInv, ClientInv, SigPipe, Stop, daemonVars, clientVars, netVars
<1>3. QueueInv'
  BY DEF QueueInv, SigPipe, Stop, daemonVars
<1>4. ServedInv'
  BY DEF ServedInv, SigPipe, Stop, daemonVars
<1>5. LineInv'
  BY DEF LineInv, SigPipe, Stop, daemonVars
<1>6. (Spells = {} => ResultsTruthful)'
  BY DEF IInv, ResultsTruthful, SigPipe, daemonVars, clientVars, netVars
<1>7. AtMostOnce'
  BY DEF IInv, AtMostOnce, SigPipe, daemonVars
<1>8. HeadInv'
  BY DEF IInv, TypeOK, HeadInv, ClientInv, Late, SigPipe, Stop, Goto, daemonVars, clientVars, netVars
<1> QED
  BY <1>1, <1>2, <1>3, <1>4, <1>5, <1>6, <1>7, <1>8 DEF IInv

(* So does one that is killed anywhere else.                               *)
LEMMA CrashKeeps ==
  ASSUME IInv, Crash
  PROVE  IInv'
<1>1. TypeOK'
  BY BoundAssumption DEF IInv, TypeOK, Crash, Stop, daemonVars, clientVars, netVars
<1>2. ClientInv'
  BY DEF IInv, ClientInv, Crash, Stop, daemonVars, clientVars, netVars
<1>3. QueueInv'
  BY DEF QueueInv, Crash, Stop, daemonVars
<1>4. ServedInv'
  BY DEF ServedInv, Crash, Stop, daemonVars
<1>5. LineInv'
  BY DEF LineInv, Crash, Stop, daemonVars
<1>6. (Spells = {} => ResultsTruthful)'
  BY DEF IInv, ResultsTruthful, Crash, daemonVars, clientVars, netVars
<1>7. AtMostOnce'
  BY DEF IInv, AtMostOnce, Crash, daemonVars
<1>8. HeadInv'
  BY DEF IInv, TypeOK, HeadInv, ClientInv, Late, Crash, Stop, Goto, daemonVars, clientVars, netVars
<1> QED
  BY <1>1, <1>2, <1>3, <1>4, <1>5, <1>6, <1>7, <1>8 DEF IInv

(* A daemon killed within a text leaves part of it, and no reply.          *)
LEMMA CrashMidPutKeeps ==
  ASSUME IInv, CrashMidPut
  PROVE  IInv'
<1>1. TypeOK'
  <2>1. cur \in Client
    BY DEF IInv, TypeOK, ServedInv, CrashMidPut
  <2>2. panel' \in Panel
    BY <2>1, WriteType, ClientAssumption DEF IInv, TypeOK, CrashMidPut
  <2> QED
    BY <2>1, <2>2, BoundAssumption
    DEF IInv, TypeOK, CrashMidPut, Stop, daemonVars, clientVars, netVars
<1>2. ClientInv'
  BY DEF IInv, ClientInv, Early, LineInv, CrashMidPut, Stop, daemonVars, clientVars,
         netVars
<1>3. QueueInv'
  BY DEF QueueInv, CrashMidPut, Stop, daemonVars
<1>4. ServedInv'
  BY DEF ServedInv, CrashMidPut, Stop, daemonVars
<1>5. LineInv'
  BY DEF LineInv, CrashMidPut, Stop, daemonVars
<1>6. (Spells = {} => ResultsTruthful)'
  BY DEF IInv, ResultsTruthful, LineInv, CrashMidPut, daemonVars, clientVars, netVars
<1>7. AtMostOnce'
  BY DEF IInv, AtMostOnce, LineInv, CrashMidPut, daemonVars
<1>8. HeadInv'
  BY DEF IInv, TypeOK, HeadInv, ClientInv, Late, CrashMidPut, Stop, Goto, daemonVars, clientVars, netVars
<1> QED
  BY <1>1, <1>2, <1>3, <1>4, <1>5, <1>6, <1>7, <1>8 DEF IInv

-----------------------------------------------------------------------------
(* The invariant holds in every reachable state.                           *)

(* Nobody calls and no daemon runs: the invariant holds.                   *)
LEMMA InitInv == Init => IInv
<1> SUFFICES ASSUME Init PROVE IInv
  OBVIOUS
<1>1. (CHOOSE r \in Request : TRUE) \in Request
  BY RequestAssumption
<1>2. TypeOK
  BY <1>1, BoundAssumption, CellsAssumption DEF Init, TypeOK, BlankPanel, Panel, Addr
<1>3. ClientInv
  BY DEF Init, ClientInv, Late
<1>4. QueueInv
  BY DEF Init, QueueInv
<1>5. ServedInv /\ LineInv
  BY DEF Init, ServedInv, LineInv
<1>6. ResultsTruthful /\ AtMostOnce
  BY DEF Init, ResultsTruthful, AtMostOnce
<1> QED
  BY <1>2, <1>3, <1>4, <1>5, <1>6 DEF IInv, Init, HeadInv

(* It speaks of the variables only.                                        *)
LEMMA StutterKeeps == IInv /\ UNCHANGED vars => IInv'
BY DEF IInv, TypeOK, ClientInv, HeadInv, QueueInv, ServedInv, LineInv, ResultsTruthful, AtMostOnce,
       vars, daemonVars, clientVars, netVars

(* Every step of clients, daemon and their deaths keeps it.                *)
LEMMA NextKeeps == IInv /\ [Next]_vars => IInv'
<1> SUFFICES ASSUME IInv, Next PROVE IInv'
  BY StutterKeeps
<1>1. ASSUME NEW c \in Client,
             \/ Call(c) \/ SocketFails(c) \/ ClientStep(c)
             \/ ConnectInterrupted(c) \/ ReadInterrupted(c)
      PROVE  IInv'
  BY <1>1, CallKeeps, LockKeeps, SocketFailsKeeps, ConnectFailsKeeps, ConnectKeeps,
     WriteAllKeeps, WriteHeadKeeps, WriteRestKeeps, WriteFailsKeeps, WriteKillsKeeps,
     ReadReplyKeeps, ReadFailsKeeps, ConnectInterruptedKeeps, ReadInterruptedKeeps
  DEF ClientStep
<1>2. ASSUME NEW p \in Process, Kill(p)
      PROVE  IInv'
  BY <1>2, KillKeeps
<1>3. CASE Serve
  BY <1>3, InitHwKeeps, AcceptKeeps, RecvPartialKeeps, RecvHeadKeeps, RecvLineKeeps, RecvEndKeeps,
     ExecKeeps, ExecUnknownKeeps, ExecStrayKeeps, SendReplyKeeps, SigPipeKeeps
  DEF Serve
<1>4. CASE Respawn \/ Crash \/ CrashMidPut
  BY <1>4, RespawnKeeps, CrashKeeps, CrashMidPutKeeps
<1> QED
  BY <1>1, <1>2, <1>3, <1>4 DEF Next

(* The inductive invariant holds throughout.                               *)
THEOREM Invariance == Spec => []IInv
BY InitInv, NextKeeps, PTL DEF Spec

(* Every variable keeps its type: whatever clients and daemon do to one    *)
(* another, the daemon's buffers and the callers' results stay in range.   *)
THEOREM TypeCorrect == Spec => []TypeOK
<1>1. IInv => TypeOK
  BY DEF IInv
<1> QED
  BY <1>1, Invariance, PTL

(* If no leftover of a line spells a command, the value a call returns     *)
(* (evi_lcd.c:22-41) tells whether its line was carried out.               *)
THEOREM Truthful == ASSUME Spells = {} PROVE Spec => []ResultsTruthful
<1>1. IInv => ResultsTruthful
  BY DEF IInv
<1> QED
  BY <1>1, Invariance, PTL

(* No line is carried out twice (handle_client, lcdsvc.c:40-61), though    *)
(* daemon and clients may be killed at any step.                           *)
THEOREM Once == Spec => []AtMostOnce
<1>1. IInv => AtMostOnce
  BY DEF IInv
<1> QED
  BY <1>1, Invariance, PTL

(* The daemon writes to a closed connection only when the client was       *)
(* killed, a signal interrupted its wait for the reply, or its text held a *)
(* line feed and the reply is a second one.                                *)
THEOREM SigPipeNeedsAbandon == Spec => []KilledOnlyIfAbandoned
<1>1. IInv => KilledOnlyIfAbandoned
  BY DEF IInv, TypeOK, KilledOnlyIfAbandoned, ClientInv, ServedInv, LineInv, Hungup
<1> QED
  BY <1>1, Invariance, PTL

-----------------------------------------------------------------------------
(* The library keeps its promise: every step is a step of LcdApi or none.  *)

(* The panel of LcdApi obeys a line as that of LcdSvc does.                *)
LEMMA SameDisplay ==
  ASSUME NEW p, NEW m, NEW r
  PROVE  Api!Display(p, m, r) = Display(p, m, r)
BY DEF Api!Display, Display, Api!Obey, Obey, Api!BlankPanel, BlankPanel, Api!Addr, Addr

(* The two panels have the same contents.                                  *)
LEMMA SamePanel == Api!BlankPanel = BlankPanel /\ Api!Panel = Panel
BY DEF Api!BlankPanel, BlankPanel, Api!Panel, Panel, Api!Addr, Addr

(* They take text alike.                                                   *)
LEMMA SameWrite ==
  ASSUME NEW p, NEW m, NEW w
  PROVE  Api!Write(p, m, w) = Write(p, m, w)
BY DEF Api!Write, Write, Api!Addr, Addr

(* Both understand the same lines.                                         *)
LEMMA SameUnderstood ==
  ASSUME NEW r
  PROVE  Api!Understood(r) = Understood(r)
BY DEF Api!Understood, Understood

Still == UNCHANGED Api!apiVars

(* What the daemon and the network do between effects is not seen.         *)
LEMMA SilentSteps ==
  ASSUME IInv,
         \/ \E c \in Client : \/ Lock(c) \/ Connect(c) \/ WriteAll(c) \/ WriteHead(c)
                              \/ WriteRest(c) \/ WriteFails(c)
         \/ Respawn \/ Accept \/ RecvPartial \/ RecvHead \/ RecvLine \/ RecvEnd
         \/ ExecUnknown \/ SendReply \/ SigPipe \/ Crash
         \/ UNCHANGED vars
  PROVE  Still
<1>1. ASSUME NEW c \in Client,
             \/ Lock(c) \/ Connect(c) \/ WriteAll(c) \/ WriteHead(c)
             \/ WriteRest(c) \/ WriteFails(c)
      PROVE  UNCHANGED <<req, done, rc, panel>> /\ Phase' = Phase
  <2>1. UNCHANGED <<req, done, rc, panel>>
    BY <1>1 DEF Lock, Connect, WriteAll, WriteHead, WriteRest, WriteFails
  <2>2. PICK l \in {"connect", "write", "rest", "read"} :
          cpc' = [cpc EXCEPT ![c] = l] /\ cpc[c] \notin {"idle", "dead", "gone"}
    BY <1>1 DEF Lock, Connect, WriteAll, WriteHead, WriteRest, WriteFails, Goto
  <2> QED
    BY <2>1, <2>2 DEF Phase
<1>2. CASE \/ Respawn \/ Accept \/ RecvPartial \/ RecvHead \/ RecvLine \/ RecvEnd
           \/ ExecUnknown \/ SendReply \/ SigPipe \/ Crash
  <2>1. UNCHANGED <<cpc, req, done, rc, panel>>
    BY <1>2
    DEF Respawn, Accept, RecvPartial, RecvHead, RecvLine, RecvEnd, ExecUnknown, SendReply, SigPipe,
        Crash, clientVars
  <2> QED
    BY <2>1 DEF Still, Api!apiVars, Phase
<1>3. CASE UNCHANGED vars
  BY <1>3 DEF Still, Api!apiVars, Phase, vars, clientVars
<1> QED
  BY <1>1, <1>2, <1>3 DEF Still, Api!apiVars

(* A return: the result fits what has become of the line.                  *)
LEMMA ReturnSteps ==
  ASSUME IInv, Spells = {}, NEW c \in Client,
         \/ SocketFails(c) \/ ConnectFails(c) \/ ReadReply(c) \/ ReadFails(c)
         \/ ConnectInterrupted(c) \/ ReadInterrupted(c)
  PROVE  Api!Return(c)
<1>1. UNCHANGED <<req, done, panel>>
  BY DEF SocketFails, ConnectFails, ReadReply, ReadFails, ConnectInterrupted, ReadInterrupted
<1>2. /\ cpc[c] \in {"connect", "read"}
      /\ \E l \in {"idle", "gone"} : cpc' = [cpc EXCEPT ![c] = l]
  BY DEF SocketFails, ConnectFails, ReadReply, ReadFails, ConnectInterrupted, ReadInterrupted,
     Return, Leave, Goto
<1>3. Phase[c] = "called" /\ \E l \in {"idle", "gone"} : Phase' = [Phase EXCEPT ![c] = l]
  <2>1. PICK l \in {"idle", "gone"} : cpc' = [cpc EXCEPT ![c] = l]
    BY <1>2
  <2>2. Phase' = [Phase EXCEPT ![c] = l]
    BY <2>1 DEF IInv, TypeOK, Phase
  <2>3. Phase[c] = "called"
    BY <1>2 DEF Phase
  <2> QED
    BY <2>2, <2>3
<1>4. \/ rc' = [rc EXCEPT ![c] = "ok"] /\ done[c] \in {"once", "blind"}
      \/ \E e \in {"err", "nosock", "noconn"} :
           rc' = [rc EXCEPT ![c] = e] /\ done[c] = "no"
      \/ rc' = [rc EXCEPT ![c] = "eof"]
  <2>1. CASE SocketFails(c) \/ ConnectFails(c) \/ ConnectInterrupted(c)
    BY <2>1 DEF IInv, ClientInv, Early, SocketFails, ConnectFails, ConnectInterrupted, Return, Leave
  <2>2. CASE ReadReply(c)
    BY <2>2 DEF IInv, TypeOK, ClientInv, Reply, ReadReply, Return, Leave
  <2>3. CASE ReadFails(c) \/ ReadInterrupted(c)
    BY <2>3 DEF ReadFails, ReadInterrupted, Return, Leave
  <2> QED
    BY <2>1, <2>2, <2>3
<1> QED
  BY <1>1, <1>3, <1>4 DEF Api!Return

(* A line is carried out while its caller waits, or has died.              *)
LEMMA EffectSteps ==
  ASSUME IInv, Exec \/ CrashMidPut
  PROVE  Api!Apply(cur) \/ Api!ApplyBlind(cur) \/ Api!ApplyPart(cur)
<1>1. /\ cur \in Client /\ done[cur] = "no" /\ Phase[cur] # "idle"
      /\ rc[cur] \in {"none", "eof"}
  BY DEF IInv, TypeOK, ServedInv, LineInv, Exec, CrashMidPut, Phase
<1>2. UNCHANGED <<req, rc, cpc>> /\ Phase' = Phase
  BY DEF Exec, CrashMidPut, clientVars, Phase
<1>3. CASE Exec
  <2>1. Understood(req[cur])
    BY <1>3 DEF Exec
  <2>2. \/ panel' = Display(panel, cur, req[cur]) /\ done' = [done EXCEPT ![cur] = "once"]
        \/ panel' \in Panel /\ done' = [done EXCEPT ![cur] = "blind"]
    BY <1>1, <1>3 DEF Exec, Drive, Performed
  <2> QED
    BY <1>1, <1>2, <2>1, <2>2, SameDisplay, SamePanel, SameUnderstood
    DEF Api!Apply, Api!ApplyBlind, Api!Settle
<1>4. CASE CrashMidPut
  <2>1. /\ req[cur].op = "PUT"
        /\ \E k \in 1 .. req[cur].arg - 1 : panel' = Write(panel, cur, k)
    BY <1>4 DEF CrashMidPut
  <2>2. done' = [done EXCEPT ![cur] = "part"]
    BY <1>1, <1>4 DEF CrashMidPut
  <2>3. Understood(req[cur])
    BY <2>1 DEF Understood
  <2> QED
    BY <1>1, <1>2, <2>1, <2>2, <2>3, SameWrite, SameUnderstood
    DEF Api!ApplyPart, Api!Settle
<1> QED
  BY <1>3, <1>4

(* The death of a process ends the calls of its threads and nothing else.  *)
LEMMA DeathSteps ==
  ASSUME NEW p \in Process, Dies(p), UNCHANGED <<req, done, rc, panel>>
  PROVE  Api!Die
<1> DEFINE gone == {c \in Client : ProcessOf[c] = p}
<1>1. Phase' = [c \in Client |-> IF c \in gone THEN "dead" ELSE Phase[c]]
  BY DEF Dies, Phase
<1> QED
  BY <1>1 DEF Api!Die

(* Every step of LcdSvc is one of LcdApi, or none.                         *)
LEMMA StepRefines ==
  ASSUME IInv, Spells = {}, [Next]_vars
  PROVE  [Api!Next]_Api!apiVars
<1>1. ASSUME NEW c \in Client, Call(c)
      PROVE  Api!Call(c)
  BY <1>1 DEF IInv, TypeOK, Call, Goto, Phase, Api!Call
<1>2. ASSUME InitHw
      PROVE  Api!Restart
  <2>1. panel' = BlankPanel /\ UNCHANGED <<cpc, req, done, rc>>
    BY <1>2 DEF InitHw, clientVars
  <2>2. Phase' = Phase
    BY <2>1 DEF Phase
  <2> QED
    BY <2>1, <2>2, SamePanel DEF Api!Restart
<1>3. ASSUME NEW c \in Client, WriteKills(c)
      PROVE  Api!Die
  BY <1>3, DeathSteps, ClientAssumption DEF WriteKills
<1>4. ASSUME NEW p \in Process, Kill(p)
      PROVE  Api!Die
  BY <1>4, DeathSteps DEF Kill
<1>5. ASSUME ExecStray
      PROVE  FALSE
  BY <1>5 DEF ExecStray
<1>6. ASSUME Exec \/ CrashMidPut
      PROVE  Api!Next
  <2>1. cur \in Client
    BY <1>6 DEF IInv, TypeOK, ServedInv, Exec, CrashMidPut
  <2> QED
    BY <1>6, <2>1, EffectSteps DEF Api!Next
<1>7. ASSUME NEW c \in Client,
             \/ SocketFails(c) \/ ConnectFails(c) \/ ReadReply(c) \/ ReadFails(c)
             \/ ConnectInterrupted(c) \/ ReadInterrupted(c)
      PROVE  Api!Next
  BY <1>7, ReturnSteps DEF Api!Next
<1> QED
  BY <1>1, <1>2, <1>3, <1>4, <1>5, <1>6, <1>7, SilentSteps
  DEF Next, ClientStep, Serve, Still, Api!Next

(* What the daemon and the library do together is what LcdApi promises: a  *)
(* line takes effect at most once, between its call and its return, and    *)
(* the result tells.                                                       *)
THEOREM KeepsPromise == ASSUME Spells = {} PROVE Spec => Promise
<1>1. Init => Api!Init
  BY SamePanel DEF Init, Api!Init, Phase
<1>2. IInv /\ [Next]_vars => [Api!Next]_Api!apiVars
  BY StepRefines
<1> QED
  BY <1>1, <1>2, Invariance, PTL DEF Spec, Promise, Api!Spec
=============================================================================
