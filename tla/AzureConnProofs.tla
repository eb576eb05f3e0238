-------------------------- MODULE AzureConnProofs --------------------------
(***************************************************************************)
(* Theorems about AzureConn: the state is well typed, success means that   *)
(* the broker has the message, no packet is malformed without reason, a    *)
(* host is dialled by its name however it is written, and procd gives up   *)
(* only on as many failures as it has respawns.                            *)
(***************************************************************************)
EXTENDS AzureConn, TLAPS, WellFoundedInduction

Replies == {"CONNACK", "refused", "PUBACK"}
States == {"off", "load", "sas", "tcp", "tls", "connack", "puback", "done"} \cup Piece

(* How far a process has come tells what the configuration is like and     *)
(* what the broker has taken; a PUBACK on its way means that it has taken  *)
(* this process's message.                                                 *)
Progress ==
  /\ procd # "stopped" => count <= 5
  /\ pc = "sas" => cfg.auth = "sas"
  /\ line # "none" => cfg.host.name \in Name
  /\ pc \in {"tls", "connack", "puback", "done"} \cup Piece => line # "none"
  /\ pc \in {"DISCONNECT", "done"} => taken
  /\ \A i \in DOMAIN down : down[i] = "PUBACK" => taken

IInv == TypeOK /\ Progress /\ SuccessMeansPublished /\ NeverMisframed

(* PUBLISH is framed whatever the device is called, CONNECT up to 127      *)
(* bytes.                                                                  *)
LEMMA PublishFramed ==
  ASSUME NEW c \in Option
  PROVE  Framed(PublishSize(c), PublishLength(c))
<1> DEFINE v == PublishSize(c)
<1>1. v \in 95 .. 222
  BY DEF Option, PublishSize
<1>2. CASE v < 128
  BY <1>1, <1>2 DEF Framed, PublishLength
<1>3. CASE v >= 128
  <2> DEFINE low == v % 128
             high == v \div 128
  <2>1. low \in 0 .. 127 /\ high \in Nat /\ v = 128 * high + low
    BY <1>1
  <2>2. PublishLength(c) = <<128 + low, high>>
    BY <1>1, <1>3 DEF PublishLength
  <2> QED
    BY <2>1, <2>2, <1>1 DEF Framed
<1> QED
  BY <1>1, <1>2, <1>3

LEMMA ConnectIsNat ==
  ASSUME NEW c \in Option, c.host.name \in Name
  PROVE  ConnectSize(c) \in Nat
<1>1. Chars[c.host.name] \in 1 .. 255
  BY AzureAssumption DEF AzureAssumption
<1>2. c.device \in 0 .. 127
  BY DEF Option
<1>3. \A d \in 0 .. 127, h \in 1 .. 255 : 10 + (2 + d) + (2 + h + 1 + d + 24) \in Nat
  OBVIOUS
<1> QED
  BY <1>1, <1>2, <1>3 DEF ConnectSize

LEMMA ConnectFramed ==
  ASSUME NEW c \in Option, c.host.name \in Name, ConnectSize(c) <= 127
  PROVE  Framed(ConnectSize(c), ConnectLength(c))
<1>1. ConnectSize(c) \in Nat
  BY ConnectIsNat
<1> QED
  BY <1>1 DEF Framed, ConnectLength

LEMMA InitKeeps == Init => IInv
<1> SUFFICES ASSUME Init PROVE IInv
  OBVIOUS
<1>1. down = <<>> /\ up = <<>> /\ fails = 0 /\ MaxFails \in Nat
  BY AzureAssumption DEF Init, AzureAssumption
<1>2. fails \in 0 .. MaxFails
  BY <1>1
<1>3. TypeOK
  <2>1. up \in Seq(Piece) /\ down \in Seq({"CONNACK", "refused", "PUBACK"})
    BY <1>1
  <2>2. host = <<>> /\ sni = <<>> /\ pc = "load" /\ count \in 0 .. 6
    BY DEF Init
  <2> QED
    BY <1>2, <2>1, <2>2 DEF Init, TypeOK
<1>4. Progress /\ SuccessMeansPublished /\ NeverMisframed
  BY <1>1 DEF Init, Progress, Piece, SuccessMeansPublished, NeverMisframed
<1> QED
  BY <1>3, <1>4 DEF IInv

(* What an exit with c needs, and what it keeps.                           *)
LEMMA ExitKeeps ==
  ASSUME IInv, NEW c \in Code, Exit(c), fails' \in 0 .. MaxFails, pc # "off",
         c = "0" /\ cfg.auth = "x509" => taken
  PROVE  IInv'
<1> USE DEF IInv, Exit, ExitUpTo
<1>1. PICK slow \in BOOLEAN : count' = IF slow THEN 0 ELSE count + 1
  BY DEF TypeOK
<1>2. count \in 0 .. 5
  BY DEF TypeOK, Progress
<1>3. count' \in 0 .. 6 /\ procd' \in {"timer", "stopped"}
  BY <1>1, <1>2
<1>4. TypeOK'
  BY <1>3 DEF TypeOK, conn, histories
<1>5. Progress'
  BY <1>1, <1>2, <1>3 DEF Progress, Piece, conn, histories
<1>6. SuccessMeansPublished' /\ NeverMisframed'
  BY DEF SuccessMeansPublished, NeverMisframed, histories
<1> QED
  BY <1>4, <1>5, <1>6

(* A step within a process.                                                *)
LEMMA GotoKeeps ==
  ASSUME IInv, NEW to \in States \ {"off", "sas"}, Goto(to), pc # "off",
         UNCHANGED fails, to \in {"DISCONNECT", "done"} => taken,
         line' \in {"up", "gone"} /\ cfg.host.name \in Name,
         up' \in Seq(Piece), down' \in Seq(Replies), mute' = mute,
         \A i \in DOMAIN down' : down'[i] = "PUBACK" => taken
  PROVE  IInv'
<1> USE DEF IInv, Goto, histories
<1>1. TypeOK'
  BY DEF TypeOK, States, Replies
<1>2. Progress'
  BY DEF Progress
<1>3. SuccessMeansPublished' /\ NeverMisframed'
  BY DEF TypeOK, SuccessMeansPublished, NeverMisframed
<1> QED
  BY <1>1, <1>2, <1>3

(* The broker takes something from the line.                               *)
LEMMA BrokerKeeps ==
  ASSUME IInv, UNCHANGED <<cfg, procd, count, pc, host, sni, code, mute>>,
         line # "none", line' \in {"up", "gone"}, up' \in Seq(Piece), down' \in Seq(Replies),
         fails' \in 0 .. MaxFails,
         taken' \in BOOLEAN, misread' \in BOOLEAN, ever' \in BOOLEAN, taken => taken',
         \A i \in DOMAIN down' : down'[i] = "PUBACK" => taken',
         misread' => misread \/ ConnectSize(cfg) > 127
  PROVE  IInv'
<1> USE DEF IInv
<1>1. TypeOK'
  BY DEF TypeOK, Replies
<1>2. Progress'
  BY DEF Progress
<1>3. SuccessMeansPublished' /\ NeverMisframed'
  BY DEF SuccessMeansPublished, NeverMisframed
<1> QED
  BY <1>1, <1>2, <1>3

(* Sequences of replies that are sent and read.                            *)
LEMMA Appended ==
  ASSUME down \in Seq(Replies), NEW r \in Replies, NEW P \in BOOLEAN,
         \A i \in DOMAIN down : down[i] = "PUBACK" => P, r = "PUBACK" => P
  PROVE  /\ Append(down, r) \in Seq(Replies)
         /\ \A i \in DOMAIN Append(down, r) : Append(down, r)[i] = "PUBACK" => P
<1>1. Append(down, r) \in Seq(Replies)
  OBVIOUS
<1>2. \A i \in DOMAIN Append(down, r) :
        i \in 1 .. Len(down) + 1 /\ Append(down, r)[i] = IF i = Len(down) + 1 THEN r ELSE down[i]
  OBVIOUS
<1>3. ASSUME NEW i \in DOMAIN Append(down, r), Append(down, r)[i] = "PUBACK" PROVE P
  <2>1. CASE i = Len(down) + 1
    BY <1>2, <1>3, <2>1
  <2>2. CASE i # Len(down) + 1
    <3>1. i \in DOMAIN down /\ down[i] = "PUBACK"
      BY <1>2, <1>3, <2>2
    <3> QED
      BY <3>1
  <2> QED
    BY <2>1, <2>2
<1> QED
  BY <1>1, <1>3

LEMMA Shortened ==
  ASSUME down \in Seq(Replies), down # <<>>, NEW P \in BOOLEAN,
         \A i \in DOMAIN down : down[i] = "PUBACK" => P
  PROVE  /\ Head(down) = "PUBACK" => P
         /\ Tail(down) \in Seq(Replies)
         /\ \A i \in DOMAIN Tail(down) : Tail(down)[i] = "PUBACK" => P
<1>1. 1 \in DOMAIN down /\ Head(down) = down[1] /\ Tail(down) \in Seq(Replies)
  OBVIOUS
<1>2. \A i \in DOMAIN Tail(down) : i + 1 \in DOMAIN down /\ Tail(down)[i] = down[i + 1]
  OBVIOUS
<1>3. ASSUME NEW i \in DOMAIN Tail(down), Tail(down)[i] = "PUBACK" PROVE P
  BY <1>2, <1>3
<1> QED
  BY <1>1, <1>3

LEMMA ProcessKeeps == IInv /\ Process => IInv'
<1> SUFFICES ASSUME IInv, Process PROVE IInv'
  OBVIOUS
<1>0. /\ fails \in 0 .. MaxFails /\ cfg \in Option /\ line \in {"none", "up", "gone"}
      /\ up \in Seq(Piece) /\ down \in Seq(Replies) /\ taken \in BOOLEAN
      /\ \A i \in DOMAIN down : down[i] = "PUBACK" => taken
  BY AzureAssumption DEF AzureAssumption, IInv, TypeOK, Progress, Replies
<1>1. CASE Load
  <2>1. CASE Exit("2")
    BY <1>0, <1>1, <2>1, ExitKeeps DEF Load, Code
  <2>2. CASE ~Exit("2")
    <3>1. /\ host' = Normal(cfg.host) /\ sni' \in {Normal(cfg.host), Normal(cfg.sni)}
          /\ pc' = IF cfg.auth = "x509" THEN "tcp" ELSE "sas"
          /\ UNCHANGED <<cfg, procd, count, code, conn, histories, fails>> /\ pc = "load"
      BY <1>1, <2>2 DEF Load
    <3>2. TypeOK'
      BY <3>1 DEF IInv, TypeOK, conn, histories
    <3>3. cfg.auth \in {"x509", "sas"}
      BY <1>0 DEF Option
    <3>4. Progress' /\ SuccessMeansPublished' /\ NeverMisframed'
      BY <3>1, <3>3 DEF IInv, TypeOK, Progress, Piece, SuccessMeansPublished, NeverMisframed,
         conn, histories
    <3> QED
      BY <3>2, <3>4 DEF IInv
  <2> QED
    BY <2>1, <2>2
<1>2. CASE Sas
  <2>1. cfg.auth = "sas"
    BY <1>2 DEF Sas, IInv, Progress
  <2>2. PICK c \in Code : Exit(c)
    BY <1>2 DEF Sas, Code
  <2> QED
    BY <1>0, <1>2, <2>1, <2>2, ExitKeeps DEF Sas
<1>3. CASE Tcp
  <2>1. CASE Exit("-1")
    BY <1>0, <1>3, <2>1, ExitKeeps DEF Tcp, Code
  <2>2. CASE ~Exit("-1")
    <3>1. /\ cfg.host.name # "" /\ line' = "up" /\ Goto("tls") /\ pc = "tcp"
          /\ UNCHANGED <<up, down, mute, fails>>
      BY <1>3, <2>2 DEF Tcp
    <3>2. cfg.host.name \in Name
      BY <1>0, <3>1 DEF Option, Form
    <3> QED
      BY <1>0, <3>1, <3>2, GotoKeeps DEF States, Piece
  <2> QED
    BY <2>1, <2>2
<1>4. CASE Tls
  <2>1. CASE Exit("-1")
    BY <1>0, <1>4, <2>1, ExitKeeps DEF Tls, Code
  <2>2. CASE ~Exit("-1")
    <3>1. line = "up" /\ Goto("CONNECT") /\ UNCHANGED <<conn, fails>> /\ pc = "tls"
      BY <1>4, <2>2 DEF Tls
    <3> QED
      BY <1>0, <3>1, GotoKeeps DEF States, Piece, IInv, Progress, conn
  <2> QED
    BY <2>1, <2>2
<1>5. CASE SslWrite
  <2>1. /\ pc \in Piece /\ pc # "off" /\ UNCHANGED fails
        /\ After[pc] \in States \ {"off", "sas"}
        /\ After[pc] \in {"DISCONNECT", "done"} => taken
    BY <1>5 DEF SslWrite, Piece, After, States, IInv, Progress
  <2>2. CASE \E c \in {"-1", "signal"} : Exit(c)
    BY <1>0, <2>1, <2>2, ExitKeeps DEF Code
  <2>3. CASE ~ \E c \in {"-1", "signal"} : Exit(c)
    <3>1. /\ line \in {"up", "gone"} /\ Goto(After[pc]) /\ UNCHANGED <<line, down, mute>>
          /\ up' \in {up, Append(up, pc)}
      BY <1>5, <2>3 DEF SslWrite, conn
    <3>2. up' \in Seq(Piece)
      BY <1>0, <2>1, <3>1
    <3> QED
      BY <1>0, <2>1, <3>1, <3>2, GotoKeeps DEF IInv, Progress
  <2> QED
    BY <2>2, <2>3
<1>6. CASE ReadConnack \/ ReadPuback
  <2>1. /\ pc \in {"connack", "puback"} /\ UNCHANGED fails
        /\ \/ /\ down # <<>> /\ down' = Tail(down) /\ UNCHANGED <<line, up, mute>>
              /\ \/ Goto("hdr")
                 \/ Goto("DISCONNECT") /\ Head(down) = "PUBACK"
           \/ \E c \in {"-1", "signal"} : Exit(c)
    BY <1>6 DEF ReadConnack, ReadPuback, SslRead, Closing
  <2>2. CASE \E c \in {"-1", "signal"} : Exit(c)
    BY <1>0, <2>1, <2>2, ExitKeeps DEF Code
  <2>3. CASE ~ \E c \in {"-1", "signal"} : Exit(c)
    <3>1. PICK to \in {"hdr", "DISCONNECT"} :
            Goto(to) /\ (to = "DISCONNECT" => Head(down) = "PUBACK")
      BY <2>1, <2>3
    <3>2. /\ to \in {"DISCONNECT", "done"} => taken
          /\ down' \in Seq(Replies)
          /\ \A i \in DOMAIN down' : down'[i] = "PUBACK" => taken
      BY <1>0, <2>1, <2>3, <3>1, Shortened
    <3>3. line \in {"up", "gone"} /\ cfg.host.name \in Name
      BY <2>1 DEF IInv, Progress, TypeOK
    <3> QED
      BY <1>0, <2>1, <2>3, <3>1, <3>2, <3>3, GotoKeeps DEF States, Piece
  <2> QED
    BY <2>2, <2>3
<1>7. CASE Finish
  <2>1. pc = "done" /\ UNCHANGED fails /\ taken /\ \E c \in {"0", "signal"} : Exit(c)
    BY <1>7 DEF Finish, Closing, IInv, Progress
  <2> QED
    BY <1>0, <2>1, ExitKeeps DEF Code
<1> QED
  BY <1>1, <1>2, <1>3, <1>4, <1>5, <1>6, <1>7 DEF Process

LEMMA StartKeeps == IInv /\ Start => IInv'
<1> SUFFICES ASSUME IInv, Start PROVE IInv'
  OBVIOUS
<1>1. up' \in Seq(Piece) /\ down' \in Seq({"CONNACK", "refused", "PUBACK"}) /\ DOMAIN down' = {}
  BY DEF Start
<1>2. TypeOK'
  BY <1>1 DEF IInv, TypeOK, Start
<1>3. Progress' /\ SuccessMeansPublished' /\ NeverMisframed'
  BY <1>1 DEF IInv, TypeOK, Progress, Piece, SuccessMeansPublished, NeverMisframed, Start
<1> QED
  BY <1>2, <1>3 DEF IInv

LEMMA BrokerStepKeeps == IInv /\ (Broker \/ Refuse \/ Close) => IInv'
<1> SUFFICES ASSUME IInv, Broker \/ Refuse \/ Close PROVE IInv'
  OBVIOUS
<1>0. /\ fails \in 0 .. MaxFails /\ MaxFails \in Nat /\ cfg \in Option
      /\ up \in Seq(Piece) /\ down \in Seq(Replies)
      /\ taken \in BOOLEAN /\ misread \in BOOLEAN /\ ever \in BOOLEAN
      /\ \A i \in DOMAIN down : down[i] = "PUBACK" => taken
  BY AzureAssumption DEF AzureAssumption, IInv, TypeOK, Progress, Replies
<1>1. line = "up" /\ cfg.host.name \in Name
  BY DEF Broker, TakeConnect, TakeHeader, TakeBody, TakeDisconnect, Take, Refuse, Close, IInv,
     Progress
<1>2. up # <<>> => Tail(up) \in Seq(Piece)
  BY <1>0
<1>3. CASE Hangup /\ UNCHANGED <<taken, ever>> /\ fails' \in 0 .. MaxFails
           /\ misread' \in BOOLEAN /\ (misread' => misread \/ ConnectSize(cfg) > 127)
  <2>1. up' \in Seq(Piece) /\ down' \in Seq(Replies)
        /\ \A i \in DOMAIN down' : down'[i] = "PUBACK" => taken
    <3>1. CASE down' = down
      BY <1>0, <1>3, <3>1 DEF Hangup
    <3>2. CASE down' = <<>>
      BY <1>3, <3>2 DEF Hangup
    <3> QED
      BY <1>3, <3>1, <3>2 DEF Hangup
  <2> QED
    BY <1>0, <1>1, <1>3, <2>1, BrokerKeeps DEF Hangup
<1>4. ASSUME NEW r \in Replies, Answer(r), up # <<>>, UNCHANGED misread, ever' \in BOOLEAN,
             taken' \in BOOLEAN, taken => taken', r = "PUBACK" => taken', fails' \in 0 .. MaxFails
      PROVE  IInv'
  <2>1. down' \in Seq(Replies) /\ \A i \in DOMAIN down' : down'[i] = "PUBACK" => taken'
    BY <1>0, <1>4, Appended DEF Answer
  <2> QED
    BY <1>0, <1>1, <1>2, <1>4, <2>1, BrokerKeeps DEF Answer
<1>5. CASE TakeConnect
  <2>1. up # <<>> /\ UNCHANGED fails
    BY <1>5 DEF TakeConnect, Take
  <2>2. CASE Answer("CONNACK") /\ UNCHANGED histories
    BY <1>0, <1>4, <2>1, <2>2 DEF Replies, histories
  <2>3. CASE Hangup /\ UNCHANGED histories
    BY <1>0, <1>3, <2>1, <2>3 DEF histories
  <2>4. ASSUME ~Framed(ConnectSize(cfg), ConnectLength(cfg)), Hangup, misread' = TRUE,
               UNCHANGED <<taken, ever>>
        PROVE  IInv'
    <3>1. ~(ConnectSize(cfg) <= 127)
      BY <1>0, <1>1, <2>4, ConnectFramed
    <3>2. ConnectSize(cfg) \in Nat
      BY <1>0, <1>1, ConnectIsNat
    <3>3. ConnectSize(cfg) > 127
      BY <3>1, <3>2
    <3> QED
      BY <1>0, <1>3, <2>1, <2>4, <3>3
  <2> QED
    BY <1>5, <2>2, <2>3, <2>4 DEF TakeConnect
<1>6. CASE TakeBody
  <2>1. Framed(PublishSize(cfg), PublishLength(cfg))
    BY <1>0, PublishFramed
  <2>2. up # <<>> /\ UNCHANGED <<fails, misread>> /\ Answer("PUBACK") /\ taken' = TRUE /\ ever' = TRUE
    BY <1>6, <2>1 DEF TakeBody, Take
  <2> QED
    BY <1>0, <1>4, <2>2 DEF Replies
<1>7. CASE TakeHeader
  BY <1>0, <1>1, <1>2, <1>7, BrokerKeeps DEF TakeHeader, Take, histories
<1>8. CASE TakeDisconnect
  BY <1>0, <1>3, <1>8 DEF TakeDisconnect, Take, histories
<1>9. CASE Refuse
  BY <1>0, <1>4, <1>9 DEF Refuse, Fault, Replies, histories
<1>10. CASE Close
  BY <1>0, <1>3, <1>10 DEF Close, Fault, histories
<1> QED
  BY <1>5, <1>6, <1>7, <1>8, <1>9, <1>10 DEF Broker

LEMMA FaultKeeps == IInv /\ (TcpFails \/ TlsFails \/ Kill \/ FallSilent) => IInv'
<1> SUFFICES ASSUME IInv, TcpFails \/ TlsFails \/ Kill \/ FallSilent PROVE IInv'
  OBVIOUS
<1>1. fails' \in 0 .. MaxFails
  <2>1. Fault
    BY DEF TcpFails, TlsFails, Kill, FallSilent
  <2>2. MaxFails \in Nat /\ fails \in 0 .. MaxFails
    BY AzureAssumption DEF AzureAssumption, IInv, TypeOK
  <2> QED
    BY <2>1, <2>2 DEF Fault
<1>2. CASE TcpFails \/ TlsFails \/ Kill
  <2>1. pc # "off" /\ \E c \in {"-1", "signal"} : Exit(c)
    BY <1>2 DEF TcpFails, TlsFails, Kill
  <2> QED
    BY <1>1, <2>1, ExitKeeps DEF Code
<1>3. CASE FallSilent
  <2>1. TypeOK'
    BY <1>1, <1>3 DEF FallSilent, IInv, TypeOK, histories
  <2>2. Progress' /\ SuccessMeansPublished' /\ NeverMisframed'
    BY <1>3 DEF FallSilent, IInv, Progress, SuccessMeansPublished, NeverMisframed, histories
  <2> QED
    BY <2>1, <2>2 DEF IInv
<1> QED
  BY <1>2, <1>3

LEMMA NextKeeps == IInv /\ [Next]_vars => IInv'
<1> SUFFICES ASSUME IInv, [Next]_vars PROVE IInv'
  OBVIOUS
<1>1. CASE UNCHANGED vars
  BY <1>1 DEF IInv, TypeOK, Progress, SuccessMeansPublished, NeverMisframed, vars, conn, histories
<1> QED
  BY <1>1, StartKeeps, ProcessKeeps, BrokerStepKeeps, FaultKeeps DEF Next

LEMMA Invariance == Spec => []IInv
  BY InitKeeps, NextKeeps, PTL DEF Spec

(* The state of a process, its connection and procd is well typed for any  *)
(* configurations and any number of failures.                              *)
THEOREM TypeCorrect == Spec => []TypeOK
<1>1. IInv => TypeOK
  BY DEF IInv
<1> QED
  BY <1>1, Invariance, PTL

(* An exit with 0 under x509 means that the broker has taken this          *)
(* process's message, wherever connections break and processes die.        *)
THEOREM Published == Spec => []SuccessMeansPublished
<1>1. IInv => SuccessMeansPublished
  BY DEF IInv
<1> QED
  BY <1>1, Invariance, PTL

(* Whatever the host and the device are called, a packet states the length *)
(* of the bytes that follow, unless CONNECT has more than 127 of them;     *)
(* that a broker takes the fields, which lack a password, is not said.     *)
THEOREM Framing == Spec => []NeverMisframed
<1>1. IInv => NeverMisframed
  BY DEF IInv
<1> QED
  BY <1>1, Invariance, PTL

-----------------------------------------------------------------------------
(* A set of positions has a first one.                                     *)
LEMMA HasMin ==
  ASSUME NEW S \in SUBSET Nat, S # {}
  PROVE  Min(S) \in S /\ \A y \in S : Min(S) <= y
<1>1. \E x \in S : \A y \in S : ~(<<y, x>> \in OpToRel(<, Nat))
  BY WFMin, NatLessThanWellFounded, Zenon
<1>2. \A x, y \in Nat : <<y, x>> \in OpToRel(<, Nat) <=> y < x
  BY DEF OpToRel
<1>3. \E R : /\ \E x \in S : \A y \in S : ~(<<y, x>> \in R)
             /\ \A x, y \in Nat : <<y, x>> \in R <=> y < x
  BY <1>1, <1>2, Zenon
<1>4. \E x \in S : \A y \in S : ~(y < x)
  BY <1>3, Zenon
<1>5. PICK x \in S : \A y \in S : x <= y
  BY <1>4
<1> QED
  BY <1>5 DEF Min

(* What is cut off is what follows the first character of cutset.          *)
LEMMA ChopKeepsPrefix ==
  ASSUME NEW T, NEW s \in Seq(T), NEW cutset
  PROVE  LET r == ChopAtFirst(s, cutset)
         IN /\ r \in Seq(T) /\ Len(r) <= Len(s)
            /\ \A i \in 1 .. Len(r) : r[i] = s[i] /\ s[i] \notin cutset
            /\ Len(r) < Len(s) => s[Len(r) + 1] \in cutset
<1> DEFINE Hits == {i \in DOMAIN s : s[i] \in cutset}
           k == Min(Hits)
           r == ChopAtFirst(s, cutset)
<1>1. CASE Hits = {}
  BY <1>1 DEF ChopAtFirst
<1>2. CASE Hits # {}
  <2>1. k \in Hits /\ \A i \in Hits : k <= i
    BY <1>2, HasMin
  <2>2. r = SubSeq(s, 1, k - 1)
    BY <1>2 DEF ChopAtFirst
  <2> HIDE DEF k
  <2>3. k \in 1 .. Len(s) /\ s[k] \in cutset /\ \A i \in 1 .. k - 1 : s[i] \notin cutset
    BY <2>1
  <2>4. r \in Seq(T) /\ Len(r) = k - 1 /\ \A i \in 1 .. Len(r) : r[i] = s[i]
    BY <2>2, <2>3
  <2> QED
    BY <2>3, <2>4
<1> QED
  BY <1>1, <1>2

(* Where DropScheme looks for "://".                                       *)
SchemeAt(s, i) == SubSeq(s, i, i + 2) = <<":", "/", "/">>

LEMMA SchemeTokens ==
  ASSUME NEW T, NEW s \in Seq(T), NEW i \in 1 .. Len(s) - 2
  PROVE  SchemeAt(s, i) <=> s[i] = ":" /\ s[i + 1] = "/" /\ s[i + 2] = "/"
<1> DEFINE t == SubSeq(s, i, i + 2)
<1>1. t \in Seq(T) /\ Len(t) = 3 /\ t[1] = s[i] /\ t[2] = s[i + 1] /\ t[3] = s[i + 2]
  OBVIOUS
<1> HIDE DEF t
<1>2. t = <<t[1], t[2], t[3]>>
  BY <1>1
<1>3. t = <<":", "/", "/">> <=> t[1] = ":" /\ t[2] = "/" /\ t[3] = "/"
  BY <1>2
<1> QED
  BY <1>1, <1>3 DEF SchemeAt, t

LEMMA DropCases ==
  ASSUME NEW T, NEW s \in Seq(T)
  PROVE  \/ DropScheme(s) = s /\ \A i \in 1 .. Len(s) - 2 : ~SchemeAt(s, i)
         \/ \E k \in 1 .. Len(s) - 2 :
              /\ SchemeAt(s, k) /\ \A i \in 1 .. k - 1 : ~SchemeAt(s, i)
              /\ DropScheme(s) = SubSeq(s, k + 3, Len(s))
<1> DEFINE Hits == {i \in 1 .. Len(s) - 2 : SchemeAt(s, i)}
           k == Min(Hits)
<1>1. DropScheme(s) = IF Hits = {} THEN s ELSE SubSeq(s, k + 3, Len(s))
  BY DEF DropScheme, SchemeAt
<1>2. Hits \in SUBSET Nat /\ Hits \subseteq 1 .. Len(s) - 2
  OBVIOUS
<1>3. CASE Hits = {}
  BY <1>1, <1>3
<1>4. CASE Hits # {}
  <2> HIDE DEF Hits
  <2>1. k \in Hits /\ \A i \in Hits : k <= i
    BY <1>2, <1>4, HasMin
  <2> HIDE DEF k
  <2>2. k \in 1 .. Len(s) - 2 /\ SchemeAt(s, k) /\ \A i \in 1 .. k - 1 : ~SchemeAt(s, i)
    BY <2>1 DEF Hits
  <2> QED
    BY <1>1, <1>4, <2>2
<1> QED
  BY <1>3, <1>4

LEMMA DropNothing ==
  ASSUME NEW T, NEW s \in Seq(T),
         \A i \in 1 .. Len(s) - 1 : ~(s[i] = ":" /\ s[i + 1] = "/")
  PROVE  DropScheme(s) = s
<1>1. \A i \in 1 .. Len(s) - 2 : ~SchemeAt(s, i)
  BY SchemeTokens
<1> QED
  BY <1>1, DropCases

LEMMA DropsScheme ==
  ASSUME NEW T, NEW s \in Seq(T), Len(s) >= 4, s[1] # ":", s[2] = ":", s[3] = "/", s[4] = "/"
  PROVE  DropScheme(s) = SubSeq(s, 5, Len(s))
<1>1. SchemeAt(s, 2) /\ ~SchemeAt(s, 1)
  BY SchemeTokens
<1>2. PICK k \in 1 .. Len(s) - 2 :
        /\ SchemeAt(s, k) /\ \A i \in 1 .. k - 1 : ~SchemeAt(s, i)
        /\ DropScheme(s) = SubSeq(s, k + 3, Len(s))
  BY <1>1, DropCases
<1>3. k = 2
  BY <1>1, <1>2
<1> QED
  BY <1>2, <1>3

LEMMA DropIsSeq ==
  ASSUME NEW T, NEW s \in Seq(T)
  PROVE  DropScheme(s) \in Seq(T)
<1>1. \A k \in 1 .. Len(s) : SubSeq(s, k, Len(s)) \in Seq(T)
  OBVIOUS
<1>2. SubSeq(s, Len(s) + 1, Len(s)) = <<>>
  OBVIOUS
<1>3. ASSUME NEW k \in 1 .. Len(s) - 2 PROVE SubSeq(s, k + 3, Len(s)) \in Seq(T)
  <2>1. CASE k + 3 <= Len(s)
    BY <1>1, <2>1
  <2>2. CASE k + 3 = Len(s) + 1
    BY <1>2, <2>2
  <2> QED
    BY <2>1, <2>2
<1> QED
  BY <1>3, DropCases

(* What is left of a text is a prefix of what follows the scheme, it holds *)
(* no separator, and it ends there or before one.                          *)
LEMMA OnlyName ==
  ASSUME NEW T, NEW s \in Seq(T)
  PROVE  LET d == DropScheme(s)
             r == SafeHostnameOnly(s)
         IN /\ r \in Seq(T) /\ d \in Seq(T) /\ Len(r) <= Len(d)
            /\ \A i \in 1 .. Len(r) : r[i] = d[i] /\ r[i] \notin Separator
            /\ Len(r) < Len(d) => d[Len(r) + 1] \in Separator
<1> DEFINE d == DropScheme(s)
           q == ChopAtFirst(d, {"/", "?", "#"})
           r == ChopAtFirst(q, {":"})
<1>1. r = SafeHostnameOnly(s) /\ d \in Seq(T)
  BY DropIsSeq DEF SafeHostnameOnly
<1> HIDE DEF d
<1>2. /\ q \in Seq(T) /\ Len(q) <= Len(d)
      /\ \A i \in 1 .. Len(q) : q[i] = d[i] /\ d[i] \notin {"/", "?", "#"}
      /\ Len(q) < Len(d) => d[Len(q) + 1] \in {"/", "?", "#"}
  BY <1>1, ChopKeepsPrefix
<1> HIDE DEF q
<1>3. /\ r \in Seq(T) /\ Len(r) <= Len(q)
      /\ \A i \in 1 .. Len(r) : r[i] = q[i] /\ q[i] \notin {":"}
      /\ Len(r) < Len(q) => q[Len(r) + 1] \in {":"}
  BY <1>2, ChopKeepsPrefix
<1> HIDE DEF r
<1>4. Len(r) \in Nat /\ Len(q) \in Nat /\ Len(d) \in Nat
  BY <1>1, <1>2, <1>3
<1>5. ASSUME NEW i \in 1 .. Len(r) PROVE r[i] = d[i] /\ r[i] \notin Separator
  BY <1>2, <1>3, <1>4 DEF Separator
<1>6. ASSUME Len(r) < Len(d) PROVE d[Len(r) + 1] \in Separator
  <2>1. CASE Len(r) < Len(q)
    BY <1>2, <1>3, <1>4, <2>1 DEF Separator
  <2>2. CASE Len(r) = Len(q)
    BY <1>2, <1>4, <1>6, <2>2 DEF Separator
  <2> QED
    BY <1>3, <1>4, <2>1, <2>2
<1> QED
  BY <1>1, <1>2, <1>3, <1>4, <1>5, <1>6 DEF d

(* Whatever text it is given, safe_hostname_only returns one that holds no *)
(* separator, and that it leaves alone when it is given it again.          *)
THEOREM NormalForm ==
  ASSUME NEW T, NEW s \in Seq(T)
  PROVE  LET r == SafeHostnameOnly(s)
         IN /\ \A i \in DOMAIN r : r[i] \notin Separator
            /\ SafeHostnameOnly(r) = r
<1> DEFINE r == SafeHostnameOnly(s)
           again == SafeHostnameOnly(r)
<1>1. r \in Seq(T) /\ \A i \in 1 .. Len(r) : r[i] \notin Separator
  BY OnlyName
<1> HIDE DEF r
<1>2. DropScheme(r) = r
  BY <1>1, DropNothing DEF Separator
<1>3. /\ again \in Seq(T) /\ Len(again) <= Len(r)
      /\ \A i \in 1 .. Len(again) : again[i] = r[i]
      /\ Len(again) < Len(r) => r[Len(again) + 1] \in Separator
  BY <1>1, <1>2, OnlyName
<1> HIDE DEF again
<1>4. Len(again) \in Nat /\ Len(r) \in Nat
  BY <1>1, <1>3
<1>5. Len(again) = Len(r)
  BY <1>1, <1>3, <1>4
<1>6. again = r
  BY <1>1, <1>3, <1>5
<1> QED
  BY <1>1, <1>6 DEF r, again

(* What may be written after a name: a port, and a path or a query.        *)
IsPort(P) == P = <<>> \/ (Len(P) = 2 /\ P[1] = ":" /\ P[2] = "8883")
IsTail(Q) == Q = <<>> \/ (Len(Q) = 2 /\ Q[1] \in {"/", "?", "#"} /\ Q[2] = "path")
IsScheme(A) == Len(A) = 4 /\ A[1] # ":" /\ A[2] = ":" /\ A[3] = "/" /\ A[4] = "/"
IsHost(t, n, P, Q) == t = (<<n>> \o P) \o Q
IsConcat(s, a, b) == s = a \o b

LEMMA ConcatParts ==
  ASSUME NEW T, NEW a \in Seq(T), NEW b \in Seq(T), NEW s, IsConcat(s, a, b)
  PROVE  /\ s \in Seq(T) /\ Len(s) = Len(a) + Len(b)
         /\ \A i \in 1 .. Len(a) : s[i] = a[i]
         /\ \A i \in 1 .. Len(b) : s[Len(a) + i] = b[i]
  BY DEF IsConcat

LEMMA Joined ==
  ASSUME NEW T, NEW n \in T, NEW P \in Seq(T), NEW Q \in Seq(T),
         n \notin Separator, IsPort(P), IsTail(Q), NEW t, IsHost(t, n, P, Q)
  PROVE  /\ t \in Seq(T) /\ Len(t) >= 1 /\ t[1] = n
         /\ Len(t) > 1 => t[2] \in Separator
         /\ \A i \in 1 .. Len(t) - 1 : ~(t[i] = ":" /\ t[i + 1] = "/")
<1> USE DEF IsPort, IsTail
<1> DEFINE u == <<n>> \o P
<1>0. t = u \o Q
  BY DEF IsHost
<1>1. /\ u \in Seq(T) /\ Len(u) = 1 + Len(P) /\ u[1] = n
      /\ \A i \in 1 .. Len(P) : u[i + 1] = P[i]
  OBVIOUS
<1> HIDE DEF u
<1>2. /\ t \in Seq(T) /\ Len(t) = Len(u) + Len(Q)
      /\ \A i \in 1 .. Len(u) : t[i] = u[i]
      /\ \A i \in 1 .. Len(Q) : t[Len(u) + i] = Q[i]
  <2>1. IsConcat(t, u, Q)
    BY <1>0 DEF IsConcat
  <2> QED
    BY <1>1, <2>1, ConcatParts, SMTT(30)
<1>3. CASE P = <<>> /\ Q = <<>>
  BY <1>1, <1>2, <1>3
<1>4. CASE P = <<>> /\ Q # <<>>
  <2>1. Len(t) = 3 /\ t[1] = n /\ t[2] = Q[1] /\ t[3] = "path"
    BY <1>1, <1>2, <1>4
  <2> QED
    <3>1. \A i \in 1 .. 2 : ~(t[i] = ":" /\ t[i + 1] = "/")
      BY <1>4, <2>1 DEF Separator
    <3>2. t[2] \in Separator /\ Len(t) - 1 = 2
      BY <1>4, <2>1 DEF Separator
    <3> QED
      BY <1>2, <2>1, <3>1, <3>2
<1>5. CASE P # <<>> /\ Q = <<>>
  <2>1. Len(t) = 3 /\ t[1] = n /\ t[2] = ":" /\ t[3] = "8883"
    BY <1>1, <1>2, <1>5
  <2> QED
    <3>1. \A i \in 1 .. 2 : ~(t[i] = ":" /\ t[i + 1] = "/")
      BY <2>1 DEF Separator
    <3>2. t[2] \in Separator /\ Len(t) - 1 = 2
      BY <2>1 DEF Separator
    <3> QED
      BY <1>2, <2>1, <3>1, <3>2
<1>6. CASE P # <<>> /\ Q # <<>>
  <2>0. Len(P) = 2 /\ Len(Q) = 2
    BY <1>6
  <2>1. Len(u) = 3 /\ Len(t) = 5 /\ u[2] = ":" /\ u[3] = "8883"
    BY <1>1, <1>2, <1>6, <2>0
  <2>2. t[1] = n /\ t[2] = ":" /\ t[3] = "8883"
    BY <1>1, <1>2, <2>1
  <2>3. t[4] = Q[1] /\ t[5] = "path"
    BY <1>2, <1>6, <2>1
  <2> QED
    BY <1>2, <1>6, <2>1, <2>2, <2>3 DEF Separator
<1> QED
  BY <1>3, <1>4, <1>5, <1>6

LEMMA AfterScheme ==
  ASSUME NEW T, NEW A \in Seq(T), NEW t \in Seq(T), NEW s \in Seq(T), Len(t) >= 1,
         Len(A) = 4, A[1] # ":", A[2] = ":", A[3] = "/", A[4] = "/",
         Len(s) = Len(A) + Len(t), \A i \in 1 .. Len(A) : s[i] = A[i],
         \A i \in 1 .. Len(t) : s[Len(A) + i] = t[i]
  PROVE  DropScheme(s) = t
<1>1. /\ s \in Seq(T) /\ Len(s) = 4 + Len(t)
      /\ s[1] # ":" /\ s[2] = ":" /\ s[3] = "/" /\ s[4] = "/"
      /\ \A i \in 1 .. Len(t) : s[4 + i] = t[i]
  OBVIOUS
<1>2. DropScheme(s) = SubSeq(s, 5, Len(s))
  BY <1>1, DropsScheme
<1>3. /\ SubSeq(s, 5, Len(s)) \in Seq(T) /\ Len(SubSeq(s, 5, Len(s))) = Len(t)
      /\ \A i \in 1 .. Len(t) : SubSeq(s, 5, Len(s))[i] = s[4 + i]
  BY <1>1
<1> QED
  BY <1>1, <1>2, <1>3

LEMMA OnlyOne == \A k \in Nat : k # 0 /\ k < 2 => k = 1
  OBVIOUS

LEMMA FirstAlone ==
  ASSUME NEW T, NEW d \in Seq(T), NEW r \in Seq(T), NEW n \in T, n \notin Separator,
         Len(d) >= 1, d[1] = n, Len(d) > 1 => d[2] \in Separator,
         Len(r) <= Len(d), \A i \in 1 .. Len(r) : r[i] = d[i] /\ r[i] \notin Separator,
         Len(r) < Len(d) => d[Len(r) + 1] \in Separator
  PROVE  r = <<n>>
<1>0. Len(r) \in Nat /\ Len(d) \in Nat
  OBVIOUS
<1>1. Len(r) # 0
  OBVIOUS
<1>2. Len(r) < 2
  OBVIOUS
<1>3. Len(r) = 1
  BY <1>0, <1>1, <1>2, OnlyOne, Zenon
<1>4. r[1] = d[1]
  BY <1>3
<1> QED
  BY <1>3, <1>4

(* Whatever is written around a name, the name is what is left.            *)
LEMMA HostAlone ==
  ASSUME NEW T, NEW n \in T, NEW A \in Seq(T), NEW P \in Seq(T), NEW Q \in Seq(T),
         n \notin Separator, IsScheme(A), IsPort(P), IsTail(Q),
         NEW t, IsHost(t, n, P, Q), NEW s, s = t \/ IsConcat(s, A, t)
  PROVE  SafeHostnameOnly(s) = <<n>>
<1>1. /\ t \in Seq(T) /\ Len(t) >= 1 /\ t[1] = n
      /\ Len(t) > 1 => t[2] \in Separator
      /\ \A i \in 1 .. Len(t) - 1 : ~(t[i] = ":" /\ t[i + 1] = "/")
  BY Joined
<1>2. s \in Seq(T) /\ DropScheme(s) = t
  <2>1. CASE IsConcat(s, A, t)
    <3>1. /\ s \in Seq(T) /\ Len(s) = Len(A) + Len(t)
          /\ \A i \in 1 .. Len(A) : s[i] = A[i]
          /\ \A i \in 1 .. Len(t) : s[Len(A) + i] = t[i]
      BY <1>1, <2>1, ConcatParts
    <3> QED
      BY <1>1, <3>1, AfterScheme DEF IsScheme
  <2>2. CASE s = t
    BY <1>1, <2>2, DropNothing
  <2> QED
    BY <2>1, <2>2
<1> DEFINE r == SafeHostnameOnly(s)
<1>3. /\ r \in Seq(T) /\ Len(r) <= Len(t)
      /\ \A i \in 1 .. Len(r) : r[i] = t[i] /\ r[i] \notin Separator
      /\ Len(r) < Len(t) => t[Len(r) + 1] \in Separator
  BY <1>2, OnlyName
<1> HIDE DEF r
<1> QED
  BY <1>1, <1>3, FirstAlone, Zenon DEF r

LEMMA ShortSeq ==
  ASSUME NEW T, NEW w \in T, NEW x \in T, NEW y \in T, NEW z \in T
  PROVE  <<w>> \in Seq(T) /\ <<w, x>> \in Seq(T) /\ <<w, x, y, z>> \in Seq(T)
  OBVIOUS

LEMMA PortOrNot == IsPort(<<>>) /\ IsPort(<<":", "8883">>)
  BY DEF IsPort

LEMMA TailOrNot == IsTail(<<>>) /\ \A c \in {"/", "?", "#"} : IsTail(<<c, "path">>)
  BY DEF IsTail

LEMMA SchemeParts == IsScheme(<<"https", ":", "/", "/">>)
  BY DEF IsScheme

LEMMA EmptySeq == \A T : <<>> \in Seq(T)
  OBVIOUS

LEMMA NotEmpty == \A x : <<x>> # <<>>
  OBVIOUS

LEMMA Associates ==
  ASSUME NEW T, NEW A \in Seq(T), NEW n, NEW P \in Seq(T), NEW Q \in Seq(T), <<n>> \in Seq(T),
         NEW t, IsHost(t, n, P, Q)
  PROVE  /\ IsConcat(((A \o <<n>>) \o P) \o Q, A, t)
         /\ ((<<>> \o <<n>>) \o P) \o Q = t
  BY DEF IsHost, IsConcat

Token == Name \cup Separator \cup {"https", "8883", "path"}

LEMMA Tokens ==
  ASSUME NEW f \in Form, f.name # ""
  PROVE  /\ f.name \in Token \ Separator /\ <<f.name>> \in Seq(Token)
         /\ <<"https", ":", "/", "/">> \in Seq(Token) /\ <<":", "8883">> \in Seq(Token)
         /\ f.tail # "" => f.tail \in {"/", "?", "#"} /\ <<f.tail, "path">> \in Seq(Token)
<1>1. f.name \in Name /\ f.tail \in {"", "/", "?", "#"}
  BY DEF Form
<1>2. f.name \in Token \ Separator
  BY <1>1, AzureAssumption DEF AzureAssumption, Token
<1>3. {"https", "8883", "path", ":", "/", "?", "#"} \subseteq Token
  BY DEF Token, Separator
<1> QED
  BY <1>1, <1>2, <1>3, ShortSeq

(* The normalisation leaves the name alone.                                *)
LEMMA NameAlone ==
  ASSUME NEW f \in Form, f.name # ""
  PROVE  Normal(f) = <<f.name>>
<1> DEFINE n == f.name
           P == IF f.port THEN <<":", "8883">> ELSE <<>>
           Q == IF f.tail = "" THEN <<>> ELSE <<f.tail, "path">>
           A == <<"https", ":", "/", "/">>
           t == (<<n>> \o P) \o Q
           s == Written(f)
           r == SafeHostnameOnly(s)
<1>1. n \in Token /\ n \notin Separator /\ <<n>> \in Seq(Token) /\ A \in Seq(Token) /\ IsScheme(A)
  BY Tokens, SchemeParts, Zenon
<1>2. P \in Seq(Token) /\ IsPort(P)
  BY Tokens, PortOrNot, EmptySeq, Zenon
<1>3. Q \in Seq(Token) /\ IsTail(Q)
  BY Tokens, TailOrNot, EmptySeq, Zenon
<1>4. s = IF f.scheme THEN ((A \o <<n>>) \o P) \o Q ELSE ((<<>> \o <<n>>) \o P) \o Q
  BY DEF Written
<1>5. Normal(f) = IF r = <<>> THEN s ELSE r
  BY DEF Normal
<1> HIDE DEF P, Q, A, n
<1>6. IsHost(t, n, P, Q)
  BY DEF IsHost
<1> HIDE DEF s, t
<1>7. s = t \/ IsConcat(s, A, t)
  BY <1>1, <1>2, <1>3, <1>4, <1>6, Associates, Zenon
<1>8. r = <<n>>
  BY <1>1, <1>2, <1>3, <1>6, <1>7, HostAlone, Zenon
<1> QED
  BY <1>5, <1>8, NotEmpty, Zenon DEF n

LEMMA NothingStays ==
  ASSUME NEW f \in Form, Written(f) = <<>>
  PROVE  Normal(f) = <<>>
<1>1. <<>> \in Seq(Token) /\ \A i \in 1 .. Len(<<>>) - 1 : FALSE
  OBVIOUS
<1>2. DropScheme(<<>>) = <<>>
  BY <1>1, DropNothing, Zenon
<1>3. SafeHostnameOnly(<<>>) \in Seq(Token) /\ Len(SafeHostnameOnly(<<>>)) <= Len(<<>>)
  BY <1>1, <1>2, OnlyName, Zenon
<1>4. SafeHostnameOnly(<<>>) = <<>>
  BY <1>3
<1> QED
  BY <1>4 DEF Normal

-----------------------------------------------------------------------------
(* What a process that has loaded its options goes by.                     *)
Named ==
  pc \notin {"off", "load"} =>
    /\ host = Normal(cfg.host)
    /\ sni = IF Normal(cfg.sni) = <<>> THEN host ELSE Normal(cfg.sni)

LEMMA NamedKept == Named /\ [Next]_vars => Named'
<1> SUFFICES ASSUME Named, [Next]_vars, pc' \notin {"off", "load"} PROVE Named'
  BY DEF Named
<1>1. CASE Load
  <2>1. ~Exit("2")
    BY DEF Exit, ExitUpTo
  <2> QED
    BY <1>1, <2>1 DEF Load, Named
<1>2. CASE ~Load
  <2>1. pc \notin {"off", "load"} /\ UNCHANGED <<cfg, host, sni>>
    <3> USE DEF Exit, ExitUpTo, Goto, Piece
    <3>1. CASE UNCHANGED vars
      BY <3>1 DEF vars
    <3>2. CASE Start \/ Kill
      BY <3>2 DEF Start, Kill
    <3>3. CASE Process
      BY <1>2, <3>3 DEF Process, Sas, Tcp, Tls, SslWrite, ReadConnack, ReadPuback, SslRead, Finish,
         Closing
    <3>4. CASE TcpFails \/ TlsFails
      BY <3>4 DEF TcpFails, TlsFails
    <3>5. CASE Broker \/ Refuse \/ Close \/ FallSilent
      BY <3>5 DEF Broker, TakeConnect, TakeHeader, TakeBody, TakeDisconnect, Answer, Hangup, Refuse,
         Close, FallSilent
    <3> QED
      BY <3>1, <3>2, <3>3, <3>4, <3>5 DEF Next
  <2> QED
    BY <2>1 DEF Named
<1> QED
  BY <1>1, <1>2

LEMMA NamesAlways == Spec => []Named
<1>1. Init => Named
  BY DEF Init, Named
<1> QED
  BY <1>1, NamedKept, PTL DEF Spec

(* Whatever hosts are called and however they are written, the process     *)
(* dials the host alone and shows the SNI host alone.                      *)
THEOREM HostsNamed == Spec => []HostNamed
<1>1. TypeOK /\ Named => HostNamed
  <2> SUFFICES ASSUME TypeOK, Named, cfg.host.name # "", pc \notin {"off", "load"}
               PROVE  /\ host = <<cfg.host.name>>
                      /\ cfg.sni.name # "" => sni = <<cfg.sni.name>>
                      /\ Written(cfg.sni) = <<>> => sni = host
    BY DEF HostNamed
  <2>1. cfg.host \in Form /\ cfg.sni \in Form
    BY AzureAssumption DEF AzureAssumption, TypeOK, Option
  <2>2. host = Normal(cfg.host) /\ sni = IF Normal(cfg.sni) = <<>> THEN host ELSE Normal(cfg.sni)
    BY DEF Named
  <2>3. host = <<cfg.host.name>>
    BY <2>1, <2>2, NameAlone, Zenon
  <2>4. ASSUME cfg.sni.name # "" PROVE sni = <<cfg.sni.name>>
    BY <2>1, <2>2, <2>4, NameAlone, NotEmpty, Zenon
  <2>5. ASSUME Written(cfg.sni) = <<>> PROVE sni = host
    BY <2>1, <2>2, <2>5, NothingStays, Zenon
  <2> QED
    BY <2>3, <2>4, <2>5
<1> QED
  BY <1>1, TypeCorrect, NamesAlways, PTL

(* What the two ends have said to one another by the time the process is   *)
(* at pc, as long as no message has been taken.                            *)
Exchange ==
  /\ pc \in {"load", "tcp"} => line = "none"
  /\ pc \in {"load", "tcp", "tls", "CONNECT"} => up = <<>> /\ down = <<>>
  /\ pc = "connack" => /\ up \in {<<>>, <<"CONNECT">>}
                       /\ down \in {<<>>, <<"CONNACK">>, <<"refused">>}
                       /\ up = <<>> \/ down = <<>>
  /\ pc \in {"hdr", "rem", "body", "puback"} =>
       up \in Seq({"hdr", "rem", "body"}) /\ down = <<>>
  /\ pc \notin {"sas", "DISCONNECT", "done"}

(* The exit that a failure has made certain, and that is not counted yet.  *)
Owed == IF procd = "run" /\ (line = "gone" \/ down = <<"refused">>) THEN 1 ELSE 0

(* The exits that are counted are paid for by failures.                    *)
Paid == Workable /\ ~ever => Exchange /\ count + Owed <= fails
Limit == procd = "stopped" => count > 5
Budget == Paid /\ Limit

LEMMA Counted == TypeOK => count \in Nat /\ fails \in Nat
<1> SUFFICES ASSUME TypeOK PROVE count \in Nat /\ fails \in Nat
  OBVIOUS
<1>1. count \in 0 .. 6 /\ fails \in 0 .. MaxFails /\ MaxFails \in Nat
  BY AzureAssumption DEF AzureAssumption, TypeOK
<1> QED
  BY <1>1

LEMMA OwedRange == Owed \in {0, 1}
  BY DEF Owed

(* An exit is paid for by what is owed, or by a failure of its own.        *)
LEMMA ExitPaid ==
  ASSUME TypeOK, Budget, NEW c, Exit(c),
         fails' = fails + 1 \/ (fails' = fails /\ (Workable /\ ~ever => Owed = 1))
  PROVE  Budget'
<1>0. count \in Nat /\ fails \in Nat
  BY Counted
<1>1. /\ pc' = "off" /\ UNCHANGED <<cfg, ever>>
      /\ \E slow \in BOOLEAN : count' = IF slow THEN 0 ELSE count + 1
      /\ procd' = IF count' > 5 THEN "stopped" ELSE "timer"
  BY DEF Exit, ExitUpTo, histories
<1>2. Owed' = 0
  BY <1>1 DEF Owed
<1>3. Limit'
  BY <1>1 DEF Limit
<1>4. Workable' = Workable
  BY <1>1 DEF Workable, ConnectSize
<1>5. Exchange'
  BY <1>1 DEF Exchange
<1>6. ASSUME Workable, ~ever PROVE count' + Owed' <= fails'
  <2>1. count + Owed <= fails
    BY <1>6 DEF Budget, Paid
  <2>2. count' <= count + 1 /\ count' \in Nat
    BY <1>0, <1>1
  <2> QED
    BY <1>0, <1>2, <1>6, <2>1, <2>2, OwedRange
<1> QED
  BY <1>1, <1>3, <1>4, <1>5, <1>6 DEF Budget, Paid

(* What any other step owes.                                               *)
LEMMA StepPaid ==
  ASSUME TypeOK, Budget, UNCHANGED <<cfg, procd, count>>, ever => ever',
         fails' \in {fails, fails + 1},
         Workable /\ ~ever /\ ~ever' => Exchange' /\ Owed' - Owed <= fails' - fails
  PROVE  Budget'
<1>1. count \in Nat /\ fails \in Nat
  BY Counted
<1>2. Limit'
  BY DEF Budget, Limit
<1>3. Workable' = Workable
  BY DEF Workable, ConnectSize
<1>4. Owed' \in {0, 1}
  BY DEF Owed
<1>5. ASSUME Workable, ~ever' PROVE Exchange' /\ count' + Owed' <= fails'
  <2>1. ~ever /\ count + Owed <= fails
    BY <1>5 DEF Budget, Paid, TypeOK
  <2>2. Exchange' /\ Owed' - Owed <= fails' - fails
    BY <1>5, <2>1
  <2>3. Owed \in Nat /\ Owed' \in Nat /\ fails' \in Nat /\ count' = count
    BY <1>1, <1>4, OwedRange
  <2>4. \A a, b, c, d, e \in Nat : a + b <= c /\ d - b <= e - c => a + d <= e
    OBVIOUS
  <2>5. count + Owed' <= fails'
    BY <1>1, <2>1, <2>2, <2>3, <2>4, Zenon
  <2> QED
    BY <2>2, <2>3, <2>5, Zenon
<1> QED
  BY <1>2, <1>3, <1>5 DEF Budget, Paid

LEMMA ProcessPaid == IInv /\ Named /\ Budget /\ Process => Budget'
<1> SUFFICES ASSUME IInv, Named, Budget, Process PROVE Budget'
  OBVIOUS
<1>0. /\ TypeOK /\ down \in Seq(Replies) /\ cfg.host \in Form /\ cfg.device \in 0 .. 127
      /\ UNCHANGED <<cfg, fails, ever>>
  <2>1. TypeOK /\ cfg \in Option
    BY AzureAssumption DEF AzureAssumption, IInv, TypeOK
  <2>2. UNCHANGED <<cfg, fails, ever>>
    BY DEF Process, Load, Sas, Tcp, Tls, SslWrite, ReadConnack, ReadPuback, SslRead, Finish,
       Closing, Exit, ExitUpTo, Goto, histories
  <2>3. down \in Seq(Replies)
    BY <2>1 DEF TypeOK, Replies
  <2>4. cfg.host \in Form /\ cfg.device \in 0 .. 127
    BY <2>1 DEF Option
  <2> QED
    BY <2>1, <2>2, <2>3, <2>4
<1> DEFINE Live == Workable /\ ~ever
<1>1. Live => Exchange
  BY DEF Budget, Paid
<1>2. Live => Normal(cfg.host) = <<cfg.host.name>>
  BY <1>0, NameAlone DEF Workable
<1>3. pc # "off" /\ procd = "run"
  BY <1>0 DEF TypeOK, Process, Load, Sas, Tcp, Tls, SslWrite, ReadConnack, ReadPuback, SslRead,
     Finish, Piece
<1>4. CASE \E c \in Code : Exit(c)
  <2>1. ASSUME Live PROVE line = "gone" \/ down = <<"refused">>
    <3> USE <2>1, <1>1 DEF Exchange
    <3>1. ~Sas /\ ~Finish
      BY DEF Sas, Finish
    <3>2. ~Load
      <4>1. Normal(cfg.host) # <<>>
        BY <1>2, NotEmpty, Zenon
      <4>2. cfg.device # 0
        <5>1. cfg.device > 0
          BY DEF Workable
        <5>2. \A d \in 0 .. 127 : d > 0 => d # 0
          OBVIOUS
        <5> QED
          BY <1>0, <5>1, <5>2, Zenon
      <4> QED
        BY <4>1, <4>2, <1>4, <1>3 DEF Load, Exit, ExitUpTo
    <3>3. ~Tcp
      <4>1. host = <<cfg.host.name>> \/ pc # "tcp"
        BY <1>2 DEF Named
      <4> QED
        BY <4>1, <1>4 DEF Tcp, Workable, Exit, ExitUpTo, Goto
    <3>4. CASE Tls
      BY <1>4, <3>4 DEF Tls, Workable, Exit, ExitUpTo, Goto
    <3>5. CASE SslWrite
      BY <1>4, <1>3, <3>5 DEF SslWrite, Exit, ExitUpTo, Goto, After, Piece
    <3>6. CASE ReadConnack
      <4>1. down # <<>> /\ Head(down) # "CONNACK" => down = <<"refused">>
        BY <3>6 DEF ReadConnack, SslRead
      <4> QED
        BY <4>1, <1>4, <3>6 DEF ReadConnack, SslRead, Closing, Exit, ExitUpTo, Goto
    <3>7. CASE ReadPuback
      BY <1>4, <3>7 DEF ReadPuback, SslRead, Closing, Exit, ExitUpTo, Goto
    <3> QED
      BY <3>1, <3>2, <3>3, <3>4, <3>5, <3>6, <3>7 DEF Process
  <2>2. Live => Owed = 1
    BY <2>1, <1>3 DEF Owed
  <2> QED
    BY <1>0, <1>4, <2>2, ExitPaid DEF Budget
<1>5. CASE ~ \E c \in Code : Exit(c)
  <2>1. UNCHANGED <<cfg, procd, count>>
    BY <1>5 DEF Process, Load, Sas, Tcp, Tls, SslWrite, ReadConnack, ReadPuback, SslRead, Finish,
       Closing, Goto, Code
  <2>2. ASSUME Live PROVE Exchange' /\ (Owed' <= Owed)
    <3> USE <2>2, <1>1
    <3>1. CASE Load
      <4>1. pc' = "tcp" /\ pc = "load" /\ UNCHANGED <<procd, line, up, down>>
        BY <1>5, <3>1 DEF Load, Code, Workable, conn
      <4> QED
        BY <4>1 DEF Exchange, Owed
    <3>2. CASE Tcp
      <4>1. pc' = "tls" /\ pc = "tcp" /\ line' = "up" /\ UNCHANGED <<procd, up, down>>
        BY <1>5, <3>2 DEF Tcp, Code, Goto
      <4> QED
        BY <4>1 DEF Exchange, Owed
    <3>3. CASE Tls
      <4>1. pc' = "CONNECT" /\ pc = "tls" /\ UNCHANGED <<procd, line, up, down>>
        BY <1>5, <3>3 DEF Tls, Code, Goto, conn
      <4> QED
        BY <4>1 DEF Exchange, Owed
    <3>4. CASE SslWrite
      <4>1. /\ pc \in {"CONNECT", "hdr", "rem", "body"} /\ pc' = After[pc]
            /\ UNCHANGED <<procd, line, down>> /\ up' \in {up, Append(up, pc)}
        BY <1>5, <3>4 DEF SslWrite, Code, Goto, Piece, Exchange, conn
      <4>2. CASE pc = "CONNECT"
        BY <4>1, <4>2 DEF Exchange, Owed, After
      <4>3. CASE pc # "CONNECT"
        <5>1. pc' \in {"rem", "body", "puback"} /\ up' \in Seq({"hdr", "rem", "body"})
          BY <4>1, <4>3 DEF Exchange, After
        <5> QED
          BY <4>1, <4>3, <5>1 DEF Exchange, Owed
      <4> QED
        BY <4>2, <4>3
    <3>5. CASE ReadConnack
      <4>1. /\ pc = "connack" /\ pc' = "hdr" /\ down # <<>> /\ Head(down) = "CONNACK"
            /\ down' = Tail(down) /\ UNCHANGED <<procd, line, up>>
        BY <1>5, <3>5 DEF ReadConnack, SslRead, Closing, Code, Goto
      <4>2. down = <<"CONNACK">> /\ up = <<>>
        BY <4>1 DEF Exchange
      <4>3. down' = <<>> /\ up' \in Seq({"hdr", "rem", "body"})
        BY <4>1, <4>2
      <4> QED
        BY <4>1, <4>3 DEF Exchange, Owed
    <3>6. ~ReadPuback /\ ~Sas /\ ~Finish
      BY <1>5 DEF ReadPuback, SslRead, Closing, Code, Sas, Finish, Exchange
    <3> QED
      BY <3>1, <3>2, <3>3, <3>4, <3>5, <3>6 DEF Process
  <2>3. Live => Owed' - Owed <= fails' - fails
    <3>1. Owed' \in Nat /\ Owed \in Nat /\ fails \in Nat /\ fails' = fails
      BY <1>0, Counted, OwedRange DEF Owed
    <3>2. \A a, b, c \in Nat : a <= b => a - b <= c - c
      OBVIOUS
    <3> QED
      BY <2>2, <3>1, <3>2, Zenon
  <2> QED
    BY <1>0, <2>1, <2>2, <2>3, StepPaid DEF Budget
<1> QED
  BY <1>4, <1>5

LEMMA BrokerPaid == IInv /\ Budget /\ (Broker \/ Refuse \/ Close \/ FallSilent) => Budget'
<1> SUFFICES ASSUME IInv, Budget, Broker \/ Refuse \/ Close \/ FallSilent PROVE Budget'
  OBVIOUS
<1>0. /\ TypeOK /\ cfg \in Option /\ cfg.host.name \in Name
      /\ line = "up" /\ UNCHANGED <<cfg, procd, count, pc>>
      /\ ever => ever'
  <2>1. TypeOK /\ cfg \in Option /\ line = "up" /\ UNCHANGED <<cfg, procd, count, pc>>
    BY AzureAssumption DEF AzureAssumption, IInv, TypeOK, Broker, TakeConnect, TakeHeader, TakeBody,
       TakeDisconnect, Take, Answer, Hangup, Refuse, Close, FallSilent
  <2>2. ever => ever'
    BY DEF Broker, TakeConnect, TakeHeader, TakeBody, TakeDisconnect, Refuse, Close, FallSilent,
       histories
  <2>3. cfg.host.name \in Name
    BY <2>1 DEF IInv, Progress
  <2> QED
    BY <2>1, <2>2, <2>3
<1> DEFINE Live == Workable /\ ~ever
<1>1. ASSUME Live
      PROVE  /\ Exchange /\ pc \in {"off", "tls", "CONNECT", "connack", "hdr", "rem", "body", "puback"}
             /\ up # <<>> /\ Head(up) = "CONNECT" /\ pc # "off" =>
                  pc = "connack" /\ Tail(up) = <<>> /\ down = <<>>
             /\ up # <<>> /\ Head(up) # "CONNECT" /\ pc # "off" =>
                  /\ pc \in {"hdr", "rem", "body", "puback"} /\ Head(up) \in {"hdr", "rem", "body"}
                  /\ Tail(up) \in Seq({"hdr", "rem", "body"})
  <2>1. Exchange
    BY <1>1 DEF Budget, Paid
  <2>2. pc \in {"off", "tls", "CONNECT", "connack", "hdr", "rem", "body", "puback"}
    BY <1>0, <2>1 DEF TypeOK, Exchange, Piece
  <2>3. CASE pc \in {"hdr", "rem", "body", "puback"} /\ up # <<>>
    <3>1. up \in Seq({"hdr", "rem", "body"})
      BY <2>1, <2>3 DEF Exchange
    <3>2. Head(up) \in {"hdr", "rem", "body"} /\ Tail(up) \in Seq({"hdr", "rem", "body"})
      BY <2>3, <3>1
    <3> QED
      BY <2>1, <2>2, <2>3, <3>2
  <2>4. CASE pc = "connack" /\ up # <<>>
    <3>1. up = <<"CONNECT">> /\ down = <<>>
      BY <2>1, <2>4 DEF Exchange
    <3>2. Head(up) = "CONNECT" /\ Tail(up) = <<>>
      BY <3>1
    <3> QED
      BY <2>1, <2>2, <2>4, <3>1, <3>2
  <2>5. CASE pc \in {"tls", "CONNECT"} \/ up = <<>> \/ pc = "off"
    <3>1. up = <<>> \/ pc = "off"
      BY <2>1, <2>5 DEF Exchange
    <3> QED
      BY <2>1, <2>2, <3>1
  <2> QED
    BY <2>2, <2>3, <2>4, <2>5
<1>2. ASSUME Live, pc = "off" PROVE Exchange' /\ Owed' = 0
  BY <1>0, <1>2 DEF Exchange, Owed, TypeOK
<1>3. CASE Broker
  <2>1. UNCHANGED fails
    BY <1>3 DEF Broker, TakeConnect, TakeHeader, TakeBody, TakeDisconnect, Take
  <2>2. ASSUME Live, ~ever', pc # "off" PROVE Exchange' /\ Owed' = 0
    <3> USE <1>0, <1>1, <2>2
    <3>1. CASE TakeConnect
      <4>1. Framed(ConnectSize(cfg), ConnectLength(cfg)) /\ ~cfg.strict
        BY ConnectFramed DEF Workable
      <4>2. up' = Tail(up) /\ down' = Append(down, "CONNACK") /\ UNCHANGED line
            /\ up # <<>> /\ Head(up) = "CONNECT"
        BY <3>1, <4>1 DEF TakeConnect, Answer, Take
      <4>3. pc = "connack" /\ up' = <<>> /\ down = <<>>
        BY <4>2, <1>1, <2>2, Zenon
      <4>4. down' = <<"CONNACK">>
        BY <4>2, <4>3
      <4>5. Exchange'
        BY <4>3, <4>4 DEF Exchange
      <4>6. Owed' = 0
        <5>1. <<"CONNACK">>[1] # <<"refused">>[1]
          OBVIOUS
        <5>2. down' # <<"refused">> /\ line' = "up"
          BY <4>2, <4>4, <5>1, Zenon
        <5> QED
          BY <5>2 DEF Owed
      <4> QED
        BY <4>5, <4>6
    <3>2. CASE TakeHeader
      <4>1. up' = Tail(up) /\ UNCHANGED <<line, down>> /\ up # <<>> /\ Head(up) \in {"hdr", "rem"}
        BY <3>2 DEF TakeHeader, Take
      <4>2. pc \in {"hdr", "rem", "body", "puback"} /\ up' \in Seq({"hdr", "rem", "body"})
            /\ down = <<>>
        BY <4>1 DEF Exchange
      <4> QED
        BY <4>1, <4>2 DEF Exchange, Owed
    <3>3. ~TakeBody
      BY PublishFramed DEF TakeBody
    <3>4. ~TakeDisconnect
      BY DEF TakeDisconnect, Take
    <3> QED
      BY <1>3, <3>1, <3>2, <3>3, <3>4 DEF Broker
  <2>3. Live /\ ~ever' => Exchange' /\ Owed' - Owed <= fails' - fails
    <3>1. \A a, b \in {0, 1}, c \in Nat : a = 0 => a - b <= c - c
      OBVIOUS
    <3>2. Owed \in {0, 1} /\ (Owed' = 0 => Owed' \in {0, 1}) /\ fails \in Nat /\ fails' = fails
      BY <1>0, <2>1, OwedRange, Counted
    <3> QED
      BY <1>2, <2>2, <3>1, <3>2, Zenon
  <2> QED
    BY <1>0, <2>1, <2>3, StepPaid DEF Budget
<1>4. CASE Refuse \/ Close \/ FallSilent
  <2>1. fails' = fails + 1 /\ fails \in Nat
    BY <1>0, <1>4, Counted DEF Refuse, Close, FallSilent, Fault
  <2>2. ASSUME Live, pc # "off" PROVE Exchange'
    <3> USE <1>0, <1>1, <2>2
    <3>1. CASE Refuse
      <4>1. up' = Tail(up) /\ down' = Append(down, "refused") /\ UNCHANGED line
            /\ up # <<>> /\ Head(up) = "CONNECT"
        BY <3>1 DEF Refuse, Answer
      <4>2. pc = "connack" /\ up' = <<>> /\ down = <<>>
        BY <4>1, <1>1, <2>2, Zenon
      <4>3. down' = <<"refused">>
        BY <4>1, <4>2
      <4> QED
        BY <4>2, <4>3 DEF Exchange
    <3>2. CASE Close
      <4>1. line' = "gone" /\ up' = <<>> /\ down' \in {down, <<>>}
        BY <3>2 DEF Close, Hangup
      <4>2. up' \in Seq({"hdr", "rem", "body"})
        BY <4>1
      <4> QED
        BY <4>1, <4>2 DEF Exchange
    <3>3. CASE FallSilent
      BY <3>3 DEF FallSilent, Exchange
    <3> QED
      BY <1>4, <3>1, <3>2, <3>3
  <2>3. Owed' - Owed <= fails' - fails
    <3>1. Owed' \in {0, 1}
      BY DEF Owed
    <3>2. \A a, b \in {0, 1}, c \in Nat : a - b <= (c + 1) - c
      OBVIOUS
    <3> QED
      BY <2>1, <3>1, <3>2, OwedRange
  <2> QED
    BY <1>0, <1>2, <2>1, <2>2, <2>3, StepPaid DEF Budget
<1> QED
  BY <1>3, <1>4

LEMMA NextPaid == IInv /\ Named /\ Budget /\ [Next]_vars => Budget'
<1> SUFFICES ASSUME IInv, Named, Budget, [Next]_vars PROVE Budget'
  OBVIOUS
<1>1. TypeOK
  BY DEF IInv
<1>2. CASE Start
  <2>1. /\ pc' = "load" /\ line' = "none" /\ up' = <<>> /\ down' = <<>> /\ procd' = "run"
        /\ UNCHANGED <<cfg, count, ever, fails>>
    BY <1>2 DEF Start
  <2>2. Exchange' /\ Limit'
    BY <2>1 DEF Exchange, Limit
  <2>3. Owed' = 0
    BY <2>1 DEF Owed
  <2>4. Workable' = Workable
    BY <2>1 DEF Workable, ConnectSize
  <2>5. ASSUME Workable, ~ever PROVE count' + Owed' <= fails'
    <3>1. count + Owed <= fails
      BY <2>5 DEF Budget, Paid
    <3> QED
      BY <1>1, <2>1, <2>3, <3>1, OwedRange, Counted
  <2> QED
    BY <2>1, <2>2, <2>4, <2>5 DEF Budget, Paid
<1>3. CASE TcpFails \/ TlsFails \/ Kill
  BY <1>1, <1>3, ExitPaid DEF TcpFails, TlsFails, Kill, Fault
<1>4. CASE UNCHANGED vars
  BY <1>4 DEF vars, conn, histories, Budget, Paid, Limit, Exchange, Owed, Workable, ConnectSize
<1> QED
  BY <1>2, <1>3, <1>4, ProcessPaid, BrokerPaid DEF Next

LEMMA BudgetKept == Spec => []Budget
<1>1. Init => Budget
  <2> SUFFICES ASSUME Init PROVE Budget
    OBVIOUS
  <2>1. Exchange /\ Owed = 0 /\ count = 0 /\ fails = 0 /\ Limit
    BY DEF Init, Exchange, Owed, Limit
  <2> QED
    BY <2>1 DEF Budget, Paid
<1> QED
  BY <1>1, NextPaid, Invariance, NamesAlways, PTL DEF Spec

(* However often network, broker and process fail, procd does not give up  *)
(* on a configuration that can work before a message is through, unless    *)
(* they have failed more than five times.                                  *)
THEOREM Perseveres == Spec => []GivesUpLast
<1>1. TypeOK /\ Budget => GivesUpLast
  <2> SUFFICES ASSUME TypeOK, Budget, Workable, procd = "stopped", ~ever PROVE fails > 5
    BY DEF GivesUpLast
  <2>1. count > 5 /\ count + Owed <= fails
    BY DEF Budget, Paid, Limit
  <2> QED
    BY <2>1, OwedRange, Counted
<1> QED
  BY <1>1, TypeCorrect, BudgetKept, PTL
=============================================================================
