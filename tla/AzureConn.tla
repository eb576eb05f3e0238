----------------------------- MODULE AzureConn -----------------------------
(***************************************************************************)
(* azureiotd (package azureiotd: azureiotd.c, azure_conn.c): a process     *)
(* reads its options, connects to IoT Hub, publishes one message and ends; *)
(* procd starts the next (files/azureiotd.init).  The broker, the network  *)
(* and procd are not in the repository: either end of the connection may   *)
(* go at any point, and neither reading nor writing has a timeout.         *)
(***************************************************************************)
EXTENDS SafeStr

CONSTANTS
  Name,      \* host names
  Chars,     \* how many characters each of them has
  Config,    \* what /etc/config/azureiotd may say, see Option
  Mutable,   \* the broker may fall silent
  MaxFails   \* bound: failures of the network, the broker and the process

(* A host as it is written: [https://]name[:8883][/path], or a part of it. *)
Form == [scheme : BOOLEAN, name : Name \cup {""}, port : BOOLEAN, tail : {"", "/", "?", "#"}]

(* One configuration: host and SNI host, the length of the device id, the  *)
(* kind of authentication, its secret (sas_key, or certificate and key);   *)
(* and whether the broker reads CONNECT as MQTT 3.1.1 has it.              *)
Option == [host : Form, sni : Form, device : 0 .. 127, auth : {"x509", "sas"},
           secret : {"readable", "unreadable", "absent"}, strict : BOOLEAN]

ASSUME AzureAssumption ==
  /\ Chars \in [Name -> 1 .. 255]
  /\ Name \cap (Separator \cup {"", "https", "8883", "path"}) = {}
  /\ Config \subseteq Option /\ Mutable \in BOOLEAN /\ MaxFails \in Nat

Written(f) ==
  (IF f.scheme THEN <<"https", ":", "/", "/">> ELSE <<>>)
    \o (IF f.name = "" THEN <<>> ELSE <<f.name>>)
    \o (IF f.port THEN <<":", "8883">> ELSE <<>>)
    \o (IF f.tail = "" THEN <<>> ELSE <<f.tail, "path">>)

(* What main makes of it: the name alone, or the text when none is left.   *)
Normal(f) ==
  LET only == SafeHostnameOnly(Written(f)) IN IF only = <<>> THEN Written(f) ELSE only

(* Bytes that follow the fixed header and the length: CONNECT holds the    *)
(* device id and the user name "<host>/<device id>/?api-version=...",      *)
(* PUBLISH the topic "devices/<device id>/messages/events/", the packet id *)
(* and a payload of 66 bytes, in which AZUREIOTD_VERSION stands by its     *)
(* name, for it is written inside a string.                                *)
ConnectSize(c) == 10 + (2 + c.device) + (2 + Chars[c.host.name] + 1 + c.device + 24)
PublishSize(c) == (2 + 25 + c.device) + 2 + 66

(* Mutant: the length counts the fixed header as well.                     *)
ConnectLengthFromStart(c) == <<(ConnectSize(c) + 2) % 256>>

(* The bytes that state the size: one in CONNECT; in PUBLISH seven bits    *)
(* each, two of them at most since the buffer has 1024 bytes.              *)
ConnectLength(c) == <<ConnectSize(c) % 256>>
PublishLength(c) ==
  LET v == PublishSize(c) IN IF v < 128 THEN <<v>> ELSE <<128 + (v % 128), v \div 128>>

(* How the broker reads them: a byte from 128 on goes on with the next one *)
(* and what follows the length begins with a zero in both packets.         *)
Framed(size, length) ==
  IF length[1] < 128
  THEN Len(length) = 1 /\ length[1] = size
  ELSE Len(length) = 2 /\ (length[1] - 128) + 128 * length[2] = size

Code == {"0", "2", "-1", "-2", "signal"}

(* The five writes, in their order, and where each leads.                  *)
Piece == {"CONNECT", "hdr", "rem", "body", "DISCONNECT"}
After == [CONNECT |-> "connack", hdr |-> "rem", rem |-> "body", body |-> "puback",
          DISCONNECT |-> "done"]

VARIABLES
  cfg,
  procd,   \* "run", "timer" before the next start, or "stopped"
  count,   \* procd: quick exits in a row
  pc,      \* what the process does next
  host,    \* cfg.host and
  sni,     \*   cfg.sni_host after normalisation
  code,    \* what the last process ended with, "none" before
  line,    \* the connection: "none", "up", or "gone" once the broker has closed it
  up,      \* what has been written and the broker has not taken
  down,    \* what the broker has sent and the process has not read
  mute,    \* the broker has fallen silent
  taken,   \* history: the broker has taken this process's message
  misread, \* history: the length a packet states was not that of its bytes
  ever,    \* history: the broker has taken a message
  fails

conn == <<line, up, down, mute>>
histories == <<taken, misread, ever>>
vars == <<cfg, procd, count, pc, host, sni, code, conn, histories, fails>>

(* What may be written or read, and the states of a process.               *)
TypeOK ==
  /\ cfg \in Config
  /\ procd \in {"run", "timer", "stopped"} /\ count \in 0 .. 6
  /\ pc \in {"off", "load", "sas", "tcp", "tls", "connack", "puback", "done"} \cup Piece
  /\ procd = "run" <=> pc # "off"
  /\ host \in {<<>>, Normal(cfg.host)} /\ sni \in {<<>>, Normal(cfg.host), Normal(cfg.sni)}
  /\ code \in Code \cup {"none"}
  /\ line \in {"none", "up", "gone"}
  /\ up \in Seq(Piece) /\ down \in Seq({"CONNACK", "refused", "PUBACK"})
  /\ mute \in BOOLEAN /\ taken \in BOOLEAN /\ misread \in BOOLEAN /\ ever \in BOOLEAN
  /\ fails \in 0 .. MaxFails

Init ==
  /\ cfg \in Config
  /\ procd = "run" /\ count = 0
  /\ pc = "load" /\ host = <<>> /\ sni = <<>> /\ code = "none"
  /\ line = "none" /\ up = <<>> /\ down = <<>> /\ mute = FALSE
  /\ taken = FALSE /\ misread = FALSE /\ ever = FALSE
  /\ fails = 0
-----------------------------------------------------------------------------
Fault == fails < MaxFails /\ fails' = fails + 1

Goto(to) ==
  pc' = to /\ UNCHANGED <<cfg, procd, count, host, sni, code, histories>>

(* The process ends with c.  procd counts exits of whatever kind that come *)
(* within 2000 s of the start, and gives up once there are more than retry *)
(* in a row; only a process that has waited for the network runs for       *)
(* longer.  The kernel still sends what has been written.                  *)
ExitUpTo(c, retry) ==
  /\ code' = c /\ pc' = "off"
  /\ \E slow \in (IF pc \in {"load", "sas"} THEN {FALSE} ELSE BOOLEAN) :
       count' = IF slow THEN 0 ELSE count + 1
  /\ procd' = IF count' > retry THEN "stopped" ELSE "timer"
  /\ UNCHANGED <<cfg, host, sni, conn, histories>>

(* Mutants: the limit is one too low, or too high.                         *)
ExitEarly(c) == ExitUpTo(c, 4)
ExitLate(c) == ExitUpTo(c, 6)

Exit(c) == ExitUpTo(c, 5)

(* An exit by cleanup.  SSL_shutdown writes as well, and no handler for    *)
(* SIGPIPE is installed.                                                   *)
Closing(c) == Exit(c) \/ (line = "gone" /\ Exit("signal"))

(* procd's timer has run out.  Nothing of an older connection is left.     *)
Start ==
  /\ procd = "timer"
  /\ procd' = "run" /\ pc' = "load" /\ host' = <<>> /\ sni' = <<>>
  /\ line' = "none" /\ up' = <<>> /\ down' = <<>> /\ mute' = FALSE
  /\ taken' = FALSE /\ misread' = FALSE
  /\ UNCHANGED <<cfg, count, code, ever, fails>>

Load ==
  /\ pc = "load"
  /\ \/ /\ Normal(cfg.host) = <<>> \/ cfg.device = 0
        /\ Exit("2")
     \/ /\ Normal(cfg.host) # <<>> /\ cfg.device # 0
        /\ host' = Normal(cfg.host)
        /\ sni' = IF Normal(cfg.sni) = <<>> THEN host' ELSE Normal(cfg.sni)
        /\ pc' = IF cfg.auth = "x509" THEN "tcp" ELSE "sas"
        /\ UNCHANGED <<cfg, procd, count, code, conn, histories>>
  /\ UNCHANGED fails

(* With SAS a token is built and shown, and that is all.                   *)
Sas ==
  /\ pc = "sas" /\ Exit(IF cfg.secret = "readable" THEN "0" ELSE "-2")
  /\ UNCHANGED fails

(* Only a bare name resolves; unless the network fails, it also answers.   *)
Tcp ==
  LET resolves == cfg.host.name # "" /\ host = <<cfg.host.name>>
  IN /\ pc = "tcp"
     /\ \/ resolves /\ line' = "up" /\ Goto("tls") /\ UNCHANGED <<up, down, mute>>
        \/ ~resolves /\ Exit("-1")
     /\ UNCHANGED fails

TcpFails == pc = "tcp" /\ Exit("-1") /\ Fault

(* The certificate and the key are loaded before the handshake.  An empty  *)
(* path is skipped, and the handshake is the broker's to accept or refuse. *)
Tls ==
  /\ pc = "tls"
  /\ \/ cfg.secret # "unreadable" /\ line = "up" /\ ~mute /\ Goto("CONNECT") /\ UNCHANGED conn
     \/ (cfg.secret # "readable" \/ line = "gone") /\ Exit("-1")
  /\ UNCHANGED fails

TlsFails == pc = "tls" /\ Exit("-1") /\ Fault

(* One SSL_write.  Once the broker has closed the connection it is lost,   *)
(* fails (which DISCONNECT ignores), or kills the process.                 *)
SslWrite ==
  /\ pc \in Piece
  /\ \/ /\ line = "up" /\ up' = Append(up, pc)
        /\ Goto(After[pc]) /\ UNCHANGED <<line, down, mute>>
     \/ line = "gone" /\ Goto(After[pc]) /\ UNCHANGED conn
     \/ line = "gone" /\ pc # "DISCONNECT" /\ Exit("-1")
     \/ line = "gone" /\ Exit("signal")
  /\ UNCHANGED fails

(* Four bytes of CONNACK, which must accept; or the first two of a PUBACK, *)
(* of which the type is looked at.                                         *)
SslRead(at, wanted, to) ==
  /\ pc = at
  /\ \/ /\ down # <<>> /\ Head(down) = wanted
        /\ down' = Tail(down) /\ Goto(to) /\ UNCHANGED <<line, up, mute>>
     \/ down # <<>> /\ Head(down) # wanted /\ Closing("-1")
     \/ down = <<>> /\ line = "gone" /\ Closing("-1")
  /\ UNCHANGED fails

(* Mutant: the answer to PUBLISH is not waited for.                        *)
SkipPuback == pc = "puback" /\ Goto("DISCONNECT") /\ UNCHANGED <<conn, fails>>

ReadConnack == SslRead("connack", "CONNACK", "hdr")
ReadPuback == SslRead("puback", "PUBACK", "DISCONNECT")

Finish == pc = "done" /\ Closing("0") /\ UNCHANGED fails

Kill == pc # "off" /\ Exit("signal") /\ Fault
-----------------------------------------------------------------------------
(* The broker closes the connection; what it has sent may be lost with it. *)
Hangup ==
  line' = "gone" /\ up' = <<>> /\ down' \in {down, <<>>}
    /\ UNCHANGED <<cfg, procd, count, pc, host, sni, code, mute>>

(* The broker reads on as long as it understands.                          *)
Take(piece) ==
  /\ line = "up" /\ ~mute /\ up # <<>> /\ Head(up) = piece
  /\ UNCHANGED fails

Answer(reply) ==
  /\ up' = Tail(up) /\ down' = Append(down, reply)
  /\ UNCHANGED <<cfg, procd, count, pc, host, sni, code, line, mute>>

(* The flags of CONNECT announce a password (0xC2), and none follows: a    *)
(* strict broker takes no CONNECT at all.                                  *)
TakeConnect ==
  LET fits == Framed(ConnectSize(cfg), ConnectLength(cfg))
  IN /\ Take("CONNECT")
     /\ \/ fits /\ ~cfg.strict /\ Answer("CONNACK") /\ UNCHANGED histories
        \/ fits /\ cfg.strict /\ Hangup /\ UNCHANGED histories
        \/ ~fits /\ Hangup /\ misread' = TRUE /\ UNCHANGED <<taken, ever>>

TakeHeader ==
  /\ Take("hdr") \/ Take("rem")
  /\ up' = Tail(up)
  /\ UNCHANGED <<cfg, procd, count, pc, host, sni, code, line, down, mute, histories>>

TakeBody ==
  LET fits == Framed(PublishSize(cfg), PublishLength(cfg))
  IN /\ Take("body")
     /\ \/ fits /\ Answer("PUBACK") /\ taken' = TRUE /\ ever' = TRUE /\ UNCHANGED misread
        \/ ~fits /\ Hangup /\ misread' = TRUE /\ UNCHANGED <<taken, ever>>

TakeDisconnect == Take("DISCONNECT") /\ Hangup /\ UNCHANGED histories

Refuse ==
  /\ line = "up" /\ ~mute /\ up # <<>> /\ Head(up) = "CONNECT"
  /\ Answer("refused") /\ UNCHANGED histories /\ Fault

Close == line = "up" /\ Hangup /\ UNCHANGED histories /\ Fault

FallSilent ==
  /\ Mutable /\ line = "up" /\ ~mute /\ mute' = TRUE /\ Fault
  /\ UNCHANGED <<cfg, procd, count, pc, host, sni, code, line, up, down, histories>>

Process ==
  \/ Load \/ Sas \/ Tcp \/ Tls \/ SslWrite \/ ReadConnack \/ ReadPuback \/ Finish

Broker == TakeConnect \/ TakeHeader \/ TakeBody \/ TakeDisconnect

Next ==
  \/ Start \/ Process \/ Broker
  \/ TcpFails \/ TlsFails \/ Kill \/ Refuse \/ Close \/ FallSilent

Spec == Init /\ [][Next]_vars

(* A process that can go on does, a broker that is not mute reads, and     *)
(* procd's timer runs out.                                                 *)
FairSpec == Spec /\ WF_vars(Process) /\ WF_vars(Broker) /\ WF_vars(Start)
-----------------------------------------------------------------------------
(* Success is reported under x509 only when the broker has taken this      *)
(* process's message whole: not one that a dying process left torn, not    *)
(* one of an earlier process, not one it found malformed (azure_conn.c,    *)
(* lines 200-206, 244-250).                                                *)
SuccessMeansPublished == code = "0" /\ cfg.auth = "x509" /\ procd # "run" => taken

(* Whatever stands around the names in the configuration, the process      *)
(* dials the host and shows the SNI host alone, or the host for want of    *)
(* one (azureiotd.c, lines 52-66; azure_conn.c, line 219).                 *)
HostNamed ==
  cfg.host.name # "" /\ pc \notin {"off", "load"} =>
    /\ host = <<cfg.host.name>>
    /\ cfg.sni.name # "" => sni = <<cfg.sni.name>>
    /\ Written(cfg.sni) = <<>> => sni = host

(* The length that a packet states is that of the bytes that follow, for   *)
(* PUBLISH with every device id and for CONNECT up to the 127 bytes that   *)
(* its one length byte can state (azure_conn.c, lines 183, 199); what a    *)
(* broker makes of the fields is another matter.                           *)
NeverMisframed == misread => ConnectSize(cfg) > 127

(* With a configuration that can work, a message gets through in the end,  *)
(* although the network, the broker and the process fail up to five times  *)
(* before, as long as the broker does not fall silent: the respawns procd  *)
(* has to spend are enough (azureiotd.init, line 8).                       *)
Workable ==
  /\ cfg.host.name # "" /\ cfg.device > 0 /\ cfg.auth = "x509"
  /\ cfg.secret = "readable"
  /\ ConnectSize(cfg) <= 127 /\ ~cfg.strict
GetsThrough == Workable /\ []~mute => <>ever

(* With such a configuration procd does not give up before a message is    *)
(* through, unless the failures are more than its respawns: an exit is     *)
(* never counted that no failure stands for, neither one of an older       *)
(* connection nor one counted twice (azureiotd.init, line 8; azure_conn.c, *)
(* lines 217-255).                                                         *)
GivesUpLast == Workable /\ procd = "stopped" => ever \/ fails > 5

(* "Automatic reconnection and error recovery": the daemon always comes    *)
(* back to the connection (README_AzureIoT_0.9.12d.md, line 10).           *)
Reconnects == []<>(procd = "run")
=============================================================================
