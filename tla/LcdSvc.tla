------------------------------- MODULE LcdSvc -------------------------------
(***************************************************************************)
(* The LCD arbitration daemon (package evi-lcdsvc, lcdsvc.c and lcd_hw.c)  *)
(* and the calls of its client library (package evi-lcdclient, evi_lcd.c). *)
(*                                                                         *)
(* A call takes its process's mutex, connects to /var/run/evi-lcd.sock,    *)
(* writes one line, reads one reply and closes.  The daemon serves one     *)
(* connection at a time, reads it 511 bytes at a time, carries out every   *)
(* line that ends within what it has just read and answers each.  Either   *)
(* side may be killed between any two of its steps, and a signal may       *)
(* interrupt a client that waits; procd starts the daemon again.           *)
(***************************************************************************)
EXTENDS LcdPanel, Sequences

CONSTANTS
  Client,        \* threads that call the library (lcdctl is a process of one);
                 \* one that leaves a connection behind goes on as another client
  Process,       \* the processes they belong to
  ProcessOf,     \* [Client -> Process]
  IgnoresPipe,   \* processes that ignore SIGPIPE, as the Python interpreter does
  Request,       \* the lines that clients send
  Spells,        \* commands that the end of some line happens to spell
  Backlog,       \* listen(sfd, Backlog)
  MaxHandles,    \* how many times 11 pin handles fit the descriptor limit
  None

Size == {"short", "wide", "long"}
  \* fits one write | more than dprintf's buffer | more than the daemon's line[512]

Line == [op : Op, arg : Int, size : Size, junk : Nat]
  \* junk counts the line feeds inside the text: what follows each is a line too

ASSUME ClientAssumption ==
  /\ ProcessOf \in [Client -> Process]
  /\ IgnoresPipe \subseteq Process
  /\ Mark = Client
  /\ None \notin Client

ASSUME RequestAssumption ==
  /\ Request \subseteq Line
  /\ Request # {}
  /\ Spells \subseteq {r \in Line : Understood(r)}
  /\ \A r \in Request \cup Spells : r.op = "PUT" => r.arg \in Nat

ASSUME BoundAssumption == Backlog \in Nat /\ MaxHandles \in Nat \ {0}

VARIABLES
  dpc,      \* where the daemon is
  cur,      \* the client whose connection it serves
  serving,  \* "closed" once that client has its reply and has closed
  line,     \* the line in hand: whole, the end of a torn one, or what follows a line feed
  todo,     \* lines received after it
  owe,      \* the reply to be written
  handles,  \* how many sets of pin handles the daemon holds open
  hw,       \* "bad" once lcd_hw_init could not open all of them
  backlog,  \* connections waiting for accept
  cpc,      \* where each client is
  req,      \* its line
  link,     \* its connection
  up,       \* the part of its line the daemon has not received: the tail, or
            \* ("taken" until it is written) what lies beyond a head with a line feed
  down,     \* the first reply it has not read
  done,     \* what has become of its line
  rc,       \* the result of its last call
  holder,   \* who holds each process's g_mu
  panel

daemonVars == <<dpc, cur, serving, line, todo, owe, handles, hw>>
clientVars == <<cpc, req, rc, holder>>
netVars    == <<backlog, link, up, down>>
vars == <<daemonVars, clientVars, netVars, done, panel>>

Reply == {"OK", "ERR"}

TypeOK ==
  /\ dpc \in {"down", "init", "accept", "recv", "exec", "reply"}
  /\ cur \in Client \cup {None}
  /\ serving \in {"open", "closed"}
  /\ line \in {"none", "whole", "torn", "junk"}
  /\ todo \in Nat
  /\ owe \in {"none"} \cup Reply
  /\ handles \in 0 .. MaxHandles
  /\ hw \in {"ok", "bad"}
  /\ backlog \in Seq(Client)
  /\ cpc \in [Client -> {"idle", "lock", "connect", "write", "rest", "read", "dead", "gone"}]
  /\ req \in [Client -> Request]
  /\ link \in [Client -> {"none", "up", "reset"}]
  /\ up \in [Client -> {"none", "head", "all", "tail", "taken", "beyond"}]
  /\ down \in [Client -> {"none"} \cup Reply]
  /\ done \in [Client -> {"no", "part", "blind", "once", "again"}]
  /\ rc \in [Client -> {"none", "ok", "err", "nosock", "noconn", "eof"}]
  /\ holder \in [Process -> Client \cup {None}]
  /\ panel \in Panel

Init ==
  /\ dpc = "down" /\ cur = None /\ serving = "closed"
  /\ line = "none" /\ todo = 0 /\ owe = "none"
  /\ handles = 0 /\ hw = "ok"
  /\ backlog = <<>>
  /\ cpc = [c \in Client |-> "idle"]
  /\ req = [c \in Client |-> CHOOSE r \in Request : TRUE]
  /\ link = [c \in Client |-> "none"]
  /\ up = [c \in Client |-> "none"]
  /\ down = [c \in Client |-> "none"]
  /\ done = [c \in Client |-> "no"]
  /\ rc = [c \in Client |-> "none"]
  /\ holder = [p \in Process |-> None]
  /\ panel = BlankPanel

-----------------------------------------------------------------------------
(* The client library.                                                     *)

Goto(c, l) == cpc' = [cpc EXCEPT ![c] = l]

Call(c) ==
  /\ cpc[c] = "idle"
  /\ \E r \in Request : req' = [req EXCEPT ![c] = r]
  /\ Goto(c, "lock")
  /\ done' = [done EXCEPT ![c] = "no"]
  /\ rc' = [rc EXCEPT ![c] = "none"]
  /\ UNCHANGED <<daemonVars, netVars, holder, panel>>

Lock(c) ==
  /\ cpc[c] = "lock"
  /\ holder[ProcessOf[c]] = None
  /\ holder' = [holder EXCEPT ![ProcessOf[c]] = c]
  /\ Goto(c, "connect")
  /\ UNCHANGED <<daemonVars, netVars, req, done, rc, panel>>

(* out_close: and out: - the connection is closed, the mutex released.     *)
Leave(c, result, l) ==
  /\ rc' = [rc EXCEPT ![c] = result]
  /\ Goto(c, l)
  /\ holder' = [holder EXCEPT ![ProcessOf[c]] = None]
  /\ link' = [link EXCEPT ![c] = "none"]
  /\ down' = [down EXCEPT ![c] = "none"]
  /\ serving' = IF l = "idle" /\ cur = c THEN "closed" ELSE serving

(* What was written and not received stays in the socket, for the daemon.  *)
Return(c, result) == Leave(c, result, IF up[c] = "none" THEN "idle" ELSE "gone")

SocketFails(c) ==
  /\ cpc[c] = "connect"
  /\ Return(c, "nosock")
  /\ UNCHANGED <<dpc, cur, line, todo, owe, handles, hw, backlog, up, req, done, panel>>

(* Nobody listens: the path is missing, or was left by a dead daemon.      *)
ConnectFails(c) ==
  /\ cpc[c] = "connect"
  /\ dpc = "down"
  /\ Return(c, "noconn")
  /\ UNCHANGED <<dpc, cur, line, todo, owe, handles, hw, backlog, up, req, done, panel>>

(* connect() waits while more than Backlog connections are queued.         *)
Connect(c) ==
  /\ cpc[c] = "connect"
  /\ dpc # "down"
  /\ Len(backlog) <= Backlog
  /\ backlog' = Append(backlog, c)
  /\ link' = [link EXCEPT ![c] = "up"]
  /\ Goto(c, "write")
  /\ UNCHANGED <<daemonVars, req, up, down, done, rc, holder, panel>>

(* dprintf(fd, "%s\n", cmd) in one write ...                               *)
WriteAll(c) ==
  /\ cpc[c] = "write" /\ link[c] = "up"
  /\ up' = [up EXCEPT ![c] = "all"]
  /\ Goto(c, "read")
  /\ UNCHANGED <<daemonVars, req, backlog, link, down, done, rc, holder, panel>>

(* ... or, when the line does not fit dprintf's buffer, in two.            *)
WriteHead(c) ==
  /\ cpc[c] = "write" /\ link[c] = "up"
  /\ req[c].size # "short"
  /\ up' = [up EXCEPT ![c] = "head"]
  /\ Goto(c, "rest")
  /\ UNCHANGED <<daemonVars, req, backlog, link, down, done, rc, holder, panel>>

WriteRest(c) ==
  /\ cpc[c] = "rest" /\ link[c] = "up"
  /\ up' = [up EXCEPT ![c] = CASE @ = "head" -> "all"
                               [] @ = "taken" -> "beyond"
                               [] OTHER -> "tail"]
  /\ Goto(c, "read")
  /\ UNCHANGED <<daemonVars, req, backlog, link, down, done, rc, holder, panel>>

(* The process p ends: its descriptors close, its mutex goes with it.      *)
Dies(p) ==
  LET gone == {c \in Client : ProcessOf[c] = p}
  IN /\ cpc' = [c \in Client |-> IF c \in gone THEN "dead" ELSE cpc[c]]
     /\ link' = [c \in Client |-> IF c \in gone THEN "none" ELSE link[c]]
     /\ down' = [c \in Client |-> IF c \in gone THEN "none" ELSE down[c]]
     /\ holder' = [holder EXCEPT ![p] = None]

(* The daemon died under the connection: dprintf raises SIGPIPE, or, where *)
(* that is ignored, fails unnoticed.                                       *)
WriteFails(c) ==
  /\ cpc[c] \in {"write", "rest"} /\ link[c] = "reset"
  /\ ProcessOf[c] \in IgnoresPipe
  /\ Goto(c, "read")
  /\ UNCHANGED <<daemonVars, req, backlog, link, up, down, done, rc, holder, panel>>

WriteKills(c) ==
  /\ cpc[c] \in {"write", "rest"} /\ link[c] = "reset"
  /\ ProcessOf[c] \notin IgnoresPipe
  /\ Dies(ProcessOf[c])
  /\ UNCHANGED <<daemonVars, req, backlog, up, done, rc, panel>>

(* Mutant: the call closes without waiting for the reply.                  *)
ReadReplyAtOnce(c) ==
  /\ cpc[c] = "read"
  /\ Return(c, "ok")
  /\ UNCHANGED <<dpc, cur, line, todo, owe, handles, hw, backlog, up, req, done, panel>>

(* read(): replies that arrived before the connection was reset come first.*)
ReadReply(c) ==
  /\ cpc[c] = "read" /\ down[c] # "none"
  /\ Return(c, IF down[c] = "OK" THEN "ok" ELSE "err")
  /\ UNCHANGED <<dpc, cur, line, todo, owe, handles, hw, backlog, up, req, done, panel>>

(* Mutant: a lost connection is reported like a refusal.                   *)
ReadFailsAsRefused(c) ==
  /\ cpc[c] = "read" /\ down[c] = "none" /\ link[c] = "reset"
  /\ Return(c, "err")
  /\ UNCHANGED <<dpc, cur, line, todo, owe, handles, hw, backlog, up, req, done, panel>>

ReadFails(c) ==
  /\ cpc[c] = "read" /\ down[c] = "none" /\ link[c] = "reset"
  /\ Return(c, "eof")
  /\ UNCHANGED <<dpc, cur, line, todo, owe, handles, hw, backlog, up, req, done, panel>>

(* A signal whose handler returns interrupts a connect() or a read() that  *)
(* waits: -3, with nothing sent, or -4, with the line in the socket or in  *)
(* the daemon's hand.                                                      *)
ConnectInterrupted(c) ==
  /\ cpc[c] = "connect"
  /\ dpc # "down" /\ Len(backlog) > Backlog
  /\ Return(c, "noconn")
  /\ UNCHANGED <<dpc, cur, line, todo, owe, handles, hw, backlog, up, req, done, panel>>

ReadInterrupted(c) ==
  /\ cpc[c] = "read" /\ down[c] = "none" /\ link[c] = "up"
  /\ Leave(c, "eof", "gone")
  /\ UNCHANGED <<dpc, cur, line, todo, owe, handles, hw, backlog, up, req, done, panel>>

(* The process of some client is killed.                                   *)
Kill(p) ==
  /\ \E c \in Client : ProcessOf[c] = p /\ cpc[c] # "dead"
  /\ Dies(p)
  /\ UNCHANGED <<daemonVars, req, backlog, up, done, rc, panel>>

-----------------------------------------------------------------------------
(* The daemon.                                                             *)

Left(c) == cpc[c] \in {"dead", "gone"}
Hungup == serving = "closed" \/ Left(cur)

(* The process has ended, and with it a uci child that held its sockets    *)
(* (LcdStartup): queued and served connections are reset, all descriptors  *)
(* are gone.                                                               *)
Stop ==
  /\ dpc' = "down" /\ cur' = None /\ serving' = "closed"
  /\ line' = "none" /\ todo' = 0 /\ owe' = "none"
  /\ handles' = 0 /\ hw' = "ok"
  /\ backlog' = <<>>
  /\ link' = [c \in Client |-> IF link[c] = "up" THEN "reset" ELSE link[c]]
  /\ up' = [c \in Client |-> "none"]

(* procd or somebody starts it: lock, unlink, bind and listen.             *)
Respawn ==
  /\ dpc = "down"
  /\ dpc' = "init"
  /\ UNCHANGED <<cur, serving, line, todo, owe, handles, hw, clientVars, netVars, done, panel>>

InitHw ==
  /\ dpc = "init"
  /\ dpc' = "accept"
  /\ handles' = 1
  /\ panel' = BlankPanel
  /\ UNCHANGED <<cur, serving, line, todo, owe, hw, clientVars, netVars, done>>

Accept ==
  /\ dpc = "accept"
  /\ backlog # <<>>
  /\ dpc' = "recv" /\ cur' = Head(backlog) /\ serving' = "open"
  /\ backlog' = Tail(backlog)
  /\ UNCHANGED <<line, todo, owe, handles, hw, clientVars, link, up, down, done, panel>>

(* Mutant: recv() may return less than a short line.                       *)
RecvAnyPart ==
  /\ dpc = "recv" /\ serving = "open"
  /\ up[cur] = "all"
  /\ up' = [up EXCEPT ![cur] = "tail"]
  /\ UNCHANGED <<daemonVars, clientVars, backlog, link, down, done, panel>>

(* recv() returned the head of a line, written or read alone, ...          *)
HeadAlone == up[cur] = "head" \/ (up[cur] = "all" /\ req[cur].size = "long")

(* ... without a line feed: it is dropped, ...                             *)
RecvPartial ==
  /\ dpc = "recv" /\ serving = "open"
  /\ HeadAlone
  /\ up' = [up EXCEPT ![cur] = IF @ = "head" THEN "none" ELSE "tail"]
  /\ UNCHANGED <<daemonVars, clientVars, backlog, link, down, done, panel>>

(* Mutant: the line is read with MSG_PEEK.                                 *)
Peek(l, feeds, rest) ==
  /\ dpc' = "exec" /\ line' = l /\ todo' \in feeds
  /\ up' = up

Take(l, feeds, rest) ==
  /\ dpc' = "exec" /\ line' = l /\ todo' \in feeds
  /\ up' = [up EXCEPT ![cur] = rest]

(* ... or with some.                                                       *)
RecvHead ==
  /\ dpc = "recv" /\ serving = "open"
  /\ HeadAlone
  /\ Take("whole", 0 .. req[cur].junk - 1, IF up[cur] = "head" THEN "taken" ELSE "beyond")
  /\ UNCHANGED <<cur, serving, owe, handles, hw, clientVars, backlog, link, down, done, panel>>

(* recv() returned the line as it was written, or only the end of it.      *)
RecvLine ==
  /\ dpc = "recv" /\ serving = "open"
  /\ \/ /\ up[cur] = "all" /\ req[cur].size # "long"
        /\ Take("whole", {req[cur].junk}, "none")
     \/ up[cur] = "tail" /\ Take("torn", {req[cur].junk}, "none")
     \/ up[cur] = "beyond" /\ Take("junk", 0 .. req[cur].junk - 1, "none")
  /\ UNCHANGED <<cur, serving, owe, handles, hw, clientVars, backlog, link, down, done, panel>>

(* recv() returned 0 or failed.                                            *)
RecvEnd ==
  /\ dpc = "recv" /\ Hungup
  /\ serving = "open" => up[cur] \in {"none", "taken"}
  /\ dpc' = "accept" /\ cur' = None /\ serving' = "closed"
  /\ UNCHANGED <<line, todo, owe, handles, hw, clientVars, netVars, done, panel>>

(* Mutant: every command opens the pins, as INIT does.                     *)
DriveReopens(r) ==
  LET opens == handles < MaxHandles
      works == hw = "ok" /\ opens
  IN /\ handles' = IF opens THEN handles + 1 ELSE handles
     /\ hw' = IF works THEN "ok" ELSE "bad"
     /\ IF works THEN panel' = Display(panel, cur, r) ELSE panel' \in Panel

(* Line r reaches the hardware.  INIT forgets the handles it held and      *)
(* opens eleven more; when they run out the pins are not all driven and    *)
(* the controller may latch anything, which no caller checks.              *)
Drive(r) ==
  LET opens == r.op = "INIT" /\ handles < MaxHandles
      works == hw = "ok" /\ (r.op = "INIT" => opens)
  IN /\ handles' = IF opens THEN handles + 1 ELSE handles
     /\ hw' = IF works THEN "ok" ELSE "bad"
     /\ IF works THEN panel' = Display(panel, cur, r) ELSE panel' \in Panel

Owe(reply) == dpc' = "reply" /\ owe' = reply

Performed ==
  done' = [done EXCEPT ![cur] = IF @ # "no" THEN "again"
                                ELSE IF hw' = "ok" THEN "once" ELSE "blind"]

Exec ==
  /\ dpc = "exec" /\ line = "whole"
  /\ Understood(req[cur])
  /\ Drive(req[cur])
  /\ Performed
  /\ Owe("OK")
  /\ UNCHANGED <<cur, serving, line, todo, clientVars, netVars>>

(* Mutant: anything is answered OK.                                        *)
ExecUnknownOk ==
  /\ dpc = "exec"
  /\ line = "whole" => ~Understood(req[cur])
  /\ Owe("OK")
  /\ UNCHANGED <<cur, serving, line, todo, handles, hw, clientVars, netVars, done, panel>>

(* Mutant: an unknown line is not answered.                                *)
ExecUnknownSilent ==
  /\ dpc = "exec"
  /\ line = "whole" => ~Understood(req[cur])
  /\ dpc' = "recv" /\ todo' = 0 /\ line' = "none"
  /\ UNCHANGED <<cur, serving, owe, handles, hw, clientVars, netVars, done, panel>>

(* "ERR unknown" or "ERR badhex"                                           *)
ExecUnknown ==
  /\ dpc = "exec"
  /\ line = "whole" => ~Understood(req[cur])
  /\ Owe("ERR")
  /\ UNCHANGED <<cur, serving, line, todo, handles, hw, clientVars, netVars, done, panel>>

(* What was left of a line reads as a command.                             *)
ExecStray ==
  /\ dpc = "exec" /\ line # "whole"
  /\ \E s \in Spells : Drive(s)
  /\ Owe("OK")
  /\ UNCHANGED <<cur, serving, line, todo, clientVars, netVars, done>>

(* Mutant: the loop over the buffer goes on past its last line feed.       *)
SendReplyOverrun ==
  /\ dpc = "reply" /\ ~Hungup
  /\ down' = [down EXCEPT ![cur] = IF @ = "none" THEN owe ELSE @]
  /\ owe' = "none"
  /\ dpc' = "exec" /\ line' = "junk" /\ todo' = todo - 1
  /\ UNCHANGED <<cur, serving, handles, hw, clientVars, backlog, link, up, done, panel>>

(* dprintf(cfd, ...), and on to the next line of the buffer or to recv().  *)
SendReply ==
  /\ dpc = "reply" /\ ~Hungup
  /\ down' = [down EXCEPT ![cur] = IF @ = "none" THEN owe ELSE @]
  /\ owe' = "none"
  /\ IF todo > 0
       THEN dpc' = "exec" /\ line' = "junk" /\ todo' = todo - 1
       ELSE dpc' = "recv" /\ line' = "none" /\ todo' = 0
  /\ UNCHANGED <<cur, serving, handles, hw, clientVars, backlog, link, up, done, panel>>

(* The peer has closed: the write raises SIGPIPE and the daemon dies.      *)
SigPipe ==
  /\ dpc = "reply" /\ Hungup
  /\ Stop
  /\ UNCHANGED <<clientVars, down, done, panel>>

(* Killed between two steps, or after some characters of a PUT.            *)
Crash ==
  /\ dpc # "down"
  /\ Stop
  /\ UNCHANGED <<clientVars, down, done, panel>>

CrashMidPut ==
  /\ dpc = "exec" /\ line = "whole" /\ hw = "ok"
  /\ req[cur].op = "PUT"
  /\ \E k \in 1 .. req[cur].arg - 1 : panel' = Write(panel, cur, k)
  /\ done' = [done EXCEPT ![cur] = IF @ = "no" THEN "part" ELSE "again"]
  /\ Stop
  /\ UNCHANGED <<clientVars, down>>

-----------------------------------------------------------------------------
ClientStep(c) ==
  \/ Lock(c) \/ ConnectFails(c) \/ Connect(c)
  \/ WriteAll(c) \/ WriteHead(c) \/ WriteRest(c)
  \/ WriteFails(c) \/ WriteKills(c) \/ ReadReply(c) \/ ReadFails(c)

Serve ==
  \/ InitHw \/ Accept \/ RecvPartial \/ RecvHead \/ RecvLine \/ RecvEnd
  \/ Exec \/ ExecUnknown \/ ExecStray \/ SendReply \/ SigPipe

Next ==
  \/ \E c \in Client :
       \/ Call(c) \/ SocketFails(c) \/ ClientStep(c)
       \/ ConnectInterrupted(c) \/ ReadInterrupted(c)
  \/ \E p \in Process : Kill(p)
  \/ Serve \/ Respawn \/ Crash \/ CrashMidPut

Spec == Init /\ [][Next]_vars

(* A thread that has a step to take takes it, and so does the daemon while *)
(* it lives.  Nothing makes a client call, a signal come, a process die    *)
(* or procd respawn.                                                       *)
FairSpec ==
  /\ Spec
  /\ \A c \in Client : WF_vars(ClientStep(c))
  /\ WF_vars(Serve)
-----------------------------------------------------------------------------
(* Properties.                                                             *)

(* A result tells the truth about the panel, as long as no leftover spells *)
(* a command: after 0 the line has been carried out, after -5, -3 and -2   *)
(* it has not.                                                             *)
ResultsTruthful ==
  \A c \in Client :
    /\ rc[c] = "ok" => done[c] \in {"once", "blind"}
    /\ rc[c] \in {"err", "nosock", "noconn"} => done[c] = "no"

(* No line is carried out twice, whoever dies when.                        *)
AtMostOnce == \A c \in Client : done[c] # "again"

(* The daemon writes to a closed connection, and is killed by SIGPIPE,     *)
(* only when its client has died, when a signal has interrupted the wait   *)
(* for the reply (evi_lcd.c:32-33), or when the text held a line feed, so  *)
(* that the client has had the first of several replies.                   *)
KilledOnlyIfAbandoned ==
  dpc = "reply" /\ Hungup =>
    \/ cpc[cur] = "dead"
    \/ cpc[cur] = "gone" /\ rc[cur] = "eof"
    \/ line = "junk"

(* The library is used as a promise of LcdApi.                             *)
Phase == [c \in Client |->
            IF cpc[c] \in {"idle", "dead", "gone"} THEN cpc[c] ELSE "called"]
Api == INSTANCE LcdApi WITH phase <- Phase, want <- req, applied <- done, result <- rc
Promise == Api!Spec

(* A call that has the mutex comes back, though the daemon may die and     *)
(* stay dead and other callers may die in the middle of theirs.            *)
CallsReturn ==
  \A c \in Client : cpc[c] = "connect" ~> cpc[c] \in {"idle", "dead", "gone"}

(* No call waits for what nobody will do: a thread that waits for g_mu     *)
(* waits for one in the middle of a call, not for one that has returned or *)
(* died, and a thread that waits for a reply has a line in its connection, *)
(* which the daemon has accepted or will, or the daemon is about to answer *)
(* it (evi_lcd.c:22-41; handle_client, lcdsvc.c:40-61).                    *)
Queued(c) == \E i \in 1 .. Len(backlog) : backlog[i] = c
InService(c) == cur = c /\ serving = "open"

NobodyForgotten ==
  \A c \in Client :
    /\ cpc[c] = "lock" /\ holder[ProcessOf[c]] # None =>
         cpc[holder[ProcessOf[c]]] \in {"connect", "write", "rest", "read"}
    /\ cpc[c] = "read" /\ link[c] = "up" /\ down[c] = "none" =>
         \/ up[c] # "none" /\ (Queued(c) \/ InService(c))
         \/ InService(c) /\ dpc \in {"exec", "reply"}

(* Every command the protocol knows is accepted (proto.h:3-13) when its    *)
(* line fits one write, whatever lines of other clients are torn, hold     *)
(* line feeds or spell commands.                                           *)
NeverRefused ==
  \A c \in Client : rc[c] = "err" /\ req[c].size = "short" => ~Understood(req[c])

(* The daemon is resident (readme_evi_lcdsvc.md:4): no client's doing ends *)
(* it.                                                                     *)
Resident == ~(dpc = "reply" /\ Hungup)

(* 0 is success (readme_libevi_lcd.md:28): the panel obeyed a line that    *)
(* fits one write.                                                         *)
OkMeansShown ==
  \A c \in Client : rc[c] = "ok" /\ req[c].size = "short" => done[c] = "once"
=============================================================================
