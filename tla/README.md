# Verification of Python2C_7688

The repository replaces the Python programs of an EV charger (MT7688, OpenWrt
15.05.1) by C: a daemon that arbitrates the character LCD and its client
library, a caption library, a command that switches the relays of a USB dongle,
and a daemon that talks to Azure IoT Hub. This directory holds TLA+
specifications of those parts, TLC configurations that check them, and proofs
checked by TLAPS. Paths below are relative to `src/`; `PROJECT.json` maps every
definition to the lines it models.

## 1. The system

| Component | State | Operations | Meets |
|---|---|---|---|
| `evi-lcdsvc` (`lcdsvc.c`, `lcd_hw.c`) | the connection in hand, its 511-byte buffer, the pin descriptors in `g`, the panel | INIT, CLEAR, HOME, INSTR, DDRAM, PUT; one reply per line | clients over `/var/run/evi-lcd.sock`; sysfs GPIO; UCI through child processes; procd |
| start of `lcdsvc` | lock file, socket path | open, flock, unlink, bind, listen | other instances, its own children |
| `evi-lcdclient` (`evi_lcd.c`, `evi_lcd.py`) | `g_mu`, `g_sock_path` | `evi_lcd_init` ... `evi_lcd_printf`: connect, write a line, read a reply, close | the daemon; threads of its process |
| `lcdctl` | none | one command per process | the daemon |
| `libevi` captions (`evi_caption.c`, `evi_charge_router.c`, `evi_charge.c`) | the caches `ui` and `u2`, `g_evi_mtx` | fifteen captions | the same panel, through a HAL of its own and past the daemon |
| `libevi` HAL, `initlcm` | `inited` | nibbles on the pins | the panel |
| `displayCaptionFunc.py` | `_inited` | the old Python names | `evi.py`, else the socket |
| `evi-azurectl` (`main.c`, `usb_dongle.c`) | UCI `usbdongle`, `dongleport` | `--set setDevOn/Off`, `--get getUsbDongle`, `--set setPingSettings` | the dongle over ttyUSB; UCI; the process that watches the dongle |
| `azureiotd` (`azureiotd.c`, `azure_conn.c`, `safe_str.c`) | its options, one connection | connect, publish one message, disconnect, exit; or build a SAS token, exit | IoT Hub; procd, which counts its exits |
| `azureiotd` certificates (`dps_certificate.c`, `enhanced_main.c`) | files under `/IoT/openssl`, UCI `regid`, `AzureKeyChange` | generate, skip, reset | openssl commands, flash, `firstboot` |
| `libevi-azure` | none | SEND, STATUS to `azureiotd.sock` | a daemon that is not in the repository |
| `evi-python2c` | none | a tick that logs | procd |

`evi-azurectl` also holds `modbus_rtu.c`, `netinfo.c`, `procctl.c` and
`utils.c`, which nothing calls, and `azureiotd` a Modbus stub that makes its
values up. `azureiotd-0.9.12d-backup` is an older copy.

What is hard here is not any single function but what happens between them:

* *LCD daemon.* One connection at a time, framing by line feed over a stream,
  replies to peers that may be gone, deaths of either side between any two
  steps, descriptors that are never closed. Correct means: a result tells the
  truth about the line, a line takes effect at most once, a call returns.
* *Start.* Several instances race for a lock and a path that outlive their
  owners, children inherit the lock and the listening socket, and procd gives up
  after a few quick exits. Correct means: the one that serves is
  the one clients reach, and some instance ends up serving.
* *Captions.* Two caches and several threads share one panel. Correct means:
  after a call the panel shows what the call asked for, and a repeated call does
  not draw again.
* *Bus.* Three programs pulse the same pins, two in bytes and one in halves of
  bytes. Correct means: the controller takes what a program sends as it was
  meant, and an initialisation recovers from whatever it finds.
* *Dongle.* Commands share a serial line and a read-modify-write mask, replies
  come late, and another process writes the same mask. Correct means: success is
  truthful, the mask tells the state of every device nobody has interfered with,
  and a command changes its own bit only.
* *Azure connection.* A connection that either side may lose between any two of
  five writes and two reads, packets framed by hand, host names written in many
  ways, and a process manager that gives up. Correct means: success is truthful,
  packets are well formed, and a message gets through in the end.
* *Certificates.* A chain of commands, each of which may fail, over files that
  reach flash later. Correct means: reported success leaves a key and the chain
  for that key, and failures do not keep later calls from succeeding.

## 2. Modules

| Module | What it is |
|---|---|
| `LcdPanel` | the panel and what each protocol line makes it show; pure operators (the controller itself is external) |
| `LcdApi` | what a caller of `libevi_lcd` may rely on: an atomic call with an honest result |
| `LcdSvc` | the daemon and the client library in detail; implements `LcdApi` |
| `LcdDaemon` | what clients may rely on: one daemon at a time that answers until it ends |
| `LcdStartup` | instances of the daemon coming up and going down; implements `LcdDaemon` |
| `EviCaption` | the captions, their caches and the mutex |
| `LcdBus` | the pins that `lcdsvc`, `initlcm` and the HAL of `libevi` share, and the controller's view of them |
| `DonglePort` | `evi-azurectl --set setDevOn/Off`, the dongle and its watcher |
| `DpsCert` | `dps_generate_certificates`, its commands, its files and the flash |
| `SafeStr` | `safe_hostname_only`, as pure operators over sequences of tokens |
| `AzureConn` | `azureiotd`: one process after the other, the MQTT exchange, the broker and procd |
| `LcdSvcProofs`, `LcdCallProofs`, `LcdStartupProofs`, `EviCaptionProofs`, `LcdBusProofs`, `DonglePortProofs`, `DpsCertProofs`, `AzureConnProofs` | theorems and proofs |
| `MC*` | values of the constants for TLC |

### LcdSvc

A call is `Call`, `Lock` (`g_mu`), `Connect`, one or two writes, `ReadReply` or
`ReadFails`; every exit of `send_cmd` is `Leave`, which closes the connection,
releases the mutex and sets `rc` (`ok` 0, `nosock` -2, `noconn` -3, `eof` -4,
`err` -5). A signal whose handler returns interrupts a `connect` or a `read` that
waits (`ConnectInterrupted`, `ReadInterrupted`): the call gives up although the
daemon is alive. A client that leaves a connection behind with bytes the daemon
has yet to read is `gone` from then on, and its caller goes on as another client. A line carries its command, its argument (for PUT the length of the
text), the number of line feeds inside its text (`junk`) and its size: *short*
fits one write, *wide* does not fit the 64-byte buffer of uClibc's `dprintf`
and may be written in two pieces, *long* does not fit the daemon's `line[512]`.

The daemon is `Respawn`, `InitHw`, `Accept`, `RecvPartial` / `RecvHead` /
`RecvLine` / `RecvEnd`, `Exec` / `ExecUnknown` / `ExecStray`, `SendReply`. `RecvPartial` is
lines 48-49 of `lcdsvc.c`: what was read without a line feed is dropped, so what
comes next is the end of a torn line. `RecvHead` is the same read when the text
has a line feed within it: what stands before it is carried out and answered,
while the rest is still to come (`up` is `taken`, then `beyond`). Whether such an end, or what follows a
line feed inside a text, happens to read as a command is a parameter, `Spells`.
`Drive` is the hardware: `INIT` takes eleven descriptors and forgets those it
had; with none left the panel may show anything and the reply is still OK.
`Crash`, `CrashMidPut`, `SigPipe` and `Kill` stop either side between two steps;
`Stop` resets the queued and the served connections, as the kernel does once the
last `uci` child that holds the sockets has ended; `LcdStartup` has the time before
that, and `LcdDaemon` says how the two fit.

`done` records what has become of a client's line: `no`, `part` (the daemon
died within the text), `blind` (carried out without the pins), `once`, `again`.
It reads nothing and no guard of the daemon or the library reads it; `LcdApi`
calls it `applied`. `Api == INSTANCE LcdApi WITH phase <- Phase, want <- req,
applied <- done, result <- rc`, with `panel` for itself, is the refinement mapping:
`Apply` happens when the daemon carries the line out, perhaps after its caller
has died; `Return` when the call returns.

### LcdStartup

`pc` of an instance walks through `main`; `locked` holds the instances whose
descriptor has the flock and `child` those a live `uci` child of which holds it
too. The child also holds the listening socket, since neither is opened
close-on-exec: after `Die` the path still accepts connections, which nobody
answers, until `ChildEnds`. `path` is the instance whose socket the path names
and outlives it. `Die` may strike anywhere. `Alive` and `Reached` map this to
`LcdDaemon`: an instance is reached while its socket listens and the path names
it, and the end of a daemon may leave it so for a while (`End`, `Forget`).

procd keeps one instance (`managed`, `Respawn`), anybody may start others
(`LaunchByHand`). `respawn` without arguments gives up after more than five exits
in a row that come soon after the start (`Respawns`, `quick`, `GivenUp`), whatever
their code: a failed `flock` counts like a crash. `excused` is a history: every
one of those exits was a kill, or met a lock that somebody held.

### EviCaption

A call is `Call`, `Lock`, `Check` (`need`, `need2`), `Clear` (`begin`), `Draw`,
`Keep` (`keep`, `keep2`), `Unlock`. A caption is `[fn, a, b, n]`; nine of the
fifteen functions pass NULL for both texts; a text is a
representative of the cases the code tells apart: NULL, empty, fitting, exactly
what remains of a long one, and long. `screen` is the set of drawings since the
last clear, so drawing over another screen shows. `drawn`, `owner` and `last`
are histories: what each cache stands for, the process and the file whose caption
cleared the panel last, and the caption whose call ended last in each process.
A text is `Lost` on the cache when it is NULL or too long to be kept whole: such
a caption never finds itself. `RepeatRule` says that these are the repeated calls
that draw, and no others; `RepeatSkipped`, what the documents say, is that none
does.

`owner` is None when a process cleared the panel while another was about to draw
on it: nothing in the code keeps processes apart, and then the screen is
anybody's. `Restart` kills a process in the middle of anything.

A drawing is one step and is taken as obeyed, although `LcdBus` shows that the
function set `begin()` starts with puts a 4-bit controller out of step: the two
modules answer different questions, whether the right drawing is made and
whether the panel understands it.

### LcdBus

A pulse of EN, with the pins set before it, is one step (`Pulse`). In 8-bit mode
(`wide`) the controller takes a byte, in 4-bit mode a half (`half` is the one
that waits), and `Obey` is what an instruction changes: a function set the mode,
a display control `on`, a clear `blank`. The controller is external, and starts
in any state, as after a restart of the CPU alone. `LcdHwInit` is the sequence
of `lcd_hw_init`, `InitLcm` that of `initlcm`, `Ensure` that of `ensure()` in
half bytes; `InitPulse` sends the next element. `Write` is a byte of the
daemon's; `WriteUpper` and `WriteLower` are the two `w4` of `w8`, between which
any other process may pulse and the own one may `Die`. While a library pulses
four pins the others float, or stay where the daemon left them (`Floating`).
`owner`, `steered` and `meant` are histories: who alone has pulsed since its
initialisation began, whether it has asked for the other mode, and what it has
sent last. The pins are those of `/etc/config/lcd`, `evi_hal_gpio_conf.h` and
`initlcm.c`, which agree.

### DonglePort

A run is `Start` (parse, check the port), `Open` or `OpenFails`, `Flush`, `Send`,
`Query`, `Read` or `ReadTimesOut` or `WriteFails`, `Get` or `GetFails`, `Save` or
`SaveFails`; it may die anywhere (`RunDies`), and `Ended` is what every end has in
common. Any number of runs are under way at once. A number is parsed as
hexadecimal first, so that "10" is wrong and "1f4" is port 1; `Value` holds what
comes out. A `uci get` that fails reads like an empty mask, a `uci set` that fails
changes nothing, and no run looks.

The relays, the serial buffers, `Unplug`, `Plug` and `Watch` (who writes -1) are
external: `wire` is what has been sent and not obeyed, `Device` obeys an A0
message and answers a query at once, later (`late`, `AnswerLate`) or not at all;
`Flush` drops what the kernel still has of `wire`, which may be none of it, and
what has been received. So a run may start with the orders and queries of a dead
one before its own, and read the answer that a query of an earlier run gets late
as its own. What keeps that harmless is the half second of `usleep` before the
query, by which the dongle is taken to have obeyed the order (`Query`'s guard), and
the second the twenty tries take. Descriptors of a dongle that was pulled out
(`cut`) fail.

Three histories say for whom the code can promise anything: `crossed`, runs that
another run met between its own flush and reply, or at a port it was still about
to save, and runs during which the dongle was pulled out - not runs that find
something left on the line; `stale`, bits that a run could not read or that have
changed since; `doubt`, ports whose bit may be wrong. `doubt` grows when a run times
out (the relay has switched, the mask stays), dies or cannot save once it has
sent, when a crossed run saves, when a run brings back a stale bit, and when the
dongle is pulled out; it shrinks when a run that nobody crossed saves its port.

### DpsCert

One action per command and one per way it fails. `file` is what programs read,
`flash` what a power loss leaves; a content is `None`, `Part` or the number of
the key it belongs to. `Begin` is one start of `enhanced_main`, which looks for
the files itself, leaves them as they are if they exist, and calls at most once;
nothing in the code calls again, so that a next call is the next start, by
whoever makes it. `Skip` is the exit of lines 63-68 for a caller that has not
looked. `listed` is openssl's `index.txt`, which `Flags` creates anew and `Ca`
enters the device in: an entry left there would make every later `openssl ca`
refuse it. `Kill` between commands, `Reset` for `firstboot && reboot`, which may
fail and erase nothing (`ResetFails`), `Provision` for the external writer of
`regid`. `uci`, `mkdir`, `rm` and `touch` are taken to succeed. Four faults are
switched by `Faults`: `cat` and `sync` failing unnoticed, `power`, and `orphan`, an
`openssl genrsa` that outlives its parent. Two histories: `struck`, which of them
have happened since the last reset, and `reason`, whether the last call met no
serial number or a command of its own that had all it needs and went wrong.

### SafeStr and AzureConn

A host is a sequence of tokens: the separators the code looks for, and runs of
other characters. `SafeHostnameOnly` drops what stands before the first "://",
wherever it is, then what follows the first of `/?#`, then what follows the
first colon.

A process is `Load` (options, normalisation, the early exit with 2), then `Sas`,
which builds a token and exits, or `Tcp`, `Tls`, and five pieces written by
`SslWrite` (CONNECT, the header, the length and the body of PUBLISH, DISCONNECT)
with `ReadConnack` and `ReadPuback` between them, and `Finish`. Sizes are
counted as the code writes them (66 bytes of payload: AZUREIOTD_VERSION stands
inside the string literal and is sent by its name): `ConnectLength` is the one
byte of line 183, `PublishLength` the loop of line 199, and `Framed` how a broker
reads them. The flags of CONNECT (0xC2) announce a password that never follows: a broker that
reads CONNECT as MQTT 3.1.1 has it (`strict`) hangs up on every one, and
`NeverMisframed` is about the length fields alone. A certificate or key path that
is empty is skipped, and the handshake is the broker's to accept or refuse
(`secret = "absent"`); one that cannot be read ends the process. `Closing`
is `cleanup`; writing to a connection the broker has closed is lost, fails, or is
SIGPIPE, which nobody handles.

External are the broker (`TakeConnect` ... `TakeDisconnect`, `Refuse`, `Close`,
`FallSilent`) and procd (`Exit`, `Start`): `respawn 2000 1 5` counts exits that
come within 2000 s of the start, whatever their code, and stops after more than
five in a row. A process that waits for the network may or may not outlast the
2000 s; one that exits before it dials cannot.

## 3. What TLC checks

| Run | Shows | Bounds |
|---|---|---|
| `lcdsvc_faults` | `TypeOK`, `ResultsTruthful`, `AtMostOnce`, `KilledOnlyIfAbandoned`, `Promise` (refinement of `LcdApi`) | 2 clients in 2 processes, one ignoring SIGPIPE; 4 kinds of line (wide with a line feed, long with one, INIT, malformed); backlog 0, so that connect blocks and may be interrupted; 2 sets of descriptors; 1 cell |
| `lcdsvc_live` | `AtMostOnce` when leftovers spell a command, `NobodyForgotten`, `NeverRefused`, `OkMeansShown`; `CallsReturn` under `FairSpec` | 3 clients, two of them threads of one process; a line that fits and a long one whose end spells a command; backlog 1, one set of descriptors (the start takes it) |
| `lcdstartup` | `ServingIsReachable`, `BindNeverBusy`, `OneAnswers` (refinement of `LcdDaemon`), `ComesBack` under `FairSpec` | 3 instances, kept by procd or started by hand; 3 deaths; procd's 5 respawns |
| `caption_calls` | `TypeOK`, `ShownWithinFile`, `CacheHonest`, `RepeatRule` | 2 threads of one process and 1 of another, which may die anywhere, 4 captions of both files: with and without a NULL text, too long, and one the head of another; the two threads are symmetric |
| `bus_settles` | `Settled`, `Obeyed` | one of each program; a letter, an address, a clear and a function set; D3..D0 all low or all high |
| `dongle_runs` | `TypeOK`, `SuccessMeansSwitched`, `MaskMirrors`, `OthersKept` | 2 runs at once (symmetric), one after the other without end; ports 1 (open) and 2 (closed contact) and a wrong value; `Room` = 2 messages on the line (an order or a query of a dead run and one of the living); late replies, deaths, failing uci calls, unplugging and replugging anywhere |
| `dps_faults` | `TypeOK`, `SuccessMeansUsable`, `SuccessIsDurable`, `OwnFailuresOnly` | all faults; 3 failures, deaths or power losses, 7 keys |
| `azure` | `TypeOK`, `SuccessMeansPublished`, `HostNamed`, `NeverMisframed`, `GivesUpLast`, and `GetsThrough` under `FairSpec` | 76 configurations: every way to write host and SNI host, device ids on both sides of 127 bytes of PUBLISH (32 and 33 characters) and of CONNECT (39 and 40) and beyond 255, both authentications, a secret that is unreadable or left out, a broker that wants the password; 5 failures |

The clients, instances and threads are two or three: every property relates at
most two of them, or one and the daemon, and the third is there to wait in the
queue, for the mutex or for the lock. Counters that the code does not bound are:
descriptors (`MaxHandles`, where INIT is among the lines one reaches the limit),
messages on the serial line (`Room`), deaths and failures
(`MaxDeaths`, `MaxFails`; in `azure` five, because with a sixth procd may have
given up and `GetsThrough` is false), keys (`MaxKeys`, large enough that it never stops a
run). Panel addresses are few because a cell only remembers its writer.

`Backlog` is 5 in the code; 1 makes a client wait for room in the queue with three
clients already. (`CallsReturn` needs a queue that holds more than one: a client
that waits for room has no order among those that do, and with `Backlog` = 0 two
others may take turns for ever.)

Some runs leave a case out because the property fails there, as the next table
or section 6 says: `NeverRefused` and `OkMeansShown` speak of lines of one write;
INITs that use up the descriptors are in `lcdsvc_faults` and not in `lcdsvc_live`,
so that `OkMeansShown` finds descriptors lost by any other command only;
`Settled` leaves out the display after `initlcm`; `SuccessMeansSwitched` and
`MaskMirrors` runs that meet each other, and the ports in doubt;
`SuccessMeansUsable` a `cat` that failed; `SuccessIsDurable` also a `sync` that
failed; `GetsThrough` a broker that falls silent and one that is strict.

Runs that TLC must find violated show where code and documentation part:

| Run | The code does | The documentation says |
|---|---|---|
| `lcdsvc_sigpipe` | a reply to a client that is gone kills the daemon | it is resident (`readme_evi_lcdsvc.md:4`) |
| `caption_repeat` | a caption without texts is drawn again at every call: NULL never equals the kept "" | the same call is not drawn again (`libevi_ERRATA.md:3`, `libevi_README.md:5`) |
| `caption_stale` | going back to a caption of the other file draws nothing | switch screens to redraw (`libevi_ERRATA.md:7`) |
| `azure_reconnect` | after six quick exits, successes included, procd gives up | automatic reconnection and error recovery (`README_AzureIoT_0.9.12d.md:10`) |

### Fairness

* `LcdSvc!FairSpec`: weak fairness of each client's steps and of the daemon's
  while it lives. A thread that can run is scheduled; `recv` returns when there
  is something to receive; nothing makes anybody call, die, or procd respawn, so
  `CallsReturn` holds even when the daemon stays dead. It starts at `connect`:
  a mutex gives no order, so `Lock` may starve under the code's own rules.
* `LcdStartup!FairSpec`: weak fairness of `main`'s steps, of procd's `Respawn`
  (`respawn` in `evi-lcdsvc.init`) until it has given up, and of `uci` children,
  which read a file and exit. Nothing makes anybody start an instance by hand.
  Deaths are bounded by `MaxDeaths`, for otherwise nothing could come back for
  good; procd may give up all the same, when instances it starts meet a lock
  that is held, and `ComesBack` says that it does so for such reasons only.
* `AzureConn!FairSpec`: weak fairness of the process (a program that can go on
  does), of a broker that is not mute, and of procd's timer. Reading has no
  timeout in the code, so nothing is assumed of a mute broker, and `GetsThrough`
  speaks of behaviours in which it never is. Failures are bounded by `MaxFails`.

The other modules state no fairness: nothing in the code makes anybody switch a
port, draw a caption, or start `enhanced_main` again.

## 4. What TLAPS proves

The theorems hold for every value of the constants that satisfies the named
assumptions (`CellsAssumption`, `ClientAssumption`, `RequestAssumption`,
`BoundAssumption`; `InstAssumption`; `CaptionAssumption`; `BusAssumption`;
`ValueAssumption`; `DpsAssumption`; `AzureAssumption`).

**LcdSvcProofs.** `TypeCorrect`, `Truthful`, `Once`, `SigPipeNeedsAbandon` and
`KeepsPromise`. None of these is inductive: whether a reply is true depends on
what the daemon still has of the line, and on who else is in the queue. `IInv`
adds
  - `ClientInv`: where a client stands tells what its connection holds; a line
    that is not received yet has had no effect, an OK that is not read yet means
    that it had one, an ERR that it had none;
  - `QueueInv`: a client is queued at most once, and not while it is served;
  - `ServedInv`: the client being served is alive with its connection up, dead,
    or has closed;
  - `LineInv`: the line in hand has had no effect before it is carried out, the
    reply owed fits it, and a reply to a line feed's leftover follows the first;
  - `HeadInv`: while the rest of a line whose head was carried out is under way,
    the head's reply is waiting or still owed.

`SigPipeNeedsAbandon` (`KilledOnlyIfAbandoned`) names the three ways a client can be
gone before its reply: it died, a signal interrupted its wait, or its text held a
line feed.

There is one lemma per action (`CallKeeps` ... `CrashMidPutKeeps`), each with a
step per conjunct. `Truthful` and `KeepsPromise` assume `Spells = {}`: when a
leftover spells a command, the OK it earns can be taken for the answer to the
line it was torn from. `KeepsPromise` sorts the steps into those `LcdApi` does
not see, returns, effects and deaths, each a lemma.

**LcdCallProofs.** What a caller sees, from `IInv` and three more invariants.
`NobodyLeftWaiting` (`NobodyForgotten`) is the safety half of `CallsReturn`: no
thread waits for a mutex whose holder has returned or died (`HolderInv`), nor for
a reply that is neither on its way nor owed (`Attended`: a connection that has
not been reset is queued or served, and what a reading thread sent is still to be
received or in the daemon's hand). It holds whatever is sent, also when a line
comes in two pieces. `ShortAccepted` (`NeverRefused`) needs `ShortInv`: a line
that fits one write arrives whole, so that what the daemon has in hand for that
client is the line itself, and nothing that other clients leave behind gets in
between. `OkIsShown` (`OkMeansShown`) adds `Steady`, and assumes that no line and
no leftover is an INIT: each INIT opens descriptors for good, and without
descriptors an OK means nothing.

**LcdStartupProofs.** `Reachable` and `BindFree` from `Alone` (an instance past
its flock holds the lock and is the only one, and so is a child) and `Named` (the
path is nobody's at bind, its own from there on). `StartRefines` (`OneAnswers`): a
start is `Begin`, `Listen` is `Answer`, a failed call or a death is `End`, which
leaves the daemon reached if a child still holds its socket, the end of that child
is `Forget`, and every other step of `main` or of a child is a stutter - `Unlink`
too, which is what could take a name away: `Listening` says that of the dead only
those listen that have left a child, and a child shuts the others out of the lock
before they come to `unlink`. It holds for any number of deaths and respawns.

**LcdBusProofs.** `InitSettles` (`Settled`) and `DaemonObeyed` (`Obeyed`), for
any number of programs, any bytes and any state of the controller at the start.
Neither is inductive, since both speak of programs that have finished their
initialisation only. `Underway` says how far each pulse has brought the
controller (after the third function set it is in the 8-bit mode, whichever mode
and pending half it began with; from there on the mode, the half that waits and
the clear follow pulse by pulse), `Ready` what is left at the end, and `Placed`
where each program can be. `ByteInit` and `HalfInit` follow the two kinds of
initialisation, `Invariance` has a step per action.

**EviCaptionProofs.** `CachesHonest` for any number of threads and processes,
from `Keyed` (a cache is empty or the key of the caption whose drawing it stands
for) and `SkipMeansSame`, a lemma about `Need`, `Key` and `Drawing`: what finds
its key has its drawing, up to the cut of `keep`. `PanelRight` (`ShownWithinFile`)
and `RepeatsDecided` (`RepeatRule`) hold for any number of processes too. The latter
says both which repeated calls draw and which do not: nobody else writes a
process's cache, so that it is the caption's own texts that decide. `Mutex`
leaves one thread of a process inside; `CallInv` follows it, and says that until
two processes draw at once the one that cleared the panel last draws alone (two
that are about to draw would both be the owner); `ScreenInv` says that outside of
its owner's drawing the screen is what the owner's cache stands for, `LastInv`
that the cache of a process's last call stands for that call.

**DonglePortProofs.** For any number of runs at once, killed anywhere: `OthersStay`
(`OthersKept`) from `Fresh`, what a run is about to save; `SuccessSwitches`
(`SuccessMeansSwitched`) from `Undisturbed`. `Alone` follows a run that nobody
crossed: its order is the last message on the line, behind those that runs now
gone have left there, it is obeyed before the run asks, and from then on nothing
on the line is about its port. So whatever reply the run reads, its own or the
late one of a run that timed out or died, the relay has switched; nobody need
read what the reply says. The half second before the query is what this rests on:
without it (`QueryAtOnce`) TLC finds an old reply taken for success. `MaskRight`
(`MaskMirrors`) comes from `Settling` (a port in nobody's hands and not in doubt
has the right bit, and nothing on the line will change it), `Kept` and `Doubted`.
There is a lemma for a run's own steps, for those of others (`OtherStep`), for
their ends (`OtherEnds`, `EndDoubts`), for the dongle's and for the rest of the
world's.

**AzureConnProofs.** `Published` (`SuccessMeansPublished`) and `Framing`
(`NeverMisframed`) from `Progress`: where the process stands tells what is on the
way to the broker and back, so that a PUBACK can only come from a whole packet
of this process. `Framing` rests on the arithmetic of the two length fields and
speaks of them only: what a strict broker makes of CONNECT's flags is another
matter, and such a broker takes nothing.
`HostsNamed` (`HostNamed`) rests on lemmas about the operators of `SafeStr`:
`ChopKeepsPrefix` and `DropCases` say what is cut and where (the first position
of a set comes from the well-foundedness of <), `OnlyName` puts them together,
`NormalForm` says for any text that the result holds no separator and is a fixed
point, and `HostAlone` that a name is all that is left of a host written with any
scheme, port and tail. `Perseveres` (`GivesUpLast`), the safety half of
`GetsThrough`, is an accounting argument, for any number of failures: `Paid` says
that until a message is through the exits procd has counted, and the one that is
`Owed` because the connection is gone or CONNECT was refused, are at most the
failures. It needs `Exchange` (what may be on the line at each `pc`; otherwise an
answer of the wrong kind would be an exit nobody pays for), `Named` (the name
resolves) and `Framing`'s lemmas (the broker does not hang up by itself).

**DpsCertProofs.** `Durable` (`SuccessIsDurable`) from `FilesKept`: which files
a call has at each command, and, while `sync` has not failed either, that what a
completed call left is on flash.
`UsableCertificates` (`SuccessMeansUsable`) adds in `ChainKept` that a chain
exists only as the end of a call that got that far. Both hold for every set of
`Faults`: the properties themselves speak of those that have not `struck`.
`RetriesWork` (`OwnFailuresOnly`) needs no such condition: `Supplied` says that
each command has what it needs, a whole key, an index without the device, whatever
an orphan or an earlier call has done in between, so that what fails fails on its
own account.

Only model-checked: the liveness properties `CallsReturn`, `ComesBack`
and `GetsThrough`. They rest on fairness and ENABLED, which are out of the prover's
reach; `NobodyForgotten`, `OneAnswers` and `GivesUpLast` are as much of each as
safety can say, and those are proved. Every other property of a passing run is a
theorem.

## 5. What is not modelled

* On the bus: delays, the levels of single pins between pulses, sysfs failures.
* `libevi-azure` (no program listens on its socket), `evi-python2c` (a tick that
  logs), the Python shims, the sources nothing calls.
* `evi_lcd_set_socket`; `getUsbDongle`, which only reads; `setPingSettings`;
  `safe_remove_file_ext`, which nothing calls.
* TLS below a connection that opens or not; what the base64 and the HMAC of a SAS
  token compute; options longer than their buffers, which are cut.
* Two concurrent calls of `dps_generate_certificates`: only `enhanced_main`
  makes one, at its start. The orphan of a killed call is modelled.
* Failures of that call's `uci`, `mkdir`, `rm` and `touch`.
* Descriptors short in `lcdsvc`'s `accept`, and `flock` or `uci` failing for
  reasons of their own.
* `fork`, `popen` and memory failures, except where `DpsCert` lets a command
  fail; a file system that loses what `sync` has written.

## 6. Seen in the code, without a run of its own

* A PUT of 511 characters from `evi_lcd_printf` is answered ERR: line 49 of
  `lcdsvc.c` drops what was read before the line feed (`NeverRefused` speaks of
  shorter lines only).
* Every INIT opens eleven descriptors and closes none; without descriptors the
  writers do nothing and the reply is still OK (`done = "blind"` in `LcdSvc`).
* The cursor that `evi_lcd_ddram` sets is anybody's until `evi_lcd_put`.
* A caption with a text of more than 47 characters is always drawn again; a text
  that is the 47-character head of the one shown is skipped.
* A `uci` child that outlives the daemon keeps the socket listening: clients
  connect, wait for nobody, and get an error when the child ends; a new instance
  meets the lock meanwhile, which procd counts as a quick exit.
* A client that a signal interrupts in `read` closes at once and so kills the
  daemon, as one that dies does (`KilledOnlyIfAbandoned`).
* `begin()` sends 0x38, a function set for eight bits, through a HAL that has set
  four and pulses four pins: the controller then takes each half of what follows
  for a byte, although `libevi` is meant to be the HAL and the screens
  (`libevi_README.md:3`).
* `dps_generate_certificates` does not look at the result of `cat`: it reports
  success with half a chain, and later calls skip because the file exists,
  although certificates are said to be checked (`README_AzureIoT_0.9.13.md:45`).
* Two commands of `evi-azurectl` at once lose one of two mask bits, may take each
  other's reply, and a run may overwrite the watcher's -1 (`crossed`, `stale` and
  `doubt` mark these). A run that is killed, or whose `uci set` fails, leaves the mask
  with the old bit, and a `uci get` that fails makes the next save forget all other
  bits. `devon` is printed after a failure too, although it stands for success
  (`CheckResult_azureIoT_vs_v0.9.7.md:12`).
* `azureiotd`: with SAS it builds a token, shows it and exits with 0; CONNECT
  announces a password (0xC2) and has none, so that a broker which follows MQTT
  3.1.1 refuses every one; the payload says "AZUREIOTD_VERSION" and not the
  version; CONNECT of more than 127 bytes is malformed; a "://" inside a path counts as the scheme; the option `enable` is
  not read; a silent broker holds the process for ever.
* A failing `openssl x509` erases the device, `regid` included; if `firstboot` fails,
  nothing tells. A `sync` that fails is not noticed either.
* A power loss before `sync` may leave empty files that the next call accepts; a
  `genrsa` that outlives its parent may replace the key under a finished chain.
* After the HAL, or from between two halves of a byte, `initlcm`'s two function
  sets may use up its 0x0C, and the display stays off.

## 7. Plan

Done, in this order: `LcdPanel`, `LcdApi`, `LcdSvc` (the core), its proofs,
`LcdStartup`, `LcdDaemon`, `EviCaption`, `DonglePort`, `DpsCert`, `LcdBus`, `SafeStr`,
`AzureConn`, and proofs about all of them.

Next:
1. `LcdSession`: programs that alternate `evi_lcd_ddram` and `evi_lcd_put` on
   top of `LcdApi`, with the texts in place for one program.
2. `Shim`: `displayCaptionFunc.py` falling back from `libevi` to the socket.
3. Pure functions against reference definitions: `Crc16`, `parse_hex`,
   `safe_remove_file_ext`.
4. `TickLoop`: the signal flag of `evi-python2c` against a blocked `epoll_wait`.
