------------------------------- MODULE LcdBus -------------------------------
(***************************************************************************)
(* The panel's bus: lcdsvc (package evi-lcdsvc, lcd_hw.c) and initlcm      *)
(* (package libevi) put whole bytes on its eight data pins, the HAL of     *)
(* libevi (evi_hal_mt7688_gpio.c) puts nibbles on the upper four, and      *)
(* nothing keeps their pulses apart.  The controller, an HD44780 or an     *)
(* ST7920, is not in the repository: in 8-bit mode a pulse of EN is a      *)
(* byte, in 4-bit mode half a byte, and an instruction sets the mode.      *)
(***************************************************************************)
EXTENDS Integers, Sequences

CONSTANTS
  Daemon, Tool, Library,  \* processes: lcdsvc, initlcm, programs with libevi
  Sent,                   \* bytes the daemon's clients ask for
  Drawn,                  \* bytes of the captions
  Floating,               \* levels of D3..D0 while a library pulses the others
  None

Process == Daemon \cup Tool \cup Library

Nibble == 0 .. 15
Byte == [rs : {0, 1}, hi : Nibble, lo : Nibble]
Instr(h, l) == [rs |-> 0, hi |-> h, lo |-> l]

ASSUME BusAssumption ==
  /\ Daemon \cap Tool = {} /\ Daemon \cap Library = {} /\ Tool \cap Library = {}
  /\ Sent \subseteq Byte /\ Drawn \subseteq Byte /\ Floating \subseteq Nibble
  /\ None \notin Process \cup Nibble \cup Byte

(* What the controller makes of an instruction.                            *)
FunctionSet(b) == b.rs = 0 /\ b.hi \in {2, 3}    \* 3 for eight bits, 2 for four
DisplayControl(b) == b.rs = 0 /\ b.hi = 0 /\ b.lo \in 8 .. 15
ClearDisplay == Instr(0, 1)

VARIABLES
  wide,    \* controller: eight bits a pulse
  half,    \* controller: the nibble that waits for its other half
  on,      \* controller: the display is on
  blank,   \* controller: nothing has been written since the last clear
  at,      \* what each process is doing
  n,       \* which pulse of its initialisation, or which byte of begin(), is next
  rest,    \* the byte of which a library has sent the upper half
  owner,   \* history: the process that alone has pulsed since it began its init
  steered, \* history: it has sent a function set for the other mode since
  meant,   \* history: the last byte it has sent since its init
  did      \* history: the last byte the controller obeyed

vars == <<wide, half, on, blank, at, n, rest, owner, steered, meant, did>>

TypeOK ==
  /\ wide \in BOOLEAN /\ on \in BOOLEAN /\ blank \in BOOLEAN
  /\ half \in Nibble \cup {None} /\ (wide => half = None)
  /\ at \in [Process -> {"off", "init", "idle", "begin", "draw"}]
  /\ n \in [Process -> 1 .. 14]
  /\ rest \in [Process -> Byte \cup {None}]
  /\ owner \in Process \cup {None} /\ steered \in BOOLEAN
  /\ meant \in Byte \cup {None} /\ did \in Byte \cup {None}

(* The controller may be in any state: it kept its own when the device     *)
(* restarted, or another program left it there.                            *)
Init ==
  /\ wide \in BOOLEAN
  /\ half \in IF wide THEN {None} ELSE Nibble \cup {None}
  /\ on = FALSE /\ blank = FALSE
  /\ at = [p \in Process |-> "off"]
  /\ n = [p \in Process |-> 1]
  /\ rest = [p \in Process |-> None]
  /\ owner = None /\ steered = FALSE /\ meant = None /\ did = None

-----------------------------------------------------------------------------
(* The controller obeys b.                                                 *)
Obey(b) ==
  /\ wide' = IF FunctionSet(b) THEN b.hi = 3 ELSE wide
  /\ on' = IF DisplayControl(b) THEN b.lo \in 12 .. 15 ELSE on
  /\ blank' = (b = ClearDisplay \/ (blank /\ b.rs = 0))
  /\ did' = b

(* A pulse of EN with RS at rs, D7..D4 at h and D3..D0 at l.               *)
Pulse(rs, h, l) ==
  IF ~wide /\ half = None
    THEN half' = h /\ UNCHANGED <<wide, on, blank, did>>
    ELSE /\ half' = None
         /\ Obey([rs |-> rs, hi |-> IF wide THEN h ELSE half, lo |-> IF wide THEN l ELSE h])

(* Mutant: the function set is sent once.                                  *)
LcdHwInitOnce ==
  <<Instr(3, 0), Instr(0, 8), Instr(0, 1), Instr(0, 6), Instr(0, 12), Instr(0, 12)>>

LcdHwInit ==
  <<Instr(3, 0), Instr(3, 0), Instr(0, 8), Instr(0, 1), Instr(0, 6), Instr(0, 12)>>
InitLcm == <<Instr(3, 0), Instr(3, 0), Instr(0, 12), Instr(0, 1), Instr(0, 6)>>

(* ensure(): 3, 3, 3, 2, and then 0x28, 0x08, 0x01, 0x06 and 0x0C.         *)
Ensure == <<3, 3, 3, 2, 2, 8, 0, 8, 0, 1, 0, 6, 0, 12>>

(* begin(): BASIC_FUNC, DISPLAY_CLEAR, DISPLAY_ON.                         *)
BeginScreen == <<Instr(3, 8), Instr(0, 1), Instr(0, 12)>>

Length(p) == IF p \in Library THEN 14 ELSE IF p \in Daemon THEN 6 ELSE 5

(* A process starts and drives the bus for the first time; the daemon does *)
(* all of it again for a client's INIT.                                    *)
Start(p) ==
  /\ at[p] = "off" \/ (at[p] = "idle" /\ p \in Daemon)
  /\ at' = [at EXCEPT ![p] = "init"]
  /\ n' = [n EXCEPT ![p] = 1]
  /\ UNCHANGED <<wide, half, on, blank, rest, owner, steered, meant, did>>

(* One pulse of the initialisation.                                        *)
InitPulse(p) ==
  /\ at[p] = "init"
  /\ IF p \in Library
       THEN \E l \in Floating : Pulse(0, Ensure[n[p]], l)
       ELSE LET b == IF p \in Daemon THEN LcdHwInit[n[p]] ELSE InitLcm[n[p]]
            IN Pulse(0, b.hi, b.lo)
  /\ IF n[p] < Length(p)
       THEN n' = [n EXCEPT ![p] = n[p] + 1] /\ UNCHANGED at
       ELSE n' = [n EXCEPT ![p] = 1] /\ at' = [at EXCEPT ![p] = "idle"]
  /\ owner' = IF n[p] = 1 \/ owner = p THEN p ELSE None
  /\ steered' = FALSE /\ meant' = None
  /\ UNCHANGED rest

(* The owner has sent b, to a controller in the mode its init has set.     *)
Sends(p, b, mode) ==
  IF owner = p
    THEN /\ meant' = b
         /\ steered' = (steered \/ (FunctionSet(b) /\ (b.hi = 3) # mode))
         /\ UNCHANGED owner
    ELSE owner' = None /\ meant' = None /\ steered' = FALSE

(* Mutant: the upper and the lower data pins are mixed up.                 *)
WriteSwapped(p) ==
  /\ at[p] = "idle" /\ p \in Daemon
  /\ \E b \in Sent : Pulse(b.rs, b.lo, b.hi) /\ Sends(p, b, TRUE)
  /\ UNCHANGED <<at, n, rest>>

(* lcd_write_instr and lcd_write_data.                                     *)
Write(p) ==
  /\ at[p] = "idle" /\ p \in Daemon
  /\ \E b \in Sent : Pulse(b.rs, b.hi, b.lo) /\ Sends(p, b, TRUE)
  /\ UNCHANGED <<at, n, rest>>

(* A caption that is drawn starts with begin(), the first one right after  *)
(* ensure().                                                               *)
Caption(p) ==
  /\ at[p] \in {"idle", "draw"} /\ p \in Library /\ rest[p] = None
  /\ at' = [at EXCEPT ![p] = "begin"] /\ n' = [n EXCEPT ![p] = 1]
  /\ UNCHANGED <<wide, half, on, blank, rest, owner, steered, meant, did>>

(* w8: the upper half of the next byte.                                    *)
WriteUpper(p) ==
  /\ at[p] \in {"begin", "draw"} /\ p \in Library /\ rest[p] = None
  /\ \E b \in IF at[p] = "begin" THEN {BeginScreen[n[p]]} ELSE Drawn, l \in Floating :
       /\ Pulse(b.rs, b.hi, l)
       /\ rest' = [rest EXCEPT ![p] = b]
  /\ owner' = (IF owner = p THEN p ELSE None)
  /\ UNCHANGED <<at, n, steered, meant>>

(* w8: the lower half.                                                     *)
WriteLower(p) ==
  /\ rest[p] # None
  /\ \E l \in Floating : Pulse(rest[p].rs, rest[p].lo, l)
  /\ Sends(p, rest[p], FALSE)
  /\ rest' = [rest EXCEPT ![p] = None]
  /\ IF at[p] = "begin" /\ n[p] < 3
       THEN n' = [n EXCEPT ![p] = n[p] + 1] /\ UNCHANGED at
       ELSE n' = [n EXCEPT ![p] = 1] /\ at' = [at EXCEPT ![p] = "draw"]

(* The process ends or is killed, perhaps between the halves of a byte.    *)
Die(p) ==
  /\ at[p] # "off"
  /\ at' = [at EXCEPT ![p] = "off"]
  /\ rest' = [rest EXCEPT ![p] = None]
  /\ owner' = IF owner = p THEN None ELSE owner
  /\ UNCHANGED <<wide, half, on, blank, n, steered, meant, did>>

Next ==
  \E p \in Process :
    \/ Start(p) \/ InitPulse(p) \/ Write(p)
    \/ Caption(p) \/ WriteUpper(p) \/ WriteLower(p) \/ Die(p)

Spec == Init /\ [][Next]_vars

-----------------------------------------------------------------------------
(* Properties.                                                             *)

(* An initialisation that nobody interrupts brings the controller from any *)
(* state, also from between the halves of a byte, into the mode that its   *)
(* program writes in, with the display cleared and (initlcm's 0x0C may be  *)
(* lost) on.                                                               *)
Settled ==
  \A p \in Process :
    owner = p /\ at[p] = "idle" /\ meant = None =>
      /\ wide = (p \notin Library) /\ half = None
      /\ blank /\ (p \in Tool \/ on)

(* The controller obeys every byte that the daemon sends as it was meant,  *)
(* as long as nobody else has pulsed and no client has asked for the 4-bit *)
(* mode ("constants map 1:1", CheckResult_instructionDef.md:6).            *)
Obeyed ==
  \A p \in Daemon :
    owner = p /\ at[p] = "idle" /\ meant # None /\ ~steered => did = meant
=============================================================================
