---------------------------- MODULE LcdBusProofs ----------------------------
(***************************************************************************)
(* The panel's bus, for any number of processes, any bytes and any state   *)
(* of the controller at the start: an undisturbed initialisation settles   *)
(* the controller, and from then on the daemon's bytes are obeyed.         *)
(***************************************************************************)
EXTENDS LcdBus, TLAPS

-----------------------------------------------------------------------------
(* A byte that the controller obeys keeps its variables in their types.    *)
LEMMA ObeyTyped ==
  ASSUME TypeOK, NEW b \in Byte, Obey(b)
  PROVE  /\ wide' \in BOOLEAN /\ on' \in BOOLEAN /\ blank' \in BOOLEAN
         /\ did' \in Byte \cup {None}
<1>1. wide' \in BOOLEAN
  BY DEF Obey, TypeOK
<1>2. on' \in BOOLEAN
  <2>1. CASE DisplayControl(b)
    <3>1. on' = (b.lo \in 12 .. 15)
      BY <2>1 DEF Obey
    <3> QED
      BY <3>1
  <2>2. CASE ~DisplayControl(b)
    BY <2>2, Zenon DEF Obey, TypeOK
  <2> QED
    BY <2>1, <2>2
<1>3. blank' \in BOOLEAN
  BY DEF Obey
<1>4. did' \in Byte \cup {None}
  BY DEF Obey
<1> QED
  BY <1>1, <1>2, <1>3, <1>4

(* So does a pulse.                                                        *)
LEMMA PulseTyped ==
  ASSUME TypeOK, NEW rs \in {0, 1}, NEW h \in Nibble, NEW l \in Nibble, Pulse(rs, h, l)
  PROVE  /\ wide' \in BOOLEAN /\ on' \in BOOLEAN /\ blank' \in BOOLEAN
         /\ half' \in Nibble \cup {None} /\ (wide' => half' = None)
         /\ did' \in Byte \cup {None}
<1>1. CASE ~wide /\ half = None
  BY <1>1 DEF Pulse, TypeOK
<1>2. CASE wide \/ half # None
  <2> DEFINE b == [rs |-> rs, hi |-> IF wide THEN h ELSE half, lo |-> IF wide THEN l ELSE h]
  <2>1. b \in Byte
    BY <1>2 DEF Byte, TypeOK
  <2>2. half' = None /\ Obey(b)
    BY <1>2 DEF Pulse
  <2> QED
    BY <2>1, <2>2, ObeyTyped
<1> QED
  BY <1>1, <1>2 DEF TypeOK

(* The nibbles and bytes of the three initialisations and of begin().      *)
LEMMA Programs ==
  /\ \A i \in 1 .. 6 : LcdHwInit[i] \in Byte
  /\ \A i \in 1 .. 5 : InitLcm[i] \in Byte
  /\ \A i \in 1 .. 14 : Ensure[i] \in Nibble
  /\ \A i \in 1 .. 3 : BeginScreen[i] \in Byte
  BY DEF LcdHwInit, InitLcm, Ensure, BeginScreen, Instr, Byte, Nibble

(* Where a process is in its initialisation, or in begin(), and which half *)
(* of a byte it has sent.                                                  *)
Placed ==
  \A p \in Process :
    /\ at[p] = "init" => n[p] \in 1 .. Length(p)
    /\ at[p] = "begin" => n[p] \in 1 .. 3
    /\ at[p] \in {"begin", "draw"} => p \in Library
    /\ rest[p] # None => at[p] \in {"begin", "draw"}

-----------------------------------------------------------------------------
(* The invariant.                                                          *)

(* How far the initialisation of p has brought the controller.             *)
Underway(p) ==
  at[p] = "init" =>
    /\ n[p] = 2 => wide \/ half \in {None, 3}
    /\ n[p] = 3 => wide \/ half = 3
    /\ n[p] = 4 => wide
    /\ p \notin Library /\ n[p] \in {5, 6} => wide /\ blank
    /\ p \in Library /\ n[p] \in {5, 7, 9, 11, 13} => ~wide /\ half = None
    /\ p \in Library /\ n[p] = 6 => ~wide /\ half = 2
    /\ p \in Library /\ n[p] \in {8, 10, 12, 14} => ~wide /\ half = 0
    /\ p \in Library /\ n[p] \in 11 .. 14 => blank

(* What holds once it has ended.                                           *)
Ready(p) ==
  at[p] = "idle" =>
    /\ meant = None => wide = (p \notin Library) /\ half = None /\ blank /\ (p \in Tool \/ on)
    /\ p \in Daemon /\ ~steered => wide
    /\ p \in Daemon /\ ~steered /\ meant # None => did = meant

IInv ==
  /\ TypeOK
  /\ Placed
  /\ \A p \in Process : owner = p => Underway(p) /\ Ready(p)

(* The function sets with which every initialisation begins: whatever the  *)
(* mode and the half byte pending, the third pulse ends in the wide mode.  *)
LEMMA Woken ==
  ASSUME TypeOK, NEW l \in Nibble, Pulse(0, 3, l)
  PROVE  /\ wide' \/ half' \in {None, 3}
         /\ wide \/ half \in {None, 3} => wide' \/ half' = 3
         /\ wide \/ half = 3 => wide'
<1>1. CASE ~wide /\ half = None
  BY <1>1, BusAssumption DEF Pulse, Process, Nibble
<1>2. CASE ~wide /\ half # None
  BY <1>2 DEF Pulse, Obey, FunctionSet
<1>3. CASE wide
  BY <1>3 DEF Pulse, Obey, FunctionSet, TypeOK
<1> QED
  BY <1>1, <1>2, <1>3

(* An instruction with the upper half 0 leaves the wide mode on, and after *)
(* a pending 3 turns it on.                                                *)
LEMMA Widened ==
  ASSUME TypeOK, NEW l \in Nibble, Pulse(0, 0, l), wide \/ half = 3
  PROVE  wide' /\ half' = None
<1>1. CASE wide
  BY <1>1 DEF Pulse, Obey, FunctionSet, TypeOK
<1>2. CASE ~wide
  <2>1. half = 3 /\ half # None
    BY <1>2, BusAssumption DEF Process, Nibble
  <2>2. half' = None /\ Obey([rs |-> 0, hi |-> 3, lo |-> 0])
    BY <1>2, <2>1 DEF Pulse
  <2> QED
    BY <2>2 DEF Obey, FunctionSet
<1> QED
  BY <1>1, <1>2

(* A byte in the wide mode.                                                *)
LEMMA OneByte ==
  ASSUME TypeOK, wide, NEW rs, NEW h, NEW l, Pulse(rs, h, l)
  PROVE  half' = None /\ Obey([rs |-> rs, hi |-> h, lo |-> l])
  BY DEF Pulse, TypeOK

(* The upper half of a byte in the other mode, and the lower half.         *)
LEMMA UpperHalf ==
  ASSUME ~wide, half = None, NEW rs, NEW h, NEW l, Pulse(rs, h, l)
  PROVE  half' = h /\ UNCHANGED <<wide, on, blank, did>>
  BY DEF Pulse

LEMMA LowerHalf ==
  ASSUME TypeOK, ~wide, NEW u \in Nibble, half = u, NEW rs, NEW h, NEW l, Pulse(rs, h, l)
  PROVE  half' = None /\ Obey([rs |-> rs, hi |-> u, lo |-> h])
  BY BusAssumption DEF Pulse

(* What the instructions 0x01, 0x06 and 0x0C do.                           *)
LEMMA Cleared ==
  ASSUME NEW l, Obey(Instr(0, l)), l = 1 \/ blank
  PROVE  blank'
<1>1. CASE l = 1
  BY <1>1 DEF Obey, ClearDisplay
<1>2. CASE blank
  <2>1. Instr(0, l).rs = 0
    BY DEF Instr
  <2> QED
    BY <1>2, <2>1 DEF Obey
<1> QED
  BY <1>1, <1>2

LEMMA Lit ==
  ASSUME Obey(Instr(0, 12))
  PROVE  on'
<1>1. DisplayControl(Instr(0, 12)) /\ Instr(0, 12).lo = 12
  BY DEF DisplayControl, Instr
<1>2. on' = (Instr(0, 12).lo \in 12 .. 15)
  BY <1>1 DEF Obey
<1>3. Instr(0, 12).lo \in 12 .. 15
  BY <1>1
<1> QED
  BY <1>2, <1>3, Zenon

(* What the function set for four bits does.                               *)
LEMMA Narrowed ==
  ASSUME NEW l, Obey([rs |-> 0, hi |-> 2, lo |-> l])
  PROVE  ~wide'
<1> DEFINE b == [rs |-> 0, hi |-> 2, lo |-> l]
<1>1. FunctionSet(b) /\ b.hi # 3
  BY DEF FunctionSet
<1>2. wide' = (b.hi = 3)
  BY <1>1 DEF Obey
<1> QED
  BY <1>1, <1>2, Zenon

-----------------------------------------------------------------------------
(* The initialisations, pulse by pulse.                                    *)

(* lcd_hw_init and initlcm's sequence, in whole bytes.                     *)
LEMMA ByteInit ==
  ASSUME IInv, NEW p \in Daemon \cup Tool, at[p] = "init",
         owner = p \/ n[p] = 1, InitPulse(p)
  PROVE  Underway(p)' /\ Ready(p)'
<1> DEFINE b == IF p \in Daemon THEN LcdHwInit[n[p]] ELSE InitLcm[n[p]]
<1>1. /\ p \in Process /\ p \notin Library
      /\ p \in Daemon \/ p \in Tool
      /\ p \in Tool => p \notin Daemon
  BY BusAssumption DEF Process
<1>2. Pulse(0, b.hi, b.lo)
  BY <1>1 DEF InitPulse
<1>3. n[p] \in 1 .. Length(p) /\ Length(p) = IF p \in Daemon THEN 6 ELSE 5
  BY <1>1 DEF IInv, Placed, Length
<1>4. n[p] = 1 \/ Underway(p)
  BY <1>1 DEF IInv
<1>5. IF n[p] < Length(p)
        THEN n'[p] = n[p] + 1 /\ at'[p] = "init"
        ELSE n'[p] = 1 /\ at'[p] = "idle"
  BY <1>1, <1>3 DEF InitPulse, IInv, TypeOK
<1>6. meant' = None
  BY DEF InitPulse
<1>7. TypeOK
  BY DEF IInv
<1>8. CASE n[p] \in {1, 2}
  <2>1. b.hi = 3 /\ b.lo = 0
    BY <1>8, <1>3 DEF LcdHwInit, InitLcm, Instr
  <2>2. /\ wide' \/ half' \in {None, 3}
        /\ wide \/ half \in {None, 3} => wide' \/ half' = 3
    BY <1>2, <1>7, <2>1, Woken DEF Nibble
  <2>3. n'[p] = n[p] + 1 /\ at'[p] = "init"
    BY <1>8, <1>3, <1>5
  <2> QED
    BY <1>1, <1>4, <1>8, <2>2, <2>3 DEF Underway, Ready
<1>9. CASE n[p] = 3
  <2>1. b.hi = 0 /\ b.lo \in Nibble
    BY <1>9, <1>3 DEF LcdHwInit, InitLcm, Instr, Nibble
  <2>2. wide \/ half = 3
    BY <1>4, <1>9, <1>1 DEF Underway
  <2>3. wide'
    BY <1>2, <1>7, <2>1, <2>2, Widened
  <2>4. n'[p] = 4 /\ at'[p] = "init"
    BY <1>9, <1>3, <1>5
  <2> QED
    BY <1>1, <2>3, <2>4 DEF Underway, Ready
<1>10. CASE n[p] \in 4 .. 6
  <2>1. wide /\ (n[p] \in {5, 6} => blank)
    BY <1>4, <1>10, <1>1 DEF Underway
  <2>2. b.hi = 0 /\ b.lo \in Nibble
    BY <1>10, <1>3 DEF LcdHwInit, InitLcm, Instr, Nibble
  <2>3. half' = None /\ Obey(Instr(0, b.lo))
    <3>1. Pulse(0, 0, b.lo)
      BY <1>2, <2>2
    <3> QED
      BY <3>1, <1>7, <2>1, <2>2, OneByte DEF Nibble, Instr
  <2>4. wide'
    BY <2>1, <2>3 DEF Obey, FunctionSet, Instr
  <2>5. n[p] = 4 => b.lo = 1
    BY <1>3 DEF LcdHwInit, InitLcm, Instr
  <2>6. blank'
    BY <1>10, <2>1, <2>3, <2>5, Cleared
  <2>7. n[p] = 6 => p \in Daemon /\ b.lo = 12
    BY <1>3 DEF LcdHwInit, Instr
  <2>8. n[p] = 6 => on'
    BY <2>3, <2>7, Lit
  <2>9. CASE n[p] < Length(p)
    BY <1>1, <1>5, <1>10, <1>3, <2>9, <2>4, <2>6 DEF Underway, Ready
  <2>10. CASE n[p] >= Length(p)
    <3>1. at'[p] = "idle" /\ (p \in Tool \/ n[p] = 6)
      BY <1>1, <1>3, <1>5, <2>10
    <3> QED
      BY <1>1, <1>6, <2>3, <2>4, <2>6, <2>8, <3>1, BusAssumption DEF Underway, Ready
  <2> QED
    BY <2>9, <2>10, <1>3
<1> QED
  BY <1>3, <1>8, <1>9, <1>10

(* ensure(): 3, 3, 3 as above, then 2 for the mode and half bytes.         *)
LEMMA HalfInit ==
  ASSUME IInv, NEW p \in Library, at[p] = "init",
         owner = p \/ n[p] = 1, InitPulse(p)
  PROVE  Underway(p)' /\ Ready(p)'
<1>1. p \in Process /\ p \notin Daemon /\ p \notin Tool
  BY BusAssumption DEF Process
<1>2. PICK l \in Floating : Pulse(0, Ensure[n[p]], l)
  BY DEF InitPulse
<1>3. n[p] \in 1 .. 14 /\ Length(p) = 14 /\ l \in Nibble
  BY <1>1, BusAssumption DEF IInv, Placed, Length
<1>4. n[p] = 1 \/ Underway(p)
  BY <1>1 DEF IInv
<1>5. IF n[p] < 14
        THEN n'[p] = n[p] + 1 /\ at'[p] = "init"
        ELSE n'[p] = 1 /\ at'[p] = "idle"
  BY <1>1, <1>3 DEF InitPulse, IInv, TypeOK
<1>6. meant' = None /\ TypeOK
  BY DEF InitPulse, IInv
<1>7. CASE n[p] \in {1, 2, 3}
  <2>1. Ensure[n[p]] = 3
    BY <1>7 DEF Ensure
  <2>2. /\ wide' \/ half' \in {None, 3}
        /\ wide \/ half \in {None, 3} => wide' \/ half' = 3
        /\ wide \/ half = 3 => wide'
    BY <1>2, <1>3, <1>6, <2>1, Woken
  <2>3. n'[p] = n[p] + 1 /\ at'[p] = "init"
    BY <1>7, <1>5
  <2> QED
    BY <1>1, <1>4, <1>7, <2>2, <2>3 DEF Underway, Ready
<1>8. CASE n[p] = 4
  <2>1. Pulse(0, 2, l) /\ wide
    BY <1>2, <1>4, <1>8 DEF Ensure, Underway
  <2>2. half' = None /\ Obey([rs |-> 0, hi |-> 2, lo |-> l])
    BY <1>3, <1>6, <2>1, OneByte DEF Nibble
  <2>3. ~wide'
    BY <2>2, Narrowed
  <2>4. n'[p] = 5 /\ at'[p] = "init"
    BY <1>8, <1>5
  <2> QED
    BY <1>1, <2>2, <2>3, <2>4 DEF Underway, Ready
<1>9. CASE n[p] \in {5, 7, 9, 11, 13}
  <2>1. ~wide /\ half = None /\ (n[p] \in {11, 13} => blank)
    BY <1>4, <1>9 DEF Underway
  <2>2. half' = Ensure[n[p]] /\ UNCHANGED <<wide, blank>>
    BY <1>2, <2>1, UpperHalf
  <2>3. Ensure[n[p]] = IF n[p] = 5 THEN 2 ELSE 0
    BY <1>9 DEF Ensure
  <2>4. n'[p] = n[p] + 1 /\ at'[p] = "init"
    BY <1>9, <1>5
  <2> QED
    BY <1>1, <1>9, <2>1, <2>2, <2>3, <2>4 DEF Underway, Ready
<1>10. CASE n[p] = 6
  <2>1. ~wide /\ half = 2 /\ Pulse(0, 8, l)
    BY <1>2, <1>4, <1>10 DEF Ensure, Underway
  <2>2. half' = None /\ Obey([rs |-> 0, hi |-> 2, lo |-> 8])
    BY <1>6, <2>1, LowerHalf DEF Nibble
  <2>3. ~wide'
    BY <2>2, Narrowed
  <2>4. n'[p] = 7 /\ at'[p] = "init"
    BY <1>10, <1>5
  <2> QED
    BY <1>1, <2>2, <2>3, <2>4 DEF Underway, Ready
<1>11. CASE n[p] \in {8, 10, 12, 14}
  <2>1. ~wide /\ half = 0 /\ (n[p] \in {12, 14} => blank)
    BY <1>4, <1>11 DEF Underway
  <2>2. half' = None /\ Obey(Instr(0, Ensure[n[p]]))
    BY <1>2, <1>6, <2>1, LowerHalf DEF Nibble, Instr
  <2>3. wide' = FALSE
    BY <1>6, <2>1, <2>2 DEF Obey, FunctionSet, Instr, TypeOK
  <2>4. /\ n[p] = 10 => Ensure[n[p]] = 1
        /\ n[p] = 14 => Ensure[n[p]] = 12
    BY DEF Ensure
  <2>5. n[p] \in {10, 12, 14} => blank'
    BY <2>1, <2>2, <2>4, Cleared
  <2>6. n[p] = 14 => on'
    BY <2>2, <2>4, Lit
  <2>7. CASE n[p] < 14
    BY <1>1, <1>5, <1>11, <2>2, <2>3, <2>5, <2>7 DEF Underway, Ready
  <2>8. CASE n[p] = 14
    <3>1. at'[p] = "idle" /\ blank' /\ on' /\ half' = None
      BY <1>5, <2>2, <2>5, <2>6, <2>8
    <3>2. wide' = (p \notin Library)
      BY <2>3
    <3> QED
      BY <1>1, <3>1, <3>2 DEF Underway, Ready
  <2> QED
    BY <1>11, <2>7, <2>8
<1> QED
  BY <1>3, <1>7, <1>8, <1>9, <1>10, <1>11

-----------------------------------------------------------------------------
(* Types and places.                                                       *)

LEMMA SendsTyped ==
  ASSUME TypeOK, NEW p \in Process, NEW b \in Byte, NEW mode \in BOOLEAN, Sends(p, b, mode)
  PROVE  owner' \in Process \cup {None} /\ steered' \in BOOLEAN /\ meant' \in Byte \cup {None}
<1>1. CASE owner = p
  <2>1. steered' = (steered \/ (FunctionSet(b) /\ (b.hi = 3) # mode))
    BY <1>1 DEF Sends
  <2> QED
    BY <1>1, <2>1 DEF Sends, TypeOK
<1>2. CASE owner # p
  BY <1>2 DEF Sends
<1> QED
  BY <1>1, <1>2

LEMMA Keeps ==
  ASSUME TypeOK, Placed, [Next]_vars
  PROVE  TypeOK' /\ Placed'
<1> USE DEF TypeOK
<1>1. ASSUME NEW p \in Process, Start(p)
      PROVE  TypeOK' /\ Placed'
  <2>1. TypeOK'
    BY <1>1 DEF Start
  <2>2. Length(p) \in {5, 6, 14}
    BY DEF Length
  <2> QED
    BY <1>1, <2>1, <2>2 DEF Start, Placed, Length
<1>2. ASSUME NEW p \in Process, InitPulse(p)
      PROVE  TypeOK' /\ Placed'
  <2>1. n[p] \in 1 .. Length(p) /\ Length(p) \in {5, 6, 14} /\ rest[p] = None
    BY <1>2 DEF InitPulse, Placed, Length
  <2>2. \E h, l \in Nibble : Pulse(0, h, l)
    <3>1. CASE p \in Library
      <4>1. PICK l \in Floating : Pulse(0, Ensure[n[p]], l)
        BY <1>2, <3>1 DEF InitPulse
      <4>2. n[p] \in 1 .. 14 /\ l \in Nibble
        BY <2>1, <3>1, BusAssumption DEF Length
      <4> QED
        BY <4>1, <4>2, Programs
    <3>2. CASE p \notin Library
      <4> DEFINE b == IF p \in Daemon THEN LcdHwInit[n[p]] ELSE InitLcm[n[p]]
      <4>1. Pulse(0, b.hi, b.lo)
        BY <1>2, <3>2 DEF InitPulse
      <4>2. b \in Byte
        BY <2>1, <3>2, Programs DEF Length
      <4>3. b.hi \in Nibble /\ b.lo \in Nibble
        BY <4>2 DEF Byte
      <4> QED
        BY <4>1, <4>3
    <3> QED
      BY <3>1, <3>2
  <2>3. /\ wide' \in BOOLEAN /\ on' \in BOOLEAN /\ blank' \in BOOLEAN
        /\ half' \in Nibble \cup {None} /\ (wide' => half' = None)
        /\ did' \in Byte \cup {None}
    BY <2>2, PulseTyped
  <2>4. /\ at' \in [Process -> {"off", "init", "idle", "begin", "draw"}]
        /\ n' \in [Process -> 1 .. 14] /\ rest' = rest
        /\ owner' \in Process \cup {None} /\ steered' = FALSE /\ meant' = None
    BY <1>2, <2>1 DEF InitPulse
  <2>5. TypeOK'
    BY <2>3, <2>4
  <2>6. Placed'
    BY <1>2, <2>1 DEF InitPulse, Placed, Length
  <2> QED
    BY <2>5, <2>6
<1>3. ASSUME NEW p \in Process, Write(p)
      PROVE  TypeOK' /\ Placed'
  <2>1. PICK b \in Sent : Pulse(b.rs, b.hi, b.lo) /\ Sends(p, b, TRUE)
    BY <1>3 DEF Write
  <2>2. b \in Byte
    BY BusAssumption
  <2>3. b.rs \in {0, 1} /\ b.hi \in Nibble /\ b.lo \in Nibble
    BY <2>2 DEF Byte
  <2>4. UNCHANGED <<at, n, rest>>
    BY <1>3 DEF Write
  <2>5. TypeOK'
    BY <2>1, <2>2, <2>3, <2>4, PulseTyped, SendsTyped
  <2> QED
    BY <2>4, <2>5 DEF Placed
<1>4. ASSUME NEW p \in Process, Caption(p)
      PROVE  TypeOK' /\ Placed'
  BY <1>4 DEF Caption, Placed
<1>5. ASSUME NEW p \in Process, WriteUpper(p)
      PROVE  TypeOK' /\ Placed'
  <2>1. PICK b \in IF at[p] = "begin" THEN {BeginScreen[n[p]]} ELSE Drawn, l \in Floating :
          Pulse(b.rs, b.hi, l) /\ rest' = [rest EXCEPT ![p] = b]
    BY <1>5 DEF WriteUpper
  <2>2. b \in Byte
    BY <1>5, BusAssumption, Programs DEF Placed
  <2>3. b.rs \in {0, 1} /\ b.hi \in Nibble /\ l \in Nibble
    BY <2>2, BusAssumption DEF Byte
  <2>4. UNCHANGED <<at, n, steered, meant>> /\ owner' \in Process \cup {None}
    BY <1>5 DEF WriteUpper
  <2>5. TypeOK'
    BY <2>1, <2>2, <2>3, <2>4, PulseTyped
  <2> QED
    BY <1>5, <2>1, <2>4, <2>5 DEF WriteUpper, Placed
<1>6. ASSUME NEW p \in Process, WriteLower(p)
      PROVE  TypeOK' /\ Placed'
  <2>1. rest[p] \in Byte /\ at[p] \in {"begin", "draw"} /\ p \in Library
    BY <1>6 DEF WriteLower, Placed
  <2>2. PICK l \in Floating : Pulse(rest[p].rs, rest[p].lo, l)
    BY <1>6 DEF WriteLower
  <2>3. rest[p].rs \in {0, 1} /\ rest[p].lo \in Nibble /\ l \in Nibble
    BY <2>1, BusAssumption DEF Byte
  <2>4. /\ wide' \in BOOLEAN /\ on' \in BOOLEAN /\ blank' \in BOOLEAN
        /\ half' \in Nibble \cup {None} /\ (wide' => half' = None)
        /\ did' \in Byte \cup {None}
    BY <2>2, <2>3, PulseTyped
  <2>5. owner' \in Process \cup {None} /\ steered' \in BOOLEAN /\ meant' \in Byte \cup {None}
    BY <1>6, <2>1, SendsTyped DEF WriteLower
  <2>6. /\ at' \in [Process -> {"off", "init", "idle", "begin", "draw"}]
        /\ n' \in [Process -> 1 .. 14] /\ rest' = [rest EXCEPT ![p] = None]
        /\ Placed'
    BY <1>6, <2>1 DEF WriteLower, Placed
  <2> QED
    BY <2>4, <2>5, <2>6
<1>7. ASSUME NEW p \in Process, Die(p)
      PROVE  TypeOK' /\ Placed'
  BY <1>7 DEF Die, Placed
<1>8. CASE UNCHANGED vars
  BY <1>8 DEF vars, Placed
<1> QED
  BY <1>1, <1>2, <1>3, <1>4, <1>5, <1>6, <1>7, <1>8 DEF Next

LEMMA Begins == Init => TypeOK /\ Placed
<1> SUFFICES ASSUME Init PROVE TypeOK /\ Placed
  OBVIOUS
<1>1. wide \in BOOLEAN /\ half \in Nibble \cup {None} /\ (wide => half = None)
  BY DEF Init
<1>2. /\ at \in [Process -> {"off"}] /\ n \in [Process -> {1}] /\ rest \in [Process -> {None}]
      /\ on = FALSE /\ blank = FALSE /\ steered = FALSE
      /\ owner = None /\ meant = None /\ did = None
  BY DEF Init
<1>3. TypeOK
  <2>1. at \in [Process -> {"off", "init", "idle", "begin", "draw"}]
    BY <1>2
  <2>2. n \in [Process -> 1 .. 14] /\ rest \in [Process -> Byte \cup {None}]
    BY <1>2
  <2> QED
    BY <1>1, <1>2, <2>1, <2>2 DEF TypeOK
<1>4. Placed
  BY <1>2 DEF Placed
<1> QED
  BY <1>3, <1>4

(* The state of the bus is well typed.                                     *)
THEOREM TypeCorrect == Spec => []TypeOK
<1>1. Init => TypeOK /\ Placed
  BY Begins
<1>2. TypeOK /\ Placed /\ [Next]_vars => TypeOK' /\ Placed'
  BY Keeps
<1> QED
  BY <1>1, <1>2, PTL DEF Spec

-----------------------------------------------------------------------------
(* Every step keeps the invariant.                                         *)

(* A byte that the daemon writes to a controller in the wide mode is       *)
(* obeyed, and only a function set for four bits leaves that mode.         *)
LEMMA Obedient ==
  ASSUME TypeOK, NEW p \in Daemon, NEW b \in Byte, owner = p, ~steered => wide,
         Pulse(b.rs, b.hi, b.lo), Sends(p, b, TRUE)
  PROVE  meant' = b /\ (~steered' => wide' /\ did' = meant')
<1>1. meant' = b /\ steered' = (steered \/ (FunctionSet(b) /\ (b.hi = 3) # TRUE))
  BY DEF Sends
<1>2. CASE steered \/ (FunctionSet(b) /\ b.hi # 3)
  BY <1>1, <1>2
<1>3. CASE ~steered /\ ~(FunctionSet(b) /\ b.hi # 3)
  <2>1. Obey([rs |-> b.rs, hi |-> b.hi, lo |-> b.lo])
    BY <1>3, OneByte
  <2>2. Obey(b)
    BY <2>1 DEF Byte
  <2>3. did' = b /\ wide'
    BY <2>2, <1>3 DEF Obey
  <2> QED
    BY <1>1, <2>3
<1> QED
  BY <1>2, <1>3

LEMMA Invariance ==
  ASSUME IInv, [Next]_vars
  PROVE  IInv'
<1> SUFFICES ASSUME NEW p \in Process, owner' = p
             PROVE  Underway(p)' /\ Ready(p)'
  BY Keeps DEF IInv
<1> USE DEF IInv
<1>1. p # None
  BY BusAssumption
<1>2. ASSUME NEW q \in Process, Start(q)
      PROVE  Underway(p)' /\ Ready(p)'
  <2>1. owner = p /\ UNCHANGED <<wide, half, on, blank, steered, meant, did>>
    BY <1>2 DEF Start
  <2>2. CASE q = p
    BY <1>2, <2>2 DEF Start, Underway, Ready, TypeOK
  <2>3. CASE q # p
    BY <1>2, <2>1, <2>3 DEF Start, Underway, Ready, TypeOK
  <2> QED
    BY <2>2, <2>3
<1>3. ASSUME NEW q \in Process, InitPulse(q)
      PROVE  Underway(p)' /\ Ready(p)'
  <2>1. q = p /\ at[p] = "init" /\ (n[p] = 1 \/ owner = p)
    BY <1>1, <1>3 DEF InitPulse
  <2> QED
    BY <1>3, <2>1, ByteInit, HalfInit DEF Process
<1>4. ASSUME NEW q \in Process, Write(q)
      PROVE  Underway(p)' /\ Ready(p)'
  <2>1. PICK b \in Sent : Pulse(b.rs, b.hi, b.lo) /\ Sends(q, b, TRUE)
    BY <1>4 DEF Write
  <2>2. q = p /\ owner = p /\ b \in Byte
    BY <1>1, <2>1, BusAssumption DEF Sends
  <2>3. p \in Daemon /\ at[p] = "idle" /\ at' = at
    BY <1>4, <2>2 DEF Write
  <2>4. meant' = b /\ (~steered' => wide' /\ did' = meant')
    BY <2>1, <2>2, <2>3, Obedient DEF Ready
  <2>5. meant' # None
    BY <2>2, <2>4, BusAssumption
  <2> QED
    BY <2>3, <2>4, <2>5 DEF Underway, Ready
<1>5. ASSUME NEW q \in Process, Caption(q)
      PROVE  Underway(p)' /\ Ready(p)'
  <2>1. owner = p /\ UNCHANGED <<wide, half, on, blank, steered, meant, did>>
    BY <1>5 DEF Caption
  <2>2. CASE q = p
    BY <1>5, <2>2 DEF Caption, Underway, Ready, TypeOK
  <2>3. CASE q # p
    BY <1>5, <2>1, <2>3 DEF Caption, Underway, Ready, TypeOK
  <2> QED
    BY <2>2, <2>3
<1>6. ASSUME NEW q \in Process, WriteUpper(q)
      PROVE  Underway(p)' /\ Ready(p)'
  <2>1. q = p
    BY <1>1, <1>6 DEF WriteUpper
  <2> QED
    BY <1>6, <2>1 DEF WriteUpper, Underway, Ready
<1>7. ASSUME NEW q \in Process, WriteLower(q)
      PROVE  Underway(p)' /\ Ready(p)'
  <2>1. q = p
    BY <1>1, <1>7 DEF WriteLower, Sends
  <2>2. at[p] \in {"begin", "draw"}
    BY <1>7, <2>1 DEF WriteLower, Placed
  <2>3. at'[p] \in {"begin", "draw"}
    BY <1>7, <2>1, <2>2 DEF WriteLower, TypeOK
  <2> QED
    BY <2>3 DEF Underway, Ready
<1>8. ASSUME NEW q \in Process, Die(q)
      PROVE  Underway(p)' /\ Ready(p)'
  <2>1. q # p /\ owner = p /\ UNCHANGED <<wide, half, on, blank, n, steered, meant, did>>
    BY <1>1, <1>8 DEF Die
  <2> QED
    BY <1>8, <2>1 DEF Die, Underway, Ready, TypeOK
<1>9. CASE UNCHANGED vars
  BY <1>9 DEF vars, Underway, Ready
<1> QED
  BY <1>2, <1>3, <1>4, <1>5, <1>6, <1>7, <1>8, <1>9 DEF Next

LEMMA Inductive == Spec => []IInv
<1>1. Init => IInv
  BY Begins, BusAssumption DEF IInv, Init
<1>2. IInv /\ [Next]_vars => IInv'
  BY Invariance
<1> QED
  BY <1>1, <1>2, PTL DEF Spec

(* An initialisation that nobody interrupts settles the controller,        *)
(* whatever mode and pending half byte it started from.                    *)
THEOREM InitSettles == Spec => []Settled
<1>1. IInv => Settled
  BY DEF IInv, Ready, Settled
<1> QED
  BY <1>1, Inductive, PTL

(* From then on each byte of the daemon's is obeyed as it was meant, until *)
(* somebody else pulses or a client asks for the 4-bit mode.               *)
THEOREM DaemonObeyed == Spec => []Obeyed
<1>1. IInv => Obeyed
  BY DEF IInv, Ready, Obeyed, Process
<1> QED
  BY <1>1, Inductive, PTL
=============================================================================
