------------------------------ MODULE LcdPanel ------------------------------
(***************************************************************************)
(* The character panel that evi-lcdsvc drives, and what each line of its   *)
(* protocol makes it show.  The controller (an HD44780) is not part of the *)
(* repository: BlankPanel, Obey and Write are its documented reaction to   *)
(* the instruction and data bytes that lcd_hw.c puts on the bus.  A cell   *)
(* holds the mark of whoever wrote it, not a character.                    *)
(***************************************************************************)
EXTENDS Integers

CONSTANTS
  Cells,   \* number of display addresses
  Mark,    \* who can write a cell
  Blank    \* the content of a cleared cell

ASSUME CellsAssumption == Cells \in Nat \ {0}

Addr == 0 .. Cells - 1

Panel == [cursor : Addr, cells : [Addr -> Mark \cup {Blank}]]

BlankPanel == [cursor |-> 0, cells |-> [a \in Addr |-> Blank]]

(* An instruction byte: 1 clears, 2 and 3 home the cursor, 128 and above   *)
(* move it; the others touch neither the text nor the cursor.              *)
Obey(p, v) ==
  CASE v = 1        -> BlankPanel
    [] v \in {2, 3} -> [p EXCEPT !.cursor = 0]
    [] v >= 128     -> [p EXCEPT !.cursor = (v - 128) % Cells]
    [] OTHER        -> p

(* w data bytes, each written at the cursor, which then moves on by one.   *)
Write(p, m, w) ==
  [cursor |-> (p.cursor + w) % Cells,
   cells  |-> [a \in Addr |->
                 IF \E i \in 0 .. w - 1 : a = (p.cursor + i) % Cells
                   THEN m ELSE p.cells[a]]]

-----------------------------------------------------------------------------
(* One line of the protocol (proto.h).  For INSTR and DDRAM arg is the     *)
(* number sscanf reads, -1 when there is none; for PUT it is the length of *)
(* the text; the other commands ignore it.                                 *)
Op == {"INIT", "CLEAR", "HOME", "INSTR", "PUT", "DDRAM", "other"}

Understood(r) ==
  \/ r.op \in {"INIT", "CLEAR", "HOME", "PUT"}
  \/ r.op \in {"INSTR", "DDRAM"} /\ r.arg >= 0

(* What the panel p shows after the line r of m; parse_hex keeps the low   *)
(* byte and lcd_set_ddram its low seven bits.  The last instruction of     *)
(* INIT that shows is the clear.                                           *)
Display(p, m, r) ==
  CASE r.op \in {"INIT", "CLEAR"} -> Obey(p, 1)
    [] r.op = "HOME"  -> Obey(p, 2)
    [] r.op = "INSTR" -> Obey(p, r.arg % 256)
    [] r.op = "DDRAM" -> Obey(p, 128 + (r.arg % 128))
    [] r.op = "PUT"   -> Write(p, m, r.arg)
    [] OTHER -> p
=============================================================================
