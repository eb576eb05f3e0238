------------------------------ MODULE MCLcdSvc ------------------------------
(* Values of LcdSvc's constants for TLC.                                   *)
EXTENDS LcdSvc, TLC

CONSTANTS c1, c2, c3, p1, p2, p3

TwoClients == {c1, c2}
ThreeClients == {c1, c2, c3}

OneEach == [c \in Client |-> CASE c = c1 -> p1 [] c = c2 -> p2 [] OTHER -> p3]
TwoThreads == [c \in Client |-> IF c = c3 THEN p2 ELSE p1]

LineOf(o, a, s, j) == [op |-> o, arg |-> a, size |-> s, junk |-> j]

(* Every way a line can go wrong.                                          *)
AnyLine ==
  { LineOf("PUT", 2, "wide", 1), LineOf("PUT", 2, "long", 1),
    LineOf("INIT", 0, "short", 0), LineOf("INSTR", -1, "short", 0) }
SomeStray == { LineOf("CLEAR", 0, "short", 0) }

(* Lines that arrive in one piece.                                         *)
PlainLine ==
  { LineOf("PUT", 1, "short", 0), LineOf("DDRAM", 1, "short", 0),
    LineOf("other", 0, "short", 0) }

(* One that arrives torn beside one that does not.                         *)
FewLines == { LineOf("PUT", 1, "long", 0), LineOf("DDRAM", 1, "short", 0) }

NoStray == {}
NoProcess == {}
FirstProcess == {p1}
TwoProcesses == {p1, p2}
=============================================================================
