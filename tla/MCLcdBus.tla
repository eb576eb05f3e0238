------------------------------ MODULE MCLcdBus ------------------------------
(* Values of LcdBus's constants for TLC.                                   *)
EXTENDS LcdBus, TLC

CONSTANTS d1, t1, e1

TheDaemon == {d1}
TheTool == {t1}
TheLibrary == {e1}

(* A letter, an address, a clear, and a function set for four bits.        *)
FewSent == { [rs |-> 1, hi |-> 4, lo |-> 1], Instr(8, 5), Instr(0, 1), Instr(2, 0) }
FewDrawn == { [rs |-> 1, hi |-> 5, lo |-> 3], Instr(8, 2) }
HighOrLow == {0, 15}
=============================================================================
