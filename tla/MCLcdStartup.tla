---------------------------- MODULE MCLcdStartup ----------------------------
(* Values of LcdStartup's constants for TLC.                               *)
EXTENDS LcdStartup, TLC

CONSTANTS i1, i2, i3

ThreeInst == {i1, i2, i3}
=============================================================================
