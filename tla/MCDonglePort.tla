---------------------------- MODULE MCDonglePort ----------------------------
(* Values of DonglePort's constants for TLC.                               *)
EXTENDS DonglePort, TLC

CONSTANTS r1, r2

TwoRuns == {r1, r2}
TwoPorts == {1, 2}   \* one wired to the open contact, one to the closed
ThreeValues == {1, 2, 5}
EitherRun == Permutations(TwoRuns)
=============================================================================
