---------------------------- MODULE MCEviCaption ----------------------------
(* Values of EviCaption's constants for TLC.                               *)
EXTENDS EviCaption, TLC

CONSTANTS t1, t2, t3, p1, p2

Threads == {t1, t2}
OneProcess == {p1}
Shared == [t \in Thread |-> p1]

ThreeThreads == {t1, t2, t3}
TwoProcesses == {p1, p2}
TwoAndOne == [t \in Thread |-> IF t = t3 THEN p2 ELSE p1]

K(f, x, y, n) == [fn |-> f, a |-> x, b |-> y, n |-> n]

(* Without a text, with one, one cut and one its head, of both files.      *)
FourCalls ==
  { K("info1", "x", "long", 0), K("info1", "x", "lon", 0), K("info1", "NULL", "x", 0),
    K("getMValue", "x", "x", 0) }

EitherThread == Permutations(Threads)

OnlyPreparing == { K("preparing", "NULL", "NULL", 0) }
InfoAndPreparing == { K("info1", "x", "x", 0), K("preparing", "NULL", "NULL", 0) }
=============================================================================
