------------------------------ MODULE SafeStr ------------------------------
(***************************************************************************)
(* The host names of azureiotd (package azureiotd, safe_str.c).  A string  *)
(* is a sequence of tokens: the separators below, each a character, and    *)
(* runs of characters that hold none of them.  An option has at most 255   *)
(* characters and the buffers are larger, so that no copy is cut.          *)
(***************************************************************************)
EXTENDS Integers, Sequences, FiniteSetsExt

Separator == {":", "/", "?", "#"}

(* What stands before the first of the characters in cutset.               *)
ChopAtFirst(s, cutset) ==
  LET Hits == {i \in DOMAIN s : s[i] \in cutset}
  IN IF Hits = {} THEN s ELSE SubSeq(s, 1, Min(Hits) - 1)

(* What follows the first "://", wherever it stands.                       *)
DropScheme(s) ==
  LET Hits == {i \in 1 .. Len(s) - 2 : SubSeq(s, i, i + 2) = <<":", "/", "/">>}
  IN IF Hits = {} THEN s ELSE SubSeq(s, Min(Hits) + 3, Len(s))

(* Mutant: the port is left in place.                                      *)
SafeHostnameAndPort(s) == ChopAtFirst(DropScheme(s), {"/", "?", "#"})

SafeHostnameOnly(s) == ChopAtFirst(ChopAtFirst(DropScheme(s), {"/", "?", "#"}), {":"})
=============================================================================
