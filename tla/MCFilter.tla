------------------------------ MODULE MCFilter ------------------------------
(***************************************************************************)
(* Filter for TLC: pipes of one piece, and shell commands that read first, *)
(* write first, do both in turn, or do not read at all, with more input    *)
(* and output than the pipes hold; the second filter meets what an         *)
(* interrupted first one leaves.                                           *)
(***************************************************************************)
EXTENDS Filter

SomePrograms == {<<"r", "w", "w">>, <<"w", "w", "r">>, <<"w", "r", "w">>, <<"w">>}
=============================================================================
