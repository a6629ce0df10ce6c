------------------------------- MODULE MCSubst -------------------------------
EXTENDS Subst, SequencesExt

\* All lines of up to three characters.
Upto3 == SeqOf({"a", "x"}, 3)
Few == {-2, 0, 2}
Patterns == {"x", "x*", "^x*", "x*$"}
\* Lines with a character of two bytes.
Wide == {<<"lead", "cont">>, <<"x", "lead", "cont">>, <<"lead", "cont", "x">>}
\* Binary lines.
Binary == {<<"nul">>, <<"x", "nul">>, <<"nul", "x">>, <<"x", "nul", "x">>,
           <<"a", "nul", "x">>, <<"x", "a", "nul">>, <<"nul", "lead", "cont">>}
AllLines == Upto3 \cup Wide \cup Binary
=============================================================================
