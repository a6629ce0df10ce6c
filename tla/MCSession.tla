----------------------------- MODULE MCSession -----------------------------
(***************************************************************************)
(* Session for TLC: three texts, so that a change can lead to new text,    *)
(* back to the old one or to the empty buffer.                             *)
(***************************************************************************)
EXTENDS Session

CONSTANTS e0, t1, t2

MCText == {e0, t1, t2}
============================================================================
