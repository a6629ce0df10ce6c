---------------------------- MODULE MCLineBuffer ----------------------------
(***************************************************************************)
(* Instances of LineBuffer for TLC.                                        *)
(***************************************************************************)
EXTENDS LineBufferView

\* Every command given on its own.
EditCmds == AllCmds \ {"k", "g", ";"}

\* Marks, on lines that are deleted, joined, substituted and brought back.
MarkCmds == {"a", "d", "j", "s", "u", "k"}

\* Command lists of global commands: lines that come and go, and that move.
GlobalCmds == {"i", "d", "u", "g", ";"}
GlobalMoves == {"i", "m", "u", "g"}

AllSessions == {EditCmds, MarkCmds, GlobalCmds, GlobalMoves}

\* A read that is cut short leaves is_empty set, and `a' then deletes lines:
\* that weakness is left out of the runs.
Reads == {"r", "E", "!"}
NoReadAborts == AllCmds \ Reads
=============================================================================
