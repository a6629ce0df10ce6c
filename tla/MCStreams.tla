------------------------------ MODULE MCStreams ------------------------------
(***************************************************************************)
(* Streams for TLC.  Four sessions: lines are typed, printed and joined,   *)
(* empty ones among them, while reads and puts fail; lines are filtered    *)
(* while the filter's child reads the buffer file; files with and          *)
(* without NULs and newlines at their end are read, edited and written;    *)
(* lines go to a register and come back.  Two lines and three bytes are    *)
(* enough for a line before and one after any position of the buffer file. *)
(***************************************************************************)
EXTENDS Streams

x == <<"x">>
NUL == <<"NUL">>

Editing == [cmds |-> {"a", "d", "p", "j"}, text |-> {x, NUL, <<>>}, contents |-> {}]

Filtering == [cmds |-> {"a", "p", "filter"}, text |-> {x}, contents |-> {}]

WithFiles ==
  [cmds |-> {"a", "d", "E", "r", "w"}, text |-> {x},
   contents |-> {x, NUL, <<"NUL", "NL">>}]

WithRegisters ==
  [cmds |-> {"a", "t_from", "m_from", "t_to", "m_to"}, text |-> {NUL}, contents |-> {}]

AllSessions == {Editing, Filtering, WithFiles, WithRegisters}
==============================================================================
