----------------------------- MODULE BufferFile -----------------------------
(***************************************************************************)
(* The temporary file with the text of the editor buffer (buffer.c).       *)
(* put_buffer_line () appends the text of a line to it, get_buffer_line () *)
(* reads it back.  Both keep ed->core->offset, where they believe the file *)
(* is positioned, to save seeks; seek_on_write tells that a line was read  *)
(* since the last one was written.  pos is where the file really is.       *)
(*                                                                         *)
(* Lines are put in critical sections: each outcome is one step.  They are *)
(* read outside of them by the commands that print, write and join lines,  *)
(* and an interrupt may jump out between any two of the steps below.       *)
(***************************************************************************)
EXTENDS Integers, Sequences, SequencesExt

VARIABLES
  bytes,          \* the contents of the file
  pos,            \* the position of the stream ed->core->fp
  offset,         \* ed->core->offset
  seek_on_write,  \* ed->core->seek_on_write
  slip,           \* history: have offset and pos come apart?
  spoiled         \* history: will the next put go wrong for that reason?

bf == <<bytes, pos, offset, seek_on_write, slip, spoiled>>

Empty ==
  [bytes |-> <<>>, pos |-> 0, offset |-> 0, seek_on_write |-> FALSE,
   slip |-> FALSE, spoiled |-> FALSE]

File == [bytes |-> bytes, pos |-> pos, offset |-> offset,
         seek_on_write |-> seek_on_write, slip |-> slip, spoiled |-> spoiled]

SetFile(f) ==
  /\ bytes' = f.bytes /\ pos' = f.pos /\ offset' = f.offset
  /\ seek_on_write' = f.seek_on_write /\ slip' = f.slip /\ spoiled' = f.spoiled

BufferFileInit ==
  /\ bytes = <<>> /\ pos = 0 /\ offset = 0 /\ seek_on_write = FALSE
  /\ slip = FALSE /\ spoiled = FALSE

\* close_ed_buffer () and a new file.
reopen_ed_buffer == SetFile(Empty)

----------------------------------------------------------------------------
(* get_buffer_line (), for a line node lp of the fields seek and len. *)

\* Bug variant: the next line is put without looking for the end.
reposition_no_flag(lp) ==
  /\ offset' = lp.seek
  /\ spoiled' = FALSE
  /\ UNCHANGED <<bytes, pos, seek_on_write, slip>>

\* offset is assigned before the seek it stands for.
reposition(lp) ==
  /\ seek_on_write' = TRUE
  /\ offset' = lp.seek
  /\ spoiled' = FALSE
  /\ UNCHANGED <<bytes, pos, slip>>

OutOfPosition(lp) == offset # lp.seek

fseek(lp) ==
  /\ offset >= 0
  /\ pos' = offset
  /\ slip' = FALSE
  /\ UNCHANGED <<bytes, offset, seek_on_write, spoiled>>

Readable(lp) == pos + lp.len <= Len(bytes)
TextAt(p, n) == SubSeq(bytes, p + 1, p + n)

fread(lp) ==
  /\ Readable(lp)
  /\ pos' = pos + lp.len
  /\ UNCHANGED <<bytes, offset, seek_on_write, slip, spoiled>>

\* A short read: the stream stops anywhere.
fread_fails(lp) ==
  /\ \E k \in 0 .. lp.len :
       /\ pos + k <= Len(bytes) \/ k = 0
       /\ pos' = pos + k
       /\ slip' = (slip \/ offset # pos + k)
  /\ UNCHANGED <<bytes, offset, seek_on_write, spoiled>>

\* Bug variant: the position is not counted on.
advance_not(lp) == UNCHANGED bf

advance(lp) ==
  /\ offset' = offset + lp.len
  /\ UNCHANGED <<bytes, pos, seek_on_write, slip, spoiled>>

\* A read that ends early, by a seek that fails or by an interrupt.
lose_read ==
  /\ slip' = (slip \/ offset # pos)
  /\ UNCHANGED <<bytes, pos, offset, seek_on_write, spoiled>>

\* The child process of a filter reads the file, which it shares with ed.
move_file(p) ==
  /\ pos' = p
  /\ slip' = (slip \/ p # pos)
  /\ spoiled' = (spoiled \/ (p # pos /\ ~ seek_on_write))
  /\ UNCHANGED <<bytes, offset, seek_on_write>>

----------------------------------------------------------------------------
(* put_buffer_line (): the file f after each of its outcomes. *)

\* Where the text goes, and where the line node will say that it is.
Sought(f) ==
  IF f.seek_on_write
    THEN [f EXCEPT !.pos = Len(f.bytes), !.offset = Len(f.bytes),
                   !.seek_on_write = FALSE, !.slip = FALSE]
    ELSE f

Written(f, t) ==
  [f EXCEPT !.bytes = SubSeq(@, 1, f.pos) \o t \o SubSeq(@, f.pos + Len(t) + 1, Len(@)),
            !.pos = @ + Len(t)]

PutLine(f, t) == [Written(Sought(f), t) EXCEPT !.offset = @ + Len(t)]

NewNode(f, t) ==
  [seek |-> Sought(f).offset, len |-> Len(t), text |-> t, sound |-> ~ f.spoiled]

\* The lines b when a put has gone to a place where the text of others is.
Overwritten(b) ==
  IF spoiled /\ pos < Len(bytes)
    THEN [i \in DOMAIN b |-> [b[i] EXCEPT !.sound = FALSE]] ELSE b

\* The seek, ftell () or fwrite () fails, or malloc () for the line node after
\* the text was written.
PutFailures(f, t) ==
  (IF f.seek_on_write
     THEN {f, [f EXCEPT !.offset = -1, !.pos = Len(f.bytes)]} ELSE {})
  \cup {[Written(Sought(f), SubSeq(t, 1, k)) EXCEPT !.offset = -1, !.spoiled = TRUE] :
          k \in 0 .. Len(t)}
  \cup {[Written(Sought(f), t) EXCEPT !.spoiled = TRUE]}
=============================================================================
