--------------------------- MODULE LineBufferView ---------------------------
(***************************************************************************)
(* LineBuffer implements LineEditor.  The refinement mapping is kept in a  *)
(* variable of its own, a function of the state of LineBuffer: the text is *)
(* what the links say, and the text that undo goes back to is what undoing *)
(* every entry of the undo queue would make of the links.                  *)
(***************************************************************************)
EXTENDS LineBuffer

VARIABLE view

ViewOf(e, o) ==
  [text |-> TextOf(e.forw),
   dot  |-> e.st.dot,
   old  |-> IF e.saved = NoState THEN <<>>
            ELSE [text |-> TextOf(undo_links(e).forw), dot |-> e.saved.dot],
   busy |-> o # Idle \/ e.global]

ViewInit == Init /\ view = ViewOf(ed, op)
ViewNext == Next /\ view' = ViewOf(ed', op')
ViewSpec == ViewInit /\ [][ViewNext]_<<vars, view>>

Editor == INSTANCE LineEditor WITH
  Line <- Node, text <- view.text, dot <- view.dot, old <- view.old,
  busy <- view.busy

\* The buffer the code keeps is a sequence of lines with one-level undo: every
\* change is undone by `u' exactly, line by line and with its dot, however
\* many critical sections it took and wherever it was cut short.
ImplementsEditor == Editor!Spec
=============================================================================
