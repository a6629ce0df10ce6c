----------------------------- MODULE LineEditor -----------------------------
(***************************************************************************)
(* What the buffer of ed promises: a sequence of lines, the current line,  *)
(* and the state from before the last command, which `u' trades for the    *)
(* present one.  A command takes the snapshot when it starts; what it does *)
(* after that, all the commands of a global command included, is undone    *)
(* together.  The module has no counterpart in the code: LineBuffer, which *)
(* models the code, implements it.                                         *)
(***************************************************************************)
EXTENDS Integers, Sequences, SequencesExt

CONSTANTS Line    \* the lines there can be
None == <<>>      \* no snapshot: there is nothing to undo

VARIABLES
  text,           \* the buffer, a sequence of different lines
  dot,            \* the current line, 0 before the first
  old,            \* None, or the [text, dot] that undo goes back to
  busy            \* is a command or a global command in progress?

vars == <<text, dot, old, busy>>

Snapshot == [text |-> text, dot |-> dot]
OldText(o) == IF o = None THEN <<>> ELSE o.text

Init == text = <<>> /\ dot = 0 /\ old = None /\ busy = FALSE

----------------------------------------------------------------------------
\* s2 is s with the lines i+1 .. j replaced by lines that neither s nor the
\* text kept for undo has.
Replaced(s, s2, kept) ==
  \E i \in 0 .. Len(s) : \E j \in i .. Len(s) :
    LET n == Len(s2) - (Len(s) - (j - i))
    IN  /\ n >= 0
        /\ SubSeq(s2, 1, i) = SubSeq(s, 1, i)
        /\ SubSeq(s2, i + n + 1, Len(s2)) = SubSeq(s, j + 1, Len(s))
        /\ \A k \in i + 1 .. i + n : s2[k] \notin ToSet(s) \cup ToSet(kept)

\* s2 is s with two neighbouring ranges exchanged: the lines i+1 .. j and
\* j+1 .. k.
Moved(s, s2) ==
  \E i \in 0 .. Len(s) : \E j \in i .. Len(s) : \E k \in j .. Len(s) :
    s2 = SubSeq(s, 1, i) \o SubSeq(s, j + 1, k) \o SubSeq(s, i + 1, j)
           \o SubSeq(s, k + 1, Len(s))

Change ==
  /\ text' \in Seq(Line)
  /\ Replaced(text, text', OldText(old')) \/ Moved(text, text')
  /\ dot' \in 0 .. Len(text')

\* A command starts, with its first change or all of it.
Command ==
  /\ ~ busy
  /\ old' = Snapshot
  /\ Change
  /\ busy' \in BOOLEAN

\* A command goes on, ends or is cut short.
Continue ==
  /\ busy
  /\ old' = old
  /\ Change
  /\ busy' \in BOOLEAN

\* The current line changes and nothing else.
MoveDot ==
  /\ dot' \in 0 .. Len(text)
  /\ UNCHANGED <<text, old, busy>>

Undo ==
  /\ old # None
  /\ text' = old.text
  /\ dot' = old.dot
  /\ old' = Snapshot
  /\ UNCHANGED busy

\* Another file is edited: nothing of the buffer is left to go back to.
Load ==
  /\ text' = <<>>
  /\ dot' = 0
  /\ old' = None
  /\ busy' = TRUE

Next == Command \/ Continue \/ MoveDot \/ Undo \/ Load

Spec == Init /\ [][Next]_vars
=============================================================================
