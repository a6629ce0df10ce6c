------------------------------ MODULE Session ------------------------------
(***************************************************************************)
(* A session of ed as its user sees it: the text is changed, written, read *)
(* and undone, and ed must not throw away changes without a warning.       *)
(* Control is that of main () (main.c), of the commands of exec.c and of   *)
(* undo_last_command (); what a text says is a member of the set Text.     *)
(*                                                                         *)
(* The last six variables are not the code's.  They remember what the      *)
(* properties compare the state with, and when the session has met one of  *)
(* the known weaknesses of is_modified and of the undo queue.              *)
(***************************************************************************)
EXTENDS Naturals

CONSTANTS
  Text,      \* what the buffer can contain
  Empty,     \* the text of the empty buffer
  Faults     \* what may go wrong ("read", "write", "suffix"), and the uses of
             \* r, !, e and w that is_modified is not made for ("shell", "part")

ASSUME SessionAssumption ==
  Empty \in Text /\ Faults \subseteq {"read", "write", "suffix", "shell", "part"}

VARIABLES
  text,      \* the buffer
  mod,       \* ed->state[0].is_modified
  saved,     \* [text, mod]: the buffer before the last command, state[1]
  canundo,   \* 0 when state[1].lines is -1: nothing to undo
  global,    \* ed->exec->global
  mode,      \* "prompt", "list" (in a command list) or "exit"
  safe,      \* texts without unwritten changes: what a file holds as a whole
  warned,    \* texts the user was warned of since the last write
  before,    \* the text that the last command started from
  written,   \* 1 if `w' was used since state[1] was saved
  unflagged, \* texts for which a known weakness has left is_modified 0
  stuck      \* 1 once global was left set: see global_bad_suffix

buffer == <<text, mod, saved, canundo>>
session_vars ==
  <<text, mod, saved, canundo, global, mode, safe, warned, before, written, unflagged, stuck>>

SessionInit ==
  /\ text = Empty /\ mod = 0
  /\ saved = [text |-> Empty, mod |-> 0] /\ canundo = 0
  /\ global = 0 /\ mode = "prompt"
  /\ safe = {Empty} /\ warned = {} /\ before = Empty
  /\ written = 0 /\ unflagged = {} /\ stuck = 0

Live == mode # "exit"

SaveState ==
  /\ saved' = [text |-> text, mod |-> mod] /\ canundo' = 1
  /\ written' = 0 /\ stuck' = 0

\* A command that changes the buffer resets the undo queue, unless it is part
\* of a global command, or ed takes it to be.
reset_undo_queue ==
  \/ global = 0 /\ SaveState
  \/ global = 1 /\ UNCHANGED <<saved, canundo, written, stuck>>

\* The flag is not set for text that was read; that of the file is not set
\* although the file no longer holds what the buffer does.
ReadUnflagged(t) == IF mod = 0 /\ t # text THEN unflagged \cup {t} ELSE unflagged
LostUnflagged == IF mod = 0 THEN unflagged \cup {text} ELSE unflagged

Starts == before' = IF mode = "prompt" THEN text ELSE before

\* main () clears global on SIGINT; on an error, global_cmd () does, if the
\* command was part of its command list.
Reset == global' = 0 /\ mode' = "prompt"
Error == global' = (IF mode = "list" THEN 0 ELSE global) /\ mode' = "prompt"
Aborted == Reset \/ Error

----------------------------------------------------------------------------
(* Commands. *)

\* Bug variant: the flag is set once the command has ended, not with the line.
edit_unflagged(t, done) ==
  /\ Live /\ reset_undo_queue /\ Starts
  /\ text' = t /\ mod' = IF done THEN 1 ELSE mod
  /\ UNCHANGED <<global, mode, safe, warned, unflagged>>

\* a, c, d, i, j, m, s, t and ! with the addresses of lines: is_modified is set
\* in the same critical section as each change.  When the command is cut
\* short, which `done' tells, it has still made some of its changes.  A register
\* that was read to its end also sets the flag; one that was not is r_cut.
edit(t, done) ==
  /\ Live /\ reset_undo_queue /\ Starts
  /\ text' = t /\ mod' = 1
  /\ IF done THEN UNCHANGED <<global, mode>> ELSE Aborted
  /\ UNCHANGED <<safe, warned, unflagged>>

\* `0!command' in the empty buffer: no line is deleted, and read_stream_r ()
\* does not set is_modified.
filter_empty(t, done) ==
  /\ Live /\ "shell" \in Faults /\ text = Empty /\ reset_undo_queue /\ Starts
  /\ text' = t /\ unflagged' = ReadUnflagged(t)
  /\ IF done THEN UNCHANGED <<global, mode>> ELSE Aborted
  /\ UNCHANGED <<mod, safe, warned>>

\* The end of r_cmd (): the lines read into an empty buffer are the whole
\* buffer, and it is not modified: it is what the file holds, but nothing holds
\* what `r !command' has read.  A file without lines changes nothing.
r_cmd(t, piped) ==
  /\ Live
  /\ piped => "shell" \in Faults
  /\ reset_undo_queue /\ Starts
  /\ text' = t
  /\ mod' = IF text # Empty /\ t # text THEN 1 ELSE mod
  /\ safe' = IF text = Empty /\ ~ piped THEN safe \cup {t} ELSE safe
  /\ unflagged' = IF text = Empty /\ piped THEN ReadUnflagged(t) ELSE unflagged
  /\ UNCHANGED <<global, mode, warned>>

\* A read that an error or SIGINT ends early: is_modified is not set.
r_cut(t) ==
  /\ Live /\ "read" \in Faults /\ reset_undo_queue /\ Starts
  /\ text' = t /\ unflagged' = ReadUnflagged(t)
  /\ Aborted
  /\ UNCHANGED <<mod, safe, warned>>

\* The buffer becomes t, the contents of a file or what of it could be read,
\* or else what a command has printed.  global is 0 from here on, so that what
\* is left of a command list is executed like commands given at the prompt.
Load(t, piped) ==
  /\ piped => "shell" \in Faults
  /\ text' = t /\ mod' = 0
  /\ saved' = [text |-> Empty, mod |-> 0] /\ canundo' = 0
  /\ Reset
  /\ safe' = (IF piped THEN {} ELSE {t}) /\ warned' = {} /\ before' = t
  /\ unflagged' = IF piped THEN {t} ELSE {}
  /\ written' = 0 /\ stuck' = 0

E_cmd(t, piped) == Live /\ Load(t, piped)

\* EMOD: main () warns, and lets the command pass the next time.
Warn ==
  /\ mod' = 0 /\ warned' = warned \cup {text}
  /\ Error
  /\ UNCHANGED <<text, saved, canundo, safe, before, written, unflagged, stuck>>

e_cmd(t, piped) == Live /\ ((mod = 1 /\ Warn) \/ (mod = 0 /\ Load(t, piped)))

Quit ==
  /\ mode' = "exit"
  /\ UNCHANGED <<buffer, global, safe, warned, before, written, unflagged, stuck>>

\* Bug variant: `q' quits whether or not there are changes.
q_cmd_unasked == Live /\ Quit

\* `q', and the end of input, without -s.
q_cmd == Live /\ ((mod = 1 /\ Warn) \/ (mod = 0 /\ Quit))
Q_cmd == Live /\ Quit

\* w_cmd () of the whole buffer to a file; `wq' also quits.
w_cmd(q) ==
  /\ Live
  /\ mod' = 0
  /\ safe' = {text} /\ warned' = {} /\ written' = 1 /\ unflagged' = {}
  /\ mode' = IF q THEN "exit" ELSE mode
  /\ UNCHANGED <<text, saved, canundo, global, before, stuck>>

\* `w' of some of the lines to the file that holds the buffer, which then holds
\* no more than them; is_modified stays as it is, and is asked by `wq'.
w_part(q) ==
  /\ Live /\ "part" \in Faults /\ text # Empty
  /\ safe' = {} /\ written' = 1 /\ unflagged' = LostUnflagged
  /\ \/ ~ q /\ UNCHANGED <<mod, global, mode, warned>>
     \/ q /\ mod = 1 /\ mod' = 0 /\ warned' = warned \cup {text} /\ Error
     \/ q /\ mod = 0 /\ mode' = "exit" /\ UNCHANGED <<mod, global, warned>>
  /\ UNCHANGED <<text, saved, canundo, before, stuck>>

\* write_file () has truncated the file and does not get to its end.  Either
\* it says so and is_modified stays as it is; or it is the last fflush () of
\* write_stream () that fails, whose result nobody looks at.
w_fails(noticed) ==
  /\ Live /\ "write" \in Faults
  /\ IF noticed THEN mod' = mod /\ Aborted
                ELSE mod' = 0 /\ UNCHANGED <<global, mode>>
  /\ unflagged' = IF noticed THEN LostUnflagged ELSE unflagged \cup {text}
  /\ safe' = {} /\ warned' = {} /\ written' = 1
  /\ UNCHANGED <<text, saved, canundo, before, stuck>>

\* undo_last_command () exchanges the states, is_modified included, even when
\* the file has been written in between.
u_cmd ==
  /\ Live
  /\ canundo = 1
  /\ text' = saved.text /\ mod' = saved.mod
  /\ saved' = [text |-> text, mod |-> mod]
  /\ before' = text
  /\ written' = 0
  /\ unflagged' = IF written = 1 /\ saved.mod = 0
                  THEN unflagged \cup {saved.text} ELSE unflagged
  /\ UNCHANGED <<canundo, global, mode, safe, warned, stuck>>

----------------------------------------------------------------------------
(* g, v, G and V. *)

\* Bug variant: exec_global () does not reset the undo queue.
global_cmd_no_reset ==
  /\ Live /\ global = 0 /\ text # Empty
  /\ global' = 1 /\ mode' = "list" /\ before' = text
  /\ UNCHANGED <<buffer, safe, warned, written, unflagged, stuck>>

\* A nested global command is an error.
global_cmd ==
  /\ Live /\ global = 0 /\ text # Empty
  /\ global' = 1 /\ mode' = "list" /\ before' = text
  /\ SaveState
  /\ UNCHANGED <<text, mod, safe, warned, unflagged>>

\* G or V with a suffix that COMMAND_SUFFIX rejects: global is GLBI already.
global_bad_suffix ==
  /\ Live /\ "suffix" \in Faults /\ global = 0 /\ text # Empty
  /\ global' = 1 /\ stuck' = 1
  /\ UNCHANGED <<buffer, mode, safe, warned, before, written, unflagged>>

\* The last line has been visited; an error or SIGINT in the command list; or
\* SIGINT at the prompt.
global_end ==
  /\ Live
  /\ Reset
  /\ UNCHANGED <<buffer, safe, warned, before, written, unflagged, stuck>>

SessionNext ==
  \/ \E t \in Text :
       \/ \E done \in BOOLEAN : edit(t, done) \/ filter_empty(t, done)
       \/ \E piped \in BOOLEAN : r_cmd(t, piped) \/ E_cmd(t, piped) \/ e_cmd(t, piped)
       \/ r_cut(t)
  \/ q_cmd \/ Q_cmd
  \/ \E b \in BOOLEAN : w_cmd(b) \/ w_part(b) \/ w_fails(b)
  \/ u_cmd
  \/ global_cmd \/ global_bad_suffix \/ global_end

SessionSpec == SessionInit /\ [][SessionNext]_session_vars

----------------------------------------------------------------------------
(* Properties. *)

Bit == {0, 1}

TypeOK ==
  /\ text \in Text /\ mod \in Bit
  /\ saved \in [text : Text, mod : Bit] /\ canundo \in Bit
  /\ global \in Bit /\ mode \in {"prompt", "list", "exit"}
  /\ safe \subseteq Text /\ warned \subseteq Text /\ before \in Text
  /\ written \in Bit /\ unflagged \subseteq Text /\ stuck \in Bit

\* is_modified is set whenever the buffer has changes that are in no file and
\* that ed has not warned of: `q', `e' and the end of input, which look at
\* nothing else, never lose changes silently.
NoSilentLoss == mod = 0 => text \in safe \cup warned

\* The code does not quite do that.  The only texts it lets go silently are
\* those of `unflagged': what `r !command', `0!command' and `E !command' have
\* read into the empty buffer, what was left by a read that was cut short, what
\* was in the buffer when `w' of a part of it or a failing `w' has destroyed its
\* file, and what `u' has brought back after a `w'; until `w' of all lines or
\* `E file'.  No other sequence of commands, interrupts included, does harm.
Accounted == safe \cup warned \cup unflagged
LossAccounted == mod = 0 => text \in Accounted

\* `u' goes back to the text the last command started from, a global command
\* being one command, unless G or V has left global set.
UndoesLast ==
  mode = "prompt" /\ canundo = 1 /\ stuck = 0 => saved.text = before

\* A session that `q', the end of input or `wq' has ended has written its last
\* text, or has warned of it, or it is one of those texts.
QuitAsks ==
  [][ /\ mode' = "exit"
      /\ q_cmd \/ w_cmd(TRUE) \/ w_part(TRUE)
      => text \in Accounted' ]_session_vars
=============================================================================
