----------------------------- MODULE MacroStack -----------------------------
(***************************************************************************)
(* Macros (register.c, built with --enable-ed-macro).  `from,to@n' runs    *)
(* the commands in register n once for every line of the range.  To do so  *)
(* exec_macro () pushes a stack frame, appends the register to the script  *)
(* buffer, a file, makes it the standard input and reads commands from     *)
(* there; a command may call a macro again.  At the end it pops its frame, *)
(* or, on an error, unwinds all of them.                                   *)
(*                                                                         *)
(* calls are the activations of exec_macro () on the C stack.  A command   *)
(* that is not a call may succeed, fail or (`q') return EOF, and may       *)
(* change the number of lines.                                             *)
(***************************************************************************)
EXTENDS Naturals, Sequences, SequencesExt

CONSTANTS
  Reg,        \* registers
  Program,    \* what each register holds: a sequence of commands
  Frames,     \* STACK_FRAMES_MAX
  MaxLines,   \* bound: lines of the buffer
  Script0     \* the script buffer at the start: given with -e or -f, or <<>>

Plain == [op |-> "plain"]
Call(r, n) == [op |-> "call", reg |-> r, n |-> n]
Command == {Plain} \cup {Call(r, n) : r \in Reg, n \in 0 .. MaxLines}

ASSUME MacroAssumption ==
  /\ Frames \in Nat /\ MaxLines \in Nat
  /\ Program \in [Reg -> Seq(Command)] /\ Script0 \in Seq(Command)

VARIABLES
  lines,      \* ed->state->lines
  script,     \* the contents of the script buffer, ed->exec->fp
  pos,        \* its file position
  stdin,      \* "tty" or "script"
  frame,      \* stack_frame[0 .. sp - 1]
  calls,      \* activations: register, next line, last line, status, and how
              \* many commands of the register were read for the line
  pc          \* "prompt", "loop" (over the lines), "read" (a command)

vars == <<lines, script, pos, stdin, frame, calls, pc>>
FSCRIPT == Script0 # <<>>
sp == Len(frame)
me == Last(calls)

Init ==
  /\ lines \in 0 .. MaxLines
  /\ script = Script0 /\ pos = 0 /\ stdin = "tty"
  /\ frame = <<>> /\ calls = <<>> /\ pc = "prompt"

----------------------------------------------------------------------------
(* The stack. *)

\* The status of the caller: the command it was reading has failed, which ends
\* the inner loop of exec_macro () and not the loop over the lines.
Fail(cs) ==
  IF cs = <<>> THEN calls' = <<>> /\ pc' = "prompt"
  ELSE /\ calls' = [cs EXCEPT ![Len(cs)].st = "ERR", ![Len(cs)].addr = @ + 1]
       /\ pc' = "loop"

Restore(f) ==
  /\ stdin' = f.fp
  /\ script' = SubSeq(script, 1, f.size)
  /\ pos' = f.addr

\* Bug variant: the standard input of the innermost frame is restored.
unwind_stack_frame_top(at) ==
  IF sp = 0 THEN pos' = at /\ UNCHANGED <<script, stdin, frame>>
  ELSE frame' = <<>> /\ Restore(frame[sp])

\* Bug variant: only the innermost frame is dropped.
unwind_stack_frame_one(at) ==
  IF sp = 0 THEN pos' = at /\ UNCHANGED <<script, stdin, frame>>
  ELSE frame' = Front(frame) /\ Restore(frame[1])

\* at: the position of the script buffer at the time.
unwind_stack_frame(at) ==
  IF sp = 0 THEN pos' = at /\ UNCHANGED <<script, stdin, frame>>
  ELSE frame' = <<>> /\ Restore(frame[1])

\* Bug variant: the caller's position is not restored.
pop_stack_frame_lost ==
  /\ sp > 0
  /\ frame' = Front(frame)
  /\ stdin' = frame[sp].fp /\ script' = SubSeq(script, 1, frame[sp].size)
  /\ pos' = frame[sp].size

pop_stack_frame ==
  /\ sp > 0
  /\ frame' = Front(frame)
  /\ Restore(frame[sp])

\* push_stack_frame (): the position of the caller in the script buffer, and its
\* end, where the register will go.  Without -e and -f the first frame starts
\* at 0.
NewFrame(at) ==
  IF sp > 0 \/ FSCRIPT
  THEN [fp |-> stdin, addr |-> at, size |-> Len(script)]
  ELSE [fp |-> stdin, addr |-> 0, size |-> 0]

\* append_stream (): writes over what is at position p, if anything.
Overwrite(s, p, t) ==
  SubSeq(s, 1, p) \o t \o SubSeq(s, p + Len(t) + 1, Len(s))

room == sp < Frames

\* script_from_register (), called with the script buffer at position at.
script_from_register(r, at) ==
  LET p == IF sp > 0 \/ FSCRIPT THEN Len(script) ELSE at
  IN  /\ room
      /\ frame' = Append(frame, NewFrame(at))
      /\ script' = Overwrite(script, p, Program[r])
      /\ pos' = p + Len(Program[r])
      /\ stdin' = "script"

\* The lines that n in `n@r' stands for: 1,n, or none given: the current line,
\* and line 0 of an empty buffer.
Ranges(n) ==
  IF n > 0 THEN {<<1, n>>}
  ELSE IF lines = 0 THEN {<<0, 0>>} ELSE {<<d, d>> : d \in 0 .. lines}
Valid(range) == range[2] <= lines /\ (lines > 0 => range[1] > 0)

\* macro_cmd () and exec_macro () up to its loop, called below the activations
\* cs with the script buffer at position at.  It fails when the range is not
\* valid, when there is no room, or when malloc () or the files fail.
exec_macro(cs, r, n, at) ==
  \E range \in Ranges(n) :
    \/ /\ Valid(range)
       /\ script_from_register(r, at)
       /\ calls' = Append(cs, [reg |-> r, addr |-> range[1], end |-> range[2],
                               st |-> "none", read |-> 0])
       /\ pc' = "loop"
    \/ Valid(range) /\ unwind_stack_frame(at) /\ Fail(cs)
    \/ ~ Valid(range) /\ pos' = at /\ Fail(cs) /\ UNCHANGED <<script, stdin, frame>>

----------------------------------------------------------------------------
(* Steps. *)

\* The user, or a script, runs a macro.
macro_cmd(r, n) ==
  /\ pc = "prompt"
  /\ exec_macro(<<>>, r, n, pos)
  /\ UNCHANGED lines

More == calls # <<>> /\ me.addr <= me.end /\ me.addr <= lines

\* The next line: the script is read from where the register starts in it.
next_line ==
  /\ pc = "loop" /\ More
  /\ sp > 0
  /\ pos' = frame[sp].size
  /\ calls' = [calls EXCEPT ![Len(calls)].read = 0]
  /\ pc' = "read"
  /\ UNCHANGED <<lines, script, stdin, frame>>

\* After a nested call has unwound the stack the size is taken from the memory
\* before stack_frame[].  A standard input that is a terminal or a pipe is not
\* seekable whatever the size: the loop ends with an error.  (A seekable one
\* would be moved to an arbitrary place.)
seek_outside ==
  /\ pc = "loop" /\ More
  /\ sp = 0
  /\ Fail(Front(calls))
  /\ UNCHANGED <<lines, script, pos, stdin, frame>>

\* Bug variant: the end of the script starts the line again.
end_of_macro_again ==
  /\ pc = "read" /\ pos >= Len(script)
  /\ calls' = [calls EXCEPT ![Len(calls)].st = "EOF"]
  /\ pc' = "loop"
  /\ UNCHANGED <<lines, script, pos, stdin, frame>>

\* The end of the script ends the line.
end_of_macro ==
  /\ pc = "read" /\ pos >= Len(script)
  /\ calls' = [calls EXCEPT ![Len(calls)].st = "EOF", ![Len(calls)].addr = @ + 1]
  /\ pc' = "loop"
  /\ UNCHANGED <<lines, script, pos, stdin, frame>>

Reading(op) ==
  /\ pc = "read" /\ pos < Len(script) /\ script[pos + 1].op = op

\* A command that succeeds, one that fails, and `q', whose status is EOF too.
plain_ok ==
  /\ Reading("plain")
  /\ pos' = pos + 1
  /\ calls' = [calls EXCEPT ![Len(calls)].read = @ + 1]
  /\ lines' \in 0 .. MaxLines
  /\ UNCHANGED <<script, stdin, frame, pc>>

plain_fails(st) ==
  /\ Reading("plain")
  /\ pos' = pos + 1
  /\ calls' = [calls EXCEPT ![Len(calls)].st = st, ![Len(calls)].addr = @ + 1]
  /\ pc' = "loop"
  /\ UNCHANGED <<lines, script, stdin, frame>>

\* A nested call: the command has been read when the frame is pushed.
nested_cmd ==
  /\ Reading("call")
  /\ exec_macro([calls EXCEPT ![Len(calls)].read = @ + 1],
                script[pos + 1].reg, script[pos + 1].n, pos + 1)
  /\ UNCHANGED lines

\* The end of exec_macro (): pop the frame and go on with the caller, or unwind
\* on error.
macro_end ==
  /\ pc = "loop" /\ ~ More
  /\ IF me.st = "ERR"
     THEN unwind_stack_frame(pos) /\ Fail(Front(calls))
     ELSE /\ pop_stack_frame
          /\ calls' = Front(calls)
          /\ pc' = IF Len(calls) = 1 THEN "prompt" ELSE "read"
  /\ UNCHANGED lines

\* SIGINT: main () unwinds the stack; the activations are gone.
interrupt ==
  /\ pc # "prompt"
  /\ unwind_stack_frame(pos)
  /\ calls' = <<>> /\ pc' = "prompt"
  /\ UNCHANGED lines

Step ==
  \/ next_line \/ seek_outside \/ end_of_macro \/ plain_ok
  \/ \E st \in {"ERR", "EOF"} : plain_fails(st)
  \/ nested_cmd \/ macro_end

Next ==
  \/ \E r \in Reg, n \in 0 .. MaxLines : macro_cmd(r, n)
  \/ Step
  \/ interrupt

\* ed does not wait for anyone while a macro runs.
Spec == Init /\ [][Next]_vars /\ WF_vars(Step)

----------------------------------------------------------------------------
(* Properties. *)

\* There is a frame for each activation of exec_macro (), or an error has
\* unwound them all (unwind_stack_frame ()) and every activation that is left
\* is on its way out.  Macros that call themselves never get more frames than
\* stack_frame[] has.
StackMatches ==
  /\ sp = Len(calls) \/ (sp = 0 /\ pc = "loop" /\ me.st = "ERR")
  /\ sp <= Frames

\* A command is read from the register that the innermost activation runs,
\* from the place it was left at, whatever macros were called and ended in
\* between (pop_stack_frame () restores position and end of the caller).
ReturnsToCaller ==
  pc = "read" =>
    /\ stdin = "script"
    /\ SubSeq(script, frame[sp].size + 1, Len(script)) = Program[me.reg]
    /\ pos = frame[sp].size + me.read

\* Back at the prompt, after an end, an error or an interrupt at any depth, the
\* standard input is the one ed was started with and the script buffer is as
\* before the macro.
ScriptRestored ==
  pc = "prompt" => /\ sp = 0 /\ stdin = "tty"
                   /\ script = Script0 /\ pos = 0

\* A macro ends, even one that calls itself (STACK_FRAMES_MAX) or that adds
\* lines to the buffer.
MacroEnds == pc # "prompt" ~> pc = "prompt"
=============================================================================
