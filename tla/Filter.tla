------------------------------- MODULE Filter -------------------------------
(***************************************************************************)
(* The processes of `[range]!command' (filter.c).  filter_lines () makes   *)
(* two pipes, ip to the shell command and op back from it, and forks       *)
(* twice: the shell, and a writer that sends the lines down ip while ed    *)
(* reads op.  Ends of pipes are inherited by every process forked while    *)
(* they are open, and a pipe is at its end only when nobody holds its      *)
(* write end any more.                                                     *)
(*                                                                         *)
(* The shell command is a program of the instructions "r", read standard   *)
(* input to its end, and "w", write a piece of output.  What a filter does *)
(* to the buffer is in LineBuffer and Streams.                             *)
(***************************************************************************)
EXTENDS Naturals, Sequences

CONSTANTS
  MaxFilters,   \* bound: filter commands in a session
  Input,        \* pieces of text there are for the shell
  Cap,          \* pieces a pipe holds
  Programs      \* the shell commands

ASSUME FilterAssumption ==
  /\ MaxFilters \in Nat /\ Input \in Nat /\ Cap \in Nat \ {0}
  /\ Programs \subseteq Seq({"r", "w"})

Filters == 1 .. MaxFilters
Ed == <<"ed", 0>>
Shell(i) == <<"shell", i>>
Writer(i) == <<"writer", i>>
Children == {"shell", "writer"} \X Filters
Ends == {"ip0", "ip1", "op0", "op1"}

VARIABLES
  pc,         \* where ed is in filter_lines ()
  cur,        \* the number of the filter
  waiting,    \* of WAITPID ()
  state,      \* of each child
  held,       \* held[i][e]: who holds end e of the pipes of filter i
  pipe,       \* what is in the pipes of each filter
  prog,       \* what the shell has yet to do
  left,       \* what the writer has yet to write
  jumped      \* history: has an interrupt left a filter?

filter_vars == <<pc, cur, waiting, state, held, pipe, prog, left, jumped>>

FilterInit ==
  /\ pc = "idle" /\ cur = 0 /\ waiting = 0
  /\ state = [p \in Children |-> "none"]
  /\ held = [i \in Filters |-> [e \in Ends |-> {}]]
  /\ pipe = [i \in Filters |-> [ip |-> 0, op |-> 0]]
  /\ prog = [i \in Filters |-> <<>>] /\ left = [i \in Filters |-> 0]
  /\ jumped = FALSE

\* p holds what ed holds.
Forked(h, p) ==
  [i \in Filters |-> [e \in Ends |->
     IF Ed \in h[i][e] THEN h[i][e] \cup {p} ELSE h[i][e]]]

Closed(h, p, i, es) ==
  [h EXCEPT ![i] = [e \in Ends |-> IF e \in es THEN @[e] \ {p} ELSE @[e]]]

\* The processes ps hold nothing any more.
Released(h, ps) == [i \in Filters |-> [e \in Ends |-> h[i][e] \ ps]]

Alive(p) == state[p] \in {"started", "running"}

----------------------------------------------------------------------------
(* ed *)

\* The pipes and the shell.  Where a pipe or the shell cannot be made the
\* command ends as if nothing had happened.
fork_shell(program) ==
  LET i == cur + 1
  IN  /\ pc = "idle" /\ i \in Filters
      /\ cur' = i /\ pc' = "shell_forked"
      /\ held' = Forked([held EXCEPT ![i] = [e \in Ends |-> {Ed}]], Shell(i))
      /\ state' = [state EXCEPT ![Shell(i)] = "started"]
      /\ prog' = [prog EXCEPT ![i] = program]
      /\ left' = [left EXCEPT ![i] = Input]
      /\ UNCHANGED <<waiting, pipe, jumped>>

delete_lines ==
  /\ pc = "shell_forked"
  /\ held' = Closed(held, Ed, cur, {"op1"})
  /\ pc' = "lines_deleted"
  /\ UNCHANGED <<cur, waiting, state, pipe, prog, left, jumped>>

\* SIGINT for the shell: before it has reset its handlers it jumps to main ()
\* and is a second editor; afterwards it dies unless it ignores the signal.
\* write_pid is not initialized.
delete_lines_fails ==
  /\ pc = "shell_forked"
  /\ pc' = "wait" /\ waiting' \in {1, 2}
  /\ LET h == Closed(held, Ed, cur, {"op1"})
     IN  \/ /\ state[Shell(cur)] = "started"
            /\ state' = [state EXCEPT ![Shell(cur)] = "rogue"] /\ held' = h
         \/ /\ state[Shell(cur)] = "running"
            /\ state' = [state EXCEPT ![Shell(cur)] = "zombie"]
            /\ held' = Released(h, {Shell(cur)})
         \/ /\ state[Shell(cur)] # "started"
            /\ held' = h /\ UNCHANGED state
  /\ UNCHANGED <<cur, pipe, prog, left, jumped>>

fork_writer ==
  /\ pc = "lines_deleted"
  /\ pc' = "writer_forked"
  /\ held' = Forked(held, Writer(cur))
  /\ state' = [state EXCEPT ![Writer(cur)] = "started"]
  /\ UNCHANGED <<cur, waiting, pipe, prog, left, jumped>>

\* ip[0] stays open.
fork_writer_fails ==
  /\ pc = "lines_deleted"
  /\ pc' = "wait" /\ waiting' = 1
  /\ held' = Closed(held, Ed, cur, {"ip1", "op0"})
  /\ UNCHANGED <<cur, state, pipe, prog, left, jumped>>

\* Bug variant: ed keeps the write end of the shell's standard input.
open_output_keep ==
  /\ pc = "writer_forked"
  /\ pc' = "read"
  /\ held' = Closed(held, Ed, cur, {"ip0"})
  /\ UNCHANGED <<cur, waiting, state, pipe, prog, left, jumped>>

open_output ==
  /\ pc = "writer_forked"
  /\ pc' = "read"
  /\ held' = Closed(held, Ed, cur, {"ip0", "ip1"})
  /\ UNCHANGED <<cur, waiting, state, pipe, prog, left, jumped>>

\* fdopen () fails; op[0] stays open.
open_output_fails ==
  /\ pc = "writer_forked"
  /\ pc' = "wait" /\ waiting' = 2
  /\ held' = Closed(held, Ed, cur, {"ip0", "ip1"})
  /\ UNCHANGED <<cur, state, pipe, prog, left, jumped>>

\* read_stream_r (): everything is read to memory before it is put.
read_output ==
  /\ pc = "read"
  /\ \/ /\ pipe[cur].op > 0
        /\ pipe' = [pipe EXCEPT ![cur].op = @ - 1]
        /\ UNCHANGED pc
     \/ /\ pipe[cur].op = 0 /\ held[cur]["op1"] = {}
        /\ pc' = "put"
        /\ UNCHANGED pipe
  /\ UNCHANGED <<cur, waiting, state, held, prog, left, jumped>>

\* No memory: op[0] stays open and nobody reads it.
read_output_fails ==
  /\ pc = "read"
  /\ pc' = "wait" /\ waiting' = 2
  /\ UNCHANGED <<cur, state, held, pipe, prog, left, jumped>>

\* Bug variant: ed waits for the shell only.
put_lines_one ==
  /\ pc = "put"
  /\ pc' = "wait" /\ waiting' = 1
  /\ held' \in {held, Closed(held, Ed, cur, {"op0"})}
  /\ UNCHANGED <<cur, state, pipe, prog, left, jumped>>

\* The lines are put and op[0] is closed; it stays open if they cannot be put.
put_lines ==
  /\ pc = "put"
  /\ pc' = "wait" /\ waiting' = 2
  /\ held' \in {held, Closed(held, Ed, cur, {"op0"})}
  /\ UNCHANGED <<cur, state, pipe, prog, left, jumped>>

\* WAITPID () counts any child, whichever filter it is of, and gives up where
\* there is none.
WAITPID ==
  /\ pc = "wait"
  /\ \/ /\ waiting > 0
        /\ \E p \in Children :
             /\ state[p] = "zombie"
             /\ state' = [state EXCEPT ![p] = "reaped"]
        /\ waiting' = waiting - 1
        /\ UNCHANGED pc
     \/ /\ waiting = 0 \/ \A p \in Children : state[p] \in {"none", "reaped"}
        /\ pc' = "idle" /\ waiting' = 0
        /\ UNCHANGED state
  /\ UNCHANGED <<cur, held, pipe, prog, left, jumped>>

\* SIGINT goes to all processes of the terminal.  ed jumps to main (), and so
\* do the children that still have its handler: the writer always.
interrupt ==
  /\ pc # "idle"
  /\ \E dying \in SUBSET {Shell(i) : i \in Filters} :
       /\ \A p \in dying : state[p] = "running"
       /\ state' = [p \in Children |->
            CASE p \in dying -> "zombie"
              [] p \notin dying /\ Alive(p)
                   /\ (p[1] = "writer" \/ state[p] = "started") -> "rogue"
              [] OTHER -> state[p]]
       /\ held' = Released(held, dying)
  /\ pc' = "idle" /\ waiting' = 0 /\ jumped' = TRUE
  /\ UNCHANGED <<cur, pipe, prog, left>>

----------------------------------------------------------------------------
(* The children *)

ed_vars == <<pc, cur, waiting, jumped>>

exit(p) ==
  /\ state' = [state EXCEPT ![p] = "zombie"]
  /\ held' = Released(held, {p})
  /\ UNCHANGED <<pipe, prog, left, ed_vars>>

exec_shell(i) ==
  /\ state[Shell(i)] = "started"
  /\ state' = [state EXCEPT ![Shell(i)] = "running"]
  /\ held' = Closed(held, Shell(i), i, {"ip1", "op0"})
  /\ UNCHANGED <<pipe, prog, left, ed_vars>>

shell_reads(i) ==
  /\ state[Shell(i)] = "running" /\ prog[i] # <<>> /\ Head(prog[i]) = "r"
  /\ \/ pipe[i].ip > 0 /\ pipe' = [pipe EXCEPT ![i].ip = @ - 1] /\ UNCHANGED prog
     \/ /\ pipe[i].ip = 0 /\ held[i]["ip1"] = {}
        /\ prog' = [prog EXCEPT ![i] = Tail(@)] /\ UNCHANGED pipe
  /\ UNCHANGED <<state, held, left, ed_vars>>

\* Writing to a pipe that nobody can read ends the process.
shell_writes(i) ==
  /\ state[Shell(i)] = "running" /\ prog[i] # <<>> /\ Head(prog[i]) = "w"
  /\ \/ /\ held[i]["op0"] # {} /\ pipe[i].op < Cap
        /\ pipe' = [pipe EXCEPT ![i].op = @ + 1]
        /\ prog' = [prog EXCEPT ![i] = Tail(@)]
        /\ UNCHANGED <<state, held, left, ed_vars>>
     \/ held[i]["op0"] = {} /\ exit(Shell(i))

shell_exits(i) ==
  /\ state[Shell(i)] = "running" /\ prog[i] = <<>>
  /\ exit(Shell(i))

start_writer(i) ==
  /\ state[Writer(i)] = "started"
  /\ state' = [state EXCEPT ![Writer(i)] = "running"]
  /\ held' = Closed(held, Writer(i), i, {"ip0", "op0"})
  /\ UNCHANGED <<pipe, prog, left, ed_vars>>

\* write_stream (): a broken pipe is an error, like any other.
write_stream(i) ==
  /\ state[Writer(i)] = "running"
  /\ \/ /\ left[i] > 0 /\ pipe[i].ip < Cap /\ held[i]["ip0"] # {}
        /\ pipe' = [pipe EXCEPT ![i].ip = @ + 1]
        /\ left' = [left EXCEPT ![i] = @ - 1]
        /\ UNCHANGED <<state, held, prog, ed_vars>>
     \/ (left[i] = 0 \/ held[i]["ip0"] = {}) /\ exit(Writer(i))

----------------------------------------------------------------------------
ShellStep(i) == exec_shell(i) \/ shell_reads(i) \/ shell_writes(i) \/ shell_exits(i)
WriterStep(i) == start_writer(i) \/ write_stream(i)

EdStep ==
  \/ delete_lines \/ fork_writer \/ open_output \/ read_output \/ put_lines \/ WAITPID

Failure ==
  \/ delete_lines_fails \/ fork_writer_fails \/ open_output_fails
  \/ read_output_fails

FilterNext ==
  \/ \E program \in Programs : fork_shell(program)
  \/ EdStep \/ Failure \/ interrupt
  \/ \E i \in Filters : ShellStep(i) \/ WriterStep(i)

\* The processes run.
FilterSpec ==
  /\ FilterInit /\ [][FilterNext]_filter_vars
  /\ WF_filter_vars(EdStep)
  /\ \A i \in Filters : WF_filter_vars(ShellStep(i)) /\ WF_filter_vars(WriterStep(i))

----------------------------------------------------------------------------
(* Properties.                                                             *)

\* After an error ed waits for a shell that waits for it: to read what fills
\* op, or to close ip.
Stuck ==
  pc = "wait" /\ ( \/ Ed \in held[cur]["ip1"]
                   \/ Ed \in held[cur]["op0"] /\ pipe[cur].op = Cap )

\* A filter comes to its end, in whichever order the shell reads and writes and
\* however much: nobody waits for a pipe that somebody else has left open,
\* unless ed gives up before the shell's output is read and goes on to wait for
\* the shell all the same.
FilterEnds == (pc # "idle") ~> (pc = "idle" \/ Stuck)

\* No child is left behind, a zombie or still running, on any path through
\* filter_lines () but an interrupt (whose children the next filter counts as
\* its own).
ChildrenReaped ==
  pc = "idle" /\ ~ jumped => \A p \in Children : state[p] \in {"none", "reaped"}
=============================================================================
