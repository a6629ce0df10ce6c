------------------------------ MODULE Signals ------------------------------
(***************************************************************************)
(* The signal discipline of ed (signal.c).  Critical sections of the       *)
(* editor are bracketed by spl1 () / spl0 (), a nesting counter _mutex.  A *)
(* signal that arrives inside one is only recorded in _sigflags; the spl0  *)
(* () that brings _mutex back to zero runs the recorded handlers.  Outside *)
(* critical sections handlers run at once, on top of whatever the editor   *)
(* was doing: SIGINT abandons the command with siglongjmp, SIGHUP saves    *)
(* the buffer to ed.hup and exits.                                         *)
(*                                                                         *)
(* The control stack of the process is a sequence of frames: frame 1 is    *)
(* main (), every other frame a running handler.  A frame records its own  *)
(* nesting of critical sections, which step of spl0 () it is in, and the   *)
(* signals blocked while it runs.                                          *)
(***************************************************************************)
EXTENDS Naturals, Sequences

CONSTANTS
  SIGS,         \* the signals the environment may send, a subset of AllSignals
  MaxRaise,     \* bound: how many signals are sent in a behaviour
  MaxDepth,     \* bound: nesting depth of critical sections in one frame
  MaxSections,  \* bound: critical sections one command or handler enters
  MaxLeaks      \* bound: how often malloc () fails in append_text_node ()

AllSignals == {"HUP", "INT", "PIPE", "WINCH"}

ASSUME SignalsAssumption ==
  /\ SIGS \subseteq AllSignals
  /\ MaxRaise \in Nat /\ MaxDepth \in Nat /\ MaxSections \in Nat
  /\ MaxLeaks \in Nat

VARIABLES
  sigactive,    \* _sigactive: set once main () may be interrupted
  env,          \* has SETJMP initialised the jump buffer?
  mutex,        \* _mutex: nesting count of critical sections
  sigflags,     \* _sigflags: signals recorded inside a critical section
  stack,        \* control stack: frame 1 is main, the others are handlers
  kpending,     \* signals sent to the process and not delivered yet
  raised,       \* number of signals sent so far
  leaks,        \* critical sections that were left without spl0 ()
  cut,          \* history: has an interrupt jumped over a hangup?
  hupfile,      \* has ed.hup been written?
  exited        \* has the process called _exit ()?

vars == <<sigactive, env, mutex, sigflags, stack, kpending, raised, leaks, cut,
          hupfile, exited>>

----------------------------------------------------------------------------
(***************************************************************************)
(* Frames.                                                                 *)
(*   who      "main" or the signal whose handler this is                   *)
(*   pc       main: "init" one_time_init, "set" jump buffer set,           *)
(*            "cmd" waiting for a command, "run" inside a command;         *)
(*            handler: "start", and for SIGHUP "write" (in write_file)     *)
(*   depth    critical sections this frame has open                        *)
(*   spl      the flag spl0 () tests next, "none" outside spl0 ()          *)
(*   left     critical sections the frame may still enter (MaxSections)    *)
(*   blocked  signals the kernel holds back while the frame runs           *)
(***************************************************************************)
Frame(who, pc, blocked) ==
  [who |-> who, pc |-> pc, depth |-> 0, spl |-> "none",
   left |-> MaxSections, blocked |-> blocked]

FrameType ==
  [who : {"main"} \cup AllSignals,
   pc : {"init", "set", "cmd", "run", "start", "write"},
   depth : Nat, spl : {"none", "HUP", "INT", "WINCH"}, left : Nat,
   blocked : SUBSET AllSignals]

top == Len(stack)
Top == stack[top]
SetTop(f) == [stack EXCEPT ![top] = f]

\* sa_mask of each handler as init_signal_handler () registers it; the kernel
\* adds the signal itself.  (SIGQUIT, ignored, is not modelled.)
sa_mask(s) == {s} \cup (IF s = "INT" THEN {} ELSE {"INT"})

Init ==
  /\ sigactive = FALSE
  /\ env = FALSE
  /\ mutex = 0
  /\ sigflags = {}
  /\ stack = <<Frame("main", "init", {})>>
  /\ kpending = {}
  /\ raised = 0
  /\ leaks = 0
  /\ cut = FALSE
  /\ hupfile = FALSE
  /\ exited = FALSE

\* Code runs only in a live process, and outside the tail of spl0 ().
Running == ~exited
Plain == Running /\ Top.spl = "none"

quit ==
  /\ exited' = TRUE
  /\ UNCHANGED <<sigactive, env, mutex, sigflags, stack, kpending, raised, leaks, cut>>

----------------------------------------------------------------------------
(* The environment sends a signal; the kernel delivers it when allowed.    *)

Raise(s) ==
  /\ Running
  /\ raised < MaxRaise
  /\ s \notin kpending
  /\ kpending' = kpending \cup {s}
  /\ raised' = raised + 1
  /\ UNCHANGED <<sigactive, env, mutex, sigflags, stack, leaks, cut, hupfile,
                 exited>>

\* Faulty variant: the test of _mutex is forgotten.
signal_handler_unguarded(s) ==
  /\ stack' = Append(stack, Frame(s, "start", Top.blocked \cup sa_mask(s)))
  /\ UNCHANGED sigflags

\* signal_handler: record the signal inside a critical section, otherwise
\* call its handler.
signal_handler(s) ==
  IF mutex > 0
    THEN /\ sigflags' = sigflags \cup {s}
         /\ UNCHANGED stack
    ELSE /\ stack' = Append(stack,
                            Frame(s, "start", Top.blocked \cup sa_mask(s)))
         /\ UNCHANGED sigflags

Deliver(s) ==
  /\ Running
  /\ s \in kpending
  /\ s \notin Top.blocked
  /\ kpending' = kpending \ {s}
  /\ signal_handler(s)
  /\ UNCHANGED <<sigactive, env, mutex, raised, leaks, cut, hupfile, exited>>

----------------------------------------------------------------------------
(* Critical sections, entered by main () while it initialises or executes  *)
(* a command, and by handle_hup () through write_file ().                  *)

MayLock == Top.pc \in {"init", "run", "write"}

spl1 ==
  /\ Plain /\ MayLock
  /\ Top.depth < MaxDepth
  /\ Top.left > 0
  /\ mutex' = mutex + 1
  /\ stack' = SetTop([Top EXCEPT !.depth = @ + 1, !.left = @ - 1])
  /\ UNCHANGED <<sigactive, env, sigflags, kpending, raised, leaks, cut, hupfile, exited>>

\* Faulty variant: the test of the SIGHUP flag is missing.
spl0_no_hup ==
  /\ Plain
  /\ Top.depth > 0
  /\ mutex' = mutex - 1
  /\ stack' = SetTop([Top EXCEPT !.depth = @ - 1,
                                 !.spl = IF mutex = 1 THEN "INT" ELSE "none"])
  /\ UNCHANGED <<sigactive, env, sigflags, kpending, raised, leaks, cut, hupfile, exited>>

spl0 ==
  /\ Plain
  /\ Top.depth > 0
  /\ mutex' = mutex - 1
  /\ stack' = SetTop([Top EXCEPT !.depth = @ - 1,
                                 !.spl = IF mutex = 1 THEN "HUP" ELSE "none"])
  /\ UNCHANGED <<sigactive, env, sigflags, kpending, raised, leaks, cut, hupfile, exited>>

\* Faulty variant: the SIGINT flag is never tested.
spl_next_no_int(s) == IF s = "HUP" THEN "WINCH" ELSE "none"

\* The order in which spl0 () tests the flags; SIGPIPE is not among them.
spl_next(s) == IF s = "HUP" THEN "INT" ELSE IF s = "INT" THEN "WINCH" ELSE "none"

\* spl0 () tests one flag and, if it is set, calls the handler directly: the
\* kernel's signal mask is the caller's.
spl0_check ==
  /\ Running
  /\ Top.spl # "none"
  /\ LET s == Top.spl
         caller == SetTop([Top EXCEPT !.spl = spl_next(s)])
     IN stack' = IF s \in sigflags
                   THEN Append(caller, Frame(s, "start", Top.blocked))
                   ELSE caller
  /\ UNCHANGED <<sigactive, env, mutex, sigflags, kpending, raised, leaks, cut, hupfile,
                 exited>>

----------------------------------------------------------------------------
(* The handlers.                                                           *)

Entered(s) == Running /\ Top.who = s /\ Top.pc = "start"

\* A handler entered before activate_signals () quits the process.
handle_early(s) ==
  /\ Entered(s) /\ s # "WINCH"
  /\ ~sigactive
  /\ hupfile' = hupfile
  /\ quit

handle_hup ==
  /\ Entered("HUP") /\ sigactive
  /\ sigflags' = sigflags \ {"HUP"}
  /\ stack' = SetTop([Top EXCEPT !.pc = "write"])
  /\ UNCHANGED <<sigactive, env, mutex, kpending, raised, leaks, cut, hupfile, exited>>

\* Faulty variant: the handler returns to the interrupted command.
handle_hup_resume ==
  /\ Plain /\ Top.pc = "write" /\ Top.depth = 0
  /\ stack' = SubSeq(stack, 1, top - 1)
  /\ hupfile' = TRUE
  /\ UNCHANGED <<sigactive, env, mutex, sigflags, kpending, raised, leaks, cut, exited>>

\* write_file () returned (or there was nothing to write): quit (2, ed).
handle_hup_quit ==
  /\ Plain /\ Top.pc = "write" /\ Top.depth = 0
  /\ hupfile' = TRUE
  /\ quit

\* LONGJMP to the SETJMP in main (): every frame above main is dropped and
\* the signal mask saved there is restored.  main () then unwinds the macro
\* stack and reports the error before it reads the next command.
handle_int ==
  /\ Entered("INT") /\ sigactive
  /\ sigflags' = sigflags \ {"INT"}
  /\ stack' = <<Frame("main", "run", {})>>
  /\ cut' = (cut \/ "HUP" \in sigflags \/ \E i \in 1..top : stack[i].who = "HUP")
  /\ UNCHANGED <<sigactive, env, mutex, kpending, raised, leaks, hupfile, exited>>

\* Handlers that return to the frame they interrupted.
handle_return(s) ==
  /\ Entered(s)
  /\ \/ s = "PIPE" /\ sigactive
     \/ s = "WINCH"
  /\ sigflags' = IF sigactive THEN sigflags \ {s} ELSE sigflags
  /\ stack' = SubSeq(stack, 1, top - 1)
  /\ UNCHANGED <<sigactive, env, mutex, kpending, raised, leaks, cut, hupfile, exited>>

----------------------------------------------------------------------------
(* main ().                                                                *)

MainAt(pc) == Plain /\ top = 1 /\ Top.pc = pc /\ Top.depth = 0
MainGoto(pc) == stack' = <<Frame("main", pc, Top.blocked)>>

main_setjmp ==
  /\ MainAt("init")
  /\ MainGoto("set")
  /\ env' = TRUE
  /\ UNCHANGED <<sigactive, mutex, sigflags, kpending, raised, leaks, cut, hupfile, exited>>

activate_signals ==
  /\ MainAt("set")
  /\ MainGoto("cmd")
  /\ sigactive' = TRUE
  /\ UNCHANGED <<env, mutex, sigflags, kpending, raised, leaks, cut, hupfile, exited>>

main_read_command ==
  /\ MainAt("cmd")
  /\ MainGoto("run")
  /\ UNCHANGED <<sigactive, env, mutex, sigflags, kpending, raised, leaks, cut, hupfile,
                 exited>>

\* Faulty variant: an error return that skips its spl0 ().
main_command_done_leak ==
  /\ Plain /\ top = 1 /\ Top.pc = "run"
  /\ MainGoto("cmd")
  /\ UNCHANGED <<sigactive, env, mutex, sigflags, kpending, raised, leaks, cut, hupfile,
                 exited>>

main_command_done ==
  /\ MainAt("run")
  /\ MainGoto("cmd")
  /\ UNCHANGED <<sigactive, env, mutex, sigflags, kpending, raised, leaks, cut, hupfile,
                 exited>>

\* append_text_node () returns from inside its critical section when malloc ()
\* fails: the command goes on, or ends, with _mutex one too high for good.
append_text_node_fails ==
  /\ Plain /\ top = 1 /\ Top.pc = "run" /\ Top.depth = 1
  /\ leaks < MaxLeaks
  /\ leaks' = leaks + 1
  /\ stack' = SetTop([Top EXCEPT !.depth = 0])
  /\ UNCHANGED <<sigactive, env, mutex, sigflags, kpending, raised, cut, hupfile,
                 exited>>

\* The q command, or end of input.
main_quit ==
  /\ MainAt("run")
  /\ hupfile' = hupfile
  /\ quit

Handler ==
  \/ \E s \in SIGS : handle_early(s) \/ handle_return(s)
  \/ handle_hup \/ handle_hup_quit \/ handle_int

\* What the process does on its own, without a user or a sender of signals.
\* A command in progress finishes; it need not be a quit.
Program ==
  \/ spl1 \/ spl0 \/ spl0_check
  \/ Handler
  \/ main_setjmp \/ activate_signals \/ main_command_done

Next ==
  \/ \E s \in SIGS : Raise(s) \/ Deliver(s)
  \/ Program
  \/ main_read_command \/ main_quit \/ append_text_node_fails

Spec == Init /\ [][Next]_vars

(***************************************************************************)
(* Fairness: a runnable process is scheduled and the kernel delivers a     *)
(* pending unblocked signal.  Nothing is assumed of the user (reading a    *)
(* command) or of whoever sends signals.                                   *)
(***************************************************************************)
Fairness == WF_vars(Program) /\ \A s \in SIGS : WF_vars(Deliver(s))
FairSpec == Spec /\ Fairness

----------------------------------------------------------------------------
(* Properties.                                                             *)

\* The type of the state.
TypeOK ==
  /\ sigactive \in BOOLEAN /\ env \in BOOLEAN /\ cut \in BOOLEAN
  /\ hupfile \in BOOLEAN /\ exited \in BOOLEAN
  /\ mutex \in Nat /\ raised \in Nat /\ leaks \in Nat
  /\ sigflags \subseteq AllSignals /\ kpending \subseteq AllSignals
  /\ stack \in Seq(FrameType) /\ stack # <<>>

\* spl1 () / spl0 () make a critical section atomic with respect to signals:
\* whatever a handler interrupted, it was outside every critical section.  In
\* particular the siglongjmp of handle_int () never abandons a half-made change
\* to the line buffer, the undo queue or the heap.
HandlersOutsideSections == \A i \in 1..(top - 1) : stack[i].depth = 0

\* When the editor waits for a command the only critical sections still open
\* are those that append_text_node () left for want of memory, whichever way
\* and however deeply nested the last command ended; each of them leaves ed
\* deaf to every signal.
NoLockLeak ==
  (Running /\ top = 1 /\ Top.pc = "cmd") => mutex = leaks

\* Once signals are active handle_int () may jump: the jump buffer of main ()
\* has been set by then.
JumpTargetSet ==
  (\E i \in 1..top : stack[i].who = "INT") /\ sigactive => env

\* signal_handler () registers a signal "for handling when signaling resumed":
\* none is still registered when the editor is back at its prompt.  Exempt are
\* SIGPIPE, which spl0 () forgets to test, SIGWINCH, recorded before
\* activate_signals () or jumped over by an interrupt, which costs one more
\* query of the window size, and a hangup that an interrupt jumped over.
NoSignalForgotten ==
  (Running /\ top = 1 /\ Top.pc = "cmd" /\ leaks = 0) =>
    sigflags \subseteq {"WINCH", "PIPE"} \cup (IF cut THEN {"HUP"} ELSE {})

\* An interrupt is not lost: one that was sent is delivered, and one recorded
\* in a critical section is acted upon, unless the process exits first or has
\* become deaf.
InterruptHonoured ==
  ("INT" \in kpending \cup sigflags)
    ~> (exited \/ leaks > 0 \/ "INT" \notin kpending \cup sigflags)

\* A hangup ends the editor: once SIGHUP is sent, or handle_hup () is writing
\* ed.hup, the process exits.  What can prevent it is an interrupt that jumps
\* out of the spl0 () which is about to handle the hangup, or out of handle_hup
\* () itself when spl0 () called it with SIGINT unblocked, and a deaf editor.
HangupCompletes ==
  ("HUP" \in kpending \cup sigflags \/ \E i \in 1..top : stack[i].pc = "write")
    ~> (exited \/ cut \/ leaks > 0)

============================================================================
