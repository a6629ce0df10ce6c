--------------------------- MODULE Signals_proofs ---------------------------
(***************************************************************************)
(* Proofs about Signals, for every set of signals and every bound.         *)
(*                                                                         *)
(* HandlersOutsideSections is not inductive: signal_handler () decides by  *)
(* _mutex, a counter shared by all frames, whether the interrupted frame   *)
(* is inside a section.  The strengthening says what the counter means:    *)
(* it is the nesting depth of the frame that runs, every other frame being *)
(* outside its sections, and the sections that append_text_node () left    *)
(* open, after which no handler runs any more.                             *)
(*                                                                         *)
(* NoSignalForgotten needs a second one, FlagInv: whoever could record a   *)
(* signal is still on the stack and will test its flag, unless the frame   *)
(* that was to do so has been jumped over.                                 *)
(***************************************************************************)
EXTENDS Signals, LineCache, TLAPS

\* The frames: main () at the bottom, _mutex the depth of the running frame,
\* every interrupted frame outside its critical sections.
StackInv ==
  /\ stack \in Seq(FrameType)
  /\ Len(stack) > 0
  /\ stack[1].who = "main"
  /\ leaks \in Nat
  /\ mutex = stack[Len(stack)].depth + leaks
  /\ leaks > 0 => Len(stack) = 1
  /\ \A i \in 1..(Len(stack) - 1) : stack[i].depth = 0
  /\ \A i \in 1..Len(stack) :
       (stack[i].pc \in {"set", "cmd", "start"} \/ stack[i].spl # "none")
         => stack[i].depth = 0
  /\ \A i \in 1..Len(stack) : stack[i].spl # "none" => leaks = 0

\* main () passes SETJMP before it activates signals.
JumpInv ==
  /\ sigactive => env
  /\ \A i \in 1..Len(stack) : stack[i].pc = "set" => env

\* The remaining variables have their types.
RestOK ==
  /\ sigactive \in BOOLEAN /\ env \in BOOLEAN /\ cut \in BOOLEAN
  /\ hupfile \in BOOLEAN /\ exited \in BOOLEAN
  /\ raised \in Nat
  /\ sigflags \subseteq AllSignals /\ kpending \subseteq AllSignals

IInv == StackInv /\ JumpInv /\ RestOK

\* A frame that will see to the registered signal s: it is in a critical
\* section, in spl0 () at or before the test of s, or a handler that does not
\* return.
Watches(f, s) == f.depth > 0 \/ f.who \in {"HUP", s} \/ f.spl \in {"HUP", s}

SeenTo(s) == \E i \in 1..Len(stack) : Watches(stack[i], s)

\* Until malloc () fails inside a section, registered signals are seen to.
FlagInv ==
  /\ \A i \in 1..Len(stack) : stack[i].pc \in {"start", "cmd"} => stack[i].spl = "none"
  /\ leaks = 0 => /\ "INT" \in sigflags => SeenTo("INT")
                  /\ "HUP" \in sigflags => SeenTo("HUP") \/ cut

----------------------------------------------------------------------------
(* Facts about frames and about the ways a step changes the stack.         *)

\* A new frame is well typed and outside critical sections.
LEMMA FrameTyping ==
  ASSUME NEW w \in {"main"} \cup AllSignals,
         NEW p \in {"init", "set", "cmd", "run", "start", "write"},
         NEW b \in SUBSET AllSignals
  PROVE  /\ Frame(w, p, b) \in FrameType
         /\ Frame(w, p, b).depth = 0
         /\ Frame(w, p, b).pc = p
         /\ Frame(w, p, b).who = w
         /\ Frame(w, p, b).spl = "none"
  BY SignalsAssumption DEF Frame, FrameType

\* The running frame is a frame.
LEMMA TopTyping ==
  ASSUME StackInv
  PROVE  /\ Len(stack) \in Nat \ {0}
         /\ Top \in FrameType
         /\ Top = stack[Len(stack)]
         /\ \A i \in 1..Len(stack) : stack[i] \in FrameType
  BY DEF StackInv, Top, top

\* Replacing the running frame by one with the same owner and the depth that
\* _mutex now has keeps the stack well formed.
LEMMA SetTopKeeps ==
  ASSUME StackInv, NEW f \in FrameType, f.who = Top.who,
         (f.pc \in {"set", "cmd", "start"} \/ f.spl # "none") => f.depth = 0,
         f.spl # "none" => leaks = 0,
         stack' = SetTop(f), mutex' = f.depth + leaks, leaks' = leaks
  PROVE  /\ StackInv'
         /\ Len(stack') = Len(stack)
         /\ stack'[Len(stack)] = f
         /\ \A i \in 1..(Len(stack) - 1) : stack'[i] = stack[i]
  <1>1. /\ stack' \in Seq(FrameType)
        /\ Len(stack') = Len(stack)
        /\ stack'[Len(stack)] = f
        /\ \A i \in 1..(Len(stack) - 1) : stack'[i] = stack[i]
    BY DEF StackInv, SetTop, top
  <1>2. stack'[1].who = "main"
    BY <1>1, TopTyping DEF StackInv
  <1> QED
    BY <1>1, <1>2, TopTyping DEF StackInv

\* Pushing a handler's frame when _mutex is zero keeps the stack well formed.
LEMMA PushKeeps ==
  ASSUME StackInv, NEW f \in FrameType, f.depth = 0, mutex = 0,
         stack' = Append(stack, f), mutex' = mutex, leaks' = leaks
  PROVE  /\ StackInv'
         /\ Len(stack') = Len(stack) + 1
         /\ stack'[Len(stack) + 1] = f
         /\ \A i \in 1..Len(stack) : stack'[i] = stack[i]
  <1>1. /\ stack' \in Seq(FrameType)
        /\ Len(stack') = Len(stack) + 1
        /\ stack'[Len(stack) + 1] = f
        /\ \A i \in 1..Len(stack) : stack'[i] = stack[i]
    BY DEF StackInv
  <1>0. leaks = 0 /\ stack[Len(stack)].depth = 0
    BY TopTyping DEF StackInv, FrameType
  <1>2. ASSUME NEW i \in 1..Len(stack) PROVE stack[i].depth = 0
    <2>1. CASE i = Len(stack)
      BY <1>0, <2>1
    <2>2. CASE i # Len(stack)
      <3>1. i \in 1..(Len(stack) - 1)
        BY <2>2, TopTyping
      <3> QED
        BY <3>1 DEF StackInv
    <2> QED
      BY <2>1, <2>2
  <1>3. Len(stack) \in Nat \ {0} /\ stack'[1].who = "main"
    BY <1>1, TopTyping DEF StackInv
  <1>4. \A i \in 1..Len(stack') : stack'[i].depth = 0
    BY <1>1, <1>2, <1>3
  <1> QED
    BY <1>0, <1>1, <1>3, <1>4 DEF StackInv

\* Dropping every frame but a new one of main () keeps it well formed.
LEMMA SingleKeeps ==
  ASSUME StackInv, NEW f \in FrameType, f.who = "main", f.depth = 0,
         f.spl = "none", stack' = <<f>>, mutex' = leaks, leaks' = leaks
  PROVE  StackInv' /\ Len(stack') = 1 /\ stack'[1] = f
  <1>1. stack' \in Seq(FrameType) /\ Len(stack') = 1 /\ stack'[1] = f
    OBVIOUS
  <1> QED
    BY <1>1 DEF StackInv

\* Returning from a handler keeps the stack well formed.
LEMMA PopKeeps ==
  ASSUME StackInv, Len(stack) > 1, Top.depth = 0,
         stack' = SubSeq(stack, 1, Len(stack) - 1), mutex' = mutex,
         leaks' = leaks
  PROVE  /\ StackInv'
         /\ Len(stack') = Len(stack) - 1
         /\ \A i \in 1..(Len(stack) - 1) : stack'[i] = stack[i]
  <1>1. /\ stack' \in Seq(FrameType)
        /\ Len(stack') = Len(stack) - 1
        /\ \A i \in 1..(Len(stack) - 1) : stack'[i] = stack[i]
    BY DEF StackInv
  <1>2. leaks = 0 /\ mutex = 0 /\ Len(stack') \in 1..(Len(stack) - 1)
    BY <1>1, TopTyping DEF StackInv
  <1>3. \A i \in 1..Len(stack') : stack'[i].depth = 0
    BY <1>1, TopTyping DEF StackInv
  <1>4. stack'[1].who = "main"
    BY <1>1, <1>2 DEF StackInv
  <1> QED
    BY <1>1, <1>2, <1>3, <1>4 DEF StackInv

\* A step that leaves stack and _mutex alone leaves StackInv alone.
LEMMA StutterKeeps ==
  ASSUME StackInv, UNCHANGED <<stack, mutex, leaks>> PROVE StackInv'
  BY DEF StackInv

----------------------------------------------------------------------------
\* The initial state satisfies the invariant.
LEMMA InitIInv == Init => IInv
  <1> SUFFICES ASSUME Init PROVE IInv
    OBVIOUS
  <1> DEFINE f == Frame("main", "init", {})
  <1>1. /\ f \in FrameType /\ f.depth = 0 /\ f.pc = "init" /\ f.who = "main"
        /\ f.spl = "none"
    BY FrameTyping
  <1>2. stack = <<f>>
    BY DEF Init
  <1> HIDE DEF f
  <1>3. stack \in Seq(FrameType) /\ Len(stack) = 1 /\ stack[1] = f
    BY <1>1, <1>2
  <1>4. StackInv
    BY <1>1, <1>3 DEF Init, StackInv
  <1>5. JumpInv
    BY <1>1, <1>3 DEF Init, JumpInv
  <1>6. RestOK
    BY DEF Init, RestOK
  <1> QED
    BY <1>4, <1>5, <1>6 DEF IInv

----------------------------------------------------------------------------
(* Each action preserves the invariant.                                    *)

\* Delivery of a signal: recorded inside a section, a new frame outside.
LEMMA DeliverKeeps ==
  ASSUME IInv, NEW s \in SIGS, Deliver(s) PROVE IInv'
  <1> USE DEF IInv
  <1> DEFINE f == Frame(s, "start", Top.blocked \cup sa_mask(s))
  <1>1. s \in AllSignals
    BY SignalsAssumption
  <1>2. Top \in FrameType /\ Top.blocked \cup sa_mask(s) \in SUBSET AllSignals
    BY <1>1, TopTyping DEF FrameType, sa_mask, AllSignals
  <1>3. f \in FrameType /\ f.depth = 0 /\ f.pc = "start"
    <2>1. /\ s \in {"main"} \cup AllSignals
          /\ "start" \in {"init", "set", "cmd", "run", "start", "write"}
      BY <1>1
    <2>2. PICK b \in SUBSET AllSignals : b = Top.blocked \cup sa_mask(s)
      BY <1>2
    <2>3. f = Frame(s, "start", b)
      BY <2>2
    <2> HIDE DEF f
    <2> QED
      BY <2>1, <2>3, FrameTyping
  <1>4. RestOK'
    BY <1>1 DEF Deliver, signal_handler, RestOK
  <1>5. CASE mutex > 0
    BY <1>4, <1>5, StutterKeeps DEF Deliver, signal_handler, JumpInv
  <1>6. CASE ~(mutex > 0)
    <2>1. mutex = 0
      BY <1>6, TopTyping DEF StackInv, FrameType
    <2>2. /\ stack' = Append(stack, f) /\ mutex' = mutex /\ leaks' = leaks
          /\ UNCHANGED <<env, sigactive>>
      BY <1>6 DEF Deliver, signal_handler
    <2> HIDE DEF f
    <2>3. /\ StackInv'
          /\ Len(stack') = Len(stack) + 1
          /\ stack'[Len(stack) + 1] = f
          /\ \A i \in 1..Len(stack) : stack'[i] = stack[i]
      BY <1>3, <2>1, <2>2, PushKeeps
    <2>4. JumpInv'
      BY <1>3, <2>2, <2>3, TopTyping DEF JumpInv
    <2> QED
      BY <1>4, <2>3, <2>4
  <1> QED
    BY <1>5, <1>6

\* spl1 () and spl0 () move _mutex and the depth of the running frame together.
LEMMA SplKeeps ==
  ASSUME IInv, spl1 \/ spl0 PROVE IInv'
  <1> USE DEF IInv
  <1>1. RestOK' /\ UNCHANGED <<env, sigactive, leaks>>
    BY DEF spl1, spl0, RestOK
  <1>2. /\ Top \in FrameType /\ Top.depth \in Nat
        /\ leaks \in Nat /\ mutex = Top.depth + leaks
    BY TopTyping DEF StackInv, FrameType
  <1>3. CASE spl1
    <2> DEFINE f == [Top EXCEPT !.depth = @ + 1, !.left = @ - 1]
    <2>1. /\ f \in FrameType /\ f.who = Top.who /\ f.pc = Top.pc
          /\ f.depth + leaks = mutex + 1 /\ f.spl = "none"
          /\ f.pc \notin {"set", "cmd", "start"}
      <3>1. /\ Top.left \in Nat /\ Top.left > 0 /\ Top.depth \in Nat
            /\ Top.pc \in {"init", "run", "write"} /\ Top.spl = "none"
        BY <1>2, <1>3 DEF spl1, FrameType, MayLock, Plain
      <3>2. Top.left - 1 \in Nat /\ Top.depth + 1 \in Nat
        BY <3>1
      <3>3. /\ f \in FrameType /\ f.who = Top.who /\ f.pc = Top.pc
            /\ f.depth = Top.depth + 1 /\ f.spl = Top.spl
        BY <1>2, <3>1, <3>2 DEF FrameType
      <3> HIDE DEF f
      <3> QED
        BY <1>2, <3>1, <3>3
    <2>2. stack' = SetTop(f) /\ mutex' = f.depth + leaks
      BY <1>3, <2>1 DEF spl1
    <2> HIDE DEF f
    <2>3. /\ StackInv' /\ Len(stack') = Len(stack) /\ stack'[Len(stack)] = f
          /\ \A i \in 1..(Len(stack) - 1) : stack'[i] = stack[i]
      BY <1>1, <2>1, <2>2, SetTopKeeps
    <2>4. JumpInv'
      BY <1>1, <2>1, <2>3, TopTyping DEF JumpInv
    <2> QED
      BY <1>1, <2>3, <2>4
  <1>4. CASE spl0
    <2> DEFINE f == [Top EXCEPT !.depth = @ - 1,
                                !.spl = IF mutex = 1 THEN "HUP" ELSE "none"]
    <2>1. /\ f \in FrameType /\ f.who = Top.who /\ f.pc = Top.pc
          /\ f.depth + leaks = mutex - 1 /\ Top.depth > 0
          /\ f.spl # "none" => f.depth = 0 /\ leaks = 0
      <3>1. Top.depth \in Nat /\ Top.depth > 0
        BY <1>2, <1>4 DEF spl0, FrameType
      <3>2. Top.depth - 1 \in Nat
        BY <3>1
      <3>3. (IF mutex = 1 THEN "HUP" ELSE "none") \in {"none", "HUP", "INT", "WINCH"}
        OBVIOUS
      <3>4. /\ f \in FrameType /\ f.who = Top.who /\ f.pc = Top.pc
            /\ f.depth = Top.depth - 1
            /\ f.spl = IF mutex = 1 THEN "HUP" ELSE "none"
        BY <1>2, <3>1, <3>2, <3>3 DEF FrameType
      <3> HIDE DEF f
      <3> QED
        BY <1>2, <3>1, <3>4
    <2>2. stack' = SetTop(f) /\ mutex' = f.depth + leaks
      BY <1>4, <2>1 DEF spl0
    <2>3. Top.pc \notin {"set", "cmd", "start"}
      BY <2>1, TopTyping DEF StackInv
    <2> HIDE DEF f
    <2>4. /\ StackInv' /\ Len(stack') = Len(stack) /\ stack'[Len(stack)] = f
          /\ \A i \in 1..(Len(stack) - 1) : stack'[i] = stack[i]
      BY <1>1, <2>1, <2>2, <2>3, SetTopKeeps
    <2>5. JumpInv'
      BY <1>1, <2>1, <2>4, TopTyping DEF JumpInv
    <2> QED
      BY <1>1, <2>4, <2>5
  <1> QED
    BY <1>3, <1>4

\* spl0 () testing a flag, and calling the handler if it is set.
LEMMA CheckKeeps ==
  ASSUME IInv, spl0_check PROVE IInv'
  <1> USE DEF IInv
  <1> DEFINE g == [Top EXCEPT !.spl = spl_next(Top.spl)]
             f == Frame(Top.spl, "start", Top.blocked)
             caller == SetTop(g)
  <1>1. RestOK' /\ UNCHANGED <<env, sigactive, mutex, leaks>>
    BY DEF spl0_check, RestOK
  <1>2. /\ Top \in FrameType /\ Top = stack[Len(stack)] /\ Len(stack) \in Nat \ {0}
        /\ \A i \in 1..Len(stack) : stack[i] \in FrameType
    BY TopTyping
  <1>3. mutex = 0 /\ leaks = 0 /\ Top.depth = 0 /\ Top.spl # "none"
    BY <1>2 DEF spl0_check, StackInv
  <1>4. /\ Top.spl \in {"main"} \cup AllSignals
        /\ "start" \in {"init", "set", "cmd", "run", "start", "write"}
        /\ Top.blocked \in SUBSET AllSignals
    BY <1>2, <1>3 DEF FrameType, AllSignals
  <1>5. f \in FrameType /\ f.depth = 0 /\ f.pc = "start"
    <2>1. PICK s \in {"main"} \cup AllSignals : s = Top.spl
      BY <1>4
    <2>2. PICK b \in SUBSET AllSignals : b = Top.blocked
      BY <1>4
    <2>3. f = Frame(s, "start", b)
      BY <2>1, <2>2
    <2> HIDE DEF f
    <2> QED
      BY <1>4, <2>3, FrameTyping
  <1>6. g \in FrameType /\ g.depth = 0 /\ g.pc = Top.pc /\ g.who = Top.who
    <2>1. spl_next(Top.spl) \in {"none", "HUP", "INT", "WINCH"}
      BY DEF spl_next
    <2> QED
      BY <1>2, <1>3, <2>1 DEF FrameType
  <1>7. stack' = IF Top.spl \in sigflags THEN Append(caller, f) ELSE caller
    BY DEF spl0_check
  <1> HIDE DEF g, f
  <1>8. /\ caller \in Seq(FrameType)
        /\ Len(caller) = Len(stack)
        /\ caller[Len(stack)] = g
        /\ \A i \in 1..(Len(stack) - 1) : caller[i] = stack[i]
    BY <1>2, <1>6 DEF StackInv, SetTop, top
  <1>9. ASSUME NEW i \in 1..Len(stack)
        PROVE  caller[i].depth = 0 /\ caller[i].pc = stack[i].pc
    <2>1. CASE i = Len(stack)
      BY <1>2, <1>6, <1>8, <2>1
    <2>2. CASE i \in 1..(Len(stack) - 1)
      BY <1>8, <2>2 DEF StackInv
    <2> QED
      BY <1>2, <2>1, <2>2
  <1>10. caller[1].who = "main"
    BY <1>2, <1>6, <1>8 DEF StackInv
  <1> HIDE DEF caller
  <1>11. CASE Top.spl \in sigflags
    <2>1. /\ stack' \in Seq(FrameType)
          /\ Len(stack') = Len(stack) + 1
          /\ stack'[Len(stack) + 1] = f
          /\ \A i \in 1..Len(stack) : stack'[i] = caller[i]
      BY <1>2, <1>5, <1>7, <1>8, <1>11
    <2>2. \A i \in 1..Len(stack') : stack'[i].depth = 0
      BY <1>2, <1>5, <1>9, <2>1
    <2>3. StackInv'
      BY <1>1, <1>2, <1>3, <1>10, <2>1, <2>2 DEF StackInv
    <2>4. JumpInv'
      BY <1>1, <1>2, <1>5, <1>9, <2>1 DEF JumpInv
    <2> QED
      BY <1>1, <2>3, <2>4
  <1>12. CASE Top.spl \notin sigflags
    <2>1. stack' = caller
      BY <1>7, <1>12
    <2>2. StackInv'
      BY <1>1, <1>2, <1>3, <1>8, <1>9, <1>10, <2>1 DEF StackInv
    <2>3. JumpInv'
      BY <1>1, <1>2, <1>8, <1>9, <2>1 DEF JumpInv
    <2> QED
      BY <1>1, <2>2, <2>3
  <1> QED
    BY <1>11, <1>12

\* The handlers: quitting, writing ed.hup, jumping, returning.
LEMMA HandlerKeeps ==
  ASSUME IInv, Handler PROVE IInv'
  <1> USE DEF IInv
  <1>1. /\ Top \in FrameType /\ Top = stack[Len(stack)] /\ Len(stack) \in Nat \ {0}
        /\ \A i \in 1..Len(stack) : stack[i] \in FrameType
    BY TopTyping
  <1>2. CASE (\E s \in SIGS : handle_early(s)) \/ handle_hup_quit
    <2>1. UNCHANGED <<stack, mutex, env, sigactive, sigflags, kpending, raised,
                      leaks, cut>>
      BY <1>2 DEF handle_early, handle_hup_quit, quit
    <2>2. hupfile' \in BOOLEAN /\ exited' \in BOOLEAN
      BY <1>2 DEF handle_early, handle_hup_quit, quit, RestOK
    <2> QED
      BY <2>1, <2>2, StutterKeeps DEF JumpInv, RestOK
  <1>3. CASE handle_hup
    <2> DEFINE f == [Top EXCEPT !.pc = "write"]
    <2>1. /\ Top.pc = "start" /\ stack' = SetTop(f)
          /\ UNCHANGED <<mutex, leaks, env, sigactive>>
      BY <1>3 DEF handle_hup, Entered
    <2>2. /\ Top.depth = 0 /\ mutex = leaks /\ leaks \in Nat
          /\ Top.spl # "none" => leaks = 0
      BY <1>1, <2>1 DEF StackInv
    <2>3. /\ f \in FrameType /\ f.who = Top.who /\ f.depth = 0 /\ f.pc = "write"
          /\ f.spl = Top.spl
      BY <1>1, <2>2 DEF FrameType
    <2> HIDE DEF f
    <2>4. /\ StackInv' /\ Len(stack') = Len(stack) /\ stack'[Len(stack)] = f
          /\ \A i \in 1..(Len(stack) - 1) : stack'[i] = stack[i]
      BY <2>1, <2>2, <2>3, SetTopKeeps
    <2>5. JumpInv'
      BY <1>1, <2>1, <2>3, <2>4 DEF JumpInv
    <2>6. RestOK'
      BY <1>3 DEF handle_hup, RestOK
    <2> QED
      BY <2>4, <2>5, <2>6
  <1>4. CASE handle_int
    <2> DEFINE f == Frame("main", "run", {})
    <2>1. /\ f \in FrameType /\ f.depth = 0 /\ f.pc = "run" /\ f.who = "main"
          /\ f.spl = "none"
      BY FrameTyping
    <2>2. /\ Top.pc = "start" /\ stack' = <<f>>
          /\ UNCHANGED <<mutex, leaks, env, sigactive>>
      BY <1>4 DEF handle_int, Entered
    <2>3. mutex = leaks
      BY <1>1, <2>2 DEF StackInv
    <2> HIDE DEF f
    <2>4. StackInv' /\ Len(stack') = 1 /\ stack'[1] = f
      BY <2>1, <2>2, <2>3, SingleKeeps
    <2>5. JumpInv'
      BY <2>1, <2>2, <2>4 DEF JumpInv
    <2>6. RestOK'
      BY <1>4 DEF handle_int, RestOK
    <2> QED
      BY <2>4, <2>5, <2>6
  <1>5. CASE \E s \in SIGS : handle_return(s)
    <2>1. PICK s \in SIGS : handle_return(s)
      BY <1>5
    <2>2. /\ Top.pc = "start" /\ Top.who = s
          /\ stack' = SubSeq(stack, 1, Len(stack) - 1)
          /\ UNCHANGED <<mutex, env, sigactive, kpending, raised, leaks, cut,
                         hupfile, exited>>
      BY <2>1 DEF handle_return, Entered, top
    <2>3. Top.depth = 0 /\ s # "main"
      BY <1>1, <2>2, SignalsAssumption DEF StackInv, AllSignals
    <2>4. Len(stack) > 1
      BY <1>1, <2>2, <2>3 DEF StackInv
    <2>5. /\ StackInv' /\ Len(stack') = Len(stack) - 1
          /\ \A i \in 1..(Len(stack) - 1) : stack'[i] = stack[i]
      BY <2>2, <2>3, <2>4, PopKeeps
    <2>6. JumpInv'
      BY <1>1, <2>2, <2>5 DEF JumpInv
    <2>7. sigflags' \subseteq AllSignals
      BY <2>1 DEF handle_return, RestOK
    <2> QED
      BY <2>2, <2>5, <2>6, <2>7 DEF RestOK
  <1> QED
    BY <1>2, <1>3, <1>4, <1>5 DEF Handler

\* main () moves between its phases outside every critical section.
LEMMA MainKeeps ==
  ASSUME IInv, main_setjmp \/ activate_signals \/ main_read_command
                 \/ main_command_done
  PROVE  IInv'
  <1> USE DEF IInv
  <1>1. /\ Top \in FrameType /\ Top = stack[Len(stack)] /\ Len(stack) = 1
        /\ Top.depth = 0 /\ mutex = leaks /\ mutex' = leaks /\ leaks' = leaks
    BY TopTyping DEF main_setjmp, activate_signals, main_read_command,
                     main_command_done, MainAt, StackInv, top
  <1>2. PICK p \in {"set", "cmd", "run"} :
          /\ MainGoto(p)
          /\ p = "set" => env'
    BY DEF main_setjmp, activate_signals, main_read_command, main_command_done
  <1> DEFINE f == Frame("main", p, Top.blocked)
  <1>3. /\ "main" \in {"main"} \cup AllSignals
        /\ p \in {"init", "set", "cmd", "run", "start", "write"}
        /\ Top.blocked \in SUBSET AllSignals
    BY <1>1 DEF FrameType
  <1>4. /\ f \in FrameType /\ f.depth = 0 /\ f.pc = p /\ f.who = "main"
        /\ f.spl = "none"
    BY <1>3, FrameTyping
  <1>5. stack' = <<f>>
    BY <1>2 DEF MainGoto
  <1> HIDE DEF f
  <1>6. StackInv' /\ Len(stack') = 1 /\ stack'[1] = f
    BY <1>1, <1>4, <1>5, SingleKeeps
  <1>7. sigactive' => env'
    <2>1. CASE activate_signals
      <3>1. stack[1].pc = "set" /\ env' = env /\ 1 \in 1..Len(stack)
        BY <1>1, <2>1 DEF activate_signals, MainAt
      <3> QED
        BY <3>1 DEF JumpInv
    <2>2. CASE main_setjmp
      BY <2>2 DEF main_setjmp
    <2>3. CASE main_read_command \/ main_command_done
      BY <2>3 DEF main_read_command, main_command_done, JumpInv
    <2> QED
      BY <2>1, <2>2, <2>3
  <1>8. JumpInv'
    BY <1>2, <1>4, <1>6, <1>7 DEF JumpInv
  <1>9. RestOK'
    BY DEF RestOK, main_setjmp, activate_signals, main_read_command,
           main_command_done
  <1> QED
    BY <1>6, <1>8, <1>9

\* A section left open by append_text_node (): the depth of main () goes down,
\* _mutex does not.
LEMMA LeakKeeps ==
  ASSUME IInv, append_text_node_fails PROVE IInv'
  <1> USE DEF IInv
  <1> DEFINE f == [Top EXCEPT !.depth = 0]
  <1>1. /\ Top \in FrameType /\ Top = stack[Len(stack)] /\ Len(stack) = 1
        /\ Top.depth = 1 /\ Top.pc = "run" /\ Top.spl = "none"
        /\ leaks \in Nat /\ mutex = 1 + leaks
    BY TopTyping DEF append_text_node_fails, Plain, StackInv, top
  <1>2. f \in FrameType /\ f.depth = 0 /\ f.pc = "run" /\ f.spl = "none"
        /\ f.who = Top.who
    BY <1>1 DEF FrameType
  <1>3. /\ stack' = SetTop(f) /\ mutex' = mutex /\ leaks' = leaks + 1
        /\ UNCHANGED <<env, sigactive>>
    BY DEF append_text_node_fails
  <1> HIDE DEF f
  <1>4. stack' \in Seq(FrameType) /\ Len(stack') = 1 /\ stack'[1] = f
    BY <1>1, <1>2, <1>3 DEF StackInv, SetTop, top
  <1>5. StackInv'
    BY <1>1, <1>2, <1>3, <1>4 DEF StackInv
  <1>6. JumpInv'
    BY <1>2, <1>3, <1>4 DEF JumpInv
  <1>7. RestOK'
    BY DEF append_text_node_fails, RestOK
  <1> QED
    BY <1>5, <1>6, <1>7

\* Every step preserves the invariant.
LEMMA NextIInv == IInv /\ [Next]_vars => IInv'
  <1> SUFFICES ASSUME IInv, [Next]_vars PROVE IInv'
    OBVIOUS
  <1>1. ASSUME NEW s \in SIGS, Raise(s) PROVE IInv'
    BY <1>1, StutterKeeps, SignalsAssumption
       DEF Raise, IInv, JumpInv, RestOK
  <1>2. CASE main_quit \/ UNCHANGED vars
    <2>1. UNCHANGED <<stack, mutex, env, sigactive, sigflags, kpending, raised,
                      leaks, cut, hupfile>>
      BY <1>2 DEF main_quit, quit, vars
    <2>2. exited' \in BOOLEAN
      BY <1>2 DEF main_quit, quit, vars, IInv, RestOK
    <2> QED
      BY <2>1, <2>2, StutterKeeps DEF IInv, JumpInv, RestOK
  <1> QED
    BY <1>1, <1>2, DeliverKeeps, SplKeeps, CheckKeeps, HandlerKeeps, MainKeeps,
       LeakKeeps DEF Next, Program

\* The invariant holds in every reachable state.
LEMMA Invariant == Spec => []IInv
  BY InitIInv, NextIInv, PTL DEF Spec

----------------------------------------------------------------------------
(* Registered signals. *)

\* The running frame is replaced.
LEMMA TopReplaced ==
  ASSUME StackInv, FlagInv, NEW f \in FrameType, stack' = SetTop(f),
         f.pc \in {"start", "cmd"} => f.spl = "none"
  PROVE  /\ \A i \in 1..Len(stack') : stack'[i].pc \in {"start", "cmd"} => stack'[i].spl = "none"
         /\ \A s : SeenTo(s) /\ (Watches(Top, s) => Watches(f, s)) => SeenTo(s)'
         /\ \A s : Watches(f, s) => SeenTo(s)'
  <1>1. /\ Len(stack') = Len(stack) /\ Len(stack) \in Nat \ {0}
        /\ stack'[Len(stack)] = f /\ Top = stack[Len(stack)]
        /\ \A i \in 1..Len(stack) : i # Len(stack) => stack'[i] = stack[i]
    BY DEF StackInv, SetTop, Top, top
  <1>2. \A i \in 1..Len(stack') : stack'[i].pc \in {"start", "cmd"} => stack'[i].spl = "none"
    BY <1>1 DEF FlagInv
  <1>3. \A s : Watches(f, s) => SeenTo(s)'
    BY <1>1 DEF SeenTo
  <1>4. ASSUME NEW s, SeenTo(s), Watches(Top, s) => Watches(f, s) PROVE SeenTo(s)'
    BY <1>1, <1>4 DEF SeenTo
  <1> QED
    BY <1>2, <1>3, <1>4

\* A frame is added on top of one that is replaced, or not.
LEMMA FramePushed ==
  ASSUME NEW below \in Seq(FrameType), NEW f \in FrameType, f.spl = "none",
         stack' = Append(below, f)
  PROVE  /\ \A i \in 1..Len(stack') : stack'[i].pc \in {"start", "cmd"} =>
              \/ stack'[i].spl = "none"
              \/ i \in 1..Len(below) /\ stack'[i] = below[i]
         /\ \A s : \A i \in 1..Len(below) : Watches(below[i], s) => SeenTo(s)'
         /\ \A s : Watches(f, s) => SeenTo(s)'
  <1>1. /\ Len(stack') = Len(below) + 1 /\ Len(below) \in Nat
        /\ stack'[Len(below) + 1] = f
        /\ \A i \in 1..Len(below) : i \in 1..Len(stack') /\ stack'[i] = below[i]
        /\ Len(below) + 1 \in 1..Len(stack')
    OBVIOUS
  <1> QED
    BY <1>1 DEF SeenTo

\* A handler that begins, and main () at its prompt, are outside of spl0 ().
LEMMA EnteredTop ==
  ASSUME StackInv, FlagInv, Top.pc \in {"start", "cmd"}
  PROVE  Top.spl = "none" /\ Top.depth = 0
  BY TopTyping DEF StackInv, FlagInv

LEMMA DeliverFlags ==
  ASSUME IInv, FlagInv, NEW s \in SIGS, Deliver(s)
  PROVE  FlagInv'
  <1>1. /\ UNCHANGED <<leaks, cut, mutex>>
        /\ Top \in FrameType /\ Top = stack[Len(stack)] /\ Len(stack) \in Nat \ {0}
    BY TopTyping DEF Deliver, IInv
  <1>2. CASE mutex > 0
    <2>1. stack' = stack
      BY <1>2 DEF Deliver, signal_handler
    <2>2. leaks = 0 => \A t : Watches(Top, t)
      <3>1. Top.depth \in Nat /\ mutex = Top.depth + leaks
        BY <1>1 DEF IInv, StackInv, FrameType
      <3> QED
        BY <1>2, <3>1 DEF Watches
    <2>3. leaks = 0 => \A t : SeenTo(t)'
      BY <1>1, <2>1, <2>2 DEF SeenTo
    <2> QED
      BY <1>1, <2>1, <2>3 DEF FlagInv
  <1>3. CASE ~ (mutex > 0)
    <2> DEFINE f == Frame(s, "start", Top.blocked \cup sa_mask(s))
    <2>1. stack' = Append(stack, f) /\ sigflags' = sigflags
      BY <1>3 DEF Deliver, signal_handler
    <2>2. f.spl = "none" /\ f \in FrameType /\ stack \in Seq(FrameType)
      <3>1. s \in AllSignals
        BY SignalsAssumption
      <3>2. PICK b \in SUBSET AllSignals : b = Top.blocked \cup sa_mask(s)
        BY <1>1, <3>1 DEF FrameType, sa_mask, AllSignals
      <3>3. f = Frame(s, "start", b)
        BY <3>2
      <3> HIDE DEF f
      <3>4. f.spl = "none" /\ f \in FrameType
        <4>1. /\ s \in {"main"} \cup AllSignals
              /\ "start" \in {"init", "set", "cmd", "run", "start", "write"}
          BY <3>1
        <4> QED
          BY <3>3, <4>1, FrameTyping
      <3> QED
        BY <3>4 DEF IInv, StackInv
    <2> HIDE DEF f
    <2>3. \A i \in 1..Len(stack') : stack'[i].pc \in {"start", "cmd"} => stack'[i].spl = "none"
      BY <2>1, <2>2, FramePushed DEF FlagInv
    <2>4. \A t : SeenTo(t) => SeenTo(t)'
      BY <2>1, <2>2, FramePushed DEF SeenTo
    <2> QED
      BY <1>1, <2>1, <2>3, <2>4 DEF FlagInv
  <1> QED
    BY <1>2, <1>3

LEMMA SplFlags ==
  ASSUME IInv, FlagInv, spl1 \/ spl0
  PROVE  FlagInv'
  <1>1. /\ UNCHANGED <<leaks, cut, sigflags>> /\ leaks \in Nat
        /\ Top \in FrameType /\ Top.depth \in Nat /\ mutex = Top.depth + leaks
        /\ Top.spl = "none" /\ Top.left \in Nat
    BY TopTyping DEF spl1, spl0, Plain, IInv, StackInv, FrameType
  <1>2. CASE spl1
    <2> DEFINE f == [Top EXCEPT !.depth = @ + 1, !.left = @ - 1]
    <2>1. stack' = SetTop(f) /\ Top.left - 1 \in Nat /\ Top.depth + 1 \in Nat
      BY <1>1, <1>2 DEF spl1
    <2>2. f \in FrameType /\ f.depth = Top.depth + 1 /\ f.spl = "none"
      BY <1>1, <2>1 DEF FrameType
    <2> HIDE DEF f
    <2>3. \A s : Watches(f, s)
      BY <1>1, <2>2 DEF Watches
    <2> QED
      BY <1>1, <2>1, <2>2, <2>3, TopReplaced DEF FlagInv, IInv
  <1>3. CASE spl0
    <2> DEFINE nx == IF mutex = 1 THEN "HUP" ELSE "none"
               f == [Top EXCEPT !.depth = @ - 1, !.spl = nx]
    <2>1. /\ stack' = SetTop(f) /\ Top.depth - 1 \in Nat
          /\ nx \in {"none", "HUP", "INT", "WINCH"}
      BY <1>1, <1>3 DEF spl0
    <2>2. leaks = 0 => Top.depth - 1 > 0 \/ nx = "HUP"
      BY <1>1, <2>1
    <2> HIDE DEF nx
    <2>3. f \in FrameType /\ f.depth = Top.depth - 1 /\ f.spl = nx /\ f.pc = Top.pc
      BY <1>1, <2>1 DEF FrameType
    <2> HIDE DEF f
    <2>4. Top.pc \notin {"start", "cmd"}
      BY <1>1, <2>1, EnteredTop DEF IInv
    <2>5. leaks = 0 => \A s : Watches(f, s)
      BY <2>2, <2>3 DEF Watches
    <2> QED
      BY <1>1, <2>1, <2>3, <2>4, <2>5, TopReplaced DEF FlagInv, IInv
  <1> QED
    BY <1>2, <1>3

\* spl0 () goes on to the next flag only when the one it tests is clear, or
\* when its handler runs.
LEMMA CheckFlags ==
  ASSUME IInv, FlagInv, spl0_check
  PROVE  FlagInv'
  <1> DEFINE nx == spl_next(Top.spl)
             g == [Top EXCEPT !.spl = nx]
             f == Frame(Top.spl, "start", Top.blocked)
             caller == SetTop(g)
  <1>1. /\ UNCHANGED <<leaks, cut, sigflags>> /\ Top.spl # "none"
        /\ Top \in FrameType /\ Len(stack) \in Nat \ {0} /\ Top = stack[Len(stack)]
        /\ Top.spl \in {"HUP", "INT", "WINCH"} /\ Top.blocked \in SUBSET AllSignals
        /\ stack \in Seq(FrameType) /\ Top.pc \notin {"start", "cmd"}
    BY TopTyping, EnteredTop DEF spl0_check, IInv, StackInv, FrameType
  <1>2. stack' = IF Top.spl \in sigflags THEN Append(caller, f) ELSE caller
    BY DEF spl0_check
  <1>3. /\ nx \in {"none", "HUP", "INT", "WINCH"}
        /\ Top.spl = "HUP" => nx = "INT"
    BY DEF spl_next
  <1>4. f \in FrameType /\ f.spl = "none" /\ f.who = Top.spl
    <2>1. PICK s \in AllSignals : s = Top.spl
      BY <1>1 DEF AllSignals
    <2>2. f = Frame(s, "start", Top.blocked)
      BY <2>1
    <2> HIDE DEF f
    <2> QED
      BY <1>1, <2>1, <2>2, FrameTyping
  <1> HIDE DEF nx, f
  <1>5. /\ g \in FrameType /\ g.spl = nx /\ g.pc = Top.pc /\ g.depth = Top.depth
        /\ g.who = Top.who
    BY <1>1, <1>3 DEF FrameType
  <1> HIDE DEF g
  <1>6. /\ caller \in Seq(FrameType) /\ Len(caller) = Len(stack)
        /\ caller[Len(stack)] = g
        /\ \A i \in 1..Len(stack) : i # Len(stack) => caller[i] = stack[i]
    BY <1>1, <1>5 DEF SetTop, top
  <1> HIDE DEF caller
  <1>7. \A i \in 1..Len(caller) : caller[i].pc \in {"start", "cmd"} => caller[i].spl = "none"
    BY <1>1, <1>5, <1>6 DEF FlagInv
  <1>8. ASSUME NEW s \in {"HUP", "INT"}, SeenTo(s), Top.spl # s
        PROVE  \E i \in 1..Len(caller) : Watches(caller[i], s)
    <2>1. Watches(Top, s) => Watches(g, s)
      BY <1>3, <1>5, <1>8 DEF Watches
    <2> QED
      BY <1>1, <1>6, <1>8, <2>1 DEF SeenTo
  <1>9. CASE Top.spl \in sigflags
    <2>1. stack' = Append(caller, f)
      BY <1>2, <1>9
    <2>2. \A i \in 1..Len(stack') : stack'[i].pc \in {"start", "cmd"} => stack'[i].spl = "none"
      BY <1>4, <1>6, <1>7, <2>1, FramePushed
    <2>3. ASSUME NEW s \in {"HUP", "INT"}, SeenTo(s) PROVE SeenTo(s)'
      <3>1. CASE Top.spl = s
        BY <1>4, <1>6, <2>1, <3>1, FramePushed DEF Watches
      <3>2. CASE Top.spl # s
        BY <1>4, <1>6, <1>8, <2>1, <2>3, <3>2, FramePushed
      <3> QED
        BY <3>1, <3>2
    <2> QED
      BY <1>1, <2>2, <2>3 DEF FlagInv
  <1>10. CASE Top.spl \notin sigflags
    <2>1. stack' = caller
      BY <1>2, <1>10
    <2>2. ASSUME NEW s \in {"HUP", "INT"}, s \in sigflags, SeenTo(s) PROVE SeenTo(s)'
      BY <1>8, <1>10, <2>1, <2>2 DEF SeenTo
    <2> QED
      BY <1>1, <1>7, <2>1, <2>2 DEF FlagInv
  <1> QED
    BY <1>9, <1>10


LEMMA HandlerFlags ==
  ASSUME IInv, FlagInv, Handler
  PROVE  FlagInv'
  <1>1. /\ Top \in FrameType /\ Top = stack[Len(stack)] /\ Len(stack) \in Nat \ {0}
        /\ stack \in Seq(FrameType)
    BY TopTyping DEF IInv, StackInv
  <1>2. CASE (\E s \in SIGS : handle_early(s)) \/ handle_hup_quit
    BY <1>2 DEF handle_early, handle_hup_quit, quit, FlagInv, SeenTo
  <1>3. CASE handle_hup
    <2> DEFINE f == [Top EXCEPT !.pc = "write"]
    <2>1. /\ stack' = SetTop(f) /\ Top.who = "HUP" /\ sigflags' = sigflags \ {"HUP"}
          /\ UNCHANGED <<leaks, cut>>
      BY <1>3 DEF handle_hup, Entered
    <2>2. f \in FrameType /\ f.who = Top.who /\ f.pc = "write"
      BY <1>1 DEF FrameType
    <2> HIDE DEF f
    <2>3. \A s : Watches(f, s)
      BY <2>1, <2>2 DEF Watches
    <2> QED
      BY <2>1, <2>2, <2>3, TopReplaced DEF FlagInv, IInv
  <1>4. CASE handle_int
    <2> DEFINE f == Frame("main", "run", {})
    <2>1. /\ stack' = <<f>> /\ sigflags' = sigflags \ {"INT"} /\ leaks' = leaks
          /\ "HUP" \in sigflags => cut'
      BY <1>4 DEF handle_int
    <2>2. f.spl = "none"
      BY FrameTyping
    <2> HIDE DEF f
    <2>3. Len(stack') = 1 /\ stack'[1] = f
      BY <2>1
    <2> QED
      BY <2>1, <2>2, <2>3 DEF FlagInv
  <1>5. ASSUME NEW s \in SIGS, handle_return(s) PROVE FlagInv'
    <2>1. /\ Top.pc = "start" /\ Top.who = s /\ s \in {"PIPE", "WINCH"}
          /\ stack' = SubSeq(stack, 1, Len(stack) - 1)
          /\ sigflags' \subseteq sigflags /\ UNCHANGED <<leaks, cut, mutex>>
      BY <1>5 DEF handle_return, Entered, top
    <2>2. /\ Len(stack') = Len(stack) - 1
          /\ \A i \in 1..(Len(stack) - 1) : stack'[i] = stack[i]
      <3>1. Len(stack) > 1 /\ Top.depth = 0
        BY <1>1, <2>1 DEF IInv, StackInv
      <3> QED
        BY <2>1, <3>1, PopKeeps DEF IInv
    <2>3. ASSUME NEW t \in {"HUP", "INT"} PROVE ~ Watches(Top, t)
      <3>1. Top.spl = "none" /\ Top.depth = 0
        BY <2>1, EnteredTop DEF IInv
      <3> QED
        BY <2>1, <3>1 DEF Watches
    <2>4. ASSUME NEW t \in {"HUP", "INT"}, SeenTo(t) PROVE SeenTo(t)'
      BY <1>1, <2>2, <2>3, <2>4 DEF SeenTo
    <2>5. \A i \in 1..Len(stack') : stack'[i].pc \in {"start", "cmd"} => stack'[i].spl = "none"
      BY <1>1, <2>2 DEF FlagInv
    <2> QED
      BY <2>1, <2>4, <2>5 DEF FlagInv
  <1> QED
    BY <1>2, <1>3, <1>4, <1>5 DEF Handler

\* main () is nowhere near a flag that it would have to look at.
LEMMA MainFlags ==
  ASSUME IInv, FlagInv, main_setjmp \/ activate_signals \/ main_read_command
                          \/ main_command_done
  PROVE  FlagInv'
  <1>1. /\ Top \in FrameType /\ Top = stack[1] /\ Len(stack) = 1
        /\ Top.depth = 0 /\ Top.spl = "none" /\ Top.who = "main"
        /\ UNCHANGED <<leaks, cut, sigflags>>
    BY TopTyping DEF main_setjmp, activate_signals, main_read_command,
                     main_command_done, MainAt, Plain, IInv, StackInv, top
  <1>2. \A s \in {"HUP", "INT"} : ~ SeenTo(s)
    BY <1>1 DEF SeenTo, Watches
  <1>3. PICK p \in {"set", "cmd", "run"} : MainGoto(p)
    BY DEF main_setjmp, activate_signals, main_read_command, main_command_done
  <1> DEFINE f == Frame("main", p, Top.blocked)
  <1>4. f.spl = "none"
    BY DEF Frame
  <1>5. stack' = <<f>>
    BY <1>3 DEF MainGoto
  <1> HIDE DEF f
  <1>6. Len(stack') = 1 /\ stack'[1] = f
    BY <1>5
  <1> QED
    BY <1>1, <1>2, <1>4, <1>6 DEF FlagInv

LEMMA FlagsNext ==
  ASSUME IInv, FlagInv, [Next]_vars
  PROVE  FlagInv'
  <1>1. ASSUME NEW s \in SIGS, Raise(s) PROVE FlagInv'
    BY <1>1 DEF Raise, FlagInv, SeenTo
  <1>2. CASE main_quit \/ UNCHANGED vars
    BY <1>2 DEF main_quit, quit, vars, FlagInv, SeenTo
  <1>3. CASE append_text_node_fails
    <2> DEFINE f == [Top EXCEPT !.depth = 0]
    <2>1. /\ stack' = SetTop(f) /\ leaks' = leaks + 1 /\ leaks \in Nat
          /\ Top.pc = "run" /\ Top \in FrameType
      BY <1>3, TopTyping DEF append_text_node_fails, IInv, StackInv
    <2>2. f \in FrameType /\ f.pc = "run"
      BY <2>1 DEF FrameType
    <2> HIDE DEF f
    <2>3. leaks' # 0
      BY <2>1
    <2> QED
      BY <2>1, <2>2, <2>3, TopReplaced DEF FlagInv, IInv
  <1> QED
    BY <1>1, <1>2, <1>3, DeliverFlags, SplFlags, CheckFlags, HandlerFlags, MainFlags
    DEF Next, Program

----------------------------------------------------------------------------
(* The theorems.                                                           *)

\* The state of the signal machinery keeps its type.
THEOREM TypeCorrect == Spec => []TypeOK
  <1>1. IInv => TypeOK
    <2> SUFFICES ASSUME IInv PROVE TypeOK
      OBVIOUS
    <2>1. /\ mutex \in Nat /\ leaks \in Nat
          /\ stack \in Seq(FrameType) /\ stack # <<>>
      BY TopTyping DEF IInv, StackInv, FrameType
    <2> QED
      BY <2>1 DEF IInv, RestOK, TypeOK
  <1> QED
    BY <1>1, Invariant, PTL

\* A handler, and with it the siglongjmp of handle_int (), never runs on top of
\* a frame that is inside a critical section, however many signals arrive and
\* however deeply sections nest.
THEOREM SectionsAtomic == Spec => []HandlersOutsideSections
  <1>1. IInv => HandlersOutsideSections
    BY DEF IInv, StackInv, HandlersOutsideSections, top
  <1> QED
    BY <1>1, Invariant, PTL

\* The editor never waits for a command with a critical section left open,
\* but for those that append_text_node () left for want of memory.
THEOREM LockReleased == Spec => []NoLockLeak
  <1>1. IInv => NoLockLeak
    <2> SUFFICES ASSUME IInv, Top.pc = "cmd" PROVE mutex = leaks
      BY DEF NoLockLeak
    <2> QED
      BY TopTyping DEF IInv, StackInv
  <1> QED
    BY <1>1, Invariant, PTL

\* An active handle_int () finds the jump buffer set.
THEOREM JumpReady == Spec => []JumpTargetSet
  <1>1. IInv => JumpTargetSet
    BY DEF IInv, JumpInv, JumpTargetSet
  <1> QED
    BY <1>1, Invariant, PTL

\* Back at its prompt the editor has no interrupt registered, and a hangup only
\* where an interrupt has jumped over it, as long as malloc () has not failed
\* inside a section.
THEOREM SignalsHandled == Spec => []NoSignalForgotten
  <1>1. Init => FlagInv
    <2> SUFFICES ASSUME Init PROVE FlagInv
      OBVIOUS
    <2> DEFINE f == Frame("main", "init", {})
    <2>1. f.pc = "init" /\ stack = <<f>>
      BY DEF Frame, Init
    <2> HIDE DEF f
    <2>2. Len(stack) = 1 /\ stack[1] = f
      BY <2>1
    <2> QED
      BY <2>1, <2>2 DEF FlagInv, Init
  <1>2. IInv /\ FlagInv => NoSignalForgotten
    <2> SUFFICES ASSUME IInv, FlagInv, Running, top = 1, Top.pc = "cmd", leaks = 0
                 PROVE  sigflags \subseteq {"WINCH", "PIPE"} \cup (IF cut THEN {"HUP"} ELSE {})
      BY DEF NoSignalForgotten
    <2>1. /\ Len(stack) = 1 /\ Top = stack[1] /\ Top.depth = 0 /\ Top.who = "main"
          /\ Top.spl = "none" /\ sigflags \subseteq AllSignals
      BY TopTyping, EnteredTop DEF IInv, StackInv, RestOK, top
    <2>2. \A s \in {"HUP", "INT"} : ~ SeenTo(s)
      BY <2>1 DEF SeenTo, Watches
    <2> QED
      BY <2>1, <2>2 DEF FlagInv, AllSignals
  <1> QED
    BY <1>1, <1>2, InitIInv, NextIInv, FlagsNext, PTL DEF Spec

----------------------------------------------------------------------------
(***************************************************************************)
(* get_line_node () under signals, for a buffer of any size: the walk      *)
(* never leaves the deque, and the line it returns is the one it was asked *)
(* for as long as no signal has separated its two static variables.        *)
(***************************************************************************)
USE CacheAssumption

\* A loop is only ever in the middle of a round while it has a line to go:
\* true with and without interrupts, and what keeps n_prev a line number.
LoopInv ==
  /\ WalkTypeOK
  /\ pc = "forw_n" => n_prev < n
  /\ pc = "back_n" => n_prev > n

\* The start of get_line_node () picks one of its four loops.
LEMMA CallStarts ==
  ASSUME WalkTypeOK, NEW k \in 0 .. L, NEW b \in BOOLEAN, get_line_node(k, b)
  PROVE  /\ n' = k /\ bare' = b /\ lp' = lp /\ n_prev' = n_prev /\ off' = off
         /\ pc = "idle"
         /\ \/ pc' = "forw" /\ n_prev <= k
            \/ pc' = "back" /\ k <= n_prev
            \/ pc' \in {"tail", "head"}
<1>1. /\ n' = k /\ bare' = b /\ lp' = lp /\ n_prev' = n_prev /\ off' = off
      /\ pc = "idle"
  BY DEF get_line_node
<1>2. k \in Nat /\ n_prev \in Nat
  BY DEF WalkTypeOK
<1>3. \/ k > n_prev /\ k <= (n_prev + L) \div 2
      \/ k > n_prev /\ k > (n_prev + L) \div 2
      \/ k <= n_prev /\ k >= n_prev \div 2
      \/ k <= n_prev /\ k < n_prev \div 2
  BY <1>2
<1>4. n_prev \div 2 \in Int /\ (n_prev + L) \div 2 \in Int
  BY <1>2
<1> DEFINE h == n_prev \div 2
           mid == (n_prev + L) \div 2
<1>5. pc' = CASE k > n_prev /\ k <= mid -> "forw"
              [] k > n_prev /\ k > mid  -> "tail"
              [] k <= n_prev /\ k >= h  -> "back"
              [] k <= n_prev /\ k < h   -> "head"
  BY DEF get_line_node
<1>6. h \in Int /\ mid \in Int
  BY <1>4
<1> HIDE DEF h, mid
<1>7. \/ pc' = "forw" /\ n_prev <= k
      \/ pc' = "back" /\ k <= n_prev
      \/ pc' \in {"tail", "head"}
  BY <1>2, <1>5, <1>6
<1> QED
  BY <1>1, <1>7

LEMMA TypeInit == WalkInit => WalkTypeOK
<1> SUFFICES ASSUME WalkInit PROVE WalkTypeOK
  OBVIOUS
<1>1. 0 \in 0 .. L
  OBVIOUS
<1>2. lp \in 0 .. L /\ n_prev \in 0 .. L /\ n \in 0 .. L
  BY <1>1 DEF WalkInit
<1>3. pc = "idle" /\ bare \in BOOLEAN /\ off \in {0, 1}
  BY Zenon DEF WalkInit
<1> QED
  BY <1>2, <1>3 DEF WalkTypeOK

LEMMA LoopInductive == LoopInv /\ [WalkNext]_walk_vars => LoopInv'
<1> SUFFICES ASSUME LoopInv, [WalkNext]_walk_vars PROVE LoopInv'
  OBVIOUS
<1>1. CASE \E k \in 0 .. L, b \in BOOLEAN : get_line_node(k, b)
  <2> PICK k \in 0 .. L, b \in BOOLEAN : get_line_node(k, b)
    BY <1>1
  <2> QED
    BY CallStarts DEF LoopInv, WalkTypeOK
<1>2. CASE forw_lp
  BY <1>2 DEF LoopInv, WalkTypeOK, forw_lp, Goto, q_forw
<1>3. CASE forw_n
  BY <1>3 DEF LoopInv, WalkTypeOK, forw_n, Goto
<1>4. CASE forw_done
  BY <1>4 DEF LoopInv, WalkTypeOK, forw_done, Goto
<1>5. CASE back_lp
  BY <1>5 DEF LoopInv, WalkTypeOK, back_lp, Goto, q_back
<1>6. CASE back_n
  BY <1>6 DEF LoopInv, WalkTypeOK, back_n, Goto
<1>7. CASE back_done
  BY <1>7 DEF LoopInv, WalkTypeOK, back_done, Goto
<1>8. CASE tail_lp
  BY <1>8 DEF LoopInv, WalkTypeOK, tail_lp, Goto, q_back
<1>9. CASE tail_n
  BY <1>9 DEF LoopInv, WalkTypeOK, tail_n, Goto
<1>10. CASE head_lp
  BY <1>10 DEF LoopInv, WalkTypeOK, head_lp, Goto
<1>11. CASE head_n
  BY <1>11 DEF LoopInv, WalkTypeOK, head_n, Goto
<1>12. CASE return
  BY <1>12 DEF LoopInv, WalkTypeOK, return, Goto
<1>13. CASE interrupt
  BY <1>13 DEF LoopInv, WalkTypeOK, interrupt, Goto
<1>14. CASE UNCHANGED walk_vars
  BY <1>14 DEF LoopInv, WalkTypeOK, walk_vars
<1> QED
  BY <1>1, <1>2, <1>3, <1>4, <1>5, <1>6, <1>7, <1>8, <1>9, <1>10, <1>11, <1>12, <1>13, <1>14 DEF WalkNext

\* Type correctness, with interrupts: n_prev and lp stay inside the deque of L
\* lines however often a walk is cut short.
THEOREM WalkTypeCorrect == WalkSpec => []WalkTypeOK
<1>1. WalkInit => LoopInv
  BY TypeInit DEF WalkInit, LoopInv
<1>2. LoopInv => WalkTypeOK
  BY DEF LoopInv
<1> QED
  BY <1>1, <1>2, LoopInductive, PTL DEF WalkSpec

\* The inductive invariant of the cache.
CacheSafe == WalkTypeOK /\ CacheInv

LEMMA CacheInductive == CacheSafe /\ [WalkNext]_walk_vars => CacheSafe'
<1> SUFFICES ASSUME CacheSafe, [WalkNext]_walk_vars PROVE CacheSafe'
  OBVIOUS
<1>1. CASE \E k \in 0 .. L, b \in BOOLEAN : get_line_node(k, b)
  <2> PICK k \in 0 .. L, b \in BOOLEAN : get_line_node(k, b)
    BY <1>1
  <2> QED
    BY CallStarts DEF CacheSafe, CacheInv, HalfWay, WalkTypeOK
<1>2. CASE forw_lp
  BY <1>2 DEF CacheSafe, CacheInv, HalfWay, WalkTypeOK, forw_lp, Goto, q_forw
<1>3. CASE forw_n
  BY <1>3 DEF CacheSafe, CacheInv, HalfWay, WalkTypeOK, forw_n, Goto
<1>4. CASE forw_done
  BY <1>4 DEF CacheSafe, CacheInv, HalfWay, WalkTypeOK, forw_done, Goto
<1>5. CASE back_lp
  BY <1>5 DEF CacheSafe, CacheInv, HalfWay, WalkTypeOK, back_lp, Goto, q_back
<1>6. CASE back_n
  BY <1>6 DEF CacheSafe, CacheInv, HalfWay, WalkTypeOK, back_n, Goto
<1>7. CASE back_done
  BY <1>7 DEF CacheSafe, CacheInv, HalfWay, WalkTypeOK, back_done, Goto
<1>8. CASE tail_lp
  BY <1>8 DEF CacheSafe, CacheInv, HalfWay, WalkTypeOK, tail_lp, Goto, q_back
<1>9. CASE tail_n
  BY <1>9 DEF CacheSafe, CacheInv, HalfWay, WalkTypeOK, tail_n, Goto
<1>10. CASE head_lp
  BY <1>10 DEF CacheSafe, CacheInv, HalfWay, WalkTypeOK, head_lp, Goto
<1>11. CASE head_n
  BY <1>11 DEF CacheSafe, CacheInv, HalfWay, WalkTypeOK, head_n, Goto
<1>12. CASE return
  BY <1>12 DEF CacheSafe, CacheInv, HalfWay, WalkTypeOK, return, Goto
<1>13. CASE interrupt
  BY <1>13 DEF CacheSafe, CacheInv, HalfWay, WalkTypeOK, interrupt, Goto
<1>14. CASE UNCHANGED walk_vars
  BY <1>14 DEF CacheSafe, CacheInv, HalfWay, WalkTypeOK, walk_vars
<1> QED
  BY <1>1, <1>2, <1>3, <1>4, <1>5, <1>6, <1>7, <1>8, <1>9, <1>10, <1>11, <1>12, <1>13, <1>14 DEF WalkNext

\* The invariant of the cache: outside of an assignment pair the cached node
\* is line n_prev, until a signal separates the two, and again as soon as a
\* walk has started from an end of the deque.
THEOREM CacheExact == WalkSpec => []CacheInv
<1>1. WalkInit => CacheSafe
  <2>1. WalkInit => CacheInv
    BY DEF WalkInit, CacheInv, HalfWay
  <2> QED
    BY <2>1, TypeInit DEF CacheSafe
<1>2. CacheSafe => CacheInv
  BY DEF CacheSafe
<1> QED
  BY <1>1, <1>2, CacheInductive, PTL DEF WalkSpec

\* get_line_node () returns the line it was asked for, for every buffer size,
\* unless a signal has separated its two static variables.
THEOREM LookupCorrect == WalkSpec => []LineFound
<1>1. CacheInv => LineFound
  BY DEF CacheInv, LineFound, HalfWay
<1> QED
  BY <1>1, CacheExact, PTL
=============================================================================
