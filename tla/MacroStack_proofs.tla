-------------------------- MODULE MacroStack_proofs --------------------------
(***************************************************************************)
(* Proofs about MacroStack, for any registers, programs and scripts and a  *)
(* stack of any size, and about Session (below).                           *)
(*                                                                         *)
(* None of the properties is inductive: each is about the innermost frame, *)
(* while pop_stack_frame () brings back one from below.  The invariant is  *)
(* a picture of the whole script buffer, Layered: under every frame lies   *)
(* the script of the caller up to the caller's end, the frame's own        *)
(* register follows, and its address is where the caller goes on.          *)
(***************************************************************************)
EXTENDS MacroStack, Session, SequenceTheorems, TLAPS

Status == {"none", "ERR", "EOF"}
FrameType == [fp : {"tty", "script"}, addr : Nat, size : Nat]
CallType == [reg : Reg, addr : Nat, end : Nat, st : Status, read : Nat]

TypeInv ==
  /\ lines \in Nat /\ pos \in Nat
  /\ script \in Seq(Command)
  /\ stdin \in {"tty", "script"}
  /\ frame \in Seq(FrameType)
  /\ calls \in Seq(CallType)
  /\ pc \in {"prompt", "loop", "read"}

\* The register that activation i of c runs.
Code(c, i) == Program[c[i].reg]

\* The frames f of the activations c, n of them, in script buffer s.
Layered(s, f, c, n) ==
  /\ n > 0 => f[1].size = Len(Script0) /\ f[1].addr = 0 /\ f[1].fp = "tty"
  /\ \A i \in 1 .. n - 1 : /\ f[i + 1].size = f[i].size + Len(Code(c, i))
                           /\ f[i + 1].addr = f[i].size + c[i].read
                           /\ f[i + 1].fp = "script"
  /\ \A i \in 1 .. n : \A j \in 1 .. n : i <= j => f[i].size <= f[j].size
  /\ n = 0 => Len(s) = Len(Script0)
  /\ n > 0 => Len(s) = f[n].size + Len(Code(c, n))
  /\ \A k \in 1 .. Len(Script0) : s[k] = Script0[k]
  /\ \A i \in 1 .. n : \A k \in 1 .. Len(Code(c, i)) : s[f[i].size + k] = Code(c, i)[k]

StackInv ==
  /\ sp <= Frames
  /\ sp = Len(calls) \/ (sp = 0 /\ pc = "loop" /\ Len(calls) > 0 /\ me.st = "ERR")
  /\ Layered(script, frame, calls, sp)
  /\ sp = 0 => stdin = "tty" /\ pos = 0
  /\ sp > 0 => stdin = "script"
  /\ pc = "prompt" <=> Len(calls) = 0
  /\ pc = "read" => pos = frame[sp].size + me.read

IInv == TypeInv /\ StackInv

----------------------------------------------------------------------------
(* The script buffer. *)

\* Programs are sequences of commands.
LEMMA Codes ==
  ASSUME NEW c \in Seq(CallType), NEW i \in 1 .. Len(c)
  PROVE  Code(c, i) \in Seq(Command) /\ Len(Code(c, i)) \in Nat
  <1>1. c[i] \in CallType
    OBVIOUS
  <1>2. c[i].reg \in Reg
    BY <1>1 DEF CallType
  <1>3. Code(c, i) \in Seq(Command)
    BY <1>2, MacroAssumption DEF Code
  <1> QED
    BY <1>3

\* t is what is left when s is cut off after n.
CutOff(t, s, n) ==
  /\ t \in Seq(Command) /\ Len(t) = n
  /\ \A k \in 1 .. n : t[k] = s[k]

LEMMA CutOffIs ==
  ASSUME NEW s \in Seq(Command), NEW n \in 0 .. Len(s)
  PROVE  CutOff(SubSeq(s, 1, n), s, n)
  <1>1. \A i \in 1 .. n : s[i] \in Command
    OBVIOUS
  <1>2. /\ SubSeq(s, 1, n) \in Seq(Command)
        /\ Len(SubSeq(s, 1, n)) = IF 1 <= n THEN n - 1 + 1 ELSE 0
        /\ \A i \in 1 .. n - 1 + 1 : SubSeq(s, 1, n)[i] = s[1 + i - 1]
    BY <1>1, SubSeqProperties
  <1> QED
    BY <1>2 DEF CutOff

\* t is s followed by p.
Joined(t, s, p) ==
  /\ t \in Seq(Command) /\ Len(t) = Len(s) + Len(p)
  /\ \A k \in 1 .. Len(s) : t[k] = s[k]
  /\ \A k \in 1 .. Len(p) : t[Len(s) + k] = p[k]

\* append_stream () at the end of the script buffer.
LEMMA Appended ==
  ASSUME NEW s \in Seq(Command), NEW p \in Seq(Command)
  PROVE  Joined(Overwrite(s, Len(s), p), s, p)
  <1> DEFINE a == SubSeq(s, 1, Len(s))
             b == SubSeq(s, Len(s) + Len(p) + 1, Len(s))
  <1>1. a = s /\ b = <<>>
    BY SubSeqFull, SubSeqEmpty
  <1>2. s \o p \in Seq(Command)
    OBVIOUS
  <1>3. Overwrite(s, Len(s), p) = (s \o p) \o <<>>
    BY <1>1 DEF Overwrite
  <1>4. Overwrite(s, Len(s), p) = s \o p
    BY <1>2, <1>3
  <1> QED
    BY <1>4 DEF Joined

\* Equal to the script at the start.
LEMMA ScriptBack ==
  ASSUME NEW s \in Seq(Command), NEW f, NEW c, Layered(s, f, c, 0)
  PROVE  s = Script0
  BY MacroAssumption, SeqEqual DEF Layered

----------------------------------------------------------------------------
(* What pushing, popping and unwinding do to the layers. *)

\* The innermost activation may count on.
LEMMA SameLayers ==
  ASSUME NEW s, NEW f, NEW c, NEW c2, NEW n \in Nat, Layered(s, f, c, n),
         \A i \in 1 .. n : c2[i].reg = c[i].reg,
         \A i \in 1 .. n - 1 : c2[i].read = c[i].read
  PROVE  Layered(s, f, c2, n)
  <1>1. \A i \in 1 .. n : Code(c2, i) = Code(c, i)
    BY DEF Code
  <1>2. \A i \in 1 .. n - 1 : i \in 1 .. n
    OBVIOUS
  <1>3. n > 0 => n \in 1 .. n
    OBVIOUS
  <1> QED
    BY <1>1, <1>2, <1>3 DEF Layered

\* c2 is c without its last element, or with one more.
Shorter(d, c, n) == /\ Len(c) = n /\ Len(d) = n - 1
                    /\ \A i \in 1 .. n - 1 : d[i] = c[i]

LEMMA FrontShorter ==
  ASSUME NEW S, NEW c \in Seq(S), Len(c) > 0
  PROVE  Front(c) \in Seq(S) /\ Shorter(Front(c), c, Len(c))
  <1>1. \A i \in 1 .. Len(c) - 1 : c[i] \in S
    OBVIOUS
  <1>2. Len(c) - 1 \in Int /\ Len(c) \in Nat
    OBVIOUS
  <1>3. PICK m \in Int : m = Len(c) - 1 /\ m >= 0
    BY <1>2
  <1>4. /\ SubSeq(c, 1, m) \in Seq(S)
        /\ Len(SubSeq(c, 1, m)) = IF 1 <= m THEN m - 1 + 1 ELSE 0
        /\ \A i \in 1 .. m - 1 + 1 : SubSeq(c, 1, m)[i] = c[1 + i - 1]
    BY <1>1, <1>3, SubSeqProperties
  <1>5. Front(c) = SubSeq(c, 1, m)
    BY <1>3 DEF Front
  <1> QED
    BY <1>3, <1>4, <1>5 DEF Shorter

LEMMA AppendShorter ==
  ASSUME NEW S, NEW c \in Seq(S), NEW x \in S
  PROVE  /\ Append(c, x) \in Seq(S) /\ Shorter(c, Append(c, x), Len(c) + 1)
         /\ Append(c, x)[Len(c) + 1] = x
  BY DEF Shorter

\* push_stack_frame () and script_from_register ().
LEMMA LayersPushed ==
  ASSUME NEW s \in Seq(Command), NEW f \in Seq(FrameType), NEW c \in Seq(CallType),
         NEW n \in Nat, Layered(s, f, c, n),
         NEW t, NEW g \in Seq(FrameType), NEW d \in Seq(CallType),
         Shorter(f, g, n + 1), Shorter(c, d, n + 1),
         Joined(t, s, Code(d, n + 1)),
         g[n + 1].size = Len(s),
         n = 0 => g[1].addr = 0 /\ g[1].fp = "tty",
         n > 0 => g[n + 1].addr = f[n].size + c[n].read /\ g[n + 1].fp = "script"
  PROVE  Layered(t, g, d, n + 1)
  <1>1. /\ \A i \in 1 .. n : g[i] = f[i] /\ d[i] = c[i] /\ Code(d, i) = Code(c, i)
        /\ Len(f) = n /\ Len(c) = n /\ Len(g) = n + 1 /\ Len(d) = n + 1
    BY DEF Shorter, Code
  <1>2. /\ Len(s) \in Nat /\ Len(Script0) \in Nat
        /\ \A i \in 1 .. n : f[i].size \in Nat /\ Len(Code(c, i)) \in Nat
        /\ Len(Code(d, n + 1)) \in Nat
    <2>1. \A i \in 1 .. n : f[i] \in FrameType
      BY <1>1
    <2>2. \A i \in 1 .. n : f[i].size \in Nat
      BY <2>1 DEF FrameType
    <2>3. \A i \in 1 .. n : Len(Code(c, i)) \in Nat
      BY <1>1, Codes
    <2>4. n + 1 \in 1 .. Len(d)
      BY <1>1
    <2>5. Len(Code(d, n + 1)) \in Nat
      BY <2>4, Codes
    <2> QED
      BY <2>2, <2>3, <2>5, MacroAssumption
  <1>3. \A i \in 1 .. n : f[i].size + Len(Code(c, i)) <= Len(s)
    <2> SUFFICES ASSUME NEW i \in 1 .. n PROVE f[i].size + Len(Code(c, i)) <= Len(s)
      OBVIOUS
    <2>1. CASE i = n
      <3>1. Len(s) = f[i].size + Len(Code(c, i)) /\ Len(s) <= Len(s)
        BY <1>2, <2>1 DEF Layered
      <3> QED
        BY <3>1
    <2>2. CASE i # n
      <3>1. i \in 1 .. n - 1 /\ i + 1 \in 1 .. n /\ n \in 1 .. n /\ n > 0
        BY <2>2
      <3>2. /\ f[i + 1].size = f[i].size + Len(Code(c, i)) /\ f[i + 1].size <= f[n].size
            /\ Len(s) = f[n].size + Len(Code(c, n))
        BY <3>1, SMTT(30) DEF Layered
      <3>3. PICK x \in Nat, y \in Nat, z \in Nat :
              x = f[n].size /\ y = Len(Code(c, n)) /\ z = f[i + 1].size
        BY <1>2, <3>1
      <3>4. z <= x /\ Len(s) = x + y /\ f[i].size + Len(Code(c, i)) = z
        BY <3>2, <3>3
      <3>5. z <= Len(s)
        BY <3>4
      <3> QED
        BY <3>4, <3>5
    <2> QED
      BY <2>1, <2>2
  <1>4. n + 1 > 0 => g[1].size = Len(Script0) /\ g[1].addr = 0 /\ g[1].fp = "tty"
    <2>1. CASE n = 0
      BY <2>1 DEF Layered
    <2>2. CASE n > 0
      BY <1>1, <2>2 DEF Layered
    <2> QED
      BY <2>1, <2>2
  <1>5. ASSUME NEW i \in 1 .. (n + 1) - 1
        PROVE  /\ g[i + 1].size = g[i].size + Len(Code(d, i))
               /\ g[i + 1].addr = g[i].size + d[i].read
               /\ g[i + 1].fp = "script"
    <2>1. CASE i = n
      <3>1. n > 0 /\ g[n] = f[n] /\ d[n] = c[n] /\ Code(d, n) = Code(c, n)
        BY <1>1, <2>1
      <3> QED
        BY <2>1, <3>1 DEF Layered
    <2>2. CASE i # n
      <3>1. i \in 1 .. n - 1 /\ i + 1 \in 1 .. n /\ i \in 1 .. n
        BY <2>2
      <3> QED
        BY <1>1, <3>1, SMTT(30) DEF Layered
    <2> QED
      BY <2>1, <2>2
  <1>6. ASSUME NEW i \in 1 .. n + 1, NEW j \in 1 .. n + 1, i <= j
        PROVE  g[i].size <= g[j].size
    <2>1. CASE j = n + 1
      <3>1. CASE i = n + 1
        BY <1>2, <2>1, <3>1
      <3>2. CASE i # n + 1
        <4>1. i \in 1 .. n
          BY <3>2
        <4> QED
          BY <1>1, <1>2, <1>3, <2>1, <4>1, SMTT(30)
      <3> QED
        BY <3>1, <3>2
    <2>2. CASE j # n + 1
      <3>1. i \in 1 .. n /\ j \in 1 .. n
        BY <1>6, <2>2
      <3> QED
        BY <1>1, <1>6, <3>1 DEF Layered
    <2> QED
      BY <2>1, <2>2
  <1>7. Len(t) = g[n + 1].size + Len(Code(d, n + 1))
    BY DEF Joined
  <1>8. Len(Script0) <= Len(s)
    <2>1. CASE n = 0
      BY <1>2, <2>1 DEF Layered
    <2>2. CASE n > 0
      <3>1. 1 \in 1 .. n /\ f[1].size = Len(Script0)
        BY <2>2 DEF Layered
      <3>2. PICK x \in Nat, y \in Nat : x = f[1].size /\ y = Len(Code(c, 1))
        BY <1>2, <3>1
      <3>3. x + y <= Len(s)
        BY <1>3, <3>1, <3>2
      <3> QED
        BY <1>2, <3>1, <3>2, <3>3
    <2> QED
      BY <2>1, <2>2
  <1>9. \A k \in 1 .. Len(Script0) : t[k] = Script0[k]
    <2>1. \A k \in 1 .. Len(Script0) : k \in 1 .. Len(s)
      BY <1>2, <1>8
    <2> QED
      BY <2>1 DEF Joined, Layered
  <1>10. ASSUME NEW i \in 1 .. n + 1, NEW k \in 1 .. Len(Code(d, i))
         PROVE  t[g[i].size + k] = Code(d, i)[k]
    <2>1. CASE i = n + 1
      BY <1>10, <2>1 DEF Joined
    <2>2. CASE i # n + 1
      <3>1. i \in 1 .. n
        BY <2>2
      <3>2. /\ g[i].size = f[i].size /\ Code(d, i) = Code(c, i)
            /\ f[i].size \in Nat /\ k \in Nat /\ k > 0 /\ k <= Len(Code(c, i))
        BY <1>1, <1>2, <1>10, <3>1
      <3>3. f[i].size + k \in 1 .. Len(s)
        <4>1. PICK x \in Nat, y \in Nat : x = f[i].size /\ y = Len(Code(c, i))
          BY <1>2, <3>1
        <4>2. x + y <= Len(s) /\ k <= y
          BY <1>3, <3>1, <3>2, <4>1
        <4>3. x + k \in 1 .. Len(s)
          BY <1>2, <3>2, <4>2
        <4> QED
          BY <4>1, <4>3
      <3>4. s[f[i].size + k] = Code(c, i)[k]
        BY <1>2, <3>1, <3>2 DEF Layered
      <3> QED
        BY <3>2, <3>3, <3>4 DEF Joined
    <2> QED
      BY <2>1, <2>2
  <1> QED
    BY <1>4, <1>5, <1>6, <1>7, <1>9, <1>10 DEF Layered

\* pop_stack_frame () and unwind_stack_frame (): the layers up to frame m stay.
LEMMA LayersCut ==
  ASSUME NEW s \in Seq(Command), NEW f \in Seq(FrameType), NEW c \in Seq(CallType),
         NEW n \in Nat, Len(f) = n, Len(c) = n, Layered(s, f, c, n),
         NEW m \in 1 .. n, NEW t, CutOff(t, s, f[m].size),
         NEW g, NEW d, \A i \in 1 .. m - 1 : g[i] = f[i] /\ d[i] = c[i]
  PROVE  Layered(t, g, d, m - 1)
  <1> DEFINE top == f[m].size
  <1>0. m \in Nat /\ m - 1 \in Nat
    OBVIOUS
  <1>1. /\ \A i \in 1 .. m : i \in 1 .. n
        /\ \A i \in 1 .. m - 1 : i \in 1 .. n - 1 /\ i \in 1 .. m /\ i + 1 \in 1 .. m
        /\ m > 1 => m - 1 \in 1 .. m - 1
        /\ 1 \in 1 .. m
    OBVIOUS
  <1>2. \A i \in 1 .. m - 1 : Code(d, i) = Code(c, i)
    BY DEF Code
  <1>3. /\ \A i \in 1 .. n : f[i].size \in Nat
        /\ \A i \in 1 .. n : Len(Code(c, i)) \in Nat
        /\ Len(Script0) \in Nat /\ top \in Nat
    <2>1. \A i \in 1 .. n : f[i] \in FrameType
      OBVIOUS
    <2>2. \A i \in 1 .. n : f[i].size \in Nat
      BY <2>1 DEF FrameType
    <2> QED
      BY <2>2, Codes, MacroAssumption
  <1>4. \A i \in 1 .. m - 1 : f[i].size + Len(Code(c, i)) <= top
    <2> SUFFICES ASSUME NEW i \in 1 .. m - 1 PROVE f[i].size + Len(Code(c, i)) <= top
      OBVIOUS
    <2>1. i + 1 \in 1 .. n /\ m \in 1 .. n /\ i + 1 <= m /\ i \in 1 .. n - 1
      BY <1>0, <1>1
    <2> QED
      BY <2>1 DEF Layered
  <1>5. Len(Script0) <= top
    BY <1>1 DEF Layered
  <1>6. m - 1 = 0 => Len(t) = Len(Script0)
    BY <1>0 DEF CutOff, Layered
  <1>7. m - 1 > 0 => Len(t) = g[m - 1].size + Len(Code(d, m - 1))
    <2> SUFFICES ASSUME m - 1 > 0 PROVE Len(t) = g[m - 1].size + Len(Code(d, m - 1))
      OBVIOUS
    <2>1. m - 1 \in 1 .. n - 1 /\ (m - 1) + 1 = m /\ m - 1 \in 1 .. m - 1
      BY <1>0
    <2>2. f[m].size = f[m - 1].size + Len(Code(c, m - 1))
      BY <2>1 DEF Layered
    <2> QED
      BY <1>2, <2>1, <2>2 DEF CutOff
  <1>8. \A k \in 1 .. Len(Script0) : t[k] = Script0[k]
    <2>1. \A k \in 1 .. Len(Script0) : k \in 1 .. top
      BY <1>3, <1>5
    <2> QED
      BY <2>1 DEF CutOff, Layered
  <1>9. ASSUME NEW i \in 1 .. m - 1, NEW k \in 1 .. Len(Code(d, i))
        PROVE  t[g[i].size + k] = Code(d, i)[k]
    <2>1. /\ g[i].size = f[i].size /\ Code(d, i) = Code(c, i) /\ i \in 1 .. n
          /\ k \in Nat /\ k > 0 /\ k <= Len(Code(c, i)) /\ k \in 1 .. Len(Code(c, i))
      BY <1>1, <1>2, <1>3, <1>9
    <2>2. PICK x \in Nat, y \in Nat : x = f[i].size /\ y = Len(Code(c, i))
      BY <1>3, <2>1
    <2>3. x + y <= top /\ k <= y
      BY <1>4, <2>1, <2>2
    <2>4. x + k \in 1 .. top
      BY <1>3, <2>1, <2>3
    <2>5. s[x + k] = Code(c, i)[k]
      BY <2>1, <2>2 DEF Layered
    <2>6. t[x + k] = s[x + k]
      BY <2>4 DEF CutOff
    <2> QED
      BY <2>1, <2>2, <2>5, <2>6
  <1>10. m - 1 > 0 => g[1].size = Len(Script0) /\ g[1].addr = 0 /\ g[1].fp = "tty"
    <2>1. m - 1 > 0 => 1 \in 1 .. m - 1 /\ n > 0
      BY <1>0
    <2> QED
      BY <2>1 DEF Layered
  <1>11. ASSUME NEW i \in 1 .. (m - 1) - 1
         PROVE  /\ g[i + 1].size = g[i].size + Len(Code(d, i))
                /\ g[i + 1].addr = g[i].size + d[i].read
                /\ g[i + 1].fp = "script"
    <2>1. i \in 1 .. n - 1 /\ i \in 1 .. m - 1 /\ i + 1 \in 1 .. m - 1
      BY <1>0
    <2> QED
      BY <1>2, <2>1 DEF Layered
  <1>12. ASSUME NEW i \in 1 .. m - 1, NEW j \in 1 .. m - 1, i <= j
         PROVE  g[i].size <= g[j].size
    <2>1. i \in 1 .. n /\ j \in 1 .. n
      BY <1>1
    <2> QED
      BY <1>12, <2>1 DEF Layered
  <1> HIDE DEF top
  <1> QED
    BY <1>6, <1>7, <1>8, <1>9, <1>10, <1>11, <1>12 DEF Layered

\* A frame's end lies in the script.
LEMMA SizesFit ==
  ASSUME NEW s \in Seq(Command), NEW f \in Seq(FrameType), NEW c \in Seq(CallType),
         NEW n \in Nat, Len(f) = n, Len(c) = n, Layered(s, f, c, n), NEW i \in 1 .. n
  PROVE  f[i].size \in 0 .. Len(s)
  <1>1. n \in 1 .. n /\ n > 0
    OBVIOUS
  <1>2. f[i] \in FrameType /\ f[n] \in FrameType
    BY <1>1
  <1>3. f[i].size \in Nat /\ f[n].size \in Nat /\ Len(Code(c, n)) \in Nat
    BY <1>1, <1>2, Codes DEF FrameType
  <1>4. f[i].size <= f[n].size /\ Len(s) = f[n].size + Len(Code(c, n))
    BY <1>1 DEF Layered
  <1>5. PICK x \in Nat, y \in Nat, z \in Nat :
          x = f[i].size /\ y = f[n].size /\ z = Len(Code(c, n))
    BY <1>3
  <1>6. x <= y /\ Len(s) = y + z
    BY <1>4, <1>5
  <1>7. x \in 0 .. Len(s)
    BY <1>6
  <1> QED
    BY <1>5, <1>7

----------------------------------------------------------------------------
(* The activations. *)

\* d is c but for the last activation, which runs the same register.
Changed(d, c) ==
  /\ d \in Seq(CallType) /\ Len(d) = Len(c)
  /\ \A i \in 1 .. Len(c) : d[i].reg = c[i].reg
  /\ \A i \in 1 .. Len(c) - 1 : d[i] = c[i]

LEMMA Replaced ==
  ASSUME NEW c \in Seq(CallType), Len(c) > 0,
         NEW x \in CallType, x.reg = c[Len(c)].reg
  PROVE  /\ Changed([c EXCEPT ![Len(c)] = x], c)
         /\ [c EXCEPT ![Len(c)] = x][Len(c)] = x
  <1> DEFINE d == [c EXCEPT ![Len(c)] = x]
  <1>1. Len(c) \in Nat /\ Len(c) \in 1 .. Len(c)
    OBVIOUS
  <1>2. d \in Seq(CallType) /\ Len(d) = Len(c)
    BY <1>1
  <1>3. /\ d[Len(c)] = x
        /\ \A i \in 1 .. Len(c) : i # Len(c) => d[i] = c[i]
    BY <1>1
  <1>4. \A i \in 1 .. Len(c) - 1 : i \in 1 .. Len(c) /\ i # Len(c)
    BY <1>1
  <1> QED
    BY <1>2, <1>3, <1>4 DEF Changed

LEMMA LastIs ==
  ASSUME NEW c \in Seq(CallType), Len(c) > 0
  PROVE  /\ c[Len(c)] \in CallType
         /\ c[Len(c)].reg \in Reg /\ c[Len(c)].addr \in Nat /\ c[Len(c)].end \in Nat
         /\ c[Len(c)].st \in Status /\ c[Len(c)].read \in Nat
  <1>1. Len(c) \in 1 .. Len(c)
    OBVIOUS
  <1>2. c[Len(c)] \in CallType
    BY <1>1
  <1> QED
    BY <1>2 DEF CallType

\* The next command is read.
LEMMA ReadOn ==
  ASSUME NEW c \in Seq(CallType), Len(c) > 0, NEW k \in Nat
  PROVE  /\ Changed([c EXCEPT ![Len(c)].read = k], c)
         /\ [c EXCEPT ![Len(c)].read = k][Len(c)].read = k
  <1> DEFINE x == [c[Len(c)] EXCEPT !.read = k]
  <1>1. x \in CallType /\ x.reg = c[Len(c)].reg /\ x.read = k
    BY LastIs DEF CallType
  <1>2. [c EXCEPT ![Len(c)].read = k] = [c EXCEPT ![Len(c)] = x]
    OBVIOUS
  <1> HIDE DEF x
  <1> QED
    BY <1>1, <1>2, Replaced

\* The loop goes on with the next line, in status st.
LEMMA LineEnded ==
  ASSUME NEW c \in Seq(CallType), Len(c) > 0, NEW st \in Status,
         NEW d, d = [c EXCEPT ![Len(c)].st = st, ![Len(c)].addr = @ + 1]
  PROVE  /\ Changed(d, c)
         /\ d[Len(c)].st = st /\ d[Len(c)].read = c[Len(c)].read
  <1> DEFINE x == [c[Len(c)] EXCEPT !.st = st, !.addr = c[Len(c)].addr + 1]
  <1>1. c[Len(c)].addr + 1 \in Nat
    BY LastIs
  <1>2. x \in CallType /\ x.reg = c[Len(c)].reg /\ x.st = st /\ x.read = c[Len(c)].read
    BY <1>1, LastIs DEF CallType
  <1>3. Len(c) \in 1 .. Len(c)
    OBVIOUS
  <1>4. d = [c EXCEPT ![Len(c)] = x]
    BY <1>3
  <1> HIDE DEF x
  <1> QED
    BY <1>2, <1>4, Replaced

\* The layers do not depend on how far the innermost activation is.
LEMMA LayersKept ==
  ASSUME NEW s, NEW f, NEW c \in Seq(CallType), NEW d, NEW n \in Nat,
         n = Len(c), Layered(s, f, c, n), Changed(d, c)
  PROVE  Layered(s, f, d, n)
  BY SameLayers DEF Changed

LEMMA NoLayers ==
  ASSUME NEW s, NEW f, NEW c, NEW g, NEW d, Layered(s, f, c, 0)
  PROVE  Layered(s, g, d, 0)
  BY DEF Layered

----------------------------------------------------------------------------
(* Failing and unwinding. *)

\* What Fail does to the activations cs that are left.
Failed(d, q, cs) ==
  /\ d \in Seq(CallType) /\ Len(d) = Len(cs)
  /\ q = IF Len(cs) = 0 THEN "prompt" ELSE "loop"
  /\ Len(cs) > 0 => Changed(d, cs) /\ d[Len(cs)].st = "ERR"

LEMMA FailIs ==
  ASSUME NEW cs \in Seq(CallType), Fail(cs)
  PROVE  Failed(calls', pc', cs)
  <1>1. CASE cs = <<>>
    BY <1>1 DEF Fail, Failed
  <1>2. CASE cs # <<>>
    <2>1. Len(cs) > 0
      BY <1>2
    <2>2. calls' = [cs EXCEPT ![Len(cs)].st = "ERR", ![Len(cs)].addr = @ + 1] /\ pc' = "loop"
      BY <1>2 DEF Fail
    <2>3. "ERR" \in Status
      BY DEF Status
    <2>4. Changed(calls', cs) /\ calls'[Len(cs)].st = "ERR"
      BY <2>1, <2>2, <2>3, LineEnded
    <2> QED
      BY <2>1, <2>2, <2>4 DEF Failed, Changed
  <1> QED
    BY <1>1, <1>2

\* The state after unwind_stack_frame ().
Unwound(s, p, i, f) ==
  /\ s \in Seq(Command) /\ p = 0 /\ i = "tty" /\ f = <<>>
  /\ Layered(s, <<>>, <<>>, 0)

LEMMA UnwindIs ==
  ASSUME IInv, NEW at \in Nat, sp = 0 => at = 0, unwind_stack_frame(at)
  PROVE  Unwound(script', pos', stdin', frame')
  <1>1. CASE sp = 0
    <2>1. frame = <<>>
      BY <1>1 DEF IInv, TypeInv, sp
    <2>2. Layered(script, frame, calls, 0)
      BY <1>1 DEF IInv, StackInv
    <2>3. Layered(script, <<>>, <<>>, 0)
      BY <2>2, NoLayers
    <2> QED
      BY <1>1, <2>1, <2>3 DEF unwind_stack_frame, Unwound, IInv, TypeInv, StackInv
  <1>2. CASE sp > 0
    <2>1. /\ sp = Len(calls) /\ Len(frame) = Len(calls) /\ Len(calls) > 0
          /\ Layered(script, frame, calls, Len(calls))
      BY <1>2 DEF IInv, StackInv, sp
    <2>2. script \in Seq(Command) /\ frame \in Seq(FrameType) /\ calls \in Seq(CallType)
      BY DEF IInv, TypeInv
    <2>3. Len(calls) \in Nat /\ 1 \in 1 .. Len(calls) /\ 1 \in 1 .. Len(frame)
      BY <2>1, <2>2
    <2>4. /\ frame' = <<>> /\ stdin' = frame[1].fp /\ pos' = frame[1].addr
          /\ script' = SubSeq(script, 1, frame[1].size)
      BY <1>2, <2>2 DEF unwind_stack_frame, Restore, sp
    <2>5. frame[1].addr = 0 /\ frame[1].fp = "tty"
      BY <2>1 DEF Layered
    <2>6. frame[1].size \in 0 .. Len(script)
      BY <2>1, <2>2, <2>3, SizesFit
    <2>7. CutOff(script', script, frame[1].size)
      BY <2>2, <2>4, <2>6, CutOffIs
    <2>8. Layered(script', <<>>, <<>>, 1 - 1)
      BY <2>1, <2>2, <2>3, <2>7, LayersCut
    <2> QED
      BY <2>4, <2>5, <2>7, <2>8 DEF Unwound, CutOff
  <1>3. sp \in Nat
    BY DEF IInv, TypeInv, sp
  <1> QED
    BY <1>1, <1>2, <1>3

\* An error that has unwound the stack.
LEMMA UnwoundFails ==
  ASSUME IInv, NEW cs \in Seq(CallType), lines' \in Nat,
         Unwound(script', pos', stdin', frame'), Failed(calls', pc', cs)
  PROVE  IInv'
  <1>1. TypeInv'
    BY DEF TypeInv, Unwound, Failed
  <1>2. sp' = 0
    BY DEF Unwound, sp
  <1>3. Layered(script', frame', calls', 0)
    BY NoLayers DEF Unwound
  <1>4. Len(calls') = Len(cs) /\ Len(cs) \in Nat
    BY DEF Failed
  <1>5. CASE Len(cs) = 0
    <2>1. pc' = "prompt" /\ Len(calls') = 0
      BY <1>5 DEF Failed
    <2>2. StackInv'
      BY <1>2, <1>3, <2>1, MacroAssumption DEF StackInv, Unwound
    <2> QED
      BY <1>1, <2>2 DEF IInv
  <1>6. CASE Len(cs) > 0
    <2>1. pc' = "loop" /\ Len(calls') > 0 /\ calls'[Len(calls')].st = "ERR"
      BY <1>6 DEF Failed
    <2>2. me'.st = "ERR"
      BY <2>1 DEF me, Last
    <2>3. StackInv'
      BY <1>2, <1>3, <2>1, <2>2, MacroAssumption DEF StackInv, Unwound
    <2> QED
      BY <1>1, <2>3 DEF IInv
  <1> QED
    BY <1>4, <1>5, <1>6

\* An error that leaves the frames alone.
LEMMA StaysFailed ==
  ASSUME IInv, NEW cs \in Seq(CallType), lines' \in Nat, pos' \in Nat,
         UNCHANGED <<script, stdin, frame>>, Failed(calls', pc', cs),
         Len(cs) = sp, Layered(script, frame, cs, sp), sp = 0 => pos' = 0
  PROVE  IInv'
  <1>1. TypeInv'
    BY DEF IInv, TypeInv, Failed
  <1>2. sp' = sp /\ sp \in Nat /\ Len(calls') = sp /\ stdin' = stdin
    BY DEF sp, Failed, IInv, TypeInv
  <1>3. Layered(script', frame', calls', sp')
    <2>1. CASE sp = 0
      BY <1>2, <2>1, NoLayers
    <2>2. CASE sp > 0
      BY <1>2, <2>2, LayersKept DEF Failed
    <2> QED
      BY <1>2, <2>1, <2>2
  <1>4. pc' = "prompt" <=> Len(calls') = 0
    BY <1>2 DEF Failed
  <1>5. pc' # "read"
    BY DEF Failed
  <1>6. StackInv'
    BY <1>2, <1>3, <1>4, <1>5 DEF StackInv, IInv
  <1> QED
    BY <1>1, <1>6 DEF IInv

----------------------------------------------------------------------------
(* Every step keeps the layers. *)

\* A new activation of exec_macro (), below the activations cs.
LEMMA MacroStarts ==
  ASSUME IInv, NEW cs \in Seq(CallType), NEW r \in Reg, NEW at \in Nat,
         Len(cs) = sp, Layered(script, frame, cs, sp), sp = 0 => at = 0,
         sp > 0 => at = frame[sp].size + cs[sp].read,
         NEW a \in Nat, NEW b \in Nat, script_from_register(r, at), UNCHANGED lines,
         calls' = Append(cs, [reg |-> r, addr |-> a, end |-> b, st |-> "none", read |-> 0]),
         pc' = "loop"
  PROVE  IInv'
  <1> DEFINE x == [reg |-> r, addr |-> a, end |-> b, st |-> "none", read |-> 0]
             fr == NewFrame(at)
             n == sp
  <1>1. /\ script \in Seq(Command) /\ frame \in Seq(FrameType) /\ calls \in Seq(CallType)
        /\ n \in Nat /\ Len(script) \in Nat /\ Len(frame) = n /\ lines' \in Nat
        /\ stdin \in {"tty", "script"} /\ Program[r] \in Seq(Command)
    BY MacroAssumption DEF IInv, TypeInv, sp
  <1>2. ~ (n > 0 \/ FSCRIPT) => Len(script) = 0 /\ at = 0
    BY <1>1 DEF Layered, FSCRIPT
  <1>3. fr.size = Len(script) /\ fr.addr = at /\ fr.fp = stdin /\ fr \in FrameType
    BY <1>1, <1>2 DEF NewFrame, FrameType
  <1>4. x \in CallType /\ x.reg = r
    BY DEF CallType, Status
  <1>5. /\ n + 1 <= Frames /\ frame' = Append(frame, fr) /\ stdin' = "script"
        /\ script' = Overwrite(script, Len(script), Program[r])
        /\ pos' = Len(script) + Len(Program[r])
    <2>1. (IF n > 0 \/ FSCRIPT THEN Len(script) ELSE at) = Len(script)
      BY <1>2
    <2>2. /\ room /\ frame' = Append(frame, fr) /\ stdin' = "script"
          /\ script' = Overwrite(script, Len(script), Program[r])
          /\ pos' = Len(script) + Len(Program[r])
      BY <2>1 DEF script_from_register
    <2>3. n + 1 <= Frames
      BY <1>1, <2>2, MacroAssumption DEF room
    <2> QED
      BY <2>2, <2>3
  <1> HIDE DEF x, fr
  <1>6. /\ frame' \in Seq(FrameType) /\ Shorter(frame, frame', n + 1)
        /\ frame'[n + 1] = fr
    BY <1>1, <1>3, <1>5, AppendShorter, SMTT(30)
  <1>7. /\ calls' \in Seq(CallType) /\ Shorter(cs, calls', n + 1)
        /\ calls'[n + 1] = x
    BY <1>4, AppendShorter DEF x
  <1>8. Code(calls', n + 1) = Program[r]
    BY <1>4, <1>7 DEF Code
  <1>9. Joined(script', script, Code(calls', n + 1))
    BY <1>1, <1>5, <1>8, Appended
  <1>10. /\ n = 0 => frame'[1].addr = 0 /\ frame'[1].fp = "tty"
         /\ n > 0 => /\ frame'[n + 1].addr = frame[n].size + cs[n].read
                     /\ frame'[n + 1].fp = "script"
    BY <1>3, <1>6 DEF IInv, StackInv
  <1>11. Layered(script', frame', calls', n + 1)
    <2>1. frame'[n + 1].size = Len(script)
      BY <1>3, <1>6
    <2> HIDE DEF n
    <2>2. Layered(script, frame, cs, n)
      BY DEF n
    <2> QED
      BY <1>1, <1>6, <1>7, <1>9, <1>10, <2>1, <2>2, LayersPushed
  <1>12. sp' = n + 1 /\ Len(calls') = n + 1
    BY <1>6, <1>7 DEF Shorter, sp
  <1>13. TypeInv'
    BY <1>1, <1>5, <1>6, <1>7, <1>9 DEF TypeInv, Joined
  <1>14. StackInv'
    BY <1>1, <1>5, <1>11, <1>12 DEF StackInv
  <1> QED
    BY <1>13, <1>14 DEF IInv

\* The range of a macro, when it is valid.
LEMMA RangeIs ==
  ASSUME IInv, NEW n \in 0 .. MaxLines, NEW range \in Ranges(n)
  PROVE  range[1] \in Nat /\ range[2] \in Nat
  <1>1. n \in Nat /\ lines \in Nat
    BY MacroAssumption DEF IInv, TypeInv
  <1> QED
    BY <1>1 DEF Ranges

LEMMA MacroKeeps ==
  ASSUME IInv, NEW cs \in Seq(CallType), NEW r \in Reg, NEW n \in 0 .. MaxLines,
         NEW at \in Nat, Len(cs) = sp, Layered(script, frame, cs, sp), sp = 0 => at = 0,
         sp > 0 => at = frame[sp].size + cs[sp].read,
         exec_macro(cs, r, n, at), UNCHANGED lines
  PROVE  IInv'
  <1>0. lines' \in Nat
    BY DEF IInv, TypeInv
  <1>1. PICK range \in Ranges(n) :
          \/ /\ Valid(range)
             /\ script_from_register(r, at)
             /\ calls' = Append(cs, [reg |-> r, addr |-> range[1], end |-> range[2],
                                     st |-> "none", read |-> 0])
             /\ pc' = "loop"
          \/ Valid(range) /\ unwind_stack_frame(at) /\ Fail(cs)
          \/ ~ Valid(range) /\ pos' = at /\ Fail(cs) /\ UNCHANGED <<script, stdin, frame>>
    BY DEF exec_macro
  <1>2. range[1] \in Nat /\ range[2] \in Nat
    BY RangeIs
  <1>3. CASE /\ script_from_register(r, at)
             /\ calls' = Append(cs, [reg |-> r, addr |-> range[1], end |-> range[2],
                                     st |-> "none", read |-> 0])
             /\ pc' = "loop"
    BY <1>2, <1>3, MacroStarts
  <1>4. CASE unwind_stack_frame(at) /\ Fail(cs)
    BY <1>0, <1>4, UnwindIs, FailIs, UnwoundFails
  <1>5. CASE pos' = at /\ Fail(cs) /\ UNCHANGED <<script, stdin, frame>>
    BY <1>0, <1>5, FailIs, StaysFailed
  <1> QED
    BY <1>1, <1>3, <1>4, <1>5

\* What holds while a command is read.
LEMMA WhileReading ==
  ASSUME IInv, pc = "read"
  PROVE  /\ calls \in Seq(CallType) /\ Len(calls) = sp /\ sp > 0 /\ sp \in Nat
         /\ Len(frame) = sp /\ frame[sp] \in FrameType /\ frame[sp].size \in Nat
         /\ me = calls[sp] /\ me.read \in Nat /\ pos = frame[sp].size + me.read
         /\ stdin = "script" /\ Layered(script, frame, calls, sp)
  <1>1. calls \in Seq(CallType) /\ frame \in Seq(FrameType) /\ Len(calls) \in Nat
    BY DEF IInv, TypeInv
  <1>2. Len(calls) # 0 /\ sp = Len(calls) /\ Len(frame) = sp
    BY DEF IInv, StackInv, sp
  <1>3. Len(calls) > 0 /\ sp \in 1 .. Len(frame)
    BY <1>1, <1>2
  <1>4. frame[sp] \in FrameType
    BY <1>1, <1>3
  <1>5. me = calls[sp] /\ me.read \in Nat
    BY <1>1, <1>2, <1>3, LastIs DEF me, Last
  <1> QED
    BY <1>1, <1>2, <1>3, <1>4, <1>5 DEF IInv, StackInv, FrameType

\* A step that changes the innermost activation only.
LEMMA CallsChanged ==
  ASSUME IInv, sp = Len(calls), sp > 0, Changed(calls', calls), lines' \in Nat,
         pos' \in Nat, pc' \in {"loop", "read"}, UNCHANGED <<script, stdin, frame>>,
         pc' = "read" => pos' = frame[sp].size + calls'[sp].read
  PROVE  IInv'
  <1>1. /\ calls' \in Seq(CallType) /\ Len(calls') = Len(calls) /\ sp' = sp
        /\ sp \in Nat /\ calls \in Seq(CallType)
    BY DEF Changed, sp, IInv, TypeInv
  <1>2. TypeInv'
    BY <1>1 DEF IInv, TypeInv
  <1>3. Layered(script, frame, calls', sp)
    BY <1>1, LayersKept DEF IInv, StackInv
  <1>4. me' = calls'[sp]
    BY <1>1 DEF me, Last
  <1>5. StackInv'
    BY <1>1, <1>3, <1>4 DEF IInv, StackInv
  <1> QED
    BY <1>2, <1>5 DEF IInv

\* pop_stack_frame (): the caller goes on where it was.
LEMMA Popped ==
  ASSUME IInv, pop_stack_frame, calls' = Front(calls), UNCHANGED lines,
         pc' = IF Len(calls) = 1 THEN "prompt" ELSE "read"
  PROVE  IInv'
  <1> DEFINE n == Len(calls)
  <1>1. /\ script \in Seq(Command) /\ frame \in Seq(FrameType) /\ calls \in Seq(CallType)
        /\ lines' \in Nat /\ n \in Nat /\ Len(frame) = n /\ sp = n /\ n > 0
        /\ Layered(script, frame, calls, n)
    BY DEF pop_stack_frame, IInv, TypeInv, StackInv, sp
  <1>2. /\ frame' = Front(frame) /\ stdin' = frame[n].fp /\ pos' = frame[n].addr
        /\ script' = SubSeq(script, 1, frame[n].size)
    BY <1>1 DEF pop_stack_frame, Restore
  <1>3. /\ frame' \in Seq(FrameType) /\ Shorter(frame', frame, n)
        /\ calls' \in Seq(CallType) /\ Shorter(calls', calls, n)
    BY <1>1, <1>2, FrontShorter
  <1>4. n \in 1 .. n
    BY <1>1
  <1>5. frame[n].size \in 0 .. Len(script) /\ frame[n] \in FrameType
    BY <1>1, <1>4, SizesFit
  <1>6. CutOff(script', script, frame[n].size)
    BY <1>1, <1>2, <1>5, CutOffIs
  <1>7. Layered(script', frame', calls', n - 1)
    <2> HIDE DEF n
    <2> QED
      BY <1>1, <1>3, <1>4, <1>6, LayersCut, SMTT(30) DEF Shorter
  <1>8. sp' = n - 1 /\ Len(calls') = n - 1
    BY <1>3 DEF Shorter, sp
  <1>9. TypeInv'
    <2>1. frame[n].addr \in Nat /\ frame[n].fp \in {"tty", "script"}
      BY <1>5 DEF FrameType
    <2> QED
      BY <1>1, <1>2, <1>3, <1>6, <2>1 DEF TypeInv, CutOff
  <1>10. CASE n = 1
    <2>1. frame[n].addr = 0 /\ frame[n].fp = "tty"
      BY <1>1, <1>10 DEF Layered
    <2>2. sp' = 0 /\ Len(calls') = 0 /\ pc' = "prompt" /\ Layered(script', frame', calls', 0)
      BY <1>7, <1>8, <1>10
    <2>3. StackInv'
      BY <1>2, <2>1, <2>2, MacroAssumption DEF StackInv
    <2> QED
      BY <1>9, <2>3 DEF IInv
  <1>11. CASE n # 1
    <2>1. n - 1 \in 1 .. n - 1 /\ (n - 1) + 1 = n /\ n - 1 > 0
      BY <1>1, <1>11
    <2>2. frame[n].addr = frame[n - 1].size + calls[n - 1].read /\ frame[n].fp = "script"
      BY <1>1, <2>1 DEF Layered
    <2>3. frame'[n - 1] = frame[n - 1] /\ calls'[n - 1] = calls[n - 1]
      BY <1>3, <2>1 DEF Shorter
    <2>4. me' = calls'[n - 1] /\ pc' = "read"
      BY <1>8, <1>11 DEF me, Last
    <2>5. pos' = frame'[n - 1].size + me'.read
      BY <1>2, <2>2, <2>3, <2>4
    <2>6. n - 1 <= Frames
      BY <1>1, MacroAssumption DEF IInv, StackInv
    <2> HIDE DEF n
    <2>7. StackInv'
      BY <1>2, <1>7, <1>8, <2>1, <2>2, <2>4, <2>5, <2>6 DEF StackInv
    <2> QED
      BY <1>9, <2>7 DEF IInv
  <1> QED
    BY <1>10, <1>11

LEMMA InitIInv == Init => IInv
  <1> SUFFICES ASSUME Init PROVE IInv
    OBVIOUS
  <1>1. TypeInv
    BY MacroAssumption DEF Init, TypeInv
  <1>2. sp = 0 /\ Len(calls) = 0
    BY DEF Init, sp
  <1>3. Layered(script, frame, calls, 0)
    BY DEF Init, Layered
  <1>4. StackInv
    BY <1>2, <1>3, MacroAssumption DEF Init, StackInv
  <1> QED
    BY <1>1, <1>4 DEF IInv

LEMMA NextIInv == IInv /\ [Next]_vars => IInv'
  <1> SUFFICES ASSUME IInv, [Next]_vars PROVE IInv'
    OBVIOUS
  <1>0. /\ lines \in Nat /\ pos \in Nat /\ calls \in Seq(CallType) /\ Len(calls) \in Nat
        /\ script \in Seq(Command) /\ sp \in Nat /\ frame \in Seq(FrameType)
    BY DEF IInv, TypeInv, sp
  <1>1. ASSUME NEW r \in Reg, NEW n \in 0 .. MaxLines, macro_cmd(r, n)
        PROVE  IInv'
    <2>1. /\ exec_macro(<<>>, r, n, pos) /\ UNCHANGED lines /\ sp = 0 /\ pos = 0
          /\ Layered(script, frame, calls, 0)
      BY <1>1 DEF macro_cmd, IInv, StackInv
    <2>2. PICK cs \in Seq(CallType) : cs = <<>>
      <3>1. <<>> \in Seq(CallType)
        OBVIOUS
      <3> QED
        BY <3>1, Zenon
    <2>3. Layered(script, frame, cs, 0) /\ Len(cs) = 0
      BY <2>1, <2>2, NoLayers
    <2>4. exec_macro(cs, r, n, pos) /\ Layered(script, frame, cs, sp) /\ Len(cs) = sp
      BY <2>1, <2>2, <2>3
    <2>5. ~ (sp > 0)
      BY <2>1
    <2> QED
      BY <1>0, <2>1, <2>4, <2>5, MacroKeeps
  <1>2. CASE next_line
    <2>1. sp = Len(calls) /\ sp > 0 /\ frame[sp].size \in Nat
      <3>1. sp = Len(calls) /\ sp > 0
        BY <1>2 DEF next_line, IInv, StackInv
      <3>2. sp \in 1 .. Len(frame)
        BY <1>0, <3>1 DEF sp
      <3>3. frame[sp] \in FrameType
        BY <1>0, <3>2
      <3> QED
        BY <3>1, <3>3 DEF FrameType
    <2>2. /\ calls' = [calls EXCEPT ![Len(calls)].read = 0] /\ pos' = frame[sp].size
          /\ pc' = "read" /\ UNCHANGED <<lines, script, stdin, frame>>
      BY <1>2 DEF next_line
    <2>3. Changed(calls', calls) /\ calls'[sp].read = 0
      BY <1>0, <2>1, <2>2, ReadOn
    <2>4. pos' = frame[sp].size + calls'[sp].read
      BY <2>1, <2>2, <2>3
    <2> QED
      BY <1>0, <2>1, <2>2, <2>3, <2>4, CallsChanged
  <1>3. CASE seek_outside
    <2>1. Len(calls) > 0 /\ sp = 0
      BY <1>0, <1>3 DEF seek_outside, More
    <2>2. Front(calls) \in Seq(CallType)
      BY <1>0, <2>1, FrontShorter
    <2>3. Failed(calls', pc', Front(calls))
      BY <1>3, <2>2, FailIs DEF seek_outside
    <2>4. frame = <<>> /\ Layered(script, <<>>, <<>>, 0)
      <3>1. Layered(script, frame, calls, 0)
        BY <2>1 DEF IInv, StackInv
      <3> QED
        BY <1>0, <2>1, <3>1, NoLayers DEF sp
    <2>5. Unwound(script, pos, stdin, frame)
      BY <1>0, <2>1, <2>4 DEF Unwound, IInv, StackInv
    <2>6. Unwound(script', pos', stdin', frame') /\ lines' \in Nat
      BY <1>0, <1>3, <2>5 DEF seek_outside
    <2> QED
      BY <2>2, <2>3, <2>6, UnwoundFails
  <1>4. CASE end_of_macro
    <2>1. /\ calls' = [calls EXCEPT ![Len(calls)].st = "EOF", ![Len(calls)].addr = @ + 1]
          /\ pc = "read" /\ pc' = "loop" /\ UNCHANGED <<lines, pos, script, stdin, frame>>
      BY <1>4 DEF end_of_macro
    <2>2. Len(calls) = sp /\ sp > 0
      BY <2>1, WhileReading
    <2>3. "EOF" \in Status
      BY DEF Status
    <2>4. Changed(calls', calls)
      BY <1>0, <2>1, <2>2, <2>3, LineEnded
    <2> QED
      BY <1>0, <2>1, <2>2, <2>4, CallsChanged
  <1>5. CASE plain_ok
    <2>1. /\ calls' = [calls EXCEPT ![Len(calls)].read = @ + 1] /\ pos' = pos + 1
          /\ lines' \in 0 .. MaxLines /\ pc = "read" /\ pc' = "read"
          /\ UNCHANGED <<script, stdin, frame>>
      BY <1>5 DEF plain_ok, Reading
    <2>2. /\ Len(calls) = sp /\ sp > 0 /\ frame[sp].size \in Nat /\ calls[sp].read \in Nat
          /\ pos = frame[sp].size + calls[sp].read
      BY <2>1, WhileReading
    <2>3. PICK k \in Nat : k = calls[sp].read + 1
      BY <2>2
    <2>4. calls' = [calls EXCEPT ![Len(calls)].read = k]
      BY <2>1, <2>2, <2>3
    <2>5. Changed(calls', calls) /\ calls'[sp].read = k
      BY <1>0, <2>2, <2>4, ReadOn
    <2>6. pos' = frame[sp].size + calls'[sp].read /\ pos' \in Nat
      <3>1. PICK x \in Nat, y \in Nat : x = frame[sp].size /\ y = calls[sp].read
        BY <2>2
      <3>2. k = y + 1 /\ pos = x + y
        BY <2>2, <2>3, <3>1
      <3>3. pos' = x + k
        BY <1>0, <2>1, <3>2
      <3> QED
        BY <2>5, <3>1, <3>3
    <2>7. lines' \in Nat
      BY <2>1, MacroAssumption
    <2> QED
      BY <2>1, <2>2, <2>5, <2>6, <2>7, CallsChanged
  <1>6. ASSUME NEW st \in {"ERR", "EOF"}, plain_fails(st)
        PROVE  IInv'
    <2>1. /\ calls' = [calls EXCEPT ![Len(calls)].st = st, ![Len(calls)].addr = @ + 1]
          /\ pc = "read" /\ pc' = "loop" /\ pos' = pos + 1
          /\ UNCHANGED <<lines, script, stdin, frame>>
      BY <1>6 DEF plain_fails, Reading
    <2>2. Len(calls) = sp /\ sp > 0
      BY <2>1, WhileReading
    <2>3. st \in Status
      BY DEF Status
    <2>4. Changed(calls', calls)
      BY <1>0, <2>1, <2>2, <2>3, LineEnded
    <2> QED
      BY <1>0, <2>1, <2>2, <2>4, CallsChanged
  <1>7. CASE nested_cmd
    <2> DEFINE cs == [calls EXCEPT ![Len(calls)].read = @ + 1]
               cmd == script[pos + 1]
    <2>1. /\ exec_macro(cs, cmd.reg, cmd.n, pos + 1) /\ UNCHANGED lines
          /\ pc = "read" /\ pos < Len(script) /\ cmd.op = "call"
      BY <1>7 DEF nested_cmd, Reading
    <2>2. cmd.reg \in Reg /\ cmd.n \in 0 .. MaxLines
      <3>1. pos + 1 \in 1 .. Len(script)
        BY <1>0, <2>1
      <3>2. cmd \in Command
        BY <1>0, <3>1
      <3>3. cmd # Plain
        BY <2>1 DEF Plain
      <3>4. PICK r \in Reg, n \in 0 .. MaxLines : cmd = Call(r, n)
        BY <3>2, <3>3 DEF Command
      <3> QED
        BY <3>4 DEF Call
    <2>3. /\ Len(calls) = sp /\ sp > 0 /\ frame[sp].size \in Nat /\ calls[sp].read \in Nat
          /\ pos = frame[sp].size + calls[sp].read /\ Layered(script, frame, calls, sp)
      BY <2>1, WhileReading
    <2>4. PICK k \in Nat : k = calls[sp].read + 1
      BY <2>3
    <2>5. cs = [calls EXCEPT ![Len(calls)].read = k]
      BY <2>3, <2>4
    <2>6. Changed(cs, calls) /\ cs[sp].read = k
      BY <1>0, <2>3, <2>5, ReadOn
    <2> HIDE DEF cs, cmd
    <2>7. cs \in Seq(CallType) /\ Len(cs) = sp /\ Layered(script, frame, cs, sp)
      BY <1>0, <2>3, <2>6, LayersKept DEF Changed
    <2>8. pos + 1 = frame[sp].size + cs[sp].read /\ pos + 1 \in Nat
      <3>1. PICK x \in Nat, y \in Nat : x = frame[sp].size /\ y = calls[sp].read
        BY <2>3
      <3>2. pos = x + y /\ k = y + 1 /\ cs[sp].read = k
        BY <2>3, <2>4, <2>6, <3>1
      <3>3. pos + 1 = x + k /\ pos + 1 \in Nat
        BY <3>1, <3>2
      <3> QED
        BY <3>1, <3>2, <3>3
    <2> QED
      BY <2>1, <2>2, <2>3, <2>7, <2>8, MacroKeeps
  <1>8. CASE macro_end
    <2>1. CASE me.st = "ERR"
      <3>1. unwind_stack_frame(pos) /\ Fail(Front(calls)) /\ lines' \in Nat /\ pc = "loop"
        BY <1>0, <1>8, <2>1 DEF macro_end
      <3>2. Len(calls) > 0 /\ (sp = 0 => pos = 0)
        BY <1>0, <3>1 DEF IInv, StackInv
      <3>3. Front(calls) \in Seq(CallType)
        BY <1>0, <3>2, FrontShorter
      <3> QED
        BY <1>0, <3>1, <3>2, <3>3, UnwindIs, FailIs, UnwoundFails
    <2>2. CASE me.st # "ERR"
      BY <1>8, <2>2, Popped DEF macro_end
    <2> QED
      BY <2>1, <2>2
  <1>9. CASE interrupt
    <2>1. unwind_stack_frame(pos) /\ calls' = <<>> /\ pc' = "prompt" /\ lines' \in Nat
      BY <1>0, <1>9 DEF interrupt
    <2>2. sp = 0 => pos = 0
      BY DEF IInv, StackInv
    <2>3. Failed(calls', pc', <<>>) /\ <<>> \in Seq(CallType)
      BY <2>1 DEF Failed
    <2> QED
      BY <1>0, <2>1, <2>2, <2>3, UnwindIs, UnwoundFails
  <1>10. CASE UNCHANGED vars
    <2>1. TypeInv'
      BY <1>10 DEF IInv, TypeInv, vars
    <2>2. StackInv'
      BY <1>10 DEF IInv, StackInv, vars, sp, me
    <2> QED
      BY <2>1, <2>2 DEF IInv
  <1> QED
    BY <1>1, <1>2, <1>3, <1>4, <1>5, <1>6, <1>7, <1>8, <1>9, <1>10 DEF Next, Step

LEMMA Always == Spec => []IInv
  BY InitIInv, NextIInv, PTL DEF Spec

----------------------------------------------------------------------------
(* The properties. *)

\* There is one frame per activation of exec_macro () or an error has unwound
\* them all, and stack_frame[] never overflows, however macros call each other.
THEOREM StackSound == Spec => []StackMatches
  <1>1. IInv => StackMatches
    BY DEF IInv, StackInv, StackMatches
  <1> QED
    BY <1>1, Always, PTL

\* Every command is read from the register of the innermost activation, at the
\* place where that activation was left.
THEOREM CallersResumed == Spec => []ReturnsToCaller
  <1>1. IInv => ReturnsToCaller
    <2> SUFFICES ASSUME IInv, pc = "read"
                 PROVE  /\ stdin = "script" /\ pos = frame[sp].size + me.read
                        /\ SubSeq(script, frame[sp].size + 1, Len(script)) = Program[me.reg]
      BY DEF ReturnsToCaller
    <2> DEFINE m == frame[sp].size + 1
               n == Len(script)
               code == Program[me.reg]
               rest == SubSeq(script, m, n)
    <2>1. /\ calls \in Seq(CallType) /\ Len(calls) = sp /\ sp > 0 /\ sp \in Nat
          /\ frame[sp].size \in Nat /\ me = calls[sp] /\ script \in Seq(Command)
          /\ pos = frame[sp].size + me.read /\ stdin = "script"
          /\ Layered(script, frame, calls, sp)
      BY WhileReading DEF IInv, TypeInv
    <2>2. sp \in 1 .. sp /\ sp \in 1 .. Len(calls)
      BY <2>1
    <2>3. code = Code(calls, sp) /\ code \in Seq(Command) /\ Len(code) \in Nat
      BY <2>1, <2>2, Codes DEF Code
    <2>4. /\ n = frame[sp].size + Len(code)
          /\ \A k \in 1 .. Len(code) : script[frame[sp].size + k] = code[k]
      BY <2>1, <2>2, <2>3 DEF Layered
    <2>5. PICK x \in Nat, y \in Nat : x = frame[sp].size /\ y = Len(code)
      BY <2>1, <2>3
    <2>6. m = x + 1 /\ n = x + y /\ m \in Int /\ n \in Int
      BY <2>4, <2>5
    <2>7. \A i \in m .. n : script[i] \in Command
      BY <2>1, <2>5, <2>6
    <2>8. /\ rest \in Seq(Command)
          /\ Len(rest) = IF m <= n THEN n - m + 1 ELSE 0
          /\ \A i \in 1 .. n - m + 1 : rest[i] = script[m + i - 1]
      BY <2>6, <2>7, SubSeqProperties
    <2> HIDE DEF m, n, code, rest
    <2>9. Len(rest) = y /\ n - m + 1 = y
      BY <2>6, <2>8
    <2>10. \A i \in 1 .. y : m + i - 1 = x + i
      BY <2>6
    <2>11. \A i \in 1 .. y : rest[i] = code[i]
      BY <2>4, <2>5, <2>8, <2>9, <2>10
    <2>12. rest = code
      BY <2>3, <2>5, <2>8, <2>9, <2>11, SeqEqual
    <2> QED
      BY <2>1, <2>12 DEF rest, code, m, n
  <1> QED
    BY <1>1, Always, PTL

\* At the prompt the script buffer and the standard input are as ed started,
\* after an end, an error or an interrupt at any depth.
THEOREM PromptRestored == Spec => []ScriptRestored
  <1>1. IInv => ScriptRestored
    <2> SUFFICES ASSUME IInv, pc = "prompt"
                 PROVE  sp = 0 /\ stdin = "tty" /\ script = Script0 /\ pos = 0
      BY DEF ScriptRestored
    <2>1. /\ sp = 0 /\ stdin = "tty" /\ pos = 0 /\ script \in Seq(Command)
          /\ Layered(script, frame, calls, 0)
      BY DEF IInv, TypeInv, StackInv
    <2> QED
      BY <2>1, ScriptBack
  <1> QED
    BY <1>1, Always, PTL

----------------------------------------------------------------------------
(***************************************************************************)
(* Session, for every set of texts and every set of faults: is_modified is *)
(* right but for the texts that named weaknesses leave unflagged, and `u'  *)
(* undoes the last command unless global was left set.                     *)
(***************************************************************************)

USE SessionAssumption

\* Splits a step of the session into its commands.
LEMMA Steps ==
  ASSUME [SessionNext]_session_vars
  PROVE  \/ \E t \in Text, done \in BOOLEAN : edit(t, done)
         \/ \E t \in Text, done \in BOOLEAN : filter_empty(t, done)
         \/ \E t \in Text, piped \in BOOLEAN : r_cmd(t, piped)
         \/ \E t \in Text : r_cut(t)
         \/ \E t \in Text, piped \in BOOLEAN : Live /\ Load(t, piped)
         \/ Live /\ Warn
         \/ Live /\ Quit
         \/ \E q \in BOOLEAN : w_cmd(q)
         \/ \E q \in BOOLEAN : w_part(q)
         \/ \E b \in BOOLEAN : w_fails(b)
         \/ u_cmd \/ global_cmd \/ global_bad_suffix \/ global_end
         \/ UNCHANGED session_vars
BY DEF SessionNext, E_cmd, e_cmd, q_cmd, Q_cmd

LEMMA TypeInit == SessionInit => TypeOK
BY DEF SessionInit, TypeOK, Bit

LEMMA TypeInductive == TypeOK /\ [SessionNext]_session_vars => TypeOK'
<1> SUFFICES ASSUME TypeOK, [SessionNext]_session_vars PROVE TypeOK'
  OBVIOUS
<1> USE DEF TypeOK, Bit
<1>1. ASSUME NEW t \in Text, NEW done \in BOOLEAN, edit(t, done)
      PROVE  TypeOK'
  BY <1>1 DEF edit, reset_undo_queue, SaveState, Starts, Aborted, Reset, Error
<1>2. ASSUME NEW t \in Text, NEW piped \in BOOLEAN, r_cmd(t, piped) PROVE TypeOK'
  BY <1>2 DEF r_cmd, reset_undo_queue, SaveState, Starts, ReadUnflagged
<1>3. ASSUME NEW t \in Text, r_cut(t) PROVE TypeOK'
  BY <1>3 DEF r_cut, reset_undo_queue, SaveState, Starts, Aborted, Reset, Error,
              ReadUnflagged
<1>4. ASSUME NEW t \in Text, NEW piped \in BOOLEAN, Load(t, piped) PROVE TypeOK'
  BY <1>4 DEF Load, Reset
<1>5. CASE Warn
  BY <1>5 DEF Warn, Error
<1>6. CASE Quit
  BY <1>6 DEF Quit, buffer
<1>7. ASSUME NEW q \in BOOLEAN, w_cmd(q) PROVE TypeOK'
  BY <1>7 DEF w_cmd
<1>8. ASSUME NEW b \in BOOLEAN, w_fails(b) PROVE TypeOK'
  BY <1>8 DEF w_fails, Aborted, Reset, Error, LostUnflagged
<1>9. CASE u_cmd
  BY <1>9 DEF u_cmd
<1>10. CASE global_cmd
  BY <1>10 DEF global_cmd, SaveState
<1>11. CASE global_bad_suffix
  BY <1>11 DEF global_bad_suffix, buffer
<1>12. CASE global_end
  BY <1>12 DEF global_end, Reset, buffer
<1>13. CASE UNCHANGED session_vars
  BY <1>13 DEF session_vars
<1>14. ASSUME NEW t \in Text, NEW done \in BOOLEAN, filter_empty(t, done)
       PROVE  TypeOK'
  BY <1>14 DEF filter_empty, reset_undo_queue, SaveState, Starts, Aborted, Reset,
               Error, ReadUnflagged
<1>15. ASSUME NEW q \in BOOLEAN, w_part(q) PROVE TypeOK'
  BY <1>15 DEF w_part, Error, LostUnflagged
<1> QED
  BY <1>1, <1>2, <1>3, <1>4, <1>5, <1>6, <1>7, <1>8, <1>9, <1>10, <1>11,
     <1>12, <1>13, <1>14, <1>15, Steps

\* Type correctness of the session, whatever goes wrong.
THEOREM TypeCorrect == SessionSpec => []TypeOK
BY TypeInit, TypeInductive, PTL DEF SessionSpec

----------------------------------------------------------------------------
\* What `u' would bring back is as well accounted for as the text itself, as
\* long as nothing was written since: without this conjunct the property is
\* not inductive, since `u' exchanges the two.
SavedAccounted ==
  canundo = 1 /\ written = 0 /\ saved.mod = 0 => saved.text \in Accounted

LossInv == TypeOK /\ LossAccounted /\ SavedAccounted

LEMMA LossInductive == LossInv /\ [SessionNext]_session_vars => LossInv'
<1> SUFFICES ASSUME LossInv, [SessionNext]_session_vars PROVE LossInv'
  OBVIOUS
<1>0. TypeOK'
  BY TypeInductive DEF LossInv
<1> SUFFICES LossAccounted' /\ SavedAccounted'
  BY <1>0 DEF LossInv
<1> USE DEF LossInv, TypeOK, Bit, LossAccounted, Accounted, SavedAccounted
<1>1. ASSUME NEW t \in Text, NEW done \in BOOLEAN, edit(t, done)
      PROVE  LossAccounted' /\ SavedAccounted'
  BY <1>1 DEF edit, reset_undo_queue, SaveState
<1>2. ASSUME NEW t \in Text, NEW piped \in BOOLEAN, r_cmd(t, piped) PROVE LossAccounted' /\ SavedAccounted'
  BY <1>2 DEF r_cmd, reset_undo_queue, SaveState, ReadUnflagged
<1>3. ASSUME NEW t \in Text, r_cut(t) PROVE LossAccounted' /\ SavedAccounted'
  BY <1>3 DEF r_cut, reset_undo_queue, SaveState, ReadUnflagged
<1>4. ASSUME NEW t \in Text, NEW piped \in BOOLEAN, Load(t, piped) PROVE LossAccounted' /\ SavedAccounted'
  BY <1>4 DEF Load
<1>5. CASE Warn
  BY <1>5 DEF Warn
<1>6. CASE Quit
  BY <1>6 DEF Quit, buffer
<1>7. ASSUME NEW q \in BOOLEAN, w_cmd(q) PROVE LossAccounted' /\ SavedAccounted'
  BY <1>7 DEF w_cmd
<1>8. ASSUME NEW b \in BOOLEAN, w_fails(b)
      PROVE  LossAccounted' /\ SavedAccounted'
  BY <1>8 DEF w_fails, LostUnflagged
<1>9. CASE u_cmd
  BY <1>9 DEF u_cmd
<1>10. CASE global_cmd
  BY <1>10 DEF global_cmd, SaveState
<1>11. CASE global_bad_suffix
  BY <1>11 DEF global_bad_suffix, buffer
<1>12. CASE global_end
  BY <1>12 DEF global_end, buffer
<1>13. CASE UNCHANGED session_vars
  BY <1>13 DEF session_vars
<1>14. ASSUME NEW t \in Text, NEW done \in BOOLEAN, filter_empty(t, done)
       PROVE  LossAccounted' /\ SavedAccounted'
  BY <1>14 DEF filter_empty, reset_undo_queue, SaveState, ReadUnflagged
<1>15. ASSUME NEW q \in BOOLEAN, w_part(q) PROVE LossAccounted' /\ SavedAccounted'
  BY <1>15 DEF w_part, LostUnflagged
<1> QED
  BY <1>1, <1>2, <1>3, <1>4, <1>5, <1>6, <1>7, <1>8, <1>9, <1>10, <1>11,
     <1>12, <1>13, <1>14, <1>15, Steps

\* The text is accounted for whenever is_modified is 0: the only texts that ed
\* lets go of silently are those that a named command has left unflagged.
THEOREM FlagTrusted == SessionSpec => []LossAccounted
<1>1. SessionInit => LossInv
  BY TypeInit DEF SessionInit, LossInv, LossAccounted, Accounted, SavedAccounted
<1>2. LossInv => LossAccounted
  BY DEF LossInv
<1> QED
  BY <1>1, <1>2, LossInductive, PTL DEF SessionSpec

\* `q', the end of input and `wq' ask before they drop any other text.
THEOREM QuitAsksFirst == SessionSpec => QuitAsks
<1>1. LossInv /\ [SessionNext]_session_vars =>
        [mode' = "exit" /\ (q_cmd \/ w_cmd(TRUE) \/ w_part(TRUE))
           => text \in Accounted']_session_vars
  <2> SUFFICES ASSUME LossInv, mode' = "exit", q_cmd \/ w_cmd(TRUE) \/ w_part(TRUE)
               PROVE  text \in Accounted'
    OBVIOUS
  <2>1. CASE q_cmd
    <3>1. mod = 0 /\ Quit
      BY <2>1 DEF q_cmd, Warn, Error
    <3> QED
      BY <3>1 DEF LossInv, LossAccounted, Accounted, Quit
  <2>2. CASE w_cmd(TRUE)
    BY <2>2 DEF w_cmd, Accounted
  <2>3. CASE w_part(TRUE)
    BY <2>3 DEF w_part, Accounted, LostUnflagged, Error
  <2> QED
    BY <2>1, <2>2, <2>3
<1>2. SessionInit => LossInv
  BY TypeInit DEF SessionInit, LossInv, LossAccounted, Accounted, SavedAccounted
<1> QED
  BY <1>1, <1>2, LossInductive, PTL DEF SessionSpec, QuitAsks

----------------------------------------------------------------------------
\* global is set at the prompt only when it was left set by mistake, and is
\* set throughout a command list.  What is saved is what the last command
\* started from, also within a command list.
UndoInv ==
  /\ TypeOK
  /\ mode = "list" => global = 1
  /\ mode = "prompt" /\ global = 1 => stuck = 1
  /\ canundo = 1 /\ stuck = 0 => saved.text = before

LEMMA UndoInductive == UndoInv /\ [SessionNext]_session_vars => UndoInv'
<1> SUFFICES ASSUME UndoInv, [SessionNext]_session_vars PROVE UndoInv'
  OBVIOUS
<1>0. TypeOK'
  BY TypeInductive DEF UndoInv
<1> USE <1>0 DEF UndoInv, TypeOK, Bit, Live
<1>1. ASSUME NEW t \in Text, NEW done \in BOOLEAN, edit(t, done)
      PROVE  UndoInv'
  BY <1>1 DEF edit, reset_undo_queue, SaveState, Starts, Aborted, Reset, Error
<1>2. ASSUME NEW t \in Text, NEW piped \in BOOLEAN, r_cmd(t, piped) PROVE UndoInv'
  BY <1>2 DEF r_cmd, reset_undo_queue, SaveState, Starts
<1>3. ASSUME NEW t \in Text, r_cut(t) PROVE UndoInv'
  <2>1. CASE Reset
    BY <1>3, <2>1 DEF r_cut, reset_undo_queue, SaveState, Starts, Reset
  <2>2. CASE Error
    BY <1>3, <2>2 DEF r_cut, reset_undo_queue, SaveState, Starts, Error
  <2> QED
    BY <1>3, <2>1, <2>2 DEF r_cut, Aborted
<1>4. ASSUME NEW t \in Text, NEW piped \in BOOLEAN, Load(t, piped) PROVE UndoInv'
  BY <1>4 DEF Load, Reset
<1>5. CASE Live /\ Warn
  BY <1>5 DEF Warn, Error
<1>6. CASE Quit
  BY <1>6 DEF Quit, buffer
<1>7. ASSUME NEW q \in BOOLEAN, w_cmd(q) PROVE UndoInv'
  BY <1>7 DEF w_cmd
<1>8. ASSUME NEW b \in BOOLEAN, w_fails(b) PROVE UndoInv'
  BY <1>8 DEF w_fails, Aborted, Reset, Error
<1>9. CASE u_cmd
  BY <1>9 DEF u_cmd
<1>10. CASE global_cmd
  BY <1>10 DEF global_cmd, SaveState
<1>11. CASE global_bad_suffix
  BY <1>11 DEF global_bad_suffix, buffer
<1>12. CASE global_end
  BY <1>12 DEF global_end, Reset, buffer
<1>13. CASE UNCHANGED session_vars
  BY <1>13 DEF session_vars
<1>14. ASSUME NEW t \in Text, NEW done \in BOOLEAN, filter_empty(t, done)
       PROVE  UndoInv'
  <2>1. CASE done
    BY <1>14, <2>1 DEF filter_empty, reset_undo_queue, SaveState, Starts
  <2>2. CASE ~ done /\ Reset
    BY <1>14, <2>2 DEF filter_empty, reset_undo_queue, SaveState, Starts, Reset
  <2>3. CASE ~ done /\ Error
    BY <1>14, <2>3 DEF filter_empty, reset_undo_queue, SaveState, Starts, Error
  <2> QED
    BY <1>14, <2>1, <2>2, <2>3 DEF filter_empty, Aborted
<1>15. ASSUME NEW q \in BOOLEAN, w_part(q) PROVE UndoInv'
  BY <1>15 DEF w_part, Error
<1> QED
  BY <1>1, <1>2, <1>3, <1>4, <1>5, <1>6, <1>7, <1>8, <1>9, <1>10, <1>11,
     <1>12, <1>13, <1>14, <1>15, Steps

\* At the prompt `u' goes back to the text the last command started from.
THEOREM UndoCorrect == SessionSpec => []UndoesLast
<1>1. SessionInit => UndoInv
  BY TypeInit DEF SessionInit, UndoInv
<1>2. UndoInv => UndoesLast
  BY DEF UndoInv, UndoesLast
<1> QED
  BY <1>1, <1>2, UndoInductive, PTL DEF SessionSpec
=============================================================================
