------------------------- MODULE LineBuffer_proofs -------------------------
(***************************************************************************)
(* Proofs about LineBuffer, for any number of nodes and marks, any         *)
(* sessions, any bounds on the undo queue and on the lines a substitution  *)
(* makes, and whatever commands may be cut short but for those that read a *)
(* stream.                                                                 *)
(*                                                                         *)
(* None of the properties is inductive. Sound (e, T, T0) is what every     *)
(* routine preserves: T is linked as a ring and counted, the cached        *)
(* position is right, marks are on lines that are allocated, the undo      *)
(* queue leads from T0 to T and state[1] is the state of T0, and a global  *)
(* command has only lines of T to visit. Safe adds what the command in     *)
(* progress has in its local variables (OpOK): an undo entry it still      *)
(* extends is the newest one and ends with the line it appends after, the  *)
(* node it goes on from is on T, the addresses it goes on to are addresses *)
(* of T, and is_empty is set only if there are no lines. The invariant     *)
(* says that some texts T and T0 make the state safe.                      *)
(*                                                                         *)
(* The refinement needs no other invariant. Each step says, besides, what  *)
(* it makes of the two texts (Edits): a command takes the text as T0 and   *)
(* changes it, or goes on changing it, or moves the dot; `u' exchanges the *)
(* texts; `E' drops both. Changed is the change: a range of lines replaced *)
(* by lines that were not allocated, or two neighbouring ranges exchanged. *)
(* These are the actions of LineEditor, once the view of a safe state is   *)
(* known to be T and T0: that is what undo_links () was proved to compute. *)
(***************************************************************************)
EXTENDS LineBuffer_lemmas, LineBufferView

USE DequeAssumption

----------------------------------------------------------------------------
(* What a command may make of the text. *)

\* T2 is T with lines i+1 to j replaced by n lines that are not in H.
RewrittenAt(T, T2, i, j, n, H) ==
  /\ i \in Nat /\ j \in Nat /\ n \in Nat /\ i <= j /\ j <= Len(T)
  /\ Len(T2) = Len(T) - (j - i) + n
  /\ \A x \in 1 .. i : T2[x] = T[x]
  /\ \A x \in i + 1 .. i + n : T2[x] \notin H
  /\ \A x \in 1 .. Len(T) - j : T2[i + n + x] = T[j + x]

\* T2 is T, perhaps with two neighbouring ranges exchanged.
Reordered(T, T2) ==
  \/ T2 = T
  \/ \E i, j, k \in Nat : i < j /\ j < k /\ k <= Len(T) /\ T2 = Swap(T, i, j, k)

\* What one command may make of the text.
Changed(T, T2, H) == (\E i, j, n : RewrittenAt(T, T2, i, j, n, H)) \/ Reordered(T, T2)

\* No line replaced by none, at any place.
LEMMA RewriteNone ==
  ASSUME NEW T, IsText(T), NEW a \in 0 .. Len(T), NEW H
  PROVE  RewrittenAt(T, T, a, a, 0, H)
  <1>1. Len(T) \in Nat /\ a \in Nat /\ a <= Len(T)
    BY TextFacts
  <1>2. Len(T) = Len(T) - (a - a) + 0 /\ a + 1 .. a + 0 = {}
    BY <1>1
  <1>3. \A x \in 1 .. Len(T) - a : T[a + 0 + x] = T[a + x]
    BY <1>1
  <1> QED
    BY <1>1, <1>2, <1>3 DEF RewrittenAt

\* Lines that are deleted are replaced by none.
LEMMA RewriteCut ==
  ASSUME NEW T, IsText(T), NEW i \in Nat, NEW j \in Nat, i <= j, j <= Len(T), NEW H
  PROVE  RewrittenAt(T, Cut(T, i, j), i, j, 0, H)
  <1>1. Len(T) \in Nat
    BY TextFacts
  <1>2. PICK C : C = Cut(T, i, j)
    OBVIOUS
  <1>3. Len(C) = Len(T) - (j - i)
    BY <1>2, CutText
  <1>4. \A x \in 1 .. Len(T) - (j - i) : C[x] = IF x <= i THEN T[x] ELSE T[x + (j - i)]
    BY <1>2 DEF Cut
  <1>5. \A x \in 1 .. i : C[x] = T[x]
    BY <1>1, <1>4
  <1>6. ASSUME NEW x \in 1 .. Len(T) - j PROVE C[i + 0 + x] = T[j + x]
    <2>1. i + 0 + x \in 1 .. Len(T) - (j - i) /\ ~ (i + 0 + x <= i) /\ i + 0 + x + (j - i) = j + x
      BY <1>1
    <2> QED
      BY <1>4, <2>1
  <1>7. i + 1 .. i + 0 = {} /\ Len(C) = Len(T) - (j - i) + 0
    BY <1>1, <1>3
  <1> QED
    BY <1>2, <1>5, <1>6, <1>7 DEF RewrittenAt

\* One more line after those that replace the others.
LEMMA RewriteMore ==
  ASSUME NEW T, IsText(T), NEW U, IsText(U), NEW i, NEW j, NEW n, NEW H,
         RewrittenAt(T, U, i, j, n, H), NEW m, m \notin H, NEW a, a = i + n,
         Len(Insert(U, a, m)) = Len(U) + 1
  PROVE  RewrittenAt(T, Insert(U, a, m), i, j, n + 1, H)
  <1>1. Len(T) \in Nat /\ Len(U) \in Nat
    BY TextFacts
  <1>2. /\ i \in Nat /\ j \in Nat /\ n \in Nat /\ i <= j /\ j <= Len(T)
        /\ Len(U) = Len(T) - (j - i) + n
        /\ \A x \in 1 .. i : U[x] = T[x]
        /\ \A x \in i + 1 .. i + n : U[x] \notin H
        /\ \A x \in 1 .. Len(T) - j : U[i + n + x] = T[j + x]
    BY DEF RewrittenAt
  <1>3. PICK V : V = Insert(U, a, m)
    OBVIOUS
  <1>4. \A x \in 1 .. Len(U) + 1 : V[x] = IF x <= a THEN U[x] ELSE IF x = a + 1 THEN m ELSE U[x - 1]
    BY <1>3 DEF Insert
  <1>5. ASSUME NEW x \in 1 .. i PROVE V[x] = T[x]
    <2>1. x \in 1 .. Len(U) + 1 /\ x <= a
      BY <1>1, <1>2
    <2> QED
      BY <1>2, <1>4, <2>1
  <1>6. ASSUME NEW x \in i + 1 .. i + (n + 1) PROVE V[x] \notin H
    <2>1. x \in 1 .. Len(U) + 1
      BY <1>1, <1>2
    <2>2. CASE x <= a
      <3>1. x \in i + 1 .. i + n
        BY <1>2, <2>2
      <3> QED
        BY <1>2, <1>4, <2>1, <2>2, <3>1
    <2>3. CASE x = a + 1
      <3>1. ~ (x <= a)
        BY <1>2, <2>3
      <3> QED
        BY <1>4, <2>1, <2>3, <3>1
    <2>4. x <= a \/ x = a + 1
      BY <1>2
    <2> QED
      BY <2>2, <2>3, <2>4
  <1>7. ASSUME NEW x \in 1 .. Len(T) - j PROVE V[i + (n + 1) + x] = T[j + x]
    <2>1. PICK y : y = i + (n + 1) + x
      OBVIOUS
    <2>2. y \in 1 .. Len(U) + 1 /\ ~ (y <= a) /\ y # a + 1 /\ y - 1 = i + n + x
      BY <1>1, <1>2, <2>1
    <2>3. V[y] = U[i + n + x]
      BY <1>4, <2>2
    <2> QED
      BY <1>2, <2>1, <2>3
  <1>8. n + 1 \in Nat /\ Len(V) = Len(T) - (j - i) + (n + 1)
    BY <1>1, <1>2, <1>3
  <1> QED
    BY <1>2, <1>3, <1>5, <1>6, <1>7, <1>8 DEF RewrittenAt

\* Lines deleted and then others added at the same place.
LEMMA RewriteCutMore ==
  ASSUME NEW T, IsText(T), NEW i \in Nat, NEW j \in Nat, i <= j, j <= Len(T),
         NEW U, NEW n, NEW H, RewrittenAt(Cut(T, i, j), U, i, i, n, H)
  PROVE  RewrittenAt(T, U, i, j, n, H)
  <1>1. Len(T) \in Nat
    BY TextFacts
  <1>2. PICK C : C = Cut(T, i, j)
    OBVIOUS
  <1>3. Len(C) = Len(T) - (j - i)
    BY <1>2, CutText
  <1>4. RewrittenAt(C, U, i, i, n, H)
    BY <1>2
  <1>5. /\ n \in Nat
        /\ Len(U) = Len(C) - (i - i) + n
        /\ \A x \in 1 .. i : U[x] = C[x]
        /\ \A x \in i + 1 .. i + n : U[x] \notin H
        /\ \A x \in 1 .. Len(C) - i : U[i + n + x] = C[i + x]
    BY <1>4 DEF RewrittenAt
  <1>6. \A x \in 1 .. Len(T) - (j - i) : C[x] = IF x <= i THEN T[x] ELSE T[x + (j - i)]
    BY <1>2 DEF Cut
  <1>7. \A x \in 1 .. i : U[x] = T[x]
    BY <1>1, <1>5, <1>6
  <1>8. ASSUME NEW x \in 1 .. Len(T) - j PROVE U[i + n + x] = T[j + x]
    <2>1. x \in 1 .. Len(C) - i
      BY <1>1, <1>3
    <2>2. i + x \in 1 .. Len(T) - (j - i) /\ ~ (i + x <= i) /\ i + x + (j - i) = j + x
      BY <1>1
    <2>3. C[i + x] = T[j + x]
      BY <1>6, <2>2
    <2> QED
      BY <1>5, <2>1, <2>3
  <1>9. Len(U) = Len(T) - (j - i) + n
    BY <1>1, <1>3, <1>5
  <1> QED
    BY <1>5, <1>7, <1>8, <1>9 DEF RewrittenAt

\* Lines that are new to H are new to any part of it.
LEMMA ChangedFewer ==
  ASSUME NEW T, NEW T2, NEW H, NEW K, Changed(T, T2, H), K \subseteq H
  PROVE  Changed(T, T2, K)
  <1>1. ASSUME NEW i, NEW j, NEW n, RewrittenAt(T, T2, i, j, n, H)
        PROVE  RewrittenAt(T, T2, i, j, n, K)
    <2>1. \A x \in i + 1 .. i + n : T2[x] \notin K
      BY <1>1 DEF RewrittenAt
    <2> QED
      BY <1>1, <2>1 DEF RewrittenAt
  <1> QED
    BY <1>1 DEF Changed

\* One line added, lines deleted, nothing changed.
LEMMA ChangedNone ==
  ASSUME NEW T, NEW H
  PROVE  Changed(T, T, H)
  BY DEF Changed, Reordered

\* Lines deleted.
LEMMA ChangedCut ==
  ASSUME NEW T, IsText(T), NEW i \in Nat, NEW j \in Nat, i <= j, j <= Len(T), NEW H
  PROVE  Changed(T, Cut(T, i, j), H)
  BY RewriteCut DEF Changed

\* One line added.
LEMMA ChangedInsert ==
  ASSUME NEW T, IsText(T), NEW a \in 0 .. Len(T), NEW m, NEW H, m \notin H,
         Len(Insert(T, a, m)) = Len(T) + 1
  PROVE  Changed(T, Insert(T, a, m), H)
  <1>1. Len(T) \in Nat
    BY TextFacts
  <1>2. RewrittenAt(T, T, a, a, 0, H) /\ a = a + 0
    BY <1>1, RewriteNone
  <1>3. RewrittenAt(T, Insert(T, a, m), a, a, 0 + 1, H)
    BY <1>2, RewriteMore
  <1> QED
    BY <1>3 DEF Changed

----------------------------------------------------------------------------
(* Sound: what every routine of the line buffer preserves. *)

StOK(st) == st.is_empty => st.lines = 0

\* The state `u' goes back to is one of the text it goes back to.
SavedOK(st, T0) ==
  st = NoState \/ /\ st.dot \in 0 .. Len(T0) /\ st.lines = Len(T0) /\ StOK(st)

\* The lines that a global command has yet to visit are lines of the text.
GbLive(gb, T) ==
  /\ GbShape(gb)
  /\ \A i \in gb.ptr .. Len(gb.lbuf) : gb.lbuf[i] \in ToSet(T) \cup {Nil}

\* What every routine preserves.
Sound(e, T, T0) ==
  /\ Held(e, T, T0) /\ Walk(e, T) /\ e.st.dot \in 0 .. Len(T) /\ SavedOK(e.saved, T0)
  /\ e.global => GbLive(e.gb, T)

\* What a sound buffer is made of.
LEMMA SoundParts ==
  ASSUME NEW e, NEW T, NEW T0, Sound(e, T, T0)
  PROVE  /\ e \in Buffer /\ MarksOK(e) /\ Deque(e.undo, e.forw, e.back, e.heap, T, T0)
         /\ Held(e, T, T0) /\ Walk(e, T) /\ IsText(T) /\ Ring(e.forw, e.back, T)
         /\ Len(T) \in Nat /\ e.st \in State /\ e.st.lines = Len(T) /\ e.st.dot \in 0 .. Len(T)
         /\ ToSet(T) \subseteq e.heap /\ e.undo \in Seq(Entry) /\ e.gb \in GlobalBuffer
         /\ e.saved \in State /\ e.heap \subseteq Node /\ SavedOK(e.saved, T0)
         /\ e.global \in BOOLEAN
         /\ e.global => GbLive(e.gb, T)
  <1>1. /\ Held(e, T, T0) /\ Walk(e, T) /\ e.st.dot \in 0 .. Len(T) /\ SavedOK(e.saved, T0)
        /\ e.global => GbLive(e.gb, T)
    BY DEF Sound
  <1>2. e \in Buffer /\ MarksOK(e) /\ Deque(e.undo, e.forw, e.back, e.heap, T, T0)
    BY <1>1 DEF Held
  <1>3. IsText(T) /\ Ring(e.forw, e.back, T) /\ ToSet(T) \subseteq e.heap
    BY <1>2, DequeParts
  <1>4. Len(T) \in Nat /\ e.st.lines = Len(T)
    BY <1>1, WalkFacts
  <1>5. /\ e.st \in State /\ e.undo \in Seq(Entry) /\ e.gb \in GlobalBuffer
        /\ e.saved \in State /\ e.heap \subseteq Node /\ e.global \in BOOLEAN
    BY <1>2 DEF Buffer
  <1> QED
    BY <1>1, <1>2, <1>3, <1>4, <1>5

\* Moving the cached position changes nothing of this.
LEMMA SoundSought ==
  ASSUME NEW e, NEW T, NEW T0, Sound(e, T, T0), NEW r, NEW n, Sought(e, r, T, n)
  PROVE  Sound(r, T, T0)
  <1>1. /\ Walk(r, T) /\ r \in Buffer /\ r.forw = e.forw /\ r.back = e.back /\ r.heap = e.heap
        /\ r.st = e.st /\ r.saved = e.saved /\ r.mark = e.mark /\ r.marks = e.marks
        /\ r.gb = e.gb /\ r.global = e.global /\ r.undo = e.undo
    BY DEF Sought, Walk, SameLines, SameButUndo
  <1>2. MarksOK(r)
    <2>1. Marked(r) = Marked(e)
      BY <1>1 DEF Marked
    <2> QED
      BY <1>1, <2>1, SoundParts DEF MarksOK
  <1>3. Held(r, T, T0)
    BY <1>1, <1>2, SoundParts DEF Held
  <1> QED
    BY <1>1, <1>3, SoundParts DEF Sound

\* get_line_node () keeps the buffer sound.
LEMMA GetSound ==
  ASSUME NEW e, NEW T, NEW T0, Sound(e, T, T0), NEW n \in 0 .. Len(T)
  PROVE  Sound(get_line_node(e, n), T, T0) /\ Sought(e, get_line_node(e, n), T, n)
  <1>1. Sought(e, get_line_node(e, n), T, n)
    BY SoundParts, GetLine
  <1> QED
    BY <1>1, SoundSought

----------------------------------------------------------------------------
\* The lines from .. to have been deleted.
Lost(e, r, T, T0, from, to) ==
  /\ Sound(r, Cut(T, from - 1, to), T0)
  /\ r.st.dot = from - 1 /\ r.st.lines = Len(T) - (to - from + 1)
  /\ r.st.is_empty = e.st.is_empty
  /\ r.saved = e.saved /\ r.global = e.global /\ r.heap = e.heap
  /\ r.mark = e.mark

\* The record after its lines lo+1 to hi have been unlinked.
Cutting(e, a, gb, st) == [LINK_NODES(e, e.lp, a) EXCEPT !.gb = gb, !.st = st]
CutFrom(e, r, a, gb, st) ==
  /\ r \in Buffer /\ r.gb = gb /\ r.st = st
  /\ r.forw = [e.forw EXCEPT ![e.lp] = a] /\ r.back = [e.back EXCEPT ![a] = e.lp]
  /\ r.heap = e.heap /\ r.saved = e.saved /\ r.lp = e.lp
  /\ r.n_prev = e.n_prev /\ r.undo = e.undo /\ r.mark = e.mark /\ r.marks = e.marks
  /\ r.global = e.global

\* The fields after lines have been unlinked.
LEMMA CutFields ==
  ASSUME NEW e \in Buffer, NEW a \in Link, NEW gb \in GlobalBuffer, NEW st \in State
  PROVE  CutFrom(e, Cutting(e, a, gb, st), a, gb, st)
  <1>1. PICK s : s = LINK_NODES(e, e.lp, a)
    OBVIOUS
  <1>2. e.lp \in Link
    BY DEF Buffer
  <1>3. LinkedIn(e, s, e.lp, a)
    BY <1>1, <1>2, LinkFields
  <1>4. PICK r : r = [s EXCEPT !.gb = gb, !.st = st]
    OBVIOUS
  <1>5. s \in Buffer
    BY <1>3 DEF LinkedIn
  <1>6. /\ r \in Buffer /\ r.gb = gb /\ r.st = st /\ r.forw = s.forw /\ r.back = s.back
        /\ r.heap = s.heap /\ r.saved = s.saved /\ r.lp = s.lp
        /\ r.n_prev = s.n_prev /\ r.undo = s.undo /\ r.mark = s.mark /\ r.marks = s.marks
        /\ r.global = s.global
    BY <1>4, <1>5 DEF Buffer
  <1>7. CutFrom(e, r, a, gb, st)
    BY <1>3, <1>6 DEF CutFrom, LinkedIn, SameButLinks
  <1> QED
    BY <1>1, <1>4, <1>7 DEF Cutting

\* A global command does not visit lines that have been deleted.
LEMMA CutLive ==
  ASSUME NEW T, IsText(T), NEW i \in Nat, NEW j \in Nat, i < j, j <= Len(T),
         NEW gb, GbLive(gb, T), NEW N, N = Lines(T, i, j), NEW r, GbCleared(gb, r, N)
  PROVE  GbLive(r, Cut(T, i, j))
  <1>1. \A n : n \in ToSet(Cut(T, i, j)) <=> n \in ToSet(T) /\ n \notin N
    BY CutSet
  <1>2. ASSUME NEW x \in r.ptr .. Len(r.lbuf) PROVE r.lbuf[x] \in ToSet(Cut(T, i, j)) \cup {Nil}
    <2>1. x \in gb.ptr .. Len(gb.lbuf)
      BY DEF GbCleared
    <2>2. gb.ptr \in Nat \ {0} /\ Len(gb.lbuf) \in Nat
      BY DEF GbLive, GbShape, GlobalBuffer
    <2>3. x \in 1 .. Len(gb.lbuf)
      BY <2>1, <2>2
    <2>4. r.lbuf[x] = IF gb.lbuf[x] \in N THEN Nil ELSE gb.lbuf[x]
      BY <2>3 DEF GbCleared
    <2>5. gb.lbuf[x] \in ToSet(T) \cup {Nil}
      BY <2>1 DEF GbLive
    <2> QED
      BY <1>1, <2>4, <2>5
  <1>3. GbShape(r)
    BY DEF GbCleared
  <1> QED
    BY <1>2, <1>3 DEF GbLive

----------------------------------------------------------------------------
(* delete_lines (). *)

\* The global command buffer after lines i+1 to j have been deleted.
CutBuffer(e, T, i, j, gb) ==
  /\ gb \in GlobalBuffer
  /\ e.global => GbLive(gb, Cut(T, i, j))

\* unlink_lines () links the neighbours of the range and clears it in the global buffer.
LEMMA UnlinkLines ==
  ASSUME NEW e, NEW T, Walk(e, T), e.global => GbLive(e.gb, T),
         NEW from \in 1 .. Len(T), NEW to \in from .. Len(T),
         e.n_prev = from - 1, NEW a, a = At(T, to + 1)
  PROVE  \E gb, st : /\ unlink_lines(e, a, from, to) = Cutting(e, a, gb, st)
                     /\ CutBuffer(e, T, from - 1, to, gb)
                     /\ st \in State /\ st.dot = from - 1
                     /\ st.lines = e.st.lines - (to - from + 1)
                     /\ st.is_empty = e.st.is_empty
  <1>1. /\ e \in Buffer /\ IsText(T) /\ Ring(e.forw, e.back, T) /\ e.lp = At(T, e.n_prev)
        /\ Len(T) \in Nat
    BY TextFacts DEF Walk
  <1>2. PICK i : i = from - 1
    OBVIOUS
  <1>3. i \in Nat /\ i < to /\ i \in 0 .. Len(T) /\ to \in i .. Len(T) /\ to <= Len(T) /\ to \in Nat
        /\ i + 1 = from
    BY <1>1, <1>2
  <1>4. PICK nodes : nodes = Chain(e.forw, e.forw[e.lp], a)
    OBVIOUS
  <1>5. nodes = Part(T, i, to - i)
    <2>1. \A x \in i + 1 .. to : e.forw[T[x]] = At(T, x + 1)
      <3>1. ASSUME NEW x \in i + 1 .. to PROVE e.forw[T[x]] = At(T, x + 1)
        <4>1. x \in 0 .. Len(T) /\ x \in 1 .. Len(T)
          BY <1>1, <1>3
        <4>2. At(T, x) = T[x]
          BY <1>1, <4>1, TextFacts
        <4> QED
          BY <1>1, <4>1, <4>2 DEF Ring
      <3> QED
        BY <3>1
    <2>2. Chain(e.forw, At(T, i + 1), At(T, to + 1)) = Part(T, i, to - i)
      BY <1>1, <1>3, <2>1, ChainIs
    <2>3. e.forw[e.lp] = At(T, i + 1)
      BY <1>1, <1>2, <1>3 DEF Ring
    <2> QED
      BY <1>4, <2>2, <2>3
  <1>6. nodes \in Seq(Node) /\ ToSet(nodes) = Lines(T, i, to)
    <2>1. to - i \in Nat /\ i + (to - i) = to /\ i + (to - i) <= Len(T)
      BY <1>1, <1>3
    <2> QED
      BY <1>1, <1>3, <1>5, <2>1, PartFacts
  <1>7. PICK gb : gb = IF e.global THEN clear_global_lines(e.gb, nodes) ELSE e.gb
    OBVIOUS
  <1>8. CutBuffer(e, T, i, to, gb)
    <2>1. CASE ~ e.global
      <3>1. gb = e.gb /\ e.gb \in GlobalBuffer
        BY <1>1, <1>7, <2>1 DEF Buffer
      <3> QED
        BY <2>1, <3>1 DEF CutBuffer
    <2>2. CASE e.global
      <3>1. GbLive(e.gb, T) /\ GbShape(e.gb)
        BY <2>2 DEF GbLive
      <3>2. GbCleared(e.gb, gb, ToSet(nodes))
        BY <1>6, <1>7, <2>2, <3>1, ClearLines
      <3>3. PICK N, old : N = Lines(T, i, to) /\ old = e.gb
        OBVIOUS
      <3>4. GbCleared(old, gb, N) /\ GbLive(old, T)
        BY <1>6, <3>1, <3>2, <3>3
      <3>5. GbLive(gb, Cut(T, i, to))
        BY <1>1, <1>3, <3>3, <3>4, CutLive
      <3>6. gb \in GlobalBuffer
        BY <3>5 DEF GbLive, GbShape
      <3> QED
        BY <3>5, <3>6 DEF CutBuffer
    <2> QED
      BY <2>1, <2>2
  <1>9. PICK st : st = [e.st EXCEPT !.lines = @ - (to - from + 1), !.dot = from - 1]
    OBVIOUS
  <1>10. /\ st \in State /\ st.dot = from - 1 /\ st.lines = e.st.lines - (to - from + 1)
         /\ st.is_empty = e.st.is_empty
    <2>1. PICK s : s = e.st /\ s \in State
      BY <1>1 DEF Buffer
    <2>2. PICK n, d : n = s.lines - (to - from + 1) /\ d = from - 1
      OBVIOUS
    <2>3. n \in Int /\ d \in Int
      BY <1>3, <2>1, <2>2 DEF State
    <2>4. st = [s EXCEPT !.lines = n, !.dot = d]
      BY <1>9, <2>1, <2>2
    <2>5. st \in State /\ st.dot = d /\ st.lines = n /\ st.is_empty = s.is_empty
      BY <2>1, <2>3, <2>4 DEF State
    <2> QED
      BY <2>1, <2>2, <2>5
  <1>11. unlink_lines(e, a, from, to) = Cutting(e, a, gb, st)
    <2>1. PICK s : s = LINK_NODES(e, e.lp, a)
      OBVIOUS
    <2>2. s \in Buffer /\ s.st = e.st /\ s.gb = e.gb
      <3>1. e.lp \in Link /\ a \in Link
        BY <1>1, <1>3, TextFacts DEF Buffer
      <3>2. LinkedIn(e, s, e.lp, a)
        BY <1>1, <2>1, <3>1, LinkFields
      <3> QED
        BY <3>2 DEF LinkedIn, SameButLinks
    <2>3. unlink_lines(e, a, from, to) =
            [s EXCEPT !.gb = IF e.global THEN clear_global_lines(@, nodes) ELSE @,
                      !.st.lines = @ - (to - from + 1), !.st.dot = from - 1]
      BY <1>4, <2>1 DEF unlink_lines
    <2>4. [s EXCEPT !.gb = IF e.global THEN clear_global_lines(@, nodes) ELSE @,
                    !.st.lines = @ - (to - from + 1), !.st.dot = from - 1] =
          [s EXCEPT !.gb = IF e.global THEN clear_global_lines(s.gb, nodes) ELSE s.gb,
                    !.st = [s.st EXCEPT !.lines = @ - (to - from + 1), !.dot = from - 1]]
      BY <2>2 DEF Buffer
    <2>5. [s EXCEPT !.gb = IF e.global THEN clear_global_lines(s.gb, nodes) ELSE s.gb,
                    !.st = [s.st EXCEPT !.lines = @ - (to - from + 1), !.dot = from - 1]]
          = [s EXCEPT !.gb = gb, !.st = st]
      BY <1>7, <1>9, <2>2
    <2> QED
      BY <2>1, <2>3, <2>4, <2>5 DEF Cutting
  <1> QED
    BY <1>2, <1>8, <1>10, <1>11

\* delete_lines () deletes the lines asked for, and no other.
LEMMA DeleteLines ==
  ASSUME NEW e, NEW T, NEW T0, Sound(e, T, T0),
         NEW from \in 1 .. Len(T), NEW to \in from .. Len(T)
  PROVE  Lost(e, delete_lines(e, from, to), T, T0, from, to)
  <1>1. /\ e \in Buffer /\ MarksOK(e) /\ Deque(e.undo, e.forw, e.back, e.heap, T, T0)
        /\ Walk(e, T) /\ IsText(T) /\ Ring(e.forw, e.back, T)
        /\ Len(T) \in Nat /\ e.st \in State /\ e.st.lines = Len(T)
        /\ e.undo \in Seq(Entry) /\ SavedOK(e.saved, T0)
        /\ (e.global => GbLive(e.gb, T))
    BY SoundParts
  <1>2. PICK i : i = from - 1
    OBVIOUS
  <1>3. /\ i \in Nat /\ i < to /\ i \in 0 .. Len(T) /\ to <= Len(T) /\ to \in Nat
        /\ i + 1 = from /\ from \in 0 .. Len(T) /\ to \in 0 .. Len(T) /\ from \in Nat
        /\ to \in 1 .. Len(T)
    BY <1>1, <1>2
  <1>4. PICK v : v = UndoEntry("UDEL", T[from], T[to])
    OBVIOUS
  <1>5. At(T, from) = T[from] /\ At(T, to) = T[to] /\ T[from] \in Link /\ T[to] \in Link
    BY <1>1, <1>3, TextFacts
  <1>6. v \in Entry /\ v.type = "UDEL" /\ v.h = T[from] /\ v.t = T[to]
    BY <1>4, <1>5, EntryFields
  <1>7. PICK e1 : e1 = append_undo_node(e, "UDEL", from, to)
    OBVIOUS
  <1>8. Queued(e, e1, T, v, to)
    <2>1. Queued(e, append_undo_node(e, "UDEL", from, to), T,
                 UndoEntry("UDEL", At(T, from), At(T, to)), to)
      BY <1>1, <1>3, QueueEntry
    <2> QED
      BY <1>4, <1>5, <1>7, <2>1
  <1>9. PICK n2 : n2 = INC_MOD(to, e.st.lines)
    OBVIOUS
  <1>10. n2 \in 0 .. Len(T) /\ At(T, n2) = At(T, to + 1)
    <2>1. At(T, Len(T) + 1) = 0 /\ At(T, 0) = 0
      BY <1>1, TextFacts
    <2>2. CASE to = Len(T)
      BY <1>1, <1>9, <2>1, <2>2 DEF INC_MOD
    <2>3. CASE to # Len(T)
      BY <1>1, <1>3, <1>9, <2>3 DEF INC_MOD
    <2> QED
      BY <2>2, <2>3
  <1>11. PICK e2 : e2 = get_line_node(e1, n2)
    OBVIOUS
  <1>12. Sought(e1, e2, T, n2)
    <2>1. Walk(e1, T)
      BY <1>8 DEF Queued
    <2> QED
      BY <1>10, <1>11, <2>1, GetLine
  <1>13. PICK e3 : e3 = get_line_node(e2, i)
    OBVIOUS
  <1>14. Sought(e2, e3, T, i)
    <2>1. Walk(e2, T)
      BY <1>12 DEF Sought
    <2> QED
      BY <1>3, <1>13, <2>1, GetLine
  <1>15. /\ Walk(e3, T) /\ e3.n_prev = i /\ e3.lp = At(T, i) /\ e2.lp = At(T, to + 1)
         /\ e3.undo = Append(e.undo, v) /\ SameButUndo(e, e3)
    BY <1>8, <1>10, <1>12, <1>14 DEF Queued, Sought, SameLines, SameButUndo
  <1>16. PICK a, r : a = e2.lp /\ r = unlink_lines(e3, a, from, to)
    OBVIOUS
  <1>17. delete_lines(e, from, to) = r
    BY <1>2, <1>7, <1>9, <1>11, <1>13, <1>16 DEF delete_lines, unlink_before
  <1>18. PICK gb, st : /\ r = Cutting(e3, a, gb, st)
                       /\ CutBuffer(e3, T, i, to, gb)
                       /\ st \in State /\ st.dot = from - 1
                       /\ st.lines = e3.st.lines - (to - from + 1)
                       /\ st.is_empty = e3.st.is_empty
    <2>1. e3.n_prev = from - 1 /\ a = At(T, to + 1) /\ (e3.global => GbLive(e3.gb, T))
      BY <1>1, <1>2, <1>15, <1>16 DEF SameButUndo
    <2>2. \E gb, st : /\ unlink_lines(e3, a, from, to) = Cutting(e3, a, gb, st)
                     /\ CutBuffer(e3, T, from - 1, to, gb)
                     /\ st \in State /\ st.dot = from - 1
                     /\ st.lines = e3.st.lines - (to - from + 1)
                     /\ st.is_empty = e3.st.is_empty
      BY <1>15, <2>1, UnlinkLines
    <2> QED
      BY <1>2, <1>16, <2>2
  <1>19. CutFrom(e3, r, a, gb, st)
    <2>1. e3 \in Buffer /\ a \in Link /\ gb \in GlobalBuffer
      BY <1>1, <1>3, <1>15, <1>16, <1>18, TextFacts DEF Walk, CutBuffer
    <2> QED
      BY <1>18, <2>1, CutFields
  <1>20. PICK f, b, f2, b2, C : /\ f = e.forw /\ b = e.back /\ f2 = r.forw /\ b2 = r.back
                                /\ C = Cut(T, i, to)
    OBVIOUS
  <1>21. /\ f \in [Link -> Link] /\ b \in [Link -> Link]
         /\ f2 = [f EXCEPT ![At(T, i)] = At(T, to + 1)]
         /\ b2 = [b EXCEPT ![At(T, to + 1)] = At(T, i)]
    BY <1>1, <1>15, <1>16, <1>19, <1>20 DEF CutFrom, SameButUndo, Buffer
  <1>22. At(T, i) \in Link /\ At(T, to + 1) \in Link
    BY <1>1, <1>3, TextFacts
  <1>23. /\ f2 \in [Link -> Link] /\ b2 \in [Link -> Link]
         /\ f2[At(T, i)] = At(T, to + 1) /\ Same(f, f2, {At(T, i)})
         /\ b2[At(T, to + 1)] = At(T, i) /\ Same(b, b2, {At(T, to + 1)})
    BY <1>21, <1>22 DEF Same
  <1>24. Deque(Append(e.undo, v), f2, b2, e.heap, C, T0)
    <2>1. PICK q, heap : q = e.undo /\ heap = e.heap
      OBVIOUS
    <2>2. Deque(q, f, b, heap, T, T0)
      BY <1>1, <1>20, <2>1
    <2>3. v.h = T[i + 1] /\ v.t = T[to] /\ v \in Entry /\ v.type = "UDEL"
      BY <1>3, <1>6
    <2>4. Deque(Append(q, v), f2, b2, heap, Cut(T, i, to), T0)
      BY <1>3, <1>23, <2>2, <2>3, DelLines
    <2> QED
      BY <1>20, <2>1, <2>4
  <1>25. /\ r.undo = Append(e.undo, v) /\ r.heap = e.heap /\ r.saved = e.saved /\ r.mark = e.mark
         /\ r.marks = e.marks /\ r.global = e.global /\ r.gb = gb /\ r.st = st /\ r \in Buffer
         /\ r.lp = At(T, i) /\ r.n_prev = i /\ e3.st = e.st /\ e3.global = e.global
    BY <1>15, <1>19 DEF CutFrom, SameButUndo
  <1>26. IsText(C) /\ Len(C) = Len(T) - (to - i) /\ At(C, i) = At(T, i)
    <2>1. i <= to /\ i \in 0 .. i
      BY <1>3
    <2> QED
      <3>1. /\ IsText(Cut(T, i, to)) /\ Len(Cut(T, i, to)) = Len(T) - (to - i)
            /\ \A x \in 0 .. i : At(Cut(T, i, to), x) = At(T, x)
        BY <1>1, <1>3, <2>1, CutText
      <3> QED
        BY <1>20, <2>1, <3>1
  <1>27. Deque(r.undo, r.forw, r.back, r.heap, C, T0)
    BY <1>20, <1>24, <1>25
  <1>28. MarksOK(r)
    <2>1. Marked(r) = Marked(e)
      BY <1>25 DEF Marked
    <2> QED
      BY <1>1, <1>25, <2>1 DEF MarksOK
  <1>29. st.lines = Len(C) /\ st.lines = Len(T) - (to - from + 1) /\ i \in 0 .. Len(C)
    BY <1>1, <1>2, <1>3, <1>18, <1>25, <1>26
  <1>30. Walk(r, C)
    <2>1. Ring(r.forw, r.back, C)
      BY <1>27, DequeParts
    <2> QED
      BY <1>25, <1>26, <1>29, <2>1 DEF Walk
  <1>31. Sound(r, C, T0)
    <2>1. r.st.dot \in 0 .. Len(C)
      BY <1>2, <1>18, <1>25, <1>29
    <2>2. SavedOK(r.saved, T0)
      BY <1>1, <1>25
    <2>3. r.global => GbLive(r.gb, C)
      BY <1>18, <1>20, <1>25 DEF CutBuffer
    <2> QED
      BY <1>25, <1>27, <1>28, <1>30, <2>1, <2>2, <2>3 DEF Sound, Held
  <1>32. Lost(e, r, T, T0, from, to)
    BY <1>2, <1>18, <1>20, <1>25, <1>29, <1>31 DEF Lost
  <1> QED
    BY <1>17, <1>32

----------------------------------------------------------------------------
(* A line is added, looked up, and noted in the undo queue. *)

\* A line has been added after line a and is the current one; no entry of the
\* undo queue says so yet.
Fresh(e, r, T, a, n) ==
  /\ Pending(e, r, T, a, n) /\ MarksOK(r)
  /\ r.st.dot = a + 1 /\ r.st.is_empty = e.st.is_empty
  /\ r.saved = e.saved /\ r.gb = e.gb /\ r.global = e.global

Pointed(e, d) == [e EXCEPT !.st.dot = d]
PointedAt(e, r, d) ==
  /\ r \in Buffer /\ r.st.dot = d /\ r.st.lines = e.st.lines /\ r.st.is_empty = e.st.is_empty
  /\ r.forw = e.forw /\ r.back = e.back /\ r.heap = e.heap /\ r.saved = e.saved
  /\ r.lp = e.lp /\ r.n_prev = e.n_prev /\ r.undo = e.undo /\ r.mark = e.mark
  /\ r.marks = e.marks /\ r.gb = e.gb /\ r.global = e.global

\* The fields after the current line has changed.
LEMMA PointFields ==
  ASSUME NEW e \in Buffer, NEW d \in Int
  PROVE  PointedAt(e, Pointed(e, d), d)
  <1>1. PICK s : s = e.st /\ s \in State
    BY DEF Buffer
  <1>2. PICK st : st = [s EXCEPT !.dot = d]
    OBVIOUS
  <1>3. st \in State /\ st.dot = d /\ st.lines = s.lines /\ st.is_empty = s.is_empty
    BY <1>1, <1>2 DEF State
  <1>4. PICK r : r = [e EXCEPT !.st = st]
    OBVIOUS
  <1>5. /\ r \in Buffer /\ r.st = st
        /\ r.forw = e.forw /\ r.back = e.back /\ r.heap = e.heap /\ r.saved = e.saved
        /\ r.lp = e.lp /\ r.n_prev = e.n_prev /\ r.undo = e.undo /\ r.mark = e.mark
        /\ r.marks = e.marks /\ r.gb = e.gb /\ r.global = e.global
    BY <1>3, <1>4 DEF Buffer
  <1>6. Pointed(e, d) = r
    BY <1>1, <1>2, <1>4 DEF Pointed
  <1> QED
    BY <1>1, <1>3, <1>5, <1>6 DEF PointedAt

\* The current line has to do with no link.
LEMMA PointWalk ==
  ASSUME NEW e, NEW T, Walk(e, T), NEW r, NEW d, PointedAt(e, r, d)
  PROVE  Walk(r, T)
  BY DEF Walk, PointedAt

\* A line is added after line a, the current line moves to it.
LEMMA FreshLine ==
  ASSUME NEW e, NEW T, NEW T0, Sound(e, T, T0), ~ malloc_fails(e), NEW a \in 0 .. Len(T)
  PROVE  Fresh(e, Pointed(append_line_node(e, a), a + 1), T, a, malloc(e))
  <1>1. PICK n, s : n = malloc(e) /\ s = append_line_node(e, a)
    OBVIOUS
  <1>2. MarksOK(e) /\ Walk(e, T) /\ ToSet(T) \subseteq e.heap /\ Len(T) \in Nat
    BY SoundParts
  <1>3. Inserted(e, s, T, a, n)
    BY <1>1, <1>2, AppendLine
  <1>4. PICK r, d : r = Pointed(s, d) /\ d = a + 1
    OBVIOUS
  <1>5. s \in Buffer /\ d \in Int
    BY <1>3, <1>4 DEF Inserted, Walk
  <1>6. PointedAt(s, r, d)
    BY <1>4, <1>5, PointFields
  <1>7. Walk(r, Insert(T, a, n))
    BY <1>3, <1>6, PointWalk DEF Inserted
  <1>8. Pending(e, r, T, a, n)
    BY <1>3, <1>6, <1>7 DEF Inserted, Pending, PointedAt
  <1>9. MarksOK(r)
    <2>1. r.mark = e.mark /\ r.marks = e.marks /\ r.heap = e.heap \cup {n}
      BY <1>3, <1>6 DEF Inserted, PointedAt
    <2>2. Marked(r) = Marked(e)
      BY <2>1 DEF Marked
    <2> QED
      BY <1>2, <2>1, <2>2 DEF MarksOK
  <1>10. Fresh(e, r, T, a, n)
    BY <1>3, <1>4, <1>6, <1>8, <1>9 DEF Fresh, Inserted, Grew, PointedAt
  <1> QED
    BY <1>1, <1>4, <1>10

\* put_buffer_line () adds a line after the current one, which it becomes.
LEMMA PutLine ==
  ASSUME NEW e, NEW T, NEW T0, Sound(e, T, T0), ~ malloc_fails(e)
  PROVE  Fresh(e, put_buffer_line(e), T, e.st.dot, malloc(e))
  <1>1. PICK a, s : a = e.st.dot /\ s = append_line_node(e, a)
    OBVIOUS
  <1>2. MarksOK(e) /\ Walk(e, T) /\ ToSet(T) \subseteq e.heap /\ Len(T) \in Nat /\ a \in 0 .. Len(T)
    BY <1>1, SoundParts
  <1>3. Inserted(e, s, T, a, malloc(e))
    BY <1>1, <1>2, AppendLine
  <1>4. PICK st : st = s.st /\ st \in State /\ st.dot = a /\ s \in Buffer
    BY <1>1, <1>3 DEF Inserted, Grew, Walk
  <1>5. put_buffer_line(e) = [s EXCEPT !.st.dot = @ + 1]
    BY <1>1 DEF put_buffer_line
  <1>6. [s EXCEPT !.st.dot = @ + 1] = [s EXCEPT !.st.dot = a + 1]
    BY <1>4 DEF State, Buffer
  <1>7. put_buffer_line(e) = Pointed(s, a + 1)
    BY <1>5, <1>6 DEF Pointed
  <1>8. Fresh(e, Pointed(s, a + 1), T, a, malloc(e))
    BY <1>1, <1>2, FreshLine
  <1> QED
    BY <1>1, <1>7, <1>8

FreshText(r, T, a, n) ==
  /\ IsText(Insert(T, a, n)) /\ Len(Insert(T, a, n)) = Len(T) + 1
  /\ At(Insert(T, a, n), a + 1) = n /\ a + 1 \in 0 .. Len(Insert(T, a, n))
  /\ At(Insert(T, a, n), a) = At(T, a) /\ Len(T) \in Nat
  /\ r.st.lines = Len(T) + 1

\* The text with the new line.
LEMMA FreshTextIs ==
  ASSUME NEW e, NEW T, NEW T0, Sound(e, T, T0), NEW a \in 0 .. Len(T), NEW r, NEW n,
         Pending(e, r, T, a, n)
  PROVE  FreshText(r, T, a, n)
  <1>1. IsText(T) /\ Len(T) \in Nat /\ ToSet(T) \subseteq e.heap
    BY SoundParts
  <1>2. n \in Node /\ n \notin e.heap /\ Walk(r, Insert(T, a, n))
    BY DEF Pending
  <1>3. \A x \in 1 .. Len(T) : T[x] # n
    BY <1>1, <1>2, OnText
  <1>4. PICK T2 : T2 = Insert(T, a, n)
    OBVIOUS
  <1>5. /\ IsText(T2) /\ Len(T2) = Len(T) + 1 /\ At(T2, a + 1) = n
        /\ \A x \in 0 .. a : At(T2, x) = At(T, x)
    BY <1>1, <1>2, <1>3, <1>4, InsertText
  <1>6. a \in 0 .. a /\ a + 1 \in 0 .. Len(T2)
    BY <1>1, <1>5
  <1>7. r.st.lines = Len(T2)
    BY <1>2, <1>4 DEF Walk
  <1>8. At(T2, a) = At(T, a)
    BY <1>5, <1>6
  <1> QED
    BY <1>1, <1>4, <1>5, <1>6, <1>7, <1>8 DEF FreshText

\* Looking up a line, the new one for example.
LEMMA FreshGet ==
  ASSUME NEW e, NEW T, NEW T0, Sound(e, T, T0), NEW a \in 0 .. Len(T), NEW r, NEW n,
         Fresh(e, r, T, a, n)
  PROVE  Fresh(e, get_line_node(r, a + 1), T, a, n) /\ get_line_node(r, a + 1).lp = n
  <1>1. PICK T2, s : T2 = Insert(T, a, n) /\ s = get_line_node(r, a + 1)
    OBVIOUS
  <1>2. Pending(e, r, T, a, n) /\ Walk(r, T2) /\ MarksOK(r)
    BY <1>1 DEF Fresh, Pending
  <1>3. a + 1 \in 0 .. Len(T2) /\ At(T2, a + 1) = n
    BY <1>1, <1>2, FreshTextIs DEF FreshText
  <1>4. Sought(r, s, T2, a + 1)
    BY <1>1, <1>2, <1>3, GetLine
  <1>5. Pending(e, s, T, a, n)
    BY <1>1, <1>2, <1>4, PendingSought
  <1>6. SameButUndo(r, s) /\ s.lp = n
    BY <1>3, <1>4 DEF Sought, SameLines
  <1>7. MarksOK(s)
    <2>1. Marked(s) = Marked(r)
      BY <1>6 DEF Marked, SameButUndo
    <2> QED
      BY <1>2, <1>6, <2>1 DEF MarksOK, SameButUndo
  <1>8. Fresh(e, s, T, a, n)
    BY <1>5, <1>6, <1>7 DEF Fresh, SameButUndo
  <1> QED
    BY <1>1, <1>6, <1>8

\* The marks of a line pass to the new one.
LEMMA FreshMarks ==
  ASSUME NEW e, NEW T, NEW a, NEW r, NEW n, Fresh(e, r, T, a, n), NEW lp \in Node
  PROVE  Fresh(e, transfer_marks(r, n, lp), T, a, n)
  <1>1. /\ n \in Node /\ n \notin e.heap /\ Walk(r, Insert(T, a, n)) /\ r \in Buffer
        /\ InsertedLinks(e.forw, e.back, r.forw, r.back, T, a, n)
        /\ r.heap = e.heap \cup {n} /\ r.undo = e.undo /\ MarksOK(r)
    BY DEF Fresh, Pending, Walk
  <1>2. PICK mk, c : mk = [m \in Mark |-> IF r.mark[m] = lp THEN n ELSE r.mark[m]] /\ c = r.marks
    OBVIOUS
  <1>3. mk \in [Mark -> Link \cup {Nil}] /\ c \in Nat
    <2>1. r.mark \in [Mark -> Link \cup {Nil}] /\ r.marks \in Nat
      BY <1>1 DEF Buffer
    <2> QED
      BY <1>1, <1>2, <2>1 DEF Node, Link
  <1>4. PICK s : s = [r EXCEPT !.mark = mk]
    OBVIOUS
  <1>5. /\ s \in Buffer /\ s.mark = mk /\ s.marks = r.marks /\ s.heap = r.heap
        /\ s.forw = r.forw /\ s.back = r.back /\ SameRest(r, s)
    BY <1>1, <1>3, <1>4 DEF Buffer, SameRest
  <1>6. transfer_marks(r, n, lp) = s
    BY <1>2, <1>4 DEF transfer_marks
  <1>7. MarksOK(s)
    <2>1. Marked(s) = Marked(r)
      BY <1>1, <1>2, <1>5 DEF Marked, Node, Nil
    <2>2. \A m \in Mark : s.mark[m] # Nil /\ s.mark[m] # 0 => s.mark[m] \in s.heap
      BY <1>1, <1>2, <1>5 DEF MarksOK
    <2> QED
      BY <1>1, <1>5, <2>1, <2>2 DEF MarksOK
  <1>8. Walk(s, Insert(T, a, n))
    BY <1>1, <1>5 DEF Walk, SameRest
  <1>9. Pending(e, s, T, a, n)
    BY <1>1, <1>5, <1>8 DEF Pending, SameRest
  <1>10. Fresh(e, s, T, a, n)
    BY <1>5, <1>7, <1>9 DEF Fresh, SameRest
  <1> QED
    BY <1>6, <1>10

\* The line n has been added after line a, and the undo queue says so.
Added(e, r, T, T0, a, n, up) ==
  /\ Sound(r, Insert(T, a, n), T0)
  /\ EndsAt(r.undo, IF up = 0 THEN Len(r.undo) ELSE up, Insert(T, a, n), a + 1)
  /\ r.st.dot = a + 1 /\ r.st.lines = Len(T) + 1 /\ r.st.is_empty = e.st.is_empty
  /\ r.saved = e.saved /\ r.global = e.global /\ r.heap = e.heap \cup {n} /\ n \notin e.heap

\* APPEND_UNDO_NODE () after it: the buffer is sound again.
LEMMA AddedLine ==
  ASSUME NEW e, NEW T, NEW T0, Sound(e, T, T0), NEW a \in 0 .. Len(T), NEW r, NEW n,
         Fresh(e, r, T, a, n), NEW up, UpAt(e.undo, T, up, a)
  PROVE  Added(e, APPEND_UNDO_NODE(r, n, up, a + 1), T, T0, a, n, up)
  <1>1. PICK s, T2 : s = APPEND_UNDO_NODE(r, n, up, a + 1) /\ T2 = Insert(T, a, n)
    OBVIOUS
  <1>2. Pending(e, r, T, a, n) /\ Walk(r, T2) /\ MarksOK(r) /\ r.heap = e.heap \cup {n}
    BY <1>1 DEF Fresh, Pending
  <1>3. /\ Held(e, T, T0) /\ IsText(T) /\ Len(T) \in Nat /\ SavedOK(e.saved, T0)
        /\ (e.global => GbLive(e.gb, T)) /\ ToSet(T) \subseteq e.heap
    BY SoundParts
  <1>4. Recorded(r, s, T2, T0, up, a + 1)
    BY <1>1, <1>2, <1>3, RecordLine
  <1>5. /\ Walk(s, T2) /\ SameButUndo(r, s) /\ Deque(s.undo, s.forw, s.back, s.heap, T2, T0)
        /\ EndsAt(s.undo, IF up = 0 THEN Len(s.undo) ELSE up, T2, a + 1)
    BY <1>4 DEF Recorded
  <1>6. FreshText(r, T, a, n)
    BY <1>2, FreshTextIs
  <1>7. MarksOK(s)
    <2>1. Marked(s) = Marked(r)
      BY <1>5 DEF Marked, SameButUndo
    <2> QED
      BY <1>2, <1>5, <2>1 DEF MarksOK, SameButUndo
  <1>8. /\ s.st.dot = a + 1 /\ s.st.is_empty = e.st.is_empty /\ s.saved = e.saved
        /\ s.gb = e.gb /\ s.global = e.global /\ s.heap = e.heap \cup {n} /\ s.st = r.st
    BY <1>2, <1>5 DEF SameButUndo, Fresh
  <1>9. e.global => GbLive(e.gb, T2)
    <2>1. \A x : x \in ToSet(T) => x \in ToSet(T2)
      <3>1. n \in Node /\ n \notin ToSet(T)
        BY <1>2, <1>3 DEF Pending
      <3> QED
        BY <1>1, <1>3, <3>1, OnText, InsertSet
    <2> QED
      BY <1>3, <2>1 DEF GbLive
  <1>10. Sound(s, T2, T0)
    <2>1. s \in Buffer /\ Held(s, T2, T0)
      BY <1>5, <1>7 DEF Held, Walk
    <2>2. s.st.dot \in 0 .. Len(T2)
      BY <1>1, <1>6, <1>8 DEF FreshText
    <2>3. s.global => GbLive(s.gb, T2)
      BY <1>8, <1>9
    <2>4. SavedOK(s.saved, T0)
      BY <1>3, <1>8
    <2> QED
      BY <1>5, <2>1, <2>2, <2>3, <2>4 DEF Sound
  <1>11. s.st.lines = Len(T) + 1
    BY <1>6, <1>8 DEF FreshText
  <1>12. Added(e, s, T, T0, a, n, up)
    <2>1. n \notin e.heap
      BY <1>2 DEF Pending
    <2> QED
      BY <1>1, <1>5, <1>8, <1>10, <1>11, <2>1 DEF Added
  <1> QED
    BY <1>1, <1>12

\* The text has one line more, of a node that was free.
LEMMA AddedChanges ==
  ASSUME NEW e, NEW T, NEW T0, Sound(e, T, T0), NEW a \in 0 .. Len(T), NEW r, NEW n, NEW up,
         Added(e, r, T, T0, a, n, up)
  PROVE  Changed(T, Insert(T, a, n), e.heap) /\ Len(Insert(T, a, n)) = Len(T) + 1
  <1>1. IsText(T) /\ Len(T) \in Nat
    BY SoundParts
  <1>2. PICK T2 : T2 = Insert(T, a, n)
    OBVIOUS
  <1>3. Sound(r, T2, T0) /\ r.st.lines = Len(T) + 1 /\ n \notin e.heap
    BY <1>2 DEF Added
  <1>4. Len(T2) = Len(T) + 1
    BY <1>3, SoundParts
  <1> QED
    BY <1>1, <1>2, <1>3, <1>4, ChangedInsert

----------------------------------------------------------------------------
(* What move_lines () leaves when it is done. *)

\* The nodes of a loop over neighbouring lines.
LEMMA ChainText ==
  ASSUME NEW T, IsText(T), NEW f, NEW b, Ring(f, b, T),
         NEW lo \in Nat, NEW hi \in Nat, lo <= hi, hi <= Len(T)
  PROVE  /\ Chain(f, f[At(T, lo)], At(T, hi + 1)) \in Seq(Node)
         /\ ToSet(Chain(f, f[At(T, lo)], At(T, hi + 1))) = Lines(T, lo, hi)
  <1>1. Len(T) \in Nat /\ \A x \in 1 .. Len(T) : At(T, x) = T[x]
    BY TextFacts
  <1>2. lo \in 0 .. Len(T) /\ hi \in lo .. Len(T) /\ hi - lo \in Nat /\ lo + (hi - lo) = hi
        /\ lo + (hi - lo) <= Len(T)
    BY <1>1
  <1>3. f[At(T, lo)] = At(T, lo + 1)
    BY <1>2 DEF Ring
  <1>4. ASSUME NEW x \in lo + 1 .. hi PROVE f[T[x]] = At(T, x + 1)
    <2>1. x \in 1 .. Len(T) /\ x \in 0 .. Len(T)
      BY <1>1, <1>2
    <2>2. At(T, x) = T[x]
      BY <1>1, <2>1
    <2> QED
      BY <2>1, <2>2 DEF Ring
  <1>5. Chain(f, At(T, lo + 1), At(T, hi + 1)) = Part(T, lo, hi - lo)
    BY <1>2, <1>4, ChainIs
  <1>6. Part(T, lo, hi - lo) \in Seq(Node) /\ ToSet(Part(T, lo, hi - lo)) = Lines(T, lo, hi)
    BY <1>2, PartFacts
  <1> QED
    BY <1>3, <1>5, <1>6

\* The current line and the global command buffer, changed.
Shifted(e, gb, d) == [e EXCEPT !.st.dot = d, !.gb = gb]
ShiftedTo(e, r, gb, d) ==
  /\ r \in Buffer /\ r.st.dot = d /\ r.st.lines = e.st.lines /\ r.st.is_empty = e.st.is_empty
  /\ r.forw = e.forw /\ r.back = e.back /\ r.heap = e.heap /\ r.saved = e.saved
  /\ r.lp = e.lp /\ r.n_prev = e.n_prev /\ r.undo = e.undo /\ r.mark = e.mark
  /\ r.marks = e.marks /\ r.gb = gb /\ r.global = e.global

\* The fields after the current line and the global buffer have changed.
LEMMA ShiftFields ==
  ASSUME NEW e \in Buffer, NEW gb \in GlobalBuffer, NEW d \in Int
  PROVE  ShiftedTo(e, Shifted(e, gb, d), gb, d)
  <1>1. PICK s : s = Pointed(e, d)
    OBVIOUS
  <1>2. PointedAt(e, s, d)
    BY <1>1, PointFields
  <1>3. PICK r : r = [s EXCEPT !.gb = gb]
    OBVIOUS
  <1>4. s \in Buffer
    BY <1>2 DEF PointedAt
  <1>5. /\ r \in Buffer /\ r.gb = gb /\ r.st = s.st
        /\ r.forw = s.forw /\ r.back = s.back /\ r.heap = s.heap /\ r.saved = s.saved
        /\ r.lp = s.lp /\ r.n_prev = s.n_prev /\ r.undo = s.undo /\ r.mark = s.mark
        /\ r.marks = s.marks /\ r.global = s.global
    BY <1>3, <1>4 DEF Buffer
  <1>6. Shifted(e, gb, d) = r
    BY <1>1, <1>3 DEF Shifted, Pointed
  <1>7. ShiftedTo(e, r, gb, d)
    BY <1>2, <1>5 DEF PointedAt, ShiftedTo
  <1> QED
    BY <1>6, <1>7

\* Clearing entries of the global command buffer keeps the others right.
LEMMA ClearedLive ==
  ASSUME NEW gb, NEW T, GbLive(gb, T), NEW r, NEW N, GbCleared(gb, r, N)
  PROVE  GbLive(r, T)
  <1>1. ASSUME NEW x \in r.ptr .. Len(r.lbuf) PROVE r.lbuf[x] \in ToSet(T) \cup {Nil}
    <2>1. x \in gb.ptr .. Len(gb.lbuf)
      BY DEF GbCleared
    <2>2. gb.ptr \in Nat \ {0} /\ Len(gb.lbuf) \in Nat
      BY DEF GbLive, GbShape, GlobalBuffer
    <2>3. x \in 1 .. Len(gb.lbuf)
      BY <2>1, <2>2
    <2>4. r.lbuf[x] = IF gb.lbuf[x] \in N THEN Nil ELSE gb.lbuf[x]
      BY <2>3 DEF GbCleared
    <2>5. gb.lbuf[x] \in ToSet(T) \cup {Nil}
      BY <2>1 DEF GbLive
    <2> QED
      BY <2>4, <2>5
  <1>2. GbShape(r)
    BY DEF GbCleared
  <1> QED
    BY <1>1, <1>2 DEF GbLive

\* Everything `m' leaves as it was.
Shift(e, r, T, T0, d) ==
  /\ Sound(r, T, T0) /\ r.st.dot = d /\ r.st.is_empty = e.st.is_empty /\ r.st.lines = e.st.lines
  /\ r.saved = e.saved /\ r.global = e.global /\ r.heap = e.heap

\* The end of move_lines (): the lines moved need not be visited, the current line is d.
LEMMA MovedLines ==
  ASSUME NEW e, NEW T, NEW T0, Sound(e, T, T0), NEW lo \in Nat, NEW hi \in Nat,
         lo <= hi, hi <= Len(T), NEW d \in 0 .. Len(T)
  PROVE  Shift(e, moved(e, At(T, lo), At(T, hi + 1), d), T, T0, d)
  <1>1. /\ e \in Buffer /\ MarksOK(e) /\ Deque(e.undo, e.forw, e.back, e.heap, T, T0)
        /\ Held(e, T, T0) /\ Walk(e, T) /\ IsText(T) /\ Ring(e.forw, e.back, T)
        /\ e.gb \in GlobalBuffer /\ SavedOK(e.saved, T0) /\ Len(T) \in Nat
        /\ e.global => GbLive(e.gb, T)
    BY SoundParts
  <1>2. PICK nodes : nodes = Chain(e.forw, e.forw[At(T, lo)], At(T, hi + 1))
    OBVIOUS
  <1>3. nodes \in Seq(Node)
    BY <1>1, <1>2, ChainText
  <1>4. PICK gb : gb = IF e.global THEN clear_global_lines(e.gb, nodes) ELSE e.gb
    OBVIOUS
  <1>5. gb \in GlobalBuffer /\ (e.global => GbLive(gb, T))
    <2>1. CASE e.global
      <3>1. GbLive(e.gb, T) /\ GbShape(e.gb)
        BY <1>1, <2>1 DEF GbLive
      <3>2. GbCleared(e.gb, gb, ToSet(nodes))
        BY <1>3, <1>4, <2>1, <3>1, ClearLines
      <3>3. GbLive(gb, T)
        BY <3>1, <3>2, ClearedLive
      <3> QED
        BY <3>3 DEF GbLive, GbShape
    <2>2. CASE ~ e.global
      BY <1>1, <1>4, <2>2
    <2> QED
      BY <2>1, <2>2
  <1>6. PICK r : r = Shifted(e, gb, d)
    OBVIOUS
  <1>7. moved(e, At(T, lo), At(T, hi + 1), d) = r
    <2>1. moved(e, At(T, lo), At(T, hi + 1), d) =
            [e EXCEPT !.st.dot = d,
                      !.gb = IF e.global THEN clear_global_lines(@, nodes) ELSE @]
      BY <1>2 DEF moved
    <2>2. [e EXCEPT !.st.dot = d,
                    !.gb = IF e.global THEN clear_global_lines(@, nodes) ELSE @] =
          [e EXCEPT !.st.dot = d,
                    !.gb = IF e.global THEN clear_global_lines(e.gb, nodes) ELSE e.gb]
      BY <1>1 DEF Buffer
    <2> QED
      BY <1>4, <1>6, <2>1, <2>2 DEF Shifted
  <1>8. ShiftedTo(e, r, gb, d)
    <2>1. d \in Int
      BY <1>1
    <2> QED
      BY <1>1, <1>5, <1>6, <2>1, ShiftFields
  <1>9. MarksOK(r)
    <2>1. Marked(r) = Marked(e)
      BY <1>8 DEF Marked, ShiftedTo
    <2> QED
      BY <1>1, <1>8, <2>1 DEF MarksOK, ShiftedTo
  <1>10. Held(r, T, T0) /\ Walk(r, T)
    BY <1>1, <1>8, <1>9 DEF Held, Walk, ShiftedTo
  <1>11. Sound(r, T, T0)
    BY <1>1, <1>5, <1>8, <1>10 DEF Sound, ShiftedTo
  <1>12. Shift(e, r, T, T0, d)
    BY <1>8, <1>11 DEF Shift, ShiftedTo
  <1> QED
    BY <1>7, <1>12

----------------------------------------------------------------------------
(* The links after a move. *)

\* The links after a move: the nodes x, y, z and their new successors.
ThreeLinked(f, b, f2, b2, x, xn, y, yn, z, zn) ==
  /\ f2 = [[[f EXCEPT ![x] = xn] EXCEPT ![y] = yn] EXCEPT ![z] = zn]
  /\ b2 = [[[b EXCEPT ![xn] = x] EXCEPT ![yn] = y] EXCEPT ![zn] = z]

RelinkedAs(e, r, b1, a1, b2) ==
  /\ r \in Buffer /\ SameButLinks(e, r)
  /\ ThreeLinked(e.forw, e.back, r.forw, r.back,
                 b2, e.forw[b1], e.back[a1], e.forw[b2], b1, a1)

\* The fields after the three links of a move.
LEMMA RelinkFields ==
  ASSUME NEW e \in Buffer, NEW b1 \in Link, NEW a1 \in Link, NEW b2 \in Link
  PROVE  RelinkedAs(e, relink_lines(e, b1, a1, b2), b1, a1, b2)
  <1>1. PICK h1, t1, n2 : h1 = e.forw[b1] /\ t1 = e.back[a1] /\ n2 = e.forw[b2]
    OBVIOUS
  <1>2. h1 \in Link /\ t1 \in Link /\ n2 \in Link
    BY <1>1 DEF Buffer
  <1>3. PICK s : s = LINK_NODES(e, b2, h1)
    OBVIOUS
  <1>4. LinkedIn(e, s, b2, h1)
    BY <1>2, <1>3, LinkFields
  <1>5. PICK t : t = LINK_NODES(s, t1, n2)
    OBVIOUS
  <1>6. LinkedIn(s, t, t1, n2)
    <2>1. s \in Buffer
      BY <1>4 DEF LinkedIn
    <2> QED
      BY <1>2, <1>5, <2>1, LinkFields
  <1>7. PICK r : r = LINK_NODES(t, b1, a1)
    OBVIOUS
  <1>8. LinkedIn(t, r, b1, a1)
    <2>1. t \in Buffer
      BY <1>6 DEF LinkedIn
    <2> QED
      BY <1>7, <2>1, LinkFields
  <1>9. relink_lines(e, b1, a1, b2) = r
    BY <1>1, <1>3, <1>5, <1>7 DEF relink_lines
  <1>10. SameButLinks(e, r) /\ r \in Buffer
    BY <1>4, <1>6, <1>8 DEF LinkedIn, SameButLinks
  <1>11. ThreeLinked(e.forw, e.back, r.forw, r.back, b2, h1, t1, n2, b1, a1)
    BY <1>4, <1>6, <1>8 DEF LinkedIn, ThreeLinked
  <1> QED
    BY <1>1, <1>9, <1>10, <1>11 DEF RelinkedAs

\* The three links of an exchange of lines i+1 to j and j+1 to k.
Exchanged(f, b, f2, b2, T, i, j, k) ==
  /\ f2 \in [Link -> Link] /\ b2 \in [Link -> Link]
  /\ Ring(f2, b2, Swap(T, i, j, k))
  /\ Same(f, f2, {At(T, i), T[j], T[k]})
  /\ Same(b, b2, {T[i + 1], T[j + 1], At(T, k + 1)})

\* Those three links, in either order, exchange the ranges.
LEMMA ExchangeLinks ==
  ASSUME NEW T, IsText(T), NEW i \in Nat, NEW j \in Nat, NEW k \in Nat,
         i < j, j < k, k <= Len(T),
         NEW f \in [Link -> Link], NEW b \in [Link -> Link], Ring(f, b, T), NEW f2, NEW b2,
         \/ ThreeLinked(f, b, f2, b2, T[k], T[i + 1], T[j], At(T, k + 1), At(T, i), T[j + 1])
         \/ ThreeLinked(f, b, f2, b2, At(T, i), T[j + 1], T[k], T[i + 1], T[j], At(T, k + 1))
  PROVE  Exchanged(f, b, f2, b2, T, i, j, k)
  <1>1. /\ Len(T) \in Nat /\ \A x \in 1 .. Len(T) : At(T, x) = T[x] /\ T[x] \in Link
        /\ \A x \in Int : At(T, x) \in Link
    BY TextFacts
  <1>2. /\ \A x, y \in 0 .. Len(T) : At(T, x) = At(T, y) => x = y
        /\ \A x, y \in 1 .. Len(T) + 1 : At(T, x) = At(T, y) => x = y
    BY Distinct
  <1>3. PICK p, q, r : p = At(T, i) /\ q = T[j] /\ r = T[k]
    OBVIOUS
  <1>4. PICK pn, qn, rn : pn = T[i + 1] /\ qn = T[j + 1] /\ rn = At(T, k + 1)
    OBVIOUS
  <1>5. p = At(T, i) /\ q = At(T, j) /\ r = At(T, k)
        /\ pn = At(T, i + 1) /\ qn = At(T, j + 1) /\ rn = At(T, k + 1)
    BY <1>1, <1>3, <1>4
  <1>6. p # q /\ p # r /\ q # r
    <2>1. i \in 0 .. Len(T) /\ j \in 0 .. Len(T) /\ k \in 0 .. Len(T) /\ i # j /\ i # k /\ j # k
      BY <1>1
    <2> QED
      BY <1>2, <1>5, <2>1
  <1>7. pn # qn /\ pn # rn /\ qn # rn
    <2>1. /\ i + 1 \in 1 .. Len(T) + 1 /\ j + 1 \in 1 .. Len(T) + 1 /\ k + 1 \in 1 .. Len(T) + 1
          /\ i + 1 # j + 1 /\ i + 1 # k + 1 /\ j + 1 # k + 1
      BY <1>1
    <2> QED
      BY <1>2, <1>5, <2>1
  <1>8. p \in Link /\ q \in Link /\ r \in Link /\ pn \in Link /\ qn \in Link /\ rn \in Link
    <2>1. i \in Int /\ j \in Int /\ k \in Int /\ i + 1 \in Int /\ j + 1 \in Int /\ k + 1 \in Int
      OBVIOUS
    <2> QED
      BY <1>1, <1>5, <2>1
  <1>9. \/ ThreeLinked(f, b, f2, b2, r, pn, q, rn, p, qn)
        \/ ThreeLinked(f, b, f2, b2, p, qn, r, pn, q, rn)
    BY <1>3, <1>4
  <1>10. /\ f2 \in [Link -> Link] /\ f2[p] = qn /\ f2[r] = pn /\ f2[q] = rn
         /\ Same(f, f2, {p, q, r})
    BY <1>6, <1>8, <1>9 DEF ThreeLinked, Same
  <1>11. /\ b2 \in [Link -> Link] /\ b2[qn] = p /\ b2[pn] = r /\ b2[rn] = q
         /\ Same(b, b2, {pn, qn, rn})
    BY <1>7, <1>8, <1>9 DEF ThreeLinked, Same
  <1>12. Ring(f2, b2, Swap(T, i, j, k))
    BY <1>3, <1>4, <1>10, <1>11, SwapRing
  <1> QED
    BY <1>3, <1>4, <1>10, <1>11, <1>12 DEF Exchanged

\* Lines i+1 to j are moved down, or lines j+1 to k up.
MoveEnds(T, i, j, k, b1, a1, b2, a2) ==
  /\ i \in Nat /\ j \in Nat /\ k \in Nat /\ i < j /\ j < k /\ k <= Len(T)
  /\ \/ b1 = At(T, i) /\ a1 = At(T, j + 1) /\ b2 = At(T, k) /\ a2 = At(T, k + 1)
     \/ b1 = At(T, j) /\ a1 = At(T, k + 1) /\ b2 = At(T, i) /\ a2 = At(T, i + 1)

\* The entries that say so.
MoveEntries(b1, a1, b2, a2, u, v) ==
  /\ u \in Entry /\ u.type = "UMOV" /\ u.h = b1 /\ u.t = a1
  /\ v \in Entry /\ v.type = "UMOV" /\ v.h = b2 /\ v.t = a2

\* A move up and a move down give the same three links.
LEMMA RelinkExchanges ==
  ASSUME NEW T, IsText(T), NEW e \in Buffer, Ring(e.forw, e.back, T),
         NEW i, NEW j, NEW k, NEW b1, NEW a1, NEW b2, NEW a2, MoveEnds(T, i, j, k, b1, a1, b2, a2)
  PROVE  /\ Exchanged(e.forw, e.back, relink_lines(e, b1, a1, b2).forw,
                      relink_lines(e, b1, a1, b2).back, T, i, j, k)
         /\ relink_lines(e, b1, a1, b2) \in Buffer
         /\ SameButLinks(e, relink_lines(e, b1, a1, b2))
  <1>1. /\ Len(T) \in Nat /\ \A x \in 1 .. Len(T) : At(T, x) = T[x] /\ T[x] \in Link
        /\ \A x \in Int : At(T, x) \in Link
    BY TextFacts
  <1>2. i \in Nat /\ j \in Nat /\ k \in Nat /\ i < j /\ j < k /\ k <= Len(T)
    BY DEF MoveEnds
  <1>3. /\ i \in 0 .. Len(T) /\ j \in 0 .. Len(T) /\ k \in 0 .. Len(T)
        /\ i + 1 \in 1 .. Len(T) /\ j + 1 \in 1 .. Len(T) /\ j \in 1 .. Len(T) /\ k \in 1 .. Len(T)
        /\ k + 1 \in Int
    BY <1>1, <1>2
  <1>4. PICK f, b : f = e.forw /\ b = e.back
    OBVIOUS
  <1>5. f \in [Link -> Link] /\ b \in [Link -> Link] /\ Ring(f, b, T)
    BY <1>4 DEF Buffer
  <1>6. /\ f[At(T, i)] = T[i + 1] /\ f[T[j]] = T[j + 1] /\ f[T[k]] = At(T, k + 1)
        /\ b[T[j + 1]] = T[j] /\ b[At(T, k + 1)] = T[k]
    <2>1. /\ f[At(T, i)] = At(T, i + 1) /\ f[At(T, j)] = At(T, j + 1) /\ f[At(T, k)] = At(T, k + 1)
          /\ b[At(T, j + 1)] = At(T, j) /\ b[At(T, k + 1)] = At(T, k)
      BY <1>3, <1>5 DEF Ring
    <2> QED
      BY <1>1, <1>3, <2>1
  <1>7. At(T, i) \in Link /\ At(T, k + 1) \in Link /\ At(T, j) = T[j] /\ At(T, k) = T[k]
        /\ At(T, j + 1) = T[j + 1] /\ T[j] \in Link /\ T[k] \in Link /\ T[j + 1] \in Link
    BY <1>1, <1>3
  <1>8. b1 \in Link /\ a1 \in Link /\ b2 \in Link
    BY <1>7 DEF MoveEnds
  <1>9. PICK r : r = relink_lines(e, b1, a1, b2)
    OBVIOUS
  <1>10. RelinkedAs(e, r, b1, a1, b2)
    BY <1>8, <1>9, RelinkFields
  <1>11. PICK f2, c2 : f2 = r.forw /\ c2 = r.back
    OBVIOUS
  <1>12. ThreeLinked(f, b, f2, c2, b2, f[b1], b[a1], f[b2], b1, a1)
    BY <1>4, <1>10, <1>11 DEF RelinkedAs
  <1>13. \/ ThreeLinked(f, b, f2, c2, T[k], T[i + 1], T[j], At(T, k + 1), At(T, i), T[j + 1])
         \/ ThreeLinked(f, b, f2, c2, At(T, i), T[j + 1], T[k], T[i + 1], T[j], At(T, k + 1))
    <2>1. CASE b1 = At(T, i) /\ a1 = At(T, j + 1) /\ b2 = At(T, k)
      BY <1>6, <1>7, <1>12, <2>1
    <2>2. CASE b1 = At(T, j) /\ a1 = At(T, k + 1) /\ b2 = At(T, i)
      BY <1>6, <1>7, <1>12, <2>2
    <2> QED
      BY <2>1, <2>2 DEF MoveEnds
  <1>14. Exchanged(f, b, f2, c2, T, i, j, k)
    BY <1>2, <1>5, <1>13, ExchangeLinks
  <1> QED
    BY <1>4, <1>9, <1>10, <1>11, <1>14 DEF RelinkedAs

----------------------------------------------------------------------------
(* A move keeps the buffer sound. *)

SwappedText(T, T2) ==
  IsText(T2) /\ Len(T2) = Len(T) /\ ToSet(T2) = ToSet(T)

\* Exchanging ranges keeps the lines, and which lines are at the ends.
LEMMA Swapped ==
  ASSUME NEW T, IsText(T), NEW i \in Nat, NEW j \in Nat, NEW k \in Nat,
         i < j, j < k, k <= Len(T)
  PROVE  SwappedText(T, Swap(T, i, j, k)) /\ At(Swap(T, i, j, k), i) = At(T, i)
         /\ At(Swap(T, i, j, k), k + 1) = At(T, k + 1)
         /\ At(Swap(T, i, j, k), i + (k - j)) = At(T, k)
         /\ At(Swap(T, i, j, k), i + (k - j) + 1) = At(T, i + 1)
  <1>1. Len(T) \in Nat
    BY TextFacts
  <1>2. PICK C : C = Swap(T, i, j, k)
    OBVIOUS
  <1>3. /\ IsText(C) /\ Len(C) = Len(T)
        /\ \A x \in 0 .. Len(T) + 1 :
             At(C, x) = IF x <= i \/ x > k THEN At(T, x)
                        ELSE IF x <= i + (k - j) THEN At(T, x + (j - i))
                        ELSE At(T, x - (k - j))
    BY <1>2, SwapText
  <1>4. ToSet(C) = ToSet(T)
    BY <1>2, SwapSet
  <1>5. PICK m \in Nat : m = i + (k - j)
    OBVIOUS
  <1>6. /\ i \in 0 .. Len(T) + 1 /\ k + 1 \in 0 .. Len(T) + 1 /\ k + 1 > k
        /\ m \in 0 .. Len(T) + 1 /\ ~ (m <= i \/ m > k) /\ m + (j - i) = k
        /\ m + 1 \in 0 .. Len(T) + 1 /\ ~ (m + 1 <= i \/ m + 1 > k) /\ ~ (m + 1 <= m)
        /\ m + 1 - (k - j) = i + 1 /\ m <= m
    BY <1>1, <1>5
  <1>7. At(C, i) = At(T, i)
    BY <1>3, <1>6
  <1>8. At(C, k + 1) = At(T, k + 1)
    BY <1>3, <1>6
  <1>9. At(C, m) = At(T, k)
    BY <1>3, <1>5, <1>6
  <1>10. At(C, m + 1) = At(T, i + 1)
    BY <1>3, <1>5, <1>6
  <1> QED
    BY <1>2, <1>3, <1>4, <1>5, <1>7, <1>8, <1>9, <1>10 DEF SwappedText

\* The two entries have been queued, the cache is at line i, and the links
\* are changed.
LEMMA RelinkSound ==
  ASSUME NEW e, NEW T, NEW T0, Sound(e, T, T0), NEW s, Walk(s, T), SameButUndo(e, s),
         NEW i, NEW j, NEW k, NEW b1, NEW a1, NEW b2, NEW a2, s.n_prev = i,
         MoveEnds(T, i, j, k, b1, a1, b2, a2),
         NEW u, NEW v, MoveEntries(b1, a1, b2, a2, u, v),
         s.undo = Append(Append(e.undo, u), v)
  PROVE  Shift(e, relink_lines(s, b1, a1, b2), Swap(T, i, j, k), T0, e.st.dot)
  <1>1. /\ e \in Buffer /\ MarksOK(e) /\ Deque(e.undo, e.forw, e.back, e.heap, T, T0)
        /\ IsText(T) /\ Ring(e.forw, e.back, T) /\ ToSet(T) \subseteq e.heap
        /\ e.st.lines = Len(T) /\ Len(T) \in Nat /\ SavedOK(e.saved, T0)
        /\ e.st.dot \in 0 .. Len(T) /\ (e.global => GbLive(e.gb, T))
    BY SoundParts
  <1>2. i \in Nat /\ j \in Nat /\ k \in Nat /\ i < j /\ j < k /\ k <= Len(T)
    BY DEF MoveEnds
  <1>3. PICK C : C = Swap(T, i, j, k)
    OBVIOUS
  <1>4. SwappedText(T, C) /\ At(C, i) = At(T, i)
    BY <1>1, <1>2, <1>3, Swapped
  <1>5. PICK r : r = relink_lines(s, b1, a1, b2)
    OBVIOUS
  <1>6. s \in Buffer /\ Ring(s.forw, s.back, T) /\ s.lp = At(T, i)
    BY DEF Walk
  <1>7. r \in Buffer /\ SameButLinks(s, r) /\ Exchanged(s.forw, s.back, r.forw, r.back, T, i, j, k)
    BY <1>1, <1>5, <1>6, RelinkExchanges
  <1>8. PICK f, b, f2, c2, heap, q : /\ f = e.forw /\ b = e.back /\ f2 = r.forw /\ c2 = r.back
                                     /\ heap = e.heap /\ q = e.undo
    OBVIOUS
  <1>9. Exchanged(f, b, f2, c2, T, i, j, k)
    BY <1>7, <1>8 DEF SameButUndo
  <1>10. PICK S, R : S = {At(T, i), T[j], T[k]} /\ R = {T[i + 1], T[j + 1], At(T, k + 1)}
    OBVIOUS
  <1>11. /\ f2 \in [Link -> Link] /\ c2 \in [Link -> Link] /\ Ring(f2, c2, C)
         /\ Same(f, f2, S) /\ Same(b, c2, R)
    BY <1>3, <1>9, <1>10 DEF Exchanged
  <1>12. Apart(S, T, heap) /\ Apart(R, T, heap)
    <2>1. /\ \A x \in Int : At(T, x) \in ToSet(T) \cup {0}
          /\ \A x \in 1 .. Len(T) : At(T, x) = T[x]
      BY <1>1, OnText, TextFacts
    <2>2. j \in 1 .. Len(T) /\ k \in 1 .. Len(T) /\ i + 1 \in 1 .. Len(T) /\ j + 1 \in 1 .. Len(T)
          /\ i \in Int /\ k + 1 \in Int /\ j \in Int /\ k \in Int /\ i + 1 \in Int /\ j + 1 \in Int
      BY <1>1, <1>2
    <2>3. \A n \in S : n \in ToSet(T) \cup {0}
      BY <1>10, <2>1, <2>2
    <2>4. \A n \in R : n \in ToSet(T) \cup {0}
      BY <1>10, <2>1, <2>2
    <2> QED
      BY <2>3, <2>4 DEF Apart
  <1>13. Moves(T, C, u, v)
    <2>1. i \in 0 .. Len(T) /\ j \in 0 .. Len(T) /\ k \in 0 .. Len(T)
      BY <1>1, <1>2
    <2>2. \/ /\ u.h = At(T, i) /\ u.t = At(T, j + 1)
             /\ v.h = At(T, k) /\ v.t = At(T, k + 1)
          \/ /\ u.h = At(T, j) /\ u.t = At(T, k + 1)
             /\ v.h = At(T, i) /\ v.t = At(T, i + 1)
      BY DEF MoveEnds, MoveEntries
    <2> QED
      BY <1>2, <1>3, <2>1, <2>2 DEF Moves
  <1>14. Deque(Append(Append(q, u), v), f2, c2, heap, C, T0)
    <2>1. Deque(q, f, b, heap, T, T0)
      BY <1>1, <1>8
    <2>2. /\ u \in Entry /\ v \in Entry /\ u.type \in {"UMOV", "URET"} /\ v.type \in {"UMOV", "URET"}
      BY DEF MoveEntries
    <2>3. IsText(C) /\ ToSet(C) = ToSet(T)
      BY <1>4 DEF SwappedText
    <2> QED
      BY <1>11, <1>12, <1>13, <2>1, <2>2, <2>3, MoveLines
  <1>15. /\ r.undo = Append(Append(q, u), v) /\ r.heap = heap /\ r.st = e.st /\ r.saved = e.saved
         /\ r.mark = e.mark /\ r.marks = e.marks /\ r.gb = e.gb /\ r.global = e.global
         /\ r.n_prev = i /\ r.lp = At(T, i) /\ r.heap = e.heap
    BY <1>6, <1>7, <1>8 DEF SameButLinks, SameButUndo
  <1>16. Deque(r.undo, r.forw, r.back, r.heap, C, T0)
    BY <1>8, <1>14, <1>15
  <1>17. MarksOK(r)
    <2>1. Marked(r) = Marked(e)
      BY <1>15 DEF Marked
    <2> QED
      BY <1>1, <1>15, <2>1 DEF MarksOK
  <1>18. Len(C) = Len(T) /\ IsText(C) /\ ToSet(C) = ToSet(T)
    BY <1>4 DEF SwappedText
  <1>19. Walk(r, C)
    <2>1. Ring(r.forw, r.back, C)
      BY <1>8, <1>11
    <2>2. i \in 0 .. Len(C)
      BY <1>1, <1>2, <1>18
    <2> QED
      BY <1>1, <1>4, <1>7, <1>15, <1>18, <2>1, <2>2 DEF Walk
  <1>20. e.global => GbLive(e.gb, C)
    BY <1>1, <1>18 DEF GbLive
  <1>21. Sound(r, C, T0)
    BY <1>1, <1>7, <1>15, <1>16, <1>17, <1>18, <1>19, <1>20 DEF Sound, Held
  <1>22. Shift(e, r, C, T0, e.st.dot)
    BY <1>15, <1>21 DEF Shift
  <1> QED
    BY <1>3, <1>5, <1>22

\* INC_MOD () names the line after line n.
LEMMA NextLine ==
  ASSUME NEW T, IsText(T), NEW n \in 0 .. Len(T)
  PROVE  INC_MOD(n, Len(T)) \in 0 .. Len(T) /\ At(T, INC_MOD(n, Len(T))) = At(T, n + 1)
  <1>1. At(T, Len(T) + 1) = 0 /\ At(T, 0) = 0 /\ Len(T) \in Nat
    BY TextFacts
  <1>2. CASE n = Len(T)
    BY <1>1, <1>2 DEF INC_MOD
  <1>3. CASE n # Len(T)
    BY <1>1, <1>3 DEF INC_MOD
  <1> QED
    BY <1>2, <1>3

\* The state of the queue and of the cache before the lines are moved.
Prepared(e, r, T, u, v) ==
  /\ Walk(r, T) /\ SameButUndo(e, r) /\ r.undo = Append(Append(e.undo, u), v)

\* undo_moved () has appended the two entries; no line has moved yet.
LEMMA PrepareMove ==
  ASSUME NEW e, NEW T, NEW T0, Sound(e, T, T0), NEW from \in 1 .. Len(T), NEW to \in from .. Len(T),
         NEW after \in 0 .. Len(T),
         NEW u, u = UndoEntry("UMOV", At(T, from - 1), At(T, to + 1)),
         NEW v, v = UndoEntry("UMOV", At(T, after), At(T, after + 1))
  PROVE  Prepared(e, undo_moved(e, from, to, after), T, u, v)
  <1>1. Walk(e, T) /\ IsText(T) /\ Len(T) \in Nat /\ e.st.lines = Len(T)
    BY SoundParts
  <1>2. PICK i, n, m : i = from - 1 /\ n = INC_MOD(to, e.st.lines) /\ m = INC_MOD(after, e.st.lines)
    OBVIOUS
  <1>3. i \in 0 .. Len(T) /\ to \in 0 .. Len(T)
    BY <1>1, <1>2
  <1>4. n \in 0 .. Len(T) /\ m \in 0 .. Len(T) /\ At(T, n) = At(T, to + 1) /\ At(T, m) = At(T, after + 1)
    BY <1>1, <1>2, <1>3, NextLine
  <1>5. PICK s : s = append_undo_node(e, "UMOV", i, n)
    OBVIOUS
  <1>6. Queued(e, s, T, u, n)
    <2>1. Queued(e, append_undo_node(e, "UMOV", i, n), T, UndoEntry("UMOV", At(T, i), At(T, n)), n)
      BY <1>1, <1>3, <1>4, QueueEntry
    <2> QED
      BY <1>2, <1>4, <1>5, <2>1
  <1>7. PICK r : r = append_undo_node(s, "UMOV", after, m)
    OBVIOUS
  <1>8. Queued(s, r, T, v, m)
    <2>1. Walk(s, T)
      BY <1>6 DEF Queued
    <2>2. Queued(s, append_undo_node(s, "UMOV", after, m), T, UndoEntry("UMOV", At(T, after), At(T, m)), m)
      BY <1>4, <2>1, QueueEntry
    <2> QED
      BY <1>4, <1>7, <2>2
  <1>9. Prepared(e, r, T, u, v)
    BY <1>6, <1>8 DEF Queued, Prepared, SameButUndo
  <1> QED
    BY <1>2, <1>5, <1>7, <1>9 DEF undo_moved

\* Looking a line up before the move.
LEMMA PreparedGet ==
  ASSUME NEW e, NEW s, NEW T, NEW u, NEW v, Prepared(e, s, T, u, v), NEW n \in 0 .. Len(T)
  PROVE  /\ Prepared(e, get_line_node(s, n), T, u, v)
         /\ get_line_node(s, n).lp = At(T, n) /\ get_line_node(s, n).n_prev = n
  <1>1. PICK r : r = get_line_node(s, n)
    OBVIOUS
  <1>2. Sought(s, r, T, n)
    BY <1>1, GetLine DEF Prepared
  <1>3. Prepared(e, r, T, u, v) /\ r.lp = At(T, n) /\ r.n_prev = n
    BY <1>2 DEF Prepared, Sought, SameLines, SameButUndo
  <1> QED
    BY <1>1, <1>3

----------------------------------------------------------------------------
(* move_lines (), up, down and nowhere. *)

\* The same lines in another order, and nothing else of the state lost.
Turned(e, r, T, T0) ==
  \E C, d : SwappedText(T, C) /\ Reordered(T, C) /\ Shift(e, r, C, T0, d)

\* After the links, the queue says how the text has changed.
LEMMA MoveRelinked ==
  ASSUME NEW e, NEW T, NEW T0, Sound(e, T, T0), NEW s, NEW u, NEW v, Prepared(e, s, T, u, v),
         NEW i, NEW j, NEW k, NEW b1, NEW a1, NEW b2, NEW a2, s.n_prev = i,
         MoveEnds(T, i, j, k, b1, a1, b2, a2), MoveEntries(b1, a1, b2, a2, u, v),
         NEW d \in 0 .. Len(T)
  PROVE  Turned(e, moved(relink_lines(s, b1, a1, b2), b2, a2, d), T, T0)
  <1>1. IsText(T) /\ Len(T) \in Nat
    BY SoundParts
  <1>2. i \in Nat /\ j \in Nat /\ k \in Nat /\ i < j /\ j < k /\ k <= Len(T)
    BY DEF MoveEnds
  <1>3. PICK C, m : C = Swap(T, i, j, k) /\ m = i + (k - j)
    OBVIOUS
  <1>4. /\ SwappedText(T, C) /\ At(C, i) = At(T, i) /\ At(C, k + 1) = At(T, k + 1)
        /\ At(C, m) = At(T, k) /\ At(C, m + 1) = At(T, i + 1)
    BY <1>1, <1>2, <1>3, Swapped
  <1>5. PICK r : r = relink_lines(s, b1, a1, b2)
    OBVIOUS
  <1>6. Shift(e, r, C, T0, e.st.dot)
    BY <1>3, <1>5, RelinkSound DEF Prepared
  <1>7. Sound(r, C, T0) /\ Len(C) = Len(T)
    BY <1>4, <1>6 DEF Shift, SwappedText
  <1>8. PICK lo, hi : /\ lo \in Nat /\ hi \in Nat /\ lo <= hi /\ hi <= Len(C)
                      /\ b2 = At(C, lo) /\ a2 = At(C, hi + 1)
    <2>1. m \in Nat /\ i <= m /\ m <= k /\ m <= Len(C) /\ k <= Len(C)
      BY <1>1, <1>2, <1>3, <1>7
    <2>2. CASE b2 = At(T, k) /\ a2 = At(T, k + 1)
      BY <1>2, <1>4, <2>1, <2>2
    <2>3. CASE b2 = At(T, i) /\ a2 = At(T, i + 1)
      BY <1>2, <1>4, <2>1, <2>3
    <2> QED
      BY <2>2, <2>3 DEF MoveEnds
  <1>9. PICK w : w = moved(r, b2, a2, d)
    OBVIOUS
  <1>10. Shift(r, w, C, T0, d)
    <2>1. d \in 0 .. Len(C)
      BY <1>7
    <2>2. Shift(r, moved(r, At(C, lo), At(C, hi + 1), d), C, T0, d)
      BY <1>7, <1>8, <2>1, MovedLines
    <2> QED
      BY <1>8, <1>9, <2>2
  <1>11. Shift(e, w, C, T0, d)
    BY <1>6, <1>10 DEF Shift
  <1>12. Turned(e, w, T, T0)
    <2>1. Reordered(T, C)
      BY <1>2, <1>3 DEF Reordered
    <2> QED
      BY <1>4, <1>11, <2>1 DEF Turned
  <1> QED
    BY <1>5, <1>9, <1>12

\* Lines moved to where they are: only the global command buffer changes.
LEMMA MoveStays ==
  ASSUME NEW e, NEW T, NEW T0, Sound(e, T, T0), NEW from \in 1 .. Len(T), NEW to \in from .. Len(T)
  PROVE  Turned(e, move_stays(get_line_node(e, INC_MOD(to, e.st.lines)), from - 1, to), T, T0)
  <1>1. IsText(T) /\ Len(T) \in Nat /\ e.st.lines = Len(T)
    BY SoundParts
  <1>2. PICK i, n : i = from - 1 /\ n = INC_MOD(to, e.st.lines)
    OBVIOUS
  <1>3. i \in 0 .. Len(T) /\ to \in 0 .. Len(T) /\ i \in Nat /\ to \in Nat /\ i <= to /\ to <= Len(T)
    BY <1>1, <1>2
  <1>4. n \in 0 .. Len(T) /\ At(T, n) = At(T, to + 1)
    BY <1>1, <1>2, <1>3, NextLine
  <1>5. PICK s : s = get_line_node(e, n)
    OBVIOUS
  <1>6. Sound(s, T, T0) /\ Sought(e, s, T, n)
    BY <1>4, <1>5, GetSound
  <1>7. PICK t : t = get_line_node(s, i)
    OBVIOUS
  <1>8. Sound(t, T, T0) /\ Sought(s, t, T, i)
    BY <1>3, <1>6, <1>7, GetSound
  <1>9. PICK r : r = moved(t, At(T, i), At(T, to + 1), to)
    OBVIOUS
  <1>10. Shift(t, r, T, T0, to)
    BY <1>3, <1>8, <1>9, MovedLines
  <1>11. Shift(e, r, T, T0, to)
    BY <1>6, <1>8, <1>10 DEF Shift, Sought, SameLines, SameButUndo
  <1>12. move_stays(s, i, to) = r
    <2>1. t.lp = At(T, i) /\ s.lp = At(T, to + 1)
      BY <1>4, <1>6, <1>8 DEF Sought
    <2> QED
      BY <1>7, <1>9, <2>1 DEF move_stays, stay_between
  <1>13. SwappedText(T, T) /\ Reordered(T, T)
    BY <1>1 DEF SwappedText, Reordered
  <1> QED
    BY <1>2, <1>5, <1>11, <1>12, <1>13 DEF Turned

\* Lines moved to before their place.
LEMMA MoveUp ==
  ASSUME NEW e, NEW T, NEW T0, Sound(e, T, T0), NEW from \in 1 .. Len(T), NEW to \in from .. Len(T),
         NEW after \in 0 .. Len(T), after < from - 1
  PROVE  Turned(e, move_between(get_line_node(undo_moved(e, from, to, after),
                                              INC_MOD(to, e.st.lines)), from, to, after), T, T0)
  <1>1. IsText(T) /\ Len(T) \in Nat /\ e.st.lines = Len(T) /\ \A x \in Int : At(T, x) \in Link
    BY SoundParts, TextFacts
  <1>2. PICK n, j, d : n = INC_MOD(to, e.st.lines) /\ j = from - 1 /\ d = after + to - from + 1
    OBVIOUS
  <1>3. /\ to \in 0 .. Len(T) /\ j \in 0 .. Len(T) /\ j \in Nat /\ after \in Nat /\ to \in Nat
        /\ after < j /\ j < to /\ to <= Len(T) /\ d \in 0 .. Len(T) /\ after < from
        /\ after + 1 \in Int /\ to + 1 \in Int /\ j \in Int /\ after \in Int /\ after \in 0 .. Len(T)
    BY <1>1, <1>2
  <1>4. n \in 0 .. Len(T) /\ At(T, n) = At(T, to + 1)
    BY <1>1, <1>2, <1>3, NextLine
  <1>5. PICK b1, a1, b2, a2 : b1 = At(T, j) /\ a1 = At(T, to + 1) /\ b2 = At(T, after) /\ a2 = At(T, after + 1)
    OBVIOUS
  <1>6. PICK u, v : u = UndoEntry("UMOV", b1, a1) /\ v = UndoEntry("UMOV", b2, a2)
    OBVIOUS
  <1>7. MoveEntries(b1, a1, b2, a2, u, v)
    <2>1. b1 \in Link /\ a1 \in Link /\ b2 \in Link /\ a2 \in Link
      BY <1>1, <1>3, <1>5
    <2> QED
      BY <1>6, <2>1, EntryFields DEF MoveEntries
  <1>8. PICK p : p = undo_moved(e, from, to, after)
    OBVIOUS
  <1>9. Prepared(e, p, T, u, v)
    BY <1>2, <1>5, <1>6, <1>8, PrepareMove
  <1>10. PICK s : s = get_line_node(p, n)
    OBVIOUS
  <1>11. Prepared(e, s, T, u, v) /\ s.lp = a1
    BY <1>4, <1>5, <1>9, <1>10, PreparedGet
  <1>12. PICK t : t = get_line_node(s, j)
    OBVIOUS
  <1>13. Prepared(e, t, T, u, v) /\ t.lp = b1
    <2>1. j \in 0 .. Len(T)
      BY <1>3
    <2> QED
      BY <1>5, <1>11, <1>12, <2>1, PreparedGet
  <1>14. PICK w : w = get_line_node(t, after)
    OBVIOUS
  <1>15. Prepared(e, w, T, u, v) /\ w.lp = b2 /\ w.n_prev = after
    BY <1>5, <1>13, <1>14, PreparedGet
  <1>16. w.forw[b2] = a2
    <2>1. Ring(w.forw, w.back, T)
      BY <1>15 DEF Prepared, Walk
    <2> QED
      BY <1>5, <2>1 DEF Ring
  <1>17. move_between(s, from, to, after) = moved(relink_lines(w, b1, a1, b2), b2, a2, d)
    <2>1. move_between(s, from, to, after) = move_up_to(t, a1, after, d)
      BY <1>2, <1>3, <1>11, <1>12 DEF move_between
    <2>2. move_up_to(t, a1, after, d) = move_up(w, b1, a1, d)
      BY <1>13, <1>14 DEF move_up_to
    <2>3. move_up(w, b1, a1, d) = moved(relink_lines(w, b1, a1, b2), b2, a2, d)
      BY <1>15, <1>16 DEF move_up
    <2> QED
      BY <2>1, <2>2, <2>3
  <1>18. MoveEnds(T, after, j, to, b1, a1, b2, a2)
    BY <1>3, <1>5 DEF MoveEnds
  <1>19. Turned(e, moved(relink_lines(w, b1, a1, b2), b2, a2, d), T, T0)
    BY <1>3, <1>7, <1>15, <1>18, MoveRelinked
  <1> QED
    BY <1>2, <1>8, <1>10, <1>17, <1>19

\* Lines moved to behind their place.
LEMMA MoveDown ==
  ASSUME NEW e, NEW T, NEW T0, Sound(e, T, T0), NEW from \in 1 .. Len(T), NEW to \in from .. Len(T),
         NEW after \in 0 .. Len(T), after > to
  PROVE  Turned(e, move_between(get_line_node(undo_moved(e, from, to, after),
                                              INC_MOD(to, e.st.lines)), from, to, after), T, T0)
  <1>1. IsText(T) /\ Len(T) \in Nat /\ e.st.lines = Len(T) /\ \A x \in Int : At(T, x) \in Link
    BY SoundParts, TextFacts
  <1>2. PICK n, i : n = INC_MOD(to, e.st.lines) /\ i = from - 1
    OBVIOUS
  <1>3. /\ to \in 0 .. Len(T) /\ i \in 0 .. Len(T) /\ i \in Nat /\ after \in Nat /\ to \in Nat
        /\ i < to /\ to < after /\ after <= Len(T) /\ ~ (after < from)
        /\ after + 1 \in Int /\ to + 1 \in Int /\ i \in Int /\ after \in Int /\ after \in 0 .. Len(T)
    BY <1>1, <1>2
  <1>4. n \in 0 .. Len(T) /\ At(T, n) = At(T, to + 1)
    BY <1>1, <1>2, <1>3, NextLine
  <1>5. PICK b1, a1, b2, a2 : b1 = At(T, i) /\ a1 = At(T, to + 1) /\ b2 = At(T, after) /\ a2 = At(T, after + 1)
    OBVIOUS
  <1>6. PICK u, v : u = UndoEntry("UMOV", b1, a1) /\ v = UndoEntry("UMOV", b2, a2)
    OBVIOUS
  <1>7. MoveEntries(b1, a1, b2, a2, u, v)
    <2>1. b1 \in Link /\ a1 \in Link /\ b2 \in Link /\ a2 \in Link
      BY <1>1, <1>3, <1>5
    <2> QED
      BY <1>6, <2>1, EntryFields DEF MoveEntries
  <1>8. PICK p : p = undo_moved(e, from, to, after)
    OBVIOUS
  <1>9. Prepared(e, p, T, u, v)
    BY <1>2, <1>5, <1>6, <1>8, PrepareMove
  <1>10. PICK s : s = get_line_node(p, n)
    OBVIOUS
  <1>11. Prepared(e, s, T, u, v) /\ s.lp = a1
    BY <1>4, <1>5, <1>9, <1>10, PreparedGet
  <1>12. PICK t : t = get_line_node(s, after)
    OBVIOUS
  <1>13. Prepared(e, t, T, u, v) /\ t.lp = b2
    BY <1>5, <1>11, <1>12, PreparedGet
  <1>14. PICK w : w = get_line_node(t, i)
    OBVIOUS
  <1>15. Prepared(e, w, T, u, v) /\ w.lp = b1 /\ w.n_prev = i
    <2>1. i \in 0 .. Len(T)
      BY <1>3
    <2> QED
      BY <1>5, <1>13, <1>14, <2>1, PreparedGet
  <1>16. w.forw[b2] = a2
    <2>1. Ring(w.forw, w.back, T)
      BY <1>15 DEF Prepared, Walk
    <2> QED
      BY <1>5, <2>1 DEF Ring
  <1>17. move_between(s, from, to, after) = moved(relink_lines(w, b1, a1, b2), b2, a2, after)
    <2>1. move_between(s, from, to, after) = move_down_from(t, a1, i, after)
      BY <1>2, <1>3, <1>11, <1>12 DEF move_between
    <2>2. move_down_from(t, a1, i, after) = move_down(w, b2, a1, after)
      BY <1>13, <1>14 DEF move_down_from
    <2>3. move_down(w, b2, a1, after) = moved(relink_lines(w, b1, a1, b2), b2, a2, after)
      BY <1>15, <1>16 DEF move_down
    <2> QED
      BY <2>1, <2>2, <2>3
  <1>18. MoveEnds(T, i, to, after, b1, a1, b2, a2)
    BY <1>3, <1>5 DEF MoveEnds
  <1>19. Turned(e, moved(relink_lines(w, b1, a1, b2), b2, a2, after), T, T0)
    BY <1>3, <1>7, <1>15, <1>18, MoveRelinked
  <1> QED
    BY <1>2, <1>8, <1>10, <1>17, <1>19

\* move_lines () keeps every line, and the buffer sound.
LEMMA MoveSound ==
  ASSUME NEW e, NEW T, NEW T0, Sound(e, T, T0), NEW from \in 1 .. Len(T), NEW to \in from .. Len(T),
         NEW after \in 0 .. Len(T), ~ (from <= after /\ after < to)
  PROVE  Turned(e, move_lines(e, from, to, after), T, T0)
  <1>1. Len(T) \in Nat
    BY SoundParts
  <1>2. CASE after = from - 1 \/ after = to
    BY <1>2, MoveStays DEF move_lines
  <1>3. CASE ~ (after = from - 1 \/ after = to)
    <2>1. after < from - 1 \/ after > to
      BY <1>1, <1>3
    <2>2. CASE after < from - 1
      BY <1>3, <2>2, MoveUp DEF move_lines
    <2>3. CASE after > to
      BY <1>3, <2>3, MoveDown DEF move_lines
    <2> QED
      BY <2>1, <2>2, <2>3
  <1> QED
    BY <1>2, <1>3

----------------------------------------------------------------------------
(* reset_undo_queue (), u, k and j. *)

\* The queue has been cleared, outside a global command.
Refreshed(e, r, T, T1) == Sound(r, T, T1) /\ r.st = e.st /\ r.global = e.global

\* reset_undo_queue () keeps the text, and `u' would change nothing.
LEMMA ResetSound ==
  ASSUME NEW e, NEW T, NEW T0, Sound(e, T, T0), StOK(e.st)
  PROVE  /\ Refreshed(e, reset_undo_queue(e), T, T) /\ reset_undo_queue(e).gb = e.gb
         /\ reset_undo_queue(e).saved = e.st
  <1>1. /\ Held(e, T, T0) /\ Walk(e, T) /\ e.st.dot \in 0 .. Len(T) /\ e.st.lines = Len(T)
        /\ IsText(T) /\ (e.global => GbLive(e.gb, T))
    BY SoundParts
  <1>2. PICK r : r = reset_undo_queue(e)
    OBVIOUS
  <1>3. /\ Held(r, T, T) /\ Ring(r.forw, r.back, T)
        /\ r.st = e.st /\ r.saved = e.st /\ r.lp = e.lp /\ r.n_prev = e.n_prev
        /\ r.gb = e.gb /\ r.global = e.global
    BY <1>1, <1>2, ResetDeque DEF Settled
  <1>4. Walk(r, T)
    BY <1>1, <1>3 DEF Walk, Held
  <1>5. SavedOK(r.saved, T)
    BY <1>1, <1>3 DEF SavedOK
  <1>6. Sound(r, T, T)
    BY <1>1, <1>3, <1>4, <1>5 DEF Sound
  <1> QED
    BY <1>2, <1>3, <1>6 DEF Refreshed

\* A command has started: f is the buffer, T1 the text that `u' goes back to.
Begun(e, f, T, T0, T1) ==
  /\ Refreshed(e, f, T, T1)
  /\ e.global => T1 = T0 /\ f.saved = e.saved
  /\ ~ e.global => T1 = T /\ f.saved = e.st

\* Within a global command the queue goes on, else it starts anew.
LEMMA FreshUndo ==
  ASSUME NEW e, NEW T, NEW T0, Sound(e, T, T0), StOK(e.st)
  PROVE  \E T1 : Begun(e, fresh_undo(e), T, T0, T1)
  <1>1. CASE e.global
    <2>1. fresh_undo(e) = e
      BY <1>1 DEF fresh_undo
    <2> QED
      BY <1>1, <2>1 DEF Begun, Refreshed
  <1>2. CASE ~ e.global
    <2>1. fresh_undo(e) = reset_undo_queue(e)
      BY <1>2 DEF fresh_undo
    <2>2. Begun(e, fresh_undo(e), T, T0, T)
      BY <1>2, <2>1, ResetSound DEF Begun
    <2> QED
      BY <2>2
  <1> QED
    BY <1>1, <1>2

----------------------------------------------------------------------------
\* u exchanges the two texts.
UndoRecord(e, f, b, q, gb) ==
  [e EXCEPT !.forw = f, !.back = b, !.undo = q, !.gb = gb, !.st = e.saved, !.saved = e.st]

\* The fields after `u'.
LEMMA UndoRecordFields ==
  ASSUME NEW e \in Buffer, NEW f \in [Link -> Link], NEW b \in [Link -> Link],
         NEW q \in Seq(Entry), NEW gb \in GlobalBuffer,
         NEW r, r = UndoRecord(e, f, b, q, gb)
  PROVE  /\ r \in Buffer /\ r.forw = f /\ r.back = b /\ r.undo = q /\ r.gb = gb
         /\ r.st = e.saved /\ r.saved = e.st /\ r.heap = e.heap /\ r.lp = e.lp
         /\ r.n_prev = e.n_prev /\ r.mark = e.mark /\ r.marks = e.marks /\ r.global = e.global
  <1>1. PICK st, saved : st = e.saved /\ saved = e.st /\ st \in State /\ saved \in State
    BY DEF Buffer
  <1>2. r = [e EXCEPT !.forw = f, !.back = b, !.undo = q, !.gb = gb, !.st = st, !.saved = saved]
    BY <1>1 DEF UndoRecord
  <1> QED
    BY <1>1, <1>2 DEF Buffer

\* An empty global buffer.
LEMMA EmptyLive ==
  ASSUME NEW T
  PROVE  EmptyGlobalBuffer \in GlobalBuffer /\ GbLive(EmptyGlobalBuffer, T)
  <1>1. PICK gb : gb = EmptyGlobalBuffer
    OBVIOUS
  <1>2. gb.lbuf = <<>> /\ gb.ptr = 1 /\ gb.index = 0 /\ gb \in GlobalBuffer
    BY <1>1 DEF EmptyGlobalBuffer, GlobalBuffer
  <1>3. Len(gb.lbuf) = 0 /\ 1 .. Len(gb.lbuf) = {} /\ gb.ptr .. Len(gb.lbuf) = {}
    BY <1>2
  <1> QED
    BY <1>1, <1>2, <1>3 DEF GbLive, GbShape

\* undo_last_command () exchanges the two texts: the lines are those that the
\* queue leads back to, with the links they had; the queue, in the opposite
\* order and with its types toggled, leads to the text there was; no line is
\* lost or owned twice, so that a second `u' undoes the first one.
THEOREM UndoSound ==
  ASSUME NEW e, NEW T, NEW T0, Sound(e, T, T0), StOK(e.st), e.saved # NoState
  PROVE  /\ Sound(undo_last_command(e), T0, T)
         /\ undo_last_command(e).st = e.saved /\ undo_last_command(e).saved = e.st
         /\ undo_last_command(e).global = e.global
  <1>1. /\ e \in Buffer /\ MarksOK(e) /\ Deque(e.undo, e.forw, e.back, e.heap, T, T0)
        /\ Walk(e, T) /\ IsText(T) /\ e.st.lines = Len(T) /\ Len(T) \in Nat
        /\ e.st.dot \in 0 .. Len(T) /\ SavedOK(e.saved, T0)
    BY SoundParts
  <1>2. PICK s : s = get_line_node(e, 0)
    OBVIOUS
  <1>3. Sought(e, s, T, 0)
    <2>1. 0 \in 0 .. Len(T)
      BY <1>1
    <2> QED
      BY <1>1, <1>2, <2>1, GetLine
  <1>4. /\ s \in Buffer /\ SameLines(e, s) /\ s.n_prev = 0 /\ s.lp = At(T, 0)
    BY <1>3 DEF Sought, Walk
  <1>5. PICK u : u = undo_links(e)
    OBVIOUS
  <1>6. Deque(Reverse(u.undo), u.forw, u.back, e.heap, T0, T)
    BY <1>1, <1>5, UndoDeque
  <1>7. PICK f, b, q : f = u.forw /\ b = u.back /\ q = Reverse(u.undo)
    OBVIOUS
  <1>8. /\ Deque(q, f, b, e.heap, T0, T) /\ q \in Seq(Entry) /\ f \in [Link -> Link]
        /\ b \in [Link -> Link] /\ IsText(T0) /\ Ring(f, b, T0)
    <2>1. Deque(q, f, b, e.heap, T0, T)
      BY <1>6, <1>7
    <2> QED
      BY <2>1, DequeParts
  <1>9. PICK gb : gb = IF s.global THEN EmptyGlobalBuffer ELSE s.gb
    OBVIOUS
  <1>10. gb \in GlobalBuffer /\ (s.global => GbLive(gb, T0))
    <2>1. s.gb \in GlobalBuffer
      BY <1>4 DEF Buffer
    <2> QED
      BY <1>9, <2>1, EmptyLive
  <1>11. PICK r : r = UndoRecord(s, f, b, q, gb)
    OBVIOUS
  <1>12. undo_last_command(e) = r
    <2>1. undo_last_command(e) = exchange(s, u, q)
      BY <1>2, <1>5, <1>7 DEF undo_last_command, undo_with
    <2>2. exchange(s, u, q) =
            [s EXCEPT !.forw = f, !.back = b, !.undo = q,
                      !.gb = IF s.global THEN EmptyGlobalBuffer ELSE s.gb,
                      !.st = s.saved, !.saved = s.st]
      BY <1>4, <1>7 DEF exchange, Buffer
    <2> QED
      BY <1>9, <1>11, <2>1, <2>2 DEF UndoRecord
  <1>13. /\ r \in Buffer /\ r.forw = f /\ r.back = b /\ r.undo = q /\ r.gb = gb
         /\ r.st = s.saved /\ r.saved = s.st /\ r.heap = s.heap /\ r.lp = s.lp
         /\ r.n_prev = s.n_prev /\ r.mark = s.mark /\ r.marks = s.marks /\ r.global = s.global
    BY <1>4, <1>8, <1>10, <1>11, UndoRecordFields
  <1>14. /\ r.st = e.saved /\ r.saved = e.st /\ r.heap = e.heap /\ r.mark = e.mark
         /\ r.marks = e.marks /\ r.global = e.global /\ r.n_prev = 0 /\ r.lp = At(T, 0)
    BY <1>4, <1>13 DEF SameLines, SameButUndo
  <1>15. MarksOK(r)
    <2>1. Marked(r) = Marked(e)
      BY <1>14 DEF Marked
    <2> QED
      BY <1>1, <1>14, <2>1 DEF MarksOK
  <1>16. e.saved.dot \in 0 .. Len(T0) /\ e.saved.lines = Len(T0)
    BY <1>1 DEF SavedOK
  <1>17. Walk(r, T0)
    <2>1. At(T, 0) = 0 /\ At(T0, 0) = 0 /\ 0 \in 0 .. Len(T0)
      BY <1>1, <1>8, TextFacts
    <2> QED
      BY <1>8, <1>13, <1>14, <1>16, <2>1 DEF Walk
  <1>18. Held(r, T0, T)
    BY <1>8, <1>13, <1>14, <1>15 DEF Held
  <1>19. SavedOK(r.saved, T)
    BY <1>1, <1>14 DEF SavedOK
  <1>20. r.global => GbLive(r.gb, T0)
    BY <1>10, <1>13
  <1>21. Sound(r, T0, T)
    BY <1>14, <1>16, <1>17, <1>18, <1>19, <1>20 DEF Sound
  <1> QED
    BY <1>12, <1>14, <1>21

----------------------------------------------------------------------------
\* k: the mark moves to the line, the marks of lines are still counted.
LEMMA MarkSound ==
  ASSUME NEW e, NEW T, NEW T0, Sound(e, T, T0), NEW m \in Mark, NEW n, n = e.lp
  PROVE  /\ Sound(mark_line_node(e, m, n), T, T0)
         /\ mark_line_node(e, m, n).st = e.st
         /\ mark_line_node(e, m, n).saved = e.saved
         /\ mark_line_node(e, m, n).global = e.global
  <1>1. /\ e \in Buffer /\ MarksOK(e) /\ Deque(e.undo, e.forw, e.back, e.heap, T, T0)
        /\ Walk(e, T) /\ IsText(T) /\ Len(T) \in Nat /\ ToSet(T) \subseteq e.heap
    BY SoundParts
  <1>2. n \in ToSet(T) \cup {0} /\ n \in Link
    <2>1. e.n_prev \in Int
      BY <1>1 DEF Walk
    <2> QED
      BY <1>1, <2>1, OnText, TextFacts DEF Walk
  <1>3. PICK mk, c : /\ mk = [e.mark EXCEPT ![m] = n]
                     /\ c = IF e.mark[m] = Nil THEN e.marks + 1 ELSE e.marks
    OBVIOUS
  <1>4. mk \in [Mark -> Link \cup {Nil}] /\ c \in Nat
    BY <1>1, <1>2, <1>3 DEF Buffer
  <1>5. PICK r : r = Remark(e, mk, c)
    OBVIOUS
  <1>6. Remarked(e, r, mk, c)
    BY <1>1, <1>4, <1>5, RemarkFields
  <1>7. mark_line_node(e, m, n) = r
    BY <1>1, <1>3, <1>5 DEF mark_line_node, Remark, Buffer
  <1>8. r \in Buffer /\ r.mark = mk /\ r.marks = c /\ r.heap = e.heap
        /\ r.forw = e.forw /\ r.back = e.back /\ SameRest(e, r)
    BY <1>6 DEF Remarked
  <1>9. MarksOK(r)
    <2>1. e.mark \in [Mark -> Link \cup {Nil}]
      BY <1>1 DEF Buffer
    <2>2. Marked(r) = Marked(e) \cup {m}
      BY <1>2, <1>3, <1>8, <2>1 DEF Marked, Link, Nil
    <2>3. IsFiniteSet(Marked(e)) /\ Cardinality(Marked(e)) \in Nat
      BY MarkedFinite
    <2>4. Cardinality(Marked(r)) = c
      <3>1. CASE e.mark[m] = Nil
        <4>1. m \notin Marked(e)
          BY <3>1 DEF Marked
        <4>2. Cardinality(Marked(e) \cup {m}) = Cardinality(Marked(e)) + 1
          BY <2>3, <4>1, FS_AddElement
        <4> QED
          BY <1>1, <1>3, <2>2, <3>1, <4>2 DEF MarksOK
      <3>2. CASE e.mark[m] # Nil
        <4>1. Marked(e) \cup {m} = Marked(e)
          BY <3>2 DEF Marked
        <4> QED
          BY <1>1, <1>3, <2>2, <3>2, <4>1 DEF MarksOK
      <3> QED
        BY <3>1, <3>2
    <2>5. \A x \in Mark : r.mark[x] # Nil /\ r.mark[x] # 0 => r.mark[x] \in r.heap
      BY <1>1, <1>2, <1>3, <1>8, <2>1 DEF MarksOK
    <2> QED
      BY <1>8, <2>4, <2>5 DEF MarksOK
  <1>10. Walk(r, T)
    BY <1>1, <1>8 DEF Walk, SameRest
  <1>11. Held(r, T, T0)
    BY <1>1, <1>8, <1>9 DEF Held, SameRest
  <1>12. Sound(r, T, T0)
    BY <1>8, <1>10, <1>11, SoundParts DEF Sound, SameRest
  <1> QED
    BY <1>7, <1>8, <1>12 DEF SameRest

----------------------------------------------------------------------------
\* j: the lines are replaced by one, or, out of memory, only deleted.
JoinedLines(e, r, T, T0) ==
  \E C : /\ Sound(r, C, T0) /\ r.st.is_empty = e.st.is_empty /\ r.global = e.global
         /\ r.saved = e.saved /\ Changed(T, C, e.heap)

\* join_lines () keeps the buffer sound, out of memory too.
LEMMA JoinSound ==
  ASSUME NEW e, NEW T, NEW T0, Sound(e, T, T0), NEW from \in 1 .. Len(T), NEW to \in from .. Len(T)
  PROVE  JoinedLines(e, join_lines(e, from, to), T, T0)
  <1>1. PICK s, C : s = delete_lines(get_line_node(e, from), from, to) /\ C = Cut(T, from - 1, to)
    OBVIOUS
  <1>2. /\ Sound(s, C, T0) /\ s.st.is_empty = e.st.is_empty /\ s.global = e.global
        /\ s.saved = e.saved /\ s.heap = e.heap /\ s.st.dot = from - 1
    <2>1. PICK t : t = get_line_node(e, from)
      OBVIOUS
    <2>2. from \in 0 .. Len(T)
      BY SoundParts
    <2>3. Sound(t, T, T0) /\ Sought(e, t, T, from)
      BY <2>1, <2>2, GetSound
    <2>4. Lost(t, s, T, T0, from, to)
      BY <1>1, <2>1, <2>3, DeleteLines
    <2> QED
      BY <1>1, <2>3, <2>4 DEF Lost, Sought, SameLines, SameButUndo
  <1>5. PICK i : i = from - 1
    OBVIOUS
  <1>6. i \in Nat /\ to \in Nat /\ i <= to /\ to <= Len(T) /\ IsText(T)
    BY <1>5, SoundParts
  <1>7. RewrittenAt(T, C, i, to, 0, e.heap)
    BY <1>1, <1>5, <1>6, RewriteCut
  <1>3. CASE malloc_fails(s)
    <2>1. join_lines(e, from, to) = s
      BY <1>1, <1>3 DEF join_lines, put_joined
    <2> QED
      BY <1>2, <1>7, <2>1 DEF JoinedLines, Changed
  <1>4. CASE ~ malloc_fails(s)
    <2>1. PICK a, n, w : a = s.st.dot /\ n = malloc(s) /\ w = put_buffer_line(s)
      OBVIOUS
    <2>2. a \in 0 .. Len(C)
      BY <1>2, <2>1, SoundParts
    <2>3. Fresh(s, w, C, a, n)
      BY <1>2, <1>4, <2>1, PutLine
    <2>4. PICK r : r = APPEND_UNDO_NODE(w, n, 0, a + 1)
      OBVIOUS
    <2>5. Added(s, r, C, T0, a, n, 0)
      <3>1. UpAt(s.undo, C, 0, a)
        BY DEF UpAt
      <3> QED
        BY <1>2, <2>2, <2>3, <2>4, <3>1, AddedLine
    <2>6. join_lines(e, from, to) = r
      <3>1. w.st.dot = a + 1
        BY <2>3 DEF Fresh
      <3>2. join_lines(e, from, to) = undo_added(w)
        BY <1>1, <1>4, <2>1 DEF join_lines, put_joined
      <3> QED
        BY <2>4, <3>1, <3>2 DEF undo_added, APPEND_UNDO_NODE
    <2>7. PICK V : V = Insert(C, a, n)
      OBVIOUS
    <2>8. /\ Sound(r, V, T0) /\ r.st.is_empty = s.st.is_empty /\ r.global = s.global
          /\ r.saved = s.saved /\ n \notin e.heap
      BY <1>2, <2>5, <2>7 DEF Added
    <2>9. Len(V) = Len(C) + 1 /\ IsText(C)
      BY <1>2, <2>2, <2>5, <2>7, AddedChanges, SoundParts
    <2>10. a = i + 0
      BY <1>2, <1>5, <1>6, <2>1
    <2>11. RewrittenAt(T, V, i, to, 0 + 1, e.heap)
      BY <1>6, <1>7, <2>7, <2>8, <2>9, <2>10, RewriteMore
    <2>12. Changed(T, V, e.heap)
      BY <2>11 DEF Changed
    <2> QED
      BY <1>2, <2>6, <2>8, <2>12 DEF JoinedLines
  <1> QED
    BY <1>3, <1>4

----------------------------------------------------------------------------
(* The lines that replace one, of substitute_lines (). *)

NoneYet(e) == [e |-> e, ok |-> TRUE, up |-> 0]

Replacing(e, lp, k, a) ==
  /\ a[0] = NoneYet(e)
  /\ \A i \in 1 .. k : a[i] = PutReplacement(a[i - 1], lp)
  /\ put_replacement(e, lp, k) = a[k]

\* The states of the loop over the lines of the replacement.
LEMMA ReplaceRun ==
  ASSUME NEW e, NEW lp, NEW k \in Nat
  PROVE  \E a : Replacing(e, lp, k, a)
  <1> DEFINE S == {m \in 0 .. k : \E a : /\ a[0] = NoneYet(e)
                                         /\ \A i \in 1 .. m : a[i] = PutReplacement(a[i - 1], lp)}
  <1>1. 0 \in S
    <2>1. PICK a : a = [i \in {0} |-> NoneYet(e)]
      OBVIOUS
    <2>2. a[0] = NoneYet(e) /\ 0 \in 0 .. k /\ 1 .. 0 = {}
      BY <2>1
    <2> QED
      BY <2>2
  <1>2. ASSUME NEW m \in 1 .. k, m - 1 \in S PROVE m \in S
    <2>1. PICK l \in Nat : l = m - 1 /\ m = l + 1
      OBVIOUS
    <2>2. PICK a : /\ a[0] = NoneYet(e)
                   /\ \A i \in 1 .. l : a[i] = PutReplacement(a[i - 1], lp)
      BY <1>2, <2>1
    <2>3. PICK c : c = Ext(a, l, PutReplacement(a[l], lp))
      OBVIOUS
    <2>4. c[m] = PutReplacement(a[l], lp)
      BY <2>1, <2>3, ExtTop
    <2>5. \A x \in 0 .. l : c[x] = a[x]
      BY <2>3, ExtLow
    <2>6. c[0] = NoneYet(e)
      <3>1. 0 \in 0 .. l
        OBVIOUS
      <3> QED
        BY <2>2, <2>5, <3>1
    <2>7. ASSUME NEW i \in 1 .. m PROVE c[i] = PutReplacement(c[i - 1], lp)
      <3>1. CASE i = m
        <4>1. l \in 0 .. l /\ i - 1 = l
          BY <2>1, <3>1
        <4>2. c[i - 1] = a[l]
          BY <2>5, <4>1
        <4> QED
          BY <2>4, <3>1, <4>2
      <3>2. CASE i \in 1 .. l
        <4>1. i \in 0 .. l /\ i - 1 \in 0 .. l
          BY <3>2
        <4>2. c[i] = a[i] /\ c[i - 1] = a[i - 1]
          BY <2>5, <4>1
        <4> QED
          BY <2>2, <3>2, <4>2
      <3> QED
        BY <2>1, <3>1, <3>2
    <2>8. m \in 0 .. k
      OBVIOUS
    <2> QED
      BY <2>6, <2>7, <2>8
  <1>3. k \in S
    <2> HIDE DEF S
    <2>1. k \in 0 .. k
      OBVIOUS
    <2> QED
      BY <1>1, <1>2, <2>1, Inductive
  <1>4. PICK a : /\ a[0] = NoneYet(e)
                 /\ \A i \in 1 .. k : a[i] = PutReplacement(a[i - 1], lp)
    BY <1>3
  <1> HIDE DEF S
  <1> DEFINE W == CHOOSE w : w = [i \in 0 .. k |-> IF i = 0 THEN NoneYet(e)
                                                  ELSE PutReplacement(w[i - 1], lp)]
  <1>5. PICK c : c = [i \in 0 .. k |-> a[i]]
    OBVIOUS
  <1>6. c = [i \in 0 .. k |-> IF i = 0 THEN NoneYet(e) ELSE PutReplacement(c[i - 1], lp)]
    <2>1. \A i \in 0 .. k : i = 0 \/ (i \in 1 .. k /\ i # 0 /\ i - 1 \in 0 .. k)
      OBVIOUS
    <2>2. \A i \in 0 .. k : c[i] = a[i]
      BY <1>5
    <2>3. \A i \in 0 .. k : a[i] = IF i = 0 THEN NoneYet(e) ELSE PutReplacement(c[i - 1], lp)
      BY <1>4, <2>1, <2>2
    <2> QED
      BY <1>5, <2>3
  <1>7. W = [i \in 0 .. k |-> IF i = 0 THEN NoneYet(e) ELSE PutReplacement(W[i - 1], lp)]
    BY <1>6
  <1>8. put_replacement(e, lp, k) = W[k]
    BY DEF put_replacement, NoneYet
  <1> HIDE DEF W
  <1>9. W[0] = NoneYet(e)
    <2>1. 0 \in 0 .. k
      OBVIOUS
    <2> QED
      BY <1>7, <2>1
  <1>10. \A i \in 1 .. k : W[i] = PutReplacement(W[i - 1], lp)
    <2>1. \A i \in 1 .. k : i \in 0 .. k /\ i # 0
      OBVIOUS
    <2> QED
      BY <1>7, <2>1
  <1> QED
    BY <1>8, <1>9, <1>10 DEF Replacing

\* i lines of the replacement have been put; e0 is the buffer before.
PutText(e0, T, U, i, ok) ==
  \E m : RewrittenAt(T, U, e0.st.dot, e0.st.dot, m, e0.heap) /\ (ok => m = i)
PutSoFar(e0, T, T0, i, x, ok, up) ==
  /\ ok \in BOOLEAN
  /\ \E U : /\ Sound(x, U, T0) /\ e0.heap \subseteq x.heap /\ PutText(e0, T, U, i, ok)
            /\ x.st.is_empty = e0.st.is_empty /\ x.global = e0.global /\ x.saved = e0.saved
            /\ ok => /\ Len(U) = Len(T) + i /\ x.st.dot = e0.st.dot + i
                     /\ UpAt(x.undo, U, up, x.st.dot)
Replaced(e0, T, T0, i, acc) ==
  \E x, ok, up : acc = [e |-> x, ok |-> ok, up |-> up] /\ PutSoFar(e0, T, T0, i, x, ok, up)

\* Once a line could not be allocated, no more are put.
LEMMA ReplaceFails ==
  ASSUME NEW e0, NEW T, NEW T0, NEW i, NEW j, NEW x, NEW ok, NEW up,
         PutSoFar(e0, T, T0, i, x, ok, up)
  PROVE  PutSoFar(e0, T, T0, j, x, FALSE, up)
  BY DEF PutSoFar, PutText

\* A line of the replacement is put after the one before it and takes the marks.
LEMMA ReplaceLine ==
  ASSUME NEW e0, NEW T, NEW T0, NEW i \in Nat, NEW x, NEW up, PutSoFar(e0, T, T0, i, x, TRUE, up),
         NEW lp \in Node, Len(T) \in Nat, IsText(T), e0.st.dot \in Int, ~ malloc_fails(x),
         NEW acc, acc = [e |-> x, ok |-> TRUE, up |-> up]
  PROVE  Replaced(e0, T, T0, i + 1, PutReplacement(acc, lp))
  <1>1. PICK U : /\ Sound(x, U, T0)
                 /\ x.st.is_empty = e0.st.is_empty /\ x.global = e0.global
                 /\ Len(U) = Len(T) + i /\ x.st.dot = e0.st.dot + i
                 /\ UpAt(x.undo, U, up, x.st.dot)
                 /\ e0.heap \subseteq x.heap /\ PutText(e0, T, U, i, TRUE)
                 /\ x.saved = e0.saved
    BY DEF PutSoFar
  <1>2. PICK a, n : a = x.st.dot /\ n = malloc(x)
    OBVIOUS
  <1>3. a \in 0 .. Len(U) /\ Len(U) \in Nat /\ a \in Int
    BY <1>1, <1>2, SoundParts
  <1>4. PICK e1 : e1 = put_buffer_line(x)
    OBVIOUS
  <1>5. Fresh(x, e1, U, a, n)
    BY <1>1, <1>2, <1>4, PutLine
  <1>6. PICK e2 : e2 = get_line_node(e1, a + 1)
    OBVIOUS
  <1>7. Fresh(x, e2, U, a, n) /\ e2.lp = n
    BY <1>1, <1>3, <1>5, <1>6, FreshGet
  <1>8. PICK e3 : e3 = transfer_marks(e2, n, lp)
    OBVIOUS
  <1>9. Fresh(x, e3, U, a, n)
    BY <1>7, <1>8, FreshMarks
  <1>10. PICK e4 : e4 = APPEND_UNDO_NODE(e3, n, up, a + 1)
    OBVIOUS
  <1>11. Added(x, e4, U, T0, a, n, up)
    BY <1>1, <1>2, <1>3, <1>9, <1>10, AddedLine
  <1>12. e1.st.dot = a + 1 /\ e3.st.dot = a + 1
    BY <1>5, <1>9 DEF Fresh
  <1>13. PICK up2 : up2 = IF up = 0 THEN Len(e4.undo) ELSE up
    OBVIOUS
  <1>14. PutReplacement(acc, lp) = [e |-> e4, ok |-> TRUE, up |-> up2]
    <2>1. acc.e = x /\ acc.ok /\ acc.up = up
      OBVIOUS
    <2> QED
      BY <1>4, <1>6, <1>7, <1>8, <1>10, <1>12, <1>13, <2>1 DEF PutReplacement
  <1>15. PICK V : V = Insert(U, a, n)
    OBVIOUS
  <1>16. Sound(e4, V, T0) /\ UpAt(e4.undo, V, up2, a + 1) /\ e4.st.dot = a + 1
         /\ e4.st.lines = Len(U) + 1 /\ e4.st.is_empty = x.st.is_empty /\ e4.global = x.global
         /\ e4.saved = x.saved /\ e4.heap = x.heap \cup {n} /\ n \notin x.heap
    BY <1>11, <1>13, <1>15 DEF Added, UpAt
  <1>17. Len(V) = Len(T) + (i + 1) /\ e4.st.dot = e0.st.dot + (i + 1)
    <2>1. Len(V) = Len(U) + 1
      BY <1>16, SoundParts
    <2>2. a = e0.st.dot + i
      BY <1>1, <1>2
    <2> QED
      BY <1>1, <1>16, <2>1, <2>2
  <1>19. PutText(e0, T, V, i + 1, TRUE)
    <2>1. PICK k : k = e0.st.dot
      OBVIOUS
    <2>2. RewrittenAt(T, U, k, k, i, e0.heap)
      BY <1>1, <2>1 DEF PutText
    <2>3. n \notin e0.heap /\ a = k + i /\ IsText(U)
      BY <1>1, <1>2, <1>16, <2>1, SoundParts
    <2>4. Len(V) = Len(U) + 1
      BY <1>16, SoundParts
    <2>5. RewrittenAt(T, V, k, k, i + 1, e0.heap)
      BY <1>15, <2>2, <2>3, <2>4, RewriteMore
    <2> QED
      BY <2>1, <2>5 DEF PutText
  <1>18. PutSoFar(e0, T, T0, i + 1, e4, TRUE, up2)
    BY <1>1, <1>16, <1>17, <1>19 DEF PutSoFar
  <1> QED
    BY <1>14, <1>18 DEF Replaced

\* The same, whether memory is left or not.
LEMMA ReplaceStep ==
  ASSUME NEW e0, NEW T, NEW T0, NEW i \in Nat, NEW acc, Replaced(e0, T, T0, i, acc), NEW lp \in Node,
         Len(T) \in Nat, IsText(T), e0.st.dot \in Int
  PROVE  Replaced(e0, T, T0, i + 1, PutReplacement(acc, lp))
  <1>1. PICK x, ok, up : /\ acc = [e |-> x, ok |-> ok, up |-> up]
                         /\ PutSoFar(e0, T, T0, i, x, ok, up)
    BY DEF Replaced
  <1>2. ok \in BOOLEAN /\ acc.e = x /\ acc.ok = ok
    BY <1>1 DEF PutSoFar
  <1>3. CASE ~ ok \/ malloc_fails(x)
    <2>1. acc.up = up
      BY <1>1
    <2>2. PutReplacement(acc, lp) = [e |-> x, ok |-> FALSE, up |-> up]
      BY <1>2, <1>3, <2>1 DEF PutReplacement
    <2>3. PutSoFar(e0, T, T0, i + 1, x, FALSE, up)
      BY <1>1, ReplaceFails
    <2> QED
      BY <2>2, <2>3 DEF Replaced
  <1>4. CASE ok /\ ~ malloc_fails(x)
    <2>1. ok = TRUE
      BY <1>2, <1>4
    <2> QED
      BY <1>1, <1>4, <2>1, ReplaceLine
  <1> QED
    BY <1>3, <1>4

\* However many lines of a replacement are put, the buffer is sound.
LEMMA ReplaceLines ==
  ASSUME NEW e, NEW T, NEW T0, Sound(e, T, T0), NEW lp \in Node, NEW k \in Nat
  PROVE  Replaced(e, T, T0, k, put_replacement(e, lp, k))
  <1>1. Len(T) \in Nat /\ e.st.dot \in 0 .. Len(T) /\ e.st.dot \in Int /\ IsText(T)
    BY SoundParts
  <1>2. PICK a : /\ a[0] = NoneYet(e)
                 /\ \A i \in 1 .. k : a[i] = PutReplacement(a[i - 1], lp)
                 /\ put_replacement(e, lp, k) = a[k]
    <2>1. \E a : Replacing(e, lp, k, a)
      BY ReplaceRun
    <2> QED
      BY <2>1 DEF Replacing
  <1> DEFINE S == {i \in 0 .. k : Replaced(e, T, T0, i, a[i])}
  <1> HIDE DEF S
  <1>3. 0 \in S
    <2>1. PutSoFar(e, T, T0, 0, e, TRUE, 0)
      <3>1. Len(T) = Len(T) + 0 /\ e.st.dot = e.st.dot + 0
        BY <1>1
      <3>2. UpAt(e.undo, T, 0, e.st.dot)
        BY DEF UpAt
      <3>3. RewrittenAt(T, T, e.st.dot, e.st.dot, 0, e.heap)
        BY <1>1, RewriteNone
      <3>4. PutText(e, T, T, 0, TRUE)
        BY <3>3 DEF PutText
      <3> QED
        BY <3>1, <3>2, <3>4 DEF PutSoFar
    <2>2. Replaced(e, T, T0, 0, NoneYet(e))
      BY <2>1 DEF Replaced, NoneYet
    <2>3. 0 \in 0 .. k
      OBVIOUS
    <2> QED
      BY <1>2, <2>2, <2>3 DEF S
  <1>4. ASSUME NEW i \in 1 .. k, i - 1 \in S PROVE i \in S
    <2>1. PICK l \in Nat : l = i - 1 /\ i = l + 1
      OBVIOUS
    <2>2. PICK s : s = a[l]
      OBVIOUS
    <2>3. Replaced(e, T, T0, l, s)
      BY <1>4, <2>1, <2>2 DEF S
    <2>4. Replaced(e, T, T0, l + 1, PutReplacement(s, lp))
      BY <1>1, <2>3, ReplaceStep
    <2>5. a[i] = PutReplacement(s, lp)
      BY <1>2, <2>1, <2>2
    <2>6. i \in 0 .. k
      OBVIOUS
    <2> QED
      BY <2>1, <2>4, <2>5, <2>6 DEF S
  <1>5. k \in S
    <2>1. k \in 0 .. k
      OBVIOUS
    <2> QED
      BY <1>3, <1>4, <2>1, Inductive
  <1> QED
    BY <1>2, <1>5 DEF S

----------------------------------------------------------------------------
(* The lines that match a global command. *)

WithLine(s, n, sel) == IF n \in sel THEN Append(s, n) ELSE s

Marking(T, sel, k, a) ==
  /\ a[0] = <<>>
  /\ \A i \in 1 .. k : a[i] = WithLine(a[i - 1], T[i], sel)
  /\ set_global_lines(T, sel) = a[k]

\* The states of the loop of set_global_lines ().
LEMMA MarkRun ==
  ASSUME NEW T, NEW sel, NEW k \in Nat, k = Len(T)
  PROVE  \E a : Marking(T, sel, k, a)
  <1> DEFINE S == {m \in 0 .. k : \E a : /\ a[0] = <<>>
                                         /\ \A i \in 1 .. m : a[i] = WithLine(a[i - 1], T[i], sel)}
  <1>1. 0 \in S
    <2>1. PICK a : a = [i \in {0} |-> <<>>]
      OBVIOUS
    <2>2. a[0] = <<>> /\ 0 \in 0 .. k /\ 1 .. 0 = {}
      BY <2>1
    <2> QED
      BY <2>2
  <1>2. ASSUME NEW m \in 1 .. k, m - 1 \in S PROVE m \in S
    <2>1. PICK l \in Nat : l = m - 1 /\ m = l + 1
      OBVIOUS
    <2>2. PICK a : /\ a[0] = <<>>
                   /\ \A i \in 1 .. l : a[i] = WithLine(a[i - 1], T[i], sel)
      BY <1>2, <2>1
    <2>3. PICK c : c = Ext(a, l, WithLine(a[l], T[m], sel))
      OBVIOUS
    <2>4. c[m] = WithLine(a[l], T[m], sel)
      BY <2>1, <2>3, ExtTop
    <2>5. \A x \in 0 .. l : c[x] = a[x]
      BY <2>3, ExtLow
    <2>6. c[0] = <<>>
      <3>1. 0 \in 0 .. l
        OBVIOUS
      <3> QED
        BY <2>2, <2>5, <3>1
    <2>7. ASSUME NEW i \in 1 .. m PROVE c[i] = WithLine(c[i - 1], T[i], sel)
      <3>1. CASE i = m
        <4>1. l \in 0 .. l /\ i - 1 = l
          BY <2>1, <3>1
        <4>2. c[i - 1] = a[l]
          BY <2>5, <4>1
        <4> QED
          BY <2>4, <3>1, <4>2
      <3>2. CASE i \in 1 .. l
        <4>1. i \in 0 .. l /\ i - 1 \in 0 .. l
          BY <3>2
        <4>2. c[i] = a[i] /\ c[i - 1] = a[i - 1]
          BY <2>5, <4>1
        <4> QED
          BY <2>2, <3>2, <4>2
      <3> QED
        BY <2>1, <3>1, <3>2
    <2>8. m \in 0 .. k
      OBVIOUS
    <2> QED
      BY <2>6, <2>7, <2>8
  <1>3. k \in S
    <2> HIDE DEF S
    <2>1. k \in 0 .. k
      OBVIOUS
    <2> QED
      BY <1>1, <1>2, <2>1, Inductive
  <1>4. PICK a : /\ a[0] = <<>>
                 /\ \A i \in 1 .. k : a[i] = WithLine(a[i - 1], T[i], sel)
    BY <1>3
  <1> HIDE DEF S
  <1> DEFINE W == CHOOSE w : w = [i \in 0 .. k |-> IF i = 0 THEN <<>>
                                                  ELSE WithLine(w[i - 1], T[i], sel)]
  <1>5. PICK c : c = [i \in 0 .. k |-> a[i]]
    OBVIOUS
  <1>6. c = [i \in 0 .. k |-> IF i = 0 THEN <<>> ELSE WithLine(c[i - 1], T[i], sel)]
    <2>1. \A i \in 0 .. k : i = 0 \/ (i \in 1 .. k /\ i # 0 /\ i - 1 \in 0 .. k)
      OBVIOUS
    <2>2. \A i \in 0 .. k : c[i] = a[i]
      BY <1>5
    <2>3. \A i \in 0 .. k : a[i] = IF i = 0 THEN <<>> ELSE WithLine(c[i - 1], T[i], sel)
      BY <1>4, <2>1, <2>2
    <2> QED
      BY <1>5, <2>3
  <1>7. W = [i \in 0 .. k |-> IF i = 0 THEN <<>> ELSE WithLine(W[i - 1], T[i], sel)]
    BY <1>6
  <1>8. set_global_lines(T, sel) = W[k]
    BY DEF set_global_lines, WithLine
  <1> HIDE DEF W
  <1>9. W[0] = <<>>
    <2>1. 0 \in 0 .. k
      OBVIOUS
    <2> QED
      BY <1>7, <2>1
  <1>10. \A i \in 1 .. k : W[i] = WithLine(W[i - 1], T[i], sel)
    <2>1. \A i \in 1 .. k : i \in 0 .. k /\ i # 0
      OBVIOUS
    <2> QED
      BY <1>7, <2>1
  <1> QED
    BY <1>8, <1>9, <1>10 DEF Marking

\* Some of the first i lines of the text, each once.
Picked(T, i, s) ==
  /\ s \in Seq(Node)
  /\ \A x \in 1 .. Len(s) : \E y \in 1 .. i : s[x] = T[y]
  /\ \A x, y \in 1 .. Len(s) : s[x] = s[y] => x = y

\* One more line, which matches or does not.
LEMMA PickLine ==
  ASSUME NEW T, IsText(T), NEW i \in 1 .. Len(T), NEW s, Picked(T, i - 1, s), NEW sel
  PROVE  Picked(T, i, WithLine(s, T[i], sel))
  <1>1. /\ Len(T) \in Nat /\ T[i] \in Node /\ \A x, y \in 1 .. Len(T) : T[x] = T[y] => x = y
    BY TextFacts DEF IsText
  <1>2. PICK n : n = T[i]
    OBVIOUS
  <1>3. PICK l \in Nat : l = Len(s)
    BY DEF Picked
  <1>4. /\ s \in Seq(Node) /\ \A x \in 1 .. l : \E y \in 1 .. i - 1 : s[x] = T[y]
        /\ \A x, y \in 1 .. l : s[x] = s[y] => x = y
    BY <1>3 DEF Picked
  <1>5. CASE n \notin sel
    <2>1. WithLine(s, n, sel) = s
      BY <1>5 DEF WithLine
    <2>2. \A x \in 1 .. l : \E y \in 1 .. i : s[x] = T[y]
      <3>1. \A y \in 1 .. i - 1 : y \in 1 .. i
        OBVIOUS
      <3> QED
        BY <1>4, <3>1
    <2> QED
      BY <1>2, <1>3, <1>4, <2>1, <2>2 DEF Picked
  <1>6. CASE n \in sel
    <2>1. PICK r : r = Append(s, n)
      OBVIOUS
    <2>2. /\ r \in Seq(Node) /\ Len(r) = l + 1 /\ r[l + 1] = n
          /\ \A x \in 1 .. l : r[x] = s[x]
      BY <1>1, <1>2, <1>3, <1>4, <2>1
    <2>3. \A x \in 1 .. l : s[x] # n
      <3>1. ASSUME NEW x \in 1 .. l, s[x] = n PROVE FALSE
        <4>1. PICK y \in 1 .. i - 1 : s[x] = T[y]
          BY <1>4
        <4>2. y \in 1 .. Len(T) /\ y # i
          BY <1>1
        <4> QED
          BY <1>1, <1>2, <3>1, <4>1, <4>2
      <3> QED
        BY <3>1
    <2>4. \A x \in 1 .. l + 1 : x = l + 1 \/ x \in 1 .. l
      OBVIOUS
    <2>5. \A x \in 1 .. l + 1 : \E y \in 1 .. i : r[x] = T[y]
      <3>1. i \in 1 .. i /\ \A y \in 1 .. i - 1 : y \in 1 .. i
        OBVIOUS
      <3> QED
        BY <1>2, <1>4, <2>2, <2>4, <3>1
    <2>6. \A x, y \in 1 .. l + 1 : r[x] = r[y] => x = y
      BY <1>4, <2>2, <2>3, <2>4
    <2>7. WithLine(s, n, sel) = r
      BY <1>6, <2>1 DEF WithLine
    <2> QED
      BY <1>2, <2>2, <2>5, <2>6, <2>7 DEF Picked
  <1> QED
    BY <1>5, <1>6

\* set_global_lines () picks lines of the text, each once.
LEMMA PickedLines ==
  ASSUME NEW T, IsText(T), NEW sel
  PROVE  Picked(T, Len(T), set_global_lines(T, sel))
  <1>1. PICK k \in Nat : k = Len(T)
    BY TextFacts
  <1>2. PICK a : /\ a[0] = <<>>
                 /\ \A i \in 1 .. k : a[i] = WithLine(a[i - 1], T[i], sel)
                 /\ set_global_lines(T, sel) = a[k]
    <2>1. \E a : Marking(T, sel, k, a)
      BY <1>1, MarkRun
    <2> QED
      BY <2>1 DEF Marking
  <1> DEFINE S == {i \in 0 .. k : Picked(T, i, a[i])}
  <1> HIDE DEF S
  <1>3. 0 \in S
    <2>1. Picked(T, 0, <<>>)
      BY DEF Picked
    <2>2. 0 \in 0 .. k
      OBVIOUS
    <2> QED
      BY <1>2, <2>1, <2>2 DEF S
  <1>4. ASSUME NEW i \in 1 .. k, i - 1 \in S PROVE i \in S
    <2>1. PICK s, r : s = a[i - 1] /\ r = a[i]
      OBVIOUS
    <2>2. Picked(T, i - 1, s)
      BY <1>4, <2>1 DEF S
    <2>3. i \in 1 .. Len(T)
      BY <1>1
    <2>4. Picked(T, i, WithLine(s, T[i], sel))
      BY <2>2, <2>3, PickLine
    <2>5. r = WithLine(s, T[i], sel)
      BY <1>2, <2>1
    <2>6. i \in 0 .. k
      OBVIOUS
    <2> QED
      BY <2>1, <2>4, <2>5, <2>6 DEF S
  <1>5. k \in S
    <2>1. k \in 0 .. k
      OBVIOUS
    <2> QED
      BY <1>3, <1>4, <2>1, Inductive
  <1> QED
    BY <1>1, <1>2, <1>5 DEF S

MarkedBuffer(T, sel) == [EmptyGlobalBuffer EXCEPT !.lbuf = set_global_lines(T, sel)]

\* The global command buffer holds lines of the text, each once.
LEMMA MarkedLive ==
  ASSUME NEW T, IsText(T), NEW sel
  PROVE  MarkedBuffer(T, sel) \in GlobalBuffer /\ GbLive(MarkedBuffer(T, sel), T)
  <1>1. PICK s, gb : s = set_global_lines(T, sel) /\ gb = MarkedBuffer(T, sel)
    OBVIOUS
  <1>2. Picked(T, Len(T), s)
    BY <1>1, PickedLines
  <1>3. PICK l \in Nat : l = Len(s)
    BY <1>2 DEF Picked
  <1>4. s \in Seq(Node) /\ s \in Seq(Node \cup {Nil})
    BY <1>2 DEF Picked
  <1>5. gb = [lbuf |-> s, ptr |-> 1, index |-> 0]
    BY <1>1 DEF MarkedBuffer, EmptyGlobalBuffer
  <1>6. gb \in GlobalBuffer /\ gb.lbuf = s /\ gb.ptr = 1 /\ gb.index = 0
    BY <1>4, <1>5 DEF GlobalBuffer
  <1>7. GbShape(gb)
    BY <1>2, <1>3, <1>6 DEF GbShape, Picked
  <1>8. \A x \in 1 .. l : s[x] \in ToSet(T)
    BY <1>2, <1>3, OnText DEF Picked
  <1>9. GbLive(gb, T)
    BY <1>3, <1>6, <1>7, <1>8 DEF GbLive
  <1> QED
    BY <1>1, <1>6, <1>9

\* The line visited next is a line of the text.
LEMMA NextLineLive ==
  ASSUME NEW gb, NEW T, GbLive(gb, T), NEW i, i = next_global_index(gb), i # 0
  PROVE  i \in Nat \ {0} /\ i <= Len(gb.lbuf) /\ gb.lbuf[i] \in ToSet(T)
  <1>1. gb.ptr \in Nat \ {0} /\ Len(gb.lbuf) \in Nat
    BY DEF GbLive, GbShape, GlobalBuffer
  <1>2. PICK S : S = {x \in gb.ptr .. Len(gb.lbuf) : gb.lbuf[x] # Nil}
    OBVIOUS
  <1>3. S # {} /\ i = Min(S)
    BY <1>2 DEF next_global_index
  <1>4. S \subseteq Nat
    BY <1>1, <1>2
  <1>5. i \in S
    BY <1>3, <1>4, MinIn
  <1>6. i \in gb.ptr .. Len(gb.lbuf) /\ gb.lbuf[i] # Nil
    BY <1>2, <1>5
  <1>7. gb.lbuf[i] \in ToSet(T)
    BY <1>6 DEF GbLive
  <1> QED
    BY <1>1, <1>6, <1>7

\* The global buffer with the search for the next line moved on.
LEMMA NextBuffer ==
  ASSUME NEW gb, NEW T, GbLive(gb, T), NEW p \in Nat \ {0}, NEW r, r = [gb EXCEPT !.ptr = p],
         \A x \in p .. Len(gb.lbuf) : x \in gb.ptr .. Len(gb.lbuf)
  PROVE  r \in GlobalBuffer /\ GbLive(r, T)
  <1>1. GbShape(gb) /\ gb \in GlobalBuffer
    BY DEF GbLive, GbShape
  <1>2. r \in GlobalBuffer /\ r.ptr = p /\ r.lbuf = gb.lbuf /\ r.index = gb.index
    BY <1>1 DEF GlobalBuffer
  <1>3. GbShape(r)
    BY <1>1, <1>2 DEF GbShape
  <1>4. \A x \in r.ptr .. Len(r.lbuf) : r.lbuf[x] \in ToSet(T) \cup {Nil}
    BY <1>2 DEF GbLive
  <1> QED
    BY <1>2, <1>3, <1>4 DEF GbLive

\* The address of a line of the text.
LEMMA AddressOf ==
  ASSUME NEW e, NEW T, NEW T0, Sound(e, T, T0), NEW n \in ToSet(T)
  PROVE  get_line_node_address(e, n) \in 0 .. Len(T)
  <1>1. IsText(T) /\ Ring(e.forw, e.back, T) /\ Len(T) \in Nat
    BY SoundParts
  <1>2. TextOf(e.forw) = T
    BY <1>1, TextOfRing
  <1>3. n # line_head
    BY <1>1, OnText DEF line_head
  <1>4. CASE T = <<>>
    BY <1>1, <1>2, <1>4 DEF get_line_node_address
  <1>5. CASE T # <<>>
    <2>1. get_line_node_address(e, n) = CHOOSE i \in DOMAIN T : T[i] = n
      BY <1>2, <1>3, <1>5 DEF get_line_node_address
    <2>2. \E i \in 1 .. Len(T) : T[i] = n
      BY <1>1, OnText
    <2>3. DOMAIN T = 1 .. Len(T)
      BY <1>1 DEF IsText
    <2>4. (CHOOSE i \in DOMAIN T : T[i] = n) \in DOMAIN T
      BY <2>2, <2>3
    <2> QED
      BY <1>1, <2>1, <2>3, <2>4
  <1> QED
    BY <1>4, <1>5

----------------------------------------------------------------------------
(* The command in progress. *)

\* Another state of the same text.
WithSt(e, st) == [e EXCEPT !.st = st]
Restated(e, r, T, T0, st) ==
  /\ Sound(r, T, T0) /\ r.st = st /\ r.undo = e.undo /\ r.global = e.global
  /\ r.lp = e.lp /\ r.heap = e.heap /\ r.forw = e.forw /\ r.saved = e.saved

\* Another state of the same text keeps the buffer sound.
LEMMA RestateSound ==
  ASSUME NEW e, NEW T, NEW T0, Sound(e, T, T0), NEW st \in State,
         st.lines = Len(T), st.dot \in 0 .. Len(T)
  PROVE  Restated(e, WithSt(e, st), T, T0, st)
  <1>1. /\ e \in Buffer /\ MarksOK(e) /\ Deque(e.undo, e.forw, e.back, e.heap, T, T0)
        /\ Walk(e, T) /\ SavedOK(e.saved, T0)
        /\ e.global => GbLive(e.gb, T)
    BY SoundParts
  <1>2. PICK r : r = WithSt(e, st)
    OBVIOUS
  <1>3. /\ r \in Buffer /\ r.st = st
        /\ r.forw = e.forw /\ r.back = e.back /\ r.heap = e.heap /\ r.saved = e.saved
        /\ r.lp = e.lp /\ r.n_prev = e.n_prev /\ r.undo = e.undo /\ r.mark = e.mark
        /\ r.marks = e.marks /\ r.gb = e.gb /\ r.global = e.global
    BY <1>1, <1>2 DEF Buffer, WithSt
  <1>4. MarksOK(r)
    <2>1. Marked(r) = Marked(e)
      BY <1>3 DEF Marked
    <2> QED
      BY <1>1, <1>3, <2>1 DEF MarksOK
  <1>5. Walk(r, T)
    BY <1>1, <1>3 DEF Walk
  <1>6. Sound(r, T, T0)
    BY <1>1, <1>3, <1>4, <1>5 DEF Sound, Held
  <1> QED
    BY <1>2, <1>3, <1>6 DEF Restated

StateOf(dot_, lines_, empty) == [dot |-> dot_, lines |-> lines_, is_empty |-> empty]

\* The fields of a state.
LEMMA StateFields ==
  ASSUME NEW d \in Int, NEW l \in Int, NEW x \in BOOLEAN
  PROVE  /\ StateOf(d, l, x) \in State /\ StateOf(d, l, x).dot = d
         /\ StateOf(d, l, x).lines = l /\ StateOf(d, l, x).is_empty = x
  BY DEF StateOf, State

\* Another current line, another flag.
LEMMA PointSound ==
  ASSUME NEW e, NEW T, NEW T0, Sound(e, T, T0), NEW d \in 0 .. Len(T)
  PROVE  Restated(e, Pointed(e, d), T, T0, StateOf(d, e.st.lines, e.st.is_empty))
  <1>1. PICK s : s = e.st /\ s \in State /\ s.lines = Len(T) /\ Len(T) \in Nat /\ e \in Buffer
    BY SoundParts
  <1>2. PICK st : st = StateOf(d, s.lines, s.is_empty)
    OBVIOUS
  <1>3. st \in State /\ st.lines = Len(T) /\ st.dot = d
    <2>1. d \in Int /\ s.lines \in Int /\ s.is_empty \in BOOLEAN
      BY <1>1 DEF State
    <2>2. st \in State /\ st.dot = d /\ st.lines = s.lines
      BY <1>2, <2>1, StateFields
    <2> QED
      BY <1>1, <2>2
  <1>4. Pointed(e, d) = WithSt(e, st)
    <2>1. [s EXCEPT !.dot = d] = st
      BY <1>1, <1>2 DEF State, StateOf
    <2> QED
      BY <1>1, <2>1 DEF Pointed, WithSt
  <1> QED
    BY <1>1, <1>2, <1>3, <1>4, RestateSound

Emptied(e, x) == [e EXCEPT !.st.is_empty = x]

\* Another flag keeps the buffer sound.
LEMMA EmptySound ==
  ASSUME NEW e, NEW T, NEW T0, Sound(e, T, T0), NEW x \in BOOLEAN
  PROVE  Restated(e, Emptied(e, x), T, T0, StateOf(e.st.dot, e.st.lines, x))
  <1>1. PICK s : s = e.st /\ s \in State /\ s.lines = Len(T) /\ s.dot \in 0 .. Len(T)
                 /\ Len(T) \in Nat /\ e \in Buffer
    BY SoundParts
  <1>2. PICK st : st = StateOf(s.dot, s.lines, x)
    OBVIOUS
  <1>3. st \in State /\ st.lines = Len(T) /\ st.dot = s.dot
    <2>1. s.dot \in Int /\ s.lines \in Int
      BY <1>1 DEF State
    <2> QED
      BY <1>1, <1>2, <2>1, StateFields
  <1>4. Emptied(e, x) = WithSt(e, st)
    <2>1. [s EXCEPT !.is_empty = x] = st
      BY <1>1, <1>2 DEF State, StateOf
    <2> QED
      BY <1>1, <2>1 DEF Emptied, WithSt
  <1> QED
    BY <1>1, <1>2, <1>3, <1>4, RestateSound

----------------------------------------------------------------------------
\* Another global command buffer, in or out of a global command.
WithGlobal(e, g, gb) == [e EXCEPT !.global = g, !.gb = gb]
Globaled(e, r, T, T0, g, gb) ==
  /\ Sound(r, T, T0) /\ r.st = e.st /\ r.undo = e.undo /\ r.global = g /\ r.gb = gb
  /\ r.saved = e.saved /\ r.heap = e.heap

\* Entering or leaving a global command keeps the buffer sound.
LEMMA GlobalSound ==
  ASSUME NEW e, NEW T, NEW T0, Sound(e, T, T0), NEW g \in BOOLEAN, NEW gb \in GlobalBuffer,
         g => GbLive(gb, T)
  PROVE  Globaled(e, WithGlobal(e, g, gb), T, T0, g, gb)
  <1>1. /\ e \in Buffer /\ MarksOK(e) /\ Deque(e.undo, e.forw, e.back, e.heap, T, T0)
        /\ Walk(e, T) /\ SavedOK(e.saved, T0) /\ e.st.dot \in 0 .. Len(T)
    BY SoundParts
  <1>2. PICK r : r = WithGlobal(e, g, gb)
    OBVIOUS
  <1>3. /\ r \in Buffer /\ r.st = e.st
        /\ r.forw = e.forw /\ r.back = e.back /\ r.heap = e.heap /\ r.saved = e.saved
        /\ r.lp = e.lp /\ r.n_prev = e.n_prev /\ r.undo = e.undo /\ r.mark = e.mark
        /\ r.marks = e.marks /\ r.gb = gb /\ r.global = g
    BY <1>1, <1>2 DEF Buffer, WithGlobal
  <1>4. MarksOK(r)
    <2>1. Marked(r) = Marked(e)
      BY <1>3 DEF Marked
    <2> QED
      BY <1>1, <1>3, <2>1 DEF MarksOK
  <1>5. Walk(r, T)
    BY <1>1, <1>3 DEF Walk
  <1>6. Sound(r, T, T0)
    BY <1>1, <1>3, <1>4, <1>5 DEF Sound, Held
  <1> QED
    BY <1>2, <1>3, <1>6 DEF Globaled

\* The end of a global command.
Quit(e) == [e EXCEPT !.global = FALSE, !.gb = EmptyGlobalBuffer]

\* So does ending one.
LEMMA QuitSound ==
  ASSUME NEW e, NEW T, NEW T0, Sound(e, T, T0)
  PROVE  Sound(Quit(e), T, T0) /\ Quit(e).st = e.st /\ Quit(e).saved = e.saved
  <1>1. PICK g \in BOOLEAN : g = FALSE
    OBVIOUS
  <1>2. EmptyGlobalBuffer \in GlobalBuffer /\ (g => GbLive(EmptyGlobalBuffer, T))
    BY EmptyLive
  <1>3. Globaled(e, WithGlobal(e, g, EmptyGlobalBuffer), T, T0, g, EmptyGlobalBuffer)
    BY <1>2, GlobalSound
  <1>4. Quit(e) = WithGlobal(e, g, EmptyGlobalBuffer)
    BY <1>1 DEF Quit, WithGlobal
  <1> QED
    BY <1>3, <1>4 DEF Globaled

\* The smaller of two numbers.
LEMMA MinOf ==
  ASSUME NEW a \in Nat, NEW b \in Nat
  PROVE  Min({a, b}) \in Nat /\ Min({a, b}) <= a /\ Min({a, b}) <= b
  <1>1. PICK S : S = {a, b}
    OBVIOUS
  <1>2. S \subseteq Nat /\ S # {}
    BY <1>1
  <1>3. \E x \in S : \A y \in S : x =< y
    BY <1>2, SmallestNat
  <1>4. Min(S) \in S /\ \A y \in S : Min(S) =< y
    BY <1>3 DEF Min
  <1> QED
    BY <1>1, <1>4

----------------------------------------------------------------------------
\* The command in progress and its local variables.
Reads == {"r", "E", "!"}
TextOps == [cmd : {"a", "i", "c"}, pc : {"text"}, up : Nat, arg : Nat]
OpenOps == [cmd : Reads, pc : {"open"}, after : Nat, arg : Nat]
ReadOps == [cmd : Reads, pc : {"read"}, up : Nat, lp : Link, arg : Nat]
CopyOps == [cmd : {"t"}, pc : {"copy"}, up : Nat, lp : Link, after : Nat, left : Nat,
            rest : Nat, half : {0, 1}]
SubstOps == [cmd : {"s"}, pc : {"subst"}, left : Nat, dot : Nat]
NextOps == [cmd : {"g"}, pc : {"next"}]

TextOp(o, e, T) ==
  /\ o \in TextOps /\ StOK(e.st)
  /\ o.cmd = "i" => o.arg <= 1 \/ o.arg <= Len(T)
  /\ UpAt(e.undo, T, o.up, e.st.dot)
OpenOp(o, e, T) == o \in OpenOps /\ StOK(e.st) /\ o.after <= Len(T)
ReadOp(o, e, T) ==
  /\ o \in ReadOps /\ (o.up = 0 => StOK(e.st))
  /\ o.lp = At(T, e.st.dot) /\ UpAt(e.undo, T, o.up, e.st.dot)
CopyOp(o, e, T) ==
  /\ o \in CopyOps /\ StOK(e.st) /\ o.after <= Len(T) /\ o.lp \in ToSet(T) \cup {0}
  /\ UpAt(e.undo, T, o.up, o.after) /\ Len(T) # 0
SubstOp(o, e, T) ==
  /\ o \in SubstOps /\ StOK(e.st) /\ e.st.dot + o.left <= Len(T) /\ o.dot <= Len(T)
NextOp(o, e) == o \in NextOps /\ StOK(e.st) /\ e.global

OpOK(o, e, T) ==
  \/ o = Idle /\ StOK(e.st)
  \/ TextOp(o, e, T) \/ OpenOp(o, e, T) \/ ReadOp(o, e, T) \/ CopyOp(o, e, T)
  \/ SubstOp(o, e, T) \/ NextOp(o, e)

Safe(e, o, T, T0) == Sound(e, T, T0) /\ OpOK(o, e, T)
SomeSafe(e, o) == \E T, T0 : Safe(e, o, T, T0)

----------------------------------------------------------------------------
\* What a step makes of the text T and of the text T0 that `u' goes back to.
Busy(e, o) == o # Idle \/ e.global
Starts(T, T2, T02) ==
  /\ ~ Busy(ed, op) /\ T02 = T /\ ed'.saved = ed.st /\ Changed(T, T2, ToSet(T))
Goes(T, T0, T2, T02) ==
  /\ Busy(ed, op) /\ T02 = T0 /\ ed'.saved = ed.saved
  /\ Changed(T, T2, ToSet(T) \cup ToSet(T0))
Points(T, T0, T2, T02) ==
  /\ T2 = T /\ T02 = T0 /\ ed'.saved = ed.saved /\ (Busy(ed, op) <=> Busy(ed', op'))
Undoes(T, T0, T2, T02) ==
  /\ T2 = T0 /\ T02 = T /\ ed.saved # NoState /\ ed'.saved = ed.st /\ ed'.st = ed.saved
  /\ (Busy(ed, op) <=> Busy(ed', op'))
Loads(T2) ==
  /\ Len(T2) = 0 /\ ed'.saved = NoState /\ ed'.st.dot = 0 /\ Busy(ed', op')
Edits(T, T0, T2, T02) ==
  \/ Starts(T, T2, T02) \/ Goes(T, T0, T2, T02) \/ Points(T, T0, T2, T02)
  \/ Undoes(T, T0, T2, T02) \/ Loads(T2)

\* The step leaves the buffer sound, and changes the texts as it may.
Leads(T, T0) == \E T2, T02 : Safe(ed', op', T2, T02) /\ Edits(T, T0, T2, T02)

\* The lines of both texts are allocated: a line allocated now is new to both.
LEMMA HeapHolds ==
  ASSUME NEW e, NEW T, NEW T0, Sound(e, T, T0)
  PROVE  ToSet(T) \cup ToSet(T0) \subseteq e.heap
  BY SoundParts, DequeParts

\* A command that the user or a command list gives.
LEMMA CommandLeads ==
  ASSUME NEW T, NEW T0, op = Idle, NEW f, NEW T1, Begun(ed, f, T, T0, T1),
         NEW T2, Safe(ed', op', T2, T1), ed'.saved = f.saved, Changed(T, T2, f.heap)
  PROVE  Leads(T, T0)
  <1>1. ToSet(T) \cup ToSet(T1) \subseteq f.heap
    BY HeapHolds DEF Begun, Refreshed
  <1>2. CASE ed.global
    <2>1. T1 = T0 /\ ed'.saved = ed.saved
      BY <1>2 DEF Begun
    <2>2. Changed(T, T2, ToSet(T) \cup ToSet(T0))
      BY <1>1, <2>1, ChangedFewer
    <2>3. Goes(T, T0, T2, T0)
      BY <1>2, <2>1, <2>2 DEF Goes, Busy
    <2> QED
      BY <2>1, <2>3 DEF Leads, Edits
  <1>3. CASE ~ ed.global
    <2>1. T1 = T /\ ed'.saved = ed.st
      BY <1>3 DEF Begun
    <2>2. ToSet(T) \subseteq f.heap
      BY <1>1
    <2>3. Changed(T, T2, ToSet(T))
      BY <2>2, ChangedFewer
    <2>4. Starts(T, T2, T)
      BY <1>3, <2>1, <2>3 DEF Starts, Busy
    <2> QED
      BY <2>1, <2>4 DEF Leads, Edits
  <1> QED
    BY <1>2, <1>3

\* A command that goes on.
LEMMA ContinueLeads ==
  ASSUME NEW T, NEW T0, Busy(ed, op), Sound(ed, T, T0),
         NEW T2, Safe(ed', op', T2, T0), ed'.saved = ed.saved, Changed(T, T2, ed.heap)
  PROVE  Leads(T, T0)
  <1>1. ToSet(T) \cup ToSet(T0) \subseteq ed.heap
    BY HeapHolds
  <1>2. Changed(T, T2, ToSet(T) \cup ToSet(T0))
    BY <1>1, ChangedFewer
  <1>3. Goes(T, T0, T2, T0)
    BY <1>2 DEF Goes
  <1> QED
    BY <1>3 DEF Leads, Edits

\* A command that goes on, the text as it was.
LEMMA StayLeads ==
  ASSUME NEW T, NEW T0, Busy(ed, op), Sound(ed, T, T0),
         Safe(ed', op', T, T0), ed'.saved = ed.saved
  PROVE  Leads(T, T0)
  BY ContinueLeads, ChangedNone

\* By the place a command has come to, what is known of it.
LEMMA ByPlace ==
  ASSUME NEW o, NEW e, NEW T, OpOK(o, e, T), o # Idle
  PROVE  /\ o.pc = "text" => TextOp(o, e, T)
         /\ o.pc = "open" => OpenOp(o, e, T)
         /\ o.pc = "read" => ReadOp(o, e, T)
         /\ o.pc = "copy" => CopyOp(o, e, T)
         /\ o.pc = "subst" => SubstOp(o, e, T)
         /\ o.pc = "next" => NextOp(o, e)
  <1>1. \/ TextOp(o, e, T) \/ OpenOp(o, e, T) \/ ReadOp(o, e, T) \/ CopyOp(o, e, T)
        \/ SubstOp(o, e, T) \/ NextOp(o, e)
    BY DEF OpOK
  <1>2. TextOp(o, e, T) => o.pc = "text"
    BY DEF TextOp, TextOps
  <1>3. OpenOp(o, e, T) => o.pc = "open"
    BY DEF OpenOp, OpenOps
  <1>4. ReadOp(o, e, T) => o.pc = "read"
    BY DEF ReadOp, ReadOps
  <1>5. CopyOp(o, e, T) => o.pc = "copy"
    BY DEF CopyOp, CopyOps
  <1>6. SubstOp(o, e, T) => o.pc = "subst"
    BY DEF SubstOp, SubstOps
  <1>7. NextOp(o, e) => o.pc = "next"
    BY DEF NextOp, NextOps
  <1> QED
    BY <1>1, <1>2, <1>3, <1>4, <1>5, <1>6, <1>7

\* A sound buffer is safe between commands.
LEMMA IdleSafe ==
  ASSUME NEW e, NEW T, NEW T0, Sound(e, T, T0), StOK(e.st)
  PROVE  Safe(e, Idle, T, T0)
  BY DEF Safe, OpOK

\* And after an error within a global command.
LEMMA QuitSafe ==
  ASSUME NEW e, NEW T, NEW T0, Sound(e, T, T0), StOK(e.st)
  PROVE  Safe(Quit(e), Idle, T, T0) /\ Quit(e).saved = e.saved
  BY QuitSound, IdleSafe

\* Without lines being deleted to the last, the flag stays right.
LEMMA KeptStOK ==
  ASSUME NEW e, NEW T, NEW T0, Sound(e, T, T0), StOK(e.st), Len(T) # 0, NEW st,
         st.is_empty = e.st.is_empty
  PROVE  StOK(st) /\ ~ e.st.is_empty
  BY SoundParts DEF StOK

----------------------------------------------------------------------------
(* The commands a, i and c. *)

\* Between commands the flag of the `logically' empty buffer is right.
LEMMA IdleStOK ==
  ASSUME NEW e, NEW T, OpOK(Idle, e, T)
  PROVE  StOK(e.st)
  <1>1. ~ TextOp(Idle, e, T) /\ ~ OpenOp(Idle, e, T) /\ ~ ReadOp(Idle, e, T)
        /\ ~ CopyOp(Idle, e, T) /\ ~ SubstOp(Idle, e, T) /\ ~ NextOp(Idle, e)
    BY DEF Idle, TextOp, TextOps, OpenOp, OpenOps, ReadOp, ReadOps, CopyOp, CopyOps, SubstOp,
           SubstOps, NextOp, NextOps, Reads
  <1> QED
    BY <1>1 DEF OpOK

\* At the start of a command.
LEMMA AtStart ==
  ASSUME NEW T, NEW T0, Safe(ed, op, T, T0), NEW c, Given(c)
  PROVE  /\ Sound(ed, T, T0) /\ StOK(ed.st) /\ op = Idle /\ lines = Len(T) /\ Len(T) \in Nat
         /\ dot \in 0 .. Len(T) /\ IsText(T)
         /\ \E T1 : Begun(ed, fresh_undo(ed), T, T0, T1)
  <1>1. Sound(ed, T, T0) /\ OpOK(op, ed, T) /\ op = Idle
    BY DEF Safe, Given
  <1>2. StOK(ed.st)
    BY <1>1, IdleStOK
  <1>3. lines = Len(T) /\ Len(T) \in Nat /\ dot \in 0 .. Len(T) /\ IsText(T)
    BY <1>1, SoundParts DEF lines, dot
  <1>4. \E T1 : Begun(ed, fresh_undo(ed), T, T0, T1)
    BY <1>1, <1>2, FreshUndo
  <1> QED
    BY <1>1, <1>2, <1>3, <1>4

\* Text mode starts after line `after', with no undo entry of its own.
LEMMA TextStart ==
  ASSUME NEW e, NEW T, NEW T0, Sound(e, T, T0), StOK(e.st), NEW after \in 0 .. Len(T),
         NEW cmd \in {"a", "i", "c"}, NEW arg \in Nat, cmd = "i" => arg <= 1 \/ arg <= Len(T)
  PROVE  /\ Safe(Pointed(e, after), [cmd |-> cmd, pc |-> "text", up |-> 0, arg |-> arg], T, T0)
         /\ Pointed(e, after).saved = e.saved
  <1>1. PICK r, o : r = Pointed(e, after) /\ o = [cmd |-> cmd, pc |-> "text", up |-> 0, arg |-> arg]
    OBVIOUS
  <1>2. Restated(e, r, T, T0, StateOf(after, e.st.lines, e.st.is_empty))
    BY <1>1, PointSound
  <1>3. Sound(r, T, T0) /\ StOK(r.st) /\ r.saved = e.saved
    BY <1>2 DEF Restated, StOK, StateOf
  <1>4. o \in TextOps /\ o.cmd = cmd /\ o.arg = arg /\ o.up = 0
    BY <1>1 DEF TextOps
  <1>5. UpAt(r.undo, T, o.up, r.st.dot)
    BY <1>4 DEF UpAt
  <1>6. TextOp(o, r, T)
    BY <1>3, <1>4, <1>5 DEF TextOp
  <1>7. Safe(r, o, T, T0)
    BY <1>3, <1>6 DEF Safe, OpOK
  <1> QED
    BY <1>1, <1>3, <1>7

\* The same, whichever way text mode is entered.
LEMMA TextModeSafe ==
  ASSUME NEW e, NEW T, NEW T0, Sound(e, T, T0), StOK(e.st), NEW after \in 0 .. Len(T),
         NEW cmd \in {"a", "i", "c"}, NEW arg \in Nat, cmd = "i" => arg <= 1 \/ arg <= Len(T),
         TextMode(cmd, e, after, arg)
  PROVE  Safe(ed', op', T, T0) /\ ed'.saved = e.saved
  BY TextStart DEF TextMode, Pointed

\* The lines to be changed are deleted before text mode starts.
LEMMA ChangeSafe ==
  ASSUME NEW T, NEW T0, Safe(ed, op, T, T0), NEW c, Given(c), NEW cmd \in {"a", "c"},
         NEW from \in 0 .. lines, NEW to \in 0 .. lines, ChangeLines(cmd, from, to)
  PROVE  Leads(T, T0)
  <1>1. /\ Sound(ed, T, T0) /\ StOK(ed.st) /\ lines = Len(T) /\ Len(T) \in Nat
        /\ \E T1 : Begun(ed, fresh_undo(ed), T, T0, T1)
    BY AtStart
  <1>2. PICK start, end, e : /\ start = (IF from = 0 THEN 1 ELSE from)
                             /\ end = (IF to = 0 THEN 1 ELSE to)
                             /\ e = delete_lines(fresh_undo(ed), start, end)
    OBVIOUS
  <1>3. ValidRange(start, end) /\ TextMode(cmd, e, e.st.dot, start)
    BY <1>2 DEF ChangeLines
  <1>4. start \in 1 .. Len(T) /\ end \in start .. Len(T) /\ start \in Nat /\ end \in Nat /\ Len(T) # 0
    BY <1>1, <1>2, <1>3 DEF ValidRange
  <1>5. PICK T1 : Begun(ed, fresh_undo(ed), T, T0, T1)
    BY <1>1
  <1>6. Sound(fresh_undo(ed), T, T1) /\ fresh_undo(ed).st = ed.st
    BY <1>5 DEF Begun, Refreshed
  <1>7. PICK C : C = Cut(T, start - 1, end)
    OBVIOUS
  <1>8. Lost(fresh_undo(ed), e, T, T1, start, end)
    BY <1>2, <1>4, <1>6, DeleteLines
  <1>9. Sound(e, C, T1) /\ e.st.is_empty = ed.st.is_empty /\ e.saved = fresh_undo(ed).saved
    BY <1>6, <1>7, <1>8 DEF Lost
  <1>10. StOK(e.st)
    BY <1>1, <1>4, <1>9, KeptStOK
  <1>11. e.st.dot \in 0 .. Len(C)
    BY <1>9, SoundParts
  <1>12. Safe(ed', op', C, T1) /\ ed'.saved = fresh_undo(ed).saved
    BY <1>3, <1>4, <1>9, <1>10, <1>11, TextModeSafe
  <1>13. Changed(T, C, fresh_undo(ed).heap)
    <2>1. start - 1 \in Nat /\ start - 1 <= end /\ end <= Len(T) /\ IsText(T)
      BY <1>1, <1>4, SoundParts
    <2> QED
      BY <1>4, <1>7, <2>1, ChangedCut
  <1>14. op = Idle
    BY DEF Given
  <1> QED
    BY <1>5, <1>12, <1>13, <1>14, CommandLeads

\* c deletes lines and enters text mode in front of what followed them.
LEMMA c_cmd_Safe ==
  ASSUME NEW T, NEW T0, Safe(ed, op, T, T0), NEW from \in 0 .. lines, NEW to \in 0 .. lines,
         c_cmd(from, to)
  PROVE  Leads(T, T0)
  BY ChangeSafe DEF c_cmd

\* a enters text mode after the addressed line.
LEMMA a_cmd_Safe ==
  ASSUME NEW T, NEW T0, Safe(ed, op, T, T0), NEW end \in 0 .. lines, a_cmd(end)
  PROVE  Leads(T, T0)
  <1>1. Given("a")
    BY DEF a_cmd
  <1>2. /\ Sound(ed, T, T0) /\ StOK(ed.st) /\ lines = Len(T) /\ Len(T) \in Nat
        /\ \E T1 : Begun(ed, fresh_undo(ed), T, T0, T1)
    BY <1>1, AtStart
  <1>3. CASE TextMode("a", fresh_undo(ed), end, 0)
    <2>1. PICK T1 : Begun(ed, fresh_undo(ed), T, T0, T1)
      BY <1>2
    <2>2. Sound(fresh_undo(ed), T, T1) /\ StOK(fresh_undo(ed).st)
      BY <1>2, <2>1 DEF Begun, Refreshed
    <2>3. end \in 0 .. Len(T)
      BY <1>2
    <2>4. Safe(ed', op', T, T1) /\ ed'.saved = fresh_undo(ed).saved
      BY <1>3, <2>2, <2>3, TextModeSafe
    <2>5. op = Idle
      BY <1>1 DEF Given
    <2> QED
      BY <2>1, <2>4, <2>5, CommandLeads, ChangedNone
  <1>4. CASE ChangeLines("a", end, end)
    BY <1>1, <1>4, ChangeSafe
  <1> QED
    BY <1>3, <1>4 DEF a_cmd

\* i enters text mode before the addressed line.
LEMMA i_cmd_Safe ==
  ASSUME NEW T, NEW T0, Safe(ed, op, T, T0), NEW addr \in 0 .. lines, i_cmd(addr)
  PROVE  Leads(T, T0)
  <1>1. Given("i")
    BY DEF i_cmd
  <1>2. /\ Sound(ed, T, T0) /\ StOK(ed.st) /\ lines = Len(T) /\ Len(T) \in Nat
        /\ \E T1 : Begun(ed, fresh_undo(ed), T, T0, T1)
    BY <1>1, AtStart
  <1>3. PICK end, e : end = (IF addr = 0 THEN 1 ELSE addr) /\ e = fresh_undo(ed)
    OBVIOUS
  <1>4. TextMode("i", e, end - 1, end)
    BY <1>3 DEF i_cmd
  <1>5. end \in Nat /\ (end <= 1 \/ end <= Len(T)) /\ end - 1 \in 0 .. Len(T)
    BY <1>2, <1>3
  <1>6. PICK T1 : Begun(ed, e, T, T0, T1)
    BY <1>2, <1>3
  <1>7. Sound(e, T, T1) /\ StOK(e.st)
    BY <1>2, <1>6 DEF Begun, Refreshed
  <1>8. Safe(ed', op', T, T1) /\ ed'.saved = e.saved
    BY <1>4, <1>5, <1>7, TextModeSafe
  <1>9. op = Idle
    BY <1>1 DEF Given
  <1> QED
    BY <1>6, <1>8, <1>9, CommandLeads, ChangedNone

\* A line typed by the user.
LEMMA append_lines_Safe ==
  ASSUME NEW T, NEW T0, Safe(ed, op, T, T0), append_lines
  PROVE  Leads(T, T0)
  <1>1. Sound(ed, T, T0) /\ TextOp(op, ed, T)
    BY ByPlace DEF Safe, append_lines
  <1>2. op \in TextOps /\ StOK(ed.st) /\ (op.cmd = "i" => op.arg <= 1 \/ op.arg <= Len(T))
        /\ UpAt(ed.undo, T, op.up, ed.st.dot)
    BY <1>1 DEF TextOp
  <1>5. Busy(ed, op)
    BY DEF append_lines, Busy
  <1>3. CASE malloc_fails(ed)
    <2>1. ed' = Quit(ed) /\ op' = Idle
      BY <1>3 DEF append_lines, Failed, Done, Quit
    <2>2. Safe(ed', op', T, T0) /\ ed'.saved = ed.saved
      BY <1>1, <1>2, <2>1, QuitSafe
    <2> QED
      BY <1>1, <1>5, <2>2, StayLeads
  <1>4. CASE ~ malloc_fails(ed)
    <2>1. PICK a, n, e1 : a = ed.st.dot /\ n = malloc(ed) /\ e1 = put_buffer_line(ed)
      OBVIOUS
    <2>2. a \in 0 .. Len(T) /\ Len(T) \in Nat
      BY <1>1, <2>1, SoundParts
    <2>3. Fresh(ed, e1, T, a, n)
      BY <1>1, <1>4, <2>1, PutLine
    <2>4. PICK e2 : e2 = get_line_node(e1, a + 1)
      OBVIOUS
    <2>5. Fresh(ed, e2, T, a, n) /\ e2.lp = n
      BY <1>1, <2>2, <2>3, <2>4, FreshGet
    <2>6. PICK e3 : e3 = APPEND_UNDO_NODE(e2, n, op.up, a + 1)
      OBVIOUS
    <2>7. Added(ed, e3, T, T0, a, n, op.up)
      BY <1>1, <1>2, <2>1, <2>2, <2>5, <2>6, AddedLine
    <2>8. e1.st.dot = a + 1 /\ e2.st.dot = a + 1
      BY <2>3, <2>5 DEF Fresh
    <2>9. PICK up, V : up = (IF op.up = 0 THEN Len(e3.undo) ELSE op.up) /\ V = Insert(T, a, n)
      OBVIOUS
    <2>10. /\ Sound(e3, V, T0) /\ EndsAt(e3.undo, up, V, a + 1) /\ e3.st.dot = a + 1
           /\ e3.st.lines = Len(T) + 1 /\ e3.saved = ed.saved
      BY <2>7, <2>9 DEF Added
    <2>11. PICK x \in BOOLEAN : x = FALSE
      OBVIOUS
    <2>12. PICK r : r = Emptied(e3, x)
      OBVIOUS
    <2>13. Restated(e3, r, V, T0, StateOf(e3.st.dot, e3.st.lines, x))
      BY <2>10, <2>12, EmptySound
    <2>14. /\ Sound(r, V, T0) /\ StOK(r.st) /\ r.undo = e3.undo /\ r.st.dot = a + 1
           /\ r.saved = ed.saved
      BY <2>10, <2>11, <2>13 DEF Restated, StOK, StateOf
    <2>15. PICK o : o = [op EXCEPT !.up = up]
      OBVIOUS
    <2>16. up \in Nat
      BY <2>10 DEF EndsAt
    <2>17. o \in TextOps /\ o.cmd = op.cmd /\ o.arg = op.arg /\ o.up = up
      BY <1>2, <2>15, <2>16 DEF TextOps
    <2>18. ed' = r /\ op' = o
      <3>1. /\ ed' = [e3 EXCEPT !.st.is_empty = FALSE]
            /\ op' = [op EXCEPT !.up = IF @ = 0 THEN Len(e3.undo) ELSE @]
        BY <1>4, <2>1, <2>4, <2>5, <2>6, <2>8 DEF append_lines
      <3>2. [op EXCEPT !.up = IF @ = 0 THEN Len(e3.undo) ELSE @] = [op EXCEPT !.up = up]
        BY <1>2, <2>9 DEF TextOps
      <3> QED
        BY <2>11, <2>12, <2>15, <3>1, <3>2 DEF Emptied
    <2>19. Len(V) = Len(T) + 1 /\ Changed(T, V, ed.heap)
      BY <1>1, <2>2, <2>7, <2>9, AddedChanges
    <2>20. TextOp(o, r, V)
      <3>1. o.cmd = "i" => o.arg <= 1 \/ o.arg <= Len(V)
        <4>1. op.arg \in Nat
          BY <1>2 DEF TextOps
        <4> QED
          BY <1>2, <2>2, <2>17, <2>19, <4>1
      <3>2. UpAt(r.undo, V, o.up, r.st.dot)
        BY <2>10, <2>14, <2>17 DEF UpAt
      <3> QED
        BY <2>14, <2>17, <3>1, <3>2 DEF TextOp
    <2>21. Safe(ed', op', V, T0)
      BY <2>14, <2>18, <2>20 DEF Safe, OpOK
    <2> QED
      BY <1>1, <1>5, <2>14, <2>18, <2>19, <2>21, ContinueLeads
  <1> QED
    BY <1>3, <1>4

\* The current line after the text has ended is a line.
LEMMA EndText_Safe ==
  ASSUME NEW T, NEW T0, Safe(ed, op, T, T0), EndText
  PROVE  Leads(T, T0)
  <1>1. Sound(ed, T, T0) /\ TextOp(op, ed, T)
    BY ByPlace DEF Safe, EndText
  <1>2. op \in TextOps /\ StOK(ed.st) /\ (op.cmd = "i" => op.arg <= 1 \/ op.arg <= Len(T))
    BY <1>1 DEF TextOp
  <1>3. lines = Len(T) /\ Len(T) \in Nat /\ dot \in 0 .. Len(T) /\ op.arg \in Nat
    BY <1>1, <1>2, SoundParts DEF lines, dot, TextOps
  <1>4. PICK d : d = CASE op.cmd = "i" /\ dot = op.arg - 1 /\ lines # 0 -> op.arg
                       [] op.cmd # "i" /\ dot < op.arg -> Min({lines, op.arg})
                       [] OTHER -> dot
    OBVIOUS
  <1>5. d \in 0 .. Len(T)
    <2>1. Min({lines, op.arg}) \in 0 .. Len(T)
      BY <1>3, MinOf
    <2> QED
      BY <1>2, <1>3, <1>4, <2>1
  <1>6. ed' = Pointed(ed, d) /\ op' = Idle
    BY <1>4 DEF EndText, Done, Pointed
  <1>7. Restated(ed, ed', T, T0, StateOf(d, ed.st.lines, ed.st.is_empty))
    BY <1>1, <1>5, <1>6, PointSound
  <1>8. Sound(ed', T, T0) /\ StOK(ed'.st) /\ ed'.saved = ed.saved
    BY <1>2, <1>7 DEF Restated, StOK, StateOf
  <1>9. Safe(ed', op', T, T0) /\ Busy(ed, op)
    BY <1>6, <1>8, IdleSafe DEF EndText, Busy
  <1> QED
    BY <1>1, <1>8, <1>9, StayLeads

----------------------------------------------------------------------------
(* The commands r and E. *)

\* A command that reads a stream has chosen where.
LEMMA OpenSafe ==
  ASSUME NEW e, NEW T, NEW T0, Sound(e, T, T0), StOK(e.st), NEW after \in 0 .. Len(T),
         NEW cmd \in Reads, NEW arg \in Nat, OpenStream(cmd, e, after, arg)
  PROVE  Safe(ed', op', T, T0) /\ ed' = e /\ op' # Idle
  <1>1. PICK o : o = [cmd |-> cmd, pc |-> "open", after |-> after, arg |-> arg]
    OBVIOUS
  <1>2. Len(T) \in Nat
    BY SoundParts
  <1>3. o \in OpenOps /\ o.after = after
    BY <1>1, <1>2 DEF OpenOps
  <1>4. OpenOp(o, e, T)
    BY <1>2, <1>3 DEF OpenOp
  <1>5. Safe(e, o, T, T0)
    BY <1>4 DEF Safe, OpOK
  <1>6. o # Idle
    BY <1>3 DEF OpenOps, Reads, Idle
  <1> QED
    BY <1>1, <1>5, <1>6 DEF OpenStream

\* With lines in the buffer it is not `logically' empty: r deletes none.
LEMMA r_cmd_Safe ==
  ASSUME NEW T, NEW T0, Safe(ed, op, T, T0), NEW addrs \in BOOLEAN, NEW addr \in 0 .. lines,
         r_cmd(addrs, addr)
  PROVE  Leads(T, T0)
  <1>1. Given("r")
    BY DEF r_cmd
  <1>2. /\ StOK(ed.st) /\ lines = Len(T) /\ Len(T) \in Nat
        /\ \E T1 : Begun(ed, fresh_undo(ed), T, T0, T1)
    BY <1>1, AtStart
  <1>3. PICK e : e = fresh_undo(ed)
    OBVIOUS
  <1>4. PICK T1 : Begun(ed, e, T, T0, T1)
    BY <1>2, <1>3
  <1>5. Sound(e, T, T1) /\ e.st = ed.st
    BY <1>4 DEF Begun, Refreshed
  <1>6. StOK(e.st) /\ ~ (e.st.is_empty /\ lines # 0)
    BY <1>2, <1>5 DEF StOK, lines
  <1>7. PICK end : end = IF addrs /\ e.st.lines # 0 THEN addr ELSE e.st.lines
    OBVIOUS
  <1>8. OpenStream("r", e, end, 0)
    BY <1>3, <1>6, <1>7 DEF r_cmd
  <1>9. end \in 0 .. Len(T)
    BY <1>2, <1>5, <1>7 DEF lines
  <1>10. Safe(ed', op', T, T1) /\ ed'.saved = e.saved
    BY <1>5, <1>6, <1>8, <1>9, OpenSafe DEF Reads
  <1>11. op = Idle
    BY <1>1 DEF Given
  <1> QED
    BY <1>4, <1>10, <1>11, CommandLeads, ChangedNone

\* The buffer as before its first command.
Anew(e) ==
  [e EXCEPT !.gb = EmptyGlobalBuffer, !.global = FALSE, !.st = init_ed_state(0),
            !.saved = init_ed_state(-1)]

\* The buffer of a fresh start is sound.
LEMMA AnewSound ==
  ASSUME NEW e, NEW T, NEW T0, Sound(e, T, T0), Len(T) = 0
  PROVE  /\ Sound(Anew(e), T, T0) /\ StOK(Anew(e).st)
         /\ Anew(e).saved = NoState /\ Anew(e).st.dot = 0
  <1>1. /\ e \in Buffer /\ MarksOK(e) /\ Deque(e.undo, e.forw, e.back, e.heap, T, T0)
        /\ Walk(e, T)
    BY SoundParts
  <1>2. PICK s, z, g, gb : /\ s = init_ed_state(0) /\ z = init_ed_state(-1) /\ g = FALSE
                           /\ gb = EmptyGlobalBuffer
    OBVIOUS
  <1>3. s \in State /\ s.dot = 0 /\ s.lines = 0 /\ z \in State /\ z = NoState
    BY <1>2 DEF init_ed_state, State, NoState
  <1>4. gb \in GlobalBuffer
    BY <1>2, EmptyLive
  <1>5. PICK h \in BOOLEAN : h = FALSE
    OBVIOUS
  <1>6. PICK r : r = [e EXCEPT !.gb = gb, !.global = h, !.st = s, !.saved = z]
    OBVIOUS
  <1>7. r = Anew(e)
    BY <1>2, <1>5, <1>6 DEF Anew
  <1>8. /\ r \in Buffer /\ r.st = s /\ r.saved = z /\ r.global = h
        /\ r.forw = e.forw /\ r.back = e.back /\ r.heap = e.heap
        /\ r.lp = e.lp /\ r.n_prev = e.n_prev /\ r.undo = e.undo /\ r.mark = e.mark
        /\ r.marks = e.marks
    BY <1>1, <1>3, <1>4, <1>6 DEF Buffer
  <1>9. MarksOK(r)
    <2>1. Marked(r) = Marked(e)
      BY <1>8 DEF Marked
    <2> QED
      BY <1>1, <1>8, <2>1 DEF MarksOK
  <1>10. Walk(r, T)
    BY <1>1, <1>3, <1>8 DEF Walk
  <1>11. Sound(r, T, T0)
    BY <1>1, <1>3, <1>5, <1>8, <1>9, <1>10 DEF Sound, Held, SavedOK
  <1>12. StOK(r.st)
    BY <1>3, <1>8 DEF StOK
  <1> QED
    BY <1>3, <1>7, <1>8, <1>11, <1>12

\* E deletes every line and starts anew before it reads.
LEMMA E_cmd_Safe ==
  ASSUME NEW T, NEW T0, Safe(ed, op, T, T0), E_cmd
  PROVE  Leads(T, T0)
  <1>1. Given("E")
    BY DEF E_cmd
  <1>2. /\ Sound(ed, T, T0) /\ StOK(ed.st) /\ lines = Len(T) /\ Len(T) \in Nat
    BY <1>1, AtStart
  <1>3. PICK e1 : e1 = IF lines > 0 THEN delete_lines(ed, 1, lines) ELSE ed
    OBVIOUS
  <1>4. \E C : Sound(e1, C, T0) /\ Len(C) = 0 /\ StOK(e1.st)
    <2>1. CASE lines > 0
      <3>1. 1 \in 1 .. Len(T) /\ Len(T) \in 1 .. Len(T)
        BY <1>2, <2>1
      <3>2. Lost(ed, e1, T, T0, 1, Len(T))
        BY <1>2, <1>3, <2>1, <3>1, DeleteLines
      <3>3. PICK C : C = Cut(T, 1 - 1, Len(T))
        OBVIOUS
      <3>4. Sound(e1, C, T0) /\ e1.st.lines = 0
        BY <1>2, <3>2, <3>3 DEF Lost
      <3>5. Len(C) = 0 /\ StOK(e1.st)
        BY <3>4, SoundParts DEF StOK
      <3> QED
        BY <3>4, <3>5
    <2>2. CASE ~ lines > 0
      <3>1. e1 = ed /\ Len(T) = 0
        BY <1>2, <1>3, <2>2
      <3> QED
        BY <1>2, <3>1
    <2> QED
      BY <2>1, <2>2
  <1>5. PICK C : Sound(e1, C, T0) /\ Len(C) = 0 /\ StOK(e1.st)
    BY <1>4
  <1>6. PICK e2 : e2 = reset_undo_queue(e1)
    OBVIOUS
  <1>7. Refreshed(e1, e2, C, C)
    BY <1>5, <1>6, ResetSound
  <1>8. Sound(e2, C, C) /\ e2 \in Buffer
    BY <1>7, SoundParts DEF Refreshed
  <1>9. /\ Sound(Anew(e2), C, C) /\ StOK(Anew(e2).st)
        /\ Anew(e2).saved = NoState /\ Anew(e2).st.dot = 0
    BY <1>5, <1>8, AnewSound
  <1>10. OpenStream("E", Anew(e2), 0, 0)
    <2>1. OpenStream("E", [reset_global_buffer(e2) EXCEPT !.global = FALSE,
                             !.st = init_ed_state(0), !.saved = init_ed_state(-1)], 0, 0)
      BY <1>3, <1>6 DEF E_cmd
    <2>2. [reset_global_buffer(e2) EXCEPT !.global = FALSE,
             !.st = init_ed_state(0), !.saved = init_ed_state(-1)] = Anew(e2)
      BY <1>8 DEF reset_global_buffer, Anew
    <2> QED
      BY <2>1, <2>2
  <1>11. 0 \in 0 .. Len(C)
    BY <1>5
  <1>12. Safe(ed', op', C, C) /\ ed' = Anew(e2) /\ op' # Idle
    BY <1>9, <1>10, <1>11, OpenSafe DEF Reads
  <1>13. Loads(C)
    BY <1>5, <1>9, <1>12 DEF Loads, Busy
  <1> QED
    BY <1>12, <1>13 DEF Leads, Edits

----------------------------------------------------------------------------
(* The command !, and lines read from a stream. *)

\* ! deletes the addressed lines before their filtered text is read.
LEMMA shell_cmd_Safe ==
  ASSUME NEW T, NEW T0, Safe(ed, op, T, T0), NEW from \in 0 .. lines, NEW to \in 0 .. lines,
         shell_cmd(from, to)
  PROVE  Leads(T, T0)
  <1>1. Given("!")
    BY DEF shell_cmd
  <1>2. /\ StOK(ed.st) /\ lines = Len(T) /\ Len(T) \in Nat
        /\ \E T1 : Begun(ed, fresh_undo(ed), T, T0, T1)
    BY <1>1, AtStart
  <1>3. PICK start, end, e : /\ start = (IF from = 0 THEN 1 ELSE from)
                             /\ end = (IF to = 0 THEN 1 ELSE to)
                             /\ e = fresh_undo(ed)
    OBVIOUS
  <1>4. PICK T1 : Begun(ed, e, T, T0, T1)
    BY <1>2, <1>3
  <1>5. Sound(e, T, T1) /\ e.st = ed.st
    BY <1>4 DEF Begun, Refreshed
  <1>9. op = Idle /\ IsText(T)
    BY <1>1, <1>5, SoundParts DEF Given
  <1>6. PICK x \in BOOLEAN : x = TRUE
    OBVIOUS
  <1>7. CASE /\ lines # 0 /\ ValidRange(start, end)
             /\ \E e1, e2, e3 : /\ e1 = get_line_node(e, start)
                                /\ e2 = delete_lines(e1, start, end)
                                /\ e3 = (IF e2.st.lines = 0 THEN Emptied(e2, TRUE) ELSE e2)
                                /\ OpenStream("!", e3, e3.st.dot, start)
    <2>1. PICK e1, e2, e3 : /\ e1 = get_line_node(e, start)
                            /\ e2 = delete_lines(e1, start, end)
                            /\ e3 = (IF e2.st.lines = 0 THEN Emptied(e2, TRUE) ELSE e2)
                            /\ OpenStream("!", e3, e3.st.dot, start)
      BY <1>7
    <2>2. start \in 1 .. Len(T) /\ end \in start .. Len(T) /\ start \in 0 .. Len(T) /\ start \in Nat
          /\ Len(T) # 0
      BY <1>2, <1>3, <1>7 DEF ValidRange
    <2>3. Sound(e1, T, T1) /\ e1.st = e.st /\ e1.saved = e.saved
      <3>1. Sound(e1, T, T1) /\ Sought(e, e1, T, start)
        BY <1>5, <2>1, <2>2, GetSound
      <3> QED
        BY <3>1 DEF Sought, SameLines, SameButUndo
    <2>4. Lost(e1, e2, T, T1, start, end)
      BY <2>1, <2>2, <2>3, DeleteLines
    <2>5. PICK C : C = Cut(T, start - 1, end)
      OBVIOUS
    <2>6. Sound(e2, C, T1) /\ e2.st.is_empty = ed.st.is_empty /\ e2.saved = e.saved
      BY <1>5, <2>3, <2>4, <2>5 DEF Lost
    <2>7. Sound(e3, C, T1) /\ StOK(e3.st) /\ e3.saved = e.saved
      <3>1. CASE e2.st.lines = 0
        <4>1. e3 = Emptied(e2, x)
          BY <1>6, <2>1, <3>1
        <4>2. Restated(e2, e3, C, T1, StateOf(e2.st.dot, e2.st.lines, x))
          BY <2>6, <4>1, EmptySound
        <4> QED
          BY <2>6, <3>1, <4>2 DEF Restated, StOK, StateOf
      <3>2. CASE e2.st.lines # 0
        <4>1. ~ ed.st.is_empty
          BY <1>2, <2>2 DEF StOK, lines
        <4> QED
          BY <2>1, <2>6, <3>2, <4>1 DEF StOK
      <3> QED
        BY <3>1, <3>2
    <2>8. e3.st.dot \in 0 .. Len(C)
      BY <2>7, SoundParts
    <2>9. Safe(ed', op', C, T1) /\ ed' = e3
      <3>1. PICK d : d = e3.st.dot
        OBVIOUS
      <3>2. d \in 0 .. Len(C) /\ OpenStream("!", e3, d, start) /\ "!" \in Reads /\ start \in Nat
        BY <2>1, <2>2, <2>8, <3>1 DEF Reads
      <3> QED
        BY <2>7, <3>2, OpenSafe
    <2>10. Changed(T, C, e.heap)
      <3>1. start - 1 \in Nat /\ start - 1 <= end /\ end <= Len(T) /\ end \in Nat
        BY <1>2, <2>2
      <3> QED
        BY <1>9, <2>5, <3>1, ChangedCut
    <2> QED
      BY <1>4, <1>9, <2>7, <2>9, <2>10, CommandLeads
  <1>8. CASE /\ lines = 0
             /\ \E e0 : e0 = Emptied(get_line_node(e, 0), TRUE) /\ OpenStream("!", e0, e0.st.dot, 0)
    <2>1. PICK e0 : e0 = Emptied(get_line_node(e, 0), TRUE) /\ OpenStream("!", e0, e0.st.dot, 0)
      BY <1>8
    <2>2. PICK e1 : e1 = get_line_node(e, 0)
      OBVIOUS
    <2>3. 0 \in 0 .. Len(T)
      BY <1>2
    <2>4. Sound(e1, T, T1) /\ e1.saved = e.saved
      <3>1. Sound(e1, T, T1) /\ Sought(e, e1, T, 0)
        BY <1>5, <2>2, <2>3, GetSound
      <3> QED
        BY <3>1 DEF Sought, SameLines, SameButUndo
    <2>5. e0 = Emptied(e1, x)
      BY <1>6, <2>1, <2>2
    <2>6. Restated(e1, e0, T, T1, StateOf(e1.st.dot, e1.st.lines, x))
      BY <2>4, <2>5, EmptySound
    <2>7. e1.st.lines = 0
      BY <1>2, <1>8, <2>4, SoundParts
    <2>8. Sound(e0, T, T1) /\ StOK(e0.st) /\ e0.saved = e.saved
      BY <2>4, <2>6, <2>7 DEF Restated, StOK, StateOf
    <2>9. e0.st.dot \in 0 .. Len(T)
      BY <2>8, SoundParts
    <2>10. Safe(ed', op', T, T1) /\ ed' = e0
      BY <2>1, <2>8, <2>9, OpenSafe DEF Reads
    <2> QED
      BY <1>4, <1>9, <2>8, <2>10, CommandLeads, ChangedNone
  <1> QED
    BY <1>3, <1>7, <1>8 DEF shell_cmd, Emptied

\* read_stream_handle () looks the line up that it appends to.
LEMMA read_stream_Safe ==
  ASSUME NEW T, NEW T0, Safe(ed, op, T, T0), read_stream
  PROVE  Leads(T, T0)
  <1>1. Sound(ed, T, T0) /\ OpenOp(op, ed, T)
    BY ByPlace DEF Safe, read_stream
  <1>2. op \in OpenOps /\ StOK(ed.st) /\ op.after <= Len(T) /\ op.after \in Nat /\ op.arg \in Nat
        /\ op.cmd \in Reads
    BY <1>1 DEF OpenOp, OpenOps
  <1>3. PICK a, e : a = op.after /\ e = get_line_node(ed, a)
    OBVIOUS
  <1>4. Len(T) \in Nat /\ IsText(T)
    BY <1>1, SoundParts
  <1>5. a \in 0 .. Len(T)
    BY <1>2, <1>3, <1>4
  <1>6. Sound(e, T, T0) /\ Sought(ed, e, T, a)
    BY <1>1, <1>3, <1>5, GetSound
  <1>7. e.lp = At(T, a) /\ e.st = ed.st /\ e.saved = ed.saved
    BY <1>6 DEF Sought, SameLines, SameButUndo
  <1>8. PICK r : r = Pointed(e, a)
    OBVIOUS
  <1>9. Restated(e, r, T, T0, StateOf(a, e.st.lines, e.st.is_empty))
    BY <1>5, <1>6, <1>8, PointSound
  <1>10. Sound(r, T, T0) /\ StOK(r.st) /\ r.st.dot = a /\ r.saved = ed.saved
    BY <1>2, <1>7, <1>9 DEF Restated, StOK, StateOf
  <1>11. PICK o : o = [cmd |-> op.cmd, pc |-> "read", up |-> 0, lp |-> e.lp, arg |-> op.arg]
    OBVIOUS
  <1>12. o \in ReadOps /\ o.lp = At(T, a) /\ o.up = 0
    <2>1. e.lp \in Link
      <3>1. a \in Int
        BY <1>5
      <3> QED
        BY <1>4, <1>7, <3>1, TextFacts
    <2> QED
      BY <1>2, <1>7, <1>11, <2>1 DEF ReadOps
  <1>13. ReadOp(o, r, T)
    BY <1>10, <1>12 DEF ReadOp, UpAt
  <1>14. Safe(r, o, T, T0)
    BY <1>10, <1>13 DEF Safe, OpOK
  <1>15. ed' = r /\ op' = o
    BY <1>3, <1>8, <1>11 DEF read_stream, Pointed
  <1>16. Busy(ed, op)
    BY DEF read_stream, Busy
  <1> QED
    BY <1>1, <1>10, <1>14, <1>15, <1>16, StayLeads

\* A line read from the stream goes behind the one read before it.
LEMMA PUT_BUFFER_LINE_Safe ==
  ASSUME NEW T, NEW T0, Safe(ed, op, T, T0), PUT_BUFFER_LINE, AbortIn \cap Reads = {}
  PROVE  Leads(T, T0)
  <1>1. Sound(ed, T, T0) /\ ReadOp(op, ed, T)
    BY ByPlace DEF Safe, PUT_BUFFER_LINE
  <1>2. op \in ReadOps /\ op.lp = At(T, ed.st.dot) /\ UpAt(ed.undo, T, op.up, ed.st.dot)
        /\ op.cmd \in Reads
    BY <1>1 DEF ReadOp, ReadOps
  <1>3. ~ malloc_fails(ed)
    BY <1>2 DEF PUT_BUFFER_LINE
  <1>4. PICK a, n, e1, V : a = ed.st.dot /\ n = malloc(ed) /\ e1 = put_buffer_line(ed)
                           /\ V = Insert(T, a, n)
    OBVIOUS
  <1>5. a \in 0 .. Len(T) /\ Len(T) \in Nat
    BY <1>1, <1>4, SoundParts
  <1>6. Fresh(ed, e1, T, a, n)
    BY <1>1, <1>3, <1>4, PutLine
  <1>7. Pending(ed, e1, T, a, n) /\ e1.st.dot = a + 1
    BY <1>6 DEF Fresh
  <1>8. FreshText(e1, T, a, n)
    BY <1>1, <1>5, <1>7, FreshTextIs
  <1>9. At(V, a + 1) = n /\ At(V, a) = At(T, a) /\ Len(V) = Len(T) + 1
    BY <1>4, <1>8 DEF FreshText
  <1>10. n \in Node /\ n \in Link /\ Ring(e1.forw, e1.back, V)
    BY <1>4, <1>7 DEF Pending, Walk, Node, Link
  <1>11. e1.forw[op.lp] = n
    <2>1. a \in 0 .. Len(V)
      BY <1>5, <1>9
    <2> QED
      BY <1>2, <1>4, <1>9, <1>10, <2>1 DEF Ring
  <1>12. PICK e2 : e2 = APPEND_UNDO_NODE(e1, n, op.up, a + 1)
    OBVIOUS
  <1>13. Added(ed, e2, T, T0, a, n, op.up)
    BY <1>1, <1>2, <1>4, <1>5, <1>6, <1>12, AddedLine
  <1>14. PICK up : up = IF op.up = 0 THEN Len(e2.undo) ELSE op.up
    OBVIOUS
  <1>15. /\ Sound(e2, V, T0) /\ EndsAt(e2.undo, up, V, a + 1) /\ e2.st.dot = a + 1
         /\ e2.saved = ed.saved
    BY <1>4, <1>13, <1>14 DEF Added
  <1>16. up \in Nat /\ up # 0
    BY <1>15 DEF EndsAt
  <1>17. PICK o : o = [op EXCEPT !.lp = n, !.up = up]
    OBVIOUS
  <1>18. o \in ReadOps /\ o.lp = n /\ o.up = up
    BY <1>2, <1>10, <1>16, <1>17 DEF ReadOps
  <1>19. ReadOp(o, e2, V)
    BY <1>9, <1>15, <1>16, <1>18 DEF ReadOp, UpAt
  <1>20. Safe(e2, o, V, T0)
    BY <1>15, <1>19 DEF Safe, OpOK
  <1>21. ed' = e2 /\ op' = o
    <2>1. /\ ed' = e2
          /\ op' = [op EXCEPT !.lp = n, !.up = IF @ = 0 THEN Len(e2.undo) ELSE @]
      BY <1>3, <1>4, <1>7, <1>11, <1>12 DEF PUT_BUFFER_LINE
    <2>2. [op EXCEPT !.lp = n, !.up = IF @ = 0 THEN Len(e2.undo) ELSE @]
            = [op EXCEPT !.lp = n, !.up = up]
      BY <1>2, <1>14 DEF ReadOps
    <2> QED
      BY <1>17, <2>1, <2>2
  <1>22. Busy(ed, op)
    BY DEF PUT_BUFFER_LINE, Busy
  <1>23. Changed(T, V, ed.heap)
    BY <1>1, <1>4, <1>5, <1>13, AddedChanges
  <1> QED
    BY <1>1, <1>15, <1>20, <1>21, <1>22, <1>23, ContinueLeads

\* With a line read the buffer is not `logically' empty any more.
LEMMA EndStream_Safe ==
  ASSUME NEW T, NEW T0, Safe(ed, op, T, T0), EndStream
  PROVE  Leads(T, T0)
  <1>1. Sound(ed, T, T0) /\ ReadOp(op, ed, T)
    BY ByPlace DEF Safe, EndStream
  <1>2. op \in ReadOps /\ (op.up = 0 => StOK(ed.st)) /\ op.arg \in Nat
    BY <1>1 DEF ReadOp, ReadOps
  <1>3. lines = Len(T) /\ Len(T) \in Nat /\ ed.st.dot \in 0 .. Len(T) /\ ed.st \in State
        /\ ed \in Buffer /\ ed.st.lines = Len(T)
    BY <1>1, SoundParts DEF lines
  <1>4. PICK x \in BOOLEAN : x = (ed.st.is_empty /\ op.up = 0)
    BY <1>3 DEF State
  <1>5. PICK d : d = IF ed.st.dot < op.arg THEN Min({lines, op.arg}) ELSE ed.st.dot
    OBVIOUS
  <1>6. d \in 0 .. Len(T)
    <2>1. Min({lines, op.arg}) \in 0 .. Len(T)
      BY <1>2, <1>3, MinOf
    <2> QED
      BY <1>3, <1>5, <2>1
  <1>7. PICK e, r : e = Emptied(ed, x) /\ r = Pointed(e, d)
    OBVIOUS
  <1>8. Restated(ed, e, T, T0, StateOf(ed.st.dot, ed.st.lines, x))
    BY <1>1, <1>7, EmptySound
  <1>9. Sound(e, T, T0) /\ e.st = StateOf(ed.st.dot, ed.st.lines, x) /\ e.saved = ed.saved
    BY <1>8 DEF Restated
  <1>10. Restated(e, r, T, T0, StateOf(d, e.st.lines, e.st.is_empty))
    BY <1>6, <1>7, <1>9, PointSound
  <1>11. Sound(r, T, T0) /\ StOK(r.st) /\ r.saved = ed.saved
    <2>1. e.st.lines = ed.st.lines /\ e.st.is_empty = x
      BY <1>9 DEF StateOf
    <2>2. x => ed.st.lines = 0
      BY <1>2, <1>4 DEF StOK
    <2>3. StateOf(d, e.st.lines, e.st.is_empty).is_empty = x
          /\ StateOf(d, e.st.lines, e.st.is_empty).lines = ed.st.lines
      BY <2>1 DEF StateOf
    <2>4. StOK(StateOf(d, e.st.lines, e.st.is_empty))
      BY <2>2, <2>3 DEF StOK
    <2> QED
      BY <1>9, <1>10, <2>4 DEF Restated
  <1>12. ed' = r /\ op' = Idle
    <2>1. /\ ed' = [ed EXCEPT !.st.is_empty = @ /\ op.up = 0,
                              !.st.dot = IF @ < op.arg THEN Min({lines, op.arg}) ELSE @]
          /\ op' = Idle
      BY DEF EndStream, Done
    <2>2. r = [ed EXCEPT !.st.is_empty = x, !.st.dot = d]
      BY <1>3, <1>7 DEF Emptied, Pointed, Buffer, State
    <2>3. [ed EXCEPT !.st.is_empty = @ /\ op.up = 0,
                     !.st.dot = IF @ < op.arg THEN Min({lines, op.arg}) ELSE @]
            = [ed EXCEPT !.st.is_empty = x, !.st.dot = d]
      BY <1>3, <1>4, <1>5 DEF Buffer, State
    <2> QED
      BY <2>1, <2>2, <2>3
  <1>13. Safe(ed', op', T, T0) /\ Busy(ed, op)
    BY <1>11, <1>12, IdleSafe DEF EndStream, Busy
  <1> QED
    BY <1>1, <1>11, <1>12, <1>13, StayLeads

----------------------------------------------------------------------------
(* The command t. *)

\* t prepares to copy a range of lines, the second half of it apart when the
\* destination is within it.
LEMMA t_cmd_Safe ==
  ASSUME NEW T, NEW T0, Safe(ed, op, T, T0), NEW from \in 0 .. lines, NEW to \in 0 .. lines,
         NEW after \in 0 .. lines, t_cmd(from, to, after)
  PROVE  Leads(T, T0)
  <1>1. Given("t") /\ ValidRange(from, to)
    BY DEF t_cmd
  <1>2. /\ StOK(ed.st) /\ lines = Len(T) /\ Len(T) \in Nat /\ IsText(T)
        /\ \E T1 : Begun(ed, fresh_undo(ed), T, T0, T1)
    BY <1>1, AtStart
  <1>3. PICK T1 : Begun(ed, fresh_undo(ed), T, T0, T1)
    BY <1>2
  <1>4. from \in 0 .. Len(T) /\ from # 0 /\ to \in from .. Len(T) /\ after \in 0 .. Len(T)
        /\ Len(T) # 0
    BY <1>1, <1>2 DEF ValidRange
  <1>5. PICK e, f : f = fresh_undo(ed) /\ e = get_line_node(f, from)
    OBVIOUS
  <1>6. Sound(f, T, T1) /\ f.st = ed.st
    BY <1>3, <1>5 DEF Begun, Refreshed
  <1>7. Sound(e, T, T1) /\ Sought(f, e, T, from)
    BY <1>4, <1>5, <1>6, GetSound
  <1>8. e.lp = At(T, from) /\ e.st = ed.st /\ e.saved = f.saved
    BY <1>6, <1>7 DEF Sought, SameLines, SameButUndo
  <1>9. e.lp \in ToSet(T) \cup {0} /\ e.lp \in Link
    <2>1. from \in Int
      BY <1>4
    <2>2. At(T, from) \in ToSet(T) \cup {0} /\ At(T, from) \in Link
      BY <1>2, <2>1, OnText, TextFacts
    <2> QED
      BY <1>8, <2>2
  <1>10. PICK left, rest : /\ left = (IF from <= after /\ after < to THEN after ELSE to) - from + 1
                           /\ rest = IF from <= after /\ after < to THEN to - after ELSE 0
    OBVIOUS
  <1>11. left \in Nat /\ rest \in Nat
    BY <1>2, <1>4, <1>10
  <1>12. PICK o : o = [cmd |-> "t", pc |-> "copy", up |-> 0, lp |-> e.lp, after |-> after,
                       left |-> left, rest |-> rest, half |-> 0]
    OBVIOUS
  <1>13. after \in Nat /\ after <= Len(T)
    BY <1>4
  <1>14. o \in CopyOps /\ o.lp = e.lp /\ o.after = after /\ o.up = 0
    BY <1>9, <1>11, <1>12, <1>13 DEF CopyOps
  <1>15. CopyOp(o, e, T)
    BY <1>2, <1>4, <1>8, <1>9, <1>13, <1>14 DEF CopyOp, UpAt
  <1>16. Safe(e, o, T, T1)
    BY <1>7, <1>15 DEF Safe, OpOK
  <1>17. ed' = e /\ op' = o
    BY <1>5, <1>10, <1>12 DEF t_cmd
  <1>18. op = Idle
    BY <1>1 DEF Given
  <1> QED
    BY <1>3, <1>5, <1>8, <1>16, <1>17, <1>18, CommandLeads, ChangedNone

\* The node after a node of the ring is one of the ring.
LEMMA RingNext ==
  ASSUME NEW T, IsText(T), NEW f, NEW b, Ring(f, b, T), NEW n \in ToSet(T) \cup {0}
  PROVE  f[n] \in ToSet(T) \cup {0}
  <1>1. Len(T) \in Nat /\ At(T, 0) = 0
    BY TextFacts
  <1>2. \E x \in 0 .. Len(T) : n = At(T, x)
    <2>1. CASE n = 0
      BY <1>1, <2>1
    <2>2. CASE n \in ToSet(T)
      <3>1. PICK x \in 1 .. Len(T) : n = T[x]
        BY <2>2, OnText
      <3>2. At(T, x) = T[x] /\ x \in 0 .. Len(T)
        BY <1>1, <3>1, TextFacts
      <3> QED
        BY <3>1, <3>2
    <2> QED
      BY <2>1, <2>2
  <1>3. PICK x \in 0 .. Len(T) : n = At(T, x)
    BY <1>2
  <1>4. f[n] = At(T, x + 1)
    BY <1>3 DEF Ring
  <1>5. x + 1 \in Int
    BY <1>1
  <1> QED
    BY <1>4, <1>5, OnText

\* A line is copied behind the one copied before it.
LEMMA copy_lines_Safe ==
  ASSUME NEW T, NEW T0, Safe(ed, op, T, T0), copy_lines
  PROVE  Leads(T, T0)
  <1>1. Sound(ed, T, T0) /\ CopyOp(op, ed, T) /\ op.left > 0
    BY ByPlace DEF Safe, copy_lines
  <1>2. /\ op \in CopyOps /\ StOK(ed.st) /\ op.after <= Len(T) /\ op.lp \in ToSet(T) \cup {0}
        /\ UpAt(ed.undo, T, op.up, op.after) /\ Len(T) # 0
        /\ op.after \in Nat /\ op.left \in Nat
    BY <1>1 DEF CopyOp, CopyOps
  <1>5. Busy(ed, op)
    BY DEF copy_lines, Busy
  <1>3. CASE malloc_fails(ed)
    <2>1. ed' = Quit(ed) /\ op' = Idle
      BY <1>3 DEF copy_lines, Failed, Done, Quit
    <2>2. Safe(ed', op', T, T0) /\ ed'.saved = ed.saved
      BY <1>1, <1>2, <2>1, QuitSafe
    <2> QED
      BY <1>1, <1>5, <2>2, StayLeads
  <1>4. CASE ~ malloc_fails(ed)
    <2>1. PICK a, n, e2, V : /\ a = op.after /\ n = malloc(ed)
                             /\ e2 = Pointed(append_line_node(ed, a), a + 1)
                             /\ V = Insert(T, a, n)
      OBVIOUS
    <2>2. Len(T) \in Nat /\ IsText(T) /\ ToSet(T) \subseteq ed.heap
      BY <1>1, SoundParts
    <2>3. a \in 0 .. Len(T)
      BY <1>2, <2>1, <2>2
    <2>4. Fresh(ed, e2, T, a, n)
      BY <1>1, <1>4, <2>1, <2>3, FreshLine
    <2>5. PICK e3 : e3 = APPEND_UNDO_NODE(e2, n, op.up, a + 1)
      OBVIOUS
    <2>6. UpAt(ed.undo, T, op.up, a)
      BY <1>2, <2>1
    <2>7. Added(ed, e3, T, T0, a, n, op.up)
      BY <1>1, <2>3, <2>4, <2>5, <2>6, AddedLine
    <2>8. PICK up : up = IF op.up = 0 THEN Len(e3.undo) ELSE op.up
      OBVIOUS
    <2>9. /\ Sound(e3, V, T0) /\ EndsAt(e3.undo, up, V, a + 1) /\ e3.st.is_empty = ed.st.is_empty
          /\ e3.saved = ed.saved
      BY <2>1, <2>7, <2>8 DEF Added
    <2>10. IsText(V) /\ Ring(e3.forw, e3.back, V)
      BY <2>9, SoundParts
    <2>11. op.lp \in ToSet(V) \cup {0}
      <3>1. n \in Node /\ n \notin ed.heap
        BY <2>4 DEF Fresh, Pending
      <3>2. \A x \in 1 .. Len(T) : T[x] # n
        BY <2>2, <3>1, OnText
      <3>3. \A m : m \in ToSet(V) <=> m \in ToSet(T) \/ m = n
        BY <2>1, <2>2, <2>3, <3>1, <3>2, InsertSet
      <3> QED
        BY <1>2, <3>3
    <2>12. PICK lp : lp = e3.forw[op.lp]
      OBVIOUS
    <2>13. lp \in ToSet(V) \cup {0}
      BY <2>10, <2>11, <2>12, RingNext
    <2>14. lp \in Link
      <3>1. ToSet(V) \subseteq Node
        BY <2>10, OnText
      <3> QED
        BY <2>13, <3>1 DEF Node, Link
    <2>15. up \in Nat /\ a + 1 \in 1 .. Len(V)
      BY <2>9 DEF EndsAt
    <2>16. PICK o : o = [op EXCEPT !.lp = lp, !.after = a + 1, !.left = op.left - 1, !.up = up]
      OBVIOUS
    <2>17. a + 1 \in Nat /\ op.left - 1 \in Nat /\ a + 1 <= Len(V)
      BY <1>1, <1>2, <2>3, <2>15
    <2>18. o \in CopyOps /\ o.lp = lp /\ o.after = a + 1 /\ o.up = up
      BY <1>2, <2>14, <2>15, <2>16, <2>17 DEF CopyOps
    <2>19. StOK(e3.st)
      BY <1>1, <1>2, <2>9, KeptStOK
    <2>20. UpAt(e3.undo, V, o.up, o.after)
      BY <2>9, <2>18 DEF UpAt
    <2>21. Len(V) # 0
      BY <2>15
    <2>22. CopyOp(o, e3, V)
      BY <2>13, <2>17, <2>18, <2>19, <2>20, <2>21 DEF CopyOp
    <2>23. Safe(e3, o, V, T0)
      BY <2>9, <2>22 DEF Safe, OpOK
    <2>24. ed' = e3 /\ op' = o
      <3>1. /\ ed' = e3
            /\ op' = [op EXCEPT !.lp = lp, !.after = @ + 1, !.left = @ - 1,
                                !.up = IF @ = 0 THEN Len(e3.undo) ELSE @]
        BY <1>4, <2>1, <2>5, <2>12 DEF copy_lines, Pointed
      <3>2. [op EXCEPT !.lp = lp, !.after = @ + 1, !.left = @ - 1,
                       !.up = IF @ = 0 THEN Len(e3.undo) ELSE @] = o
        BY <1>2, <2>1, <2>8, <2>16 DEF CopyOps
      <3> QED
        BY <3>1, <3>2
    <2>25. Changed(T, V, ed.heap)
      BY <1>1, <2>1, <2>3, <2>7, AddedChanges
    <2> QED
      BY <1>1, <1>5, <2>9, <2>23, <2>24, <2>25, ContinueLeads
  <1> QED
    BY <1>3, <1>4

\* The second half starts behind the copies of the first.
LEMMA copy_rest_Safe ==
  ASSUME NEW T, NEW T0, Safe(ed, op, T, T0), copy_rest
  PROVE  Leads(T, T0)
  <1>1. Sound(ed, T, T0) /\ CopyOp(op, ed, T)
    BY ByPlace DEF Safe, copy_rest
  <1>2. /\ op \in CopyOps /\ StOK(ed.st) /\ op.after <= Len(T)
        /\ UpAt(ed.undo, T, op.up, op.after) /\ Len(T) # 0
        /\ op.after \in Nat /\ op.rest \in Nat
    BY <1>1 DEF CopyOp, CopyOps
  <1>3. PICK e : e = get_line_node(ed, op.after + 1)
    OBVIOUS
  <1>4. Len(T) \in Nat /\ IsText(T) /\ Walk(ed, T)
    BY <1>1, SoundParts
  <1>5. \E k \in 0 .. Len(T) : Sought(ed, e, T, k)
    <2>1. CASE op.after < Len(T)
      <3>1. op.after + 1 \in 0 .. Len(T)
        BY <1>2, <1>4, <2>1
      <3> QED
        BY <1>3, <1>4, <3>1, GetLine
    <2>2. CASE op.after = Len(T)
      <3>1. Sought(ed, e, T, Len(T))
        BY <1>3, <1>4, <2>2, GetBeyond
      <3> QED
        BY <1>4, <3>1
    <2> QED
      BY <1>2, <1>4, <2>1, <2>2
  <1>6. PICK k \in 0 .. Len(T) : Sought(ed, e, T, k)
    BY <1>5
  <1>7. Sound(e, T, T0)
    BY <1>1, <1>6, SoundSought
  <1>8. e.lp = At(T, k) /\ e.st = ed.st /\ e.undo = ed.undo /\ e.saved = ed.saved
    BY <1>6 DEF Sought, SameLines, SameButUndo
  <1>9. e.lp \in ToSet(T) \cup {0} /\ e.lp \in Link
    <2>1. k \in Int
      BY <1>4
    <2>2. At(T, k) \in ToSet(T) \cup {0} /\ At(T, k) \in Link
      BY <1>4, <2>1, OnText, TextFacts
    <2> QED
      BY <1>8, <2>2
  <1>10. PICK o : o = [op EXCEPT !.lp = e.lp, !.left = op.rest, !.half = 1]
    OBVIOUS
  <1>11. o \in CopyOps /\ o.lp = e.lp /\ o.after = op.after /\ o.up = op.up
    BY <1>2, <1>9, <1>10 DEF CopyOps
  <1>12. CopyOp(o, e, T)
    BY <1>2, <1>8, <1>9, <1>11 DEF CopyOp
  <1>13. Safe(e, o, T, T0)
    BY <1>7, <1>12 DEF Safe, OpOK
  <1>14. ed' = e /\ op' = o
    BY <1>3, <1>10 DEF copy_rest
  <1>15. Busy(ed, op)
    BY DEF copy_rest, Busy
  <1> QED
    BY <1>1, <1>8, <1>13, <1>14, <1>15, StayLeads

\* t ends.
LEMMA EndCopy_Safe ==
  ASSUME NEW T, NEW T0, Safe(ed, op, T, T0), EndCopy
  PROVE  Leads(T, T0)
  <1>1. Sound(ed, T, T0) /\ CopyOp(op, ed, T)
    BY ByPlace DEF Safe, EndCopy
  <1>2. Safe(ed', op', T, T0) /\ ed'.saved = ed.saved /\ Busy(ed, op)
    BY <1>1, IdleSafe DEF CopyOp, EndCopy, Done, Busy
  <1> QED
    BY <1>1, <1>2, StayLeads

----------------------------------------------------------------------------
(* The command s. *)

\* s starts with the first line of its range.
LEMMA s_cmd_Safe ==
  ASSUME NEW T, NEW T0, Safe(ed, op, T, T0), NEW from \in 0 .. lines, NEW to \in 0 .. lines,
         s_cmd(from, to)
  PROVE  Leads(T, T0)
  <1>1. Given("s") /\ ValidRange(from, to)
    BY DEF s_cmd
  <1>2. /\ StOK(ed.st) /\ lines = Len(T) /\ Len(T) \in Nat /\ dot \in 0 .. Len(T)
        /\ \E T1 : Begun(ed, fresh_undo(ed), T, T0, T1)
    BY <1>1, AtStart
  <1>3. PICK T1 : Begun(ed, fresh_undo(ed), T, T0, T1)
    BY <1>2
  <1>4. from - 1 \in 0 .. Len(T) /\ to - from + 1 \in Nat /\ (from - 1) + (to - from + 1) <= Len(T)
    BY <1>1, <1>2 DEF ValidRange
  <1>5. PICK f, e, d, left : /\ f = fresh_undo(ed) /\ d = from - 1 /\ left = to - from + 1
                             /\ e = Pointed(f, d)
    OBVIOUS
  <1>6. Sound(f, T, T1) /\ f.st = ed.st
    BY <1>3, <1>5 DEF Begun, Refreshed
  <1>7. d \in 0 .. Len(T) /\ left \in Nat /\ d + left <= Len(T)
    BY <1>4, <1>5
  <1>8. Restated(f, e, T, T1, StateOf(d, f.st.lines, f.st.is_empty))
    BY <1>5, <1>6, <1>7, PointSound
  <1>9. Sound(e, T, T1) /\ StOK(e.st) /\ e.st.dot = d /\ e.saved = f.saved
    BY <1>2, <1>6, <1>8 DEF Restated, StOK, StateOf
  <1>10. PICK o : o = [cmd |-> "s", pc |-> "subst", left |-> left, dot |-> dot]
    OBVIOUS
  <1>11. dot \in Nat /\ dot <= Len(T)
    BY <1>2
  <1>12. o \in SubstOps /\ o.left = left /\ o.dot = dot
    BY <1>7, <1>10, <1>11 DEF SubstOps
  <1>13. SubstOp(o, e, T)
    BY <1>7, <1>9, <1>11, <1>12 DEF SubstOp
  <1>14. Safe(e, o, T, T1)
    BY <1>9, <1>13 DEF Safe, OpOK
  <1>15. ed' = e /\ op' = o
    BY <1>5, <1>10 DEF s_cmd, Pointed
  <1>16. op = Idle
    BY <1>1 DEF Given
  <1> QED
    BY <1>3, <1>5, <1>9, <1>14, <1>15, <1>16, CommandLeads, ChangedNone

\* What is left to be done for the range stays within the buffer.
LEMMA SubstSafe ==
  ASSUME NEW e, NEW T, NEW T0, Sound(e, T, T0), StOK(e.st), NEW o \in SubstOps,
         e.st.dot + o.left <= Len(T), o.dot <= Len(T)
  PROVE  Safe(e, o, T, T0)
  BY DEF Safe, OpOK, SubstOp

\* A line that matches is deleted and its replacement put in its place.
LEMMA substitute_line_Safe ==
  ASSUME NEW T, NEW T0, Safe(ed, op, T, T0), NEW n \in Nat, substitute_line(n)
  PROVE  Leads(T, T0)
  <1>1. Sound(ed, T, T0) /\ SubstOp(op, ed, T) /\ op.left > 0
    BY ByPlace DEF Safe, substitute_line
  <1>2. op \in SubstOps /\ StOK(ed.st) /\ ed.st.dot + op.left <= Len(T) /\ op.dot <= Len(T)
        /\ op.left \in Nat /\ op.dot \in Nat
    BY <1>1 DEF SubstOp, SubstOps
  <1>3. PICK d, left : d = ed.st.dot /\ left = op.left - 1
    OBVIOUS
  <1>4. Len(T) \in Nat /\ IsText(T) /\ d \in 0 .. Len(T)
    BY <1>1, <1>3, SoundParts
  <1>5. /\ left \in Nat /\ d + 1 \in 1 .. Len(T) /\ d + 1 \in 0 .. Len(T) /\ d + 1 \in d + 1 .. Len(T)
        /\ d + 1 + left <= Len(T) /\ Len(T) # 0
    BY <1>1, <1>2, <1>3, <1>4
  <1>6. PICK e1, e2 : e1 = get_line_node(ed, d + 1) /\ e2 = Pointed(e1, e1.st.dot + 1)
    OBVIOUS
  <1>7. Sound(e1, T, T0) /\ Sought(ed, e1, T, d + 1)
    BY <1>1, <1>5, <1>6, GetSound
  <1>14. Busy(ed, op)
    BY DEF substitute_line, Busy
  <1>8. e1.lp = At(T, d + 1) /\ e1.st = ed.st /\ e1.saved = ed.saved /\ e1.heap = ed.heap
    BY <1>7 DEF Sought, SameLines, SameButUndo
  <1>9. Restated(e1, e2, T, T0, StateOf(d + 1, e1.st.lines, e1.st.is_empty))
    <2>1. e2 = Pointed(e1, d + 1)
      BY <1>3, <1>6, <1>8
    <2> QED
      BY <1>5, <1>7, <2>1, PointSound
  <1>10. Sound(e2, T, T0) /\ StOK(e2.st) /\ e2.st.dot = d + 1 /\ e2.lp = At(T, d + 1)
         /\ e2.st.is_empty = ed.st.is_empty /\ e2.saved = ed.saved /\ e2.heap = ed.heap
    BY <1>2, <1>8, <1>9 DEF Restated, StOK, StateOf
  <1>11. e2.lp \in Node
    <2>1. At(T, d + 1) = T[d + 1] /\ T[d + 1] \in Node
      BY <1>4, <1>5, TextFacts
    <2> QED
      BY <1>10, <2>1
  <1>12. CASE n = 0
    <2>1. PICK o : o = [op EXCEPT !.left = left]
      OBVIOUS
    <2>2. o \in SubstOps /\ o.left = left /\ o.dot = op.dot
      BY <1>2, <1>5, <2>1 DEF SubstOps
    <2>3. Safe(e2, o, T, T0)
      BY <1>2, <1>5, <1>10, <2>2, SubstSafe
    <2>4. ed' = e2 /\ op' = o
      BY <1>3, <1>6, <1>12, <2>1 DEF substitute_line, Pointed, dot
    <2> QED
      BY <1>1, <1>10, <1>14, <2>3, <2>4, StayLeads
  <1>13. CASE n # 0
    <2>1. PICK D, C, r : /\ D = delete_lines(e2, d + 1, d + 1) /\ C = Cut(T, (d + 1) - 1, d + 1)
                         /\ r = put_replacement(D, e2.lp, n)
      OBVIOUS
    <2>2. Lost(e2, D, T, T0, d + 1, d + 1)
      BY <1>5, <1>10, <2>1, DeleteLines
    <2>3. /\ Sound(D, C, T0) /\ D.st.dot = d /\ D.st.lines = Len(T) - 1
          /\ D.st.is_empty = ed.st.is_empty /\ D.saved = ed.saved /\ D.heap = ed.heap
      <3>1. /\ Sound(D, C, T0) /\ D.st.dot = (d + 1) - 1
            /\ D.st.lines = Len(T) - ((d + 1) - (d + 1) + 1)
            /\ D.st.is_empty = ed.st.is_empty /\ D.saved = ed.saved /\ D.heap = ed.heap
        BY <1>10, <2>1, <2>2 DEF Lost
      <3> QED
        BY <1>4, <3>1
    <2>4. Len(C) = Len(T) - 1
      BY <2>3, SoundParts
    <2>5. Replaced(D, C, T0, n, r)
      BY <1>11, <2>1, <2>3, ReplaceLines
    <2>6. PICK x, ok, up : r = [e |-> x, ok |-> ok, up |-> up] /\ PutSoFar(D, C, T0, n, x, ok, up)
      BY <2>5 DEF Replaced
    <2>7. r.e = x /\ r.ok = ok /\ ok \in BOOLEAN
      BY <2>6 DEF PutSoFar
    <2>8. PICK U : /\ Sound(x, U, T0) /\ x.st.is_empty = D.st.is_empty
                   /\ x.saved = D.saved /\ PutText(D, C, U, n, ok)
                   /\ ok => Len(U) = Len(C) + n /\ x.st.dot = D.st.dot + n
      BY <2>6 DEF PutSoFar
    <2>9. StOK(x.st)
      <3>1. x.st.is_empty = ed.st.is_empty
        BY <2>3, <2>8
      <3> QED
        BY <1>1, <1>2, <1>5, <3>1, KeptStOK
    <2>10. /\ ok => ed' = x /\ op' = [op EXCEPT !.left = @ - 1, !.dot = x.st.dot]
           /\ ~ ok => ed' = Quit(x) /\ op' = Idle
      <3>1. IF r.ok THEN ed' = r.e /\ op' = [op EXCEPT !.left = @ - 1, !.dot = r.e.st.dot]
                    ELSE Failed(r.e)
        BY <1>3, <1>6, <1>13, <2>1 DEF substitute_line, Pointed, dot
      <3> QED
        BY <2>7, <3>1 DEF Failed, Done, Quit
    <2>13. Changed(T, U, ed.heap)
      <3>1. PICK m : RewrittenAt(C, U, d, d, m, ed.heap)
        BY <2>3, <2>8 DEF PutText
      <3>2. PICK j : j = d + 1
        OBVIOUS
      <3>3. (d + 1) - 1 = d /\ d \in Nat /\ j \in Nat /\ d <= j /\ j <= Len(T)
        BY <1>4, <1>5, <3>2
      <3>4. C = Cut(T, d, j)
        BY <2>1, <3>2, <3>3
      <3>5. RewrittenAt(Cut(T, d, j), U, d, d, m, ed.heap)
        BY <3>1, <3>4
      <3>6. RewrittenAt(T, U, d, j, m, ed.heap)
        BY <1>4, <3>3, <3>5, RewriteCutMore
      <3> QED
        BY <3>6 DEF Changed
    <2>14. x.saved = ed.saved
      BY <2>3, <2>8
    <2>11. CASE ok
      <3>1. PICK o : o = [op EXCEPT !.left = left, !.dot = x.st.dot]
        OBVIOUS
      <3>2. Len(U) \in Nat /\ x.st.dot \in 0 .. Len(U)
        BY <2>8, SoundParts
      <3>3. x.st.dot \in Nat /\ x.st.dot <= Len(U)
        BY <3>2
      <3>4. o \in SubstOps /\ o.left = left /\ o.dot = x.st.dot
        BY <1>2, <1>5, <3>1, <3>3 DEF SubstOps
      <3>5. x.st.dot + left <= Len(U)
        BY <1>4, <1>5, <2>3, <2>4, <2>8, <2>11
      <3>6. Safe(x, o, U, T0)
        BY <2>8, <2>9, <3>3, <3>4, <3>5, SubstSafe
      <3>7. ed' = x /\ op' = o
        BY <1>3, <2>10, <2>11, <3>1
      <3> QED
        BY <1>1, <1>14, <2>13, <2>14, <3>6, <3>7, ContinueLeads
    <2>12. CASE ~ ok
      <3>1. Safe(Quit(x), Idle, U, T0) /\ Quit(x).saved = x.saved
        BY <2>8, <2>9, QuitSafe
      <3>2. Safe(ed', op', U, T0) /\ ed'.saved = ed.saved
        BY <2>10, <2>12, <2>14, <3>1
      <3> QED
        BY <1>1, <1>14, <2>13, <3>2, ContinueLeads
    <2> QED
      BY <2>11, <2>12
  <1> QED
    BY <1>12, <1>13

\* s ends, with the last line of the last replacement current.
LEMMA EndSubst_Safe ==
  ASSUME NEW T, NEW T0, Safe(ed, op, T, T0), EndSubst
  PROVE  Leads(T, T0)
  <1>1. Sound(ed, T, T0) /\ SubstOp(op, ed, T)
    BY ByPlace DEF Safe, EndSubst
  <1>2. PICK d : d = op.dot
    OBVIOUS
  <1>3. Len(T) \in Nat
    BY <1>1, SoundParts
  <1>4. StOK(ed.st) /\ d \in 0 .. Len(T)
    BY <1>1, <1>2, <1>3 DEF SubstOp, SubstOps
  <1>5. ed' = Pointed(ed, d) /\ op' = Idle
    BY <1>2 DEF EndSubst, Done, Pointed
  <1>6. Restated(ed, ed', T, T0, StateOf(d, ed.st.lines, ed.st.is_empty))
    BY <1>1, <1>4, <1>5, PointSound
  <1>7. Sound(ed', T, T0) /\ StOK(ed'.st) /\ ed'.saved = ed.saved
    BY <1>4, <1>6 DEF Restated, StOK, StateOf
  <1>8. Safe(ed', op', T, T0) /\ Busy(ed, op)
    BY <1>5, <1>7, IdleSafe DEF EndSubst, Busy
  <1> QED
    BY <1>1, <1>7, <1>8, StayLeads

----------------------------------------------------------------------------
(* The commands d, j, m, k, u and the address followed by `;'. *)

\* d deletes the range; the current line is then one of the text.
LEMMA d_cmd_Safe ==
  ASSUME NEW T, NEW T0, Safe(ed, op, T, T0), NEW from \in 0 .. lines, NEW to \in 0 .. lines,
         d_cmd(from, to)
  PROVE  Leads(T, T0)
  <1>1. Given("d") /\ ValidRange(from, to)
    BY DEF d_cmd
  <1>2. lines = Len(T) /\ Len(T) \in Nat /\ \E T1 : Begun(ed, fresh_undo(ed), T, T0, T1)
    BY <1>1, AtStart
  <1>3. PICK T1 : Begun(ed, fresh_undo(ed), T, T0, T1)
    BY <1>2
  <1>4. from \in 1 .. Len(T) /\ to \in from .. Len(T)
    BY <1>1, <1>2 DEF ValidRange
  <1>5. PICK f, e, C : f = fresh_undo(ed) /\ e = delete_lines(f, from, to) /\ C = Cut(T, from - 1, to)
    OBVIOUS
  <1>6. Sound(f, T, T1)
    BY <1>3, <1>5 DEF Begun, Refreshed
  <1>7. Lost(f, e, T, T1, from, to)
    BY <1>4, <1>5, <1>6, DeleteLines
  <1>8. Sound(e, C, T1) /\ e.saved = f.saved
    BY <1>5, <1>7 DEF Lost
  <1>9. e.st.dot \in 0 .. Len(C) /\ e.st.lines = Len(C) /\ Len(C) \in Nat /\ e \in Buffer
    BY <1>8, SoundParts
  <1>10. PICK addr : addr = INC_MOD(e.st.dot, e.st.lines)
    OBVIOUS
  <1>11. PICK d : d = IF addr # 0 THEN addr ELSE e.st.dot
    OBVIOUS
  <1>12. d \in 0 .. Len(C)
    BY <1>9, <1>10, <1>11 DEF INC_MOD
  <1>13. PICK x \in BOOLEAN : x = (e.st.lines = 0)
    OBVIOUS
  <1>14. PICK g, r : g = Pointed(e, d) /\ r = Emptied(g, x)
    OBVIOUS
  <1>15. Restated(e, g, C, T1, StateOf(d, e.st.lines, e.st.is_empty))
    BY <1>8, <1>12, <1>14, PointSound
  <1>16. Sound(g, C, T1) /\ g.st.lines = e.st.lines /\ g.saved = f.saved
    BY <1>8, <1>15 DEF Restated, StateOf
  <1>17. Restated(g, r, C, T1, StateOf(g.st.dot, g.st.lines, x))
    BY <1>14, <1>16, EmptySound
  <1>18. Sound(r, C, T1) /\ StOK(r.st) /\ r.saved = f.saved
    <2>1. /\ Sound(r, C, T1) /\ r.st.is_empty = x /\ r.st.lines = g.st.lines
          /\ r.saved = f.saved
      BY <1>16, <1>17 DEF Restated, StateOf
    <2>2. x => g.st.lines = 0
      BY <1>13, <1>16
    <2> QED
      BY <2>1, <2>2 DEF StOK
  <1>19. ed' = r /\ op' = Idle
    BY <1>5, <1>10, <1>11, <1>13, <1>14, <1>9 DEF d_cmd, Done, Pointed, Emptied, Buffer, State
  <1>20. Safe(ed', op', C, T1)
    BY <1>18, <1>19, IdleSafe
  <1>21. Changed(T, C, f.heap)
    <2>1. from - 1 \in Nat /\ from - 1 <= to /\ to <= Len(T) /\ to \in Nat /\ IsText(T)
      BY <1>2, <1>4, <1>6, SoundParts
    <2> QED
      BY <1>5, <2>1, ChangedCut
  <1>22. op = Idle
    BY <1>1 DEF Given
  <1> QED
    BY <1>3, <1>5, <1>18, <1>19, <1>20, <1>21, <1>22, CommandLeads

\* j replaces the range by one line.
LEMMA j_cmd_Safe ==
  ASSUME NEW T, NEW T0, Safe(ed, op, T, T0), NEW from \in 0 .. lines, NEW to \in 0 .. lines,
         j_cmd(from, to)
  PROVE  Leads(T, T0)
  <1>1. Given("j")
    BY DEF j_cmd
  <1>2. /\ StOK(ed.st) /\ lines = Len(T) /\ Len(T) \in Nat /\ Sound(ed, T, T0)
        /\ \E T1 : Begun(ed, fresh_undo(ed), T, T0, T1)
    BY <1>1, AtStart
  <1>3. PICK f, T1 : f = fresh_undo(ed) /\ Begun(ed, f, T, T0, T1)
    BY <1>2
  <1>4. Sound(f, T, T1) /\ f.st = ed.st
    BY <1>3 DEF Begun, Refreshed
  <1>7. op = Idle
    BY <1>1 DEF Given
  <1>5. CASE Done(f)
    <2>1. Safe(ed', op', T, T1) /\ ed' = f
      BY <1>2, <1>4, <1>5, IdleSafe DEF Done
    <2> QED
      BY <1>3, <1>7, <2>1, CommandLeads, ChangedNone
  <1>6. CASE /\ from < to /\ ValidRange(from, to)
             /\ \E r : r = join_lines(f, from, to) /\ (Done(r) \/ Failed(r))
    <2>1. PICK r : r = join_lines(f, from, to) /\ (Done(r) \/ Failed(r))
      BY <1>6
    <2>2. from \in 1 .. Len(T) /\ to \in from .. Len(T) /\ Len(T) # 0
      BY <1>2, <1>6 DEF ValidRange
    <2>3. JoinedLines(f, r, T, T1)
      BY <1>4, <2>1, <2>2, JoinSound
    <2>4. PICK C : /\ Sound(r, C, T1) /\ r.st.is_empty = ed.st.is_empty
                   /\ r.saved = f.saved /\ Changed(T, C, f.heap)
      BY <1>4, <2>3 DEF JoinedLines
    <2>5. StOK(r.st)
      BY <1>2, <2>2, <2>4, KeptStOK
    <2>6. CASE Done(r)
      <3>1. Safe(ed', op', C, T1) /\ ed' = r
        BY <2>4, <2>5, <2>6, IdleSafe DEF Done
      <3> QED
        BY <1>3, <1>7, <2>4, <3>1, CommandLeads
    <2>7. CASE Failed(r)
      <3>1. ed' = Quit(r) /\ op' = Idle
        BY <2>7 DEF Failed, Done, Quit
      <3>2. Safe(ed', op', C, T1) /\ ed'.saved = r.saved
        BY <2>4, <2>5, <3>1, QuitSafe
      <3> QED
        BY <1>3, <1>7, <2>4, <3>2, CommandLeads
    <2> QED
      BY <2>1, <2>6, <2>7
  <1> QED
    BY <1>3, <1>5, <1>6 DEF j_cmd

\* m moves the range.
LEMMA m_cmd_Safe ==
  ASSUME NEW T, NEW T0, Safe(ed, op, T, T0), NEW from \in 0 .. lines, NEW to \in 0 .. lines,
         NEW after \in 0 .. lines, m_cmd(from, to, after)
  PROVE  Leads(T, T0)
  <1>1. Given("m") /\ ValidRange(from, to) /\ ~ (from <= after /\ after < to)
    BY DEF m_cmd
  <1>2. /\ StOK(ed.st) /\ lines = Len(T) /\ Len(T) \in Nat /\ Sound(ed, T, T0)
        /\ \E T1 : Begun(ed, fresh_undo(ed), T, T0, T1)
    BY <1>1, AtStart
  <1>3. PICK f, T1 : f = fresh_undo(ed) /\ Begun(ed, f, T, T0, T1)
    BY <1>2
  <1>4. Sound(f, T, T1) /\ f.st = ed.st
    BY <1>3 DEF Begun, Refreshed
  <1>5. from \in 1 .. Len(T) /\ to \in from .. Len(T) /\ after \in 0 .. Len(T) /\ Len(T) # 0
    BY <1>1, <1>2 DEF ValidRange
  <1>6. PICK r : r = move_lines(f, from, to, after)
    OBVIOUS
  <1>7. Turned(f, r, T, T1)
    BY <1>1, <1>4, <1>5, <1>6, MoveSound
  <1>8. PICK C, d : Reordered(T, C) /\ Shift(f, r, C, T1, d)
    BY <1>7 DEF Turned
  <1>9. Sound(r, C, T1) /\ r.st.is_empty = ed.st.is_empty /\ r.saved = f.saved
    BY <1>4, <1>8 DEF Shift
  <1>10. StOK(r.st)
    BY <1>2, <1>5, <1>9, KeptStOK
  <1>11. ed' = r /\ op' = Idle
    BY <1>3, <1>6 DEF m_cmd, Done
  <1>12. Safe(ed', op', C, T1)
    BY <1>9, <1>10, <1>11, IdleSafe
  <1>13. Changed(T, C, f.heap)
    BY <1>8 DEF Changed
  <1>14. op = Idle
    BY <1>1 DEF Given
  <1> QED
    BY <1>3, <1>9, <1>11, <1>12, <1>13, <1>14, CommandLeads

\* k marks the line the cached position points to.
LEMMA k_cmd_Safe ==
  ASSUME NEW T, NEW T0, Safe(ed, op, T, T0), NEW end \in 0 .. lines, NEW m \in Mark, k_cmd(end, m)
  PROVE  Leads(T, T0)
  <1>1. Given("k")
    BY DEF k_cmd
  <1>2. StOK(ed.st) /\ lines = Len(T) /\ Sound(ed, T, T0)
    BY <1>1, AtStart
  <1>3. PICK e, r : e = get_line_node(ed, end) /\ r = mark_line_node(e, m, e.lp)
    OBVIOUS
  <1>4. Sound(e, T, T0) /\ Sought(ed, e, T, end)
    BY <1>2, <1>3, GetSound
  <1>5. e.st = ed.st /\ e.saved = ed.saved /\ e.global = ed.global
    BY <1>4 DEF Sought, SameLines, SameButUndo
  <1>6. Sound(r, T, T0) /\ r.st = e.st /\ r.saved = e.saved /\ r.global = e.global
    BY <1>3, <1>4, MarkSound
  <1>7. ed' = r /\ op' = Idle
    BY <1>3 DEF k_cmd, Done
  <1>8. Safe(ed', op', T, T0)
    BY <1>2, <1>5, <1>6, <1>7, IdleSafe
  <1>9. Points(T, T0, T, T0)
    BY <1>1, <1>5, <1>6, <1>7 DEF Points, Busy, Given
  <1> QED
    BY <1>8, <1>9 DEF Leads, Edits

\* After `u' the undo queue leads back to the text `u' was given for.
LEMMA u_cmd_Safe ==
  ASSUME NEW T, NEW T0, Safe(ed, op, T, T0), u_cmd
  PROVE  Leads(T, T0)
  <1>1. Given("u") /\ ed.saved # NoState
    BY DEF u_cmd
  <1>2. StOK(ed.st) /\ Sound(ed, T, T0)
    BY <1>1, AtStart
  <1>3. StOK(ed.saved)
    <2>1. SavedOK(ed.saved, T0)
      BY <1>2, SoundParts
    <2> QED
      BY <1>1, <2>1 DEF SavedOK
  <1>4. PICK r : r = undo_last_command(ed)
    OBVIOUS
  <1>5. Sound(r, T0, T) /\ r.st = ed.saved /\ r.saved = ed.st /\ r.global = ed.global
    BY <1>1, <1>2, <1>4, UndoSound
  <1>6. ed' = r /\ op' = Idle
    BY <1>4 DEF u_cmd, Done
  <1>7. Safe(ed', op', T0, T)
    BY <1>3, <1>5, <1>6, IdleSafe
  <1>8. Undoes(T, T0, T0, T)
    BY <1>1, <1>5, <1>6 DEF Undoes, Busy, Given
  <1> QED
    BY <1>7, <1>8 DEF Leads, Edits

\* `;' sets the current line to an address within the text.
LEMMA semicolon_Safe ==
  ASSUME NEW T, NEW T0, Safe(ed, op, T, T0), NEW addr \in 0 .. lines, semicolon(addr)
  PROVE  Leads(T, T0)
  <1>1. Given(";")
    BY DEF semicolon
  <1>2. StOK(ed.st) /\ lines = Len(T) /\ Sound(ed, T, T0)
    BY <1>1, AtStart
  <1>3. ed' = Pointed(ed, addr) /\ op' = Idle
    BY DEF semicolon, Done, Pointed
  <1>4. Restated(ed, ed', T, T0, StateOf(addr, ed.st.lines, ed.st.is_empty))
    BY <1>2, <1>3, PointSound
  <1>5. /\ Sound(ed', T, T0) /\ StOK(ed'.st) /\ ed'.saved = ed.saved
        /\ ed'.global = ed.global
    BY <1>2, <1>4 DEF Restated, StOK, StateOf
  <1>6. Safe(ed', op', T, T0)
    BY <1>3, <1>5, IdleSafe
  <1>7. Points(T, T0, T, T0)
    BY <1>1, <1>3, <1>5 DEF Points, Busy, Given
  <1> QED
    BY <1>6, <1>7 DEF Leads, Edits

----------------------------------------------------------------------------
(* Global commands, and commands that are cut short. *)

\* A global command starts with the matching lines of the text.
LEMMA global_cmd_Safe ==
  ASSUME NEW T, NEW T0, Safe(ed, op, T, T0), NEW sel, global_cmd(sel)
  PROVE  Leads(T, T0)
  <1>1. Given("g") /\ lines # 0
    BY DEF global_cmd
  <1>2. /\ StOK(ed.st) /\ lines = Len(T) /\ Len(T) \in Nat /\ Sound(ed, T, T0)
    BY <1>1, AtStart
  <1>3. PICK e, r : e = get_line_node(ed, 1) /\ r = reset_undo_queue(e)
    OBVIOUS
  <1>4. 1 \in 0 .. Len(T)
    BY <1>1, <1>2
  <1>5. Sound(e, T, T0) /\ Sought(ed, e, T, 1)
    BY <1>2, <1>3, <1>4, GetSound
  <1>6. StOK(e.st)
    BY <1>2, <1>5 DEF Sought, SameLines, SameButUndo
  <1>7. Refreshed(e, r, T, T) /\ r.saved = e.st
    BY <1>3, <1>5, <1>6, ResetSound
  <1>8. Sound(r, T, T) /\ StOK(r.st) /\ r.saved = ed.st
    BY <1>5, <1>6, <1>7 DEF Refreshed, Sought, SameLines, SameButUndo
  <1>9. IsText(T) /\ Ring(ed.forw, ed.back, T)
    BY <1>2, SoundParts
  <1>10. TextOf(ed.forw) = T
    BY <1>9, TextOfRing
  <1>11. PICK g \in BOOLEAN : g = TRUE
    OBVIOUS
  <1>12. PICK gb : gb = MarkedBuffer(T, sel)
    OBVIOUS
  <1>13. gb \in GlobalBuffer /\ (g => GbLive(gb, T))
    BY <1>9, <1>12, MarkedLive
  <1>14. PICK s : s = WithGlobal(r, g, gb)
    OBVIOUS
  <1>15. Globaled(r, s, T, T, g, gb)
    BY <1>8, <1>13, <1>14, GlobalSound
  <1>16. Sound(s, T, T) /\ StOK(s.st) /\ s.global /\ s.saved = ed.st
    BY <1>8, <1>11, <1>15 DEF Globaled
  <1>17. PICK o : o = [cmd |-> "g", pc |-> "next"]
    OBVIOUS
  <1>18. NextOp(o, s)
    BY <1>16, <1>17 DEF NextOp, NextOps
  <1>19. Safe(s, o, T, T)
    BY <1>16, <1>18 DEF Safe, OpOK
  <1>20. ed' = s /\ op' = o
    BY <1>3, <1>10, <1>11, <1>12, <1>14, <1>17 DEF global_cmd, MarkedBuffer, WithGlobal
  <1>21. ~ Busy(ed, op)
    BY <1>1 DEF global_cmd, Given, Busy
  <1>22. Starts(T, T, T)
    BY <1>16, <1>20, <1>21, ChangedNone DEF Starts
  <1> QED
    BY <1>19, <1>20, <1>22 DEF Leads, Edits

\* The search for the next line does not go back.
LEMMA NextFromPtr ==
  ASSUME NEW gb \in GlobalBuffer, NEW i, i = next_global_index(gb), i # 0
  PROVE  gb.ptr <= i
  <1>1. PICK S : S = {x \in gb.ptr .. Len(gb.lbuf) : gb.lbuf[x] # Nil}
    OBVIOUS
  <1>2. S # {} /\ i = Min(S)
    BY <1>1 DEF next_global_index
  <1>3. gb.ptr \in Nat
    BY DEF GlobalBuffer
  <1>4. S \subseteq Nat
    BY <1>1, <1>3
  <1>5. i \in S
    BY <1>2, <1>4, MinIn
  <1> QED
    BY <1>1, <1>3, <1>5

\* The line visited next is in the buffer: its address is never ERR.
LEMMA exec_global_Safe ==
  ASSUME NEW T, NEW T0, Safe(ed, op, T, T0), exec_global
  PROVE  Leads(T, T0)
  <1>1. Sound(ed, T, T0) /\ NextOp(op, ed)
    BY ByPlace DEF Safe, exec_global
  <1>2. StOK(ed.st) /\ ed.global
    BY <1>1 DEF NextOp
  <1>3. ed.gb \in GlobalBuffer /\ GbLive(ed.gb, T) /\ ed \in Buffer
    BY <1>1, <1>2, SoundParts
  <1>7. Busy(ed, op)
    BY <1>2 DEF Busy
  <1>4. PICK i, n, addr : /\ i = next_global_index(ed.gb) /\ n = ed.gb.lbuf[i]
                          /\ addr = get_line_node_address(ed, n)
    OBVIOUS
  <1>5. CASE i = 0
    <2>1. ed' = Quit(ed) /\ op' = Idle
      BY <1>4, <1>5 DEF exec_global, Failed, Done, Quit
    <2>2. Safe(ed', op', T, T0) /\ ed'.saved = ed.saved
      BY <1>1, <1>2, <2>1, QuitSafe
    <2> QED
      BY <1>1, <1>7, <2>2, StayLeads
  <1>6. CASE i # 0
    <2>1. i \in Nat \ {0} /\ i <= Len(ed.gb.lbuf) /\ n \in ToSet(T)
      BY <1>3, <1>4, <1>6, NextLineLive
    <2>2. ed.gb.ptr <= i
      BY <1>3, <1>4, <1>6, NextFromPtr
    <2>3. addr \in 0 .. Len(T)
      BY <1>1, <1>4, <2>1, AddressOf
    <2>4. PICK gb : gb = [ed.gb EXCEPT !.ptr = i + 1]
      OBVIOUS
    <2>5. gb \in GlobalBuffer /\ GbLive(gb, T)
      <3>1. i + 1 \in Nat \ {0} /\ ed.gb.ptr \in Nat
        BY <1>3, <2>1 DEF GlobalBuffer
      <3>2. \A x \in i + 1 .. Len(ed.gb.lbuf) : x \in ed.gb.ptr .. Len(ed.gb.lbuf)
        <4>1. Len(ed.gb.lbuf) \in Nat
          BY <1>3 DEF GlobalBuffer
        <4> QED
          BY <2>1, <2>2, <3>1, <4>1
      <3> QED
        BY <1>3, <2>4, <3>1, <3>2, NextBuffer
    <2>6. PICK g \in BOOLEAN : g = TRUE
      OBVIOUS
    <2>7. PICK e, r : e = WithGlobal(ed, g, gb) /\ r = Pointed(e, addr)
      OBVIOUS
    <2>8. Globaled(ed, e, T, T0, g, gb)
      BY <1>1, <2>5, <2>7, GlobalSound
    <2>9. Sound(e, T, T0) /\ e.st = ed.st /\ e.saved = ed.saved
      BY <2>8 DEF Globaled
    <2>10. Restated(e, r, T, T0, StateOf(addr, e.st.lines, e.st.is_empty))
      BY <2>3, <2>7, <2>9, PointSound
    <2>11. Sound(r, T, T0) /\ StOK(r.st) /\ r.saved = ed.saved
      BY <1>2, <2>9, <2>10 DEF Restated, StOK, StateOf
    <2>12. ed' = r /\ op' = Idle
      <3>1. e = [ed EXCEPT !.gb.ptr = i + 1]
        BY <1>2, <1>3, <2>4, <2>6, <2>7 DEF WithGlobal, Buffer
      <3>2. addr # ERR
        BY <2>3 DEF ERR
      <3> QED
        BY <1>4, <1>6, <2>7, <3>1, <3>2 DEF exec_global, Done, Pointed
    <2>13. Safe(ed', op', T, T0) /\ ed'.saved = ed.saved
      BY <2>11, <2>12, IdleSafe
    <2> QED
      BY <1>1, <1>7, <2>13, StayLeads
  <1> QED
    BY <1>5, <1>6

\* A command list ends, and with it the visit of a line.
LEMMA EndList_Safe ==
  ASSUME NEW T, NEW T0, Safe(ed, op, T, T0), EndList
  PROVE  Leads(T, T0)
  <1>1. Sound(ed, T, T0) /\ op = Idle /\ ed.global /\ ed' = ed /\ StOK(ed.st)
    BY IdleStOK DEF EndList, Safe
  <1>2. PICK o : o = [cmd |-> "g", pc |-> "next"]
    OBVIOUS
  <1>3. NextOp(o, ed)
    BY <1>1, <1>2 DEF NextOp, NextOps
  <1>4. Safe(ed, o, T, T0)
    BY <1>1, <1>3 DEF Safe, OpOK
  <1>5. Safe(ed', op', T, T0) /\ ed'.saved = ed.saved /\ Busy(ed, op)
    BY <1>1, <1>2, <1>4 DEF EndList, Busy
  <1> QED
    BY <1>1, <1>5, StayLeads

\* Only a read may leave a `logically' empty buffer with lines behind.
LEMMA Abort_Safe ==
  ASSUME NEW T, NEW T0, Safe(ed, op, T, T0), Abort, AbortIn \cap Reads = {}
  PROVE  Leads(T, T0)
  <1>1. Sound(ed, T, T0) /\ OpOK(op, ed, T)
    BY DEF Safe
  <1>2. ed' = Quit(ed) /\ op' = Idle
    BY DEF Abort, Failed, Done, Quit
  <1>3. StOK(ed.st)
    <2>1. CASE op = Idle
      BY <1>1, <2>1, IdleStOK
    <2>2. CASE op # Idle /\ op.cmd \in AbortIn
      <3>1. ~ ReadOp(op, ed, T)
        BY <2>2 DEF ReadOp, ReadOps
      <3> QED
        BY <1>1, <2>2, <3>1 DEF OpOK, TextOp, OpenOp, CopyOp, SubstOp, NextOp
    <2> QED
      BY <2>1, <2>2 DEF Abort
  <1>4. Safe(ed', op', T, T0) /\ ed'.saved = ed.saved
    BY <1>1, <1>2, <1>3, QuitSafe
  <1>5. Busy(ed, op)
    BY DEF Abort, Busy
  <1> QED
    BY <1>1, <1>4, <1>5, StayLeads

----------------------------------------------------------------------------
(* The inductive invariant. *)

IInv == SomeSafe(ed, op)

\* At first the text is empty, and there is nothing to undo.
LEMMA InitSafe ==
  ASSUME Init
  PROVE  Safe(ed, op, <<>>, <<>>) /\ ~ Busy(ed, op) /\ ed.saved = NoState /\ ed.st.dot = 0
  <1>1. PICK T : T = <<>>
    OBVIOUS
  <1>2. T \in Seq(Node) /\ Len(T) = 0 /\ ToSet(T) = {}
    BY <1>1 DEF ToSet
  <1>3. IsText(T)
    BY <1>2 DEF IsText
  <1>4. PICK self, none : self = [n \in {line_head} \cup Node |-> n] /\ none = [m \in Mark |-> Nil]
    OBVIOUS
  <1>5. self \in [Link -> Link] /\ none \in [Mark -> Link \cup {Nil}] /\ self[0] = 0
    <2>1. Link = {line_head} \cup Node /\ 0 \in Link
      BY DEF Link, Node, line_head
    <2> QED
      BY <1>4, <2>1
  <1>6. Ring(self, self, T)
    BY <1>2, <1>5 DEF Ring, At, line_head
  <1>7. PICK st, saved, no, q, gb : /\ st = init_ed_state(0) /\ saved = init_ed_state(-1) /\ no = <<>>
                                    /\ q = {} /\ gb = EmptyGlobalBuffer
    OBVIOUS
  <1>8. /\ st \in State /\ st.dot = 0 /\ st.lines = 0 /\ saved \in State /\ saved = NoState
        /\ no \in Seq(Entry) /\ q \subseteq Node /\ gb \in GlobalBuffer
    BY <1>7, EmptyLive DEF init_ed_state, State, NoState
  <1>9. PICK g \in BOOLEAN : g = FALSE
    OBVIOUS
  <1>10. ed = [forw |-> self, back |-> self, heap |-> q, st |-> st, saved |-> saved,
               lp |-> line_head, n_prev |-> 0, undo |-> no, mark |-> none, marks |-> 0,
               gb |-> gb, global |-> g]
    BY <1>4, <1>7, <1>9 DEF Init
  <1>11. line_head \in Link /\ 0 \in Nat
    BY DEF line_head, Link
  <1>12. ed \in Buffer
    BY <1>5, <1>8, <1>10, <1>11 DEF Buffer
  <1>13. /\ ed.forw = self /\ ed.back = self /\ ed.heap = q /\ ed.st = st /\ ed.saved = saved
         /\ ed.lp = 0 /\ ed.n_prev = 0 /\ ed.undo = no /\ ed.mark = none /\ ed.marks = 0
         /\ ed.global = g
    BY <1>10 DEF line_head
  <1>14. MarksOK(ed)
    <2>1. Marked(ed) = {}
      BY <1>4, <1>13 DEF Marked
    <2>2. ed.marks = Cardinality(Marked(ed))
      BY <1>13, <2>1, FS_EmptySet
    <2>3. \A m \in Mark : ed.mark[m] = Nil
      BY <1>4, <1>13
    <2> QED
      BY <2>2, <2>3 DEF MarksOK
  <1>15. Deque(ed.undo, ed.forw, ed.back, ed.heap, T, T)
    <2>1. Deque(<<>>, self, self, ToSet(T), T, T)
      BY <1>3, <1>5, <1>6, DequeEmpty
    <2> QED
      BY <1>2, <1>7, <1>13, <2>1
  <1>16. Walk(ed, T)
    <2>1. At(T, 0) = 0
      BY <1>3, TextFacts
    <2> QED
      BY <1>2, <1>3, <1>6, <1>8, <1>12, <1>13, <2>1 DEF Walk
  <1>17. Sound(ed, T, T)
    <2>1. Held(ed, T, T)
      BY <1>12, <1>14, <1>15 DEF Held
    <2>2. ed.st.dot \in 0 .. Len(T) /\ SavedOK(ed.saved, T)
      BY <1>2, <1>8, <1>13 DEF SavedOK
    <2>3. ~ ed.global
      BY <1>9, <1>13
    <2> QED
      BY <1>16, <2>1, <2>2, <2>3 DEF Sound
  <1>18. StOK(ed.st) /\ op = Idle
    BY <1>8, <1>13 DEF StOK, Init
  <1>19. ~ ed.global /\ ed.saved = NoState /\ ed.st.dot = 0
    BY <1>8, <1>9, <1>13
  <1> QED
    BY <1>1, <1>17, <1>18, <1>19, IdleSafe DEF Busy

\* The buffer ed starts with is safe: no line, no queue, nothing marked.
LEMMA InitIInv == Init => IInv
  BY InitSafe DEF IInv, SomeSafe

\* Every command, and every step of one, leads to a safe buffer.
LEMMA StepIInv ==
  ASSUME NEW T, NEW T0, Safe(ed, op, T, T0), AbortIn \cap {"r", "E", "!"} = {}, Step
  PROVE  Leads(T, T0)
  <1>0. AbortIn \cap Reads = {}
    BY DEF Reads
  <1>1. ASSUME NEW x \in 0 .. lines,
               \/ a_cmd(x) \/ i_cmd(x) \/ semicolon(x)
               \/ \E b \in BOOLEAN : r_cmd(b, x)
               \/ \E m \in Mark : k_cmd(x, m)
        PROVE  Leads(T, T0)
    BY <1>1, a_cmd_Safe, i_cmd_Safe, semicolon_Safe, r_cmd_Safe, k_cmd_Safe
  <1>2. ASSUME NEW x \in 0 .. lines, NEW y \in 0 .. lines,
               \/ c_cmd(x, y) \/ d_cmd(x, y) \/ j_cmd(x, y) \/ s_cmd(x, y) \/ shell_cmd(x, y)
        PROVE  Leads(T, T0)
    BY <1>2, c_cmd_Safe, d_cmd_Safe, j_cmd_Safe, s_cmd_Safe, shell_cmd_Safe
  <1>3. ASSUME NEW x \in 0 .. lines, NEW y \in 0 .. lines, NEW z \in 0 .. lines,
               t_cmd(x, y, z) \/ m_cmd(x, y, z)
        PROVE  Leads(T, T0)
    BY <1>3, t_cmd_Safe, m_cmd_Safe
  <1>4. CASE append_lines \/ EndText
    BY <1>4, append_lines_Safe, EndText_Safe
  <1>5. CASE E_cmd \/ read_stream \/ EndStream
    BY <1>5, E_cmd_Safe, read_stream_Safe, EndStream_Safe
  <1>6. CASE PUT_BUFFER_LINE
    BY <1>0, <1>6, PUT_BUFFER_LINE_Safe
  <1>7. CASE copy_lines \/ copy_rest \/ EndCopy
    BY <1>7, copy_lines_Safe, copy_rest_Safe, EndCopy_Safe
  <1>8. ASSUME NEW n \in 0 .. MaxSubst, substitute_line(n)
        PROVE  Leads(T, T0)
    <2>1. n \in Nat
      BY BufferAssumption
    <2> QED
      BY <1>8, <2>1, substitute_line_Safe
  <1>9. CASE EndSubst \/ u_cmd
    BY <1>9, EndSubst_Safe, u_cmd_Safe
  <1>10. ASSUME NEW sel, global_cmd(sel)
         PROVE  Leads(T, T0)
    BY <1>10, global_cmd_Safe
  <1>11. CASE exec_global \/ EndList
    BY <1>11, exec_global_Safe, EndList_Safe
  <1>12. CASE Abort
    BY <1>0, <1>12, Abort_Safe
  <1> QED
    BY <1>1, <1>2, <1>3, <1>4, <1>5, <1>6, <1>7, <1>8, <1>9, <1>10, <1>11, <1>12 DEF Step

\* So the invariant is inductive.
LEMMA NextIInv ==
  ASSUME AbortIn \cap {"r", "E", "!"} = {}, IInv, [Next]_vars
  PROVE  IInv'
  <1>1. PICK T, T0 : Safe(ed, op, T, T0)
    BY DEF IInv, SomeSafe
  <1>2. CASE Step
    <2>1. Leads(T, T0)
      BY <1>1, <1>2, StepIInv
    <2> QED
      BY <2>1 DEF Leads, IInv, SomeSafe
  <1>3. CASE UNCHANGED vars
    <2>1. ed' = ed /\ op' = op
      BY <1>3 DEF vars
    <2> QED
      BY <2>1 DEF IInv
  <1> QED
    BY <1>2, <1>3 DEF Next

\* In every state reached there is a text T, linked as a ring, and a text T0
\* that the undo queue leads back to; every deleted line is owned by one undo
\* entry; the command in progress holds no pointer or address that an earlier
\* step has made stale.  It holds of every command of exec.c and every way it
\* can be cut short, but for a read that is interrupted after ed has deleted
\* lines: is_empty then says that a buffer with lines is `logically' empty.
THEOREM Invariant ==
  ASSUME AbortIn \cap {"r", "E", "!"} = {}
  PROVE  Spec => []IInv
  <1>1. IInv /\ [Next]_vars => IInv'
    BY NextIInv
  <1> QED
    BY <1>1, InitIInv, PTL DEF Spec

----------------------------------------------------------------------------
(* The theorems. *)

\* What Sound says of links, cached position and global commands.
LEMMA SafeDeque ==
  ASSUME NEW T, NEW T0, Sound(ed, T, T0)
  PROVE  DequeOK /\ CacheOK /\ GlobalLive
  <1>1. /\ Walk(ed, T) /\ IsText(T) /\ Ring(ed.forw, ed.back, T) /\ Len(T) \in Nat
        /\ ed.st.lines = Len(T) /\ ed.st.dot \in 0 .. Len(T) /\ ToSet(T) \subseteq ed.heap
        /\ ed.global => GbLive(ed.gb, T)
    BY SoundParts
  <1>2. Text = T
    BY <1>1, TextOfRing DEF Text
  <1>3. ASSUME NEW n \in {line_head} \cup ToSet(T) PROVE ed.back[ed.forw[n]] = n
    <2>1. \E x \in 0 .. Len(T) : n = At(T, x)
      <3>1. CASE n = line_head
        <4>1. At(T, 0) = n
          BY <1>1, <3>1, TextFacts DEF line_head
        <4> QED
          BY <1>1, <4>1
      <3>2. CASE n \in ToSet(T)
        <4>1. PICK x \in 1 .. Len(T) : n = T[x]
          BY <1>1, <3>2, OnText
        <4>2. At(T, x) = T[x] /\ x \in 0 .. Len(T)
          BY <1>1, <4>1, TextFacts
        <4> QED
          BY <4>1, <4>2
      <3> QED
        BY <3>1, <3>2
    <2> QED
      BY <1>1, <2>1 DEF Ring
  <1>4. DequeOK
    BY <1>1, <1>2, <1>3 DEF DequeOK, lines, dot
  <1>5. CacheOK
    <2>1. PICK k : k = ed.n_prev /\ k \in 0 .. Len(T) /\ ed.lp = At(T, k)
      BY <1>1 DEF Walk
    <2>2. 0 \in 0 .. Len(T) /\ k \in 0 .. Len(T) + 1 /\ k - 0 = k
      BY <1>1, <2>1
    <2>3. Follow(ed.forw, At(T, 0), k - 0) = At(T, k)
      BY <1>1, <2>2, FollowForw
    <2>4. At(T, 0) = line_head
      BY <1>1, TextFacts DEF line_head
    <2> QED
      BY <1>1, <2>1, <2>2, <2>3, <2>4 DEF CacheOK, lines
  <1>6. GlobalLive
    BY <1>1, <1>2 DEF GlobalLive, GbLive
  <1> QED
    BY <1>4, <1>5, <1>6

\* A line allocated is on the text or deleted by one entry of the queue.
LEMMA SafeHeap ==
  ASSUME NEW T, NEW T0, Sound(ed, T, T0)
  PROVE  HeapAccounted
  <1>1. /\ Deque(ed.undo, ed.forw, ed.back, ed.heap, T, T0) /\ IsText(T)
        /\ Ring(ed.forw, ed.back, T) /\ ed.heap \subseteq Node /\ ToSet(T) \subseteq ed.heap
    BY SoundParts
  <1>2. Text = T
    BY <1>1, TextOfRing DEF Text
  <1>3. PICK q, f, b, heap : q = ed.undo /\ f = ed.forw /\ b = ed.back /\ heap = ed.heap
    OBVIOUS
  <1>4. PICK text, kind, long, lo, hi :
          Steps(q, heap, text, kind, long, lo, hi) /\ Owned(q, f, b, heap, T, long, lo, hi)
    BY <1>1, <1>3 DEF Deque
  <1>5. q \in Seq(Entry) /\ DOMAIN q = 1 .. Len(q)
    BY <1>1, <1>3 DEF Deque
  <1>6. PICK del : del = {i \in DOMAIN ed.undo : Deleted(i)}
    OBVIOUS
  <1>7. del = Dels(q)
    BY <1>3, <1>5, <1>6 DEF Deleted, Dels
  <1>8. ASSUME NEW i \in del
        PROVE  /\ UndoLines(i) = Lines(long[i], lo[i], hi[i]) /\ UndoLines(i) \subseteq Link
    <2>1. PICK L, l, h : L = long[i] /\ l = lo[i] /\ h = hi[i]
      OBVIOUS
    <2>2. i \in Dels(q)
      BY <1>7
    <2>3. /\ IsText(long[i]) /\ lo[i] \in Nat /\ hi[i] \in Nat /\ lo[i] < hi[i] /\ hi[i] <= Len(long[i])
          /\ q[i].h = long[i][lo[i] + 1] /\ q[i].t = long[i][hi[i]]
      BY <1>4, <1>5, <2>2, DelsLine
    <2>4. Frozen(f, b, L, l, h)
      BY <1>4, <2>1, <2>2 DEF Owned
    <2>5. IsText(L) /\ l \in Nat /\ h \in Nat /\ l < h /\ h <= Len(L)
          /\ q[i].h = L[l + 1] /\ q[i].t = L[h]
      BY <2>1, <2>3
    <2>6. Len(L) \in Nat
      BY <2>5, TextFacts
    <2>7. l \in 0 .. Len(L) /\ h \in l + 1 .. Len(L)
      BY <2>5, <2>6
    <2>8. ToSet(Chain(f, L[l + 1], f[L[h]])) = Lines(L, l, h)
      BY <2>4, <2>5, <2>7, FrozenChain
    <2>9. UndoLines(i) = Lines(L, l, h)
      BY <1>3, <2>5, <2>8 DEF UndoLines
    <2>10. Lines(L, l, h) \subseteq Link
      BY <2>5, LinesIn
    <2> QED
      BY <2>1, <2>9, <2>10
  <1>9. /\ \A n \in Link : n \in heap <=> \/ n \in ToSet(T)
                                          \/ \E j \in del : n \in Lines(long[j], lo[j], hi[j])
        /\ \A j \in del : \A n \in Lines(long[j], lo[j], hi[j]) : n \notin ToSet(T)
        /\ \A i, j \in del :
             i # j => \A n \in Lines(long[i], lo[i], hi[i]) : n \notin Lines(long[j], lo[j], hi[j])
    BY <1>4, <1>7 DEF Owned
  <1>10. heap \subseteq Link /\ ToSet(T) \subseteq Link
    BY <1>1, <1>3 DEF Node, Link
  <1>11. ed.heap = ToSet(Text) \cup UNION {UndoLines(i) : i \in del}
    <2>1. \A n : n \in heap => n \in ToSet(T) \/ \E j \in del : n \in UndoLines(j)
      BY <1>8, <1>9, <1>10
    <2>2. \A n : n \in ToSet(T) => n \in heap
      BY <1>1, <1>3
    <2>3. ASSUME NEW j \in del, NEW n \in UndoLines(j) PROVE n \in heap
      BY <1>8, <1>9
    <2> QED
      BY <1>2, <1>3, <2>1, <2>2, <2>3
  <1>12. ASSUME NEW i \in del
         PROVE  /\ UndoLines(i) \cap ToSet(Text) = {}
                /\ \A j \in del \ {i} : UndoLines(i) \cap UndoLines(j) = {}
    BY <1>2, <1>8, <1>9
  <1> QED
    BY <1>6, <1>11, <1>12 DEF HeapAccounted

\* The nodes an undo entry refers to.
LEMMA MovesLive ==
  ASSUME NEW T, IsText(T), NEW T2, NEW u, NEW v, Moves(T, T2, u, v)
  PROVE  {u.h, u.t, v.h, v.t} \subseteq ToSet(T) \cup {0}
  <1>1. PICK i, j, k \in 0 .. Len(T) :
          \/ /\ u.h = At(T, i) /\ u.t = At(T, j + 1) /\ v.h = At(T, k) /\ v.t = At(T, k + 1)
          \/ /\ u.h = At(T, j) /\ u.t = At(T, k + 1) /\ v.h = At(T, i) /\ v.t = At(T, i + 1)
    BY DEF Moves
  <1>2. Len(T) \in Nat /\ \A x \in Int : At(T, x) \in ToSet(T) \cup {0}
    BY TextFacts, OnText
  <1>3. i \in Int /\ j \in Int /\ k \in Int /\ i + 1 \in Int /\ j + 1 \in Int /\ k + 1 \in Int
    BY <1>2
  <1> QED
    BY <1>1, <1>2, <1>3

\* Undo entries name line_head or lines that are allocated.
LEMMA EntriesLive ==
  ASSUME NEW q \in Seq(Entry), NEW heap, NEW text, NEW kind, NEW long, NEW lo, NEW hi,
         Steps(q, heap, text, kind, long, lo, hi), NEW j \in 1 .. Len(q)
  PROVE  {q[j].h, q[j].t} \subseteq {0} \cup heap
  <1>1. Len(q) \in Nat
    OBVIOUS
  <1>2. /\ \A x \in 0 .. Len(q) : IsText(text[x]) /\ ToSet(text[x]) \subseteq heap
        /\ \A x \in 1 .. Len(q) : StepOK(q, text, kind, long, lo, hi, x)
    BY DEF Steps
  <1>3. j - 1 \in 0 .. Len(q) /\ j \in 0 .. Len(q)
    BY <1>1
  <1>4. CASE kind[j] = "line"
    <2>1. PICK L, l, h : L = long[j] /\ l = lo[j] /\ h = hi[j]
      OBVIOUS
    <2>2. /\ IsText(L) /\ l \in Nat /\ h \in Nat /\ l < h /\ h <= Len(L)
          /\ q[j].h = L[l + 1] /\ q[j].t = L[h] /\ (text[j] = L \/ text[j - 1] = L)
      BY <1>2, <1>4, <2>1 DEF StepOK
    <2>3. ToSet(L) \subseteq heap
      BY <1>2, <1>3, <2>2
    <2>4. Len(L) \in Nat
      BY <2>2, TextFacts
    <2>5. l + 1 \in 1 .. Len(L) /\ h \in 1 .. Len(L)
      BY <2>2, <2>4
    <2>6. L[l + 1] \in ToSet(L) /\ L[h] \in ToSet(L)
      BY <2>2, <2>5, OnText
    <2> QED
      BY <2>2, <2>3, <2>6
  <1>5. CASE kind[j] = "from"
    <2>1. Moves(text[j - 1], text[j + 1], q[j], q[j + 1])
      BY <1>2, <1>5 DEF StepOK
    <2>2. {q[j].h, q[j].t} \subseteq ToSet(text[j - 1]) \cup {0}
      BY <1>2, <1>3, <2>1, MovesLive
    <2> QED
      BY <1>2, <1>3, <2>2
  <1>6. CASE kind[j] = "to"
    <2>1. PICK i : i = j - 1
      OBVIOUS
    <2>2. j > 1 /\ kind[i] = "from"
      BY <1>2, <1>6, <2>1 DEF StepOK
    <2>3. i \in 1 .. Len(q) /\ i + 1 = j /\ i - 1 \in 0 .. Len(q)
      BY <1>1, <2>1, <2>2
    <2>4. StepOK(q, text, kind, long, lo, hi, i)
      BY <1>2, <2>3
    <2>5. Moves(text[i - 1], text[i + 1], q[i], q[i + 1])
      BY <2>2, <2>4 DEF StepOK
    <2>6. {q[j].h, q[j].t} \subseteq ToSet(text[i - 1]) \cup {0}
      BY <1>2, <2>3, <2>5, MovesLive
    <2> QED
      BY <1>2, <2>3, <2>6
  <1>7. kind[j] \in {"line", "from", "to"}
    BY <1>2 DEF StepOK
  <1> QED
    BY <1>4, <1>5, <1>6, <1>7

\* Neither does anything else name a line that has been freed.
LEMMA SafePointers ==
  ASSUME NEW T, NEW T0, Safe(ed, op, T, T0)
  PROVE  NoDangling
  <1>1. Sound(ed, T, T0) /\ OpOK(op, ed, T)
    BY DEF Safe
  <1>2. /\ Deque(ed.undo, ed.forw, ed.back, ed.heap, T, T0) /\ IsText(T) /\ MarksOK(ed)
        /\ ToSet(T) \subseteq ed.heap /\ ed.undo \in Seq(Entry) /\ ed.st.dot \in 0 .. Len(T)
        /\ Len(T) \in Nat
    BY <1>1, SoundParts
  <1>3. PICK live : live = {line_head} \cup ed.heap
    OBVIOUS
  <1>4. ASSUME NEW m \in Mark PROVE ed.mark[m] \in live \cup {Nil}
    BY <1>2, <1>3 DEF MarksOK, line_head
  <1>5. ASSUME NEW i \in DOMAIN ed.undo PROVE {ed.undo[i].h, ed.undo[i].t} \subseteq live
    <2>1. PICK text, kind, long, lo, hi : Steps(ed.undo, ed.heap, text, kind, long, lo, hi)
      BY <1>2 DEF Deque
    <2>2. i \in 1 .. Len(ed.undo)
      BY <1>2
    <2> QED
      BY <1>2, <1>3, <2>1, <2>2, EntriesLive DEF line_head
  <1>6. ASSUME op # Idle, op.pc \in {"read", "copy"} PROVE op.lp \in live
    <2>1. CASE op.pc = "read"
      <3>1. op.lp = At(T, ed.st.dot)
        BY <1>1, <1>6, <2>1, ByPlace DEF ReadOp
      <3>2. ed.st.dot \in Int
        BY <1>2
      <3>3. At(T, ed.st.dot) \in ToSet(T) \cup {0}
        BY <1>2, <3>2, OnText
      <3> QED
        BY <1>2, <1>3, <3>1, <3>3 DEF line_head
    <2>2. CASE op.pc = "copy"
      <3>1. op.lp \in ToSet(T) \cup {0}
        BY <1>1, <1>6, <2>2, ByPlace DEF CopyOp
      <3> QED
        BY <1>2, <1>3, <3>1 DEF line_head
    <2> QED
      BY <1>6, <2>1, <2>2
  <1> QED
    BY <1>3, <1>4, <1>5, <1>6 DEF NoDangling

\* What the run checks follows from the invariant.
LEMMA IInvImplies == IInv => DequeOK /\ CacheOK /\ HeapAccounted /\ NoDangling /\ GlobalLive
  BY SafeDeque, SafeHeap, SafePointers DEF IInv, SomeSafe, Safe

\* However lines are added, deleted, moved, copied, joined, replaced and undone,
\* and wherever a command fails, the links of the deque and their mirror image
\* agree, go once round line_head, and lines counts them (DequeOK).
THEOREM DequeCorrect ==
  ASSUME AbortIn \cap {"r", "E", "!"} = {}
  PROVE  Spec => []DequeOK
  BY Invariant, IInvImplies, PTL

\* get_line_node () keeps a line and its address from call to call: whatever
\* has been linked or unlinked in between, that line has that address (CacheOK).
THEOREM CacheCorrect ==
  ASSUME AbortIn \cap {"r", "E", "!"} = {}
  PROVE  Spec => []CacheOK
  BY Invariant, IInvImplies, PTL

\* No line is leaked and none is freed while it is in use: every line allocated
\* is on the deque or held by one deleting undo entry, and neither by both nor
\* by two of them (HeapAccounted).
THEOREM HeapCorrect ==
  ASSUME AbortIn \cap {"r", "E", "!"} = {}
  PROVE  Spec => []HeapAccounted
  BY Invariant, IInvImplies, PTL

\* No mark, no undo entry and no local variable of a command in progress points
\* to a line that has been freed (NoDangling).
THEOREM NothingDangles ==
  ASSUME AbortIn \cap {"r", "E", "!"} = {}
  PROVE  Spec => []NoDangling
  BY Invariant, IInvImplies, PTL

\* A global command only visits lines that are on the deque: a line its command
\* list deletes or replaces is cleared from the list of lines yet to be
\* visited, wherever it is in it (GlobalLive).
THEOREM GlobalLinesLive ==
  ASSUME AbortIn \cap {"r", "E", "!"} = {}
  PROVE  Spec => []GlobalLive
  BY Invariant, IInvImplies, PTL

----------------------------------------------------------------------------
(* What the view of a safe state is. *)

OldOf(e, T0) == IF e.saved = NoState THEN <<>> ELSE [text |-> T0, dot |-> e.saved.dot]
Views(v, e, o, T, T0) ==
  v.text = T /\ v.dot = e.st.dot /\ v.old = OldOf(e, T0) /\ v.busy = Busy(e, o)

\* The view of a safe state is its two texts: undoing the whole queue, on a copy
\* of the links, gives T0.
LEMMA SafeView ==
  ASSUME NEW e, NEW o, NEW T, NEW T0, Safe(e, o, T, T0)
  PROVE  Views(ViewOf(e, o), e, o, T, T0)
  <1>1. /\ Deque(e.undo, e.forw, e.back, e.heap, T, T0) /\ IsText(T) /\ Ring(e.forw, e.back, T)
    BY SoundParts DEF Safe
  <1>2. TextOf(e.forw) = T
    BY <1>1, TextOfRing
  <1>3. PICK u : u = undo_links(e)
    OBVIOUS
  <1>4. PICK q, f, b : q = Reverse(u.undo) /\ f = u.forw /\ b = u.back
    OBVIOUS
  <1>5. Deque(q, f, b, e.heap, T0, T)
    BY <1>1, <1>3, <1>4, UndoDeque
  <1>6. IsText(T0) /\ Ring(f, b, T0)
    BY <1>5, DequeParts
  <1>7. TextOf(f) = T0
    BY <1>6, TextOfRing
  <1> QED
    BY <1>2, <1>3, <1>4, <1>7 DEF ViewOf, Views, OldOf, Busy

\* Texts with the same first i lines.
LEMMA PrefixIs ==
  ASSUME NEW T, IsText(T), NEW T2, IsText(T2), NEW i \in Nat, i <= Len(T), i <= Len(T2),
         \A x \in 1 .. i : T2[x] = T[x]
  PROVE  SubSeq(T2, 1, i) = SubSeq(T, 1, i)
  BY TextFacts

SameFrom(T, j, T2, i) ==
  Len(T2) - i = Len(T) - j /\ \A x \in 1 .. Len(T) - j : T2[i + x] = T[j + x]

\* Texts with the same lines from i+1 and j+1 on.
LEMMA SuffixIs ==
  ASSUME NEW T, IsText(T), NEW T2, IsText(T2), NEW i \in Nat, NEW j \in Nat, j <= Len(T),
         SameFrom(T, j, T2, i)
  PROVE  SubSeq(T2, i + 1, Len(T2)) = SubSeq(T, j + 1, Len(T))
  <1>1. T \in Seq(Node) /\ T2 \in Seq(Node) /\ Len(T) \in Nat /\ Len(T2) \in Nat
    BY TextFacts
  <1>2. PICK m : m = Len(T) - j
    OBVIOUS
  <1>9. m \in Nat /\ Len(T2) - i = m /\ \A x \in 1 .. m : T2[i + x] = T[j + x]
    BY <1>1, <1>2 DEF SameFrom
  <1>3. PICK r, s : r = SubSeq(T2, i + 1, Len(T2)) /\ s = SubSeq(T, j + 1, Len(T))
    OBVIOUS
  <1>4. Len(T2) = i + m /\ Len(T) = j + m
    BY <1>1, <1>2, <1>9
  <1>5. /\ r \in Seq(Node) /\ Len(r) = m /\ \A x \in 1 .. m : r[x] = T2[i + x]
    BY <1>1, <1>3, <1>4, <1>9
  <1>6. /\ s \in Seq(Node) /\ Len(s) = m /\ \A x \in 1 .. m : s[x] = T[j + x]
    BY <1>1, <1>3, <1>4, <1>9
  <1>7. \A x \in 1 .. m : r[x] = s[x]
    BY <1>5, <1>6, <1>9
  <1>8. r = s
    BY <1>5, <1>6, <1>7, SeqEqual
  <1> QED
    BY <1>3, <1>8

\* Lines replaced by new ones are what LineEditor calls Replaced.
LEMMA RewriteReplaces ==
  ASSUME NEW T, IsText(T), NEW T2, IsText(T2), NEW kept, NEW i, NEW j, NEW n, NEW H,
         RewrittenAt(T, T2, i, j, n, H), ToSet(T) \cup ToSet(kept) \subseteq H
  PROVE  Editor!Replaced(T, T2, kept)
  <1>1. Len(T) \in Nat /\ Len(T2) \in Nat
    BY TextFacts
  <1>2. /\ i \in Nat /\ j \in Nat /\ n \in Nat /\ i <= j /\ j <= Len(T)
        /\ Len(T2) = Len(T) - (j - i) + n
        /\ \A x \in 1 .. i : T2[x] = T[x]
        /\ \A x \in i + 1 .. i + n : T2[x] \notin H
        /\ \A x \in 1 .. Len(T) - j : T2[i + n + x] = T[j + x]
    BY DEF RewrittenAt
  <1>3. PICK m : m = Len(T2) - (Len(T) - (j - i))
    OBVIOUS
  <1>4. m = n /\ m >= 0 /\ i \in 0 .. Len(T) /\ j \in i .. Len(T)
    BY <1>1, <1>2, <1>3
  <1>5. SubSeq(T2, 1, i) = SubSeq(T, 1, i)
    <2>1. i <= Len(T) /\ i <= Len(T2)
      BY <1>1, <1>2
    <2> QED
      BY <1>2, <2>1, PrefixIs
  <1>6. SubSeq(T2, i + m + 1, Len(T2)) = SubSeq(T, j + 1, Len(T))
    <2>1. PICK k \in Nat : k = i + m
      BY <1>2, <1>4
    <2>2. k = i + n
      BY <1>4, <2>1
    <2>4. SameFrom(T, j, T2, k)
      BY <1>1, <1>2, <2>2 DEF SameFrom
    <2>5. j \in Nat /\ j <= Len(T)
      BY <1>2
    <2>3. SubSeq(T2, k + 1, Len(T2)) = SubSeq(T, j + 1, Len(T))
      BY <2>4, <2>5, SuffixIs
    <2> QED
      BY <2>1, <2>3
  <1>7. \A x \in i + 1 .. i + m : T2[x] \notin Editor!ToSet(T) \cup Editor!ToSet(kept)
    <2>1. Editor!ToSet(T) = ToSet(T) /\ Editor!ToSet(kept) = ToSet(kept)
      BY DEF Editor!ToSet, ToSet
    <2> QED
      BY <1>2, <1>4, <2>1
  <1> QED
    BY <1>3, <1>4, <1>5, <1>6, <1>7 DEF Editor!Replaced

----------------------------------------------------------------------------
(* A step of the buffer is one of the abstract editor. *)

\* A range of a text, by its length.
LEMMA Piece ==
  ASSUME NEW T, T \in Seq(Node), NEW m \in Nat, NEW n \in Nat, m <= n, n <= Len(T)
  PROVE  /\ SubSeq(T, m + 1, n) \in Seq(Node) /\ Len(SubSeq(T, m + 1, n)) = n - m
         /\ \A x \in 1 .. n - m : SubSeq(T, m + 1, n)[x] = T[m + x]
  <1>1. Len(T) \in Nat /\ \A x \in 1 .. Len(T) : T[x] \in Node
    OBVIOUS
  <1>2. PICK s : s = SubSeq(T, m + 1, n)
    OBVIOUS
  <1>4. \A x \in m + 1 .. n : T[x] \in Node
    BY <1>1
  <1>5. s \in Seq(Node)
    BY <1>2, <1>4, SubSeqProperties
  <1>6. Len(s) = n - m
    <2>1. Len(s) = IF m + 1 <= n THEN n - (m + 1) + 1 ELSE 0
      BY <1>2, <1>4, SubSeqProperties
    <2> QED
      BY <2>1
  <1>7. \A x \in 1 .. n - m : s[x] = T[m + x]
    <2>1. \A x \in 1 .. n - (m + 1) + 1 : s[x] = T[m + 1 + x - 1]
      BY <1>2, <1>4, SubSeqProperties
    <2> QED
      BY <2>1
  <1>3. s \in Seq(Node) /\ Len(s) = n - m /\ \A x \in 1 .. n - m : s[x] = T[m + x]
    BY <1>5, <1>6, <1>7
  <1> QED
    BY <1>2, <1>3

\* Sequences joined, by their lengths.
Join(s, r, t, a, b) ==
  /\ t \in Seq(Node) /\ Len(t) = a + b
  /\ \A x \in 1 .. a + b : t[x] = IF x <= a THEN s[x] ELSE r[x - a]

\* The values of two sequences joined.
LEMMA Joined ==
  ASSUME NEW s, s \in Seq(Node), NEW r, r \in Seq(Node), NEW a \in Nat, NEW b \in Nat,
         Len(s) = a, Len(r) = b
  PROVE  Join(s, r, s \o r, a, b)
  <1>1. PICK t : t = s \o r
    OBVIOUS
  <1>2. t \in Seq(Node) /\ Len(t) = a + b
    BY <1>1, ConcatProperties
  <1>3. \A x \in 1 .. a + b : t[x] = IF x <= a THEN s[x] ELSE r[x - a]
    BY <1>1, ConcatProperties
  <1> QED
    BY <1>1, <1>2, <1>3 DEF Join

\* Two neighbouring ranges exchanged are what LineEditor calls Moved.
LEMMA SwapMoves ==
  ASSUME NEW T, IsText(T), NEW i \in Nat, NEW j \in Nat, NEW k \in Nat,
         i < j, j < k, k <= Len(T)
  PROVE  Editor!Moved(T, Swap(T, i, j, k))
  <1>1. T \in Seq(Node) /\ Len(T) \in Nat
    BY TextFacts
  <1>2. PICK l \in Nat : l = Len(T)
    BY <1>1
  <1>3. PICK p, q \in Nat : p = j - i /\ q = k - j
    OBVIOUS
  <1>4. PICK A, B, C, D : /\ A = SubSeq(T, 1, i) /\ B = SubSeq(T, j + 1, k)
                          /\ C = SubSeq(T, i + 1, j) /\ D = SubSeq(T, k + 1, Len(T))
    OBVIOUS
  <1>5. A \in Seq(Node) /\ Len(A) = i /\ \A x \in 1 .. i : A[x] = T[x]
    <2>1. i <= Len(T)
      BY <1>1
    <2>2. A = SubSeq(T, 0 + 1, i)
      BY <1>4
    <2>3. A \in Seq(Node) /\ Len(A) = i - 0 /\ \A x \in 1 .. i - 0 : A[x] = T[0 + x]
      BY <1>1, <2>1, <2>2, Piece
    <2> QED
      BY <2>3
  <1>6. B \in Seq(Node) /\ Len(B) = q /\ \A x \in 1 .. q : B[x] = T[j + x]
    BY <1>1, <1>3, <1>4, Piece
  <1>7. C \in Seq(Node) /\ Len(C) = p /\ \A x \in 1 .. p : C[x] = T[i + x]
    <2>1. j <= Len(T)
      BY <1>1
    <2> QED
      BY <1>1, <1>3, <1>4, <2>1, Piece
  <1>8. D \in Seq(Node) /\ Len(D) = l - k /\ \A x \in 1 .. l - k : D[x] = T[k + x]
    BY <1>1, <1>2, <1>4, Piece
  <1>9. PICK AB, ABC, S : AB = A \o B /\ ABC = AB \o C /\ S = ABC \o D
    OBVIOUS
  <1>20. i + q \in Nat /\ i + q + p \in Nat /\ l - k \in Nat
    BY <1>2, <1>3
  <1>10. /\ AB \in Seq(Node) /\ Len(AB) = i + q
         /\ \A x \in 1 .. i + q : AB[x] = IF x <= i THEN A[x] ELSE B[x - i]
    <2>1. Join(A, B, AB, i, q)
      BY <1>5, <1>6, <1>9, Joined
    <2> QED
      BY <2>1 DEF Join
  <1>11. /\ ABC \in Seq(Node) /\ Len(ABC) = i + q + p
         /\ \A x \in 1 .. i + q + p : ABC[x] = IF x <= i + q THEN AB[x] ELSE C[x - (i + q)]
    <2>1. Join(AB, C, ABC, i + q, p)
      BY <1>7, <1>9, <1>10, <1>20, Joined
    <2> QED
      BY <2>1 DEF Join
  <1>12. i + q + p = k /\ k + (l - k) = l
    BY <1>2, <1>3
  <1>13. /\ S \in Seq(Node) /\ Len(S) = l
         /\ \A x \in 1 .. l : S[x] = IF x <= k THEN ABC[x] ELSE D[x - k]
    <2>0. Len(ABC) = k
      BY <1>11, <1>12
    <2>1. Join(ABC, D, S, k, l - k)
      BY <1>8, <1>9, <1>11, <1>20, <2>0, Joined
    <2> QED
      BY <1>12, <2>1 DEF Join
  <1>14. PICK W : W = Swap(T, i, j, k)
    OBVIOUS
  <1>15. W \in Seq(Node) /\ Len(W) = l
    BY <1>2, <1>14, SwapText, TextFacts
  <1>16. ASSUME NEW x \in 1 .. l PROVE S[x] = W[x]
    <2>1. W[x] = IF x <= i \/ x > k THEN T[x]
                 ELSE IF x <= i + q THEN T[x + p] ELSE T[x - q]
      BY <1>2, <1>3, <1>14 DEF Swap
    <2>2. CASE x <= i
      <3>1. x <= k /\ x <= i + q /\ x \in 1 .. i + q + p /\ x \in 1 .. i + q /\ x \in 1 .. i
        BY <1>3, <2>2
      <3> QED
        BY <1>5, <1>10, <1>11, <1>13, <2>1, <2>2, <3>1
    <2>3. CASE ~ (x <= i) /\ x <= i + q
      <3>1. x <= k /\ ~ (x > k) /\ x \in 1 .. i + q + p /\ x \in 1 .. i + q
            /\ x - i \in 1 .. q /\ j + (x - i) = x + p
        BY <1>3, <2>3
      <3>2. S[x] = B[x - i]
        BY <1>10, <1>11, <1>13, <2>3, <3>1
      <3> QED
        BY <1>6, <2>1, <2>3, <3>1, <3>2
    <2>4. CASE ~ (x <= i + q) /\ x <= k
      <3>1. ~ (x <= i) /\ ~ (x > k) /\ x \in 1 .. i + q + p
            /\ x - (i + q) \in 1 .. p /\ i + (x - (i + q)) = x - q
        BY <1>3, <1>12, <2>4
      <3>2. S[x] = C[x - (i + q)]
        BY <1>11, <1>13, <2>4, <3>1
      <3> QED
        BY <1>7, <2>1, <2>4, <3>1, <3>2
    <2>5. CASE x > k
      <3>1. ~ (x <= k) /\ x - k \in 1 .. l - k /\ k + (x - k) = x
        BY <2>5
      <3> QED
        BY <1>8, <1>13, <2>1, <2>5, <3>1
    <2> QED
      BY <2>2, <2>3, <2>4, <2>5
  <1>17. S = W
    BY <1>13, <1>15, <1>16, SeqEqual
  <1>18. i \in 0 .. Len(T) /\ j \in i .. Len(T) /\ k \in j .. Len(T)
    BY <1>1
  <1> QED
    BY <1>4, <1>9, <1>14, <1>17, <1>18 DEF Editor!Moved

\* Every change is one of the two.
LEMMA ChangedIs ==
  ASSUME NEW T, IsText(T), NEW T2, IsText(T2), NEW kept, NEW H, Changed(T, T2, H),
         ToSet(T) \cup ToSet(kept) \subseteq H
  PROVE  Editor!Replaced(T, T2, kept) \/ Editor!Moved(T, T2)
  <1>1. CASE \E i, j, n : RewrittenAt(T, T2, i, j, n, H)
    BY <1>1, RewriteReplaces
  <1>2. CASE T2 = T
    <2>1. 0 \in 0 .. Len(T)
      BY TextFacts
    <2>2. RewrittenAt(T, T2, 0, 0, 0, H)
      BY <1>2, <2>1, RewriteNone
    <2> QED
      BY <2>2, RewriteReplaces
  <1>3. CASE \E i, j, k \in Nat : i < j /\ j < k /\ k <= Len(T) /\ T2 = Swap(T, i, j, k)
    BY <1>3, SwapMoves
  <1> QED
    BY <1>1, <1>2, <1>3 DEF Changed, Reordered

----------------------------------------------------------------------------
\* A snapshot is not None.
LEMMA SnapshotIs ==
  ASSUME NEW x, NEW y
  PROVE  [text |-> x, dot |-> y] # <<>>
  <1>1. PICK r, s : r = [text |-> x, dot |-> y] /\ s = <<>>
    OBVIOUS
  <1>2. "text" \in DOMAIN r
    BY <1>1
  <1>3. DOMAIN s = {}
    BY <1>1
  <1> QED
    BY <1>1, <1>2, <1>3

\* What a step makes of the two texts decides which action of LineEditor it is.
LEMMA StepView ==
  ASSUME NEW T, NEW T0, NEW T2, NEW T02, Safe(ed, op, T, T0), Safe(ed', op', T2, T02),
         Edits(T, T0, T2, T02), view = ViewOf(ed, op), view' = ViewOf(ed', op')
  PROVE  Editor!Next
  <1>1. Views(view, ed, op, T, T0) /\ Views(view', ed', op', T2, T02)
    BY SafeView
  <1>2. /\ IsText(T) /\ ed.st.dot \in 0 .. Len(T) /\ SavedOK(ed.saved, T0) /\ Len(T) \in Nat
    BY SoundParts DEF Safe
  <1>3. /\ IsText(T2) /\ ed'.st.dot \in 0 .. Len(T2) /\ SavedOK(ed'.saved, T02) /\ Len(T2) \in Nat
        /\ ed'.global \in BOOLEAN
    BY SoundParts DEF Safe
  <1>4. /\ view.text = T /\ view.dot = ed.st.dot /\ view.old = OldOf(ed, T0)
        /\ view.busy = Busy(ed, op)
    BY <1>1 DEF Views
  <1>5. /\ view'.text = T2 /\ view'.dot = ed'.st.dot /\ view'.old = OldOf(ed', T02)
        /\ view'.busy = Busy(ed', op')
    BY <1>1 DEF Views
  <1>6. T2 \in Seq(Node) /\ view'.busy \in BOOLEAN /\ view.busy \in BOOLEAN
    BY <1>2, <1>3, <1>4, <1>5 DEF IsText, Busy
  <1>7. ed.st # NoState
    BY <1>2 DEF NoState
  <1>8. CASE Starts(T, T2, T02)
    <2>1. /\ ~ Busy(ed, op) /\ T02 = T /\ ed'.saved = ed.st /\ Changed(T, T2, ToSet(T))
      BY <1>8 DEF Starts
    <2>2. view'.old = [text |-> T, dot |-> ed.st.dot] /\ view'.old # <<>> /\ view'.old.text = T
      BY <1>5, <1>7, <2>1, SnapshotIs DEF OldOf
    <2>3. Editor!OldText(view'.old) = T
      BY <2>2 DEF Editor!OldText, Editor!None
    <2>4. Editor!Replaced(T, T2, T) \/ Editor!Moved(T, T2)
      BY <1>2, <1>3, <2>1, ChangedIs
    <2>5. Editor!Change
      BY <1>3, <1>4, <1>5, <1>6, <2>3, <2>4 DEF Editor!Change
    <2>6. Editor!Command
      BY <1>4, <1>6, <2>1, <2>2, <2>5 DEF Editor!Command, Editor!Snapshot
    <2> QED
      BY <2>6 DEF Editor!Next
  <1>9. CASE Goes(T, T0, T2, T02)
    <2>1. /\ Busy(ed, op) /\ T02 = T0 /\ ed'.saved = ed.saved
          /\ Changed(T, T2, ToSet(T) \cup ToSet(T0))
      BY <1>9 DEF Goes
    <2>2. view'.old = view.old
      BY <1>4, <1>5, <2>1 DEF OldOf
    <2>3. PICK kept : kept = Editor!OldText(view'.old)
      OBVIOUS
    <2>4. kept = <<>> \/ kept = T0
      <3>1. CASE ed.saved = NoState
        <4>1. view'.old = <<>>
          BY <1>4, <2>2, <3>1 DEF OldOf
        <4> QED
          BY <2>3, <4>1 DEF Editor!OldText, Editor!None
      <3>2. CASE ed.saved # NoState
        <4>1. view'.old = [text |-> T0, dot |-> ed.saved.dot] /\ view'.old # <<>>
          BY <1>4, <2>2, <3>2, SnapshotIs DEF OldOf
        <4>2. view'.old.text = T0
          BY <4>1
        <4> QED
          BY <2>3, <4>1, <4>2 DEF Editor!OldText, Editor!None
      <3> QED
        BY <3>1, <3>2
    <2>5. ToSet(kept) \subseteq ToSet(T0)
      <3>1. ToSet(<<>>) = {}
        BY DEF ToSet
      <3> QED
        BY <2>4, <3>1
    <2>6. Editor!Replaced(T, T2, kept) \/ Editor!Moved(T, T2)
      <3>1. ToSet(T) \cup ToSet(kept) \subseteq ToSet(T) \cup ToSet(T0)
        BY <2>5
      <3> QED
        BY <1>2, <1>3, <2>1, <3>1, ChangedIs
    <2>7. Editor!Change
      BY <1>3, <1>4, <1>5, <1>6, <2>3, <2>6 DEF Editor!Change
    <2>8. Editor!Continue
      BY <1>4, <1>6, <2>1, <2>2, <2>7 DEF Editor!Continue
    <2> QED
      BY <2>8 DEF Editor!Next
  <1>10. CASE Points(T, T0, T2, T02)
    <2>1. T2 = T /\ T02 = T0 /\ ed'.saved = ed.saved /\ (Busy(ed, op) <=> Busy(ed', op'))
      BY <1>10 DEF Points
    <2>2. view'.old = view.old /\ view'.text = view.text
      BY <1>4, <1>5, <2>1 DEF OldOf
    <2>3. view'.busy = view.busy
      BY <1>4, <1>5, <1>6, <2>1
    <2>4. Editor!MoveDot
      BY <1>3, <1>4, <1>5, <2>1, <2>2, <2>3 DEF Editor!MoveDot
    <2> QED
      BY <2>4 DEF Editor!Next
  <1>11. CASE Undoes(T, T0, T2, T02)
    <2>1. /\ T2 = T0 /\ T02 = T /\ ed.saved # NoState /\ ed'.saved = ed.st /\ ed'.st = ed.saved
          /\ (Busy(ed, op) <=> Busy(ed', op'))
      BY <1>11 DEF Undoes
    <2>2. view'.busy = view.busy
      BY <1>4, <1>5, <1>6, <2>1
    <2>3. view.old = [text |-> T0, dot |-> ed.saved.dot] /\ view.old # <<>>
      BY <1>4, <2>1, SnapshotIs DEF OldOf
    <2>4. view.old.text = T0 /\ view.old.dot = ed.saved.dot
      BY <2>3
    <2>5. view'.old = [text |-> T, dot |-> ed.st.dot]
      BY <1>5, <1>7, <2>1 DEF OldOf
    <2>6. view'.text = T0 /\ view'.dot = ed.saved.dot
      BY <1>5, <2>1
    <2>7. Editor!Undo
      BY <1>4, <2>2, <2>3, <2>4, <2>5, <2>6 DEF Editor!Undo, Editor!Snapshot, Editor!None
    <2> QED
      BY <2>7 DEF Editor!Next
  <1>12. CASE Loads(T2)
    <2>1. Len(T2) = 0 /\ ed'.saved = NoState /\ ed'.st.dot = 0 /\ Busy(ed', op')
      BY <1>12 DEF Loads
    <2>2. T2 = <<>>
      BY <1>6, <2>1, EmptySeq
    <2>3. view'.old = <<>> /\ view'.text = <<>> /\ view'.dot = 0
      BY <1>5, <2>1, <2>2 DEF OldOf
    <2>4. view'.busy = TRUE
      BY <1>5, <2>1
    <2>5. Editor!Load
      BY <2>3, <2>4 DEF Editor!Load, Editor!None
    <2> QED
      BY <2>5 DEF Editor!Next
  <1> QED
    BY <1>8, <1>9, <1>10, <1>11, <1>12 DEF Edits

----------------------------------------------------------------------------
(* The buffer implements the abstract editor. *)

\* The sound buffer, and the view that follows it.
VInv == IInv /\ view = ViewOf(ed, op)

\* The first state is a first state of LineEditor.
LEMMA ViewInitImplements ==
  ASSUME ViewInit
  PROVE  VInv /\ Editor!Init
  <1>1. Init /\ view = ViewOf(ed, op)
    BY DEF ViewInit
  <1>2. Safe(ed, op, <<>>, <<>>) /\ ~ Busy(ed, op) /\ ed.saved = NoState /\ ed.st.dot = 0
    BY <1>1, InitSafe
  <1>4. Views(view, ed, op, <<>>, <<>>)
    BY <1>1, <1>2, SafeView
  <1>5. view.text = <<>> /\ view.dot = 0 /\ view.old = <<>> /\ view.busy = FALSE
    BY <1>2, <1>4 DEF Views, OldOf
  <1> QED
    BY <1>1, <1>5, InitIInv DEF VInv, Editor!Init, Editor!None

\* Every step is a step of LineEditor or leaves all of it alone.
LEMMA ViewNextImplements ==
  ASSUME AbortIn \cap {"r", "E", "!"} = {}, VInv, [ViewNext]_<<vars, view>>
  PROVE  VInv' /\ [Editor!Next]_(Editor!vars)
  <1>1. IInv /\ view = ViewOf(ed, op)
    BY DEF VInv
  <1>2. CASE ViewNext
    <2>1. Next /\ view' = ViewOf(ed', op')
      BY <1>2 DEF ViewNext
    <2>2. Step
      BY <2>1 DEF Next
    <2>3. PICK T, T0 : Safe(ed, op, T, T0)
      BY <1>1 DEF IInv, SomeSafe
    <2>4. Leads(T, T0)
      BY <2>2, <2>3, StepIInv
    <2>5. PICK T2, T02 : Safe(ed', op', T2, T02) /\ Edits(T, T0, T2, T02)
      BY <2>4 DEF Leads
    <2>6. Editor!Next
      BY <1>1, <2>1, <2>3, <2>5, StepView
    <2>7. IInv'
      BY <2>5 DEF IInv, SomeSafe
    <2> QED
      BY <2>1, <2>6, <2>7 DEF VInv
  <1>3. CASE UNCHANGED <<vars, view>>
    <2>1. ed' = ed /\ op' = op /\ view' = view
      BY <1>3 DEF vars
    <2>2. UNCHANGED Editor!vars
      BY <2>1 DEF Editor!vars
    <2>3. VInv'
      BY <1>1, <2>1 DEF VInv, IInv
    <2> QED
      BY <2>2, <2>3
  <1> QED
    BY <1>2, <1>3

\* The buffer is a sequence of lines with one-level undo (ImplementsEditor):
\* every command replaces a range of lines by new ones or moves a range, in one
\* critical section or in many; `u' gives back the lines and the dot there were
\* before the whole command, and the next `u' those there were before it.
THEOREM EditorImplemented ==
  ASSUME AbortIn \cap {"r", "E", "!"} = {}
  PROVE  ViewSpec => ImplementsEditor
  <1>1. ViewInit => VInv /\ Editor!Init
    BY ViewInitImplements
  <1>2. VInv /\ [ViewNext]_<<vars, view>> => VInv' /\ [Editor!Next]_(Editor!vars)
    BY ViewNextImplements
  <1> QED
    BY <1>1, <1>2, PTL DEF ViewSpec, ImplementsEditor, Editor!Spec

============================================================================
