------------------------- MODULE LineBuffer_lemmas -------------------------
(***************************************************************************)
(* Lemmas about the routines of LineDeque, for any number of nodes and     *)
(* marks: what LineBuffer_proofs needs to know of them.                    *)
(*                                                                         *)
(* The state is compared with a text, the sequence T of the nodes of the   *)
(* lines. Ring says that forw and back link T into a ring around           *)
(* line_head. The undo queue is more than a list of entries: Deque (q, f,  *)
(* b, heap, T, T0) says that there are texts, one for each entry and the   *)
(* one there was before, the first of them T0 and the last T, and that     *)
(* each entry tells how the next text comes from the one before it: lines  *)
(* lo+1 to hi of it, the range `long' they are a range of, were added or   *)
(* deleted, or two neighbouring ranges were exchanged (a move, of two      *)
(* entries). A deleting entry owns the lines of its range: they are        *)
(* allocated, no other entry owns them, they are not on T, and their own   *)
(* links are those they had in `long', which is why undo_links () can put  *)
(* them back by two assignments.                                           *)
(***************************************************************************)
EXTENDS LineBuffer, TLAPS, SequenceTheorems, WellFoundedInduction, FiniteSetTheorems

USE DequeAssumption

----------------------------------------------------------------------------
(* Texts: the nodes of the lines in their order. *)

Link == 0 .. MaxNode      \* the nodes and line_head

\* A sequence of different lines, and the line at a place of it: before the
\* first and after the last there is line_head.
IsText(T) ==
  /\ T \in Seq(Node)
  /\ \A x, y \in 1 .. Len(T) : T[x] = T[y] => x = y

At(T, x) == IF x \in 1 .. Len(T) THEN T[x] ELSE line_head

\* The lines i+1 to j of a text.
Lines(T, i, j) == {T[x] : x \in i + 1 .. j}

\* The text without these lines, with the node n after line a, and with the
\* lines i+1 to j and j+1 to k exchanged.
Cut(T, i, j) ==
  [x \in 1 .. Len(T) - (j - i) |-> IF x <= i THEN T[x] ELSE T[x + (j - i)]]
Insert(T, a, n) ==
  [x \in 1 .. Len(T) + 1 |->
     IF x <= a THEN T[x] ELSE IF x = a + 1 THEN n ELSE T[x - 1]]
Swap(T, i, j, k) ==
  [x \in 1 .. Len(T) |->
     IF x <= i \/ x > k THEN T[x]
     ELSE IF x <= i + (k - j) THEN T[x + (j - i)] ELSE T[x - (k - j)]]

\* The links make the text a ring around line_head.
Ring(f, b, T) ==
  \A x \in 0 .. Len(T) : f[At(T, x)] = At(T, x + 1) /\ b[At(T, x + 1)] = At(T, x)

\* The lines i+1 to j have the links they have in the ring of the text.
Frozen(f, b, T, i, j) ==
  \A x \in i + 1 .. j : f[T[x]] = At(T, x + 1) /\ b[T[x]] = At(T, x - 1)

\* A text as a function; before the first line and after the last is line_head.
LEMMA TextFacts ==
  ASSUME NEW T, IsText(T)
  PROVE  /\ T \in Seq(Node) /\ Len(T) \in Nat
         /\ \A x \in 1 .. Len(T) : T[x] \in Node /\ T[x] # 0 /\ T[x] \in Link
         /\ \A x \in Int : At(T, x) \in Link
         /\ \A x \in 1 .. Len(T) : At(T, x) = T[x]
         /\ \A x \in Int : x \notin 1 .. Len(T) => At(T, x) = 0
         /\ At(T, 0) = 0 /\ At(T, Len(T) + 1) = 0
  <1>1. T \in Seq(Node) /\ Len(T) \in Nat
    BY DEF IsText
  <1>2. \A x \in 1 .. Len(T) : T[x] \in Node /\ T[x] # 0 /\ T[x] \in Link
    BY <1>1 DEF Node, Link
  <1>3. 0 \in Link
    BY DEF Link
  <1> QED
    BY <1>1, <1>2, <1>3 DEF At, line_head

\* Different places have different nodes, one round apart excepted.
LEMMA Distinct ==
  ASSUME NEW T, IsText(T)
  PROVE  /\ \A x, y \in 0 .. Len(T) : At(T, x) = At(T, y) => x = y
         /\ \A x, y \in 1 .. Len(T) + 1 : At(T, x) = At(T, y) => x = y
  <1>1. /\ Len(T) \in Nat
        /\ \A x \in 1 .. Len(T) : T[x] # 0
        /\ \A x, y \in 1 .. Len(T) : T[x] = T[y] => x = y
    BY TextFacts DEF IsText
  <1> QED
    BY <1>1 DEF At, line_head

\* A function on 1 .. n is a sequence.
LEMMA FunctionSeq ==
  ASSUME NEW S, NEW n \in Nat, NEW F \in [1 .. n -> S]
  PROVE  F \in Seq(S) /\ Len(F) = n
  OBVIOUS

\* The text without lines i+1 to j is one, and where its lines are.
LEMMA CutText ==
  ASSUME NEW T, IsText(T), NEW i \in Nat, NEW j \in Nat, i <= j, j <= Len(T)
  PROVE  /\ IsText(Cut(T, i, j))
         /\ Len(Cut(T, i, j)) = Len(T) - (j - i)
         /\ \A x \in 0 .. i : At(Cut(T, i, j), x) = At(T, x)
         /\ \A x \in i + 1 .. Len(T) - (j - i) + 1 :
              At(Cut(T, i, j), x) = At(T, x + (j - i))
  <1>1. T \in Seq(Node) /\ Len(T) \in Nat /\ \A x \in 1 .. Len(T) : T[x] \in Node
    BY TextFacts
  <1> DEFINE n == Len(T) - (j - i)
  <1>2. n \in Nat
    BY <1>1
  <1>3. PICK C : C = Cut(T, i, j)
    OBVIOUS
  <1>4. C = [x \in 1 .. n |-> IF x <= i THEN T[x] ELSE T[x + (j - i)]]
    BY <1>3 DEF Cut
  <1>5. C \in [1 .. n -> Node]
    BY <1>1, <1>2, <1>4
  <1>6. C \in Seq(Node) /\ Len(C) = n
    BY <1>2, <1>5, FunctionSeq
  <1>7. \A x \in 1 .. n : C[x] = IF x <= i THEN T[x] ELSE T[x + (j - i)]
    BY <1>4
  <1>8. \A x, y \in 1 .. n : C[x] = C[y] => x = y
    BY <1>1, <1>7 DEF IsText
  <1>9. IsText(C) /\ Len(C) = n
    BY <1>6, <1>8 DEF IsText
  <1>10. \A x \in 0 .. i : At(C, x) = At(T, x)
    BY <1>1, <1>2, <1>6, <1>7 DEF At
  <1>11. \A x \in i + 1 .. n + 1 : At(C, x) = At(T, x + (j - i))
    BY <1>1, <1>2, <1>6, <1>7 DEF At
  <1> QED
    BY <1>3, <1>9, <1>10, <1>11

\* The text with node n after line a is one, and where its lines are.
LEMMA InsertText ==
  ASSUME NEW T, IsText(T), NEW a \in 0 .. Len(T), NEW n \in Node,
         \A x \in 1 .. Len(T) : T[x] # n
  PROVE  /\ IsText(Insert(T, a, n))
         /\ Len(Insert(T, a, n)) = Len(T) + 1
         /\ \A x \in 0 .. a : At(Insert(T, a, n), x) = At(T, x)
         /\ At(Insert(T, a, n), a + 1) = n
         /\ \A x \in a + 2 .. Len(T) + 2 : At(Insert(T, a, n), x) = At(T, x - 1)
         /\ Cut(Insert(T, a, n), a, a + 1) = T
  <1>1. T \in Seq(Node) /\ Len(T) \in Nat /\ \A x \in 1 .. Len(T) : T[x] \in Node
    BY TextFacts
  <1>3. PICK C : C = Insert(T, a, n)
    OBVIOUS
  <1>4. C = [x \in 1 .. Len(T) + 1 |-> IF x <= a THEN T[x] ELSE IF x = a + 1 THEN n ELSE T[x - 1]]
    BY <1>3 DEF Insert
  <1>5. C \in [1 .. Len(T) + 1 -> Node]
    BY <1>1, <1>4
  <1>6. C \in Seq(Node) /\ Len(C) = Len(T) + 1
    BY <1>1, <1>5, FunctionSeq
  <1>7. \A x \in 1 .. Len(T) + 1 :
          C[x] = IF x <= a THEN T[x] ELSE IF x = a + 1 THEN n ELSE T[x - 1]
    BY <1>4
  <1>8. \A x, y \in 1 .. Len(T) + 1 : C[x] = C[y] => x = y
    BY <1>1, <1>7 DEF IsText
  <1>9. Cut(C, a, a + 1) = T
    <2>1. Len(C) - ((a + 1) - a) = Len(T)
      BY <1>1, <1>6
    <2>2. Cut(C, a, a + 1)
            = [x \in 1 .. Len(T) |-> IF x <= a THEN C[x] ELSE C[x + 1]]
      BY <1>1, <2>1 DEF Cut
    <2>3. ASSUME NEW x \in 1 .. Len(T)
          PROVE  T[x] = IF x <= a THEN C[x] ELSE C[x + 1]
      <3>1. x \in 1 .. Len(T) + 1 /\ x + 1 \in 1 .. Len(T) + 1 /\ (x + 1) - 1 = x
        BY <1>1
      <3>2. C[x] = IF x <= a THEN T[x] ELSE IF x = a + 1 THEN n ELSE T[x - 1]
        BY <1>7, <3>1
      <3>3. C[x + 1] = IF x + 1 <= a THEN T[x + 1] ELSE IF x + 1 = a + 1 THEN n ELSE T[x]
        BY <1>7, <3>1
      <3> QED
        BY <1>1, <3>2, <3>3
    <2>4. T \in [1 .. Len(T) -> Node]
      BY <1>1
    <2>5. T = [x \in 1 .. Len(T) |-> IF x <= a THEN C[x] ELSE C[x + 1]]
      BY <2>3, <2>4
    <2> QED
      BY <2>2, <2>5
  <1> QED
    BY <1>1, <1>3, <1>6, <1>7, <1>8, <1>9 DEF IsText, At

\* The text with two neighbouring ranges exchanged, and where its lines are.
LEMMA SwapText ==
  ASSUME NEW T, IsText(T), NEW i \in Nat, NEW j \in Nat, NEW k \in Nat,
         i < j, j < k, k <= Len(T)
  PROVE  /\ IsText(Swap(T, i, j, k))
         /\ Len(Swap(T, i, j, k)) = Len(T)
         /\ \A x \in 0 .. Len(T) + 1 :
              At(Swap(T, i, j, k), x) =
                 IF x <= i \/ x > k THEN At(T, x)
                 ELSE IF x <= i + (k - j) THEN At(T, x + (j - i))
                 ELSE At(T, x - (k - j))
         /\ Swap(Swap(T, i, j, k), i, i + (k - j), k) = T
  <1>1. T \in Seq(Node) /\ Len(T) \in Nat /\ \A x \in 1 .. Len(T) : T[x] \in Node
    BY TextFacts
  <1>3. PICK C : C = Swap(T, i, j, k)
    OBVIOUS
  <1>4. C = [x \in 1 .. Len(T) |->
               IF x <= i \/ x > k THEN T[x]
               ELSE IF x <= i + (k - j) THEN T[x + (j - i)] ELSE T[x - (k - j)]]
    BY <1>3 DEF Swap
  <1>5. C \in [1 .. Len(T) -> Node]
    BY <1>1, <1>4
  <1>6. C \in Seq(Node) /\ Len(C) = Len(T)
    BY <1>1, <1>5, FunctionSeq
  <1>7. \A x \in 1 .. Len(T) :
          C[x] = IF x <= i \/ x > k THEN T[x]
                 ELSE IF x <= i + (k - j) THEN T[x + (j - i)] ELSE T[x - (k - j)]
    BY <1>4
  <1>8. \A x, y \in 1 .. Len(T) : C[x] = C[y] => x = y
    BY <1>1, <1>7 DEF IsText
  <1>9. Swap(C, i, i + (k - j), k) = T
    <2>1. ASSUME NEW x \in 1 .. Len(T)
          PROVE  T[x] = IF x <= i \/ x > k THEN C[x]
                   ELSE IF x <= i + (k - (i + (k - j))) THEN C[x + ((i + (k - j)) - i)]
                   ELSE C[x - (k - (i + (k - j)))]
      <3>1. /\ i + (k - (i + (k - j))) = j /\ x + ((i + (k - j)) - i) = x + (k - j)
            /\ x - (k - (i + (k - j))) = x - (j - i)
        BY <1>1
      <3>2. CASE x <= i \/ x > k
        BY <1>1, <1>7, <3>2
      <3>3. CASE x > i /\ x <= j
        <4>1. x + (k - j) \in 1 .. Len(T) /\ (x + (k - j)) - (k - j) = x
          BY <1>1, <3>3
        <4>2. C[x + (k - j)] = T[x]
          <5>1. PICK y \in 1 .. Len(T) : y = x + (k - j) /\ y - (k - j) = x
            BY <4>1
          <5>2. ~ (y <= i \/ y > k) /\ ~ (y <= i + (k - j))
            BY <1>1, <3>3, <5>1
          <5>3. C[y] = T[y - (k - j)]
            BY <1>7, <5>2
          <5> QED
            BY <5>1, <5>3
        <4> QED
          BY <1>1, <3>1, <3>3, <4>2
      <3>4. CASE x > j /\ x <= k
        <4>1. x - (j - i) \in 1 .. Len(T) /\ (x - (j - i)) + (j - i) = x
          BY <1>1, <3>4
        <4>2. C[x - (j - i)] = T[x]
          <5>1. PICK y \in 1 .. Len(T) : y = x - (j - i) /\ y + (j - i) = x
            BY <4>1
          <5>2. ~ (y <= i \/ y > k) /\ y <= i + (k - j)
            BY <1>1, <3>4, <5>1
          <5>3. C[y] = T[y + (j - i)]
            BY <1>7, <5>2
          <5> QED
            BY <5>1, <5>3
        <4> QED
          BY <1>1, <3>1, <3>4, <4>2
      <3> QED
        BY <1>1, <3>2, <3>3, <3>4
    <2>2. T \in [1 .. Len(T) -> Node]
      BY <1>1
    <2> QED
      BY <1>6, <2>1, <2>2 DEF Swap
  <1> QED
    BY <1>1, <1>3, <1>6, <1>7, <1>8, <1>9 DEF IsText, At

----------------------------------------------------------------------------
(* A ring stays one when lines are cut out, joined again or exchanged. *)

\* Outside of the nodes S the links are those they were.
Same(f, f2, S) == \A n \in Link \ S : f2[n] = f[n]

\* One pair of links cuts lines i+1 to j out; their own links stay.
LEMMA CutRing ==
  ASSUME NEW T, IsText(T), NEW i \in Nat, NEW j \in Nat, i < j, j <= Len(T),
         NEW f, NEW b, Ring(f, b, T),
         NEW f2, NEW b2,
         f2[At(T, i)] = At(T, j + 1), Same(f, f2, {At(T, i)}),
         b2[At(T, j + 1)] = At(T, i), Same(b, b2, {At(T, j + 1)})
  PROVE  /\ Ring(f2, b2, Cut(T, i, j))
         /\ Frozen(f2, b2, T, i, j)
  <1>1. /\ Len(T) \in Nat /\ At(T, 0) = 0 /\ At(T, Len(T) + 1) = 0
        /\ \A x \in Int : At(T, x) \in Link
        /\ \A x \in 1 .. Len(T) : At(T, x) = T[x]
    BY TextFacts
  <1>2. PICK C : C = Cut(T, i, j)
    OBVIOUS
  <1>3. /\ Len(C) = Len(T) - (j - i)
        /\ \A x \in 0 .. i : At(C, x) = At(T, x)
        /\ \A x \in i + 1 .. Len(T) - (j - i) + 1 : At(C, x) = At(T, x + (j - i))
    <2>1. i <= j
      OBVIOUS
    <2>2. /\ Len(Cut(T, i, j)) = Len(T) - (j - i)
          /\ \A x \in 0 .. i : At(Cut(T, i, j), x) = At(T, x)
          /\ \A x \in i + 1 .. Len(T) - (j - i) + 1 :
               At(Cut(T, i, j), x) = At(T, x + (j - i))
      BY <2>1, CutText
    <2> QED
      BY <1>2, <2>2
  <1>4. \A x \in 0 .. Len(T) : x # i => f2[At(T, x)] = At(T, x + 1)
    BY <1>1, Distinct DEF Same, Ring
  <1>5. \A x \in 1 .. Len(T) + 1 : x # j + 1 => b2[At(T, x)] = At(T, x - 1)
    <2>1. ASSUME NEW x \in 1 .. Len(T) + 1, x # j + 1
          PROVE  b2[At(T, x)] = At(T, x - 1)
      <3>1. x - 1 \in 0 .. Len(T) /\ (x - 1) + 1 = x
        BY <1>1
      <3>2. b[At(T, x)] = At(T, x - 1)
        BY <3>1 DEF Ring
      <3>3. At(T, x) # At(T, j + 1) /\ At(T, x) \in Link
        BY <1>1, <2>1, Distinct
      <3> QED
        BY <3>2, <3>3 DEF Same
    <2> QED
      BY <2>1
  <1>6. ASSUME NEW x \in 0 .. Len(C)
        PROVE  f2[At(C, x)] = At(C, x + 1) /\ b2[At(C, x + 1)] = At(C, x)
    <2>1. CASE x < i
      <3>1. x \in 0 .. i /\ x + 1 \in 0 .. i /\ x \in 0 .. Len(T) /\ x + 1 \in 1 .. Len(T) + 1 /\ (x + 1) - 1 = x
        BY <1>1, <2>1
      <3> QED
        BY <1>1, <1>3, <1>4, <1>5, <2>1, <3>1
    <2>2. CASE x = i
      <3>1. At(C, x) = At(T, i) /\ At(C, x + 1) = At(T, (i + 1) + (j - i))
        BY <1>1, <1>3, <2>2
      <3>2. (i + 1) + (j - i) = j + 1
        OBVIOUS
      <3> QED
        BY <3>1, <3>2
    <2>3. CASE x > i
      <3>1. PICK y \in 0 .. Len(T) : y = x + (j - i)
        BY <1>1, <1>3, <2>3
      <3>2. At(C, x) = At(T, y) /\ At(C, x + 1) = At(T, y + 1)
        <4>1. (x + 1) + (j - i) = y + 1
          BY <3>1
        <4>2. x \in i + 1 .. Len(T) - (j - i) + 1 /\ x + 1 \in i + 1 .. Len(T) - (j - i) + 1
          BY <1>1, <1>3, <2>3
        <4> QED
          BY <1>3, <3>1, <4>1, <4>2
      <3>3. y # i /\ y + 1 # j + 1 /\ y + 1 \in 1 .. Len(T) + 1 /\ (y + 1) - 1 = y
        BY <1>1, <2>3, <3>1
      <3> QED
        BY <1>4, <1>5, <3>1, <3>2, <3>3
    <2> QED
      BY <1>3, <2>1, <2>2, <2>3
  <1>7. Ring(f2, b2, C)
    BY <1>6 DEF Ring
  <1>8. Frozen(f2, b2, T, i, j)
    <2>1. ASSUME NEW x \in i + 1 .. j
          PROVE  f2[T[x]] = At(T, x + 1) /\ b2[T[x]] = At(T, x - 1)
      <3>1. x \in 0 .. Len(T) /\ x # i /\ x \in 1 .. Len(T) + 1 /\ x # j + 1
            /\ x \in 1 .. Len(T)
        BY <1>1
      <3> QED
        BY <1>1, <1>4, <1>5, <3>1
    <2> QED
      BY <2>1 DEF Frozen
  <1> QED
    BY <1>2, <1>7, <1>8

\* Two pairs of links put them back.
LEMMA JoinRing ==
  ASSUME NEW T, IsText(T), NEW i \in Nat, NEW j \in Nat, i < j, j <= Len(T),
         NEW f, NEW b, Ring(f, b, Cut(T, i, j)),
         NEW f2, NEW b2,
         Frozen(f2, b2, T, i, j),
         f2[At(T, i)] = T[i + 1], Same(f, f2, {At(T, i)} \cup Lines(T, i, j)),
         b2[At(T, j + 1)] = T[j], Same(b, b2, {At(T, j + 1)} \cup Lines(T, i, j))
  PROVE  Ring(f2, b2, T)
  <1>1. /\ Len(T) \in Nat /\ At(T, 0) = 0 /\ At(T, Len(T) + 1) = 0
        /\ \A x \in Int : At(T, x) \in Link
        /\ \A x \in 1 .. Len(T) : At(T, x) = T[x] /\ T[x] # 0
    BY TextFacts
  <1>2. PICK C : C = Cut(T, i, j)
    OBVIOUS
  <1>3. /\ Len(C) = Len(T) - (j - i)
        /\ \A x \in 0 .. i : At(C, x) = At(T, x)
        /\ \A x \in i + 1 .. Len(T) - (j - i) + 1 : At(C, x) = At(T, x + (j - i))
    <2>1. i <= j
      OBVIOUS
    <2>2. /\ Len(Cut(T, i, j)) = Len(T) - (j - i)
          /\ \A x \in 0 .. i : At(Cut(T, i, j), x) = At(T, x)
          /\ \A x \in i + 1 .. Len(T) - (j - i) + 1 :
               At(Cut(T, i, j), x) = At(T, x + (j - i))
      BY <2>1, CutText
    <2> QED
      BY <1>2, <2>2
  <1>4. \A x \in 0 .. Len(C) : f[At(C, x)] = At(C, x + 1) /\ b[At(C, x + 1)] = At(C, x)
    BY <1>2 DEF Ring
  <1>5. ASSUME NEW x \in 0 .. Len(T), x < i \/ x > j
        PROVE  f[At(T, x)] = At(T, x + 1) /\ b[At(T, x + 1)] = At(T, x)
    <2>1. CASE x < i
      <3>1. x \in 0 .. Len(C) /\ x \in 0 .. i /\ x + 1 \in 0 .. i
        BY <1>1, <1>3, <2>1
      <3> QED
        BY <1>3, <1>4, <3>1
    <2>2. CASE x > j
      <3>1. PICK y \in 0 .. Len(C) : y = x - (j - i)
        BY <1>1, <1>3, <2>2
      <3>2. At(C, y) = At(T, x) /\ At(C, y + 1) = At(T, x + 1)
        <4>1. y + (j - i) = x /\ (y + 1) + (j - i) = x + 1
          BY <3>1
        <4>2. y \in i + 1 .. Len(T) - (j - i) + 1 /\ y + 1 \in i + 1 .. Len(T) - (j - i) + 1
          BY <1>1, <1>3, <2>2, <3>1
        <4> QED
          BY <1>3, <4>1, <4>2
      <3> QED
        BY <1>4, <3>1, <3>2
    <2> QED
      BY <1>5, <2>1, <2>2
  <1>6. ASSUME NEW x \in 0 .. Len(T)
        PROVE  f2[At(T, x)] = At(T, x + 1) /\ b2[At(T, x + 1)] = At(T, x)
    <2>1. CASE x < i \/ x > j
      <3>1. At(T, x) \notin {At(T, i)} \cup Lines(T, i, j)
        <4>1. ASSUME NEW y \in i + 1 .. j, At(T, x) = T[y] PROVE FALSE
          <5>1. y \in 0 .. Len(T) /\ At(T, y) = T[y]
            BY <1>1
          <5> QED
            BY <1>1, <2>1, <4>1, <5>1, Distinct
        <4>2. At(T, x) # At(T, i)
          BY <1>1, <2>1, Distinct
        <4> QED
          BY <4>1, <4>2 DEF Lines
      <3>2. At(T, x + 1) \notin {At(T, j + 1)} \cup Lines(T, i, j)
        <4>0. x + 1 \in 1 .. Len(T) + 1 /\ j + 1 \in 1 .. Len(T) + 1
          BY <1>1
        <4>1. ASSUME NEW y \in i + 1 .. j, At(T, x + 1) = T[y] PROVE FALSE
          <5>1. y \in 1 .. Len(T) + 1 /\ At(T, y) = T[y] /\ x + 1 # y
            BY <1>1, <2>1
          <5> QED
            BY <4>0, <4>1, <5>1, Distinct
        <4>2. At(T, x + 1) # At(T, j + 1)
          BY <1>1, <2>1, <4>0, Distinct
        <4> QED
          BY <4>1, <4>2 DEF Lines
      <3>3. At(T, x) \in Link /\ At(T, x + 1) \in Link
        BY <1>1
      <3> QED
        BY <1>5, <2>1, <3>1, <3>2, <3>3 DEF Same
    <2>2. CASE x = i
      <3>1. i + 1 \in i + 1 .. j /\ i + 1 \in 1 .. Len(T) /\ (i + 1) - 1 = i
        BY <1>1
      <3>2. b2[T[i + 1]] = At(T, i) /\ At(T, i + 1) = T[i + 1]
        BY <1>1, <3>1 DEF Frozen
      <3> QED
        BY <2>2, <3>2
    <2>3. CASE i < x /\ x <= j
      <3>1. x \in i + 1 .. j /\ x \in 1 .. Len(T)
        BY <1>1, <2>3
      <3>2. f2[At(T, x)] = At(T, x + 1)
        BY <1>1, <3>1 DEF Frozen
      <3>3. b2[At(T, x + 1)] = At(T, x)
        <4>1. CASE x = j
          BY <1>1, <3>1, <4>1
        <4>2. CASE x < j
          <5>1. x + 1 \in i + 1 .. j /\ x + 1 \in 1 .. Len(T) /\ (x + 1) - 1 = x
            BY <1>1, <2>3, <4>2
          <5> QED
            BY <1>1, <5>1 DEF Frozen
        <4> QED
          BY <2>3, <4>1, <4>2
      <3> QED
        BY <3>2, <3>3
    <2> QED
      BY <1>1, <2>1, <2>2, <2>3
  <1> QED
    BY <1>6 DEF Ring

\* Three pairs of links exchange two neighbouring ranges.
LEMMA SwapRing ==
  ASSUME NEW T, IsText(T), NEW i \in Nat, NEW j \in Nat, NEW k \in Nat,
         i < j, j < k, k <= Len(T),
         NEW f, NEW b, Ring(f, b, T),
         NEW f2, NEW b2,
         f2[At(T, i)] = T[j + 1], f2[T[k]] = T[i + 1], f2[T[j]] = At(T, k + 1),
         Same(f, f2, {At(T, i), T[j], T[k]}),
         b2[T[j + 1]] = At(T, i), b2[T[i + 1]] = T[k], b2[At(T, k + 1)] = T[j],
         Same(b, b2, {T[i + 1], T[j + 1], At(T, k + 1)})
  PROVE  Ring(f2, b2, Swap(T, i, j, k))
  <1>1. /\ Len(T) \in Nat /\ At(T, 0) = 0 /\ At(T, Len(T) + 1) = 0
        /\ \A x \in Int : At(T, x) \in Link
        /\ \A x \in 1 .. Len(T) : At(T, x) = T[x] /\ T[x] # 0
    BY TextFacts
  <1>2. PICK C : C = Swap(T, i, j, k)
    OBVIOUS
  <1>3. /\ Len(C) = Len(T)
        /\ \A x \in 0 .. Len(T) + 1 :
             At(C, x) = IF x <= i \/ x > k THEN At(T, x)
                        ELSE IF x <= i + (k - j) THEN At(T, x + (j - i))
                        ELSE At(T, x - (k - j))
    BY <1>2, SwapText
  <1>4. \A x \in 0 .. Len(T) : x \notin {i, j, k} =>
           f2[At(T, x)] = At(T, x + 1) /\ b2[At(T, x + 1)] = At(T, x)
    <2>1. ASSUME NEW x \in 0 .. Len(T), x \notin {i, j, k}
          PROVE  f2[At(T, x)] = At(T, x + 1) /\ b2[At(T, x + 1)] = At(T, x)
      <3>1. f[At(T, x)] = At(T, x + 1) /\ b[At(T, x + 1)] = At(T, x)
        BY DEF Ring
      <3>2. At(T, x) \in Link /\ At(T, x + 1) \in Link
        BY <1>1
      <3>3. At(T, x) \notin {At(T, i), T[j], T[k]}
        BY <1>1, <2>1, Distinct
      <3>4. At(T, x + 1) \notin {T[i + 1], T[j + 1], At(T, k + 1)}
        BY <1>1, <2>1, Distinct
      <3> QED
        BY <3>1, <3>2, <3>3, <3>4 DEF Same
    <2> QED
      BY <2>1
  <1>5. /\ At(T, j) = T[j] /\ At(T, k) = T[k] /\ At(T, i + 1) = T[i + 1] /\ At(T, j + 1) = T[j + 1]
    BY <1>1
  <1>6. ASSUME NEW x \in 0 .. Len(T)
        PROVE  f2[At(C, x)] = At(C, x + 1) /\ b2[At(C, x + 1)] = At(C, x)
    <2>0. x \in 0 .. Len(T) + 1 /\ x + 1 \in 0 .. Len(T) + 1
      BY <1>1
    <2>1. CASE x < i \/ x > k
      <3>1. At(C, x) = At(T, x) /\ At(C, x + 1) = At(T, x + 1)
        BY <1>3, <2>0, <2>1
      <3> QED
        BY <1>4, <2>1, <3>1
    <2>2. CASE x = i
      <3>1. At(C, x) = At(T, i) /\ At(C, x + 1) = At(T, (i + 1) + (j - i))
        BY <1>1, <1>3, <2>0, <2>2
      <3>2. (i + 1) + (j - i) = j + 1
        OBVIOUS
      <3> QED
        BY <1>5, <3>1, <3>2
    <2>3. CASE i < x /\ x < i + (k - j)
      <3>1. PICK y \in 0 .. Len(T) : y = x + (j - i)
        BY <1>1, <2>3
      <3>2. y \notin {i, j, k} /\ (x + 1) + (j - i) = y + 1
        BY <2>3, <3>1
      <3>3. At(C, x) = At(T, y) /\ At(C, x + 1) = At(T, y + 1)
        BY <1>3, <2>0, <2>3, <3>1, <3>2
      <3> QED
        BY <1>4, <3>2, <3>3
    <2>4. CASE x = i + (k - j)
      <3>1. x + (j - i) = k /\ (x + 1) - (k - j) = i + 1
        BY <2>4
      <3>2. At(C, x) = At(T, k) /\ At(C, x + 1) = At(T, i + 1)
        BY <1>3, <2>0, <2>4, <3>1
      <3> QED
        BY <1>5, <3>2
    <2>5. CASE i + (k - j) < x /\ x < k
      <3>1. PICK y \in 0 .. Len(T) : y = x - (k - j)
        BY <1>1, <2>5
      <3>2. y \notin {i, j, k} /\ (x + 1) - (k - j) = y + 1
        BY <2>5, <3>1
      <3>3. At(C, x) = At(T, y) /\ At(C, x + 1) = At(T, y + 1)
        BY <1>3, <2>0, <2>5, <3>1, <3>2
      <3> QED
        BY <1>4, <3>2, <3>3
    <2>6. CASE x = k
      <3>1. x - (k - j) = j
        BY <2>6
      <3>2. At(C, x) = At(T, j) /\ At(C, x + 1) = At(T, k + 1)
        BY <1>3, <2>0, <2>6, <3>1
      <3> QED
        BY <1>5, <3>2
    <2> QED
      BY <1>1, <2>1, <2>2, <2>3, <2>4, <2>5, <2>6
  <1> QED
    BY <1>2, <1>3, <1>6 DEF Ring

----------------------------------------------------------------------------
(* Walking along the links of a ring. *)

\* Every set of numbers has a smallest.
LEMMA SmallestNat ==
  ASSUME NEW S, S \subseteq Nat, S # {}
  PROVE  \E x \in S : \A y \in S : x =< y
  <1> DEFINE R == {ss \in Nat \X Nat : ss[1] < ss[2]}
  <1>1. OpToRel(<, Nat) = R
    BY DEF OpToRel
  <1>2. IsWellFoundedOn(R, Nat)
    BY <1>1, NatLessThanWellFounded
  <1>3. PICK x \in S : \A y \in S : ~ (<<y, x>> \in R)
    BY <1>2, WFMin
  <1>4. ASSUME NEW y \in S PROVE x =< y
    <2>1. x \in Nat /\ y \in Nat /\ ~ (<<y, x>> \in R)
      BY <1>3
    <2>2. ~ (y < x)
      BY <2>1
    <2> QED
      BY <2>1, <2>2
  <1> QED
    BY <1>4

\* Induction, with a set in the place of a predicate.
LEMMA Inductive ==
  ASSUME NEW n \in Nat, NEW S, 0 \in S,
         \A i \in 1 .. n : i - 1 \in S => i \in S
  PROVE  \A i \in 0 .. n : i \in S
  <1> DEFINE B == {i \in 0 .. n : i \notin S}
  <1> SUFFICES ASSUME B # {} PROVE FALSE
    OBVIOUS
  <1>1. B \subseteq Nat
    OBVIOUS
  <1>2. PICK x \in B : \A y \in B : x =< y
    <2> HIDE DEF B
    <2> QED
      BY <1>1, SmallestNat
  <1>3. x # 0 /\ x \in 1 .. n /\ x - 1 \in 0 .. n
    OBVIOUS
  <1>4. x - 1 \notin B
    BY <1>1, <1>2, <1>3
  <1> QED
    BY <1>3, <1>4

\* The walk is what it should be when that follows the links.
LEMMA FollowIs ==
  ASSUME NEW f, NEW n, NEW k \in Nat, NEW g \in [0 .. k -> Link],
         g[0] = n, \A i \in 1 .. k : g[i] = f[g[i - 1]]
  PROVE  Follow(f, n, k) = g[k]
  <1> DEFINE W == CHOOSE w : w = [i \in 0 .. k |-> IF i = 0 THEN n ELSE f[w[i - 1]]]
  <1>1. g = [i \in 0 .. k |-> IF i = 0 THEN n ELSE f[g[i - 1]]]
    <2>1. \A i \in 0 .. k : i = 0 \/ i \in 1 .. k
      OBVIOUS
    <2>2. \A i \in 0 .. k : g[i] = IF i = 0 THEN n ELSE f[g[i - 1]]
      BY <2>1
    <2> QED
      BY <2>2
  <1>2. W = [i \in 0 .. k |-> IF i = 0 THEN n ELSE f[W[i - 1]]]
    BY <1>1
  <1>3. Follow(f, n, k) = W[k]
    BY DEF Follow
  <1> HIDE DEF W
  <1>4. \A i \in 0 .. k : W[i] = IF i = 0 THEN n ELSE f[W[i - 1]]
    BY <1>2
  <1> DEFINE S == {i \in 0 .. k : W[i] = g[i]}
  <1>5. 0 \in S
    BY <1>4
  <1>6. ASSUME NEW i \in 1 .. k, i - 1 \in S PROVE i \in S
    <2>1. i \in 0 .. k /\ i # 0 /\ W[i - 1] = g[i - 1]
      BY <1>6
    <2> QED
      BY <1>4, <2>1
  <1> HIDE DEF S
  <1>7. k \in S
    <2>1. k \in 0 .. k
      OBVIOUS
    <2> QED
      BY <1>5, <1>6, <2>1, Inductive
  <1> QED
    BY <1>3, <1>7 DEF S

\* y - x steps forward from line x lead to line y.
LEMMA FollowForw ==
  ASSUME NEW T, IsText(T), NEW f, NEW b, Ring(f, b, T),
         NEW x \in 0 .. Len(T), NEW y \in x .. Len(T) + 1
  PROVE  Follow(f, At(T, x), y - x) = At(T, y)
  <1>1. Len(T) \in Nat
    BY TextFacts
  <1>2. PICK k \in Nat : k = y - x
    BY <1>1
  <1> DEFINE g == [i \in 0 .. k |-> At(T, x + i)]
  <1>3. g[0] = At(T, x) /\ g[k] = At(T, y)
    BY <1>1, <1>2
  <1>4. ASSUME NEW i \in 1 .. k PROVE g[i] = f[g[i - 1]]
    <2>1. PICK z \in 0 .. Len(T) : z = x + (i - 1) /\ z + 1 = x + i
      BY <1>1, <1>2
    <2>2. f[At(T, z)] = At(T, z + 1)
      BY DEF Ring
    <2>3. g[i] = At(T, x + i) /\ g[i - 1] = At(T, x + (i - 1))
      BY <1>2
    <2> QED
      BY <2>1, <2>2, <2>3
  <1>5. g \in [0 .. k -> Link]
    BY <1>1, <1>2, TextFacts
  <1> HIDE DEF g
  <1>6. Follow(f, At(T, x), k) = g[k]
    <2>1. PICK n : n = At(T, x)
      OBVIOUS
    <2>2. g[0] = n
      BY <1>3, <2>1
    <2>3. Follow(f, n, k) = g[k]
      BY <1>4, <1>5, <2>2, FollowIs
    <2> QED
      BY <2>1, <2>3
  <1> QED
    BY <1>2, <1>3, <1>6

\* x - y steps back from line x lead to line y.
LEMMA FollowBack ==
  ASSUME NEW T, IsText(T), NEW f, NEW b, Ring(f, b, T),
         NEW x \in 0 .. Len(T), NEW y \in 0 .. x
  PROVE  Follow(b, At(T, x), x - y) = At(T, y)
  <1>1. Len(T) \in Nat
    BY TextFacts
  <1>2. PICK k \in Nat : k = x - y
    BY <1>1
  <1> DEFINE g == [i \in 0 .. k |-> At(T, x - i)]
  <1>3. g[0] = At(T, x) /\ g[k] = At(T, y)
    BY <1>1, <1>2
  <1>4. ASSUME NEW i \in 1 .. k PROVE g[i] = b[g[i - 1]]
    <2>1. PICK z \in 0 .. Len(T) : z = x - i /\ z + 1 = x - (i - 1)
      BY <1>1, <1>2
    <2>2. b[At(T, z + 1)] = At(T, z)
      BY DEF Ring
    <2>3. g[i] = At(T, x - i) /\ g[i - 1] = At(T, x - (i - 1))
      BY <1>2
    <2> QED
      BY <2>1, <2>2, <2>3
  <1>5. g \in [0 .. k -> Link]
    BY <1>1, <1>2, TextFacts
  <1> HIDE DEF g
  <1>6. Follow(b, At(T, x), k) = g[k]
    <2>1. PICK n : n = At(T, x)
      OBVIOUS
    <2>2. g[0] = n
      BY <1>3, <2>1
    <2>3. Follow(b, n, k) = g[k]
      BY SMTT(30), <1>4, <1>5, <2>2, FollowIs
    <2> QED
      BY <2>1, <2>3
  <1> QED
    BY <1>2, <1>3, <1>6

----------------------------------------------------------------------------
\* A text fits into the heap.
LEMMA TextFits ==
  ASSUME NEW T, IsText(T)
  PROVE  Len(T) <= MaxNode
  <1>1. Len(T) \in Nat /\ \A x \in 1 .. Len(T) : T[x] \in Node
    BY TextFacts
  <1>2. IsFiniteSet(1 .. Len(T)) /\ Cardinality(1 .. Len(T)) = Len(T)
    BY <1>1, FS_Interval
  <1>3. IsFiniteSet(1 .. MaxNode) /\ Cardinality(1 .. MaxNode) = MaxNode
    BY FS_Interval
  <1>4. T \in [1 .. Len(T) -> 1 .. MaxNode]
    BY <1>1 DEF IsText, Node
  <1>5. T \in Injection(1 .. Len(T), 1 .. MaxNode)
    BY <1>4 DEF Injection, IsInjective, IsText
  <1>6. Cardinality(1 .. Len(T)) <= Cardinality(1 .. MaxNode)
    BY <1>3, <1>5, FS_Injection
  <1> QED
    BY <1>2, <1>3, <1>6

\* The first m lines after line i.
Part(T, i, m) == [x \in 1 .. m |-> T[i + x]]

\* A part of a text as a sequence.
LEMMA PartFacts ==
  ASSUME NEW T, IsText(T), NEW i \in Nat, NEW m \in Nat, i + m <= Len(T)
  PROVE  /\ Part(T, i, m) \in Seq(Node) /\ Len(Part(T, i, m)) = m
         /\ \A x \in 1 .. m : Part(T, i, m)[x] = T[i + x]
         /\ Part(T, i, m) = <<>> <=> m = 0
         /\ ToSet(Part(T, i, m)) = Lines(T, i, i + m)
  <1>1. Len(T) \in Nat /\ \A x \in 1 .. Len(T) : T[x] \in Node
    BY TextFacts
  <1>2. PICK P : P = Part(T, i, m)
    OBVIOUS
  <1>3. P = [x \in 1 .. m |-> T[i + x]]
    BY <1>2 DEF Part
  <1>4. P \in [1 .. m -> Node]
    BY <1>1, <1>3
  <1>5. P \in Seq(Node) /\ Len(P) = m
    BY <1>4, FunctionSeq
  <1>6. \A x \in 1 .. m : P[x] = T[i + x]
    BY <1>3
  <1>7. P = <<>> <=> m = 0
    BY <1>5
  <1>8. ToSet(P) = Lines(T, i, i + m)
    <2>1. DOMAIN P = 1 .. m
      BY <1>3
    <2>2. ASSUME NEW x \in 1 .. m PROVE P[x] \in Lines(T, i, i + m)
      BY <1>6 DEF Lines
    <2>3. ASSUME NEW x \in i + 1 .. i + m PROVE T[x] \in ToSet(P)
      <3>1. x - i \in 1 .. m /\ i + (x - i) = x
        OBVIOUS
      <3> QED
        BY <1>6, <2>1, <3>1 DEF ToSet
    <2> QED
      BY <2>1, <2>2, <2>3 DEF ToSet, Lines
  <1> QED
    BY <1>2, <1>5, <1>6, <1>7, <1>8

\* A part with the line after it is a longer part.
LEMMA PartMore ==
  ASSUME NEW T, IsText(T), NEW i \in Nat, NEW m \in Nat, i + m + 1 <= Len(T)
  PROVE  Append(Part(T, i, m), T[i + m + 1]) = Part(T, i, m + 1)
  <1>1. Len(T) \in Nat /\ \A x \in 1 .. Len(T) : T[x] \in Node
    BY TextFacts
  <1>2. PICK P : P = Part(T, i, m)
    OBVIOUS
  <1>3. PICK Q : Q = Part(T, i, m + 1)
    OBVIOUS
  <1>4. /\ P \in Seq(Node) /\ Len(P) = m
        /\ \A x \in 1 .. m : P[x] = T[i + x]
    <2>1. i + m <= Len(T)
      BY <1>1
    <2>2. /\ Part(T, i, m) \in Seq(Node) /\ Len(Part(T, i, m)) = m
          /\ \A x \in 1 .. m : Part(T, i, m)[x] = T[i + x]
      BY <2>1, PartFacts
    <2> QED
      BY <1>2, <2>2
  <1>5. /\ Q \in Seq(Node) /\ Len(Q) = m + 1
        /\ \A x \in 1 .. m + 1 : Q[x] = T[i + x]
    <2>1. PICK k : k = m + 1
      OBVIOUS
    <2>2. k \in Nat /\ i + k <= Len(T)
      BY <1>1, <2>1
    <2>3. /\ Part(T, i, k) \in Seq(Node) /\ Len(Part(T, i, k)) = k
          /\ \A x \in 1 .. k : Part(T, i, k)[x] = T[i + x]
      BY <2>2, PartFacts
    <2> QED
      BY <1>3, <2>1, <2>3
  <1>6. PICK n \in Node : n = T[i + m + 1]
    BY <1>1
  <1>7. /\ Append(P, n) \in Seq(Node) /\ Len(Append(P, n)) = m + 1
        /\ \A x \in 1 .. m + 1 : Append(P, n)[x] = Q[x]
    <2>1. /\ Append(P, n) \in Seq(Node) /\ Len(Append(P, n)) = m + 1
          /\ \A x \in 1 .. m : Append(P, n)[x] = P[x]
          /\ Append(P, n)[m + 1] = n
      BY <1>4, <1>6, AppendProperties
    <2>2. Q[m + 1] = n
      BY <1>5, <1>6
    <2>3. \A x \in 1 .. m + 1 : x \in 1 .. m \/ x = m + 1
      OBVIOUS
    <2> QED
      BY <1>4, <1>5, <2>1, <2>2, <2>3
  <1>8. Append(P, n) = Q
    BY <1>5, <1>7, SeqEqual
  <1> QED
    BY <1>2, <1>3, <1>6, <1>8

\* From line i+1 to before line j+1, the links meet that part of the text.
LEMMA ChainIs ==
  ASSUME NEW T, IsText(T), NEW i \in 0 .. Len(T), NEW j \in i .. Len(T),
         NEW f, \A x \in i + 1 .. j : f[T[x]] = At(T, x + 1)
  PROVE  Chain(f, At(T, i + 1), At(T, j + 1)) = Part(T, i, j - i)
  <1>1. /\ Len(T) \in Nat /\ Len(T) <= MaxNode
        /\ \A x \in 1 .. Len(T) : At(T, x) = T[x]
    BY TextFacts, TextFits
  <1>2. PICK M \in Nat : M = MaxNode + 1 /\ j - i <= M
    BY <1>1
  <1>3. PICK n, stop : n = At(T, i + 1) /\ stop = At(T, j + 1)
    OBVIOUS
  <1>0. \A k \in Nat : i + k <= Len(T) =>
           /\ Part(T, i, k) \in Seq(Node) /\ Len(Part(T, i, k)) = k
           /\ \A x \in 1 .. k : Part(T, i, k)[x] = T[i + x]
           /\ (Part(T, i, k) = <<>> <=> k = 0)
    <2>1. i \in Nat
      BY <1>1
    <2> QED
      BY <2>1, PartFacts
  <1> DEFINE Walked(s) == LET lp == IF s = <<>> THEN n ELSE f[Last(s)]
                        IN  IF lp = stop THEN s ELSE Append(s, lp)
             m(x) == IF x <= j - i THEN x ELSE j - i
             g == [x \in 0 .. M |-> Part(T, i, m(x))]
             W == CHOOSE w : w = [x \in 0 .. M |-> IF x = 0 THEN <<>> ELSE Walked(w[x - 1])]
  <1>4. \A x \in 0 .. M : m(x) \in Nat /\ i + m(x) <= j /\ i + m(x) <= Len(T)
    BY <1>1
  <1>5. g[0] = <<>>
    <2>1. m(0) = 0 /\ g[0] = Part(T, i, m(0))
      BY <1>2
    <2> QED
      BY <1>4, <2>1, PartFacts
  <1>6. ASSUME NEW x \in 1 .. M PROVE g[x] = Walked(g[x - 1])
    <2>1. PICK y \in 0 .. M : y = x - 1 /\ x = y + 1
      BY <1>2
    <2>2. PICK P : P = Part(T, i, m(y))
      OBVIOUS
    <2>3. g[y] = P
      BY <2>2
    <2>4. /\ P \in Seq(Node) /\ Len(P) = m(y) /\ (P = <<>> <=> m(y) = 0)
          /\ \A z \in 1 .. m(y) : P[z] = T[i + z]
      <3>1. PICK z \in Nat : z = m(y) /\ i + z <= Len(T)
        BY <1>4
      <3> HIDE DEF m
      <3> QED
        BY <1>0, <2>2, <3>1
    <2>5. (IF P = <<>> THEN n ELSE f[Last(P)]) = At(T, i + m(y) + 1)
      <3>1. CASE m(y) = 0
        BY <1>3, <2>4, <3>1
      <3>2. CASE m(y) # 0
        <4>1. m(y) \in 1 .. m(y) /\ i + m(y) \in i + 1 .. j
          BY <1>4, <3>2
        <4>2. Last(P) = T[i + m(y)]
          BY <2>4, <4>1 DEF Last
        <4> QED
          BY <2>4, <3>2, <4>1, <4>2
      <3> QED
        BY <3>1, <3>2
    <2>6. CASE y < j - i
      <3>1. m(y) = y /\ m(x) = y + 1 /\ i + y + 1 \in 1 .. Len(T)
        BY <1>1, <2>1, <2>6
      <3>2. At(T, i + y + 1) # stop
        <4>1. i + y + 1 \in 1 .. Len(T) + 1 /\ j + 1 \in 1 .. Len(T) + 1 /\ i + y + 1 # j + 1
          BY <1>1, <2>6
        <4> QED
          BY <1>3, <4>1, Distinct
      <3>3. Walked(P) = Append(P, T[i + y + 1])
        BY <1>1, <2>5, <3>1, <3>2
      <3>4. Append(P, T[i + y + 1]) = Part(T, i, y + 1)
        BY <2>2, <3>1, PartMore
      <3>5. g[x] = Part(T, i, y + 1)
        BY <3>1
      <3> QED
        BY <2>1, <2>3, <3>3, <3>4, <3>5
    <2>7. CASE y >= j - i
      <3>1. m(y) = j - i /\ m(x) = j - i
        BY <1>1, <2>1, <2>7
      <3>2. Walked(P) = P
        <4>1. i + (j - i) + 1 = j + 1
          OBVIOUS
        <4> QED
          BY <1>3, <2>5, <3>1, <4>1
      <3>3. g[x] = P
        BY <2>2, <3>1
      <3> QED
        BY <2>1, <2>3, <3>2, <3>3
    <2> QED
      BY <1>1, <2>6, <2>7
  <1>7. g[M] = Part(T, i, j - i)
    BY <1>2
  <1>8. g = [x \in 0 .. M |-> g[x]]
    OBVIOUS
  <1>9. Chain(f, n, stop) = W[M]
    BY <1>2 DEF Chain
  <1> HIDE DEF Walked, g, m
  <1>10. g = [x \in 0 .. M |-> IF x = 0 THEN <<>> ELSE Walked(g[x - 1])]
    <2>1. \A x \in 0 .. M : g[x] = IF x = 0 THEN <<>> ELSE Walked(g[x - 1])
      BY <1>5, <1>6
    <2> QED
      BY <1>8, <2>1
  <1>11. W = [x \in 0 .. M |-> IF x = 0 THEN <<>> ELSE Walked(W[x - 1])]
    BY <1>10
  <1> HIDE DEF W
  <1>12. \A x \in 0 .. M : W[x] = IF x = 0 THEN <<>> ELSE Walked(W[x - 1])
    BY <1>11
  <1> DEFINE S == {x \in 0 .. M : W[x] = g[x]}
  <1>13. 0 \in S
    BY <1>5, <1>12
  <1>14. ASSUME NEW x \in 1 .. M, x - 1 \in S PROVE x \in S
    <2>1. x \in 0 .. M /\ x # 0 /\ W[x - 1] = g[x - 1]
      BY <1>14
    <2> QED
      BY <1>6, <1>12, <2>1
  <1> HIDE DEF S
  <1>15. M \in S
    <2>1. M \in 0 .. M
      OBVIOUS
    <2> QED
      BY <1>13, <1>14, <2>1, Inductive
  <1> QED
    BY <1>3, <1>7, <1>9, <1>15 DEF S

\* The text is what walking along the ring meets.
LEMMA TextOfRing ==
  ASSUME NEW T, IsText(T), NEW f, NEW b, Ring(f, b, T)
  PROVE  TextOf(f) = T
  <1>1. Len(T) \in Nat /\ At(T, 0) = 0 /\ At(T, Len(T) + 1) = 0
        /\ \A x \in 1 .. Len(T) : At(T, x) = T[x]
    BY TextFacts
  <1>2. f[0] = At(T, 1)
    <2>1. 0 \in 0 .. Len(T) /\ 0 + 1 = 1
      BY <1>1
    <2> QED
      BY <1>1, <2>1 DEF Ring
  <1>3. \A x \in 0 + 1 .. Len(T) : f[T[x]] = At(T, x + 1)
    BY <1>1 DEF Ring
  <1>4. Chain(f, At(T, 0 + 1), At(T, Len(T) + 1)) = Part(T, 0, Len(T) - 0)
    <2>1. 0 \in 0 .. Len(T) /\ Len(T) \in 0 .. Len(T)
      BY <1>1
    <2> QED
      BY <1>3, <2>1, ChainIs
  <1>5. Part(T, 0, Len(T)) = T
    BY <1>1 DEF Part, IsText
  <1> QED
    BY <1>1, <1>2, <1>4, <1>5 DEF TextOf, line_head

\* Links that have kept their places lead through the lines cut out.
LEMMA FrozenChain ==
  ASSUME NEW T, IsText(T), NEW i \in 0 .. Len(T), NEW j \in i + 1 .. Len(T),
         NEW f, NEW b, Frozen(f, b, T, i, j)
  PROVE  /\ Chain(f, T[i + 1], f[T[j]]) = Part(T, i, j - i)
         /\ ToSet(Chain(f, T[i + 1], f[T[j]])) = Lines(T, i, j)
  <1>1. Len(T) \in Nat /\ \A x \in 1 .. Len(T) : At(T, x) = T[x]
    BY TextFacts
  <1>2. T[i + 1] = At(T, i + 1) /\ f[T[j]] = At(T, j + 1)
    BY <1>1 DEF Frozen
  <1>3. \A x \in i + 1 .. j : f[T[x]] = At(T, x + 1)
    BY DEF Frozen
  <1>4. Chain(f, At(T, i + 1), At(T, j + 1)) = Part(T, i, j - i)
    <2>1. j \in i .. Len(T)
      BY <1>1
    <2> QED
      BY <1>3, <2>1, ChainIs
  <1>5. ToSet(Part(T, i, j - i)) = Lines(T, i, j)
    <2>1. i \in Nat /\ j - i \in Nat /\ i + (j - i) = j /\ i + (j - i) <= Len(T)
      BY <1>1
    <2> QED
      BY <2>1, PartFacts
  <1> QED
    BY <1>2, <1>4, <1>5

----------------------------------------------------------------------------
(* What the undo queue says: which texts led from T0 to T. *)

\* The second text is the first with two neighbouring ranges of lines
\* exchanged; u has the neighbours of the range moved, v of where it goes.
Moves(T, T2, u, v) ==
  \E i, j, k \in 0 .. Len(T) :
    /\ i < j /\ j < k
    /\ T2 = Swap(T, i, j, k)
    /\ \/ /\ u.h = At(T, i) /\ u.t = At(T, j + 1)
          /\ v.h = At(T, k) /\ v.t = At(T, k + 1)
       \/ /\ u.h = At(T, j) /\ u.t = At(T, k + 1)
          /\ v.h = At(T, i) /\ v.t = At(T, i + 1)

Entry == [type : {"UADD", "UDEL", "UMOV", "URET"}, h : Link, t : Link]

\* What entry j of the undo queue says of the texts before and after it: the
\* lines lo+1 to hi of the longer one are those the other one lacks.
StepOK(q, text, kind, long, lo, hi, j) ==
  \/ /\ kind[j] = "line"
     /\ IsText(long[j]) /\ lo[j] \in Nat /\ hi[j] \in Nat
     /\ lo[j] < hi[j] /\ hi[j] <= Len(long[j])
     /\ q[j].h = long[j][lo[j] + 1] /\ q[j].t = long[j][hi[j]]
     /\ \/ /\ q[j].type = "UADD"
           /\ text[j] = long[j] /\ text[j - 1] = Cut(long[j], lo[j], hi[j])
        \/ /\ q[j].type = "UDEL"
           /\ text[j - 1] = long[j] /\ text[j] = Cut(long[j], lo[j], hi[j])
  \/ /\ kind[j] = "from" /\ j < Len(q) /\ kind[j + 1] = "to"
     /\ q[j].type \in {"UMOV", "URET"}
     /\ Moves(text[j - 1], text[j + 1], q[j], q[j + 1])
  \/ /\ kind[j] = "to" /\ j > 1 /\ kind[j - 1] = "from"
     /\ q[j].type \in {"UMOV", "URET"}

Steps(q, heap, text, kind, long, lo, hi) ==
  /\ \A j \in 0 .. Len(q) : IsText(text[j]) /\ ToSet(text[j]) \subseteq heap
  /\ \A j \in 1 .. Len(q) : StepOK(q, text, kind, long, lo, hi, j)

Dels(q) == {j \in 1 .. Len(q) : q[j].type = "UDEL"}

\* Every line allocated is in the text, a ring, or in the range of just one
\* entry of the queue, with the links it had when it was deleted.
Owned(q, f, b, heap, T, long, lo, hi) ==
  /\ IsText(T) /\ Ring(f, b, T)
  /\ \A j \in Dels(q) : Frozen(f, b, long[j], lo[j], hi[j])
  /\ \A n \in Link : n \in heap <=> \/ n \in ToSet(T)
                                   \/ \E j \in Dels(q) : n \in Lines(long[j], lo[j], hi[j])
  /\ \A j \in Dels(q) : \A n \in Lines(long[j], lo[j], hi[j]) : n \notin ToSet(T)
  /\ \A i, j \in Dels(q) :
       i # j => \A n \in Lines(long[i], lo[i], hi[i]) : n \notin Lines(long[j], lo[j], hi[j])

\* The queue q tells how the present text T has come from T0.
Deque(q, f, b, heap, T, T0) ==
  /\ q \in Seq(Entry)
  /\ f \in [Link -> Link] /\ b \in [Link -> Link] /\ heap \subseteq Node
  /\ \E text, kind, long, lo, hi :
       /\ Steps(q, heap, text, kind, long, lo, hi)
       /\ Owned(q, f, b, heap, T, long, lo, hi)
       /\ text[Len(q)] = T /\ text[0] = T0

----------------------------------------------------------------------------
\* The nodes on a text.
LEMMA OnText ==
  ASSUME NEW T, IsText(T)
  PROVE  /\ \A n : n \in ToSet(T) <=> \E x \in 1 .. Len(T) : n = T[x]
         /\ ToSet(T) \subseteq Node /\ 0 \notin ToSet(T)
         /\ \A x \in Int : At(T, x) \in ToSet(T) \cup {0}
  <1>1. /\ T \in Seq(Node) /\ Len(T) \in Nat
        /\ \A x \in 1 .. Len(T) : T[x] \in Node /\ T[x] # 0
    BY TextFacts
  <1>2. DOMAIN T = 1 .. Len(T)
    BY <1>1
  <1>3. \A n : n \in ToSet(T) <=> \E x \in 1 .. Len(T) : n = T[x]
    BY <1>2 DEF ToSet
  <1>4. \A x \in Int : At(T, x) \in ToSet(T) \cup {0}
    BY <1>3 DEF At, line_head
  <1> QED
    BY <1>1, <1>3, <1>4

\* The lines of a range are on the text.
LEMMA LinesIn ==
  ASSUME NEW T, IsText(T), NEW i \in Nat, NEW j \in Nat, j <= Len(T)
  PROVE  /\ Lines(T, i, j) \subseteq ToSet(T)
         /\ Lines(T, i, j) \subseteq Node /\ Lines(T, i, j) \subseteq Link
         /\ 0 \notin Lines(T, i, j)
  <1>1. \A x \in i + 1 .. j : x \in 1 .. Len(T)
    BY TextFacts
  <1>2. Lines(T, i, j) \subseteq ToSet(T)
    BY <1>1, OnText DEF Lines
  <1>3. ToSet(T) \subseteq Node /\ 0 \notin ToSet(T)
    BY OnText
  <1> QED
    BY <1>2, <1>3 DEF Node, Link

\* The nodes left when lines are cut out.
LEMMA CutSet ==
  ASSUME NEW T, IsText(T), NEW i \in Nat, NEW j \in Nat, i < j, j <= Len(T)
  PROVE  \A n : n \in ToSet(Cut(T, i, j)) <=> n \in ToSet(T) /\ n \notin Lines(T, i, j)
  <1>1. /\ Len(T) \in Nat /\ \A x \in 1 .. Len(T) : At(T, x) = T[x]
        /\ \A x, y \in 1 .. Len(T) : T[x] = T[y] => x = y
    BY TextFacts DEF IsText
  <1>2. PICK C : C = Cut(T, i, j)
    OBVIOUS
  <1>3. /\ IsText(C) /\ Len(C) = Len(T) - (j - i)
        /\ \A x \in 0 .. i : At(C, x) = At(T, x)
        /\ \A x \in i + 1 .. Len(T) - (j - i) + 1 : At(C, x) = At(T, x + (j - i))
    <2>1. i <= j
      OBVIOUS
    <2>2. /\ IsText(Cut(T, i, j)) /\ Len(Cut(T, i, j)) = Len(T) - (j - i)
          /\ \A x \in 0 .. i : At(Cut(T, i, j), x) = At(T, x)
          /\ \A x \in i + 1 .. Len(T) - (j - i) + 1 :
               At(Cut(T, i, j), x) = At(T, x + (j - i))
      BY <2>1, CutText
    <2> QED
      BY <1>2, <2>2
  <1>4. \A x \in 1 .. Len(C) : At(C, x) = C[x]
    BY <1>3, TextFacts
  <1>5. ASSUME NEW x \in 1 .. Len(C)
        PROVE  \E y \in 1 .. Len(T) : C[x] = T[y] /\ y \notin i + 1 .. j
    <2>1. CASE x <= i
      <3>1. x \in 0 .. i /\ x \in 1 .. Len(T) /\ x \notin i + 1 .. j
        BY <1>1, <2>1
      <3> QED
        BY <1>1, <1>3, <1>4, <3>1
    <2>2. CASE x > i
      <3>1. PICK y \in 1 .. Len(T) : y = x + (j - i)
        BY <1>1, <1>3, <2>2
      <3>2. x \in i + 1 .. Len(T) - (j - i) + 1 /\ y \notin i + 1 .. j
        BY <1>1, <1>3, <2>2, <3>1
      <3> QED
        BY <1>1, <1>3, <1>4, <3>1, <3>2
    <2> QED
      BY <2>1, <2>2
  <1>6. ASSUME NEW y \in 1 .. Len(T), y \notin i + 1 .. j
        PROVE  \E x \in 1 .. Len(C) : C[x] = T[y]
    <2>1. CASE y <= i
      <3>1. y \in 0 .. i /\ y \in 1 .. Len(C)
        BY <1>1, <1>3, <2>1
      <3> QED
        BY <1>1, <1>3, <1>4, <3>1
    <2>2. CASE y > i
      <3>1. PICK x \in 1 .. Len(C) : x = y - (j - i) /\ y = x + (j - i)
        BY <1>1, <1>3, <1>6, <2>2
      <3>2. x \in i + 1 .. Len(T) - (j - i) + 1
        BY <1>1, <1>3, <1>6, <2>2, <3>1
      <3>3. At(C, x) = At(T, x + (j - i))
        BY <1>3, <3>2
      <3>4. At(C, x) = C[x] /\ At(T, y) = T[y]
        BY <1>1, <1>4, <3>1
      <3> QED
        BY <3>1, <3>3, <3>4
    <2> QED
      BY <1>1, <2>1, <2>2
  <1>7. \A n : n \in ToSet(C) <=> \E x \in 1 .. Len(C) : n = C[x]
    BY <1>3, OnText
  <1>8. \A n : n \in ToSet(T) <=> \E x \in 1 .. Len(T) : n = T[x]
    BY OnText
  <1>9. \A x \in i + 1 .. j : x \in 1 .. Len(T)
    BY <1>1
  <1>10. ASSUME NEW n PROVE n \in ToSet(C) <=> n \in ToSet(T) /\ n \notin Lines(T, i, j)
    <2>1. ASSUME n \in ToSet(C) PROVE n \in ToSet(T) /\ n \notin Lines(T, i, j)
      <3>1. PICK y \in 1 .. Len(T) : n = T[y] /\ y \notin i + 1 .. j
        BY <1>5, <1>7, <2>1
      <3>2. \A x \in i + 1 .. j : T[x] # n
        BY <1>1, <1>9, <3>1
      <3> QED
        BY <1>8, <3>1, <3>2 DEF Lines
    <2>2. ASSUME n \in ToSet(T), n \notin Lines(T, i, j) PROVE n \in ToSet(C)
      <3>1. PICK y \in 1 .. Len(T) : n = T[y]
        BY <1>8, <2>2
      <3>2. y \notin i + 1 .. j
        BY <2>2, <3>1 DEF Lines
      <3> QED
        BY <1>6, <1>7, <3>1, <3>2
    <2> QED
      BY <2>1, <2>2
  <1> QED
    BY <1>2, <1>10

\* The nodes there are when one is inserted.
LEMMA InsertSet ==
  ASSUME NEW T, IsText(T), NEW a \in 0 .. Len(T), NEW m \in Node,
         \A x \in 1 .. Len(T) : T[x] # m
  PROVE  \A n : n \in ToSet(Insert(T, a, m)) <=> n \in ToSet(T) \/ n = m
  <1>1. PICK C : C = Insert(T, a, m)
    OBVIOUS
  <1>2. /\ IsText(C) /\ Len(C) = Len(T) + 1 /\ At(C, a + 1) = m /\ Cut(C, a, a + 1) = T
    <2>1. /\ IsText(Insert(T, a, m)) /\ Len(Insert(T, a, m)) = Len(T) + 1
          /\ At(Insert(T, a, m), a + 1) = m /\ Cut(Insert(T, a, m), a, a + 1) = T
      BY InsertText
    <2> QED
      BY <1>1, <2>1
  <1>3. Len(T) \in Nat
    BY TextFacts
  <1>4. a \in Nat /\ a + 1 \in Nat /\ a < a + 1 /\ a + 1 <= Len(C) /\ a + 1 \in 1 .. Len(C)
    BY <1>2, <1>3
  <1>5. \A n : n \in ToSet(Cut(C, a, a + 1)) <=> n \in ToSet(C) /\ n \notin Lines(C, a, a + 1)
    BY <1>2, <1>4, CutSet
  <1>6. C[a + 1] = m
    BY <1>2, <1>4, TextFacts
  <1>7. Lines(C, a, a + 1) = {m}
    <2>1. a + 1 .. a + 1 = {a + 1}
      BY <1>4
    <2> QED
      BY <1>6, <2>1 DEF Lines
  <1>8. m \in ToSet(C)
    BY <1>2, <1>4, <1>6, OnText
  <1> QED
    BY <1>1, <1>2, <1>5, <1>7, <1>8

\* Exchanging ranges keeps the nodes.
LEMMA SwapSet ==
  ASSUME NEW T, IsText(T), NEW i \in Nat, NEW j \in Nat, NEW k \in Nat,
         i < j, j < k, k <= Len(T)
  PROVE  ToSet(Swap(T, i, j, k)) = ToSet(T)
  <1>1. Len(T) \in Nat /\ \A x \in 1 .. Len(T) : At(T, x) = T[x]
    BY TextFacts
  <1> DEFINE Goes(U, V) == \A x \in 1 .. Len(U) : \E y \in 1 .. Len(V) : U[x] = V[y]
  <1>2. ASSUME NEW l \in Nat, i < l, l < k,
               NEW U, IsText(U), Len(U) = Len(T)
        PROVE  Goes(Swap(U, i, l, k), U)
    <2>1. PICK C : C = Swap(U, i, l, k)
      OBVIOUS
    <2>2. /\ IsText(C) /\ Len(C) = Len(U)
          /\ \A x \in 0 .. Len(U) + 1 :
               At(C, x) = IF x <= i \/ x > k THEN At(U, x)
                          ELSE IF x <= i + (k - l) THEN At(U, x + (l - i))
                          ELSE At(U, x - (k - l))
      <3>1. k <= Len(U)
        BY <1>2
      <3>2. /\ IsText(Swap(U, i, l, k)) /\ Len(Swap(U, i, l, k)) = Len(U)
          /\ \A x \in 0 .. Len(U) + 1 :
               At(Swap(U, i, l, k), x)
                        = IF x <= i \/ x > k THEN At(U, x)
                          ELSE IF x <= i + (k - l) THEN At(U, x + (l - i))
                          ELSE At(U, x - (k - l))
        BY <1>2, <3>1, SwapText
      <3> QED
        BY <2>1, <3>2
    <2>3. ASSUME NEW x \in 1 .. Len(C) PROVE \E y \in 1 .. Len(U) : C[x] = U[y]
      <3>1. At(C, x) = C[x] /\ x \in 0 .. Len(U) + 1
        BY <1>1, <1>2, <2>2, TextFacts
      <3>2. \E y \in 1 .. Len(U) : At(C, x) = At(U, y)
        <4>1. CASE x <= i \/ x > k
          <5>1. At(C, x) = At(U, x)
            BY <2>2, <3>1, <4>1
          <5> QED
            BY <2>2, <5>1
        <4>2. CASE x > i /\ x <= k /\ x <= i + (k - l)
          <5>1. PICK y : y = x + (l - i)
            OBVIOUS
          <5>2. y \in 1 .. Len(U)
            BY <1>1, <1>2, <2>2, <4>2, <5>1
          <5>3. At(C, x) = At(U, y)
            BY <2>2, <3>1, <4>2, <5>1
          <5> QED
            BY <5>2, <5>3
        <4>3. CASE x > i /\ x <= k /\ x > i + (k - l)
          <5>1. PICK y : y = x - (k - l)
            OBVIOUS
          <5>2. y \in 1 .. Len(U)
            BY <1>1, <1>2, <2>2, <4>3, <5>1
          <5>3. At(C, x) = At(U, y)
            BY <2>2, <3>1, <4>3, <5>1
          <5> QED
            BY <5>2, <5>3
        <4> QED
          BY <1>1, <1>2, <2>2, <4>1, <4>2, <4>3
      <3> QED
        BY <1>2, <3>1, <3>2, TextFacts
    <2> QED
      BY <2>1, <2>3
  <1>3. PICK C : C = Swap(T, i, j, k)
    OBVIOUS
  <1>4. IsText(C) /\ Len(C) = Len(T) /\ Swap(C, i, i + (k - j), k) = T
    <2>1. IsText(Swap(T, i, j, k)) /\ Len(Swap(T, i, j, k)) = Len(T)
          /\ Swap(Swap(T, i, j, k), i, i + (k - j), k) = T
      BY SwapText
    <2> QED
      BY <1>3, <2>1
  <1>5. Goes(C, T)
    BY <1>2, <1>3
  <1>6. Goes(T, C)
    <2>1. PICK l \in Nat : l = i + (k - j) /\ i < l /\ l < k
      OBVIOUS
    <2>2. Goes(Swap(C, i, l, k), C)
      <3> HIDE DEF Goes
      <3> QED
        BY <1>2, <1>4, <2>1
    <2> QED
      BY <1>4, <2>1, <2>2
  <1>7. \A n : n \in ToSet(C) <=> n \in ToSet(T)
    <2>1. /\ \A n : n \in ToSet(C) <=> \E x \in 1 .. Len(C) : n = C[x]
          /\ \A n : n \in ToSet(T) <=> \E x \in 1 .. Len(T) : n = T[x]
      BY <1>4, OnText
    <2> QED
      BY <1>5, <1>6, <2>1
  <1> QED
    BY <1>3, <1>7

----------------------------------------------------------------------------
(* A queue with one more entry. *)

\* The function F on 0 .. k, and v at k + 1.
Ext(F, k, v) == [x \in 0 .. k + 1 |-> IF x = k + 1 THEN v ELSE F[x]]

\* The values of the longer function.
LEMMA ExtFacts ==
  ASSUME NEW F, NEW k \in Nat, NEW v
  PROVE  /\ Ext(F, k, v)[k + 1] = v
         /\ \A x \in 0 .. k : Ext(F, k, v)[x] = F[x]
  BY DEF Ext

\* Its last value, by a name for the place.
LEMMA ExtTop ==
  ASSUME NEW F, NEW k \in Nat, NEW v, NEW x, x = k + 1
  PROVE  Ext(F, k, v)[x] = v
  BY DEF Ext

\* Lines keep their links when only the links of others change.
LEMMA FrozenKept ==
  ASSUME NEW T, IsText(T), NEW i \in Nat, NEW j \in Nat, j <= Len(T),
         NEW f, NEW b, Frozen(f, b, T, i, j), NEW f2, NEW b2, NEW S, NEW R,
         Same(f, f2, S), Same(b, b2, R),
         \A n \in Lines(T, i, j) : n \notin S /\ n \notin R
  PROVE  Frozen(f2, b2, T, i, j)
  <1>1. ASSUME NEW x \in i + 1 .. j
        PROVE  f2[T[x]] = At(T, x + 1) /\ b2[T[x]] = At(T, x - 1)
    <2>1. T[x] \in Lines(T, i, j) /\ T[x] \in Link
      BY LinesIn DEF Lines
    <2>2. f2[T[x]] = f[T[x]] /\ b2[T[x]] = b[T[x]]
      BY <2>1 DEF Same
    <2> QED
      BY <2>2 DEF Frozen
  <1> QED
    BY <1>1 DEF Frozen

\* An entry says the same in a queue with the same beginning.
LEMMA StepKept ==
  ASSUME NEW q, NEW text, NEW kind, NEW long, NEW lo, NEW hi, Len(q) \in Nat,
         NEW q2, NEW text2, NEW kind2, NEW long2, NEW lo2, NEW hi2,
         NEW m \in 0 .. Len(q), Len(q2) \in Nat, m <= Len(q2),
         m = Len(q) \/ kind[m + 1] # "to",
         \A x \in 1 .. m : /\ q2[x] = q[x] /\ kind2[x] = kind[x] /\ long2[x] = long[x]
                           /\ lo2[x] = lo[x] /\ hi2[x] = hi[x],
         \A x \in 0 .. m : text2[x] = text[x],
         NEW j \in 1 .. m,
         StepOK(q, text, kind, long, lo, hi, j)
  PROVE  StepOK(q2, text2, kind2, long2, lo2, hi2, j)
  <1>1. /\ q2[j] = q[j] /\ kind2[j] = kind[j] /\ long2[j] = long[j]
        /\ lo2[j] = lo[j] /\ hi2[j] = hi[j] /\ text2[j] = text[j]
        /\ text2[j - 1] = text[j - 1] /\ j \in 1 .. Len(q)
    <2>1. j \in 0 .. m /\ j - 1 \in 0 .. m
      OBVIOUS
    <2> QED
      BY <2>1
  <1>2. CASE kind[j] = "line"
    BY <1>1, <1>2 DEF StepOK
  <1>3. CASE kind[j] = "from"
    <2>1. /\ j < Len(q) /\ kind[j + 1] = "to"
          /\ q[j].type \in {"UMOV", "URET"}
          /\ Moves(text[j - 1], text[j + 1], q[j], q[j + 1])
      BY <1>3 DEF StepOK
    <2>2. j < m
      BY <1>1, <2>1
    <2>3. j + 1 \in 1 .. m /\ j + 1 \in 0 .. m /\ j < Len(q2)
      BY <2>2
    <2>4. kind2[j + 1] = "to" /\ q2[j + 1] = q[j + 1] /\ text2[j + 1] = text[j + 1]
      BY <2>1, <2>3
    <2> QED
      BY <1>1, <1>3, <2>1, <2>3, <2>4 DEF StepOK
  <1>4. CASE kind[j] = "to"
    <2>1. j > 1 /\ kind[j - 1] = "from" /\ q[j].type \in {"UMOV", "URET"}
      BY <1>4 DEF StepOK
    <2>2. j - 1 \in 1 .. m
      BY <2>1
    <2>3. kind2[j - 1] = "from"
      BY <2>1, <2>2
    <2> QED
      BY <1>1, <1>4, <2>1, <2>3 DEF StepOK
  <1> QED
    BY <1>2, <1>3, <1>4 DEF StepOK

\* One more entry, of lines added or deleted.
LEMMA StepsMore ==
  ASSUME NEW q \in Seq(Entry), NEW heap, NEW text, NEW kind, NEW long, NEW lo, NEW hi,
         Steps(q, heap, text, kind, long, lo, hi),
         NEW heap2, heap \subseteq heap2, NEW u \in Entry,
         NEW T2, IsText(T2), ToSet(T2) \subseteq heap2,
         NEW L, IsText(L), NEW l \in Nat, NEW h \in Nat, l < h, h <= Len(L),
         u.h = L[l + 1], u.t = L[h],
         \/ u.type = "UADD" /\ T2 = L /\ text[Len(q)] = Cut(L, l, h)
         \/ u.type = "UDEL" /\ text[Len(q)] = L /\ T2 = Cut(L, l, h)
  PROVE  Steps(Append(q, u), heap2, Ext(text, Len(q), T2), Ext(kind, Len(q), "line"),
               Ext(long, Len(q), L), Ext(lo, Len(q), l), Ext(hi, Len(q), h))
  <1>1. PICK k \in Nat : k = Len(q)
    OBVIOUS
  <1>2. PICK q2 : q2 = Append(q, u)
    OBVIOUS
  <1>3. /\ Len(q2) = k + 1 /\ q2[k + 1] = u /\ \A x \in 1 .. k : q2[x] = q[x]
    BY <1>1, <1>2, AppendProperties
  <1>4. PICK t2, k2, g2, l2, h2 :
          /\ t2 = Ext(text, k, T2) /\ k2 = Ext(kind, k, "line") /\ g2 = Ext(long, k, L)
          /\ l2 = Ext(lo, k, l) /\ h2 = Ext(hi, k, h)
    OBVIOUS
  <1>5. /\ t2[k + 1] = T2 /\ k2[k + 1] = "line" /\ g2[k + 1] = L /\ l2[k + 1] = l /\ h2[k + 1] = h
        /\ \A x \in 0 .. k : /\ t2[x] = text[x] /\ k2[x] = kind[x] /\ g2[x] = long[x]
                             /\ l2[x] = lo[x] /\ h2[x] = hi[x]
    <2>1. t2[k + 1] = T2 /\ \A x \in 0 .. k : t2[x] = text[x]
      <3>1. Ext(text, k, T2)[k + 1] = T2 /\ \A x \in 0 .. k : Ext(text, k, T2)[x] = text[x]
        BY ExtFacts
      <3> QED
        BY <1>4, <3>1
    <2>2. k2[k + 1] = "line" /\ \A x \in 0 .. k : k2[x] = kind[x]
      BY <1>4, ExtFacts
    <2>3. g2[k + 1] = L /\ \A x \in 0 .. k : g2[x] = long[x]
      BY <1>4, ExtFacts
    <2>4. l2[k + 1] = l /\ \A x \in 0 .. k : l2[x] = lo[x]
      BY <1>4, ExtFacts
    <2>5. h2[k + 1] = h /\ \A x \in 0 .. k : h2[x] = hi[x]
      BY <1>4, ExtFacts
    <2> QED
      BY <2>1, <2>2, <2>3, <2>4, <2>5
  <1>6. ASSUME NEW j \in 0 .. Len(q2) PROVE IsText(t2[j]) /\ ToSet(t2[j]) \subseteq heap2
    <2>1. CASE j = k + 1
      BY <1>5, <2>1
    <2>2. CASE j \in 0 .. k
      BY <1>1, <1>5, <2>2 DEF Steps
    <2> QED
      BY <1>3, <2>1, <2>2
  <1>7. ASSUME NEW j \in 1 .. Len(q2) PROVE StepOK(q2, t2, k2, g2, l2, h2, j)
    <2>1. CASE j = k + 1
      <3>1. t2[j - 1] = text[k] /\ j - 1 = k
        BY <1>1, <1>5, <2>1
      <3> QED
        BY <1>1, <1>3, <1>5, <2>1, <3>1 DEF StepOK
    <2>2. CASE j \in 1 .. k
      <3>1. StepOK(q, text, kind, long, lo, hi, j)
        BY <1>1, <2>2 DEF Steps
      <3>2. \A x \in 1 .. k : /\ q2[x] = q[x] /\ k2[x] = kind[x] /\ g2[x] = long[x]
                              /\ l2[x] = lo[x] /\ h2[x] = hi[x]
        BY <1>3, <1>5
      <3>3. k \in 0 .. Len(q) /\ Len(q2) \in Nat /\ k <= Len(q2) /\ Len(q) \in Nat
        BY <1>1, <1>3
      <3>4. \A x \in 0 .. k : t2[x] = text[x]
        BY <1>5
      <3> QED
        BY <1>1, <2>2, <3>1, <3>2, <3>3, <3>4, StepKept
    <2> QED
      BY <1>3, <2>1, <2>2
  <1>8. Steps(q2, heap2, t2, k2, g2, l2, h2)
    BY <1>6, <1>7 DEF Steps
  <1> QED
    BY <1>1, <1>2, <1>4, <1>8

\* The parts of a Deque.
LEMMA DequeParts ==
  ASSUME NEW q, NEW f, NEW b, NEW heap, NEW T, NEW T0, Deque(q, f, b, heap, T, T0)
  PROVE  /\ q \in Seq(Entry) /\ Len(q) \in Nat
         /\ f \in [Link -> Link] /\ b \in [Link -> Link] /\ heap \subseteq Node
         /\ \A j \in 1 .. Len(q) : q[j] \in Entry
         /\ \E text, kind, long, lo, hi :
              /\ Steps(q, heap, text, kind, long, lo, hi)
              /\ Owned(q, f, b, heap, T, long, lo, hi)
              /\ text[Len(q)] = T /\ text[0] = T0
         /\ IsText(T) /\ IsText(T0) /\ Ring(f, b, T)
         /\ ToSet(T) \subseteq heap /\ ToSet(T0) \subseteq heap
  <1>1. q \in Seq(Entry) /\ Len(q) \in Nat
    BY DEF Deque
  <1>2. PICK text, kind, long, lo, hi :
              /\ Steps(q, heap, text, kind, long, lo, hi)
              /\ Owned(q, f, b, heap, T, long, lo, hi)
              /\ text[Len(q)] = T /\ text[0] = T0
    BY DEF Deque
  <1>3. Len(q) \in 0 .. Len(q) /\ 0 \in 0 .. Len(q)
    BY <1>1
  <1>4. /\ IsText(T) /\ IsText(T0) /\ Ring(f, b, T)
        /\ ToSet(T) \subseteq heap /\ ToSet(T0) \subseteq heap
    BY <1>2, <1>3 DEF Steps, Owned
  <1> QED
    BY <1>1, <1>2, <1>4 DEF Deque

\* An entry of added or deleted lines knows which.
LEMMA DelsLine ==
  ASSUME NEW q \in Seq(Entry), NEW heap, NEW text, NEW kind, NEW long, NEW lo, NEW hi,
         Steps(q, heap, text, kind, long, lo, hi), NEW j \in Dels(q)
  PROVE  /\ j \in 1 .. Len(q) /\ kind[j] = "line" /\ IsText(long[j])
         /\ lo[j] \in Nat /\ hi[j] \in Nat /\ lo[j] < hi[j] /\ hi[j] <= Len(long[j])
         /\ q[j].h = long[j][lo[j] + 1] /\ q[j].t = long[j][hi[j]]
         /\ text[j - 1] = long[j]
  <1>1. j \in 1 .. Len(q) /\ q[j].type = "UDEL" /\ StepOK(q, text, kind, long, lo, hi, j)
    BY DEF Dels, Steps
  <1> QED
    BY <1>1 DEF StepOK

----------------------------------------------------------------------------
(* What changes of links and of the heap leave as it was. *)

\* A deque with nothing to undo.
LEMMA DequeEmpty ==
  ASSUME NEW T, IsText(T), NEW f \in [Link -> Link], NEW b \in [Link -> Link], Ring(f, b, T)
  PROVE  Deque(<<>>, f, b, ToSet(T), T, T)
  <1> DEFINE q == <<>>
             text == [x \in {0} |-> T]
             none == [x \in {0} |-> 0]
  <1>1. q \in Seq(Entry) /\ Len(q) = 0 /\ Dels(q) = {}
    BY DEF Dels
  <1>2. ToSet(T) \subseteq Node /\ 0 \notin ToSet(T) /\ Node \subseteq Link
    <2>1. ToSet(T) \subseteq Node /\ 0 \notin ToSet(T)
      BY OnText
    <2>2. Node \subseteq Link
      BY DEF Node, Link
    <2> QED
      BY <2>1, <2>2
  <1>3. \A j \in 0 .. 0 : text[j] = T
    OBVIOUS
  <1>4. text[Len(q)] = T /\ text[0] = T
    BY <1>1, <1>3
  <1> HIDE DEF q, text, none
  <1>5. Steps(q, ToSet(T), text, none, none, none, none)
    BY <1>1, <1>3 DEF Steps
  <1>6. Owned(q, f, b, ToSet(T), T, none, none, none)
    BY <1>1 DEF Owned
  <1>7. Deque(q, f, b, ToSet(T), T, T)
    BY <1>1, <1>2, <1>4, <1>5, <1>6 DEF Deque
  <1> QED
    BY <1>7 DEF q

\* The ranges of a queue are ranges of texts; another queue has the same.
Ranged(q, long, lo, hi) ==
  \A j \in Dels(q) : /\ IsText(long[j]) /\ lo[j] \in Nat /\ hi[j] \in Nat
                     /\ hi[j] <= Len(long[j])
Alike(q, long, lo, hi, q2, long2, lo2, hi2) ==
  /\ Dels(q2) = Dels(q)
  /\ \A j \in Dels(q) : long2[j] = long[j] /\ lo2[j] = lo[j] /\ hi2[j] = hi[j]

\* The links of a node of S are not those of a deleted line.
Apart(S, T, heap) == \A n \in S : n \in ToSet(T) \/ n = 0 \/ n \notin heap

\* The lines N have been allocated and added to the text.
Grown(heap, T, heap2, T2, N) ==
  /\ N \cap heap = {}
  /\ \A n \in Link : n \in heap2 <=> n \in heap \/ n \in N
  /\ \A n \in Link : n \in ToSet(T2) <=> n \in ToSet(T) \/ n \in N

\* The ranges of the queue are untouched when only links of lines of the text,
\* of line_head and of lines that were free change.
LEMMA OwnedKept ==
  ASSUME NEW q, NEW f, NEW b, NEW heap, NEW T, NEW long, NEW lo, NEW hi,
         Owned(q, f, b, heap, T, long, lo, hi), Ranged(q, long, lo, hi),
         NEW q2, NEW long2, NEW lo2, NEW hi2,
         Alike(q, long, lo, hi, q2, long2, lo2, hi2),
         NEW f2, NEW b2, NEW S, NEW R, Same(f, f2, S), Same(b, b2, R),
         Apart(S, T, heap), Apart(R, T, heap),
         NEW T2, IsText(T2), Ring(f2, b2, T2), NEW N, NEW heap2,
         Grown(heap, T, heap2, T2, N)
  PROVE  Owned(q2, f2, b2, heap2, T2, long2, lo2, hi2)
  <1> USE DEF Ranged, Alike, Apart, Grown
  <1>1. ASSUME NEW j \in Dels(q), NEW n \in Lines(long[j], lo[j], hi[j])
        PROVE  n \in Link /\ n # 0 /\ n \in heap /\ n \notin ToSet(T) /\ n \notin N /\ n \notin S /\ n \notin R
    <2>1. n \in Link /\ n # 0
      BY LinesIn
    <2>2. n \in heap /\ n \notin ToSet(T)
      BY <2>1 DEF Owned
    <2> QED
      BY <2>1, <2>2
  <1>2. ASSUME NEW j \in Dels(q2) PROVE Frozen(f2, b2, long2[j], lo2[j], hi2[j])
    <2>1. Frozen(f, b, long[j], lo[j], hi[j]) /\ IsText(long[j]) /\ lo[j] \in Nat /\ hi[j] \in Nat
          /\ hi[j] <= Len(long[j])
      BY DEF Owned
    <2>2. \A n \in Lines(long[j], lo[j], hi[j]) : n \notin S /\ n \notin R
      BY <1>1
    <2>3. Frozen(f2, b2, long[j], lo[j], hi[j])
      BY <2>1, <2>2, FrozenKept
    <2> QED
      BY <2>3
  <1>3. ASSUME NEW n \in Link
        PROVE  n \in heap2 <=> \/ n \in ToSet(T2)
                               \/ \E j \in Dels(q2) : n \in Lines(long2[j], lo2[j], hi2[j])
    <2>1. n \in heap <=> \/ n \in ToSet(T)
                         \/ \E j \in Dels(q) : n \in Lines(long[j], lo[j], hi[j])
      BY DEF Owned
    <2> QED
      BY <2>1
  <1>4. ASSUME NEW j \in Dels(q2), NEW n \in Lines(long2[j], lo2[j], hi2[j]) PROVE n \notin ToSet(T2)
    <2>1. n \in Lines(long[j], lo[j], hi[j]) /\ j \in Dels(q)
      OBVIOUS
    <2> QED
      BY <1>1, <2>1
  <1>5. \A i, j \in Dels(q2) :
       i # j => \A n \in Lines(long2[i], lo2[i], hi2[i]) : n \notin Lines(long2[j], lo2[j], hi2[j])
    BY DEF Owned
  <1> QED
    BY <1>2, <1>3, <1>4, <1>5 DEF Owned

\* The text with line n after line a is a ring once n is linked in there.
LEMMA InsertRing ==
  ASSUME NEW T, IsText(T), NEW a \in 0 .. Len(T), NEW n \in Node,
         \A x \in 1 .. Len(T) : T[x] # n,
         NEW f, NEW b, Ring(f, b, T),
         NEW f2, NEW b2,
         f2[n] = At(T, a + 1), f2[At(T, a)] = n, Same(f, f2, {n, At(T, a)}),
         b2[n] = At(T, a), b2[At(T, a + 1)] = n, Same(b, b2, {n, At(T, a + 1)})
  PROVE  Ring(f2, b2, Insert(T, a, n))
  <1>1. PICK L : L = Insert(T, a, n)
    OBVIOUS
  <1>2. Len(T) \in Nat
    BY TextFacts
  <1>3. /\ IsText(L) /\ Len(L) = Len(T) + 1 /\ \A x \in 0 .. a : At(L, x) = At(T, x)
        /\ At(L, a + 1) = n /\ \A x \in a + 2 .. Len(T) + 2 : At(L, x) = At(T, x - 1)
        /\ Cut(L, a, a + 1) = T
    BY <1>1, InsertText
  <1>4. /\ a \in Nat /\ a + 1 \in Nat /\ a < a + 1 /\ a + 1 <= Len(L) /\ a + 1 \in 1 .. Len(L)
        /\ a \in 0 .. a /\ a + 2 \in a + 2 .. Len(T) + 2 /\ a + 2 - 1 = a + 1 /\ a + 1 + 1 = a + 2
        /\ a + 1 - 1 = a
    BY <1>2, <1>3
  <1>5. L[a + 1] = n /\ At(L, a) = At(T, a) /\ At(L, a + 2) = At(T, a + 1)
    <2>1. At(L, a + 2) = At(T, a + 2 - 1)
      BY <1>3, <1>4
    <2> QED
      BY <1>3, <1>4, <2>1, TextFacts
  <1>6. Lines(L, a, a + 1) = {n}
    <2>1. a + 1 .. a + 1 = {a + 1}
      BY <1>4
    <2> QED
      BY <1>5, <2>1 DEF Lines
  <1>7. Frozen(f2, b2, L, a, a + 1)
    <2>1. \A x \in a + 1 .. a + 1 : x = a + 1
      BY <1>4
    <2> QED
      BY <1>4, <1>5, <2>1 DEF Frozen
  <1>8. {At(L, a)} \cup Lines(L, a, a + 1) = {n, At(T, a)}
        /\ {At(L, a + 1 + 1)} \cup Lines(L, a, a + 1) = {n, At(T, a + 1)}
    BY <1>4, <1>5, <1>6
  <1>9. Ring(f, b, Cut(L, a, a + 1)) /\ Same(f, f2, {At(L, a)} \cup Lines(L, a, a + 1))
        /\ Same(b, b2, {At(L, a + 1 + 1)} \cup Lines(L, a, a + 1))
        /\ f2[At(L, a)] = L[a + 1] /\ b2[At(L, a + 1 + 1)] = L[a + 1]
    BY <1>3, <1>4, <1>5, <1>8
  <1>10. Ring(f2, b2, L)
    BY <1>3, <1>4, <1>7, <1>9, JoinRing
  <1> QED
    BY <1>1, <1>10

\* Cutting a range cuts the line inserted after its last one with it.
LEMMA CutInsert ==
  ASSUME NEW T, IsText(T), NEW a \in 1 .. Len(T), NEW l \in Nat, l < a, NEW n \in Node
  PROVE  Cut(Insert(T, a, n), l, a + 1) = Cut(T, l, a)
  <1>1. Len(T) \in Nat /\ T \in Seq(Node) /\ DOMAIN T = 1 .. Len(T)
    BY TextFacts
  <1>2. PICK C : C = Insert(T, a, n)
    OBVIOUS
  <1>3. /\ C = [x \in 1 .. Len(T) + 1 |->
                 IF x <= a THEN T[x] ELSE IF x = a + 1 THEN n ELSE T[x - 1]]
    BY <1>2 DEF Insert
  <1>4. Len(C) = Len(T) + 1
    <2>1. C \in [1 .. Len(T) + 1 -> Node]
      <3>1. \A x \in 1 .. Len(T) : T[x] \in Node
        BY <1>1
      <3>2. \A x \in 1 .. Len(T) + 1 : x <= a => x \in 1 .. Len(T)
        BY <1>1
      <3>3. \A x \in 1 .. Len(T) + 1 : ~ (x <= a) /\ x # a + 1 => x - 1 \in 1 .. Len(T)
        BY <1>1
      <3> QED
        BY <1>3, <3>1, <3>2, <3>3
    <2>2. Len(T) + 1 \in Nat
      BY <1>1
    <2> QED
      BY <2>1, <2>2, FunctionSeq
  <1>5. PICK m \in Nat : m = Len(T) - (a - l) /\ m = Len(C) - (a + 1 - l)
    <2>1. Len(T) \in Nat
      BY TextFacts
    <2>2. PICK t \in Nat : t = Len(T)
      BY <2>1
    <2>3. a \in 1 .. t
      BY <2>2
    <2>4. t - (a - l) \in Nat /\ t - (a - l) = t + 1 - (a + 1 - l)
      BY <2>3
    <2>5. Len(C) = t + 1
      BY <1>4, <2>2
    <2>6. Len(T) - (a - l) \in Nat /\ Len(T) - (a - l) = Len(C) - (a + 1 - l)
      BY <2>2, <2>4, <2>5
    <2> QED
      BY <2>6
  <1>6. /\ Cut(C, l, a + 1) = [x \in 1 .. m |-> IF x <= l THEN C[x] ELSE C[x + (a + 1 - l)]]
        /\ Cut(T, l, a) = [x \in 1 .. m |-> IF x <= l THEN T[x] ELSE T[x + (a - l)]]
    BY <1>5 DEF Cut
  <1>7. ASSUME NEW x \in 1 .. m
        PROVE  (IF x <= l THEN C[x] ELSE C[x + (a + 1 - l)]) = (IF x <= l THEN T[x] ELSE T[x + (a - l)])
    <2>1. CASE x <= l
      <3>1. x \in 1 .. Len(T) + 1 /\ x <= a
        BY <1>1, <1>5, <2>1
      <3> QED
        BY <1>3, <2>1, <3>1
    <2>2. CASE ~ (x <= l)
      <3>1. PICK y \in 1 .. Len(T) + 1 : y = x + (a + 1 - l) /\ y - 1 = x + (a - l) /\ ~ (y <= a) /\ y # a + 1
        BY <1>1, <1>5, <2>2
      <3>2. C[y] = T[y - 1]
        BY <1>3, <3>1
      <3> QED
        BY <2>2, <3>1, <3>2
    <2> QED
      BY <2>1, <2>2
  <1> QED
    BY <1>2, <1>6, <1>7

----------------------------------------------------------------------------
(* Lines are added: a new entry, or one more line for the newest. *)

\* Node n has been linked into the deque after line a.
InsertedLinks(f, b, f2, b2, T, a, n) ==
  /\ f2 \in [Link -> Link] /\ b2 \in [Link -> Link]
  /\ f2[n] = At(T, a + 1) /\ f2[At(T, a)] = n /\ Same(f, f2, {n, At(T, a)})
  /\ b2[n] = At(T, a) /\ b2[At(T, a + 1)] = n /\ Same(b, b2, {n, At(T, a + 1)})

\* Entry k is the newest, of added lines, and ends with line a; in the queue
\* q2 it ends with node n.
EndsAt(q, k, T, a) ==
  /\ k \in Nat /\ k # 0 /\ k = Len(q) /\ q[k].type = "UADD"
  /\ a \in 1 .. Len(T) /\ q[k].t = T[a]
Longer(q, q2, k, n) ==
  /\ q2 \in Seq(Entry) /\ Len(q2) = k /\ \A x \in 1 .. k - 1 : q2[x] = q[x]
  /\ q2[k].type = "UADD" /\ q2[k].h = q[k].h /\ q2[k].t = n

\* The deleting entries of the queue with one more entry.
LEMMA DelsAppend ==
  ASSUME NEW q \in Seq(Entry), NEW u \in Entry
  PROVE  Dels(Append(q, u)) = IF u.type = "UDEL" THEN Dels(q) \cup {Len(q) + 1} ELSE Dels(q)
  <1>1. PICK k \in Nat : k = Len(q)
    OBVIOUS
  <1>2. PICK r : r = Append(q, u)
    OBVIOUS
  <1>3. Len(r) = k + 1 /\ r[k + 1] = u /\ \A x \in 1 .. k : r[x] = q[x]
    BY <1>1, <1>2, AppendProperties
  <1>4. \A j \in 1 .. k + 1 : j = k + 1 \/ j \in 1 .. k
    OBVIOUS
  <1>5. k + 1 \in 1 .. k + 1 /\ \A j \in 1 .. k : j \in 1 .. k + 1 /\ j # k + 1
    OBVIOUS
  <1>6. \A j : j \in Dels(r) <=> j \in 1 .. k + 1 /\ r[j].type = "UDEL"
    BY <1>3 DEF Dels
  <1>7. \A j : j \in Dels(q) <=> j \in 1 .. k /\ q[j].type = "UDEL"
    BY <1>1 DEF Dels
  <1>8. CASE u.type = "UDEL"
    <2>1. \A j : j \in Dels(r) <=> j \in Dels(q) \/ j = k + 1
      BY <1>3, <1>4, <1>5, <1>6, <1>7, <1>8
    <2> QED
      BY <1>1, <1>2, <1>8, <2>1
  <1>9. CASE u.type # "UDEL"
    <2>1. \A j : j \in Dels(r) <=> j \in Dels(q)
      BY <1>3, <1>4, <1>5, <1>6, <1>7, <1>9
    <2> QED
      BY <1>1, <1>2, <1>9, <2>1
  <1> QED
    BY <1>8, <1>9

\* A line is added, and an entry that says so.
LEMMA AddLine ==
  ASSUME NEW q, NEW f, NEW b, NEW heap, NEW T, NEW T0, Deque(q, f, b, heap, T, T0),
         NEW a \in 0 .. Len(T), NEW n \in Node, n \notin heap,
         NEW f2 \in [Link -> Link], NEW b2 \in [Link -> Link],
         f2[n] = At(T, a + 1), f2[At(T, a)] = n, Same(f, f2, {n, At(T, a)}),
         b2[n] = At(T, a), b2[At(T, a + 1)] = n, Same(b, b2, {n, At(T, a + 1)}),
         NEW u \in Entry, u.type = "UADD", u.h = n, u.t = n
  PROVE  Deque(Append(q, u), f2, b2, heap \cup {n}, Insert(T, a, n), T0)
  <1>1. /\ q \in Seq(Entry) /\ Len(q) \in Nat /\ heap \subseteq Node
        /\ IsText(T) /\ Ring(f, b, T) /\ ToSet(T) \subseteq heap
    BY DequeParts
  <1>2. PICK text, kind, long, lo, hi :
              /\ Steps(q, heap, text, kind, long, lo, hi)
              /\ Owned(q, f, b, heap, T, long, lo, hi)
              /\ text[Len(q)] = T /\ text[0] = T0
    BY DequeParts
  <1>3. Len(T) \in Nat /\ \A x \in 1 .. Len(T) : T[x] # n
    BY <1>1, OnText, TextFacts
  <1>4. PICK L : L = Insert(T, a, n)
    OBVIOUS
  <1>5. /\ IsText(L) /\ Len(L) = Len(T) + 1 /\ At(L, a + 1) = n /\ Cut(L, a, a + 1) = T
        /\ Ring(f2, b2, L) /\ \A x : x \in ToSet(L) <=> x \in ToSet(T) \/ x = n
    <2>1. /\ IsText(Insert(T, a, n)) /\ Len(Insert(T, a, n)) = Len(T) + 1
          /\ At(Insert(T, a, n), a + 1) = n /\ Cut(Insert(T, a, n), a, a + 1) = T
      BY <1>1, <1>3, InsertText
    <2>2. Ring(f2, b2, Insert(T, a, n))
      BY <1>1, <1>3, InsertRing
    <2>3. \A x : x \in ToSet(Insert(T, a, n)) <=> x \in ToSet(T) \/ x = n
      BY <1>1, <1>3, InsertSet
    <2> QED
      BY <1>4, <2>1, <2>2, <2>3
  <1>6. a \in Nat /\ a + 1 \in Nat /\ a < a + 1 /\ a + 1 <= Len(L) /\ a + 1 \in 1 .. Len(L)
    BY <1>3, <1>5
  <1>7. u.h = L[a + 1] /\ u.t = L[a + 1]
    BY <1>5, <1>6, TextFacts
  <1>8. heap \subseteq heap \cup {n} /\ ToSet(L) \subseteq heap \cup {n} /\ heap \cup {n} \subseteq Node
    BY <1>1, <1>5
  <1> DEFINE k == Len(q)
             q2 == Append(q, u)
             t2 == Ext(text, k, L)
             k2 == Ext(kind, k, "line")
             g2 == Ext(long, k, L)
             l2 == Ext(lo, k, a)
             h2 == Ext(hi, k, a + 1)
  <1>9. Steps(q2, heap \cup {n}, t2, k2, g2, l2, h2)
    BY <1>1, <1>2, <1>5, <1>6, <1>7, <1>8, StepsMore
  <1>10. t2[k + 1] = L /\ t2[0] = T0
    <2>1. 0 \in 0 .. k
      BY <1>1
    <2> QED
      BY <1>1, <1>2, <2>1, ExtFacts
  <1>11. q2 \in Seq(Entry) /\ Len(q2) = k + 1
    BY <1>1, AppendProperties
  <1>12. Dels(q2) = Dels(q)
    BY <1>1, DelsAppend
  <1>13. \A j \in Dels(q) : g2[j] = long[j] /\ l2[j] = lo[j] /\ h2[j] = hi[j]
    <2>1. \A j \in Dels(q) : j \in 0 .. k
      BY <1>1 DEF Dels
    <2>2. \A j \in 0 .. k : g2[j] = long[j]
      BY <1>1, ExtFacts
    <2>3. \A j \in 0 .. k : l2[j] = lo[j]
      BY <1>1, ExtFacts
    <2>4. \A j \in 0 .. k : h2[j] = hi[j]
      BY <1>1, ExtFacts
    <2> QED
      BY <2>1, <2>2, <2>3, <2>4
  <1>14. \A j \in Dels(q) : /\ IsText(long[j]) /\ lo[j] \in Nat /\ hi[j] \in Nat
                            /\ hi[j] <= Len(long[j])
    BY <1>1, <1>2, DelsLine
  <1>15. \A x \in {n, At(T, a)} \cup {n, At(T, a + 1)} : x \in ToSet(T) \/ x = 0 \/ x \notin heap
    <2>1. At(T, a) \in ToSet(T) \cup {0} /\ At(T, a + 1) \in ToSet(T) \cup {0}
      BY <1>1, <1>6, OnText
    <2> QED
      BY <2>1
  <1>16. Owned(q2, f2, b2, heap \cup {n}, L, g2, l2, h2)
    <2>1. /\ {n} \cap heap = {} /\ \A x \in Link : x \in heap \cup {n} <=> x \in heap \/ x \in {n}
          /\ \A x \in Link : x \in ToSet(L) <=> x \in ToSet(T) \/ x \in {n}
      BY <1>5
    <2> HIDE DEF q2, t2, k2, g2, l2, h2
    <2>2. Alike(q, long, lo, hi, q2, g2, l2, h2) /\ Ranged(q, long, lo, hi)
      BY <1>12, <1>13, <1>14 DEF Alike, Ranged
    <2>3. Apart({n, At(T, a)}, T, heap) /\ Apart({n, At(T, a + 1)}, T, heap)
      BY <1>15 DEF Apart
    <2>4. Grown(heap, T, heap \cup {n}, L, {n})
      BY <2>1 DEF Grown
    <2> QED
      BY <1>2, <1>5, <2>2, <2>3, <2>4, OwnedKept
  <1> HIDE DEF q2, t2, k2, g2, l2, h2
  <1>17. Deque(q2, f2, b2, heap \cup {n}, L, T0)
    BY <1>8, <1>9, <1>10, <1>11, <1>16 DEF Deque
  <1> QED
    BY <1>4, <1>17 DEF q2

\* One more line is added to those of the last entry.
LEMMA ExtendLine ==
  ASSUME NEW q, NEW f, NEW b, NEW heap, NEW T, NEW T0, Deque(q, f, b, heap, T, T0),
         NEW k, NEW a, EndsAt(q, k, T, a), NEW n \in Node, n \notin heap,
         NEW f2, NEW b2, InsertedLinks(f, b, f2, b2, T, a, n),
         NEW q2, Longer(q, q2, k, n)
  PROVE  Deque(q2, f2, b2, heap \cup {n}, Insert(T, a, n), T0)
  <1>0. /\ k \in Nat /\ k = Len(q) /\ k # 0 /\ q[k].type = "UADD"
        /\ a \in 1 .. Len(T) /\ q[k].t = T[a]
        /\ f2 \in [Link -> Link] /\ b2 \in [Link -> Link]
        /\ f2[n] = At(T, a + 1) /\ f2[At(T, a)] = n /\ Same(f, f2, {n, At(T, a)})
        /\ b2[n] = At(T, a) /\ b2[At(T, a + 1)] = n /\ Same(b, b2, {n, At(T, a + 1)})
        /\ q2 \in Seq(Entry) /\ Len(q2) = k /\ (\A x \in 1 .. k - 1 : q2[x] = q[x])
        /\ q2[k].type = "UADD" /\ q2[k].h = q[k].h /\ q2[k].t = n
    BY DEF EndsAt, InsertedLinks, Longer
  <1> USE <1>0
  <1>1. /\ q \in Seq(Entry) /\ heap \subseteq Node
        /\ IsText(T) /\ Ring(f, b, T) /\ ToSet(T) \subseteq heap
    BY DequeParts
  <1>2. PICK text, kind, long, lo, hi :
              /\ Steps(q, heap, text, kind, long, lo, hi)
              /\ Owned(q, f, b, heap, T, long, lo, hi)
              /\ text[k] = T /\ text[0] = T0
    BY DequeParts
  <1>3. Len(T) \in Nat /\ \A x \in 1 .. Len(T) : T[x] # n
    BY <1>1, OnText, TextFacts
  <1>4. PICK L : L = Insert(T, a, n)
    OBVIOUS
  <1>5. /\ IsText(L) /\ Len(L) = Len(T) + 1 /\ At(L, a + 1) = n
        /\ \A x \in 0 .. a : At(L, x) = At(T, x)
        /\ Ring(f2, b2, L) /\ \A x : x \in ToSet(L) <=> x \in ToSet(T) \/ x = n
    <2>0. a \in 0 .. Len(T)
      BY <1>3
    <2>1. /\ IsText(Insert(T, a, n)) /\ Len(Insert(T, a, n)) = Len(T) + 1
          /\ At(Insert(T, a, n), a + 1) = n
          /\ \A x \in 0 .. a : At(Insert(T, a, n), x) = At(T, x)
      BY <1>1, <1>3, <2>0, InsertText
    <2>2. Ring(f2, b2, Insert(T, a, n))
      BY <1>1, <1>3, <2>0, InsertRing
    <2>3. \A x : x \in ToSet(Insert(T, a, n)) <=> x \in ToSet(T) \/ x = n
      BY <1>1, <1>3, <2>0, InsertSet
    <2> QED
      BY <1>4, <2>1, <2>2, <2>3
  <1>6. a \in Nat /\ a + 1 \in Nat /\ a + 1 <= Len(L) /\ a + 1 \in 1 .. Len(L) /\ k \in 1 .. k
    BY <1>3, <1>5
  <1>7. /\ kind[k] = "line" /\ long[k] = T /\ lo[k] \in Nat /\ hi[k] \in 1 .. Len(T)
        /\ lo[k] < hi[k] /\ q[k].h = T[lo[k] + 1] /\ q[k].t = T[hi[k]]
        /\ text[k - 1] = Cut(T, lo[k], hi[k])
    <2>1. StepOK(q, text, kind, long, lo, hi, k)
      BY <1>2, <1>6 DEF Steps
    <2>2. /\ kind[k] = "line" /\ long[k] = T /\ lo[k] \in Nat /\ hi[k] \in Nat
        /\ lo[k] < hi[k] /\ hi[k] <= Len(T) /\ q[k].h = T[lo[k] + 1] /\ q[k].t = T[hi[k]]
        /\ text[k - 1] = Cut(T, lo[k], hi[k])
      BY <1>2, <2>1 DEF StepOK
    <2> QED
      BY <1>3, <2>2
  <1>8. PICK l \in Nat : l = lo[k] /\ l < a /\ hi[k] = a
    BY <1>1, <1>7 DEF IsText
  <1>9. /\ l + 1 \in 1 .. Len(L) /\ l + 1 \in 1 .. Len(T) /\ l + 1 \in 0 .. a /\ l < a + 1
    BY <1>3, <1>5, <1>8
  <1>10. q2[k].h = L[l + 1] /\ q2[k].t = L[a + 1]
    <2>1. At(L, l + 1) = At(T, l + 1) /\ At(L, l + 1) = L[l + 1] /\ At(T, l + 1) = T[l + 1]
          /\ At(L, a + 1) = L[a + 1]
      BY <1>1, <1>5, <1>6, <1>9, TextFacts
    <2> QED
      BY <1>5, <1>7, <1>8, <2>1
  <1>11. text[k - 1] = Cut(L, l, a + 1)
    BY <1>1, <1>4, <1>7, <1>8, CutInsert
  <1>12. heap \subseteq heap \cup {n} /\ ToSet(L) \subseteq heap \cup {n} /\ heap \cup {n} \subseteq Node
    BY <1>1, <1>5
  <1>13. PICK m \in Nat : m = k - 1 /\ k = m + 1
    <2>1. k - 1 \in Nat /\ k = k - 1 + 1
      BY <1>6
    <2> QED
      BY <2>1
  <1> DEFINE t2 == Ext(text, m, L)
             k2 == Ext(kind, m, "line")
             g2 == Ext(long, m, L)
             l2 == Ext(lo, m, l)
             h2 == Ext(hi, m, a + 1)
  <1>14. /\ t2[k] = L /\ \A x \in 0 .. m : t2[x] = text[x]
    <2>1. t2[m + 1] = L /\ \A x \in 0 .. m : t2[x] = text[x]
      BY ExtFacts
    <2> QED
      BY <1>13, <2>1
  <1>15. k2[k] = "line" /\ g2[k] = L /\ l2[k] = l /\ h2[k] = a + 1
    BY <1>13, ExtTop
  <1>16. \A x \in 0 .. m : k2[x] = kind[x] /\ g2[x] = long[x] /\ l2[x] = lo[x] /\ h2[x] = hi[x]
    <2>1. \A x \in 0 .. m : k2[x] = kind[x]
      BY ExtFacts
    <2>2. \A x \in 0 .. m : g2[x] = long[x]
      BY ExtFacts
    <2>3. \A x \in 0 .. m : l2[x] = lo[x]
      BY ExtFacts
    <2>4. \A x \in 0 .. m : h2[x] = hi[x]
      BY ExtFacts
    <2> QED
      BY <2>1, <2>2, <2>3, <2>4
  <1> HIDE DEF t2, k2, g2, l2, h2
  <1>17. Steps(q2, heap \cup {n}, t2, k2, g2, l2, h2)
    <2>1. ASSUME NEW j \in 0 .. k PROVE IsText(t2[j]) /\ ToSet(t2[j]) \subseteq heap \cup {n}
      <3>1. CASE j = k
        BY <1>5, <1>12, <1>14, <3>1
      <3>2. CASE j \in 0 .. m
        BY <1>2, <1>14, <3>2 DEF Steps
      <3> QED
        BY <1>13, <3>1, <3>2
    <2>2. ASSUME NEW j \in 1 .. k PROVE StepOK(q2, t2, k2, g2, l2, h2, j)
      <3>1. CASE j = k
        <4>1. t2[j - 1] = text[k - 1]
          <5>1. j - 1 = m /\ k - 1 = m /\ m \in 0 .. m
            BY <1>13, <3>1
          <5> QED
            BY <1>14, <5>1
        <4> QED
          BY <1>5, <1>6, <1>8, <1>9, <1>10, <1>11, <1>14, <1>15, <3>1, <4>1 DEF StepOK
      <3>2. CASE j \in 1 .. m
        <4>1. StepOK(q, text, kind, long, lo, hi, j)
          BY <1>2, <1>13, <3>2 DEF Steps
        <4>2. /\ Len(q) \in Nat /\ Len(q2) \in Nat /\ m \in 0 .. Len(q) /\ m <= Len(q2)
              /\ kind[m + 1] # "to"
          BY <1>7, <1>13
        <4>3. \A x \in 1 .. m : /\ q2[x] = q[x] /\ k2[x] = kind[x] /\ g2[x] = long[x]
                                /\ l2[x] = lo[x] /\ h2[x] = hi[x]
          BY <1>13, <1>16
        <4> QED
          BY <1>14, <3>2, <4>1, <4>2, <4>3, StepKept
      <3> QED
        BY <1>13, <3>1, <3>2
    <2> QED
      BY <2>1, <2>2 DEF Steps
  <1>18. Dels(q2) = Dels(q) /\ \A j \in Dels(q) : j \in 0 .. m
    <2>1. \A j \in 1 .. k : j = k \/ (j \in 1 .. k - 1 /\ j \in 0 .. m)
      BY <1>13
    <2>2. \A j : j \in Dels(q2) <=> j \in Dels(q)
      BY <1>6, <2>1 DEF Dels
    <2>3. k \notin Dels(q) /\ \A j \in Dels(q) : j \in 1 .. k
      BY DEF Dels
    <2> QED
      BY <2>1, <2>2, <2>3
  <1>19. \A j \in Dels(q) : g2[j] = long[j] /\ l2[j] = lo[j] /\ h2[j] = hi[j]
    BY <1>16, <1>18
  <1>20. \A j \in Dels(q) : /\ IsText(long[j]) /\ lo[j] \in Nat /\ hi[j] \in Nat
                            /\ hi[j] <= Len(long[j])
    BY <1>1, <1>2, DelsLine
  <1>21. \A x \in {n, At(T, a)} \cup {n, At(T, a + 1)} : x \in ToSet(T) \/ x = 0 \/ x \notin heap
    <2>1. At(T, a) \in ToSet(T) \cup {0} /\ At(T, a + 1) \in ToSet(T) \cup {0}
      BY <1>1, <1>6, OnText
    <2> QED
      BY <2>1
  <1>22. Owned(q2, f2, b2, heap \cup {n}, L, g2, l2, h2)
    <2>1. /\ {n} \cap heap = {} /\ \A x \in Link : x \in heap \cup {n} <=> x \in heap \/ x \in {n}
          /\ \A x \in Link : x \in ToSet(L) <=> x \in ToSet(T) \/ x \in {n}
      BY <1>5
    <2>2. Alike(q, long, lo, hi, q2, g2, l2, h2) /\ Ranged(q, long, lo, hi)
      BY <1>18, <1>19, <1>20 DEF Alike, Ranged
    <2>3. Apart({n, At(T, a)}, T, heap) /\ Apart({n, At(T, a + 1)}, T, heap)
      BY <1>21 DEF Apart
    <2>4. Grown(heap, T, heap \cup {n}, L, {n})
      BY <2>1 DEF Grown
    <2> QED
      BY <1>2, <1>5, <2>2, <2>3, <2>4, OwnedKept
  <1>23. t2[Len(q2)] = L /\ t2[0] = T0
    BY <1>2, <1>13, <1>14
  <1>24. Deque(q2, f2, b2, heap \cup {n}, L, T0)
    BY <1>12, <1>17, <1>22, <1>23 DEF Deque
  <1> QED
    BY <1>4, <1>24

----------------------------------------------------------------------------
(* Lines are deleted or moved: what the new entries say. *)

\* The other values, by a name for the place.
LEMMA ExtLow ==
  ASSUME NEW F, NEW k \in Nat, NEW v, NEW x \in 0 .. k
  PROVE  Ext(F, k, v)[x] = F[x]
  BY DEF Ext

\* Lines that are unlinked pass from the text to an entry of the queue.
LEMMA OwnedCut ==
  ASSUME NEW q, NEW f, NEW b, NEW heap, NEW T, NEW long, NEW lo, NEW hi,
         Owned(q, f, b, heap, T, long, lo, hi), Ranged(q, long, lo, hi), ToSet(T) \subseteq heap,
         NEW i \in Nat, NEW j \in Nat, i < j, j <= Len(T),
         NEW y, y \notin Dels(q), long[y] = T, lo[y] = i, hi[y] = j,
         NEW q2, Dels(q2) = Dels(q) \cup {y},
         NEW f2, NEW b2,
         f2[At(T, i)] = At(T, j + 1), Same(f, f2, {At(T, i)}),
         b2[At(T, j + 1)] = At(T, i), Same(b, b2, {At(T, j + 1)})
  PROVE  Owned(q2, f2, b2, heap, Cut(T, i, j), long, lo, hi)
  <1>1. IsText(T) /\ Ring(f, b, T)
    BY DEF Owned
  <1>2. PICK L : L = Cut(T, i, j)
    OBVIOUS
  <1>3. /\ IsText(L) /\ Ring(f2, b2, L) /\ Frozen(f2, b2, T, i, j)
        /\ \A n : n \in ToSet(L) <=> n \in ToSet(T) /\ n \notin Lines(T, i, j)
    <2>1. i <= j
      OBVIOUS
    <2>2. IsText(Cut(T, i, j))
      BY <1>1, <2>1, CutText
    <2>3. Ring(f2, b2, Cut(T, i, j)) /\ Frozen(f2, b2, T, i, j)
      BY <1>1, CutRing
    <2>4. \A n : n \in ToSet(Cut(T, i, j)) <=> n \in ToSet(T) /\ n \notin Lines(T, i, j)
      BY <1>1, CutSet
    <2> QED
      BY <1>2, <2>2, <2>3, <2>4
  <1>4. Lines(T, i, j) \subseteq ToSet(T) /\ Lines(T, i, j) \subseteq Link
    BY <1>1, LinesIn
  <1>5. ASSUME NEW x \in Dels(q)
        PROVE  /\ Frozen(f2, b2, long[x], lo[x], hi[x])
               /\ \A n \in Lines(long[x], lo[x], hi[x]) : n \in Link /\ n \in heap /\ n \notin ToSet(T)
    <2>1. IsText(long[x]) /\ lo[x] \in Nat /\ hi[x] \in Nat /\ hi[x] <= Len(long[x])
      BY DEF Ranged
    <2>2. \A n \in Lines(long[x], lo[x], hi[x]) : n \in Link /\ n # 0 /\ n \notin ToSet(T) /\ n \in heap
      <3>1. \A n \in Lines(long[x], lo[x], hi[x]) : n \in Link /\ n # 0
        BY <2>1, LinesIn
      <3> QED
        BY <3>1 DEF Owned
    <2>3. At(T, i) \in ToSet(T) \cup {0} /\ At(T, j + 1) \in ToSet(T) \cup {0}
      BY <1>1, OnText
    <2>4. Frozen(f, b, long[x], lo[x], hi[x])
      BY DEF Owned
    <2>5. \A n \in Lines(long[x], lo[x], hi[x]) : n \notin {At(T, i)} /\ n \notin {At(T, j + 1)}
      BY <2>2, <2>3
    <2>6. Frozen(f2, b2, long[x], lo[x], hi[x])
      BY <2>1, <2>4, <2>5, FrozenKept
    <2> QED
      BY <2>2, <2>6
  <1>6. ASSUME NEW x \in Dels(q2) PROVE Frozen(f2, b2, long[x], lo[x], hi[x])
    BY <1>3, <1>5
  <1>7. ASSUME NEW n \in Link
        PROVE  n \in heap <=> \/ n \in ToSet(L)
                              \/ \E x \in Dels(q2) : n \in Lines(long[x], lo[x], hi[x])
    <2>1. n \in heap <=> \/ n \in ToSet(T)
                         \/ \E x \in Dels(q) : n \in Lines(long[x], lo[x], hi[x])
      BY DEF Owned
    <2>2. (\E x \in Dels(q2) : n \in Lines(long[x], lo[x], hi[x]))
          <=> \/ n \in Lines(T, i, j)
              \/ \E x \in Dels(q) : n \in Lines(long[x], lo[x], hi[x])
      OBVIOUS
    <2> QED
      BY <1>3, <1>4, <2>1, <2>2
  <1>8. ASSUME NEW x \in Dels(q2), NEW n \in Lines(long[x], lo[x], hi[x]) PROVE n \notin ToSet(L)
    BY <1>3, <1>5
  <1>9. ASSUME NEW x \in Dels(q2), NEW z \in Dels(q2), x # z,
               NEW n \in Lines(long[x], lo[x], hi[x])
        PROVE  n \notin Lines(long[z], lo[z], hi[z])
    <2>1. CASE x = y
      <3>1. z \in Dels(q) /\ n \in ToSet(T)
        BY <1>4, <1>9, <2>1
      <3> QED
        BY <1>5, <3>1
    <2>2. CASE z = y
      <3>1. x \in Dels(q)
        BY <1>9, <2>2
      <3>2. n \notin ToSet(T)
        BY <1>5, <3>1
      <3> QED
        BY <1>4, <2>2, <3>2
    <2>3. CASE x \in Dels(q) /\ z \in Dels(q)
      BY <1>9, <2>3 DEF Owned
    <2> QED
      BY <2>1, <2>2, <2>3
  <1>10. Owned(q2, f2, b2, heap, L, long, lo, hi)
    BY <1>3, <1>6, <1>7, <1>8, <1>9 DEF Owned
  <1> QED
    BY <1>2, <1>10

\* Lines are unlinked, and an entry says which.
LEMMA DelLines ==
  ASSUME NEW q, NEW f, NEW b, NEW heap, NEW T, NEW T0, Deque(q, f, b, heap, T, T0),
         NEW i \in Nat, NEW j \in Nat, i < j, j <= Len(T),
         NEW f2 \in [Link -> Link], NEW b2 \in [Link -> Link],
         f2[At(T, i)] = At(T, j + 1), Same(f, f2, {At(T, i)}),
         b2[At(T, j + 1)] = At(T, i), Same(b, b2, {At(T, j + 1)}),
         NEW u \in Entry, u.type = "UDEL", u.h = T[i + 1], u.t = T[j]
  PROVE  Deque(Append(q, u), f2, b2, heap, Cut(T, i, j), T0)
  <1>1. /\ q \in Seq(Entry) /\ Len(q) \in Nat /\ heap \subseteq Node
        /\ IsText(T) /\ Ring(f, b, T) /\ ToSet(T) \subseteq heap
    BY DequeParts
  <1>2. PICK text, kind, long, lo, hi :
              /\ Steps(q, heap, text, kind, long, lo, hi)
              /\ Owned(q, f, b, heap, T, long, lo, hi)
              /\ text[Len(q)] = T /\ text[0] = T0
    BY DequeParts
  <1>3. PICK L : L = Cut(T, i, j)
    OBVIOUS
  <1>4. /\ IsText(L) /\ Ring(f2, b2, L) /\ Frozen(f2, b2, T, i, j)
        /\ \A n : n \in ToSet(L) <=> n \in ToSet(T) /\ n \notin Lines(T, i, j)
    <2>1. i <= j
      OBVIOUS
    <2>2. IsText(Cut(T, i, j))
      BY <1>1, <2>1, CutText
    <2>3. Ring(f2, b2, Cut(T, i, j)) /\ Frozen(f2, b2, T, i, j)
      BY <1>1, CutRing
    <2>4. \A n : n \in ToSet(Cut(T, i, j)) <=> n \in ToSet(T) /\ n \notin Lines(T, i, j)
      BY <1>1, CutSet
    <2> QED
      BY <1>3, <2>2, <2>3, <2>4
  <1>5. ToSet(L) \subseteq heap /\ heap \subseteq heap /\ Lines(T, i, j) \subseteq ToSet(T)
        /\ Lines(T, i, j) \subseteq Link
    BY <1>1, <1>4, LinesIn
  <1>6. PICK k \in Nat : k = Len(q)
    BY <1>1
  <1>7. PICK q2 : q2 = Append(q, u)
    OBVIOUS
  <1> DEFINE t2 == Ext(text, k, L)
             k2 == Ext(kind, k, "line")
             g2 == Ext(long, k, T)
             l2 == Ext(lo, k, i)
             h2 == Ext(hi, k, j)
  <1>8. Steps(q2, heap, t2, k2, g2, l2, h2)
    <2>1. Steps(Append(q, u), heap, Ext(text, Len(q), L), Ext(kind, Len(q), "line"),
                Ext(long, Len(q), T), Ext(lo, Len(q), i), Ext(hi, Len(q), j))
      BY <1>1, <1>2, <1>3, <1>4, <1>5, StepsMore
    <2> QED
      BY <1>6, <1>7, <2>1
  <1>9. t2[k + 1] = L /\ t2[0] = T0 /\ g2[k + 1] = T /\ l2[k + 1] = i /\ h2[k + 1] = j
    <2>1. 0 \in 0 .. k
      OBVIOUS
    <2>2. t2[0] = text[0]
      BY <2>1, ExtLow
    <2> QED
      BY <1>2, <2>2, ExtTop
  <1>10. q2 \in Seq(Entry) /\ Len(q2) = k + 1
    BY <1>1, <1>6, <1>7, AppendProperties
  <1>11. Dels(q2) = Dels(q) \cup {k + 1} /\ k + 1 \notin Dels(q) /\ \A x \in Dels(q) : x \in 0 .. k
    <2>1. Dels(Append(q, u)) = Dels(q) \cup {Len(q) + 1}
      BY <1>1, DelsAppend
    <2>2. \A x \in Dels(q) : x \in 1 .. k
      BY <1>6 DEF Dels
    <2>3. k + 1 \notin 1 .. k /\ \A x \in 1 .. k : x \in 0 .. k
      OBVIOUS
    <2> QED
      BY <1>6, <1>7, <2>1, <2>2, <2>3
  <1>12. \A x \in Dels(q) : g2[x] = long[x] /\ l2[x] = lo[x] /\ h2[x] = hi[x]
    BY <1>11, ExtLow
  <1>13. \A x \in Dels(q) : /\ IsText(long[x]) /\ lo[x] \in Nat /\ hi[x] \in Nat
                            /\ hi[x] <= Len(long[x])
    BY <1>1, <1>2, DelsLine
  <1> HIDE DEF t2, k2, g2, l2, h2
  <1>14. Owned(q, f, b, heap, T, g2, l2, h2) /\ Ranged(q, g2, l2, h2)
    <2>1. Alike(q, long, lo, hi, q, g2, l2, h2) /\ Ranged(q, long, lo, hi) /\ Ranged(q, g2, l2, h2)
      BY <1>12, <1>13 DEF Alike, Ranged
    <2>2. Same(f, f, {}) /\ Same(b, b, {}) /\ Apart({}, T, heap) /\ Grown(heap, T, heap, T, {})
      BY DEF Same, Apart, Grown
    <2> QED
      BY <1>1, <1>2, <2>1, <2>2, OwnedKept
  <1>15. Owned(q2, f2, b2, heap, L, g2, l2, h2)
    <2>1. PICK y : y = k + 1 /\ Dels(q2) = Dels(q) \cup {y} /\ y \notin Dels(q)
      BY <1>11
    <2>2. g2[y] = T /\ l2[y] = i /\ h2[y] = j
      BY <1>9, <2>1
    <2>3. Owned(q2, f2, b2, heap, Cut(T, i, j), g2, l2, h2)
      BY <1>1, <1>14, <2>1, <2>2, OwnedCut, ZenonT(60)
    <2> QED
      BY <1>3, <2>3
  <1>16. Deque(q2, f2, b2, heap, L, T0)
    <2>1. t2[Len(q2)] = L
      BY <1>9, <1>10
    <2> QED
      BY <1>1, <1>8, <1>9, <1>10, <1>15, <2>1 DEF Deque
  <1> QED
    BY <1>3, <1>7, <1>16

\* Lines are moved, and two entries say where from and where to.
LEMMA MoveLines ==
  ASSUME NEW q, NEW f, NEW b, NEW heap, NEW T, NEW T0, Deque(q, f, b, heap, T, T0),
         NEW T2, IsText(T2), ToSet(T2) = ToSet(T),
         NEW f2 \in [Link -> Link], NEW b2 \in [Link -> Link], Ring(f2, b2, T2),
         NEW S, NEW R, Same(f, f2, S), Same(b, b2, R), Apart(S, T, heap), Apart(R, T, heap),
         NEW u \in Entry, NEW v \in Entry,
         u.type \in {"UMOV", "URET"}, v.type \in {"UMOV", "URET"}, Moves(T, T2, u, v)
  PROVE  Deque(Append(Append(q, u), v), f2, b2, heap, T2, T0)
  <1>1. /\ q \in Seq(Entry) /\ Len(q) \in Nat /\ heap \subseteq Node
        /\ IsText(T) /\ Ring(f, b, T) /\ ToSet(T) \subseteq heap
    BY DequeParts
  <1>2. PICK text, kind, long, lo, hi :
              /\ Steps(q, heap, text, kind, long, lo, hi)
              /\ Owned(q, f, b, heap, T, long, lo, hi)
              /\ text[Len(q)] = T /\ text[0] = T0
    BY DequeParts
  <1>3. PICK k \in Nat : k = Len(q)
    BY <1>1
  <1>4. PICK p, q2 : p = Append(q, u) /\ q2 = Append(p, v)
    OBVIOUS
  <1>5. p \in Seq(Entry) /\ Len(p) = k + 1 /\ p[k + 1] = u /\ \A x \in 1 .. k : p[x] = q[x]
    BY <1>1, <1>3, <1>4, AppendProperties
  <1>6. /\ q2 \in Seq(Entry) /\ Len(q2) = k + 2 /\ q2[k + 2] = v /\ q2[k + 1] = u
        /\ \A x \in 1 .. k : q2[x] = q[x]
    <2>1. /\ q2 \in Seq(Entry) /\ Len(q2) = Len(p) + 1 /\ q2[Len(p) + 1] = v
          /\ \A x \in 1 .. Len(p) : q2[x] = p[x]
      BY <1>4, <1>5, AppendProperties
    <2>2. k + 1 + 1 = k + 2 /\ k + 1 \in 1 .. k + 1 /\ \A x \in 1 .. k : x \in 1 .. k + 1
      OBVIOUS
    <2> QED
      BY <1>5, <2>1, <2>2
  <1>7. PICK t2 : t2 = [x \in 0 .. k + 2 |-> IF x = k + 2 THEN T2 ELSE IF x = k + 1 THEN T ELSE text[x]]
    OBVIOUS
  <1>8. PICK k2 : k2 = [x \in 0 .. k + 2 |-> IF x = k + 2 THEN "to" ELSE IF x = k + 1 THEN "from" ELSE kind[x]]
    OBVIOUS
  <1>9. /\ \A x \in 0 .. k : t2[x] = text[x] /\ k2[x] = kind[x]
        /\ t2[k + 1] = T /\ t2[k + 2] = T2 /\ k2[k + 1] = "from" /\ k2[k + 2] = "to"
    <2>1. /\ \A x \in 0 .. k : x \in 0 .. k + 2 /\ x # k + 1 /\ x # k + 2
          /\ k + 1 \in 0 .. k + 2 /\ k + 2 \in 0 .. k + 2 /\ k + 1 # k + 2
      OBVIOUS
    <2>2. /\ \A x \in 0 .. k : t2[x] = text[x]
          /\ t2[k + 1] = T /\ t2[k + 2] = T2
      BY <1>7, <2>1
    <2>3. /\ \A x \in 0 .. k : k2[x] = kind[x]
          /\ k2[k + 1] = "from" /\ k2[k + 2] = "to"
      BY <1>8, <2>1
    <2> QED
      BY <2>2, <2>3
  <1>10. Steps(q2, heap, t2, k2, long, lo, hi)
    <2>1. ASSUME NEW j \in 0 .. k + 2 PROVE IsText(t2[j]) /\ ToSet(t2[j]) \subseteq heap
      <3>1. CASE j \in 0 .. k
        BY <1>2, <1>3, <1>9, <3>1 DEF Steps
      <3>2. CASE j = k + 1 \/ j = k + 2
        BY <1>1, <1>9, <3>2
      <3> QED
        BY <3>1, <3>2
    <2>2. ASSUME NEW j \in 1 .. k + 2 PROVE StepOK(q2, t2, k2, long, lo, hi, j)
      <3>1. CASE j = k + 2
        <4>1. j - 1 = k + 1 /\ j > 1
          BY <3>1
        <4> QED
          BY <1>6, <1>9, <3>1, <4>1 DEF StepOK
      <3>2. CASE j = k + 1
        <4>1. j - 1 = k /\ j + 1 = k + 2 /\ j < k + 2 /\ k \in 0 .. k
          BY <3>2
        <4>2. t2[j - 1] = T /\ t2[j + 1] = T2 /\ q2[j] = u /\ q2[j + 1] = v
              /\ k2[j] = "from" /\ k2[j + 1] = "to" /\ j < Len(q2)
          BY <1>2, <1>3, <1>6, <1>9, <3>2, <4>1
        <4> QED
          BY <4>2 DEF StepOK
      <3>3. CASE j \in 1 .. k
        <4>1. StepOK(q, text, kind, long, lo, hi, j)
          BY <1>2, <1>3, <3>3 DEF Steps
        <4>2. /\ Len(q) \in Nat /\ Len(q2) \in Nat /\ k \in 0 .. Len(q) /\ k <= Len(q2)
          BY <1>3, <1>6
        <4>3. \A x \in 1 .. k : /\ q2[x] = q[x] /\ k2[x] = kind[x] /\ long[x] = long[x]
                                /\ lo[x] = lo[x] /\ hi[x] = hi[x]
          BY <1>6, <1>9
        <4> QED
          BY <1>3, <1>9, <3>3, <4>1, <4>2, <4>3, StepKept
      <3> QED
        BY <3>1, <3>2, <3>3
    <2> QED
      BY <1>6, <2>1, <2>2 DEF Steps
  <1>11. Dels(q2) = Dels(q)
    <2>1. Dels(Append(q, u)) = Dels(q)
      BY <1>1, DelsAppend
    <2>2. Dels(Append(p, v)) = Dels(p)
      BY <1>5, DelsAppend
    <2> QED
      BY <1>4, <2>1, <2>2
  <1>12. Owned(q2, f2, b2, heap, T2, long, lo, hi)
    <2>1. Alike(q, long, lo, hi, q2, long, lo, hi)
      BY <1>11 DEF Alike
    <2>2. Ranged(q, long, lo, hi)
      BY <1>1, <1>2, DelsLine DEF Ranged
    <2>3. Grown(heap, T, heap, T2, {})
      BY DEF Grown
    <2> QED
      BY <1>2, <2>1, <2>2, <2>3, OwnedKept
  <1>13. t2[Len(q2)] = T2 /\ t2[0] = T0
    <2>1. 0 \in 0 .. k
      OBVIOUS
    <2> QED
      BY <1>2, <1>6, <1>9, <2>1
  <1>14. Deque(q2, f2, b2, heap, T2, T0)
    BY <1>1, <1>6, <1>10, <1>12, <1>13 DEF Deque
  <1> QED
    BY <1>4, <1>14

----------------------------------------------------------------------------
(* undo_links (): one call of undo_entry () for each entry. *)

\* What undo_links () works on.
Undoing == [forw : [Link -> Link], back : [Link -> Link], undo : Seq(Entry), second : BOOLEAN]

\* r is s with the nodes p and n linked.
Linked(s, r, p, n) ==
  /\ r \in Undoing
  /\ r.forw = [s.forw EXCEPT ![p] = n] /\ r.back = [s.back EXCEPT ![n] = p]
  /\ r.undo = s.undo /\ r.second = s.second

\* LINK_NODES () within undo_links ().
LEMMA LinkUndoing ==
  ASSUME NEW s \in Undoing, NEW p \in Link, NEW n \in Link
  PROVE  Linked(s, LINK_NODES(s, p, n), p, n)
  <1>1. /\ [s.forw EXCEPT ![p] = n] \in [Link -> Link]
        /\ [s.back EXCEPT ![n] = p] \in [Link -> Link]
    BY DEF Undoing
  <1> QED
    BY <1>1 DEF LINK_NODES, Undoing, Linked

Started(e) == [forw |-> e.forw, back |-> e.back, undo |-> e.undo, second |-> FALSE]

\* The states of the loop over the undo queue, from its last entry to its first.
LEMMA UndoLinksRun ==
  ASSUME NEW e, NEW k \in Nat, k = Len(e.undo)
  PROVE  \E a : /\ a[0] = Started(e)
                /\ \A i \in 1 .. k : a[i] = undo_entry(k + 1 - i, a[i - 1])
                /\ undo_links(e) = a[k]
  <1> DEFINE S == {m \in 0 .. k : \E a : /\ a[0] = Started(e)
                                         /\ \A i \in 1 .. m : a[i] = undo_entry(k + 1 - i, a[i - 1])}
  <1>1. 0 \in S
    <2>1. PICK a : a = [i \in {0} |-> Started(e)]
      OBVIOUS
    <2>2. a[0] = Started(e) /\ 0 \in 0 .. k /\ 1 .. 0 = {}
      BY <2>1
    <2> QED
      BY <2>2
  <1>2. ASSUME NEW m \in 1 .. k, m - 1 \in S PROVE m \in S
    <2>1. PICK l \in Nat : l = m - 1 /\ m = l + 1
      OBVIOUS
    <2>2. PICK a : /\ a[0] = Started(e)
                   /\ \A i \in 1 .. l : a[i] = undo_entry(k + 1 - i, a[i - 1])
      BY <1>2, <2>1
    <2>3. PICK c : c = Ext(a, l, undo_entry(k + 1 - m, a[l]))
      OBVIOUS
    <2>4. c[m] = undo_entry(k + 1 - m, a[l])
      BY <2>1, <2>3, ExtTop
    <2>5. \A x \in 0 .. l : c[x] = a[x]
      BY <2>3, ExtLow
    <2>6. c[0] = Started(e)
      <3>1. 0 \in 0 .. l
        OBVIOUS
      <3> QED
        BY <2>2, <2>5, <3>1
    <2>7. ASSUME NEW i \in 1 .. m PROVE c[i] = undo_entry(k + 1 - i, c[i - 1])
      <3>1. CASE i = m
        <4>1. l \in 0 .. l /\ i - 1 = l
          BY <2>1, <3>1
        <4>2. c[i - 1] = a[l]
          BY <2>5, <4>1
        <4> QED
          BY <2>4, <3>1, <4>2
      <3>2. CASE i \in 1 .. l
        <4>1. i \in 0 .. l /\ i - 1 \in 0 .. l
          BY <3>2
        <4>2. c[i] = a[i] /\ c[i - 1] = a[i - 1]
          BY <2>5, <4>1
        <4> QED
          BY <2>2, <3>2, <4>2
      <3> QED
        BY <2>1, <3>1, <3>2
    <2>8. m \in 0 .. k
      OBVIOUS
    <2> QED
      BY <2>6, <2>7, <2>8
  <1>3. k \in S
    <2> HIDE DEF S
    <2>1. k \in 0 .. k
      OBVIOUS
    <2> QED
      BY <1>1, <1>2, <2>1, Inductive
  <1>4. PICK a : /\ a[0] = Started(e)
                 /\ \A i \in 1 .. k : a[i] = undo_entry(k + 1 - i, a[i - 1])
    BY <1>3
  <1> HIDE DEF S
  <1> DEFINE W == CHOOSE w : w = [i \in 0 .. k |-> IF i = 0 THEN Started(e)
                                                  ELSE undo_entry(k + 1 - i, w[i - 1])]
  <1>5. PICK c : c = [i \in 0 .. k |-> a[i]]
    OBVIOUS
  <1>6. c = [i \in 0 .. k |-> IF i = 0 THEN Started(e) ELSE undo_entry(k + 1 - i, c[i - 1])]
    <2>1. \A i \in 0 .. k : i = 0 \/ (i \in 1 .. k /\ i # 0 /\ i - 1 \in 0 .. k)
      OBVIOUS
    <2>2. \A i \in 0 .. k : c[i] = a[i]
      BY <1>5
    <2>3. \A i \in 0 .. k : a[i] = IF i = 0 THEN Started(e) ELSE undo_entry(k + 1 - i, c[i - 1])
      BY <1>4, <2>1, <2>2
    <2> QED
      BY <1>5, <2>3
  <1>7. W = [i \in 0 .. k |-> IF i = 0 THEN Started(e) ELSE undo_entry(k + 1 - i, W[i - 1])]
    BY <1>6
  <1>8. undo_links(e) = W[k]
    BY DEF undo_links, Started
  <1> HIDE DEF W
  <1>9. W[0] = Started(e)
    <2>1. 0 \in 0 .. k
      OBVIOUS
    <2> QED
      BY <1>7, <2>1
  <1>10. \A i \in 1 .. k : W[i] = undo_entry(k + 1 - i, W[i - 1])
    <2>1. \A i \in 1 .. k : i \in 0 .. k /\ i # 0
      OBVIOUS
    <2> QED
      BY <1>7, <2>1
  <1> QED
    BY <1>8, <1>9, <1>10

\* The links of a move that is undone.
LinksBack(p, up, f, b, f2, b2) ==
  LET b1 == [b EXCEPT ![f[up.h]] = p.h]
  IN  /\ f2 = [[[f EXCEPT ![p.h] = f[up.h]] EXCEPT ![b1[up.t]] = p.t] EXCEPT ![up.h] = up.t]
      /\ b2 = [[b1 EXCEPT ![p.t] = b1[up.t]] EXCEPT ![up.t] = up.h]

\* What undo_entry () leaves, by the type of the entry.
Undone(s, j, up, p, r) ==
  /\ r \in Undoing
  /\ s.second \/ up.type \in {"UADD", "UDEL"} =>
       r.undo = [s.undo EXCEPT ![j].type = Toggle(up.type)]
  /\ s.second => r.forw = s.forw /\ r.back = s.back /\ r.second = FALSE
  /\ ~ s.second /\ up.type = "UADD" =>
       /\ r.forw = [s.forw EXCEPT ![s.back[up.h]] = s.forw[up.t]]
       /\ r.back = [s.back EXCEPT ![s.forw[up.t]] = s.back[up.h]]
       /\ r.second = FALSE
  /\ ~ s.second /\ up.type = "UDEL" =>
       /\ r.forw = [[s.forw EXCEPT ![s.back[up.h]] = up.h] EXCEPT ![up.t] = s.forw[up.t]]
       /\ r.back = [[s.back EXCEPT ![up.h] = s.back[up.h]] EXCEPT ![s.forw[up.t]] = up.t]
       /\ r.second = FALSE
  /\ ~ s.second /\ up.type \in {"UMOV", "URET"} =>
       /\ LinksBack(p, up, s.forw, s.back, r.forw, r.back)
       /\ r.second = TRUE /\ r.undo = s.undo

\* undo_entry () by the type of the entry.
LEMMA UndoFields ==
  ASSUME NEW s \in Undoing, NEW j \in 1 .. Len(s.undo),
         NEW up, up = s.undo[j], NEW p, p = s.undo[j - 1],
         up.type \in {"UMOV", "URET"} /\ ~ s.second => j > 1
  PROVE  Undone(s, j, up, p, undo_entry(j, s))
  <1>1. s.undo \in Seq(Entry) /\ Len(s.undo) \in Nat /\ s.second \in BOOLEAN
        /\ s.forw \in [Link -> Link] /\ s.back \in [Link -> Link]
    BY DEF Undoing
  <1>3. up \in Entry /\ up.h \in Link /\ up.t \in Link /\ up.type \in {"UADD", "UDEL", "UMOV", "URET"}
    <2>1. up \in Entry
      BY <1>1
    <2> QED
      BY <2>1 DEF Entry
  <1>4. Toggle(up.type) \in {"UADD", "UDEL", "UMOV", "URET"}
    BY <1>3 DEF Toggle
  <1>5. PICK done : done = [s EXCEPT !.undo[j].type = Toggle(@)]
    OBVIOUS
  <1>6. /\ done \in Undoing /\ done.undo = [s.undo EXCEPT ![j].type = Toggle(up.type)]
        /\ done.forw = s.forw /\ done.back = s.back /\ done.second = s.second
    <2>1. [up EXCEPT !.type = Toggle(up.type)] \in Entry
      BY <1>3, <1>4 DEF Entry
    <2>2. [s.undo EXCEPT ![j] = [up EXCEPT !.type = Toggle(up.type)]] \in Seq(Entry)
      BY <1>1, <2>1
    <2>3. [s.undo EXCEPT ![j].type = Toggle(up.type)] = [s.undo EXCEPT ![j] = [up EXCEPT !.type = Toggle(up.type)]]
      OBVIOUS
    <2>4. done = [s EXCEPT !.undo = [s.undo EXCEPT ![j].type = Toggle(up.type)]]
      BY <1>5
    <2> QED
      BY <2>2, <2>3, <2>4 DEF Undoing
  <1>7. CASE s.second
    <2>1. undo_entry(j, s) = [done EXCEPT !.second = FALSE]
      BY <1>5, <1>7 DEF undo_entry
    <2>2. PICK r : r = [done EXCEPT !.second = FALSE]
      OBVIOUS
    <2>3. /\ r.undo = done.undo /\ r.forw = done.forw /\ r.back = done.back /\ r.second = FALSE
          /\ r \in Undoing
      BY <1>6, <2>2 DEF Undoing
    <2> QED
      BY <1>3, <1>6, <1>7, <2>1, <2>2, <2>3 DEF Undone
  <1>8. CASE ~ s.second /\ up.type = "UADD"
    <2>1. undo_entry(j, s) = LINK_NODES(done, s.back[up.h], s.forw[up.t])
      BY <1>5, <1>8 DEF undo_entry
    <2>2. s.back[up.h] \in Link /\ s.forw[up.t] \in Link
      BY <1>1, <1>3
    <2>3. PICK r : r = LINK_NODES(done, s.back[up.h], s.forw[up.t])
      OBVIOUS
    <2>4. Linked(done, r, s.back[up.h], s.forw[up.t])
      BY <1>6, <2>2, <2>3, LinkUndoing
    <2>5. /\ r.forw = [s.forw EXCEPT ![s.back[up.h]] = s.forw[up.t]]
          /\ r.back = [s.back EXCEPT ![s.forw[up.t]] = s.back[up.h]]
          /\ r.undo = [s.undo EXCEPT ![j].type = Toggle(up.type)]
      BY <1>6, <2>4 DEF Linked
    <2>6. r \in Undoing /\ r.second = FALSE
      BY <1>1, <1>6, <1>8, <2>4 DEF Linked
    <2> QED
      BY <1>3, <1>8, <2>1, <2>3, <2>5, <2>6 DEF Undone
  <1>9. CASE ~ s.second /\ up.type = "UDEL"
    <2>1. undo_entry(j, s) = LINK_NODES(LINK_NODES(done, s.back[up.h], up.h), up.t, s.forw[up.t])
      BY <1>5, <1>9 DEF undo_entry
    <2>2. s.back[up.h] \in Link /\ s.forw[up.t] \in Link
      BY <1>1, <1>3
    <2>3. PICK r1 : r1 = LINK_NODES(done, s.back[up.h], up.h)
      OBVIOUS
    <2>4. Linked(done, r1, s.back[up.h], up.h)
      BY <1>3, <1>6, <2>2, <2>3, LinkUndoing
    <2>5. PICK r : r = LINK_NODES(r1, up.t, s.forw[up.t])
      OBVIOUS
    <2>6. Linked(r1, r, up.t, s.forw[up.t])
      <3>1. r1 \in Undoing
        BY <2>4 DEF Linked
      <3> QED
        BY <1>3, <2>2, <2>5, <3>1, LinkUndoing
    <2>7. /\ r.forw = [[s.forw EXCEPT ![s.back[up.h]] = up.h] EXCEPT ![up.t] = s.forw[up.t]]
          /\ r.back = [[s.back EXCEPT ![up.h] = s.back[up.h]] EXCEPT ![s.forw[up.t]] = up.t]
          /\ r.undo = [s.undo EXCEPT ![j].type = Toggle(up.type)]
      BY <1>6, <2>4, <2>6 DEF Linked
    <2>8. r \in Undoing /\ r.second = FALSE
      BY <1>1, <1>6, <1>9, <2>4, <2>6 DEF Linked
    <2> QED
      BY <1>3, <1>9, <2>1, <2>3, <2>5, <2>7, <2>8 DEF Undone
  <1>10. CASE ~ s.second /\ up.type \in {"UMOV", "URET"}
    <2>2. j - 1 \in 1 .. Len(s.undo)
      BY <1>1, <1>10
    <2>3. p.h \in Link /\ p.t \in Link
      <3>1. p \in Entry
        BY <1>1, <2>2
      <3> QED
        BY <3>1 DEF Entry
    <2>4. PICK e1 : e1 = LINK_NODES(s, p.h, s.forw[up.h])
      OBVIOUS
    <2>5. s.forw[up.h] \in Link
      BY <1>1, <1>3
    <2>6. Linked(s, e1, p.h, s.forw[up.h])
      BY <2>3, <2>4, <2>5, LinkUndoing
    <2>7. PICK e2 : e2 = LINK_NODES(e1, e1.back[up.t], p.t)
      OBVIOUS
    <2>8. e1.back[up.t] \in Link
      <3>1. e1.back \in [Link -> Link]
        BY <2>6 DEF Undoing, Linked
      <3> QED
        BY <1>3, <3>1
    <2>9. Linked(e1, e2, e1.back[up.t], p.t)
      <3>1. e1 \in Undoing
        BY <2>6 DEF Linked
      <3> QED
        BY <2>3, <2>7, <2>8, <3>1, LinkUndoing
    <2>10. PICK e3 : e3 = LINK_NODES(e2, up.h, up.t)
      OBVIOUS
    <2>11. Linked(e2, e3, up.h, up.t)
      <3>1. e2 \in Undoing
        BY <2>9 DEF Linked
      <3> QED
        BY <1>3, <2>10, <3>1, LinkUndoing
    <2>12. PICK r : r = [e3 EXCEPT !.second = TRUE]
      OBVIOUS
    <2>13. /\ r \in Undoing /\ r.forw = e3.forw /\ r.back = e3.back /\ r.undo = e3.undo
           /\ r.second = TRUE
      BY <2>11, <2>12 DEF Undoing, Linked
    <2>14. undo_entry(j, s) = r
      BY <1>10, <2>4, <2>7, <2>10, <2>12 DEF undo_entry
    <2>15. PICK b1 : b1 = [s.back EXCEPT ![s.forw[up.h]] = p.h]
      OBVIOUS
    <2>16. LinksBack(p, up, s.forw, s.back, r.forw, r.back)
      <3>1. e1.forw = [s.forw EXCEPT ![p.h] = s.forw[up.h]] /\ e1.back = b1
        BY <2>6, <2>15 DEF Linked
      <3>2. e2.forw = [e1.forw EXCEPT ![b1[up.t]] = p.t] /\ e2.back = [b1 EXCEPT ![p.t] = b1[up.t]]
        BY <2>9, <3>1 DEF Linked
      <3>3. r.forw = [e2.forw EXCEPT ![up.h] = up.t] /\ r.back = [e2.back EXCEPT ![up.t] = up.h]
        BY <2>11, <2>13 DEF Linked
      <3> QED
        BY <2>15, <3>1, <3>2, <3>3 DEF LinksBack
    <2>17. r.second = TRUE /\ r.undo = s.undo /\ r \in Undoing
      BY <2>6, <2>9, <2>11, <2>13 DEF Linked
    <2> QED
      BY <1>3, <1>10, <2>14, <2>16, <2>17 DEF Undone
  <1> QED
    BY <1>1, <1>3, <1>7, <1>8, <1>9, <1>10

----------------------------------------------------------------------------
(* Lines that an entry puts back into the text. *)

\* The lines around those cut out are neighbours.
LEMMA CutEnds ==
  ASSUME NEW T, IsText(T), NEW i \in Nat, NEW j \in Nat, i < j, j <= Len(T)
  PROVE  At(Cut(T, i, j), i) = At(T, i) /\ At(Cut(T, i, j), i + 1) = At(T, j + 1)
  <1>1. i <= j
    OBVIOUS
  <1>2. PICK C : C = Cut(T, i, j)
    OBVIOUS
  <1>3. /\ \A x \in 0 .. i : At(C, x) = At(T, x)
        /\ \A x \in i + 1 .. Len(T) - (j - i) + 1 : At(C, x) = At(T, x + (j - i))
    BY <1>1, <1>2, CutText
  <1>4. Len(T) \in Nat
    BY TextFacts
  <1>5. i \in 0 .. i /\ i + 1 \in i + 1 .. Len(T) - (j - i) + 1 /\ i + 1 + (j - i) = j + 1
    BY <1>4
  <1>6. At(C, i + 1) = At(T, i + 1 + (j - i))
    BY <1>3, <1>5
  <1> QED
    BY <1>2, <1>3, <1>5, <1>6

\* Lines that are linked again pass from an entry of the queue to the text.
Relinked(L, i, j, f, b, f2, b2) ==
  /\ f2[At(L, i)] = L[i + 1] /\ f2[L[j]] = At(L, j + 1) /\ Same(f, f2, {At(L, i), L[j]})
  /\ b2[L[i + 1]] = At(L, i) /\ b2[At(L, j + 1)] = L[j] /\ Same(b, b2, {L[i + 1], At(L, j + 1)})

\* The lines of the entry undone are no longer the queue's, those of the others are.
LEMMA OwnedJoin ==
  ASSUME NEW q, NEW f, NEW b, NEW heap, NEW L, NEW long, NEW lo, NEW hi,
         NEW i \in Nat, NEW j \in Nat,
         Owned(q, f, b, heap, Cut(L, i, j), long, lo, hi), Ranged(q, long, lo, hi),
         IsText(L), i < j, j <= Len(L),
         NEW y \in Dels(q), long[y] = L, lo[y] = i, hi[y] = j,
         NEW q2, Dels(q2) = Dels(q) \ {y},
         NEW f2, NEW b2, Relinked(L, i, j, f, b, f2, b2)
  PROVE  Owned(q2, f2, b2, heap, L, long, lo, hi)
  <1> USE DEF Relinked
  <1>0. PICK T : T = Cut(L, i, j)
    OBVIOUS
  <1>1. IsText(T) /\ Ring(f, b, T) /\ Frozen(f, b, L, i, j)
    BY <1>0 DEF Owned
  <1>2. /\ \A n : n \in ToSet(T) <=> n \in ToSet(L) /\ n \notin Lines(L, i, j)
        /\ Lines(L, i, j) \subseteq ToSet(L) /\ Lines(L, i, j) \subseteq Link
    BY <1>0, CutSet, LinesIn
  <1>3. /\ Len(L) \in Nat /\ i + 1 \in 1 .. Len(L) /\ j \in 1 .. Len(L)
        /\ \A x \in 1 .. Len(L) : At(L, x) = L[x] /\ L[x] \in Link
        /\ \A x, z \in 1 .. Len(L) : L[x] = L[z] => x = z
    <2>1. Len(L) \in Nat /\ \A x \in 1 .. Len(L) : At(L, x) = L[x] /\ L[x] \in Link
      BY TextFacts
    <2>2. i + 1 \in 1 .. Len(L) /\ j \in 1 .. Len(L)
      BY <2>1
    <2> QED
      BY <2>1, <2>2 DEF IsText
  <1>4. L[i + 1] \in Lines(L, i, j) /\ L[j] \in Lines(L, i, j)
    <2>1. i + 1 \in i + 1 .. j /\ j \in i + 1 .. j
      OBVIOUS
    <2> QED
      BY <2>1 DEF Lines
  <1>5. At(L, i) \in ToSet(T) \cup {0} /\ At(L, j + 1) \in ToSet(T) \cup {0}
    <2>3. At(T, i) = At(L, i) /\ At(T, i + 1) = At(L, j + 1)
      BY <1>0, CutEnds
    <2>5. At(T, i) \in ToSet(T) \cup {0} /\ At(T, i + 1) \in ToSet(T) \cup {0}
      BY <1>1, OnText
    <2> QED
      BY <2>3, <2>5
  <1>6. Frozen(f2, b2, L, i, j)
    <2>1. ASSUME NEW x \in i + 1 .. j PROVE f2[L[x]] = At(L, x + 1) /\ b2[L[x]] = At(L, x - 1)
      <3>1. x \in 1 .. Len(L) /\ L[x] \in Lines(L, i, j) /\ L[x] \in Link
        BY <1>2, <1>3 DEF Lines
      <3>2. f[L[x]] = At(L, x + 1) /\ b[L[x]] = At(L, x - 1)
        BY <1>1 DEF Frozen
      <3>3. L[x] # 0 /\ L[x] \notin ToSet(T)
        BY <1>2, <3>1, LinesIn
      <3>4. f2[L[x]] = At(L, x + 1)
        <4>1. CASE x = j
          BY <4>1
        <4>2. CASE x # j
          <5>1. L[x] # L[j] /\ L[x] # At(L, i)
            BY <1>3, <1>5, <3>1, <3>3, <4>2
          <5> QED
            BY <3>1, <3>2, <5>1 DEF Same
        <4> QED
          BY <4>1, <4>2
      <3>5. b2[L[x]] = At(L, x - 1)
        <4>1. CASE x = i + 1
          <5>1. x - 1 = i
            BY <4>1
          <5> QED
            BY <4>1, <5>1
        <4>2. CASE x # i + 1
          <5>1. L[x] # L[i + 1] /\ L[x] # At(L, j + 1)
            BY <1>3, <1>5, <3>1, <3>3, <4>2
          <5> QED
            BY <3>1, <3>2, <5>1 DEF Same
        <4> QED
          BY <4>1, <4>2
      <3> QED
        BY <3>4, <3>5
    <2> QED
      BY <2>1 DEF Frozen
  <1>7. Ring(f2, b2, L)
    <2>1. Same(f, f2, {At(L, i)} \cup Lines(L, i, j)) /\ Same(b, b2, {At(L, j + 1)} \cup Lines(L, i, j))
      BY <1>4 DEF Same
    <2>2. Ring(f, b, Cut(L, i, j))
      BY <1>0, <1>1
    <2> QED
      BY <1>6, <2>1, <2>2, JoinRing
  <1>8. ASSUME NEW x \in Dels(q), x # y
        PROVE  /\ Frozen(f2, b2, long[x], lo[x], hi[x])
               /\ \A n \in Lines(long[x], lo[x], hi[x]) : n \notin ToSet(L)
    <2>1. IsText(long[x]) /\ lo[x] \in Nat /\ hi[x] \in Nat /\ hi[x] <= Len(long[x])
      BY DEF Ranged
    <2>2. \A n \in Lines(long[x], lo[x], hi[x]) : n # 0 /\ n \notin ToSet(T) /\ n \notin Lines(L, i, j)
      <3>1. \A n \in Lines(long[x], lo[x], hi[x]) : n \in Link /\ n # 0
        BY <2>1, LinesIn
      <3> QED
        BY <1>0, <1>8, <3>1 DEF Owned
    <2>3. Frozen(f, b, long[x], lo[x], hi[x])
      BY DEF Owned
    <2>4. \A n \in Lines(long[x], lo[x], hi[x]) : n \notin {At(L, i), L[j]} /\ n \notin {L[i + 1], At(L, j + 1)}
      BY <1>4, <1>5, <2>2
    <2>5. Frozen(f2, b2, long[x], lo[x], hi[x])
      BY <2>1, <2>3, <2>4, FrozenKept
    <2> QED
      BY <1>2, <2>2, <2>5
  <1>9. ASSUME NEW n \in Link
        PROVE  n \in heap <=> \/ n \in ToSet(L)
                              \/ \E x \in Dels(q2) : n \in Lines(long[x], lo[x], hi[x])
    <2>1. n \in heap <=> \/ n \in ToSet(T)
                         \/ \E x \in Dels(q) : n \in Lines(long[x], lo[x], hi[x])
      BY <1>0 DEF Owned
    <2>2. (\E x \in Dels(q) : n \in Lines(long[x], lo[x], hi[x]))
          <=> \/ n \in Lines(L, i, j)
              \/ \E x \in Dels(q2) : n \in Lines(long[x], lo[x], hi[x])
      OBVIOUS
    <2> QED
      BY <1>2, <2>1, <2>2
  <1>10. \A x, z \in Dels(q2) :
       x # z => \A n \in Lines(long[x], lo[x], hi[x]) : n \notin Lines(long[z], lo[z], hi[z])
    BY DEF Owned
  <1> QED
    BY <1>7, <1>8, <1>9, <1>10 DEF Owned

----------------------------------------------------------------------------
\* Undoing has come down to entry j.
Stage(s, j, q, heap, text, kind, long, lo, hi) ==
  /\ s \in Undoing /\ Len(s.undo) = Len(q)
  /\ s.second <=> j < Len(q) /\ kind[j + 1] = "to"
  /\ \A x \in 1 .. Len(q) :
       /\ s.undo[x].h = q[x].h /\ s.undo[x].t = q[x].t
       /\ IF kind[x] = "line"
          THEN s.undo[x].type = (IF x > j THEN Toggle(q[x].type) ELSE q[x].type)
          ELSE s.undo[x].type \in {"UMOV", "URET"}
  /\ s.second => Owned(s.undo, s.forw, s.back, heap, text[j - 1], long, lo, hi)
  /\ ~ s.second => Owned(s.undo, s.forw, s.back, heap, text[j], long, lo, hi)

\* What a single entry says.
LEMMA LineEntry ==
  ASSUME NEW q, NEW text, NEW kind, NEW long, NEW lo, NEW hi, NEW j,
         StepOK(q, text, kind, long, lo, hi, j)
  PROVE  /\ kind[j] \in {"line", "from", "to"}
         /\ kind[j] = "line" <=> q[j].type \in {"UADD", "UDEL"}
         /\ kind[j] = "line" =>
              /\ IsText(long[j]) /\ lo[j] \in Nat /\ hi[j] \in Nat
              /\ lo[j] < hi[j] /\ hi[j] <= Len(long[j])
              /\ q[j].h = long[j][lo[j] + 1] /\ q[j].t = long[j][hi[j]]
              /\ q[j].type = "UADD" => text[j] = long[j] /\ text[j - 1] = Cut(long[j], lo[j], hi[j])
              /\ q[j].type = "UDEL" => text[j - 1] = long[j] /\ text[j] = Cut(long[j], lo[j], hi[j])
         /\ kind[j] = "from" => /\ j < Len(q) /\ kind[j + 1] = "to"
                                /\ Moves(text[j - 1], text[j + 1], q[j], q[j + 1])
         /\ kind[j] = "to" => j > 1 /\ kind[j - 1] = "from"
  BY DEF StepOK

\* Halfway through, the deleting entries are still entries of single ranges.
LEMMA StageRanged ==
  ASSUME NEW q, Len(q) \in Nat, NEW heap, NEW text, NEW kind, NEW long, NEW lo, NEW hi,
         Steps(q, heap, text, kind, long, lo, hi),
         NEW j, NEW s, Stage(s, j, q, heap, text, kind, long, lo, hi)
  PROVE  Ranged(s.undo, long, lo, hi) /\ \A x \in Dels(s.undo) : x \in 1 .. Len(q) /\ kind[x] = "line"
  <1>1. ASSUME NEW x \in Dels(s.undo)
        PROVE  /\ x \in 1 .. Len(q) /\ kind[x] = "line" /\ IsText(long[x]) /\ lo[x] \in Nat
               /\ hi[x] \in Nat /\ hi[x] <= Len(long[x])
    <2>1. x \in 1 .. Len(q) /\ s.undo[x].type = "UDEL"
      BY DEF Dels, Stage
    <2>2. kind[x] = "line"
      BY <2>1 DEF Stage
    <2>3. StepOK(q, text, kind, long, lo, hi, x)
      BY <2>1 DEF Steps
    <2> QED
      BY <2>1, <2>2, <2>3, LineEntry
  <1> QED
    BY <1>1 DEF Ranged

----------------------------------------------------------------------------
(* A move that is undone. *)

\* The ends of the ranges that are exchanged.
LEMMA SwapEnds ==
  ASSUME NEW T, IsText(T), NEW i \in Nat, NEW j \in Nat, NEW k \in Nat,
         i < j, j < k, k <= Len(T), NEW m, m = i + (k - j), NEW C, C = Swap(T, i, j, k)
  PROVE  /\ IsText(C) /\ Len(C) = Len(T) /\ m \in Nat /\ i < m /\ m < k
         /\ Swap(C, i, m, k) = T
         /\ At(C, i) = At(T, i) /\ At(C, i + 1) = At(T, j + 1)
         /\ At(C, m) = At(T, k) /\ At(C, m + 1) = At(T, i + 1)
         /\ At(C, k) = At(T, j) /\ At(C, k + 1) = At(T, k + 1)
  <1>1. /\ IsText(C) /\ Len(C) = Len(T) /\ Swap(C, i, m, k) = T
        /\ \A x \in 0 .. Len(T) + 1 :
             At(C, x) = IF x <= i \/ x > k THEN At(T, x)
                        ELSE IF x <= i + (k - j) THEN At(T, x + (j - i))
                        ELSE At(T, x - (k - j))
    BY SwapText
  <1>2. Len(T) \in Nat /\ m \in Nat /\ i < m /\ m < k
    BY TextFacts
  <1>3. /\ i \in 0 .. Len(T) + 1 /\ i + 1 \in 0 .. Len(T) + 1 /\ m \in 0 .. Len(T) + 1
        /\ m + 1 \in 0 .. Len(T) + 1 /\ k \in 0 .. Len(T) + 1 /\ k + 1 \in 0 .. Len(T) + 1
    BY <1>2
  <1>4. At(C, i) = At(T, i) /\ At(C, k + 1) = At(T, k + 1)
    BY <1>1, <1>2, <1>3
  <1>5. At(C, i + 1) = At(T, i + 1 + (j - i)) /\ i + 1 + (j - i) = j + 1
    BY <1>1, <1>2, <1>3
  <1>6. At(C, m) = At(T, m + (j - i)) /\ m + (j - i) = k
    BY <1>1, <1>2, <1>3
  <1>7. At(C, m + 1) = At(T, m + 1 - (k - j)) /\ m + 1 - (k - j) = i + 1
    BY <1>1, <1>2, <1>3
  <1>8. At(C, k) = At(T, k - (k - j)) /\ k - (k - j) = j
    BY <1>1, <1>2, <1>3
  <1> QED
    BY <1>1, <1>2, <1>4, <1>5, <1>6, <1>7, <1>8

\* A move undone is the move of the lines back.
LEMMA MovesBack ==
  ASSUME NEW T, IsText(T), NEW T2, NEW u, NEW v, Moves(T, T2, u, v)
  PROVE  Moves(T2, T, v, u) /\ IsText(T2) /\ ToSet(T2) = ToSet(T)
  <1>1. PICK i, j, k \in 0 .. Len(T) :
    /\ i < j /\ j < k
    /\ T2 = Swap(T, i, j, k)
    /\ \/ /\ u.h = At(T, i) /\ u.t = At(T, j + 1)
          /\ v.h = At(T, k) /\ v.t = At(T, k + 1)
       \/ /\ u.h = At(T, j) /\ u.t = At(T, k + 1)
          /\ v.h = At(T, i) /\ v.t = At(T, i + 1)
    BY DEF Moves
  <1>2. Len(T) \in Nat /\ i \in Nat /\ j \in Nat /\ k \in Nat /\ k <= Len(T)
    BY TextFacts
  <1>3. PICK m : m = i + (k - j)
    OBVIOUS
  <1>4. /\ IsText(T2) /\ Len(T2) = Len(T) /\ m \in Nat /\ i < m /\ m < k
        /\ Swap(T2, i, m, k) = T
        /\ At(T2, i) = At(T, i) /\ At(T2, i + 1) = At(T, j + 1)
        /\ At(T2, m) = At(T, k) /\ At(T2, m + 1) = At(T, i + 1)
        /\ At(T2, k) = At(T, j) /\ At(T2, k + 1) = At(T, k + 1)
    <2>1. i < j /\ j < k /\ T2 = Swap(T, i, j, k)
      BY <1>1
    <2> QED
      BY <1>2, <1>3, <2>1, SwapEnds
  <1>5. ToSet(T2) = ToSet(T)
    BY <1>1, <1>2, SwapSet
  <1>6. i \in 0 .. Len(T2) /\ m \in 0 .. Len(T2) /\ k \in 0 .. Len(T2)
    BY <1>2, <1>4
  <1>7. Moves(T2, T, v, u)
    <2>1. \/ /\ v.h = At(T2, i) /\ v.t = At(T2, m + 1)
             /\ u.h = At(T2, k) /\ u.t = At(T2, k + 1)
          \/ /\ v.h = At(T2, m) /\ v.t = At(T2, k + 1)
             /\ u.h = At(T2, i) /\ u.t = At(T2, i + 1)
      BY <1>1, <1>4
    <2> QED
      BY <1>4, <1>6, <2>1 DEF Moves
  <1> QED
    BY <1>4, <1>5, <1>7

\* What undo_entry () does to the links takes the lines back.
LEMMA MoveUndone ==
  ASSUME NEW T, IsText(T), NEW T2, NEW p, NEW up, Moves(T, T2, p, up),
         NEW f \in [Link -> Link], NEW b \in [Link -> Link], Ring(f, b, T2),
         NEW f2, NEW b2, LinksBack(p, up, f, b, f2, b2)
  PROVE  /\ Ring(f2, b2, T)
         /\ \E S, R : /\ Same(f, f2, S) /\ Same(b, b2, R)
                      /\ S \subseteq ToSet(T) \cup {0} /\ R \subseteq ToSet(T) \cup {0}
  <1>1. PICK i, j, k \in 0 .. Len(T) :
    /\ i < j /\ j < k
    /\ T2 = Swap(T, i, j, k)
    /\ \/ /\ p.h = At(T, i) /\ p.t = At(T, j + 1)
          /\ up.h = At(T, k) /\ up.t = At(T, k + 1)
       \/ /\ p.h = At(T, j) /\ p.t = At(T, k + 1)
          /\ up.h = At(T, i) /\ up.t = At(T, i + 1)
    BY DEF Moves
  <1>0. PICK b1 :
          /\ b1 = [b EXCEPT ![f[up.h]] = p.h]
          /\ f2 = [[[f EXCEPT ![p.h] = f[up.h]] EXCEPT ![b1[up.t]] = p.t] EXCEPT ![up.h] = up.t]
          /\ b2 = [[b1 EXCEPT ![p.t] = b1[up.t]] EXCEPT ![up.t] = up.h]
    BY DEF LinksBack
  <1>2. Len(T) \in Nat /\ i \in Nat /\ j \in Nat /\ k \in Nat /\ k <= Len(T)
        /\ i + 1 \in 1 .. Len(T) + 1 /\ j + 1 \in 1 .. Len(T) + 1 /\ k + 1 \in 1 .. Len(T) + 1
    BY <1>1, TextFacts
  <1>3. PICK m : m = i + (k - j)
    OBVIOUS
  <1>4. /\ IsText(T2) /\ Len(T2) = Len(T) /\ m \in Nat /\ i < m /\ m < k
        /\ Swap(T2, i, m, k) = T
        /\ At(T2, i) = At(T, i) /\ At(T2, i + 1) = At(T, j + 1)
        /\ At(T2, m) = At(T, k) /\ At(T2, m + 1) = At(T, i + 1)
        /\ At(T2, k) = At(T, j) /\ At(T2, k + 1) = At(T, k + 1)
    <2>1. i < j /\ j < k /\ T2 = Swap(T, i, j, k)
      BY <1>1
    <2> QED
      BY <1>2, <1>3, <2>1, SwapEnds
  <1>5. PICK Ai, Aj, Ak, Bi, Bj, Bk :
          /\ Ai = At(T, i) /\ Aj = At(T, j) /\ Ak = At(T, k)
          /\ Bi = At(T, i + 1) /\ Bj = At(T, j + 1) /\ Bk = At(T, k + 1)
    OBVIOUS
  <1>6. /\ {Ai, Aj, Ak} \subseteq ToSet(T) \cup {0} /\ {Bi, Bj, Bk} \subseteq ToSet(T) \cup {0}
        /\ Ai \in Link /\ Aj \in Link /\ Ak \in Link /\ Bi \in Link /\ Bj \in Link /\ Bk \in Link
    <2>1. /\ \A x \in Int : At(T, x) \in ToSet(T) \cup {0}
          /\ \A x \in Int : At(T, x) \in Link
      BY OnText, TextFacts
    <2> QED
      BY <1>2, <1>5, <2>1
  <1>7. Ai # Aj /\ Ai # Ak /\ Aj # Ak /\ Bi # Bj /\ Bi # Bk /\ Bj # Bk
    <2>1. i # j /\ i # k /\ j # k /\ i + 1 # j + 1 /\ i + 1 # k + 1 /\ j + 1 # k + 1
      BY <1>1, <1>2
    <2> QED
      BY <1>2, <1>5, <2>1, Distinct
  <1>8. f[Ai] = Bj /\ f[Ak] = Bi /\ f[Aj] = Bk /\ b[Bj] = Ai /\ b[Bi] = Ak /\ b[Bk] = Aj
    <2>1. i \in 0 .. Len(T2) /\ m \in 0 .. Len(T2) /\ k \in 0 .. Len(T2)
      BY <1>2, <1>4
    <2>2. f[At(T2, i)] = At(T2, i + 1) /\ b[At(T2, i + 1)] = At(T2, i)
      BY <2>1 DEF Ring
    <2>3. f[At(T2, m)] = At(T2, m + 1) /\ b[At(T2, m + 1)] = At(T2, m)
      BY <2>1 DEF Ring
    <2>4. f[At(T2, k)] = At(T2, k + 1) /\ b[At(T2, k + 1)] = At(T2, k)
      BY <2>1 DEF Ring
    <2> QED
      BY <1>4, <1>5, <2>2, <2>3, <2>4
  <1>9. /\ f2[Ai] = Bi /\ f2[Aj] = Bj /\ f2[Ak] = Bk /\ Same(f, f2, {Ai, Aj, Ak})
        /\ b2[Bi] = Ai /\ b2[Bj] = Aj /\ b2[Bk] = Ak /\ Same(b, b2, {Bi, Bj, Bk})
    <2>1. CASE p.h = Ai /\ p.t = Bj /\ up.h = Ak /\ up.t = Bk
      <3>1. b1 = [b EXCEPT ![Bi] = Ai] /\ b1[Bk] = Aj
        BY <1>0, <1>6, <1>7, <1>8, <2>1
      <3>2. f2 = [[[f EXCEPT ![Ai] = Bi] EXCEPT ![Aj] = Bj] EXCEPT ![Ak] = Bk]
        BY <1>0, <1>8, <2>1, <3>1
      <3>3. b2 = [[[b EXCEPT ![Bi] = Ai] EXCEPT ![Bj] = Aj] EXCEPT ![Bk] = Ak]
        BY <1>0, <2>1, <3>1
      <3> QED
        BY <1>6, <1>7, <3>2, <3>3 DEF Same
    <2>2. CASE p.h = Aj /\ p.t = Bk /\ up.h = Ai /\ up.t = Bi
      <3>1. b1 = [b EXCEPT ![Bj] = Aj] /\ b1[Bi] = Ak
        BY <1>0, <1>6, <1>7, <1>8, <2>2
      <3>2. f2 = [[[f EXCEPT ![Aj] = Bj] EXCEPT ![Ak] = Bk] EXCEPT ![Ai] = Bi]
        BY <1>0, <1>8, <2>2, <3>1
      <3>3. b2 = [[[b EXCEPT ![Bj] = Aj] EXCEPT ![Bk] = Ak] EXCEPT ![Bi] = Ai]
        BY <1>0, <2>2, <3>1
      <3> QED
        BY <1>6, <1>7, <3>2, <3>3 DEF Same
    <2> QED
      BY <1>1, <1>5, <2>1, <2>2
  <1>10. /\ T2[m + 1] = Bi /\ T2[i + 1] = Bj /\ T2[m] = Ak /\ T2[k] = Aj
    <2>1. \A x \in 1 .. Len(T2) : At(T2, x) = T2[x]
      BY <1>4, TextFacts
    <2>2. m + 1 \in 1 .. Len(T2) /\ i + 1 \in 1 .. Len(T2) /\ m \in 1 .. Len(T2) /\ k \in 1 .. Len(T2)
      BY <1>2, <1>4
    <2>3. T2[m + 1] = At(T2, m + 1) /\ T2[i + 1] = At(T2, i + 1) /\ T2[m] = At(T2, m) /\ T2[k] = At(T2, k)
      BY <2>1, <2>2
    <2> QED
      BY <1>4, <1>5, <2>3
  <1>11. Ring(f2, b2, Swap(T2, i, m, k))
    <2>1. /\ f2[At(T2, i)] = T2[m + 1] /\ f2[T2[k]] = T2[i + 1] /\ f2[T2[m]] = At(T2, k + 1)
          /\ b2[T2[m + 1]] = At(T2, i) /\ b2[T2[i + 1]] = T2[k] /\ b2[At(T2, k + 1)] = T2[m]
      BY <1>4, <1>5, <1>9, <1>10
    <2>2. {At(T2, i), T2[m], T2[k]} = {Ai, Aj, Ak} /\ {T2[i + 1], T2[m + 1], At(T2, k + 1)} = {Bi, Bj, Bk}
      BY <1>4, <1>5, <1>10
    <2>3. Same(f, f2, {At(T2, i), T2[m], T2[k]}) /\ Same(b, b2, {T2[i + 1], T2[m + 1], At(T2, k + 1)})
      BY <1>9, <2>2
    <2>4. k <= Len(T2)
      BY <1>2, <1>4
    <2> QED
      BY <1>2, <1>4, <2>1, <2>3, <2>4, SwapRing
  <1>12. PICK S, R : S = {Ai, Aj, Ak} /\ R = {Bi, Bj, Bk}
    OBVIOUS
  <1>13. Same(f, f2, S) /\ Same(b, b2, R) /\ S \subseteq ToSet(T) \cup {0} /\ R \subseteq ToSet(T) \cup {0}
    BY <1>6, <1>9, <1>12
  <1> QED
    BY <1>4, <1>11, <1>13

----------------------------------------------------------------------------
(* One entry is undone. *)

\* Which entries delete lines once the type of entry j has been toggled.
Toggled(q, j, q2) ==
  /\ q2 \in Seq(Entry) /\ Len(q2) = Len(q)
  /\ \A x \in 1 .. Len(q) : /\ q2[x].h = q[x].h /\ q2[x].t = q[x].t
                            /\ q2[x].type = IF x = j THEN Toggle(q[j].type) ELSE q[x].type
  /\ q[j].type = "UADD" => Dels(q2) = Dels(q) \cup {j} /\ j \notin Dels(q)
  /\ q[j].type = "UDEL" => Dels(q2) = Dels(q) \ {j} /\ j \in Dels(q)
  /\ q[j].type \in {"UMOV", "URET"} => Dels(q2) = Dels(q)

\* Toggling the type of an entry adds it to the deleting ones, or removes it.
LEMMA ToggleDels ==
  ASSUME NEW q \in Seq(Entry), NEW j \in 1 .. Len(q),
         NEW q2, q2 = [q EXCEPT ![j].type = Toggle(q[j].type)]
  PROVE  Toggled(q, j, q2)
  <1> USE DEF Toggled
  <1>1. PICK up : up = q[j] /\ up \in Entry
    OBVIOUS
  <1>2. PICK v : v = [up EXCEPT !.type = Toggle(up.type)]
    OBVIOUS
  <1>3. up.type \in {"UADD", "UDEL", "UMOV", "URET"}
    BY <1>1 DEF Entry
  <1>4. /\ up.type = "UADD" => Toggle(up.type) = "UDEL"
        /\ up.type = "UDEL" => Toggle(up.type) = "UADD"
        /\ up.type = "UMOV" => Toggle(up.type) = "URET"
        /\ up.type = "URET" => Toggle(up.type) = "UMOV"
    BY DEF Toggle
  <1>5. v \in Entry /\ v.h = up.h /\ v.t = up.t /\ v.type = Toggle(up.type)
    BY <1>1, <1>2, <1>3, <1>4 DEF Entry
  <1>6. q2 = [q EXCEPT ![j] = v]
    BY <1>1, <1>2
  <1>7. /\ q2 \in Seq(Entry) /\ Len(q2) = Len(q) /\ q2[j] = v
        /\ \A x \in 1 .. Len(q) : x # j => q2[x] = q[x]
    BY <1>5, <1>6
  <1>8. \A x : x \in Dels(q2) <=> x \in 1 .. Len(q) /\ q2[x].type = "UDEL"
    BY <1>7 DEF Dels
  <1>9. \A x : x \in Dels(q) <=> x \in 1 .. Len(q) /\ q[x].type = "UDEL"
    BY DEF Dels
  <1>10. \A x : x # j => (x \in Dels(q2) <=> x \in Dels(q))
    BY <1>7, <1>8, <1>9
  <1>11. (j \in Dels(q2) <=> Toggle(up.type) = "UDEL") /\ (j \in Dels(q) <=> up.type = "UDEL")
    BY <1>1, <1>5, <1>7, <1>8, <1>9
  <1>12. \A x \in 1 .. Len(q) : /\ q2[x].h = q[x].h /\ q2[x].t = q[x].t
                                /\ q2[x].type = IF x = j THEN Toggle(up.type) ELSE q[x].type
    BY <1>1, <1>5, <1>7
  <1>13. up.type = "UADD" => Dels(q2) = Dels(q) \cup {j} /\ j \notin Dels(q)
    BY <1>4, <1>10, <1>11
  <1>14. up.type = "UDEL" => Dels(q2) = Dels(q) \ {j} /\ j \in Dels(q)
    BY <1>4, <1>10, <1>11
  <1>15. up.type \in {"UMOV", "URET"} => Dels(q2) = Dels(q)
    <2>1. up.type \in {"UMOV", "URET"} => \A x : x \in Dels(q2) <=> x \in Dels(q)
      BY <1>4, <1>10, <1>11
    <2> QED
      BY <2>1
  <1> QED
    BY <1>1, <1>7, <1>12, <1>13, <1>14, <1>15

\* One entry is undone.
LEMMA StageStep ==
  ASSUME NEW q \in Seq(Entry), Len(q) \in Nat, NEW heap, NEW text, NEW kind, NEW long, NEW lo, NEW hi,
         Steps(q, heap, text, kind, long, lo, hi),
         NEW j \in 1 .. Len(q), NEW s, Stage(s, j, q, heap, text, kind, long, lo, hi)
  PROVE  Stage(undo_entry(j, s), j - 1, q, heap, text, kind, long, lo, hi)
  <1>1. StepOK(q, text, kind, long, lo, hi, j) /\ IsText(text[j]) /\ IsText(text[j - 1])
        /\ ToSet(text[j]) \subseteq heap
    <2>1. j \in 0 .. Len(q) /\ j - 1 \in 0 .. Len(q)
      OBVIOUS
    <2> QED
      BY <2>1 DEF Steps
  <1>2. /\ s \in Undoing /\ Len(s.undo) = Len(q) /\ j \in 1 .. Len(s.undo)
        /\ s.second <=> j < Len(q) /\ kind[j + 1] = "to"
        /\ s.undo \in Seq(Entry) /\ s.forw \in [Link -> Link] /\ s.back \in [Link -> Link]
        /\ s.second \in BOOLEAN
    BY DEF Stage, Undoing
  <1>3. \A x \in 1 .. Len(q) :
       /\ s.undo[x].h = q[x].h /\ s.undo[x].t = q[x].t
       /\ kind[x] = "line" => s.undo[x].type = (IF x > j THEN Toggle(q[x].type) ELSE q[x].type)
       /\ kind[x] # "line" => s.undo[x].type \in {"UMOV", "URET"}
    BY DEF Stage
  <1>4. Ranged(s.undo, long, lo, hi) /\ \A x \in Dels(s.undo) : x \in 1 .. Len(q) /\ kind[x] = "line"
    BY StageRanged
  <1>5. PICK up : up = s.undo[j]
    OBVIOUS
  <1>6. /\ up \in Entry /\ up.h = q[j].h /\ up.t = q[j].t
        /\ kind[j] = "line" => up.type = q[j].type
        /\ kind[j] # "line" => up.type \in {"UMOV", "URET"}
    <2>1. up \in Entry
      BY <1>2, <1>5
    <2>2. ~ (j > j)
      OBVIOUS
    <2> QED
      BY <1>3, <1>5, <2>1, <2>2
  <1>7. PICK r : r = undo_entry(j, s)
    OBVIOUS
  <1>8. Undone(s, j, up, s.undo[j - 1], r)
    <2>1. up.type \in {"UMOV", "URET"} /\ ~ s.second => j > 1
      <3>1. ASSUME up.type \in {"UMOV", "URET"}, ~ s.second PROVE j > 1
        <4>1. q[j].type \notin {"UADD", "UDEL"} \/ kind[j] # "line"
          BY <1>6, <3>1
        <4>2. kind[j] # "line"
          BY <1>1, <4>1, LineEntry
        <4>3. kind[j] = "to"
          BY <1>1, <1>2, <3>1, <4>2, LineEntry
        <4> QED
          BY <1>1, <4>3, LineEntry
      <3> QED
        BY <3>1
    <2> QED
      BY <1>2, <1>5, <1>7, <2>1, UndoFields
  <1>9. kind[j] \in {"line", "from", "to"} /\ (kind[j] = "line" <=> q[j].type \in {"UADD", "UDEL"})
    BY <1>1, LineEntry
  <1>10. \A x \in 1 .. Len(q) : (x > j - 1) <=> (x > j \/ x = j)
    BY <1>2
  <1>11. j - 1 < Len(q) /\ j - 1 + 1 = j
    OBVIOUS
  <1>12. ASSUME s.second \/ kind[j] = "line"
         PROVE  /\ r.undo \in Seq(Entry) /\ Len(r.undo) = Len(q)
                /\ \A x \in 1 .. Len(q) :
                     /\ r.undo[x].h = q[x].h /\ r.undo[x].t = q[x].t
                     /\ IF kind[x] = "line"
                        THEN r.undo[x].type = (IF x > j - 1 THEN Toggle(q[x].type) ELSE q[x].type)
                        ELSE r.undo[x].type \in {"UMOV", "URET"}
                /\ up.type = "UADD" => Dels(r.undo) = Dels(s.undo) \cup {j} /\ j \notin Dels(s.undo)
                /\ up.type = "UDEL" => Dels(r.undo) = Dels(s.undo) \ {j} /\ j \in Dels(s.undo)
                /\ up.type \in {"UMOV", "URET"} => Dels(r.undo) = Dels(s.undo)
    <2>1. r.undo = [s.undo EXCEPT ![j].type = Toggle(s.undo[j].type)]
      BY <1>5, <1>6, <1>8, <1>9, <1>12 DEF Undone
    <2>2. PICK w : w = r.undo
      OBVIOUS
    <2>3. Toggled(s.undo, j, w)
      BY <1>2, <2>1, <2>2, ToggleDels
    <2>4. \A t \in {"UMOV", "URET"} : Toggle(t) \in {"UMOV", "URET"}
      BY DEF Toggle
    <2>5. ASSUME NEW x \in 1 .. Len(q)
          PROVE  /\ w[x].h = q[x].h /\ w[x].t = q[x].t
                 /\ IF kind[x] = "line"
                    THEN w[x].type = (IF x > j - 1 THEN Toggle(q[x].type) ELSE q[x].type)
                    ELSE w[x].type \in {"UMOV", "URET"}
      <3>1. CASE x = j
        <4>1. w[x].type = Toggle(up.type) /\ x > j - 1
          BY <1>2, <1>5, <2>3, <3>1 DEF Toggled
        <4>2. kind[x] # "line" => Toggle(up.type) \in {"UMOV", "URET"}
          BY <1>6, <2>4, <3>1
        <4> QED
          BY <1>2, <1>3, <1>6, <2>3, <3>1, <4>1, <4>2 DEF Toggled
      <3>2. CASE x # j
        <4>1. x > j - 1 <=> x > j
          BY <1>10, <3>2
        <4>2. w[x].type = s.undo[x].type
          BY <1>2, <2>3, <3>2 DEF Toggled
        <4> QED
          BY <1>2, <1>3, <2>3, <4>1, <4>2 DEF Toggled
      <3> QED
        BY <3>1, <3>2
    <2> QED
      BY <1>2, <1>5, <2>2, <2>3, <2>5 DEF Toggled
  <1>13. CASE s.second
    <2>1. kind[j] = "from" /\ up.type \in {"UMOV", "URET"}
      <3>1. j < Len(q) /\ kind[j + 1] = "to" /\ j + 1 \in 1 .. Len(q)
        BY <1>2, <1>13
      <3>2. StepOK(q, text, kind, long, lo, hi, j + 1)
        BY <3>1 DEF Steps
      <3>3. kind[j + 1 - 1] = "from" /\ j + 1 - 1 = j
        BY <3>1, <3>2, LineEntry
      <3> QED
        BY <1>6, <3>3
    <2>2. Dels(r.undo) = Dels(s.undo)
      BY <1>12, <1>13, <2>1
    <2>3. r.forw = s.forw /\ r.back = s.back /\ r.second = FALSE /\ r \in Undoing
      BY <1>8, <1>13 DEF Undone
    <2>4. Owned(s.undo, s.forw, s.back, heap, text[j - 1], long, lo, hi)
      BY <1>13 DEF Stage
    <2>5. Owned(r.undo, r.forw, r.back, heap, text[j - 1], long, lo, hi)
      BY <2>2, <2>3, <2>4 DEF Owned
    <2>6. ~ r.second /\ kind[j - 1 + 1] # "to"
      BY <1>11, <2>1, <2>3
    <2> QED
      BY <1>7, <1>12, <1>13, <2>3, <2>5, <2>6 DEF Stage
  <1>14. CASE ~ s.second /\ kind[j] = "line"
    <2>1. PICK L, l, h : L = long[j] /\ l = lo[j] /\ h = hi[j]
      OBVIOUS
    <2>2. /\ IsText(L) /\ l \in Nat /\ h \in Nat /\ l < h /\ h <= Len(L)
          /\ up.h = L[l + 1] /\ up.t = L[h] /\ up.type \in {"UADD", "UDEL"}
          /\ up.type = "UADD" => text[j] = L /\ text[j - 1] = Cut(L, l, h)
          /\ up.type = "UDEL" => text[j - 1] = L /\ text[j] = Cut(L, l, h)
      BY <1>1, <1>6, <1>9, <1>14, <2>1, LineEntry
    <2>3. Owned(s.undo, s.forw, s.back, heap, text[j], long, lo, hi)
      BY <1>14 DEF Stage
    <2>4. /\ Len(L) \in Nat /\ At(L, l + 1) = L[l + 1] /\ At(L, h) = L[h]
          /\ At(L, l) \in Link /\ At(L, h + 1) \in Link /\ L[l + 1] \in Link /\ L[h] \in Link
      <3>1. Len(L) \in Nat
        BY <2>2, TextFacts
      <3>2. l + 1 \in 1 .. Len(L) /\ h \in 1 .. Len(L) /\ l \in Int /\ h + 1 \in Int
        BY <2>2, <3>1
      <3> QED
        BY <2>2, <3>1, <3>2, TextFacts
    <2>5. CASE up.type = "UADD"
      <3>1. Ring(s.forw, s.back, L) /\ ToSet(L) \subseteq heap
        BY <1>1, <2>2, <2>3, <2>5 DEF Owned
      <3>2. s.back[up.h] = At(L, l) /\ s.forw[up.t] = At(L, h + 1)
        <4>1. l \in 0 .. Len(L) /\ h \in 0 .. Len(L)
          BY <2>2, <2>4
        <4> QED
          BY <2>2, <2>4, <3>1, <4>1 DEF Ring
      <3>3. /\ r.forw = [s.forw EXCEPT ![At(L, l)] = At(L, h + 1)]
            /\ r.back = [s.back EXCEPT ![At(L, h + 1)] = At(L, l)]
            /\ r.second = FALSE /\ r \in Undoing
        BY <1>8, <1>14, <2>5, <3>2 DEF Undone
      <3>4. /\ r.forw[At(L, l)] = At(L, h + 1) /\ Same(s.forw, r.forw, {At(L, l)})
            /\ r.back[At(L, h + 1)] = At(L, l) /\ Same(s.back, r.back, {At(L, h + 1)})
        BY <1>2, <2>4, <3>3 DEF Same
      <3>5. Dels(r.undo) = Dels(s.undo) \cup {j} /\ j \notin Dels(s.undo)
        BY <1>12, <1>14, <2>5
      <3>6. Owned(r.undo, r.forw, r.back, heap, Cut(L, l, h), long, lo, hi)
        <4>1. Owned(s.undo, s.forw, s.back, heap, L, long, lo, hi)
          BY <2>2, <2>3, <2>5
        <4>2. IsText(L) /\ l \in Nat /\ h \in Nat /\ l < h /\ h <= Len(L)
          BY <2>2
        <4> QED
          BY <1>4, <2>1, <3>1, <3>4, <3>5, <4>1, <4>2, OwnedCut, ZenonT(60)
      <3>7. Owned(r.undo, r.forw, r.back, heap, text[j - 1], long, lo, hi)
        BY <2>2, <2>5, <3>6
      <3>8. ~ r.second /\ kind[j - 1 + 1] # "to"
        BY <1>11, <1>14, <3>3
      <3> QED
        BY <1>7, <1>12, <1>14, <3>3, <3>7, <3>8 DEF Stage
    <2>6. CASE up.type = "UDEL"
      <3>1. j \in Dels(s.undo) /\ Dels(r.undo) = Dels(s.undo) \ {j}
        BY <1>12, <1>14, <2>6
      <3>2. Frozen(s.forw, s.back, L, l, h)
        BY <2>1, <2>3, <3>1 DEF Owned
      <3>3. s.back[up.h] = At(L, l) /\ s.forw[up.t] = At(L, h + 1)
        <4>1. l + 1 \in l + 1 .. h /\ h \in l + 1 .. h /\ l + 1 - 1 = l
          BY <2>2
        <4> QED
          BY <2>2, <3>2, <4>1 DEF Frozen
      <3>4. /\ r.forw = [[s.forw EXCEPT ![At(L, l)] = L[l + 1]] EXCEPT ![L[h]] = At(L, h + 1)]
            /\ r.back = [[s.back EXCEPT ![L[l + 1]] = At(L, l)] EXCEPT ![At(L, h + 1)] = L[h]]
            /\ r.second = FALSE /\ r \in Undoing
        BY <1>8, <1>14, <2>2, <2>6, <3>3 DEF Undone
      <3>5. At(L, l) # L[h] /\ L[l + 1] # At(L, h + 1)
        <4>1. l \in 0 .. Len(L) /\ h \in 0 .. Len(L) /\ l # h
              /\ l + 1 \in 1 .. Len(L) + 1 /\ h + 1 \in 1 .. Len(L) + 1 /\ l + 1 # h + 1
          BY <2>2, <2>4
        <4>2. At(L, l) # At(L, h) /\ At(L, l + 1) # At(L, h + 1)
          BY <2>2, <4>1, Distinct
        <4> QED
          BY <2>4, <4>2
      <3>6. /\ r.forw[At(L, l)] = L[l + 1] /\ r.forw[L[h]] = At(L, h + 1)
            /\ Same(s.forw, r.forw, {At(L, l), L[h]})
            /\ r.back[L[l + 1]] = At(L, l) /\ r.back[At(L, h + 1)] = L[h]
            /\ Same(s.back, r.back, {L[l + 1], At(L, h + 1)})
        BY <1>2, <2>4, <3>4, <3>5 DEF Same
      <3>7. Owned(r.undo, r.forw, r.back, heap, L, long, lo, hi)
        <4>1. Owned(s.undo, s.forw, s.back, heap, Cut(L, l, h), long, lo, hi)
          BY <2>2, <2>3, <2>6
        <4>2. IsText(L) /\ l \in Nat /\ h \in Nat /\ l < h /\ h <= Len(L)
          BY <2>2
        <4>3. Relinked(L, l, h, s.forw, s.back, r.forw, r.back)
          BY <3>6 DEF Relinked
        <4> QED
          BY <1>4, <2>1, <3>1, <4>1, <4>2, <4>3, OwnedJoin, ZenonT(60)
      <3>8. Owned(r.undo, r.forw, r.back, heap, text[j - 1], long, lo, hi)
        BY <2>2, <2>6, <3>7
      <3>9. ~ r.second /\ kind[j - 1 + 1] # "to"
        BY <1>11, <1>14, <3>4
      <3> QED
        BY <1>7, <1>12, <1>14, <3>4, <3>8, <3>9 DEF Stage
    <2> QED
      BY <2>2, <2>5, <2>6
  <1>15. CASE ~ s.second /\ kind[j] # "line"
    <2>1. kind[j] = "to"
      <3>1. kind[j] # "from"
        BY <1>1, <1>2, <1>15, LineEntry
      <3> QED
        BY <1>9, <1>15, <3>1
    <2>2. j > 1 /\ kind[j - 1] = "from" /\ j - 1 \in 1 .. Len(q) /\ j - 2 \in 0 .. Len(q)
          /\ j - 1 - 1 = j - 2 /\ j - 1 + 1 = j
      <3>1. j > 1 /\ kind[j - 1] = "from"
        BY <1>1, <2>1, LineEntry
      <3> QED
        BY <3>1
    <2>3. Moves(text[j - 2], text[j], q[j - 1], q[j])
      <3>1. StepOK(q, text, kind, long, lo, hi, j - 1)
        BY <2>2 DEF Steps
      <3>2. Moves(text[j - 1 - 1], text[j - 1 + 1], q[j - 1], q[j - 1 + 1])
        BY <2>2, <3>1, LineEntry
      <3> QED
        BY <2>2, <3>2
    <2>4. PICK p : p = s.undo[j - 1]
      OBVIOUS
    <2>5. p.h = q[j - 1].h /\ p.t = q[j - 1].t
      BY <1>3, <2>2, <2>4
    <2>6. up.type \in {"UMOV", "URET"}
      BY <1>6, <1>15
    <2>8. /\ LinksBack(p, up, s.forw, s.back, r.forw, r.back)
          /\ r.second = TRUE /\ r.undo = s.undo /\ r \in Undoing
      BY <1>8, <1>15, <2>4, <2>6 DEF Undone
    <2>9. Owned(s.undo, s.forw, s.back, heap, text[j], long, lo, hi)
      BY <1>15 DEF Stage
    <2>10. PICK T, T2 : T = text[j - 2] /\ T2 = text[j]
      OBVIOUS
    <2>11. IsText(T) /\ Moves(T, T2, p, up) /\ Ring(s.forw, s.back, T2)
      <3>1. IsText(T)
        BY <2>2, <2>10 DEF Steps
      <3>2. Moves(T, T2, p, up)
        BY <1>6, <2>3, <2>5, <2>10 DEF Moves
      <3> QED
        BY <2>9, <2>10, <3>1, <3>2 DEF Owned
    <2>12. Moves(T2, T, up, p) /\ IsText(T2) /\ ToSet(T2) = ToSet(T)
      BY <2>11, MovesBack
    <2>13. PICK S, R : /\ Ring(r.forw, r.back, T)
                       /\ Same(s.forw, r.forw, S) /\ Same(s.back, r.back, R)
                       /\ S \subseteq ToSet(T) \cup {0} /\ R \subseteq ToSet(T) \cup {0}
      <3>1. PICK f, b, f2, b2 : f = s.forw /\ b = s.back /\ f2 = r.forw /\ b2 = r.back
        OBVIOUS
      <3>2. LinksBack(p, up, f, b, f2, b2) /\ Ring(f, b, T2) /\ f \in [Link -> Link] /\ b \in [Link -> Link]
        BY <1>2, <2>8, <2>11, <3>1
      <3>3. /\ Ring(f2, b2, T)
            /\ \E S, R : /\ Same(f, f2, S) /\ Same(b, b2, R)
                         /\ S \subseteq ToSet(T) \cup {0} /\ R \subseteq ToSet(T) \cup {0}
        BY <2>11, <3>2, MoveUndone
      <3> QED
        BY <3>1, <3>3
    <2>14. Owned(r.undo, r.forw, r.back, heap, T, long, lo, hi)
      <3>1. Alike(s.undo, long, lo, hi, r.undo, long, lo, hi)
        BY <2>8 DEF Alike
      <3>2. Apart(S, T2, heap) /\ Apart(R, T2, heap)
        BY <2>12, <2>13 DEF Apart
      <3>3. Grown(heap, T2, heap, T, {})
        BY <2>12 DEF Grown
      <3>4. Owned(s.undo, s.forw, s.back, heap, T2, long, lo, hi)
        BY <2>9, <2>10
      <3> QED
        BY <1>4, <2>11, <2>13, <3>1, <3>2, <3>3, <3>4, OwnedKept
    <2>15. r.second /\ kind[j - 1 + 1] = "to" /\ j - 1 < Len(q)
      BY <1>11, <2>1, <2>8
    <2>16. Owned(r.undo, r.forw, r.back, heap, text[j - 1 - 1], long, lo, hi)
      BY <2>2, <2>10, <2>14
    <2>17. ASSUME NEW x \in 1 .. Len(q)
           PROVE  /\ r.undo[x].h = q[x].h /\ r.undo[x].t = q[x].t
                  /\ IF kind[x] = "line"
                     THEN r.undo[x].type = (IF x > j - 1 THEN Toggle(q[x].type) ELSE q[x].type)
                     ELSE r.undo[x].type \in {"UMOV", "URET"}
      <3>1. CASE x = j
        BY <1>3, <1>15, <2>8, <3>1
      <3>2. CASE x # j
        <4>1. x > j - 1 <=> x > j
          BY <1>10, <3>2
        <4> QED
          BY <1>3, <2>8, <4>1
      <3> QED
        BY <3>1, <3>2
    <2> QED
      BY <1>2, <1>7, <2>8, <2>15, <2>16, <2>17 DEF Stage
  <1> QED
    BY <1>13, <1>14, <1>15

----------------------------------------------------------------------------
(* All of them are: the queue then leads from T back to T0. *)

\* The entries of the undo queue q, undone.
AllToggled(q, kind, w) ==
  /\ w \in Seq(Entry) /\ Len(w) = Len(q)
  /\ \A x \in 1 .. Len(q) :
       /\ w[x].h = q[x].h /\ w[x].t = q[x].t
       /\ IF kind[x] = "line" THEN w[x].type = Toggle(q[x].type)
                              ELSE w[x].type \in {"UMOV", "URET"}

\* The names of the two entries of a move, exchanged.
Flip(kind) == IF kind = "from" THEN "to" ELSE IF kind = "to" THEN "from" ELSE kind

\* The texts and ranges of a queue of k entries, in the opposite order.
TurnedRanges(k, long, lo, hi, g2, l2, h2) ==
  /\ g2 = [m \in 1 .. k |-> long[k + 1 - m]]
  /\ l2 = [m \in 1 .. k |-> lo[k + 1 - m]]
  /\ h2 = [m \in 1 .. k |-> hi[k + 1 - m]]
TurnedTexts(k, text, kind, t2, k2) ==
  /\ t2 = [m \in 0 .. k |-> text[k - m]]
  /\ k2 = [m \in 1 .. k |-> Flip(kind[k + 1 - m])]

\* What a move says does not depend on the type of its entries.
LEMMA MovesSame ==
  ASSUME NEW T, NEW T2, NEW u, NEW v, NEW u2, NEW v2, Moves(T, T2, u, v),
         u2.h = u.h, u2.t = u.t, v2.h = v.h, v2.t = v.t
  PROVE  Moves(T, T2, u2, v2)
  BY DEF Moves

\* The queue in the opposite order.
LEMMA Backwards ==
  ASSUME NEW w \in Seq(Entry)
  PROVE  /\ Reverse(w) \in Seq(Entry) /\ Len(Reverse(w)) = Len(w)
         /\ \A m \in 1 .. Len(w) : Reverse(w)[m] = w[Len(w) + 1 - m]
  <1>1. Len(w) \in Nat /\ \A x \in 1 .. Len(w) : w[x] \in Entry
    OBVIOUS
  <1>2. PICK k \in Nat : k = Len(w)
    BY <1>1
  <1>3. \A m \in 1 .. k : k - m + 1 = k + 1 - m /\ k + 1 - m \in 1 .. k
    OBVIOUS
  <1>4. Reverse(w) = [m \in 1 .. k |-> w[k - m + 1]]
    BY <1>2 DEF Reverse
  <1>5. \A m \in 1 .. k : Reverse(w)[m] = w[k + 1 - m]
    BY <1>3, <1>4
  <1>6. \A m \in 1 .. k : w[k - m + 1] \in Entry
    BY <1>1, <1>2, <1>3
  <1>7. Reverse(w) \in [1 .. k -> Entry]
    BY <1>4, <1>6
  <1>8. Reverse(w) \in Seq(Entry) /\ Len(Reverse(w)) = k
    BY <1>7, FunctionSeq
  <1> QED
    BY <1>2, <1>5, <1>8

\* Backwards, the undone queue tells how the old text comes from the new one.
LEMMA StepsBack ==
  ASSUME NEW q \in Seq(Entry), NEW heap, NEW text, NEW kind, NEW long, NEW lo, NEW hi,
         Steps(q, heap, text, kind, long, lo, hi),
         NEW w, AllToggled(q, kind, w), NEW k \in Nat, k = Len(q),
         NEW t2, NEW k2, TurnedTexts(k, text, kind, t2, k2),
         NEW g2, NEW l2, NEW h2, TurnedRanges(k, long, lo, hi, g2, l2, h2)
  PROVE  Steps(Reverse(w), heap, t2, k2, g2, l2, h2)
  <1> USE DEF TurnedTexts, TurnedRanges
  <1>1. PICK r : r = Reverse(w)
    OBVIOUS
  <1>2. /\ r \in Seq(Entry) /\ Len(r) = k /\ \A m \in 1 .. k : r[m] = w[k + 1 - m]
    BY <1>1, Backwards DEF AllToggled
  <1>3. ASSUME NEW m \in 0 .. k PROVE IsText(t2[m]) /\ ToSet(t2[m]) \subseteq heap
    <2>1. t2[m] = text[k - m] /\ k - m \in 0 .. k
      OBVIOUS
    <2> QED
      BY <2>1 DEF Steps
  <1>4. ASSUME NEW m \in 1 .. k PROVE StepOK(r, t2, k2, g2, l2, h2, m)
    <2>1. PICK x \in 1 .. k : x = k + 1 - m /\ k - m = x - 1 /\ k - (m - 1) = x /\ m = k + 1 - x
      <3>1. k + 1 - m \in 1 .. k /\ k - m = k + 1 - m - 1 /\ k - (m - 1) = k + 1 - m
            /\ m = k + 1 - (k + 1 - m)
        OBVIOUS
      <3> QED
        BY <3>1
    <2>2. /\ k2[m] = Flip(kind[x]) /\ g2[m] = long[x] /\ l2[m] = lo[x] /\ h2[m] = hi[x]
          /\ r[m] = w[x]
      BY <1>2, <2>1
    <2>3. t2[m] = text[x - 1] /\ t2[m - 1] = text[x]
      <3>1. m \in 0 .. k /\ m - 1 \in 0 .. k
        OBVIOUS
      <3> QED
        BY <2>1, <3>1
    <2>4. StepOK(q, text, kind, long, lo, hi, x)
      BY DEF Steps
    <2>5. /\ w[x].h = q[x].h /\ w[x].t = q[x].t
          /\ kind[x] = "line" => w[x].type = Toggle(q[x].type)
          /\ kind[x] # "line" => w[x].type \in {"UMOV", "URET"}
      BY DEF AllToggled
    <2>6. CASE kind[x] = "line"
      <3>1. PICK L, l, h : L = long[x] /\ l = lo[x] /\ h = hi[x]
        OBVIOUS
      <3>2. /\ IsText(L) /\ l \in Nat /\ h \in Nat /\ l < h /\ h <= Len(L)
            /\ q[x].h = L[l + 1] /\ q[x].t = L[h] /\ q[x].type \in {"UADD", "UDEL"}
            /\ q[x].type = "UADD" => text[x] = L /\ text[x - 1] = Cut(L, l, h)
            /\ q[x].type = "UDEL" => text[x - 1] = L /\ text[x] = Cut(L, l, h)
        BY <2>4, <2>6, <3>1, LineEntry
      <3>3. /\ q[x].type = "UADD" => w[x].type = "UDEL"
            /\ q[x].type = "UDEL" => w[x].type = "UADD"
        BY <2>5, <2>6 DEF Toggle
      <3>4. k2[m] = "line"
        BY <2>2, <2>6 DEF Flip
      <3>5. r[m].h = L[l + 1] /\ r[m].t = L[h]
        BY <2>2, <2>5, <3>2
      <3>6. \/ r[m].type = "UADD" /\ t2[m] = L /\ t2[m - 1] = Cut(L, l, h)
            \/ r[m].type = "UDEL" /\ t2[m - 1] = L /\ t2[m] = Cut(L, l, h)
        BY <2>2, <2>3, <3>2, <3>3
      <3>7. g2[m] = L /\ l2[m] = l /\ h2[m] = h
        BY <2>2, <3>1
      <3> QED
        BY <3>2, <3>4, <3>5, <3>6, <3>7 DEF StepOK
    <2>7. CASE kind[x] = "to"
      <3>1. x > 1 /\ kind[x - 1] = "from" /\ x - 1 \in 1 .. k /\ x - 2 \in 0 .. k
        BY <2>4, <2>7, LineEntry
      <3>2. StepOK(q, text, kind, long, lo, hi, x - 1)
        BY <3>1 DEF Steps
      <3>3. x - 1 - 1 = x - 2 /\ x - 1 + 1 = x
        OBVIOUS
      <3>4. Moves(text[x - 2], text[x], q[x - 1], q[x])
        BY <3>1, <3>2, <3>3, LineEntry
      <3>5. IsText(text[x - 2])
        BY <3>1 DEF Steps
      <3>6. Moves(text[x], text[x - 2], q[x], q[x - 1])
        BY <3>4, <3>5, MovesBack
      <3>7. m + 1 \in 1 .. k /\ k + 1 - (m + 1) = x - 1 /\ m < k /\ k - (m + 1) = x - 2 /\ m + 1 \in 0 .. k
        BY <2>1, <3>1
      <3>8. r[m + 1] = w[x - 1] /\ k2[m + 1] = Flip(kind[x - 1]) /\ t2[m + 1] = text[x - 2]
        BY <1>2, <3>7
      <3>9. w[x - 1].h = q[x - 1].h /\ w[x - 1].t = q[x - 1].t
        BY <3>1 DEF AllToggled
      <3>10. Moves(t2[m - 1], t2[m + 1], r[m], r[m + 1])
        <4>1. PICK u, v : u = r[m] /\ v = r[m + 1]
          OBVIOUS
        <4>2. u.h = q[x].h /\ u.t = q[x].t /\ v.h = q[x - 1].h /\ v.t = q[x - 1].t
          BY <2>2, <2>5, <3>8, <3>9, <4>1
        <4>3. Moves(text[x], text[x - 2], u, v)
          BY <3>6, <4>2, MovesSame, ZenonT(60)
        <4> QED
          BY <2>3, <3>8, <4>1, <4>3
      <3>11. k2[m] = "from" /\ k2[m + 1] = "to" /\ r[m].type \in {"UMOV", "URET"} /\ m < Len(r)
        BY <1>2, <2>2, <2>5, <2>7, <3>1, <3>7, <3>8 DEF Flip
      <3> QED
        BY <3>10, <3>11 DEF StepOK
    <2>8. CASE kind[x] = "from"
      <3>1. x < k /\ kind[x + 1] = "to"
        BY <2>4, <2>8, LineEntry
      <3>2. m > 1 /\ m - 1 \in 1 .. k /\ k + 1 - (m - 1) = x + 1
        BY <2>1, <3>1
      <3>3. k2[m - 1] = Flip(kind[x + 1])
        BY <3>2
      <3>4. k2[m] = "to" /\ k2[m - 1] = "from" /\ r[m].type \in {"UMOV", "URET"}
        BY <2>2, <2>5, <2>8, <3>1, <3>3 DEF Flip
      <3> QED
        BY <3>2, <3>4 DEF StepOK
    <2> QED
      BY <2>4, <2>6, <2>7, <2>8, LineEntry
  <1>5. Steps(r, heap, t2, k2, g2, l2, h2)
    BY <1>2, <1>3, <1>4 DEF Steps
  <1> QED
    BY <1>1, <1>5

\* Owned, of the entries in the opposite order.
LEMMA OwnedBack ==
  ASSUME NEW w \in Seq(Entry), NEW f, NEW b, NEW heap, NEW T, NEW long, NEW lo, NEW hi,
         Owned(w, f, b, heap, T, long, lo, hi), NEW k \in Nat, k = Len(w),
         NEW g2, NEW l2, NEW h2, TurnedRanges(k, long, lo, hi, g2, l2, h2)
  PROVE  Owned(Reverse(w), f, b, heap, T, g2, l2, h2)
  <1> USE DEF TurnedRanges
  <1>1. PICK r : r = Reverse(w)
    OBVIOUS
  <1>2. /\ Len(r) = k /\ \A m \in 1 .. k : r[m] = w[k + 1 - m]
    BY <1>1, Backwards
  <1>3. \A m \in 1 .. k : k + 1 - m \in 1 .. k /\ k + 1 - (k + 1 - m) = m
    OBVIOUS
  <1>4. \A m \in Dels(r) : /\ m \in 1 .. k /\ k + 1 - m \in Dels(w)
                           /\ g2[m] = long[k + 1 - m] /\ l2[m] = lo[k + 1 - m] /\ h2[m] = hi[k + 1 - m]
    BY <1>2, <1>3 DEF Dels
  <1>5. ASSUME NEW x \in Dels(w)
        PROVE  \E m \in Dels(r) : g2[m] = long[x] /\ l2[m] = lo[x] /\ h2[m] = hi[x]
    <2>1. x \in 1 .. k /\ w[x].type = "UDEL"
      BY DEF Dels
    <2>2. PICK m \in 1 .. k : m = k + 1 - x /\ k + 1 - m = x
      BY <1>3, <2>1
    <2>3. r[m] = w[x] /\ g2[m] = long[x] /\ l2[m] = lo[x] /\ h2[m] = hi[x]
      BY <1>2, <2>2
    <2>4. m \in Dels(r)
      BY <1>2, <2>1, <2>3 DEF Dels
    <2> QED
      BY <2>3, <2>4
  <1>6. \A m \in Dels(r) : Frozen(f, b, g2[m], l2[m], h2[m])
    BY <1>4 DEF Owned
  <1>7. ASSUME NEW n \in Link
        PROVE  n \in heap <=> \/ n \in ToSet(T)
                              \/ \E m \in Dels(r) : n \in Lines(g2[m], l2[m], h2[m])
    <2>1. n \in heap <=> \/ n \in ToSet(T)
                         \/ \E x \in Dels(w) : n \in Lines(long[x], lo[x], hi[x])
      BY DEF Owned
    <2>2. (\E m \in Dels(r) : n \in Lines(g2[m], l2[m], h2[m]))
          => \E x \in Dels(w) : n \in Lines(long[x], lo[x], hi[x])
      BY <1>4
    <2>3. (\E x \in Dels(w) : n \in Lines(long[x], lo[x], hi[x]))
          => \E m \in Dels(r) : n \in Lines(g2[m], l2[m], h2[m])
      BY <1>5
    <2> QED
      BY <2>1, <2>2, <2>3
  <1>8. \A m \in Dels(r) : \A n \in Lines(g2[m], l2[m], h2[m]) : n \notin ToSet(T)
    BY <1>4 DEF Owned
  <1>9. ASSUME NEW m \in Dels(r), NEW x \in Dels(r), m # x,
               NEW n \in Lines(g2[m], l2[m], h2[m])
        PROVE  n \notin Lines(g2[x], l2[x], h2[x])
    <2>1. PICK y, z \in Dels(w) : y = k + 1 - m /\ z = k + 1 - x
      BY <1>4
    <2>2. y # z
      BY <1>3, <1>4, <1>9, <2>1
    <2>3. n \in Lines(long[y], lo[y], hi[y])
      BY <1>4, <2>1
    <2>4. n \notin Lines(long[z], lo[z], hi[z])
      BY <2>2, <2>3 DEF Owned
    <2> QED
      BY <1>4, <2>1, <2>4
  <1>10. IsText(T) /\ Ring(f, b, T)
    BY DEF Owned
  <1>11. Owned(r, f, b, heap, T, g2, l2, h2)
    BY <1>6, <1>7, <1>8, <1>9, <1>10 DEF Owned
  <1> QED
    BY <1>1, <1>11

\* Undoing every entry gives the text there was, and a queue that undoes that.
LEMMA UndoDeque ==
  ASSUME NEW e, NEW T, NEW T0, Deque(e.undo, e.forw, e.back, e.heap, T, T0),
         NEW u, u = undo_links(e)
  PROVE  Deque(Reverse(u.undo), u.forw, u.back, e.heap, T0, T)
  <1>1. PICK q, k : q = e.undo /\ k = Len(q)
    OBVIOUS
  <1>2. /\ q \in Seq(Entry) /\ k \in Nat /\ e.heap \subseteq Node
        /\ e.forw \in [Link -> Link] /\ e.back \in [Link -> Link]
    BY <1>1, DequeParts
  <1>3. PICK text, kind, long, lo, hi :
              /\ Steps(q, e.heap, text, kind, long, lo, hi)
              /\ Owned(q, e.forw, e.back, e.heap, T, long, lo, hi)
              /\ text[k] = T /\ text[0] = T0
    BY <1>1, DequeParts
  <1>4. PICK a : /\ a[0] = Started(e)
                 /\ \A i \in 1 .. k : a[i] = undo_entry(k + 1 - i, a[i - 1])
                 /\ u = a[k]
    <2>1. k \in Nat /\ k = Len(e.undo)
      BY <1>1, <1>2
    <2>2. \E a : /\ a[0] = Started(e)
                 /\ \A i \in 1 .. k : a[i] = undo_entry(k + 1 - i, a[i - 1])
                 /\ undo_links(e) = a[k]
      BY <2>1, UndoLinksRun, ZenonT(60)
    <2> QED
      BY <2>2
  <1> DEFINE S == {i \in 0 .. k : Stage(a[i], k - i, q, e.heap, text, kind, long, lo, hi)}
  <1> HIDE DEF S
  <1>5. 0 \in S
    <2>1. PICK s : s = a[0]
      OBVIOUS
    <2>2. /\ s.forw = e.forw /\ s.back = e.back /\ s.undo = q /\ s.second = FALSE /\ s \in Undoing
      BY <1>1, <1>2, <1>4, <2>1 DEF Started, Undoing
    <2>3. ASSUME NEW x \in 1 .. Len(q)
          PROVE  IF kind[x] = "line" THEN q[x].type = (IF x > k THEN Toggle(q[x].type) ELSE q[x].type)
                                     ELSE q[x].type \in {"UMOV", "URET"}
      <3>1. StepOK(q, text, kind, long, lo, hi, x) /\ q[x] \in Entry /\ ~ (x > k)
        BY <1>1, <1>2, <1>3 DEF Steps
      <3>2. q[x].type \in {"UADD", "UDEL", "UMOV", "URET"}
        BY <3>1 DEF Entry
      <3>3. kind[x] # "line" => q[x].type \in {"UMOV", "URET"}
        BY <3>1, <3>2, LineEntry
      <3> QED
        BY <3>1, <3>3
    <2>4. ~ (k < Len(q)) /\ k - 0 = k /\ 0 \in 0 .. k
      BY <1>1, <1>2
    <2>5. Stage(s, k, q, e.heap, text, kind, long, lo, hi)
      BY <1>3, <2>2, <2>3, <2>4 DEF Stage
    <2> QED
      BY <2>1, <2>4, <2>5 DEF S
  <1>6. ASSUME NEW i \in 1 .. k, i - 1 \in S PROVE i \in S
    <2>0. PICK j : j = k + 1 - i
      OBVIOUS
    <2>1. j \in 1 .. k /\ j = k + 1 - i /\ k - (i - 1) = j /\ k - i = j - 1
      <3>1. k \in Nat
        BY <1>2
      <3> QED
        BY <2>0, <3>1
    <2>2. PICK s : s = a[i - 1] /\ Stage(s, j, q, e.heap, text, kind, long, lo, hi)
      BY <1>6, <2>1 DEF S
    <2>3. Stage(undo_entry(j, s), j - 1, q, e.heap, text, kind, long, lo, hi)
      <3>1. /\ q \in Seq(Entry) /\ Len(q) \in Nat /\ j \in 1 .. Len(q)
            /\ Steps(q, e.heap, text, kind, long, lo, hi)
            /\ Stage(s, j, q, e.heap, text, kind, long, lo, hi)
        BY <1>1, <1>2, <1>3, <2>1, <2>2
      <3> QED
        BY <3>1, StageStep, ZenonT(60)
    <2>4. a[i] = undo_entry(j, s) /\ i \in 0 .. k
      BY <1>4, <2>1, <2>2
    <2> QED
      BY <2>1, <2>3, <2>4 DEF S
  <1>7. Stage(u, 0, q, e.heap, text, kind, long, lo, hi)
    <2>1. k \in 0 .. k /\ k - k = 0
      BY <1>2
    <2>2. k \in S
      <3> QED
        BY <1>2, <1>5, <1>6, <2>1, Inductive
    <2> QED
      BY <1>4, <2>1, <2>2 DEF S
  <1>8. ~ u.second
    <2>1. ASSUME u.second PROVE FALSE
      <3>1. 0 < Len(q) /\ kind[0 + 1] = "to"
        BY <1>7, <2>1 DEF Stage
      <3>2. 1 \in 1 .. Len(q) /\ kind[1] = "to"
        BY <1>1, <1>2, <3>1
      <3>3. StepOK(q, text, kind, long, lo, hi, 1)
        BY <1>3, <3>2 DEF Steps
      <3>4. 1 > 1
        BY <3>2, <3>3, LineEntry
      <3> QED
        BY <3>4
    <2> QED
      BY <2>1
  <1>9. /\ u \in Undoing /\ u.undo \in Seq(Entry) /\ Len(u.undo) = k
        /\ u.forw \in [Link -> Link] /\ u.back \in [Link -> Link]
        /\ Owned(u.undo, u.forw, u.back, e.heap, T0, long, lo, hi)
    BY <1>1, <1>3, <1>7, <1>8 DEF Stage, Undoing
  <1>10. AllToggled(q, kind, u.undo)
    <2>1. \A x \in 1 .. Len(q) : x > 0
      OBVIOUS
    <2> QED
      BY <1>1, <1>7, <1>9, <2>1 DEF Stage, AllToggled
  <1>11. PICK t2, k2, g2, l2, h2 :
           TurnedTexts(k, text, kind, t2, k2) /\ TurnedRanges(k, long, lo, hi, g2, l2, h2)
    BY DEF TurnedTexts, TurnedRanges
  <1>12. PICK w : w = u.undo
    OBVIOUS
  <1>13. Steps(Reverse(w), e.heap, t2, k2, g2, l2, h2)
    <2>1. /\ q \in Seq(Entry) /\ k \in Nat /\ k = Len(q)
          /\ Steps(q, e.heap, text, kind, long, lo, hi) /\ AllToggled(q, kind, w)
      BY <1>1, <1>2, <1>3, <1>10, <1>12
    <2>2. PICK heap : heap = e.heap
      OBVIOUS
    <2>3. Steps(q, heap, text, kind, long, lo, hi)
      BY <2>1, <2>2
    <2>4. Steps(Reverse(w), heap, t2, k2, g2, l2, h2)
      <3> QED
        BY <2>1, <2>3, <1>11, StepsBack, ZenonT(60)
    <2> QED
      BY <2>2, <2>4
  <1>14. Owned(Reverse(w), u.forw, u.back, e.heap, T0, g2, l2, h2)
    <2>1. PICK f, b, heap : f = u.forw /\ b = u.back /\ heap = e.heap
      OBVIOUS
    <2>2. /\ w \in Seq(Entry) /\ k \in Nat /\ k = Len(w)
          /\ Owned(w, f, b, heap, T0, long, lo, hi)
      BY <1>2, <1>9, <1>12, <2>1
    <2>3. Owned(Reverse(w), f, b, heap, T0, g2, l2, h2)
      <3> QED
        BY <2>2, <1>11, OwnedBack, ZenonT(60)
    <2> QED
      BY <2>1, <2>3
  <1>15. Reverse(w) \in Seq(Entry) /\ Len(Reverse(w)) = k
    BY <1>9, <1>12, Backwards
  <1>16. t2[k] = T0 /\ t2[0] = T
    <2>1. k \in 0 .. k /\ 0 \in 0 .. k /\ k - k = 0 /\ k - 0 = k
      BY <1>2
    <2> QED
      BY <1>3, <1>11, <2>1 DEF TurnedTexts
  <1>17. Deque(Reverse(w), u.forw, u.back, e.heap, T0, T)
    BY <1>2, <1>9, <1>13, <1>14, <1>15, <1>16 DEF Deque
  <1> QED
    BY <1>12, <1>17

----------------------------------------------------------------------------
(* Lines are freed, with their marks. *)

\* The buffer record, by its types.
State == [dot : Int, lines : Int, is_empty : BOOLEAN]
GlobalBuffer == [lbuf : Seq(Node \cup {Nil}), ptr : Nat \ {0}, index : Nat]
Buffer ==
  [forw : [Link -> Link], back : [Link -> Link], heap : SUBSET Node,
   st : State, saved : State, lp : Link, n_prev : Nat, undo : Seq(Entry),
   mark : [Mark -> Link \cup {Nil}], marks : Nat, gb : GlobalBuffer,
   global : BOOLEAN]

Marked(e) == {m \in Mark : e.mark[m] # Nil}

\* Marks are on line_head and on lines that are allocated; they are counted.
MarksOK(e) ==
  /\ \A m \in Mark : e.mark[m] # Nil /\ e.mark[m] # 0 => e.mark[m] \in e.heap
  /\ e.marks = Cardinality(Marked(e))

\* The fields that have to do with neither lines nor marks.
SameRest(e, r) ==
  /\ r.st = e.st /\ r.saved = e.saved /\ r.lp = e.lp /\ r.n_prev = e.n_prev
  /\ r.undo = e.undo /\ r.gb = e.gb /\ r.global = e.global

\* The nodes N have been freed.
Freed(e, r, N) ==
  /\ r \in Buffer /\ SameRest(e, r) /\ MarksOK(r)
  /\ Same(e.forw, r.forw, N) /\ Same(e.back, r.back, N)
  /\ r.heap = e.heap \ N

\* Marks can be counted.
LEMMA MarkedFinite ==
  ASSUME NEW e
  PROVE  IsFiniteSet(Marked(e)) /\ Cardinality(Marked(e)) \in Nat
         /\ \A S \in SUBSET Marked(e) : IsFiniteSet(S) /\ Cardinality(S) \in Nat
  <1>1. IsFiniteSet(Mark)
    BY FS_Interval DEF Mark
  <1>2. Marked(e) \in SUBSET Mark
    BY DEF Marked
  <1>3. IsFiniteSet(Marked(e))
    BY <1>1, <1>2, FS_Subset
  <1>4. \A S \in SUBSET Marked(e) : IsFiniteSet(S)
    BY <1>3, FS_Subset
  <1> QED
    BY <1>3, <1>4, FS_CardinalityType

\* All the marks of a line are found: their number is right.
LEMMA AllSeen ==
  ASSUME NEW e \in Buffer, MarksOK(e), NEW n \in Node,
         NEW hits, hits = {m \in Mark : e.mark[m] = n}
  PROVE  /\ hits \subseteq Marked(e)
         /\ \A m \in hits : Cardinality({k \in hits : k < m}) < e.marks
         /\ e.marks - Cardinality(hits) = Cardinality(Marked(e) \ hits)
  <1>1. hits \subseteq Marked(e)
    BY DEF Marked, Node, Nil
  <1>2. IsFiniteSet(Marked(e)) /\ Cardinality(Marked(e)) \in Nat
        /\ \A S \in SUBSET Marked(e) : IsFiniteSet(S) /\ Cardinality(S) \in Nat
    BY MarkedFinite
  <1>3. ASSUME NEW m \in hits PROVE Cardinality({k \in hits : k < m}) < e.marks
    <2>1. PICK S : S = {k \in hits : k < m}
      OBVIOUS
    <2>2. m \in Mark /\ m \in Int
      BY DEF Mark
    <2>3. S \in SUBSET Marked(e) /\ m \notin S /\ m \in Marked(e)
      BY <1>1, <2>1, <2>2
    <2>4. Cardinality(S) <= Cardinality(Marked(e)) /\ Cardinality(Marked(e)) # Cardinality(S)
      <3>1. Marked(e) # S
        BY <2>3
      <3> QED
        BY <1>2, <2>3, <3>1, FS_Subset
    <2>5. Cardinality(S) \in Nat
      BY <1>2, <2>3
    <2> QED
      BY <1>2, <2>1, <2>4, <2>5 DEF MarksOK
  <1>4. Cardinality(Marked(e) \ hits) = Cardinality(Marked(e)) - Cardinality(Marked(e) \cap hits)
    BY <1>2, FS_Difference
  <1>5. Marked(e) \cap hits = hits
    BY <1>1
  <1> QED
    BY <1>1, <1>3, <1>4, <1>5 DEF MarksOK

\* The record with other marks.
Remark(e, mk, c) == [e EXCEPT !.mark = mk, !.marks = c]

Remarked(e, r, mk, c) ==
  /\ r \in Buffer /\ r.mark = mk /\ r.marks = c /\ r.heap = e.heap
  /\ r.forw = e.forw /\ r.back = e.back /\ SameRest(e, r)

\* The fields after marks have changed.
LEMMA RemarkFields ==
  ASSUME NEW e \in Buffer, NEW mk \in [Mark -> Link \cup {Nil}], NEW c \in Nat
  PROVE  Remarked(e, Remark(e, mk, c), mk, c)
  BY DEF Buffer, SameRest, Remark, Remarked

\* The fields after a node has been freed.
LEMMA FreeFields ==
  ASSUME NEW e \in Buffer, NEW r, NEW n \in Node, r = free(e, n)
  PROVE  /\ r \in Buffer /\ r.mark = e.mark /\ r.marks = e.marks /\ r.heap = e.heap \ {n}
         /\ Same(e.forw, r.forw, {n}) /\ Same(e.back, r.back, {n}) /\ SameRest(e, r)
  <1>1. n \in Link
    BY DEF Node, Link
  <1>2. /\ [e.forw EXCEPT ![n] = n] \in [Link -> Link]
        /\ [e.back EXCEPT ![n] = n] \in [Link -> Link]
        /\ e.heap \ {n} \in SUBSET Node
    BY <1>1 DEF Buffer
  <1>3. r = [[[e EXCEPT !.heap = e.heap \ {n}] EXCEPT !.forw = [e.forw EXCEPT ![n] = n]]
              EXCEPT !.back = [e.back EXCEPT ![n] = n]]
    BY DEF free, Buffer
  <1>4. /\ r \in Buffer /\ r.mark = e.mark /\ r.marks = e.marks /\ r.heap = e.heap \ {n}
        /\ r.forw = [e.forw EXCEPT ![n] = n] /\ r.back = [e.back EXCEPT ![n] = n]
        /\ SameRest(e, r)
    BY <1>2, <1>3 DEF Buffer, SameRest
  <1>5. e.forw \in [Link -> Link] /\ e.back \in [Link -> Link]
    BY DEF Buffer
  <1> QED
    BY <1>4, <1>5 DEF Same

\* One line is released: freed, and its marks removed.
LEMMA ReleaseLine ==
  ASSUME NEW e \in Buffer, MarksOK(e), NEW n \in Node
  PROVE  Freed(e, Release(e, n), {n})
  <1>1. PICK hits : hits = {m \in Mark : e.mark[m] = n}
    OBVIOUS
  <1>2. /\ hits \subseteq Marked(e)
        /\ \A m \in hits : Cardinality({k \in hits : k < m}) < e.marks
        /\ e.marks - Cardinality(hits) = Cardinality(Marked(e) \ hits)
    BY <1>1, AllSeen
  <1>3. PICK u : u = unmark_line_node(e, n)
    OBVIOUS
  <1>4. PICK mk : mk = [m \in Mark |-> IF m \in hits THEN Nil ELSE e.mark[m]]
    OBVIOUS
  <1>5. PICK c : c = e.marks - Cardinality(hits)
    OBVIOUS
  <1>6. u = Remark(e, mk, c)
    <2>1. {m \in hits : Cardinality({k \in hits : k < m}) < e.marks} = hits
      BY <1>2
    <2>2. PICK seen : seen = {m \in hits : Cardinality({k \in hits : k < m}) < e.marks}
      OBVIOUS
    <2>3. u = [e EXCEPT !.mark = [m \in Mark |-> IF m \in seen THEN Nil ELSE e.mark[m]],
                        !.marks = e.marks - Cardinality(seen)]
      BY <1>1, <1>3, <2>2 DEF unmark_line_node
    <2> QED
      BY <1>4, <1>5, <2>1, <2>2, <2>3 DEF Remark
  <1>7. e.mark \in [Mark -> Link \cup {Nil}]
    BY DEF Buffer
  <1>8. mk \in [Mark -> Link \cup {Nil}]
    BY <1>4, <1>7
  <1>9. c \in Nat
    <2>1. Marked(e) \ hits \in SUBSET Marked(e)
      OBVIOUS
    <2> QED
      BY <1>2, <1>5, <2>1, MarkedFinite
  <1>10. /\ u \in Buffer /\ u.mark = mk /\ u.marks = c /\ u.heap = e.heap
         /\ u.forw = e.forw /\ u.back = e.back /\ SameRest(e, u)
    <2>1. Remarked(e, Remark(e, mk, c), mk, c)
      BY <1>8, <1>9, RemarkFields
    <2> QED
      BY <1>6, <2>1 DEF Remarked
  <1>11. PICK r : r = free(u, n)
    OBVIOUS
  <1>12. /\ r \in Buffer /\ r.mark = mk /\ r.marks = c /\ r.heap = e.heap \ {n}
         /\ Same(e.forw, r.forw, {n}) /\ Same(e.back, r.back, {n}) /\ SameRest(u, r)
    <2>1. u \in Buffer
      BY <1>10
    <2>2. /\ r \in Buffer /\ r.mark = u.mark /\ r.marks = u.marks /\ r.heap = u.heap \ {n}
          /\ Same(u.forw, r.forw, {n}) /\ Same(u.back, r.back, {n}) /\ SameRest(u, r)
      BY <2>1, <1>11, FreeFields, ZenonT(60)
    <2> QED
      BY <1>10, <2>2
  <1>13. SameRest(e, r)
    BY <1>10, <1>12 DEF SameRest
  <1>14. Marked(r) = Marked(e) \ hits
    BY <1>4, <1>12 DEF Marked
  <1>15. \A m \in Mark : r.mark[m] # Nil /\ r.mark[m] # 0 => r.mark[m] \in r.heap
    <2>1. ASSUME NEW m \in Mark, r.mark[m] # Nil, r.mark[m] # 0
          PROVE  r.mark[m] \in r.heap
      <3>1. m \notin hits /\ r.mark[m] = e.mark[m]
        BY <1>4, <1>12, <2>1
      <3>2. e.mark[m] # n
        BY <1>1, <3>1
      <3>3. e.mark[m] \in e.heap
        BY <2>1, <3>1 DEF MarksOK
      <3> QED
        BY <1>12, <3>1, <3>2, <3>3
    <2> QED
      BY <2>1
  <1>16. MarksOK(r)
    BY <1>2, <1>5, <1>12, <1>14, <1>15 DEF MarksOK
  <1> QED
    BY <1>3, <1>11, <1>12, <1>13, <1>16 DEF Freed, Release

----------------------------------------------------------------------------
(* The loops of reset_undo_queue () and of clear_global_line (). *)

Releasing(e, nodes, k, a) ==
  /\ a[0] = e
  /\ \A i \in 1 .. k : a[i] = Release(a[i - 1], nodes[i])
  /\ ReleaseAll(e, nodes) = a[k]

\* The states of the loop over the lines of an undo entry.
LEMMA ReleaseRun ==
  ASSUME NEW e, NEW nodes, NEW k \in Nat, k = Len(nodes)
  PROVE  \E a : Releasing(e, nodes, k, a)
  <1> DEFINE S == {m \in 0 .. k : \E a : /\ a[0] = e
                                         /\ \A i \in 1 .. m : a[i] = Release(a[i - 1], nodes[i])}
  <1>1. 0 \in S
    <2>1. PICK a : a = [i \in {0} |-> e]
      OBVIOUS
    <2>2. a[0] = e /\ 0 \in 0 .. k /\ 1 .. 0 = {}
      BY <2>1
    <2> QED
      BY <2>2
  <1>2. ASSUME NEW m \in 1 .. k, m - 1 \in S PROVE m \in S
    <2>1. PICK l \in Nat : l = m - 1 /\ m = l + 1
      OBVIOUS
    <2>2. PICK a : /\ a[0] = e
                   /\ \A i \in 1 .. l : a[i] = Release(a[i - 1], nodes[i])
      BY <1>2, <2>1
    <2>3. PICK c : c = Ext(a, l, Release(a[l], nodes[m]))
      OBVIOUS
    <2>4. c[m] = Release(a[l], nodes[m])
      BY <2>1, <2>3, ExtTop
    <2>5. \A x \in 0 .. l : c[x] = a[x]
      BY <2>3, ExtLow
    <2>6. c[0] = e
      <3>1. 0 \in 0 .. l
        OBVIOUS
      <3> QED
        BY <2>2, <2>5, <3>1
    <2>7. ASSUME NEW i \in 1 .. m PROVE c[i] = Release(c[i - 1], nodes[i])
      <3>1. CASE i = m
        <4>1. l \in 0 .. l /\ i - 1 = l
          BY <2>1, <3>1
        <4>2. c[i - 1] = a[l]
          BY <2>5, <4>1
        <4> QED
          BY <2>4, <3>1, <4>2
      <3>2. CASE i \in 1 .. l
        <4>1. i \in 0 .. l /\ i - 1 \in 0 .. l
          BY <3>2
        <4>2. c[i] = a[i] /\ c[i - 1] = a[i - 1]
          BY <2>5, <4>1
        <4> QED
          BY <2>2, <3>2, <4>2
      <3> QED
        BY <2>1, <3>1, <3>2
    <2>8. m \in 0 .. k
      OBVIOUS
    <2> QED
      BY <2>6, <2>7, <2>8
  <1>3. k \in S
    <2> HIDE DEF S
    <2>1. k \in 0 .. k
      OBVIOUS
    <2> QED
      BY <1>1, <1>2, <2>1, Inductive
  <1>4. PICK a : /\ a[0] = e
                 /\ \A i \in 1 .. k : a[i] = Release(a[i - 1], nodes[i])
    BY <1>3
  <1> HIDE DEF S
  <1> DEFINE W == CHOOSE w : w = [i \in 0 .. k |-> IF i = 0 THEN e
                                                  ELSE Release(w[i - 1], nodes[i])]
  <1>5. PICK c : c = [i \in 0 .. k |-> a[i]]
    OBVIOUS
  <1>6. c = [i \in 0 .. k |-> IF i = 0 THEN e ELSE Release(c[i - 1], nodes[i])]
    <2>1. \A i \in 0 .. k : i = 0 \/ (i \in 1 .. k /\ i # 0 /\ i - 1 \in 0 .. k)
      OBVIOUS
    <2>2. \A i \in 0 .. k : c[i] = a[i]
      BY <1>5
    <2>3. \A i \in 0 .. k : a[i] = IF i = 0 THEN e ELSE Release(c[i - 1], nodes[i])
      BY <1>4, <2>1, <2>2
    <2> QED
      BY <1>5, <2>3
  <1>7. W = [i \in 0 .. k |-> IF i = 0 THEN e ELSE Release(W[i - 1], nodes[i])]
    BY <1>6
  <1>8. ReleaseAll(e, nodes) = W[k]
    BY DEF ReleaseAll
  <1> HIDE DEF W
  <1>9. W[0] = e
    <2>1. 0 \in 0 .. k
      OBVIOUS
    <2> QED
      BY <1>7, <2>1
  <1>10. \A i \in 1 .. k : W[i] = Release(W[i - 1], nodes[i])
    <2>1. \A i \in 1 .. k : i \in 0 .. k /\ i # 0
      OBVIOUS
    <2> QED
      BY <1>7, <2>1
  <1> QED
    BY <1>8, <1>9, <1>10 DEF Releasing

Resetting(e, k, a) ==
  /\ a[0] = e
  /\ \A i \in 1 .. k : a[i] = ClearEntry(a[i - 1], e.undo[i])
  /\ reset_undo_queue(e) = [a[k] EXCEPT !.undo = <<>>, !.saved = e.st]

\* The states of the loop over the undo queue.
LEMMA ResetRun ==
  ASSUME NEW e, NEW k \in Nat, k = Len(e.undo)
  PROVE  \E a : Resetting(e, k, a)
  <1> DEFINE S == {m \in 0 .. k : \E a : /\ a[0] = e
                                         /\ \A i \in 1 .. m : a[i] = ClearEntry(a[i - 1], e.undo[i])}
  <1>1. 0 \in S
    <2>1. PICK a : a = [i \in {0} |-> e]
      OBVIOUS
    <2>2. a[0] = e /\ 0 \in 0 .. k /\ 1 .. 0 = {}
      BY <2>1
    <2> QED
      BY <2>2
  <1>2. ASSUME NEW m \in 1 .. k, m - 1 \in S PROVE m \in S
    <2>1. PICK l \in Nat : l = m - 1 /\ m = l + 1
      OBVIOUS
    <2>2. PICK a : /\ a[0] = e
                   /\ \A i \in 1 .. l : a[i] = ClearEntry(a[i - 1], e.undo[i])
      BY <1>2, <2>1
    <2>3. PICK c : c = Ext(a, l, ClearEntry(a[l], e.undo[m]))
      OBVIOUS
    <2>4. c[m] = ClearEntry(a[l], e.undo[m])
      BY <2>1, <2>3, ExtTop
    <2>5. \A x \in 0 .. l : c[x] = a[x]
      BY <2>3, ExtLow
    <2>6. c[0] = e
      <3>1. 0 \in 0 .. l
        OBVIOUS
      <3> QED
        BY <2>2, <2>5, <3>1
    <2>7. ASSUME NEW i \in 1 .. m PROVE c[i] = ClearEntry(c[i - 1], e.undo[i])
      <3>1. CASE i = m
        <4>1. l \in 0 .. l /\ i - 1 = l
          BY <2>1, <3>1
        <4>2. c[i - 1] = a[l]
          BY <2>5, <4>1
        <4> QED
          BY <2>4, <3>1, <4>2
      <3>2. CASE i \in 1 .. l
        <4>1. i \in 0 .. l /\ i - 1 \in 0 .. l
          BY <3>2
        <4>2. c[i] = a[i] /\ c[i - 1] = a[i - 1]
          BY <2>5, <4>1
        <4> QED
          BY <2>2, <3>2, <4>2
      <3> QED
        BY <2>1, <3>1, <3>2
    <2>8. m \in 0 .. k
      OBVIOUS
    <2> QED
      BY <2>6, <2>7, <2>8
  <1>3. k \in S
    <2> HIDE DEF S
    <2>1. k \in 0 .. k
      OBVIOUS
    <2> QED
      BY <1>1, <1>2, <2>1, Inductive
  <1>4. PICK a : /\ a[0] = e
                 /\ \A i \in 1 .. k : a[i] = ClearEntry(a[i - 1], e.undo[i])
    BY <1>3
  <1> HIDE DEF S
  <1> DEFINE W == CHOOSE w : w = [i \in 0 .. k |-> IF i = 0 THEN e
                                                  ELSE ClearEntry(w[i - 1], e.undo[i])]
  <1>5. PICK c : c = [i \in 0 .. k |-> a[i]]
    OBVIOUS
  <1>6. c = [i \in 0 .. k |-> IF i = 0 THEN e ELSE ClearEntry(c[i - 1], e.undo[i])]
    <2>1. \A i \in 0 .. k : i = 0 \/ (i \in 1 .. k /\ i # 0 /\ i - 1 \in 0 .. k)
      OBVIOUS
    <2>2. \A i \in 0 .. k : c[i] = a[i]
      BY <1>5
    <2>3. \A i \in 0 .. k : a[i] = IF i = 0 THEN e ELSE ClearEntry(c[i - 1], e.undo[i])
      BY <1>4, <2>1, <2>2
    <2> QED
      BY <1>5, <2>3
  <1>7. W = [i \in 0 .. k |-> IF i = 0 THEN e ELSE ClearEntry(W[i - 1], e.undo[i])]
    BY <1>6
  <1>8. reset_undo_queue(e) = [W[k] EXCEPT !.undo = <<>>, !.saved = e.st]
    BY DEF reset_undo_queue
  <1> HIDE DEF W
  <1>9. W[0] = e
    <2>1. 0 \in 0 .. k
      OBVIOUS
    <2> QED
      BY <1>7, <2>1
  <1>10. \A i \in 1 .. k : W[i] = ClearEntry(W[i - 1], e.undo[i])
    <2>1. \A i \in 1 .. k : i \in 0 .. k /\ i # 0
      OBVIOUS
    <2> QED
      BY <1>7, <2>1
  <1> QED
    BY <1>8, <1>9, <1>10 DEF Resetting

Clearing(gb, nodes, k, a) ==
  /\ a[0] = gb
  /\ \A i \in 1 .. k : a[i] = clear_global_line(a[i - 1], nodes[i])
  /\ clear_global_lines(gb, nodes) = a[k]

\* The states of the loop over lines to be cleared from the global buffer.
LEMMA ClearRun ==
  ASSUME NEW gb, NEW nodes, NEW k \in Nat, k = Len(nodes)
  PROVE  \E a : Clearing(gb, nodes, k, a)
  <1> DEFINE S == {m \in 0 .. k : \E a : /\ a[0] = gb
                                         /\ \A i \in 1 .. m : a[i] = clear_global_line(a[i - 1], nodes[i])}
  <1>1. 0 \in S
    <2>1. PICK a : a = [i \in {0} |-> gb]
      OBVIOUS
    <2>2. a[0] = gb /\ 0 \in 0 .. k /\ 1 .. 0 = {}
      BY <2>1
    <2> QED
      BY <2>2
  <1>2. ASSUME NEW m \in 1 .. k, m - 1 \in S PROVE m \in S
    <2>1. PICK l \in Nat : l = m - 1 /\ m = l + 1
      OBVIOUS
    <2>2. PICK a : /\ a[0] = gb
                   /\ \A i \in 1 .. l : a[i] = clear_global_line(a[i - 1], nodes[i])
      BY <1>2, <2>1
    <2>3. PICK c : c = Ext(a, l, clear_global_line(a[l], nodes[m]))
      OBVIOUS
    <2>4. c[m] = clear_global_line(a[l], nodes[m])
      BY <2>1, <2>3, ExtTop
    <2>5. \A x \in 0 .. l : c[x] = a[x]
      BY <2>3, ExtLow
    <2>6. c[0] = gb
      <3>1. 0 \in 0 .. l
        OBVIOUS
      <3> QED
        BY <2>2, <2>5, <3>1
    <2>7. ASSUME NEW i \in 1 .. m PROVE c[i] = clear_global_line(c[i - 1], nodes[i])
      <3>1. CASE i = m
        <4>1. l \in 0 .. l /\ i - 1 = l
          BY <2>1, <3>1
        <4>2. c[i - 1] = a[l]
          BY <2>5, <4>1
        <4> QED
          BY <2>4, <3>1, <4>2
      <3>2. CASE i \in 1 .. l
        <4>1. i \in 0 .. l /\ i - 1 \in 0 .. l
          BY <3>2
        <4>2. c[i] = a[i] /\ c[i - 1] = a[i - 1]
          BY <2>5, <4>1
        <4> QED
          BY <2>2, <3>2, <4>2
      <3> QED
        BY <2>1, <3>1, <3>2
    <2>8. m \in 0 .. k
      OBVIOUS
    <2> QED
      BY <2>6, <2>7, <2>8
  <1>3. k \in S
    <2> HIDE DEF S
    <2>1. k \in 0 .. k
      OBVIOUS
    <2> QED
      BY <1>1, <1>2, <2>1, Inductive
  <1>4. PICK a : /\ a[0] = gb
                 /\ \A i \in 1 .. k : a[i] = clear_global_line(a[i - 1], nodes[i])
    BY <1>3
  <1> HIDE DEF S
  <1> DEFINE W == CHOOSE w : w = [i \in 0 .. k |-> IF i = 0 THEN gb
                                                  ELSE clear_global_line(w[i - 1], nodes[i])]
  <1>5. PICK c : c = [i \in 0 .. k |-> a[i]]
    OBVIOUS
  <1>6. c = [i \in 0 .. k |-> IF i = 0 THEN gb ELSE clear_global_line(c[i - 1], nodes[i])]
    <2>1. \A i \in 0 .. k : i = 0 \/ (i \in 1 .. k /\ i # 0 /\ i - 1 \in 0 .. k)
      OBVIOUS
    <2>2. \A i \in 0 .. k : c[i] = a[i]
      BY <1>5
    <2>3. \A i \in 0 .. k : a[i] = IF i = 0 THEN gb ELSE clear_global_line(c[i - 1], nodes[i])
      BY <1>4, <2>1, <2>2
    <2> QED
      BY <1>5, <2>3
  <1>7. W = [i \in 0 .. k |-> IF i = 0 THEN gb ELSE clear_global_line(W[i - 1], nodes[i])]
    BY <1>6
  <1>8. clear_global_lines(gb, nodes) = W[k]
    BY DEF clear_global_lines
  <1> HIDE DEF W
  <1>9. W[0] = gb
    <2>1. 0 \in 0 .. k
      OBVIOUS
    <2> QED
      BY <1>7, <2>1
  <1>10. \A i \in 1 .. k : W[i] = clear_global_line(W[i - 1], nodes[i])
    <2>1. \A i \in 1 .. k : i \in 0 .. k /\ i # 0
      OBVIOUS
    <2> QED
      BY <1>7, <2>1
  <1> QED
    BY <1>8, <1>9, <1>10 DEF Clearing


\* One more node freed.
LEMMA FreedMore ==
  ASSUME NEW e, NEW s, NEW r, NEW N, NEW n, Freed(e, s, N), Freed(s, r, {n}),
         NEW M, M = N \cup {n}
  PROVE  Freed(e, r, M)
  <1>1. SameRest(e, r)
    BY DEF Freed, SameRest
  <1>2. Same(e.forw, r.forw, M) /\ Same(e.back, r.back, M)
    BY DEF Freed, Same
  <1>3. r.heap = e.heap \ M
    BY DEF Freed
  <1> QED
    BY <1>1, <1>2, <1>3 DEF Freed

First(nodes, i) == {nodes[x] : x \in 1 .. i}

\* All the lines of a range are released.
LEMMA ReleaseLines ==
  ASSUME NEW e \in Buffer, MarksOK(e), NEW nodes \in Seq(Node)
  PROVE  Freed(e, ReleaseAll(e, nodes), ToSet(nodes))
  <1>1. PICK k \in Nat : k = Len(nodes)
    OBVIOUS
  <1>2. PICK a : /\ a[0] = e
                 /\ \A i \in 1 .. k : a[i] = Release(a[i - 1], nodes[i])
                 /\ ReleaseAll(e, nodes) = a[k]
    <2>1. \E a : Releasing(e, nodes, k, a)
      BY <1>1, ReleaseRun
    <2> QED
      BY <2>1 DEF Releasing
  <1> DEFINE S == {i \in 0 .. k : Freed(e, a[i], First(nodes, i))}
  <1>3. 0 \in S
    <2>1. First(nodes, 0) = {}
      BY DEF First
    <2>2. Freed(e, e, {})
      BY DEF Freed, Same, SameRest
    <2> QED
      <3>1. 0 \in 0 .. k
        OBVIOUS
      <3>2. PICK s, M : s = a[0] /\ M = First(nodes, 0)
        OBVIOUS
      <3>3. Freed(e, s, M)
        BY <1>2, <2>1, <2>2, <3>2
      <3> QED
        BY <3>1, <3>2, <3>3
  <1>4. ASSUME NEW i \in 1 .. k, i - 1 \in S PROVE i \in S
    <2>1. Freed(e, a[i - 1], First(nodes, i - 1))
      BY <1>4
    <2>2. nodes[i] \in Node
      BY <1>1
    <2>3. Freed(a[i - 1], Release(a[i - 1], nodes[i]), {nodes[i]})
      <3>1. PICK s, n : s = a[i - 1] /\ n = nodes[i]
        OBVIOUS
      <3>2. s \in Buffer /\ MarksOK(s) /\ n \in Node
        BY <2>1, <2>2, <3>1 DEF Freed
      <3>3. Freed(s, Release(s, n), {n})
        BY <3>2, ReleaseLine
      <3> QED
        BY <3>1, <3>3
    <2>4. First(nodes, i) = First(nodes, i - 1) \cup {nodes[i]}
      <3>1. \A x : x \in 1 .. i <=> x \in 1 .. i - 1 \/ x = i
        OBVIOUS
      <3> QED
        BY <3>1 DEF First
    <2>5. a[i] = Release(a[i - 1], nodes[i])
      BY <1>2
    <2>6. Freed(e, a[i], First(nodes, i))
      <3>1. PICK M, s, r : M = First(nodes, i) /\ s = a[i - 1] /\ r = a[i]
        OBVIOUS
      <3>2. /\ Freed(e, s, First(nodes, i - 1)) /\ Freed(s, r, {nodes[i]})
            /\ M = First(nodes, i - 1) \cup {nodes[i]}
        BY <2>1, <2>3, <2>4, <2>5, <3>1
      <3>3. Freed(e, r, M)
        BY <3>2, FreedMore, ZenonT(60)
      <3> QED
        BY <3>1, <3>3
    <2> QED
      BY <2>6
  <1>5. k \in S
    <2> HIDE DEF S
    <2>1. k \in 0 .. k
      OBVIOUS
    <2> QED
      BY <1>3, <1>4, <2>1, Inductive
  <1>6. First(nodes, k) = ToSet(nodes)
    BY <1>1 DEF ToSet, First
  <1> QED
    BY <1>2, <1>5, <1>6

----------------------------------------------------------------------------
(* reset_undo_queue () frees the deleted lines and nothing else. *)

\* The first i entries of the queue of e have been cleared.
Cleared(s, e, i, T, long, lo, hi) ==
  /\ s \in Buffer /\ SameRest(e, s) /\ MarksOK(s)
  /\ Ring(s.forw, s.back, T)
  /\ \A j \in Dels(e.undo) : j > i => Frozen(s.forw, s.back, long[j], lo[j], hi[j])
  /\ \A n \in Link : n \in s.heap <=> \/ n \in ToSet(T)
                                     \/ \E j \in Dels(e.undo) : j > i /\ n \in Lines(long[j], lo[j], hi[j])

\* The ring stays when the links of other nodes change.
LEMMA RingKept ==
  ASSUME NEW T, IsText(T), NEW f, NEW b, Ring(f, b, T), NEW f2, NEW b2, NEW N,
         Same(f, f2, N), Same(b, b2, N), \A n \in N : n \notin ToSet(T) /\ n # 0
  PROVE  Ring(f2, b2, T)
  <1>1. Len(T) \in Nat
    BY TextFacts
  <1>2. ASSUME NEW x \in 0 .. Len(T)
        PROVE  f2[At(T, x)] = At(T, x + 1) /\ b2[At(T, x + 1)] = At(T, x)
    <2>1. x \in Int /\ x + 1 \in Int
      BY <1>1
    <2>2. At(T, x) \in Link /\ At(T, x + 1) \in Link
      BY <2>1, TextFacts
    <2>3. At(T, x) \in ToSet(T) \cup {0} /\ At(T, x + 1) \in ToSet(T) \cup {0}
      BY <2>1, OnText
    <2>4. At(T, x) \notin N /\ At(T, x + 1) \notin N
      BY <2>3
    <2>5. f2[At(T, x)] = f[At(T, x)] /\ b2[At(T, x + 1)] = b[At(T, x + 1)]
      BY <2>2, <2>4 DEF Same
    <2> QED
      BY <2>5 DEF Ring
  <1> QED
    BY <1>2 DEF Ring

\* One entry of the queue is cleared: its lines are freed if it deleted them.
LEMMA ClearStep ==
  ASSUME NEW e \in Buffer, NEW heap, NEW text, NEW kind, NEW long, NEW lo, NEW hi, NEW T,
         Steps(e.undo, heap, text, kind, long, lo, hi),
         Owned(e.undo, e.forw, e.back, e.heap, T, long, lo, hi),
         NEW i \in 1 .. Len(e.undo), NEW s, Cleared(s, e, i - 1, T, long, lo, hi)
  PROVE  Cleared(ClearEntry(s, e.undo[i]), e, i, T, long, lo, hi)
  <1>1. PICK q : q = e.undo /\ q \in Seq(Entry)
    BY DEF Buffer
  <1>2. PICK up : up = q[i]
    OBVIOUS
  <1>3. s \in Buffer /\ SameRest(e, s) /\ MarksOK(s) /\ Ring(s.forw, s.back, T) /\ IsText(T)
    BY DEF Cleared, Owned
  <1>4. /\ \A j \in Dels(q) : j > i - 1 => Frozen(s.forw, s.back, long[j], lo[j], hi[j])
        /\ \A n \in Link : n \in s.heap <=> \/ n \in ToSet(T)
                                           \/ \E j \in Dels(q) : j > i - 1 /\ n \in Lines(long[j], lo[j], hi[j])
    BY <1>1 DEF Cleared
  <1>5. /\ \A j \in Dels(q) : \A n \in Lines(long[j], lo[j], hi[j]) : n \notin ToSet(T)
        /\ \A x, j \in Dels(q) :
             x # j => \A n \in Lines(long[x], lo[x], hi[x]) : n \notin Lines(long[j], lo[j], hi[j])
    BY <1>1 DEF Owned
  <1>6. i \in Nat /\ \A j \in Dels(q) : j \in Nat /\ (j > i - 1 <=> j > i \/ j = i)
    BY <1>1 DEF Dels
  <1>7. i \in Dels(q) <=> up.type = "UDEL"
    BY <1>1, <1>2 DEF Dels
  <1>8. CASE up.type # "UDEL"
    <2>1. ClearEntry(s, up) = s
      BY <1>8 DEF ClearEntry
    <2>2. \A j \in Dels(q) : j > i - 1 <=> j > i
      BY <1>6, <1>7, <1>8
    <2>3. Cleared(s, e, i, T, long, lo, hi)
      BY <1>1, <1>3, <1>4, <2>2 DEF Cleared
    <2> QED
      BY <1>1, <1>2, <2>1, <2>3
  <1>9. CASE up.type = "UDEL"
    <2>1. i \in Dels(q)
      BY <1>7, <1>9
    <2>2. PICK L, l, h : L = long[i] /\ l = lo[i] /\ h = hi[i]
      OBVIOUS
    <2>3. /\ IsText(L) /\ l \in Nat /\ h \in Nat /\ l < h /\ h <= Len(L)
          /\ up.h = L[l + 1] /\ up.t = L[h]
      <3>1. /\ IsText(long[i]) /\ lo[i] \in Nat /\ hi[i] \in Nat /\ lo[i] < hi[i]
            /\ hi[i] <= Len(long[i])
            /\ q[i].h = long[i][lo[i] + 1] /\ q[i].t = long[i][hi[i]]
        <4>1. Steps(q, heap, text, kind, long, lo, hi)
          BY <1>1
        <4> QED
          BY <1>1, <2>1, <4>1, DelsLine
      <3> QED
        BY <1>2, <2>2, <3>1
    <2>4. Frozen(s.forw, s.back, L, l, h)
      BY <1>4, <1>6, <2>1, <2>2
    <2>5. l \in 0 .. Len(L) /\ h \in l + 1 .. Len(L) /\ h - l \in Nat /\ l + (h - l) <= Len(L)
      BY <2>3, TextFacts
    <2>6. PICK nodes : nodes = Chain(s.forw, up.h, s.forw[up.t])
      OBVIOUS
    <2>7. nodes = Part(L, l, h - l) /\ ToSet(nodes) = Lines(L, l, h)
      BY <2>3, <2>4, <2>5, <2>6, FrozenChain
    <2>8. nodes \in Seq(Node)
      BY <2>3, <2>5, <2>7, PartFacts
    <2>9. PICK r : r = ReleaseAll(s, nodes)
      OBVIOUS
    <2>10. Freed(s, r, ToSet(nodes))
      BY <1>3, <2>8, <2>9, ReleaseLines
    <2>11. ClearEntry(s, up) = r
      BY <1>9, <2>6, <2>9 DEF ClearEntry
    <2>12. PICK N : N = Lines(L, l, h)
      OBVIOUS
    <2>13. /\ r \in Buffer /\ SameRest(s, r) /\ MarksOK(r)
           /\ Same(s.forw, r.forw, N) /\ Same(s.back, r.back, N) /\ r.heap = s.heap \ N
      BY <2>7, <2>10, <2>12 DEF Freed
    <2>14. SameRest(e, r)
      BY <1>3, <2>13 DEF SameRest
    <2>15. \A n \in N : n \notin ToSet(T) /\ n # 0
      BY <1>5, <2>1, <2>2, <2>3, <2>12, LinesIn
    <2>16. Ring(r.forw, r.back, T)
      BY <1>3, <2>13, <2>15, RingKept
    <2>17. ASSUME NEW j \in Dels(q), j > i
           PROVE  /\ Frozen(r.forw, r.back, long[j], lo[j], hi[j])
                  /\ \A n \in Lines(long[j], lo[j], hi[j]) : n \notin N
      <3>1. PICK L2, l2, h2 : L2 = long[j] /\ l2 = lo[j] /\ h2 = hi[j]
        OBVIOUS
      <3>2. Frozen(s.forw, s.back, L2, l2, h2)
        BY <1>4, <1>6, <2>17, <3>1
      <3>3. IsText(L2) /\ l2 \in Nat /\ h2 \in Nat /\ h2 <= Len(L2)
        BY <1>1, <2>17, <3>1, DelsLine
      <3>4. j # i
        BY <1>6, <2>17
      <3>5. \A n \in Lines(L2, l2, h2) : n \notin N
        BY <1>5, <2>1, <2>2, <2>12, <2>17, <3>1, <3>4
      <3>6. Frozen(r.forw, r.back, L2, l2, h2)
        BY <2>13, <3>2, <3>3, <3>5, FrozenKept
      <3> QED
        BY <3>1, <3>5, <3>6
    <2>18. ASSUME NEW n \in Link
           PROVE  n \in r.heap <=> \/ n \in ToSet(T)
                                   \/ \E j \in Dels(q) : j > i /\ n \in Lines(long[j], lo[j], hi[j])
      <3>1. n \in r.heap <=> n \in s.heap /\ n \notin N
        BY <2>13
      <3>2. n \in s.heap <=> \/ n \in ToSet(T) \/ n \in N
                             \/ \E j \in Dels(q) : j > i /\ n \in Lines(long[j], lo[j], hi[j])
        <4>1. (\E j \in Dels(q) : j > i - 1 /\ n \in Lines(long[j], lo[j], hi[j]))
              <=> n \in N \/ \E j \in Dels(q) : j > i /\ n \in Lines(long[j], lo[j], hi[j])
          BY <1>6, <2>1, <2>2, <2>12
        <4> QED
          BY <1>4, <4>1
      <3>3. (\E j \in Dels(q) : j > i /\ n \in Lines(long[j], lo[j], hi[j])) => n \notin N
        BY <2>17
      <3> QED
        BY <2>15, <3>1, <3>2, <3>3
    <2>19. Cleared(r, e, i, T, long, lo, hi)
      BY <1>1, <2>13, <2>14, <2>16, <2>17, <2>18 DEF Cleared
    <2> QED
      BY <1>1, <1>2, <2>11, <2>19
  <1> QED
    BY <1>8, <1>9

\* The lines and the queue: the text T, which has come from T0.
Held(e, T, T0) ==
  /\ e \in Buffer /\ MarksOK(e)
  /\ Deque(e.undo, e.forw, e.back, e.heap, T, T0)

\* The queue has been cleared.
Settled(e, r, T) ==
  /\ Held(r, T, T) /\ Ring(r.forw, r.back, T)
  /\ r.st = e.st /\ r.saved = e.st /\ r.lp = e.lp /\ r.n_prev = e.n_prev
  /\ r.undo = <<>> /\ r.gb = e.gb /\ r.global = e.global

\* reset_undo_queue () leaves the text, no queue, and no line but those of the text.
LEMMA ResetDeque ==
  ASSUME NEW e, NEW T, NEW T0, Held(e, T, T0)
  PROVE  Settled(e, reset_undo_queue(e), T)
  <1>1. PICK k : k = Len(e.undo)
    OBVIOUS
  <1>2. /\ e.undo \in Seq(Entry) /\ k \in Nat /\ e \in Buffer /\ MarksOK(e) /\ IsText(T)
        /\ Ring(e.forw, e.back, T)
    BY <1>1, DequeParts DEF Held
  <1>3. PICK text, kind, long, lo, hi :
              /\ Steps(e.undo, e.heap, text, kind, long, lo, hi)
              /\ Owned(e.undo, e.forw, e.back, e.heap, T, long, lo, hi)
    BY DequeParts DEF Held
  <1>4. PICK a : Resetting(e, k, a)
    BY <1>1, <1>2, ResetRun
  <1>5. /\ a[0] = e
        /\ \A i \in 1 .. k : a[i] = ClearEntry(a[i - 1], e.undo[i])
        /\ reset_undo_queue(e) = [a[k] EXCEPT !.undo = <<>>, !.saved = e.st]
    BY <1>4 DEF Resetting
  <1> DEFINE S == {i \in 0 .. k : Cleared(a[i], e, i, T, long, lo, hi)}
  <1> HIDE DEF S
  <1>6. 0 \in S
    <2>1. \A j \in Dels(e.undo) : j > 0
      BY <1>1, <1>2 DEF Dels
    <2>2. /\ \A j \in Dels(e.undo) : Frozen(e.forw, e.back, long[j], lo[j], hi[j])
          /\ \A n \in Link : n \in e.heap <=> \/ n \in ToSet(T)
                                             \/ \E j \in Dels(e.undo) : n \in Lines(long[j], lo[j], hi[j])
      BY <1>3 DEF Owned
    <2>3. Cleared(e, e, 0, T, long, lo, hi)
      BY <1>2, <2>1, <2>2 DEF Cleared, SameRest
    <2>4. 0 \in 0 .. k
      BY <1>2
    <2> QED
      BY <1>5, <2>3, <2>4 DEF S
  <1>7. ASSUME NEW i \in 1 .. k, i - 1 \in S PROVE i \in S
    <2>1. Cleared(a[i - 1], e, i - 1, T, long, lo, hi)
      BY <1>7 DEF S
    <2>2. Cleared(ClearEntry(a[i - 1], e.undo[i]), e, i, T, long, lo, hi)
      <3>1. PICK s : s = a[i - 1]
        OBVIOUS
      <3>2. i \in 1 .. Len(e.undo) /\ Cleared(s, e, i - 1, T, long, lo, hi)
        BY <1>1, <2>1, <3>1
      <3>3. Cleared(ClearEntry(s, e.undo[i]), e, i, T, long, lo, hi)
        BY <1>2, <1>3, <3>2, ClearStep
      <3> QED
        BY <3>1, <3>3
    <2>3. i \in 0 .. k
      OBVIOUS
    <2> QED
      BY <1>5, <2>2, <2>3 DEF S
  <1>8. k \in S
    <2>1. k \in 0 .. k
      BY <1>2
    <2> QED
      BY <1>2, <1>6, <1>7, <2>1, Inductive
  <1>9. PICK s : s = a[k] /\ Cleared(s, e, k, T, long, lo, hi)
    BY <1>8 DEF S
  <1>10. PICK r : r = [s EXCEPT !.undo = <<>>, !.saved = e.st]
    OBVIOUS
  <1>11. reset_undo_queue(e) = r
    BY <1>5, <1>9, <1>10
  <1>12. s \in Buffer /\ SameRest(e, s) /\ MarksOK(s) /\ Ring(s.forw, s.back, T)
    BY <1>9 DEF Cleared
  <1>13. s.heap = ToSet(T)
    <2>1. \A j \in Dels(e.undo) : ~ (j > k)
      BY <1>1, <1>2 DEF Dels
    <2>2. \A n \in Link : n \in s.heap <=> n \in ToSet(T)
      BY <1>9, <2>1 DEF Cleared
    <2>3. s.heap \subseteq Link /\ ToSet(T) \subseteq Link
      <3>1. Node \subseteq Link
        BY DEF Node, Link
      <3> QED
        BY <1>2, <1>12, <3>1, OnText DEF Buffer
    <2> QED
      BY <2>2, <2>3
  <1>14. e.st \in State
    BY <1>2 DEF Buffer
  <1>15. /\ r \in Buffer /\ r.undo = <<>> /\ r.saved = e.st /\ r.st = s.st /\ r.lp = s.lp
         /\ r.n_prev = s.n_prev /\ r.gb = s.gb /\ r.global = s.global
         /\ r.forw = s.forw /\ r.back = s.back /\ r.heap = s.heap
         /\ r.mark = s.mark /\ r.marks = s.marks
    <2>1. PICK q, st : q = <<>> /\ st = e.st
      OBVIOUS
    <2>2. q \in Seq(Entry) /\ st \in State
      BY <1>14, <2>1
    <2>3. r = [s EXCEPT !.undo = q, !.saved = st]
      BY <1>10, <2>1
    <2>4. s \in Buffer
      BY <1>12
    <2>5. /\ r \in Buffer /\ r.undo = q /\ r.saved = st /\ r.st = s.st /\ r.lp = s.lp
          /\ r.n_prev = s.n_prev /\ r.gb = s.gb /\ r.global = s.global
          /\ r.forw = s.forw /\ r.back = s.back /\ r.heap = s.heap
          /\ r.mark = s.mark /\ r.marks = s.marks
      BY <2>2, <2>3, <2>4 DEF Buffer
    <2> QED
      BY <2>1, <2>5
  <1>16. MarksOK(r)
    <2>1. Marked(r) = Marked(s)
      BY <1>15 DEF Marked
    <2> QED
      BY <1>12, <1>15, <2>1 DEF MarksOK
  <1>17. Deque(<<>>, s.forw, s.back, ToSet(T), T, T)
    <2>1. s.forw \in [Link -> Link] /\ s.back \in [Link -> Link]
      BY <1>12 DEF Buffer
    <2> QED
      BY <1>2, <1>12, <2>1, DequeEmpty
  <1>18. Held(r, T, T)
    BY <1>13, <1>15, <1>16, <1>17 DEF Held
  <1>19. Settled(e, r, T)
    BY <1>12, <1>15, <1>18 DEF Settled, SameRest
  <1> QED
    BY <1>11, <1>19

----------------------------------------------------------------------------
(* get_line_node () and append_undo_node (). *)

\* The text is linked as a ring, and the cached node is the line it should be.
Walk(e, T) ==
  /\ e \in Buffer /\ IsText(T) /\ Ring(e.forw, e.back, T)
  /\ e.st.lines = Len(T)
  /\ e.n_prev \in 0 .. Len(T) /\ e.lp = At(T, e.n_prev)

\* Only the cache, or only the cache and the queue, differ.
SameButUndo(e, r) ==
  /\ r.forw = e.forw /\ r.back = e.back /\ r.heap = e.heap /\ r.st = e.st
  /\ r.saved = e.saved /\ r.mark = e.mark /\ r.marks = e.marks /\ r.gb = e.gb
  /\ r.global = e.global
SameLines(e, r) == SameButUndo(e, r) /\ r.undo = e.undo

Sought(e, r, T, n) ==
  /\ Walk(r, T) /\ SameLines(e, r) /\ r.n_prev = n /\ r.lp = At(T, n)

Seek(e, lp, n) == [e EXCEPT !.lp = lp, !.n_prev = n]
Sought0(e, r, lp, n) == r \in Buffer /\ SameLines(e, r) /\ r.n_prev = n /\ r.lp = lp

\* The fields after the cached position has moved.
LEMMA SeekFields ==
  ASSUME NEW e \in Buffer, NEW lp \in Link, NEW n \in Nat
  PROVE  Sought0(e, Seek(e, lp, n), lp, n)
  BY DEF Sought0, Seek, SameLines, SameButUndo, Buffer

\* A cached position that is right.
LEMMA SeekWalk ==
  ASSUME NEW e, NEW T, Walk(e, T), NEW n \in 0 .. Len(T)
  PROVE  Sought(e, Seek(e, At(T, n), n), T, n)
  <1>1. PICK lp : lp = At(T, n)
    OBVIOUS
  <1>2. e \in Buffer /\ IsText(T) /\ n \in Nat /\ n \in Int
    BY TextFacts DEF Walk
  <1>3. lp \in Link
    BY <1>1, <1>2, TextFacts
  <1>4. Sought0(e, Seek(e, lp, n), lp, n)
    BY <1>2, <1>3, SeekFields
  <1>5. PICK r : r = Seek(e, lp, n)
    OBVIOUS
  <1>6. r \in Buffer /\ SameLines(e, r) /\ r.n_prev = n /\ r.lp = lp
    BY <1>4, <1>5 DEF Sought0
  <1>7. Walk(r, T)
    BY <1>1, <1>6 DEF Walk, SameLines, SameButUndo
  <1> QED
    BY <1>1, <1>5, <1>6, <1>7 DEF Sought

\* The cached position and line_head in a buffer that is linked.
LEMMA WalkFacts ==
  ASSUME NEW e, NEW T, Walk(e, T)
  PROVE  /\ Len(T) \in Nat /\ e.st.lines = Len(T) /\ e.n_prev \in 0 .. Len(T)
         /\ e.lp = At(T, e.n_prev) /\ At(T, 0) = 0 /\ e.back[0] = At(T, Len(T))
  <1>1. Len(T) \in Nat /\ At(T, 0) = 0 /\ At(T, Len(T) + 1) = 0 /\ Ring(e.forw, e.back, T)
    BY TextFacts DEF Walk
  <1>2. Len(T) \in 0 .. Len(T)
    BY <1>1
  <1>3. e.back[0] = At(T, Len(T))
    BY <1>1, <1>2 DEF Ring
  <1> QED
    BY <1>1, <1>3 DEF Walk

\* get_line_node () returns the line asked for.
LEMMA GetLine ==
  ASSUME NEW e, NEW T, Walk(e, T), NEW n \in 0 .. Len(T)
  PROVE  Sought(e, get_line_node(e, n), T, n)
  <1>1. /\ Len(T) \in Nat /\ e.st.lines = Len(T) /\ e.n_prev \in 0 .. Len(T)
        /\ e.lp = At(T, e.n_prev) /\ At(T, 0) = 0 /\ e.back[0] = At(T, Len(T))
    BY WalkFacts
  <1>2. PICK p, L : p = e.n_prev /\ L = Len(T)
    OBVIOUS
  <1>3. p \in Nat /\ L \in Nat /\ p <= L /\ n \in Nat /\ n <= L
    BY <1>1, <1>2
  <1>4. PICK mid : mid = (p + L) \div 2
    OBVIOUS
  <1>5. mid \in Nat /\ p <= mid /\ mid <= L
    BY <1>3, <1>4
  <1>6. PICK half : half = p \div 2
    OBVIOUS
  <1>7. half \in Nat
    BY <1>3, <1>6
  <1>8. IsText(T) /\ Ring(e.forw, e.back, T)
    BY DEF Walk
  <1>9. get_line_node(e, n) = Seek(e, At(T, n), n)
    <2>1. CASE n > p /\ n <= mid
      <3>1. get_line_node(e, n) = Seek(e, Follow(e.forw, e.lp, n - p), n)
        BY <1>1, <1>2, <1>4, <2>1 DEF get_line_node, Seek
      <3>2. p \in 0 .. Len(T) /\ n \in p .. Len(T) + 1
        BY <1>1, <1>2, <1>3, <2>1
      <3>3. Follow(e.forw, At(T, p), n - p) = At(T, n)
        BY <1>8, <3>2, FollowForw
      <3> QED
        BY <1>1, <1>2, <3>1, <3>3
    <2>2. CASE n > p /\ n > mid
      <3>1. ~ (n <= mid) /\ ~ (n <= p)
        BY <1>3, <1>5, <2>2
      <3>2. get_line_node(e, n) = Seek(e, Follow(e.back, e.back[line_head], L - n), n)
        BY <1>1, <1>2, <1>3, <1>4, <2>2, <3>1 DEF get_line_node, Seek
      <3>3. L \in 0 .. Len(T) /\ n \in 0 .. L
        BY <1>2, <1>3
      <3>4. Follow(e.back, At(T, L), L - n) = At(T, n)
        BY <1>8, <3>3, FollowBack
      <3> QED
        BY <1>1, <1>2, <3>2, <3>4 DEF line_head
    <2>3. CASE n <= p /\ n >= half
      <3>1. ~ (n > p)
        BY <1>3, <2>3
      <3>2. get_line_node(e, n) = Seek(e, Follow(e.back, e.lp, p - n), n)
        BY <1>1, <1>2, <1>6, <2>3, <3>1 DEF get_line_node, Seek
      <3>3. p \in 0 .. Len(T) /\ n \in 0 .. p
        BY <1>2, <1>3, <2>3
      <3>4. Follow(e.back, At(T, p), p - n) = At(T, n)
        BY <1>8, <3>3, FollowBack
      <3> QED
        BY <1>1, <1>2, <3>2, <3>4
    <2>4. CASE n <= p /\ n < half
      <3>1. ~ (n > p) /\ ~ (n >= half)
        BY <1>3, <1>7, <2>4
      <3>2. get_line_node(e, n) = Seek(e, IF n > 0 THEN Follow(e.forw, line_head, n) ELSE line_head,
                                          IF n > 0 THEN n ELSE 0)
        BY <1>1, <1>2, <1>6, <2>4, <3>1 DEF get_line_node, Seek
      <3>3. 0 \in 0 .. Len(T) /\ n \in 0 .. Len(T) + 1 /\ n - 0 = n
        BY <1>2, <1>3
      <3>4. Follow(e.forw, At(T, 0), n - 0) = At(T, n)
        BY <1>8, <3>3, FollowForw
      <3>5. n > 0 \/ n = 0
        BY <1>3
      <3> QED
        BY <1>1, <3>2, <3>3, <3>4, <3>5 DEF line_head
    <2> QED
      BY <1>3, <1>5, <1>7, <2>1, <2>2, <2>3, <2>4
  <1>10. Sought(e, Seek(e, At(T, n), n), T, n)
    BY SeekWalk
  <1> QED
    BY <1>9, <1>10

\* Beyond the last line it is the last line.
LEMMA GetBeyond ==
  ASSUME NEW e, NEW T, Walk(e, T)
  PROVE  Sought(e, get_line_node(e, Len(T) + 1), T, Len(T))
  <1>1. /\ Len(T) \in Nat /\ e.st.lines = Len(T) /\ e.n_prev \in 0 .. Len(T)
        /\ e.back[0] = At(T, Len(T))
    BY WalkFacts
  <1>2. PICK p, L, n : p = e.n_prev /\ L = Len(T) /\ n = L + 1
    OBVIOUS
  <1>3. p \in Nat /\ L \in Nat /\ p <= L
    BY <1>1, <1>2
  <1>4. PICK mid : mid = (p + L) \div 2
    OBVIOUS
  <1>5. mid \in Nat /\ mid <= L
    BY <1>3, <1>4
  <1>6. n > p /\ n > mid /\ n > L /\ ~ (n <= mid) /\ ~ (n <= L) /\ ~ (n <= p)
    BY <1>2, <1>3, <1>5
  <1>7. get_line_node(e, n) = Seek(e, e.back[line_head], L)
    BY <1>1, <1>2, <1>4, <1>6 DEF get_line_node, Seek
  <1>8. get_line_node(e, n) = Seek(e, At(T, L), L)
    BY <1>1, <1>2, <1>7 DEF line_head
  <1>9. L \in 0 .. Len(T)
    BY <1>2, <1>3
  <1>10. Sought(e, Seek(e, At(T, L), L), T, L)
    BY <1>9, SeekWalk
  <1> QED
    BY <1>2, <1>8, <1>10

----------------------------------------------------------------------------
\* An entry has been appended to the undo queue.
Queued(e, r, T, v, n) ==
  /\ Walk(r, T) /\ SameButUndo(e, r) /\ r.n_prev = n /\ r.lp = At(T, n)
  /\ v \in Entry /\ r.undo = Append(e.undo, v)

UndoEntry(type, h, t) == [type |-> type, h |-> h, t |-> t]

\* The fields of an entry.
LEMMA EntryFields ==
  ASSUME NEW type \in {"UADD", "UDEL", "UMOV", "URET"}, NEW h \in Link, NEW t \in Link
  PROVE  /\ UndoEntry(type, h, t) \in Entry
         /\ UndoEntry(type, h, t).type = type
         /\ UndoEntry(type, h, t).h = h /\ UndoEntry(type, h, t).t = t
  BY DEF UndoEntry, Entry

\* append_undo_node () looks the two lines up and appends them.
LEMMA QueueEntry ==
  ASSUME NEW e, NEW T, Walk(e, T), NEW type \in {"UADD", "UDEL", "UMOV", "URET"},
         NEW from \in 0 .. Len(T), NEW to \in 0 .. Len(T)
  PROVE  Queued(e, append_undo_node(e, type, from, to), T,
                UndoEntry(type, At(T, from), At(T, to)), to)
  <1>1. PICK e1 : e1 = get_line_node(e, from)
    OBVIOUS
  <1>2. Sought(e, e1, T, from)
    BY <1>1, GetLine
  <1>3. Walk(e1, T)
    BY <1>2 DEF Sought
  <1>4. PICK e2 : e2 = get_line_node(e1, to)
    OBVIOUS
  <1>5. Sought(e1, e2, T, to)
    BY <1>3, <1>4, GetLine
  <1>6. PICK v : v = UndoEntry(type, At(T, from), At(T, to))
    OBVIOUS
  <1>7. At(T, from) \in Link /\ At(T, to) \in Link
    BY TextFacts DEF Walk
  <1>8. v \in Entry
    BY <1>6, <1>7, EntryFields
  <1>9. PICK q : q = Append(e2.undo, v)
    OBVIOUS
  <1>10. e2 \in Buffer /\ e2.undo \in Seq(Entry) /\ q \in Seq(Entry)
    BY <1>5, <1>8, <1>9 DEF Sought, Walk, Buffer
  <1>11. PICK r : r = [e2 EXCEPT !.undo = q]
    OBVIOUS
  <1>12. append_undo_node(e, type, from, to) = r
    <2>1. e1.lp = At(T, from) /\ e2.lp = At(T, to)
      BY <1>2, <1>5 DEF Sought
    <2>2. append_undo_node(e, type, from, to) = push_undo_node(e2, type, e1.lp)
      BY <1>1, <1>4 DEF append_undo_node, undo_node_from
    <2>3. push_undo_node(e2, type, e1.lp) = [e2 EXCEPT !.undo = Append(@, v)]
      BY <1>6, <2>1 DEF push_undo_node, UndoEntry
    <2> QED
      BY <1>9, <1>10, <1>11, <2>2, <2>3
  <1>13. /\ r \in Buffer /\ SameButUndo(e2, r) /\ r.n_prev = e2.n_prev /\ r.lp = e2.lp
         /\ r.undo = q
    BY <1>10, <1>11 DEF Buffer, SameButUndo
  <1>14. Walk(r, T)
    BY <1>5, <1>13 DEF Sought, Walk, SameButUndo
  <1>15. SameButUndo(e, r)
    BY <1>2, <1>5, <1>13 DEF Sought, SameLines, SameButUndo
  <1>16. r.undo = Append(e.undo, v)
    BY <1>2, <1>5, <1>9, <1>13 DEF Sought, SameLines
  <1>17. Queued(e, r, T, v, to)
    BY <1>5, <1>8, <1>13, <1>14, <1>15, <1>16 DEF Queued, Sought
  <1> QED
    BY <1>6, <1>12, <1>17

----------------------------------------------------------------------------
(* append_line_node (). *)

\* Everything but the links of the nodes.
SameButLinks(e, r) ==
  /\ r.heap = e.heap /\ r.st = e.st /\ r.saved = e.saved /\ r.lp = e.lp
  /\ r.n_prev = e.n_prev /\ r.undo = e.undo /\ r.mark = e.mark /\ r.marks = e.marks
  /\ r.gb = e.gb /\ r.global = e.global

\* r is e with the nodes p and n linked.
LinkedIn(e, r, p, n) ==
  /\ r \in Buffer /\ SameButLinks(e, r)
  /\ r.forw = [e.forw EXCEPT ![p] = n] /\ r.back = [e.back EXCEPT ![n] = p]

\* The fields after LINK_NODES ().
LEMMA LinkFields ==
  ASSUME NEW e \in Buffer, NEW p \in Link, NEW n \in Link
  PROVE  LinkedIn(e, LINK_NODES(e, p, n), p, n)
  <1>1. PICK f, b : f = [e.forw EXCEPT ![p] = n] /\ b = [e.back EXCEPT ![n] = p]
    OBVIOUS
  <1>2. f \in [Link -> Link] /\ b \in [Link -> Link]
    BY <1>1 DEF Buffer
  <1>3. PICK r : r = [e EXCEPT !.forw = f, !.back = b]
    OBVIOUS
  <1>4. LINK_NODES(e, p, n) = r
    BY <1>1, <1>3 DEF LINK_NODES
  <1>5. r \in Buffer /\ SameButLinks(e, r) /\ r.forw = f /\ r.back = b
    BY <1>2, <1>3 DEF Buffer, SameButLinks
  <1> QED
    BY <1>1, <1>4, <1>5 DEF LinkedIn

\* malloc () finds a node that is not in use.
LEMMA FreeNode ==
  ASSUME NEW e \in Buffer, ~ malloc_fails(e)
  PROVE  malloc(e) \in Node /\ malloc(e) \notin e.heap
  <1>1. PICK S : S = Node \ e.heap
    OBVIOUS
  <1>2. S # {} /\ S \subseteq Nat
    <2>1. e.heap \subseteq Node
      BY DEF Buffer
    <2>2. e.heap # Node
      BY DEF malloc_fails
    <2>3. Node \subseteq Nat
      BY DEF Node
    <2> QED
      BY <1>1, <2>1, <2>2, <2>3
  <1>3. \E x \in S : \A y \in S : x =< y
    BY <1>2, SmallestNat
  <1>4. Min(S) \in S
    BY <1>3 DEF Min
  <1> QED
    BY <1>1, <1>4 DEF malloc

\* insert_node () links node n in after line a.
LEMMA InsertLinks ==
  ASSUME NEW T, IsText(T), NEW f \in [Link -> Link], NEW b \in [Link -> Link], Ring(f, b, T),
         NEW a \in 0 .. Len(T), NEW n \in Node, n \notin ToSet(T),
         NEW prev, prev = At(T, a), NEW next, next = At(T, a + 1),
         NEW f2, f2 = [[f EXCEPT ![n] = next] EXCEPT ![prev] = n],
         NEW b2, b2 = [[b EXCEPT ![next] = n] EXCEPT ![n] = prev]
  PROVE  InsertedLinks(f, b, f2, b2, T, a, n)
  <1>1. a \in Int /\ a + 1 \in Int /\ n \in Link /\ n # 0
    BY TextFacts DEF Node, Link
  <1>2. prev \in Link /\ next \in Link /\ prev # n /\ next # n
    BY <1>1, TextFacts, OnText
  <1>3. f2[n] = next /\ f2[prev] = n /\ Same(f, f2, {n, prev}) /\ f2 \in [Link -> Link]
    BY <1>1, <1>2 DEF Same
  <1>4. b2[n] = prev /\ b2[next] = n /\ Same(b, b2, {n, next}) /\ b2 \in [Link -> Link]
    BY <1>1, <1>2 DEF Same
  <1> QED
    BY <1>3, <1>4 DEF InsertedLinks

\* The longer text is then linked as a ring.
LEMMA InsertedRing ==
  ASSUME NEW T, IsText(T), NEW f, NEW b, Ring(f, b, T), NEW a \in 0 .. Len(T),
         NEW n \in Node, n \notin ToSet(T), NEW f2, NEW b2, InsertedLinks(f, b, f2, b2, T, a, n)
  PROVE  Ring(f2, b2, Insert(T, a, n))
  <1>1. \A x \in 1 .. Len(T) : T[x] # n
    BY OnText
  <1> QED
    BY <1>1, InsertRing DEF InsertedLinks

\* The state after a line has been added.
Grew(st, st2) == st2 \in State /\ st2.lines = st.lines + 1 /\ st2.dot = st.dot /\ st2.is_empty = st.is_empty

\* A line has been added after line a, and no entry says so yet.
Inserted(e, r, T, a, n) ==
  /\ n \in Node /\ n \notin e.heap
  /\ Walk(r, Insert(T, a, n)) /\ r.lp = At(T, a) /\ r.n_prev = a
  /\ InsertedLinks(e.forw, e.back, r.forw, r.back, T, a, n)
  /\ r.heap = e.heap \cup {n} /\ Grew(e.st, r.st)
  /\ r.undo = e.undo /\ r.saved = e.saved /\ r.mark = e.mark /\ r.marks = e.marks
  /\ r.gb = e.gb /\ r.global = e.global

\* append_line_node () adds one line that was free, after line a.
LEMMA AppendLine ==
  ASSUME NEW e, NEW T, Walk(e, T), ToSet(T) \subseteq e.heap, ~ malloc_fails(e),
         NEW a \in 0 .. Len(T)
  PROVE  Inserted(e, append_line_node(e, a), T, a, malloc(e))
  <1>1. PICK n : n = malloc(e)
    OBVIOUS
  <1>2. n \in Node /\ n \notin e.heap /\ n \in Link
    BY <1>1, FreeNode DEF Walk, Node, Link
  <1>3. PICK e1 : e1 = get_line_node(e, a)
    OBVIOUS
  <1>4. Sought(e, e1, T, a)
    BY <1>3, GetLine
  <1>5. /\ e1 \in Buffer /\ SameLines(e, e1) /\ e1.n_prev = a /\ e1.lp = At(T, a)
        /\ IsText(T) /\ Ring(e1.forw, e1.back, T)
    BY <1>4 DEF Sought, Walk
  <1>6. PICK prev, next : prev = At(T, a) /\ next = At(T, a + 1)
    OBVIOUS
  <1>7. prev \in Link /\ next \in Link /\ e1.forw[prev] = next /\ e1.lp = prev
    <2>1. a \in Int /\ a + 1 \in Int
      BY TextFacts
    <2> QED
      BY <1>5, <1>6, <2>1, TextFacts DEF Ring
  <1>8. PICK e2 : e2 = LINK_NODES(e1, n, next)
    OBVIOUS
  <1>9. LinkedIn(e1, e2, n, next)
    BY <1>2, <1>5, <1>7, <1>8, LinkFields
  <1>10. PICK e3 : e3 = LINK_NODES(e2, prev, n)
    OBVIOUS
  <1>11. LinkedIn(e2, e3, prev, n)
    <2>1. e2 \in Buffer
      BY <1>9 DEF LinkedIn
    <2> QED
      BY <1>2, <1>7, <1>10, <2>1, LinkFields
  <1>12. /\ e3 \in Buffer /\ SameButLinks(e1, e3)
         /\ e3.forw = [[e1.forw EXCEPT ![n] = next] EXCEPT ![prev] = n]
         /\ e3.back = [[e1.back EXCEPT ![next] = n] EXCEPT ![n] = prev]
    BY <1>9, <1>11 DEF LinkedIn, SameButLinks
  <1>13. PICK st : st = [e1.st EXCEPT !.lines = @ + 1]
    OBVIOUS
  <1>14. Grew(e.st, st)
    <2>1. e1.st \in State /\ e1.st = e.st
      BY <1>5 DEF Buffer, SameLines, SameButUndo
    <2> QED
      BY <1>13, <2>1 DEF State, Grew
  <1>15. PICK heap : heap = e.heap \cup {n}
    OBVIOUS
  <1>16. heap \in SUBSET Node
    BY <1>2, <1>15 DEF Walk, Buffer
  <1>17. PICK r : r = [e3 EXCEPT !.heap = heap, !.st = st]
    OBVIOUS
  <1>18. append_line_node(e, a) = r
    <2>1. e3.heap = e.heap /\ e3.st = e1.st
      BY <1>5, <1>12 DEF SameLines, SameButUndo, SameButLinks
    <2>2. APPEND_NODE(e1, n, e1.lp) = e3
      BY <1>7, <1>8, <1>10 DEF APPEND_NODE
    <2>3. append_line_node(e, a) = [e3 EXCEPT !.heap = @ \cup {n}, !.st.lines = @ + 1]
      BY <1>1, <1>3, <2>2 DEF append_line_node, link_new_node
    <2>4. [e3 EXCEPT !.heap = @ \cup {n}, !.st.lines = @ + 1] =
          [e3 EXCEPT !.heap = e3.heap \cup {n}, !.st = [e3.st EXCEPT !.lines = @ + 1]]
      BY <1>12 DEF Buffer
    <2> QED
      BY <1>13, <1>15, <1>17, <2>1, <2>3, <2>4
  <1>19. /\ r \in Buffer /\ r.heap = heap /\ r.st = st /\ r.forw = e3.forw /\ r.back = e3.back
         /\ r.saved = e3.saved /\ r.lp = e3.lp /\ r.n_prev = e3.n_prev /\ r.undo = e3.undo
         /\ r.mark = e3.mark /\ r.marks = e3.marks /\ r.gb = e3.gb /\ r.global = e3.global
    BY <1>12, <1>14, <1>16, <1>17 DEF Buffer, Grew
  <1>20. n \notin ToSet(T) /\ \A x \in 1 .. Len(T) : T[x] # n
    BY <1>2, <1>5, OnText
  <1>21. InsertedLinks(e.forw, e.back, r.forw, r.back, T, a, n)
    <2>1. e1.forw \in [Link -> Link] /\ e1.back \in [Link -> Link]
      BY <1>5 DEF Buffer
    <2>2. InsertedLinks(e1.forw, e1.back, e3.forw, e3.back, T, a, n)
      <3>1. PICK f, b, f2, b2 : f = e1.forw /\ b = e1.back /\ f2 = e3.forw /\ b2 = e3.back
        OBVIOUS
      <3>2. /\ f \in [Link -> Link] /\ b \in [Link -> Link] /\ Ring(f, b, T)
            /\ f2 = [[f EXCEPT ![n] = next] EXCEPT ![prev] = n]
            /\ b2 = [[b EXCEPT ![next] = n] EXCEPT ![n] = prev]
        BY <1>5, <1>12, <2>1, <3>1
      <3>3. InsertedLinks(f, b, f2, b2, T, a, n)
        BY <1>2, <1>5, <1>6, <1>20, <3>2, InsertLinks
      <3> QED
        BY <3>1, <3>3
    <2> QED
      BY <1>5, <1>19, <2>2 DEF SameLines, SameButUndo
  <1>22. PICK T2 : T2 = Insert(T, a, n)
    OBVIOUS
  <1>23. IsText(T2) /\ Len(T2) = Len(T) + 1 /\ At(T2, a) = At(T, a)
    <2>1. a \in 0 .. a
      BY TextFacts
    <2> QED
      BY <1>2, <1>5, <1>20, <1>22, <2>1, InsertText
  <1>24. Ring(r.forw, r.back, T2)
    <2>1. Ring(e.forw, e.back, T)
      BY DEF Walk
    <2> QED
      BY <1>2, <1>5, <1>20, <1>21, <1>22, <2>1, InsertedRing
  <1>25. Walk(r, T2)
    <2>1. e.st.lines = Len(T) /\ Len(T) \in Nat
      BY WalkFacts
    <2>2. r.st.lines = Len(T2)
      BY <1>14, <1>19, <1>23, <2>1 DEF Grew
    <2>3. r.n_prev = a /\ r.lp = At(T, a) /\ a \in 0 .. Len(T2)
      BY <1>5, <1>12, <1>19, <1>23, <2>1 DEF SameButLinks
    <2> QED
      BY <1>19, <1>23, <1>24, <2>2, <2>3 DEF Walk
  <1>26. /\ r.undo = e.undo /\ r.saved = e.saved /\ r.mark = e.mark /\ r.marks = e.marks
         /\ r.gb = e.gb /\ r.global = e.global /\ r.lp = At(T, a) /\ r.n_prev = a
    BY <1>5, <1>12, <1>19 DEF SameLines, SameButUndo, SameButLinks
  <1>27. Inserted(e, r, T, a, n)
    BY <1>2, <1>14, <1>15, <1>19, <1>21, <1>22, <1>25, <1>26 DEF Inserted
  <1> QED
    BY <1>1, <1>18, <1>27

----------------------------------------------------------------------------
(* APPEND_UNDO_NODE (). *)

\* The part of Inserted that the undo queue is about.
Pending(e, r, T, a, n) ==
  /\ n \in Node /\ n \notin e.heap
  /\ Walk(r, Insert(T, a, n))
  /\ InsertedLinks(e.forw, e.back, r.forw, r.back, T, a, n)
  /\ r.heap = e.heap \cup {n} /\ r.undo = e.undo

\* Looking a line up changes none of this.
LEMMA PendingSought ==
  ASSUME NEW e, NEW r, NEW T, NEW a, NEW n, Pending(e, r, T, a, n), NEW r2, NEW k,
         Sought(r, r2, Insert(T, a, n), k)
  PROVE  Pending(e, r2, T, a, n)
  BY DEF Pending, Sought, SameLines, SameButUndo

\* Entry up, when there is one, is the newest and ends with line a.
UpAt(q, T, up, a) ==
  \/ up = 0
  \/ EndsAt(q, up, T, a)

Recorded(r, r2, T2, T0, up, a) ==
  /\ Walk(r2, T2) /\ SameButUndo(r, r2)
  /\ Deque(r2.undo, r2.forw, r2.back, r2.heap, T2, T0)
  /\ EndsAt(r2.undo, IF up = 0 THEN Len(r2.undo) ELSE up, T2, a)

\* The queue with one more entry.
LEMMA AppendTop ==
  ASSUME NEW q \in Seq(Entry), NEW v \in Entry
  PROVE  /\ Append(q, v) \in Seq(Entry) /\ Len(Append(q, v)) = Len(q) + 1
         /\ Append(q, v)[Len(q) + 1] = v /\ Len(q) \in Nat
  OBVIOUS

\* A new entry for the line.
LEMMA RecordNew ==
  ASSUME NEW e, NEW T, NEW T0, Held(e, T, T0), NEW a \in 0 .. Len(T), NEW r, NEW n,
         Pending(e, r, T, a, n)
  PROVE  Recorded(r, append_undo_node(r, "UADD", a + 1, a + 1), Insert(T, a, n), T0, 0, a + 1)
  <1>1. /\ n \in Node /\ n \notin e.heap /\ Walk(r, Insert(T, a, n))
        /\ InsertedLinks(e.forw, e.back, r.forw, r.back, T, a, n)
        /\ r.heap = e.heap \cup {n} /\ r.undo = e.undo
    BY DEF Pending
  <1>2. /\ Deque(e.undo, e.forw, e.back, e.heap, T, T0) /\ e.undo \in Seq(Entry)
        /\ IsText(T) /\ ToSet(T) \subseteq e.heap
    BY DequeParts DEF Held
  <1>3. PICK T2, a2 : T2 = Insert(T, a, n) /\ a2 = a + 1
    OBVIOUS
  <1>4. \A x \in 1 .. Len(T) : T[x] # n
    BY <1>1, <1>2, OnText
  <1>5. IsText(T2) /\ Len(T2) = Len(T) + 1 /\ At(T2, a2) = n
    BY <1>1, <1>2, <1>3, <1>4, InsertText
  <1>6. a2 \in 0 .. Len(T2) /\ a2 \in 1 .. Len(T2) /\ T2[a2] = n
    <2>1. a2 \in 1 .. Len(T2) /\ a2 \in 0 .. Len(T2)
      BY <1>2, <1>3, <1>5, TextFacts
    <2> QED
      BY <1>5, <2>1 DEF At
  <1>7. PICK r2, v : r2 = append_undo_node(r, "UADD", a2, a2) /\ v = UndoEntry("UADD", n, n)
    OBVIOUS
  <1>8. Queued(r, r2, T2, v, a2)
    <2>1. Walk(r, T2)
      BY <1>1, <1>3
    <2>2. Queued(r, append_undo_node(r, "UADD", a2, a2), T2,
                 UndoEntry("UADD", At(T2, a2), At(T2, a2)), a2)
      BY <1>6, <2>1, QueueEntry
    <2> QED
      BY <1>5, <1>7, <2>2
  <1>9. v \in Entry /\ v.type = "UADD" /\ v.h = n /\ v.t = n
    BY <1>1, <1>7, EntryFields DEF Node, Link
  <1>10. /\ Walk(r2, T2) /\ SameButUndo(r, r2) /\ r2.undo = Append(e.undo, v)
    BY <1>1, <1>8 DEF Queued
  <1>11. r2.forw = r.forw /\ r2.back = r.back /\ r2.heap = e.heap \cup {n}
    BY <1>1, <1>10 DEF SameButUndo
  <1>12. Deque(Append(e.undo, v), r.forw, r.back, e.heap \cup {n}, Insert(T, a, n), T0)
    BY <1>1, <1>2, <1>9, AddLine DEF InsertedLinks
  <1>13. EndsAt(r2.undo, Len(r2.undo), T2, a2)
    <2>1. Len(r2.undo) = Len(e.undo) + 1 /\ r2.undo[Len(e.undo) + 1] = v /\ Len(e.undo) \in Nat
      BY <1>2, <1>9, <1>10, AppendTop
    <2>2. Len(r2.undo) \in Nat /\ Len(r2.undo) # 0 /\ r2.undo[Len(r2.undo)] = v
      BY <2>1
    <2> QED
      BY <1>6, <1>9, <2>2 DEF UpAt, EndsAt
  <1>14. Recorded(r, r2, T2, T0, 0, a2)
    BY <1>3, <1>10, <1>11, <1>12, <1>13 DEF Recorded
  <1> QED
    BY <1>3, <1>7, <1>14

\* The newest entry, with another last line.
Extended(r, r2, q2) == r2 \in Buffer /\ SameButUndo(r, r2) /\ r2.undo = q2 /\ r2.lp = r.lp /\ r2.n_prev = r.n_prev

\* The fields of the queue whose newest entry has another last line.
LEMMA ExtendEntry ==
  ASSUME NEW q \in Seq(Entry), NEW k \in 1 .. Len(q), NEW n \in Link,
         NEW q2, q2 = [q EXCEPT ![k].t = n]
  PROVE  /\ q2 \in Seq(Entry) /\ Len(q2) = Len(q)
         /\ \A x \in 1 .. Len(q) : x # k => q2[x] = q[x]
         /\ q2[k].type = q[k].type /\ q2[k].h = q[k].h /\ q2[k].t = n
  <1>1. PICK up : up = q[k] /\ up \in Entry
    OBVIOUS
  <1>2. PICK v : v = [up EXCEPT !.t = n]
    OBVIOUS
  <1>3. v \in Entry /\ v.type = up.type /\ v.h = up.h /\ v.t = n
    BY <1>1, <1>2 DEF Entry
  <1>4. q2 = [q EXCEPT ![k] = v]
    BY <1>1, <1>2
  <1>5. q2 \in Seq(Entry) /\ Len(q2) = Len(q) /\ q2[k] = v
        /\ \A x \in 1 .. Len(q) : x # k => q2[x] = q[x]
    BY <1>3, <1>4
  <1> QED
    BY <1>1, <1>3, <1>5

\* The newest entry extended to the line.
LEMMA RecordMore ==
  ASSUME NEW e, NEW T, NEW T0, Held(e, T, T0), NEW a \in 0 .. Len(T), NEW r, NEW n,
         Pending(e, r, T, a, n), NEW up, UpAt(e.undo, T, up, a), up # 0
  PROVE  Recorded(r, [r EXCEPT !.undo[up].t = n], Insert(T, a, n), T0, up, a + 1)
  <1>1. /\ n \in Node /\ n \notin e.heap /\ Walk(r, Insert(T, a, n)) /\ n \in Link
        /\ InsertedLinks(e.forw, e.back, r.forw, r.back, T, a, n)
        /\ r.heap = e.heap \cup {n} /\ r.undo = e.undo
    BY DEF Pending, Node, Link
  <1>2. /\ Deque(e.undo, e.forw, e.back, e.heap, T, T0) /\ e.undo \in Seq(Entry)
        /\ IsText(T) /\ ToSet(T) \subseteq e.heap
    BY DequeParts DEF Held
  <1>3. PICK T2, a2 : T2 = Insert(T, a, n) /\ a2 = a + 1
    OBVIOUS
  <1>4. \A x \in 1 .. Len(T) : T[x] # n
    BY <1>1, <1>2, OnText
  <1>5. IsText(T2) /\ Len(T2) = Len(T) + 1 /\ At(T2, a2) = n
    BY <1>1, <1>2, <1>3, <1>4, InsertText
  <1>6. a2 \in 1 .. Len(T2) /\ T2[a2] = n
    <2>1. a2 \in 1 .. Len(T2)
      BY <1>2, <1>3, <1>5, TextFacts
    <2> QED
      BY <1>5, <2>1 DEF At
  <1>7. PICK q, q2 : q = e.undo /\ q2 = [q EXCEPT ![up].t = n]
    OBVIOUS
  <1>8. /\ up \in Nat /\ up # 0 /\ up = Len(q) /\ q[up].type = "UADD"
        /\ a \in 1 .. Len(T) /\ q[up].t = T[a]
    BY <1>7 DEF UpAt, EndsAt
  <1>9. up \in 1 .. Len(q) /\ q \in Seq(Entry)
    BY <1>2, <1>7, <1>8
  <1>10. /\ q2 \in Seq(Entry) /\ Len(q2) = up
         /\ \A x \in 1 .. up : x # up => q2[x] = q[x]
         /\ q2[up].type = "UADD" /\ q2[up].h = q[up].h /\ q2[up].t = n
    BY <1>1, <1>7, <1>8, <1>9, ExtendEntry
  <1>11. \A x \in 1 .. up - 1 : q2[x] = q[x]
    BY <1>8, <1>10
  <1>12. Deque(q2, r.forw, r.back, e.heap \cup {n}, Insert(T, a, n), T0)
    <2>1. PICK f, b, f2, b2, heap : f = e.forw /\ b = e.back /\ f2 = r.forw /\ b2 = r.back /\ heap = e.heap
      OBVIOUS
    <2>2. Deque(q, f, b, heap, T, T0)
      BY <1>2, <1>7, <2>1
    <2>3. InsertedLinks(f, b, f2, b2, T, a, n)
      BY <1>1, <2>1
    <2>4. n \in Node /\ n \notin heap
      BY <1>1, <2>1
    <2>5. Deque(q2, f2, b2, heap \cup {n}, Insert(T, a, n), T0)
      <3>1. EndsAt(q, up, T, a) /\ Longer(q, q2, up, n)
        BY <1>8, <1>10, <1>11 DEF EndsAt, Longer
      <3> QED
        BY <2>2, <2>3, <2>4, <3>1, ExtendLine
    <2> QED
      BY <2>1, <2>5
  <1>13. PICK r2 : r2 = [r EXCEPT !.undo = q2]
    OBVIOUS
  <1>14. r \in Buffer
    BY <1>1 DEF Walk
  <1>15. r2 = [r EXCEPT !.undo[up].t = n]
    BY <1>1, <1>7, <1>13
  <1>16. Extended(r, r2, q2)
    BY <1>10, <1>13, <1>14 DEF Buffer, Extended, SameButUndo
  <1>17. Walk(r2, T2)
    BY <1>1, <1>3, <1>16 DEF Walk, Extended, SameButUndo
  <1>18. EndsAt(r2.undo, up, T2, a2)
    BY <1>6, <1>8, <1>10, <1>16 DEF UpAt, EndsAt, Extended
  <1>19. Deque(r2.undo, r2.forw, r2.back, r2.heap, T2, T0)
    BY <1>1, <1>3, <1>12, <1>16 DEF Extended, SameButUndo
  <1>20. Recorded(r, r2, T2, T0, up, a2)
    BY <1>8, <1>16, <1>17, <1>18, <1>19 DEF Recorded, Extended
  <1> QED
    BY <1>3, <1>15, <1>20

\* APPEND_UNDO_NODE () notes the line that has been added.
LEMMA RecordLine ==
  ASSUME NEW e, NEW T, NEW T0, Held(e, T, T0), NEW a \in 0 .. Len(T), NEW r, NEW n,
         Pending(e, r, T, a, n), NEW up, UpAt(e.undo, T, up, a)
  PROVE  Recorded(r, APPEND_UNDO_NODE(r, n, up, a + 1), Insert(T, a, n), T0, up, a + 1)
  <1>1. CASE up = 0
    <2>1. APPEND_UNDO_NODE(r, n, up, a + 1) = append_undo_node(r, "UADD", a + 1, a + 1)
      BY <1>1 DEF APPEND_UNDO_NODE
    <2>2. Recorded(r, append_undo_node(r, "UADD", a + 1, a + 1), Insert(T, a, n), T0, 0, a + 1)
      BY RecordNew
    <2> QED
      BY <1>1, <2>1, <2>2
  <1>2. CASE up # 0
    <2>1. APPEND_UNDO_NODE(r, n, up, a + 1) = [r EXCEPT !.undo[up].t = n]
      BY <1>2 DEF APPEND_UNDO_NODE
    <2>2. Recorded(r, [r EXCEPT !.undo[up].t = n], Insert(T, a, n), T0, up, a + 1)
      BY <1>2, RecordMore
    <2> QED
      BY <2>1, <2>2
  <1> QED
    BY <1>1, <1>2

----------------------------------------------------------------------------
(* The lines a global command has yet to visit. *)

\* The entries of the global command buffer are different lines, or cleared;
\* the search for one starts within it.
GbShape(gb) ==
  /\ gb \in GlobalBuffer
  /\ \A x, y \in 1 .. Len(gb.lbuf) : gb.lbuf[x] = gb.lbuf[y] /\ x # y => gb.lbuf[x] = Nil
  /\ Len(gb.lbuf) # 0 => gb.index < Len(gb.lbuf)

\* The lines N have been cleared.
GbCleared(gb, r, N) ==
  /\ GbShape(r) /\ Len(r.lbuf) = Len(gb.lbuf) /\ r.ptr = gb.ptr
  /\ \A x \in 1 .. Len(gb.lbuf) : r.lbuf[x] = IF gb.lbuf[x] \in N THEN Nil ELSE gb.lbuf[x]

\* INC_MOD () and the remainders it takes.
LEMMA Modulo ==
  ASSUME NEW n \in Nat, n # 0, NEW a \in Nat
  PROVE  a % n \in 0 .. n - 1 /\ (a < n => a % n = a /\ (a + n) % n = a)
  OBVIOUS

\* Going round from the index on, every entry is met.
LEMMA RoundTrip ==
  ASSUME NEW n \in Nat, n # 0, NEW index \in 0 .. n - 1, NEW p \in 1 .. n
  PROVE  \E i \in 0 .. n - 1 : ((index + i) % n) + 1 = p
  <1>1. CASE p - 1 >= index
    <2>1. PICK i \in 0 .. n - 1 : i = p - 1 - index
      BY <1>1
    <2>2. index + i = p - 1 /\ p - 1 \in Nat /\ p - 1 < n
      BY <2>1
    <2>3. (p - 1) % n = p - 1
      BY <2>2, Modulo
    <2>4. ((index + i) % n) + 1 = p
      BY <2>2, <2>3
    <2> QED
      BY <2>4
  <1>2. CASE p - 1 < index
    <2>1. PICK i \in 0 .. n - 1 : i = p - 1 - index + n
      BY <1>2
    <2>2. index + i = (p - 1) + n /\ p - 1 \in Nat /\ p - 1 < n
      BY <2>1
    <2>3. ((p - 1) + n) % n = p - 1
      BY <2>2, Modulo
    <2>4. ((index + i) % n) + 1 = p
      BY <2>2, <2>3
    <2> QED
      BY <2>4
  <1> QED
    BY <1>1, <1>2


\* The smallest of a set is in it.
LEMMA MinIn ==
  ASSUME NEW S, S \subseteq Nat, S # {}
  PROVE  Min(S) \in S
  <1>1. \E x \in S : \A y \in S : x =< y
    BY SmallestNat
  <1> QED
    BY <1>1 DEF Min

\* The record with entry p cleared.
Blank(gb, p, index) == [gb EXCEPT !.lbuf[p] = Nil, !.index = index]

\* Clearing the entry of node n clears no other line.
LEMMA BlankEntry ==
  ASSUME NEW gb, GbShape(gb), NEW p \in 1 .. Len(gb.lbuf), NEW index \in 0 .. Len(gb.lbuf) - 1,
         NEW n, n # Nil, gb.lbuf[p] = n
  PROVE  GbCleared(gb, Blank(gb, p, index), {n})
  <1>1. PICK buf : buf = gb.lbuf
    OBVIOUS
  <1>2. /\ gb \in GlobalBuffer /\ buf \in Seq(Node \cup {Nil}) /\ Len(buf) \in Nat
        /\ \A x, y \in 1 .. Len(buf) : buf[x] = buf[y] /\ x # y => buf[x] = Nil
    BY <1>1 DEF GbShape, GlobalBuffer
  <1>3. PICK nil : nil = Nil
    OBVIOUS
  <1>4. PICK buf2 : buf2 = [buf EXCEPT ![p] = nil]
    OBVIOUS
  <1>5. /\ buf2 \in Seq(Node \cup {Nil}) /\ Len(buf2) = Len(buf)
        /\ \A x \in 1 .. Len(buf) : buf2[x] = IF x = p THEN nil ELSE buf[x]
    BY <1>1, <1>2, <1>3, <1>4
  <1>6. PICK r : r = [gb EXCEPT !.lbuf = buf2, !.index = index]
    OBVIOUS
  <1>7. r = Blank(gb, p, index)
    BY <1>1, <1>3, <1>4, <1>6 DEF Blank
  <1>8. index \in Nat /\ index < Len(buf)
    BY <1>1, <1>2
  <1>9. r \in GlobalBuffer /\ r.lbuf = buf2 /\ r.index = index /\ r.ptr = gb.ptr
    BY <1>2, <1>5, <1>6, <1>8 DEF GlobalBuffer
  <1>10. \A x \in 1 .. Len(buf) : buf2[x] = IF buf[x] \in {n} THEN nil ELSE buf[x]
    <2>1. ASSUME NEW x \in 1 .. Len(buf) PROVE buf2[x] = IF buf[x] \in {n} THEN nil ELSE buf[x]
      <3>1. buf[p] = n /\ p \in 1 .. Len(buf)
        BY <1>1
      <3>2. x # p => buf[x] # n
        BY <1>2, <3>1
      <3> QED
        BY <1>5, <3>1, <3>2
    <2> QED
      BY <2>1
  <1>11. \A x, y \in 1 .. Len(buf2) : buf2[x] = buf2[y] /\ x # y => buf2[x] = Nil
    BY <1>2, <1>3, <1>5
  <1>12. GbShape(r)
    BY <1>5, <1>8, <1>9, <1>11 DEF GbShape
  <1>13. GbCleared(gb, r, {n})
    BY <1>1, <1>3, <1>5, <1>9, <1>10, <1>12 DEF GbCleared
  <1> QED
    BY <1>7, <1>13

\* clear_global_line () clears the line, wherever it is.
LEMMA ClearLine ==
  ASSUME NEW gb, GbShape(gb), NEW n \in Node
  PROVE  GbCleared(gb, clear_global_line(gb, n), {n})
  <1>1. PICK last : last = Len(gb.lbuf)
    OBVIOUS
  <1>2. /\ last \in Nat /\ gb \in GlobalBuffer /\ gb.index \in Nat /\ (last # 0 => gb.index < last)
    BY <1>1 DEF GbShape, GlobalBuffer
  <1>3. PICK hits : hits = {i \in 0 .. last - 1 : gb.lbuf[((gb.index + i) % last) + 1] = n}
    OBVIOUS
  <1>4. n # Nil
    BY DEF Node, Nil
  <1>5. CASE hits = {}
    <2>1. clear_global_line(gb, n) = gb
      BY <1>1, <1>3, <1>5 DEF clear_global_line
    <2>2. ASSUME NEW p \in 1 .. last PROVE gb.lbuf[p] # n
      <3>1. last # 0 /\ gb.index \in 0 .. last - 1
        BY <1>2
      <3>2. PICK i \in 0 .. last - 1 : ((gb.index + i) % last) + 1 = p
        BY <1>2, <3>1, RoundTrip
      <3> QED
        BY <1>3, <1>5, <3>2
    <2>3. \A x \in 1 .. Len(gb.lbuf) : gb.lbuf[x] \notin {n}
      BY <1>1, <2>2
    <2>4. GbCleared(gb, gb, {n})
      BY <2>3 DEF GbCleared
    <2> QED
      BY <2>1, <2>4
  <1>6. CASE hits # {}
    <2>1. hits \subseteq Nat
      BY <1>2, <1>3
    <2>2. PICK i : i = Min(hits) /\ i \in hits
      BY <1>6, <2>1, MinIn
    <2>3. i \in 0 .. last - 1 /\ gb.lbuf[((gb.index + i) % last) + 1] = n
      BY <1>3, <2>2
    <2>4. last # 0 /\ i \in Nat
      BY <1>2, <2>3
    <2>5. PICK m : m = (gb.index + i) % last
      OBVIOUS
    <2>6. m \in 0 .. last - 1
      <3>1. gb.index + i \in Nat
        BY <1>2, <2>4
      <3> QED
        BY <1>2, <2>4, <2>5, <3>1, Modulo
    <2>7. PICK p : p = m + 1 /\ p \in 1 .. last
      BY <1>2, <2>6
    <2>8. PICK index : index = (gb.index + i + 1) % last
      OBVIOUS
    <2>9. index \in 0 .. last - 1
      <3>1. gb.index + i + 1 \in Nat
        BY <1>2, <2>4
      <3> QED
        BY <1>2, <2>4, <2>8, <3>1, Modulo
    <2>10. gb.lbuf[p] = n
      BY <2>3, <2>5, <2>7
    <2>11. clear_global_line(gb, n) = Blank(gb, p, index)
      <3>1. clear_global_line(gb, n) =
              [gb EXCEPT !.lbuf[((gb.index + Min(hits)) % last) + 1] = Nil,
                         !.index = (gb.index + Min(hits) + 1) % last]
        BY <1>1, <1>3, <1>6 DEF clear_global_line
      <3> QED
        BY <2>2, <2>5, <2>7, <2>8, <3>1 DEF Blank
    <2>12. GbCleared(gb, Blank(gb, p, index), {n})
      BY <1>1, <1>4, <2>7, <2>9, <2>10, BlankEntry
    <2> QED
      BY <2>11, <2>12
  <1> QED
    BY <1>5, <1>6

\* One more line cleared.
LEMMA ClearedMore ==
  ASSUME NEW gb, NEW s, NEW r, NEW N, NEW n, GbCleared(gb, s, N), GbCleared(s, r, {n}),
         NEW M, M = N \cup {n}, n # Nil
  PROVE  GbCleared(gb, r, M)
  <1>1. /\ GbShape(r) /\ Len(r.lbuf) = Len(gb.lbuf) /\ r.ptr = gb.ptr
    BY DEF GbCleared
  <1>2. ASSUME NEW x \in 1 .. Len(gb.lbuf)
        PROVE  r.lbuf[x] = IF gb.lbuf[x] \in M THEN Nil ELSE gb.lbuf[x]
    <2>1. s.lbuf[x] = IF gb.lbuf[x] \in N THEN Nil ELSE gb.lbuf[x]
      BY DEF GbCleared
    <2>2. x \in 1 .. Len(s.lbuf)
      BY DEF GbCleared
    <2>3. r.lbuf[x] = IF s.lbuf[x] = n THEN Nil ELSE s.lbuf[x]
      BY <2>2 DEF GbCleared
    <2> QED
      BY <2>1, <2>3
  <1> QED
    BY <1>1, <1>2 DEF GbCleared

\* All the lines of a range are cleared.
LEMMA ClearLines ==
  ASSUME NEW gb, GbShape(gb), NEW nodes \in Seq(Node)
  PROVE  GbCleared(gb, clear_global_lines(gb, nodes), ToSet(nodes))
  <1>1. PICK k \in Nat : k = Len(nodes)
    OBVIOUS
  <1>2. PICK a : /\ a[0] = gb
                 /\ \A i \in 1 .. k : a[i] = clear_global_line(a[i - 1], nodes[i])
                 /\ clear_global_lines(gb, nodes) = a[k]
    <2>1. \E a : Clearing(gb, nodes, k, a)
      BY <1>1, ClearRun
    <2> QED
      BY <2>1 DEF Clearing
  <1> DEFINE S == {i \in 0 .. k : GbCleared(gb, a[i], First(nodes, i))}
  <1> HIDE DEF S
  <1>3. 0 \in S
    <2>1. PICK s, M : s = a[0] /\ M = First(nodes, 0)
      OBVIOUS
    <2>2. s = gb /\ M = {}
      BY <1>2, <2>1 DEF First
    <2>3. GbCleared(gb, s, M)
      BY <2>2 DEF GbCleared
    <2>4. 0 \in 0 .. k
      OBVIOUS
    <2> QED
      BY <2>1, <2>3, <2>4 DEF S
  <1>4. ASSUME NEW i \in 1 .. k, i - 1 \in S PROVE i \in S
    <2>1. PICK s, r, n, N, M : /\ s = a[i - 1] /\ r = a[i] /\ n = nodes[i]
                               /\ N = First(nodes, i - 1) /\ M = First(nodes, i)
      OBVIOUS
    <2>2. GbCleared(gb, s, N)
      BY <1>4, <2>1 DEF S
    <2>3. n \in Node /\ n # Nil
      BY <1>1, <2>1 DEF Node, Nil
    <2>4. GbShape(s)
      BY <2>2 DEF GbCleared
    <2>5. r = clear_global_line(s, n)
      BY <1>2, <2>1
    <2>6. GbCleared(s, r, {n})
      BY <2>3, <2>4, <2>5, ClearLine
    <2>7. M = N \cup {n}
      <3>1. \A x : x \in 1 .. i <=> x \in 1 .. i - 1 \/ x = i
        OBVIOUS
      <3> QED
        BY <2>1, <3>1 DEF First
    <2>8. GbCleared(gb, r, M)
      BY <2>2, <2>3, <2>6, <2>7, ClearedMore, ZenonT(60)
    <2>9. i \in 0 .. k
      OBVIOUS
    <2> QED
      BY <2>1, <2>8, <2>9 DEF S
  <1>5. k \in S
    <2>1. k \in 0 .. k
      OBVIOUS
    <2> QED
      BY <1>3, <1>4, <2>1, Inductive
  <1>6. First(nodes, k) = ToSet(nodes)
    BY <1>1 DEF ToSet, First
  <1> QED
    BY <1>2, <1>5, <1>6 DEF S

============================================================================
