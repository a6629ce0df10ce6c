---------------------------- MODULE Subst_proofs ----------------------------
(***************************************************************************)
(* Proofs about Subst, for lines of any length and modifiers of any size.  *)
(*                                                                         *)
(* The meaning of a command is stated over MatchesFrom, the matches of the *)
(* line in order, a recursive function; the code meets them one regexec () *)
(* at a time, each on what is left of the line.  The argument has three    *)
(* parts.  First, the matches in what is left of a line are those of the   *)
(* whole line from there on, moved (NOTBOL keeps `^' from matching again), *)
(* and those the loops come to are the ones in the part they see (Seen).   *)
(* Second, in every state of a loop what it will still find is what        *)
(* remains of that list (Remaining): all that starts at l.txt, or, after   *)
(* a match, all of it but an empty match right there.  Third, CountInv and *)
(* MatchInv say what has been counted and written in terms of the matches  *)
(* passed, so that at the end of the line the count is the length of the   *)
(* list and the pieces replaced are those members of it that were chosen.  *)
(***************************************************************************)
EXTENDS Subst, TLAPS, NaturalsInduction, WellFoundedInduction, SequenceTheorems

Regex == {"x", "x*", "^x*", "x*$"}
IsLine(s) == s \in Seq(Byte) /\ WellFormed(s)

----------------------------------------------------------------------------
(* The numbers: there is a smallest one in every set. *)

LEMMA SmallestNat ==
  ASSUME NEW S, S \subseteq Nat, S # {}
  PROVE  \E x \in S : \A y \in S : x =< y
  <1> DEFINE R == {ss \in Nat \X Nat : ss[1] < ss[2]}
  <1>1. OpToRel(<, Nat) = R
    BY DEF OpToRel
  <1>2. IsWellFoundedOn(R, Nat)
    BY <1>1, NatLessThanWellFounded
  <1>3. PICK x \in S : \A y \in S : ~ (<<y, x>> \in R)
    BY <1>2, WFMin
  <1>4. ASSUME NEW y \in S PROVE x =< y
    <2>1. x \in Nat /\ y \in Nat /\ ~ (<<y, x>> \in R)
      BY <1>3
    <2>2. ~ (y < x)
      BY <2>1
    <2> QED
      BY <2>1, <2>2
  <1> QED
    BY <1>4

----------------------------------------------------------------------------
(* The leftmost longest of a set of matches. *)

Pairs(N) == {p \in (0 .. N) \X (0 .. N) : p[1] <= p[2]}
Precedes(p, q) == p[1] < q[1] \/ (p[1] = q[1] /\ p[2] >= q[2])

LEMMA LeftmostLongestExists ==
  ASSUME NEW N \in Nat, NEW S, S \subseteq Pairs(N), S # {}
  PROVE  \E p \in S : \A q \in S : Precedes(p, q)
  <1>1. S \subseteq (0 .. N) \X (0 .. N)
    BY DEF Pairs
  <1> DEFINE F == {a \in 0 .. N : \E q \in S : q[1] = a}
  <1>2. F \subseteq Nat /\ F # {}
    BY <1>1
  <1>3. PICK a \in F : \A y \in F : a =< y
    BY <1>2, SmallestNat
  <1> DEFINE G == {d \in 0 .. N : \E q \in S : q[1] = a /\ q[2] = N - d}
  <1>4. G \subseteq Nat /\ G # {}
    <2>1. PICK q \in S : q[1] = a
      BY <1>3
    <2>2. q[2] \in 0 .. N
      BY <1>1, <2>1
    <2>3. N - q[2] \in G
      BY <2>1, <2>2
    <2> QED
      BY <2>3
  <1>5. PICK d \in G : \A y \in G : d =< y
    BY <1>4, SmallestNat
  <1>6. PICK p \in S : p[1] = a /\ p[2] = N - d
    BY <1>5
  <1>7. ASSUME NEW q \in S PROVE Precedes(p, q)
    <2>1. q[1] \in 0 .. N /\ q[2] \in 0 .. N /\ p[1] \in 0 .. N /\ p[2] \in 0 .. N
      BY <1>1
    <2>2. a <= q[1]
      BY <1>3, <2>1
    <2>3. CASE q[1] = a
      <3>1. N - q[2] \in G
        BY <2>1, <2>3
      <3>2. d <= N - q[2]
        BY <1>5, <3>1
      <3> QED
        BY <1>5, <1>6, <2>1, <2>3, <3>2 DEF Precedes
    <2>4. CASE q[1] # a
      BY <1>3, <1>6, <2>1, <2>2, <2>4 DEF Precedes
    <2> QED
      BY <2>3, <2>4
  <1> QED
    BY <1>7

\* It is the only one that precedes all others.
LEMMA LeftmostLongestIs ==
  ASSUME NEW N \in Nat, NEW S, S \subseteq Pairs(N), NEW p \in S,
         \A q \in S : Precedes(p, q)
  PROVE  LeftmostLongest(S) = p
  <1>1. LeftmostLongest(S) = CHOOSE m \in S : \A q \in S : Precedes(m, q)
    BY DEF LeftmostLongest, Precedes
  <1>2. PICK m : m = LeftmostLongest(S)
    OBVIOUS
  <1>3. m \in S /\ \A q \in S : Precedes(m, q)
    BY <1>1, <1>2
  <1>4. Precedes(m, p) /\ Precedes(p, m)
    BY <1>3
  <1>5. /\ p \in (0 .. N) \X (0 .. N) /\ m \in (0 .. N) \X (0 .. N)
    BY <1>3 DEF Pairs
  <1>6. p[1] = m[1] /\ p[2] = m[2]
    BY <1>4, <1>5 DEF Precedes
  <1>7. p = m
    BY <1>5, <1>6
  <1> QED
    BY <1>2, <1>7

LEMMA LeftmostLongestIn ==
  ASSUME NEW N \in Nat, NEW S, S \subseteq Pairs(N), S # {}
  PROVE  /\ LeftmostLongest(S) \in S
         /\ \A q \in S : Precedes(LeftmostLongest(S), q)
  <1>1. PICK p \in S : \A q \in S : Precedes(p, q)
    BY LeftmostLongestExists
  <1>2. LeftmostLongest(S) = p
    BY <1>1, LeftmostLongestIs
  <1> QED
    BY <1>1, <1>2

----------------------------------------------------------------------------
(* Where a pattern matches, in a line and in the rest of it. *)

Fits(r, N, bol, a, b) ==
  /\ r = "x" => b = a + 1
  /\ r = "^x*" => bol /\ a = 0
  /\ r = "x*$" => b = N

LEMMA SpansPairs ==
  ASSUME NEW r \in Regex, NEW s \in Seq(Byte), NEW bol \in BOOLEAN
  PROVE  Spans(r, s, bol) \subseteq Pairs(Len(s))
  BY DEF Spans, Pairs, Regex

LEMMA SpansAt ==
  ASSUME NEW r \in Regex, NEW s \in Seq(Byte), NEW bol \in BOOLEAN, NEW a, NEW b
  PROVE  <<a, b>> \in Spans(r, s, bol) <=>
           /\ <<a, b>> \in Pairs(Len(s))
           /\ IsRun(s, a, b)
           /\ Fits(r, Len(s), bol, a, b)
  <1>1. CASE r = "x"
    BY <1>1 DEF Spans, Pairs, Fits
  <1>2. CASE r = "x*"
    BY <1>2 DEF Spans, Pairs, Fits
  <1>3. CASE r = "^x*"
    BY <1>3 DEF Spans, Pairs, Fits
  <1>4. CASE r = "x*$"
    BY <1>4 DEF Spans, Pairs, Fits
  <1> QED
    BY <1>1, <1>2, <1>3, <1>4 DEF Regex

LEMMA PairsAt ==
  ASSUME NEW N, NEW a, NEW b
  PROVE  <<a, b>> \in Pairs(N) <=> a \in 0 .. N /\ b \in 0 .. N /\ a <= b
  BY DEF Pairs

LEMMA PairsAre ==
  ASSUME NEW N, NEW q \in Pairs(N)
  PROVE  q = <<q[1], q[2]>> /\ q[1] \in 0 .. N /\ q[2] \in 0 .. N /\ q[1] <= q[2]
  BY DEF Pairs

RestOf(s, p) == SubSeq(s, p + 1, Len(s))

LEMMA RestOfLine ==
  ASSUME NEW s \in Seq(Byte), NEW p \in 0 .. Len(s)
  PROVE  /\ RestOf(s, p) \in Seq(Byte)
         /\ Len(RestOf(s, p)) = Len(s) - p
         /\ \A i \in 1 .. Len(s) - p : RestOf(s, p)[i] = s[p + i]
         /\ RestOf(s, p) = <<>> <=> p = Len(s)
  <1>1. /\ RestOf(s, p) \in Seq(Byte)
        /\ Len(RestOf(s, p)) = Len(s) - p
        /\ \A i \in 1 .. Len(s) - p : RestOf(s, p)[i] = s[p + i]
    BY DEF RestOf
  <1>2. RestOf(s, p) = <<>> <=> Len(RestOf(s, p)) = 0
    BY <1>1
  <1> QED
    BY <1>1, <1>2

\* The matches that start at p or later.
Ahead(r, s, p) == {q \in Spans(r, s, TRUE) : q[1] >= p}

\* A match in the rest of the line is one in the line, except that only the
\* beginning of the line is its beginning.
LEMMA SpansOfRest ==
  ASSUME NEW r \in Regex, NEW s \in Seq(Byte), NEW bol \in BOOLEAN,
         NEW p \in 0 .. Len(s), r = "^x*" => bol /\ p = 0,
         NEW a \in Int, NEW b \in Int
  PROVE  <<a, b>> \in Spans(r, RestOf(s, p), bol) <=>
         <<p + a, p + b>> \in Ahead(r, s, p)
  <1>1. /\ RestOf(s, p) \in Seq(Byte)
        /\ Len(RestOf(s, p)) = Len(s) - p
        /\ \A i \in 1 .. Len(s) - p : RestOf(s, p)[i] = s[p + i]
    BY RestOfLine
  <1> DEFINE R == RestOf(s, p)
  <1> HIDE DEF R
  <1>2. PICK N \in Nat : N = Len(s)
    OBVIOUS
  <1>3. <<a, b>> \in Spans(r, R, bol) <=>
          /\ a \in 0 .. N - p /\ b \in 0 .. N - p /\ a <= b
          /\ IsRun(R, a, b) /\ Fits(r, N - p, bol, a, b)
    BY <1>1, <1>2, SpansAt, PairsAt DEF R
  <1>4. <<p + a, p + b>> \in Ahead(r, s, p) <=>
          /\ p + a \in 0 .. N /\ p + b \in 0 .. N /\ a <= b /\ p + a >= p
          /\ IsRun(s, p + a, p + b) /\ Fits(r, N, TRUE, p + a, p + b)
    <2>1. PICK x \in Int : x = p + a
      BY <1>2
    <2>2. PICK y \in Int : y = p + b
      BY <1>2
    <2>3. <<x, y>> \in Spans(r, s, TRUE) <=>
            /\ x \in 0 .. N /\ y \in 0 .. N /\ x <= y
            /\ IsRun(s, x, y) /\ Fits(r, N, TRUE, x, y)
      BY <1>2, SpansAt, PairsAt
    <2>4. <<x, y>> \in Ahead(r, s, p) <=> <<x, y>> \in Spans(r, s, TRUE) /\ x >= p
      BY DEF Ahead
    <2>5. x <= y <=> a <= b
      BY <1>2, <2>1, <2>2
    <2> QED
      BY <2>1, <2>2, <2>3, <2>4, <2>5
  <1>5. ASSUME a \in 0 .. N - p, b \in 0 .. N - p
        PROVE  IsRun(R, a, b) <=> IsRun(s, p + a, p + b)
    <2>1. ASSUME IsRun(R, a, b), NEW j \in (p + a) + 1 .. p + b
          PROVE  s[j] = "x"
      <3>1. j - p \in a + 1 .. b /\ j - p \in 1 .. N - p /\ p + (j - p) = j
        BY <1>2, <1>5, <2>1
      <3>2. R[j - p] = "x"
        BY <2>1, <3>1 DEF IsRun
      <3>3. R[j - p] = s[p + (j - p)]
        BY <1>1, <1>2, <3>1 DEF R
      <3> QED
        BY <3>1, <3>2, <3>3
    <2>2. ASSUME IsRun(s, p + a, p + b), NEW j \in a + 1 .. b
          PROVE  R[j] = "x"
      <3>1. p + j \in (p + a) + 1 .. p + b /\ j \in 1 .. N - p
        BY <1>2, <1>5, <2>2
      <3> QED
        BY <1>1, <1>2, <2>2, <3>1 DEF IsRun, R
    <2> QED
      BY <2>1, <2>2 DEF IsRun
  <1>6. a \in 0 .. N - p /\ b \in 0 .. N - p =>
          (Fits(r, N - p, bol, a, b) <=> Fits(r, N, TRUE, p + a, p + b))
    BY <1>2 DEF Fits
  <1>7. ASSUME <<a, b>> \in Spans(r, R, bol)
        PROVE  <<p + a, p + b>> \in Ahead(r, s, p)
    <2>1. /\ a \in 0 .. N - p /\ b \in 0 .. N - p /\ a <= b
          /\ IsRun(R, a, b) /\ Fits(r, N - p, bol, a, b)
      BY <1>3, <1>7
    <2>2. p + a \in 0 .. N /\ p + b \in 0 .. N /\ p + a >= p
      BY <1>2, <2>1
    <2> QED
      BY <1>4, <1>5, <1>6, <2>1, <2>2
  <1>8. ASSUME <<p + a, p + b>> \in Ahead(r, s, p)
        PROVE  <<a, b>> \in Spans(r, R, bol)
    <2>1. /\ p + a \in 0 .. N /\ p + b \in 0 .. N /\ a <= b /\ p + a >= p
          /\ IsRun(s, p + a, p + b) /\ Fits(r, N, TRUE, p + a, p + b)
      BY <1>4, <1>8
    <2>2. a \in 0 .. N - p /\ b \in 0 .. N - p
      BY <1>2, <2>1
    <2> QED
      BY <1>3, <1>5, <1>6, <2>1, <2>2
  <1> QED
    BY <1>7, <1>8 DEF R

\* So is the one that regexec () finds.
LEMMA MatchOfRest ==
  ASSUME NEW r \in Regex, NEW s \in Seq(Byte), NEW bol \in BOOLEAN,
         NEW p \in 0 .. Len(s), r = "^x*" => bol /\ p = 0,
         NEW S, S = Spans(r, RestOf(s, p), bol)
  PROVE  /\ S = {} <=> Ahead(r, s, p) = {}
         /\ S # {} => /\ LeftmostLongest(S) \in Pairs(Len(s) - p)
                      /\ LeftmostLongest(Ahead(r, s, p)) =
                           <<p + LeftmostLongest(S)[1], p + LeftmostLongest(S)[2]>>
  <1>1. PICK N \in Nat : N = Len(s)
    OBVIOUS
  <1>2. RestOf(s, p) \in Seq(Byte) /\ Len(RestOf(s, p)) = N - p /\ N - p \in Nat
    BY <1>1, RestOfLine
  <1>3. S \subseteq Pairs(N - p)
    BY <1>2, SpansPairs
  <1>4. Ahead(r, s, p) \subseteq Pairs(N)
    BY <1>1, SpansPairs DEF Ahead
  <1>5. ASSUME NEW q \in Ahead(r, s, p)
        PROVE  <<q[1] - p, q[2] - p>> \in S /\ q = <<p + (q[1] - p), p + (q[2] - p)>>
    <2>1. q = <<q[1], q[2]>> /\ q[1] \in 0 .. N /\ q[2] \in 0 .. N
      BY <1>4, PairsAre
    <2>2. PICK a \in Int : a = q[1] - p
      BY <1>1, <2>1
    <2>3. PICK b \in Int : b = q[2] - p
      BY <1>1, <2>1
    <2>4. p + a = q[1] /\ p + b = q[2]
      BY <1>1, <2>1, <2>2, <2>3
    <2>5. <<a, b>> \in S
      BY <2>1, <2>4, SpansOfRest
    <2> QED
      BY <2>1, <2>2, <2>3, <2>4, <2>5
  <1>6. ASSUME NEW q \in S
        PROVE  <<p + q[1], p + q[2]>> \in Ahead(r, s, p)
    <2>1. q = <<q[1], q[2]>> /\ q[1] \in Int /\ q[2] \in Int
      BY <1>3, PairsAre
    <2> QED
      BY <2>1, SpansOfRest
  <1>7. S = {} <=> Ahead(r, s, p) = {}
    BY <1>5, <1>6
  <1>8. ASSUME S # {}
        PROVE  /\ LeftmostLongest(S) \in Pairs(N - p)
               /\ LeftmostLongest(Ahead(r, s, p)) =
                           <<p + LeftmostLongest(S)[1], p + LeftmostLongest(S)[2]>>
    <2>1. PICK m : m = LeftmostLongest(S)
      OBVIOUS
    <2>2. m \in S /\ \A q \in S : Precedes(m, q)
      BY <1>2, <1>3, <1>8, <2>1, LeftmostLongestIn
    <2>3. m[1] \in 0 .. N - p /\ m[2] \in 0 .. N - p
      BY <1>3, <2>2, PairsAre
    <2>4. PICK h : h = <<p + m[1], p + m[2]>>
      OBVIOUS
    <2>5. h \in Ahead(r, s, p)
      BY <1>6, <2>2, <2>4
    <2>6. ASSUME NEW q \in Ahead(r, s, p)
          PROVE  Precedes(h, q)
      <3>1. q[1] \in 0 .. N /\ q[2] \in 0 .. N
        BY <1>4, PairsAre
      <3>2. PICK d : d = <<q[1] - p, q[2] - p>>
        OBVIOUS
      <3>3. d \in S
        BY <1>5, <3>2
      <3>4. Precedes(m, d)
        BY <2>2, <3>3
      <3>5. d[1] = q[1] - p /\ d[2] = q[2] - p /\ h[1] = p + m[1] /\ h[2] = p + m[2]
        BY <2>4, <3>2
      <3> QED
        BY SMTT(30), <1>1, <2>3, <3>1, <3>4, <3>5 DEF Precedes
    <2>7. LeftmostLongest(Ahead(r, s, p)) = h
      BY <1>4, <2>5, <2>6, LeftmostLongestIs
    <2> QED
      BY <1>3, <2>1, <2>2, <2>4, <2>7
  <1> QED
    BY <1>1, <1>7, <1>8

----------------------------------------------------------------------------
(* The matches of a line, one after the other. *)

Onward(r, s, p) == {q \in Wholes(r, s) : q[1] >= p}
Beyond(r, s, p) == {q \in Wholes(r, s) : q[1] >= p /\ q # <<p, p>>}

\* f gives, for each of the last m + 1 offsets of s, the matches after it.
NextOf(r, s, p) == LeftmostLongest(Beyond(r, s, p))
ListAt(r, s, p, f) ==
  IF Beyond(r, s, p) = {} THEN <<>>
  ELSE <<NextOf(r, s, p)>> \o f[NextOf(r, s, p)[2]]
IsAfter(f, m, r, s) ==
  f = [p \in Len(s) - m .. Len(s) |-> ListAt(r, s, p, f)]

LEMMA WholesPairs ==
  ASSUME NEW r \in Regex, NEW s \in Seq(Byte), NEW p
  PROVE  /\ Wholes(r, s) \subseteq Pairs(Len(s))
         /\ Onward(r, s, p) \subseteq Pairs(Len(s))
         /\ Beyond(r, s, p) \subseteq Pairs(Len(s))
         /\ Ahead(r, s, p) \subseteq Pairs(Len(s))
  <1>1. Spans(r, s, TRUE) \subseteq Pairs(Len(s))
    BY SpansPairs
  <1> QED
    BY <1>1 DEF Wholes, Onward, Beyond, Ahead

\* The next match ends further on.
LEMMA NextIsFurther ==
  ASSUME NEW r \in Regex, NEW s \in Seq(Byte), NEW p \in 0 .. Len(s),
         Beyond(r, s, p) # {}
  PROVE  /\ NextOf(r, s, p) \in Beyond(r, s, p)
         /\ NextOf(r, s, p) \in Pairs(Len(s))
         /\ NextOf(r, s, p)[2] \in p + 1 .. Len(s)
  <1>1. Len(s) \in Nat /\ Beyond(r, s, p) \subseteq Pairs(Len(s))
    BY WholesPairs
  <1>2. PICK m : m = NextOf(r, s, p)
    OBVIOUS
  <1>3. m \in Beyond(r, s, p)
    BY <1>1, <1>2, LeftmostLongestIn DEF NextOf
  <1>4. m = <<m[1], m[2]>> /\ m[1] \in 0 .. Len(s) /\ m[2] \in 0 .. Len(s) /\ m[1] <= m[2]
    BY <1>1, <1>3, PairsAre
  <1>5. m[1] >= p /\ m # <<p, p>>
    BY <1>3 DEF Beyond
  <1>6. m[2] # p
    BY <1>4, <1>5
  <1>7. m[2] \in p + 1 .. Len(s)
    BY <1>4, <1>5, <1>6
  <1> QED
    BY <1>1, <1>2, <1>3, <1>7

LEMMA AfterExists ==
  ASSUME NEW r \in Regex, NEW s \in Seq(Byte), NEW m \in 0 .. Len(s)
  PROVE  \E f : IsAfter(f, m, r, s)
  <1>1. PICK N \in Nat : N = Len(s)
    OBVIOUS
  <1> DEFINE S == {k \in 0 .. N : ~ \E f : IsAfter(f, k, r, s)}
  <1> SUFFICES ASSUME S # {} PROVE FALSE
    BY <1>1
  <1>2. PICK k \in S : \A y \in S : k =< y
    <2>1. S \subseteq Nat
      OBVIOUS
    <2> HIDE DEF S
    <2> QED
      BY <2>1, SmallestNat
  <1>3. PICK g : \A p \in N - k + 1 .. N : g[p] = ListAt(r, s, p, g)
    <2>1. CASE k = 0
      <3>1. N - k + 1 .. N = {}
        BY <2>1
      <3> QED
        BY <3>1
    <2>2. CASE k # 0
      <3>1. k - 1 \in 0 .. N /\ k - 1 \notin S /\ N - (k - 1) = N - k + 1
        BY <1>2, <2>2
      <3>2. PICK g : IsAfter(g, k - 1, r, s)
        BY <3>1
      <3>3. g = [p \in N - k + 1 .. N |-> ListAt(r, s, p, g)]
        BY <1>1, <3>1, <3>2 DEF IsAfter
      <3>4. \A p \in N - k + 1 .. N : g[p] = ListAt(r, s, p, g)
        BY <3>3
      <3> QED
        BY <3>4
    <2> QED
      BY <2>1, <2>2
  <1> DEFINE f == [p \in N - k .. N |-> IF p = N - k THEN ListAt(r, s, p, g) ELSE g[p]]
  <1>4. ASSUME NEW p \in N - k .. N
        PROVE  ListAt(r, s, p, f) = ListAt(r, s, p, g)
    <2>1. CASE Beyond(r, s, p) = {}
      BY <2>1 DEF ListAt
    <2>2. CASE Beyond(r, s, p) # {}
      <3>1. p \in 0 .. Len(s)
        BY <1>1
      <3>2. PICK j : j = NextOf(r, s, p)[2]
        OBVIOUS
      <3>3. j \in p + 1 .. N
        BY <1>1, <2>2, <3>1, <3>2, NextIsFurther
      <3>4. f[j] = g[j]
        BY <1>1, <3>3
      <3> HIDE DEF f
      <3> QED
        BY <3>2, <3>4 DEF ListAt
    <2> QED
      BY <2>1, <2>2
  <1>5. ASSUME NEW p \in N - k .. N
        PROVE  f[p] = ListAt(r, s, p, f)
    <2>1. CASE p = N - k
      BY <1>4, <2>1
    <2>2. CASE p # N - k
      <3>1. p \in N - k + 1 .. N
        BY <1>1, <2>2
      <3> QED
        BY <1>3, <1>4, <2>2, <3>1
    <2> QED
      BY <2>1, <2>2
  <1> HIDE DEF ListAt
  <1>6. f = [p \in N - k .. N |-> ListAt(r, s, p, f)]
    BY <1>5
  <1>7. IsAfter(f, k, r, s)
    BY <1>1, <1>6 DEF IsAfter
  <1> QED
    BY <1>7

AfterAll(r, s) == CHOOSE f : f = [p \in 0 .. Len(s) |-> ListAt(r, s, p, f)]

LEMMA AfterAllAt ==
  ASSUME NEW r \in Regex, NEW s \in Seq(Byte), NEW p \in 0 .. Len(s)
  PROVE  AfterAll(r, s)[p] = ListAt(r, s, p, AfterAll(r, s))
  <1>1. Len(s) \in 0 .. Len(s) /\ Len(s) - Len(s) = 0
    OBVIOUS
  <1>2. PICK f : IsAfter(f, Len(s), r, s)
    BY <1>1, AfterExists
  <1>3. f = [x \in 0 .. Len(s) |-> ListAt(r, s, x, f)]
    BY <1>1, <1>2 DEF IsAfter
  <1>4. PICK g : g = AfterAll(r, s)
    OBVIOUS
  <1>5. g = [x \in 0 .. Len(s) |-> ListAt(r, s, x, g)]
    BY <1>3, <1>4 DEF AfterAll
  <1>6. g[p] = ListAt(r, s, p, g)
    BY <1>5
  <1> QED
    BY <1>4, <1>6

LEMMA AfterUnique ==
  ASSUME NEW r \in Regex, NEW s \in Seq(Byte), NEW g, IsAfter(g, Len(s), r, s)
  PROVE  g = AfterAll(r, s)
  <1>1. PICK N \in Nat : N = Len(s)
    OBVIOUS
  <1>2. PICK f : f = AfterAll(r, s)
    OBVIOUS
  <1>3. g = [x \in 0 .. N |-> ListAt(r, s, x, g)]
    BY <1>1 DEF IsAfter
  <1>4. f = [x \in 0 .. N |-> ListAt(r, s, x, f)]
    BY <1>1, <1>2, <1>3 DEF AfterAll
  <1>5. /\ \A x \in 0 .. N : g[x] = ListAt(r, s, x, g)
        /\ \A x \in 0 .. N : f[x] = ListAt(r, s, x, f)
    BY <1>3, <1>4
  <1> DEFINE S == {k \in 0 .. N : f[N - k] # g[N - k]}
  <1>6. S = {}
    <2> SUFFICES ASSUME S # {} PROVE FALSE
      OBVIOUS
    <2>1. S \subseteq Nat
      OBVIOUS
    <2>2. PICK k \in S : \A y \in S : k =< y
      <3> HIDE DEF S
      <3> QED
        BY <2>1, SmallestNat
    <2>3. PICK j \in 0 .. N : j = N - k
      BY <1>1
    <2>4. f[j] = ListAt(r, s, j, f) /\ g[j] = ListAt(r, s, j, g) /\ f[j] # g[j]
      BY <1>5, <2>2, <2>3
    <2>5. Beyond(r, s, j) # {}
      BY <2>4 DEF ListAt
    <2>6. PICK m : m = NextOf(r, s, j)[2]
      OBVIOUS
    <2>7. m \in j + 1 .. N
      BY <1>1, <2>3, <2>5, <2>6, NextIsFurther
    <2>11. m \in Int /\ N - m \in 0 .. N
      BY <1>1, <2>3, <2>7
    <2>8. PICK d \in 0 .. N : d = N - m
      BY <2>11
    <2>9. d < k /\ N - d = m
      BY <1>1, <2>3, <2>7, <2>8
    <2>10. f[m] = g[m]
      BY <2>2, <2>8, <2>9
    <2> QED
      BY <2>4, <2>5, <2>6, <2>10 DEF ListAt
  <1>7. ASSUME NEW x \in 0 .. N PROVE f[x] = g[x]
    <2>1. N - x \in 0 .. N /\ N - (N - x) = x
      BY <1>1
    <2> QED
      BY <1>6, <2>1
  <1>8. f = g
    BY <1>3, <1>4, <1>7
  <1> QED
    BY <1>2, <1>8

LEMMA AfterAllType ==
  ASSUME NEW r \in Regex, NEW s \in Seq(Byte), NEW p \in 0 .. Len(s)
  PROVE  AfterAll(r, s)[p] \in Seq(Pairs(Len(s)))
  <1>1. PICK N \in Nat : N = Len(s)
    OBVIOUS
  <1>2. PICK f : f = AfterAll(r, s)
    OBVIOUS
  <1> DEFINE S == {k \in 0 .. N : f[N - k] \notin Seq(Pairs(N))}
  <1>3. S = {}
    <2> SUFFICES ASSUME S # {} PROVE FALSE
      OBVIOUS
    <2>1. S \subseteq Nat
      OBVIOUS
    <2>2. PICK k \in S : \A y \in S : k =< y
      <3> HIDE DEF S
      <3> QED
        BY <2>1, SmallestNat
    <2>3. PICK j \in 0 .. N : j = N - k
      BY <1>1
    <2>4. f[j] = ListAt(r, s, j, f) /\ f[j] \notin Seq(Pairs(N))
      BY <1>1, <1>2, <2>2, <2>3, AfterAllAt
    <2>5. Beyond(r, s, j) # {}
      <3>1. <<>> \in Seq(Pairs(N))
        OBVIOUS
      <3> QED
        BY <2>4, <3>1 DEF ListAt
    <2>6. PICK m : m = NextOf(r, s, j)
      OBVIOUS
    <2>7. m \in Pairs(N) /\ m[2] \in j + 1 .. N
      BY <1>1, <2>3, <2>5, <2>6, NextIsFurther
    <2>14. m[2] \in Int /\ N - m[2] \in 0 .. N
      BY <1>1, <2>3, <2>7
    <2>8. PICK d \in 0 .. N : d = N - m[2]
      BY <2>14
    <2>9. d < k /\ N - d = m[2]
      BY <1>1, <2>3, <2>7, <2>8
    <2>10. f[m[2]] \in Seq(Pairs(N))
      BY <2>2, <2>8, <2>9
    <2>11. f[j] = <<m>> \o f[m[2]]
      BY <2>4, <2>5, <2>6 DEF ListAt
    <2>12. <<m>> \in Seq(Pairs(N))
      BY <2>7
    <2>13. f[j] \in Seq(Pairs(N))
      BY <2>10, <2>11, <2>12
    <2> QED
      BY <2>4, <2>13
  <1>4. N - p \in 0 .. N /\ N - (N - p) = p
    BY <1>1
  <1>5. f[p] \in Seq(Pairs(N))
    BY <1>3, <1>4
  <1> QED
    BY <1>1, <1>2, <1>5

----------------------------------------------------------------------------
(* What remains to be matched from offset p on: with or without the empty  *)
(* match at p itself.                                                       *)

AfterFrom(r, s, p) == AfterAll(r, s)[p]
MatchesFrom(r, s, p) ==
  IF Onward(r, s, p) = {} THEN <<>>
  ELSE LET q == LeftmostLongest(Onward(r, s, p)) IN <<q>> \o AfterFrom(r, s, q[2])

LEMMA MatchesAre ==
  ASSUME re \in Regex, Seen(re, line) \in Seq(Byte)
  PROVE  Matches = MatchesFrom(re, Seen(re, line), 0)
  <1>1. Whole = Wholes(re, Seen(re, line))
    BY DEF Whole
  <1>2. Whole = Onward(re, Seen(re, line), 0)
    <2>1. \A q \in Wholes(re, Seen(re, line)) : q[1] >= 0
      BY WholesPairs, PairsAre
    <2> QED
      BY <1>1, <2>1 DEF Onward
  <1>3. \A p : {q \in Whole : q[1] >= p /\ q # <<p, p>>} = Beyond(re, Seen(re, line), p)
    BY <1>1 DEF Beyond
  <1>4. After = CHOOSE f : f = [p \in 0 .. Len(Seen(re, line)) |->
           LET S == {q \in Whole : q[1] >= p /\ q # <<p, p>>}
               q == LeftmostLongest(S)
           IN  IF S = {} THEN <<>> ELSE <<q>> \o f[q[2]]]
    BY DEF After
  <1> DEFINE Is(f) == f = [p \in 0 .. Len(Seen(re, line)) |->
           LET S == {q \in Whole : q[1] >= p /\ q # <<p, p>>}
               q == LeftmostLongest(S)
           IN  IF S = {} THEN <<>> ELSE <<q>> \o f[q[2]]]
  <1>6. ASSUME NEW f PROVE Is(f) <=> IsAfter(f, Len(Seen(re, line)), re, Seen(re, line))
    <2>1. Len(Seen(re, line)) - Len(Seen(re, line)) = 0
      OBVIOUS
    <2> QED
      BY <1>3, <2>1 DEF IsAfter, ListAt, NextOf
  <1>7. After = CHOOSE f : Is(f)
    BY <1>4
  <1>8. \E f : Is(f)
    <2>1. Len(Seen(re, line)) \in 0 .. Len(Seen(re, line))
      OBVIOUS
    <2> HIDE DEF Is
    <2> QED
      BY <1>6, <2>1, AfterExists
  <1>9. Is(After)
    <2> HIDE DEF Is
    <2> QED
      BY <1>7, <1>8
  <1>5. After = AfterAll(re, Seen(re, line))
    <2>1. IsAfter(After, Len(Seen(re, line)), re, Seen(re, line))
      BY <1>6, <1>9
    <2> QED
      BY <2>1, AfterUnique
  <1> QED
    BY <1>2, <1>5 DEF Matches, MatchesFrom, AfterFrom

LEMMA NoneInPairs ==
  ASSUME NEW r \in Regex, NEW s \in Seq(Byte), NEW p, NEW q \in Wholes(r, s)
  PROVE  q \in Spans(r, s, TRUE) /\ (q[1] >= p => q \in Ahead(r, s, p))
  BY DEF Wholes, Ahead

LEMMA NothingAhead ==
  ASSUME NEW r \in Regex, NEW s \in Seq(Byte), NEW p \in 0 .. Len(s),
         Ahead(r, s, p) = {}
  PROVE  MatchesFrom(r, s, p) = <<>> /\ AfterFrom(r, s, p) = <<>>
  <1>1. Onward(r, s, p) = {} /\ Beyond(r, s, p) = {}
    BY DEF Ahead, Onward, Beyond, Wholes
  <1> QED
    BY <1>1, AfterAllAt DEF MatchesFrom, AfterFrom, ListAt

\* Nothing but an empty match lies inside a character.
LEMMA MatchIsWhole ==
  ASSUME NEW r \in Regex, NEW s, IsLine(s), NEW p \in 0 .. Len(s),
         NEW m \in Ahead(r, s, p), \A q \in Ahead(r, s, p) : Precedes(m, q),
         m[2] # p
  PROVE  m \in Wholes(r, s) /\ m[2] \in p + 1 .. Len(s)
  <1>1. s \in Seq(Byte) /\ WellFormed(s)
    BY DEF IsLine
  <1>2. PICK N \in Nat : N = Len(s)
    BY <1>1
  <1>3. PICK a : a = m[1]
    OBVIOUS
  <1>4. PICK b : b = m[2]
    OBVIOUS
  <1>5. m = <<a, b>> /\ a \in 0 .. N /\ b \in 0 .. N /\ a <= b
    BY <1>1, <1>2, <1>3, <1>4, WholesPairs, PairsAre
  <1>6. <<a, b>> \in Spans(r, s, TRUE) /\ a >= p /\ b # p
    BY <1>3, <1>4, <1>5 DEF Ahead
  <1>7. IsRun(s, a, b) /\ Fits(r, N, TRUE, a, b)
    BY <1>1, <1>2, <1>6, SpansAt
  <1>8. b \in p + 1 .. N
    BY <1>2, <1>5, <1>6
  <1>9. ~ Inside(s, a) /\ ~ Inside(s, b)
    <2>1. CASE a < b
      <3>1. a + 1 \in a + 1 .. b /\ b \in a + 1 .. b
        BY <1>2, <1>5, <2>1
      <3>2. s[a + 1] = "x" /\ s[b] = "x"
        BY <1>7, <3>1 DEF IsRun
      <3>3. b \in 0 .. Len(s) /\ b > 0
        BY <1>2, <1>5, <2>1
      <3>4. Inside(s, b) => s[b] = "lead"
        BY <1>1, <3>3 DEF WellFormed, Inside
      <3> QED
        BY <3>2, <3>4 DEF Inside
    <2>2. CASE a = b /\ a = N
      BY <1>2, <2>2 DEF Inside
    <2>3. CASE a = b /\ a # N
      <3>1. r = "x*"
        BY <1>5, <1>6, <1>7, <1>8, <2>3 DEF Fits, Regex
      <3>2. <<p, p>> \in Spans(r, s, TRUE)
        <4>1. IsRun(s, p, p) /\ Fits(r, N, TRUE, p, p)
          BY <1>2, <3>1 DEF IsRun, Fits
        <4>2. <<p, p>> \in Pairs(N)
          BY <1>2, PairsAt
        <4> QED
          BY <1>1, <1>2, <4>1, <4>2, SpansAt
      <3>3. <<p, p>> \in Ahead(r, s, p)
        <4>1. PICK z : z = <<p, p>>
          OBVIOUS
        <4>2. z[1] >= p
          BY <1>2, <4>1
        <4> QED
          BY <3>2, <4>1, <4>2 DEF Ahead
      <3>4. Precedes(m, <<p, p>>)
        BY <3>3
      <3> QED
        BY <1>2, <1>3, <1>4, <1>5, <1>8, <2>3, <3>4 DEF Precedes
    <2> QED
      BY <1>2, <1>5, <2>1, <2>2, <2>3
  <1>10. m \in Spans(r, s, TRUE) /\ ~ Inside(s, m[1]) /\ ~ Inside(s, m[2])
    BY <1>3, <1>4, <1>5, <1>6, <1>9
  <1>11. m \in Wholes(r, s)
    BY <1>10 DEF Wholes
  <1> QED
    BY <1>2, <1>4, <1>8, <1>11

LEMMA MatchAhead ==
  ASSUME NEW r \in Regex, NEW s, IsLine(s), NEW p \in 0 .. Len(s),
         Ahead(r, s, p) # {}, NEW m, m = LeftmostLongest(Ahead(r, s, p)),
         m[2] # p
  PROVE  /\ ~ Inside(s, m[1]) /\ ~ Inside(s, m[2])
         /\ m[1] \in p .. m[2] /\ m[2] \in p + 1 .. Len(s)
         /\ MatchesFrom(r, s, p) = <<m>> \o AfterFrom(r, s, m[2])
         /\ AfterFrom(r, s, p) = <<m>> \o AfterFrom(r, s, m[2])
  <1>1. s \in Seq(Byte) /\ Len(s) \in Nat
    BY DEF IsLine
  <1>2. Ahead(r, s, p) \subseteq Pairs(Len(s)) /\ Onward(r, s, p) \subseteq Pairs(Len(s))
        /\ Beyond(r, s, p) \subseteq Pairs(Len(s))
    BY <1>1, WholesPairs
  <1>3. m \in Ahead(r, s, p) /\ \A q \in Ahead(r, s, p) : Precedes(m, q)
    BY <1>1, <1>2, LeftmostLongestIn
  <1>4. m \in Wholes(r, s) /\ m[2] \in p + 1 .. Len(s)
    BY <1>3, MatchIsWhole
  <1>5. m[1] >= p /\ m[1] \in 0 .. Len(s) /\ m[1] <= m[2] /\ m # <<p, p>>
    <2>1. m[1] >= p
      BY <1>3 DEF Ahead
    <2>2. m[1] \in 0 .. Len(s) /\ m[1] <= m[2]
      BY <1>2, <1>3, PairsAre
    <2> QED
      BY <2>1, <2>2
  <1>6. m \in Onward(r, s, p) /\ m \in Beyond(r, s, p)
    BY <1>4, <1>5 DEF Onward, Beyond
  <1>7. Onward(r, s, p) \subseteq Ahead(r, s, p) /\ Beyond(r, s, p) \subseteq Ahead(r, s, p)
    BY DEF Onward, Beyond, Wholes, Ahead
  <1>8. LeftmostLongest(Onward(r, s, p)) = m /\ LeftmostLongest(Beyond(r, s, p)) = m
    <2>1. \A q \in Onward(r, s, p) : Precedes(m, q)
      BY <1>3, <1>7
    <2>2. \A q \in Beyond(r, s, p) : Precedes(m, q)
      BY <1>3, <1>7
    <2> QED
      BY <1>1, <1>2, <1>6, <2>1, <2>2, LeftmostLongestIs
  <1>9. MatchesFrom(r, s, p) = <<m>> \o AfterFrom(r, s, m[2])
    BY <1>6, <1>8 DEF MatchesFrom
  <1>10. AfterFrom(r, s, p) = <<m>> \o AfterFrom(r, s, m[2])
    BY ZenonT(60), <1>1, <1>6, <1>8, AfterAllAt DEF AfterFrom, ListAt, NextOf
  <1>11. ~ Inside(s, m[1]) /\ ~ Inside(s, m[2])
    BY <1>4 DEF Wholes
  <1> QED
    BY <1>1, <1>4, <1>5, <1>9, <1>10, <1>11

\* The offset of the character after the one at p.
Step1(s, p) == IF s[p + 1] = "lead" THEN p + 2 ELSE p + 1

LEMMA StepOne ==
  ASSUME NEW s, IsLine(s), NEW p \in 0 .. Len(s), p # Len(s), ~ Inside(s, p)
  PROVE  Step1(s, p) \in p + 1 .. Len(s) /\ ~ Inside(s, Step1(s, p))
  <1>1. s \in Seq(Byte) /\ WellFormed(s) /\ Len(s) \in Nat
    BY DEF IsLine
  <1>2. p + 1 \in 0 .. Len(s) /\ p + 1 > 0
    BY <1>1
  <1>3. s[p + 1] = "lead" <=> p + 1 < Len(s) /\ s[(p + 1) + 1] = "cont"
    BY <1>1, <1>2 DEF WellFormed
  <1>4. CASE s[p + 1] # "lead"
    BY <1>2, <1>3, <1>4 DEF Step1, Inside
  <1>5. CASE s[p + 1] = "lead"
    <2>1. p + 2 \in 0 .. Len(s) /\ p + 2 > 0 /\ (p + 1) + 1 = p + 2
      BY <1>1, <1>2, <1>3, <1>5
    <2>2. s[p + 2] = "cont"
      BY <1>3, <1>5, <2>1
    <2>3. ~ (p + 2 < Len(s) /\ s[(p + 2) + 1] = "cont")
      BY <1>1, <2>1, <2>2 DEF WellFormed
    <2> QED
      BY <1>1, <1>5, <2>1, <2>3 DEF Step1, Inside
  <1> QED
    BY <1>4, <1>5

LEMMA EmptyAhead ==
  ASSUME NEW r \in Regex, NEW s, IsLine(s), NEW p \in 0 .. Len(s),
         Ahead(r, s, p) # {}, NEW m, m = LeftmostLongest(Ahead(r, s, p)),
         m[2] = p
  PROVE  /\ m = <<p, p>>
         /\ ~ Inside(s, p) => MatchesFrom(r, s, p) = <<m>> \o AfterFrom(r, s, p)
         /\ Inside(s, p) => MatchesFrom(r, s, p) = AfterFrom(r, s, p)
         /\ p = Len(s) => AfterFrom(r, s, p) = <<>>
         /\ p # Len(s) => AfterFrom(r, s, p) = MatchesFrom(r, s, p + 1)
         /\ p # Len(s) /\ ~ Inside(s, p) =>
              AfterFrom(r, s, p) = MatchesFrom(r, s, Step1(s, p))
  <1>1. s \in Seq(Byte) /\ Len(s) \in Nat /\ WellFormed(s)
    BY DEF IsLine
  <1>2. /\ Ahead(r, s, p) \subseteq Pairs(Len(s))
        /\ Onward(r, s, p) \subseteq Pairs(Len(s))
        /\ Beyond(r, s, p) \subseteq Pairs(Len(s))
        /\ Wholes(r, s) \subseteq Pairs(Len(s))
    BY <1>1, WholesPairs
  <1>3. m \in Ahead(r, s, p) /\ \A q \in Ahead(r, s, p) : Precedes(m, q)
    BY <1>1, <1>2, LeftmostLongestIn
  <1>4. m = <<p, p>>
    <2>1. m = <<m[1], m[2]>> /\ m[1] \in 0 .. Len(s) /\ m[1] <= m[2]
      BY <1>2, <1>3, PairsAre
    <2>2. m[1] >= p
      BY <1>3 DEF Ahead
    <2>3. m[1] = p
      BY <2>1, <2>2
    <2> QED
      BY <2>1, <2>3
  <1>5. \A q \in Onward(r, s, p) : q \in Ahead(r, s, p) /\ Precedes(m, q)
    BY <1>3 DEF Onward, Wholes, Ahead
  <1>6. ASSUME NEW q \in Wholes(r, s), q[1] >= p, q # <<p, p>>
        PROVE  q[1] >= p + 1
    <2>1. q \in Ahead(r, s, p)
      BY <1>6, NoneInPairs, <1>1
    <2>2. Precedes(m, q)
      BY <1>3, <2>1
    <2>3. q = <<q[1], q[2]>> /\ q[1] \in 0 .. Len(s) /\ q[2] \in 0 .. Len(s) /\ q[1] <= q[2]
      BY <1>2, PairsAre
    <2>4. m[1] = p /\ m[2] = p
      BY <1>4
    <2>5. q[1] = p => q[2] = p
      BY <2>2, <2>3, <2>4 DEF Precedes
    <2> QED
      BY <1>6, <2>3, <2>5
  <1>7. Beyond(r, s, p) = Onward(r, s, p + 1)
    <2>1. ASSUME NEW q \in Beyond(r, s, p) PROVE q \in Onward(r, s, p + 1)
      BY <1>6, <2>1 DEF Beyond, Onward
    <2>2. ASSUME NEW q \in Onward(r, s, p + 1) PROVE q \in Beyond(r, s, p)
      <3>1. q \in Wholes(r, s) /\ q[1] >= p + 1 /\ q[1] \in 0 .. Len(s)
        BY <1>2, <2>2, PairsAre DEF Onward
      <3>2. q[1] >= p /\ q # <<p, p>>
        BY <3>1
      <3> QED
        BY <3>1, <3>2 DEF Beyond
    <2> QED
      BY <2>1, <2>2
  <1>8. ASSUME ~ Inside(s, p)
        PROVE  MatchesFrom(r, s, p) = <<m>> \o AfterFrom(r, s, p)
    <2>3. m \in Spans(r, s, TRUE) /\ m[1] >= p /\ ~ Inside(s, m[1]) /\ ~ Inside(s, m[2])
      <3>1. m \in Spans(r, s, TRUE) /\ m[1] >= p
        BY <1>3 DEF Ahead
      <3>2. m[1] = p /\ m[2] = p
        BY <1>4
      <3> QED
        BY <1>8, <3>1, <3>2
    <2>1. m \in Onward(r, s, p)
      BY <2>3 DEF Onward, Wholes
    <2>2. LeftmostLongest(Onward(r, s, p)) = m
      BY <1>1, <1>2, <1>5, <2>1, LeftmostLongestIs
    <2> QED
      BY <2>1, <2>2 DEF MatchesFrom
  <1>9. AfterFrom(r, s, p) = IF Beyond(r, s, p) = {} THEN <<>>
          ELSE <<LeftmostLongest(Beyond(r, s, p))>>
                 \o AfterFrom(r, s, LeftmostLongest(Beyond(r, s, p))[2])
    BY <1>1, AfterAllAt DEF AfterFrom, ListAt, NextOf
  <1>10. ASSUME Inside(s, p)
         PROVE  MatchesFrom(r, s, p) = AfterFrom(r, s, p)
    <2>1. \A q \in Wholes(r, s) : q # <<p, p>>
      BY <1>10 DEF Wholes
    <2>2. Onward(r, s, p) = Beyond(r, s, p)
      BY <2>1 DEF Onward, Beyond
    <2> QED
      BY <1>9, <2>2 DEF MatchesFrom
  <1>11. ASSUME p = Len(s) PROVE AfterFrom(r, s, p) = <<>>
    <2>1. ASSUME NEW q \in Beyond(r, s, p) PROVE FALSE
      <3>1. q \in Onward(r, s, p + 1)
        BY <1>7, <2>1
      <3>2. q[1] >= p + 1 /\ q[1] \in 0 .. Len(s)
        BY <1>2, <2>1, <3>1, PairsAre DEF Onward
      <3> QED
        BY <1>1, <1>11, <3>2
    <2> QED
      BY <1>9, <2>1
  <1>12. AfterFrom(r, s, p) = MatchesFrom(r, s, p + 1)
    BY <1>7, <1>9 DEF MatchesFrom
  <1>13. ASSUME p # Len(s), ~ Inside(s, p)
         PROVE  AfterFrom(r, s, p) = MatchesFrom(r, s, Step1(s, p))
    <2>1. CASE s[p + 1] # "lead"
      BY <1>12, <2>1 DEF Step1
    <2>2. CASE s[p + 1] = "lead"
      <3>1. p + 1 \in 0 .. Len(s) /\ p + 1 > 0
        BY <1>1, <1>13
      <3>2. Inside(s, p + 1)
        BY <1>1, <2>2, <3>1 DEF WellFormed, Inside
      <3>3. ASSUME NEW q \in Wholes(r, s)
            PROVE  q[1] >= p + 1 <=> q[1] >= p + 2
        <4>1. ~ Inside(s, q[1])
          BY DEF Wholes
        <4>2. q[1] \in 0 .. Len(s)
          BY <1>2, PairsAre
        <4>3. q[1] # p + 1
          BY <3>2, <4>1
        <4> QED
          BY <4>2, <4>3
      <3>4. Onward(r, s, p + 1) = Onward(r, s, p + 2)
        BY <3>3 DEF Onward
      <3> QED
        BY <1>12, <2>2, <3>4 DEF Step1, MatchesFrom
    <2> QED
      BY <2>1, <2>2
  <1> QED
    BY <1>4, <1>8, <1>10, <1>11, <1>12, <1>13

\* A pattern anchored at the beginning of the line matches once.
LEMMA AnchoredOnce ==
  ASSUME NEW s, IsLine(s), NEW p \in 0 .. Len(s), Ahead("^x*", s, p) # {},
         NEW m, m = LeftmostLongest(Ahead("^x*", s, p))
  PROVE  /\ m[2] \in 0 .. Len(s)
         /\ AfterFrom("^x*", s, m[2]) = <<>>
         /\ \A j \in 1 .. Len(s) : MatchesFrom("^x*", s, j) = <<>>
  <1> DEFINE r == "^x*"
  <1> HIDE DEF r
  <1>1. s \in Seq(Byte) /\ Len(s) \in Nat /\ r \in Regex
    BY DEF IsLine, Regex, r
  <1>2. \A j : Beyond(r, s, j) \subseteq Pairs(Len(s)) /\ Onward(r, s, j) \subseteq Pairs(Len(s))
               /\ Ahead(r, s, j) \subseteq Pairs(Len(s))
    BY <1>1, WholesPairs
  <1>3. m \in Ahead(r, s, p) /\ \A q \in Ahead(r, s, p) : Precedes(m, q)
    BY <1>1, <1>2, LeftmostLongestIn DEF r
  <1>4. ASSUME NEW q \in Spans(r, s, TRUE) PROVE q[1] = 0
    <2>1. q = <<q[1], q[2]>>
      BY <1>1, SpansPairs, PairsAre
    <2>2. PICK a : a = q[1]
      OBVIOUS
    <2>3. PICK b : b = q[2]
      OBVIOUS
    <2>4. <<a, b>> \in Spans(r, s, TRUE)
      BY <2>1, <2>2, <2>3
    <2>5. Fits(r, Len(s), TRUE, a, b)
      BY <1>1, <2>4, SpansAt
    <2> QED
      BY <2>2, <2>5 DEF Fits, r
  <1>5. m[2] \in 0 .. Len(s) /\ m[1] = 0 /\ p = 0
    <2>1. m[2] \in 0 .. Len(s)
      BY <1>2, <1>3, PairsAre
    <2>2. m[1] = 0 /\ m[1] >= p
      BY <1>3, <1>4 DEF Ahead
    <2> QED
      BY <2>1, <2>2
  <1>6. ASSUME NEW q \in Beyond(r, s, m[2]) PROVE FALSE
    <2>1. q \in Spans(r, s, TRUE) /\ q[1] >= m[2] /\ q # <<m[2], m[2]>>
      BY DEF Beyond, Wholes
    <2>7. q[1] = 0
      BY <1>4, <2>1
    <2>2. q[1] = 0 /\ m[2] = 0
      BY <1>5, <2>1, <2>7
    <2>3. q \in Ahead(r, s, p)
      BY <1>5, <2>1, <2>2 DEF Ahead
    <2>4. Precedes(m, q)
      BY <1>3, <2>3
    <2>5. q = <<q[1], q[2]>> /\ q[2] \in 0 .. Len(s)
      BY <1>2, <2>3, PairsAre
    <2>6. q[2] = 0
      BY <1>5, <2>2, <2>4, <2>5 DEF Precedes
    <2> QED
      BY <2>1, <2>2, <2>5, <2>6
  <1>7. AfterFrom(r, s, m[2]) = <<>>
    BY ZenonT(60), <1>1, <1>5, <1>6, AfterAllAt DEF AfterFrom, ListAt
  <1>8. ASSUME NEW j \in 1 .. Len(s) PROVE MatchesFrom(r, s, j) = <<>>
    <2>1. ASSUME NEW q \in Spans(r, s, TRUE) PROVE ~ (q[1] >= j)
      <3>1. q[1] = 0
        BY <1>4
      <3> QED
        BY <1>8, <3>1
    <2>2. Onward(r, s, j) = {}
      BY <2>1 DEF Onward, Wholes
    <2> QED
      BY <2>2 DEF MatchesFrom
  <1> QED
    BY <1>5, <1>7, <1>8 DEF r

LEMMA ListTypes ==
  ASSUME NEW r \in Regex, NEW s, IsLine(s), NEW p \in 0 .. Len(s)
  PROVE  /\ AfterFrom(r, s, p) \in Seq(Pairs(Len(s)))
         /\ MatchesFrom(r, s, p) \in Seq(Pairs(Len(s)))
  <1>1. s \in Seq(Byte) /\ Len(s) \in Nat
    BY DEF IsLine
  <1>2. \A j \in 0 .. Len(s) : AfterFrom(r, s, j) \in Seq(Pairs(Len(s)))
    BY <1>1, AfterAllType DEF AfterFrom
  <1>3. CASE Onward(r, s, p) = {}
    BY <1>2, <1>3 DEF MatchesFrom
  <1>4. CASE Onward(r, s, p) # {}
    <2>1. Onward(r, s, p) \subseteq Pairs(Len(s))
      BY <1>1, WholesPairs
    <2>2. PICK q : q = LeftmostLongest(Onward(r, s, p))
      OBVIOUS
    <2>3. q \in Pairs(Len(s))
      BY <1>1, <1>4, <2>1, <2>2, LeftmostLongestIn
    <2>4. q[2] \in 0 .. Len(s)
      BY <2>3, PairsAre
    <2>5. MatchesFrom(r, s, p) = <<q>> \o AfterFrom(r, s, q[2])
      BY <1>4, <2>2 DEF MatchesFrom
    <2>6. AfterFrom(r, s, q[2]) \in Seq(Pairs(Len(s))) /\ <<q>> \in Seq(Pairs(Len(s)))
      BY <1>2, <2>3, <2>4
    <2>7. MatchesFrom(r, s, p) \in Seq(Pairs(Len(s)))
      BY <2>5, <2>6
    <2> QED
      BY <1>2, <2>7
  <1> QED
    BY <1>3, <1>4

----------------------------------------------------------------------------
(* The part of a line that the loops see.  A match in what is left of the  *)
(* line is found in what is left of that part.                             *)

LEMMA SeenIs ==
  ASSUME NEW r, NEW s, IsLine(s), NEW part, part = Seen(r, s)
  PROVE  \/ part = s /\ Stops(r, s) = {}
         \/ \E k \in Stops(r, s) : /\ part = SubSeq(s, 1, k) /\ k \in 0 .. Len(s) - 1
                                   /\ \A j \in Stops(r, s) : k =< j
  <1>1. CASE Stops(r, s) = {}
    BY <1>1 DEF Seen
  <1>2. CASE Stops(r, s) # {}
    <2>1. Len(s) \in Nat
      BY DEF IsLine
    <2>2. Stops(r, s) \subseteq 0 .. Len(s) - 1
      BY DEF Stops
    <2>3. Stops(r, s) \subseteq Nat
      BY <2>1, <2>2
    <2>4. PICK k : k = Min(Stops(r, s))
      OBVIOUS
    <2>5. k \in Stops(r, s) /\ \A j \in Stops(r, s) : k =< j
      <3>1. \E x \in Stops(r, s) : \A y \in Stops(r, s) : x =< y
        BY <1>2, <2>3, SmallestNat
      <3> QED
        BY <2>4, <3>1 DEF Min
    <2>6. part = SubSeq(s, 1, k)
      BY <1>2, <2>4 DEF Seen
    <2> QED
      BY <2>2, <2>5, <2>6
  <1> QED
    BY <1>1, <1>2

\* It is the line, or what is before a NUL byte where r matches the empty
\* string.
EmptyAt(r, s, k) == <<k, k>> \in Spans(r, s, TRUE)
Least(r, s, k) == \A p \in Stops(r, s) : k =< p
PartOf(r, s, part) ==
  /\ part \in Seq(Byte) /\ Len(part) \in Nat /\ Len(part) <= Len(s)
  /\ \A i \in 1 .. Len(part) : part[i] = s[i]
  /\ \/ part = s
     \/ /\ Len(part) < Len(s) /\ s[Len(part) + 1] = "nul"
        /\ EmptyAt(r, s, Len(part))
  /\ Least(r, s, Len(part))

LEMMA SeenPart ==
  ASSUME NEW r, NEW s, IsLine(s), NEW part, part = Seen(r, s)
  PROVE  PartOf(r, s, part)
  <1>1. s \in Seq(Byte) /\ Len(s) \in Nat
    BY DEF IsLine
  <1>2. CASE part = s /\ Stops(r, s) = {}
    <2>1. part \in Seq(Byte) /\ Len(part) \in Nat /\ Len(part) <= Len(s)
          /\ \A i \in 1 .. Len(part) : part[i] = s[i]
      BY <1>1, <1>2
    <2>2. Least(r, s, Len(part))
      BY <1>2 DEF Least
    <2> QED
      BY <1>2, <2>1, <2>2 DEF PartOf
  <1>3. CASE \E k \in Stops(r, s) : /\ part = SubSeq(s, 1, k) /\ k \in 0 .. Len(s) - 1
                                    /\ \A j \in Stops(r, s) : k =< j
    <2>1. PICK k \in Stops(r, s) : /\ part = SubSeq(s, 1, k) /\ k \in 0 .. Len(s) - 1
                                   /\ \A j \in Stops(r, s) : k =< j
      BY <1>3
    <2>2. /\ part \in Seq(Byte) /\ Len(part) = k
          /\ \A i \in 1 .. k : part[i] = s[i]
      BY <1>1, <2>1
    <2>3. s[k + 1] = "nul" /\ EmptyAt(r, s, k)
      BY <2>1 DEF Stops, EmptyAt
    <2>4. Least(r, s, k)
      BY <2>1 DEF Least
    <2>5. k \in Nat /\ k < Len(s)
      BY <1>1, <2>1
    <2>6. /\ Len(part) \in Nat /\ Len(part) < Len(s) /\ Len(part) <= Len(s)
          /\ s[Len(part) + 1] = "nul" /\ EmptyAt(r, s, Len(part))
          /\ Least(r, s, Len(part)) /\ \A i \in 1 .. Len(part) : part[i] = s[i]
      BY <1>1, <2>2, <2>3, <2>4, <2>5
    <2> QED
      BY <2>2, <2>6 DEF PartOf
  <1> QED
    BY <1>2, <1>3, SeenIs

LEMMA SeenIsLine ==
  ASSUME NEW r \in Regex, NEW s, IsLine(s), NEW part, part = Seen(r, s)
  PROVE  /\ IsLine(part)
         /\ \A p \in 0 .. Len(part) : Inside(part, p) <=> Inside(s, p)
  <1>1. s \in Seq(Byte) /\ Len(s) \in Nat /\ WellFormed(s)
    BY DEF IsLine
  <1>7. PartOf(r, s, part)
    BY SeenPart
  <1>2. PICK N \in Nat : N = Len(part)
    BY <1>7 DEF PartOf
  <1>3. /\ part \in Seq(Byte) /\ N <= Len(s)
        /\ \A i \in 1 .. N : part[i] = s[i]
        /\ part = s \/ (N < Len(s) /\ s[N + 1] = "nul")
    BY <1>2, <1>7 DEF PartOf
  <1>4. ASSUME NEW p \in 0 .. N
        PROVE  Inside(part, p) <=> Inside(s, p)
    <2>1. CASE p = N
      BY <1>2, <1>3, <2>1 DEF Inside
    <2>2. CASE p # N
      <3>1. p + 1 \in 1 .. N /\ p < N /\ p < Len(s)
        BY <1>1, <1>3, <2>2
      <3>2. part[p + 1] = s[p + 1]
        BY <1>3, <3>1
      <3> QED
        BY <1>2, <3>1, <3>2 DEF Inside
    <2> QED
      BY <2>1, <2>2
  <1>5. ASSUME NEW p \in 0 .. N
        PROVE  (p > 0 /\ part[p] = "lead") <=> Inside(part, p)
    <2>1. p \in 0 .. Len(s) /\ (p > 0 => p \in 1 .. N)
      BY <1>1, <1>3
    <2>2. p > 0 => part[p] = s[p]
      BY <1>3, <2>1
    <2>3. (p > 0 /\ s[p] = "lead") <=> Inside(s, p)
      BY <1>1, <2>1 DEF WellFormed, Inside
    <2> QED
      BY <1>4, <2>2, <2>3
  <1>6. WellFormed(part)
    BY <1>2, <1>5 DEF WellFormed, Inside
  <1> QED
    BY <1>2, <1>3, <1>4, <1>6 DEF IsLine

LEMMA SeenInside ==
  ASSUME NEW r \in Regex, NEW s, IsLine(s), NEW part, part = Seen(r, s)
  PROVE  /\ IsLine(part) /\ Len(part) \in Nat /\ Len(s) \in Nat
         /\ \A i \in 0 .. Len(part) : i \in 0 .. Len(s) /\ (Inside(part, i) <=> Inside(s, i))
  <1>1. PartOf(r, s, part)
    BY SeenPart
  <1>2. Len(part) \in Nat /\ Len(s) \in Nat /\ Len(part) <= Len(s)
    BY <1>1 DEF PartOf, IsLine
  <1> QED
    BY <1>2, SeenIsLine

\* At offset p before its end: no match of r that begins there or at the next
\* NUL byte goes on behind its end.
LEMMA SeenFinds ==
  ASSUME NEW r \in Regex, NEW s, IsLine(s), NEW part, part = Seen(r, s),
         NEW p \in 0 .. Len(part), NEW b \in BOOLEAN, r = "^x*" => b /\ p = 0,
         NEW F, F = Spans(r, RestOf(s, p), b), NEW G, G = Spans(r, RestOf(part, p), b)
  PROVE  /\ F = {} <=> G = {}
         /\ F # {} => LeftmostLongest(F) = LeftmostLongest(G)
  <1>0. PartOf(r, s, part)
    BY SeenPart
  <1>1. s \in Seq(Byte) /\ Len(s) \in Nat /\ part \in Seq(Byte) /\ Len(part) \in Nat
        /\ Len(part) <= Len(s) /\ \A i \in 1 .. Len(part) : part[i] = s[i]
    BY <1>0 DEF PartOf, IsLine
  <1>2. CASE part = s
    BY <1>2
  <1>3. CASE part # s
    <2>1. PICK N \in Nat : N = Len(part)
      BY <1>1
    <2>2. PICK L \in Nat : L = Len(s)
      BY <1>1
    <2>3. N < L /\ s[N + 1] = "nul" /\ EmptyAt(r, s, N)
      BY <1>0, <1>3, <2>1, <2>2 DEF PartOf
    <2>4. r = "x*" \/ (r = "^x*" /\ N = 0)
      <3>1. Fits(r, L, TRUE, N, N)
        BY <1>1, <2>2, <2>3, SpansAt DEF EmptyAt
      <3> QED
        BY <2>1, <2>2, <2>3, <3>1 DEF Fits, Regex
    <2>5. /\ RestOf(s, p) \in Seq(Byte) /\ Len(RestOf(s, p)) = L - p
          /\ \A i \in 1 .. L - p : RestOf(s, p)[i] = s[p + i]
      <3>1. p \in 0 .. Len(s)
        BY <1>1
      <3> QED
        BY <1>1, <2>2, <3>1, RestOfLine
    <2>6. /\ RestOf(part, p) \in Seq(Byte) /\ Len(RestOf(part, p)) = N - p
          /\ \A i \in 1 .. N - p : RestOf(part, p)[i] = part[p + i]
      BY <1>1, <2>1, RestOfLine
    <2>7. \A i \in 1 .. N - p : RestOf(part, p)[i] = RestOf(s, p)[i]
      <3> SUFFICES ASSUME NEW i \in 1 .. N - p PROVE RestOf(part, p)[i] = RestOf(s, p)[i]
        OBVIOUS
      <3>1. i \in 1 .. L - p /\ p + i \in 1 .. N
        BY <2>1, <2>2, <2>3
      <3>2. part[p + i] = s[p + i]
        BY <1>1, <2>1, <3>1
      <3> QED
        BY <2>5, <2>6, <3>1, <3>2
    <2>8. \A x, y : <<x, y>> \in F <=>
            /\ x \in 0 .. L - p /\ y \in 0 .. L - p /\ x <= y
            /\ IsRun(RestOf(s, p), x, y) /\ (r = "^x*" => x = 0)
      <3> SUFFICES ASSUME NEW x, NEW y
                   PROVE  <<x, y>> \in F <=>
            /\ x \in 0 .. L - p /\ y \in 0 .. L - p /\ x <= y
            /\ IsRun(RestOf(s, p), x, y) /\ (r = "^x*" => x = 0)
        OBVIOUS
      <3>1. <<x, y>> \in F <=> /\ <<x, y>> \in Pairs(L - p) /\ IsRun(RestOf(s, p), x, y)
                               /\ Fits(r, L - p, b, x, y)
        BY <2>5, SpansAt
      <3>2. Fits(r, L - p, b, x, y) <=> (r = "^x*" => x = 0)
        BY <2>4 DEF Fits
      <3> QED
        BY <3>1, <3>2, PairsAt
    <2>9. \A x, y : <<x, y>> \in G <=>
            /\ x \in 0 .. N - p /\ y \in 0 .. N - p /\ x <= y
            /\ IsRun(RestOf(part, p), x, y) /\ (r = "^x*" => x = 0)
      <3> SUFFICES ASSUME NEW x, NEW y
                   PROVE  <<x, y>> \in G <=>
            /\ x \in 0 .. N - p /\ y \in 0 .. N - p /\ x <= y
            /\ IsRun(RestOf(part, p), x, y) /\ (r = "^x*" => x = 0)
        OBVIOUS
      <3>1. <<x, y>> \in G <=> /\ <<x, y>> \in Pairs(N - p) /\ IsRun(RestOf(part, p), x, y)
                               /\ Fits(r, N - p, b, x, y)
        BY <2>6, SpansAt
      <3>2. Fits(r, N - p, b, x, y) <=> (r = "^x*" => x = 0)
        BY <2>4 DEF Fits
      <3> QED
        BY <3>1, <3>2, PairsAt
    <2>10. \A x \in 0 .. N - p, y \in 0 .. N - p :
             IsRun(RestOf(part, p), x, y) <=> IsRun(RestOf(s, p), x, y)
      <3> SUFFICES ASSUME NEW x \in 0 .. N - p, NEW y \in 0 .. N - p
                   PROVE  IsRun(RestOf(part, p), x, y) <=> IsRun(RestOf(s, p), x, y)
        OBVIOUS
      <3>1. \A i \in x + 1 .. y : i \in 1 .. N - p
        BY <2>1
      <3> QED
        BY <2>7, <3>1 DEF IsRun
    <2>11. F \subseteq Pairs(L - p) /\ G \subseteq Pairs(N - p) /\ L - p \in Nat /\ N - p \in Nat
      <3>1. L - p \in Nat /\ N - p \in Nat
        BY <2>1, <2>2, <2>3
      <3> QED
        BY <2>5, <2>6, <3>1, SpansPairs
    <2>12. ASSUME NEW q \in G PROVE q \in F
      <3>1. PICK x : x = q[1]
        OBVIOUS
      <3>2. PICK y : y = q[2]
        OBVIOUS
      <3>3. q = <<x, y>>
        BY <2>11, <3>1, <3>2, PairsAre
      <3>4. /\ x \in 0 .. N - p /\ y \in 0 .. N - p /\ x <= y
            /\ IsRun(RestOf(part, p), x, y) /\ (r = "^x*" => x = 0)
        BY <2>9, <3>3
      <3>5. x \in 0 .. L - p /\ y \in 0 .. L - p /\ IsRun(RestOf(s, p), x, y)
        BY <2>1, <2>2, <2>3, <2>10, <3>4
      <3> QED
        BY <2>8, <3>3, <3>4, <3>5
    <2>13. ASSUME F # {}
           PROVE  /\ LeftmostLongest(F) \in G
                  /\ \A q \in F : Precedes(LeftmostLongest(F), q)
      <3>1. PICK m : m = LeftmostLongest(F)
        OBVIOUS
      <3>2. m \in F /\ \A q \in F : Precedes(m, q)
        BY <2>11, <2>13, <3>1, LeftmostLongestIn
      <3>3. PICK x : x = m[1]
        OBVIOUS
      <3>4. PICK y : y = m[2]
        OBVIOUS
      <3>5. m = <<x, y>>
        BY <2>11, <3>2, <3>3, <3>4, PairsAre
      <3>6. /\ x \in 0 .. L - p /\ y \in 0 .. L - p /\ x <= y
            /\ IsRun(RestOf(s, p), x, y) /\ (r = "^x*" => x = 0)
        BY <2>8, <3>2, <3>5
      <3>7. x = 0
        <4>1. IsRun(RestOf(s, p), 0, 0) /\ 0 \in 0 .. L - p
          BY <2>11 DEF IsRun
        <4>2. PICK z : z = <<0, 0>>
          OBVIOUS
        <4>3. z \in F
          BY <2>8, <4>1, <4>2
        <4>4. Precedes(m, z) /\ z[1] = 0
          BY <3>2, <4>2, <4>3
        <4> QED
          BY <2>11, <3>3, <3>6, <4>4 DEF Precedes
      <3>8. y \in 0 .. N - p
        <4> SUFFICES ASSUME y > N - p PROVE FALSE
          BY <2>11, <3>6
        <4>1. PICK k \in Nat : k = (N - p) + 1
          BY <2>11
        <4>2. k \in x + 1 .. y /\ k \in 1 .. L - p /\ p + k = N + 1
          BY <2>1, <2>2, <2>11, <3>6, <3>7, <4>1
        <4>3. RestOf(s, p)[k] = "x"
          BY <3>6, <4>2 DEF IsRun
        <4>4. RestOf(s, p)[k] = s[N + 1]
          BY <2>5, <4>2
        <4> QED
          BY <2>3, <4>3, <4>4
      <3>9. x \in 0 .. N - p
        BY <2>11, <3>7
      <3>10. <<x, y>> \in G
        BY <2>9, <2>10, <3>6, <3>8, <3>9
      <3> QED
        BY <3>1, <3>2, <3>5, <3>10
    <2>14. F # {} => LeftmostLongest(F) = LeftmostLongest(G)
      <3> SUFFICES ASSUME F # {} PROVE LeftmostLongest(F) = LeftmostLongest(G)
        OBVIOUS
      <3>1. PICK m : m = LeftmostLongest(F)
        OBVIOUS
      <3>2. m \in G /\ \A q \in G : Precedes(m, q)
        BY <2>12, <2>13, <3>1
      <3>3. LeftmostLongest(G) = m
        BY <2>11, <3>2, LeftmostLongestIs
      <3> QED
        BY <3>1, <3>3
    <2> QED
      BY <2>12, <2>13, <2>14
  <1> QED
    BY <1>2, <1>3

\* At an empty match the end of the part seen is where txt is at a NUL byte.
EndSeen(s, part, p) == p = Len(part) <=> p = Len(s) \/ s[p + 1] = "nul"

LEMMA SeenEnds ==
  ASSUME NEW r \in Regex, NEW s, IsLine(s), NEW part, part = Seen(r, s),
         NEW p \in 0 .. Len(part), NEW b \in BOOLEAN, r = "^x*" => b /\ p = 0,
         NEW F, F = Spans(r, RestOf(s, p), b), F # {}, LeftmostLongest(F)[2] = 0
  PROVE  EndSeen(s, part, p)
  <1>1. /\ s \in Seq(Byte) /\ Len(s) \in Nat /\ Len(part) \in Nat /\ Len(part) <= Len(s)
        /\ part = s \/ s[Len(part) + 1] = "nul"
        /\ Least(r, s, Len(part))
    <2>1. PartOf(r, s, part)
      BY SeenPart
    <2> QED
      BY <2>1 DEF PartOf, IsLine
  <1>2. ASSUME p # Len(s), s[p + 1] = "nul"
        PROVE  p = Len(part)
    <2>1. p \in 0 .. Len(s) /\ p \in 0 .. Len(s) - 1
      BY <1>1, <1>2
    <2>2. Len(s) - p \in Nat /\ Len(RestOf(s, p)) = Len(s) - p /\ RestOf(s, p) \in Seq(Byte)
      BY <1>1, <2>1, RestOfLine
    <2>3. F \subseteq Pairs(Len(s) - p)
      BY <2>2, SpansPairs
    <2>4. PICK m : m = LeftmostLongest(F)
      OBVIOUS
    <2>5. m \in F
      BY <2>2, <2>3, <2>4, LeftmostLongestIn
    <2>6. m = <<m[1], m[2]>> /\ m[1] \in 0 .. Len(s) - p /\ m[1] <= m[2] /\ m[2] = 0
      BY <2>2, <2>3, <2>4, <2>5, PairsAre
    <2>7. m[1] = 0
      BY <2>2, <2>6
    <2>8. <<0, 0>> \in F
      BY <2>5, <2>6, <2>7
    <2>9. <<p + 0, p + 0>> \in Ahead(r, s, p)
      BY <1>1, <2>1, <2>8, SpansOfRest
    <2>10. p + 0 = p
      BY <2>1
    <2>11. p \in Stops(r, s)
      BY <1>2, <2>1, <2>9, <2>10 DEF Stops, Ahead
    <2>12. Len(part) =< p
      BY <1>1, <2>11 DEF Least
    <2> QED
      BY <1>1, <2>12
  <1>3. ASSUME p = Len(s) PROVE p = Len(part)
    BY <1>1, <1>3
  <1>4. ASSUME p = Len(part) PROVE p = Len(s) \/ s[p + 1] = "nul"
    BY <1>1, <1>4
  <1> QED
    BY <1>2, <1>3, <1>4 DEF EndSeen

----------------------------------------------------------------------------
(* The inductive invariant. *)

Flags == {"SNLR", "GSUB", "SMLR"}
Params == [nth : Int, mod : Int, f : SUBSET Flags]
LoopState == [txt : Nat, k : Nat, changed : Nat, matched_prev : BOOLEAN,
              nil_next : BOOLEAN, notbol : BOOLEAN]
PieceSet == Nat \X Nat \X BOOLEAN

TypeInv ==
  /\ subst \in Params /\ sel \in Modifiers
  /\ re \in Regexes \cup {"none"}
  /\ line \in Lines \cup {<<>>}
  /\ n \in Nat /\ cur \in [nth : Int, mod : Int]
  /\ l \in LoopState /\ out \in Seq(PieceSet)
  /\ pc \in {"prompt", "lines", "count", "select", "match", "finish", "done", "fpe"}
  /\ pc # "prompt" => re \in Regexes

\* The parameters p are those of the full command m.
StandsFor(p, m) ==
  /\ p.nth = address_offset(m.nth) /\ p.mod = address_offset(m.mod)
  /\ "SNLR" \in p.f <=> Relative(m.last, m.nth)
  /\ "GSUB" \in p.f <=> m.g
  /\ "SMLR" \in p.f <=> Relative(m.mlast, m.mod)

\* The matches that the loop in state x has not come to yet.
Remaining(r, s, x) ==
  IF x.matched_prev \/ ~ x.nil_next THEN AfterFrom(r, s, x.txt)
  ELSE MatchesFrom(r, s, x.txt)

LoopOK(r, s, x) ==
  /\ x.txt \in 0 .. Len(s)
  /\ ~ x.notbol => x.txt = 0 /\ ~ x.matched_prev /\ x.nil_next
  /\ r = "^x*" /\ x.notbol => Remaining(r, s, x) = <<>>

All(r, s) == MatchesFrom(r, s, 0)
CountOK(r, s, c) ==
  IF HasWide(s) THEN c >= Len(All(r, s)) ELSE c = Len(All(r, s))

CountInv ==
  pc = "count" =>
    /\ LoopOK(re, Seen(re, line), l) /\ (l.nil_next \/ l.matched_prev)
    /\ CountOK(re, Seen(re, line), n + Len(Remaining(re, Seen(re, line), l)))
    /\ out = <<>>

SelectInv ==
  /\ pc \in {"select", "match", "finish", "done"} => CountOK(re, Seen(re, line), n)
  /\ pc = "select" => out = <<>>

\* R is what is left of M after k matches.
IsRest(R, M, k) ==
  /\ k + Len(R) = Len(M)
  /\ \A i \in 1 .. Len(R) : R[i] = M[k + i]

Picked(c, k) ==
  /\ k >= c.nth
  /\ IF c.mod > 0 THEN (k - c.nth) % c.mod = 0 ELSE k = c.nth

Replaced(o) == {<<q[1], q[2]>> : q \in {o[i] : i \in {i \in DOMAIN o : o[i][3]}}}

\* The pieces of o are adjacent, from the beginning of the line to offset p.
Covers(o, s, p) ==
  /\ o = <<>> => p = 0
  /\ o # <<>> => o[1][1] = 0 /\ o[Len(o)][2] = p
  /\ \A i \in 1 .. Len(o) - 1 : o[i][2] = o[i + 1][1] /\ ~ Inside(s, o[i][2])

\* The pieces written are those of the first x.k matches.
Copied(M, s, x, c, g, o) ==
  /\ x.k <= Len(M)
  /\ Replaced(o) = {M[i] : i \in {i \in 1 .. x.k : Picked(c, i)}}
  /\ x.changed = 0 <=> \A i \in 1 .. x.k : ~ Picked(c, i)
  /\ g \/ \A i \in 1 .. x.k - 1 : ~ Picked(c, i)
  /\ x.txt \in 0 .. Len(s)
  /\ Covers(o, s, x.txt) /\ ~ Inside(s, x.txt)

\* What select has made of the parameters.
CurOK ==
  /\ subst.f \cap {"SNLR", "SMLR"} # {} => n > Abs(subst.nth)
  /\ cur.nth = IF "SNLR" \in subst.f THEN subst.nth + n
               ELSE IF subst.nth = 0 THEN 1 ELSE subst.nth
  /\ cur.mod = IF "SMLR" \in subst.f THEN subst.mod + n
               ELSE IF subst.mod = 0 THEN 1 ELSE subst.mod

MatchInv ==
  /\ pc \in {"match", "finish"} =>
       CurOK /\ Copied(All(re, Seen(re, line)), line, l, cur, "GSUB" \in subst.f, out)
  /\ pc = "match" =>
       /\ LoopOK(re, Seen(re, line), l)
       /\ IsRest(Remaining(re, Seen(re, line), l), All(re, Seen(re, line)), l.k)
  /\ pc = "finish" /\ Goes => l.k = Len(All(re, Seen(re, line)))

DoneInv ==
  pc = "done" =>
    /\ out # <<>> => Covers(out, line, Len(line))
    /\ LET N == Len(All(re, Seen(re, line)))
       IN  ~ (HasWide(Seen(re, line)) /\ FromLast) /\ ~ TooFew(N) /\ (sel.g => Every(N) > 0) =>
             Replaced(out) = {All(re, Seen(re, line))[k] : k \in Chosen(N)}

IInv ==
  /\ TypeInv /\ StandsFor(subst, sel)
  /\ CountInv /\ SelectInv /\ MatchInv /\ DoneInv

----------------------------------------------------------------------------
(* The parameters. *)

LEMMA OptionalType ==
  ASSUME NEW o \in Optional
  PROVE  address_offset(o) \in Int /\ (o # <<>> => o[1] \in Int)
  <1>1. CASE o = <<>>
    BY <1>1 DEF address_offset
  <1>2. CASE o # <<>>
    <2>1. PICK i \in Offsets : o = <<i>>
      BY <1>2 DEF Optional
    <2>2. o[1] = i /\ i \in Int
      BY <2>1, SubstAssumption
    <2> QED
      BY <1>2, <2>2 DEF address_offset
  <1> QED
    BY <1>1, <1>2

LEMMA FullCommand ==
  ASSUME NEW m \in Modifiers
  PROVE  /\ substitution_modifiers(m) \in Params
         /\ StandsFor(substitution_modifiers(m), m)
  <1>1. m.nth \in Optional /\ m.mod \in Optional
    BY DEF Modifiers
  <1>2. address_offset(m.nth) \in Int /\ address_offset(m.mod) \in Int
    BY <1>1, OptionalType
  <1>3. PICK p : p = substitution_modifiers(m)
    OBVIOUS
  <1>4. p.f = Flag(Relative(m.last, m.nth), "SNLR")
         \cup Flag(m.g, "GSUB") \cup Flag(Relative(m.mlast, m.mod), "SMLR")
    BY <1>3 DEF substitution_modifiers
  <1>5. /\ p.f \subseteq Flags
        /\ "SNLR" \in p.f <=> Relative(m.last, m.nth)
        /\ "GSUB" \in p.f <=> m.g
        /\ "SMLR" \in p.f <=> Relative(m.mlast, m.mod)
    BY <1>4 DEF Flag, Flags
  <1>6. p.nth = address_offset(m.nth) /\ p.mod = address_offset(m.mod)
    BY <1>3 DEF substitution_modifiers
  <1>7. p \in Params
    BY <1>2, <1>3, <1>5, <1>6 DEF substitution_modifiers, Params
  <1> QED
    BY <1>3, <1>5, <1>6, <1>7 DEF StandsFor

LEMMA NthAgain ==
  ASSUME NEW p \in Params, NEW f \in Modifiers, StandsFor(p, f), NEW m \in ShortForm,
         NEW again \in BOOLEAN,
         NEW q, q = resub_nth(p, m), NEW e, e = Effect(f, m, again)
  PROVE  /\ q \in Params /\ q.mod = p.mod /\ q.nth = address_offset(e.nth)
         /\ "SNLR" \in q.f <=> Relative(e.last, e.nth)
         /\ "GSUB" \in q.f <=> "GSUB" \in p.f
         /\ "SMLR" \in q.f <=> "SMLR" \in p.f
  <1>1. m.nth \in Optional /\ m.last \in BOOLEAN /\ p.f \subseteq Flags
        /\ m \in Modifiers
    BY DEF Modifiers, ShortForm, FullForm, Params
  <1>2. address_offset(m.nth) \in Int
    BY <1>1, OptionalType
  <1>3. CASE m.last \/ m.nth # <<>>
    <2>1. e.last = m.last /\ e.nth = m.nth
      BY <1>3 DEF Effect
    <2>2. PICK g : g = IF m.last THEN p.f \cup {"SNLR"}
                       ELSE (p.f \ {"SNLR"}) \cup Flag(m.nth[1] <= 0, "SNLR")
      OBVIOUS
    <2>3. q = [p EXCEPT !.nth = address_offset(m.nth), !.f = g]
      BY <1>3, <2>2 DEF resub_nth
    <2>4. /\ g \subseteq Flags
          /\ "SNLR" \in g <=> Relative(m.last, m.nth)
          /\ "GSUB" \in g <=> "GSUB" \in p.f
          /\ "SMLR" \in g <=> "SMLR" \in p.f
      BY <1>1, <1>3, <2>2 DEF Flag, Flags, Relative
    <2>5. /\ q.nth = address_offset(m.nth) /\ q.f = g /\ q.mod = p.mod /\ q \in Params
      BY <1>2, <2>3, <2>4 DEF Params
    <2> QED
      BY <2>1, <2>4, <2>5
  <1>4. CASE ~ (m.last \/ m.nth # <<>>)
    <2>1. e.last = f.last /\ e.nth = f.nth
      BY <1>4 DEF Effect
    <2>2. q = p
      BY <1>4 DEF resub_nth
    <2> QED
      BY <2>1, <2>2 DEF StandsFor
  <1> QED
    BY <1>3, <1>4

LEMMA ModAgain ==
  ASSUME NEW p \in Params, NEW f \in Modifiers, StandsFor(p, f), NEW m \in ShortForm,
         NEW q \in Params, q.mod = p.mod,
         "GSUB" \in q.f <=> "GSUB" \in p.f, "SMLR" \in q.f <=> "SMLR" \in p.f,
         NEW again \in BOOLEAN,
         NEW r, r = resub_mod(q, m), NEW t, t = (IF again THEN r ELSE toggle_g(r, m)),
         NEW e, e = Effect(f, m, again)
  PROVE  /\ t \in Params /\ t.nth = q.nth /\ t.mod = address_offset(e.mod)
         /\ "SNLR" \in t.f <=> "SNLR" \in q.f
         /\ "GSUB" \in t.f <=> e.g
         /\ "SMLR" \in t.f <=> Relative(e.mlast, e.mod)
  <1>1. /\ m.mod \in Optional /\ m.g \in BOOLEAN /\ q.f \subseteq Flags
        /\ f.g \in BOOLEAN /\ f.mod \in Optional
        /\ m.mod # <<>> => m.g
    BY DEF Modifiers, ShortForm, FullForm, Params
  <1>2. address_offset(m.mod) \in Int
    BY <1>1, OptionalType
  <1>3. CASE m.mod # <<>>
    <2>1. e.g = ~ again /\ e.mlast = FALSE /\ e.mod = m.mod
      BY <1>3 DEF Effect
    <2>2. PICK g : g = (q.f \ {"GSUB", "SMLR"}) \cup Flag(m.mod[1] <= 0, "SMLR")
      OBVIOUS
    <2>3. PICK h : h = IF again THEN g ELSE g \cup {"GSUB"}
      OBVIOUS
    <2>5. r = [q EXCEPT !.mod = address_offset(m.mod), !.f = g]
      BY <1>3, <2>2 DEF resub_mod
    <2>6. r.f = g /\ r.mod = address_offset(m.mod) /\ r.nth = q.nth /\ r \in Params
      <3>1. g \subseteq Flags
        BY <1>1, <2>2 DEF Flag, Flags
      <3> QED
        BY <1>2, <2>5, <3>1 DEF Params
    <2>7. "GSUB" \notin g
      BY <2>2 DEF Flag
    <2>8. t = [r EXCEPT !.f = h]
      <3>1. CASE again
        <4>1. t = r /\ h = r.f
          BY <2>3, <2>6, <3>1
        <4>2. r = [r EXCEPT !.f = r.f]
          BY <2>6 DEF Params
        <4> QED
          BY <4>1, <4>2
      <3>2. CASE ~ again
        BY <1>1, <1>3, <2>3, <2>6, <2>7, <3>2 DEF toggle_g
      <3> QED
        BY <3>1, <3>2
    <2>9. /\ h \subseteq Flags
          /\ "GSUB" \in h <=> ~ again
          /\ "SNLR" \in h <=> "SNLR" \in q.f
          /\ "SMLR" \in h <=> Relative(FALSE, m.mod)
      BY <1>1, <1>3, <2>2, <2>3, <2>7 DEF Flag, Flags, Relative
    <2>10. t \in Params /\ t.f = h /\ t.nth = q.nth /\ t.mod = address_offset(m.mod)
      BY <2>6, <2>8, <2>9 DEF Params
    <2>11. Relative(e.mlast, e.mod) = Relative(FALSE, m.mod)
      BY <2>1
    <2>12. "GSUB" \in t.f <=> e.g
      <3>1. CASE again
        <4>1. e.g = FALSE
          BY <2>1, <3>1
        <4>2. "GSUB" \notin t.f
          BY <2>9, <2>10, <3>1
        <4> QED
          BY <4>1, <4>2
      <3>2. CASE ~ again
        <4>1. e.g = TRUE
          BY <2>1, <3>2
        <4> QED
          BY <2>9, <2>10, <3>2, <4>1
      <3> QED
        BY <3>1, <3>2
    <2>13. "SMLR" \in t.f <=> Relative(e.mlast, e.mod)
      BY <2>9, <2>10, <2>11
    <2>14. t.mod = address_offset(e.mod)
      BY <2>1, <2>10
    <2> QED
      BY <2>9, <2>10, <2>12, <2>13, <2>14
  <1>4. CASE m.mod = <<>>
    <2>1. e.g = (IF m.g /\ ~ again THEN ~ f.g ELSE f.g) /\ e.mlast = f.mlast /\ e.mod = f.mod
      BY <1>4 DEF Effect
    <2>2. r = q
      BY <1>4 DEF resub_mod
    <2>3. PICK h : h = IF "GSUB" \in q.f THEN q.f \ {"GSUB"} ELSE q.f \cup {"GSUB"}
      OBVIOUS
    <2>4. /\ "GSUB" \in q.f <=> f.g
          /\ "SMLR" \in q.f <=> Relative(f.mlast, f.mod)
          /\ q.mod = address_offset(f.mod)
      BY DEF StandsFor
    <2>5. CASE m.g /\ ~ again
      <3>1. t = [q EXCEPT !.f = h]
        BY <2>2, <2>3, <2>5 DEF toggle_g
      <3>2. /\ h \subseteq Flags
            /\ "SNLR" \in h <=> "SNLR" \in q.f
            /\ "SMLR" \in h <=> "SMLR" \in q.f
            /\ "GSUB" \in h <=> "GSUB" \notin q.f
        BY <1>1, <2>3 DEF Flags
      <3>3. t \in Params /\ t.f = h /\ t.nth = q.nth /\ t.mod = q.mod
        BY <3>1, <3>2 DEF Params
      <3> QED
        BY <2>1, <2>4, <2>5, <3>2, <3>3
    <2>6. CASE ~ m.g \/ again
      <3>1. t = q
        BY <2>2, <2>6 DEF toggle_g
      <3> QED
        BY <2>1, <2>4, <2>6, <3>1
    <2> QED
      BY <2>5, <2>6
  <1> QED
    BY <1>3, <1>4

\* A repeated command is the full command that it stands for.
LEMMA RepeatedCommand ==
  ASSUME NEW p \in Params, NEW f \in Modifiers, StandsFor(p, f), NEW m \in ShortForm,
         NEW again \in BOOLEAN
  PROVE  /\ resubstitute(p, m, again) \in Params /\ Effect(f, m, again) \in Modifiers
         /\ StandsFor(resubstitute(p, m, again), Effect(f, m, again))
  <1>1. PICK q : q = resub_nth(p, m)
    OBVIOUS
  <1>2. PICK r : r = resub_mod(q, m)
    OBVIOUS
  <1>8. PICK t : t = IF again THEN r ELSE toggle_g(r, m)
    OBVIOUS
  <1>3. PICK e : e = Effect(f, m, again)
    OBVIOUS
  <1>4. /\ q \in Params /\ q.mod = p.mod /\ q.nth = address_offset(e.nth)
        /\ "SNLR" \in q.f <=> Relative(e.last, e.nth)
        /\ "GSUB" \in q.f <=> "GSUB" \in p.f
        /\ "SMLR" \in q.f <=> "SMLR" \in p.f
    BY <1>1, <1>3, NthAgain
  <1>5. /\ t \in Params /\ t.nth = q.nth /\ t.mod = address_offset(e.mod)
        /\ "SNLR" \in t.f <=> "SNLR" \in q.f
        /\ "GSUB" \in t.f <=> e.g
        /\ "SMLR" \in t.f <=> Relative(e.mlast, e.mod)
    BY <1>2, <1>3, <1>4, <1>8, ModAgain
  <1>6. resubstitute(p, m, again) = t
    BY <1>1, <1>2, <1>8 DEF resubstitute
  <1>7. e \in Modifiers
    <2>1. m \in Modifiers
      BY DEF ShortForm, FullForm
    <2> QED
      BY <1>3, <2>1 DEF Effect, Modifiers
  <1> QED
    BY <1>3, <1>4, <1>5, <1>6, <1>7 DEF StandsFor

----------------------------------------------------------------------------
(* A step of a loop from state x, by the match m that regexec () finds. *)

LEMMA RegexecFinds ==
  ASSUME re \in Regex, IsLine(line), NEW part, part = Seen(re, line),
         l \in LoopState, LoopOK(re, part, l)
  PROVE  /\ Found = {} => Remaining(re, part, l) = <<>>
         /\ Found # {} =>
              /\ ~ (re = "^x*" /\ l.notbol)
              /\ Ahead(re, part, l.txt) # {}
              /\ Match \in Pairs(Len(part) - l.txt)
              /\ LeftmostLongest(Ahead(re, part, l.txt)) =
                   <<l.txt + Match[1], l.txt + Match[2]>>
              /\ Match[2] = 0 => (AtEnd <=> l.txt = Len(part))
  <1>1. line \in Seq(Byte) /\ IsLine(part) /\ part \in Seq(Byte)
    BY SeenIsLine DEF IsLine
  <1>2. PICK p \in 0 .. Len(part) : p = l.txt
    BY DEF LoopOK
  <1>3. Len(line) \in Nat /\ Len(part) \in Nat /\ p \in 0 .. Len(line)
    <2>1. PartOf(re, line, part)
      BY SeenPart
    <2> QED
      BY <1>1, <1>2, <2>1 DEF PartOf
  <1>4. Rest = RestOf(line, p)
    BY <1>2 DEF Rest, RestOf
  <1>5. PICK b \in BOOLEAN : b = ~ l.notbol
    BY DEF LoopState
  <1>6. Found = Spans(re, RestOf(line, p), b)
    BY <1>4, <1>5 DEF Found
  <1>7. CASE re = "^x*" /\ l.notbol
    <2>1. Remaining(re, part, l) = <<>>
      BY <1>7 DEF LoopOK
    <2>2. b = FALSE /\ RestOf(line, p) \in Seq(Byte)
      BY <1>1, <1>3, <1>5, <1>7, RestOfLine
    <2>3. Found = {}
      BY <1>6, <1>7, <2>2 DEF Spans
    <2> QED
      BY <2>1, <2>3
  <1>8. CASE ~ (re = "^x*" /\ l.notbol)
    <2>1. re = "^x*" => b /\ p = 0
      BY <1>2, <1>5, <1>8 DEF LoopOK
    <2>2. PICK F : F = Spans(re, RestOf(line, p), b)
      OBVIOUS
    <2>3. PICK S : S = Spans(re, RestOf(part, p), b)
      OBVIOUS
    <2>4. /\ S = {} <=> Ahead(re, part, p) = {}
          /\ S # {} => /\ LeftmostLongest(S) \in Pairs(Len(part) - p)
                       /\ LeftmostLongest(Ahead(re, part, p)) =
                           <<p + LeftmostLongest(S)[1], p + LeftmostLongest(S)[2]>>
      BY <1>1, <2>1, <2>3, MatchOfRest
    <2>5. /\ F = {} <=> S = {}
          /\ F # {} => LeftmostLongest(F) = LeftmostLongest(S)
      BY <1>1, <2>1, <2>2, <2>3, SeenFinds
    <2>6. F = Found /\ Match = LeftmostLongest(F)
      BY <1>6, <2>2 DEF Match
    <2>7. Ahead(re, part, p) = {} => Remaining(re, part, l) = <<>>
      BY <1>1, <1>2, NothingAhead DEF Remaining
    <2>8. ASSUME Found # {}, Match[2] = 0
          PROVE  AtEnd <=> p = Len(part)
      <3>4. F # {} /\ LeftmostLongest(F)[2] = 0
        BY <2>6, <2>8
      <3>1. p = Len(part) <=> p = Len(line) \/ line[p + 1] = "nul"
        <4>1. EndSeen(line, part, p)
          BY Zenon, <1>1, <2>1, <2>2, <3>4, SeenEnds
        <4> QED
          BY <4>1 DEF EndSeen
      <3>2. CASE p = Len(line)
        <4>1. Rest = <<>>
          BY <1>1, <1>3, <1>4, <3>2, RestOfLine
        <4>2. Append(<<>>, "nul")[1] = "nul"
          OBVIOUS
        <4> QED
          BY <3>1, <3>2, <4>1, <4>2 DEF AtEnd
      <3>3. CASE p # Len(line)
        <4>1. 1 \in 1 .. Len(line) - p
          BY <1>3, <3>3
        <4>2. Rest \in Seq(Byte) /\ Len(Rest) = Len(line) - p /\ Rest[1] = line[p + 1]
          BY <1>1, <1>3, <1>4, <4>1, RestOfLine
        <4>3. Append(Rest, "nul")[1] = Rest[1]
          BY <4>1, <4>2
        <4> QED
          BY <3>1, <3>3, <4>2, <4>3 DEF AtEnd
      <3> QED
        BY <3>2, <3>3
    <2> QED
      BY <1>2, <1>8, <2>4, <2>5, <2>6, <2>7, <2>8
  <1> QED
    BY <1>7, <1>8

\* Over a match that is not an empty one here.
LEMMA OverMatch ==
  ASSUME NEW r \in Regex, NEW s, IsLine(s), NEW x \in LoopState, LoopOK(r, s, x),
         Ahead(r, s, x.txt) # {}, NEW m, m = LeftmostLongest(Ahead(r, s, x.txt)),
         m[2] # x.txt,
         NEW y \in LoopState, y.txt = m[2], ~ y.nil_next, y.notbol
  PROVE  /\ LoopOK(r, s, y)
         /\ Remaining(r, s, x) = <<m>> \o Remaining(r, s, y)
         /\ ~ Inside(s, m[1]) /\ ~ Inside(s, m[2])
         /\ m[1] \in x.txt .. m[2] /\ m[2] \in x.txt + 1 .. Len(s)
  <1>1. PICK p \in 0 .. Len(s) : p = x.txt
    BY DEF LoopOK
  <1>2. /\ ~ Inside(s, m[1]) /\ ~ Inside(s, m[2])
        /\ m[1] \in p .. m[2] /\ m[2] \in p + 1 .. Len(s)
        /\ MatchesFrom(r, s, p) = <<m>> \o AfterFrom(r, s, m[2])
        /\ AfterFrom(r, s, p) = <<m>> \o AfterFrom(r, s, m[2])
    BY <1>1, MatchAhead
  <1>3. Remaining(r, s, y) = AfterFrom(r, s, m[2])
    BY DEF Remaining
  <1>4. Remaining(r, s, x) = <<m>> \o Remaining(r, s, y)
    BY <1>1, <1>2, <1>3 DEF Remaining
  <1>5. r = "^x*" => AfterFrom(r, s, m[2]) = <<>>
    BY <1>1, AnchoredOnce
  <1>6. Len(s) \in Nat /\ m[2] \in 0 .. Len(s)
    BY <1>1, <1>2 DEF IsLine
  <1>7. LoopOK(r, s, y)
    BY <1>3, <1>5, <1>6 DEF LoopOK
  <1> QED
    BY <1>1, <1>2, <1>4, <1>7

\* Over an empty match: it has been taken, or it is next to the one before.
LEMMA AtEmptyMatch ==
  ASSUME NEW r \in Regex, NEW s, IsLine(s), NEW x \in LoopState, LoopOK(r, s, x),
         Ahead(r, s, x.txt) # {}, NEW m, m = LeftmostLongest(Ahead(r, s, x.txt)),
         m[2] = x.txt,
         NEW y \in LoopState, y.notbol, y.nil_next,
         \/ y.matched_prev /\ y.txt = x.txt
         \/ ~ y.matched_prev /\ x.txt # Len(s) /\ y.txt = x.txt + 1
         \/ ~ y.matched_prev /\ x.txt # Len(s) /\ ~ Inside(s, x.txt) /\ y.txt = Step1(s, x.txt)
  PROVE  /\ LoopOK(r, s, y)
         /\ m = <<x.txt, x.txt>>
         /\ x.matched_prev \/ ~ x.nil_next \/ Inside(s, x.txt) =>
              Remaining(r, s, x) = Remaining(r, s, y)
         /\ ~ (x.matched_prev \/ ~ x.nil_next \/ Inside(s, x.txt)) =>
              Remaining(r, s, x) = <<m>> \o Remaining(r, s, y)
  <1>1. PICK p \in 0 .. Len(s) : p = x.txt
    BY DEF LoopOK
  <1>2. /\ m = <<p, p>>
        /\ ~ Inside(s, p) => MatchesFrom(r, s, p) = <<m>> \o AfterFrom(r, s, p)
        /\ Inside(s, p) => MatchesFrom(r, s, p) = AfterFrom(r, s, p)
        /\ p = Len(s) => AfterFrom(r, s, p) = <<>>
        /\ p # Len(s) => AfterFrom(r, s, p) = MatchesFrom(r, s, p + 1)
        /\ p # Len(s) /\ ~ Inside(s, p) =>
              AfterFrom(r, s, p) = MatchesFrom(r, s, Step1(s, p))
    BY <1>1, EmptyAhead
  <1>3. Remaining(r, s, y) = AfterFrom(r, s, p)
    BY <1>1, <1>2 DEF Remaining
  <1>4. /\ x.matched_prev \/ ~ x.nil_next \/ Inside(s, p) =>
              Remaining(r, s, x) = Remaining(r, s, y)
        /\ ~ (x.matched_prev \/ ~ x.nil_next \/ Inside(s, p)) =>
              Remaining(r, s, x) = <<m>> \o Remaining(r, s, y)
    BY <1>1, <1>2, <1>3 DEF Remaining
  <1>5. r = "^x*" => AfterFrom(r, s, p) = <<>>
    BY <1>1, AnchoredOnce
  <1>6. y.txt \in 0 .. Len(s)
    <2>1. Len(s) \in Nat
      BY DEF IsLine
    <2>2. x.txt # Len(s) /\ ~ Inside(s, x.txt) => Step1(s, x.txt) \in p + 1 .. Len(s)
      BY <1>1, StepOne
    <2> QED
      BY <1>1, <2>1, <2>2
  <1>7. LoopOK(r, s, y)
    BY <1>3, <1>5, <1>6 DEF LoopOK
  <1> QED
    BY <1>1, <1>2, <1>4, <1>7

\* Nothing is left at the end of the line but an empty match.
LEMMA AtEndOfLine ==
  ASSUME NEW r \in Regex, NEW s, IsLine(s), NEW x \in LoopState, LoopOK(r, s, x),
         Ahead(r, s, x.txt) # {}, NEW m, m = LeftmostLongest(Ahead(r, s, x.txt)),
         m[2] = x.txt, x.txt = Len(s)
  PROVE  /\ x.matched_prev \/ ~ x.nil_next => Remaining(r, s, x) = <<>>
         /\ ~ (x.matched_prev \/ ~ x.nil_next) => Remaining(r, s, x) = <<m>>
  <1>1. PICK p \in 0 .. Len(s) : p = x.txt
    BY DEF LoopOK
  <1>2. /\ m = <<p, p>>
        /\ ~ Inside(s, p) => MatchesFrom(r, s, p) = <<m>> \o AfterFrom(r, s, p)
        /\ p = Len(s) => AfterFrom(r, s, p) = <<>>
    BY <1>1, EmptyAhead
  <1>3. ~ Inside(s, p) /\ AfterFrom(r, s, p) = <<>>
    BY <1>1, <1>2 DEF Inside
  <1>4. <<m>> \o <<>> = <<m>>
    OBVIOUS
  <1> QED
    BY <1>1, <1>2, <1>3, <1>4 DEF Remaining

LEMMA RemainingType ==
  ASSUME NEW r \in Regex, NEW s, IsLine(s), NEW x, x.txt \in 0 .. Len(s)
  PROVE  Remaining(r, s, x) \in Seq(Pairs(Len(s))) /\ Len(Remaining(r, s, x)) \in Nat
  <1>1. Remaining(r, s, x) \in Seq(Pairs(Len(s)))
    BY ListTypes DEF Remaining
  <1> QED
    BY <1>1

LEMMA AllType ==
  ASSUME NEW r \in Regex, NEW s, IsLine(s)
  PROVE  All(r, s) \in Seq(Pairs(Len(s))) /\ Len(All(r, s)) \in Nat
  <1>1. 0 \in 0 .. Len(s)
    BY DEF IsLine
  <1>2. All(r, s) \in Seq(Pairs(Len(s)))
    BY <1>1, ListTypes DEF All
  <1> QED
    BY <1>2

LEMMA NotInside ==
  ASSUME NEW s, IsLine(s), ~ HasWide(s), NEW p \in 0 .. Len(s)
  PROVE  ~ Inside(s, p)
  <1>1. s \in Seq(Byte) /\ WellFormed(s) /\ Len(s) \in Nat
    BY DEF IsLine
  <1>2. Inside(s, p) => p \in 1 .. Len(s) /\ s[p] = "lead"
    BY <1>1 DEF Inside, WellFormed
  <1> QED
    BY <1>2 DEF HasWide

LEMMA LinesAre ==
  ASSUME NEW s \in Lines \cup {<<>>}
  PROVE  IsLine(s)
  <1>1. CASE s \in Lines
    BY <1>1, SubstAssumption DEF IsLine, Byte
  <1>2. CASE s = <<>>
    <2>1. s \in Seq(Byte) /\ Len(s) = 0
      BY <1>2
    <2> QED
      BY <2>1 DEF IsLine, WellFormed
  <1> QED
    BY <1>1, <1>2

LEMMA RegexesAre == Regexes \subseteq Regex
  BY SubstAssumption DEF Regex

LEMMA LoopZero ==
  ASSUME NEW r \in Regex, NEW s, IsLine(s)
  PROVE  /\ Loop0 \in LoopState /\ LoopOK(r, s, Loop0)
         /\ Remaining(r, s, Loop0) = All(r, s)
         /\ Loop0.k = 0 /\ Loop0.changed = 0 /\ Loop0.txt = 0 /\ Loop0.nil_next
         /\ ~ Inside(s, 0)
  <1>1. /\ Loop0.txt = 0 /\ Loop0.k = 0 /\ Loop0.changed = 0 /\ ~ Loop0.matched_prev
        /\ Loop0.nil_next /\ ~ Loop0.notbol
    BY DEF Loop0
  <1>2. Loop0 \in LoopState
    BY DEF Loop0, LoopState
  <1>3. s \in Seq(Byte) /\ WellFormed(s) /\ 0 \in 0 .. Len(s)
    BY DEF IsLine
  <1>4. LoopOK(r, s, Loop0) /\ Remaining(r, s, Loop0) = All(r, s)
    BY <1>1, <1>3 DEF LoopOK, Remaining, All
  <1>5. ~ Inside(s, 0)
    BY <1>3 DEF WellFormed, Inside
  <1> QED
    BY <1>1, <1>2, <1>4, <1>5

\* c matches counted and R left, then one more counted and Q left.
LEMMA OneCounted ==
  ASSUME NEW r, NEW s, NEW T, NEW R \in Seq(T), NEW Q \in Seq(T), NEW m,
         R = <<m>> \o Q, NEW c \in Nat, CountOK(r, s, c + Len(R))
  PROVE  CountOK(r, s, (c + 1) + Len(Q))
  <1>1. Len(R) = 1 + Len(Q) /\ Len(R) \in Nat /\ Len(Q) \in Nat
    BY SMT
  <1>2. c + Len(R) = (c + 1) + Len(Q)
    BY <1>1
  <1> QED
    BY <1>2

LEMMA LoopTypes ==
  ASSUME NEW x \in LoopState
  PROVE  /\ x.txt \in Nat /\ x.k \in Nat /\ x.changed \in Nat
         /\ x.matched_prev \in BOOLEAN /\ x.nil_next \in BOOLEAN /\ x.notbol \in BOOLEAN
  BY DEF LoopState

\* The loop state after Advance, field by field.
LEMMA AdvanceAt ==
  ASSUME l \in LoopState, NEW off \in Nat, NEW b \in BOOLEAN,
         NEW y, y = Advance(off, b)
  PROVE  /\ y \in LoopState /\ y.txt = l.txt + off /\ y.matched_prev = b
         /\ y.nil_next <=> Match[2] = 0
         /\ y.notbol /\ y.k = l.k /\ y.changed = l.changed
  <1>1. PICK e \in BOOLEAN : e = (Match[2] = 0)
    OBVIOUS
  <1>2. y = [l EXCEPT !.txt = l.txt + off, !.matched_prev = b, !.nil_next = e, !.notbol = TRUE]
    BY <1>1 DEF Advance
  <1>3. l.txt + off \in Nat
    BY LoopTypes
  <1>4. y \in LoopState
    BY <1>2, <1>3 DEF LoopState
  <1>5. /\ y.txt = l.txt + off /\ y.matched_prev = b /\ y.nil_next = e
        /\ y.notbol = TRUE /\ y.k = l.k /\ y.changed = l.changed
    BY <1>2 DEF LoopState
  <1> QED
    BY <1>1, <1>4, <1>5

\* What an iteration of count_matches () leaves.
LEMMA CountStep ==
  ASSUME IInv, count_matches, NEW part, part = Seen(re, line)
  PROVE  /\ UNCHANGED <<subst, re, sel, line, cur, out>>
         /\ l' \in LoopState /\ n' \in Nat
         /\ \/ /\ pc' = "select" /\ CountOK(re, part, n')
            \/ /\ pc' = "count" /\ LoopOK(re, part, l')
               /\ l'.nil_next \/ l'.matched_prev
               /\ CountOK(re, part, n' + Len(Remaining(re, part, l')))
  <1>1. /\ pc = "count" /\ Found # {} /\ TypeInv /\ CountInv
        /\ UNCHANGED <<subst, re, sel, line, cur, out>>
    BY DEF count_matches, IInv
  <1>2. /\ re \in Regex /\ IsLine(line) /\ IsLine(part) /\ l \in LoopState /\ n \in Nat
    BY <1>1, LinesAre, RegexesAre, SeenIsLine DEF TypeInv
  <1>3. /\ LoopOK(re, part, l) /\ (l.nil_next \/ l.matched_prev)
        /\ CountOK(re, part, n + Len(Remaining(re, part, l)))
    BY <1>1 DEF CountInv
  <1>4. PICK m : m = LeftmostLongest(Ahead(re, part, l.txt))
    OBVIOUS
  <1>5. /\ Match[2] = 0 => (AtEnd <=> l.txt = Len(part))
        /\ Ahead(re, part, l.txt) # {}
        /\ Match \in Pairs(Len(part) - l.txt)
        /\ m = <<l.txt + Match[1], l.txt + Match[2]>>
    BY <1>1, <1>2, <1>3, <1>4, RegexecFinds
  <1>6. PICK e \in Nat : e = Match[2]
    <2>1. Match[2] \in 0 .. Len(part) - l.txt
      BY <1>5, PairsAre
    <2> QED
      BY <2>1
  <1>7. l.txt \in Nat /\ m[2] = l.txt + e /\ (m[2] = l.txt <=> e = 0)
        /\ l.matched_prev \in BOOLEAN /\ l.nil_next \in BOOLEAN
    BY <1>2, <1>5, <1>6, LoopTypes
  <1>8. l.txt \in 0 .. Len(part) /\ Len(part) \in Nat
    BY <1>2, <1>3 DEF LoopOK, IsLine
  <1>9. Remaining(re, part, l) \in Seq(Pairs(Len(part))) /\ Len(Remaining(re, part, l)) \in Nat
    BY <1>2, <1>8, RemainingType
  <1>10. CASE e # 0
    <2>1. PICK y : y = Advance(Match[2], TRUE)
      OBVIOUS
    <2>2. l' = y /\ n' = n + 1 /\ pc' = "count"
      BY <1>1, <1>6, <1>10, <2>1 DEF count_matches, InfiniteLoop, Counts
    <2>3. y \in LoopState /\ y.txt = l.txt + e /\ ~ y.nil_next /\ y.notbol /\ y.matched_prev
      BY <1>2, <1>6, <1>10, <2>1, AdvanceAt
    <2>4. /\ LoopOK(re, part, y)
          /\ Remaining(re, part, l) = <<m>> \o Remaining(re, part, y)
      <3>1. y.txt = m[2] /\ m[2] # l.txt
        BY <1>7, <1>10, <2>3
      <3> QED
        BY ZenonT(60), <1>2, <1>3, <1>4, <1>5, <2>3, <3>1, OverMatch
    <2>5. Remaining(re, part, y) \in Seq(Pairs(Len(part)))
      BY <1>2, <2>4, RemainingType DEF LoopOK
    <2>6. CountOK(re, part, (n + 1) + Len(Remaining(re, part, y)))
      BY <1>2, <1>3, <1>9, <2>4, <2>5, OneCounted
    <2> QED
      BY <1>1, <1>2, <2>2, <2>3, <2>4, <2>6
  <1>11. CASE e = 0 /\ l.matched_prev /\ l.txt = Len(part)
    <2>1. pc' = "select" /\ l' = l /\ n' = n
      BY <1>1, <1>5, <1>6, <1>11 DEF count_matches, InfiniteLoop
    <2>2. Remaining(re, part, l) = <<>>
      BY <1>2, <1>3, <1>4, <1>5, <1>7, <1>11, AtEndOfLine
    <2>3. n + Len(Remaining(re, part, l)) = n
      BY <1>2, <2>2
    <2> QED
      BY <1>1, <1>2, <1>3, <2>1, <2>3
  <1>12. CASE e = 0 /\ l.matched_prev /\ l.txt # Len(part)
    <2>1. PICK y : y = Advance(1, FALSE)
      OBVIOUS
    <2>2. l' = y /\ n' = n /\ pc' = "count"
      BY <1>1, <1>5, <1>6, <1>12, <2>1 DEF count_matches, InfiniteLoop
    <2>3. y \in LoopState /\ y.txt = l.txt + 1 /\ y.nil_next /\ y.notbol /\ ~ y.matched_prev
      BY <1>2, <1>6, <1>12, <2>1, AdvanceAt
    <2>4. /\ LoopOK(re, part, y)
          /\ Remaining(re, part, l) = Remaining(re, part, y)
      BY <1>2, <1>3, <1>4, <1>5, <1>7, <1>12, <2>3, AtEmptyMatch
    <2> QED
      BY <1>1, <1>2, <1>3, <2>2, <2>3, <2>4
  <1>13. CASE e = 0 /\ ~ l.matched_prev
    <2>1. PICK y : y = Advance(Match[2], TRUE)
      OBVIOUS
    <2>2. l' = y /\ n' = n + 1 /\ pc' = "count"
      BY <1>1, <1>3, <1>6, <1>13, <2>1 DEF count_matches, InfiniteLoop, Counts
    <2>3. y \in LoopState /\ y.txt = l.txt + e /\ y.nil_next /\ y.notbol /\ y.matched_prev
      BY ZenonT(60), <1>2, <1>6, <1>13, <2>1, AdvanceAt
    <2>4. /\ LoopOK(re, part, y)
          /\ Inside(part, l.txt) => Remaining(re, part, l) = Remaining(re, part, y)
          /\ ~ Inside(part, l.txt) =>
               Remaining(re, part, l) = <<m>> \o Remaining(re, part, y)
      BY ZenonT(60), <1>2, <1>3, <1>4, <1>5, <1>7, <1>13, <2>3, AtEmptyMatch
    <2>5. Remaining(re, part, y) \in Seq(Pairs(Len(part)))
      BY <1>2, <2>4, RemainingType DEF LoopOK
    <2>6. CountOK(re, part, (n + 1) + Len(Remaining(re, part, y)))
      <3>1. CASE ~ Inside(part, l.txt)
        BY <1>2, <1>3, <1>9, <2>4, <2>5, <3>1, OneCounted
      <3>2. CASE Inside(part, l.txt)
        <4>1. HasWide(part)
          BY <1>2, <1>8, <3>2, NotInside
        <4>2. PICK a \in Nat : a = Len(Remaining(re, part, y))
          BY <2>5
        <4>3. n + a >= Len(All(re, part)) /\ Len(All(re, part)) \in Nat
          BY <1>2, <1>3, <2>4, <3>2, <4>1, <4>2, AllType DEF CountOK
        <4>4. (n + 1) + a >= Len(All(re, part))
          BY <1>2, <4>3
        <4> QED
          BY <4>1, <4>2, <4>4 DEF CountOK
      <3> QED
        BY <3>1, <3>2
    <2> QED
      BY <1>1, <1>2, <2>2, <2>3, <2>4, <2>6
  <1> QED
    BY <1>7, <1>10, <1>11, <1>12, <1>13

----------------------------------------------------------------------------
(* The pieces written to rb. *)

\* o2 is o and the piece from a to b.
OnePiece(o, o2, a, b, t) ==
  /\ o \in Seq(PieceSet) /\ o2 \in Seq(PieceSet) /\ Len(o2) = Len(o) + 1
  /\ \A i \in 1 .. Len(o) : o2[i] = o[i]
  /\ o2[Len(o) + 1] = <<a, b, t>>
  /\ DOMAIN o = 1 .. Len(o) /\ DOMAIN o2 = 1 .. Len(o) + 1

LEMMA OnePieceAppended ==
  ASSUME NEW o \in Seq(PieceSet), NEW a \in Nat, NEW b \in Nat, NEW t \in BOOLEAN
  PROVE  OnePiece(o, o \o << <<a, b, t>> >>, a, b, t)
  <1>1. PICK q : q = <<a, b, t>>
    OBVIOUS
  <1>2. q \in PieceSet
    BY <1>1 DEF PieceSet
  <1>3. PICK o2 : o2 = o \o <<q>>
    OBVIOUS
  <1>4. /\ o2 \in Seq(PieceSet) /\ Len(o2) = Len(o) + 1
        /\ \A i \in 1 .. Len(o) : o2[i] = o[i]
        /\ o2[Len(o) + 1] = q
        /\ DOMAIN o = 1 .. Len(o) /\ DOMAIN o2 = 1 .. Len(o) + 1
    BY <1>2, <1>3
  <1> QED
    BY <1>1, <1>3, <1>4 DEF OnePiece

LEMMA ReplacedAt ==
  ASSUME NEW o, NEW z
  PROVE  z \in Replaced(o) <=> \E i \in DOMAIN o : o[i][3] /\ z = <<o[i][1], o[i][2]>>
  BY DEF Replaced

LEMMA ReplacedMore ==
  ASSUME NEW o, NEW o2, NEW a \in Nat, NEW b \in Nat, NEW t \in BOOLEAN,
         OnePiece(o, o2, a, b, t)
  PROVE  Replaced(o2) = Replaced(o) \cup (IF t THEN {<<a, b>>} ELSE {})
  <1>0. o \in Seq(PieceSet)
    BY DEF OnePiece
  <1>1. PICK N \in Nat : N = Len(o)
    BY <1>0
  <1>2. /\ DOMAIN o = 1 .. N /\ DOMAIN o2 = 1 .. N + 1
        /\ \A i \in 1 .. N : o2[i] = o[i]
        /\ o2[N + 1] = <<a, b, t>>
    BY <1>1 DEF OnePiece
  <1>3. o2[N + 1][1] = a /\ o2[N + 1][2] = b /\ o2[N + 1][3] = t
    BY <1>2
  <1>4. ASSUME NEW z \in Replaced(o2)
        PROVE  z \in Replaced(o) \/ (t /\ z = <<a, b>>)
    <2>1. PICK i \in 1 .. N + 1 : o2[i][3] /\ z = <<o2[i][1], o2[i][2]>>
      BY <1>2, <1>4, ReplacedAt
    <2>2. CASE i = N + 1
      BY <1>3, <2>1, <2>2
    <2>3. CASE i # N + 1
      <3>1. i \in 1 .. N
        BY <1>1, <2>3
      <3>2. o2[i] = o[i] /\ i \in DOMAIN o
        BY <1>2, <3>1
      <3> QED
        BY <2>1, <3>2, ReplacedAt
    <2> QED
      BY <2>2, <2>3
  <1>5. ASSUME NEW z \in Replaced(o) PROVE z \in Replaced(o2)
    <2>1. PICK i \in 1 .. N : o[i][3] /\ z = <<o[i][1], o[i][2]>>
      BY <1>2, <1>5, ReplacedAt
    <2>2. i \in DOMAIN o2 /\ o2[i] = o[i]
      BY <1>1, <1>2, <2>1
    <2> QED
      BY <2>1, <2>2, ReplacedAt
  <1>6. t => <<a, b>> \in Replaced(o2)
    <2>1. N + 1 \in DOMAIN o2
      BY <1>1, <1>2
    <2> QED
      BY <1>3, <2>1, ReplacedAt
  <1> QED
    BY <1>4, <1>5, <1>6

LEMMA CoversMore ==
  ASSUME NEW o, NEW o2, NEW s, NEW p \in Nat, NEW b \in Nat, NEW t \in BOOLEAN,
         OnePiece(o, o2, p, b, t), Covers(o, s, p), ~ Inside(s, p)
  PROVE  Covers(o2, s, b)
  <1>0. o \in Seq(PieceSet)
    BY DEF OnePiece
  <1>1. PICK N \in Nat : N = Len(o)
    BY <1>0
  <1>2. /\ o \in Seq(PieceSet) /\ o2 \in Seq(PieceSet) /\ Len(o2) = N + 1
        /\ \A i \in 1 .. N : o2[i] = o[i]
        /\ o2[N + 1] = <<p, b, t>>
    BY <1>1 DEF OnePiece
  <1>3. o2[N + 1][1] = p /\ o2[N + 1][2] = b
    BY <1>2
  <1>4. o = <<>> <=> N = 0
    BY <1>1, <1>2
  <1>5. o2 # <<>>
    BY <1>1, <1>2
  <1>6. o2[1][1] = 0
    <2>1. CASE N = 0
      BY <1>3, <1>4, <2>1 DEF Covers
    <2>2. CASE N # 0
      <3>1. 1 \in 1 .. N
        BY <1>1, <2>2
      <3> QED
        BY <1>2, <1>4, <2>2, <3>1 DEF Covers
    <2> QED
      BY <2>1, <2>2
  <1>7. ASSUME NEW i \in 1 .. N
        PROVE  o2[i][2] = o2[i + 1][1] /\ ~ Inside(s, o2[i][2])
    <2>1. CASE i = N
      <3>1. o[N][2] = p
        BY <1>1, <1>4, <1>7, <2>1 DEF Covers
      <3> QED
        BY <1>2, <1>3, <2>1, <3>1
    <2>2. CASE i # N
      <3>1. i \in 1 .. Len(o) - 1 /\ i + 1 \in 1 .. N
        BY <1>1, <2>2
      <3>2. o[i][2] = o[i + 1][1] /\ ~ Inside(s, o[i][2])
        BY <3>1 DEF Covers
      <3> QED
        BY <1>2, <3>1, <3>2
    <2> QED
      BY <2>1, <2>2
  <1>8. Len(o2) - 1 = N
    BY <1>1, <1>2
  <1> QED
    BY <1>2, <1>3, <1>5, <1>6, <1>7, <1>8 DEF Covers

\* o2 is o and, unless it is empty, the piece from p to b.
Upto(o, o2, p, b) ==
  \/ p = b /\ o2 = o
  \/ OnePiece(o, o2, p, b, FALSE)

LEMMA UptoCovers ==
  ASSUME NEW o \in Seq(PieceSet), NEW o2, NEW s, NEW p \in Nat, NEW b \in Nat, Upto(o, o2, p, b),
         Covers(o, s, p), ~ Inside(s, p)
  PROVE  /\ o2 \in Seq(PieceSet)
         /\ Covers(o2, s, b) /\ Replaced(o2) = Replaced(o)
  <1>1. CASE p = b /\ o2 = o
    BY <1>1
  <1>2. CASE OnePiece(o, o2, p, b, FALSE)
    <2>1. PICK t \in BOOLEAN : t = FALSE
      OBVIOUS
    <2>5. OnePiece(o, o2, p, b, t)
      BY <1>2, <2>1
    <2>2. Covers(o2, s, b)
      BY <2>5, CoversMore
    <2>3. Replaced(o2) = Replaced(o) \cup (IF t THEN {<<p, b>>} ELSE {})
      BY <2>5, ReplacedMore
    <2>4. o2 \in Seq(PieceSet)
      BY <1>2 DEF OnePiece
    <2> QED
      BY <2>1, <2>2, <2>3, <2>4
  <1> QED
    BY <1>1, <1>2 DEF Upto

\* A step that replaces nothing, over a match (y.k = x.k + 1) or over none.
LEMMA CopiedSkip ==
  ASSUME NEW T, NEW M \in Seq(T), NEW s, Len(s) \in Nat, NEW x \in LoopState,
         NEW c, NEW g \in BOOLEAN, NEW o \in Seq(PieceSet), Copied(M, s, x, c, g, o),
         x.changed = 0 \/ g,
         NEW y \in LoopState, NEW o2, y.changed = x.changed,
         \/ y.k = x.k
         \/ y.k = x.k + 1 /\ y.k <= Len(M) /\ ~ Picked(c, y.k),
         y.txt \in 0 .. Len(s), ~ Inside(s, y.txt), Upto(o, o2, x.txt, y.txt)
  PROVE  o2 \in Seq(PieceSet) /\ Copied(M, s, y, c, g, o2)
  <1>1. x.k \in Nat /\ x.changed \in Nat /\ x.txt \in Nat /\ y.k \in Nat /\ y.txt \in Nat
    BY LoopTypes
  <1>2. o2 \in Seq(PieceSet) /\ Covers(o2, s, y.txt) /\ Replaced(o2) = Replaced(o)
    BY <1>1, UptoCovers DEF Copied
  <1>3. \A i \in 1 .. y.k : i \in 1 .. x.k \/ ~ Picked(c, i)
    BY <1>1
  <1>4. \A i \in 1 .. x.k : i \in 1 .. y.k
    BY <1>1
  <1>5. {i \in 1 .. y.k : Picked(c, i)} = {i \in 1 .. x.k : Picked(c, i)}
    BY <1>3, <1>4
  <1>6. y.changed = 0 <=> \A i \in 1 .. y.k : ~ Picked(c, i)
    <2>1. x.changed = 0 <=> \A i \in 1 .. x.k : ~ Picked(c, i)
      BY DEF Copied
    <2> QED
      BY <1>3, <1>4, <2>1
  <1>7. g \/ \A i \in 1 .. y.k - 1 : ~ Picked(c, i)
    <2>1. ASSUME ~ g, NEW i \in 1 .. y.k - 1 PROVE ~ Picked(c, i)
      <3>1. i \in 1 .. y.k
        BY <1>1, <2>1
      <3>2. y.changed = 0
        BY <2>1
      <3> QED
        BY <1>6, <3>1, <3>2
    <2> QED
      BY <2>1
  <1>8. y.k <= Len(M)
    BY DEF Copied
  <1> QED
    BY <1>2, <1>5, <1>6, <1>7, <1>8 DEF Copied

\* A step that replaces the next match, <<a, b>>.
LEMMA CopiedReplace ==
  ASSUME NEW T, NEW M \in Seq(T), NEW s, Len(s) \in Nat, NEW x \in LoopState,
         NEW c, NEW g \in BOOLEAN, NEW o \in Seq(PieceSet), Copied(M, s, x, c, g, o),
         x.changed = 0 \/ g,
         NEW y \in LoopState, y.changed = x.changed + 1, y.k = x.k + 1, y.k <= Len(M),
         Picked(c, y.k),
         NEW a \in Nat, ~ Inside(s, a), NEW b \in Nat, M[y.k] = <<a, b>>,
         y.txt = b, b \in 0 .. Len(s), ~ Inside(s, b),
         NEW o1, Upto(o, o1, x.txt, a), NEW o2, OnePiece(o1, o2, a, b, TRUE)
  PROVE  o2 \in Seq(PieceSet) /\ Copied(M, s, y, c, g, o2)
  <1>1. x.k \in Nat /\ x.changed \in Nat /\ x.txt \in Nat /\ y.k \in Nat /\ y.txt \in Nat
    BY LoopTypes
  <1>2. Covers(o1, s, a) /\ Replaced(o1) = Replaced(o)
    BY <1>1, UptoCovers DEF Copied
  <1>3. Covers(o2, s, b) /\ Replaced(o2) = Replaced(o) \cup {<<a, b>>}
    <2>1. PICK t \in BOOLEAN : t = TRUE
      OBVIOUS
    <2>4. OnePiece(o1, o2, a, b, t)
      BY <2>1
    <2>2. Covers(o2, s, b)
      BY <1>2, <2>4, CoversMore
    <2>3. Replaced(o2) = Replaced(o1) \cup (IF t THEN {<<a, b>>} ELSE {})
      BY <2>4, ReplacedMore
    <2> QED
      BY <1>2, <2>1, <2>2, <2>3
  <1>4. Replaced(o2) = {M[i] : i \in {i \in 1 .. y.k : Picked(c, i)}}
    <2>1. Replaced(o) = {M[i] : i \in {i \in 1 .. x.k : Picked(c, i)}}
      BY DEF Copied
    <2>2. {i \in 1 .. y.k : Picked(c, i)} = {i \in 1 .. x.k : Picked(c, i)} \cup {y.k}
      <3>1. \A i : i \in 1 .. y.k <=> i \in 1 .. x.k \/ i = y.k
        BY <1>1
      <3> QED
        BY <3>1
    <2> QED
      BY <1>3, <2>1, <2>2
  <1>5. y.changed = 0 <=> \A i \in 1 .. y.k : ~ Picked(c, i)
    <2>1. y.k \in 1 .. y.k /\ y.changed # 0
      BY <1>1
    <2> QED
      BY <2>1
  <1>6. g \/ \A i \in 1 .. y.k - 1 : ~ Picked(c, i)
    <2>1. ASSUME ~ g, NEW i \in 1 .. y.k - 1 PROVE ~ Picked(c, i)
      <3>1. i \in 1 .. x.k
        BY <1>1, <2>1
      <3>2. x.changed = 0
        BY <2>1
      <3> QED
        BY <3>1, <3>2 DEF Copied
    <2> QED
      BY <2>1
  <1>7. o2 \in Seq(PieceSet)
    BY DEF OnePiece
  <1> QED
    BY <1>3, <1>4, <1>5, <1>6, <1>7 DEF Copied

----------------------------------------------------------------------------
(* substitute_matching (). *)

\* After k matches of M comes m, and Q is left.
TakenNext(M, k, m, Q) ==
  k + 1 <= Len(M) /\ M[k + 1] = m /\ IsRest(Q, M, k + 1)

LEMMA RestTaken ==
  ASSUME NEW T, NEW M \in Seq(T), NEW R \in Seq(T), NEW Q \in Seq(T), NEW m,
         R = <<m>> \o Q, NEW k \in Nat, IsRest(R, M, k)
  PROVE  TakenNext(M, k, m, Q)
  <1>1. /\ Len(R) = 1 + Len(Q) /\ Len(Q) \in Nat /\ Len(M) \in Nat
        /\ R[1] = m
        /\ \A i \in 1 .. Len(Q) : Q[i] = R[i + 1]
    BY SMT
  <1>2. k + Len(R) = Len(M) /\ \A i \in 1 .. Len(R) : R[i] = M[k + i]
    BY DEF IsRest
  <1>3. k + 1 <= Len(M) /\ (k + 1) + Len(Q) = Len(M) /\ 1 \in 1 .. Len(R)
    BY <1>1, <1>2
  <1>4. M[k + 1] = m
    BY <1>1, <1>2, <1>3
  <1>5. ASSUME NEW i \in 1 .. Len(Q) PROVE Q[i] = M[(k + 1) + i]
    <2>1. i + 1 \in 1 .. Len(R) /\ k + (i + 1) = (k + 1) + i
      BY <1>1
    <2> QED
      BY <1>1, <1>2, <2>1
  <1> QED
    BY <1>3, <1>4, <1>5 DEF IsRest, TakenNext

LEMMA NoRest ==
  ASSUME NEW T, NEW M \in Seq(T), NEW k \in Nat
  PROVE  /\ IsRest(<<>>, M, k) => k = Len(M)
         /\ \A m : IsRest(<<m>>, M, k) => k + 1 = Len(M)
  BY DEF IsRest

LEMMA PieceAt ==
  ASSUME l \in LoopState, out \in Seq(PieceSet), NEW off \in Nat
  PROVE  Upto(out, out \o Piece(0, off, FALSE), l.txt, l.txt + off)
  <1>1. PICK p \in Nat : p = l.txt
    BY LoopTypes
  <1>2. CASE off = 0
    <2>1. Piece(0, off, FALSE) = <<>>
      BY <1>2 DEF Piece
    <2>2. out \o Piece(0, off, FALSE) = out
      BY <2>1, ConcatEmptySeq
    <2>3. l.txt = l.txt + off
      BY <1>1, <1>2
    <2> QED
      BY <2>2, <2>3 DEF Upto
  <1>3. CASE off # 0
    <2>1. PICK b \in Nat : b = p + off
      BY <1>1
    <2>2. Piece(0, off, FALSE) = << <<p, b, FALSE>> >>
      <3>1. l.txt + 0 = p /\ l.txt + off = b /\ 0 # off
        BY <1>1, <1>3, <2>1
      <3> QED
        BY <3>1 DEF Piece
    <2>3. PICK t \in BOOLEAN : t = FALSE
      OBVIOUS
    <2>4. OnePiece(out, out \o << <<p, b, t>> >>, p, b, t)
      BY OnePieceAppended
    <2> QED
      BY <1>1, <2>1, <2>2, <2>3, <2>4 DEF Upto
  <1> QED
    BY <1>2, <1>3

LEMMA CopyAt ==
  ASSUME l \in LoopState, out \in Seq(PieceSet), NEW off \in Nat, NEW k \in Nat,
         Copy(off, k)
  PROVE  /\ l' \in LoopState /\ l'.txt = l.txt + off /\ l'.k = k /\ l'.changed = l.changed
         /\ ~ l'.matched_prev /\ l'.notbol
         /\ l'.nil_next <=> Match[2] = 0
         /\ Upto(out, out', l.txt, l.txt + off)
         /\ pc' = pc
  <1>1. PICK y : y = Advance(off, FALSE)
    OBVIOUS
  <1>2. /\ y \in LoopState /\ y.txt = l.txt + off /\ ~ y.matched_prev
        /\ y.nil_next <=> Match[2] = 0
        /\ y.notbol /\ y.changed = l.changed
    BY <1>1, AdvanceAt
  <1>3. l' = [y EXCEPT !.k = k] /\ out' = out \o Piece(0, off, FALSE) /\ pc' = pc
    BY <1>1 DEF Copy
  <1>4. /\ l' \in LoopState /\ l'.txt = y.txt /\ l'.k = k /\ l'.changed = y.changed
        /\ l'.matched_prev = y.matched_prev /\ l'.notbol = y.notbol /\ l'.nil_next = y.nil_next
    BY <1>2, <1>3 DEF LoopState
  <1> QED
    BY <1>2, <1>3, <1>4, PieceAt

LEMMA ReplaceAt ==
  ASSUME l \in LoopState, out \in Seq(PieceSet), NEW k \in Nat, Replace(k),
         NEW d \in Nat, d = Match[1], NEW e \in Nat, e = Match[2], d <= e
  PROVE  /\ l' \in LoopState /\ l'.txt = l.txt + e /\ l'.k = k
         /\ l'.changed = l.changed + 1
         /\ l'.matched_prev /\ l'.notbol
         /\ l'.nil_next <=> e = 0
         /\ \E o1 : Upto(out, o1, l.txt, l.txt + d)
                    /\ OnePiece(o1, out', l.txt + d, l.txt + e, TRUE)
         /\ pc' = pc
  <1>1. PICK y : y = Advance(e, TRUE)
    OBVIOUS
  <1>2. /\ y \in LoopState /\ y.txt = l.txt + e /\ y.matched_prev
        /\ y.nil_next <=> e = 0
        /\ y.notbol /\ y.changed = l.changed
    BY <1>1, AdvanceAt
  <1>3. /\ l' = [y EXCEPT !.k = k, !.changed = y.changed + 1] /\ pc' = pc
        /\ out' = out \o Piece(0, d, FALSE) \o Piece(d, e, TRUE)
    BY <1>1 DEF Replace
  <1>4. y.changed + 1 \in Nat
    BY <1>2, LoopTypes
  <1>5. /\ l' \in LoopState /\ l'.txt = y.txt /\ l'.k = k /\ l'.changed = y.changed + 1
        /\ l'.matched_prev = y.matched_prev /\ l'.notbol = y.notbol /\ l'.nil_next = y.nil_next
    BY <1>2, <1>3, <1>4 DEF LoopState
  <1>6. PICK o1 : o1 = out \o Piece(0, d, FALSE)
    OBVIOUS
  <1>7. Upto(out, o1, l.txt, l.txt + d)
    BY <1>6, PieceAt
  <1>8. o1 \in Seq(PieceSet)
    BY <1>7 DEF Upto, OnePiece
  <1>9. PICK a \in Nat : a = l.txt + d
    BY LoopTypes
  <1>10. PICK b \in Nat : b = l.txt + e
    BY LoopTypes
  <1>11. PICK t \in BOOLEAN : t = TRUE
    OBVIOUS
  <1>12. Piece(d, e, TRUE) = << <<a, b, t>> >>
    BY <1>9, <1>10, <1>11 DEF Piece
  <1>13. OnePiece(o1, o1 \o << <<a, b, t>> >>, a, b, t)
    BY <1>8, OnePieceAppended
  <1>14. OnePiece(o1, out', l.txt + d, l.txt + e, TRUE)
    BY <1>3, <1>6, <1>9, <1>10, <1>11, <1>12, <1>13
  <1> QED
    BY <1>2, <1>3, <1>5, <1>7, <1>14

LEMMA CharSizeIs ==
  ASSUME re \in Regex, IsLine(line), NEW part, part = Seen(re, line), l \in LoopState,
         l.txt \in 0 .. Len(part), l.txt # Len(part)
  PROVE  CharSize \in Nat /\ l.txt + CharSize = Step1(part, l.txt)
  <1>1. line \in Seq(Byte) /\ Len(line) \in Nat /\ Len(part) \in Nat /\ Len(part) <= Len(line)
        /\ \A i \in 1 .. Len(part) : part[i] = line[i]
    <2>1. PartOf(re, line, part)
      BY SeenPart
    <2> QED
      BY <2>1 DEF PartOf, IsLine
  <1>2. PICK p \in 0 .. Len(line) : p = l.txt
    BY <1>1
  <1>3. Rest = RestOf(line, p)
    BY <1>2 DEF Rest, RestOf
  <1>4. 1 \in 1 .. Len(line) - p /\ p + 1 \in 1 .. Len(part)
    BY <1>1, <1>2
  <1>5. Rest[1] = line[p + 1] /\ line[p + 1] = part[p + 1]
    BY <1>1, <1>3, <1>4, RestOfLine
  <1> QED
    BY <1>2, <1>5 DEF CharSize, Step1

\* m is the next of the matches M, and y the state after it.
LEMMA NextTaken ==
  ASSUME NEW r \in Regex, NEW s, IsLine(s), NEW x \in LoopState, NEW y \in LoopState,
         x.txt \in 0 .. Len(s), y.txt \in 0 .. Len(s), NEW m,
         Remaining(r, s, x) = <<m>> \o Remaining(r, s, y),
         NEW M, M = All(r, s), IsRest(Remaining(r, s, x), M, x.k)
  PROVE  TakenNext(M, x.k, m, Remaining(r, s, y))
  <1>1. PICK T : T = Pairs(Len(s))
    OBVIOUS
  <1>2. PICK j \in Nat : j = x.k
    BY LoopTypes
  <1>3. PICK A : A = Remaining(r, s, x)
    OBVIOUS
  <1>4. PICK B : B = Remaining(r, s, y)
    OBVIOUS
  <1>5. M \in Seq(T) /\ A \in Seq(T) /\ B \in Seq(T)
    BY <1>1, <1>3, <1>4, AllType, RemainingType
  <1>6. A = <<m>> \o B /\ IsRest(A, M, j)
    BY <1>2, <1>3, <1>4
  <1>7. TakenNext(M, j, m, B)
    BY <1>2, <1>5, <1>6, RestTaken
  <1> QED
    BY <1>2, <1>4, <1>7

\* The match, or the character after an empty one, is copied as it is: k is
\* the number of matches seen then.
LEMMA SkipStep ==
  ASSUME re \in Regex, IsLine(line),
         NEW part, part = Seen(re, line), l \in LoopState, out \in Seq(PieceSet),
         LoopOK(re, part, l), Found # {}, pc = "match",
         NEW M, M = All(re, part), NEW g \in BOOLEAN, l.changed = 0 \/ g,
         Copied(M, line, l, cur, g, out),
         IsRest(Remaining(re, part, l), M, l.k),
         NEW k \in Nat, Skip(k),
         \/ k = l.k /\ Match[2] = 0 /\ (l.matched_prev \/ ~ l.nil_next)
         \/ /\ k = l.k + 1 /\ ~ Picked(cur, k)
            /\ Match[2] # 0 \/ (~ l.matched_prev /\ l.nil_next)
  PROVE  /\ l' \in LoopState /\ out' \in Seq(PieceSet)
         /\ Copied(M, line, l', cur, g, out')
         /\ \/ pc' = "finish" /\ l'.k = Len(M)
            \/ /\ pc' = "match" /\ LoopOK(re, part, l')
               /\ IsRest(Remaining(re, part, l'), M, l'.k)
  <1>0. /\ IsLine(part) /\ Len(part) \in Nat /\ Len(line) \in Nat
        /\ \A i \in 0 .. Len(part) : i \in 0 .. Len(line) /\ (Inside(part, i) <=> Inside(line, i))
    BY SeenInside
  <1>1. PICK m : m = LeftmostLongest(Ahead(re, part, l.txt))
    OBVIOUS
  <1>2. /\ Match[2] = 0 => (AtEnd <=> l.txt = Len(part))
        /\ Ahead(re, part, l.txt) # {}
        /\ Match \in Pairs(Len(part) - l.txt)
        /\ m = <<l.txt + Match[1], l.txt + Match[2]>>
    BY <1>1, RegexecFinds
  <1>3. PICK e \in Nat : e = Match[2]
    <2>1. Match[2] \in 0 .. Len(part) - l.txt
      BY <1>2, PairsAre
    <2> QED
      BY <2>1
  <1>4. l.txt \in Nat /\ m[2] = l.txt + e /\ (m[2] = l.txt <=> e = 0)
        /\ l.matched_prev \in BOOLEAN /\ l.nil_next \in BOOLEAN /\ l.k \in Nat
    BY <1>2, <1>3, LoopTypes
  <1>5. l.txt \in 0 .. Len(part) /\ ~ Inside(part, l.txt)
        /\ l.txt \in 0 .. Len(line)
    BY <1>0 DEF LoopOK, Copied
  <1>6. M \in Seq(Pairs(Len(part))) /\ Remaining(re, part, l) \in Seq(Pairs(Len(part)))
    BY <1>0, <1>5, AllType, RemainingType
  <1>7. CASE e = 0 /\ l.txt = Len(part)
    <2>1. pc' = "finish" /\ l' = [l EXCEPT !.k = k] /\ out' = out
      BY <1>2, <1>3, <1>7 DEF Skip
    <2>2. l' \in LoopState /\ l'.k = k /\ l'.txt = l.txt /\ l'.changed = l.changed
      BY <2>1 DEF LoopState
    <2>3. /\ l.matched_prev \/ ~ l.nil_next => Remaining(re, part, l) = <<>>
          /\ ~ (l.matched_prev \/ ~ l.nil_next) => Remaining(re, part, l) = <<m>>
      BY <1>0, <1>1, <1>2, <1>4, <1>7, AtEndOfLine
    <2>4. k = Len(M)
      <3>1. CASE l.matched_prev \/ ~ l.nil_next
        BY <1>3, <1>4, <1>6, <1>7, <2>3, <3>1, NoRest
      <3>2. CASE ~ (l.matched_prev \/ ~ l.nil_next)
        BY <1>3, <1>4, <1>6, <1>7, <2>3, <3>2, NoRest
      <3> QED
        BY <3>1, <3>2
    <2>5. k = l.k \/ (k = l.k + 1 /\ k <= Len(M) /\ ~ Picked(cur, k))
      BY <1>4, <1>6, <2>4, SMT
    <2>6. Upto(out, out', l.txt, l'.txt)
      BY <2>1, <2>2 DEF Upto
    <2>7. out' \in Seq(PieceSet) /\ Copied(M, line, l', cur, g, out')
      BY <1>0, <1>5, <1>6, <2>2, <2>5, <2>6, CopiedSkip
    <2> QED
      BY <2>1, <2>2, <2>4, <2>7
  <1>8. CASE e = 0 /\ l.txt # Len(part)
    <2>1. Copy(CharSize, k)
      BY <1>2, <1>3, <1>8 DEF Skip
    <2>2. CharSize \in Nat /\ l.txt + CharSize = Step1(part, l.txt)
      BY <1>5, <1>8, CharSizeIs
    <2>3. PICK y : y = l'
      OBVIOUS
    <2>4. /\ y \in LoopState /\ y.txt = Step1(part, l.txt) /\ y.k = k /\ y.changed = l.changed
          /\ ~ y.matched_prev /\ y.notbol /\ y.nil_next
          /\ Upto(out, out', l.txt, y.txt) /\ pc' = pc
      BY <1>3, <1>8, <2>1, <2>2, <2>3, CopyAt
    <2>5. /\ LoopOK(re, part, y)
          /\ l.matched_prev \/ ~ l.nil_next =>
               Remaining(re, part, l) = Remaining(re, part, y)
          /\ ~ (l.matched_prev \/ ~ l.nil_next) =>
               Remaining(re, part, l) = <<m>> \o Remaining(re, part, y)
      BY <1>0, <1>1, <1>2, <1>4, <1>5, <1>8, <2>4, AtEmptyMatch
    <2>6. y.txt \in 0 .. Len(part) /\ ~ Inside(part, y.txt)
          /\ Remaining(re, part, y) \in Seq(Pairs(Len(part)))
      BY <1>0, <1>5, <1>8, <2>4, <2>5, StepOne, RemainingType DEF LoopOK
    <2>7. /\ k = l.k \/ (k = l.k + 1 /\ k <= Len(M) /\ ~ Picked(cur, k))
          /\ IsRest(Remaining(re, part, y), M, k)
      <3>1. CASE l.matched_prev \/ ~ l.nil_next
        <4>1. k = l.k
          BY <1>3, <1>8, <3>1
        <4> QED
          BY <2>5, <3>1, <4>1
      <3>2. CASE ~ (l.matched_prev \/ ~ l.nil_next)
        <4>1. k = l.k + 1 /\ ~ Picked(cur, k)
          BY <3>2
        <4>2. TakenNext(M, l.k, m, Remaining(re, part, y))
          BY <1>0, <1>5, <2>4, <2>5, <2>6, <3>2, NextTaken
        <4> QED
          BY <4>1, <4>2 DEF TakenNext
      <3> QED
        BY <3>1, <3>2
    <2>8. out' \in Seq(PieceSet) /\ Copied(M, line, y, cur, g, out')
      BY <1>0, <1>5, <1>6, <2>4, <2>6, <2>7, CopiedSkip
    <2> QED
      BY <2>3, <2>4, <2>5, <2>7, <2>8
  <1>9. CASE e # 0
    <2>1. Copy(e, k)
      BY <1>3, <1>9 DEF Skip
    <2>3. PICK y : y = l'
      OBVIOUS
    <2>4. /\ y \in LoopState /\ y.txt = m[2] /\ y.k = k /\ y.changed = l.changed
          /\ ~ y.matched_prev /\ y.notbol /\ ~ y.nil_next
          /\ Upto(out, out', l.txt, y.txt) /\ pc' = pc
      BY <1>3, <1>4, <1>9, <2>1, <2>3, CopyAt
    <2>5. /\ LoopOK(re, part, y)
          /\ Remaining(re, part, l) = <<m>> \o Remaining(re, part, y)
          /\ ~ Inside(part, y.txt)
      BY <1>0, <1>1, <1>2, <1>4, <1>9, <2>4, OverMatch
    <2>6. y.txt \in 0 .. Len(part) /\ Remaining(re, part, y) \in Seq(Pairs(Len(part)))
      BY <1>0, <2>5, RemainingType DEF LoopOK
    <2>7. /\ k = l.k + 1 /\ k <= Len(M) /\ ~ Picked(cur, k)
          /\ IsRest(Remaining(re, part, y), M, k)
      <3>1. k = l.k + 1 /\ ~ Picked(cur, k)
        BY <1>3, <1>9
      <3>2. TakenNext(M, l.k, m, Remaining(re, part, y))
        BY <1>0, <1>5, <2>4, <2>5, <2>6, NextTaken
      <3> QED
        BY <3>1, <3>2 DEF TakenNext
    <2>8. out' \in Seq(PieceSet) /\ Copied(M, line, y, cur, g, out')
      BY <1>0, <1>5, <1>6, <2>4, <2>5, <2>6, <2>7, CopiedSkip
    <2> QED
      BY <2>3, <2>4, <2>5, <2>7, <2>8
  <1> QED
    BY <1>7, <1>8, <1>9

\* The match is replaced.
LEMMA ReplaceStep ==
  ASSUME re \in Regex, IsLine(line),
         NEW part, part = Seen(re, line), l \in LoopState, out \in Seq(PieceSet),
         LoopOK(re, part, l), Found # {}, pc = "match",
         NEW M, M = All(re, part), NEW g \in BOOLEAN, l.changed = 0 \/ g,
         Copied(M, line, l, cur, g, out),
         IsRest(Remaining(re, part, l), M, l.k),
         Replace(l.k + 1), Picked(cur, l.k + 1),
         Match[2] # 0 \/ (~ l.matched_prev /\ l.nil_next)
  PROVE  /\ l' \in LoopState /\ out' \in Seq(PieceSet)
         /\ Copied(M, line, l', cur, g, out')
         /\ pc' = "match" /\ LoopOK(re, part, l')
         /\ IsRest(Remaining(re, part, l'), M, l'.k)
  <1>0. /\ IsLine(part) /\ Len(part) \in Nat /\ Len(line) \in Nat
        /\ \A i \in 0 .. Len(part) : i \in 0 .. Len(line) /\ (Inside(part, i) <=> Inside(line, i))
    BY SeenInside
  <1>1. PICK m : m = LeftmostLongest(Ahead(re, part, l.txt))
    OBVIOUS
  <1>2. /\ Ahead(re, part, l.txt) # {}
        /\ Match \in Pairs(Len(part) - l.txt)
        /\ m = <<l.txt + Match[1], l.txt + Match[2]>>
    BY <1>1, RegexecFinds
  <1>3. Match[1] \in Nat /\ Match[2] \in Nat /\ Match[1] <= Match[2]
    <2>1. Match[1] \in 0 .. Len(part) - l.txt /\ Match[2] \in 0 .. Len(part) - l.txt
          /\ Match[1] <= Match[2]
      BY <1>2, PairsAre
    <2> QED
      BY <2>1
  <1>4. PICK d \in Nat : d = Match[1]
    BY <1>3
  <1>5. PICK e \in Nat : e = Match[2]
    BY <1>3
  <1>6. PICK a \in Nat : a = l.txt + d
    BY LoopTypes
  <1>7. PICK b \in Nat : b = l.txt + e
    BY LoopTypes
  <1>8. m = <<a, b>> /\ m[1] = a /\ m[2] = b /\ l.txt \in Nat /\ (m[2] = l.txt <=> e = 0)
    BY <1>2, <1>4, <1>5, <1>6, <1>7, LoopTypes
  <1>9. l.txt \in 0 .. Len(part) /\ ~ Inside(part, l.txt)
        /\ l.txt \in 0 .. Len(line)
    BY <1>0 DEF LoopOK, Copied
  <1>10. PICK y : y = l'
    OBVIOUS
  <1>11. l.k + 1 \in Nat /\ d <= e
    BY <1>3, <1>4, <1>5, LoopTypes
  <1>12. /\ y \in LoopState /\ y.txt = b /\ y.k = l.k + 1 /\ y.changed = l.changed + 1
         /\ y.matched_prev /\ y.notbol /\ pc' = pc
         /\ y.nil_next <=> e = 0
         /\ \E o1 : Upto(out, o1, l.txt, a) /\ OnePiece(o1, out', a, b, TRUE)
    BY ZenonT(60), <1>4, <1>5, <1>6, <1>7, <1>10, <1>11, ReplaceAt
  <1>13. /\ LoopOK(re, part, y)
         /\ Remaining(re, part, l) = <<m>> \o Remaining(re, part, y)
         /\ ~ Inside(part, a) /\ ~ Inside(part, b)
    <2>1. CASE e = 0
      <3>1. /\ LoopOK(re, part, y) /\ m = <<l.txt, l.txt>>
            /\ Remaining(re, part, l) = <<m>> \o Remaining(re, part, y)
        BY ZenonT(60), <1>0, <1>1, <1>2, <1>5, <1>8, <1>9, <1>12, <2>1, AtEmptyMatch
      <3>2. a = l.txt /\ b = l.txt
        BY <1>8, <3>1
      <3> QED
        BY <1>9, <3>1, <3>2
    <2>2. CASE e # 0
      <3>1. m[2] # l.txt /\ y.txt = m[2] /\ ~ y.nil_next
        BY <1>8, <1>12, <2>2
      <3>2. /\ LoopOK(re, part, y)
            /\ Remaining(re, part, l) = <<m>> \o Remaining(re, part, y)
            /\ ~ Inside(part, m[1]) /\ ~ Inside(part, m[2])
        BY ZenonT(60), <1>0, <1>1, <1>2, <1>12, <3>1, OverMatch
      <3> QED
        BY <1>8, <3>2
    <2> QED
      BY <2>1, <2>2
  <1>14. y.txt \in 0 .. Len(part)
    BY <1>13 DEF LoopOK
  <1>15. /\ l.k + 1 <= Len(M) /\ M[l.k + 1] = m
         /\ IsRest(Remaining(re, part, y), M, l.k + 1)
    <2>1. TakenNext(M, l.k, m, Remaining(re, part, y))
      BY <1>0, <1>9, <1>12, <1>13, <1>14, NextTaken
    <2> QED
      BY <2>1 DEF TakenNext
  <1>16. PICK o1 : Upto(out, o1, l.txt, a) /\ OnePiece(o1, out', a, b, TRUE)
    BY <1>12
  <1>17. M \in Seq(Pairs(Len(part)))
    BY <1>0, AllType
  <1>19. a \in 0 .. Len(part) /\ b \in 0 .. Len(part)
    BY <1>0, <1>3, <1>4, <1>5, <1>6, <1>7, <1>9, <1>12, <1>14, SMT
  <1>20. b \in 0 .. Len(line) /\ ~ Inside(line, a) /\ ~ Inside(line, b)
    BY <1>0, <1>13, <1>19
  <1>18. out' \in Seq(PieceSet) /\ Copied(M, line, y, cur, g, out')
    <2>1. M[y.k] = <<a, b>> /\ y.k <= Len(M) /\ Picked(cur, y.k)
      BY <1>8, <1>12, <1>15
    <2> QED
      BY ZenonT(60), <1>0, <1>9, <1>12, <1>16, <1>17, <1>20, <2>1, CopiedReplace
  <1> QED
    BY <1>10, <1>12, <1>13, <1>15, <1>18

\* What an iteration of substitute_matching () leaves.
LEMMA MatchStep ==
  ASSUME IInv, substitute_matching, NEW part, part = Seen(re, line), NEW M, M = All(re, part),
         NEW g \in BOOLEAN, g = ("GSUB" \in subst.f)
  PROVE  /\ UNCHANGED <<subst, re, sel, line, n, cur>>
         /\ l' \in LoopState /\ out' \in Seq(PieceSet)
         /\ \/ pc' = "fpe"
            \/ pc' = "finish" /\ Copied(M, line, l', cur, g, out') /\ l'.k = Len(M)
            \/ /\ pc' = "match" /\ Copied(M, line, l', cur, g, out')
               /\ LoopOK(re, part, l')
               /\ IsRest(Remaining(re, part, l'), M, l'.k)
  <1>1. /\ pc = "match" /\ Found # {} /\ Goes /\ TypeInv /\ MatchInv
        /\ UNCHANGED <<subst, re, sel, line, n, cur>>
    BY DEF substitute_matching, IInv
  <1>2. /\ re \in Regex /\ IsLine(line) /\ IsLine(part) /\ l \in LoopState /\ out \in Seq(PieceSet)
    BY <1>1, LinesAre, RegexesAre, SeenIsLine DEF TypeInv
  <1>3. /\ LoopOK(re, part, l) /\ IsRest(Remaining(re, part, l), M, l.k)
        /\ Copied(M, line, l, cur, g, out)
    BY <1>1 DEF MatchInv
  <1>4. l.changed = 0 \/ g
    BY <1>1 DEF Goes
  <1>5. l.k \in Nat /\ l.k + 1 \in Nat /\ l.matched_prev \in BOOLEAN /\ l.nil_next \in BOOLEAN
    BY <1>2, LoopTypes
  <1>6. \A k : Selected(k) <=> Picked(cur, k)
    BY DEF Selected, Picked
  <1>7. InfiniteLoop => (AtEnd <=> l.txt = Len(part)) /\ Match[2] = 0
    BY <1>1, <1>2, <1>3, RegexecFinds DEF InfiniteLoop
  <1>8. CASE InfiniteLoop /\ AtEnd
    <2>1. pc' = "finish" /\ l' = l /\ out' = out
      BY <1>1, <1>5, <1>8 DEF substitute_matching
    <2>2. /\ Ahead(re, part, l.txt) # {}
          /\ LeftmostLongest(Ahead(re, part, l.txt)) = <<l.txt + Match[1], l.txt + Match[2]>>
      BY <1>1, <1>2, <1>3, RegexecFinds
    <2>3. PICK m : m = LeftmostLongest(Ahead(re, part, l.txt))
      OBVIOUS
    <2>4. m[2] = l.txt /\ l.matched_prev
      BY <1>2, <1>8, <2>2, <2>3, LoopTypes DEF InfiniteLoop
    <2>5. Remaining(re, part, l) = <<>>
      BY <1>2, <1>3, <1>7, <1>8, <2>2, <2>3, <2>4, AtEndOfLine
    <2>6. l.k = Len(M)
      BY <1>2, <1>3, <1>5, <2>5, AllType, NoRest
    <2> QED
      BY <1>1, <1>2, <1>3, <2>1, <2>6
  <1>9. CASE InfiniteLoop /\ ~ AtEnd
    <2>1. Copy(CharSize, l.k)
      BY <1>5, <1>9 DEF substitute_matching
    <2>2. Match[2] = 0 /\ l.matched_prev
      BY <1>9 DEF InfiniteLoop
    <2>3. Skip(l.k)
      BY <1>9, <2>1, <2>2 DEF Skip
    <2> QED
      BY <1>1, <1>2, <1>3, <1>4, <1>5, <2>2, <2>3, SkipStep
  <1>10. CASE ~ InfiniteLoop /\ ~ Counts
    <2>1. Skip(l.k)
      BY <1>5, <1>10 DEF substitute_matching
    <2>2. Match[2] = 0 /\ ~ l.nil_next
      BY <1>10 DEF Counts
    <2> QED
      BY <1>1, <1>2, <1>3, <1>4, <1>5, <2>1, <2>2, SkipStep
  <1>11. CASE ~ InfiniteLoop /\ Counts
    <2>1. Match[2] # 0 \/ (~ l.matched_prev /\ l.nil_next)
      BY <1>5, <1>11 DEF InfiniteLoop, Counts
    <2>2. \/ pc' = "fpe" /\ UNCHANGED <<l, out>>
          \/ cur.mod # 0 /\ Selected(l.k + 1) /\ Replace(l.k + 1)
          \/ l.k + 1 < cur.nth /\ Skip(l.k + 1)
          \/ ~ Selected(l.k + 1) /\ Skip(l.k + 1)
      BY <1>5, <1>11 DEF substitute_matching
    <2>3. CASE pc' = "fpe" /\ UNCHANGED <<l, out>>
      BY <1>1, <1>2, <2>3
    <2>4. CASE Selected(l.k + 1) /\ Replace(l.k + 1)
      BY <1>1, <1>2, <1>3, <1>4, <1>6, <2>1, <2>4, ReplaceStep
    <2>5. CASE (l.k + 1 < cur.nth \/ ~ Selected(l.k + 1)) /\ Skip(l.k + 1)
      <3>1. cur.nth \in Int
        BY <1>1 DEF TypeInv
      <3>2. ~ Picked(cur, l.k + 1)
        BY <1>5, <1>6, <2>5, <3>1 DEF Picked
      <3> QED
        BY <1>1, <1>2, <1>3, <1>4, <1>5, <2>1, <2>5, <3>2, SkipStep
    <2> QED
      BY <2>2, <2>3, <2>4, <2>5
  <1> QED
    BY <1>8, <1>9, <1>10, <1>11

----------------------------------------------------------------------------
(* The match and the frequency asked for. *)

\* f and m of the command c, where count matches have been counted.
FirstOf(c, count) == IF "SNLR" \in c.f THEN c.nth + count
                     ELSE IF c.nth = 0 THEN 1 ELSE c.nth
EveryOf(c, count) == IF "SMLR" \in c.f THEN c.mod + count
                     ELSE IF c.mod = 0 THEN 1 ELSE c.mod

LEMMA FirstIs ==
  ASSUME subst \in Params, sel \in Modifiers, StandsFor(subst, sel), NEW N \in Nat
  PROVE  /\ FirstOf(subst, N) = First(N) /\ EveryOf(subst, N) = Every(N)
         /\ First(N) \in Int /\ Every(N) \in Int
         /\ "SNLR" \notin subst.f => First(N) >= 1
         /\ FromLast <=> subst.f \cap {"SNLR", "SMLR"} # {}
  <1>1. sel.nth \in Optional /\ sel.mod \in Optional /\ subst.nth \in Int /\ subst.mod \in Int
    BY DEF Modifiers, Params
  <1>2. /\ subst.nth = address_offset(sel.nth) /\ subst.mod = address_offset(sel.mod)
        /\ "SNLR" \in subst.f <=> Relative(sel.last, sel.nth)
        /\ "SMLR" \in subst.f <=> Relative(sel.mlast, sel.mod)
    BY DEF StandsFor
  <1>3. FromLast <=> subst.f \cap {"SNLR", "SMLR"} # {}
    <2>1. FromLast <=> "SNLR" \in subst.f \/ "SMLR" \in subst.f
      BY <1>2 DEF FromLast
    <2> QED
      BY <2>1
  <1>4. /\ FirstOf(subst, N) = First(N) /\ First(N) \in Int
        /\ "SNLR" \notin subst.f => First(N) >= 1
    <2>1. CASE "SNLR" \in subst.f
      BY <1>1, <1>2, <2>1 DEF FirstOf, First
    <2>2. CASE "SNLR" \notin subst.f /\ sel.nth = <<>>
      BY <1>1, <1>2, <2>2 DEF FirstOf, First, address_offset
    <2>3. CASE "SNLR" \notin subst.f /\ sel.nth # <<>>
      <3>1. PICK i \in Int : i = sel.nth[1]
        BY <1>1, <2>3, OptionalType
      <3>2. i > 0 /\ subst.nth = i
        BY <1>2, <2>3, <3>1 DEF Relative, address_offset
      <3>3. First(N) = i
        BY <1>2, <2>3, <3>1 DEF First
      <3>4. FirstOf(subst, N) = i
        BY <2>3, <3>2 DEF FirstOf
      <3> QED
        BY <3>2, <3>3, <3>4
    <2> QED
      BY <2>1, <2>2, <2>3
  <1>5. EveryOf(subst, N) = Every(N) /\ Every(N) \in Int
    <2>1. CASE "SMLR" \in subst.f
      BY <1>1, <1>2, <2>1 DEF EveryOf, Every
    <2>2. CASE "SMLR" \notin subst.f /\ sel.mod = <<>>
      BY <1>1, <1>2, <2>2 DEF EveryOf, Every, address_offset
    <2>3. CASE "SMLR" \notin subst.f /\ sel.mod # <<>>
      <3>1. PICK i \in Int : i = sel.mod[1]
        BY <1>1, <2>3, OptionalType
      <3>2. i > 0 /\ subst.mod = i
        BY <1>2, <2>3, <3>1 DEF Relative, address_offset
      <3>3. Every(N) = i
        BY <1>2, <2>3, <3>1 DEF Every
      <3>4. EveryOf(subst, N) = i
        BY <2>3, <3>2 DEF EveryOf
      <3> QED
        BY <3>2, <3>3, <3>4
    <2> QED
      BY <2>1, <2>2, <2>3
  <1> QED
    BY <1>3, <1>4, <1>5

\* Nothing is chosen where select gives up.
LEMMA NoneChosen ==
  ASSUME subst \in Params, sel \in Modifiers, StandsFor(subst, sel), NEW N \in Nat,
         subst.f \cap {"SNLR", "SMLR"} # {}, N <= Abs(subst.nth), ~ TooFew(N)
  PROVE  Chosen(N) = {}
  <1>1. PICK o \in Int : o = subst.nth
    BY DEF Params
  <1>2. o = address_offset(sel.nth)
    BY <1>1 DEF StandsFor
  <1>3. "SMLR" \notin subst.f
    BY <1>1, <1>2 DEF TooFew, StandsFor
  <1>4. "SNLR" \in subst.f
    BY <1>3
  <1>5. First(N) = N + o
    BY <1>2, <1>4 DEF StandsFor, First
  <1>6. N <= Abs(o)
    BY <1>1
  <1>7. First(N) <= 0 \/ First(N) > N
    BY <1>5, <1>6 DEF Abs
  <1> QED
    BY <1>1, <1>5, <1>7 DEF Chosen

\* The matches picked are those chosen.
LEMMA PickedAreChosen ==
  ASSUME subst \in Params, sel \in Modifiers, StandsFor(subst, sel), cur \in [nth : Int, mod : Int],
         NEW N \in Nat, n \in Nat, CurOK, FromLast => n = N, sel.g => Every(N) > 0,
         NEW k \in 0 .. N,
         sel.g => k = N,
         ~ sel.g => \A i \in 1 .. k - 1 : ~ Picked(cur, i),
         (\A i \in 1 .. k : ~ Picked(cur, i)) => k = N
  PROVE  {i \in 1 .. k : Picked(cur, i)} = Chosen(N)
  <1>1. PICK F \in Int : F = First(N)
    BY FirstIs
  <1>2. PICK E \in Int : E = Every(N)
    BY FirstIs
  <1>3. F >= 1 /\ cur.nth = F
    <2>1. CASE "SNLR" \in subst.f
      <3>1. n = N /\ N > Abs(subst.nth) /\ cur.nth = subst.nth + N
        BY <2>1, FirstIs DEF CurOK
      <3>2. F = subst.nth + N
        BY <1>1, <2>1, FirstIs DEF FirstOf
      <3>3. PICK o \in Int : o = subst.nth
        BY DEF Params
      <3>4. N > Abs(o) /\ F = o + N
        BY <3>1, <3>2, <3>3
      <3>5. F >= 1
        BY <3>4 DEF Abs
      <3> QED
        BY <3>1, <3>2, <3>5
    <2>2. CASE "SNLR" \notin subst.f
      BY <1>1, <2>2, FirstIs DEF CurOK, FirstOf
    <2> QED
      BY <2>1, <2>2
  <1>4. cur.mod = E
    <2>1. CASE "SMLR" \in subst.f
      <3>1. n = N
        BY <2>1, FirstIs
      <3> QED
        BY <1>2, <2>1, <3>1, FirstIs DEF CurOK, EveryOf
    <2>2. CASE "SMLR" \notin subst.f
      BY <1>2, <2>2, FirstIs DEF CurOK, EveryOf
    <2> QED
      BY <2>1, <2>2
  <1>5. \A i : Picked(cur, i) <=> i >= F /\ IF E > 0 THEN (i - F) % E = 0 ELSE i = F
    BY <1>3, <1>4 DEF Picked
  <1>6. CASE sel.g
    <2>1. Chosen(N) = {i \in 1 .. N : i >= F /\ (i - F) % E = 0}
      BY <1>1, <1>2, <1>3, <1>6 DEF Chosen
    <2>2. E > 0
      BY <1>2, <1>6
    <2> QED
      BY <1>5, <1>6, <2>1, <2>2
  <1>7. CASE ~ sel.g
    <2>1. Chosen(N) = {i \in 1 .. N : i = F}
      BY <1>1, <1>3, <1>7 DEF Chosen
    <2>2. Picked(cur, F)
      <3>1. F - F = 0
        OBVIOUS
      <3>2. E > 0 => 0 % E = 0
        OBVIOUS
      <3> QED
        BY <1>5, <3>1, <3>2
    <2>3. \A i \in Int : Picked(cur, i) => i >= F
      BY <1>5
    <2>4. CASE \A i \in 1 .. k : ~ Picked(cur, i)
      <3>1. k = N
        BY <2>4
      <3>2. F \notin 1 .. N
        BY <2>2, <2>4, <3>1
      <3> QED
        BY <2>1, <2>4, <3>2
    <2>5. CASE ~ \A i \in 1 .. k : ~ Picked(cur, i)
      <3>1. PICK j \in 1 .. k : Picked(cur, j)
        BY <2>5
      <3>2. j >= F /\ F \in 1 .. k
        BY <1>3, <2>3, <3>1
      <3>3. \A i \in 1 .. k - 1 : ~ Picked(cur, i)
        BY <1>7
      <3>4. F = k
        BY <2>2, <3>2, <3>3
      <3>5. \A i \in 1 .. k : Picked(cur, i) <=> i = F
        BY <2>2, <3>3, <3>4
      <3> QED
        BY <2>1, <3>4, <3>5
    <2> QED
      BY <2>4, <2>5
  <1>8. sel.g \in BOOLEAN
    BY DEF Modifiers
  <1> QED
    BY <1>6, <1>7, <1>8

----------------------------------------------------------------------------
(* The actions. *)

LEMMA SelectStep ==
  ASSUME IInv, select
  PROVE  /\ UNCHANGED <<subst, re, sel, line, n, out>>
         /\ cur' \in [nth : Int, mod : Int] /\ l' \in LoopState
         /\ \/ /\ pc' = "done" /\ subst.f \cap {"SNLR", "SMLR"} # {}
               /\ n <= Abs(subst.nth)
            \/ /\ pc' = "match" /\ CurOK' /\ l' = Loop0
  <1>1. /\ pc = "select" /\ TypeInv /\ UNCHANGED <<subst, re, sel, line, n, out>>
    BY DEF select, IInv
  <1>2. /\ subst.nth \in Int /\ subst.mod \in Int /\ n \in Nat
        /\ cur \in [nth : Int, mod : Int] /\ l \in LoopState
    BY <1>1 DEF TypeInv, Params
  <1>3. CASE subst.f \cap {"SNLR", "SMLR"} # {} /\ n <= Abs(subst.nth)
    BY <1>1, <1>2, <1>3 DEF select
  <1>4. CASE ~ (subst.f \cap {"SNLR", "SMLR"} # {} /\ n <= Abs(subst.nth))
    <2>1. PICK a \in Int : a = IF "SNLR" \in subst.f THEN subst.nth + n
                               ELSE IF subst.nth = 0 THEN 1 ELSE subst.nth
      BY <1>2
    <2>2. PICK b \in Int : b = IF "SMLR" \in subst.f THEN subst.mod + n
                               ELSE IF subst.mod = 0 THEN 1 ELSE subst.mod
      BY <1>2
    <2>3. cur' = [nth |-> a, mod |-> b] /\ l' = Loop0 /\ pc' = "match"
      BY <1>1, <1>4, <2>1, <2>2 DEF select
    <2>4. cur' \in [nth : Int, mod : Int] /\ cur'.nth = a /\ cur'.mod = b
      BY <2>3
    <2>5. Loop0 \in LoopState
      BY DEF Loop0, LoopState
    <2>6. subst.f \cap {"SNLR", "SMLR"} # {} => n > Abs(subst.nth)
      <3>1. Abs(subst.nth) \in Int
        BY <1>2 DEF Abs
      <3> QED
        BY <1>2, <1>4, <3>1
    <2>7. CurOK'
      BY <1>1, <2>1, <2>2, <2>4, <2>6 DEF CurOK
    <2> QED
      BY <1>1, <2>3, <2>4, <2>5, <2>7
  <1> QED
    BY <1>3, <1>4

LEMMA NothingReplaced == Replaced(<<>>) = {}
  <1>1. DOMAIN <<>> = {}
    OBVIOUS
  <1> QED
    BY <1>1, ReplacedAt

LEMMA CopiedNothing ==
  ASSUME NEW r \in Regex, NEW s, IsLine(s), NEW part, part = Seen(r, s), NEW c, NEW g
  PROVE  /\ Copied(All(r, part), s, Loop0, c, g, <<>>)
         /\ IsRest(Remaining(r, part, Loop0), All(r, part), Loop0.k)
  <1>1. /\ LoopOK(r, part, Loop0) /\ Remaining(r, part, Loop0) = All(r, part)
        /\ Loop0.k = 0 /\ Loop0.changed = 0 /\ Loop0.txt = 0 /\ ~ Inside(s, 0)
    BY LoopZero, SeenIsLine
  <1>2. All(r, part) \in Seq(Pairs(Len(part))) /\ Len(All(r, part)) \in Nat /\ Len(s) \in Nat
    BY AllType, SeenIsLine DEF IsLine
  <1>3. Covers(<<>>, s, 0)
    BY DEF Covers
  <1>4. {i \in 1 .. 0 : Picked(c, i)} = {} /\ 1 .. 0 = {} /\ 1 .. 0 - 1 = {}
    OBVIOUS
  <1>5. Copied(All(r, part), s, Loop0, c, g, <<>>)
    BY <1>1, <1>2, <1>3, <1>4, NothingReplaced DEF Copied
  <1>6. IsRest(All(r, part), All(r, part), 0)
    BY <1>2 DEF IsRest
  <1> QED
    BY <1>1, <1>5, <1>6

LEMMA FinishStep ==
  ASSUME IInv, finish
  PROVE  /\ UNCHANGED <<subst, re, sel, line, n, cur, l>> /\ pc' = "done"
         /\ out' \in Seq(PieceSet)
         /\ out' # <<>> => Covers(out', line, Len(line))
         /\ Replaced(out') = {All(re, Seen(re, line))[i] : i \in {i \in 1 .. l.k : Picked(cur, i)}}
  <1>1. /\ pc = "finish" /\ TypeInv /\ MatchInv /\ pc' = "done"
        /\ UNCHANGED <<subst, re, sel, line, n, cur, l>>
        /\ out' = IF l.changed = 0 THEN <<>> ELSE out \o Piece(0, Len(Rest), FALSE)
    BY DEF finish, IInv
  <1>2. /\ re \in Regex /\ IsLine(line) /\ l \in LoopState /\ out \in Seq(PieceSet)
    BY <1>1, LinesAre, RegexesAre DEF TypeInv
  <1>3. Copied(All(re, Seen(re, line)), line, l, cur, "GSUB" \in subst.f, out)
    BY <1>1 DEF MatchInv
  <1>4. /\ l.txt \in 0 .. Len(line) /\ Covers(out, line, l.txt) /\ ~ Inside(line, l.txt)
        /\ Replaced(out) = {All(re, Seen(re, line))[i] : i \in {i \in 1 .. l.k : Picked(cur, i)}}
        /\ l.changed = 0 => \A i \in 1 .. l.k : ~ Picked(cur, i)
    BY <1>3 DEF Copied
  <1>5. CASE l.changed = 0
    <2>1. out' = <<>>
      BY <1>1, <1>5
    <2>2. {i \in 1 .. l.k : Picked(cur, i)} = {}
      BY <1>4, <1>5
    <2>3. Replaced(out') = {}
      BY <2>1, NothingReplaced
    <2>4. out' \in Seq(PieceSet)
      BY <2>1
    <2> QED
      BY <1>1, <2>1, <2>2, <2>3, <2>4
  <1>6. CASE l.changed # 0
    <2>1. PICK p \in 0 .. Len(line) : p = l.txt
      BY <1>4
    <2>2. line \in Seq(Byte) /\ Len(line) \in Nat
      BY <1>2 DEF IsLine
    <2>3. Rest = RestOf(line, p)
      BY <2>1 DEF Rest, RestOf
    <2>4. PICK d \in Nat : d = Len(Rest)
      BY <2>2, <2>3, RestOfLine
    <2>5. l.txt + d = Len(line) /\ l.txt \in Nat
      BY SMTT(30), <2>1, <2>2, <2>3, <2>4, RestOfLine
    <2>6. out' = out \o Piece(0, d, FALSE)
      BY <1>1, <1>6, <2>4
    <2>7. Upto(out, out', l.txt, Len(line))
      BY <1>2, <2>5, <2>6, PieceAt
    <2>8. out' \in Seq(PieceSet) /\ Covers(out', line, Len(line)) /\ Replaced(out') = Replaced(out)
      BY <1>2, <1>4, <2>2, <2>5, <2>7, UptoCovers
    <2> QED
      BY <1>1, <1>4, <2>8
  <1> QED
    BY <1>5, <1>6

\* What is replaced is what was chosen.
LEMMA FinishChosen ==
  ASSUME IInv, pc = "finish", NEW M, M = All(re, Seen(re, line)), NEW N, N = Len(M),
         ~ (HasWide(Seen(re, line)) /\ FromLast), sel.g => Every(N) > 0
  PROVE  {i \in 1 .. l.k : Picked(cur, i)} = Chosen(N)
  <1>1. /\ TypeInv /\ MatchInv /\ SelectInv /\ StandsFor(subst, sel)
    BY DEF IInv
  <1>2. /\ re \in Regex /\ IsLine(line) /\ IsLine(Seen(re, line)) /\ l \in LoopState /\ n \in Nat
        /\ subst \in Params /\ sel \in Modifiers /\ cur \in [nth : Int, mod : Int]
    BY <1>1, LinesAre, RegexesAre, SeenIsLine DEF TypeInv
  <1>3. N \in Nat /\ l.k \in Nat
    BY <1>2, AllType, LoopTypes
  <1>4. /\ Copied(M, line, l, cur, "GSUB" \in subst.f, out) /\ CurOK
        /\ Goes => l.k = N
    BY <1>1 DEF MatchInv
  <1>5. FromLast => n = N
    BY <1>1 DEF SelectInv, CountOK
  <1>6. "GSUB" \in subst.f <=> sel.g
    BY <1>1 DEF StandsFor
  <1>7. l.k \in 0 .. N
    BY <1>3, <1>4 DEF Copied
  <1>8. sel.g => l.k = N
    BY <1>4, <1>6 DEF Goes
  <1>9. ~ sel.g => \A i \in 1 .. l.k - 1 : ~ Picked(cur, i)
    BY <1>4, <1>6 DEF Copied
  <1>10. (\A i \in 1 .. l.k : ~ Picked(cur, i)) => l.k = N
    BY <1>4 DEF Copied, Goes
  <1> QED
    BY <1>1, <1>2, <1>3, <1>4, <1>5, <1>7, <1>8, <1>9, <1>10, PickedAreChosen

LEMMA InitInv == Init => IInv
  <1> SUFFICES ASSUME Init PROVE IInv
    OBVIOUS
  <1>1. /\ subst = substitution_modifiers(NoModifiers) /\ re = "none" /\ sel = NoModifiers
        /\ line = <<>> /\ n = 0 /\ l = Loop0 /\ out = <<>>
        /\ cur = [nth |-> 0, mod |-> 0] /\ pc = "prompt"
    BY DEF Init
  <1>2. NoModifiers \in Modifiers
    BY DEF NoModifiers, Modifiers, Optional
  <1>3. subst \in Params /\ StandsFor(subst, sel)
    BY <1>1, <1>2, FullCommand
  <1>4. Loop0 \in LoopState
    BY DEF Loop0, LoopState
  <1>5. out \in Seq(PieceSet) /\ cur \in [nth : Int, mod : Int]
    BY <1>1
  <1>6. TypeInv
    BY <1>1, <1>2, <1>3, <1>4, <1>5 DEF TypeInv
  <1> QED
    BY <1>1, <1>3, <1>6 DEF IInv, CountInv, SelectInv, MatchInv, DoneInv

LEMMA NextInv == IInv /\ [Next]_vars => IInv'
  <1> SUFFICES ASSUME IInv, [Next]_vars PROVE IInv'
    OBVIOUS
  <1>1. /\ TypeInv /\ StandsFor(subst, sel) /\ CountInv /\ SelectInv /\ MatchInv /\ DoneInv
    BY DEF IInv
  <1>2. /\ subst \in Params /\ sel \in Modifiers /\ n \in Nat /\ cur \in [nth : Int, mod : Int]
        /\ l \in LoopState /\ out \in Seq(PieceSet) /\ IsLine(line)
        /\ re \in Regexes \cup {"none"} /\ line \in Lines \cup {<<>>}
        /\ pc # "prompt" => re \in Regexes /\ re \in Regex /\ IsLine(Seen(re, line))
    BY <1>1, LinesAre, RegexesAre, SeenIsLine DEF TypeInv
  <1>3. ASSUME NEW r \in Regexes, NEW m \in FullForm, s_cmd(r, m) PROVE IInv'
    <2>1. m \in Modifiers
      BY DEF FullForm
    <2>2. /\ subst' = substitution_modifiers(m) /\ re' = r /\ sel' = m /\ pc' = "lines"
          /\ UNCHANGED <<line, n, cur, l, out>>
      BY <1>3 DEF s_cmd
    <2>3. subst' \in Params /\ StandsFor(subst', sel')
      BY <2>1, <2>2, FullCommand
    <2>4. TypeInv'
      BY <1>2, <2>1, <2>2, <2>3 DEF TypeInv
    <2> QED
      BY <2>2, <2>3, <2>4 DEF IInv, CountInv, SelectInv, MatchInv, DoneInv
  <1>4. ASSUME NEW m \in ShortForm, NEW again \in BOOLEAN, s_cmd_short(m, again) PROVE IInv'
    <2>1. /\ subst' = resubstitute(subst, m, again) /\ sel' = Effect(sel, m, again) /\ pc' = "lines"
          /\ re # "none"
          /\ UNCHANGED <<re, line, n, cur, l, out>>
      BY <1>4 DEF s_cmd_short
    <2>2. subst' \in Params /\ sel' \in Modifiers /\ StandsFor(subst', sel')
      BY <1>1, <1>2, <2>1, RepeatedCommand
    <2>3. TypeInv'
      BY <1>2, <2>1, <2>2 DEF TypeInv
    <2> QED
      BY <2>1, <2>2, <2>3 DEF IInv, CountInv, SelectInv, MatchInv, DoneInv
  <1>5. ASSUME NEW s \in Lines, next_line(s) PROVE IInv'
    <2>1. /\ pc = "lines" /\ line' = s /\ n' = 0 /\ l' = Loop0 /\ out' = <<>> /\ pc' = "count"
          /\ UNCHANGED <<subst, re, sel, cur>>
      BY <1>5 DEF next_line
    <2>2. IsLine(s) /\ re \in Regex
      BY <1>2, <2>1, LinesAre
    <2>8. PICK part : part = Seen(re, s)
      OBVIOUS
    <2>9. IsLine(part)
      BY <2>2, <2>8, SeenIsLine
    <2>3. /\ Loop0 \in LoopState /\ LoopOK(re, part, Loop0)
          /\ Remaining(re, part, Loop0) = All(re, part) /\ Loop0.nil_next
      BY <2>2, <2>9, LoopZero
    <2>4. out' \in Seq(PieceSet)
      BY <2>1
    <2>5. TypeInv'
      BY <1>2, <2>1, <2>3, <2>4 DEF TypeInv
    <2>6. CountOK(re, part, 0 + Len(Remaining(re, part, Loop0)))
      <3>1. PICK a \in Nat : a = Len(All(re, part))
        BY <2>2, <2>9, AllType
      <3>2. 0 + a = a /\ a >= a
        OBVIOUS
      <3> QED
        BY <2>3, <3>1, <3>2 DEF CountOK
    <2>7. CountInv'
      BY <2>1, <2>3, <2>6, <2>8 DEF CountInv
    <2> QED
      BY <1>1, <2>1, <2>5, <2>7 DEF IInv, SelectInv, MatchInv, DoneInv
  <1>6. CASE count_matches
    <2>1. /\ UNCHANGED <<subst, re, sel, line, cur, out>>
          /\ l' \in LoopState /\ n' \in Nat
          /\ \/ /\ pc' = "select" /\ CountOK(re, Seen(re, line), n')
             \/ /\ pc' = "count" /\ LoopOK(re, Seen(re, line), l')
                /\ l'.nil_next \/ l'.matched_prev
                /\ CountOK(re, Seen(re, line), n' + Len(Remaining(re, Seen(re, line), l')))
      BY <1>6, CountStep
    <2>2. pc = "count" /\ out = <<>>
      BY <1>1, <1>6 DEF count_matches, CountInv
    <2>3. TypeInv'
      BY <1>2, <2>1, <2>2 DEF TypeInv
    <2>4. CountInv' /\ SelectInv'
      BY <2>1, <2>2 DEF CountInv, SelectInv
    <2> QED
      BY <1>1, <2>1, <2>3, <2>4 DEF IInv, MatchInv, DoneInv
  <1>7. CASE count_done
    <2>1. /\ pc = "count" /\ Found = {} /\ pc' = "select"
          /\ UNCHANGED <<subst, re, sel, line, n, cur, l, out>>
      BY <1>7 DEF count_done
    <2>2. /\ LoopOK(re, Seen(re, line), l)
          /\ CountOK(re, Seen(re, line), n + Len(Remaining(re, Seen(re, line), l)))
          /\ out = <<>> /\ re \in Regex
      BY <1>1, <1>2, <2>1 DEF CountInv
    <2>3. Remaining(re, Seen(re, line), l) = <<>>
      BY <1>2, <2>1, <2>2, RegexecFinds
    <2>4. n + Len(Remaining(re, Seen(re, line), l)) = n
      BY <1>2, <2>3
    <2>5. CountOK(re, Seen(re, line), n)
      BY <2>2, <2>4
    <2>6. TypeInv'
      BY <1>1, <1>2, <2>1 DEF TypeInv
    <2> QED
      BY <1>1, <2>1, <2>2, <2>5, <2>6 DEF IInv, CountInv, SelectInv, MatchInv, DoneInv
  <1>8. CASE select
    <2>1. /\ UNCHANGED <<subst, re, sel, line, n, out>>
          /\ cur' \in [nth : Int, mod : Int] /\ l' \in LoopState
          /\ \/ /\ pc' = "done" /\ subst.f \cap {"SNLR", "SMLR"} # {}
                /\ n <= Abs(subst.nth)
             \/ /\ pc' = "match" /\ CurOK' /\ l' = Loop0
      BY <1>8, SelectStep
    <2>2. pc = "select" /\ out = <<>> /\ CountOK(re, Seen(re, line), n) /\ re \in Regex
      BY <1>1, <1>2, <1>8 DEF select, SelectInv
    <2>3. TypeInv'
      BY <1>1, <1>2, <2>1, <2>2 DEF TypeInv
    <2>4. CASE pc' = "done" /\ subst.f \cap {"SNLR", "SMLR"} # {} /\ n <= Abs(subst.nth)
      <3>1. PICK N \in Nat : N = Len(All(re, Seen(re, line)))
        BY <1>2, <2>2, AllType
      <3>2. ASSUME ~ (HasWide(Seen(re, line)) /\ FromLast), ~ TooFew(N)
            PROVE  Replaced(<<>>) = {All(re, Seen(re, line))[k] : k \in Chosen(N)}
        <4>1. FromLast
          BY <1>1, <1>2, <2>4, <3>1, FirstIs
        <4>2. n = N
          BY <2>2, <3>1, <3>2, <4>1 DEF CountOK
        <4>3. Chosen(N) = {}
          BY <1>1, <1>2, <2>4, <3>2, <4>2, NoneChosen
        <4> QED
          BY <4>3, NothingReplaced
      <3>3. /\ FromLast' = FromLast /\ TooFew(N)' = TooFew(N) /\ Chosen(N)' = Chosen(N)
        BY <2>1 DEF FromLast, TooFew, Chosen, First, Every
      <3>4. DoneInv'
        BY <2>1, <2>2, <3>1, <3>2, <3>3 DEF DoneInv
      <3> QED
        BY <1>1, <2>1, <2>2, <2>3, <2>4, <3>4 DEF IInv, CountInv, SelectInv, MatchInv
    <2>5. CASE pc' = "match" /\ CurOK' /\ l' = Loop0
      <3>1. LoopOK(re, Seen(re, line), Loop0)
        BY <1>2, <2>2, LoopZero
      <3>2. /\ Copied(All(re, Seen(re, line)), line, Loop0, cur', "GSUB" \in subst.f, <<>>)
            /\ IsRest(Remaining(re, Seen(re, line), Loop0), All(re, Seen(re, line)), Loop0.k)
        BY <1>2, <2>2, CopiedNothing
      <3>3. MatchInv'
        BY <2>1, <2>2, <2>5, <3>1, <3>2 DEF MatchInv
      <3> QED
        BY <1>1, <2>1, <2>2, <2>3, <2>5, <3>3 DEF IInv, CountInv, SelectInv, DoneInv
    <2> QED
      BY <2>1, <2>4, <2>5
  <1>9. CASE substitute_matching
    <2>0. ("GSUB" \in subst.f) \in BOOLEAN
      OBVIOUS
    <2>1. PICK g \in BOOLEAN : g = ("GSUB" \in subst.f)
      BY <2>0
    <2>2. PICK M : M = All(re, Seen(re, line))
      OBVIOUS
    <2>3. /\ UNCHANGED <<subst, re, sel, line, n, cur>>
          /\ l' \in LoopState /\ out' \in Seq(PieceSet)
          /\ \/ pc' = "fpe"
             \/ pc' = "finish" /\ Copied(M, line, l', cur, g, out') /\ l'.k = Len(M)
             \/ /\ pc' = "match" /\ Copied(M, line, l', cur, g, out')
                /\ LoopOK(re, Seen(re, line), l')
                /\ IsRest(Remaining(re, Seen(re, line), l'), M, l'.k)
      BY <1>9, <2>1, <2>2, MatchStep
    <2>4. pc = "match" /\ CountOK(re, Seen(re, line), n) /\ CurOK /\ re \in Regexes
      BY <1>1, <1>2, <1>9 DEF substitute_matching, SelectInv, MatchInv
    <2>5. TypeInv'
      BY <1>2, <2>3, <2>4 DEF TypeInv
    <2>6. CurOK'
      BY <2>3, <2>4 DEF CurOK
    <2>7. MatchInv'
      BY <2>1, <2>2, <2>3, <2>6 DEF MatchInv
    <2>8. CountInv' /\ SelectInv' /\ DoneInv'
      BY <2>3, <2>4 DEF CountInv, SelectInv, DoneInv
    <2> QED
      BY <1>1, <2>3, <2>5, <2>7, <2>8 DEF IInv
  <1>10. CASE match_done
    <2>1. /\ pc = "match" /\ (~ Goes \/ Found = {}) /\ pc' = "finish"
          /\ UNCHANGED <<subst, re, sel, line, n, cur, l, out>>
      BY <1>10 DEF match_done
    <2>2. /\ CurOK /\ Copied(All(re, Seen(re, line)), line, l, cur, "GSUB" \in subst.f, out)
          /\ LoopOK(re, Seen(re, line), l)
          /\ IsRest(Remaining(re, Seen(re, line), l), All(re, Seen(re, line)), l.k)
          /\ CountOK(re, Seen(re, line), n) /\ re \in Regex
      BY <1>1, <1>2, <2>1 DEF MatchInv, SelectInv
    <2>3. Goes => l.k = Len(All(re, Seen(re, line)))
      <3> SUFFICES ASSUME Goes PROVE l.k = Len(All(re, Seen(re, line)))
        OBVIOUS
      <3>1. Remaining(re, Seen(re, line), l) = <<>>
        BY <1>2, <2>1, <2>2, RegexecFinds
      <3>2. l.k \in Nat
        BY <1>2, LoopTypes
      <3>3. PICK M : M = All(re, Seen(re, line))
        OBVIOUS
      <3>4. M \in Seq(Pairs(Len(Seen(re, line))))
        BY <1>2, <2>1, <3>3, AllType
      <3>5. IsRest(<<>>, M, l.k)
        BY <2>2, <3>1, <3>3
      <3> QED
        BY <3>2, <3>3, <3>4, <3>5, NoRest
    <2>4. Goes' = Goes /\ (CurOK <=> CurOK')
      BY <2>1 DEF Goes, CurOK
    <2>5. MatchInv'
      BY <2>1, <2>2, <2>3, <2>4 DEF MatchInv
    <2>6. TypeInv'
      BY <1>1, <1>2, <2>1 DEF TypeInv
    <2> QED
      BY <1>1, <2>1, <2>2, <2>5, <2>6 DEF IInv, CountInv, SelectInv, DoneInv
  <1>11. CASE finish
    <2>1. /\ UNCHANGED <<subst, re, sel, line, n, cur, l>> /\ pc' = "done"
          /\ out' \in Seq(PieceSet)
          /\ out' # <<>> => Covers(out', line, Len(line))
          /\ Replaced(out') = {All(re, Seen(re, line))[i] : i \in {i \in 1 .. l.k : Picked(cur, i)}}
      BY <1>11, FinishStep
    <2>2. pc = "finish" /\ CountOK(re, Seen(re, line), n)
      BY <1>1, <1>11 DEF finish, SelectInv
    <2>3. TypeInv'
      BY <1>1, <1>2, <2>1, <2>2 DEF TypeInv
    <2>4. PICK N : N = Len(All(re, Seen(re, line)))
      OBVIOUS
    <2>5. ASSUME ~ (HasWide(Seen(re, line)) /\ FromLast), sel.g => Every(N) > 0
          PROVE  Replaced(out') = {All(re, Seen(re, line))[k] : k \in Chosen(N)}
      <3>1. {i \in 1 .. l.k : Picked(cur, i)} = Chosen(N)
        BY <2>2, <2>4, <2>5, FinishChosen
      <3> QED
        BY <2>1, <3>1
    <2>6. /\ FromLast' = FromLast /\ Chosen(N)' = Chosen(N) /\ Every(N)' = Every(N)
          /\ TooFew(N)' = TooFew(N)
      BY <2>1 DEF FromLast, Chosen, First, Every, TooFew
    <2>8. re' = re /\ line' = line /\ sel' = sel
      BY <2>1
    <2>9. ~ (HasWide(Seen(re', line')) /\ FromLast') /\ ~ TooFew(N)' /\ (sel'.g => Every(N)' > 0) =>
             Replaced(out') = {All(re', Seen(re', line'))[k] : k \in Chosen(N)'}
      BY <2>5, <2>6, <2>8
    <2>7. DoneInv'
      BY <2>1, <2>4, <2>8, <2>9 DEF DoneInv
    <2> QED
      BY <1>1, <2>1, <2>2, <2>3, <2>7 DEF IInv, CountInv, SelectInv, MatchInv
  <1>12. CASE line_done
    <2>1. /\ pc = "done" /\ line' = <<>> /\ n' = 0 /\ l' = Loop0 /\ out' = <<>>
          /\ cur' = [nth |-> 0, mod |-> 0] /\ pc' \in {"lines", "prompt"}
          /\ UNCHANGED <<subst, re, sel>>
      BY <1>12 DEF line_done
    <2>2. Loop0 \in LoopState /\ out' \in Seq(PieceSet) /\ cur' \in [nth : Int, mod : Int]
      BY <2>1 DEF Loop0, LoopState
    <2>3. TypeInv'
      BY <1>2, <2>1, <2>2 DEF TypeInv
    <2> QED
      BY <1>1, <2>1, <2>3 DEF IInv, CountInv, SelectInv, MatchInv, DoneInv
  <1>13. CASE UNCHANGED vars
    BY <1>1, <1>13 DEF vars, IInv, TypeInv, CountInv, SelectInv, MatchInv, DoneInv, CurOK,
       Goes, FromLast, TooFew, Chosen, First, Every
  <1> QED
    BY <1>3, <1>4, <1>5, <1>6, <1>7, <1>8, <1>9, <1>10, <1>11, <1>12, <1>13 DEF Next, Loop

LEMMA SpecInv == Spec => []IInv
  BY InitInv, NextInv, PTL DEF Spec

----------------------------------------------------------------------------
(* The properties of the model follow from the invariant. *)

LEMMA InvImplies == IInv => CountExact /\ ReplacesChosen /\ KeepsText
  <1> SUFFICES ASSUME IInv PROVE CountExact /\ ReplacesChosen /\ KeepsText
    OBVIOUS
  <1>1. TypeInv /\ SelectInv /\ DoneInv
    BY DEF IInv
  <1>2. /\ IsLine(line) /\ out \in Seq(PieceSet)
        /\ pc # "prompt" => re \in Regex /\ IsLine(Seen(re, line))
    BY <1>1, LinesAre, RegexesAre, SeenIsLine DEF TypeInv
  <1>4. Multibyte <=> HasWide(Seen(re, line))
    BY DEF Multibyte
  <1>5. pc # "prompt" => Matches = All(re, Seen(re, line))
    BY <1>2, MatchesAre DEF All, IsLine
  <1>6. CountExact
    BY <1>1, <1>4, <1>5 DEF CountExact, SelectInv, CountOK
  <1>7. ReplacesChosen
    <2> SUFFICES ASSUME pc = "done", ~ (Multibyte /\ FromLast), ~ TooFew(Len(Matches)),
                        sel.g => Every(Len(Matches)) > 0
                 PROVE  Replaced(out) = {Matches[k] : k \in Chosen(Len(Matches))}
      BY DEF ReplacesChosen, Replaced
    <2>1. Matches = All(re, Seen(re, line))
      BY <1>5
    <2> QED
      BY <1>1, <1>4, <2>1 DEF DoneInv
  <1>8. KeepsText
    <2> SUFFICES ASSUME pc = "done", out # <<>>
                 PROVE  /\ out[1][1] = 0 /\ out[Len(out)][2] = Len(line)
                        /\ \A i \in 1 .. Len(out) - 1 :
                             out[i][2] = out[i + 1][1] /\ ~ Inside(line, out[i][2])
      BY DEF KeepsText
    <2>1. Covers(out, line, Len(line))
      BY <1>1 DEF DoneInv
    <2> QED
      BY <2>1 DEF Covers
  <1> QED
    BY <1>6, <1>7, <1>8

\* count_matches () counts the matches of the line up to a NUL byte at which the
\* pattern matches the empty string, of one with multibyte characters at least
\* as many, for every line and every pattern known here.
THEOREM CountIsExact == Spec => []CountExact
  BY SpecInv, InvImplies, PTL

\* After any sequence of full and repeated commands, repeated ones in later
\* passes of a g command too, substitute_matching () replaces exactly the
\* matches that the command in force chooses, on lines of any length, binary
\* ones included, and for modifiers of any size.
THEOREM ChosenAreReplaced == Spec => []ReplacesChosen
  BY SpecInv, InvImplies, PTL

\* The pieces substitute_matching () writes cover the line without a gap or an
\* overlap and cut no multibyte character in two.
THEOREM TextIsKept == Spec => []KeepsText
  BY SpecInv, InvImplies, PTL
=============================================================================
