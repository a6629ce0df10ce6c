-------------------------- MODULE Addresses_proofs --------------------------
(***************************************************************************)
(* Proofs about Addresses and the patterns of RegexSlots, for a buffer of  *)
(* any length, lists of any number of addresses, any offsets and numbers,  *)
(* any patterns and a heap of any size.                                    *)
(*                                                                         *)
(* The invariant has three parts that do not depend on each other: what    *)
(* the four local variables of address_range () say of the addresses read  *)
(* so far (RangeInv), which lines a search has left behind (SearchInv),    *)
(* and who refers to which block of memory, at each of the places where    *)
(* the compilation of a pattern can be interrupted (SlotInv).              *)
(***************************************************************************)
EXTENDS Addresses, WellFoundedInduction, TLAPS

(* Types. *)

PCs == {"idle", "range", "pattern", "compiled", "freed", "search", "found",
        "no_match", "command", "failed", "subst", "global", "stopped"}
Searching == {"pattern", "compiled", "freed", "search", "found"}
Delims == {"none", "comma", "semicolon"}
AddressType == [base : {"omitted", "dot", "last", "number"}, n : Int]
EntryType == [delim : Delims, addr : AddressType]
LocType == [first : Int, second : Int, dot : Int, addrs : Nat]
FindType == [from : Int, addr : Int, dir : {"forward", "backward"}, hits : SUBSET Int,
             off : Int, delim : Delims]
SubType == [to : Int, dot : Int, any : BOOLEAN]
Known == Pattern \cup {Free}

TypeInv ==
  /\ session \in Sessions
  /\ lines \in Nat /\ dot \in 0 .. lines
  /\ pc \in PCs
  /\ loc \in LocType
  /\ find \in FindType
  /\ given \in [dot : Int, list : Seq(EntryType)]
  /\ region \in [addrs : Nat, start : Int, end : Int]
  /\ sub \in SubType
  /\ queue \in [on : BOOLEAN, lines : SUBSET (1 .. lines)]

----------------------------------------------------------------------------
(* Addresses.  The predicates are about a list of addresses, the current   *)
(* line `here' when it was begun, and the number l of lines.               *)

\* A first address that is omitted has no value yet: it depends on what follows.
Waits(list) == Len(list) = 1 /\ list[1].addr = Omitted

\* The current line, or an address that a `;' in the list has made current.
Visited(x, list, here, l) ==
  \/ x = here
  \/ \E i \in 1 .. Len(list) - 1 :
       list[i + 1].delim = "semicolon" /\ x = ListMeaning(list, here, l)[i].val

Blank(here) == [first |-> here, second |-> here, dot |-> here, addrs |-> 0]

\* v: the local variables of address_range () after the list was read.
Read(v, list, here, l) ==
  LET n == Len(list)
      M == ListMeaning(list, here, l)
  IN  /\ n = 0 => v = Blank(here)
      /\ n > 0 => /\ v.dot = M[n].cur /\ v.second = M[n].val
                  /\ v.addrs = 0 <=> Waits(list)
                  /\ v.addrs = 0 => v.second = v.dot
      /\ n = 1 => v.addrs < 2
      /\ n > 1 => /\ v.first = M[n - 1].val
                  /\ v.addrs < 2 => v.first = v.second
      /\ Visited(v.dot, list, here, l)

\* The same after delimiter d that follows the list.
Between(v, d, list, here, l) ==
  LET n == Len(list)
      M == ListMeaning(list, here, l)
  IN  /\ d = "none" <=> n = 0
      /\ n = 0 => v = Blank(here)
      /\ n > 0 => /\ v.addrs > 0
                  /\ v.first = IF Waits(list) /\ d = "comma" THEN 1 ELSE M[n].val
                  /\ v.second = IF Waits(list) THEN l ELSE M[n].val
                  /\ v.addrs < 2 => v.first = v.second
                  /\ v.dot = IF d = "semicolon" THEN M[n].val ELSE M[n].cur
      /\ d # "semicolon" => Visited(v.dot, list, here, l)

RangeInv ==
  LET list == given.list
      here == given.dot
      M == ListMeaning(list, here, lines)
  IN  /\ pc = "range" => Read(loc, list, here, lines) /\ Visited(dot, list, here, lines)
      /\ pc \in Searching => /\ Between(loc, find.delim, list, here, lines)
                             /\ loc.dot = dot
      /\ pc = "command" => /\ Len(list) > 0 /\ Visited(dot, list, here, lines)
                           /\ RangeAsWritten
      /\ pc \in {"no_match", "failed"} =>
           \/ Visited(dot, list, here, lines)
           \/ find.delim = "semicolon" /\ Len(list) > 0 /\ dot = M[Len(list)].val
      /\ pc \in {"idle", "global"} => dot = here

\* An s command has come to line dot of its range.
SubstInv ==
  /\ pc = "subst" =>
       /\ 1 <= region.start /\ region.end <= lines /\ sub.to = region.end
       /\ dot \in region.start - 1 .. region.end
       /\ sub.dot \in 0 .. lines
       /\ ~ sub.any => sub.dot = given.dot
  /\ pc = "stopped" => dot \in region.start - 1 .. region.end

\* What has been looked at has not matched.
SearchInv ==
  /\ pc \in Searching \cup {"no_match"} => find.from = dot
  /\ pc \in {"pattern", "compiled", "freed"} => find.addr = dot
  /\ pc \in {"search", "found", "no_match"} =>
       find.addr \in 0 .. lines /\ find.hits \subseteq 1 .. lines
  /\ pc = "search" =>
       find.addr = find.from \/ \A k \in find.hits : Distance(k) > Distance(find.addr)
  /\ SearchNearest

----------------------------------------------------------------------------
(* Patterns. *)

\* The old pattern of the search is one of ours until it is freed.
SearchSlot == IF pc = "freed" THEN Nil ELSE re_search

SlotTypes ==
  /\ mem \in [Re -> Known]
  /\ re \in Re \cup {Nil} /\ re_search \in Re \cup {Nil}
  /\ re_subst \in Re \cup {Nil} /\ lhs \in Re \cup {Nil}
  /\ last \in [search : Known, subst : Known, done : Known]
  /\ used \in [want : Known, got : Known]
  /\ re # Nil <=> pc \in {"compiled", "freed"}

\* In memory m: r is the pattern being compiled, s and t those of the search
\* and of the substitution, h the one to repeat, and p their patterns.
Refs(m, r, s, t, h, p, left) ==
  /\ \A b \in Re : m[b] # Free <=> b = r \/ b = s \/ b = t
  /\ r # Nil => r # s /\ r # t
  /\ t # Nil => m[t] = p.subst
  /\ t = Nil => p.subst = None
  /\ ~ left => /\ h = Nil \/ h = s \/ h = t
               /\ h # Nil => m[h] = p.done

SlotInv ==
  /\ SlotTypes
  /\ ~ torn => /\ Refs(mem, re, SearchSlot, re_subst, lhs, last, orphan)
               /\ pc # "freed" => Holds(re_search) = last.search
  /\ PatternAsTabled

IInv == TypeInv /\ RangeInv /\ SubstInv /\ SearchInv /\ SlotInv

----------------------------------------------------------------------------
(* The numbers: there is a smallest one in every set. *)

LEMMA SmallestNat ==
  ASSUME NEW S, S \subseteq Nat, S # {}
  PROVE  \E x \in S : \A y \in S : x =< y
  <1> DEFINE R == {ss \in Nat \X Nat : ss[1] < ss[2]}
  <1>1. OpToRel(<, Nat) = R
    BY DEF OpToRel
  <1>2. IsWellFoundedOn(R, Nat)
    BY <1>1, NatLessThanWellFounded
  <1>3. PICK x \in S : \A y \in S : ~ (<<y, x>> \in R)
    BY <1>2, WFMin
  <1>4. ASSUME NEW y \in S PROVE x =< y
    <2>1. x \in Nat /\ y \in Nat /\ ~ (<<y, x>> \in R)
      BY <1>3
    <2>2. ~ (y < x)
      BY <2>1
    <2> QED
      BY <2>1, <2>2
  <1> QED
    BY <1>4

\* Induction, as a statement about sets.
LEMMA SetInduction ==
  ASSUME NEW S, 0 \in S, \A n \in Nat : n \in S => n + 1 \in S
  PROVE  Nat \subseteq S
  <1> SUFFICES ASSUME Nat \ S # {} PROVE FALSE
    OBVIOUS
  <1>1. PICK x \in Nat \ S : \A y \in Nat \ S : x =< y
    BY SmallestNat
  <1>2. x # 0 /\ x - 1 \in Nat /\ x - 1 \notin Nat \ S
    BY <1>1
  <1> QED
    BY <1>1, <1>2

LEMMA MinInSet ==
  ASSUME NEW S, S \subseteq Nat, S # {}
  PROVE  Min(S) \in S
  BY SmallestNat DEF Min

----------------------------------------------------------------------------
(* What a list of addresses means.  AddressMeaning of an address needs the *)
(* meaning of the one before it, so that there is one meaning of the list. *)

AtFirst(here) == [val |-> here, cur |-> here]
Before(e, here, i) == IF i = 1 THEN AtFirst(here) ELSE e[i - 1]

IsMeaning(e, n, list, here, l) ==
  e = [i \in 1 .. n |-> AddressMeaning(list, here, l, i, Before(e, here, i))]

LEMMA MeaningExists ==
  ASSUME NEW list, NEW here, NEW l, NEW n \in Nat
  PROVE  \E e : IsMeaning(e, n, list, here, l)
  <1> DEFINE S == {m \in Nat : \E e : IsMeaning(e, m, list, here, l)}
  <1>1. 0 \in S
    <2>1. IsMeaning(<<>>, 0, list, here, l)
      BY DEF IsMeaning
    <2> QED
      BY <2>1
  <1>2. ASSUME NEW m \in Nat, m \in S PROVE m + 1 \in S
    <2>1. PICK e : IsMeaning(e, m, list, here, l)
      BY <1>2
    <2> DEFINE f == [i \in 1 .. m + 1 |->
                       IF i <= m THEN e[i]
                       ELSE AddressMeaning(list, here, l, i, Before(e, here, i))]
    <2>2. ASSUME NEW i \in 1 .. m + 1
          PROVE  Before(f, here, i) = Before(e, here, i)
      BY DEF Before
    <2>3. ASSUME NEW i \in 1 .. m + 1
          PROVE  f[i] = AddressMeaning(list, here, l, i, Before(f, here, i))
      BY <2>1, <2>2 DEF IsMeaning
    <2>4. IsMeaning(f, m + 1, list, here, l)
      BY <2>3 DEF IsMeaning
    <2> QED
      BY <2>4
  <1> HIDE DEF S
  <1>3. Nat \subseteq S
    BY <1>1, <1>2, SetInduction
  <1> QED
    BY <1>3 DEF S

LEMMA MeaningDef ==
  ASSUME NEW list \in Seq(EntryType), NEW here, NEW l
  PROVE  IsMeaning(ListMeaning(list, here, l), Len(list), list, here, l)
  <1> DEFINE Is(e) == e = [i \in DOMAIN list |->
            AddressMeaning(list, here, l, i,
              IF i = 1 THEN [val |-> here, cur |-> here] ELSE e[i - 1])]
  <1>1. ListMeaning(list, here, l) = CHOOSE e : Is(e)
    BY DEF ListMeaning
  <1>2. DOMAIN list = 1 .. Len(list) /\ Len(list) \in Nat
    OBVIOUS
  <1>3. \A e : Is(e) <=> IsMeaning(e, Len(list), list, here, l)
    BY <1>2 DEF IsMeaning, Before, AtFirst
  <1> HIDE DEF Is
  <1>4. \E e : Is(e)
    BY <1>2, <1>3, MeaningExists
  <1> QED
    BY <1>1, <1>3, <1>4

LEMMA MeaningAt ==
  ASSUME NEW list \in Seq(EntryType), NEW here, NEW l, NEW i \in 1 .. Len(list), NEW M,
         M = ListMeaning(list, here, l)
  PROVE  M[i] = AddressMeaning(list, here, l, i, Before(M, here, i))
  <1>1. M = [j \in 1 .. Len(list) |-> AddressMeaning(list, here, l, j, Before(M, here, j))]
    BY MeaningDef DEF IsMeaning
  <1> HIDE DEF Before
  <1> QED
    BY <1>1

\* list2 is list and the entry x.
OneMore(list, list2, n, x) ==
  /\ list \in Seq(EntryType) /\ list2 \in Seq(EntryType) /\ x \in EntryType
  /\ n \in Nat /\ Len(list) = n /\ Len(list2) = n + 1
  /\ DOMAIN list = 1 .. n /\ DOMAIN list2 = 1 .. n + 1
  /\ \A j \in 1 .. n : list2[j] = list[j]
  /\ list2[n + 1] = x

LEMMA OneMoreAppended ==
  ASSUME NEW list \in Seq(EntryType), NEW x \in EntryType
  PROVE  OneMore(list, Append(list, x), Len(list), x)
  BY DEF OneMore

\* Only the second delimiter, and the first two addresses, are looked at from
\* elsewhere in the list.
LEMMA SameAddress ==
  ASSUME NEW list, NEW list2, NEW n, NEW x, OneMore(list, list2, n, x), n > 1,
         NEW here, NEW l, NEW i \in 1 .. n, NEW p
  PROVE  AddressMeaning(list2, here, l, i, p) = AddressMeaning(list, here, l, i, p)
  <1>1. /\ \A j \in 1 .. n : j \in DOMAIN list2 /\ list2[j] = list[j]
        /\ \A j \in 1 .. n : j \in DOMAIN list
        /\ 1 \in 1 .. n /\ 2 \in 1 .. n
    BY DEF OneMore
  <1>2. DelimAt(list2, i) = DelimAt(list, i) /\ DelimAt(list2, 2) = DelimAt(list, 2)
    BY <1>1 DEF DelimAt
  <1>3. ASSUME NEW c, NEW v
        PROVE  AddressValue(list2, here, l, i, c, v) = AddressValue(list, here, l, i, c, v)
    BY <1>1, <1>2 DEF AddressValue
  <1> QED
    BY <1>2, <1>3 DEF AddressMeaning

LEMMA FirstOmitted ==
  ASSUME NEW list, list[1].addr = Omitted, NEW here \in Int, NEW l \in Int, NEW c, NEW v
  PROVE  AddressValue(list, here, l, 1, c, v)
           = IF DelimAt(list, 2) = "comma" THEN 1 ELSE here
  <1>1. list[1].addr.base = "omitted"
    BY DEF Omitted
  <1> QED
    BY <1>1 DEF AddressValue

\* An address that is added changes the meaning of those before it in one case.
LEMMA MeaningAppend ==
  ASSUME NEW list, NEW list2, NEW n, NEW x, OneMore(list, list2, n, x),
         NEW here \in Int, NEW l \in Int, NEW M, NEW M2,
         M = ListMeaning(list, here, l), M2 = ListMeaning(list2, here, l),
         NEW i \in 1 .. n
  PROVE  /\ M2[i].cur = M[i].cur
         /\ n = 1 /\ list[1].addr = Omitted /\ x.delim = "comma" => M2[i].val = 1
         /\ ~ (n = 1 /\ list[1].addr = Omitted /\ x.delim = "comma") => M2[i].val = M[i].val
  <1>1. ASSUME NEW j \in 1 .. n
        PROVE  M[j] = AddressMeaning(list, here, l, j, Before(M, here, j))
    BY MeaningAt DEF OneMore
  <1>2. ASSUME NEW j \in 1 .. n
        PROVE  M2[j] = AddressMeaning(list2, here, l, j, Before(M2, here, j))
    <2>1. j \in 1 .. Len(list2) /\ list2 \in Seq(EntryType)
      BY DEF OneMore
    <2> QED
      BY <2>1, MeaningAt
  <1>3. CASE n = 1
    <2>1. i = 1 /\ 1 \in 1 .. n
      BY <1>3
    <2>2. /\ list2[1] = list[1] /\ list2[2] = x
          /\ 1 \in DOMAIN list /\ 2 \notin DOMAIN list
          /\ 1 \in DOMAIN list2 /\ 2 \in DOMAIN list2
      BY <1>3 DEF OneMore
    <2>3. /\ M[1] = AddressMeaning(list, here, l, 1, AtFirst(here))
          /\ M2[1] = AddressMeaning(list2, here, l, 1, AtFirst(here))
      BY <1>1, <1>2, <2>1 DEF Before
    <2>4. /\ DelimAt(list2, 1) = DelimAt(list, 1)
          /\ DelimAt(list2, 2) = x.delim /\ DelimAt(list, 2) = "none"
      BY <2>2 DEF DelimAt
    <2> DEFINE c == M[1].cur
    <2>5. /\ M2[1].cur = c
          /\ M[1].val = AddressValue(list, here, l, 1, c, here)
          /\ M2[1].val = AddressValue(list2, here, l, 1, c, here)
      BY <2>3, <2>4 DEF AddressMeaning, AtFirst
    <2>6. CASE list[1].addr # Omitted
      <3>1. AddressValue(list2, here, l, 1, c, here) = AddressValue(list, here, l, 1, c, here)
        BY <2>2, <2>6 DEF AddressValue
      <3> QED
        BY <2>1, <2>5, <2>6, <3>1
    <2>7. CASE list[1].addr = Omitted
      <3>0. list2[1].addr = Omitted
        BY <2>2, <2>7
      <3>1. \A u, v : AddressValue(list, here, l, 1, u, v)
                         = IF DelimAt(list, 2) = "comma" THEN 1 ELSE here
        BY <2>7, FirstOmitted
      <3>2. \A u, v : AddressValue(list2, here, l, 1, u, v)
                         = IF DelimAt(list2, 2) = "comma" THEN 1 ELSE here
        BY <3>0, FirstOmitted
      <3>3. AddressValue(list, here, l, 1, c, here) = here
        BY <2>4, <3>1
      <3>4. AddressValue(list2, here, l, 1, c, here) = IF x.delim = "comma" THEN 1 ELSE here
        BY <2>4, <3>2
      <3> QED
        BY <1>3, <2>1, <2>5, <2>7, <3>3, <3>4
    <2> QED
      BY <2>6, <2>7
  <1>4. CASE n # 1
    <2> DEFINE S == {k \in Nat : k \in 1 .. n => M2[k] = M[k]}
    <2>0. n \in Nat
      BY DEF OneMore
    <2>1. 0 \in S
      OBVIOUS
    <2>2. ASSUME NEW k \in Nat, k \in S PROVE k + 1 \in S
      <3> SUFFICES ASSUME k + 1 \in 1 .. n PROVE M2[k + 1] = M[k + 1]
        OBVIOUS
      <3>1. Before(M2, here, k + 1) = Before(M, here, k + 1)
        BY <2>0, <2>2 DEF Before
      <3>2. n > 1
        BY <1>4, <2>0
      <3> QED
        BY <1>1, <1>2, <3>1, <3>2, SameAddress
    <2> HIDE DEF S
    <2>3. Nat \subseteq S
      BY <2>1, <2>2, SetInduction
    <2>4. i \in S
      BY <2>0, <2>3
    <2> QED
      BY <1>4, <2>4 DEF S
  <1> QED
    BY <1>3, <1>4

\* The address that is added.
LEMMA MeaningLast ==
  ASSUME NEW list, NEW list2, NEW n, NEW x, OneMore(list, list2, n, x),
         NEW here \in Int, NEW l \in Int, NEW M2, M2 = ListMeaning(list2, here, l)
  PROVE  M2[n + 1] = AddressMeaning(list2, here, l, n + 1, Before(M2, here, n + 1))
  <1>1. list2 \in Seq(EntryType) /\ n + 1 \in 1 .. Len(list2)
    BY DEF OneMore
  <1> QED
    BY <1>1, MeaningAt

\* The current line after delimiter d that follows n addresses.
CurAfter(M, here, n, d) ==
  IF n = 0 THEN here ELSE IF d = "semicolon" THEN M[n].val ELSE M[n].cur

LEMMA MeaningNew ==
  ASSUME NEW list, NEW list2, NEW n, NEW x, OneMore(list, list2, n, x),
         NEW here \in Int, NEW l \in Int, NEW M2, M2 = ListMeaning(list2, here, l),
         NEW cur, cur = CurAfter(M2, here, n, x.delim)
  PROVE  /\ M2[n + 1].cur = cur
         /\ x.addr.base = "dot" => M2[n + 1].val = cur + x.addr.n
         /\ x.addr.base = "last" => M2[n + 1].val = l + x.addr.n
         /\ x.addr.base = "number" => M2[n + 1].val = x.addr.n
         /\ x.addr = Omitted /\ n = 0 => M2[1].val = here
         /\ x.addr = Omitted /\ n > 0 =>
              M2[n + 1].val = IF n = 1 /\ list[1].addr = Omitted THEN l ELSE M2[n].val
  <1> DEFINE p == Before(M2, here, n + 1)
  <1>0. n \in Nat /\ list2[n + 1] = x
    BY DEF OneMore
  <1>1. DelimAt(list2, n + 1) = x.delim /\ (n = 0 => DelimAt(list2, 2) = "none")
    BY DEF OneMore, DelimAt
  <1>2. /\ p.val = IF n = 0 THEN here ELSE M2[n].val
        /\ p.cur = IF n = 0 THEN here ELSE M2[n].cur
    BY <1>0 DEF Before, AtFirst
  <1>3. M2[n + 1] = AddressMeaning(list2, here, l, n + 1, p)
    BY MeaningLast
  <1> HIDE DEF p
  <1>4. /\ M2[n + 1].cur = cur
        /\ M2[n + 1].val = AddressValue(list2, here, l, n + 1, cur, p.val)
    <2>1. cur = IF DelimAt(list2, n + 1) = "semicolon" THEN p.val ELSE p.cur
      <3>1. CASE n = 0
        BY <1>2, <3>1 DEF CurAfter
      <3>2. CASE n # 0
        BY <1>1, <1>2, <3>2 DEF CurAfter
      <3> QED
        BY <3>1, <3>2
    <2>2. AddressMeaning(list2, here, l, n + 1, p)
            = [cur |-> cur, val |-> AddressValue(list2, here, l, n + 1, cur, p.val)]
      BY <2>1, Zenon DEF AddressMeaning
    <2> QED
      BY <1>3, <2>2
  <1>5. CASE x.addr.base \in {"dot", "last", "number"}
    <2>1. x.addr # Omitted
      BY <1>5 DEF Omitted
    <2> QED
      BY <1>0, <1>4, <1>5, <2>1 DEF AddressValue
  <1>6. CASE x.addr = Omitted
    <2>1. x.addr.base = "omitted"
      BY <1>6 DEF Omitted
    <2>2. CASE n = 0
      <3>1. \A u, v : AddressValue(list2, here, l, 1, u, v)
                         = IF DelimAt(list2, 2) = "comma" THEN 1 ELSE here
        <4>1. list2[1].addr = Omitted
          BY <1>0, <1>6, <2>2
        <4> QED
          BY <4>1, FirstOmitted
      <3>2. M2[1].val = here
        <4>1. n + 1 = 1
          BY <2>2
        <4>2. M2[1].val = AddressValue(list2, here, l, 1, cur, p.val)
          BY <1>4, <4>1
        <4> QED
          BY <1>1, <2>2, <3>1, <4>2
      <3> QED
        BY <1>0, <1>4, <2>1, <2>2, <3>2
    <2>3. CASE n = 1
      <3>1. list2[1] = list[1]
        BY <2>3 DEF OneMore
      <3>2. AddressValue(list2, here, l, 2, cur, p.val)
              = IF list[1].addr = Omitted THEN l ELSE p.val
        BY <1>0, <1>6, <2>1, <2>3, <3>1 DEF AddressValue
      <3> QED
        BY <1>0, <1>2, <1>4, <2>1, <2>3, <3>2
    <2>4. CASE n > 1
      <3>1. AddressValue(list2, here, l, n + 1, cur, p.val) = p.val
        <4>1. n + 1 # 1 /\ n + 1 # 2
          BY <1>0, <2>4
        <4> QED
          BY <1>0, <1>6, <2>1, <4>1 DEF AddressValue
      <3> QED
        BY <1>0, <1>2, <1>4, <2>1, <2>4, <3>1
    <2> QED
      BY <1>0, <2>2, <2>3, <2>4
  <1> QED
    BY <1>4, <1>5, <1>6

----------------------------------------------------------------------------
(* One address more. *)

\* What a list has made current is not changed by what follows.
LEMMA StillVisited ==
  ASSUME NEW list, NEW list2, NEW n, NEW x, OneMore(list, list2, n, x),
         NEW here \in Int, NEW l \in Int, NEW y, Visited(y, list, here, l)
  PROVE  Visited(y, list2, here, l)
  <1> DEFINE M == ListMeaning(list, here, l)
             M2 == ListMeaning(list2, here, l)
  <1>0. n \in Nat /\ Len(list) = n /\ Len(list2) = n + 1
    BY DEF OneMore
  <1>1. CASE y = here
    BY <1>1 DEF Visited
  <1>2. CASE y # here
    <2>1. PICK i \in 1 .. n - 1 : list[i + 1].delim = "semicolon" /\ y = M[i].val
      BY <1>0, <1>2 DEF Visited
    <2>2. i \in 1 .. n /\ i + 1 \in 1 .. n /\ n # 1 /\ i \in 1 .. (n + 1) - 1
      BY <1>0
    <2>3. list2[i + 1] = list[i + 1]
      BY <2>2 DEF OneMore
    <2>4. M = ListMeaning(list, here, l) /\ M2 = ListMeaning(list2, here, l)
      OBVIOUS
    <2> HIDE DEF M, M2
    <2>5. M2[i].val = M[i].val
      BY <2>2, <2>4, MeaningAppend
    <2> QED
      BY <1>0, <2>1, <2>2, <2>3, <2>4, <2>5 DEF Visited
  <1> QED
    BY <1>1, <1>2

\* A delimiter follows the list.
LEMMA DelimiterBetween ==
  ASSUME NEW list \in Seq(EntryType), NEW here \in Int, NEW d \in Delims,
         loc \in LocType, lines \in Nat, d = "none" <=> Len(list) = 0,
         Read(loc, list, here, lines)
  PROVE  /\ delimiter(d) \in LocType
         /\ Between(delimiter(d), d, list, here, lines)
  <1> DEFINE n == Len(list)
             M == ListMeaning(list, here, lines)
  <1>0. n \in Nat
    OBVIOUS
  <1>1. CASE d = "none"
    BY <1>1 DEF delimiter, Read, Between
  <1>2. CASE d # "none" /\ loc.addrs > 0
    <2> DEFINE v == [loc EXCEPT !.first = loc.second,
                                !.dot = IF d = "semicolon" THEN loc.second ELSE @]
    <2>1. delimiter(d) = v
      BY <1>2 DEF delimiter, LocType
    <2>2. /\ v \in LocType /\ v.first = loc.second /\ v.second = loc.second
          /\ v.addrs = loc.addrs
          /\ v.dot = IF d = "semicolon" THEN loc.second ELSE loc.dot
      BY DEF LocType
    <2> HIDE DEF v
    <2>3. /\ n > 0 /\ ~ Waits(list) /\ loc.dot = M[n].cur /\ loc.second = M[n].val
          /\ Visited(loc.dot, list, here, lines)
      BY <1>0, <1>2 DEF Read, LocType
    <2>4. Between(v, d, list, here, lines)
      BY <1>0, <1>2, <2>2, <2>3 DEF Between
    <2> QED
      BY <2>1, <2>2, <2>4
  <1>3. CASE d # "none" /\ loc.addrs = 0
    <2> DEFINE f == IF d = "semicolon" THEN loc.dot ELSE 1
               v == [loc EXCEPT !.first = f, !.second = lines, !.addrs = 2]
    <2>1. delimiter(d) = v
      BY <1>3 DEF delimiter, LocType
    <2>2. /\ v \in LocType /\ v.first = IF d = "semicolon" THEN loc.dot ELSE 1
          /\ v.second = lines /\ v.addrs = 2 /\ v.dot = loc.dot
      <3>1. f \in Int /\ lines \in Int /\ 2 \in Nat
        BY DEF LocType
      <3> HIDE DEF f
      <3>2. /\ v \in LocType /\ v.first = f
            /\ v.second = lines /\ v.addrs = 2 /\ v.dot = loc.dot
        BY <3>1 DEF LocType
      <3> QED
        BY <3>2 DEF f
    <2> HIDE DEF v
    <2>3. /\ n > 0 /\ Waits(list) /\ loc.dot = M[n].cur /\ loc.dot = M[n].val
          /\ Visited(loc.dot, list, here, lines)
      BY <1>0, <1>3 DEF Read, LocType
    <2>4. Between(v, d, list, here, lines)
      BY <1>0, <1>3, <2>2, <2>3 DEF Between, Delims
    <2> QED
      BY <2>1, <2>2, <2>4
  <1> QED
    BY <1>1, <1>2, <1>3 DEF LocType

\* An address follows the delimiter.
LEMMA AddressRead ==
  ASSUME NEW list, NEW list2, NEW n, NEW x, OneMore(list, list2, n, x),
         NEW here \in Int, NEW l \in Nat, NEW v \in LocType, NEW v2, NEW w,
         Between(v, x.delim, list, here, l),
         \/ x.addr = Omitted /\ v2 = v
         \/ /\ x.addr # Omitted /\ v2 = Took(v, w)
            /\ \/ x.addr.base = "dot" /\ w = v.dot + x.addr.n
               \/ x.addr.base = "last" /\ w = l + x.addr.n
               \/ x.addr.base = "number" /\ w = x.addr.n
  PROVE  v2 \in LocType /\ Read(v2, list2, here, l)
  <1> DEFINE M == ListMeaning(list, here, l)
             M2 == ListMeaning(list2, here, l)
             cur == CurAfter(M2, here, n, x.delim)
  <1>0. /\ n \in Nat /\ Len(list) = n /\ Len(list2) = n + 1 /\ list2[n + 1] = x
        /\ x.addr.n \in Int
    BY DEF OneMore, EntryType, AddressType
  <1>1. /\ M = ListMeaning(list, here, l) /\ M2 = ListMeaning(list2, here, l)
        /\ cur = CurAfter(M2, here, n, x.delim)
    OBVIOUS
  <1> HIDE DEF M, M2, cur
  <1>2. n > 0 => /\ M2[n].cur = M[n].cur
                 /\ n = 1 /\ list[1].addr = Omitted /\ x.delim = "comma" => M2[n].val = 1
                 /\ ~ (n = 1 /\ list[1].addr = Omitted /\ x.delim = "comma")
                      => M2[n].val = M[n].val
    BY <1>0, <1>1, MeaningAppend
  <1>3. /\ M2[n + 1].cur = cur
        /\ x.addr.base = "dot" => M2[n + 1].val = cur + x.addr.n
        /\ x.addr.base = "last" => M2[n + 1].val = l + x.addr.n
        /\ x.addr.base = "number" => M2[n + 1].val = x.addr.n
        /\ x.addr = Omitted /\ n = 0 => M2[1].val = here
        /\ x.addr = Omitted /\ n > 0 =>
             M2[n + 1].val = IF n = 1 /\ list[1].addr = Omitted THEN l ELSE M2[n].val
    BY <1>0, <1>1, MeaningNew
  <1>4. /\ v2 \in LocType /\ v2.dot = v.dot /\ v2.first = v.first
        /\ x.addr = Omitted => v2.second = v.second /\ v2.addrs = v.addrs
        /\ x.addr # Omitted => v2.second = w /\ v2.addrs = v.addrs + 1
    <2>1. CASE x.addr = Omitted
      BY <2>1
    <2>2. CASE x.addr # Omitted
      <3>1. w \in Int /\ v.addrs + 1 \in Nat
        BY <1>0, <2>2, SMTT(30) DEF LocType
      <3>2. PICK k \in Nat : k = v.addrs + 1
        BY <3>1
      <3>3. v2 = [v EXCEPT !.second = w, !.addrs = k]
        BY <2>2, <3>2 DEF Took, LocType
      <3>4. /\ v2 \in LocType /\ v2.dot = v.dot /\ v2.first = v.first
            /\ v2.second = w /\ v2.addrs = k
        BY <3>1, <3>3 DEF LocType
      <3> QED
        BY <2>2, <3>2, <3>4
    <2> QED
      BY <2>1, <2>2
  <1>5. v.addrs \in Nat
    BY DEF LocType
  <1>6. v.dot = cur
    BY <1>0, <1>1, <1>2 DEF Between, Blank, CurAfter
  <1>7. v2.second = M2[n + 1].val
    <2>1. CASE x.addr # Omitted
      BY <1>3, <1>4, <1>6, <2>1
    <2>2. CASE x.addr = Omitted /\ n = 0
      BY <1>0, <1>3, <1>4, <2>2 DEF Between, Blank
    <2>3. CASE x.addr = Omitted /\ n > 0
      BY <1>0, <1>1, <1>2, <1>3, <1>4, <2>3 DEF Between, Waits
    <2> QED
      BY <1>0, <2>1, <2>2, <2>3
  <1>8. Visited(v2.dot, list2, here, l)
    <2>1. CASE x.delim # "semicolon"
      BY <1>4, <2>1, StillVisited DEF Between
    <2>2. CASE x.delim = "semicolon"
      <3>1. n > 0 /\ v.dot = M2[n].val
        BY <1>0, <1>1, <1>2, <2>2 DEF Between
      <3>2. n \in 1 .. Len(list2) - 1
        BY <1>0, <3>1
      <3> QED
        BY <1>0, <1>1, <1>4, <2>2, <3>1, <3>2 DEF Visited
    <2> QED
      BY <2>1, <2>2
  <1>9. CASE n = 0
    <2>1. Waits(list2) <=> x.addr = Omitted
      BY <1>0, <1>9 DEF Waits
    <2>2. v = Blank(here)
      BY <1>0, <1>9 DEF Between
    <2>3. v2.addrs = IF x.addr = Omitted THEN 0 ELSE 1
      BY <1>4, <2>2 DEF Blank
    <2>4. x.addr = Omitted => v2.second = v2.dot
      BY <1>4, <2>2 DEF Blank
    <2> QED
      BY <1>0, <1>1, <1>3, <1>4, <1>6, <1>7, <1>8, <1>9, <2>1, <2>3, <2>4 DEF Read
  <1>10. CASE n > 0
    <2>1. ~ Waits(list2) /\ v2.addrs > 0
      BY <1>0, <1>4, <1>5, <1>10 DEF Waits, Between
    <2>2. v2.first = M2[n].val
      BY <1>0, <1>1, <1>2, <1>4, <1>10 DEF Between, Waits
    <2>3. v2.addrs < 2 => v2.first = v2.second
      BY <1>0, <1>4, <1>5, <1>10 DEF Between
    <2>4. (n + 1) - 1 = n /\ n + 1 > 1
      BY <1>0, <1>10
    <2> QED
      BY <1>0, <1>1, <1>3, <1>4, <1>6, <1>7, <1>8, <1>10, <2>1, <2>2, <2>3, <2>4 DEF Read
  <1> QED
    BY <1>0, <1>9, <1>10

----------------------------------------------------------------------------
(* Types and addresses, action by action. *)

Ranges == TypeInv /\ RangeInv /\ SubstInv

LEMMA PlainType ==
  ASSUME NEW a \in Plain
  PROVE  a \in AddressType /\ (a.base = "omitted" => a = Omitted)
  <1>1. Offsets \subseteq Int /\ Numbers \subseteq Int
    BY AddressAssumption
  <1>2. CASE a = Omitted
    BY <1>2 DEF Omitted, AddressType
  <1>3. CASE a \in [base : {"dot", "last"}, n : Offsets]
    BY <1>1, <1>3 DEF AddressType
  <1>4. CASE a \in [base : {"number"}, n : Numbers]
    BY <1>1, <1>4 DEF AddressType
  <1> QED
    BY <1>2, <1>3, <1>4 DEF Plain

LEMMA TypedList ==
  ASSUME TypeInv, NEW d \in Delims, NEW a \in AddressType, given' = Typed(d, a)
  PROVE  /\ given' \in [dot : Int, list : Seq(EntryType)]
         /\ given'.dot = given.dot
         /\ OneMore(given.list, given'.list, Len(given.list), [delim |-> d, addr |-> a])
  <1> DEFINE x == [delim |-> d, addr |-> a]
  <1>1. x \in EntryType
    BY DEF EntryType
  <1>2. given' = [given EXCEPT !.list = Append(given.list, x)]
    BY DEF Typed, TypeInv
  <1> HIDE DEF x
  <1>3. given.list \in Seq(EntryType) /\ given.dot \in Int
    BY DEF TypeInv
  <1>4. OneMore(given.list, Append(given.list, x), Len(given.list), x)
    BY <1>1, <1>3, OneMoreAppended
  <1>5. given'.list = Append(given.list, x) /\ given'.dot = given.dot
    BY <1>2 DEF TypeInv
  <1>6. Append(given.list, x) \in Seq(EntryType)
    BY <1>1, <1>3
  <1>7. given' \in [dot : Int, list : Seq(EntryType)]
    BY <1>2, <1>3, <1>6 DEF TypeInv
  <1> QED
    BY <1>4, <1>5, <1>7 DEF x

LEMMA NextAddress ==
  ASSUME Ranges, NEW d \in Delims, NEW a \in Plain, next_address(d, a)
  PROVE  Ranges'
  <1> DEFINE v == delimiter(d)
             x == [delim |-> d, addr |-> a]
             n == Len(given.list)
  <1>1. /\ pc = "range" /\ pc' = "range"
        /\ d = "none" <=> given.list = <<>>
        /\ UNCHANGED <<session, lines, dot, region, find, work>>
        /\ given' = Typed(d, a)
    BY DEF next_address, MayFollow
  <1>2. /\ loc \in LocType /\ lines \in Nat /\ given.list \in Seq(EntryType)
        /\ given.dot \in Int
    BY DEF Ranges, TypeInv
  <1>3. d = "none" <=> n = 0
    BY <1>1, <1>2
  <1>4. /\ Read(loc, given.list, given.dot, lines)
        /\ Visited(dot, given.list, given.dot, lines)
    BY <1>1 DEF Ranges, RangeInv
  <1>5. v \in LocType /\ Between(v, d, given.list, given.dot, lines)
    BY <1>2, <1>3, <1>4, DelimiterBetween
  <1>6. /\ a \in AddressType /\ (a.base = "omitted" => a = Omitted)
        /\ a.base \in {"omitted", "dot", "last", "number"}
        /\ Omitted.base = "omitted"
    BY PlainType DEF AddressType, Omitted
  <1>7. /\ given' \in [dot : Int, list : Seq(EntryType)] /\ given'.dot = given.dot
        /\ OneMore(given.list, given'.list, n, x)
    BY <1>1, <1>6, TypedList DEF Ranges
  <1>8. x.delim = d /\ x.addr = a
    OBVIOUS
  <1>9. loc' = CASE a.base = "omitted" -> v
                 [] a.base = "dot" -> Took(v, v.dot + a.n)
                 [] a.base = "last" -> Took(v, lines + a.n)
                 [] a.base = "number" -> Took(v, a.n)
    BY DEF next_address
  <1> HIDE DEF v, x
  <1>10. \E w : \/ x.addr = Omitted /\ loc' = v
                \/ /\ x.addr # Omitted /\ loc' = Took(v, w)
                   /\ \/ x.addr.base = "dot" /\ w = v.dot + x.addr.n
                      \/ x.addr.base = "last" /\ w = lines + x.addr.n
                      \/ x.addr.base = "number" /\ w = x.addr.n
    <2>1. CASE a.base = "omitted"
      BY <1>6, <1>8, <1>9, <2>1
    <2>2. CASE a.base = "dot"
      BY <1>6, <1>8, <1>9, <2>2
    <2>3. CASE a.base = "last"
      BY <1>6, <1>8, <1>9, <2>3
    <2>4. CASE a.base = "number"
      BY <1>6, <1>8, <1>9, <2>4
    <2> QED
      BY <1>6, <2>1, <2>2, <2>3, <2>4
  <1>11. loc' \in LocType /\ Read(loc', given'.list, given.dot, lines)
    BY <1>2, <1>5, <1>7, <1>8, <1>10, AddressRead
  <1>12. Visited(dot, given'.list, given.dot, lines)
    BY <1>2, <1>4, <1>7, StillVisited
  <1>13. TypeInv'
    BY <1>1, <1>7, <1>11 DEF Ranges, TypeInv, work
  <1>14. RangeInv'
    BY <1>1, <1>7, <1>11, <1>12 DEF RangeInv, Searching
  <1> QED
    BY <1>1, <1>13, <1>14 DEF Ranges, SubstInv

\* A command is given up, before it has begun its work or at one of its lines.
LEMMA FailRanges ==
  ASSUME Ranges, Fail, pc \notin {"failed", "no_match", "stopped", "subst"}
  PROVE  Ranges'
  <1>1. /\ pc' = "failed" /\ UNCHANGED <<session, lines, dot, region, find, given>>
        /\ loc' = NoLocals /\ NoLocals \in LocType
        /\ sub' = NoSub /\ NoSub \in SubType /\ queue' = NoQueue
    BY DEF Fail, Abandon, NoLocals, LocType, NoSub, SubType
  <1>2. TypeInv'
    BY <1>1 DEF Ranges, TypeInv, PCs, NoQueue
  <1>3. \/ Visited(dot, given.list, given.dot, lines)
        \/ /\ find.delim = "semicolon" /\ Len(given.list) > 0
           /\ dot = ListMeaning(given.list, given.dot, lines)[Len(given.list)].val
    <2>1. CASE pc \in {"range", "command"}
      BY <2>1 DEF Ranges, RangeInv
    <2>2. CASE pc \in Searching
      <3>1. /\ Between(loc, find.delim, given.list, given.dot, lines) /\ loc.dot = dot
            /\ Len(given.list) \in Nat
        BY <2>2 DEF Ranges, RangeInv, TypeInv
      <3> QED
        BY <3>1 DEF Between
    <2>3. CASE pc \in {"idle", "global"}
      BY <2>3 DEF Ranges, RangeInv, Visited
    <2> QED
      BY <2>1, <2>2, <2>3 DEF Ranges, TypeInv, PCs, Searching
  <1>4. RangeInv'
    BY <1>1, <1>3 DEF RangeInv, Searching
  <1>5. SubstInv'
    BY <1>1 DEF SubstInv
  <1> QED
    BY <1>2, <1>4, <1>5 DEF Ranges

LEMMA StopRanges ==
  ASSUME Ranges, pc = "subst", Abandon("stopped"),
         \/ UNCHANGED <<lines, dot>>
         \/ region.start <= dot /\ lines' = lines - 1 /\ dot' = dot - 1
  PROVE  Ranges'
  <1>1. /\ pc' = "stopped" /\ UNCHANGED <<session, region, find, given>>
        /\ loc' = NoLocals /\ NoLocals \in LocType
        /\ sub' = NoSub /\ NoSub \in SubType /\ queue' = NoQueue
    BY DEF Abandon, NoLocals, LocType, NoSub, SubType
  <1>2. /\ lines \in Nat /\ dot \in Int /\ region.start \in Int /\ region.end \in Int
        /\ 1 <= region.start /\ region.end <= lines
        /\ region.start - 1 <= dot /\ dot <= region.end
    BY DEF Ranges, TypeInv, SubstInv
  <1>3. lines' \in Nat /\ dot' \in 0 .. lines' /\ dot' \in region.start - 1 .. region.end
    BY <1>2
  <1>4. TypeInv'
    BY <1>1, <1>3 DEF Ranges, TypeInv, PCs, NoQueue
  <1>5. RangeInv'
    BY <1>1 DEF RangeInv, Searching
  <1>6. SubstInv'
    BY <1>1, <1>3 DEF SubstInv
  <1> QED
    BY <1>4, <1>5, <1>6 DEF Ranges

LEMMA LineAddress ==
  ASSUME Ranges, NEW d \in Delims, NEW dir \in {"forward", "backward"},
         NEW off \in {0} \cup Offsets, line_address(d, dir, off)
  PROVE  Ranges'
  <1> DEFINE v == delimiter(d)
             n == Len(given.list)
  <1>1. /\ pc = "range"
        /\ d = "none" <=> given.list = <<>>
    BY DEF line_address, MayFollow
  <1>2. /\ loc \in LocType /\ lines \in Nat /\ given.list \in Seq(EntryType)
        /\ given.dot \in Int
    BY DEF Ranges, TypeInv
  <1>3. d = "none" <=> n = 0
    BY <1>1, <1>2
  <1>4. Read(loc, given.list, given.dot, lines)
    BY <1>1 DEF Ranges, RangeInv
  <1>5. v \in LocType /\ Between(v, d, given.list, given.dot, lines)
    BY <1>2, <1>3, <1>4, DelimiterBetween
  <1>6. CASE check_address_bounds(v.dot)
    <2>1. /\ dot' = v.dot /\ pc' = "pattern" /\ loc' = v
          /\ find' = [from |-> v.dot, addr |-> v.dot, dir |-> dir,
                      hits |-> {}, off |-> off, delim |-> d]
          /\ UNCHANGED <<session, lines, region, work, given>>
      BY <1>6 DEF line_address
    <2>2. v.dot \in 0 .. lines
      BY <1>2, <1>5, <1>6 DEF check_address_bounds, LocType
    <2> HIDE DEF v
    <2>3. off \in Int /\ v.dot \in Int
      BY <1>5, AddressAssumption DEF LocType
    <2>4. find' \in FindType /\ find'.delim = d
      BY <2>1, <2>3 DEF FindType
    <2>5. TypeInv'
      BY <1>5, <2>1, <2>2, <2>4 DEF Ranges, TypeInv, work, PCs
    <2>6. RangeInv'
      BY <1>5, <2>1, <2>4 DEF RangeInv, Searching
    <2> QED
      BY <2>1, <2>5, <2>6 DEF Ranges, SubstInv
  <1>7. CASE ~ check_address_bounds(v.dot)
    BY <1>1, <1>7, FailRanges DEF line_address
  <1> QED
    BY <1>6, <1>7

LEMMA BeginRanges ==
  ASSUME Ranges, address_range
  PROVE  Ranges'
  <1>1. /\ pc' = "range" /\ region' = NoRegion
        /\ loc' = Blank(dot) /\ given' = [dot |-> dot, list |-> <<>>]
        /\ UNCHANGED <<session, lines, dot, find, work>>
    BY DEF address_range, Blank, Begun
  <1>2. dot \in Int /\ Blank(dot) \in LocType
    BY DEF Ranges, TypeInv, Blank, LocType
  <1>3. /\ given' \in [dot : Int, list : Seq(EntryType)]
        /\ given'.list = <<>> /\ Len(<<>>) = 0 /\ given'.dot = dot
    BY <1>1, <1>2
  <1>4. TypeInv'
    BY <1>1, <1>2, <1>3 DEF Ranges, TypeInv, work, PCs, NoRegion
  <1>5. Visited(dot, <<>>, dot, lines)
    BY DEF Visited
  <1>6. Read(loc', <<>>, dot, lines)
    BY <1>1, <1>3, <1>5 DEF Read, Blank
  <1>7. RangeInv'
    BY <1>1, <1>3, <1>5, <1>6 DEF RangeInv, Searching
  <1> QED
    BY <1>1, <1>4, <1>7 DEF Ranges, SubstInv

\* The search goes on, or fails.
LEMMA SearchRanges ==
  ASSUME Ranges, pc \in Searching, pc' \in Searching \cup {"no_match"},
         UNCHANGED <<session, lines, dot, region, loc, work, given>>,
         find' \in FindType, find'.delim = find.delim
  PROVE  Ranges'
  <1>1. TypeInv'
    BY DEF Ranges, TypeInv, work, PCs, Searching
  <1>2. Between(loc, find.delim, given.list, given.dot, lines) /\ loc.dot = dot
    BY DEF Ranges, RangeInv
  <1>3. CASE pc' \in Searching
    <2>1. RangeInv'
      BY <1>2, <1>3 DEF RangeInv, Searching
    <2> QED
      BY <1>1, <1>3, <2>1 DEF Ranges, SubstInv, Searching
  <1>4. CASE pc' = "no_match"
    <2>1. Len(given.list) \in Nat
      BY DEF Ranges, TypeInv
    <2>2. \/ Visited(dot, given.list, given.dot, lines)
          \/ /\ find.delim = "semicolon" /\ Len(given.list) > 0
             /\ dot = ListMeaning(given.list, given.dot, lines)[Len(given.list)].val
      BY <1>2, <2>1 DEF Between
    <2>3. RangeInv'
      BY <1>4, <2>2 DEF RangeInv, Searching
    <2> QED
      BY <1>1, <1>4, <2>3 DEF Ranges, SubstInv
  <1> QED
    BY <1>3, <1>4

LEMMA DoneRanges ==
  ASSUME Ranges, search_done
  PROVE  Ranges'
  <1> DEFINE k == find.addr + find.off
             a == [base |-> "number", n |-> k]
             x == [delim |-> find.delim, addr |-> a]
             n == Len(given.list)
  <1>1. /\ pc = "found" /\ pc' = "range" /\ find' = NoSearch
        /\ UNCHANGED <<session, lines, dot, region, work>>
        /\ given' = Typed(find.delim, a) /\ loc' = Took(loc, k)
    BY DEF search_done
  <1>2. /\ loc \in LocType /\ lines \in Nat /\ given.list \in Seq(EntryType)
        /\ given.dot \in Int /\ k \in Int /\ find.delim \in Delims
    BY DEF Ranges, TypeInv, FindType
  <1>3. Between(loc, find.delim, given.list, given.dot, lines) /\ loc.dot = dot
    BY <1>1 DEF Ranges, RangeInv, Searching
  <1> HIDE DEF k
  <1>4. a \in AddressType /\ a # Omitted /\ a.base = "number" /\ a.n = k
    BY <1>2 DEF AddressType, Omitted
  <1> HIDE DEF a
  <1>5. x.delim = find.delim /\ x.addr = a
    OBVIOUS
  <1>6. /\ given' \in [dot : Int, list : Seq(EntryType)] /\ given'.dot = given.dot
        /\ OneMore(given.list, given'.list, n, x)
    BY <1>1, <1>2, <1>4, TypedList DEF Ranges
  <1> HIDE DEF x
  <1>7. loc' \in LocType /\ Read(loc', given'.list, given.dot, lines)
    BY <1>1, <1>2, <1>3, <1>4, <1>5, <1>6, AddressRead
  <1>8. Visited(dot, given'.list, given.dot, lines)
    <2>1. loc'.dot = dot
      BY <1>1, <1>2, <1>3 DEF Took, LocType
    <2> QED
      BY <1>7, <2>1 DEF Read
  <1>9. TypeInv'
    BY <1>1, <1>6, <1>7 DEF Ranges, TypeInv, work, PCs, NoSearch, FindType, Delims
  <1>10. RangeInv'
    BY <1>1, <1>6, <1>7, <1>8 DEF RangeInv, Searching
  <1> QED
    BY <1>1, <1>9, <1>10 DEF Ranges, SubstInv

LEMMA Positions ==
  ASSUME NEW n \in Nat, n > 0
  PROVE  Max({1, n - 1}) = IF n = 1 THEN 1 ELSE n - 1
  <1> DEFINE k == IF n = 1 THEN 1 ELSE n - 1
  <1>1. k \in {1, n - 1} /\ \A y \in {1, n - 1} : k >= y
    OBVIOUS
  <1>2. \A z \in {1, n - 1} : (\A y \in {1, n - 1} : z >= y) => z = k
    OBVIOUS
  <1> QED
    BY <1>1, <1>2 DEF Max

LEMMA EndRanges ==
  ASSUME Ranges, end_of_range
  PROVE  Ranges'
  <1> DEFINE f == IF loc.addrs < 2 THEN loc.second ELSE loc.first
             first == rollover(f)
             second == rollover(loc.second)
             n == Len(given.list)
             M == ListMeaning(given.list, given.dot, lines)
  <1>1. pc = "range" /\ given.list # <<>>
    BY DEF end_of_range
  <1>2. CASE ~ (/\ check_address_bounds(first) /\ check_address_bounds(second)
                /\ check_address_bounds(loc.dot))
    BY <1>1, <1>2, FailRanges DEF end_of_range
  <1>3. CASE /\ check_address_bounds(first) /\ check_address_bounds(second)
             /\ check_address_bounds(loc.dot)
    <2>1. /\ region' = [addrs |-> Min({2, loc.addrs}), start |-> first, end |-> second]
          /\ dot' = loc.dot /\ pc' = "command" /\ loc' = NoLocals
          /\ UNCHANGED <<session, lines, find, work, given>>
      BY <1>3 DEF end_of_range
    <2>2. /\ loc.first \in Int /\ loc.second \in Int /\ loc.dot \in Int /\ loc.addrs \in Nat
          /\ lines \in Nat /\ given.list \in Seq(EntryType) /\ Posix \in BOOLEAN
      BY AddressAssumption DEF Ranges, TypeInv, LocType
    <2>3. n \in Nat /\ n > 0
      BY <1>1, <2>2
    <2>4. Read(loc, given.list, given.dot, lines)
      BY <1>1 DEF Ranges, RangeInv
    <2>5. /\ loc.second = M[n].val /\ loc.dot = M[n].cur
          /\ Visited(loc.dot, given.list, given.dot, lines)
      BY <2>3, <2>4 DEF Read
    <2>6. f = M[Max({1, n - 1})].val
      <3>1. CASE n = 1
        <4>1. f = loc.second
          BY <2>4, <3>1 DEF Read
        <4>2. Max({1, n - 1}) = n
          BY <2>3, <3>1, Positions
        <4> QED
          BY <2>5, <4>1, <4>2
      <3>2. CASE n > 1
        <4>1. f = M[n - 1].val
          BY <2>2, <2>3, <2>4, <3>2 DEF Read
        <4>2. Max({1, n - 1}) = n - 1
          BY <2>3, <3>2, Positions
        <4> QED
          BY <4>1, <4>2
      <3>3. n = 1 \/ n > 1
        <4> HIDE DEF n
        <4> QED
          BY <2>3
      <3> QED
        BY <3>1, <3>2, <3>3
    <2>7. loc.dot \in 0 .. lines /\ first \in Int /\ second \in Int
      <3>1. f \in Int
        BY <2>2
      <3> QED
        BY <1>3, <2>2, <3>1 DEF check_address_bounds, rollover
    <2>8. Min({2, loc.addrs}) \in Nat
      <3>1. {2, loc.addrs} \subseteq Nat /\ {2, loc.addrs} # {}
        BY <2>2
      <3> QED
        BY <3>1, MinInSet
    <2>9. /\ region'.end = rollover(M[n].val)
           /\ region'.start = rollover(M[Max({1, n - 1})].val)
      <3> HIDE DEF first, second, f
      <3>1. region'.end = second /\ region'.start = first
        BY <2>1
      <3> QED
        BY <2>5, <2>6, <3>1 DEF first, second
    <2>10. TypeInv'
      <3>1. region' \in [addrs : Nat, start : Int, end : Int]
        <4> HIDE DEF first, second
        <4> QED
          BY <2>1, <2>7, <2>8
      <3>2. NoLocals \in LocType
        BY DEF NoLocals, LocType
      <3>3. "command" \in PCs
        BY DEF PCs
      <3> HIDE DEF first, second
      <3> QED
        BY <2>1, <2>7, <3>1, <3>2, <3>3 DEF Ranges, TypeInv, work
    <2>11. RangeInv'
      <3>1. RangeAsWritten'
        <4> HIDE DEF first, second
        <4> QED
          BY <2>1, <2>5, <2>9 DEF RangeAsWritten, Meaning, rollover
      <3> HIDE DEF first, second
      <3> QED
        BY <2>1, <2>3, <2>5, <3>1 DEF RangeInv, Searching
    <2> QED
      BY <2>1, <2>10, <2>11 DEF Ranges, SubstInv
  <1> QED
    BY <1>2, <1>3

\* The command is over, or one of a list.
LEMMA IdleRanges ==
  ASSUME Ranges, pc' \in {"idle", "global"}, UNCHANGED <<session, lines>>,
         NEW k \in 0 .. lines, dot' = k, given' = Begun(k),
         region' \in [addrs : Nat, start : Int, end : Int],
         loc' \in LocType, find' \in FindType, sub' \in SubType,
         queue' \in [on : BOOLEAN, lines : SUBSET (1 .. lines)]
  PROVE  Ranges'
  <1>1. given' \in [dot : Int, list : Seq(EntryType)] /\ given'.dot = k
    BY DEF Begun
  <1>2. TypeInv'
    BY <1>1 DEF Ranges, TypeInv, PCs
  <1>3. RangeInv'
    BY <1>1 DEF RangeInv, Searching
  <1>4. SubstInv'
    BY DEF SubstInv
  <1> QED
    BY <1>2, <1>3, <1>4 DEF Ranges

LEMMA FinishRanges ==
  ASSUME Ranges, NEW k \in 0 .. lines, Finish(k), UNCHANGED work
  PROVE  Ranges'
  <1>1. /\ loc' = loc /\ find' = find /\ loc \in LocType /\ find \in FindType
        /\ sub' = sub /\ queue' = queue /\ sub \in SubType
        /\ queue \in [on : BOOLEAN, lines : SUBSET (1 .. lines)]
    BY DEF Finish, work, Ranges, TypeInv
  <1>2. region' \in [addrs : Nat, start : Int, end : Int]
    BY DEF Finish, NoRegion
  <1>3. pc' \in {"idle", "global"} /\ UNCHANGED <<session, lines>> /\ dot' = k
        /\ given' = Begun(k)
    BY DEF Finish
  <1> QED
    BY <1>1, <1>2, <1>3, IdleRanges

LEMMA ValidEnd ==
  ASSUME Ranges, is_valid_range(dot, dot)
  PROVE  /\ Start(dot) \in Int /\ End(dot) \in Int
         /\ 1 <= Start(dot) /\ Start(dot) <= End(dot) /\ End(dot) <= lines
         /\ End(dot) \in 0 .. lines
  BY DEF Ranges, TypeInv, is_valid_range, Start, End

\* An s command begins its work.
LEMMA SubstRanges ==
  ASSUME Ranges, NEW ok \in BOOLEAN, s_cmd(ok)
  PROVE  Ranges'
  <1>1. pc = "command" /\ is_valid_range(dot, dot)
    BY DEF s_cmd
  <1>2. CASE ~ ok
    BY <1>1, <1>2, FailRanges DEF s_cmd
  <1>3. CASE ok
    <2>1. PICK a : a = Start(dot)
      OBVIOUS
    <2>2. PICK b : b = End(dot)
      OBVIOUS
    <2>3. /\ pc' = "subst" /\ region' = [region EXCEPT !.start = a, !.end = b]
          /\ dot' = a - 1 /\ sub' = [to |-> b, dot |-> dot, any |-> FALSE]
          /\ given' = Begun(dot)
          /\ UNCHANGED <<session, lines, loc, find, queue>>
      BY <1>3, <2>1, <2>2 DEF s_cmd
    <2>4. /\ a \in Int /\ b \in Int /\ 1 <= a /\ a <= b /\ b <= lines
          /\ lines \in Nat /\ dot \in 0 .. lines /\ dot \in Int
          /\ region \in [addrs : Nat, start : Int, end : Int]
      BY <1>1, <2>1, <2>2, ValidEnd DEF Ranges, TypeInv
    <2>5. /\ region' \in [addrs : Nat, start : Int, end : Int]
          /\ region'.start = a /\ region'.end = b
      BY <2>3, <2>4
    <2>6. sub' \in SubType /\ sub'.to = b /\ sub'.dot = dot /\ ~ sub'.any
      BY <2>3, <2>4 DEF SubType
    <2>7. /\ given' \in [dot : Int, list : Seq(EntryType)] /\ given'.dot = dot
          /\ a - 1 \in 0 .. lines /\ a - 1 \in a - 1 .. b
      BY <2>3, <2>4 DEF Begun
    <2>8. TypeInv'
      BY <2>3, <2>5, <2>6, <2>7 DEF Ranges, TypeInv, PCs
    <2>9. RangeInv'
      BY <2>3 DEF RangeInv, Searching
    <2>10. SubstInv'
      BY <2>3, <2>4, <2>5, <2>6, <2>7 DEF SubstInv
    <2> QED
      BY <2>8, <2>9, <2>10 DEF Ranges
  <1> QED
    BY <1>2, <1>3

\* It goes on to the next line.
LEMMA SubstLine ==
  ASSUME Ranges, NEW hit \in BOOLEAN, substitute_lines(hit)
  PROVE  Ranges'
  <1>1. /\ pc = "subst" /\ dot < sub.to /\ dot' = dot + 1
        /\ sub' = IF hit THEN [sub EXCEPT !.dot = dot + 1, !.any = TRUE] ELSE sub
        /\ queue' = IF hit THEN [queue EXCEPT !.lines = @ \ {dot + 1}] ELSE queue
        /\ UNCHANGED <<session, lines, region, pc, loc, find, given>>
    BY DEF substitute_lines
  <1>2. /\ sub \in SubType /\ queue \in [on : BOOLEAN, lines : SUBSET (1 .. lines)]
        /\ lines \in Nat /\ dot \in Int /\ region.start \in Int /\ region.end \in Int
    BY DEF Ranges, TypeInv
  <1>3. /\ 1 <= region.start /\ region.end <= lines /\ sub.to = region.end
        /\ dot \in region.start - 1 .. region.end
        /\ sub.dot \in 0 .. lines
        /\ ~ sub.any => sub.dot = given.dot
    BY <1>1 DEF Ranges, SubstInv
  <1>4. dot + 1 \in 0 .. lines /\ dot + 1 \in region.start - 1 .. region.end
    BY <1>1, <1>2, <1>3
  <1>5. /\ sub' \in SubType /\ sub'.to = region.end /\ sub'.dot \in 0 .. lines
        /\ ~ sub'.any => sub'.dot = given.dot
    <2>1. CASE hit
      <3>1. PICK k \in Int : k = dot + 1
        BY <1>2
      <3>2. sub' = [sub EXCEPT !.dot = k, !.any = TRUE]
        BY <1>1, <2>1, <3>1
      <3>3. sub' \in SubType /\ sub'.to = sub.to /\ sub'.dot = k /\ sub'.any
        BY <1>2, <3>1, <3>2 DEF SubType
      <3> QED
        BY <1>3, <1>4, <3>1, <3>3
    <2>2. CASE ~ hit
      BY <1>1, <1>2, <1>3, <2>2
    <2> QED
      BY <2>1, <2>2
  <1>6. queue' \in [on : BOOLEAN, lines : SUBSET (1 .. lines)]
    BY <1>1, <1>2
  <1>7. TypeInv'
    BY <1>1, <1>4, <1>5, <1>6 DEF Ranges, TypeInv
  <1>8. RangeInv'
    BY <1>1 DEF RangeInv, Searching
  <1>9. SubstInv'
    BY <1>1, <1>3, <1>4, <1>5 DEF SubstInv
  <1> QED
    BY <1>7, <1>8, <1>9 DEF Ranges

LEMMA SubstDone ==
  ASSUME Ranges, substitute_done
  PROVE  Ranges'
  <1>1. pc = "subst" /\ sub.dot \in 0 .. lines /\ (~ sub.any => sub.dot = given.dot)
    BY DEF substitute_done, Ranges, SubstInv
  <1>2. CASE sub.any \/ queue.on
    BY <1>1, <1>2, FinishRanges DEF substitute_done
  <1>3. CASE ~ (sub.any \/ queue.on)
    <2>1. /\ pc' = "failed" /\ UNCHANGED <<session, lines, region, find, given>>
          /\ dot' = sub.dot /\ sub.dot = given.dot
          /\ loc' = NoLocals /\ NoLocals \in LocType
          /\ sub' = NoSub /\ NoSub \in SubType /\ queue' = NoQueue
      BY <1>1, <1>3 DEF substitute_done, Abandon, NoLocals, LocType, NoSub, SubType
    <2>2. TypeInv'
      BY <1>1, <2>1 DEF Ranges, TypeInv, PCs, NoQueue
    <2>3. RangeInv'
      BY <2>1 DEF RangeInv, Searching, Visited
    <2>4. SubstInv'
      BY <2>1 DEF SubstInv
    <2> QED
      BY <2>2, <2>3, <2>4 DEF Ranges
  <1> QED
    BY <1>2, <1>3

\* A g command goes to the lines that matched.
LEMMA GlobalRanges ==
  ASSUME Ranges, global_cmd \/ exec_global \/ global_done
  PROVE  Ranges'
  <1>1. /\ lines \in Nat /\ dot \in 0 .. lines /\ loc \in LocType /\ find \in FindType
        /\ sub \in SubType /\ queue \in [on : BOOLEAN, lines : SUBSET (1 .. lines)]
        /\ region \in [addrs : Nat, start : Int, end : Int]
    BY DEF Ranges, TypeInv
  <1>2. CASE global_cmd
    <2>1. /\ pc' = "global" /\ region' = NoRegion /\ given' = Begun(dot)
          /\ UNCHANGED <<session, lines, dot, loc, find, sub>>
      BY <1>2 DEF global_cmd
    <2>2. PICK hits \in SUBSET (Start(1) .. End(lines)) :
                queue' = [on |-> TRUE, lines |-> hits]
      BY <1>2 DEF global_cmd
    <2>3. Start(1) \in Int /\ End(lines) \in Int /\ 1 <= Start(1) /\ End(lines) <= lines
      BY <1>1, <1>2 DEF global_cmd, is_valid_range, Start, End
    <2>4. hits \subseteq 1 .. lines
      BY <1>1, <2>3
    <2>5. region' \in [addrs : Nat, start : Int, end : Int]
      BY <2>1 DEF NoRegion
    <2>6. queue' \in [on : BOOLEAN, lines : SUBSET (1 .. lines)]
      BY <2>2, <2>4
    <2> QED
      BY <1>1, <2>1, <2>5, <2>6, IdleRanges
  <1>3. CASE exec_global
    <2>1. PICK S : S = queue.lines
      OBVIOUS
    <2>2. /\ pc' = "idle" /\ dot' = Min(S) /\ given' = Begun(Min(S)) /\ S # {}
          /\ queue' = [queue EXCEPT !.lines = S \ {Min(S)}]
          /\ UNCHANGED <<session, lines, region, loc, find, sub>>
      BY <1>3, <2>1 DEF exec_global
    <2>3. S \subseteq 1 .. lines /\ S \subseteq Nat
      BY <1>1, <2>1
    <2>4. Min(S) \in S
      BY <2>2, <2>3, MinInSet
    <2>5. PICK k \in 0 .. lines : k = Min(S)
      <3>1. PICK k : k = Min(S)
        OBVIOUS
      <3>2. k \in 1 .. lines
        BY <2>3, <2>4, <3>1
      <3> QED
        BY <1>1, <3>1, <3>2
    <2>6. queue' \in [on : BOOLEAN, lines : SUBSET (1 .. lines)]
      BY <1>1, <2>2, <2>3
    <2> QED
      BY <1>1, <2>2, <2>5, <2>6, IdleRanges
  <1>4. CASE global_done
    <2>1. /\ pc = "global" /\ pc' = "idle" /\ queue' = NoQueue
          /\ UNCHANGED <<session, lines, dot, region, loc, find, sub, given>>
      BY <1>4 DEF global_done
    <2>2. queue' \in [on : BOOLEAN, lines : SUBSET (1 .. lines)]
      BY <2>1 DEF NoQueue
    <2>3. dot = given.dot
      BY <2>1 DEF Ranges, RangeInv
    <2>4. TypeInv'
      BY <2>1, <2>2 DEF Ranges, TypeInv, PCs
    <2>5. RangeInv'
      BY <2>1, <2>3 DEF RangeInv, Searching
    <2> QED
      BY <2>1, <2>4, <2>5 DEF Ranges, SubstInv
  <1> QED
    BY <1>2, <1>3, <1>4

LEMMA NextRanges ==
  ASSUME Ranges, [Next]_vars
  PROVE  Ranges'
  <1>1. CASE UNCHANGED vars
    <2>1. TypeInv' /\ UNCHANGED <<loc, pc, given, lines, dot, find, region, sub>>
      BY <1>1 DEF vars, adr, work, Ranges, TypeInv
    <2>2. RangeInv'
      BY <2>1 DEF Ranges, RangeInv, RangeAsWritten, Meaning, rollover
    <2>3. SubstInv'
      BY <2>1 DEF Ranges, SubstInv
    <2> QED
      BY <2>1, <2>2, <2>3 DEF Ranges
  <1>2. ASSUME NEW d \in Delims, NEW a \in Plain, next_address(d, a) PROVE Ranges'
    BY <1>2, NextAddress
  <1>3. ASSUME NEW d \in Delims, NEW dir \in {"forward", "backward"},
               NEW off \in {0} \cup Offsets, line_address(d, dir, off)
        PROVE  Ranges'
    BY <1>3, LineAddress
  <1>4. CASE bad_address \/ no_pattern \/ command_fails
    BY <1>4, FailRanges DEF bad_address, no_pattern, command_fails
  <1>14. CASE interrupt
    <2>1. CASE pc = "subst"
      BY <1>14, <2>1, StopRanges DEF interrupt
    <2>2. CASE pc # "subst"
      BY <1>14, <2>2, FailRanges DEF interrupt, Fail
    <2> QED
      BY <2>1, <2>2
  <1>5. ASSUME NEW p \in session.patterns, compile(p) PROVE Ranges'
    BY <1>5, SearchRanges DEF compile, GoTo, Searching, Ranges, TypeInv
  <1>6. CASE release
    BY <1>6, SearchRanges DEF release, GoTo, Searching, Ranges, TypeInv
  <1>7. CASE store \/ previous
    <2>1. /\ pc \in Searching /\ pc' = "search"
          /\ UNCHANGED <<session, lines, dot, region, loc, work, given>>
      BY <1>7 DEF store, previous, StartSearch, Searching
    <2>2. PICK hits \in SUBSET (1 .. lines) : find' = [find EXCEPT !.hits = hits]
      BY <1>7 DEF store, previous, StartSearch
    <2>3. find' \in FindType /\ find'.delim = find.delim
      <3>1. hits \subseteq Int /\ find \in FindType
        BY DEF Ranges, TypeInv
      <3> QED
        BY <2>2, <3>1 DEF FindType
    <2> QED
      BY <2>1, <2>3, SearchRanges DEF Searching
  <1>8. CASE get_matching_node_address
    <2>1. /\ pc = "search" /\ pc' \in {"search", "found", "no_match"}
          /\ UNCHANGED <<session, lines, dot, region, loc, work, given>>
      BY <1>8 DEF get_matching_node_address
    <2>2. search_next \in Int
      BY DEF Ranges, TypeInv, FindType, search_next, INC_MOD, DEC_MOD
    <2>3. find' = [find EXCEPT !.addr = search_next]
      BY <1>8 DEF get_matching_node_address
    <2>4. find' \in FindType /\ find'.delim = find.delim
      BY <2>2, <2>3 DEF Ranges, TypeInv, FindType
    <2> QED
      BY <2>1, <2>4, SearchRanges DEF Searching
  <1>9. CASE p_cmd
    BY <1>9, ValidEnd, FinishRanges DEF p_cmd
  <1>10. ASSUME NEW ok \in BOOLEAN, s_cmd(ok) PROVE Ranges'
    BY <1>10, SubstRanges
  <1>11. ASSUME NEW hit \in BOOLEAN, substitute_lines(hit) PROVE Ranges'
    BY <1>11, SubstLine
  <1>13. CASE substitute_fails
    BY <1>13, StopRanges DEF substitute_fails
  <1>12. CASE report_error
    <2>1. /\ pc' = "idle" /\ region' = NoRegion /\ given' = Begun(dot) /\ queue' = NoQueue
          /\ UNCHANGED <<session, lines, dot>> /\ dot \in 0 .. lines
          /\ loc' \in LocType /\ find' \in FindType /\ sub' \in SubType
      BY <1>12 DEF report_error, NoLocals, NoSearch, NoSub, LocType, FindType, SubType,
                   Delims, Ranges, TypeInv
    <2>2. /\ region' \in [addrs : Nat, start : Int, end : Int]
          /\ queue' \in [on : BOOLEAN, lines : SUBSET (1 .. lines)]
      BY <2>1 DEF NoRegion, NoQueue
    <2> QED
      BY <2>1, <2>2, IdleRanges
  <1> QED
    BY <1>1, <1>2, <1>3, <1>4, <1>5, <1>6, <1>7, <1>8, <1>9, <1>10, <1>11, <1>12, <1>13,
       <1>14, BeginRanges, EndRanges, DoneRanges, SubstDone, GlobalRanges
    DEF Next, Parse, Search, Command, Delims

----------------------------------------------------------------------------
(* Searches. *)

\* When a search from line `from' looks at line k; n is the last line.
At(dir, n, from, k) ==
  IF dir = "forward" THEN IF k > from THEN k - from - 1 ELSE k - from + n
                     ELSE IF k < from THEN from - k - 1 ELSE from - k + n

Following(dir, n, k) == IF dir = "forward" THEN INC_MOD(k, n) ELSE DEC_MOD(k, n)

LEMMA Remainder ==
  ASSUME NEW n \in Nat, NEW a \in Int, NEW m, m = n + 1
  PROVE  /\ 0 <= a /\ a <= n => a % m = a
         /\ -(n + 1) <= a /\ a < 0 => a % m = a + n + 1
  <1>1. CASE 0 <= a /\ a <= n
    BY <1>1, Z3
  <1>2. CASE -(n + 1) <= a /\ a < 0
    BY <1>2, Z3
  <1> QED
    BY <1>1, <1>2

LEMMA DistanceAt ==
  ASSUME lines \in Nat, find.from \in 0 .. lines, find.dir \in {"forward", "backward"},
         NEW k \in 0 .. lines
  PROVE  Distance(k) = At(find.dir, lines, find.from, k)
  <1>1. PICK n \in Nat, from \in Nat : n = lines /\ from = find.from /\ from \in 0 .. n
    OBVIOUS
  <1>2. (k - from - 1) % (n + 1) = IF k > from THEN k - from - 1 ELSE k - from + n
    BY <1>1, Remainder
  <1>3. (from - k - 1) % (n + 1) = IF k < from THEN from - k - 1 ELSE from - k + n
    BY <1>1, Remainder
  <1>4. CASE find.dir = "forward"
    BY <1>1, <1>2, <1>4 DEF Distance, At
  <1>5. CASE find.dir = "backward"
    BY <1>1, <1>3, <1>5 DEF Distance, At
  <1> QED
    BY <1>4, <1>5

\* After line k it looks at line j, and at line i at another time.
InOrder(dir, n, from, k, j, i) ==
  /\ j \in 0 .. n
  /\ At(dir, n, from, j) = IF k = from THEN 0 ELSE At(dir, n, from, k) + 1
  /\ At(dir, n, from, from) = n
  /\ At(dir, n, from, i) \in 0 .. n
  /\ i # j => At(dir, n, from, i) # At(dir, n, from, j)

\* A search looks at one line after the other and at none twice.
LEMMA OneByOne ==
  ASSUME NEW n \in Nat, NEW from \in 0 .. n, NEW k \in 0 .. n,
         NEW dir \in {"forward", "backward"}, NEW i \in 0 .. n
  PROVE  InOrder(dir, n, from, k, Following(dir, n, k), i)
  <1>1. CASE dir = "forward"
    BY <1>1 DEF InOrder, At, Following, INC_MOD
  <1>2. CASE dir = "backward"
    BY <1>2 DEF InOrder, At, Following, DEC_MOD
  <1> QED
    BY <1>1, <1>2

LEMMA SearchTurn ==
  ASSUME TypeInv, SearchInv, get_matching_node_address
  PROVE  SearchInv'
  <1> DEFINE n == lines
             from == find.from
             dir == find.dir
             k == find.addr
             D(i) == At(dir, n, from, i)
  <1>1. /\ pc = "search" /\ UNCHANGED <<lines, dot>>
        /\ find' = [find EXCEPT !.addr = search_next]
        /\ pc' = CASE search_next \in find.hits -> "found"
                   [] search_next \notin find.hits /\ search_next # dot -> "search"
                   [] OTHER -> "no_match"
    BY DEF get_matching_node_address
  <1>2. /\ n \in Nat /\ from \in 0 .. n /\ dir \in {"forward", "backward"} /\ k \in 0 .. n
        /\ from = dot /\ find.hits \subseteq 1 .. n
    BY <1>1 DEF TypeInv, SearchInv, FindType, Searching
  <1>3. PICK j : /\ j = search_next /\ j = Following(dir, n, k) /\ find'.addr = j
                 /\ find'.from = from /\ find'.dir = dir /\ find'.hits = find.hits
    BY <1>1 DEF TypeInv, FindType, search_next, Following
  <1>4. \A i \in 0 .. n : Distance(i) = D(i) /\ Distance(i)' = D(i)
    <2>1. \A i \in 0 .. n : Distance(i) = D(i)
      BY <1>2, DistanceAt
    <2>2. \A i \in 0 .. n : Distance(i)' = Distance(i)
      BY <1>1, <1>3 DEF Distance
    <2> QED
      BY <2>1, <2>2
  <1>5. k = from \/ \A i \in find.hits : D(i) > D(k)
    BY <1>1, <1>2, <1>4 DEF SearchInv
  <1> HIDE DEF n, from, dir, k
  <1>6. /\ j \in 0 .. n /\ D(from) = n /\ D(j) = IF k = from THEN 0 ELSE D(k) + 1
        /\ \A i \in 0 .. n : D(i) \in 0 .. n /\ (D(i) = D(j) => i = j)
    <2>1. ASSUME NEW i \in 0 .. n
          PROVE  InOrder(dir, n, from, k, j, i)
      BY <1>2, <1>3, OneByOne
    <2>2. InOrder(dir, n, from, k, j, k)
      BY <1>2, <2>1
    <2> QED
      BY <2>1, <2>2 DEF InOrder
  <1> HIDE DEF D
  <1>7. \A i \in find.hits : D(i) >= D(j)
    BY <1>2, <1>6, <1>5
  <1>8. pc' = CASE j \in find.hits -> "found"
                [] j \notin find.hits /\ j # from -> "search"
                [] OTHER -> "no_match"
    BY <1>1, <1>2, <1>3
  <1>9. lines' = n /\ dot' = dot /\ Distance(find.addr)' = D(j)
    <2>1. Distance(find.addr)' = Distance(j)'
      BY <1>3 DEF Distance
    <2> QED
      BY <1>1, <1>4, <1>6, <2>1 DEF n
  <1>10. CASE j \in find.hits
    <2>1. pc' = "found"
      BY <1>8, <1>10
    <2>2. \A i \in find'.hits : Distance(find.addr)' <= Distance(i)'
      BY <1>2, <1>3, <1>4, <1>6, <1>7, <1>9
    <2> QED
      BY <1>2, <1>3, <1>6, <1>9, <1>10, <2>1, <2>2 DEF SearchInv, SearchNearest, Searching
  <1>11. CASE j \notin find.hits /\ j # from
    <2>1. pc' = "search"
      BY <1>8, <1>11
    <2>2. \A i \in find'.hits : Distance(i)' > Distance(find.addr)'
      BY <1>2, <1>3, <1>4, <1>6, <1>7, <1>9, <1>11
    <2> QED
      BY <1>2, <1>3, <1>6, <1>9, <1>11, <2>1, <2>2 DEF SearchInv, SearchNearest, Searching
  <1>12. CASE j \notin find.hits /\ j = from
    <2>1. pc' = "no_match"
      BY <1>8, <1>12
    <2>2. find.hits = {}
      <3> SUFFICES ASSUME NEW i \in find.hits PROVE FALSE
        OBVIOUS
      <3> QED
        BY <1>2, <1>6, <1>7, <1>12
    <2> QED
      BY <1>2, <1>3, <1>6, <1>9, <1>12, <2>1, <2>2 DEF SearchInv, SearchNearest, Searching
  <1> QED
    BY <1>10, <1>11, <1>12

LEMMA StartSearchInv ==
  ASSUME SearchInv, TypeInv, StartSearch, pc \in {"pattern", "freed"}
  PROVE  SearchInv'
  <1>1. pc' = "search" /\ UNCHANGED <<lines, dot>> /\ find \in FindType
    BY DEF StartSearch, TypeInv
  <1>2. PICK hits \in SUBSET (1 .. lines) : find' = [find EXCEPT !.hits = hits]
    BY DEF StartSearch
  <1>3. find'.from = find.from /\ find'.addr = find.addr /\ find'.hits = hits
    BY <1>1, <1>2 DEF FindType
  <1>4. find.from = dot /\ find.addr = dot /\ dot \in 0 .. lines
    BY DEF SearchInv, TypeInv, Searching
  <1> QED
    BY <1>1, <1>3, <1>4 DEF SearchInv, SearchNearest, Searching

LEMMA LineAddressSearch ==
  ASSUME TypeInv, NEW d \in Delims, NEW dir \in {"forward", "backward"},
         NEW off \in {0} \cup Offsets, line_address(d, dir, off)
  PROVE  SearchInv'
  <1> DEFINE v == delimiter(d)
  <1>1. \/ pc' = "failed"
        \/ /\ dot' = v.dot /\ pc' = "pattern"
           /\ find' = [from |-> v.dot, addr |-> v.dot, dir |-> dir,
                       hits |-> {}, off |-> off, delim |-> d]
    BY DEF line_address, Fail, Abandon
  <1> HIDE DEF v
  <1>2. \/ pc' = "failed"
        \/ dot' = v.dot /\ pc' = "pattern" /\ find'.from = v.dot /\ find'.addr = v.dot
    BY <1>1
  <1> QED
    BY <1>2 DEF SearchInv, SearchNearest, Searching

LEMMA NextSearchInv ==
  ASSUME TypeInv, SearchInv, [Next]_vars
  PROVE  SearchInv'
  <1>1. CASE UNCHANGED vars
    BY <1>1 DEF vars, adr, work, SearchInv, SearchNearest, Distance
  <1>2. CASE pc' \in {"idle", "range", "command", "failed", "subst", "global", "stopped"}
    BY <1>2 DEF SearchInv, SearchNearest, Searching
  <1>3. ASSUME NEW d \in Delims, NEW a \in Plain, next_address(d, a) PROVE SearchInv'
    BY <1>2, <1>3 DEF next_address, MayFollow
  <1>4. ASSUME NEW d \in Delims, NEW dir \in {"forward", "backward"},
               NEW off \in {0} \cup Offsets, line_address(d, dir, off)
        PROVE  SearchInv'
    BY <1>4, LineAddressSearch
  <1>5. CASE bad_address \/ no_pattern \/ command_fails \/ interrupt
    BY <1>2, <1>5 DEF bad_address, no_pattern, command_fails, interrupt, Fail, Abandon
  <1>6. CASE end_of_range
    BY <1>2, <1>6 DEF end_of_range, Fail, Abandon
  <1>7. ASSUME NEW p \in session.patterns, compile(p) PROVE SearchInv'
    BY <1>7 DEF compile, GoTo, SearchInv, SearchNearest, Searching
  <1>8. CASE release
    BY <1>8 DEF release, GoTo, SearchInv, SearchNearest, Searching
  <1>9. CASE store \/ previous
    BY <1>9, StartSearchInv DEF store, previous
  <1>10. CASE address_range \/ search_done \/ report_error
    BY <1>2, <1>10 DEF address_range, search_done, report_error
  <1>11. CASE p_cmd \/ global_cmd \/ exec_global \/ global_done
    BY <1>2, <1>11 DEF p_cmd, global_cmd, exec_global, global_done, Finish
  <1>12. ASSUME NEW ok \in BOOLEAN, s_cmd(ok) PROVE SearchInv'
    BY <1>2, <1>12 DEF s_cmd, Fail, Abandon
  <1>13. CASE substitute_done \/ substitute_fails
    BY <1>2, <1>13 DEF substitute_done, substitute_fails, Finish, Abandon
  <1>14. ASSUME NEW hit \in BOOLEAN, substitute_lines(hit) PROVE SearchInv'
    BY <1>2, <1>14 DEF substitute_lines
  <1> QED
    BY <1>1, <1>3, <1>4, <1>5, <1>6, <1>7, <1>8, <1>9, <1>10, <1>11, <1>12, <1>13, <1>14,
       SearchTurn
    DEF Next, Parse, Search, Command, Delims

----------------------------------------------------------------------------
(* Patterns. *)

LEMMA Blocks == Nil \notin Re /\ Re \subseteq Nat /\ Free \notin Pattern
  BY RegexAssumption DEF Re, Nil

\* malloc () returns a block that is free.
LEMMA Malloc ==
  ASSUME ~ malloc_fails
  PROVE  malloc \in Re /\ mem[malloc] = Free
  <1> DEFINE S == {r \in Re : mem[r] = Free}
  <1>1. S \subseteq Nat /\ S # {}
    BY Blocks DEF malloc_fails
  <1> HIDE DEF S
  <1>2. Min(S) \in S
    BY <1>1, MinInSet
  <1> QED
    BY <1>2 DEF S, malloc

\* The patterns are not touched.
LEMMA SlotsKept ==
  ASSUME SlotInv, UNCHANGED <<mem, re, re_search, re_subst, lhs, last, orphan, torn>>,
         used' = used \/ used' = [want |-> None, got |-> None],
         pc' = pc \/ (re = Nil /\ pc' \notin {"compiled", "freed"})
  PROVE  SlotInv'
  <1>1. SlotTypes'
    BY DEF SlotInv, SlotTypes, Known, None
  <1>2. PatternAsTabled'
    BY DEF SlotInv, PatternAsTabled
  <1>3. SearchSlot' = SearchSlot /\ (pc = "freed" <=> pc' = "freed")
    BY DEF SlotInv, SlotTypes, SearchSlot
  <1>4. Holds(re_search)' = Holds(re_search)
    BY DEF Holds
  <1> QED
    BY <1>1, <1>2, <1>3, <1>4 DEF SlotInv

LEMMA CompileSlots ==
  ASSUME SlotInv, NEW p \in Pattern, compile_search(p), pc = "pattern", pc' = "compiled"
  PROVE  SlotInv'
  <1>1. PICK b \in Re : b = malloc /\ mem[b] = Free
    BY Malloc DEF compile_search
  <1>2. /\ re' = b /\ mem' = [mem EXCEPT ![b] = p]
        /\ UNCHANGED <<re_search, re_subst, lhs, last, used, orphan, torn>>
    BY <1>1 DEF compile_search
  <1>3. mem \in [Re -> Known] /\ re = Nil /\ p # Free /\ Nil \notin Re
    BY Blocks DEF SlotInv, SlotTypes
  <1>4. SlotTypes'
    BY <1>2, <1>3 DEF SlotInv, SlotTypes, Known
  <1>5. PatternAsTabled'
    BY <1>2 DEF SlotInv, PatternAsTabled
  <1>6. ASSUME ~ torn
        PROVE  /\ Refs(mem', re', SearchSlot', re_subst', lhs', last', orphan')
               /\ Holds(re_search)' = last'.search
    <2>1. SearchSlot = re_search /\ SearchSlot' = re_search
      BY <1>2 DEF SearchSlot
    <2>2. /\ Refs(mem, Nil, re_search, re_subst, lhs, last, orphan)
          /\ Holds(re_search) = last.search
      BY <1>3, <1>6, <2>1 DEF SlotInv
    <2>3. /\ \A c \in Re : mem'[c] = IF c = b THEN p ELSE mem[c]
          /\ b # re_search /\ b # re_subst
      BY <1>1, <1>2, <1>3, <2>2 DEF Refs
    <2>4. re_search \in Re \cup {Nil} /\ re_subst \in Re \cup {Nil} /\ lhs \in Re \cup {Nil}
      BY DEF SlotInv, SlotTypes
    <2>5. Holds(re_search)' = Holds(re_search)
      BY <1>2, <2>3, <2>4 DEF Holds
    <2>6. Refs(mem', b, re_search, re_subst, lhs, last, orphan)
      BY <1>1, <1>3, <2>2, <2>3, <2>4 DEF Refs
    <2> QED
      BY <1>2, <2>1, <2>2, <2>5, <2>6
  <1> QED
    BY <1>2, <1>4, <1>5, <1>6 DEF SlotInv

LEMMA ReleaseSlots ==
  ASSUME SlotInv, free_search, pc = "compiled", pc' = "freed"
  PROVE  SlotInv'
  <1>1. /\ UNCHANGED <<re, re_search, re_subst, lhs, last, used, torn>>
        /\ IF re_search # Nil /\ re_search # re_subst
             THEN /\ mem' = [mem EXCEPT ![re_search] = Free]
                  /\ orphan' = (orphan \/ lhs = re_search)
             ELSE UNCHANGED <<mem, orphan>>
    BY DEF free_search
  <1>2. /\ mem \in [Re -> Known] /\ re \in Re /\ Nil \notin Re
        /\ re_search \in Re \cup {Nil} /\ re_subst \in Re \cup {Nil} /\ lhs \in Re \cup {Nil}
    BY Blocks DEF SlotInv, SlotTypes
  <1>3. SlotTypes'
    BY <1>1, <1>2 DEF SlotInv, SlotTypes, Known
  <1>4. PatternAsTabled'
    BY <1>1 DEF SlotInv, PatternAsTabled
  <1>5. ASSUME ~ torn
        PROVE  Refs(mem', re, Nil, re_subst, lhs, last, orphan')
    <2>1. Refs(mem, re, re_search, re_subst, lhs, last, orphan)
      BY <1>5 DEF SlotInv, SearchSlot
    <2>2. CASE re_search # Nil /\ re_search # re_subst
      <3>1. \A c \in Re : mem'[c] = IF c = re_search THEN Free ELSE mem[c]
        BY <1>1, <1>2, <2>2
      <3>2. ~ orphan' => ~ orphan /\ lhs # re_search
        BY <1>1, <2>2
      <3> QED
        BY <1>2, <2>1, <2>2, <3>1, <3>2 DEF Refs
    <2>3. CASE ~ (re_search # Nil /\ re_search # re_subst)
      <3>1. mem' = mem /\ orphan' = orphan
        BY <1>1, <2>3
      <3> QED
        BY <1>2, <2>1, <2>3, <3>1 DEF Refs
    <2> QED
      BY <2>2, <2>3
  <1> QED
    BY <1>1, <1>3, <1>4, <1>5 DEF SlotInv, SearchSlot

LEMMA StoreSlots ==
  ASSUME SlotInv, store_search, pc = "freed", pc' = "search"
  PROVE  SlotInv'
  <1>1. /\ re_search' = re /\ re' = Nil /\ UNCHANGED <<mem, re_subst, lhs, orphan, torn>>
        /\ last' = [last EXCEPT !.search = mem[re]]
        /\ used' = [want |-> mem[re], got |-> Holds(re)]
    BY DEF store_search, Uses
  <1>2. /\ mem \in [Re -> Known] /\ re \in Re /\ re # Nil /\ mem[re] \in Known
        /\ last \in [search : Known, subst : Known, done : Known]
    BY Blocks DEF SlotInv, SlotTypes
  <1>3. Holds(re) = mem[re]
    BY <1>2 DEF Holds
  <1>4. /\ last'.search = mem[re] /\ last'.subst = last.subst /\ last'.done = last.done
        /\ last' \in [search : Known, subst : Known, done : Known]
    BY <1>1, <1>2
  <1>5. SlotTypes'
    BY <1>1, <1>2, <1>3, <1>4 DEF SlotInv, SlotTypes
  <1>6. PatternAsTabled'
    BY <1>1, <1>3 DEF PatternAsTabled
  <1>7. ASSUME ~ torn
        PROVE  /\ Refs(mem, Nil, re, re_subst, lhs, last', orphan)
               /\ Holds(re_search)' = last'.search
    <2>1. Refs(mem, re, Nil, re_subst, lhs, last, orphan)
      BY <1>7 DEF SlotInv, SearchSlot
    <2> QED
      BY <1>1, <1>2, <1>4, <2>1, Blocks DEF Refs, Holds
  <1> QED
    BY <1>1, <1>5, <1>6, <1>7 DEF SlotInv, SearchSlot

LEMMA LoseSlots ==
  ASSUME SlotInv, lose_search, pc' \in {"failed", "stopped"}
  PROVE  SlotInv'
  <1>1. /\ torn' = (torn \/ re # Nil) /\ re' = Nil
        /\ UNCHANGED <<mem, re_search, re_subst, lhs, last, used, orphan>>
    BY DEF lose_search
  <1>2. SlotTypes'
    BY <1>1 DEF SlotInv, SlotTypes
  <1>3. PatternAsTabled'
    BY <1>1 DEF SlotInv, PatternAsTabled
  <1>4. ASSUME ~ torn'
        PROVE  /\ Refs(mem, Nil, re_search, re_subst, lhs, last, orphan)
               /\ Holds(re_search)' = last.search
    <2>1. ~ torn /\ re = Nil /\ pc # "freed"
      BY <1>1, <1>4 DEF SlotInv, SlotTypes
    <2>2. Holds(re_search)' = Holds(re_search)
      BY <1>1 DEF Holds
    <2> QED
      BY <2>1, <2>2 DEF SlotInv, SearchSlot
  <1> QED
    BY <1>1, <1>2, <1>3, <1>4 DEF SlotInv, SearchSlot

\* What the table of get_compiled_regex () says of the two slots.
LEMMA SlotPatterns ==
  ASSUME SlotInv, ~ torn, pc # "freed"
  PROVE  /\ re_search # Nil => mem[re_search] = last.search /\ last.search # None
         /\ re_search = Nil => last.search = None
         /\ re_subst # Nil => mem[re_subst] = last.subst /\ last.subst # None
         /\ re_subst = Nil => last.subst = None
  <1>1. /\ Refs(mem, re, re_search, re_subst, lhs, last, orphan)
        /\ Holds(re_search) = last.search
        /\ re_search \in Re \cup {Nil} /\ re_subst \in Re \cup {Nil}
    BY DEF SlotInv, SlotTypes, SearchSlot
  <1> QED
    BY <1>1 DEF Refs, Holds, None

\* Patterns of one of the slots.
LEMMA PreviousSlots ==
  ASSUME SlotInv, previous_search, pc = "pattern", pc' = "search"
  PROVE  SlotInv'
  <1> DEFINE r == IF re_search # Nil THEN re_search ELSE re_subst
             p == IF last.search # None THEN last.search ELSE last.subst
  <1>1. /\ r # Nil /\ re_search' = r /\ last' = [last EXCEPT !.search = p]
        /\ used' = [want |-> p, got |-> Holds(r)]
        /\ UNCHANGED <<mem, re, re_subst, lhs, orphan, torn>>
    BY DEF previous_search, Uses
  <1>2. /\ mem \in [Re -> Known] /\ re = Nil /\ Nil \notin Re
        /\ re_search \in Re \cup {Nil} /\ re_subst \in Re \cup {Nil} /\ lhs \in Re \cup {Nil}
        /\ last \in [search : Known, subst : Known, done : Known]
    BY Blocks DEF SlotInv, SlotTypes
  <1>3. r \in Re /\ p \in Known
    BY <1>1, <1>2
  <1>4. ~ torn => mem[r] = p /\ (re_search # Nil => r = re_search /\ p = last.search)
                  /\ (re_search = Nil => r = re_subst /\ p = last.subst)
    BY <1>1, SlotPatterns
  <1>5. ~ torn => Refs(mem, Nil, re_search, re_subst, lhs, last, orphan)
    BY <1>2 DEF SlotInv, SearchSlot
  <1> HIDE DEF r, p
  <1>6. /\ last'.search = p /\ last'.subst = last.subst /\ last'.done = last.done
        /\ last' \in [search : Known, subst : Known, done : Known]
    BY <1>1, <1>2, <1>3
  <1>7. Holds(r) = mem[r] /\ mem[r] \in Known
    BY <1>1, <1>2, <1>3 DEF Holds
  <1>8. SlotTypes'
    BY <1>1, <1>2, <1>3, <1>6, <1>7 DEF SlotTypes
  <1>9. PatternAsTabled'
    BY <1>1, <1>4, <1>7 DEF PatternAsTabled
  <1>10. ASSUME ~ torn
         PROVE  Refs(mem, Nil, r, re_subst, lhs, last', orphan) /\ Holds(re_search)' = p
    <2>1. Refs(mem, Nil, r, re_subst, lhs, last', orphan)
      BY <1>2, <1>3, <1>4, <1>5, <1>6, <1>10 DEF Refs
    <2>2. Holds(re_search)' = p
      BY <1>1, <1>4, <1>10 DEF Holds
    <2> QED
      BY <2>1, <2>2
  <1> QED
    BY <1>1, <1>2, <1>6, <1>8, <1>9, <1>10 DEF SlotInv, SearchSlot

LEMMA SubstPrevious ==
  ASSUME SlotInv, NEW ok \in BOOLEAN, NEW p \in Known, NEW r, subst_previous(p, r, ok),
         r \in {re_search, re_subst}, ~ torn => mem[r] = p,
         pc = "command", pc' \in {"subst", "failed"}
  PROVE  SlotInv'
  <1> DEFINE t == IF re_subst = Nil THEN r ELSE re_subst
             h == IF ok THEN r ELSE lhs
             s == IF last.subst = None THEN p ELSE last.subst
             d == IF ok THEN p ELSE last.done
  <1>1. /\ r # Nil /\ re_subst' = t /\ lhs' = h /\ orphan' = (orphan /\ ~ ok)
        /\ last' = [last EXCEPT !.subst = s, !.done = d]
        /\ UNCHANGED <<mem, re, re_search, torn>>
        /\ IF ok THEN used' = [want |-> p, got |-> Holds(r)] ELSE used' = used
    BY DEF subst_previous, Uses, Unused
  <1>2. /\ mem \in [Re -> Known] /\ re = Nil /\ Nil \notin Re
        /\ re_search \in Re \cup {Nil} /\ re_subst \in Re \cup {Nil} /\ lhs \in Re \cup {Nil}
        /\ last \in [search : Known, subst : Known, done : Known]
        /\ used \in [want : Known, got : Known]
    BY Blocks DEF SlotInv, SlotTypes
  <1>3. r \in Re /\ t \in Re \cup {Nil} /\ h \in Re \cup {Nil} /\ s \in Known /\ d \in Known
        /\ (re_subst = Nil => t = r) /\ (re_subst # Nil => t = re_subst)
        /\ (ok => h = r /\ d = p) /\ (~ ok => h = lhs /\ d = last.done)
    BY <1>1, <1>2
  <1>4. ~ torn => /\ re_subst = Nil => s = p
                  /\ re_subst # Nil => s = last.subst
                  /\ Holds(re_search) = last.search
                  /\ Refs(mem, Nil, re_search, re_subst, lhs, last, orphan)
    BY <1>2, SlotPatterns DEF SlotInv, SearchSlot
  <1> HIDE DEF t, h, s, d
  <1>5. /\ last'.search = last.search /\ last'.subst = s /\ last'.done = d
        /\ last' \in [search : Known, subst : Known, done : Known]
    BY <1>1, <1>2, <1>3
  <1>6. Holds(r) = mem[r] /\ mem[r] \in Known
    BY <1>1, <1>2, <1>3 DEF Holds
  <1>7. SlotTypes'
    <2>1. used' \in [want : Known, got : Known]
      BY <1>1, <1>2, <1>6
    <2> QED
      BY <1>1, <1>2, <1>3, <1>5, <2>1 DEF SlotTypes
  <1>8. PatternAsTabled'
    <2>1. CASE ok
      BY <1>1, <1>6, <2>1 DEF PatternAsTabled
    <2>2. CASE ~ ok
      <3>1. used' = used /\ torn' = torn /\ (orphan => orphan')
        BY <1>1, <2>2
      <3> QED
        BY <3>1 DEF SlotInv, PatternAsTabled
    <2> QED
      BY <2>1, <2>2
  <1>9. ASSUME ~ torn
        PROVE  Refs(mem, Nil, re_search, t, h, last', orphan') /\ Holds(re_search)' = last.search
    <2>1. Refs(mem, Nil, re_search, t, h, last', orphan')
      BY <1>1, <1>2, <1>3, <1>4, <1>5, <1>9 DEF Refs
    <2>2. Holds(re_search)' = Holds(re_search)
      BY <1>1 DEF Holds
    <2> QED
      BY <1>4, <1>9, <2>1, <2>2
  <1> QED
    BY <1>1, <1>2, <1>5, <1>7, <1>8, <1>9 DEF SlotInv, SearchSlot

\* A new pattern for slot s, where t is the other slot: the old one is freed
\* unless the other slot has it, too.
LEMMA NewPattern ==
  ASSUME NEW m, NEW m2, NEW b \in Re, NEW s, NEW t, NEW p, p # Free, m \in [Re -> Known],
         m[b] = Free, p \in Known,
         NEW drop, drop <=> s # Nil /\ s # t,
         s \in Re \cup {Nil}, t \in Re \cup {Nil},
         m2 = IF drop THEN [[m EXCEPT ![b] = p] EXCEPT ![s] = Free] ELSE [m EXCEPT ![b] = p],
         \A c \in Re : m[c] # Free <=> c = Nil \/ c = s \/ c = t
  PROVE  /\ b # s /\ b # t /\ m2 \in [Re -> Known] /\ m2[b] = p
         /\ \A c \in Re : c # b /\ ~ (drop /\ c = s) => m2[c] = m[c]
         /\ drop => m2[s] = Free
         /\ \A c \in Re : m2[c] # Free <=> c = Nil \/ c = b \/ c = t
  <1>1. b # s /\ b # t
    BY Blocks
  <1>2. CASE drop
    <2>1. m2 = [[m EXCEPT ![b] = p] EXCEPT ![s] = Free] /\ s \in Re /\ s # t
      BY <1>2
    <2>2. m2 \in [Re -> Known] /\ m2[b] = p /\ m2[s] = Free
          /\ \A c \in Re : c # b /\ c # s => m2[c] = m[c]
      BY <1>1, <2>1 DEF Known
    <2> QED
      BY <1>1, <1>2, <2>1, <2>2, Blocks
  <1>3. CASE ~ drop
    <2>1. m2 = [m EXCEPT ![b] = p] /\ (s = Nil \/ s = t)
      BY <1>3
    <2>2. m2 \in [Re -> Known] /\ m2[b] = p /\ \A c \in Re : c # b => m2[c] = m[c]
      BY <2>1
    <2> QED
      BY <1>1, <1>3, <2>1, <2>2, Blocks
  <1> QED
    BY <1>2, <1>3

LEMMA NewPatternType ==
  ASSUME NEW m, NEW m2, NEW b \in Re, NEW s, NEW p \in Known, m \in [Re -> Known],
         NEW drop,
         m2 = IF drop THEN [[m EXCEPT ![b] = p] EXCEPT ![s] = Free] ELSE [m EXCEPT ![b] = p]
  PROVE  m2 \in [Re -> Known]
  BY DEF Known

LEMMA GlobalSlots ==
  ASSUME SlotInv, NEW p \in Pattern, compile_global(p), pc = "command", pc' = "global"
  PROVE  SlotInv'
  <1> DEFINE drop == re_search # Nil /\ re_search # re_subst
  <1>1. PICK b \in Re : b = malloc /\ mem[b] = Free
    BY Malloc DEF compile_global
  <1>2. /\ mem' = IF drop THEN [[mem EXCEPT ![b] = p] EXCEPT ![re_search] = Free]
                          ELSE [mem EXCEPT ![b] = p]
        /\ orphan' = (orphan \/ (drop /\ lhs = re_search))
        /\ re_search' = b /\ last' = [last EXCEPT !.search = p]
        /\ used' = [want |-> p, got |-> p]
        /\ UNCHANGED <<re, re_subst, lhs, torn>>
    BY <1>1 DEF compile_global
  <1>3. /\ mem \in [Re -> Known] /\ re = Nil /\ Nil \notin Re /\ p # Free /\ p \in Known
        /\ re_search \in Re \cup {Nil} /\ re_subst \in Re \cup {Nil} /\ lhs \in Re \cup {Nil}
        /\ last \in [search : Known, subst : Known, done : Known]
    BY Blocks DEF SlotInv, SlotTypes, Known
  <1>4. /\ last'.search = p /\ last'.subst = last.subst /\ last'.done = last.done
        /\ last' \in [search : Known, subst : Known, done : Known]
    BY <1>2, <1>3
  <1>5. SlotTypes'
    <2>1. mem' \in [Re -> Known]
      BY <1>2, <1>3, NewPatternType
    <2> QED
      BY <1>2, <1>3, <1>4, <2>1 DEF SlotTypes
  <1>6. PatternAsTabled'
    BY <1>2 DEF PatternAsTabled
  <1>7. ASSUME ~ torn
        PROVE  Refs(mem', Nil, b, re_subst, lhs, last', orphan') /\ Holds(re_search)' = p
    <2>1. Refs(mem, Nil, re_search, re_subst, lhs, last, orphan)
      BY <1>3, <1>7 DEF SlotInv, SearchSlot
    <2>2. \A c \in Re : mem[c] # Free <=> c = Nil \/ c = re_search \/ c = re_subst
      BY <2>1 DEF Refs
    <2>3. PICK dr : dr = drop
      OBVIOUS
    <2>4. dr <=> re_search # Nil /\ re_search # re_subst
      BY <2>3
    <2>5. mem' = IF dr THEN [[mem EXCEPT ![b] = p] EXCEPT ![re_search] = Free]
                       ELSE [mem EXCEPT ![b] = p]
      BY <1>2, <2>3
    <2>6. /\ b # re_search /\ b # re_subst /\ mem'[b] = p
          /\ \A c \in Re : c # b /\ ~ (dr /\ c = re_search) => mem'[c] = mem[c]
          /\ \A c \in Re : mem'[c] # Free <=> c = Nil \/ c = b \/ c = re_subst
      BY <1>1, <1>3, <2>2, <2>4, <2>5, NewPattern
    <2>7. ~ orphan' => ~ orphan /\ ~ (drop /\ lhs = re_search)
      BY <1>2
    <2>8. Refs(mem', Nil, b, re_subst, lhs, last', orphan')
      BY <1>1, <1>3, <1>4, <2>1, <2>4, <2>6, <2>7 DEF Refs
    <2>9. Holds(re_search)' = p
      BY <1>1, <1>2, <1>3, <2>6 DEF Holds
    <2> QED
      BY <2>8, <2>9
  <1> QED
    BY <1>2, <1>3, <1>4, <1>5, <1>6, <1>7 DEF SlotInv, SearchSlot

LEMMA SubstSlots ==
  ASSUME SlotInv, NEW p \in Pattern, NEW ok \in BOOLEAN, subst_pattern(p, ok),
         pc = "command", pc' \in {"subst", "failed"}
  PROVE  SlotInv'
  <1> DEFINE drop == re_subst # Nil /\ re_subst # re_search
             d == IF ok THEN p ELSE last.done
  <1>1. PICK b \in Re : b = malloc /\ mem[b] = Free
    BY Malloc DEF subst_pattern
  <1>2. /\ mem' = IF drop THEN [[mem EXCEPT ![b] = p] EXCEPT ![re_subst] = Free]
                          ELSE [mem EXCEPT ![b] = p]
        /\ orphan' = (~ ok /\ (orphan \/ (drop /\ lhs = re_subst)))
        /\ re_subst' = b /\ last' = [last EXCEPT !.subst = p, !.done = d]
        /\ lhs' = IF ok THEN b ELSE lhs
        /\ IF ok THEN used' = [want |-> p, got |-> p] ELSE used' = used
        /\ UNCHANGED <<re, re_search, torn>>
    BY <1>1 DEF subst_pattern, Unused
  <1>3. /\ mem \in [Re -> Known] /\ re = Nil /\ Nil \notin Re /\ p # Free /\ p \in Known
        /\ re_search \in Re \cup {Nil} /\ re_subst \in Re \cup {Nil} /\ lhs \in Re \cup {Nil}
        /\ last \in [search : Known, subst : Known, done : Known]
        /\ used \in [want : Known, got : Known]
    BY Blocks DEF SlotInv, SlotTypes, Known
  <1>4. d \in Known /\ (ok => d = p) /\ (~ ok => d = last.done)
    BY <1>3
  <1> HIDE DEF d
  <1>5. /\ last'.search = last.search /\ last'.subst = p /\ last'.done = d
        /\ last' \in [search : Known, subst : Known, done : Known]
    BY <1>2, <1>3, <1>4
  <1>6. SlotTypes'
    <2>1. mem' \in [Re -> Known]
      BY <1>2, <1>3, NewPatternType
    <2>2. used' \in [want : Known, got : Known] /\ lhs' \in Re \cup {Nil}
      BY <1>2, <1>3
    <2> QED
      BY <1>2, <1>3, <1>5, <2>1, <2>2 DEF SlotTypes
  <1>7. PatternAsTabled'
    <2>1. CASE ok
      BY <1>2, <2>1 DEF PatternAsTabled
    <2>2. CASE ~ ok
      <3>1. used' = used /\ torn' = torn /\ (orphan => orphan')
        BY <1>2, <2>2
      <3> QED
        BY <3>1 DEF SlotInv, PatternAsTabled
    <2> QED
      BY <2>1, <2>2
  <1>8. ASSUME ~ torn
        PROVE  /\ Refs(mem', Nil, re_search, b, lhs', last', orphan')
               /\ Holds(re_search)' = last.search
    <2>1. /\ Refs(mem, Nil, re_search, re_subst, lhs, last, orphan)
          /\ Holds(re_search) = last.search
      BY <1>3, <1>8 DEF SlotInv, SearchSlot
    <2>2. \A c \in Re : mem[c] # Free <=> c = Nil \/ c = re_subst \/ c = re_search
      BY <2>1 DEF Refs
    <2>3. PICK dr : dr = drop
      OBVIOUS
    <2>4. dr <=> re_subst # Nil /\ re_subst # re_search
      BY <2>3
    <2>5. mem' = IF dr THEN [[mem EXCEPT ![b] = p] EXCEPT ![re_subst] = Free]
                       ELSE [mem EXCEPT ![b] = p]
      BY <1>2, <2>3
    <2>6. /\ b # re_search /\ b # re_subst /\ mem'[b] = p
          /\ \A c \in Re : c # b /\ ~ (dr /\ c = re_subst) => mem'[c] = mem[c]
          /\ \A c \in Re : mem'[c] # Free <=> c = Nil \/ c = b \/ c = re_search
      BY <1>1, <1>3, <2>2, <2>4, <2>5, NewPattern, SMTT(30)
    <2>7. Refs(mem', Nil, re_search, b, lhs', last', orphan')
      <3>1. CASE ok
        BY <1>1, <1>2, <1>3, <1>4, <1>5, <2>6, <3>1 DEF Refs
      <3>2. CASE ~ ok
        <4>1. lhs' = lhs /\ (~ orphan' => ~ orphan /\ ~ (drop /\ lhs = re_subst))
          BY <1>2, <3>2
        <4> QED
          BY <1>1, <1>3, <1>4, <1>5, <2>1, <2>4, <2>6, <3>2, <4>1 DEF Refs
      <3> QED
        BY <3>1, <3>2
    <2>8. Holds(re_search)' = Holds(re_search)
      BY <1>2, <1>3, <2>4, <2>6 DEF Holds
    <2> QED
      BY <2>1, <2>7, <2>8
  <1> QED
    BY <1>2, <1>3, <1>5, <1>6, <1>7, <1>8 DEF SlotInv, SearchSlot

\* The last substitution again, with what lhs points to.
LEMMA RepeatSlots ==
  ASSUME SlotInv, subst_repeat, pc = "command", pc' \in {"subst", "failed"}
  PROVE  SlotInv'
  <1>1. /\ lhs # Nil /\ used' = [want |-> last.done, got |-> Holds(lhs)]
        /\ UNCHANGED <<mem, re, re_search, re_subst, lhs, last, orphan, torn>>
    BY DEF subst_repeat, Uses
  <1>2. Holds(lhs) = mem[lhs] /\ mem[lhs] \in Known /\ last.done \in Known
    BY <1>1 DEF SlotInv, SlotTypes, Holds
  <1>3. SlotTypes'
    BY <1>1, <1>2 DEF SlotInv, SlotTypes
  <1>4. PatternAsTabled'
    BY <1>1, <1>2 DEF SlotInv, PatternAsTabled, Refs
  <1>5. Holds(re_search)' = Holds(re_search) /\ SearchSlot' = SearchSlot
    BY <1>1 DEF Holds, SearchSlot
  <1> QED
    BY <1>1, <1>3, <1>4, <1>5 DEF SlotInv

\* A step that leaves the patterns alone, or only forgets what was used.
LEMMA OtherSlots ==
  ASSUME SlotInv, UNCHANGED rx, pc' = pc \/ (re = Nil /\ pc' \notin {"compiled", "freed"})
  PROVE  SlotInv'
  BY SlotsKept DEF rx

LEMMA SubstituteSlots ==
  ASSUME TypeInv, SlotInv, NEW ok \in BOOLEAN, s_cmd(ok)
  PROVE  SlotInv'
  <1>1. pc = "command" /\ pc' \in {"subst", "failed"}
    BY DEF s_cmd, Fail, Abandon
  <1>2. session.patterns \subseteq Pattern
    BY AddressAssumption DEF TypeInv
  <1>3. last.search \in Known /\ last.subst \in Known
    BY DEF SlotInv, SlotTypes
  <1>4. ASSUME NEW p \in session.patterns, subst_pattern(p, ok) PROVE SlotInv'
    BY <1>1, <1>2, <1>4, SubstSlots
  <1>5. CASE subst_empty(ok)
    <2> DEFINE p == IF last.search # None THEN last.search ELSE last.subst
               r == IF re_search # Nil THEN re_search ELSE re_subst
    <2>1. subst_previous(p, r, ok)
      BY <1>5 DEF subst_empty
    <2>2. r \in {re_search, re_subst} /\ p \in Known /\ r # Nil
      BY <1>3, <2>1 DEF subst_previous
    <2>3. ~ torn => mem[r] = p
      BY <1>1, <2>2, SlotPatterns
    <2> HIDE DEF p, r
    <2> QED
      BY <1>1, <2>1, <2>2, <2>3, SubstPrevious
  <1>6. CASE subst_r(ok)
    <2>1. subst_previous(last.search, re_search, ok) /\ re_search # Nil
      BY <1>6 DEF subst_r, subst_previous
    <2>2. ~ torn => mem[re_search] = last.search
      BY <1>1, <2>1, SlotPatterns
    <2> QED
      BY <1>1, <1>3, <2>1, <2>2, SubstPrevious
  <1>7. CASE subst_repeat
    BY <1>1, <1>7, RepeatSlots
  <1> QED
    BY <1>4, <1>5, <1>6, <1>7 DEF s_cmd

LEMMA NextSlotInv ==
  ASSUME TypeInv, SlotInv, [Next]_vars
  PROVE  SlotInv'
  <1>0. /\ pc \notin {"compiled", "freed"} => re = Nil
        /\ session.patterns \subseteq Pattern
    BY AddressAssumption DEF SlotInv, SlotTypes, TypeInv
  <1>1. CASE UNCHANGED vars
    BY <1>1, OtherSlots DEF vars, adr, work
  <1>2. ASSUME NEW d \in Delims, NEW a \in Plain, next_address(d, a) PROVE SlotInv'
    BY <1>2, OtherSlots DEF next_address
  <1>3. ASSUME NEW d \in Delims, NEW dir \in {"forward", "backward"},
               NEW off \in {0} \cup Offsets, line_address(d, dir, off)
        PROVE  SlotInv'
    <2>1. pc = "range" /\ pc' \in {"pattern", "failed"} /\ UNCHANGED rx
      BY <1>3 DEF line_address, MayFollow, Fail, Abandon
    <2> QED
      BY <1>0, <2>1, OtherSlots
  <1>4. CASE bad_address \/ no_pattern \/ command_fails
    BY <1>0, <1>4, OtherSlots DEF bad_address, no_pattern, command_fails, Fail, Abandon
  <1>5. CASE end_of_range
    <2>1. pc = "range" /\ pc' \in {"command", "failed"} /\ UNCHANGED rx
      BY <1>5 DEF end_of_range, Fail, Abandon
    <2> QED
      BY <1>0, <2>1, OtherSlots
  <1>6. ASSUME NEW p \in session.patterns, compile(p) PROVE SlotInv'
    BY <1>0, <1>6, CompileSlots DEF compile, GoTo
  <1>7. CASE release
    BY <1>7, ReleaseSlots DEF release, GoTo
  <1>8. CASE store
    BY <1>8, StoreSlots DEF store, StartSearch
  <1>9. CASE previous
    BY <1>9, PreviousSlots DEF previous, StartSearch
  <1>10. CASE get_matching_node_address
    <2>1. pc = "search" /\ pc' \in {"search", "found", "no_match"} /\ UNCHANGED rx
      BY <1>10 DEF get_matching_node_address
    <2> QED
      BY <1>0, <2>1, OtherSlots
  <1>11. CASE address_range
    <2>1. pc = "idle" /\ pc' = "range" /\ forget_use
      BY <1>11 DEF address_range
    <2> QED
      BY <1>0, <2>1, SlotsKept DEF forget_use
  <1>12. CASE search_done \/ report_error \/ p_cmd \/ exec_global \/ global_done
              \/ substitute_done \/ substitute_fails
    <2>1. /\ pc \notin {"compiled", "freed"} /\ UNCHANGED rx
          /\ pc' \in {"range", "idle", "global", "failed", "stopped"}
      BY <1>12 DEF search_done, report_error, p_cmd, exec_global, global_done,
                   substitute_done, substitute_fails, Finish, Abandon
    <2> QED
      BY <1>0, <2>1, OtherSlots
  <1>13. CASE global_cmd
    BY <1>0, <1>13, GlobalSlots DEF global_cmd
  <1>14. ASSUME NEW ok \in BOOLEAN, s_cmd(ok) PROVE SlotInv'
    BY <1>14, SubstituteSlots
  <1>16. ASSUME NEW hit \in BOOLEAN, substitute_lines(hit) PROVE SlotInv'
    BY <1>16, OtherSlots DEF substitute_lines
  <1>15. CASE interrupt
    <2>1. lose_search /\ pc' \in {"failed", "stopped"}
      BY <1>15 DEF interrupt, Abandon
    <2> QED
      BY <2>1, LoseSlots
  <1> QED
    BY <1>1, <1>2, <1>3, <1>4, <1>5, <1>6, <1>7, <1>8, <1>9, <1>10, <1>11, <1>12,
       <1>13, <1>14, <1>15, <1>16
    DEF Next, Parse, Search, Command, Delims

----------------------------------------------------------------------------
(* The theorems. *)

LEMMA InitIInv ==
  ASSUME Init
  PROVE  IInv
  <1>1. TypeInv
    <2>1. NoLocals \in LocType /\ NoSearch \in FindType /\ NoSub \in SubType
      BY DEF NoLocals, NoSearch, NoSub, LocType, FindType, SubType, Delims
    <2>2. lines \in Nat /\ dot = lines
      BY AddressAssumption DEF Init
    <2>3. /\ given \in [dot : Int, list : Seq(EntryType)]
          /\ queue \in [on : BOOLEAN, lines : SUBSET (1 .. lines)]
      BY <2>2 DEF Init, Begun, NoQueue
    <2> QED
      BY <2>1, <2>2, <2>3 DEF Init, TypeInv, PCs, NoRegion
  <1>2. RangeInv /\ SubstInv /\ SearchInv
    BY DEF Init, Begun, RangeInv, SubstInv, SearchInv, SearchNearest, Searching
  <1>3. SlotInv
    <2>1. SlotTypes
      BY DEF Init, RegexInit, SlotTypes, None, Known
    <2>2. Refs(mem, re, SearchSlot, re_subst, lhs, last, orphan)
      BY Blocks DEF Init, RegexInit, Refs, SearchSlot
    <2> QED
      BY <2>1, <2>2 DEF Init, RegexInit, SlotInv, PatternAsTabled, Holds
  <1> QED
    BY <1>1, <1>2, <1>3 DEF IInv

LEMMA NextIInv ==
  ASSUME IInv, [Next]_vars
  PROVE  IInv'
  BY NextRanges, NextSearchInv, NextSlotInv DEF IInv, Ranges

LEMMA Invariant == Spec => []IInv
  BY InitIInv, NextIInv, PTL DEF Spec

\* The start, the end and the current line that address_range () computes from
\* left to right are those that the list of addresses means as a whole, for a
\* list of any length, with any offsets and with searches anywhere in it.
THEOREM RangeCorrect == Spec => []RangeAsWritten
  <1>1. IInv => RangeAsWritten
    BY DEF IInv, RangeInv, RangeAsWritten
  <1> QED
    BY <1>1, Invariant, PTL

\* get_matching_node_address () finds the nearest matching line in a buffer of
\* any length, and fails only where no line matches.
THEOREM SearchCorrect == Spec => []SearchNearest
  <1>1. IInv => SearchNearest
    BY DEF IInv, SearchInv
  <1> QED
    BY <1>1, Invariant, PTL

\* Dot stays within the buffer.  A command given up in its addresses or before
\* it has begun its work leaves it where it was when the command began (in the
\* list of a g, at the matched line or where the list has gone from there) or
\* where a `;' has put it; an s stopped at one of its lines leaves it there.
THEOREM DotSafe == Spec => []DotKept
  <1>1. ASSUME IInv PROVE DotKept
    <2>1. dot \in 0 .. lines /\ given.list \in Seq(EntryType)
      BY <1>1 DEF IInv, TypeInv
    <2>2. ASSUME pc \in {"failed", "no_match"}
          PROVE  \/ dot = given.dot
                 \/ \E i \in DOMAIN given.list : MadeCurrent(i) /\ dot = Meaning[i].val
      <3>1. CASE Visited(dot, given.list, given.dot, lines)
        <4>1. CASE dot = given.dot
          BY <4>1
        <4>2. ASSUME NEW i \in 1 .. Len(given.list) - 1,
                     given.list[i + 1].delim = "semicolon",
                     dot = ListMeaning(given.list, given.dot, lines)[i].val
              PROVE  \E j \in DOMAIN given.list : MadeCurrent(j) /\ dot = Meaning[j].val
          <5>1. i \in DOMAIN given.list /\ i < Len(given.list)
            BY <2>1
          <5> QED
            BY <4>2, <5>1 DEF MadeCurrent, Meaning
        <4> QED
          BY <3>1, <4>1, <4>2 DEF Visited
      <3>2. CASE /\ find.delim = "semicolon" /\ Len(given.list) > 0
                 /\ dot = ListMeaning(given.list, given.dot, lines)[Len(given.list)].val
        <4>1. Len(given.list) \in DOMAIN given.list /\ ~ (Len(given.list) < Len(given.list))
          BY <2>1, <3>2
        <4> QED
          BY <3>2, <4>1 DEF MadeCurrent, Meaning
      <3> QED
        BY <1>1, <2>2, <3>1, <3>2 DEF IInv, RangeInv
    <2>3. pc = "stopped" => dot \in region.start - 1 .. region.end
      BY <1>1 DEF IInv, SubstInv
    <2> QED
      BY <2>1, <2>2, <2>3 DEF DotKept
  <1> QED
    BY <1>1, Invariant, PTL

\* No pattern leaks, is freed twice or is freed while a slot of
\* get_compiled_regex () refers to it, for any number of patterns and blocks.
THEOREM SlotsSound == Spec => []SlotsOwnPatterns
  <1>1. ASSUME IInv PROVE SlotsOwnPatterns
    <2> SUFFICES ASSUME ~ torn, re = Nil
                 PROVE  {r \in Re : mem[r] # Free} = {re_search, re_subst} \ {Nil}
      BY DEF SlotsOwnPatterns
    <2>1. /\ re_search \in Re \cup {Nil} /\ re_subst \in Re \cup {Nil} /\ Nil \notin Re
          /\ SearchSlot = re_search
      BY <1>1, Blocks DEF IInv, SlotInv, SlotTypes, SearchSlot
    <2>2. \A b \in Re : mem[b] # Free <=> b = Nil \/ b = re_search \/ b = re_subst
      BY <1>1, <2>1 DEF IInv, SlotInv, Refs
    <2> QED
      BY <2>1, <2>2
  <1> QED
    BY <1>1, Invariant, PTL

\* Searches and substitutions use the pattern that the table of
\* get_compiled_regex () gives them, unless lhs was left behind.
THEOREM PatternsCorrect == Spec => []PatternAsTabled
  <1>1. IInv => PatternAsTabled
    BY DEF IInv, SlotInv
  <1> QED
    BY <1>1, Invariant, PTL
=============================================================================
