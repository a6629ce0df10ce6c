--------------------------- MODULE Streams_proofs ---------------------------
(***************************************************************************)
(* Proofs about Streams and the buffer file, for any bytes, files,         *)
(* registers and sessions, whatever the bounds.                            *)
(*                                                                         *)
(* A line that is put is found again because ed->core->offset and the file *)
(* agree at the end of the file whenever nothing was read since and no put *)
(* has failed (FileOK); a line that is read is the right one because they  *)
(* agree, or the file is at its end, between any two reads (Aligned).  The *)
(* lines of a file that was read spell out its text (Spells), from which   *)
(* follows what is written back.                                           *)
(***************************************************************************)
EXTENDS Streams, SequenceTheorems, WellFoundedInduction, TLAPS

ReadCmds == {"E", "r", "t_from", "m_from", "filter"}
LineCmds == {"p", "w", "t_to", "m_to", "j"}

Text == Seq(Byte)
FileType == [bytes : Text, pos : Nat, offset : Int, seek_on_write : BOOLEAN,
             slip : BOOLEAN, spoiled : BOOLEAN]
NodeType == [seek : Int, len : Nat, text : Text, sound : BOOLEAN]
FlagType == [is_binary : BOOLEAN, is_empty : BOOLEAN, newline_appended : BOOLEAN]
JobType == [cmd : {"none"} \cup ReadCmds \cup LineCmds, name : Names, at : Int,
            lo : Int, to : Int, rest : Text, size : Nat, all : BOOLEAN,
            tail : BOOLEAN, step : {"line", "seek", "read", "advance"},
            got : Text, slipped : BOOLEAN, newline_missing : BOOLEAN,
            input_is_binary : BOOLEAN]

TypeInv ==
  /\ File \in FileType
  /\ buf \in Seq(NodeType) /\ st \in FlagType
  /\ store \in [Names -> Text] /\ job \in JobType
  /\ cut \in BOOLEAN /\ session \in Sessions

\* The next line goes to the end of the file f, unless a put has failed or the
\* file was moved; the latter is a slip.
FileOK(f) ==
  /\ f.spoiled => ~ f.seek_on_write
  /\ ~ f.seek_on_write => f.pos <= Len(f.bytes)
  /\ ~ f.seek_on_write /\ ~ f.spoiled => f.pos = Len(f.bytes) /\ f.offset = Len(f.bytes)
  /\ f.spoiled /\ ~ f.slip => f.pos = Len(f.bytes)

\* The next line is read from the right place, if at all.
Aligned(f, off) == f.slip \/ f.pos = off \/ f.pos = Len(f.bytes)

\* The text of node is in bs.
Stored(bs, node) ==
  /\ node.seek >= 0 /\ node.len = Len(node.text)
  /\ node.seek + node.len <= Len(bs)
  /\ \A k \in 1 .. node.len : bs[node.seek + k] = node.text[k]

NodesStored(bs, b) == \A i \in 1 .. Len(b) : b[i].sound => Stored(bs, b[i])

\* Command j of the buffer b and the file f.
JobOK(j, b, f) ==
  /\ j.cmd \in LineCmds => /\ 1 <= j.lo /\ j.lo <= j.at
                           /\ j.at <= j.to + 1 /\ j.to <= Len(b)
  /\ j.cmd \in {"j", "m_to"} => j.lo <= j.to
  /\ j.cmd \in ReadCmds => /\ 0 <= j.at /\ j.at <= Len(b)
                           /\ j.rest # <<>> => j.size > 0
  /\ j.step # "line" => /\ j.cmd \in LineCmds /\ j.at <= j.to
                        /\ f.seek_on_write /\ ~ f.spoiled
                        /\ f.offset = b[j.at].seek
  /\ j.step = "line" \/ j.step = "read" => Aligned(f, f.offset)
  /\ j.step = "advance" => /\ Aligned(f, f.offset + b[j.at].len)
                           /\ j.got = b[j.at].text \/ f.slip \/ ~ b[j.at].sound
                           /\ f.slip => j.slipped

AnyNUL(b) == \E i \in 1 .. Len(b) : HasNUL(b[i].text)

\* The flags s, also while command j reads a stream or joins lines.
FlagOK(s, b, j) ==
  /\ s.is_empty => b = <<>> \/ (j.cmd \in ReadCmds /\ j.size > 0)
  /\ AnyNUL(b) => s.is_binary \/ (j.cmd \in ReadCmds /\ j.input_is_binary)
  /\ /\ j.cmd = "j" /\ ~ j.slipped /\ HasNUL(j.rest)
     /\ \A i \in j.lo .. j.at - 1 : b[i].sound
     => s.is_binary

IInv ==
  /\ TypeInv
  /\ FileOK(File) /\ NodesStored(bytes, buf)
  /\ JobOK(job, buf, File)
  /\ ~ cut => FlagOK(st, buf, job)

----------------------------------------------------------------------------
(* Sequences. *)

\* t is s followed by p.
Joined(t, s, p) ==
  /\ Len(t) = Len(s) + Len(p)
  /\ \A k \in 1 .. Len(s) : t[k] = s[k]
  /\ \A k \in 1 .. Len(p) : t[Len(s) + k] = p[k]

LEMMA PartOf ==
  ASSUME NEW S, NEW s \in Seq(S), NEW m \in Int, NEW n \in Int, 1 <= m, n <= Len(s)
  PROVE  /\ SubSeq(s, m, n) \in Seq(S)
         /\ Len(SubSeq(s, m, n)) = IF m <= n THEN n - m + 1 ELSE 0
         /\ \A i \in 1 .. n - m + 1 : SubSeq(s, m, n)[i] = s[m + i - 1]
  <1>1. \A i \in m .. n : s[i] \in S
    OBVIOUS
  <1> QED
    BY <1>1, SubSeqProperties

LEMMA JoinIs ==
  ASSUME NEW S, NEW s \in Seq(S), NEW t \in Seq(S)
  PROVE  s \o t \in Seq(S) /\ Joined(s \o t, s, t)
  BY DEF Joined

LEMMA EitherPart ==
  ASSUME NEW S, NEW s \in Seq(S), NEW t \in Seq(S), NEW i \in 1 .. Len(s \o t)
  PROVE  \/ i \in 1 .. Len(s) /\ (s \o t)[i] = s[i]
         \/ \E k \in 1 .. Len(t) : i = Len(s) + k /\ (s \o t)[i] = t[k]
  <1>1. Len(s) \in Nat /\ Len(t) \in Nat /\ i \in 1 .. Len(s) + Len(t)
    BY JoinIs DEF Joined
  <1>2. CASE i <= Len(s)
    BY <1>1, <1>2, JoinIs DEF Joined
  <1>3. CASE i > Len(s)
    <2>1. i - Len(s) \in 1 .. Len(t) /\ i = Len(s) + (i - Len(s))
      BY <1>1, <1>3
    <2>2. PICK k \in 1 .. Len(t) : i = Len(s) + k
      BY <2>1
    <2>3. (s \o t)[i] = t[k]
      BY <2>2, JoinIs DEF Joined
    <2> QED
      BY <2>2, <2>3
  <1> QED
    BY <1>1, <1>2, <1>3

\* fwrite () at position p of bs.
LEMMA SpliceIs ==
  ASSUME NEW bs \in Text, NEW t \in Text, NEW p \in 0 .. Len(bs),
         NEW r, r = SubSeq(bs, 1, p) \o t \o SubSeq(bs, p + Len(t) + 1, Len(bs))
  PROVE  /\ r \in Text /\ p + Len(t) <= Len(r)
         /\ p = Len(bs) => Joined(r, bs, t)
  <1> DEFINE a == SubSeq(bs, 1, p)
             c == SubSeq(bs, p + Len(t) + 1, Len(bs))
  <1>1. a \in Text /\ Len(a) = p
    BY PartOf DEF Text
  <1>2. c \in Text /\ Len(c) \in Nat
    <2>1. p + Len(t) + 1 \in Int /\ 1 <= p + Len(t) + 1
      BY DEF Text
    <2> QED
      BY <2>1, PartOf DEF Text
  <1>3. p = Len(bs) => a = bs /\ c = <<>>
    BY SubSeqFull, SubSeqEmpty DEF Text
  <1>4. r = (a \o t) \o c
    OBVIOUS
  <1> HIDE DEF a, c
  <1>5. a \o t \in Text /\ Len(a \o t) = p + Len(t)
    BY <1>1, JoinIs DEF Text, Joined
  <1>6. r \in Text /\ Len(r) = Len(a \o t) + Len(c)
    BY <1>2, <1>4, <1>5, JoinIs DEF Text, Joined
  <1>7. p + Len(t) <= Len(r)
    <2>1. PICK x \in Nat, y \in Nat : x = p + Len(t) /\ y = Len(c)
      BY <1>2 DEF Text
    <2>2. Len(r) = x + y
      BY <1>5, <1>6, <2>1
    <2>3. x <= x + y
      OBVIOUS
    <2>4. x <= Len(r)
      BY <2>2, <2>3
    <2> QED
      BY <2>1, <2>4
  <1>8. p = Len(bs) => Joined(r, bs, t)
    <2> SUFFICES ASSUME p = Len(bs) PROVE Joined(r, bs, t)
      OBVIOUS
    <2>1. r = bs \o t
      <3>1. r = (bs \o t) \o <<>> /\ bs \o t \in Text
        BY <1>3, <1>4, <1>5
      <3> QED
        BY <3>1, ConcatEmptySeq DEF Text
    <2> QED
      BY <2>1, JoinIs DEF Text
  <1> QED
    BY <1>6, <1>7, <1>8

----------------------------------------------------------------------------
(* put_buffer_line () *)

\* s is f when its end has been sought, if it had to be.
AtEnd(s, f) ==
  /\ s \in FileType /\ s.bytes = f.bytes /\ s.spoiled = f.spoiled
  /\ ~ s.seek_on_write /\ s.pos <= Len(s.bytes)
  /\ ~ s.spoiled => s.pos = Len(s.bytes) /\ s.offset = Len(s.bytes)
  /\ s.spoiled /\ ~ s.slip => s.pos = Len(s.bytes)
  /\ s.spoiled => s.pos = f.pos

LEMMA SoughtIs ==
  ASSUME NEW f \in FileType, FileOK(f)
  PROVE  AtEnd(Sought(f), f)
  <1>1. Len(f.bytes) \in Nat
    BY DEF FileType, Text
  <1>2. CASE f.seek_on_write
    <2>1. Sought(f) = [f EXCEPT !.pos = Len(f.bytes), !.offset = Len(f.bytes),
                                !.seek_on_write = FALSE, !.slip = FALSE]
      BY <1>2 DEF Sought
    <2>2. Sought(f) \in FileType
      <3>1. PICK m \in Nat : m = Len(f.bytes) /\ m \in Int
        BY <1>1
      <3> QED
        BY <2>1, <3>1 DEF FileType
    <2> QED
      BY <1>1, <1>2, <2>1, <2>2 DEF FileType, FileOK, AtEnd
  <1>3. CASE ~ f.seek_on_write
    BY <1>3 DEF Sought, AtEnd, FileOK
  <1> QED
    BY <1>2, <1>3

\* w is s when t has been written.
Wrote(w, s, t) ==
  /\ w \in FileType /\ w.pos = s.pos + Len(t) /\ w.pos <= Len(w.bytes)
  /\ s.pos = Len(s.bytes) => Joined(w.bytes, s.bytes, t)
  /\ w.offset = s.offset /\ w.seek_on_write = s.seek_on_write
  /\ w.slip = s.slip /\ w.spoiled = s.spoiled

LEMMA WrittenIs ==
  ASSUME NEW s \in FileType, s.pos <= Len(s.bytes), NEW t \in Text
  PROVE  Wrote(Written(s, t), s, t)
  <1> DEFINE r == SubSeq(s.bytes, 1, s.pos) \o t
                    \o SubSeq(s.bytes, s.pos + Len(t) + 1, Len(s.bytes))
             p == s.pos + Len(t)
  <1>1. s.bytes \in Text /\ s.pos \in 0 .. Len(s.bytes) /\ Len(t) \in Nat
    BY DEF FileType, Text
  <1>2. r \in Text /\ p <= Len(r) /\ (s.pos = Len(s.bytes) => Joined(r, s.bytes, t))
    BY <1>1, SpliceIs
  <1>3. p \in Nat
    BY <1>1
  <1>4. Written(s, t) = [s EXCEPT !.bytes = r, !.pos = p]
    BY DEF Written, FileType
  <1>5. p = s.pos + Len(t)
    OBVIOUS
  <1> HIDE DEF r, p
  <1>6. [s EXCEPT !.bytes = r, !.pos = p] \in FileType
    BY <1>2, <1>3 DEF FileType
  <1> QED
    BY <1>2, <1>4, <1>5, <1>6 DEF Wrote, FileType

\* The file g that put_buffer_line () leaves: it is in order, and what f held is
\* still there, unless the put went to a wrong place.
Kept(f, g) ==
  /\ Len(f.bytes) <= Len(g.bytes)
  /\ \A k \in 1 .. Len(f.bytes) : g.bytes[k] = f.bytes[k]

PutOK(f, g) ==
  /\ g \in FileType /\ FileOK(g) /\ Aligned(g, g.offset)
  /\ Kept(f, g) \/ (f.spoiled /\ f.pos < Len(f.bytes))

LEMMA WroteOK ==
  ASSUME NEW f \in FileType, NEW s, AtEnd(s, f), NEW t \in Text, NEW w, Wrote(w, s, t),
         NEW g \in FileType, g.bytes = w.bytes, g.pos = w.pos, g.slip = w.slip,
         g.seek_on_write = w.seek_on_write,
         g.spoiled \/ (g.spoiled = w.spoiled /\ g.offset = s.offset + Len(t))
  PROVE  PutOK(f, g)
  <1>1. /\ Len(f.bytes) \in Nat /\ Len(t) \in Nat /\ s.pos \in Nat
        /\ s.bytes = f.bytes /\ Len(g.bytes) \in Nat
    BY DEF AtEnd, FileType, Text
  <1>2. s.pos = Len(f.bytes) => Joined(g.bytes, f.bytes, t)
    BY <1>1 DEF Wrote
  <1>3. CASE s.pos = Len(f.bytes)
    <2>1. Len(g.bytes) = Len(f.bytes) + Len(t)
      BY <1>2, <1>3 DEF Joined
    <2>2. g.pos = Len(g.bytes)
      BY <1>3, <2>1 DEF Wrote
    <2>3. Kept(f, g)
      BY <1>1, <1>2, <1>3, <2>1 DEF Kept, Joined
    <2>4. ~ g.spoiled => g.offset = Len(g.bytes)
      <3>1. ~ g.spoiled => s.offset = Len(f.bytes) /\ g.offset = s.offset + Len(t)
        BY <1>1 DEF AtEnd, Wrote
      <3> QED
        BY <2>1, <3>1
    <2>5. ~ g.seek_on_write
      BY DEF AtEnd, Wrote
    <2>6. g.pos <= Len(g.bytes)
      BY <1>1, <2>2
    <2> QED
      BY <2>2, <2>3, <2>4, <2>5, <2>6 DEF PutOK, FileOK, Aligned
  <1>4. CASE s.pos # Len(f.bytes)
    <2>1. s.spoiled /\ f.spoiled /\ s.slip /\ s.pos = f.pos /\ f.pos < Len(f.bytes)
      BY <1>1, <1>4 DEF AtEnd
    <2>2. g.spoiled /\ g.slip /\ ~ g.seek_on_write /\ g.pos <= Len(g.bytes)
      BY <2>1 DEF Wrote, AtEnd
    <2> QED
      BY <2>1, <2>2 DEF PutOK, FileOK, Aligned
  <1> QED
    BY <1>3, <1>4

LEMMA PutLineOK ==
  ASSUME NEW f \in FileType, FileOK(f), NEW t \in Text
  PROVE  /\ PutOK(f, PutLine(f, t))
         /\ NewNode(f, t) \in NodeType
         /\ ~ f.spoiled => Stored(PutLine(f, t).bytes, NewNode(f, t))
  <1> DEFINE s == Sought(f)
             w == Written(s, t)
             o == s.offset + Len(t)
             g == [w EXCEPT !.offset = o]
             nn == NewNode(f, t)
  <1>1. AtEnd(s, f)
    BY SoughtIs
  <1>2. Wrote(w, s, t)
    BY <1>1, WrittenIs DEF AtEnd
  <1>3. PutLine(f, t) = g
    BY <1>2 DEF PutLine, Wrote
  <1>4. nn = [seek |-> s.offset, len |-> Len(t), text |-> t, sound |-> ~ f.spoiled]
    BY DEF NewNode
  <1> HIDE DEF s, w, nn
  <1>5. o \in Int /\ s.offset \in Int /\ Len(t) \in Nat
    BY <1>1 DEF AtEnd, FileType, Text
  <1>6. o = s.offset + Len(t)
    OBVIOUS
  <1> HIDE DEF o
  <1>7. g \in FileType /\ g.bytes = w.bytes /\ g.pos = w.pos /\ g.slip = w.slip
        /\ g.seek_on_write = w.seek_on_write /\ g.spoiled = w.spoiled /\ g.offset = o
    BY <1>2, <1>5 DEF Wrote, FileType
  <1> HIDE DEF g
  <1>8. PutOK(f, g)
    BY <1>1, <1>2, <1>6, <1>7, WroteOK
  <1>9. nn \in NodeType
    <2>1. (~ f.spoiled) \in BOOLEAN
      OBVIOUS
    <2> QED
      BY <1>4, <1>5, <2>1 DEF NodeType
  <1>10. ASSUME ~ f.spoiled PROVE Stored(g.bytes, nn)
    <2>1. s.offset = Len(s.bytes) /\ s.pos = Len(s.bytes) /\ Len(s.bytes) \in Nat
      BY <1>1, <1>10 DEF AtEnd, FileType, Text
    <2>2. Joined(g.bytes, s.bytes, t)
      BY <1>2, <1>7, <2>1 DEF Wrote
    <2>3. nn.seek = Len(s.bytes) /\ nn.len = Len(t) /\ nn.text = t
      BY <1>4, <2>1
    <2>4. nn.seek + nn.len <= Len(g.bytes)
      BY <1>5, <2>1, <2>2, <2>3 DEF Joined
    <2> QED
      BY <2>1, <2>2, <2>3, <2>4 DEF Stored, Joined
  <1> QED
    BY <1>3, <1>8, <1>9, <1>10 DEF nn

LEMMA PutFailureOK ==
  ASSUME NEW f \in FileType, FileOK(f), Aligned(f, f.offset), NEW t \in Text,
         NEW g \in PutFailures(f, t)
  PROVE  PutOK(f, g)
  <1> DEFINE s == Sought(f)
  <1>1. AtEnd(s, f)
    BY SoughtIs
  <1>2. Len(f.bytes) \in Nat
    BY DEF FileType, Text
  <1>3. CASE f.seek_on_write /\ g = f
    BY <1>2, <1>3 DEF PutOK, Kept
  <1>4. CASE f.seek_on_write /\ g = [f EXCEPT !.offset = -1, !.pos = Len(f.bytes)]
    <2>1. g \in FileType
      <3>1. PICK m \in Nat, o \in Int : m = Len(f.bytes) /\ o = -1
        BY <1>2
      <3> QED
        BY <1>4, <3>1 DEF FileType
    <2>2. /\ g.seek_on_write = f.seek_on_write /\ g.bytes = f.bytes /\ g.spoiled = f.spoiled
          /\ g.pos = Len(g.bytes)
      BY <1>4 DEF FileType
    <2>3. FileOK(g)
      BY <1>4, <2>2 DEF FileOK
    <2> QED
      BY <1>2, <2>1, <2>2, <2>3 DEF PutOK, Kept, Aligned
  <1>5. ASSUME NEW u \in Text, NEW o \in Int,
               g = [Written(s, u) EXCEPT !.offset = o, !.spoiled = TRUE]
        PROVE  PutOK(f, g)
    <2> DEFINE w == Written(s, u)
    <2>1. Wrote(w, s, u)
      BY <1>1, WrittenIs DEF AtEnd
    <2> HIDE DEF s, w
    <2>2. g = [w EXCEPT !.offset = o, !.spoiled = TRUE]
      BY <1>5 DEF w
    <2>3. /\ g \in FileType /\ g.bytes = w.bytes /\ g.pos = w.pos /\ g.slip = w.slip
          /\ g.seek_on_write = w.seek_on_write /\ g.spoiled
      BY <2>1, <2>2 DEF Wrote, FileType
    <2> QED
      BY <1>1, <2>1, <2>3, WroteOK
  <1>6. ASSUME NEW k \in 0 .. Len(t),
               g = [Written(s, SubSeq(t, 1, k)) EXCEPT !.offset = -1, !.spoiled = TRUE]
        PROVE  PutOK(f, g)
    <2>1. SubSeq(t, 1, k) \in Text
      BY PartOf DEF Text
    <2>2. -1 \in Int
      OBVIOUS
    <2> QED
      BY <1>5, <1>6, <2>1, <2>2
  <1>7. CASE g = [Written(s, t) EXCEPT !.spoiled = TRUE]
    <2>1. Wrote(Written(s, t), s, t)
      BY <1>1, WrittenIs DEF AtEnd
    <2>2. PICK w : w = Written(s, t)
      OBVIOUS
    <2>3. w \in FileType /\ g = [w EXCEPT !.spoiled = TRUE]
      BY <1>7, <2>1, <2>2 DEF Wrote
    <2>4. [w EXCEPT !.spoiled = TRUE] = [w EXCEPT !.offset = w.offset, !.spoiled = TRUE]
      BY <2>3 DEF FileType
    <2>5. w.offset \in Int
      BY <2>3 DEF FileType
    <2> QED
      BY <1>5, <2>2, <2>3, <2>4, <2>5
  <1>8. \/ f.seek_on_write /\ g = f
        \/ f.seek_on_write /\ g = [f EXCEPT !.offset = -1, !.pos = Len(f.bytes)]
        \/ \E k \in 0 .. Len(t) :
             g = [Written(s, SubSeq(t, 1, k)) EXCEPT !.offset = -1, !.spoiled = TRUE]
        \/ g = [Written(s, t) EXCEPT !.spoiled = TRUE]
    BY DEF PutFailures
  <1> QED
    BY <1>3, <1>4, <1>6, <1>7, <1>8

----------------------------------------------------------------------------
(* The lines of the buffer. *)

\* The nodes of c are nodes of b, but for new ones from N.
Among(c, b, N) ==
  \A i \in 1 .. Len(c) : c[i] \in N \/ \E j \in 1 .. Len(b) : c[i] = b[j]

LEMMA WithoutIs ==
  ASSUME TypeInv, NEW lo \in Int, NEW hi \in Int, 1 <= lo, lo <= hi + 1, hi <= Len(buf)
  PROVE  /\ Without(lo, hi) \in Seq(NodeType)
         /\ Len(Without(lo, hi)) = Len(buf) - (hi - lo + 1)
         /\ Among(Without(lo, hi), buf, {})
  <1> DEFINE a == SubSeq(buf, 1, lo - 1)
             c == SubSeq(buf, hi + 1, Len(buf))
  <1>0. buf \in Seq(NodeType) /\ Len(buf) \in Nat
    BY DEF TypeInv
  <1>1. /\ a \in Seq(NodeType) /\ Len(a) = lo - 1
        /\ \A i \in 1 .. Len(a) : \E j \in 1 .. Len(buf) : a[i] = buf[j]
    <2>1. /\ a \in Seq(NodeType) /\ Len(a) = IF 1 <= lo - 1 THEN (lo - 1) - 1 + 1 ELSE 0
          /\ \A i \in 1 .. (lo - 1) - 1 + 1 : a[i] = buf[1 + i - 1]
      BY <1>0, PartOf
    <2> HIDE DEF a
    <2>2. Len(a) = lo - 1
      BY <2>1
    <2>3. \A i \in 1 .. Len(a) : 1 + i - 1 \in 1 .. Len(buf) /\ i \in 1 .. (lo - 1) - 1 + 1
      BY <1>0, <2>2
    <2> QED
      BY <2>1, <2>2, <2>3
  <1>2. /\ c \in Seq(NodeType) /\ Len(c) = Len(buf) - hi
        /\ \A i \in 1 .. Len(c) : \E j \in 1 .. Len(buf) : c[i] = buf[j]
    <2>1. /\ c \in Seq(NodeType)
          /\ Len(c) = IF hi + 1 <= Len(buf) THEN Len(buf) - (hi + 1) + 1 ELSE 0
          /\ \A i \in 1 .. Len(buf) - (hi + 1) + 1 : c[i] = buf[(hi + 1) + i - 1]
      BY <1>0, PartOf
    <2> HIDE DEF c
    <2>2. Len(c) = Len(buf) - hi
      BY <1>0, <2>1
    <2>3. \A i \in 1 .. Len(c) : /\ (hi + 1) + i - 1 \in 1 .. Len(buf)
                                 /\ i \in 1 .. Len(buf) - (hi + 1) + 1
      BY <1>0, <2>2
    <2> QED
      BY <2>1, <2>2, <2>3
  <1>3. Without(lo, hi) = a \o c
    BY DEF Without, Lines
  <1> HIDE DEF a, c
  <1>4. a \o c \in Seq(NodeType) /\ Len(a \o c) = Len(a) + Len(c)
    BY <1>1, <1>2, JoinIs DEF Joined
  <1>6. \A i \in 1 .. Len(a \o c) : \E j \in 1 .. Len(buf) : (a \o c)[i] = buf[j]
    <2> SUFFICES ASSUME NEW i \in 1 .. Len(a \o c)
                 PROVE  \E j \in 1 .. Len(buf) : (a \o c)[i] = buf[j]
      OBVIOUS
    <2>1. CASE i \in 1 .. Len(a) /\ (a \o c)[i] = a[i]
      BY <1>1, <2>1
    <2>2. CASE \E k \in 1 .. Len(c) : (a \o c)[i] = c[k]
      BY <1>2, <2>2
    <2>3. \/ i \in 1 .. Len(a) /\ (a \o c)[i] = a[i]
          \/ \E k \in 1 .. Len(c) : i = Len(a) + k /\ (a \o c)[i] = c[k]
      <3>1. a \in Seq(NodeType) /\ c \in Seq(NodeType)
        BY <1>1, <1>2
      <3> QED
        BY <3>1, EitherPart
    <2> QED
      BY <2>1, <2>2, <2>3
  <1>7. Len(a \o c) = Len(buf) - (hi - lo + 1)
    BY <1>0, <1>1, <1>2, <1>4
  <1> QED
    BY <1>3, <1>4, <1>6, <1>7 DEF Among

LEMMA InsertIs ==
  ASSUME NEW b \in Seq(NodeType), NEW after \in 0 .. Len(b), NEW node \in NodeType
  PROVE  /\ Insert(b, after, node) \in Seq(NodeType)
         /\ Len(Insert(b, after, node)) = Len(b) + 1
         /\ Among(Insert(b, after, node), b, {node})
  <1> DEFINE a == SubSeq(b, 1, after)
             m == <<node>>
             c == SubSeq(b, after + 1, Len(b))
  <1>0. Len(b) \in Nat /\ after \in Nat
    OBVIOUS
  <1>1. /\ a \in Seq(NodeType) /\ Len(a) = after
        /\ \A i \in 1 .. after : a[i] = b[i] /\ i \in 1 .. Len(b)
    <2>1. /\ a \in Seq(NodeType) /\ Len(a) = IF 1 <= after THEN after - 1 + 1 ELSE 0
          /\ \A i \in 1 .. after - 1 + 1 : a[i] = b[1 + i - 1]
      BY <1>0, PartOf
    <2> HIDE DEF a
    <2> QED
      BY <1>0, <2>1
  <1>2. /\ c \in Seq(NodeType) /\ Len(c) = Len(b) - after
        /\ \A i \in 1 .. Len(b) - after : c[i] = b[after + i] /\ after + i \in 1 .. Len(b)
    <2>1. /\ c \in Seq(NodeType)
          /\ Len(c) = IF after + 1 <= Len(b) THEN Len(b) - (after + 1) + 1 ELSE 0
          /\ \A i \in 1 .. Len(b) - (after + 1) + 1 : c[i] = b[(after + 1) + i - 1]
      BY <1>0, PartOf
    <2> HIDE DEF c
    <2>2. \A i \in 1 .. Len(b) - after : /\ i \in 1 .. Len(b) - (after + 1) + 1
                                         /\ (after + 1) + i - 1 = after + i
                                         /\ after + i \in 1 .. Len(b)
      BY <1>0
    <2> QED
      BY <1>0, <2>1, <2>2
  <1>3. m \in Seq(NodeType) /\ Len(m) = 1 /\ m[1] = node
    OBVIOUS
  <1>4. Insert(b, after, node) = (a \o m) \o c
    BY DEF Insert
  <1> HIDE DEF a, c, m
  <1>5. a \o m \in Seq(NodeType) /\ Len(a \o m) = after + 1
    <2>1. a \o m \in Seq(NodeType) /\ Joined(a \o m, a, m)
      BY <1>1, <1>3, JoinIs
    <2> QED
      BY <1>0, <1>1, <1>3, <2>1 DEF Joined
  <1>6. PICK d \in Seq(NodeType) : d = a \o m /\ Len(d) = after + 1
    BY <1>5
  <1>7. d \o c \in Seq(NodeType) /\ Len(d \o c) = after + 1 + (Len(b) - after)
    <2>1. d \o c \in Seq(NodeType) /\ Joined(d \o c, d, c)
      BY <1>2, JoinIs
    <2>2. Len(d \o c) = Len(d) + Len(c)
      BY <2>1 DEF Joined
    <2> QED
      BY <1>2, <1>6, <2>1, <2>2
  <1>8. ASSUME NEW i \in 1 .. Len(d \o c)
        PROVE  (d \o c)[i] \in {node} \/ \E j \in 1 .. Len(b) : (d \o c)[i] = b[j]
    <2>1. CASE i \in 1 .. Len(d) /\ (d \o c)[i] = d[i]
      <3>1. \/ i \in 1 .. Len(a) /\ d[i] = a[i]
            \/ \E k \in 1 .. Len(m) : d[i] = m[k]
        BY <1>1, <1>3, <1>6, <2>1, EitherPart
      <3>2. CASE i \in 1 .. Len(a) /\ d[i] = a[i]
        BY <1>1, <2>1, <3>2
      <3>3. CASE \E k \in 1 .. Len(m) : d[i] = m[k]
        <4>1. PICK k \in 1 .. Len(m) : d[i] = m[k]
          BY <3>3
        <4>2. k = 1
          BY <1>3
        <4> QED
          BY <1>3, <2>1, <4>1, <4>2
      <3> QED
        BY <3>1, <3>2, <3>3
    <2>2. CASE \E k \in 1 .. Len(c) : (d \o c)[i] = c[k]
      BY <1>2, <2>2
    <2>3. \/ i \in 1 .. Len(d) /\ (d \o c)[i] = d[i]
          \/ \E k \in 1 .. Len(c) : i = Len(d) + k /\ (d \o c)[i] = c[k]
      BY <1>2, EitherPart
    <2> QED
      BY <2>1, <2>2, <2>3
  <1>9. Len(d \o c) = Len(b) + 1
    BY <1>0, <1>7
  <1> QED
    BY <1>4, <1>6, <1>7, <1>8, <1>9 DEF Among

\* The lines whose text may have been overwritten are not called sound.
LEMMA OverwrittenIs ==
  ASSUME TypeInv, NEW b \in Seq(NodeType)
  PROVE  /\ Overwritten(b) \in Seq(NodeType) /\ Len(Overwritten(b)) = Len(b)
         /\ \A i \in 1 .. Len(b) :
              /\ Overwritten(b)[i].text = b[i].text
              /\ Overwritten(b)[i].sound => /\ Overwritten(b)[i] = b[i]
                                            /\ ~ (spoiled /\ pos < Len(bytes))
  <1>1. CASE spoiled /\ pos < Len(bytes)
    <2> DEFINE o == [i \in DOMAIN b |-> [b[i] EXCEPT !.sound = FALSE]]
    <2>1. Overwritten(b) = o
      BY <1>1 DEF Overwritten
    <2>2. DOMAIN b = 1 .. Len(b) /\ Len(b) \in Nat
      OBVIOUS
    <2>3. \A i \in 1 .. Len(b) : /\ o[i] \in NodeType /\ o[i].text = b[i].text
                                 /\ o[i].sound = FALSE
      <3>1. \A i \in 1 .. Len(b) : b[i] \in NodeType /\ o[i] = [b[i] EXCEPT !.sound = FALSE]
        BY <2>2
      <3> HIDE DEF o
      <3> QED
        BY <3>1 DEF NodeType
    <2>4. o = [i \in 1 .. Len(b) |-> o[i]]
      BY <2>2
    <2> HIDE DEF o
    <2>5. o \in Seq(NodeType) /\ Len(o) = Len(b)
      BY <2>2, <2>3, <2>4
    <2> QED
      BY <2>1, <2>3, <2>5
  <1>2. CASE ~ (spoiled /\ pos < Len(bytes))
    <2>1. Overwritten(b) = b
      BY <1>2 DEF Overwritten
    <2> QED
      BY <1>2, <2>1
  <1> QED
    BY <1>1, <1>2

LEMMA AmongStored ==
  ASSUME NEW bs, NEW b, NodesStored(bs, b), NEW N, \A n \in N : n.sound => Stored(bs, n),
         NEW c, Among(c, b, N)
  PROVE  NodesStored(bs, c)
  BY DEF NodesStored, Among

LEMMA AmongNUL ==
  ASSUME NEW b, NEW N, NEW c, Among(c, b, N), AnyNUL(c)
  PROVE  AnyNUL(b) \/ \E n \in N : HasNUL(n.text)
  BY DEF AnyNUL, Among

----------------------------------------------------------------------------
(* Files and jobs. *)

\* The file f and the lines b, when no line is being read.
Good(f, b) ==
  /\ f \in FileType /\ FileOK(f) /\ Aligned(f, f.offset)
  /\ b \in Seq(NodeType) /\ NodesStored(f.bytes, b)

LEMMA SetFileIs ==
  ASSUME NEW g \in FileType, SetFile(g)
  PROVE  File' = g /\ bytes' = g.bytes
  <1>1. g = [bytes |-> g.bytes, pos |-> g.pos, offset |-> g.offset,
             seek_on_write |-> g.seek_on_write, slip |-> g.slip, spoiled |-> g.spoiled]
    BY DEF FileType
  <1> QED
    BY <1>1 DEF SetFile, File

LEMMA FileIs ==
  /\ File.bytes = bytes /\ File.pos = pos /\ File.offset = offset
  /\ File.seek_on_write = seek_on_write /\ File.slip = slip /\ File.spoiled = spoiled
  BY DEF File

LEMMA FileTypes ==
  ASSUME TypeInv
  PROVE  /\ bytes \in Text /\ pos \in Nat /\ offset \in Int /\ Len(bytes) \in Nat
         /\ seek_on_write \in BOOLEAN /\ slip \in BOOLEAN /\ spoiled \in BOOLEAN
  <1>1. File \in FileType
    BY DEF TypeInv
  <1> QED
    BY <1>1, FileIs DEF FileType, Text

\* What the file held before a put is still there for the lines called sound.
LEMMA StillStored ==
  ASSUME TypeInv, NEW b \in Seq(NodeType), NodesStored(bytes, b), NEW g, PutOK(File, g),
         NEW o, Len(o) = Len(b),
         \A i \in 1 .. Len(b) : /\ o[i].text = b[i].text
                                /\ o[i].sound => o[i] = b[i] /\ ~ (spoiled /\ pos < Len(bytes))
  PROVE  NodesStored(g.bytes, o)
  <1> SUFFICES ASSUME NEW i \in 1 .. Len(b), o[i].sound PROVE Stored(g.bytes, o[i])
    BY DEF NodesStored
  <1> DEFINE nd == b[i]
  <1>1. o[i] = nd /\ ~ (spoiled /\ pos < Len(bytes)) /\ nd.sound /\ nd \in NodeType
    OBVIOUS
  <1>2. Stored(bytes, nd)
    BY <1>1 DEF NodesStored
  <1>3. Len(bytes) <= Len(g.bytes) /\ \A k \in 1 .. Len(bytes) : g.bytes[k] = bytes[k]
    BY <1>1, FileIs DEF PutOK, Kept
  <1>4. Len(bytes) \in Nat /\ Len(g.bytes) \in Nat
    BY FileTypes DEF PutOK, FileType, Text
  <1> HIDE DEF nd
  <1>5. nd.seek \in Int /\ nd.len \in Nat
    BY <1>1 DEF NodeType
  <1>6. PICK x \in Int, y \in Nat : x = nd.seek /\ y = nd.len
    BY <1>5
  <1>7. x >= 0 /\ x + y <= Len(bytes) /\ y = Len(nd.text) /\ \A k \in 1 .. y : bytes[x + k] = nd.text[k]
    BY <1>2, <1>6 DEF Stored
  <1>8. x + y <= Len(g.bytes) /\ \A k \in 1 .. y : x + k \in 1 .. Len(bytes)
    BY <1>3, <1>4, <1>7
  <1>9. \A k \in 1 .. y : g.bytes[x + k] = nd.text[k]
    BY <1>3, <1>7, <1>8
  <1> QED
    BY <1>1, <1>6, <1>7, <1>8, <1>9 DEF Stored

\* A line is put after line `after' of b.
LEMMA LinePut ==
  ASSUME TypeInv, NEW b, Good(File, b), NEW t \in Text, NEW after \in 0 .. Len(b),
         SetFile(PutLine(File, t)), NEW c, c = PutAfter(b, after, t)
  PROVE  /\ Good(File', c) /\ Len(c) = Len(b) + 1
         /\ AnyNUL(c) => AnyNUL(b) \/ HasNUL(t)
  <1> DEFINE g == PutLine(File, t)
             o == Overwritten(b)
             nn == NewNode(File, t)
  <1>1. File \in FileType /\ FileOK(File) /\ b \in Seq(NodeType) /\ NodesStored(bytes, b)
    BY FileIs DEF Good
  <1>2. PutOK(File, g) /\ nn \in NodeType /\ (~ spoiled => Stored(g.bytes, nn))
    BY <1>1, FileIs, PutLineOK
  <1>3. nn.text = t /\ nn.sound = ~ spoiled
    BY FileIs DEF NewNode
  <1>4. File' = g
    BY <1>2, SetFileIs DEF PutOK
  <1>5. /\ o \in Seq(NodeType) /\ Len(o) = Len(b)
        /\ \A i \in 1 .. Len(b) : /\ o[i].text = b[i].text
                                  /\ o[i].sound => o[i] = b[i] /\ ~ (spoiled /\ pos < Len(bytes))
    BY <1>1, OverwrittenIs
  <1>6. c = Insert(o, after, nn)
    BY DEF PutAfter
  <1> HIDE DEF g, o, nn
  <1>7. c \in Seq(NodeType) /\ Len(c) = Len(b) + 1 /\ Among(c, o, {nn})
    BY <1>2, <1>5, <1>6, InsertIs
  <1>8. NodesStored(g.bytes, o)
    BY <1>1, <1>2, <1>5, StillStored
  <1>9. NodesStored(g.bytes, c)
    <2>1. \A x \in {nn} : x.sound => Stored(g.bytes, x)
      BY <1>2, <1>3
    <2> QED
      BY <1>7, <1>8, <2>1, AmongStored
  <1>10. ASSUME AnyNUL(c) PROVE AnyNUL(b) \/ HasNUL(t)
    <2>1. AnyNUL(o) \/ \E x \in {nn} : HasNUL(x.text)
      BY <1>7, <1>10, AmongNUL
    <2> QED
      BY <1>3, <1>5, <2>1 DEF AnyNUL
  <1> QED
    BY <1>2, <1>4, <1>7, <1>9, <1>10 DEF Good, PutOK

\* A put that fails.
LEMMA PutFailed ==
  ASSUME TypeInv, NEW b, Good(File, b), NEW t \in Text, NEW g \in PutFailures(File, t),
         SetFile(g), NEW c, c = Overwritten(b)
  PROVE  /\ Good(File', c) /\ Len(c) = Len(b)
         /\ AnyNUL(c) => AnyNUL(b)
  <1>1. /\ File \in FileType /\ FileOK(File) /\ Aligned(File, File.offset)
        /\ b \in Seq(NodeType) /\ NodesStored(bytes, b)
    BY FileIs DEF Good
  <1>2. PutOK(File, g)
    BY <1>1, PutFailureOK
  <1>3. File' = g
    BY <1>2, SetFileIs DEF PutOK
  <1>4. /\ c \in Seq(NodeType) /\ Len(c) = Len(b)
        /\ \A i \in 1 .. Len(b) : /\ c[i].text = b[i].text
                                  /\ c[i].sound => c[i] = b[i] /\ ~ (spoiled /\ pos < Len(bytes))
    BY <1>1, OverwrittenIs
  <1>5. NodesStored(g.bytes, c)
    BY <1>1, <1>2, <1>4, StillStored
  <1>6. AnyNUL(c) => AnyNUL(b)
    BY <1>4 DEF AnyNUL
  <1> QED
    BY <1>2, <1>3, <1>4, <1>5, <1>6 DEF Good, PutOK

LEMMA NullName == "null" \in Names /\ Registers \subseteq Names /\ Files \subseteq Names
  BY StreamAssumption DEF Names

LEMMA EmptyText == <<>> \in Text
  BY DEF Text

LEMMA IdleIs ==
  /\ Idle \in JobType /\ Idle.cmd = "none" /\ Idle.step = "line"
  BY NullName, EmptyText DEF Idle, JobType

IsReadJob(j, c, n, t, after) ==
  /\ j \in JobType /\ j.cmd = c /\ j.name = n /\ j.at = after /\ j.rest = t
  /\ j.size = Len(t) /\ j.step = "line" /\ (j.rest # <<>> => j.size > 0)

LEMMA ReadJobIs ==
  ASSUME NEW c \in ReadCmds, NEW n \in Names, NEW t \in Text, NEW after \in Int, NEW k
  PROVE  IsReadJob(ReadJob(c, n, t, after, k), c, n, t, after)
  <1>1. Len(t) \in Nat /\ (after = k) \in BOOLEAN /\ (t # <<>> => Len(t) > 0)
    BY DEF Text
  <1>2. PICK m \in Nat, b \in BOOLEAN : m = Len(t) /\ b = (after = k)
    BY <1>1
  <1>3. PICK j : j = ReadJob(c, n, t, after, k)
    OBVIOUS
  <1>4. j = [cmd |-> c, name |-> n, at |-> after, lo |-> 0, to |-> 0,
             rest |-> t, size |-> m, all |-> FALSE, tail |-> b,
             step |-> "line", got |-> <<>>, slipped |-> FALSE,
             newline_missing |-> FALSE, input_is_binary |-> FALSE]
    BY <1>2, <1>3 DEF ReadJob, Idle
  <1>5. j \in JobType
    BY <1>2, <1>4, EmptyText DEF JobType
  <1> QED
    BY <1>1, <1>2, <1>3, <1>4, <1>5 DEF IsReadJob

LEMMA LineJobType ==
  ASSUME NEW c \in LineCmds, NEW n \in Names, NEW lo \in Int, NEW hi \in Int, NEW a \in BOOLEAN
  PROVE  [cmd |-> c, name |-> n, at |-> lo, lo |-> lo, to |-> hi,
          rest |-> <<>>, size |-> 0, all |-> a, tail |-> FALSE,
          step |-> "line", got |-> <<>>, slipped |-> FALSE,
          newline_missing |-> FALSE, input_is_binary |-> FALSE] \in JobType
  BY EmptyText DEF JobType

IsLineJob(j, c, n, lo, hi) ==
  /\ j \in JobType /\ j.cmd = c /\ j.name = n /\ j.at = lo /\ j.lo = lo /\ j.to = hi
  /\ j.rest = <<>> /\ j.step = "line" /\ j.slipped = FALSE

LEMMA LineJobIs ==
  ASSUME NEW c \in LineCmds, NEW n \in Names, NEW lo \in Int, NEW hi \in Int
  PROVE  IsLineJob(LineJob(c, n, lo, hi), c, n, lo, hi)
  <1>1. PICK a \in BOOLEAN : a = (lo = 1 /\ hi = Lines)
    OBVIOUS
  <1>2. PICK j : j = LineJob(c, n, lo, hi)
    OBVIOUS
  <1>3. j = [cmd |-> c, name |-> n, at |-> lo, lo |-> lo, to |-> hi,
             rest |-> <<>>, size |-> 0, all |-> a, tail |-> FALSE,
             step |-> "line", got |-> <<>>, slipped |-> FALSE,
             newline_missing |-> FALSE, input_is_binary |-> FALSE]
    BY <1>1, <1>2 DEF LineJob, Idle
  <1>4. j \in JobType
    BY <1>3, LineJobType
  <1> QED
    BY <1>2, <1>3, <1>4 DEF IsLineJob

LEMMA LineJobAll ==
  ASSUME NEW j, NEW c, NEW n, NEW lo, NEW hi, IsLineJob(j, c, n, lo, hi), NEW a \in BOOLEAN
  PROVE  IsLineJob([j EXCEPT !.all = a], c, n, lo, hi)
  <1>1. [j EXCEPT !.all = a] \in JobType
    BY DEF IsLineJob, JobType
  <1> QED
    BY <1>1 DEF IsLineJob, JobType

\* A command ends.
LEMMA EndsIdle ==
  ASSUME Good(File', buf'), st' \in FlagType, store' \in [Names -> Text],
         cut' \in BOOLEAN, session' \in Sessions, job' = Idle,
         ~ cut' => /\ st'.is_empty => buf' = <<>>
                   /\ AnyNUL(buf') => st'.is_binary
  PROVE  IInv'
  <1>1. job' \in JobType /\ job'.cmd = "none" /\ job'.step = "line"
    BY IdleIs
  <1>2. TypeInv'
    BY <1>1 DEF TypeInv, Good
  <1>3. JobOK(job', buf', File')
    BY <1>1 DEF JobOK, Good, LineCmds, ReadCmds
  <1>4. ~ cut' => FlagOK(st', buf', job')
    BY <1>1 DEF FlagOK
  <1>5. NodesStored(bytes', buf')
    BY DEF Good, File
  <1> QED
    BY <1>2, <1>3, <1>4, <1>5 DEF IInv, Good

\* A command begins or goes on to read from a stream.
LEMMA GoesOnReading ==
  ASSUME Good(File', buf'), st' \in FlagType, store' \in [Names -> Text],
         cut' \in BOOLEAN, session' \in Sessions, job' \in JobType,
         job'.cmd \in ReadCmds, job'.step = "line", 0 <= job'.at, job'.at <= Len(buf'),
         job'.rest # <<>> => job'.size > 0,
         ~ cut' => /\ st'.is_empty => buf' = <<>> \/ job'.size > 0
                   /\ AnyNUL(buf') => st'.is_binary \/ job'.input_is_binary
  PROVE  IInv'
  <1>0. job'.cmd \notin LineCmds /\ job'.cmd \notin {"j", "m_to"}
    BY DEF ReadCmds, LineCmds
  <1>2. TypeInv'
    BY DEF TypeInv, Good
  <1>3. JobOK(job', buf', File')
    BY <1>0 DEF JobOK, Good
  <1>4. ~ cut' => FlagOK(st', buf', job')
    BY <1>0 DEF FlagOK
  <1>5. NodesStored(bytes', buf')
    BY DEF Good, File
  <1> QED
    BY <1>2, <1>3, <1>4, <1>5 DEF IInv, Good

\* What holds between two commands.
LEMMA WhenIdle ==
  ASSUME IInv, job = Idle
  PROVE  /\ Good(File, buf) /\ Len(buf) \in Nat
         /\ ~ cut => /\ st.is_empty => buf = <<>>
                     /\ AnyNUL(buf) => st.is_binary
  <1>1. job.cmd = "none" /\ job.step = "line"
    BY IdleIs
  <1>2. Aligned(File, File.offset)
    BY <1>1 DEF IInv, JobOK
  <1>3. ~ cut => FlagOK(st, buf, job)
    BY DEF IInv
  <1>4. job.cmd \notin ReadCmds
    BY <1>1 DEF ReadCmds
  <1> QED
    BY <1>2, <1>3, <1>4, FileIs DEF IInv, TypeInv, Good, FlagOK

\* What holds while a stream is read.
LEMMA WhenReading ==
  ASSUME IInv, job.cmd \in ReadCmds
  PROVE  /\ Good(File, buf) /\ Len(buf) \in Nat /\ job \in JobType /\ job.step = "line"
         /\ 0 <= job.at /\ job.at <= Len(buf) /\ job.at \in Int
         /\ job.rest \in Text /\ job.name \in Names
         /\ job.rest # <<>> => job.size > 0
         /\ ~ cut => /\ st.is_empty => buf = <<>> \/ job.size > 0
                     /\ AnyNUL(buf) => st.is_binary \/ job.input_is_binary
  <1>1. job \in JobType
    BY DEF IInv, TypeInv
  <1>2. job.cmd \notin LineCmds
    BY DEF ReadCmds, LineCmds
  <1>3. job.step = "line" /\ 0 <= job.at /\ job.at <= Len(buf) /\ (job.rest # <<>> => job.size > 0)
    BY <1>2 DEF IInv, JobOK
  <1>4. Aligned(File, File.offset)
    BY <1>3 DEF IInv, JobOK
  <1>5. ~ cut => FlagOK(st, buf, job)
    BY DEF IInv
  <1>6. job.at \in Int /\ job.rest \in Text /\ job.name \in Names
    BY <1>1 DEF JobType
  <1> QED
    BY <1>1, <1>3, <1>4, <1>5, <1>6, FileIs DEF IInv, TypeInv, Good, FlagOK

\* Taking lines out of the buffer.
LEMMA LinesTaken ==
  ASSUME TypeInv, Good(File, buf), NEW lo \in Int, NEW hi \in Int,
         1 <= lo, lo <= hi + 1, hi <= Len(buf), NEW b, b = Without(lo, hi)
  PROVE  /\ Good(File, b) /\ Len(b) = Len(buf) - (hi - lo + 1) /\ Len(b) \in Nat
         /\ AnyNUL(b) => AnyNUL(buf)
  <1>1. b \in Seq(NodeType) /\ Len(b) = Len(buf) - (hi - lo + 1) /\ Among(b, buf, {})
    BY WithoutIs
  <1>2. NodesStored(File.bytes, b)
    BY <1>1, AmongStored DEF Good
  <1>3. AnyNUL(b) => AnyNUL(buf)
    BY <1>1, AmongNUL
  <1> QED
    BY <1>1, <1>2, <1>3 DEF Good

\* The lines of a range, and the empty buffer.
LEMMA RangeIs ==
  ASSUME NEW r \in Ranges, Len(buf) \in Nat
  PROVE  /\ r[1] \in Int /\ r[2] \in Int /\ 1 <= r[1] /\ r[1] <= r[2] /\ r[2] <= Len(buf)
  BY StreamAssumption DEF Ranges, Lines

LEMMA NoLines ==
  ASSUME NEW b \in Seq(NodeType)
  PROVE  /\ b = <<>> <=> Len(b) = 0
         /\ b = <<>> => ~ AnyNUL(b)
  BY DEF AnyNUL

LEMMA FlagTypes ==
  ASSUME NEW s \in FlagType
  PROVE  /\ s.is_empty \in BOOLEAN /\ s.is_binary \in BOOLEAN /\ s.newline_appended \in BOOLEAN
         /\ \A hi : Deleted(s, hi) \in FlagType
         /\ \A hi : Deleted(s, hi).is_empty = s.is_empty
         /\ \A hi : Deleted(s, hi).is_binary = s.is_binary
  <1>1. ASSUME NEW hi PROVE /\ Deleted(s, hi) \in FlagType
                            /\ Deleted(s, hi).is_empty = s.is_empty
                            /\ Deleted(s, hi).is_binary = s.is_binary
    <2>1. (s.newline_appended /\ hi # Lines) \in BOOLEAN
      OBVIOUS
    <2>2. PICK x \in BOOLEAN : x = (s.newline_appended /\ hi # Lines)
      BY <2>1
    <2>3. Deleted(s, hi) = [s EXCEPT !.newline_appended = x]
      BY <2>2 DEF Deleted, FlagType
    <2> QED
      BY <2>3 DEF FlagType
  <1> QED
    BY <1>1 DEF FlagType

LEMMA EmptiedIs ==
  ASSUME NEW s \in FlagType, NEW b
  PROVE  /\ Emptied(s, b) \in FlagType
         /\ Emptied(s, b).is_empty <=> b = <<>>
         /\ Emptied(s, b).is_binary <=> s.is_binary /\ b # <<>>
  <1>1. (b = <<>>) \in BOOLEAN /\ (s.is_binary /\ b # <<>>) \in BOOLEAN
    OBVIOUS
  <1>2. PICK x \in BOOLEAN, y \in BOOLEAN : x = (b = <<>>) /\ y = (s.is_binary /\ b # <<>>)
    BY <1>1
  <1>3. Emptied(s, b) = [s EXCEPT !.is_empty = x, !.is_binary = y]
    BY <1>2 DEF Emptied, FlagType
  <1>4. Emptied(s, b) \in FlagType /\ Emptied(s, b).is_empty = x /\ Emptied(s, b).is_binary = y
    BY <1>3 DEF FlagType
  <1> QED
    BY <1>2, <1>4

----------------------------------------------------------------------------
(* The commands that change the buffer. *)

LEMMA Typed ==
  ASSUME TypeInv, NEW t \in session.text
  PROVE  t \in Text
  BY StreamAssumption DEF TypeInv, Text

LEMMA MaxIs ==
  ASSUME NEW k \in Nat
  PROVE  Max({1, k}) \in Nat /\ Max({1, k}) >= 1 /\ (k >= 1 => Max({1, k}) = k)
                             /\ (k = 0 => Max({1, k}) = 1)
  <1>1. CASE k = 0
    <2>1. \A y \in {1, k} : 1 >= y
      BY <1>1
    <2>2. \A x \in {1, k} : (\A y \in {1, k} : x >= y) => x = 1
      BY <1>1
    <2> QED
      BY <1>1, <2>1, <2>2 DEF Max
  <1>2. CASE k >= 1
    <2>1. \A y \in {1, k} : k >= y
      BY <1>2
    <2>2. \A x \in {1, k} : (\A y \in {1, k} : x >= y) => x = k
      BY <1>2
    <2> QED
      BY <1>2, <2>1, <2>2 DEF Max
  <1> QED
    BY <1>1, <1>2

LEMMA AppendKeeps ==
  ASSUME IInv, NEW after \in 0 .. Lines, NEW t \in session.text, a_cmd(after, t)
  PROVE  IInv'
  <1> DEFINE c_cmd == st.is_empty /\ Lines > 0
             line == Max({1, after})
             b == IF c_cmd THEN Without(line, line) ELSE buf
             s0 == IF c_cmd THEN Deleted(st, line) ELSE st
             to == IF c_cmd THEN line - 1 ELSE after
             s == [s0 EXCEPT !.is_binary = @ \/ HasNUL(t),
                             !.newline_appended = @ /\ to # Len(b)]
  <1>1. /\ job = Idle /\ TypeInv /\ t \in Text /\ Good(File, buf) /\ Len(buf) \in Nat
        /\ st \in FlagType /\ Lines = Len(buf) /\ after \in Nat /\ after <= Len(buf)
    <2>1. job = Idle /\ TypeInv
      BY DEF a_cmd, Ready, IInv
    <2> QED
      BY <2>1, Typed, WhenIdle DEF TypeInv, Lines
  <1>2. /\ Good(File, b) /\ to \in 0 .. Len(b) /\ s0 \in FlagType
        /\ s0.is_empty = st.is_empty /\ s0.is_binary = st.is_binary
        /\ ~ cut => b = buf
    <2>1. CASE c_cmd
      <3>1. line \in Int /\ 1 <= line /\ line <= line + 1 /\ line <= Len(buf)
        BY <1>1, <2>1, MaxIs
      <3>2. b = Without(line, line) /\ s0 = Deleted(st, line) /\ to = line - 1
        BY <2>1
      <3> HIDE DEF line, b, s0, to
      <3>3. Good(File, b) /\ Len(b) = Len(buf) - (line - line + 1) /\ Len(b) \in Nat
        BY <1>1, <3>1, <3>2, LinesTaken
      <3>4. to \in 0 .. Len(b)
        BY <1>1, <3>1, <3>2, <3>3
      <3>5. cut
        <4>1. buf # <<>>
          BY <1>1, <2>1
        <4> QED
          BY <1>1, <2>1, <4>1, WhenIdle
      <3> QED
        BY <1>1, <3>2, <3>3, <3>4, <3>5, FlagTypes
    <2>2. CASE ~ c_cmd
      BY <1>1, <2>2
    <2> QED
      BY <2>1, <2>2
  <1>3. /\ s \in FlagType /\ s.is_empty = st.is_empty
        /\ s.is_binary <=> st.is_binary \/ HasNUL(t)
    <2> HIDE DEF s0, to, b
    <2>0. s0 \in FlagType
      BY <1>2
    <2>1. PICK v \in BOOLEAN, w \in BOOLEAN :
            /\ v = (s0.is_binary \/ HasNUL(t))
            /\ w = (s0.newline_appended /\ to # Len(b))
      OBVIOUS
    <2>2. s = [s0 EXCEPT !.is_binary = v, !.newline_appended = w]
      BY <2>0, <2>1 DEF FlagType
    <2>3. s \in FlagType /\ s.is_empty = s0.is_empty /\ s.is_binary = v
      BY <2>0, <2>2 DEF FlagType
    <2> QED
      BY <1>2, <2>1, <2>3
  <1>4. /\ job' = Idle /\ store' = store /\ cut' = cut /\ session' = session
        /\ store \in [Names -> Text] /\ cut \in BOOLEAN /\ session \in Sessions
    BY <1>1 DEF a_cmd, Ready, TypeInv
  <1>5. \/ /\ SetFile(PutLine(File, t)) /\ buf' = PutAfter(b, to, t)
           /\ st' = [s EXCEPT !.is_empty = FALSE]
        \/ /\ \E f \in PutFailures(File, t) : SetFile(f)
           /\ buf' = Overwritten(b) /\ st' = s
    BY DEF a_cmd
  <1> HIDE DEF b, s0, to, s
  <1>6. CASE /\ SetFile(PutLine(File, t)) /\ buf' = PutAfter(b, to, t)
             /\ st' = [s EXCEPT !.is_empty = FALSE]
    <2>1. Good(File', buf') /\ (AnyNUL(buf') => AnyNUL(b) \/ HasNUL(t))
      BY <1>1, <1>2, <1>6, LinePut
    <2>2. st' \in FlagType /\ st'.is_empty = FALSE /\ st'.is_binary = s.is_binary
      BY <1>3, <1>6 DEF FlagType
    <2>3. ~ cut' => (AnyNUL(buf') => st'.is_binary)
      BY <1>1, <1>2, <1>3, <1>4, <2>1, <2>2, WhenIdle
    <2> QED
      BY <1>4, <2>1, <2>2, <2>3, EndsIdle
  <1>7. CASE /\ \E f \in PutFailures(File, t) : SetFile(f)
             /\ buf' = Overwritten(b) /\ st' = s
    <2>1. Good(File', buf') /\ Len(buf') = Len(b) /\ (AnyNUL(buf') => AnyNUL(b))
      BY <1>1, <1>2, <1>7, PutFailed
    <2>2. ~ cut' => (st'.is_empty => buf' = <<>>)
      <3> SUFFICES ASSUME ~ cut', st'.is_empty PROVE buf' = <<>>
        OBVIOUS
      <3>1. buf = <<>> /\ b = buf
        BY <1>1, <1>2, <1>3, <1>4, <1>7, WhenIdle
      <3> QED
        BY <2>1, <3>1, NoLines DEF Good
    <2>3. ~ cut' => (AnyNUL(buf') => st'.is_binary)
      BY <1>1, <1>2, <1>3, <1>4, <1>7, <2>1, WhenIdle
    <2> QED
      BY <1>3, <1>4, <1>7, <2>1, <2>2, <2>3, EndsIdle
  <1> QED
    BY <1>5, <1>6, <1>7

LEMMA DeleteKeeps ==
  ASSUME IInv, NEW r \in Ranges, d_cmd(r[1], r[2])
  PROVE  IInv'
  <1>1. /\ job = Idle /\ TypeInv /\ Good(File, buf) /\ Len(buf) \in Nat /\ st \in FlagType
        /\ UNCHANGED <<bf, store, job, session>> /\ buf' = Without(r[1], r[2])
        /\ st' = Emptied(Deleted(st, r[2]), buf') /\ cut' = (cut /\ buf' # <<>>)
    <2>1. job = Idle /\ TypeInv
      BY DEF d_cmd, Ready, IInv
    <2> QED
      BY <2>1, WhenIdle DEF TypeInv, d_cmd, Ready
  <1>2. r[1] \in Int /\ r[2] \in Int /\ 1 <= r[1] /\ r[1] <= r[2] + 1 /\ r[2] <= Len(buf)
    BY <1>1, RangeIs
  <1>3. Good(File, buf') /\ (AnyNUL(buf') => AnyNUL(buf))
    BY <1>1, <1>2, LinesTaken
  <1>4. File' = File /\ job' = Idle
    BY <1>1 DEF File, bf
  <1>5. /\ st' \in FlagType /\ (st'.is_empty <=> buf' = <<>>)
        /\ st'.is_binary <=> st.is_binary /\ buf' # <<>>
    BY <1>1, FlagTypes, EmptiedIs
  <1>6. ~ cut' => (AnyNUL(buf') => st'.is_binary)
    <2> SUFFICES ASSUME ~ cut', AnyNUL(buf') PROVE st'.is_binary
      OBVIOUS
    <2>1. buf' # <<>>
      BY <1>3, NoLines DEF Good
    <2>2. ~ cut
      BY <1>1, <2>1
    <2> QED
      BY <1>1, <1>3, <1>5, <2>1, <2>2, WhenIdle
  <1>7. store' \in [Names -> Text] /\ cut' \in BOOLEAN /\ session' \in Sessions
    BY <1>1 DEF TypeInv
  <1> QED
    BY <1>3, <1>4, <1>5, <1>6, <1>7, EndsIdle

\* m takes the lines that it has moved to a register out of the buffer.
LEMMA MovedIs ==
  ASSUME TypeInv, NEW hi \in Int, NEW b \in Seq(NodeType),
         hi # Len(buf) => b # <<>>,
         ~ cut => /\ st.is_empty => buf = <<>>
                  /\ AnyNUL(buf) => st.is_binary,
         AnyNUL(b) => AnyNUL(buf), buf # <<>>
  PROVE  /\ Moved(hi, b) \in FlagType
         /\ ~ (cut /\ b # <<>>) => /\ Moved(hi, b).is_empty => b = <<>>
                                   /\ AnyNUL(b) => Moved(hi, b).is_binary
  <1>1. st \in FlagType
    BY DEF TypeInv
  <1>2. CASE hi = Len(buf)
    <2>1. Moved(hi, b) = Emptied(Deleted(st, hi), b)
      BY <1>2 DEF Moved, Lines
    <2>2. /\ Moved(hi, b) \in FlagType /\ (Moved(hi, b).is_empty <=> b = <<>>)
          /\ Moved(hi, b).is_binary <=> st.is_binary /\ b # <<>>
      BY <1>1, <2>1, FlagTypes, EmptiedIs
    <2> QED
      BY <2>2, NoLines
  <1>3. CASE hi # Len(buf)
    <2>1. Moved(hi, b) = st
      BY <1>3 DEF Moved, Lines
    <2> QED
      BY <1>1, <1>3, <2>1
  <1> QED
    BY <1>2, <1>3

----------------------------------------------------------------------------
(* The commands that read streams. *)

LEMMA SmallestNat ==
  ASSUME NEW S, S \subseteq Nat, S # {}
  PROVE  \E x \in S : \A y \in S : x =< y
  <1> DEFINE R == {ss \in Nat \X Nat : ss[1] < ss[2]}
  <1>1. OpToRel(<, Nat) = R
    BY DEF OpToRel
  <1>2. IsWellFoundedOn(R, Nat)
    BY <1>1, NatLessThanWellFounded
  <1>3. PICK x \in S : \A y \in S : ~ (<<y, x>> \in R)
    BY <1>2, WFMin
  <1>4. ASSUME NEW y \in S PROVE x =< y
    <2>1. x \in Nat /\ y \in Nat /\ ~ (<<y, x>> \in R)
      BY <1>3
    <2>2. ~ (y < x)
      BY <2>1
    <2> QED
      BY <2>1, <2>2
  <1> QED
    BY <1>4

\* get_stream_line () splits the stream.
LEMMA FirstLines ==
  ASSUME NEW b \in Text
  PROVE  FirstLine(b) \in Text /\ AfterLine(b) \in Text
  <1>1. CASE NLs(b) = {}
    BY <1>1, EmptyText DEF FirstLine, AfterLine
  <1>2. CASE NLs(b) # {}
    <2> DEFINE m == Min(NLs(b))
    <2>1. Len(b) \in Nat /\ NLs(b) \subseteq 1 .. Len(b)
      BY DEF NLs, Text
    <2>2. PICK x \in NLs(b) : \A y \in NLs(b) : x =< y
      BY <1>2, <2>1, SmallestNat
    <2>3. m \in NLs(b)
      BY <2>2 DEF Min
    <2>4. m \in 1 .. Len(b)
      BY <2>1, <2>3
    <2>5. FirstLine(b) = SubSeq(b, 1, m - 1) /\ AfterLine(b) = SubSeq(b, m + 1, Len(b))
      BY <1>2 DEF FirstLine, AfterLine
    <2> HIDE DEF m
    <2>6. m - 1 \in Int /\ m - 1 <= Len(b) /\ m + 1 \in Int /\ 1 <= m + 1
      BY <2>1, <2>4
    <2>7. SubSeq(b, 1, m - 1) \in Text /\ SubSeq(b, m + 1, Len(b)) \in Text
      BY <2>1, <2>6, PartOf DEF Text
    <2> QED
      BY <2>5, <2>7
  <1> QED
    BY <1>1, <1>2

LEMMA ReadKeeps ==
  ASSUME IInv, NEW n \in Files, NEW after \in 0 .. Lines, r_cmd(n, after)
  PROVE  IInv'
  <1>1. /\ job = Idle /\ TypeInv /\ Good(File, buf) /\ Len(buf) \in Nat /\ Lines = Len(buf)
        /\ UNCHANGED <<bf, st, store, cut, session>> /\ n \in Names
        /\ store[n] \in Text /\ st \in FlagType /\ store \in [Names -> Text]
        /\ cut \in BOOLEAN /\ session \in Sessions /\ "r" \in ReadCmds
    <2>1. job = Idle /\ TypeInv /\ n \in Names
      BY NullName DEF r_cmd, Ready, IInv
    <2> QED
      BY <2>1, WhenIdle DEF TypeInv, r_cmd, Ready, Lines, ReadCmds
  <1>2. File' = File
    BY <1>1 DEF File, bf
  <1>3. CASE st.is_empty /\ Lines > 0
    <2>1. PICK dot \in 1 .. Lines : buf' = Without(dot, dot)
      BY <1>3 DEF r_cmd
    <2>2. after < Len(buf) /\ job' = ReadJob("r", n, store[n], after, Lines - 1)
      BY <1>1, <1>3 DEF r_cmd
    <2>3. dot \in Int /\ 1 <= dot /\ dot <= dot + 1 /\ dot <= Len(buf)
      BY <1>1, <2>1
    <2>4. Good(File, buf') /\ Len(buf') = Len(buf) - (dot - dot + 1)
      BY <1>1, <2>1, <2>3, LinesTaken
    <2>5. after \in Int /\ 0 <= after /\ after <= Len(buf')
      BY <1>1, <2>2, <2>3, <2>4
    <2>6. IsReadJob(job', "r", n, store[n], after)
      BY <1>1, <2>2, <2>5, ReadJobIs
    <2>7. /\ job' \in JobType /\ job'.cmd = "r" /\ job'.at = after /\ job'.step = "line"
          /\ job'.rest # <<>> => job'.size > 0
      BY <2>6 DEF IsReadJob
    <2>8. cut
      <3>1. buf # <<>>
        BY <1>1, <1>3
      <3> QED
        BY <1>1, <1>3, <3>1, WhenIdle
    <2> QED
      BY <1>1, <1>2, <2>4, <2>5, <2>6, <2>7, <2>8, GoesOnReading
  <1>4. CASE ~ (st.is_empty /\ Lines > 0)
    <2>1. job' = ReadJob("r", n, store[n], after, Lines) /\ buf' = buf
      BY <1>4 DEF r_cmd
    <2>2. after \in Int /\ 0 <= after /\ after <= Len(buf')
      BY <1>1, <2>1
    <2>3. IsReadJob(job', "r", n, store[n], after)
      BY <1>1, <2>1, <2>2, ReadJobIs
    <2>4. /\ job' \in JobType /\ job'.cmd = "r" /\ job'.at = after /\ job'.step = "line"
          /\ job'.rest # <<>> => job'.size > 0
      BY <2>3 DEF IsReadJob
    <2> QED
      BY <1>1, <1>2, <2>1, <2>2, <2>3, <2>4, WhenIdle, GoesOnReading
  <1> QED
    BY <1>3, <1>4

LEMMA EditKeeps ==
  ASSUME IInv, NEW n \in Files, E_cmd(n)
  PROVE  IInv'
  <1>1. /\ UNCHANGED <<store, session>> /\ n \in Names /\ store \in [Names -> Text]
        /\ store[n] \in Text /\ session \in Sessions /\ "E" \in ReadCmds
        /\ buf' = <<>> /\ st' = init_ed_state /\ cut' = FALSE
        /\ job' = ReadJob("E", n, store[n], 0, 0) /\ SetFile(Empty)
    BY NullName DEF IInv, TypeInv, E_cmd, Ready, ReadCmds, reopen_ed_buffer
  <1>2. Empty \in FileType
    BY EmptyText DEF Empty, FileType
  <1>3. File' = Empty
    BY <1>1, <1>2, SetFileIs
  <1>4. Good(Empty, <<>>)
    <2>1. FileOK(Empty) /\ Aligned(Empty, Empty.offset)
      BY DEF Empty, FileOK, Aligned
    <2> QED
      BY <1>2, <2>1 DEF Good, NodesStored
  <1>5. st' \in FlagType
    BY <1>1 DEF init_ed_state, FlagType
  <1>6. IsReadJob(job', "E", n, store[n], 0)
    BY <1>1, ReadJobIs
  <1>7. /\ job' \in JobType /\ job'.cmd = "E" /\ job'.at = 0 /\ job'.step = "line"
        /\ job'.rest # <<>> => job'.size > 0
    BY <1>6 DEF IsReadJob
  <1>8. ~ AnyNUL(buf') /\ 0 <= job'.at /\ job'.at <= Len(buf')
    BY <1>1, <1>7 DEF AnyNUL
  <1> QED
    BY <1>1, <1>3, <1>4, <1>5, <1>6, <1>7, <1>8, GoesOnReading

LEMMA FromRegisterKeeps ==
  ASSUME IInv, NEW n \in Registers, NEW c \in {"t_from", "m_from"}, NEW after \in 0 .. Lines,
         append_from_register(c, n, after)
  PROVE  IInv'
  <1>1. /\ job = Idle /\ TypeInv /\ Good(File, buf) /\ Len(buf) \in Nat /\ Lines = Len(buf)
        /\ UNCHANGED <<bf, buf, st, store, cut, session>> /\ n \in Names
        /\ store[n] \in Text /\ st \in FlagType /\ store \in [Names -> Text]
        /\ cut \in BOOLEAN /\ session \in Sessions /\ c \in ReadCmds
        /\ job' = ReadJob(c, n, store[n], after, Lines)
    <2>1. job = Idle /\ TypeInv /\ n \in Names
      BY NullName DEF append_from_register, Ready, IInv
    <2> QED
      BY <2>1, WhenIdle DEF TypeInv, append_from_register, Ready, Lines, ReadCmds
  <1>2. File' = File
    BY <1>1 DEF File, bf
  <1>3. after \in Int /\ 0 <= after /\ after <= Len(buf')
    BY <1>1
  <1>4. IsReadJob(job', c, n, store[n], after)
    BY <1>1, <1>3, ReadJobIs
  <1>5. /\ job' \in JobType /\ job'.cmd = c /\ job'.at = after /\ job'.step = "line"
        /\ job'.rest # <<>> => job'.size > 0
    BY <1>4 DEF IsReadJob
  <1> QED
    BY <1>1, <1>2, <1>3, <1>4, <1>5, WhenIdle, GoesOnReading

LEMMA FilterKeeps ==
  ASSUME IInv, NEW r \in Ranges, NEW output \in Text, filter_lines(r[1], r[2], output)
  PROVE  IInv'
  <1> DEFINE b == Without(r[1], r[2])
             s == Deleted(st, r[2])
  <1>1. /\ job = Idle /\ TypeInv /\ Good(File, buf) /\ Len(buf) \in Nat /\ Lines = Len(buf)
        /\ UNCHANGED <<bf, store, session>> /\ st \in FlagType /\ store \in [Names -> Text]
        /\ cut \in BOOLEAN /\ session \in Sessions /\ "filter" \in ReadCmds
        /\ "null" \in Names /\ buf' = b /\ cut' = (cut /\ b # <<>>)
        /\ job' = ReadJob("filter", "null", output, r[1] - 1, Len(b))
        /\ st' = IF b = <<>> THEN [s EXCEPT !.is_binary = FALSE, !.is_empty = TRUE] ELSE s
    <2>1. job = Idle /\ TypeInv
      BY DEF filter_lines, Ready, IInv
    <2> QED
      BY <2>1, NullName, WhenIdle DEF TypeInv, filter_lines, Ready, Lines, ReadCmds
  <1>2. File' = File
    BY <1>1 DEF File, bf
  <1>3. r[1] \in Int /\ r[2] \in Int /\ 1 <= r[1] /\ r[1] <= r[2] /\ r[2] <= Len(buf)
    BY <1>1, RangeIs
  <1>4. /\ Good(File, b) /\ Len(b) = Len(buf) - (r[2] - r[1] + 1)
        /\ AnyNUL(b) => AnyNUL(buf)
    BY <1>1, <1>3, LinesTaken
  <1>5. r[1] - 1 \in Int /\ 0 <= r[1] - 1 /\ r[1] - 1 <= Len(b)
    BY <1>1, <1>3, <1>4
  <1>6. IsReadJob(job', "filter", "null", output, r[1] - 1)
    BY <1>1, <1>5, ReadJobIs
  <1>7. /\ job' \in JobType /\ job'.cmd = "filter" /\ job'.at = r[1] - 1 /\ job'.step = "line"
        /\ job'.rest # <<>> => job'.size > 0
    BY <1>6 DEF IsReadJob
  <1>8. s \in FlagType /\ s.is_empty = st.is_empty /\ s.is_binary = st.is_binary
    BY <1>1, FlagTypes
  <1> HIDE DEF b, s
  <1>9. CASE b = <<>>
    <2>1. st' \in FlagType
      BY <1>1, <1>8, <1>9 DEF FlagType
    <2>2. ~ AnyNUL(b)
      BY <1>9, <1>4, NoLines DEF Good
    <2>3. cut' = FALSE
      BY <1>1, <1>9
    <2> QED
      BY <1>1, <1>2, <1>4, <1>5, <1>6, <1>7, <1>9, <2>1, <2>2, <2>3, GoesOnReading
  <1>10. CASE b # <<>>
    <2>1. st' = s /\ cut' = cut /\ buf' = b
      BY <1>1, <1>10
    <2>2. buf # <<>>
      BY <1>1, <1>3
    <2>3. ~ cut => ~ s.is_empty /\ (AnyNUL(b) => s.is_binary)
      BY <1>1, <1>4, <1>8, <2>2, WhenIdle
    <2>4. ~ cut' => ~ st'.is_empty /\ (AnyNUL(buf') => st'.is_binary)
      BY <2>1, <2>3
    <2> QED
      BY <1>1, <1>2, <1>4, <1>5, <1>7, <1>8, <2>1, <2>4, GoesOnReading
  <1> QED
    BY <1>9, <1>10

LEMMA ChildKeeps ==
  ASSUME IInv, filter_child
  PROVE  IInv'
  <1>1. /\ job.cmd \in ReadCmds /\ UNCHANGED <<buf, st, store, job, cut, session>> /\ TypeInv
        /\ st \in FlagType /\ store \in [Names -> Text] /\ cut \in BOOLEAN
        /\ session \in Sessions /\ job \in JobType
    BY DEF filter_child, NoFault, ReadCmds, IInv, TypeInv
  <1>2. PICK p \in 0 .. Len(bytes) : move_file(p)
    BY DEF filter_child
  <1>3. /\ Len(bytes) \in Nat /\ pos \in Nat /\ offset \in Int /\ bytes \in Text
        /\ seek_on_write \in BOOLEAN /\ slip \in BOOLEAN /\ spoiled \in BOOLEAN
    BY <1>1, FileTypes
  <1>4. /\ pos' = p /\ bytes' = bytes /\ offset' = offset /\ seek_on_write' = seek_on_write
        /\ slip' \in BOOLEAN /\ spoiled' \in BOOLEAN
        /\ slip' <=> slip \/ p # pos
        /\ spoiled' <=> spoiled \/ (p # pos /\ ~ seek_on_write)
    BY <1>2 DEF move_file
  <1>5. FileOK(File) /\ Aligned(File, offset) /\ NodesStored(bytes, buf) /\ buf \in Seq(NodeType)
    BY <1>1, WhenReading, FileIs DEF Good
  <1>6. /\ spoiled => ~ seek_on_write
        /\ ~ seek_on_write => pos <= Len(bytes)
        /\ ~ seek_on_write /\ ~ spoiled => pos = Len(bytes) /\ offset = Len(bytes)
        /\ spoiled /\ ~ slip => pos = Len(bytes)
        /\ slip \/ pos = offset \/ pos = Len(bytes)
    BY <1>5, FileIs DEF FileOK, Aligned
  <1>7. /\ File'.bytes = bytes' /\ File'.pos = pos' /\ File'.offset = offset'
        /\ File'.seek_on_write = seek_on_write' /\ File'.slip = slip' /\ File'.spoiled = spoiled'
    BY DEF File
  <1>8. File' \in FileType
    BY <1>3, <1>4 DEF File, FileType
  <1>9. FileOK(File')
    BY <1>3, <1>4, <1>6, <1>7 DEF FileOK
  <1>10. Aligned(File', File'.offset)
    BY <1>4, <1>6, <1>7 DEF Aligned
  <1>11. Good(File', buf')
    BY <1>1, <1>4, <1>5, <1>7, <1>8, <1>9, <1>10 DEF Good
  <1> QED
    BY <1>1, <1>11, WhenReading, GoesOnReading

LEMMA ReadLineKeeps ==
  ASSUME IInv, read_line
  PROVE  IInv'
  <1> DEFINE t == FirstLine(job.rest)
  <1>1. /\ job.cmd \in ReadCmds /\ TypeInv /\ job \in JobType /\ job.rest # <<>>
        /\ st' = st /\ store' = store /\ st \in FlagType
        /\ store \in [Names -> Text] /\ cut \in BOOLEAN /\ session \in Sessions
    BY DEF read_line, Reading, ReadCmds, IInv, TypeInv
  <1>2. /\ Good(File, buf) /\ Len(buf) \in Nat /\ job.at \in 0 .. Len(buf) /\ job.rest \in Text
        /\ job.size > 0 /\ job.step = "line"
        /\ ~ cut => (AnyNUL(buf) => st.is_binary \/ job.input_is_binary)
    BY <1>1, WhenReading
  <1>3. t \in Text /\ AfterLine(job.rest) \in Text
    BY <1>2, FirstLines
  <1>4. \/ /\ SetFile(PutLine(File, t)) /\ buf' = PutAfter(buf, job.at, t)
           /\ job' = [job EXCEPT !.at = @ + 1, !.rest = AfterLine(@),
                                 !.input_is_binary = @ \/ HasNUL(t),
                                 !.newline_missing = (NLs(job.rest) = {})]
           /\ cut' = cut /\ session' = session
        \/ /\ \E f \in PutFailures(File, t) : SetFile(f)
           /\ job' = Idle /\ cut' = TRUE /\ session' = session
           /\ buf' = Overwritten(buf)
    BY DEF read_line, NoFault, CutShort, Fault
  <1> HIDE DEF t
  <1>5. CASE /\ SetFile(PutLine(File, t)) /\ buf' = PutAfter(buf, job.at, t)
             /\ job' = [job EXCEPT !.at = @ + 1, !.rest = AfterLine(@),
                                   !.input_is_binary = @ \/ HasNUL(t),
                                   !.newline_missing = (NLs(job.rest) = {})]
             /\ cut' = cut /\ session' = session
    <2>1. /\ Good(File', buf') /\ Len(buf') = Len(buf) + 1
          /\ AnyNUL(buf') => AnyNUL(buf) \/ HasNUL(t)
      BY <1>1, <1>2, <1>3, <1>5, LinePut
    <2>2. PICK v \in BOOLEAN, w \in BOOLEAN, k \in Int, u \in Text :
            /\ v = (job.input_is_binary \/ HasNUL(t)) /\ w = (NLs(job.rest) = {})
            /\ k = job.at + 1 /\ u = AfterLine(job.rest)
      <3>1. PICK v \in BOOLEAN, w \in BOOLEAN :
              v = (job.input_is_binary \/ HasNUL(t)) /\ w = (NLs(job.rest) = {})
        OBVIOUS
      <3>2. job.at + 1 \in Int
        BY <1>2
      <3> QED
        BY <1>3, <3>1, <3>2, Zenon
    <2>3. job' = [job EXCEPT !.at = k, !.rest = u, !.input_is_binary = v,
                             !.newline_missing = w]
      BY <1>1, <1>5, <2>2 DEF JobType
    <2>4. /\ job' \in JobType /\ job'.cmd = job.cmd /\ job'.at = k /\ job'.size = job.size
          /\ job'.step = job.step /\ job'.input_is_binary = v
      BY <1>1, <2>3 DEF JobType
    <2>5. 0 <= k /\ k <= Len(buf')
      BY <1>2, <2>1, <2>2
    <2>6. ~ cut' => (AnyNUL(buf') => st'.is_binary \/ job'.input_is_binary)
      BY <1>1, <1>2, <1>5, <2>1, <2>2, <2>4
    <2> QED
      BY <1>1, <1>2, <1>5, <2>1, <2>4, <2>5, <2>6, GoesOnReading
  <1>6. CASE /\ \E f \in PutFailures(File, t) : SetFile(f)
             /\ job' = Idle /\ cut' = TRUE /\ session' = session
             /\ buf' = Overwritten(buf)
    <2>1. Good(File', buf')
      BY <1>1, <1>2, <1>3, <1>6, PutFailed
    <2> QED
      BY <1>1, <1>6, <2>1, EndsIdle
  <1> QED
    BY <1>4, <1>5, <1>6

LEMMA ReadErrorKeeps ==
  ASSUME IInv, read_error
  PROVE  IInv'
  <1>1. /\ job.cmd \in ReadCmds /\ UNCHANGED <<bf, buf, st, store, session>>
        /\ st \in FlagType /\ store \in [Names -> Text] /\ session \in Sessions
        /\ job' = Idle /\ cut' = TRUE
    BY DEF read_error, Reading, CutShort, Fault, ReadCmds, IInv, TypeInv
  <1>2. File' = File
    BY <1>1 DEF File, bf
  <1> QED
    BY <1>1, <1>2, WhenReading, EndsIdle

LEMMA StreamDoneKeeps ==
  ASSUME IInv, read_stream_done
  PROVE  IInv'
  <1>1. /\ job.cmd \in ReadCmds /\ UNCHANGED <<bf, buf, cut, session>>
        /\ st \in FlagType /\ store \in [Names -> Text] /\ session \in Sessions
        /\ cut \in BOOLEAN /\ job' = Idle /\ job \in JobType
    BY DEF read_stream_done, Reading, NoFault, ReadCmds, IInv, TypeInv
  <1>2. File' = File
    BY <1>1 DEF File, bf
  <1>3. store' \in [Names -> Text]
    BY <1>1, EmptyText DEF read_stream_done
  <1>4. /\ read_flags \in FlagType
        /\ read_flags.is_empty <=> st.is_empty /\ job.size = 0
        /\ read_flags.is_binary <=> st.is_binary \/ job.input_is_binary
    <2>1. /\ st.newline_appended \in BOOLEAN /\ job.newline_missing \in BOOLEAN
          /\ job.input_is_binary \in BOOLEAN /\ st.is_binary \in BOOLEAN
      BY <1>1 DEF JobType, FlagType
    <2>2. PICK x \in BOOLEAN, y \in BOOLEAN, z \in BOOLEAN :
            /\ x = (st.is_empty /\ job.size = 0)
            /\ y = IF job.tail THEN job.newline_missing ELSE st.newline_appended
            /\ z = (st.is_binary \/ job.input_is_binary)
      BY <2>1
    <2>3. read_flags = [st EXCEPT !.is_empty = x, !.newline_appended = y, !.is_binary = z]
      BY <1>1, <2>2 DEF read_flags, FlagType
    <2>4. read_flags \in FlagType /\ read_flags.is_empty = x /\ read_flags.is_binary = z
      BY <1>1, <2>3 DEF FlagType
    <2> QED
      BY <2>2, <2>4
  <1>5. /\ st' \in FlagType /\ st'.is_empty = read_flags.is_empty
        /\ st'.is_binary = read_flags.is_binary
    <2>1. st' = read_flags \/ st' = [read_flags EXCEPT !.newline_appended = TRUE]
      BY DEF read_stream_done
    <2>2. PICK f : f = read_flags
      OBVIOUS
    <2> QED
      BY <1>4, <2>1, <2>2 DEF FlagType
  <1>6. ~ cut' => /\ st'.is_empty => buf' = <<>>
                  /\ AnyNUL(buf') => st'.is_binary
    BY <1>1, <1>4, <1>5, WhenReading
  <1> QED
    BY <1>1, <1>2, <1>3, <1>5, <1>6, WhenReading, EndsIdle

----------------------------------------------------------------------------
(* The commands that read the buffer. *)

LEMMA NoNUL == ~ HasNUL(<<>>)
  BY DEF HasNUL

\* Flags and text joined so far, between two lines of command j.
FetchFlags(s, b, j) ==
  /\ s.is_empty => b = <<>>
  /\ AnyNUL(b) => s.is_binary
  /\ /\ j.cmd = "j" /\ ~ j.slipped /\ HasNUL(j.rest)
     /\ \A i \in j.lo .. j.at - 1 : b[i].sound
     => s.is_binary

FetchRange(j, b) ==
  /\ 1 <= j.lo /\ j.lo <= j.at /\ j.at <= j.to + 1 /\ j.to <= Len(b)
  /\ j.cmd \in {"j", "m_to"} => j.lo <= j.to

LEMMA GoesOnFetching ==
  ASSUME Good(File', buf'), st' \in FlagType, store' \in [Names -> Text],
         cut' \in BOOLEAN, session' \in Sessions, job' \in JobType,
         job'.cmd \in LineCmds, job'.step = "line", FetchRange(job', buf'),
         ~ cut' => FetchFlags(st', buf', job')
  PROVE  IInv'
  <1>0. job'.cmd \notin ReadCmds
    BY DEF ReadCmds, LineCmds
  <1>1. TypeInv'
    BY DEF TypeInv, Good
  <1>2. JobOK(job', buf', File')
    BY <1>0 DEF JobOK, Good, FetchRange
  <1>3. ~ cut' => FlagOK(st', buf', job')
    BY <1>0 DEF FlagOK, FetchFlags
  <1>4. NodesStored(bytes', buf')
    BY DEF Good, File
  <1> QED
    BY <1>1, <1>2, <1>3, <1>4 DEF IInv, Good

LEMMA WhenFetching ==
  ASSUME IInv, job.cmd \in LineCmds
  PROVE  /\ TypeInv /\ FileOK(File) /\ NodesStored(bytes, buf) /\ buf \in Seq(NodeType)
         /\ Len(buf) \in Nat /\ st \in FlagType /\ store \in [Names -> Text]
         /\ cut \in BOOLEAN /\ session \in Sessions /\ job \in JobType
         /\ FetchRange(job, buf) /\ job.lo \in Int /\ job.at \in Int /\ job.to \in Int
         /\ job.name \in Names /\ job.rest \in Text /\ job.got \in Text
         /\ job.step = "line" => Good(File, buf)
         /\ ~ cut => FetchFlags(st, buf, job)
  <1>1. /\ TypeInv /\ buf \in Seq(NodeType) /\ Len(buf) \in Nat /\ st \in FlagType
        /\ store \in [Names -> Text] /\ cut \in BOOLEAN /\ session \in Sessions
        /\ job \in JobType /\ File \in FileType
    BY DEF IInv, TypeInv
  <1>2. job.cmd \notin ReadCmds
    BY DEF ReadCmds, LineCmds
  <1>3. FetchRange(job, buf) /\ (job.step = "line" => Aligned(File, File.offset))
    BY DEF IInv, JobOK, FetchRange
  <1>4. ~ cut => FetchFlags(st, buf, job)
    BY <1>2 DEF IInv, FlagOK, FetchFlags
  <1>5. FileOK(File) /\ NodesStored(bytes, buf)
    BY DEF IInv
  <1>6. /\ job.lo \in Int /\ job.at \in Int /\ job.to \in Int
        /\ job.name \in Names /\ job.rest \in Text /\ job.got \in Text
    BY <1>1 DEF JobType
  <1>7. job.step = "line" => Good(File, buf)
    BY <1>1, <1>3, <1>5, FileIs DEF Good
  <1> QED
    BY <1>1, <1>3, <1>4, <1>5, <1>6, <1>7

\* p, j, w, t and m begin.
LEMMA BeginFetching ==
  ASSUME IInv, job = Idle, NEW c \in LineCmds, NEW n \in Names, NEW lo \in Int, NEW hi \in Int,
         1 <= lo, lo <= hi + 1, hi <= Len(buf), c \in {"j", "m_to"} => lo <= hi,
         IsLineJob(job', c, n, lo, hi), UNCHANGED <<bf, buf, st, cut, session>>,
         store' \in [Names -> Text]
  PROVE  IInv'
  <1>1. Good(File, buf) /\ (~ cut => /\ st.is_empty => buf = <<>>
                                     /\ AnyNUL(buf) => st.is_binary)
    BY WhenIdle
  <1>2. File' = File
    BY DEF File, bf
  <1>3. /\ job' \in JobType /\ job'.cmd = c /\ job'.at = lo /\ job'.lo = lo /\ job'.to = hi
        /\ job'.rest = <<>> /\ job'.step = "line"
    BY DEF IsLineJob
  <1>4. FetchRange(job', buf')
    BY <1>3 DEF FetchRange
  <1>5. ~ cut' => FetchFlags(st', buf', job')
    BY <1>1, <1>3, NoNUL DEF FetchFlags
  <1>6. st' \in FlagType /\ cut' \in BOOLEAN /\ session' \in Sessions
    BY DEF IInv, TypeInv
  <1> QED
    BY <1>1, <1>2, <1>3, <1>4, <1>5, <1>6, GoesOnFetching

LEMMA DisplayKeeps ==
  ASSUME IInv, NEW r \in Ranges, display_lines(r[1], r[2]) \/ join_lines(r[1], r[2])
  PROVE  IInv'
  <1>1. job = Idle /\ UNCHANGED <<bf, buf, st, store, cut, session>>
    BY DEF display_lines, join_lines, Ready
  <1>2. r[1] \in Int /\ r[2] \in Int /\ 1 <= r[1] /\ r[1] <= r[2] /\ r[2] <= Len(buf)
    BY <1>1, WhenIdle, RangeIs
  <1>3. PICK c \in LineCmds : job' = LineJob(c, "null", r[1], r[2])
    BY DEF display_lines, join_lines, LineCmds
  <1>4. IsLineJob(job', c, "null", r[1], r[2])
    BY <1>2, <1>3, NullName, LineJobIs
  <1>5. store' \in [Names -> Text] /\ r[1] <= r[2] + 1
    BY <1>1, <1>2 DEF IInv, TypeInv
  <1> QED
    BY <1>1, <1>2, <1>4, <1>5, NullName, BeginFetching

LEMMA WriteKeeps ==
  ASSUME IInv, NEW c \in {"w", "t_to", "m_to"}, NEW n \in Names, NEW lo \in Int, NEW hi \in Int,
         1 <= lo, lo <= hi + 1, hi <= Len(buf), c = "m_to" => lo <= hi, NEW append \in BOOLEAN,
         write_file(c, n, lo, hi, append)
  PROVE  IInv'
  <1>1. /\ job = Idle /\ UNCHANGED <<bf, buf, st, cut, session>> /\ c \in LineCmds /\ c # "j"
        /\ store \in [Names -> Text]
    BY DEF write_file, Ready, LineCmds, IInv, TypeInv
  <1>2. store' \in [Names -> Text]
    BY <1>1, EmptyText DEF write_file
  <1>3. PICK j : j = LineJob(c, n, lo, hi)
    OBVIOUS
  <1>4. IsLineJob(j, c, n, lo, hi)
    BY <1>1, <1>3, LineJobIs
  <1>5. PICK a \in BOOLEAN : a = (j.all /\ ~ append)
    OBVIOUS
  <1>6. job' = [j EXCEPT !.all = a]
    BY <1>3, <1>4, <1>5 DEF write_file, IsLineJob, JobType
  <1>7. IsLineJob(job', c, n, lo, hi)
    BY <1>4, <1>6, LineJobAll
  <1> QED
    BY <1>1, <1>2, <1>7, BeginFetching

\* A register that cannot be emptied.
LEMMA UnresetKeeps ==
  ASSUME IInv, NEW r \in Ranges, NEW n \in Registers, NEW c \in {"t_to", "m_to"},
         append_to_register_unreset(c, n, r[1], r[2])
  PROVE  IInv'
  <1>1. /\ job = Idle /\ UNCHANGED <<bf, store, job, cut, session>> /\ TypeInv
        /\ store \in [Names -> Text] /\ cut \in BOOLEAN /\ session \in Sessions /\ st \in FlagType
    BY DEF append_to_register_unreset, Fault, IInv, TypeInv
  <1>2. /\ Good(File, buf) /\ Len(buf) \in Nat
        /\ ~ cut => /\ st.is_empty => buf = <<>>
                    /\ AnyNUL(buf) => st.is_binary
    BY <1>1, WhenIdle
  <1>3. File' = File /\ job' = Idle
    BY <1>1 DEF File, bf
  <1>4. CASE c = "m_to"
    <2>1. buf' = Without(r[1], r[2]) /\ st' = Moved(r[2], buf')
      BY <1>4 DEF append_to_register_unreset
    <2>2. r[1] \in Int /\ r[2] \in Int /\ 1 <= r[1] /\ r[1] <= r[2] /\ r[2] <= Len(buf)
      BY <1>2, RangeIs
    <2>20. r[1] <= r[2] + 1
      BY <2>2
    <2>3. /\ Good(File, buf') /\ Len(buf') = Len(buf) - (r[2] - r[1] + 1)
          /\ AnyNUL(buf') => AnyNUL(buf)
      BY <1>1, <1>2, <2>1, <2>2, <2>20, LinesTaken
    <2>4. buf # <<>> /\ buf' \in Seq(NodeType) /\ (r[2] # Len(buf) => buf' # <<>>)
      <3>1. buf' \in Seq(NodeType)
        BY <2>3 DEF Good
      <3>2. r[2] # Len(buf) => Len(buf') # 0
        BY <1>2, <2>2, <2>3
      <3>3. Len(buf) # 0
        BY <1>2, <2>2
      <3> QED
        BY <3>1, <3>2, <3>3
    <2>5. PICK b \in Seq(NodeType) : b = buf'
      BY <2>4
    <2>6. /\ Moved(r[2], b) \in FlagType
          /\ ~ (cut /\ b # <<>>) => /\ Moved(r[2], b).is_empty => b = <<>>
                                    /\ AnyNUL(b) => Moved(r[2], b).is_binary
      BY <1>1, <1>2, <2>2, <2>3, <2>4, <2>5, MovedIs
    <2> QED
      BY <1>1, <1>3, <2>1, <2>3, <2>5, <2>6, EndsIdle
  <1>5. CASE c # "m_to"
    <2>1. buf' = buf /\ st' = st
      BY <1>5 DEF append_to_register_unreset
    <2> QED
      BY <1>1, <1>2, <1>3, <2>1, EndsIdle
  <1> QED
    BY <1>4, <1>5

\* Registers to registers.
LEMMA InterRegisterKeeps ==
  ASSUME IInv, NEW a \in Registers, NEW b \in Registers, NEW move \in BOOLEAN,
         NEW append \in BOOLEAN, inter_register(move, a, b, append)
  PROVE  IInv'
  <1> DEFINE base == IF append THEN store[b] ELSE <<>>
             moved == IF move THEN [store EXCEPT ![a] = <<>>] ELSE store
             text == base \o EndNL(store[a])
  <1>1. /\ job = Idle /\ UNCHANGED <<bf, buf, st, job, cut, session>>
        /\ store \in [Names -> Text] /\ cut \in BOOLEAN /\ session \in Sessions /\ st \in FlagType
        /\ a \in Names /\ b \in Names
    BY NullName DEF inter_register, Ready, IInv, TypeInv
  <1>2. File' = File /\ job' = Idle
    BY <1>1 DEF File, bf
  <1>3. base \in Text /\ moved \in [Names -> Text] /\ store[a] \in Text
    BY <1>1, EmptyText
  <1>4. EndNL(store[a]) \in Text
    <2>1. "NL" \in Byte
      BY StreamAssumption
    <2>2. Append(store[a], "NL") \in Text
      BY <1>3, <2>1 DEF Text
    <2> QED
      BY <1>3, <2>2 DEF EndNL
  <1>5. text \in Text
    BY <1>3, <1>4, JoinIs DEF Text
  <1>6. store' = [moved EXCEPT ![b] = text] \/ store' = [moved EXCEPT ![b] = store[a]]
    BY DEF inter_register
  <1> HIDE DEF moved, text
  <1>7. store' \in [Names -> Text]
    BY <1>3, <1>5, <1>6
  <1> QED
    BY <1>1, <1>2, <1>7, WhenIdle, EndsIdle

\* The text of a line is where its node says.
LEMMA TextFound ==
  ASSUME NEW bs \in Text, NEW node \in NodeType, Stored(bs, node), NEW p \in Nat,
         p = node.seek \/ node.len = 0, p + node.len <= Len(bs)
  PROVE  SubSeq(bs, p + 1, p + node.len) = node.text
  <1>1. PICK n \in Nat : n = node.len
    BY DEF NodeType
  <1>2. PICK t \in Seq(Byte) : t = node.text
    BY DEF NodeType, Text
  <1>3. bs \in Seq(Byte) /\ Len(bs) \in Nat
    BY DEF Text
  <1>4. Len(t) = n /\ \A k \in 1 .. n : bs[p + k] = t[k]
    BY <1>1, <1>2 DEF Stored
  <1>5. PICK a \in Int, z \in Int : a = p + 1 /\ z = p + n
    BY <1>1
  <1>6. PICK s : s = SubSeq(bs, a, z)
    OBVIOUS
  <1>7. /\ s \in Seq(Byte) /\ Len(s) = (IF a <= z THEN z - a + 1 ELSE 0)
        /\ \A i \in 1 .. z - a + 1 : s[i] = bs[a + i - 1]
    <2>1. 1 <= a /\ z <= Len(bs)
      BY <1>1, <1>3, <1>5
    <2> QED
      BY <1>3, <1>6, <2>1, PartOf
  <1>8. Len(s) = n /\ \A i \in 1 .. n : s[i] = t[i]
    <2>1. Len(s) = n /\ z - a + 1 = n
      BY <1>5, <1>7
    <2>2. ASSUME NEW i \in 1 .. n PROVE s[i] = t[i]
      <3>1. s[i] = bs[a + i - 1] /\ a + i - 1 = p + i
        BY <1>5, <1>7, <2>1
      <3> QED
        BY <1>4, <3>1
    <2> QED
      BY <2>1, <2>2
  <1>9. s = t
    BY <1>2, <1>4, <1>7, <1>8, SeqEqual
  <1> QED
    BY <1>1, <1>2, <1>5, <1>6, <1>9

\* What get_buffer_line () is given.
LEMMA NodeIs ==
  ASSUME IInv, Fetching
  PROVE  /\ job.cmd \in LineCmds /\ job.at \in 1 .. Len(buf) /\ job.at <= job.to
         /\ Node = buf[job.at] /\ Node \in NodeType
         /\ Node.seek \in Int /\ Node.len \in Nat /\ Node.text \in Text
         /\ Node.sound => Stored(bytes, Node)
  <1>1. job.cmd \in LineCmds /\ job.at <= job.to /\ Node = buf[job.at]
    BY DEF Fetching, LineCmds, Node
  <1>2. job.at \in 1 .. Len(buf) /\ buf \in Seq(NodeType) /\ NodesStored(bytes, buf)
    BY <1>1, WhenFetching DEF FetchRange
  <1>3. Node \in NodeType
    BY <1>1, <1>2
  <1>4. Node.sound => Stored(bytes, Node)
    BY <1>1, <1>2 DEF NodesStored
  <1> QED
    BY <1>1, <1>2, <1>3, <1>4 DEF NodeType

\* Between the steps of get_buffer_line ().
LEMMA KeepsFetching ==
  ASSUME IInv, Fetching, File' \in FileType, seek_on_write', ~ spoiled', bytes' = bytes,
         offset' = Node.seek, UNCHANGED <<buf, st, store, cut, session>>,
         job' \in JobType, job'.cmd = job.cmd, job'.at = job.at, job'.lo = job.lo,
         job'.to = job.to, job'.rest = job.rest, job.slipped => job'.slipped,
         job'.step \in {"seek", "read", "advance"},
         job'.step = "read" => Aligned(File', offset'),
         job'.step = "advance" => /\ Aligned(File', offset' + Node.len)
                                  /\ job'.got = Node.text \/ slip' \/ ~ Node.sound
                                  /\ slip' => job'.slipped
  PROVE  IInv'
  <1>1. /\ job.cmd \in LineCmds /\ job.at <= job.to /\ Node = buf[job.at]
        /\ FetchRange(job, buf) /\ NodesStored(bytes, buf) /\ buf \in Seq(NodeType)
        /\ st \in FlagType /\ store \in [Names -> Text] /\ cut \in BOOLEAN
        /\ session \in Sessions /\ (~ cut => FetchFlags(st, buf, job))
    BY NodeIs, WhenFetching
  <1>2. job.cmd \notin ReadCmds
    BY <1>1 DEF ReadCmds, LineCmds
  <1>3. /\ File'.bytes = bytes' /\ File'.pos = pos' /\ File'.offset = offset'
        /\ File'.seek_on_write = seek_on_write' /\ File'.slip = slip' /\ File'.spoiled = spoiled'
    BY DEF File
  <1>4. TypeInv'
    BY <1>1 DEF TypeInv
  <1>5. FileOK(File') /\ NodesStored(bytes', buf')
    BY <1>1, <1>3 DEF FileOK
  <1>6. JobOK(job', buf', File')
    BY <1>1, <1>2, <1>3 DEF JobOK, FetchRange
  <1>7. ~ cut' => FlagOK(st', buf', job')
    BY <1>1, <1>2 DEF FlagOK, FetchFlags
  <1> QED
    BY <1>4, <1>5, <1>6, <1>7 DEF IInv

LEMMA RepositionKeeps ==
  ASSUME IInv, fetch_reposition
  PROVE  IInv'
  <1>1. /\ Fetching /\ job.step = "line" /\ UNCHANGED <<buf, st, store, cut, session>>
        /\ seek_on_write' = TRUE /\ offset' = Node.seek /\ spoiled' = FALSE
        /\ UNCHANGED <<bytes, pos, slip>>
        /\ job' = [job EXCEPT !.step = IF OutOfPosition(Node) THEN "seek" ELSE "read"]
    BY DEF fetch_reposition, reposition, NoFault
  <1>2. job \in JobType /\ TypeInv /\ Good(File, buf) /\ Node.seek \in Int
    BY <1>1, NodeIs, WhenFetching
  <1>3. PICK x \in {"seek", "read"} : x = IF OutOfPosition(Node) THEN "seek" ELSE "read"
    OBVIOUS
  <1>4. job' = [job EXCEPT !.step = x]
    BY <1>1, <1>3
  <1>5. /\ job' \in JobType /\ job'.cmd = job.cmd /\ job'.at = job.at /\ job'.lo = job.lo
        /\ job'.to = job.to /\ job'.rest = job.rest /\ job'.slipped = job.slipped /\ job'.step = x
    BY <1>2, <1>4 DEF JobType
  <1>6. File' \in FileType
    BY <1>1, <1>2, FileTypes DEF File, FileType
  <1>7. job'.step = "read" => Aligned(File', offset')
    <2>1. SUFFICES ASSUME x = "read" PROVE Aligned(File', offset')
      BY <1>5
    <2>2. offset' = offset
      BY <1>1, <1>3, <2>1 DEF OutOfPosition
    <2>3. slip \/ pos = offset \/ pos = Len(bytes)
      BY <1>2, FileIs DEF Good, Aligned
    <2> QED
      BY <1>1, <2>2, <2>3 DEF Aligned, File
  <1> QED
    BY <1>1, <1>3, <1>5, <1>6, <1>7, KeepsFetching

\* What holds after the seek flag is set.
LEMMA MidFetch ==
  ASSUME IInv, Fetching, job.step # "line"
  PROVE  seek_on_write /\ ~ spoiled /\ offset = Node.seek
  BY NodeIs, FileIs DEF IInv, JobOK

LEMMA SeekKeeps ==
  ASSUME IInv, fetch_seek
  PROVE  IInv'
  <1>1. /\ Fetching /\ job.step = "seek" /\ UNCHANGED <<buf, st, store, cut, session>>
        /\ offset >= 0 /\ pos' = offset /\ slip' = FALSE
        /\ UNCHANGED <<bytes, offset, seek_on_write, spoiled>>
        /\ job' = [job EXCEPT !.step = "read"]
    BY DEF fetch_seek, fseek, NoFault
  <1>2. job \in JobType /\ TypeInv /\ seek_on_write /\ ~ spoiled /\ offset = Node.seek
    BY <1>1, NodeIs, WhenFetching, MidFetch
  <1>3. /\ job' \in JobType /\ job'.cmd = job.cmd /\ job'.at = job.at /\ job'.lo = job.lo
        /\ job'.to = job.to /\ job'.rest = job.rest /\ job'.slipped = job.slipped
        /\ job'.step = "read"
    BY <1>1, <1>2 DEF JobType
  <1>4. pos' \in Nat
    BY <1>1, <1>2, FileTypes
  <1>5. File' \in FileType
    BY <1>1, <1>2, <1>4, FileTypes DEF File, FileType
  <1>6. Aligned(File', offset')
    BY <1>1 DEF Aligned, File
  <1> QED
    BY <1>1, <1>2, <1>3, <1>5, <1>6, KeepsFetching

LEMMA FreadKeeps ==
  ASSUME IInv, fetch_read
  PROVE  IInv'
  <1>1. /\ Fetching /\ job.step = "read" /\ UNCHANGED <<buf, st, store, cut, session>>
        /\ pos + Node.len <= Len(bytes) /\ pos' = pos + Node.len
        /\ UNCHANGED <<bytes, offset, seek_on_write, slip, spoiled>>
        /\ job' = [job EXCEPT !.step = "advance", !.got = TextAt(pos, Node.len),
                              !.slipped = @ \/ slip]
    BY DEF fetch_read, fread, Readable, NoFault
  <1>2. /\ job \in JobType /\ TypeInv /\ seek_on_write /\ ~ spoiled /\ offset = Node.seek
        /\ Node \in NodeType /\ Node.len \in Nat /\ (Node.sound => Stored(bytes, Node))
    BY <1>1, NodeIs, WhenFetching, MidFetch
  <1>3. bytes \in Text /\ pos \in Nat /\ offset \in Int /\ Len(bytes) \in Nat
    BY <1>2, FileTypes
  <1>4. PICK n \in Nat : n = Node.len
    BY <1>2
  <1>5. slip \/ pos = offset \/ (pos = Len(bytes) /\ n = 0)
    <2>1. slip \/ pos = offset \/ pos = Len(bytes)
      BY <1>1, FileIs DEF IInv, JobOK, Aligned
    <2> QED
      BY <1>1, <1>3, <1>4, <2>1
  <1>6. PICK g \in Text : g = TextAt(pos, Node.len)
    <2>1. pos + 1 \in Int /\ pos + n \in Int /\ 1 <= pos + 1 /\ pos + n <= Len(bytes)
      BY <1>1, <1>3, <1>4
    <2>2. SubSeq(bytes, pos + 1, pos + n) \in Text
      BY <1>3, <2>1, PartOf DEF Text
    <2> QED
      BY <1>4, <2>2 DEF TextAt
  <1>7. g = Node.text \/ slip \/ ~ Node.sound
    <2>1. SUFFICES ASSUME ~ slip, Node.sound PROVE g = Node.text
      OBVIOUS
    <2>2. pos = Node.seek \/ Node.len = 0
      BY <1>2, <1>4, <1>5, <2>1
    <2> QED
      BY <1>1, <1>2, <1>3, <1>6, <2>1, <2>2, TextFound DEF TextAt
  <1>8. PICK v \in BOOLEAN : v = (job.slipped \/ slip)
    OBVIOUS
  <1>9. job' = [job EXCEPT !.step = "advance", !.got = g, !.slipped = v]
    BY <1>1, <1>2, <1>6, <1>8 DEF JobType
  <1>10. /\ job' \in JobType /\ job'.cmd = job.cmd /\ job'.at = job.at /\ job'.lo = job.lo
         /\ job'.to = job.to /\ job'.rest = job.rest /\ job'.slipped = v
         /\ job'.step = "advance" /\ job'.got = g
    BY <1>2, <1>9 DEF JobType
  <1>11. pos' \in Nat
    BY <1>1, <1>3, <1>4
  <1>12. File' \in FileType
    BY <1>1, <1>2, <1>11, FileTypes DEF File, FileType
  <1>13. Aligned(File', offset' + Node.len)
    <2>1. slip \/ pos + n = offset + n \/ pos + n = Len(bytes)
      BY <1>3, <1>5
    <2> QED
      BY <1>1, <1>4, <2>1 DEF Aligned, File
  <1>14. (job.slipped => job'.slipped) /\ (slip' => job'.slipped)
    BY <1>1, <1>8, <1>10
  <1> QED
    BY <1>1, <1>2, <1>7, <1>10, <1>12, <1>13, <1>14, KeepsFetching

\* The last assignment of get_buffer_line ().
LEMMA AdvanceGood ==
  ASSUME IInv, Fetching, job.step = "advance", advance(Node)
  PROVE  Good(File', buf)
  <1>1. offset' = offset + Node.len /\ UNCHANGED <<bytes, pos, seek_on_write, slip, spoiled>>
    BY DEF advance
  <1>2. /\ TypeInv /\ seek_on_write /\ ~ spoiled /\ Node.len \in Nat
        /\ buf \in Seq(NodeType) /\ NodesStored(bytes, buf) /\ Node = buf[job.at]
    BY NodeIs, WhenFetching, MidFetch
  <1>3. Aligned(File, offset + Node.len)
    BY <1>2, FileIs DEF IInv, JobOK
  <1>4. /\ File'.bytes = bytes /\ File'.pos = pos /\ File'.offset = offset + Node.len
        /\ File'.seek_on_write = seek_on_write /\ File'.slip = slip /\ File'.spoiled = spoiled
    BY <1>1 DEF File
  <1>5. offset' \in Int
    BY <1>1, <1>2, FileTypes
  <1>6. File' \in FileType
    BY <1>1, <1>2, <1>5, FileTypes DEF File, FileType
  <1>7. FileOK(File')
    BY <1>2, <1>4 DEF FileOK
  <1>8. Aligned(File', File'.offset)
    BY <1>3, <1>4, FileIs DEF Aligned
  <1> QED
    BY <1>2, <1>4, <1>6, <1>7, <1>8 DEF Good

\* A read that ends early leaves the position as it is, and counts as a slip if
\* ed->core->offset differs.
LEMMA LostGood ==
  ASSUME IInv, Fetching, job.step # "line", pos' \in Nat, slip' \in BOOLEAN,
         slip' \/ pos' = offset, UNCHANGED <<bytes, offset, seek_on_write, spoiled>>
  PROVE  Good(File', buf)
  <1>1. /\ TypeInv /\ seek_on_write /\ ~ spoiled
        /\ buf \in Seq(NodeType) /\ NodesStored(bytes, buf)
    BY NodeIs, WhenFetching, MidFetch
  <1>2. /\ File'.bytes = bytes /\ File'.pos = pos' /\ File'.offset = offset
        /\ File'.seek_on_write = seek_on_write /\ File'.slip = slip' /\ File'.spoiled = spoiled
    BY DEF File
  <1>3. File' \in FileType
    BY <1>1, FileTypes DEF File, FileType
  <1>4. FileOK(File')
    BY <1>1, <1>2 DEF FileOK
  <1>5. Aligned(File', File'.offset)
    BY <1>2 DEF Aligned
  <1> QED
    BY <1>1, <1>2, <1>3, <1>4, <1>5 DEF Good

LEMMA LoseReadGood ==
  ASSUME IInv, Fetching, job.step # "line", lose_read
  PROVE  Good(File', buf)
  <1>1. /\ slip' = (slip \/ offset # pos)
        /\ UNCHANGED <<bytes, pos, offset, seek_on_write, spoiled>>
    BY DEF lose_read
  <1>2. pos' \in Nat /\ slip' \in BOOLEAN
    BY <1>1, FileTypes DEF IInv
  <1> QED
    BY <1>1, <1>2, LostGood

\* A command that reads lines ends and has changed neither lines nor flags.
LEMMA FetchEnds ==
  ASSUME IInv, job.cmd \in LineCmds, Good(File', buf), UNCHANGED <<buf, st, cut, session>>,
         store' \in [Names -> Text], job' = Idle
  PROVE  IInv'
  <1>1. /\ st \in FlagType /\ cut \in BOOLEAN /\ session \in Sessions
        /\ ~ cut => FetchFlags(st, buf, job)
    BY WhenFetching
  <1>2. ~ cut' => /\ st'.is_empty => buf' = <<>>
                  /\ AnyNUL(buf') => st'.is_binary
    BY <1>1 DEF FetchFlags
  <1> QED
    BY <1>1, <1>2, EndsIdle

LEMMA FetchErrorKeeps ==
  ASSUME IInv, fetch_error
  PROVE  IInv'
  <1>1. /\ Fetching /\ UNCHANGED <<buf, st, store, cut, session>> /\ job' = Idle
        /\ \/ job.step = "seek" /\ lose_read
           \/ job.step = "read" /\ fread_fails(Node)
    BY DEF fetch_error, Fault
  <1>2. job.cmd \in LineCmds /\ store \in [Names -> Text] /\ Node.len \in Nat
    BY <1>1, NodeIs, WhenFetching
  <1>3. CASE job.step = "seek" /\ lose_read
    BY <1>1, <1>2, <1>3, LoseReadGood, FetchEnds
  <1>4. CASE job.step = "read" /\ fread_fails(Node)
    <2>1. PICK k \in 0 .. Node.len : pos' = pos + k /\ slip' = (slip \/ offset # pos + k)
      BY <1>4 DEF fread_fails
    <2>2. UNCHANGED <<bytes, offset, seek_on_write, spoiled>>
      BY <1>4 DEF fread_fails
    <2>3. pos' \in Nat
      BY <1>2, <2>1, FileTypes DEF IInv
    <2>4. slip' \in BOOLEAN /\ (slip' \/ pos' = offset)
      BY <2>1
    <2> QED
      BY <1>1, <1>2, <1>4, <2>2, <2>3, <2>4, LostGood, FetchEnds
  <1> QED
    BY <1>1, <1>3, <1>4

LEMMA PutErrorKeeps ==
  ASSUME IInv, put_stream_line_error
  PROVE  IInv'
  <1>1. /\ Fetching /\ job.step = "advance" /\ advance(Node)
        /\ UNCHANGED <<buf, st, cut, session>> /\ job' = Idle
    BY DEF put_stream_line_error, Fault
  <1>2. /\ job.cmd \in LineCmds /\ store \in [Names -> Text] /\ job.name \in Names
        /\ job.got \in Text
    BY <1>1, NodeIs, WhenFetching
  <1>3. PICK k \in 0 .. Len(job.got) :
          store' = [store EXCEPT ![job.name] = @ \o SubSeq(job.got, 1, k)]
    BY DEF put_stream_line_error
  <1>4. SubSeq(job.got, 1, k) \in Text
    BY <1>2, PartOf DEF Text
  <1>5. store[job.name] \o SubSeq(job.got, 1, k) \in Text
    BY <1>2, <1>4, JoinIs DEF Text
  <1>6. store' \in [Names -> Text]
    BY <1>2, <1>3, <1>5
  <1> QED
    BY <1>1, <1>2, <1>6, AdvanceGood, FetchEnds

\* Where the job has come to its end.
LEMMA FetchedGood ==
  ASSUME IInv, Fetched
  PROVE  /\ job.cmd \in LineCmds /\ Good(File, buf) /\ job.at = job.to + 1
  <1>1. job.cmd \in LineCmds /\ job.at > job.to
    BY DEF Fetched, LineCmds
  <1>2. FetchRange(job, buf) /\ job.at \in Int /\ job.to \in Int
    BY <1>1, WhenFetching
  <1>3. job.at = job.to + 1
    BY <1>1, <1>2 DEF FetchRange
  <1>4. job.step = "line"
    BY <1>1, <1>2 DEF IInv, JobOK
  <1> QED
    BY <1>1, <1>3, <1>4, WhenFetching

LEMMA LinesDoneKeeps ==
  ASSUME IInv, lines_done
  PROVE  IInv'
  <1>1. Fetched /\ job' = Idle /\ UNCHANGED <<bf, buf, st, store, cut, session>>
    BY DEF lines_done, NoFault
  <1>2. File' = File
    BY <1>1 DEF File, bf
  <1>3. store' \in [Names -> Text]
    BY <1>1 DEF IInv, TypeInv
  <1> QED
    BY <1>1, <1>2, <1>3, FetchedGood, FetchEnds

\* The jump out of a command.
LEMMA InterruptKeeps ==
  ASSUME IInv, interrupt
  PROVE  IInv'
  <1>1. /\ job # Idle /\ job' = Idle /\ UNCHANGED <<buf, st, store, session>>
        /\ IF Fetching /\ job.step # "line" THEN lose_read ELSE UNCHANGED bf
        /\ cut' = (cut \/ Reading)
    BY DEF interrupt, Fault
  <1>2. /\ TypeInv /\ st \in FlagType /\ store \in [Names -> Text] /\ cut \in BOOLEAN
        /\ session \in Sessions /\ job \in JobType
    BY DEF IInv, TypeInv
  <1>3. Good(File', buf)
    <2>1. CASE Fetching /\ job.step # "line"
      BY <1>1, <2>1, LoseReadGood
    <2>2. CASE ~ (Fetching /\ job.step # "line")
      <3>1. job.step = "line"
        BY <2>2 DEF IInv, JobOK, Fetching, LineCmds
      <3>2. File' = File
        BY <1>1, <2>2 DEF File, bf
      <3>3. Aligned(File, File.offset) /\ FileOK(File) /\ NodesStored(bytes, buf)
        BY <3>1 DEF IInv, JobOK
      <3> QED
        BY <1>2, <3>2, <3>3, FileIs DEF Good, TypeInv
    <2> QED
      BY <2>1, <2>2
  <1>4. ~ cut' => /\ st'.is_empty => buf' = <<>>
                  /\ AnyNUL(buf') => st'.is_binary
    <2>1. SUFFICES ASSUME ~ cut, ~ Reading PROVE /\ st.is_empty => buf = <<>>
                                                 /\ AnyNUL(buf) => st.is_binary
      BY <1>1
    <2>2. job.cmd \notin ReadCmds
      BY <2>1 DEF Reading, ReadCmds
    <2> QED
      BY <2>1, <2>2 DEF IInv, FlagOK
  <1>5. cut' \in BOOLEAN
    BY <1>1, <1>2 DEF Reading
  <1> QED
    BY <1>1, <1>2, <1>3, <1>4, <1>5, EndsIdle

LEMMA MoveDoneKeeps ==
  ASSUME IInv, move_done
  PROVE  IInv'
  <1> DEFINE lo == job.lo
             hi == job.to
  <1>1. /\ Fetched /\ job.cmd = "m_to" /\ buf' = Without(lo, hi) /\ st' = Moved(hi, buf')
        /\ cut' = (cut /\ buf' # <<>>) /\ job' = Idle /\ UNCHANGED <<bf, store, session>>
    BY DEF move_done, NoFault
  <1>2. /\ TypeInv /\ Len(buf) \in Nat /\ st \in FlagType /\ store \in [Names -> Text]
        /\ cut \in BOOLEAN /\ session \in Sessions /\ Good(File, buf)
        /\ lo \in Int /\ hi \in Int /\ FetchRange(job, buf)
        /\ ~ cut => FetchFlags(st, buf, job)
    BY <1>1, FetchedGood, WhenFetching
  <1>3. 1 <= lo /\ lo <= hi /\ hi <= Len(buf)
    BY <1>1, <1>2 DEF FetchRange
  <1>4. File' = File
    BY <1>1 DEF File, bf
  <1> HIDE DEF lo, hi
  <1>5. lo <= hi + 1
    BY <1>2, <1>3
  <1>6. /\ Good(File, buf') /\ Len(buf') = Len(buf) - (hi - lo + 1)
        /\ AnyNUL(buf') => AnyNUL(buf)
    BY <1>1, <1>2, <1>3, <1>5, LinesTaken
  <1>7. buf # <<>> /\ buf' \in Seq(NodeType) /\ (hi # Len(buf) => buf' # <<>>)
    <2>1. buf' \in Seq(NodeType)
      BY <1>6 DEF Good
    <2>2. hi # Len(buf) => Len(buf') # 0
      BY <1>2, <1>3, <1>6
    <2>3. Len(buf) # 0
      BY <1>2, <1>3
    <2> QED
      BY <2>1, <2>2, <2>3
  <1>8. PICK b \in Seq(NodeType) : b = buf'
    BY <1>7
  <1>9. ~ cut => /\ st.is_empty => buf = <<>>
                 /\ AnyNUL(buf) => st.is_binary
    BY <1>2 DEF FetchFlags
  <1>10. /\ Moved(hi, b) \in FlagType
         /\ ~ (cut /\ b # <<>>) => /\ Moved(hi, b).is_empty => b = <<>>
                                   /\ AnyNUL(b) => Moved(hi, b).is_binary
    BY <1>2, <1>6, <1>7, <1>8, <1>9, MovedIs
  <1>11. cut' \in BOOLEAN
    BY <1>1
  <1> QED
    BY <1>1, <1>2, <1>4, <1>6, <1>8, <1>10, <1>11, EndsIdle

LEMMA JoinNUL ==
  ASSUME NEW s \in Text, NEW t \in Text, HasNUL(s \o t)
  PROVE  HasNUL(s) \/ HasNUL(t)
  <1>1. s \in Seq(Byte) /\ t \in Seq(Byte) /\ s \o t \in Seq(Byte)
    BY JoinIs DEF Text
  <1>2. PICK i \in 1 .. Len(s \o t) : (s \o t)[i] = "NUL"
    BY <1>1 DEF HasNUL
  <1>3. \/ i \in 1 .. Len(s) /\ (s \o t)[i] = s[i]
        \/ \E k \in 1 .. Len(t) : i = Len(s) + k /\ (s \o t)[i] = t[k]
    BY <1>1, EitherPart
  <1>4. (\E k \in 1 .. Len(s) : s[k] = "NUL") \/ (\E k \in 1 .. Len(t) : t[k] = "NUL")
    BY <1>2, <1>3
  <1>5. DOMAIN s = 1 .. Len(s) /\ DOMAIN t = 1 .. Len(t)
    BY <1>1
  <1> QED
    BY <1>4, <1>5 DEF HasNUL

LEMMA FetchDoneKeeps ==
  ASSUME IInv, fetch_done
  PROVE  IInv'
  <1>1. /\ Fetching /\ job.step = "advance" /\ advance(Node)
        /\ UNCHANGED <<buf, st, cut, session>>
        /\ job' = [job EXCEPT !.step = "line", !.at = @ + 1, !.got = <<>>,
                              !.rest = IF job.cmd = "j" THEN @ \o job.got ELSE @]
    BY DEF fetch_done, NoFault
  <1>2. /\ job.cmd \in LineCmds /\ job.at \in 1 .. Len(buf) /\ job.at <= job.to
        /\ Node = buf[job.at] /\ st \in FlagType /\ store \in [Names -> Text]
        /\ cut \in BOOLEAN /\ session \in Sessions /\ job \in JobType
        /\ FetchRange(job, buf) /\ job.lo \in Int /\ job.at \in Int /\ job.to \in Int
        /\ job.name \in Names /\ job.rest \in Text /\ job.got \in Text
        /\ ~ cut => FetchFlags(st, buf, job)
    BY <1>1, NodeIs, WhenFetching
  <1>3. /\ job.got = Node.text \/ slip \/ ~ Node.sound
        /\ slip => job.slipped
    BY <1>1, <1>2, FileIs DEF IInv, JobOK
  <1>4. PICK u \in Text : u = IF job.cmd = "j" THEN job.rest \o job.got ELSE job.rest
    BY <1>2, JoinIs DEF Text
  <1>5. PICK k \in Int : k = job.at + 1
    BY <1>2
  <1>6. job' = [job EXCEPT !.step = "line", !.at = k, !.got = <<>>, !.rest = u]
    BY <1>1, <1>2, <1>4, <1>5 DEF JobType
  <1>7. /\ job' \in JobType /\ job'.cmd = job.cmd /\ job'.at = k /\ job'.lo = job.lo
        /\ job'.to = job.to /\ job'.rest = u /\ job'.slipped = job.slipped
        /\ job'.step = "line"
    BY <1>2, <1>6, EmptyText DEF JobType
  <1>8. store' \in [Names -> Text]
    <2>1. Output \in Text
      <3>1. "NL" \in Byte
        BY StreamAssumption
      <3>2. Append(job.got, "NL") \in Text
        BY <1>2, <3>1 DEF Text
      <3> QED
        BY <1>2, <3>2 DEF Output
    <2>2. store[job.name] \o Output \in Text
      BY <1>2, <2>1, JoinIs DEF Text
    <2>3. store' = store \/ store' = [store EXCEPT ![job.name] = @ \o Output]
      BY DEF fetch_done
    <2> QED
      BY <1>2, <2>2, <2>3
  <1>9. FetchRange(job', buf')
    BY <1>1, <1>2, <1>5, <1>7 DEF FetchRange
  <1>10. ASSUME ~ cut, job.cmd = "j", ~ job.slipped, HasNUL(u),
                \A i \in job.lo .. k - 1 : buf[i].sound
         PROVE  st.is_binary
    <2>1. FetchFlags(st, buf, job) /\ u = job.rest \o job.got
      BY <1>2, <1>4, <1>10
    <2>2. HasNUL(job.rest) \/ HasNUL(job.got)
      BY <1>2, <1>10, <2>1, JoinNUL
    <2>3. /\ \A i \in job.lo .. job.at - 1 : i \in job.lo .. k - 1
          /\ job.at \in job.lo .. k - 1
      BY <1>2, <1>5 DEF FetchRange
    <2>4. CASE HasNUL(job.rest)
      BY <1>10, <2>1, <2>3, <2>4 DEF FetchFlags
    <2>5. CASE HasNUL(job.got)
      <3>1. job.got = Node.text
        BY <1>2, <1>3, <1>10, <2>3
      <3>2. AnyNUL(buf)
        BY <1>2, <2>5, <3>1 DEF AnyNUL
      <3> QED
        BY <2>1, <3>2 DEF FetchFlags
    <2> QED
      BY <2>2, <2>4, <2>5
  <1>11. ~ cut' => FetchFlags(st', buf', job')
    BY <1>1, <1>2, <1>7, <1>10 DEF FetchFlags
  <1>12. Good(File', buf')
    BY <1>1, AdvanceGood
  <1> QED
    BY <1>1, <1>2, <1>7, <1>8, <1>9, <1>11, <1>12, GoesOnFetching

\* j: what takes the place of the lines is binary only if they were, or one of
\* them was not read as it is.
LEMMA JoinDoneKeeps ==
  ASSUME IInv, join_done
  PROVE  IInv'
  <1> DEFINE lo == job.lo
             hi == job.to
  <1>1. /\ Fetched /\ job.cmd = "j" /\ st' = Deleted(st, hi) /\ job' = Idle
        /\ cut' = (cut \/ job.slipped \/ \E i \in lo .. hi : ~ buf[i].sound)
        /\ store' = store /\ session' = session
        /\ \/ /\ SetFile(PutLine(File, job.rest))
              /\ buf' = PutAfter(Without(lo, hi), lo - 1, job.rest)
           \/ /\ \E f \in PutFailures(File, job.rest) : SetFile(f)
              /\ buf' = Overwritten(Without(lo, hi))
    BY DEF join_done, NoFault, Fault
  <1>2. /\ TypeInv /\ Len(buf) \in Nat /\ st \in FlagType /\ store \in [Names -> Text]
        /\ cut \in BOOLEAN /\ session \in Sessions /\ Good(File, buf) /\ buf \in Seq(NodeType)
        /\ lo \in Int /\ hi \in Int /\ FetchRange(job, buf) /\ job.at = hi + 1
        /\ job.rest \in Text
        /\ ~ cut => FetchFlags(st, buf, job)
    BY <1>1, FetchedGood, WhenFetching
  <1>3. 1 <= lo /\ lo <= hi /\ hi <= Len(buf)
    BY <1>1, <1>2 DEF FetchRange
  <1>4. cut' \in BOOLEAN /\ st' \in FlagType /\ st'.is_empty = st.is_empty
        /\ st'.is_binary = st.is_binary
    BY <1>1, <1>2, FlagTypes
  <1>5. ~ cut' => ~ cut /\ ~ st.is_empty /\ (AnyNUL(buf) \/ HasNUL(job.rest) => st.is_binary)
    <2>1. SUFFICES ASSUME ~ cut'
                   PROVE  ~ cut /\ ~ st.is_empty /\ (AnyNUL(buf) \/ HasNUL(job.rest) => st.is_binary)
      OBVIOUS
    <2>2. ~ cut /\ ~ job.slipped /\ \A i \in lo .. hi : buf[i].sound
      BY <1>1, <2>1
    <2>3. job.at - 1 = hi
      BY <1>2
    <2>4. buf # <<>>
      BY <1>2, <1>3
    <2> QED
      BY <1>1, <1>2, <2>2, <2>3, <2>4 DEF FetchFlags
  <1> HIDE DEF lo, hi
  <1>6. lo <= hi + 1
    BY <1>2, <1>3
  <1>7. PICK b : b = Without(lo, hi)
    OBVIOUS
  <1>8. /\ Good(File, b) /\ Len(b) = Len(buf) - (hi - lo + 1) /\ Len(b) \in Nat
        /\ AnyNUL(b) => AnyNUL(buf)
    BY <1>2, <1>3, <1>6, <1>7, LinesTaken
  <1>9. PICK after \in 0 .. Len(b) : after = lo - 1
    BY <1>2, <1>3, <1>8
  <1>10. Good(File', buf') /\ (AnyNUL(buf') => AnyNUL(b) \/ HasNUL(job.rest))
    <2>1. CASE SetFile(PutLine(File, job.rest)) /\ buf' = PutAfter(b, after, job.rest)
      BY <1>2, <1>8, <2>1, LinePut
    <2>2. CASE (\E f \in PutFailures(File, job.rest) : SetFile(f)) /\ buf' = Overwritten(b)
      BY <1>2, <1>8, <2>2, PutFailed
    <2> QED
      BY <1>1, <1>7, <1>9, <2>1, <2>2
  <1> QED
    BY <1>1, <1>2, <1>4, <1>5, <1>8, <1>10, EndsIdle

----------------------------------------------------------------------------
(* The specification. *)

LEMMA InitIInv ==
  Init => IInv
  <1> SUFFICES ASSUME Init PROVE IInv
    OBVIOUS
  <1>1. /\ bytes = <<>> /\ pos = 0 /\ offset = 0 /\ seek_on_write = FALSE /\ slip = FALSE
        /\ spoiled = FALSE /\ buf = <<>> /\ st = init_ed_state /\ session \in Sessions
        /\ job = Idle /\ cut = FALSE
        /\ store \in [Names -> session.contents \cup {<<>>}]
    BY DEF Init, BufferFileInit
  <1>2. session.contents \cup {<<>>} \subseteq Text
    <2>1. session.contents \subseteq Text
      BY <1>1, StreamAssumption, Zenon DEF Text
    <2> QED
      BY <2>1, EmptyText, Zenon
  <1>3. store \in [Names -> Text]
    BY <1>1, <1>2
  <1>4. job \in JobType /\ job.cmd = "none" /\ job.step = "line"
    BY <1>1, IdleIs
  <1>5. st \in FlagType
    BY <1>1 DEF init_ed_state, FlagType
  <1>6. File \in FileType
    <2>1. bytes \in Text
      BY <1>1, EmptyText, Zenon
    <2>2. pos \in Nat /\ offset \in Int
      BY <1>1
    <2>3. seek_on_write \in BOOLEAN /\ slip \in BOOLEAN /\ spoiled \in BOOLEAN
      BY <1>1, Zenon
    <2> QED
      BY <2>1, <2>2, <2>3 DEF File, FileType
  <1>7. TypeInv
    <2>1. <<>> \in Seq(NodeType)
      OBVIOUS
    <2>2. buf \in Seq(NodeType) /\ cut \in BOOLEAN
      BY <1>1, <2>1, Zenon
    <2> QED
      BY <1>1, <1>3, <1>4, <1>5, <1>6, <2>2 DEF TypeInv
  <1>8. FileOK(File) /\ Aligned(File, File.offset)
    BY <1>1, FileIs DEF FileOK, Aligned
  <1>9. Len(buf) = 0
    BY <1>1
  <1>10. NodesStored(bytes, buf) /\ ~ AnyNUL(buf)
    BY <1>9 DEF NodesStored, AnyNUL
  <1>11. JobOK(job, buf, File)
    BY <1>4, <1>8 DEF JobOK, LineCmds, ReadCmds
  <1>12. FlagOK(st, buf, job)
    BY <1>1, <1>4, <1>10 DEF FlagOK
  <1> QED
    BY <1>7, <1>8, <1>10, <1>11, <1>12 DEF IInv

LEMMA EditIInv ==
  ASSUME IInv, Edit PROVE IInv'
  <1>1. \/ \E after \in 0 .. Lines, t \in session.text : a_cmd(after, t)
        \/ \E r \in Ranges : d_cmd(r[1], r[2])
        \/ \E r \in Ranges : display_lines(r[1], r[2]) \/ join_lines(r[1], r[2])
    BY DEF Edit
  <1> QED
    BY <1>1, AppendKeeps, DeleteKeeps, DisplayKeeps DEF Lines

LEMMA ReadIInv ==
  ASSUME IInv, Read PROVE IInv'
  <1>1. CASE \E n \in Files : E_cmd(n)
    BY <1>1, EditKeeps
  <1>2. CASE \E n \in Files, after \in 0 .. Lines : r_cmd(n, after)
    BY <1>2, ReadKeeps DEF Lines
  <1>3. CASE \E n \in Registers, c \in {"t_from", "m_from"}, after \in 0 .. Lines :
               append_from_register(c, n, after)
    BY <1>3, FromRegisterKeeps DEF Lines
  <1>4. CASE \E r \in Ranges, t \in session.text :
               filter_lines(r[1], r[2], <<>>) \/ filter_lines(r[1], r[2], Append(t, "NL"))
    <2>1. PICK r \in Ranges, t \in session.text :
            filter_lines(r[1], r[2], <<>>) \/ filter_lines(r[1], r[2], Append(t, "NL"))
      BY <1>4
    <2>2. t \in Text /\ "NL" \in Byte
      BY Typed, StreamAssumption DEF IInv
    <2>3. Append(t, "NL") \in Text
      BY <2>2 DEF Text
    <2>4. PICK o \in Text : filter_lines(r[1], r[2], o)
      BY <2>1, <2>3, EmptyText, Zenon
    <2> QED
      BY <2>4, FilterKeeps
  <1>5. CASE filter_child \/ read_line \/ read_error \/ read_stream_done
    BY <1>5, ChildKeeps, ReadLineKeeps, ReadErrorKeeps, StreamDoneKeeps
  <1> QED
    BY <1>1, <1>2, <1>3, <1>4, <1>5 DEF Read

LEMMA WriteIInv ==
  ASSUME IInv, Write PROVE IInv'
  <1>0. Len(buf) \in Nat
    BY DEF IInv, TypeInv
  <1>1. CASE \E r \in Ranges, append \in BOOLEAN, n \in Names, c \in {"w", "t_to", "m_to"} :
               write_file(c, n, r[1], r[2], append)
    <2>1. PICK r \in Ranges, append \in BOOLEAN, n \in Names, c \in {"w", "t_to", "m_to"} :
            write_file(c, n, r[1], r[2], append)
      BY <1>1
    <2>2. r[1] \in Int /\ r[2] \in Int /\ 1 <= r[1] /\ r[1] <= r[2] /\ r[2] <= Len(buf)
      BY <1>0, RangeIs
    <2>3. r[1] <= r[2] + 1
      BY <2>2
    <2> QED
      BY <2>1, <2>2, <2>3, WriteKeeps
  <1>2. CASE \E n \in Writable : Lines = 0 /\ write_file("w", n, 1, 0, FALSE)
    <2>1. PICK n \in Names : write_file("w", n, 1, 0, FALSE)
      BY <1>2 DEF Writable, Names
    <2>0. 1 \in Int /\ 0 \in Int /\ FALSE \in BOOLEAN /\ "w" \in {"w", "t_to", "m_to"}
      OBVIOUS
    <2>2. PICK lo \in Int, hi \in Int, append \in BOOLEAN, c \in {"w", "t_to", "m_to"} :
            lo = 1 /\ hi = 0 /\ append = FALSE /\ c = "w"
      BY <2>0, Zenon
    <2>3. write_file(c, n, lo, hi, append)
      BY <2>1, <2>2
    <2>4. 1 <= lo /\ lo <= hi + 1 /\ hi <= Len(buf) /\ (c = "m_to" => lo <= hi)
      BY <1>0, <2>2
    <2> QED
      BY <2>3, <2>4, WriteKeeps
  <1>3. CASE \E r \in Ranges, n \in Registers, c \in {"t_to", "m_to"} :
               append_to_register_unreset(c, n, r[1], r[2])
    BY <1>3, UnresetKeeps
  <1>4. CASE \E a, b \in Registers, move, append \in BOOLEAN : inter_register(move, a, b, append)
    BY <1>4, InterRegisterKeeps
  <1> QED
    BY <1>1, <1>2, <1>3, <1>4 DEF Write, Writable, Names

LEMMA FetchIInv ==
  ASSUME IInv, Fetch PROVE IInv'
  BY RepositionKeeps, SeekKeeps, FreadKeeps, FetchDoneKeeps, FetchErrorKeeps, PutErrorKeeps,
     LinesDoneKeeps, MoveDoneKeeps, JoinDoneKeeps DEF Fetch

LEMMA NextIInv ==
  IInv /\ [Next]_vars => IInv'
  <1>1. ASSUME IInv, Next PROVE IInv'
    BY <1>1, EditIInv, ReadIInv, WriteIInv, FetchIInv, InterruptKeeps DEF Next
  <1>2. ASSUME IInv, UNCHANGED vars PROVE IInv'
    <2>1. UNCHANGED <<bytes, buf, st, store, job, cut, session>> /\ File' = File
      BY <1>2 DEF vars, bf, File
    <2>2. TypeInv'
      BY <1>2, <2>1 DEF IInv, TypeInv
    <2> QED
      BY <1>2, <2>1, <2>2 DEF IInv
  <1> QED
    BY <1>1, <1>2

LEMMA Always == Spec => []IInv
  BY InitIInv, NextIInv, PTL DEF Spec

\* The text of every line of the buffer is in the buffer file where its node
\* says, whatever lines are read, put, joined, moved or filtered, and wherever
\* a put or a read fails or is interrupted: get_buffer_line () and
\* put_buffer_line () agree on where the file ends.
THEOREM TextKept == Spec => []TextStored
  <1>1. ASSUME IInv PROVE TextStored
    <2>1. SUFFICES ASSUME NEW i \in DOMAIN buf, buf[i].sound
                   PROVE  buf[i].seek >= 0 /\ TextAt(buf[i].seek, buf[i].len) = buf[i].text
      BY DEF TextStored
    <2>2. buf \in Seq(NodeType) /\ bytes \in Text /\ NodesStored(bytes, buf)
      BY <1>1, FileTypes DEF IInv, TypeInv
    <2>3. i \in 1 .. Len(buf) /\ buf[i] \in NodeType
      BY <2>2
    <2>4. PICK nd \in NodeType : nd = buf[i]
      BY <2>3
    <2>5. Stored(bytes, nd)
      BY <2>1, <2>2, <2>3, <2>4 DEF NodesStored
    <2>6. nd.seek >= 0 /\ nd.seek + nd.len <= Len(bytes)
      BY <2>5 DEF Stored
    <2>7. nd.seek \in Nat
      BY <2>6 DEF NodeType
    <2>8. SubSeq(bytes, nd.seek + 1, nd.seek + nd.len) = nd.text
      BY <2>2, <2>5, <2>6, <2>7, TextFound
    <2> QED
      BY <2>4, <2>6, <2>8 DEF TextAt
  <1> QED
    BY <1>1, Always, PTL

\* get_buffer_line () returns the text of the line it is given, with the one
\* exception of a file that was moved, or a read that was cut short, since the
\* last seek; in particular the seeks it saves never cost a line.
THEOREM OwnTextRead == Spec => []ReadsOwnText
  <1>1. ASSUME IInv PROVE ReadsOwnText
    BY <1>1, FileIs DEF IInv, JobOK, ReadsOwnText, Node
  <1> QED
    BY <1>1, Always, PTL

\* Between commands is_empty and is_binary are right about the buffer, unless
\* read_stream () was cut short before it could set them.
THEOREM FlagsRight == Spec => []FlagsTrue
  <1>1. ASSUME IInv PROVE FlagsTrue
    <2>1. SUFFICES ASSUME job = Idle, ~ cut
                   PROVE  /\ st.is_empty => buf = <<>>
                          /\ (\E i \in DOMAIN buf : HasNUL(buf[i].text)) => st.is_binary
      BY DEF FlagsTrue
    <2>2. /\ st.is_empty => buf = <<>>
          /\ AnyNUL(buf) => st.is_binary
      BY <1>1, <2>1, WhenIdle
    <2>3. DOMAIN buf = 1 .. Len(buf)
      BY <1>1 DEF IInv, TypeInv
    <2> QED
      BY <2>2, <2>3 DEF AnyNUL
  <1> QED
    BY <1>1, Always, PTL

----------------------------------------------------------------------------
(* A file that is read and written back.  The texts p[k] of the first k    *)
(* lines, each with its newline, take the place of a recursive definition: *)
(* they are extended by one when a line is read, and gone through one by   *)
(* one when the lines are written.                                         *)

Spells(b, p) ==
  /\ p \in [0 .. Len(b) -> Text] /\ p[0] = <<>>
  /\ \A k \in 1 .. Len(b) : p[k] = p[k - 1] \o Append(b[k].text, "NL")
  /\ \A k \in 0 .. Len(b) : HasNUL(p[k]) <=> \E i \in 1 .. k : HasNUL(b[i].text)

AllSound(b) == \A i \in 1 .. Len(b) : b[i].sound

\* q is the text t, ended by a newline that t may lack.
Whole(t, q, added) ==
  /\ added => q = Append(t, "NL") /\ t # <<>> /\ t[Len(t)] # "NL"
  /\ ~ added => q = t

\* What w has written of a buffer that spells out text t.
Sofar(j, s, t, p, written) ==
  /\ j.at <= j.to => written = p[j.at - 1]
  /\ j.at > j.to => written = IF s.is_binary /\ s.newline_appended THEN t ELSE p[j.to]

\* The buffer b is the text that was read into it, and j writes it to o.
Faithful(f, b, s, j, o) ==
  /\ f.text \in Text /\ AllSound(b) /\ (s.is_binary <=> AnyNUL(b))
  /\ j.cmd = "w" /\ j.all => j.lo = 1 /\ j.to = Len(b)
  /\ \E p : /\ Spells(b, p) /\ Whole(f.text, p[Len(b)], s.newline_appended)
            /\ j.cmd = "w" /\ j.all /\ ~ j.slipped => Sofar(j, s, f.text, p, o[j.name])

\* E has read all but j.rest of the text t.
Reads(b, s, j, f, t) ==
  /\ ~ s.is_binary /\ j.tail /\ j.at = Len(b) /\ ~ f.spoiled /\ AllSound(b)
  /\ j.input_is_binary <=> AnyNUL(b)
  /\ j.newline_missing => j.rest = <<>>
  /\ \E p : /\ Spells(b, p)
            /\ j.newline_missing => Whole(t, p[Len(b)], TRUE)
            /\ ~ j.newline_missing => p[Len(b)] \o j.rest = t

RoundInv ==
  /\ job.cmd \in ReadCmds => ~ from.known
  /\ job.cmd = "E" => Reads(buf, st, job, File, store[job.name])
  /\ from.known => Faithful(from, buf, st, job, store)

LEMMA Bytes == "NL" \in Byte /\ "NUL" \in Byte /\ "NL" # "NUL"
  BY StreamAssumption

LEMMA JoinHasNUL ==
  ASSUME NEW s \in Text, NEW t \in Text
  PROVE  HasNUL(s \o t) <=> HasNUL(s) \/ HasNUL(t)
  <1>1. s \in Seq(Byte) /\ t \in Seq(Byte) /\ s \o t \in Seq(Byte) /\ Joined(s \o t, s, t)
    BY JoinIs DEF Text
  <1>2. /\ DOMAIN s = 1 .. Len(s) /\ DOMAIN t = 1 .. Len(t)
        /\ DOMAIN (s \o t) = 1 .. Len(s) + Len(t) /\ Len(s) \in Nat /\ Len(t) \in Nat
    BY <1>1 DEF Joined
  <1>3. ASSUME HasNUL(s) PROVE HasNUL(s \o t)
    <2>1. PICK i \in 1 .. Len(s) : s[i] = "NUL"
      BY <1>2, <1>3 DEF HasNUL
    <2>2. i \in 1 .. Len(s) + Len(t) /\ (s \o t)[i] = "NUL"
      BY <1>1, <1>2, <2>1 DEF Joined
    <2> QED
      BY <1>2, <2>2 DEF HasNUL
  <1>4. ASSUME HasNUL(t) PROVE HasNUL(s \o t)
    <2>1. PICK i \in 1 .. Len(t) : t[i] = "NUL"
      BY <1>2, <1>4 DEF HasNUL
    <2>2. (s \o t)[Len(s) + i] = "NUL"
      BY <1>1, <2>1 DEF Joined
    <2>3. Len(s) + i \in 1 .. Len(s) + Len(t)
      BY <1>2
    <2> QED
      BY <1>2, <2>2, <2>3 DEF HasNUL
  <1> QED
    BY <1>3, <1>4, JoinNUL

LEMMA ThreeTexts ==
  ASSUME NEW s \in Text, NEW t \in Text, NEW u \in Text
  PROVE  (s \o t) \o u = s \o (t \o u)
  <1>1. s \in Seq(Byte) /\ t \in Seq(Byte) /\ u \in Seq(Byte)
    BY DEF Text
  <1> QED
    BY <1>1, ConcatAssociative

\* A line with its newline.
LEMMA LineEnd ==
  ASSUME NEW s \in Text, NEW t \in Text
  PROVE  /\ Append(t, "NL") \in Text /\ s \o t \in Text
         /\ s \o Append(t, "NL") = Append(s \o t, "NL")
         /\ HasNUL(Append(t, "NL")) <=> HasNUL(t)
  <1>1. s \in Seq(Byte) /\ t \in Seq(Byte) /\ s \o t \in Seq(Byte) /\ "NL" \in Byte
    BY Bytes, JoinIs DEF Text
  <1>2. PICK e \in Seq(Byte) : e = <<"NL">>
    <2>1. <<"NL">> \in Seq(Byte)
      BY <1>1
    <2> QED
      BY <2>1, Zenon
  <1>3. Append(t, "NL") = t \o e /\ Append(s \o t, "NL") = (s \o t) \o e
    BY <1>1, <1>2, AppendIsConcat
  <1>4. s \o (t \o e) = (s \o t) \o e
    BY ThreeTexts DEF Text
  <1>5. ~ HasNUL(e)
    BY <1>2, Bytes DEF HasNUL
  <1>6. HasNUL(t \o e) <=> HasNUL(t)
    BY <1>2, <1>5, JoinHasNUL DEF Text
  <1>7. Append(t, "NL") \in Text
    BY <1>1, AppendProperties DEF Text
  <1>8. s \o t \in Text
    BY <1>1 DEF Text
  <1>9. s \o Append(t, "NL") = Append(s \o t, "NL")
    BY <1>3, <1>4, Zenon
  <1>10. HasNUL(Append(t, "NL")) <=> HasNUL(t)
    BY <1>3, <1>6, Zenon
  <1> QED
    BY <1>7, <1>8, <1>9, <1>10

LEMMA SpellsNone ==
  ASSUME NEW b, b = <<>>
  PROVE  \E p : Spells(b, p) /\ p[Len(b)] = <<>>
  <1>1. PICK z \in Text : z = <<>>
    BY EmptyText, Zenon
  <1>2. PICK p : p = [k \in 0 .. 0 |-> z]
    OBVIOUS
  <1>3. Len(b) = 0 /\ p \in [0 .. 0 -> Text] /\ p[0] = z
    BY <1>2
  <1>4. \A k \in 1 .. 0 : FALSE
    OBVIOUS
  <1>5. \A k \in 0 .. 0 : k = 0
    OBVIOUS
  <1>6. ~ HasNUL(z)
    BY <1>1, NoNUL, Zenon
  <1>7. Spells(b, p)
    BY <1>1, <1>3, <1>4, <1>5, <1>6 DEF Spells
  <1> QED
    BY <1>1, <1>3, <1>7, Zenon

LEMMA SpellsMore ==
  ASSUME NEW b \in Seq(NodeType), NEW p, Spells(b, p), NEW node \in NodeType,
         NEW c, c = Append(b, node)
  PROVE  \E q : Spells(c, q) /\ q[Len(c)] = p[Len(b)] \o Append(node.text, "NL")
  <1> DEFINE n == Len(b)
             line == Append(node.text, "NL")
             more == p[n] \o line
  <1>1. n \in Nat /\ Len(c) = n + 1 /\ c[n + 1] = node /\ \A i \in 1 .. n : c[i] = b[i]
    BY AppendProperties
  <1>2. node.text \in Text /\ p \in [0 .. n -> Text] /\ p[0] = <<>> /\ p[n] \in Text
    BY <1>1 DEF NodeType, Spells
  <1>3. line \in Text /\ (HasNUL(line) <=> HasNUL(node.text))
    BY <1>2, LineEnd
  <1>4. more \in Text /\ (HasNUL(more) <=> HasNUL(p[n]) \/ HasNUL(node.text))
    BY <1>2, <1>3, JoinHasNUL, LineEnd
  <1>5. \A k \in 1 .. n : p[k] = p[k - 1] \o Append(b[k].text, "NL")
    BY DEF Spells
  <1>6. \A k \in 0 .. n : HasNUL(p[k]) <=> \E i \in 1 .. k : HasNUL(b[i].text)
    BY DEF Spells
  <1> HIDE DEF n, more
  <1>7. PICK q : q = [k \in 0 .. n + 1 |-> IF k = n + 1 THEN more ELSE p[k]]
    OBVIOUS
  <1>8. /\ q \in [0 .. n + 1 -> Text] /\ q[n + 1] = more
        /\ \A k \in 0 .. n : q[k] = p[k]
    <2>1. \A k \in 0 .. n + 1 : k # n + 1 => k \in 0 .. n
      BY <1>1
    <2>2. n + 1 \in 0 .. n + 1 /\ \A k \in 0 .. n : k \in 0 .. n + 1 /\ k # n + 1
      BY <1>1
    <2> QED
      BY <1>2, <1>4, <1>7, <2>1, <2>2
  <1>9. q[0] = <<>>
    BY <1>1, <1>2, <1>8
  <1>10. ASSUME NEW k \in 1 .. n + 1 PROVE q[k] = q[k - 1] \o Append(c[k].text, "NL")
    <2>1. CASE k = n + 1
      <3>1. k - 1 = n /\ n \in 0 .. n
        BY <1>1, <2>1
      <3> QED
        BY <1>1, <1>8, <2>1, <3>1 DEF more
    <2>2. CASE k # n + 1
      <3>1. k \in 1 .. n /\ k \in 0 .. n /\ k - 1 \in 0 .. n
        BY <1>1, <2>2
      <3> QED
        BY <1>1, <1>5, <1>8, <3>1
    <2> QED
      BY <2>1, <2>2
  <1>11. ASSUME NEW k \in 0 .. n + 1
         PROVE  HasNUL(q[k]) <=> \E i \in 1 .. k : HasNUL(c[i].text)
    <2>1. CASE k = n + 1
      <3>1. HasNUL(q[k]) <=> (\E i \in 1 .. n : HasNUL(b[i].text)) \/ HasNUL(node.text)
        <4>1. n \in 0 .. n
          BY <1>1
        <4> QED
          BY <1>4, <1>6, <1>8, <2>1, <4>1
      <3>2. \A i \in 1 .. n + 1 : i \in 1 .. n \/ i = n + 1
        BY <1>1
      <3>3. n + 1 \in 1 .. n + 1 /\ \A i \in 1 .. n : i \in 1 .. n + 1
        BY <1>1
      <3> QED
        BY <1>1, <2>1, <3>1, <3>2, <3>3
    <2>2. CASE k # n + 1
      <3>1. k \in 0 .. n /\ \A i \in 1 .. k : i \in 1 .. n
        BY <1>1, <2>2
      <3> QED
        BY <1>1, <1>6, <1>8, <3>1
    <2> QED
      BY <2>1, <2>2
  <1>12. Spells(c, q)
    BY <1>1, <1>8, <1>9, <1>10, <1>11 DEF Spells
  <1> QED
    BY <1>1, <1>8, <1>12 DEF more, n

\* All lines end with a newline.
LEMMA SpellEnd ==
  ASSUME NEW b \in Seq(NodeType), NEW p, Spells(b, p)
  PROVE  /\ p[Len(b)] \in Text
         /\ p[Len(b)] = <<>> \/ \E u \in Text : p[Len(b)] = Append(u, "NL")
  <1>1. Len(b) \in Nat /\ p[Len(b)] \in Text
    BY DEF Spells
  <1>2. CASE Len(b) = 0
    BY <1>1, <1>2 DEF Spells
  <1>3. CASE Len(b) # 0
    <2>1. PICK n \in 1 .. Len(b) : n = Len(b)
      BY <1>1, <1>3
    <2>2. p[n - 1] \in Text /\ b[n].text \in Text
      <3>1. n - 1 \in 0 .. Len(b) /\ b[n] \in NodeType
        BY <1>1, <2>1
      <3> QED
        BY <3>1 DEF Spells, NodeType
    <2>3. p[n] = p[n - 1] \o Append(b[n].text, "NL")
      BY DEF Spells
    <2>4. PICK u \in Text : u = p[n - 1] \o b[n].text
      BY <2>2, LineEnd
    <2>5. p[n] = Append(u, "NL")
      BY <2>2, <2>3, <2>4, LineEnd
    <2> QED
      BY <1>1, <2>1, <2>5
  <1> QED
    BY <1>1, <1>2, <1>3

\* get_stream_line () loses nothing.
LEMMA SplitLine ==
  ASSUME NEW r \in Text, r # <<>>
  PROVE  /\ NLs(r) = {} => /\ FirstLine(r) = r /\ AfterLine(r) = <<>>
                           /\ r[Len(r)] # "NL"
         /\ NLs(r) # {} => r = Append(FirstLine(r), "NL") \o AfterLine(r)
  <1>0. r \in Seq(Byte) /\ Len(r) \in Nat /\ Len(r) > 0 /\ DOMAIN r = 1 .. Len(r)
    BY DEF Text
  <1>1. ASSUME NLs(r) = {}
        PROVE  FirstLine(r) = r /\ AfterLine(r) = <<>> /\ r[Len(r)] # "NL"
    <2>1. Len(r) \in DOMAIN r
      BY <1>0
    <2> QED
      BY <1>1, <2>1 DEF FirstLine, AfterLine, NLs
  <1>2. ASSUME NLs(r) # {} PROVE r = Append(FirstLine(r), "NL") \o AfterLine(r)
    <2> DEFINE m == Min(NLs(r))
    <2>1. NLs(r) \subseteq 1 .. Len(r)
      BY <1>0 DEF NLs
    <2>2. PICK x \in NLs(r) : \A y \in NLs(r) : x =< y
      BY <1>0, <1>2, <2>1, SmallestNat
    <2>3. m \in NLs(r)
      BY <2>2 DEF Min
    <2>4. m \in 1 .. Len(r) /\ r[m] = "NL"
      BY <2>1, <2>3 DEF NLs
    <2>5. FirstLine(r) = SubSeq(r, 1, m - 1) /\ AfterLine(r) = SubSeq(r, m + 1, Len(r))
      BY <1>2 DEF FirstLine, AfterLine
    <2> HIDE DEF m
    <2>6. /\ 1 \in 1 .. Len(r) /\ m \in 1 .. Len(r) /\ m - 1 \in Int /\ m - 1 <= Len(r)
          /\ 1 \in 1 .. Len(r) + 1 /\ m \in 0 .. Len(r) /\ Len(r) \in m .. Len(r)
      BY <1>0, <2>4
    <2>7. PICK u \in Seq(Byte) : u = SubSeq(r, 1, m - 1)
      <3>1. PICK k \in Int : k = m - 1 /\ k <= Len(r)
        BY <2>6
      <3>2. SubSeq(r, 1, k) \in Seq(Byte)
        BY <1>0, <3>1, PartOf
      <3> QED
        BY <3>1, <3>2
    <2>8. SubSeq(r, 1, m) = u \o <<r[m]>>
      BY <1>0, <2>6, <2>7, SubSeqRecursiveSecond
    <2>9. SubSeq(r, 1, m) = Append(u, "NL")
      <3>1. Append(u, "NL") = u \o <<"NL">>
        BY <2>7, Bytes, AppendIsConcat
      <3> QED
        BY <2>4, <2>8, <3>1
    <2>10. SubSeq(r, 1, m) \o SubSeq(r, m + 1, Len(r)) = SubSeq(r, 1, Len(r))
      <3>1. PICK a \in 1 .. Len(r) + 1 : a = 1 /\ m \in a - 1 .. Len(r)
        BY <2>6
      <3>2. SubSeq(r, a, m) \o SubSeq(r, m + 1, Len(r)) = SubSeq(r, a, Len(r))
        BY <1>0, <2>6, <3>1, ConcatAdjacentSubSeq
      <3> QED
        BY <3>1, <3>2
    <2>11. SubSeq(r, 1, Len(r)) = r
      BY <1>0, SubSeqFull
    <2> QED
      BY <2>5, <2>7, <2>9, <2>10, <2>11, Zenon
  <1> QED
    BY <1>1, <1>2

\* Steps that make the buffer another text, or none that is known.
LEMMA RoundAway ==
  ASSUME ~ from'.known, job'.cmd # "E"
  PROVE  RoundInv'
  BY DEF RoundInv

\* Steps that keep the buffer and do not write all of it.
LEMMA RoundStays ==
  ASSUME RoundInv, UNCHANGED <<buf, st, from>>, job'.cmd \notin ReadCmds,
         ~ (job'.cmd = "w" /\ job'.all)
  PROVE  RoundInv'
  <1>1. job'.cmd # "E"
    BY DEF ReadCmds
  <1>2. ASSUME from.known PROVE Faithful(from', buf', st', job', store')
    BY <1>2 DEF RoundInv, Faithful
  <1> QED
    BY <1>1, <1>2 DEF RoundInv

LEMMA UnknownIs == ~ Unknown.known
  BY DEF Unknown

LEMMA RoundIdle ==
  ASSUME RoundInv, UNCHANGED <<buf, st, from>>, job' = Idle
  PROVE  RoundInv'
  <1>1. job'.cmd = "none"
    BY IdleIs
  <1> QED
    BY <1>1, RoundStays DEF ReadCmds

LEMMA RoundEdit ==
  ASSUME IInv, RoundInv, Edit
  PROVE  RoundInv'
  <1>1. Len(buf) \in Nat
    BY DEF IInv, TypeInv
  <1>2. ASSUME NEW after, NEW t, a_cmd(after, t) PROVE RoundInv'
    BY <1>2, UnknownIs, IdleIs, RoundAway DEF a_cmd, Ready
  <1>3. ASSUME NEW lo, NEW hi, d_cmd(lo, hi) PROVE RoundInv'
    BY <1>3, UnknownIs, IdleIs, RoundAway DEF d_cmd, Ready
  <1>4. ASSUME NEW r \in Ranges, NEW c \in {"p", "j"}, job' = LineJob(c, "null", r[1], r[2]),
               UNCHANGED <<buf, st, from>>
        PROVE  RoundInv'
    <2>1. r[1] \in Int /\ r[2] \in Int /\ c \in LineCmds
      BY <1>1, RangeIs DEF LineCmds
    <2>2. IsLineJob(LineJob(c, "null", r[1], r[2]), c, "null", r[1], r[2])
      BY <2>1, LineJobIs, NullName
    <2>3. job'.cmd = c
      BY <1>4, <2>2 DEF IsLineJob
    <2> QED
      BY <1>4, <2>3, RoundStays DEF ReadCmds
  <1> QED
    BY <1>2, <1>3, <1>4 DEF Edit, display_lines, join_lines

----------------------------------------------------------------------------
(* The text is read. *)

LEMMA RoundOpen ==
  ASSUME IInv, NEW n \in Files, E_cmd(n)
  PROVE  RoundInv'
  <1>1. /\ job' = ReadJob("E", n, store[n], 0, 0) /\ buf' = <<>> /\ st' = init_ed_state
        /\ from' = Unknown /\ store' = store /\ SetFile(Empty)
    BY DEF E_cmd, reopen_ed_buffer
  <1>2. n \in Names /\ store[n] \in Text
    BY NullName DEF IInv, TypeInv
  <1>3. /\ job'.cmd = "E" /\ job'.name = n /\ job'.at = 0 /\ job'.rest = store[n]
    <2>1. "E" \in ReadCmds /\ 0 \in Int
      BY DEF ReadCmds
    <2>2. IsReadJob(ReadJob("E", n, store[n], 0, 0), "E", n, store[n], 0)
      BY <1>2, <2>1, ReadJobIs
    <2> QED
      BY <1>1, <2>2 DEF IsReadJob
  <1>4. job'.tail /\ ~ job'.newline_missing /\ ~ job'.input_is_binary
    BY <1>1 DEF ReadJob, Idle
  <1>5. ~ st'.is_binary /\ ~ File'.spoiled
    BY <1>1 DEF init_ed_state, SetFile, Empty, File
  <1>6. AllSound(buf') /\ ~ AnyNUL(buf') /\ Len(buf') = 0
    BY <1>1 DEF AllSound, AnyNUL
  <1>7. PICK p : Spells(buf', p) /\ p[Len(buf')] = <<>>
    BY <1>1, SpellsNone
  <1>8. p[Len(buf')] \o job'.rest = store'[n]
    BY <1>1, <1>2, <1>3, <1>7, ConcatEmptySeq DEF Text
  <1>9. Reads(buf', st', job', File', store'[job'.name])
    BY <1>3, <1>4, <1>5, <1>6, <1>7, <1>8 DEF Reads
  <1> QED
    BY <1>1, <1>9, UnknownIs DEF RoundInv

\* The lines c spell out t up to and with the first line of r, which ends t.
ReadOn(c, r, t) ==
  \E q : /\ Spells(c, q)
         /\ NLs(r) = {} => Whole(t, q[Len(c)], TRUE)
         /\ NLs(r) # {} => q[Len(c)] \o AfterLine(r) = t

LEMMA LineRead ==
  ASSUME NEW b \in Seq(NodeType), NEW p, Spells(b, p), NEW node \in NodeType,
         NEW r \in Text, r # <<>>, node.text = FirstLine(r),
         NEW t \in Text, p[Len(b)] \o r = t, NEW c, c = Append(b, node)
  PROVE  ReadOn(c, r, t)
  <1>1. PICK q : Spells(c, q) /\ q[Len(c)] = p[Len(b)] \o Append(node.text, "NL")
    BY SpellsMore
  <1>2. PICK x \in Text : x = p[Len(b)]
    BY SpellEnd
  <1>3. PICK l \in Text : l = node.text
    BY DEF NodeType
  <1>4. ASSUME NLs(r) = {} PROVE Whole(t, q[Len(c)], TRUE)
    <2>1. l = r /\ r[Len(r)] # "NL"
      BY <1>3, <1>4, SplitLine
    <2>2. q[Len(c)] = Append(t, "NL")
      <3>1. x \o Append(r, "NL") = Append(x \o r, "NL")
        BY LineEnd
      <3> QED
        BY <1>1, <1>2, <1>3, <2>1, <3>1
    <2>3. Joined(t, x, r) /\ Len(x) \in Nat /\ Len(r) \in Nat /\ Len(r) > 0 /\ t \in Seq(Byte)
      <3>1. x \in Seq(Byte) /\ r \in Seq(Byte) /\ t \in Seq(Byte)
        BY DEF Text
      <3>2. Joined(x \o r, x, r)
        BY <3>1, JoinIs
      <3> QED
        BY <1>2, <3>1, <3>2
    <2>4. Len(r) \in 1 .. Len(r) /\ Len(t) = Len(x) + Len(r) /\ Len(t) # 0
      BY <2>3 DEF Joined
    <2>5. t[Len(t)] = r[Len(r)]
      BY <2>3, <2>4 DEF Joined
    <2>6. t # <<>>
      BY <2>3, <2>4
    <2> QED
      BY <2>1, <2>2, <2>5, <2>6 DEF Whole
  <1>5. ASSUME NLs(r) # {} PROVE q[Len(c)] \o AfterLine(r) = t
    <2>1. PICK a \in Text : a = AfterLine(r)
      BY FirstLines
    <2>2. PICK e \in Text : e = Append(l, "NL")
      BY <1>3, LineEnd
    <2>3. r = e \o a
      BY <1>3, <1>5, <2>1, <2>2, SplitLine
    <2>4. (x \o e) \o a = x \o (e \o a)
      BY ThreeTexts, SMTT(30)
    <2>5. q[Len(c)] = x \o e /\ x \o r = t
      BY <1>1, <1>2, <1>3, <2>2, Zenon
    <2>6. (x \o e) \o a = t
      BY <2>3, <2>4, <2>5, Zenon
    <2> QED
      BY <2>1, <2>5, <2>6, Zenon
  <1> QED
    BY <1>1, <1>4, <1>5 DEF ReadOn

\* A line that is put after the last one.
LEMMA AddedAtEnd ==
  ASSUME TypeInv, FileOK(File), ~ spoiled, NEW t \in Text,
         NEW c, c = PutAfter(buf, Len(buf), t)
  PROVE  c = Append(buf, NewNode(File, t))
  <1>1. Overwritten(buf) = buf
    BY DEF Overwritten
  <1>2. buf \in Seq(NodeType) /\ Len(buf) \in Nat
    BY DEF TypeInv
  <1>3. PICK node \in NodeType : node = NewNode(File, t)
    BY PutLineOK DEF TypeInv
  <1>4. c = SubSeq(buf, 1, Len(buf)) \o <<node>> \o SubSeq(buf, Len(buf) + 1, Len(buf))
    BY <1>1, <1>3 DEF PutAfter, Insert
  <1>5. SubSeq(buf, 1, Len(buf)) = buf /\ SubSeq(buf, Len(buf) + 1, Len(buf)) = <<>>
    BY <1>2, SubSeqFull, SubSeqEmpty
  <1>6. buf \o <<node>> = Append(buf, node) /\ Append(buf, node) \in Seq(NodeType)
    BY <1>2, AppendIsConcat, AppendProperties
  <1>7. c = Append(buf, node) \o <<>>
    BY <1>4, <1>5, <1>6, Zenon
  <1> QED
    BY <1>3, <1>6, <1>7, ConcatEmptySeq

LEMMA PutNotSpoiled ==
  ASSUME NEW f \in FileType, FileOK(f), NEW t \in Text
  PROVE  PutLine(f, t).spoiled = f.spoiled
  <1> DEFINE s == Sought(f)
             w == Written(s, t)
  <1>1. AtEnd(s, f)
    BY SoughtIs
  <1>2. Wrote(w, s, t)
    BY <1>1, WrittenIs DEF AtEnd
  <1>3. PutLine(f, t) = [w EXCEPT !.offset = @ + Len(t)]
    BY DEF PutLine
  <1> HIDE DEF s, w
  <1>4. w \in FileType /\ w.spoiled = f.spoiled
    BY <1>1, <1>2 DEF AtEnd, Wrote
  <1> QED
    BY <1>3, <1>4 DEF FileType

LEMMA AppendedNode ==
  ASSUME NEW b \in Seq(NodeType), NEW node \in NodeType, NEW c, c = Append(b, node)
  PROVE  /\ AnyNUL(c) <=> AnyNUL(b) \/ HasNUL(node.text)
         /\ AllSound(b) /\ node.sound => AllSound(c)
  <1>1. /\ Len(b) \in Nat /\ Len(c) = Len(b) + 1 /\ c[Len(b) + 1] = node
        /\ \A i \in 1 .. Len(b) : c[i] = b[i]
    BY AppendProperties
  <1>2. /\ \A i \in 1 .. Len(c) : i \in 1 .. Len(b) \/ i = Len(b) + 1
        /\ \A i \in 1 .. Len(b) : i \in 1 .. Len(c)
        /\ Len(b) + 1 \in 1 .. Len(c)
    BY <1>1
  <1> QED
    BY <1>1, <1>2 DEF AnyNUL, AllSound

LEMMA RoundReadLine ==
  ASSUME IInv, RoundInv, read_line
  PROVE  RoundInv'
  <1> DEFINE t == FirstLine(job.rest)
             node == NewNode(File, t)
  <1>1. /\ job.cmd \in ReadCmds /\ TypeInv /\ FileOK(File) /\ File \in FileType
        /\ job \in JobType /\ job.rest # <<>> /\ UNCHANGED <<st, store, from>>
        /\ buf \in Seq(NodeType) /\ store \in [Names -> Text] /\ ~ from.known
    BY DEF read_line, Reading, ReadCmds, IInv, TypeInv, RoundInv
  <1>2. job.rest \in Text /\ job.name \in Names /\ job.at \in Int
    BY <1>1 DEF JobType
  <1>3. t \in Text /\ AfterLine(job.rest) \in Text
    BY <1>2, FirstLines
  <1>4. \/ /\ SetFile(PutLine(File, t)) /\ buf' = PutAfter(buf, job.at, t)
           /\ job' = [job EXCEPT !.at = @ + 1, !.rest = AfterLine(@),
                                 !.input_is_binary = @ \/ HasNUL(t),
                                 !.newline_missing = (NLs(job.rest) = {})]
        \/ job' = Idle
    BY DEF read_line, CutShort
  <1>5. CASE job' = Idle
    BY <1>1, <1>5, IdleIs, RoundAway
  <1>6. CASE /\ SetFile(PutLine(File, t)) /\ buf' = PutAfter(buf, job.at, t)
             /\ job' = [job EXCEPT !.at = @ + 1, !.rest = AfterLine(@),
                                   !.input_is_binary = @ \/ HasNUL(t),
                                   !.newline_missing = (NLs(job.rest) = {})]
    <2> HIDE DEF t
    <2>1. PICK v \in BOOLEAN, w \in BOOLEAN, k \in Int, u \in Text :
            /\ v = (job.input_is_binary \/ HasNUL(t)) /\ w = (NLs(job.rest) = {})
            /\ k = job.at + 1 /\ u = AfterLine(job.rest)
      <3>1. PICK v \in BOOLEAN, w \in BOOLEAN :
              v = (job.input_is_binary \/ HasNUL(t)) /\ w = (NLs(job.rest) = {})
        OBVIOUS
      <3>2. job.at + 1 \in Int
        BY <1>2
      <3> QED
        BY <1>3, <3>1, <3>2, Zenon
    <2>2. job' = [job EXCEPT !.at = k, !.rest = u, !.input_is_binary = v,
                             !.newline_missing = w]
      BY <1>1, <1>6, <2>1 DEF JobType
    <2>3. /\ job'.cmd = job.cmd /\ job'.name = job.name /\ job'.at = k /\ job'.rest = u
          /\ job'.tail = job.tail /\ job'.input_is_binary = v /\ job'.newline_missing = w
      BY <1>1, <2>2 DEF JobType
    <2>4. CASE job.cmd # "E"
      BY <1>1, <2>3, <2>4, RoundAway
    <2>5. CASE job.cmd = "E"
      <3>1. Reads(buf, st, job, File, store[job.name])
        BY <2>5 DEF RoundInv
      <3>2. /\ ~ st.is_binary /\ job.tail /\ job.at = Len(buf) /\ ~ spoiled
            /\ AllSound(buf) /\ ~ job.newline_missing
            /\ job.input_is_binary <=> AnyNUL(buf)
        BY <1>1, <3>1, FileIs DEF Reads
      <3>3. PICK p : Spells(buf, p) /\ p[Len(buf)] \o job.rest = store[job.name]
        BY <3>1, <3>2 DEF Reads
      <3>4. buf' = Append(buf, node)
        BY <1>1, <1>3, <1>6, <3>2, AddedAtEnd
      <3>5. node \in NodeType /\ node.text = t /\ node.sound
        <4>1. node \in NodeType
          BY <1>1, <1>3, PutLineOK
        <4> QED
          BY <3>2, <4>1, FileIs DEF NewNode
      <3> HIDE DEF node
      <3>6. Len(buf) \in Nat /\ Len(buf') = Len(buf) + 1
        BY <1>1, <3>4, <3>5, AppendProperties
      <3>7. /\ AnyNUL(buf') <=> AnyNUL(buf) \/ HasNUL(t)
            /\ AllSound(buf')
        BY <1>1, <3>2, <3>4, <3>5, AppendedNode
      <3>8. ~ File'.spoiled
        <4>1. PutLine(File, t) \in FileType
          BY <1>1, <1>3, PutLineOK DEF PutOK
        <4>2. File' = PutLine(File, t)
          BY <1>6, <4>1, SetFileIs
        <4> QED
          BY <1>1, <1>3, <3>2, <4>2, FileIs, PutNotSpoiled
      <3>9. PICK q : /\ Spells(buf', q)
                     /\ NLs(job.rest) = {} => Whole(store[job.name], q[Len(buf')], TRUE)
                     /\ NLs(job.rest) # {} => q[Len(buf')] \o AfterLine(job.rest) = store[job.name]
        <4>1. store[job.name] \in Text /\ node.text = FirstLine(job.rest)
          BY <1>1, <1>2, <3>5 DEF t
        <4>2. PICK r \in Text, whole \in Text : r = job.rest /\ whole = store[job.name]
          BY <1>2, <4>1
        <4>3. r # <<>> /\ node.text = FirstLine(r) /\ p[Len(buf)] \o r = whole
          BY <1>1, <3>3, <4>1, <4>2
        <4>4. PICK c : c = buf'
          OBVIOUS
        <4>5. ReadOn(c, r, whole)
          <5>1. PICK b \in Seq(NodeType), nd \in NodeType : b = buf /\ nd = node
            BY <1>1, <3>5
          <5>2. /\ c = Append(b, nd) /\ Spells(b, p) /\ nd.text = FirstLine(r)
                /\ p[Len(b)] \o r = whole /\ r # <<>>
            BY <3>3, <3>4, <4>3, <4>4, <5>1
          <5> QED
            BY <5>2, LineRead
        <4> QED
          BY <4>2, <4>4, <4>5 DEF ReadOn
      <3>10. job'.newline_missing => job'.rest = <<>>
        <4>1. w => AfterLine(job.rest) = <<>>
          BY <1>1, <1>2, <2>1, SplitLine
        <4> QED
          BY <2>1, <2>3, <4>1, Zenon
      <3>11. job'.at = Len(buf')
        BY <2>1, <2>3, <3>2, <3>6
      <3>12. job'.input_is_binary <=> AnyNUL(buf')
        BY <2>1, <2>3, <3>2, <3>7
      <3>13. /\ job'.newline_missing => Whole(store'[job'.name], q[Len(buf')], TRUE)
             /\ ~ job'.newline_missing => q[Len(buf')] \o job'.rest = store'[job'.name]
        BY <1>1, <2>1, <2>3, <3>9
      <3>14. Reads(buf', st', job', File', store'[job'.name])
        BY <1>1, <2>3, <3>2, <3>7, <3>8, <3>9, <3>10, <3>11, <3>12, <3>13 DEF Reads
      <3> QED
        BY <1>1, <3>14 DEF RoundInv
    <2> QED
      BY <2>4, <2>5
  <1> QED
    BY <1>4, <1>5, <1>6

\* The flags that E leaves are right about the text it has read.
LEMMA RoundReadDone ==
  ASSUME IInv, RoundInv, read_stream_done
  PROVE  RoundInv'
  <1>1. /\ job.cmd \in ReadCmds /\ job' = Idle /\ buf' = buf /\ job.rest = <<>>
        /\ st \in FlagType /\ job \in JobType /\ store \in [Names -> Text]
        /\ buf \in Seq(NodeType)
    BY DEF read_stream_done, Reading, ReadCmds, IInv, TypeInv
  <1>2. job'.cmd = "none"
    BY <1>1, IdleIs
  <1>3. CASE job.cmd # "E"
    BY <1>2, <1>3, UnknownIs, RoundAway DEF read_stream_done
  <1>4. CASE job.cmd = "E"
    <2>1. /\ st' = read_flags /\ from' = [known |-> TRUE, text |-> store[job.name]]
      BY <1>4 DEF read_stream_done
    <2>2. Reads(buf, st, job, File, store[job.name])
      BY <1>4 DEF RoundInv
    <2>3. PICK t \in Text : t = store[job.name]
      BY <1>1 DEF JobType
    <2>4. /\ ~ st.is_binary /\ job.tail /\ AllSound(buf)
          /\ job.input_is_binary <=> AnyNUL(buf)
      BY <2>2 DEF Reads
    <2>5. PICK p : /\ Spells(buf, p)
                   /\ job.newline_missing => Whole(t, p[Len(buf)], TRUE)
                   /\ ~ job.newline_missing => p[Len(buf)] \o job.rest = t
      BY <2>2, <2>3 DEF Reads
    <2>6. /\ st'.is_binary <=> AnyNUL(buf)
          /\ st'.newline_appended <=> job.newline_missing
      <3>1. PICK x \in BOOLEAN, y \in BOOLEAN, z \in BOOLEAN :
              /\ x = (st.is_empty /\ job.size = 0) /\ y = job.newline_missing
              /\ z = job.input_is_binary
        BY <1>1 DEF JobType
      <3>2. st.is_binary = FALSE /\ st.is_binary \in BOOLEAN
        BY <1>1, <2>4 DEF FlagType
      <3>3. z = (st.is_binary \/ job.input_is_binary)
        BY <3>1, <3>2
      <3>4. st' = [st EXCEPT !.is_empty = x, !.newline_appended = y, !.is_binary = z]
        BY <1>1, <2>1, <2>4, <3>1, <3>3 DEF read_flags, FlagType
      <3>5. st'.is_binary = z /\ st'.newline_appended = y
        BY <1>1, <3>4 DEF FlagType
      <3> QED
        BY <2>4, <3>1, <3>5
    <2>7. ASSUME ~ job.newline_missing PROVE p[Len(buf)] = t
      <3>1. p[Len(buf)] \in Text
        BY <1>1, <2>5, SpellEnd
      <3>2. p[Len(buf)] \o <<>> = p[Len(buf)]
        BY <3>1, ConcatEmptySeq DEF Text
      <3> QED
        BY <1>1, <2>5, <2>7, <3>2
    <2>8. Whole(t, p[Len(buf)], st'.newline_appended)
      BY <2>5, <2>6, <2>7 DEF Whole
    <2>9. from'.text = t
      BY <2>1, <2>3
    <2>10. Faithful(from', buf', st', job', store')
      BY <1>1, <1>2, <2>4, <2>5, <2>6, <2>8, <2>9 DEF Faithful
    <2> QED
      BY <1>2, <2>10 DEF RoundInv, ReadCmds
  <1> QED
    BY <1>3, <1>4

LEMMA RoundRead ==
  ASSUME IInv, RoundInv, Read
  PROVE  RoundInv'
  <1>1. CASE \E n \in Files : E_cmd(n)
    BY <1>1, RoundOpen
  <1>2. ASSUME NEW c \in ReadCmds \ {"E"}, NEW n \in Names, NEW t \in Text,
               NEW after \in Int, NEW k, job' = ReadJob(c, n, t, after, k), from' = Unknown
        PROVE  RoundInv'
    <2>1. IsReadJob(ReadJob(c, n, t, after, k), c, n, t, after)
      BY ReadJobIs
    <2>2. job'.cmd # "E"
      BY <1>2, <2>1 DEF IsReadJob
    <2> QED
      BY <1>2, <2>2, UnknownIs, RoundAway
  <1>3. /\ \A n \in Names : store[n] \in Text
        /\ Len(buf) \in Nat /\ TypeInv
    BY DEF IInv, TypeInv
  <1>4. ASSUME NEW n \in Files, NEW after \in 0 .. Lines, r_cmd(n, after) PROVE RoundInv'
    <2>1. "r" \in ReadCmds \ {"E"} /\ n \in Names /\ store[n] \in Text /\ after \in Int
      BY <1>3, NullName DEF ReadCmds
    <2>2. PICK k : job' = ReadJob("r", n, store[n], after, k)
      BY <1>4 DEF r_cmd
    <2>3. from' = Unknown
      BY <1>4 DEF r_cmd
    <2> QED
      BY <1>2, <2>1, <2>2, <2>3
  <1>5. ASSUME NEW n \in Registers, NEW c \in {"t_from", "m_from"}, NEW after \in 0 .. Lines,
               append_from_register(c, n, after)
        PROVE  RoundInv'
    <2>1. c \in ReadCmds \ {"E"} /\ n \in Names /\ store[n] \in Text /\ after \in Int
      BY <1>3, NullName DEF ReadCmds
    <2> QED
      BY <1>2, <1>5, <2>1 DEF append_from_register
  <1>6. ASSUME NEW r \in Ranges, NEW t \in Text, filter_lines(r[1], r[2], t)
        PROVE  RoundInv'
    <2>1. "filter" \in ReadCmds \ {"E"} /\ "null" \in Names /\ r[1] - 1 \in Int
      BY <1>3, NullName, RangeIs DEF ReadCmds
    <2>2. PICK k : job' = ReadJob("filter", "null", t, r[1] - 1, k) /\ from' = Unknown
      BY <1>6 DEF filter_lines
    <2> QED
      BY <1>2, <2>1, <2>2
  <1>7. ASSUME NEW r \in Ranges, NEW t \in session.text,
               filter_lines(r[1], r[2], <<>>) \/ filter_lines(r[1], r[2], Append(t, "NL"))
        PROVE  RoundInv'
    <2>1. Append(t, "NL") \in Text
      BY <1>3, Typed, LineEnd
    <2> QED
      BY <1>6, <1>7, <2>1, EmptyText, Zenon
  <1>8. CASE filter_child
    BY <1>8, RoundAway DEF filter_child, RoundInv, ReadCmds
  <1>9. CASE read_error
    BY <1>9, IdleIs, RoundAway DEF read_error, Reading, CutShort, RoundInv, ReadCmds
  <1>10. CASE read_line \/ read_stream_done
    BY <1>10, RoundReadLine, RoundReadDone
  <1> QED
    BY <1>1, <1>4, <1>5, <1>7, <1>8, <1>9, <1>10 DEF Read

----------------------------------------------------------------------------
(* The text is written. *)

\* The first line of w.
LEMMA RoundWriteFile ==
  ASSUME IInv, RoundInv, NEW c \in {"w", "t_to", "m_to"}, NEW n \in Names,
         NEW lo \in Int, NEW hi \in Int, NEW append \in BOOLEAN,
         lo <= hi \/ Len(buf) = 0, write_file(c, n, lo, hi, append)
  PROVE  RoundInv'
  <1>1. /\ job' = [LineJob(c, n, lo, hi) EXCEPT !.all = @ /\ ~ append]
        /\ UNCHANGED <<buf, st, from>> /\ store \in [Names -> Text] /\ c \in LineCmds
        /\ ~ append => store' = [store EXCEPT ![n] = <<>>]
        /\ buf \in Seq(NodeType) /\ Len(buf) \in Nat
    BY DEF write_file, LineCmds, IInv, TypeInv
  <1>2. PICK j : j = LineJob(c, n, lo, hi)
    OBVIOUS
  <1>3. IsLineJob(j, c, n, lo, hi)
    BY <1>1, <1>2, LineJobIs
  <1>4. j.all <=> lo = 1 /\ hi = Len(buf)
    BY <1>2 DEF LineJob, Idle, Lines
  <1>5. PICK a \in BOOLEAN : a = (j.all /\ ~ append)
    OBVIOUS
  <1>6. job' = [j EXCEPT !.all = a]
    BY <1>1, <1>2, <1>3, <1>5 DEF IsLineJob, JobType
  <1>7. /\ job'.cmd = c /\ job'.name = n /\ job'.at = lo /\ job'.lo = lo /\ job'.to = hi
        /\ job'.all = a
    BY <1>3, <1>6 DEF IsLineJob, JobType
  <1>8. CASE ~ (c = "w" /\ a)
    <2>1. job'.cmd \notin ReadCmds
      BY <1>7 DEF ReadCmds
    <2> QED
      BY <1>1, <1>7, <1>8, <2>1, RoundStays
  <1>9. CASE c = "w" /\ a
    <2>1. lo = 1 /\ hi = Len(buf) /\ ~ append
      BY <1>4, <1>5, <1>9
    <2>2. store'[n] = <<>>
      BY <1>1, <2>1
    <2>3. ASSUME from.known PROVE Faithful(from', buf', st', job', store')
      <3>1. Faithful(from, buf, st, job, store)
        BY <2>3 DEF RoundInv
      <3>2. PICK p : Spells(buf, p) /\ Whole(from.text, p[Len(buf)], st.newline_appended)
        BY <3>1 DEF Faithful
      <3>3. p[0] = <<>>
        BY <3>2 DEF Spells
      <3>4. CASE lo <= hi
        <4>1. lo - 1 = 0 /\ ~ lo > hi
          BY <2>1, <3>4
        <4>2. Sofar(job', st', from.text, p, store'[job'.name])
          BY <1>7, <2>2, <3>3, <4>1 DEF Sofar
        <4> QED
          BY <1>1, <1>7, <2>1, <3>1, <3>2, <4>2 DEF Faithful
      <3>5. CASE Len(buf) = 0
        <4>1. lo > hi /\ ~ lo <= hi /\ hi = 0
          BY <2>1, <3>5
        <4>2. ~ AnyNUL(buf)
          BY <3>5 DEF AnyNUL
        <4>3. ~ st'.is_binary
          BY <1>1, <3>1, <4>2 DEF Faithful
        <4>4. Sofar(job', st', from.text, p, store'[job'.name])
          BY <1>7, <2>2, <3>3, <4>1, <4>3 DEF Sofar
        <4> QED
          BY <1>1, <1>7, <2>1, <3>1, <3>2, <4>4 DEF Faithful
      <3> QED
        BY <3>4, <3>5
    <2> QED
      BY <1>1, <1>7, <1>9, <2>3 DEF RoundInv, ReadCmds
  <1> QED
    BY <1>8, <1>9

LEMMA RoundWrite ==
  ASSUME IInv, RoundInv, Write
  PROVE  RoundInv'
  <1>1. Len(buf) \in Nat
    BY DEF IInv, TypeInv
  <1>2. ASSUME NEW r \in Ranges, NEW append \in BOOLEAN, NEW n \in Names,
               NEW c \in {"w", "t_to", "m_to"}, write_file(c, n, r[1], r[2], append)
        PROVE  RoundInv'
    <2>1. r[1] \in Int /\ r[2] \in Int /\ r[1] <= r[2]
      BY <1>1, RangeIs
    <2> QED
      BY <1>2, <2>1, RoundWriteFile
  <1>3. ASSUME NEW n \in Writable, Lines = 0, write_file("w", n, 1, 0, FALSE)
        PROVE  RoundInv'
    <2>0. 1 \in Int /\ 0 \in Int /\ FALSE \in BOOLEAN /\ "w" \in {"w", "t_to", "m_to"}
      OBVIOUS
    <2>1. PICK lo \in Int, hi \in Int, append \in BOOLEAN, c \in {"w", "t_to", "m_to"} :
            lo = 1 /\ hi = 0 /\ append = FALSE /\ c = "w"
      BY <2>0, Zenon
    <2>2. write_file(c, n, lo, hi, append) /\ n \in Names /\ Len(buf) = 0
      BY <1>3, <2>1 DEF Writable, Names, Lines
    <2> QED
      BY <2>2, RoundWriteFile
  <1>4. ASSUME NEW c, NEW n, NEW lo, NEW hi, append_to_register_unreset(c, n, lo, hi)
        PROVE  RoundInv'
    <2>1. job' = Idle /\ job'.cmd = "none"
      BY <1>4, IdleIs DEF append_to_register_unreset
    <2>2. CASE c = "m_to"
      BY <1>4, <2>1, <2>2, UnknownIs, RoundAway DEF append_to_register_unreset
    <2>3. CASE c # "m_to"
      BY <1>4, <2>1, <2>3, RoundIdle DEF append_to_register_unreset
    <2> QED
      BY <2>2, <2>3
  <1>5. ASSUME NEW a, NEW b, NEW move, NEW append, inter_register(move, a, b, append)
        PROVE  RoundInv'
    BY <1>5, RoundIdle DEF inter_register, Ready
  <1> QED
    BY <1>2, <1>3, <1>4, <1>5 DEF Write, Writable, Names

\* Between two lines of w, or two steps of get_buffer_line ().
LEMMA RoundGoesOn ==
  ASSUME RoundInv, UNCHANGED <<buf, st, store, from>>, job.cmd \in LineCmds,
         job'.cmd = job.cmd, job'.name = job.name, job'.at = job.at, job'.lo = job.lo,
         job'.to = job.to, job'.all = job.all, job.slipped => job'.slipped
  PROVE  RoundInv'
  <1>1. job.cmd \notin ReadCmds /\ job.cmd # "E"
    BY DEF LineCmds, ReadCmds
  <1>2. ASSUME from.known PROVE Faithful(from', buf', st', job', store')
    <2>1. Faithful(from, buf, st, job, store)
      BY <1>2 DEF RoundInv
    <2>2. PICK p : /\ Spells(buf, p) /\ Whole(from.text, p[Len(buf)], st.newline_appended)
                   /\ job.cmd = "w" /\ job.all /\ ~ job.slipped =>
                        Sofar(job, st, from.text, p, store[job.name])
      BY <2>1 DEF Faithful
    <2>3. /\ job'.cmd = "w" /\ job'.all /\ ~ job'.slipped =>
               Sofar(job', st', from'.text, p, store'[job'.name])
      BY <2>2 DEF Sofar
    <2> QED
      BY <2>1, <2>2, <2>3 DEF Faithful
  <1> QED
    BY <1>1, <1>2 DEF RoundInv

\* The last line that is written without the newline that was added.
LEMMA LineCutOff ==
  ASSUME NEW x \in Text, NEW l \in Text, NEW t \in Text,
         x \o Append(l, "NL") = Append(t, "NL")
  PROVE  x \o l = t
  <1>1. x \o Append(l, "NL") = Append(x \o l, "NL") /\ x \o l \in Text
    BY LineEnd
  <1>2. PICK y \in Seq(Byte) : y = x \o l
    BY <1>1 DEF Text
  <1>3. PICK e \in Byte : e = "NL"
    BY Bytes
  <1>4. t \in Seq(Byte) /\ Append(y, e) = Append(t, e)
    BY <1>1, <1>2, <1>3 DEF Text
  <1>5. y = t
    BY <1>4, AppendInjective
  <1> QED
    BY <1>2, <1>5

LEMMA RoundFetchDone ==
  ASSUME IInv, RoundInv, fetch_done
  PROVE  RoundInv'
  <1>1. /\ Fetching /\ job.step = "advance" /\ UNCHANGED <<buf, st, from>>
        /\ job' = [job EXCEPT !.step = "line", !.at = @ + 1, !.got = <<>>,
                              !.rest = IF job.cmd = "j" THEN @ \o job.got ELSE @]
        /\ job.cmd = "w" => store' = [store EXCEPT ![job.name] = @ \o Output]
    BY DEF fetch_done
  <1>2. /\ job.cmd \in LineCmds /\ job.at \in 1 .. Len(buf) /\ job.at <= job.to
        /\ Node = buf[job.at] /\ buf \in Seq(NodeType) /\ store \in [Names -> Text]
        /\ job \in JobType /\ job.at \in Int /\ job.to \in Int
        /\ job.name \in Names /\ Node.text \in Text
    BY <1>1, NodeIs, WhenFetching
  <1>3. /\ job.got = Node.text \/ slip \/ ~ Node.sound
        /\ slip => job.slipped
    BY <1>1, <1>2, FileIs DEF IInv, JobOK
  <1>4. PICK k \in Int : k = job.at + 1
    BY <1>2
  <1>5. PICK u : job' = [job EXCEPT !.step = "line", !.at = k, !.got = <<>>, !.rest = u]
    <2>1. PICK u : u = IF job.cmd = "j" THEN job.rest \o job.got ELSE job.rest
      OBVIOUS
    <2> QED
      BY <1>1, <1>2, <1>4, <2>1 DEF JobType
  <1>6. /\ job'.cmd = job.cmd /\ job'.name = job.name /\ job'.at = k /\ job'.lo = job.lo
        /\ job'.to = job.to /\ job'.all = job.all /\ job'.slipped = job.slipped
    BY <1>2, <1>5 DEF JobType
  <1>7. job'.cmd \notin ReadCmds /\ job'.cmd # "E"
    BY <1>2, <1>6 DEF LineCmds, ReadCmds
  <1>8. CASE ~ (job.cmd = "w" /\ job.all)
    BY <1>1, <1>6, <1>7, <1>8, RoundStays
  <1>9. ASSUME job.cmd = "w", job.all, from.known
        PROVE  Faithful(from', buf', st', job', store')
    <2>1. Faithful(from, buf, st, job, store)
      BY <1>9 DEF RoundInv
    <2>2. job.lo = 1 /\ job.to = Len(buf) /\ AllSound(buf) /\ from.text \in Text
      BY <1>9, <2>1 DEF Faithful
    <2>3. PICK p : /\ Spells(buf, p) /\ Whole(from.text, p[Len(buf)], st.newline_appended)
                   /\ ~ job.slipped => Sofar(job, st, from.text, p, store[job.name])
      BY <1>9, <2>1 DEF Faithful
    <2>4. ASSUME ~ job.slipped PROVE Sofar(job', st', from'.text, p, store'[job'.name])
      <3>1. job.got = Node.text
        BY <1>2, <1>3, <2>2, <2>4 DEF AllSound
      <3>2. PICK l \in Text, m \in 1 .. Len(buf) : l = Node.text /\ m = job.at
        BY <1>2
      <3>3. store[job.name] = p[m - 1]
        BY <1>2, <2>3, <2>4, <3>2 DEF Sofar
      <3>4. store'[job.name] = p[m - 1] \o Output
        BY <1>1, <1>2, <1>9, <3>3
      <3>5. PICK x \in Text : x = p[m - 1] /\ p[m] = x \o Append(l, "NL")
        <4>1. l = buf[m].text /\ buf \in Seq(NodeType) /\ Spells(buf, p)
          BY <1>2, <2>3, <3>2
        <4>2. m - 1 \in 0 .. Len(buf)
          BY <4>1
        <4>3. p[m - 1] \in Text
          BY <4>1, <4>2 DEF Spells
        <4>4. p[m] = p[m - 1] \o Append(buf[m].text, "NL")
          BY <4>1 DEF Spells
        <4> QED
          BY <4>1, <4>3, <4>4, Zenon
      <3>6. CASE m # Len(buf)
        <4>1. Output = Append(l, "NL")
          BY <2>2, <3>1, <3>2, <3>6 DEF Output
        <4>2. k - 1 = m /\ k <= job.to /\ ~ k > job.to
          BY <1>4, <2>2, <3>2, <3>6
        <4> QED
          BY <1>6, <3>4, <3>5, <4>1, <4>2 DEF Sofar
      <3>7. CASE m = Len(buf)
        <4>1. ~ k <= job.to /\ k > job.to /\ job.at = job.to
          BY <1>4, <2>2, <3>2, <3>7
        <4>2. CASE st.is_binary /\ st.newline_appended
          <5>1. Output = l
            BY <3>1, <3>2, <4>1, <4>2 DEF Output
          <5>2. Whole(from.text, p[m], TRUE)
            BY <2>3, <3>7, <4>2 DEF Whole
          <5>3. x \o Append(l, "NL") = Append(from.text, "NL")
            BY <3>5, <5>2 DEF Whole
          <5>4. x \o l = from.text
            BY <2>2, <5>3, LineCutOff
          <5>5. store'[job.name] = from.text
            BY <3>4, <3>5, <5>1, <5>4
          <5> QED
            BY <1>1, <1>6, <4>1, <4>2, <5>5 DEF Sofar
        <4>3. CASE ~ (st.is_binary /\ st.newline_appended)
          <5>1. Output = Append(l, "NL")
            BY <3>1, <3>2, <4>3 DEF Output
          <5>2. store'[job.name] = p[job.to]
            BY <2>2, <3>4, <3>5, <3>7, <5>1
          <5> QED
            BY <1>1, <1>6, <4>1, <4>3, <5>2 DEF Sofar
        <4> QED
          BY <4>2, <4>3
      <3> QED
        BY <3>6, <3>7
    <2> QED
      BY <1>1, <1>6, <2>1, <2>2, <2>3, <2>4 DEF Faithful
  <1> QED
    BY <1>1, <1>7, <1>8, <1>9 DEF RoundInv

LEMMA RoundFetch ==
  ASSUME IInv, RoundInv, Fetch
  PROVE  RoundInv'
  <1>1. job \in JobType
    BY DEF IInv, TypeInv
  <1>2. CASE fetch_reposition \/ fetch_seek
    <2>1. Fetching /\ UNCHANGED <<buf, st, store, from>>
      BY <1>2 DEF fetch_reposition, fetch_seek
    <2>2. PICK s : job' = [job EXCEPT !.step = s]
      BY <1>2 DEF fetch_reposition, fetch_seek
    <2>3. job.cmd \in LineCmds
      BY <2>1 DEF Fetching, LineCmds
    <2>4. /\ job'.cmd = job.cmd /\ job'.name = job.name /\ job'.at = job.at /\ job'.lo = job.lo
          /\ job'.to = job.to /\ job'.all = job.all /\ job'.slipped = job.slipped
      BY <1>1, <2>2 DEF JobType
    <2> QED
      BY <2>1, <2>3, <2>4, RoundGoesOn
  <1>3. CASE fetch_read
    <2>1. Fetching /\ UNCHANGED <<buf, st, store, from>>
      BY <1>3 DEF fetch_read
    <2>2. PICK v \in BOOLEAN : v = (job.slipped \/ slip)
      OBVIOUS
    <2>3. PICK g : job' = [job EXCEPT !.step = "advance", !.got = g, !.slipped = v]
      BY <1>1, <1>3, <2>2 DEF fetch_read, JobType
    <2>4. job.cmd \in LineCmds
      BY <2>1 DEF Fetching, LineCmds
    <2>5. /\ job'.cmd = job.cmd /\ job'.name = job.name /\ job'.at = job.at /\ job'.lo = job.lo
          /\ job'.to = job.to /\ job'.all = job.all /\ job'.slipped = v
      BY <1>1, <2>3 DEF JobType
    <2>6. job.slipped => job'.slipped
      BY <2>2, <2>5
    <2> QED
      BY <2>1, <2>4, <2>5, <2>6, RoundGoesOn
  <1>4. CASE fetch_done
    BY <1>4, RoundFetchDone
  <1>5. CASE fetch_error \/ put_stream_line_error \/ lines_done
    BY <1>5, RoundIdle DEF fetch_error, put_stream_line_error, lines_done
  <1>6. CASE move_done \/ join_done
    BY <1>6, UnknownIs, IdleIs, RoundAway DEF move_done, join_done
  <1> QED
    BY <1>2, <1>3, <1>4, <1>5, <1>6 DEF Fetch

LEMMA RoundNext ==
  IInv /\ RoundInv /\ [Next]_vars => RoundInv'
  <1>1. ASSUME IInv, RoundInv, interrupt PROVE RoundInv'
    BY <1>1, RoundIdle DEF interrupt
  <1>2. ASSUME IInv, RoundInv, Next PROVE RoundInv'
    BY <1>1, <1>2, RoundEdit, RoundRead, RoundWrite, RoundFetch DEF Next
  <1>3. ASSUME RoundInv, UNCHANGED vars PROVE RoundInv'
    BY <1>3 DEF vars, bf, RoundInv, File
  <1> QED
    BY <1>2, <1>3

\* A file that E has read and w writes back, with no change in between, is the
\* same, byte for byte, if it has a NUL, and at most gains a newline at its end
\* if it has none: for every text, with or without newlines, whatever else was
\* read, written or interrupted before, as long as no read of a line slipped.
THEOREM RoundTripKept == Spec => []RoundTrip
  <1>1. Init => RoundInv
    BY UnknownIs, IdleIs DEF Init, RoundInv, ReadCmds
  <1>2. ASSUME IInv, RoundInv PROVE RoundTrip
    <2> SUFFICES ASSUME job.cmd = "w", Fetched, job.all, from.known, ~ job.slipped
                 PROVE  store[job.name] =
                          IF HasNUL(from.text) THEN from.text ELSE EndNL(from.text)
      BY DEF RoundTrip
    <2>1. Faithful(from, buf, st, job, store) /\ buf \in Seq(NodeType) /\ Len(buf) \in Nat
      BY <1>2 DEF RoundInv, IInv, TypeInv
    <2>2. job.to = Len(buf) /\ job.at > job.to /\ (st.is_binary <=> AnyNUL(buf))
      BY <2>1 DEF Faithful, Fetched
    <2>3. PICK p : /\ Spells(buf, p) /\ Whole(from.text, p[Len(buf)], st.newline_appended)
                   /\ Sofar(job, st, from.text, p, store[job.name])
      BY <2>1 DEF Faithful
    <2>4. PICK t \in Text, q \in Text : t = from.text /\ q = p[Len(buf)]
      BY <2>1, <2>3, SpellEnd DEF Faithful
    <2>5. store[job.name] = IF st.is_binary /\ st.newline_appended THEN t ELSE q
      BY <2>2, <2>3, <2>4 DEF Sofar
    <2>6. HasNUL(q) <=> st.is_binary
      <3>1. Len(buf) \in 0 .. Len(buf)
        BY <2>1
      <3> QED
        BY <2>2, <2>3, <2>4, <3>1 DEF Spells, AnyNUL
    <2>7. CASE st.newline_appended
      <3>1. q = Append(t, "NL") /\ t # <<>> /\ t[Len(t)] # "NL"
        BY <2>3, <2>4, <2>7 DEF Whole
      <3>2. HasNUL(q) <=> HasNUL(t)
        BY <3>1, LineEnd
      <3>3. EndNL(t) = q
        BY <3>1 DEF EndNL, Last
      <3> QED
        BY <2>4, <2>5, <2>6, <2>7, <3>2, <3>3
    <2>8. CASE ~ st.newline_appended
      <3>1. q = t
        BY <2>3, <2>4, <2>8 DEF Whole
      <3>2. CASE t = <<>>
        BY <2>4, <2>5, <2>8, <3>1, <3>2 DEF EndNL
      <3>3. CASE t # <<>>
        <4>1. PICK u \in Text : t = Append(u, "NL")
          BY <2>1, <2>3, <2>4, <3>1, <3>3, SpellEnd
        <4>2. t[Len(t)] = "NL"
          BY <4>1, Bytes DEF Text
        <4> QED
          BY <2>4, <2>5, <2>8, <3>1, <4>2 DEF EndNL, Last
      <3> QED
        BY <3>2, <3>3
    <2> QED
      BY <2>7, <2>8
  <1> QED
    BY <1>1, <1>2, RoundNext, Always, PTL DEF Spec
=============================================================================
