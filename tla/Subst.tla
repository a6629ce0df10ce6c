-------------------------------- MODULE Subst --------------------------------
(***************************************************************************)
(* The substitute command (subst.c): which matches of a line it replaces.  *)
(*                                                                         *)
(* A full command s/re/new/MODIFIERS sets the parameters s_nth, s_mod and  *)
(* the flags; a short one, as s$-3g, starts from the saved ones.  For      *)
(* every line addressed count_matches () counts the matches, then          *)
(* substitute_matching () copies the line piece by piece and replaces the  *)
(* matches selected.                                                       *)
(*                                                                         *)
(* A line is a sequence of bytes.  A multibyte character is a byte "lead"  *)
(* and one more; "nul" is the byte 0 of a binary line.  What a match is    *)
(* replaced by does not matter: out is the sequence of pieces              *)
(* <<first, last, replaced>>, as offsets in the line.                      *)
(***************************************************************************)
EXTENDS Integers, Sequences, FiniteSets, FiniteSetsExt

CONSTANTS
  Lines,      \* the lines there may be, sequences of bytes
  Regexes,    \* the patterns, of those Spans knows
  Offsets     \* the numbers given in modifiers

\* A continuation byte follows each lead byte and nothing else.
WellFormed(s) ==
  \A i \in 0 .. Len(s) :
    (i > 0 /\ s[i] = "lead") <=> (i < Len(s) /\ s[i + 1] = "cont")

Byte == {"a", "x", "nul", "lead", "cont"}

ASSUME SubstAssumption ==
  /\ Offsets \subseteq Int
  /\ Lines # {} /\ Lines \subseteq Seq(Byte)
  /\ \A s \in Lines : WellFormed(s)
  /\ Regexes # {} /\ Regexes \subseteq {"x", "x*", "^x*", "x*$"}

VARIABLES
  subst,      \* the saved parameters s_nth, s_mod, s_f
  re,         \* the saved pattern
  sel,        \* the full command that the last command stands for (ghost)
  line,       \* the line worked on
  n,          \* number of matches counted
  cur,        \* s_nth and s_mod for this line
  l,          \* the state of the loop
  out,        \* the pieces written to rb
  pc          \* "prompt", "lines", "count", "select", "match", "finish",
              \* "done", "fpe" (killed by a division by zero)

vars == <<subst, re, sel, line, n, cur, l, out, pc>>

----------------------------------------------------------------------------
(* Modifiers: `$', a number, `g', `$', a number; a number may be missing.  *)

Optional == {<<>>} \cup {<<i>> : i \in Offsets}
Modifiers == [last : BOOLEAN, nth : Optional, g : BOOLEAN,
              mlast : BOOLEAN, mod : Optional]
NoModifiers == [last |-> FALSE, nth |-> <<>>, g |-> FALSE,
                mlast |-> FALSE, mod |-> <<>>]

address_offset(o) == IF o = <<>> THEN 0 ELSE o[1]

\* `$' or a number that is not positive count from the last match.
Relative(last, o) == last \/ (o # <<>> /\ o[1] <= 0)
Flag(b, f) == IF b THEN {f} ELSE {}

substitution_modifiers(m) ==
  [nth |-> address_offset(m.nth),
   mod |-> address_offset(m.mod),
   f |-> Flag(Relative(m.last, m.nth), "SNLR")
         \cup Flag(m.g, "GSUB") \cup Flag(Relative(m.mlast, m.mod), "SMLR")]

FullForm == {m \in Modifiers : ~ m.g => ~ m.mlast /\ m.mod = <<>>}
ShortForm == {m \in FullForm : ~ m.mlast}

\* Bug variant: `s3' after `s$' still counts from the last match.
resub_nth_sticky(s, m) ==
  IF m.last \/ m.nth # <<>>
  THEN [s EXCEPT !.nth = address_offset(m.nth),
                 !.f = @ \cup Flag(Relative(m.last, m.nth), "SNLR")]
  ELSE s

resub_nth(s, m) ==
  IF m.last \/ m.nth # <<>>
  THEN [s EXCEPT !.nth = address_offset(m.nth),
                 !.f = IF m.last THEN @ \cup {"SNLR"}
                       ELSE (@ \ {"SNLR"}) \cup Flag(m.nth[1] <= 0, "SNLR")]
  ELSE s

resub_mod(s, m) ==
  IF m.mod # <<>>
  THEN [s EXCEPT !.mod = address_offset(m.mod),
                 !.f = (@ \ {"GSUB", "SMLR"}) \cup Flag(m.mod[1] <= 0, "SMLR")]
  ELSE s

toggle_g(s, m) ==
  IF ~ m.g THEN s
  ELSE [s EXCEPT !.f = IF "GSUB" \in @ THEN @ \ {"GSUB"} ELSE @ \cup {"GSUB"}]

\* `g' toggles once in a non-interactive g or v: again, when its command list
\* is executed for another line, it does not.
resubstitute(s, m, again) ==
  LET t == resub_mod(resub_nth(s, m), m)
  IN  IF again THEN t ELSE toggle_g(t, m)

\* What README.md, "Repeated Substitution Modifiers", says that a repeated
\* command is equivalent to; `g' with a number, which README.md has override
\* the modifier in force, again only takes it away.
Effect(f, m, again) ==
  [last  |-> IF m.last \/ m.nth # <<>> THEN m.last ELSE f.last,
   nth   |-> IF m.last \/ m.nth # <<>> THEN m.nth ELSE f.nth,
   g     |-> IF m.mod # <<>> THEN ~ again
             ELSE IF m.g /\ ~ again THEN ~ f.g ELSE f.g,
   mlast |-> IF m.mod # <<>> THEN FALSE ELSE f.mlast,
   mod   |-> IF m.mod # <<>> THEN m.mod ELSE f.mod]

----------------------------------------------------------------------------
(* Regular expressions (libc). *)

IsRun(s, i, j) == \A p \in i + 1 .. j : s[p] = "x"
\* All <<so, eo>> at which r matches in s.
Spans(r, s, bol) ==
  LET All == {p \in (0 .. Len(s)) \X (0 .. Len(s)) : p[1] <= p[2]}
  IN  CASE r = "x"   -> {p \in All : p[2] = p[1] + 1 /\ IsRun(s, p[1], p[2])}
        [] r = "x*"  -> {p \in All : IsRun(s, p[1], p[2])}
        [] r = "^x*" -> {p \in All : bol /\ p[1] = 0 /\ IsRun(s, p[1], p[2])}
        [] r = "x*$" -> {p \in All : p[2] = Len(s) /\ IsRun(s, p[1], p[2])}

LeftmostLongest(S) ==
  CHOOSE p \in S : \A q \in S : p[1] < q[1] \/ (p[1] = q[1] /\ p[2] >= q[2])

----------------------------------------------------------------------------
(* The loops. *)

Loop0 == [txt |-> 0, k |-> 0, changed |-> 0, matched_prev |-> FALSE,
          nil_next |-> TRUE, notbol |-> FALSE]
Rest == SubSeq(line, l.txt + 1, Len(line))
Found == Spans(re, Rest, ~ l.notbol)
Match == LeftmostLongest(Found)

\* utf8_char_size ()
CharSize == IF Rest[1] = "lead" THEN 2 ELSE 1

Init ==
  /\ subst = substitution_modifiers(NoModifiers) /\ re = "none"
  /\ sel = NoModifiers
  /\ line = <<>> /\ n = 0 /\ l = Loop0 /\ out = <<>>
  /\ cur = [nth |-> 0, mod |-> 0] /\ pc = "prompt"

\* A full command.
s_cmd(r, m) ==
  /\ pc = "prompt"
  /\ subst' = substitution_modifiers(m) /\ re' = r /\ sel' = m
  /\ pc' = "lines"
  /\ UNCHANGED <<line, n, cur, l, out>>

\* A short one repeats the last.  In the list of a g or v command it may come
\* again after any other s commands of the list, so with any saved parameters.
s_cmd_short(m, again) ==
  /\ pc = "prompt" /\ re # "none"
  /\ subst' = resubstitute(subst, m, again) /\ sel' = Effect(sel, m, again)
  /\ pc' = "lines"
  /\ UNCHANGED <<re, line, n, cur, l, out>>

\* substitute_lines (): the next line.
next_line(s) ==
  /\ pc = "lines"
  /\ line' = s /\ n' = 0 /\ l' = Loop0 /\ out' = <<>>
  /\ pc' = "count"
  /\ UNCHANGED <<subst, re, sel, cur>>

\* The state of a loop after a match whose last offset is off.
Advance(off, matched) ==
  [l EXCEPT !.txt = @ + off, !.matched_prev = matched,
            !.nil_next = (Match[2] = 0), !.notbol = TRUE]

\* An empty match counts if the previous one was empty too.
Counts == Match[2] # 0 \/ l.nil_next
InfiniteLoop == l.matched_prev /\ Match[2] = 0

\* `! *txt': the NUL byte after the line, or one in it.
AtEnd == Append(Rest, "nul")[1] = "nul"

\* Bug variant: an empty match next to a match counts.
count_matches_adjacent ==
  /\ pc = "count" /\ Found # {}
  /\ IF AtEnd /\ InfiniteLoop
     THEN pc' = "select" /\ UNCHANGED <<l, n>>
     ELSE /\ l' = IF InfiniteLoop THEN Advance(1, FALSE) ELSE Advance(Match[2], TRUE)
          /\ n' = n + 1
          /\ UNCHANGED pc
  /\ UNCHANGED <<subst, re, sel, line, cur, out>>

\* An iteration of the loop of count_matches ().
count_matches ==
  /\ pc = "count" /\ Found # {}
  /\ IF AtEnd /\ Match[2] = 0 /\ (InfiniteLoop \/ ~ Counts)
     THEN pc' = "select" /\ UNCHANGED <<l, n>>
     ELSE /\ IF ~ InfiniteLoop /\ Counts
             THEN l' = Advance(Match[2], TRUE) /\ n' = n + 1
             ELSE l' = Advance(1, FALSE) /\ n' = n
          /\ UNCHANGED pc
  /\ UNCHANGED <<subst, re, sel, line, cur, out>>

count_done ==
  /\ pc = "count" /\ Found = {}
  /\ pc' = "select"
  /\ UNCHANGED <<subst, re, sel, line, n, cur, l, out>>

Abs(i) == IF i < 0 THEN - i ELSE i

\* Match and frequency for this line; nothing to do if there are too few.
select ==
  /\ pc = "select"
  /\ IF subst.f \cap {"SNLR", "SMLR"} # {} /\ n <= Abs(subst.nth)
     THEN pc' = "done" /\ UNCHANGED <<cur, l>>
     ELSE /\ cur' = [nth |-> IF "SNLR" \in subst.f THEN subst.nth + n
                             ELSE IF subst.nth = 0 THEN 1 ELSE subst.nth,
                     mod |-> IF "SMLR" \in subst.f THEN subst.mod + n
                             ELSE IF subst.mod = 0 THEN 1 ELSE subst.mod]
          /\ l' = Loop0
          /\ pc' = "match"
  /\ UNCHANGED <<subst, re, sel, line, n, out>>

\* The remainder is taken of unsigned numbers: a negative modulus is a huge one.
Selected(k) ==
  /\ k >= cur.nth
  /\ IF cur.mod > 0 THEN (k - cur.nth) % cur.mod = 0 ELSE k = cur.nth

Piece(from, to, replaced) ==
  IF from = to /\ ~ replaced THEN <<>>
  ELSE << <<l.txt + from, l.txt + to, replaced>> >>

Goes == l.changed = 0 \/ "GSUB" \in subst.f

\* A match is copied up to its end, an empty one with the character after it.
Copy(off, k) ==
  /\ l' = [Advance(off, FALSE) EXCEPT !.k = k]
  /\ out' = out \o Piece(0, off, FALSE)
  /\ UNCHANGED pc

Replace(k) ==
  /\ l' = [Advance(Match[2], TRUE) EXCEPT !.k = k, !.changed = @ + 1]
  /\ out' = out \o Piece(0, Match[1], FALSE) \o Piece(Match[1], Match[2], TRUE)
  /\ UNCHANGED pc

\* The match is not to be replaced.
Skip(k) ==
  IF AtEnd /\ Match[2] = 0
  THEN pc' = "finish" /\ l' = [l EXCEPT !.k = k] /\ UNCHANGED out
  ELSE Copy(IF Match[2] = 0 THEN CharSize ELSE Match[2], k)

\* Bug variant: the empty match after a replacement is not stepped over.
substitute_matching_stays ==
  /\ pc = "match" /\ Goes /\ Found # {} /\ cur.mod # 0
  /\ \/ InfiniteLoop /\ UNCHANGED <<l, out, pc>>
     \/ ~ InfiniteLoop /\ ~ Counts /\ Skip(l.k)
     \/ /\ ~ InfiniteLoop /\ Counts
        /\ IF Selected(l.k + 1) THEN Replace(l.k + 1) ELSE Skip(l.k + 1)
  /\ UNCHANGED <<subst, re, sel, line, n, cur>>

\* An iteration of the loop of substitute_matching ().
substitute_matching ==
  /\ pc = "match" /\ Goes /\ Found # {}
  /\ \/ InfiniteLoop /\ AtEnd /\ pc' = "finish" /\ UNCHANGED <<l, out>>
     \/ InfiniteLoop /\ ~ AtEnd /\ Copy(CharSize, l.k)
     \/ ~ InfiniteLoop /\ ~ Counts /\ Skip(l.k)
     \/ /\ ~ InfiniteLoop /\ Counts
        /\ \/ /\ l.k + 1 >= cur.nth /\ cur.mod = 0
              /\ pc' = "fpe" /\ UNCHANGED <<l, out>>
           \/ cur.mod # 0 /\ Selected(l.k + 1) /\ Replace(l.k + 1)
           \/ l.k + 1 < cur.nth /\ Skip(l.k + 1)
           \/ /\ l.k + 1 >= cur.nth /\ cur.mod # 0 /\ ~ Selected(l.k + 1)
              /\ Skip(l.k + 1)
  /\ UNCHANGED <<subst, re, sel, line, n, cur>>

match_done ==
  /\ pc = "match" /\ (~ Goes \/ Found = {})
  /\ pc' = "finish"
  /\ UNCHANGED <<subst, re, sel, line, n, cur, l, out>>

\* Bug variant: the text after the last match is lost.
finish_short ==
  /\ pc = "finish"
  /\ out' = IF l.changed = 0 THEN <<>> ELSE out
  /\ pc' = "done"
  /\ UNCHANGED <<subst, re, sel, line, n, cur, l>>

\* The rest of the line is copied; without a change nothing is.
finish ==
  /\ pc = "finish"
  /\ out' = IF l.changed = 0 THEN <<>> ELSE out \o Piece(0, Len(Rest), FALSE)
  /\ pc' = "done"
  /\ UNCHANGED <<subst, re, sel, line, n, cur, l>>

\* The next line of the range, or the next command.
line_done ==
  /\ pc = "done"
  /\ line' = <<>> /\ n' = 0 /\ l' = Loop0 /\ out' = <<>>
  /\ cur' = [nth |-> 0, mod |-> 0]
  /\ pc' \in {"lines", "prompt"}
  /\ UNCHANGED <<subst, re, sel>>

Loop ==
  \/ count_matches \/ count_done \/ select
  \/ substitute_matching \/ match_done \/ finish

Next ==
  \/ \E r \in Regexes, m \in FullForm : s_cmd(r, m)
  \/ \E m \in ShortForm, again \in BOOLEAN : s_cmd_short(m, again)
  \/ \E s \in Lines : next_line(s)
  \/ Loop
  \/ line_done

\* ed waits for no one while it works on a line.
Spec == Init /\ [][Next]_vars /\ WF_vars(Loop)

----------------------------------------------------------------------------
(* Properties. *)

\* Both loops take a NUL byte where the pattern matches the empty string for
\* the end of the line: they see the line up to the first such byte.
Stops(r, s) ==
  {p \in 0 .. Len(s) - 1 : s[p + 1] = "nul" /\ <<p, p>> \in Spans(r, s, TRUE)}
Seen(r, s) ==
  IF Stops(r, s) = {} THEN s ELSE SubSeq(s, 1, Min(Stops(r, s)))

\* The matches of that part as POSIX defines them: from left to right, each the
\* longest, none empty right after another, and none inside a character.
Inside(s, i) == i < Len(s) /\ s[i + 1] = "cont"
Wholes(r, s) ==
  {q \in Spans(r, s, TRUE) : ~ Inside(s, q[1]) /\ ~ Inside(s, q[2])}
Whole == Wholes(re, Seen(re, line))
After[p \in 0 .. Len(Seen(re, line))] ==
  LET S == {q \in Whole : q[1] >= p /\ q # <<p, p>>}
      q == LeftmostLongest(S)
  IN  IF S = {} THEN <<>> ELSE <<q>> \o After[q[2]]
Matches ==
  LET q == LeftmostLongest(Whole)
  IN  IF Whole = {} THEN <<>> ELSE <<q>> \o After[q[2]]

HasWide(s) == \E i \in 1 .. Len(s) : s[i] = "lead"
Multibyte == HasWide(Seen(re, line))

\* count_matches () counts the matches of the line (up to a NUL byte at which
\* the pattern matches the empty string), empty ones too, though it restarts
\* regexec () in the middle of the line.  Where there are multibyte characters,
\* as it steps by bytes, it may count more, never fewer.
CountExact ==
  pc = "select" => IF Multibyte THEN n >= Len(Matches) ELSE n = Len(Matches)

\* Which matches the user asked for.
First(N) == IF Relative(sel.last, sel.nth) THEN N + address_offset(sel.nth)
            ELSE IF sel.nth = <<>> THEN 1 ELSE sel.nth[1]
Every(N) == IF Relative(sel.mlast, sel.mod) THEN N + address_offset(sel.mod)
            ELSE IF sel.mod = <<>> THEN 1 ELSE sel.mod[1]
Chosen(N) ==
  {k \in 1 .. N : First(N) > 0 /\
    IF sel.g THEN k >= First(N) /\ (k - First(N)) % Every(N) = 0
    ELSE k = First(N)}

\* substitute_matching () returns early if the frequency is relative to the
\* last match and the match asked for is the last one or beyond.
TooFew(N) == Relative(sel.mlast, sel.mod) /\ N <= Abs(address_offset(sel.nth))

\* After any sequence of full and repeated commands exactly the matches chosen
\* are replaced, of the same part of the line: those of the command that the
\* last one stands for (Effect).  Only matches counted from the last one depend
\* on count_matches (), and on multibyte lines those may be the wrong ones.
FromLast == Relative(sel.last, sel.nth) \/ Relative(sel.mlast, sel.mod)
ReplacesChosen ==
  pc = "done" /\ ~ (Multibyte /\ FromLast) /\ ~ TooFew(Len(Matches))
    /\ (sel.g => Every(Len(Matches)) > 0) =>
    {<<q[1], q[2]>> : q \in {out[i] : i \in {i \in DOMAIN out : out[i][3]}}}
      = {Matches[k] : k \in Chosen(Len(Matches))}

\* Nothing of the line, NUL bytes and what follows them included, is lost,
\* doubled or moved: the pieces written to rb are adjacent and cover the line,
\* and no multibyte character is cut in two.
KeepsText ==
  pc = "done" /\ out # <<>> =>
    /\ out[1][1] = 0 /\ out[Len(out)][2] = Len(line)
    /\ \A i \in 1 .. Len(out) - 1 :
         out[i][2] = out[i + 1][1] /\ ~ Inside(line, out[i][2])

\* The loops end, on patterns that match the empty string too ("Infinite
\* loop!!" in the code).
LoopsEnd == pc \in {"count", "select", "match", "finish"} ~> pc \in {"done", "fpe"}

\* The frequency is never zero when the remainder by it is taken.
FrequencyDefined == pc # "fpe"
=============================================================================
