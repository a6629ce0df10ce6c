----------------------------- MODULE Addresses -----------------------------
(***************************************************************************)
(* Reading the addresses of a command (parse.c), the searches among them   *)
(* (regexp.c), and the commands that use the patterns of RegexSlots.       *)
(*                                                                         *)
(* address_range () reads addresses from left to right, one step of the    *)
(* model for each.  Its local variables are the record loc; ed->state->dot *)
(* is assigned only at the end, or before a search.  Which lines match a   *)
(* pattern is left open: hits is chosen when a search begins.              *)
(*                                                                         *)
(* A g command makes each line that matches the current one and reads the  *)
(* commands of its list for it (global.c): they take the same steps, with  *)
(* queue.on.  An s command goes from line to line with the current one.    *)
(***************************************************************************)
EXTENDS RegexSlots, Integers, Sequences, FiniteSets

CONSTANTS
  MaxLines,     \* bound: lines of the buffer
  Sessions,     \* bound: the sessions looked at, each with at most so many
                \* addresses in a command, of these offsets, with these
                \* patterns, with or without s and g, and so many lines
                \* that match a g
  Offsets,      \* the offsets +n and -n typed
  Numbers,      \* the line numbers typed
  Posix         \* POSIXLY_CORRECT or TRADITIONAL: addresses do not roll over

ASSUME AddressAssumption ==
  /\ MaxLines \in Nat
  /\ Sessions \subseteq [addrs : Nat, offsets : SUBSET Offsets,
                          patterns : SUBSET Pattern, s_and_g : BOOLEAN, hits : Nat]
  /\ Offsets \subseteq Int /\ Numbers \subseteq Nat
  /\ Posix \in BOOLEAN

VARIABLES
  session,      \* which of the sessions this is
  lines,        \* ed->state->lines
  dot,          \* ed->state->dot
  region,       \* ed->exec->region
  pc,           \* where the command is
  loc,          \* the local variables of address_range ()
  find,         \* the search in progress
  sub,          \* the local variables of substitute_lines ()
  queue,        \* ed->exec->global, and what is left of the global queue
  given         \* history: dot at the start of the command, and its addresses
                \* as typed; for s and g, dot at the start of their work

work == <<sub, queue>>
adr == <<session, lines, dot, region, pc, loc, find, work, given>>
vars == <<rx, adr>>

Omitted == [base |-> "omitted", n |-> 0]
NoSearch == [from |-> 0, addr |-> 0, dir |-> "forward", hits |-> {}, off |-> 0,
             delim |-> "none"]
NoRegion == [addrs |-> 0, start |-> 0, end |-> 0]
NoLocals == [first |-> 0, second |-> 0, dot |-> 0, addrs |-> 0]
NoSub == [to |-> 0, dot |-> 0, any |-> FALSE]   \* any: nsubs > 0
NoQueue == [on |-> FALSE, lines |-> {}]
Begun(here) == [dot |-> here, list |-> <<>>]

Init ==
  /\ RegexInit
  /\ session \in Sessions
  /\ lines \in 0 .. MaxLines
  /\ dot = lines
  /\ region = NoRegion
  /\ pc = "idle"
  /\ loc = NoLocals
  /\ find = NoSearch
  /\ sub = NoSub /\ queue = NoQueue
  /\ given = Begun(dot)

INC_MOD(l, k) == IF l = k THEN 0 ELSE l + 1
DEC_MOD(l, k) == IF l = 0 THEN k ELSE l - 1

check_address_bounds(addr) == 0 <= addr /\ addr <= lines

\* An error or an interrupt: local variables are lost, and the rest of the
\* global queue.
Abandon(how) ==
  /\ pc' = how
  /\ loc' = NoLocals /\ sub' = NoSub /\ queue' = NoQueue
  /\ UNCHANGED <<session, region, find, given>>

Fail == Abandon("failed") /\ UNCHANGED <<lines, dot>>

\* A new command, typed or of the list of a g command.  After an interrupted
\* compilation nothing is said any more: the next search frees a block a
\* second time.
address_range ==
  /\ pc = "idle" /\ ~ torn
  /\ pc' = "range"
  /\ region' = NoRegion
  /\ loc' = [first |-> dot, second |-> dot, dot |-> dot, addrs |-> 0]
  /\ given' = Begun(dot)
  /\ forget_use
  /\ UNCHANGED <<session, lines, dot, find, work>>

\* Bug variant: `,' makes the address before it the current line, too.
delimiter_dot(d) ==
  CASE d = "none" -> loc
    [] d # "none" /\ loc.addrs > 0 ->
         [loc EXCEPT !.first = loc.second, !.dot = loc.second]
    [] d # "none" /\ loc.addrs = 0 ->
         [loc EXCEPT !.first = IF d = "semicolon" THEN loc.dot ELSE 1,
                     !.second = lines, !.addrs = 2]

\* What a delimiter does: `;' makes the address before it the current line.
delimiter(d) ==
  CASE d = "none" -> loc
    [] d # "none" /\ loc.addrs > 0 ->
         [loc EXCEPT !.first = loc.second,
                     !.dot = IF d = "semicolon" THEN loc.second ELSE @]
    [] d # "none" /\ loc.addrs = 0 ->
         [loc EXCEPT !.first = IF d = "semicolon" THEN loc.dot ELSE 1,
                     !.second = lines, !.addrs = 2]

\* Only the first address may come without a delimiter.
MayFollow(d) ==
  /\ pc = "range" /\ Len(given.list) < session.addrs
  /\ d = "none" <=> given.list = <<>>

Took(l, addr) == [l EXCEPT !.second = addr, !.addrs = @ + 1]
Typed(d, a) == [given EXCEPT !.list = Append(@, [delim |-> d, addr |-> a])]

\* line_address () and address_offset (), where no search is involved: an
\* address is omitted, relative to the current line, or a number.
next_address(d, a) ==
  /\ MayFollow(d)
  /\ a.base \in {"dot", "last"} => a.n \in session.offsets
  /\ LET l == delimiter(d)
     IN  loc' = CASE a.base = "omitted" -> l
                  [] a.base = "dot" -> Took(l, l.dot + a.n)
                  [] a.base = "last" -> Took(l, lines + a.n)
                  [] a.base = "number" -> Took(l, a.n)
  /\ given' = Typed(d, a)
  /\ UNCHANGED <<session, lines, dot, region, pc, find, work, rx>>

Plain == {Omitted} \cup [base : {"dot", "last"}, n : Offsets]
                   \cup [base : {"number"}, n : Numbers]

\* An address that is not one: an unset mark, a number out of range.
bad_address == pc = "range" /\ Fail /\ UNCHANGED rx

----------------------------------------------------------------------------
(* Searches. *)

\* /re/ and ?re?: the current line becomes dot before the pattern is looked
\* at, whatever becomes of the search.
line_address(d, dir, off) ==
  LET l == delimiter(d)
  IN  /\ MayFollow(d) /\ off \in {0} \cup session.offsets
      /\ IF check_address_bounds(l.dot)
           THEN /\ dot' = l.dot /\ pc' = "pattern" /\ loc' = l
                /\ find' = [from |-> l.dot, addr |-> l.dot, dir |-> dir,
                             hits |-> {}, off |-> off, delim |-> d]
                /\ UNCHANGED <<session, lines, region, work, given>>
           ELSE Fail
      /\ UNCHANGED rx

GoTo(at) ==
  pc' = at /\ UNCHANGED <<session, lines, dot, region, loc, find, work, given>>

\* Any set of lines may match.
StartSearch ==
  /\ pc' = "search"
  /\ \E hits \in SUBSET (1 .. lines) : find' = [find EXCEPT !.hits = hits]
  /\ UNCHANGED <<session, lines, dot, region, loc, work, given>>

\* A new pattern in three steps, or the previous one.
compile(p) == pc = "pattern" /\ compile_search(p) /\ GoTo("compiled")
release == pc = "compiled" /\ free_search /\ GoTo("freed")
store == pc = "freed" /\ store_search /\ StartSearch
previous == pc = "pattern" /\ previous_search /\ StartSearch

\* No previous pattern, a malformed one, or no memory for it.
no_pattern ==
  /\ pc = "pattern"
  /\ Fail /\ UNCHANGED rx

\* Bug variant: a search stops at the ends of the buffer instead of wrapping.
search_next_stuck ==
  IF find.dir = "forward" THEN Min({find.addr + 1, lines}) ELSE Max({find.addr - 1, 0})

search_next ==
  IF find.dir = "forward" THEN INC_MOD(find.addr, lines) ELSE DEC_MOD(find.addr, lines)

\* Bug variant: the search is over before the current line was looked at.
get_matching_node_address_while ==
  /\ pc = "search"
  /\ find' = [find EXCEPT !.addr = search_next]
  /\ pc' = CASE search_next = dot -> "no_match"
             [] search_next # dot /\ search_next \in find.hits -> "found"
             [] OTHER -> "search"
  /\ UNCHANGED <<session, lines, dot, region, loc, work, given, rx>>

\* One turn of the loop of get_matching_node_address (), a critical section.
get_matching_node_address ==
  /\ pc = "search"
  /\ find' = [find EXCEPT !.addr = search_next]
  /\ pc' = CASE search_next \in find.hits -> "found"
             [] search_next \notin find.hits /\ search_next # dot -> "search"
             [] OTHER -> "no_match"
  /\ UNCHANGED <<session, lines, dot, region, loc, work, given, rx>>

\* The address found, and the offset that follows it.
search_done ==
  /\ pc = "found"
  /\ loc' = Took(loc, find.addr + find.off)
  /\ given' = Typed(find.delim, [base |-> "number", n |-> find.addr + find.off])
  /\ pc' = "range"
  /\ find' = NoSearch
  /\ UNCHANGED <<session, lines, dot, region, work, rx>>

----------------------------------------------------------------------------
(* The end of address_range (). *)

\* One-line rollover.
rollover(addr) ==
  IF Posix THEN addr
  ELSE IF addr = -1 THEN lines ELSE IF addr = lines + 1 THEN 0 ELSE addr

\* Bug variant: dot is assigned before the addresses are checked.
end_of_range_early ==
  /\ pc = "range" /\ given.list # <<>>
  /\ LET first  == rollover(IF loc.addrs < 2 THEN loc.second ELSE loc.first)
         second == rollover(loc.second)
     IN  /\ dot' = loc.dot
         /\ IF /\ check_address_bounds(first) /\ check_address_bounds(second)
               /\ check_address_bounds(loc.dot)
              THEN /\ region' = [addrs |-> Min({2, loc.addrs}), start |-> first,
                                 end |-> second]
                   /\ pc' = "command"
              ELSE pc' = "failed" /\ UNCHANGED region
  /\ loc' = NoLocals
  /\ UNCHANGED <<session, lines, find, work, given, rx>>

end_of_range ==
  /\ pc = "range" /\ given.list # <<>>
  /\ LET first  == rollover(IF loc.addrs < 2 THEN loc.second ELSE loc.first)
         second == rollover(loc.second)
     IN  IF /\ check_address_bounds(first) /\ check_address_bounds(second)
            /\ check_address_bounds(loc.dot)
           THEN /\ region' = [addrs |-> Min({2, loc.addrs}), start |-> first,
                              end |-> second]
                /\ dot' = loc.dot
                /\ pc' = "command"
                /\ loc' = NoLocals
                /\ UNCHANGED <<session, lines, find, work, given, rx>>
           ELSE Fail /\ UNCHANGED rx

----------------------------------------------------------------------------
(* Commands. *)

\* The addresses of the command, or its default ones.
Start(from) == IF region.addrs = 0 THEN from ELSE region.start
End(to) == IF region.addrs = 0 THEN to ELSE region.end

is_valid_range(from, to) ==
  1 <= Start(from) /\ Start(from) <= End(to) /\ End(to) <= lines

\* A command ends; in the list of a g command another may follow, or the next
\* line that matched.  The next command sets region anew, so nobody sees that
\* it is reset here.
Finish(addr) ==
  /\ pc' \in IF queue.on THEN {"idle", "global"} ELSE {"idle"}
  /\ dot' = addr
  /\ region' = NoRegion
  /\ given' = Begun(addr)
  /\ UNCHANGED <<session, lines, loc, find>>

p_cmd ==
  /\ pc = "command" /\ is_valid_range(dot, dot)
  /\ Finish(End(dot))
  /\ UNCHANGED <<work, rx>>

\* The forms of s that find a pattern: ok tells if the rest is read without an
\* error.
s_cmd(ok) ==
  /\ pc = "command" /\ session.s_and_g /\ is_valid_range(dot, dot)
  /\ \/ \E p \in session.patterns : subst_pattern(p, ok)
     \/ subst_empty(ok)
     \/ subst_r(ok)
     \/ ok /\ subst_repeat
  /\ IF ~ ok THEN Fail
     ELSE /\ pc' = "subst"
          /\ region' = [region EXCEPT !.start = Start(dot), !.end = End(dot)]
          /\ dot' = Start(dot) - 1
          /\ sub' = [to |-> End(dot), dot |-> dot, any |-> FALSE]
          /\ given' = Begun(dot)
          /\ UNCHANGED <<session, lines, loc, find, queue>>

\* One turn of the loop of substitute_lines (): the next line becomes the
\* current one.  If it is hit it is replaced by another (one line for each).
substitute_lines(hit) ==
  /\ pc = "subst" /\ dot < sub.to
  /\ dot' = dot + 1
  /\ sub' = IF hit THEN [sub EXCEPT !.dot = dot + 1, !.any = TRUE] ELSE sub
  /\ queue' = IF hit THEN [queue EXCEPT !.lines = @ \ {dot + 1}] ELSE queue
  /\ UNCHANGED <<session, lines, region, pc, loc, find, given, rx>>

\* The end of it: without a substitution that is an error, but not in a list.
substitute_done ==
  /\ pc = "subst" /\ dot = sub.to
  /\ IF sub.any \/ queue.on
       THEN Finish(sub.dot) /\ UNCHANGED work
       ELSE Abandon("failed") /\ dot' = sub.dot /\ UNCHANGED lines
  /\ UNCHANGED rx

\* An error at a line: before it is deleted, or when the new one is not stored.
substitute_fails ==
  /\ pc = "subst" /\ region.start <= dot
  /\ \/ UNCHANGED <<lines, dot>>
     \/ lines' = lines - 1 /\ dot' = dot - 1
  /\ Abandon("stopped")
  /\ UNCHANGED rx

\* g, or v: any set of the lines addressed, by default all, is in the queue.
global_cmd ==
  /\ pc = "command" /\ session.s_and_g /\ ~ queue.on /\ is_valid_range(1, lines)
  /\ \E p \in session.patterns : compile_global(p)
  /\ \E hits \in SUBSET (Start(1) .. End(lines)) :
       /\ Cardinality(hits) <= session.hits
       /\ queue' = [on |-> TRUE, lines |-> hits]
  /\ pc' = "global" /\ region' = NoRegion /\ given' = Begun(dot)
  /\ UNCHANGED <<session, lines, dot, loc, find, sub>>

\* The next line of the queue, for which the list is begun again.
exec_global ==
  /\ pc = "global" /\ queue.lines # {}
  /\ dot' = Min(queue.lines)
  /\ queue' = [queue EXCEPT !.lines = @ \ {Min(@)}]
  /\ pc' = "idle" /\ given' = Begun(dot')
  /\ UNCHANGED <<session, lines, region, loc, find, sub, rx>>

global_done ==
  /\ pc = "global" /\ queue.lines = {}
  /\ queue' = NoQueue
  /\ pc' = "idle"
  /\ UNCHANGED <<session, lines, dot, region, loc, find, sub, given, rx>>

\* An address out of range, a pattern that does not compile, none to repeat; a
\* g in the list of a g.
command_fails == pc = "command" /\ Fail /\ UNCHANGED rx

\* main () reports the error and reads the next command.
report_error ==
  /\ pc \in {"failed", "no_match", "stopped"}
  /\ pc' = "idle"
  /\ loc' = NoLocals /\ find' = NoSearch /\ sub' = NoSub /\ queue' = NoQueue
  /\ region' = NoRegion
  /\ given' = Begun(dot)
  /\ UNCHANGED <<session, lines, dot, rx>>

\* SIGINT: everything but ed->state and the static variables is lost.  Between
\* the commands of a list, too.
interrupt ==
  /\ pc \notin {"failed", "no_match", "stopped"} /\ (pc = "idle" => queue.on)
  /\ lose_search
  /\ Abandon(IF pc = "subst" THEN "stopped" ELSE "failed") /\ UNCHANGED <<lines, dot>>

Parse ==
  \/ \E d \in {"none", "comma", "semicolon"} :
       \/ \E a \in Plain : next_address(d, a)
       \/ \E dir \in {"forward", "backward"}, off \in {0} \cup Offsets : line_address(d, dir, off)
  \/ bad_address
  \/ end_of_range

Search ==
  \/ (\E p \in session.patterns : compile(p)) \/ release \/ store
  \/ previous \/ no_pattern
  \/ get_matching_node_address \/ search_done

Command ==
  \/ p_cmd
  \/ \E ok \in BOOLEAN : s_cmd(ok)
  \/ \E hit \in BOOLEAN : substitute_lines(hit)
  \/ substitute_done \/ substitute_fails
  \/ global_cmd \/ exec_global \/ global_done
  \/ command_fails

Next == address_range \/ Parse \/ Search \/ Command \/ report_error \/ interrupt

\* The program runs; when to interrupt and what to type is up to the user.
Spec == Init /\ [][Next]_vars /\ WF_vars(Search) /\ WF_vars(report_error)

----------------------------------------------------------------------------
(* Properties.                                                             *)

\* The addresses as the manual defines them, all at once.  An address that is
\* omitted is the one before it; in the first place it is the current line, or
\* before a `,' line 1; and in the second place after another that is omitted,
\* the last line.  cur is the current line that an address is relative to.
DelimAt(list, i) == IF i \in DOMAIN list THEN list[i].delim ELSE "none"

AddressValue(list, here, last_line, i, cur, prev_val) ==
  LET a == list[i].addr
  IN  CASE a.base = "dot" -> cur + a.n
        [] a.base = "last" -> last_line + a.n
        [] a.base = "number" -> a.n
        [] a = Omitted /\ i = 1 -> IF DelimAt(list, 2) = "comma" THEN 1 ELSE here
        [] a = Omitted /\ i = 2 /\ list[1].addr = Omitted -> last_line
        [] OTHER -> prev_val

AddressMeaning(list, here, last_line, i, prev) ==
  LET cur == IF DelimAt(list, i) = "semicolon" THEN prev.val ELSE prev.cur
  IN  [cur |-> cur,
       val |-> AddressValue(list, here, last_line, i, cur, prev.val)]

ListMeaning(list, here, last_line) ==
  LET e[i \in DOMAIN list] ==
        AddressMeaning(list, here, last_line, i,
                       IF i = 1 THEN [val |-> here, cur |-> here] ELSE e[i - 1])
  IN  e

Meaning == ListMeaning(given.list, given.dot, lines)

\* What address_range () collects from left to right in four variables is what
\* the whole list means: its last two addresses, and the line that the last
\* `;' has made current.
RangeAsWritten ==
  pc = "command" =>
    LET n == Len(given.list)
    IN  /\ region.end = rollover(Meaning[n].val)
        /\ region.start = rollover(Meaning[Max({1, n - 1})].val)
        /\ dot = Meaning[n].cur

\* How many lines away a search meets line k, going round through address 0.
Distance(k) == IF find.dir = "forward" THEN (k - find.from - 1) % (lines + 1)
                                 ELSE (find.from - k - 1) % (lines + 1)

\* A search looks at every line once, the current one last: it finds the
\* nearest match, and fails only where no line matches.
SearchNearest ==
  /\ pc = "found" =>
       /\ find.addr \in find.hits
       /\ \A k \in find.hits : Distance(find.addr) <= Distance(k)
  /\ pc = "no_match" => find.hits = {}

\* Did a `;' make address i the current line?
MadeCurrent(i) ==
  (IF i < Len(given.list) THEN given.list[i + 1].delim ELSE find.delim) = "semicolon"

\* Dot never leaves the buffer.  A command that is given up while its addresses
\* are read, or before it has begun its work, leaves dot where it was or at an
\* address that a `;' made current.  In the list of a g command that is where
\* g, or the command before it in the list, has put it, not where it was
\* before the g.  An s command that is stopped at one of its lines leaves dot
\* there, or at the line before if the line was deleted and not yet replaced.
DotKept ==
  /\ dot \in 0 .. lines
  /\ pc \in {"failed", "no_match"} =>
       \/ dot = given.dot
       \/ \E i \in DOMAIN given.list : MadeCurrent(i) /\ dot = Meaning[i].val
  /\ pc = "stopped" => dot \in region.start - 1 .. region.end

\* A search ends, whichever lines match and wherever it starts.
SearchEnds == (pc = "search") ~> (pc # "search")
=============================================================================
