----------------------------- MODULE LineDeque -----------------------------
(***************************************************************************)
(* The in-core buffer of ed and the routines that change it, at the level  *)
(* of their pointers.  The lines of the buffer are the nodes of a circular *)
(* deque around line_head; deleted lines stay allocated, out of the deque, *)
(* until the undo queue that refers to them is cleared.                    *)
(*                                                                         *)
(* Every routine is an operator from a buffer record e to the record the   *)
(* C function leaves behind:                                               *)
(*   forw, back   q_forw and q_back of every node                          *)
(*   heap         the nodes malloc () has given out and free () not back   *)
(*   st, saved    ed->state[0] and ed->state[1], the state `u' goes back to *)
(*   lp, n_prev   the static cache of get_line_node ()                     *)
(*   undo         the undo queue, oldest entry first                       *)
(*   mark, marks  ed->core->mark[] and the number of marks set             *)
(*   gb           the global command buffer                                *)
(*   global       ed->exec->global                                         *)
(* The contents of a line is its node: what a line says never matters here.*)
(***************************************************************************)
EXTENDS Integers, Sequences, FiniteSets, SequencesExt

CONSTANTS
  MaxNode,      \* the heap: malloc () fails when this many nodes are in use
  NMarks        \* MARK_MAX

ASSUME DequeAssumption == MaxNode \in Nat \ {0} /\ NMarks \in Nat

line_head == 0                  \* ed->core->line_head
Nil  == -1                 \* NULL
Node == 1 .. MaxNode
Mark == 1 .. NMarks

----------------------------------------------------------------------------
(* Walking the deque. *)

\* The node k links away from n along f (q_forw or q_back).
Follow(f, n, k) ==
  LET w[i \in 0 .. k] == IF i = 0 THEN n ELSE f[w[i - 1]] IN w[k]

\* The nodes a loop `for (lp = n; lp != stop; lp = lp->q_forw)' visits.  Only
\* a broken deque makes the loop miss its stop; it is cut off then.
Chain(f, n, stop) ==
  LET walk[i \in 0 .. MaxNode + 1] ==
        IF i = 0 THEN <<>>
        ELSE LET s == walk[i - 1]
                 lp == IF s = <<>> THEN n ELSE f[Last(s)]
             IN  IF lp = stop THEN s ELSE Append(s, lp)
  IN  walk[MaxNode + 1]

\* The lines from the first to the last.
TextOf(f) == Chain(f, f[line_head], line_head)

INC_MOD(l, k) == IF l = k THEN 0 ELSE l + 1

LINK_NODES(e, prev, next) ==
  [e EXCEPT !.forw[prev] = next, !.back[next] = prev]

\* Bug variant: the new node is not made the predecessor of its successor.
APPEND_NODE_half(e, node, prev) ==
  LINK_NODES([e EXCEPT !.forw[node] = e.forw[prev]], prev, node)

APPEND_NODE(e, node, prev) ==
  LINK_NODES(LINK_NODES(e, node, e.forw[prev]), prev, node)

\* get_line_node () leaves the node it returns in lp.  It starts from the
\* cached node, the first or the last line, whichever it expects nearest.
\* Beyond the last line it returns the last one; before line_head, line_head.
get_line_node(e, n) ==
  LET mid == (e.n_prev + e.st.lines) \div 2
      tail == e.back[line_head]
  IN  CASE n > e.n_prev /\ n <= mid ->
             [e EXCEPT !.lp = Follow(e.forw, e.lp, n - e.n_prev), !.n_prev = n]
        [] n > e.n_prev /\ n > mid /\ n <= e.st.lines ->
             [e EXCEPT !.lp = Follow(e.back, tail, e.st.lines - n),
                       !.n_prev = n]
        [] n > e.n_prev /\ n > mid /\ n > e.st.lines ->
             [e EXCEPT !.lp = tail, !.n_prev = e.st.lines]
        [] n <= e.n_prev /\ n >= e.n_prev \div 2 ->
             [e EXCEPT !.lp = Follow(e.back, e.lp, e.n_prev - n), !.n_prev = n]
        [] n <= e.n_prev /\ n < e.n_prev \div 2 ->
             [e EXCEPT !.lp = IF n > 0 THEN Follow(e.forw, line_head, n) ELSE line_head,
                       !.n_prev = IF n > 0 THEN n ELSE 0]

\* ERR, or the address of node n.  The empty buffer has every node at 0.
ERR == -1
get_line_node_address(e, n) ==
  LET text == TextOf(e.forw)
  IN  IF n = line_head \/ text = <<>> THEN 0
      ELSE IF n \in ToSet(text) THEN CHOOSE i \in DOMAIN text : text[i] = n
      ELSE ERR

----------------------------------------------------------------------------
(* Adding lines (buffer.c). *)

malloc_fails(e) == e.heap = Node

\* The memory allocator, assumed to hand out the lowest free node: an address
\* just freed is reused at once, the case a dangling reference suffers from.
malloc(e) == Min(Node \ e.heap)

link_new_node(e, lp) ==
  [APPEND_NODE(e, lp, e.lp) EXCEPT !.heap = @ \cup {lp}, !.st.lines = @ + 1]

append_line_node(e, addr) == link_new_node(get_line_node(e, addr), malloc(e))

\* The text itself goes to the end of the buffer file, not modelled here.
put_buffer_line(e) == [append_line_node(e, e.st.dot) EXCEPT !.st.dot = @ + 1]

----------------------------------------------------------------------------
(* Marks (cmds.c). *)

mark_line_node(e, m, n) ==
  [e EXCEPT !.mark[m] = n, !.marks = IF e.mark[m] = Nil THEN @ + 1 ELSE @]

transfer_marks(e, mp, lp) ==
  [e EXCEPT !.mark = [m \in Mark |-> IF e.mark[m] = lp THEN mp ELSE e.mark[m]]]

\* Bug variant: the mark of a line that is about to be freed stays.
unmark_line_node_not(e, lp) == e

\* The loop stops as soon as the count of marks says that none is left.
unmark_line_node(e, lp) ==
  LET hits == {m \in Mark : e.mark[m] = lp}
      seen == {m \in hits : Cardinality({k \in hits : k < m}) < e.marks}
  IN  [e EXCEPT !.mark = [m \in Mark |-> IF m \in seen THEN Nil ELSE e.mark[m]],
                !.marks = @ - Cardinality(seen)]

----------------------------------------------------------------------------
(* The undo queue (undo.c). *)

push_undo_node(e, type, h) ==
  [e EXCEPT !.undo = Append(@, [type |-> type, h |-> h, t |-> e.lp])]

undo_node_from(e, type, to) == push_undo_node(get_line_node(e, to), type, e.lp)

append_undo_node(e, type, from, to) ==
  undo_node_from(get_line_node(e, from), type, to)

\* up is the index of the entry that collects the lines added by the command
\* in progress, 0 for NULL: the entry appended last then becomes that entry.
APPEND_UNDO_NODE(e, lp, up, addr) ==
  IF up # 0 THEN [e EXCEPT !.undo[up].t = lp]
            ELSE append_undo_node(e, "UADD", addr, addr)

\* What a freed node holds does not matter until malloc () returns it again,
\* and append_line_node () then sets both links.
free(e, n) == [e EXCEPT !.heap = @ \ {n}, !.forw[n] = n, !.back[n] = n]

\* Bug variant: the lines of the queue are not released.
reset_undo_queue_leak(e) == [e EXCEPT !.undo = <<>>, !.saved = e.st]

Release(e, n) == free(unmark_line_node(e, n), n)

\* The loop over the lines of a range.
ReleaseAll(e, nodes) ==
  LET after[i \in 0 .. Len(nodes)] ==
        IF i = 0 THEN e ELSE Release(after[i - 1], nodes[i])
  IN  after[Len(nodes)]

ClearEntry(e, up) ==
  IF up.type = "UDEL" THEN ReleaseAll(e, Chain(e.forw, up.h, e.forw[up.t])) ELSE e

\* Clear the queue, and free the lines only it still refers to.
reset_undo_queue(e) ==
  LET after[i \in 0 .. Len(e.undo)] ==
        IF i = 0 THEN e ELSE ClearEntry(after[i - 1], e.undo[i])
  IN  [after[Len(e.undo)] EXCEPT !.undo = <<>>, !.saved = e.st]

Toggle(type) ==
  CASE type = "UADD" -> "UDEL" [] type = "UDEL" -> "UADD"
    [] type = "UMOV" -> "URET" [] type = "URET" -> "UMOV"

\* What undo_last_command () does for entry j, the newest one not yet undone.
\* A move is a pair of entries, (before, after) of the source and of the
\* destination: the links are changed at the second of the pair, and only the
\* first, which the loop steps over, has its type toggled.
undo_entry(j, e) ==
  LET up   == e.undo[j]
      prev == e.undo[j - 1]
      done == [e EXCEPT !.undo[j].type = Toggle(@)]
  IN  IF e.second THEN [done EXCEPT !.second = FALSE]
      ELSE CASE up.type = "UADD" ->
                  LINK_NODES(done, e.back[up.h], e.forw[up.t])
             [] up.type = "UDEL" ->
                  LINK_NODES(LINK_NODES(done, e.back[up.h], up.h),
                             up.t, e.forw[up.t])
             [] up.type \in {"UMOV", "URET"} ->
                  LET e1 == LINK_NODES(e, prev.h, e.forw[up.h])
                      e2 == LINK_NODES(e1, e1.back[up.t], prev.t)
                  IN  [LINK_NODES(e2, up.h, up.t) EXCEPT !.second = TRUE]

\* The links and the queue after every entry has been undone, newest first.
undo_links(e) ==
  LET k == Len(e.undo)
      after[i \in 0 .. k] ==
        IF i = 0
        THEN [forw |-> e.forw, back |-> e.back, undo |-> e.undo, second |-> FALSE]
        ELSE undo_entry(k + 1 - i, after[i - 1])
  IN  after[k]

----------------------------------------------------------------------------
(* The global command buffer (global.c). *)

EmptyGlobalBuffer == [lbuf |-> <<>>, ptr |-> 1, index |-> 0]

reset_global_buffer(e) == [e EXCEPT !.gb = EmptyGlobalBuffer]

\* Bug variant: the search stops one entry early.
clear_global_line_short(gb, lp) ==
  LET last == Len(gb.lbuf)
      At(i) == ((gb.index + i) % last) + 1
      hits == {i \in 0 .. last - 2 : gb.lbuf[At(i)] = lp}
  IN  IF hits = {} THEN gb
      ELSE [gb EXCEPT !.lbuf[At(Min(hits))] = Nil,
                      !.index = (gb.index + Min(hits) + 1) % last]

\* Clear one line: a circular search that starts where the last one stopped.
clear_global_line(gb, lp) ==
  LET last == Len(gb.lbuf)
      At(i) == ((gb.index + i) % last) + 1
      hits == {i \in 0 .. last - 1 : gb.lbuf[At(i)] = lp}
  IN  IF hits = {} THEN gb
      ELSE [gb EXCEPT !.lbuf[At(Min(hits))] = Nil,
                      !.index = (gb.index + Min(hits) + 1) % last]

clear_global_lines(gb, nodes) ==
  LET after[i \in 0 .. Len(nodes)] ==
        IF i = 0 THEN gb ELSE clear_global_line(after[i - 1], nodes[i])
  IN  after[Len(nodes)]

\* The first entry from ptr on that has not been cleared, 0 if there is none.
next_global_index(gb) ==
  LET left == {i \in gb.ptr .. Len(gb.lbuf) : gb.lbuf[i] # Nil}
  IN  IF left = {} THEN 0 ELSE Min(left)

----------------------------------------------------------------------------
(* Undo, delete, join and move. *)

\* The links and the queue of u, the states exchanged.
exchange(e, u, undo) ==
  [e EXCEPT !.forw = u.forw, !.back = u.back, !.undo = undo,
            !.gb = IF e.global THEN EmptyGlobalBuffer ELSE @,
            !.st = e.saved, !.saved = e.st]

undo_with(e, u) == exchange(e, u, Reverse(u.undo))
undo_as_is(e, u) == exchange(e, u, u.undo)

\* Bug variants: the queue is not reversed, so that the next `u' redoes the
\* changes in the wrong order; the cached position is left where it was.
undo_last_command_no_reverse(e) ==
  undo_as_is(get_line_node(e, 0), undo_links(e))
undo_last_command_keep_cache(e) == undo_with(e, undo_links(e))

\* undo_last_command () when state[1] says that there is something to undo.
undo_last_command(e) == undo_with(get_line_node(e, 0), undo_links(e))

\* Take the lines between the nodes b = e.lp and a out of the deque.
unlink_lines(e, a, from, to) ==
  [LINK_NODES(e, e.lp, a) EXCEPT
     !.gb = IF e.global THEN clear_global_lines(@, Chain(e.forw, e.forw[e.lp], a))
                        ELSE @,
     !.st.lines = @ - (to - from + 1),
     !.st.dot = from - 1]

unlink_before(e, from, to) ==
  unlink_lines(get_line_node(e, from - 1), e.lp, from, to)

delete_lines(e, from, to) ==
  unlink_before(get_line_node(append_undo_node(e, "UDEL", from, to),
                              INC_MOD(to, e.st.lines)), from, to)

\* When malloc () fails for the joined line the lines are already deleted.
undo_added(e) == append_undo_node(e, "UADD", e.st.dot, e.st.dot)
put_joined(e) == IF malloc_fails(e) THEN e ELSE undo_added(put_buffer_line(e))

join_lines(e, from, to) ==
  put_joined(delete_lines(get_line_node(e, from), from, to))

\* move_lines (): the lines after b1 and before a1 go between b2 and a2.
relink_lines(e, b1, a1, b2) ==
  LINK_NODES(LINK_NODES(LINK_NODES(e, b2, e.forw[b1]), e.back[a1], e.forw[b2]),
             b1, a1)

\* A moved line is not visited any more by the global command, nor is one
\* that stayed in place.
moved(e, b2, a2, dot) ==
  [e EXCEPT
     !.st.dot = dot,
     !.gb = IF e.global THEN clear_global_lines(@, Chain(e.forw, e.forw[b2], a2))
                        ELSE @]

\* "This get_line_node last!": of b1 and b2, the one nearer to the head.
move_up(e, b1, a1, dot) ==
  moved(relink_lines(e, b1, a1, e.lp), e.lp, e.forw[e.lp], dot)
move_down(e, b2, a1, dot) ==
  moved(relink_lines(e, e.lp, a1, b2), b2, e.forw[b2], dot)
move_up_to(e, a1, after, dot) == move_up(get_line_node(e, after), e.lp, a1, dot)
move_down_from(e, a1, prec, dot) ==
  move_down(get_line_node(e, prec), e.lp, a1, dot)
stay_between(e, a2, dot) == moved(e, e.lp, a2, dot)

move_between(e, from, to, after) ==
  IF after < from
  THEN move_up_to(get_line_node(e, from - 1), e.lp, after, after + to - from + 1)
  ELSE move_down_from(get_line_node(e, after), e.lp, from - 1, after)

\* A move is undone by a pair of entries: where the lines were, and where they
\* went to.
undo_moved(e, from, to, after) ==
  append_undo_node(
    append_undo_node(e, "UMOV", from - 1, INC_MOD(to, e.st.lines)),
    "UMOV", after, INC_MOD(after, e.st.lines))

move_stays(e, prec, to) == stay_between(get_line_node(e, prec), e.lp, to)

move_lines(e, from, to, after) ==
  IF after = from - 1 \/ after = to
  THEN move_stays(get_line_node(e, INC_MOD(to, e.st.lines)), from - 1, to)
  ELSE move_between(get_line_node(undo_moved(e, from, to, after),
                                  INC_MOD(to, e.st.lines)), from, to, after)
============================================================================
