----------------------------- MODULE LineBuffer -----------------------------
(***************************************************************************)
(* The commands that change the buffer (exec.c, cmds.c, io.c, subst.c,     *)
(* global.c) over the routines of LineDeque.  A command that adds lines    *)
(* does so one critical section at a time: between two of them SIGINT, an  *)
(* error of a read or the end of memory may end the command, with what it  *)
(* has done so far in place.  A command of a single critical section is a  *)
(* single step.                                                            *)
(***************************************************************************)
EXTENDS LineDeque

CONSTANTS
  Sessions,  \* the sets of commands of which a user gives one
  AbortIn,   \* the commands that may be cut short by SIGINT or by an error
  MaxUndo,   \* bound: a command list ends once the undo queue is this long
  MaxSubst   \* bound: lines that a substitution makes of one line

AllCmds == {"a", "i", "c", "d", "j", "k", "m", "t", "s", "u", "r", "E", "!",
            "g", ";"}

ASSUME BufferAssumption ==
  /\ Sessions \subseteq SUBSET AllCmds /\ AbortIn \subseteq AllCmds
  /\ MaxUndo \in Nat /\ MaxSubst \in Nat

VARIABLES
  ed,        \* the buffer, a record of LineDeque
  op,        \* the command in progress, with its local variables
  cmds       \* the commands given in this session

vars == <<ed, op, cmds>>

Idle == [cmd |-> "none"]
NoState == [dot |-> -1, lines |-> -1, is_empty |-> TRUE]

\* init_ed_state (): -1 disables undo.
init_ed_state(addr) == [dot |-> addr, lines |-> addr, is_empty |-> TRUE]

Init ==
  /\ ed = [forw |-> [n \in {line_head} \cup Node |-> n],
           back |-> [n \in {line_head} \cup Node |-> n],
           heap |-> {}, st |-> init_ed_state(0), saved |-> init_ed_state(-1),
           lp |-> line_head, n_prev |-> 0, undo |-> <<>>,
           mark |-> [m \in Mark |-> Nil], marks |-> 0,
           gb |-> EmptyGlobalBuffer, global |-> FALSE]
  /\ op = Idle
  /\ cmds \in Sessions

dot == ed.st.dot
lines == ed.st.lines

\* The user, or the command list of a global command, gives command c.
Given(c) == c \in cmds /\ op = Idle /\ (ed.global => Len(ed.undo) < MaxUndo)

\* Outside a global command every command starts with an empty undo queue.
fresh_undo(e) == IF e.global THEN e ELSE reset_undo_queue(e)

Done(e) == ed' = e /\ op' = Idle

\* An error, or the longjmp of SIGINT, ends the command and, with it, the
\* global command it is part of.  What is left in the global command buffer
\* is not looked at again before set_global_lines () resets it: it is dropped.
Failed(e) == Done([e EXCEPT !.global = FALSE, !.gb = EmptyGlobalBuffer])

ValidRange(from, to) == 1 <= from /\ from <= to /\ to <= lines

----------------------------------------------------------------------------
(* a, i and c: append_lines () reads the text line by line.  op.up is the  *)
(* index of the undo entry of the added lines, op.arg the region address   *)
(* that the command uses once the text has ended.                          *)

TextMode(cmd, e, after, arg) ==
  /\ ed' = [e EXCEPT !.st.dot = after]
  /\ op' = [cmd |-> cmd, pc |-> "text", up |-> 0, arg |-> arg]

ChangeLines(cmd, from, to) ==
  LET start == IF from = 0 THEN 1 ELSE from
      end   == IF to = 0 THEN 1 ELSE to
      e     == delete_lines(fresh_undo(ed), start, end)
  IN  /\ ValidRange(start, end)
      /\ TextMode(cmd, e, e.st.dot, start)

c_cmd(from, to) == Given("c") /\ ChangeLines("c", from, to)

\* In a `logically' empty buffer that has lines, `a' is `c'.
a_cmd(end) ==
  /\ Given("a")
  /\ \/ /\ ~ ed.st.is_empty \/ lines = 0
        /\ TextMode("a", fresh_undo(ed), end, 0)
     \/ /\ ed.st.is_empty /\ lines # 0
        /\ ChangeLines("a", end, end)

i_cmd(addr) ==
  LET end == IF addr = 0 THEN 1 ELSE addr
  IN  /\ Given("i")
      /\ TextMode("i", fresh_undo(ed), end - 1, end)

append_lines ==
  /\ op # Idle /\ op.pc = "text"
  /\ IF malloc_fails(ed) THEN Failed(ed)
     ELSE LET e1 == put_buffer_line(ed)
              e2 == get_line_node(e1, e1.st.dot)
              e3 == APPEND_UNDO_NODE(e2, e2.lp, op.up, e2.st.dot)
          IN  /\ ed' = [e3 EXCEPT !.st.is_empty = FALSE]
              /\ op' = [op EXCEPT !.up = IF @ = 0 THEN Len(e3.undo) ELSE @]

\* The final `.': an empty insertion or change still sets dot.
EndText ==
  /\ op # Idle /\ op.pc = "text"
  /\ Done([ed EXCEPT !.st.dot =
       CASE op.cmd = "i" /\ dot = op.arg - 1 /\ lines # 0 -> op.arg
         [] op.cmd # "i" /\ dot < op.arg -> Min({lines, op.arg})
         [] OTHER -> dot])

----------------------------------------------------------------------------
(* r, E and the filter !: a stream is read line by line.  op.lp is the node *)
(* of the last line read, op.arg the region address a filter uses after.   *)

OpenStream(cmd, e, after, arg) ==
  /\ ed' = e
  /\ op' = [cmd |-> cmd, pc |-> "open", after |-> after, arg |-> arg]

\* An empty file leaves its newline in the buffer, which `r' replaces.
r_cmd(addrs, addr) ==
  LET e1 == fresh_undo(ed)
      e2 == IF e1.st.is_empty /\ lines # 0 THEN delete_lines(e1, dot, dot)
                                           ELSE e1
      end == IF addrs /\ e2.st.lines # 0 THEN addr ELSE e2.st.lines
  IN  /\ Given("r")
      /\ OpenStream("r", e2, end, 0)

E_cmd ==
  LET e1 == IF lines > 0 THEN delete_lines(ed, 1, lines) ELSE ed
      e2 == reset_global_buffer(reset_undo_queue(e1))
  IN  /\ Given("E")
      /\ OpenStream("E", [e2 EXCEPT !.global = FALSE, !.st = init_ed_state(0),
                                    !.saved = init_ed_state(-1)], 0, 0)

\* `from,to!command', or `0!command' in an empty buffer.
shell_cmd(from, to) ==
  LET start == IF from = 0 THEN 1 ELSE from
      end   == IF to = 0 THEN 1 ELSE to
      e1 == get_line_node(fresh_undo(ed), start)
      e2 == delete_lines(e1, start, end)
      e3 == IF e2.st.lines = 0 THEN [e2 EXCEPT !.st.is_empty = TRUE] ELSE e2
      e0 == [get_line_node(fresh_undo(ed), 0) EXCEPT !.st.is_empty = TRUE]
  IN  /\ Given("!")
      /\ \/ /\ lines # 0
            /\ ValidRange(start, end)
            /\ OpenStream("!", e3, e3.st.dot, start)
         \/ /\ lines = 0 /\ from = 0 /\ to = 0
            /\ OpenStream("!", e0, e0.st.dot, 0)

\* read_stream () and, after the shell command has finished, read_stream_r ().
read_stream ==
  /\ op # Idle /\ op.pc = "open"
  /\ LET e == get_line_node(ed, op.after)
     IN  /\ ed' = [e EXCEPT !.st.dot = op.after]
         /\ op' = [cmd |-> op.cmd, pc |-> "read", up |-> 0, lp |-> e.lp,
                   arg |-> op.arg]

\* Only a read that may be cut short meets the end of memory.
PUT_BUFFER_LINE ==
  /\ op # Idle /\ op.pc = "read"
  /\ IF malloc_fails(ed) THEN op.cmd \in AbortIn /\ Failed(ed)
     ELSE LET e1 == put_buffer_line(ed)
              lp == e1.forw[op.lp]
              e2 == APPEND_UNDO_NODE(e1, lp, op.up, e1.st.dot)
          IN  /\ ed' = e2
              /\ op' = [op EXCEPT !.lp = lp,
                                  !.up = IF @ = 0 THEN Len(e2.undo) ELSE @]

EndStream ==
  /\ op # Idle /\ op.pc = "read"
  /\ Done([ed EXCEPT
       !.st.is_empty = @ /\ op.up = 0,
       !.st.dot = IF @ < op.arg THEN Min({lines, op.arg}) ELSE @])

----------------------------------------------------------------------------
(* t: copy_lines () copies the lines before the destination, then those    *)
(* after it, if the destination is inside the range.  op.left counts the   *)
(* lines of the half in progress, op.rest those of the second half.        *)

t_cmd(from, to, after) ==
  LET split == from <= after /\ after < to
      e == get_line_node(fresh_undo(ed), from)
  IN  /\ Given("t")
      /\ ValidRange(from, to)
      /\ ed' = e
      /\ op' = [cmd |-> "t", pc |-> "copy", up |-> 0, lp |-> e.lp,
                after |-> after,
                left |-> (IF split THEN after ELSE to) - from + 1,
                rest |-> IF split THEN to - after ELSE 0, half |-> 0]

copy_lines ==
  /\ op # Idle /\ op.pc = "copy" /\ op.left > 0
  /\ IF malloc_fails(ed) THEN Failed(ed)
     ELSE LET np == malloc(ed)
              e1 == append_line_node(ed, op.after)
              e2 == [e1 EXCEPT !.st.dot = op.after + 1]
              e3 == APPEND_UNDO_NODE(e2, np, op.up, op.after + 1)
          IN  /\ ed' = e3
              /\ op' = [op EXCEPT !.lp = e3.forw[@], !.after = @ + 1,
                                  !.left = @ - 1,
                                  !.up = IF @ = 0 THEN Len(e3.undo) ELSE @]

copy_rest ==
  /\ op # Idle /\ op.pc = "copy" /\ op.left = 0 /\ op.half = 0
  /\ LET e == get_line_node(ed, op.after + 1)
     IN  /\ ed' = e
         /\ op' = [op EXCEPT !.lp = e.lp, !.left = op.rest, !.half = 1]

EndCopy ==
  /\ op # Idle /\ op.pc = "copy" /\ op.left = 0 /\ op.half = 1
  /\ Done(ed)

----------------------------------------------------------------------------
(* s: every line of the range that matches is replaced by the lines of its *)
(* replacement text, a critical section per line.  op.left counts the      *)
(* lines not seen yet, op.dot is the last line changed.                    *)

s_cmd(from, to) ==
  /\ Given("s")
  /\ ValidRange(from, to)
  /\ ed' = [fresh_undo(ed) EXCEPT !.st.dot = from - 1]
  /\ op' = [cmd |-> "s", pc |-> "subst", left |-> to - from + 1, dot |-> dot]

\* put_buffer_line (), transfer_marks () and APPEND_UNDO_NODE () for each of
\* the n lines that replace node lp.  acc.up is the undo entry, acc.ok FALSE
\* once malloc () has failed.
PutReplacement(acc, lp) ==
  IF ~ acc.ok \/ malloc_fails(acc.e) THEN [e |-> acc.e, ok |-> FALSE, up |-> acc.up]
  ELSE LET e1 == put_buffer_line(acc.e)
           e2 == get_line_node(e1, e1.st.dot)
           e3 == transfer_marks(e2, e2.lp, lp)
           e4 == APPEND_UNDO_NODE(e3, e2.lp, acc.up, e3.st.dot)
       IN  [e |-> e4, ok |-> TRUE,
            up |-> IF acc.up = 0 THEN Len(e4.undo) ELSE acc.up]

put_replacement(e, lp, n) ==
  LET after[i \in 0 .. n] ==
        IF i = 0 THEN [e |-> e, ok |-> TRUE, up |-> 0]
        ELSE PutReplacement(after[i - 1], lp)
  IN  after[n]

substitute_line(n) ==
  LET e1 == get_line_node(ed, dot + 1)
      e2 == [e1 EXCEPT !.st.dot = @ + 1]
      r  == put_replacement(delete_lines(e2, dot + 1, dot + 1), e2.lp, n)
  IN  /\ op # Idle /\ op.pc = "subst" /\ op.left > 0
      /\ IF n = 0 THEN ed' = e2 /\ op' = [op EXCEPT !.left = @ - 1]
         ELSE IF r.ok THEN /\ ed' = r.e
                           /\ op' = [op EXCEPT !.left = @ - 1,
                                               !.dot = r.e.st.dot]
         ELSE Failed(r.e)

EndSubst ==
  /\ op # Idle /\ op.pc = "subst" /\ op.left = 0
  /\ Done([ed EXCEPT !.st.dot = op.dot])

----------------------------------------------------------------------------
(* The commands of one critical section. *)

d_cmd(from, to) ==
  LET e == delete_lines(fresh_undo(ed), from, to)
      addr == INC_MOD(e.st.dot, e.st.lines)
  IN  /\ Given("d")
      /\ ValidRange(from, to)
      /\ Done([e EXCEPT !.st.dot = IF addr # 0 THEN addr ELSE @,
                        !.st.is_empty = (e.st.lines = 0)])

j_cmd(from, to) ==
  LET e == fresh_undo(ed)
  IN  /\ Given("j")
      /\ \/ /\ from = to /\ (lines = 0 \/ ValidRange(from, to))
            /\ Done(e)
         \/ /\ from < to /\ ValidRange(from, to)
            /\ LET e1 == join_lines(e, from, to)
               IN  IF e1.st.lines = lines - (to - from) THEN Done(e1)
                                                        ELSE Failed(e1)

m_cmd(from, to, after) ==
  /\ Given("m")
  /\ ValidRange(from, to)
  /\ ~ (from <= after /\ after < to)
  /\ Done(move_lines(fresh_undo(ed), from, to, after))

k_cmd(end, m) ==
  LET e == get_line_node(ed, end)
  IN  Given("k") /\ Done(mark_line_node(e, m, e.lp))

u_cmd ==
  /\ Given("u")
  /\ ed.saved # NoState
  /\ Done(undo_last_command(ed))

\* `addr;' makes addr the current line before the command itself is read.
semicolon(addr) == Given(";") /\ Done([ed EXCEPT !.st.dot = addr])

----------------------------------------------------------------------------
(* g, v, G and V: the marked lines are visited one after the other; the     *)
(* command list may be any sequence of commands.                           *)

\* The lines of the text that match, those of sel, are marked in their order.
set_global_lines(text, sel) ==
  LET marked[i \in 0 .. Len(text)] ==
        IF i = 0 THEN <<>>
        ELSE IF text[i] \in sel THEN Append(marked[i - 1], text[i])
        ELSE marked[i - 1]
  IN  marked[Len(text)]

global_cmd(sel) ==
  LET e == get_line_node(ed, 1)
  IN  /\ Given("g")
      /\ ~ ed.global
      /\ lines # 0
      /\ ed' = [reset_undo_queue(e) EXCEPT
                  !.global = TRUE,
                  !.gb = [EmptyGlobalBuffer EXCEPT
                            !.lbuf = set_global_lines(TextOf(ed.forw), sel)]]
      /\ op' = [cmd |-> "g", pc |-> "next"]

\* The next line becomes the current one; after the last the command ends.
exec_global ==
  /\ op # Idle /\ op.pc = "next"
  /\ LET i == next_global_index(ed.gb)
         addr == get_line_node_address(ed, ed.gb.lbuf[i])
     IN  IF i = 0 THEN Failed(ed)
         ELSE LET e == [ed EXCEPT !.gb.ptr = i + 1]
              IN  IF addr = ERR THEN Failed([e EXCEPT !.st.dot = lines])
                                ELSE Done([e EXCEPT !.st.dot = addr])

\* The command list has been executed for one line.
EndList ==
  /\ op = Idle /\ ed.global
  /\ op' = [cmd |-> "g", pc |-> "next"]
  /\ UNCHANGED ed

\* SIGINT, an error of a command in a command list, or a read that fails.
Abort ==
  /\ \/ op # Idle /\ op.cmd \in AbortIn
     \/ op = Idle /\ ed.global /\ "g" \in AbortIn
  /\ Failed(ed)

----------------------------------------------------------------------------
Step ==
  \/ \E x \in 0 .. lines : \/ a_cmd(x) \/ i_cmd(x) \/ semicolon(x)
                           \/ \E b \in BOOLEAN : r_cmd(b, x)
                           \/ \E m \in Mark : k_cmd(x, m)
  \/ \E x, y \in 0 .. lines : \/ c_cmd(x, y) \/ d_cmd(x, y) \/ j_cmd(x, y)
                              \/ s_cmd(x, y) \/ shell_cmd(x, y)
                              \/ \E z \in 0 .. lines : \/ t_cmd(x, y, z)
                                                       \/ m_cmd(x, y, z)
  \/ append_lines \/ EndText
  \/ E_cmd \/ read_stream \/ PUT_BUFFER_LINE \/ EndStream
  \/ copy_lines \/ copy_rest \/ EndCopy
  \/ (\E n \in 0 .. MaxSubst : substitute_line(n)) \/ EndSubst
  \/ u_cmd
  \/ \E sel \in SUBSET ToSet(TextOf(ed.forw)) : global_cmd(sel)
  \/ exec_global \/ EndList
  \/ Abort

Next == Step /\ UNCHANGED cmds

Spec == Init /\ [][Next]_vars

----------------------------------------------------------------------------
(* Properties. *)

Text == TextOf(ed.forw)
Deleted(i) == ed.undo[i].type = "UDEL"
UndoLines(i) ==
  ToSet(Chain(ed.forw, ed.undo[i].h, ed.forw[ed.undo[i].t]))

\* The lines are one circular deque: q_back undoes q_forw on it, it has as
\* many nodes as state->lines says, all of them allocated, and dot is on it.
DequeOK ==
  /\ Len(Text) = lines
  /\ ToSet(Text) \subseteq ed.heap
  /\ \A n \in {line_head} \cup ToSet(Text) : ed.back[ed.forw[n]] = n
  /\ dot \in 0 .. lines

\* get_line_node () starts from a node that really is line n_prev, whatever
\* has been linked, unlinked, undone and freed since it was remembered.
CacheOK ==
  /\ ed.n_prev \in 0 .. lines
  /\ ed.lp = Follow(ed.forw, line_head, ed.n_prev)

\* Every allocated node is in the buffer or on exactly one deleted range of
\* the undo queue: reset_undo_queue () frees each node once and forgets none.
HeapAccounted ==
  LET del == {i \in DOMAIN ed.undo : Deleted(i)}
  IN  /\ ed.heap = ToSet(Text) \cup UNION {UndoLines(i) : i \in del}
      /\ \A i \in del : /\ UndoLines(i) \cap ToSet(Text) = {}
                        /\ \A j \in del \ {i} : UndoLines(i) \cap UndoLines(j) = {}

\* Marks, undo entries and the local variables of a command never refer to a
\* node that has been freed.
NoDangling ==
  LET live == {line_head} \cup ed.heap
  IN  /\ \A m \in Mark : ed.mark[m] \in live \cup {Nil}
      /\ \A i \in DOMAIN ed.undo : {ed.undo[i].h, ed.undo[i].t} \subseteq live
      /\ op # Idle /\ op.pc \in {"read", "copy"} => op.lp \in live

\* A line that a global command has yet to visit is a line of the buffer.
GlobalLive ==
  ed.global =>
    \A i \in ed.gb.ptr .. Len(ed.gb.lbuf) :
      ed.gb.lbuf[i] \in ToSet(Text) \cup {Nil}

=============================================================================
