----------------------------- MODULE LineCache -----------------------------
(***************************************************************************)
(* get_line_node () (buffer.c) one assignment at a time.  It remembers the *)
(* node and the number of the line it returned last in two static          *)
(* variables, lp and n_prev, and moves both along the deque, one after the *)
(* other.  Some callers do so inside a critical section.  Others do not:   *)
(* there SIGINT longjmps out of the walk and leaves the two as they are,   *)
(* and handle_hup () calls get_line_node () again on top of it.            *)
(*                                                                         *)
(* Lines do not change during a call, so a node is named by the number of  *)
(* its line; 0 is line_head.                                               *)
(***************************************************************************)
EXTENDS Integers

CONSTANTS
  L        \* ed->state->lines

ASSUME CacheAssumption == L \in Nat

VARIABLES
  lp,      \* the cached node
  n_prev,  \* the line number it is believed to have
  pc,      \* where in get_line_node () control is, "idle" outside of it
  n,       \* the line asked for
  bare,    \* is the call outside of a critical section?
  off      \* history: 1 if a signal has separated lp and n_prev

walk_vars == <<lp, n_prev, pc, n, bare, off>>

WalkInit ==
  /\ lp = 0 /\ n_prev = 0 /\ pc = "idle" /\ n = 0 /\ bare = FALSE
  /\ off = 0

q_forw(p) == IF p = L THEN 0 ELSE p + 1
q_back(p) == IF p = 0 THEN L ELSE p - 1

\* Bug variant: the walk starts without regard to where the line is.
get_line_node_one_way(k, b) ==
  /\ pc = "idle"
  /\ n' = k
  /\ bare' = b
  /\ pc' = IF k > n_prev THEN "forw" ELSE "back"
  /\ lp' = IF k < n_prev THEN L ELSE lp
  /\ UNCHANGED <<n_prev, off>>

\* Start from the cached line, the last line or the head, as seems nearest.
get_line_node(k, b) ==
  /\ pc = "idle"
  /\ n' = k
  /\ bare' = b
  /\ pc' = CASE k > n_prev /\ k <= (n_prev + L) \div 2 -> "forw"
             [] k > n_prev /\ k > (n_prev + L) \div 2  -> "tail"
             [] k <= n_prev /\ k >= n_prev \div 2      -> "back"
             [] k <= n_prev /\ k < n_prev \div 2       -> "head"
  /\ UNCHANGED <<lp, n_prev, off>>

Goto(from, to) == pc = from /\ pc' = to /\ UNCHANGED <<n, bare>>

\* Bug variant: the position is not advanced with the node.
forw_n_not == Goto("forw_n", "forw") /\ UNCHANGED <<lp, n_prev, off>>

\* for (; n_prev < n; ++n_prev) lp = lp->q_forw;
forw_lp   == Goto("forw", "forw_n") /\ n_prev < n /\ lp' = q_forw(lp)
             /\ UNCHANGED <<n_prev, off>>
forw_n    == Goto("forw_n", "forw") /\ n_prev' = n_prev + 1
             /\ UNCHANGED <<lp, off>>
forw_done == Goto("forw", "done") /\ n_prev >= n
             /\ UNCHANGED <<lp, n_prev, off>>

\* for (; n_prev > n; --n_prev) lp = lp->q_back;
back_lp   == Goto("back", "back_n") /\ n_prev > n /\ lp' = q_back(lp)
             /\ UNCHANGED <<n_prev, off>>
back_n    == Goto("back_n", "back") /\ n_prev' = n_prev - 1
             /\ UNCHANGED <<lp, off>>
back_done == Goto("back", "done") /\ n_prev <= n
             /\ UNCHANGED <<lp, n_prev, off>>

\* lp = line_head->q_back; n_prev = lines, and on with the backward loop;
\* lp = line_head; n_prev = 0, and on with the forward loop.  Either way the
\* two agree again.
tail_lp   == Goto("tail", "tail_n") /\ lp' = q_back(0)
             /\ UNCHANGED <<n_prev, off>>
tail_n    == Goto("tail_n", "back") /\ n_prev' = L /\ off' = 0
             /\ UNCHANGED lp
head_lp   == Goto("head", "head_n") /\ lp' = 0 /\ UNCHANGED <<n_prev, off>>
head_n    == Goto("head_n", "forw") /\ n_prev' = 0 /\ off' = 0
             /\ UNCHANGED lp

return    == Goto("done", "idle") /\ UNCHANGED <<lp, n_prev, off>>

\* Between the two assignments of a pair.
HalfWay == pc \in {"forw_n", "back_n", "tail_n", "head_n"}

\* A signal outside of a critical section ends the walk where it is: for good
\* (handle_int () longjmps) or to start another one (handle_hup () writes the
\* buffer and exits).
interrupt ==
  /\ Goto(pc, "idle") /\ pc # "idle" /\ bare
  /\ off' = IF HalfWay THEN 1 ELSE off
  /\ UNCHANGED <<lp, n_prev>>

WalkNext ==
  \/ \E k \in 0 .. L, b \in BOOLEAN : get_line_node(k, b)
  \/ forw_lp \/ forw_n \/ forw_done
  \/ back_lp \/ back_n \/ back_done
  \/ tail_lp \/ tail_n \/ head_lp \/ head_n
  \/ return \/ interrupt

WalkSpec == WalkInit /\ [][WalkNext]_walk_vars

\* Every call ends: the walk gets nearer to its line with every step.
FairWalks == WalkSpec /\ WF_walk_vars(WalkNext)

----------------------------------------------------------------------------
WalkTypeOK ==
  /\ lp \in 0 .. L /\ n_prev \in 0 .. L /\ n \in 0 .. L
  /\ pc \in {"idle", "forw", "forw_n", "back", "back_n", "tail", "tail_n",
             "head", "head_n", "done"}
  /\ bare \in BOOLEAN /\ off \in {0, 1}

\* "get_line_node: Return pointer to line node in the ed buffer": the node
\* that a call returns is the line it was asked for, unless a signal has come
\* between the two assignments of a call outside of a critical section and no
\* walk has started from an end of the deque since.
LineFound == pc = "done" /\ off = 0 => lp = n

\* The cached node is the cached line wherever no assignment is pending, and
\* one step away from it in the middle of a loop.
CacheInv ==
  /\ pc = "forw_n" => n_prev < n
  /\ pc = "back_n" => n < n_prev
  /\ pc = "forw" => n_prev <= n
  /\ pc = "back" => n_prev >= n
  /\ pc = "done" => n_prev = n
  /\ pc = "tail_n" => lp = L
  /\ pc = "head_n" => lp = 0
  /\ off = 0 =>
       /\ ~ HalfWay => lp = n_prev
       /\ pc = "forw_n" => lp = n_prev + 1
       /\ pc = "back_n" => lp + 1 = n_prev

\* Every walk ends, also one that starts from a wrong cache.
WalkEnds == pc # "idle" ~> pc = "idle"
=============================================================================
