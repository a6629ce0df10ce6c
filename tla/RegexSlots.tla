----------------------------- MODULE RegexSlots -----------------------------
(***************************************************************************)
(* The compiled patterns of ed (regexp.c, subst.c).  get_compiled_regex () *)
(* keeps two of them in static variables, the pattern of the last search   *)
(* and the one of the last substitution, which may be one and the same     *)
(* regex_t.  s_cmd () keeps a third pointer, ed->exec->subst->lhs, for the *)
(* short forms that repeat a substitution; it owns nothing.                *)
(*                                                                         *)
(* A compiled pattern is a block of memory: mem gives what is compiled in  *)
(* each block, Free once it is given back.  malloc () returns the lowest   *)
(* free block, so that a pointer that was left behind soon points to       *)
(* another pattern.                                                        *)
(***************************************************************************)
EXTENDS Naturals, FiniteSetsExt

CONSTANTS
  Pattern,      \* the patterns a user types
  MaxRe,        \* the heap: malloc () fails when this many blocks are in use
  Free          \* what a block holds that is not allocated

ASSUME RegexAssumption == MaxRe \in Nat \ {0} /\ Free \notin Pattern

Nil == 0        \* NULL
Re == 1 .. MaxRe

VARIABLES
  mem,          \* mem[r]: the pattern compiled in block r
  re,           \* the local variable re of a compilation in progress
  re_search,    \* static re_search
  re_subst,     \* static re_subst
  lhs,          \* ed->exec->subst->lhs
  last,         \* history: the patterns last searched for, last given to s,
                \* and last substituted
  used,         \* history: the pattern a command should use, the one it used
  orphan,       \* history: may lhs have been left behind?
  torn          \* history: has an interrupt cut a compilation in two?

rx == <<mem, re, re_search, re_subst, lhs, last, used, orphan, torn>>

None == Free    \* no pattern yet

RegexInit ==
  /\ mem = [r \in Re |-> Free]
  /\ re = Nil /\ re_search = Nil /\ re_subst = Nil /\ lhs = Nil
  /\ last = [search |-> None, subst |-> None, done |-> None]
  /\ used = [want |-> None, got |-> None]
  /\ orphan = FALSE /\ torn = FALSE

malloc_fails == \A r \in Re : mem[r] # Free
malloc == Min({r \in Re : mem[r] = Free})
Holds(r) == IF r = Nil THEN None ELSE mem[r]

\* A command uses the pattern in block r and should use pattern p.
Uses(p, r) == used' = [want |-> p, got |-> Holds(r)]

Unused == UNCHANGED used

\* used is about one command.
forget_use ==
  /\ used' = [want |-> None, got |-> None]
  /\ UNCHANGED <<mem, re, re_search, re_subst, lhs, last, orphan, torn>>

----------------------------------------------------------------------------
(* Searches.  line_address () calls get_compiled_regex () outside of       *)
(* critical sections: an interrupt may end it between any two of these     *)
(* three steps.                                                            *)

compile_search(p) ==
  /\ ~ malloc_fails
  /\ re' = malloc
  /\ mem' = [mem EXCEPT ![malloc] = p]
  /\ UNCHANGED <<re_search, re_subst, lhs, last, used, orphan, torn>>

\* Bug variant: the block is freed although it is the substitution's, too.
free_search_shared ==
  /\ mem' = IF re_search # Nil THEN [mem EXCEPT ![re_search] = Free] ELSE mem
  /\ orphan' = (orphan \/ (lhs # Nil /\ lhs = re_search))
  /\ UNCHANGED <<re, re_search, re_subst, lhs, last, used, torn>>

\* The old pattern is freed unless the substitution's slot has it, too.
free_search ==
  /\ IF re_search # Nil /\ re_search # re_subst
       THEN /\ mem' = [mem EXCEPT ![re_search] = Free]
            /\ orphan' = (orphan \/ lhs = re_search)
       ELSE UNCHANGED <<mem, orphan>>
  /\ UNCHANGED <<re, re_search, re_subst, lhs, last, used, torn>>

store_search ==
  /\ re_search' = re
  /\ re' = Nil
  /\ last' = [last EXCEPT !.search = mem[re]]
  /\ Uses(mem[re], re)
  /\ UNCHANGED <<mem, re_subst, lhs, orphan, torn>>

\* An interrupt drops the local variable; it may leave re_search freed.
lose_search ==
  /\ torn' = (torn \/ re # Nil)
  /\ re' = Nil
  /\ UNCHANGED <<mem, re_search, re_subst, lhs, last, used, orphan>>

\* The same within spl1 ()/spl0 (), for the pattern of a global command.
compile_global(p) ==
  /\ ~ malloc_fails
  /\ LET drop == re_search # Nil /\ re_search # re_subst
         m == [mem EXCEPT ![malloc] = p]
     IN  /\ mem' = IF drop THEN [m EXCEPT ![re_search] = Free] ELSE m
         /\ orphan' = (orphan \/ (drop /\ lhs = re_search))
  /\ re_search' = malloc
  /\ last' = [last EXCEPT !.search = p]
  /\ used' = [want |-> p, got |-> p]
  /\ UNCHANGED <<re, re_subst, lhs, torn>>

\* `//': the last search or else the last substitution.
previous_search ==
  LET r == IF re_search # Nil THEN re_search ELSE re_subst
      p == IF last.search # None THEN last.search ELSE last.subst
  IN  /\ r # Nil
      /\ re_search' = r
      /\ last' = [last EXCEPT !.search = p]
      /\ Uses(p, r)
      /\ UNCHANGED <<mem, re, re_subst, lhs, orphan, torn>>

----------------------------------------------------------------------------
(* Substitutions.  substitution_lhs () is a critical section.  The rest of *)
(* the command is read after it: an error there (ok = FALSE) ends it       *)
(* before save_substitute ().                                              *)

\* A full substitution, `s/p/.../'.
subst_pattern(p, ok) ==
  /\ ~ malloc_fails
  /\ LET drop == re_subst # Nil /\ re_subst # re_search
         m == [mem EXCEPT ![malloc] = p]
     IN  /\ mem' = IF drop THEN [m EXCEPT ![re_subst] = Free] ELSE m
         /\ orphan' = (~ ok /\ (orphan \/ (drop /\ lhs = re_subst)))
  /\ re_subst' = malloc
  /\ lhs' = IF ok THEN malloc ELSE lhs
  /\ last' = [last EXCEPT !.subst = p, !.done = IF ok THEN p ELSE @]
  /\ IF ok THEN used' = [want |-> p, got |-> p] ELSE Unused
  /\ UNCHANGED <<re, re_search, torn>>

\* `s//.../' and `sr' in common: the pattern p in block r.
subst_previous(p, r, ok) ==
  /\ r # Nil
  /\ re_subst' = IF re_subst = Nil THEN r ELSE re_subst
  /\ lhs' = IF ok THEN r ELSE lhs
  /\ orphan' = (orphan /\ ~ ok)
  /\ last' = [last EXCEPT !.subst = IF @ = None THEN p ELSE @,
                          !.done = IF ok THEN p ELSE @]
  /\ IF ok THEN Uses(p, r) ELSE Unused
  /\ UNCHANGED <<mem, re, re_search, torn>>

\* Bug variant: the substitution's pattern goes first.
subst_empty_own(ok) ==
  subst_previous(IF last.search # None THEN last.search ELSE last.subst,
                 IF re_subst # Nil THEN re_subst ELSE re_search, ok)

\* `s//.../': the last search or else the last substitution.
subst_empty(ok) ==
  subst_previous(IF last.search # None THEN last.search ELSE last.subst,
                 IF re_search # Nil THEN re_search ELSE re_subst, ok)

\* `sr': the last search, also when a substitution came after it (README.md,
\* "Repeated Substitution Modifiers", has that substitution's pattern then).
subst_r(ok) == subst_previous(last.search, re_search, ok)

\* `s' and its other short forms: the pattern of the last substitution.
subst_repeat ==
  /\ lhs # Nil
  /\ Uses(last.done, lhs)
  /\ UNCHANGED <<mem, re, re_search, re_subst, lhs, last, orphan, torn>>

----------------------------------------------------------------------------
(* Properties.                                                             *)

\* Between compilations exactly the patterns in the two slots are allocated:
\* none leaks and none is freed twice or while a slot refers to it, also when
\* both slots hold the same one, as long as no interrupt falls into the
\* compilation of a search (get_compiled_regex () asserts that it is in a
\* critical section, line_address () calls it outside of one).
SlotsOwnPatterns ==
  ~ torn /\ re = Nil =>
    {r \in Re : mem[r] # Free} = {re_search, re_subst} \ {Nil}

\* Searches and substitutions use the pattern that the table in
\* get_compiled_regex () defines for them, unless the remembered left-hand
\* side was freed: by a substitution that failed after its pattern was
\* compiled, or by a search after `s//' or `sr' had taken the search's pattern.
\* It is that table which is meant, not README.md: for `/a', `s;b;x', `sr' the
\* one has the last search, a, and README.md:1083-1087 has the last
\* substitution, b.  The code does as the table says.
PatternAsTabled == used.got = used.want \/ orphan \/ torn
=============================================================================
