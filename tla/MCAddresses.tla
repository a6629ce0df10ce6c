----------------------------- MODULE MCAddresses -----------------------------
(***************************************************************************)
(* Constants for the run of Addresses.  Three addresses give every         *)
(* combination of omitted, relative and absolute ones around two           *)
(* delimiters; offsets by one cross both ends of a buffer of two lines.    *)
(* Two patterns, with commands of one address, give every order of         *)
(* searches and substitutions; three blocks are two slots and the pattern  *)
(* being compiled.                                                         *)
(***************************************************************************)
EXTENDS Addresses

CONSTANTS abc, xyz

Patterns == {abc, xyz}
OneOff == {-1, 1}
LongAddresses == [addrs |-> 3, offsets |-> OneOff, patterns |-> {abc},
                  s_and_g |-> FALSE, hits |-> 0]
ManyPatterns == [addrs |-> 1, offsets |-> {}, patterns |-> {abc, xyz},
                 s_and_g |-> TRUE, hits |-> 0]
CommandLists == [addrs |-> 2, offsets |-> {}, patterns |-> {abc},
                 s_and_g |-> TRUE, hits |-> 2]
AllSessions == {LongAddresses, ManyPatterns, CommandLists}
==============================================================================
