----------------------------- MODULE MCSignals -----------------------------
(***************************************************************************)
(* Constants for the runs of Signals.  Two critical sections per command,  *)
(* nested at most twice, are enough for a signal to fall before, inside,   *)
(* between and after sections and in every window of spl0 (); three        *)
(* signals allow a second signal to arrive in each window of the first.    *)
(***************************************************************************)
EXTENDS Signals

AllSigs == AllSignals
============================================================================
