---------------------------- MODULE MCMacroStack ----------------------------
(* Three registers: one that calls another, one that calls itself, an empty *)
(* one.                                                                     *)
EXTENDS MacroStack

Regs == {"outer", "loop", "empty"}
Programs == [r \in Regs |->
  CASE r = "outer" -> <<Plain, Call("loop", 1), Call("empty", 2), Plain>>
    [] r = "loop" -> <<Plain, Call("loop", 0), Plain>>
    [] r = "empty" -> <<>>]
AScript == <<Plain, Plain>>
=============================================================================
