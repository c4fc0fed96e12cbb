----------------------------- MODULE MCFreeList -----------------------------
(* FreeList for TLC: one thread asks for two log pages, the other for data.  *)
(* A 2MB page is one block, so that a list of three blocks has a superpage   *)
(* with a margin on each side.                                               *)
EXTENDS FreeList, TLC

CONSTANTS t1, t2

LogAndData ==
    t1 :> {[cpuid |-> 1, num |-> 2, atype |-> "LOG", from_tail |-> TRUE]} @@
    t2 :> {[cpuid |-> 0, num |-> 1, atype |-> "DATA", from_tail |-> FALSE]}
=============================================================================
