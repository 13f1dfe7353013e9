---------------------------- MODULE MCCondStack -----------------------------
(* CondStack for TLC: a stack of a few blocks holds groups of several      *)
(* branches, taken and not, in groups that are kept and skipped.           *)
EXTENDS CondStack
=============================================================================
