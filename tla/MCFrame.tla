------------------------------ MODULE MCFrame -------------------------------
(* Instance of Frame for TLC: values of one word and of two, and variables *)
(* whose sizes round up to one word and to two.                            *)
EXTENDS Frame, TLC

CONSTANTS d1, d2, d3

MCDags == {d1, d2, d3}
MCDagSize == (d1 :> 4) @@ (d2 :> 8) @@ (d3 :> 4)
MCVarSizes == {1, 8}
=============================================================================
