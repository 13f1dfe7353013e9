------------------------------- MODULE IRCode -------------------------------
(***************************************************************************)
(* The codes of a function (FCCIRCode, ir.h) and the trees that they hold. *)
(***************************************************************************)
EXTENDS Integers, Sequences

NoLabel == <<>>
Exit == <<0>>  \* ctx->_funcexit
Node(op, id, at, kids) == [op |-> op, id |-> id, at |-> at, kids |-> kids]
NoTree == Node("NONE", "", <<>>, <<>>)

IsConstant(x) == x.op = "CONST"
IsTrue(x) == x.id = "1"

Code(op, x, t, f) == [op |-> op, x |-> x, t |-> t, f |-> f]
Label(l) == Code("LABEL", NoTree, l, NoLabel)
Jump(l) == Code("JMP", NoTree, l, NoLabel)

LabelsAt(codes, l) == {n \in DOMAIN codes : codes[n].op = "LABEL" /\ codes[n].t = l}

LabelAt(codes, l) ==
  IF LabelsAt(codes, l) = {} THEN 0 ELSE CHOOSE n \in LabelsAt(codes, l) : TRUE
=============================================================================
