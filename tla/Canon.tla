-------------------------------- MODULE Canon ---------------------------------
(***************************************************************************)
(* cc_canon_uber and cc_canon_check_return (canon.c): the code list of a   *)
(* function is simplified until nothing changes, cut into basic blocks,    *)
(* rid of the unreachable ones, joined, simplified and cut again.  One     *)
(* action for each pass over the list.                                     *)
(***************************************************************************)
EXTENDS IRCode, FiniteSetsExt, SequencesExt

CONSTANTS
  Bodies,   \* bodies of functions
  CodesOf,  \* the code list of each, as the parser makes it
  Trees     \* the trees of their codes

VARIABLES
  body,    \* the function
  phase,
  list,    \* FCCIRCodeList
  blocks,  \* FCCIRBasicBlock's: their codes
  noret    \* cc_canon_check_return found a path without a return

vars == <<body, phase, list, blocks, noret>>

-----------------------------------------------------------------------------
(* Code lists.                                                             *)

\* The sums of 0, 1, 2, ... numbers of ws.
Sums(ws) ==
  LET sum[n \in 0 .. Len(ws)] == IF n = 0 THEN 0 ELSE sum[n - 1] + ws[n] IN sum

Total(ws) == Sums(ws)[Len(ws)]

\* The code lists ss, one behind the other.
Joined(ss) ==
  LET joined[n \in 0 .. Len(ss)] == IF n = 0 THEN <<>> ELSE joined[n - 1] \o ss[n]
  IN joined[Len(ss)]

\* The codes at the places in kept.
Keep(codes, kept) ==
  Joined([i \in DOMAIN codes |-> IF i \in kept THEN <<codes[i]>> ELSE <<>>])

\* Operations of codes; ASSERT is where linearization fails (StmtCode).
Ops == {"FENTER", "FEXIT", "LABEL", "BLKBEG", "BLKEND", "LOCVAR", "ZERO", "ARG", "EXP", "JMP",
        "CJMP", "RET", "ASSERT"}
Labels == Seq(Int)
CodeSet ==
  {c \in [op : Ops, x : Trees, t : Labels, f : Labels] :
     /\ c.op = "LABEL" => c.t # NoLabel
     /\ c.op = "JMP" => c = Jump(c.t)}

\* How a code changes the depth of blocks, and the depth after the first
\* 0, 1, 2, ... codes.
Rise(c) == CASE c.op = "BLKBEG" -> 1 [] c.op = "BLKEND" -> -1 [] OTHER -> 0
Depths(codes) == Sums([i \in DOMAIN codes |-> Rise(codes[i])])

Nests(codes) ==
  /\ \A n \in 0 .. Len(codes) : Depths(codes)[n] >= 0
  /\ Depths(codes)[Len(codes)] = 0

\* cc_stmt_label and cc_symbol_label: a label is in one place.
LabelsOnce(codes) ==
  \A i, j \in DOMAIN codes :
    codes[i].op = "LABEL" /\ codes[j].op = "LABEL" /\ codes[i].t = codes[j].t => i = j

ASSUME CanonAssumption ==
  /\ NoTree \in Trees
  /\ CodesOf \in [Bodies -> Seq(CodeSet)]
  /\ \A b \in Bodies : Nests(CodesOf[b]) /\ LabelsOnce(CodesOf[b])

-----------------------------------------------------------------------------
(* cc_canon_codelist_simplify_inner                                        *)

Markers == {"LABEL", "BLKBEG", "BLKEND"}

Between(codes, i, j) == \A n \in i .. j : codes[n].op \in Markers

\* Labels that code i falls into.
Falls(codes, i) ==
  {codes[j].t : j \in {j \in i + 1 .. Len(codes) :
                         codes[j].op = "LABEL" /\ Between(codes, i + 1, j)}}

Without(l, labels) == IF l \in labels THEN NoLabel ELSE l

\* Pass 1 for a jump: nothing is left of it when its label follows.
ShortJump(l, labels) == IF Without(l, labels) = NoLabel THEN <<>> ELSE <<Jump(l)>>

JumpOf(c) == IF IsTrue(c.x) THEN c.t ELSE c.f

Short(codes, i) ==
  LET c == codes[i]
      labels == Falls(codes, i)
  IN CASE c.op = "JMP" -> ShortJump(c.t, labels)
       [] c.op = "CJMP" /\ IsConstant(c.x) -> ShortJump(JumpOf(c), labels)
       [] c.op = "CJMP" /\ ~IsConstant(c.x) ->
            LET f == Without(c.f, labels)
            IN IF f = NoLabel /\ c.t \in labels THEN <<>> ELSE <<[c EXCEPT !.f = f]>>
       [] c.op = "RET" -> <<[c EXCEPT !.t = Without(c.t, labels)]>>
       [] OTHER -> <<c>>

\* "merge nearest labels": the last label of those next to each other.
Redirect(codes, l) ==
  LET i == LabelAt(codes, l)
      run == {j \in i .. Len(codes) : codes[j].op = "LABEL" /\ Between(codes, i, j)}
  IN IF i = 0 THEN l ELSE codes[Max(run)].t

IsModified(codes) ==
  \/ \E i \in DOMAIN codes : Short(codes, i) # <<codes[i]>>
  \/ \E i \in DOMAIN codes : codes[i].op = "LABEL" /\ Redirect(codes, codes[i].t) # codes[i].t

\* Pass 2
Redirected(codes, c) ==
  LET t == Redirect(codes, c.t)
      f == Redirect(codes, c.f)
  IN IF c.op \notin {"JMP", "CJMP", "RET"} THEN c
     ELSE IF c.op = "CJMP" /\ t = f THEN Jump(t)
     ELSE [c EXCEPT !.t = t, !.f = f]

Mentioned(codes) ==
  UNION {{codes[i].t, codes[i].f} :
           i \in {i \in DOMAIN codes : codes[i].op \in {"JMP", "CJMP", "RET"}}}

\* Mutant: labels that nothing mentions stay.
RemoveNothing(codes) == codes

\* Pass 3
RemoveLabels(codes) ==
  LET used == Mentioned(codes)
  IN Keep(codes, {i \in DOMAIN codes : codes[i].op = "LABEL" => codes[i].t \in used})

\* Passes 1 to 3.
Simplified(codes) ==
  LET p1 == Joined([i \in DOMAIN codes |-> Short(codes, i)])
  IN RemoveLabels([i \in DOMAIN p1 |-> Redirected(codes, p1[i])])

-----------------------------------------------------------------------------
(* Basic blocks.                                                           *)

EndsBlock(c) == c.op \in {"JMP", "CJMP"} \/ (c.op = "RET" /\ c.t # NoLabel)

\* cc_canon_gen_basicblocks, for one code and the blocks before it.
Extended(bs, c) ==
  LET from == IF c.op = "LABEL" /\ Last(bs) # <<>> THEN Append(bs, <<>>) ELSE bs
      with == [from EXCEPT ![Len(from)] = Append(@, c)]
  IN IF EndsBlock(c) THEN Append(with, <<>>) ELSE with

Cut(codes) ==
  LET cut[n \in 0 .. Len(codes)] == IF n = 0 THEN <<<<>>>> ELSE Extended(cut[n - 1], codes[n])
  IN cut[Len(codes)]

BlockOf(bs, l) == {n \in DOMAIN bs : LabelAt(bs[n], l) # 0}

\* _tjmp and _fjmp, and _next when there is neither.
Successors(bs, n) ==
  LET c == Last(bs[n])
      next == {n + 1} \cap DOMAIN bs
      to == IF bs[n] = <<>> THEN {}
            ELSE CASE c.op = "CJMP" ->
                        BlockOf(bs, c.t) \cup (IF c.f = NoLabel THEN next ELSE BlockOf(bs, c.f))
                   [] c.op \in {"JMP", "RET"} -> BlockOf(bs, c.t)
                   [] OTHER -> {}
  IN IF to = {} THEN next ELSE to

\* Blocks visited from the first, not going on from those in stop.
Visited(bs, stop) ==
  LET visited[k \in DOMAIN bs] ==
        IF k = 1 THEN {1}
        ELSE LET seen == visited[k - 1]
             IN seen \cup UNION {Successors(bs, n) : n \in seen \ stop}
  IN visited[Len(bs)]

\* cc_canon_checkreachable
Reachable(bs) == Visited(bs, {})

\* Mutant: nothing is left of an unreachable block.
EraseAll(bs) == [n \in DOMAIN bs |-> IF n \in Reachable(bs) THEN bs[n] ELSE <<>>]

\* cc_canon_erease_deadbasicblocks, which also unlinks empty blocks: they
\* add nothing when the blocks are joined.
Erased(bs) ==
  LET alive == Reachable(bs)
      Brackets(b) == {i \in DOMAIN b : b[i].op \in {"BLKBEG", "BLKEND"}}
  IN [n \in DOMAIN bs |-> IF n \in alive THEN bs[n] ELSE Keep(bs[n], Brackets(bs[n]))]

\* Blocks where cc_canon_check_return_inner stops.
Returning(bs) == {n \in DOMAIN bs : \E i \in DOMAIN bs[n] : bs[n][i].op = "RET"}

\* Mutant: one return is enough.
NoReturnAtAll(bs) == Returning(bs) = {}

\* noretpaths > 0
NoReturnPath(bs) ==
  \E n \in Visited(bs, Returning(bs)) \ Returning(bs) : Successors(bs, n) = {}

-----------------------------------------------------------------------------
Init ==
  /\ body \in Bodies
  /\ phase = "parsed"
  /\ list = CodesOf[body]
  /\ blocks = <<>>
  /\ noret = FALSE

\* One call of cc_canon_codelist_simplify_inner that returns TRUE.
Simplify ==
  /\ phase \in {"parsed", "joined"}
  /\ IsModified(list)
  /\ list' = Simplified(list)
  /\ UNCHANGED <<body, phase, blocks, noret>>

\* cc_canon_gen_basicblocks, which moves the codes out of the list
GenBasicBlocks ==
  /\ phase \in {"parsed", "joined"}
  /\ ~IsModified(list)
  /\ blocks' = Cut(list)
  /\ list' = <<>>
  /\ phase' = IF phase = "parsed" THEN "cut" ELSE "final"
  /\ UNCHANGED <<body, noret>>

EraseDeadBlocks ==
  /\ phase = "cut"
  /\ blocks' = Erased(blocks)
  /\ phase' = "erased"
  /\ UNCHANGED <<body, list, noret>>

\* cc_ir_codeblocks_to_codelist
JoinBlocks ==
  /\ phase = "erased"
  /\ list' = Joined(blocks)
  /\ blocks' = <<>>
  /\ phase' = "joined"
  /\ UNCHANGED <<body, noret>>

CheckReturn ==
  /\ phase = "final"
  /\ noret' = NoReturnPath(blocks)
  /\ phase' = "done"
  /\ UNCHANGED <<body, list, blocks>>

Next == Simplify \/ GenBasicBlocks \/ EraseDeadBlocks \/ JoinBlocks \/ CheckReturn

Spec == Init /\ [][Next]_vars

-----------------------------------------------------------------------------
AllCodes == list \o Joined(blocks)

\* What is left of blocks nests, whatever jumped over it and was erased: the
\* frame is laid out by these codes alone (block_enter, block_leave).
BlocksNest == Nests(AllCodes)

\* What the loop of cc_canon_codelist_simplify may still remove.
Weight(c) ==
  1 + (CASE c.op = "CJMP" -> IF c.f # NoLabel THEN 2 ELSE 1
         [] c.op = "RET" /\ c.t # NoLabel -> 1
         [] OTHER -> 0)
Size(codes) == Total([i \in DOMAIN codes |-> Weight(codes[i])])

\* "return true if need re-scan the code list": every round that asks for one
\* more leaves less to remove, so the rounds end.
Shrinks == [][Simplify => Size(list') < Size(list)]_vars
=============================================================================
