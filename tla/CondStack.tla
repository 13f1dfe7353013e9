----------------------------- MODULE CondStack ------------------------------
(***************************************************************************)
(* The stack of condition blocks of one source file (ctrl.c, cpp.c): every *)
(* #if, #ifdef, #ifndef, #elif and #else pushes a block whose flags say    *)
(* why its lines are skipped, if they are; #endif pops the whole group.    *)
(***************************************************************************)
EXTENDS Integers, Sequences

CONSTANT MaxBlocks  \* bound: blocks on the stack

ASSUME MaxBlocksAssumption == MaxBlocks \in Nat

VARIABLES
  condstack,  \* top->_condstack, the innermost block last
  verdict     \* what became of the last row: kept, skipped, error, done

csvars == <<condstack, verdict>>

\* FConditionBlock: parent and self are the two bits of _flags.
Ctrls == {"if", "elif", "else"}
Blocks == [ctrl : Ctrls, parent : BOOLEAN, self : BOOLEAN]

Block(ctrl, parent, self) == [ctrl |-> ctrl, parent |-> parent, self |-> self]

\* CHECK_COND_PASS and CHECK_OUTER_COND_PASS of the innermost block.
Top == condstack[Len(condstack)]
Passes == condstack # <<>> => ~Top.parent /\ ~Top.self
OuterPasses == condstack # <<>> => ~Top.parent

IsOpener(i) == condstack[i].ctrl = "if"

\* i is a block of the innermost group.
InGroup(i) ==
  i \in DOMAIN condstack /\ \A j \in i + 1 .. Len(condstack) : ~IsOpener(j)

\* Mutant: the walk never starts, it looks at the nearest sibling only.
NearestPasses == ~Top.self

\* Some block of the group has been taken: the walk over _up that ends at the
\* first block without COND_FAILED_SELF or at the #if.
SiblingPasses == \E i \in DOMAIN condstack : InGroup(i) /\ ~condstack[i].self

\* Mutant: a condition that fails in a skipped group fails by itself.
PushSelf(ctrl, parent, self) ==
  /\ Len(condstack) < MaxBlocks
  /\ condstack' = Append(condstack, Block(ctrl, FALSE, parent \/ self))
  /\ verdict' = "skipped"

\* alloc_condtionblock and the push that ends each handler.
Push(ctrl, parent, self) ==
  /\ Len(condstack) < MaxBlocks
  /\ condstack' = Append(condstack, Block(ctrl, parent, self))
  /\ verdict' = "skipped"

Error == verdict' = "error" /\ UNCHANGED condstack

Conds == {"true", "false", "empty", "bad"}
Wrong == {"empty", "bad"}

CSInit == condstack = <<>> /\ verdict = "skipped"

\* ctrl_if_handler, ctrl_ifdef_handler, ctrl_ifndef_handler
IfHandler(cond) ==
  \/ Passes /\ cond \in Wrong /\ Error
  \/ Passes /\ cond \notin Wrong /\ Push("if", FALSE, cond = "false")
  \/ ~Passes /\ Push("if", TRUE, FALSE)

\* Mutant: #else may follow #else.
MatchesAny == condstack # <<>>

\* Mutant: #else may come without #if.
MatchesNone == condstack # <<>> => Top.ctrl # "else"

\* "check if else endif matching"
Matches == condstack # <<>> /\ Top.ctrl # "else"

ElifHandler(cond) ==
  \/ ~Matches /\ Error
  \/ Matches /\ ~OuterPasses /\ Push("elif", TRUE, FALSE)
  \/ /\ Matches /\ OuterPasses
     /\ \/ cond = "empty" /\ Error
        \/ cond # "empty" /\ SiblingPasses /\ Push("elif", FALSE, TRUE)
        \/ cond = "bad" /\ ~SiblingPasses /\ Error
        \/ cond \notin Wrong /\ ~SiblingPasses /\ Push("elif", FALSE, cond = "false")

ElseHandler(bad) ==
  \/ ~Matches /\ Error
  \/ Matches /\ ~OuterPasses /\ Push("else", TRUE, FALSE)
  \/ Matches /\ OuterPasses /\ bad /\ Error
  \/ Matches /\ OuterPasses /\ ~bad /\ Push("else", FALSE, SiblingPasses)

\* Mutant: the walk stops before the #if is popped.
EndifLeavesIf(bad) ==
  \/ bad /\ Error
  \/ ~bad /\ condstack = <<>> /\ Error
  \/ /\ ~bad
     /\ \E i \in DOMAIN condstack :
          /\ InGroup(i) /\ IsOpener(i)
          /\ condstack' = SubSeq(condstack, 1, IF i = Len(condstack) THEN i - 1 ELSE i)
     /\ verdict' = "skipped"

\* ctrl_endif_handler: pops to the nearest #if and then the #if itself.  A
\* stack without one is left empty, and the file is given up.
EndifHandler(bad) ==
  \/ bad /\ Error
  \/ ~bad /\ condstack = <<>> /\ Error
  \/ /\ ~bad
     /\ \E i \in DOMAIN condstack :
          /\ InGroup(i) /\ IsOpener(i)
          /\ condstack' = SubSeq(condstack, 1, i - 1)
     /\ verdict' = "skipped"

\* A row of text, and the handlers that return at once where lines are
\* skipped: #include, #define, #undef, #line, #error, #pragma, unknown ones.
OtherRow(bad) ==
  /\ verdict' = IF ~Passes THEN "skipped" ELSE IF bad THEN "error" ELSE "kept"
  /\ UNCHANGED condstack

\* cpp_process at the end of the file.
EndOfFile ==
  /\ verdict' = IF condstack = <<>> THEN "done" ELSE "error"
  /\ UNCHANGED condstack

\* A second #pragma once: the rest of the file is not read.
SeenBefore ==
  /\ Passes
  /\ verdict' = "done"
  /\ UNCHANGED condstack

CSNext ==
  /\ verdict \notin {"error", "done"}
  /\ \/ \E cond \in Conds : IfHandler(cond) \/ ElifHandler(cond)
     \/ \E bad \in BOOLEAN : ElseHandler(bad) \/ EndifHandler(bad) \/ OtherRow(bad)
     \/ EndOfFile \/ SeenBefore

CSSpec == CSInit /\ [][CSNext]_csvars

-----------------------------------------------------------------------------
(* Properties                                                              *)

\* Types, and no #elif or #else that is not behind an #if.
CSTypeOK ==
  /\ condstack \in Seq(Blocks)
  /\ Len(condstack) <= MaxBlocks
  /\ condstack # <<>> => IsOpener(1)
  /\ verdict \in {"kept", "skipped", "error", "done"}

SameGroup(i, j) == i < j /\ \A k \in i + 1 .. j : ~IsOpener(k)

\* At most one branch of a group whose surroundings are kept is taken.
OneBranch ==
  \A i, j \in DOMAIN condstack :
    SameGroup(i, j) /\ ~condstack[i].parent => condstack[i].self \/ condstack[j].self

\* Lines are kept only if the last block of every group around them is the
\* taken one: COND_FAILED_PARENT carries the failure of any outer group in.
AllTaken ==
  Passes => \A i \in DOMAIN condstack :
              (i = Len(condstack) \/ IsOpener(i + 1)) =>
                ~condstack[i].parent /\ ~condstack[i].self

\* Nothing but #endif follows #else in a group.
ElseLast ==
  \A i, j \in DOMAIN condstack : SameGroup(i, j) => condstack[i].ctrl # "else"

-----------------------------------------------------------------------------
(* The groups of CondGroups: one for each #if on the stack.                *)

Openers == {i \in DOMAIN condstack : IsOpener(i)}

\* j is the last block of the group that i opens.
LastOf(i, j) ==
  /\ j \in DOMAIN condstack
  /\ i = j \/ SameGroup(i, j)
  /\ j = Len(condstack) \/ IsOpener(j + 1)

BranchOf(i, j) ==
  IF condstack[i].parent \/ ~condstack[j].self THEN "taking"
  ELSE IF \E k \in i .. j : ~condstack[k].self THEN "taken" ELSE "seeking"

GroupOf(i) ==
  LET j == CHOOSE k \in DOMAIN condstack : LastOf(i, k)
  IN [enclosed |-> ~condstack[i].parent,
      branch |-> BranchOf(i, j),
      closed |-> condstack[j].ctrl = "else"]

Groups == INSTANCE CondGroups
  WITH groups <- [i \in Openers |-> GroupOf(i)], MaxId <- MaxBlocks

RefinesGroups == Groups!GSpec
=============================================================================
