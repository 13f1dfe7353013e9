------------------------------- MODULE Frame --------------------------------
(***************************************************************************)
(* The stack frame of one function while its triple codes are turned into  *)
(* x86 codes (gencode_x86.c): nested blocks, their local variables, and    *)
(* the temporary slots into which register values are spilled.  A slot is  *)
(* reused as soon as its value is dead and released when its block is      *)
(* left, unless the value in it is still wanted after the block.           *)
(*                                                                         *)
(* A place in the frame is a pair of depth and size: it covers the bytes   *)
(* ebp - depth .. ebp - depth + size - 1 (the code keeps -depth).          *)
(***************************************************************************)
EXTENDS Integers, Sequences, FiniteSets

CONSTANTS
  Dags,      \* the values a function computes (DAG nodes)
  NoDag,     \* the null pointer of a block entry
  DagSize,   \* dag->_ty->_size of each of them
  VarSizes,  \* sizes of the types of local variables
  MaxSeq,    \* bound: number of triple codes of the function
  MaxLevel   \* bound: depth to which blocks nest

ASSUME FrameAssumption ==
  /\ NoDag \notin Dags
  /\ DagSize \in [Dags -> Nat \ {0}]
  /\ VarSizes \subseteq Nat
  /\ MaxSeq \in Nat
  /\ MaxLevel \in Nat

VARIABLES
  seqid,          \* triple->_seqid of the triple being translated
  lastref,        \* dag->_lastref: the last triple that uses the value
  localuses,      \* ctx->_localuses
  curlocalbytes,  \* ctx->_curlocalbytes
  maxlocalbytes,  \* ctx->_maxlocalbytes
  inmemory,       \* dag->_x._inmemory
  slot,           \* -dag->_x._loc._mm._offset
  level,          \* nesting level of the block being translated (0: none)
  locals          \* the local variables in scope, with their places

vars == <<seqid, lastref, localuses, curlocalbytes, maxlocalbytes, inmemory,
          slot, level, locals>>

Roundup(n) == 4 * ((n + 3) \div 4)

\* Mutant: the comparison the wrong way round.
Lesser(m, n) == IF n < m THEN n ELSE m

Larger(m, n) == IF m < n THEN n ELSE m

BlockEntry(l, d) ==
  [kind |-> "block", level |-> l, depth |-> d, size |-> 0, dag |-> NoDag]

\* Mutant: the entry does not name its value.
TmpEntryUnnamed(d, depth, size) ==
  [kind |-> "tmp", level |-> 0, depth |-> depth, size |-> size, dag |-> NoDag]

TmpEntry(d, depth, size) ==
  [kind |-> "tmp", level |-> 0, depth |-> depth, size |-> size, dag |-> d]

Entries == [kind : {"block", "tmp"}, level : Nat, depth : Nat, size : Nat,
            dag : Dags \cup {NoDag}]

IsBlock(i) == localuses[i].kind = "block"
IsTmp(i) == localuses[i].kind = "tmp"

-----------------------------------------------------------------------------
(* The triples of a function: lastref is computed for all values before    *)
(* the first triple is translated, and a triple that only opens or closes  *)
(* a block or declares a variable uses no value.                           *)

Silent == \A d \in Dags : lastref[d] # seqid

NextTriple == seqid < MaxSeq /\ seqid' = seqid + 1

Init ==
  /\ seqid = 0
  /\ lastref \in [Dags -> 0 .. MaxSeq]
  /\ localuses = <<>>
  /\ curlocalbytes = 0
  /\ maxlocalbytes = 0
  /\ inmemory = [d \in Dags |-> FALSE]
  /\ slot = [d \in Dags |-> 0]
  /\ level = 0
  /\ locals = {}

\* A triple that leaves the frame alone.
OtherTriple ==
  /\ NextTriple
  /\ UNCHANGED <<lastref, localuses, curlocalbytes, maxlocalbytes, inmemory,
                 slot, level, locals>>

-----------------------------------------------------------------------------
(* block_enter                                                             *)

BlockEnter ==
  /\ NextTriple
  /\ Silent
  /\ level < MaxLevel
  /\ level' = level + 1
  /\ localuses' = Append(localuses, BlockEntry(level + 1, curlocalbytes))
  /\ UNCHANGED <<lastref, curlocalbytes, maxlocalbytes, inmemory, slot, locals>>

-----------------------------------------------------------------------------
(* block_leave: the loop runs down from the last entry to `stop', the      *)
(* first entry it breaks at (0 when it breaks at none).                    *)

\* Mutant: the loop does not stop at a value that outlives the block.
KeepsNothing(i) == FALSE

KeepsLiving(i) == IsTmp(i) /\ lastref[localuses[i].dag] > seqid
OwnBlock(i, l) == IsBlock(i) /\ localuses[i].level = l

BreaksAt(i, l) == KeepsLiving(i) \/ OwnBlock(i, l)

IsStop(s, l) ==
  /\ s \in 0 .. Len(localuses)
  /\ s # 0 => BreaksAt(s, l)
  /\ \A i \in s + 1 .. Len(localuses) : ~BreaksAt(i, l)

\* Mutant: the loop breaks before it gives back the offset of its own block.
ReopenedInner(s, l) ==
  {i \in s + 1 .. Len(localuses) : IsBlock(i) /\ localuses[i].level >= l}

\* The block entries that give curlocalbytes their offset back.
Reopened(s, l) ==
  {i \in s .. Len(localuses) : i # 0 /\ IsBlock(i) /\ localuses[i].level >= l}

\* The entries for which array_popback is called: it removes the last entry
\* of the array, whichever entry the loop is looking at.
Popped(s, l) ==
  {i \in s + 1 .. Len(localuses) : IsTmp(i)} \cup Reopened(s, l)

BlockLeave ==
  /\ NextTriple
  /\ Silent
  /\ level > 0
  /\ level' = level - 1
  /\ \E s \in 0 .. Len(localuses) :
       /\ IsStop(s, level)
       /\ localuses' = SubSeq(localuses, 1,
                         Len(localuses) - Cardinality(Popped(s, level)))
       /\ \/ /\ Reopened(s, level) = {}
             /\ UNCHANGED curlocalbytes
          \/ \E b \in Reopened(s, level) :
               /\ \A i \in Reopened(s, level) : b <= i
               /\ curlocalbytes' = localuses[b].depth
  /\ locals' = {v \in locals : v.level < level}
  /\ UNCHANGED <<lastref, maxlocalbytes, inmemory, slot>>

-----------------------------------------------------------------------------
(* local_variable                                                          *)

LocalVariable(size) ==
  /\ NextTriple
  /\ Silent
  /\ curlocalbytes' = curlocalbytes + Roundup(size)
  /\ maxlocalbytes' = Larger(maxlocalbytes, curlocalbytes')
  /\ locals' = locals \cup
       {[depth |-> curlocalbytes', size |-> size, level |-> level]}
  /\ UNCHANGED <<lastref, localuses, inmemory, slot, level>>

-----------------------------------------------------------------------------
(* alloc_temporary_space, called while triple seqid is translated for a    *)
(* value that is in use now or later and has no place in memory.           *)

\* Mutant: off by one, a value used by this very triple counts as dead.
FitsTooEarly(i, d) ==
  /\ IsTmp(i)
  /\ localuses[i].size >= DagSize[d]
  /\ lastref[localuses[i].dag] <= seqid

Fits(i, d) ==
  /\ IsTmp(i)
  /\ localuses[i].size >= DagSize[d]
  /\ lastref[localuses[i].dag] < seqid

ReuseSlot(d, i) ==
  /\ Fits(i, d)
  /\ \A j \in 1 .. i - 1 : ~Fits(j, d)
  /\ inmemory' = [inmemory EXCEPT ![localuses[i].dag] = FALSE, ![d] = TRUE]
  /\ slot' = [slot EXCEPT ![localuses[i].dag] = 0,
                          ![d] = localuses[i].depth]
  /\ localuses' = [localuses EXCEPT ![i] = TmpEntry(d, @.depth, @.size)]
  /\ UNCHANGED <<curlocalbytes, maxlocalbytes>>

NewSlot(d) ==
  /\ \A i \in DOMAIN localuses : ~Fits(i, d)
  /\ curlocalbytes' = curlocalbytes + Roundup(DagSize[d])
  /\ maxlocalbytes' = Larger(maxlocalbytes, curlocalbytes')
  /\ localuses' = Append(localuses,
                    TmpEntry(d, curlocalbytes', Roundup(DagSize[d])))
  /\ inmemory' = [inmemory EXCEPT ![d] = TRUE]
  /\ slot' = [slot EXCEPT ![d] = curlocalbytes']

AllocTemporarySpace(d) ==
  /\ seqid < MaxSeq
  /\ lastref[d] >= seqid
  /\ ~inmemory[d]
  /\ NewSlot(d) \/ \E i \in DOMAIN localuses : ReuseSlot(d, i)
  /\ UNCHANGED <<seqid, lastref, level, locals>>

Next ==
  \/ OtherTriple
  \/ BlockEnter
  \/ BlockLeave
  \/ \E size \in VarSizes : LocalVariable(size)
  \/ \E d \in Dags : AllocTemporarySpace(d)

Spec == Init /\ [][Next]_vars

-----------------------------------------------------------------------------
(* Properties                                                              *)

\* Types: every temporary entry names a value of the function.
TypeOK ==
  /\ seqid \in 0 .. MaxSeq
  /\ lastref \in [Dags -> 0 .. MaxSeq]
  /\ localuses \in Seq(Entries)
  /\ \A i \in DOMAIN localuses : IsTmp(i) => localuses[i].dag \in Dags
  /\ curlocalbytes \in Nat
  /\ maxlocalbytes \in Nat
  /\ inmemory \in [Dags -> BOOLEAN]
  /\ slot \in [Dags -> Nat]
  /\ level \in 0 .. MaxLevel
  /\ \A v \in locals : v \in [depth : Nat, size : Nat, level : Nat]

Live(d) == inmemory[d] /\ lastref[d] >= seqid

Place(d) == [depth |-> slot[d], size |-> DagSize[d]]

Apart(p, q) == p.depth <= q.depth - q.size \/ q.depth <= p.depth - p.size

\* No two values that are still wanted share a byte of the frame, and none of
\* them shares one with a variable in scope: what block_leave releases and
\* alloc_temporary_space hands out again is never in use.
NoOverlap ==
  /\ \A d, e \in Dags : d # e /\ Live(d) /\ Live(e) => Apart(Place(d), Place(e))
  /\ \A d \in Dags, v \in locals : Live(d) => Apart(Place(d), v)
  /\ \A v, w \in locals : v # w => Apart(v, w)

\* Every place in use lies in the bytes the prologue reserves
\* (X86_PROLOGUE subtracts maxlocalbytes, known only at the end).
FrameReserved ==
  /\ \A d \in Dags : Live(d) => slot[d] <= maxlocalbytes /\ slot[d] >= DagSize[d]
  /\ \A v \in locals : v.depth <= maxlocalbytes /\ v.depth >= v.size

\* A value still wanted keeps its place until its last use.
SlotStable ==
  [][\A d \in Dags : Live(d) /\ lastref[d] >= seqid' =>
       inmemory'[d] /\ slot'[d] = slot[d]]_vars

\* Leaving a block that no wanted value outlives gives back exactly what was
\* allocated since the block was entered.
LeaveReclaims ==
  [][level' < level /\ (\A d \in Dags : inmemory[d] => lastref[d] <= seqid) =>
       \E i \in DOMAIN localuses :
         /\ OwnBlock(i, level)
         /\ localuses' = SubSeq(localuses, 1, i - 1)
         /\ curlocalbytes' = localuses[i].depth]_vars
=============================================================================
