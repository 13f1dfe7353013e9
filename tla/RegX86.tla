------------------------------- MODULE RegX86 -------------------------------
(***************************************************************************)
(* The register file of the x86 back end (reg_x86.c): which values of a    *)
(* function each register holds, which register is handed out next, and    *)
(* what is spilled to the frame when a register is taken away.             *)
(*                                                                         *)
(* Every operation maps a context to a context; one translation step of    *)
(* GenX86 calls several of them.  Beside the descriptors and the nodes'    *)
(* locations a context has the machine that will run the emitted codes:    *)
(* what each register and each value's place in the frame holds at that    *)
(* point.  A content is a set of words <<dag, part>>, the values that are  *)
(* equal to it; that places of two wanted values are disjoint is Frame's   *)
(* NoOverlap.                                                              *)
(***************************************************************************)
EXTENDS Integers, Sequences, FiniteSets, SequencesExt

CONSTANTS
  Dags,    \* the DAG nodes of a function
  Parts,   \* how many registers the value of each of them takes (1 or 2)
  MaxSeq   \* bound: number of triple codes of the function

VARIABLES
  seqid,   \* triple->_seqid of the triple being translated
  gen      \* the context, a record of Contexts

NIL == 0   EAX == 1   EBX == 2   ECX == 3   EDX == 4   ESI == 5   EDI == 6
ST0 == 9

\* EBP, ESP and ST1 are reserved: cc_reg_alloc never hands them out.
Registers == EAX .. EDI \cup {ST0}
NormalRegs == EAX .. EDX
NormalAddrRegs == EAX .. EDI

Words == Dags \X (0 .. 1)
PartsOf(d) == 0 .. Parts[d] - 1

\* The assertions of the register file and of the handlers of GenX86.
Assertions ==
  {"regs[part] == regid", "_lastref > curseqid", "!_inmemory", "_inregister",
   "regs[0] != X86_NIL", "no register", "IR_OP(kid->_op) == IR_INDIR",
   "cc_get_operand", "lhs->_x._inregister", "rhs->_x._inregister",
   "FormatReg or FormatInSIB", "FormatInSIB"}

Contexts ==
  [link : [Registers -> Seq(Words)],               \* desc->_link
   lastref : [Registers -> 0 .. MaxSeq],           \* desc->_lastref
   using : SUBSET Registers,                       \* desc->_isusing
   last : [Dags -> 0 .. MaxSeq],                   \* dag->_lastref
   inregister : SUBSET Dags,                       \* dag->_x._inregister
   regs : [Dags -> [0 .. 1 -> {NIL} \cup Registers]],  \* ._x._loc._regs
   inmemory : SUBSET Dags,                         \* dag->_x._inmemory
   reg : [Registers -> SUBSET Words],              \* the machine's registers
   cell : [Dags -> [0 .. 1 -> SUBSET Words]],      \* and its memory
   depth : 0 .. 8,                   \* and the places its x87 stack has full
   misread : SUBSET Dags,    \* operands an emitted code reads wrongly
   failed : SUBSET Assertions]   \* the one that stopped the compiler

\* assert: the first one that fails ends the compilation.
Assertion(s, holds, name) ==
  IF holds \/ s.failed # {} THEN s ELSE [s EXCEPT !.failed = {name}]

Content(s, r) == IF r = NIL THEN {} ELSE s.reg[r]

-----------------------------------------------------------------------------
(* calc_lastref, cc_reg_make_associated, cc_reg_make_unassociated          *)

\* Mutant: the triple after the last one that uses the register.
LastrefAfter(s, users) ==
  1 + Max({0} \cup {s.last[users[i][1]] : i \in DOMAIN users})

LastrefOf(s, users) ==
  Max({0} \cup {s.last[users[i][1]] : i \in DOMAIN users})

\* Mutant: the cached last reference is not computed again.
AssociateStale(s, r, d, p) ==
  IF r = NIL THEN s
  ELSE [s EXCEPT !.link[r] = <<<<d, p>>>> \o @,
                 !.inregister = @ \cup {d},
                 !.regs[d][p] = r]

Associate(s, r, d, p) ==
  IF r = NIL THEN s
  ELSE [s EXCEPT !.link[r] = <<<<d, p>>>> \o @,
                 !.inregister = @ \cup {d},
                 !.regs[d][p] = r,
                 !.lastref[r] = LastrefOf(s, <<<<d, p>>>> \o s.link[r])]

\* An entry's _prev is never set, so taking an entry off the list makes its
\* successor the head, whatever stood before it.
Without(users, u) ==
  IF \E i \in DOMAIN users : users[i] = u
  THEN SubSeq(users, SelectInSeq(users, LAMBDA v : v = u) + 1, Len(users))
  ELSE users

Leave(s, users, r, d, p) ==
  [s EXCEPT !.link[r] = users,
            !.inregister = @ \ {d},
            !.regs[d][p] = NIL,
            !.lastref[r] = LastrefOf(s, users)]

Unassociate(s, r, d, p) ==
  IF r = NIL THEN s
  ELSE Leave(Assertion(s, s.regs[d][p] = r, "regs[part] == regid"),
             Without(s.link[r], <<d, p>>), r, d, p)

-----------------------------------------------------------------------------
(* cc_reg_spill with emit_store_r2staticmem; alloc_temporary_space is what *)
(* Frame models, here it only marks the value as having a place.           *)

AllocTemporary(s, d) == [s EXCEPT !.inmemory = @ \cup {d}]

Spill(s, d) ==
  LET a == Assertion(s, s.last[d] > seqid, "_lastref > curseqid")
      b == Assertion(a, d \notin s.inmemory, "!_inmemory")
      c == Assertion(b, d \in s.inregister, "_inregister")
  IN  [AllocTemporary(c, d) EXCEPT
         !.cell[d] = [p \in 0 .. 1 |-> Content(s, s.regs[d][p])]]

-----------------------------------------------------------------------------
(* cc_reg_free: every user of the register loses all of its registers, and *)
(* is stored first when it is wanted later and has no copy in memory.      *)

\* d is in no register.
Drop(s, d) ==
  [s EXCEPT !.inregister = @ \ {d}, !.regs[d] = [p \in 0 .. 1 |-> NIL]]

Save(s, d) ==
  IF s.last[d] > seqid /\ d \notin s.inmemory THEN Spill(s, d) ELSE s

\* The register of a pair that is not r.
FreeOther(s, r, d) ==
  IF s.regs[d][0] = r /\ s.regs[d][1] # NIL THEN Unassociate(s, s.regs[d][1], d, 1)
  ELSE IF s.regs[d][1] = r
  THEN Unassociate(Assertion(s, s.regs[d][0] # NIL, "regs[0] != X86_NIL"),
                   s.regs[d][0], d, 0)
  ELSE s

\* Mutant: a value that is wanted later is dropped without a copy.
FreeUnsaved(s, r, d) == Drop(FreeOther(s, r, d), d)

\* Mutant: a value that has a copy in memory is stored again.
FreeSavedAgain(s, r, d) ==
  Drop(FreeOther(IF s.last[d] > seqid THEN Spill(s, d) ELSE s, r, d), d)

FreeUser(s, r, d) == Drop(FreeOther(Save(s, d), r, d), d)

FreeUsers(s, r) ==
  LET users == s.link[r]
      freed[n \in 0 .. Len(users)] ==
        IF n = 0 THEN s ELSE FreeUser(freed[n - 1], r, users[n][1])
  IN  freed[Len(users)]

Free(s, r) == [FreeUsers(s, r) EXCEPT !.link[r] = <<>>, !.lastref[r] = 0]

-----------------------------------------------------------------------------
(* cc_reg_alloc: the first register nobody wants any more, or else the one *)
(* whose values are wanted latest; NIL when every one is being used.       *)

Available(s, flags) == flags \ s.using

Idle(s, r) == s.link[r] = <<>> \/ s.lastref[r] < seqid

Victims(s, flags) ==
  {r \in Available(s, flags) :
     /\ s.lastref[r] > 0
     /\ \A q \in Available(s, flags) : s.lastref[q] <= s.lastref[r]}

Choice(s, flags) ==
  LET idle == {r \in Available(s, flags) : Idle(s, r)}
  IN  IF idle # {} THEN Min(idle)
      ELSE IF Victims(s, flags) # {} THEN Min(Victims(s, flags))
      ELSE NIL

\* The register and the context once it has been freed.
HandOut(s, r) ==
  [reg |-> r,
   ctx |-> IF r = NIL THEN Assertion(s, FALSE, "no register") ELSE Free(s, r)]

Alloc(s, flags) == HandOut(s, Choice(s, flags))

MarkUsed(s, rs) == [s EXCEPT !.using = @ \cup rs]
UnmarkUsed(s, rs) == [s EXCEPT !.using = @ \ rs]

-----------------------------------------------------------------------------
(* Properties of the register file.                                        *)

\* Types: lists of users, locations and cached last references of the context.
RegTypeOK == seqid \in 1 .. MaxSeq + 1 /\ gen \in Contexts

\* A descriptor's list and the nodes' own locations are two records of the
\* same fact; the list's cached last reference is that of its users.
UsersMatch ==
  /\ \A r \in Registers :
       /\ IsInjective(gen.link[r])
       /\ ToSet(gen.link[r]) = {w \in Words : gen.regs[w[1]][w[2]] = r}
       /\ gen.lastref[r] = LastrefOf(gen, gen.link[r])
  /\ \A d \in Dags :
       d \in gen.inregister <=> \A p \in PartsOf(d) : gen.regs[d][p] # NIL

\* The two words of a value are in two registers.
PartsApart ==
  \A d \in gen.inregister : gen.regs[d][0] # gen.regs[d][1]

\* A value that is still wanted is where its node says: in its registers and,
\* when it has a place in memory, there as well.
ValuesKept ==
  \A d \in Dags : gen.last[d] >= seqid =>
    /\ d \in gen.inregister =>
         \A p \in PartsOf(d) : <<d, p>> \in Content(gen, gen.regs[d][p])
    /\ d \in gen.inmemory => \A p \in PartsOf(d) : <<d, p>> \in gen.cell[d][p]
=============================================================================
