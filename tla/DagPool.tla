-------------------------------- MODULE DagPool -------------------------------
(***************************************************************************)
(* Common subexpressions: the pool of DAG nodes (dag.c) that trees of a    *)
(* function share, and the triples made of the nodes in code order         *)
(* (munch_expr and munch_stmt of gencode_x86.c), which compute a node only *)
(* once.  Memory is a few cells of small numbers; an address is a number.  *)
(***************************************************************************)
EXTENDS Integers, Sequences, FiniteSets, FiniteSetsExt, SequencesExt, TLC

CONSTANTS
  CodeTrees,   \* what the codes of the function may be: [code, tree]
  Ids,         \* the trees that several codes have in common
  Temporaries, \* the cells of temporary variables
  Cells,       \* addresses, 1 .. n
  Zeroed,      \* the cells that a ZERO code clears
  Pointers,    \* the cells that hold addresses
  Targets,     \* the addresses they may hold
  FirstMemory, \* contents of the cells to begin with
  MaxNodes,    \* DAGPOOL_MAXNODES
  MaxCodes,    \* bound: how many codes
  Returned     \* bound: what calls return

VARIABLES
  dag,      \* what dag.c keeps: [nodes, pool, made]
  value,    \* what the generated code has computed, by node
  mem,      \* memory as the generated code leaves it
  meaning,  \* memory as the trees mean it, and what the common trees mean
  got,      \* [machine, tree]: what the last code used or stored
  codes     \* how many codes are done

vars == <<dag, value, mem, meaning, got, codes>>

Modulus == Cardinality(Cells) + 1
\* What may be in cell a, and what the next value is that calls and other
\* paths leave there: a bound that still changes each cell.
Contents(a) == IF a \in Pointers THEN Targets ELSE 0 .. Modulus - 1
NextContent(a, x) == IF x + 1 \in Contents(a) THEN x + 1 ELSE Min(Contents(a))

ASSUME DagAssumption ==
  /\ Cells = 1 .. Cardinality(Cells)
  /\ Zeroed \cup Temporaries \subseteq Cells
  /\ Targets \subseteq Cells \ Pointers
  /\ \A m \in FirstMemory : \A a \in Cells : m[a] \in Contents(a)
  /\ MaxNodes \in Nat /\ MaxCodes \in Nat

-----------------------------------------------------------------------------
(* Trees.  sym is the value of a CONST, the cell of an ADDR, the function  *)
(* of a CALL; id is 0 but for a tree that is used again by a later code.   *)

Tree(op, sym, kids, id) == [op |-> op, sym |-> sym, kids |-> kids, id |-> id]

\* What the tree means in memory m, where the common trees in known have been
\* evaluated before.
RECURSIVE Meaning(_, _, _)
Meaning(e, m, known) ==
  LET Kid(n) == Meaning(e.kids[n], m, known) IN
  IF e.id \in DOMAIN known THEN known[e.id]
  ELSE CASE e.op \in {"CONST", "ADDR"} -> e.sym
         [] e.op = "INDIR" -> m[Kid(1)]
         [] e.op = "ADD" -> (Kid(1) + Kid(2)) % Modulus
         [] e.op \in {"ASSIGN", "EQUAL"} -> Kid(2)

RECURSIVE Subtrees(_)
Subtrees(e) == {e} \cup UNION {Subtrees(e.kids[n]) : n \in DOMAIN e.kids}

-----------------------------------------------------------------------------
(* The pool: nodes found by operator, symbol and operands.                 *)

Entry(op, sym, kids) == [op |-> op, sym |-> sym, kids |-> kids]

\* cc_dag_reset_pool
ResetPool(d) == [d EXCEPT !.pool = {}]

\* cc_dag_newnode_inpool
NewNodeInPool(d, entry) ==
  LET found == {n \in d.pool : d.nodes[n] = entry} IN
  IF found # {} THEN [dag |-> d, node |-> Min(found)]
  ELSE [dag |-> [d EXCEPT !.nodes = Append(@, entry), !.pool = @ \cup {Len(d.nodes) + 1}],
        node |-> Len(d.nodes) + 1]

\* Mutant: loads through computed addresses stay.
RemoveOwnLoads(d, sym) ==
  [d EXCEPT !.pool = {n \in @ :
    d.nodes[n].op = "INDIR" =>
      LET kid == d.nodes[d.nodes[n].kids[1]] IN kid.op = "ADDR" => kid.sym # sym}]

\* cc_dag_rmnodes_inpool: a store to sym, which a computed address may reach.
RemoveNodes(d, sym) ==
  [d EXCEPT !.pool = {n \in @ :
    d.nodes[n].op = "INDIR" =>
      LET kid == d.nodes[d.nodes[n].kids[1]] IN kid.op = "ADDR" /\ kid.sym # sym}]

\* What a translated ASSIGN or CALL takes out of the pool.
AfterNode(d, e) ==
  IF e.op \notin {"ASSIGN", "CALL"} THEN d
  ELSE IF e.op = "ASSIGN" /\ e.kids[1].op = "ADDR" /\ e.kids[1].sym \notin Temporaries
    THEN RemoveNodes(d, e.kids[1].sym)
  ELSE ResetPool(d)

\* expr->_dagnode = node
MadeOf(d, e, node) == IF e.id = 0 THEN d ELSE [d EXCEPT !.made[e.id] = node]

Placed(r, e) == [r EXCEPT !.dag = AfterNode(MadeOf(r.dag, e, r.node), e)]

\* cc_dag_translate_expr
RECURSIVE TranslateExpr(_, _), TranslateKids(_, _, _)
TranslateExpr(d, e) ==
  IF e.id # 0 /\ d.made[e.id] # 0 THEN [dag |-> d, node |-> d.made[e.id]]
  ELSE LET start == IF Cardinality(d.pool) > MaxNodes THEN ResetPool(d) ELSE d
           k == TranslateKids(start, e, <<>>)
       IN Placed(NewNodeInPool(k.dag, Entry(e.op, e.sym, k.nodes)), e)

TranslateKids(d, e, done) ==
  IF Len(done) = Len(e.kids) THEN [dag |-> d, nodes |-> done]
  ELSE LET r == TranslateExpr(d, e.kids[Len(done) + 1])
       IN TranslateKids(r.dag, e, Append(done, r.node))

-----------------------------------------------------------------------------
(* The generated code.  A node that was computed, or loaded as a pointer,  *)
(* is not computed again (_isemitted); a load may still be in a register   *)
(* from its first use (_inregister), which is taken to be so here: read    *)
(* again, it would read through the same address.                          *)

RECURSIVE Munched(_, _, _)
Munched(nodes, computed, n) ==
  IF n \in DOMAIN computed THEN computed[n]
  ELSE LET kids == nodes[n].kids
           Kid(i) == Munched(nodes, computed, kids[i])
       IN CASE nodes[n].op \in {"CONST", "ADDR"} -> nodes[n].sym
            [] nodes[n].op = "INDIR" -> mem[Kid(1)]
            [] nodes[n].op = "ADD" -> (Kid(1) + Kid(2)) % Modulus
            [] nodes[n].op \in {"ASSIGN", "EQUAL"} -> Kid(2)

RECURSIVE Below(_, _)
Below(nodes, n) ==
  {n} \cup UNION {Below(nodes, nodes[n].kids[i]) : i \in DOMAIN nodes[n].kids}

\* munch_expr: what has been computed after node n. An ASSIGN, or the
\* comparison of a jump, is done again each time.
MunchExpr(nodes, n) ==
  value @@ [i \in {j \in Below(nodes, n) : nodes[j].op \notin {"ASSIGN", "EQUAL", "CALL"}} |->
              Munched(nodes, value, i)]

\* The common trees of e have been evaluated now.
Evaluated(e) ==
  meaning.known @@ [i \in {s.id : s \in Subtrees(e)} \ {0} |->
                      Meaning(CHOOSE s \in Subtrees(e) : s.id = i, meaning.mem, meaning.known)]

\* The calls in a tree have been made by codes of their own before, and what
\* a tree has in common with an earlier code was evaluated there.
Ready(e) ==
  \A s \in Subtrees(e) : s.op = "CALL" => s.id \in DOMAIN meaning.known

-----------------------------------------------------------------------------
(* One action for each kind of code.                                       *)

Init ==
  /\ dag = [nodes |-> <<>>, pool |-> {}, made |-> [i \in Ids |-> 0]]
  /\ value = <<>>
  /\ mem \in FirstMemory
  /\ meaning = [mem |-> mem, known |-> <<>>]
  /\ got = [machine |-> 0, tree |-> 0]
  /\ codes = 0

Step == codes < MaxCodes /\ codes' = codes + 1

\* IR_EXP of an assignment.
Assignment ==
  /\ Step
  /\ \E c \in CodeTrees :
       /\ c.code = "EXP" /\ c.tree.op = "ASSIGN" /\ Ready(c.tree)
       /\ LET e == c.tree
              r == TranslateExpr(dag, e)
              kids == r.dag.nodes[r.node].kids
              to == Meaning(e.kids[1], meaning.mem, meaning.known)
              x == Meaning(e, meaning.mem, meaning.known)
          IN /\ dag' = r.dag
             /\ value' = MunchExpr(r.dag.nodes, r.node)
             /\ mem' = [mem EXCEPT ![value'[kids[1]]] = value'[kids[2]]]
             /\ meaning' = [mem |-> [meaning.mem EXCEPT ![to] = x], known |-> Evaluated(e)]
             /\ got' = [machine |-> value'[kids[2]], tree |-> x]

\* IR_EXP of a call, which returns x and may store anywhere. A node that is
\* found again is taken for a call already made.
Call ==
  /\ Step
  /\ \E c \in CodeTrees, x \in Returned, to \in Cells \ Temporaries :
       /\ c.code = "EXP" /\ c.tree.op = "CALL" /\ c.tree.id \notin DOMAIN meaning.known
       /\ LET r == TranslateExpr(dag, c.tree)
              once == r.node \notin DOMAIN value
          IN /\ dag' = r.dag
             /\ value' = value @@ (r.node :> x)
             /\ mem' = IF once THEN [mem EXCEPT ![to] = NextContent(to, @)] ELSE mem
             /\ meaning' = [mem |-> [meaning.mem EXCEPT ![to] = NextContent(to, @)],
                            known |-> meaning.known @@ (c.tree.id :> x)]
             /\ got' = [machine |-> value'[r.node], tree |-> x]

\* IR_ARG, IR_RET and, for either operand, IR_CJMP.
Use ==
  /\ Step
  /\ \E c \in CodeTrees :
       /\ c.code = "USE" /\ Ready(c.tree)
       /\ LET r == TranslateExpr(dag, c.tree)
              n == IF c.tree.op = "EQUAL" THEN r.dag.nodes[r.node].kids[2] ELSE r.node
          IN /\ dag' = r.dag
             /\ value' = MunchExpr(r.dag.nodes, r.node)
             /\ meaning' = [meaning EXCEPT !.known = Evaluated(c.tree)]
             /\ got' = [machine |-> value'[n],
                        tree |-> Meaning(c.tree, meaning.mem, meaning.known)]
             /\ UNCHANGED mem

\* Mutant: the pool lasts for the whole function.
KeepPool(d) == d

\* IR_LABEL: control may come from where memory is another.
AtLabel(d) == ResetPool(d)

Label ==
  /\ Step
  /\ dag' = AtLabel(dag)
  /\ \E a \in Cells :
       /\ mem' = [mem EXCEPT ![a] = NextContent(a, @)]
       /\ meaning' = [meaning EXCEPT !.mem[a] = NextContent(a, @)]
  /\ UNCHANGED <<value, got>>

\* IR_ZERO of a variable that is being declared: nothing has read it yet. The
\* address goes through the pool, and nothing is taken out of it.
Zero ==
  /\ Step
  /\ \A n \in DOMAIN dag.nodes :
       dag.nodes[n].op = "INDIR" => value[dag.nodes[n].kids[1]] \notin Zeroed
  /\ LET r == TranslateExpr(dag, Tree("ADDR", Min(Zeroed), <<>>, 0)) IN
       /\ dag' = r.dag
       /\ value' = MunchExpr(r.dag.nodes, r.node)
  /\ mem' = [a \in Cells |-> IF a \in Zeroed THEN 0 ELSE mem[a]]
  /\ meaning' = [meaning EXCEPT !.mem = [a \in Cells |-> IF a \in Zeroed THEN 0 ELSE @[a]]]
  /\ UNCHANGED got

Next == Assignment \/ Call \/ Use \/ Label \/ Zero

Spec == Init /\ [][Next]_vars

-----------------------------------------------------------------------------
(* Properties.                                                             *)

\* What the code made of shared nodes stores, passes and compares is what the
\* trees mean, code by code, however stores, calls and labels come between
\* the places that share a node (dag.c throughout).
SharedRight == mem = meaning.mem /\ got.machine = got.tree

\* A load that is still in the pool, and would be found again, was not
\* overtaken by a store to what it reads (cc_dag_rmnodes_inpool and the resets).
PoolFresh ==
  \A n \in dag.pool :
    dag.nodes[n].op = "INDIR" => value[n] = mem[value[dag.nodes[n].kids[1]]]
=============================================================================
