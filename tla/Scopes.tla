-------------------------------- MODULE Scopes --------------------------------
(***************************************************************************)
(* What a C program's names denote: scopes one inside the other, in each   *)
(* of which a name denotes at most one thing, and a use of a name means    *)
(* the innermost scope that declares it.  The first scope is the file's,   *)
(* the second that of a function's parameters, the third its body.         *)
(***************************************************************************)
EXTENDS Naturals, Sequences, FiniteSets, Functions, FiniteSetsExt, SequencesExt

CONSTANTS
  Ids,      \* names
  Types,    \* what typedefs name
  Own,      \* things that a declaration makes anew, apart from names and types
  Nothing   \* what no name denotes

VARIABLES
  scopes,   \* what is declared in each
  denotes   \* what a use of each name means now

\* A declaration with linkage denotes the one thing of its name, which is
\* written as the name itself.
Things == Ids \cup Types \cup Own

Empty == [i \in {} |-> Nothing]

Meaning(stack) ==
  [i \in Ids |->
     LET at == {n \in DOMAIN stack : i \in DOMAIN stack[n]} IN
     IF at = {} THEN Nothing ELSE stack[Max(at)][i]]

Becomes(stack) == scopes' = stack /\ denotes' = Meaning(stack)

Init == scopes = <<Empty>> /\ denotes = Meaning(<<Empty>>)

Open == Becomes(Append(scopes, Empty))

Close == Len(scopes) > 1 /\ Becomes(Front(scopes))

\* The parameters of a function and its body are one scope for declarations.
DeclaredIn(n, i) ==
  {scopes[m][i] : m \in {m \in (IF n = 3 THEN {2, 3} ELSE {n}) : i \in DOMAIN scopes[m]}}

InUse == UNION {Range(scopes[n]) : n \in DOMAIN scopes}

Put(scope, i, thing) == [j \in DOMAIN scope \cup {i} |-> IF j = i THEN thing ELSE scope[j]]

\* What is not new may be declared again as the same.
Declare(n, i, thing) ==
  /\ \/ thing \in {i} \cup Types /\ DeclaredIn(n, i) \subseteq {thing}
     \/ thing \in Own \ InUse /\ DeclaredIn(n, i) = {}
  /\ Becomes([scopes EXCEPT ![n] = Put(@, i, thing)])

\* Declarations are the innermost scope's; a definition of a function
\* declares its name in the file, although its parameters are already there.
Declaration ==
  \E n \in {1, Len(scopes)}, i \in Ids, thing \in Things :
    /\ (n = 1 => thing = i \/ Len(scopes) = 1)
    /\ Declare(n, i, thing)

Next == Open \/ Close \/ Declaration

Spec == Init /\ [][Next]_<<scopes, denotes>>
=============================================================================
