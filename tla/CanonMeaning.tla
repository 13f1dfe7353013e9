---------------------------- MODULE CanonMeaning ----------------------------
(***************************************************************************)
(* What a function does stays the same through the passes of Canon.        *)
(***************************************************************************)
EXTENDS StmtMeaning, Canon

\* In every phase the codes do what C99 says the statements do: the same calls,
\* assignments and returned values in the same order, whatever they read.
\* Trees, linearization, statements (StmtCode) and every pass of canon.c.
SameBehaviour == \A o \in Oracles : Behaviour(AllCodes, o) = Meaning(body, o)

\* When a run may end without a return, the check has seen a path without one:
\* the warning, or the error with must_retvalue, is not missed.
FallsOffSeen ==
  phase = "done" =>
    \A o \in Oracles : Meaning(body, o).how = "end" => noret
=============================================================================
