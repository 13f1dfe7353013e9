----------------------------- MODULE CondGroups -----------------------------
(***************************************************************************)
(* What conditional compilation promises of one source file: the groups    *)
(* #if ... #endif nest, in each of them at most one branch is taken, and a *)
(* line is kept exactly when every group around it is in its taken branch. *)
(* CondStack, the block stack the preprocessor keeps, implements this.     *)
(***************************************************************************)
EXTENDS Integers

CONSTANT MaxId  \* bound: names of groups

VARIABLES
  groups,  \* the open groups: a later name is a group inside the earlier ones
  verdict  \* what became of the last row: kept, skipped, error, done

cgvars == <<groups, verdict>>

\* What a condition comes to: "bad" is one that cannot be evaluated.
Conds == {"true", "false", "empty", "bad"}
Wrong == {"empty", "bad"}

Open == DOMAIN groups

Group(enclosed, branch, closed) ==
  [enclosed |-> enclosed, branch |-> branch, closed |-> closed]

Innermost(g) == g \in Open /\ \A h \in Open : h <= g

\* Lines are kept where the innermost group is, and takes its branch.
Keeping == \A g \in Open : Innermost(g) => groups[g].enclosed /\ groups[g].branch = "taking"

Running == verdict \notin {"error", "done"}

GInit == groups = [g \in {} |-> 0] /\ verdict = "skipped"

GError == verdict' = "error" /\ UNCHANGED groups

\* #if, #ifdef, #ifndef: the condition is read only where lines are kept.
GOpen(cond) ==
  \/ Keeping /\ cond \in Wrong /\ GError
  \/ /\ ~(Keeping /\ cond \in Wrong)
     /\ \E g \in 1 .. MaxId :
          /\ \A h \in Open : h < g
          /\ groups' = [h \in Open \cup {g} |->
               IF h \in Open THEN groups[h]
               ELSE Group(Keeping,
                          IF ~Keeping \/ cond = "true" THEN "taking" ELSE "seeking",
                          FALSE)]
     /\ verdict' = "skipped"

\* The branch of a group that starts now, when its condition holds or not.
Entered(g, holds) ==
  CASE ~groups[g].enclosed -> "taking"
    [] groups[g].enclosed /\ groups[g].branch # "seeking" -> "taken"
    [] groups[g].enclosed /\ groups[g].branch = "seeking" ->
         IF holds THEN "taking" ELSE "seeking"

\* A group that is enclosed in kept lines wants a condition of every #elif,
\* but evaluates it only while it still seeks its branch.
Asked(g, cond) ==
  groups[g].enclosed /\ (cond = "empty" \/ (cond = "bad" /\ groups[g].branch = "seeking"))

GElif(cond) ==
  \/ (\A g \in Open : ~Innermost(g) \/ groups[g].closed) /\ GError
  \/ \E g \in Open :
       /\ Innermost(g) /\ ~groups[g].closed
       /\ \/ Asked(g, cond) /\ GError
          \/ /\ ~Asked(g, cond)
             /\ groups' = [groups EXCEPT ![g] =
                  Group(groups[g].enclosed, Entered(g, cond = "true"), FALSE)]
             /\ verdict' = "skipped"

GElse(bad) ==
  \/ (\A g \in Open : ~Innermost(g) \/ groups[g].closed) /\ GError
  \/ \E g \in Open :
       /\ Innermost(g) /\ ~groups[g].closed
       /\ \/ groups[g].enclosed /\ bad /\ GError
          \/ /\ ~(groups[g].enclosed /\ bad)
             /\ groups' = [groups EXCEPT ![g] =
                  Group(groups[g].enclosed, Entered(g, TRUE), TRUE)]
             /\ verdict' = "skipped"

GEndif(bad) ==
  \/ (bad \/ Open = {}) /\ verdict' = "error" /\ UNCHANGED groups
  \/ ~bad /\ \E g \in Open :
       /\ Innermost(g)
       /\ groups' = [h \in Open \ {g} |-> groups[h]]
       /\ verdict' = "skipped"

\* Any other row: text, or a directive that only acts where lines are kept.
GRow(bad) ==
  /\ verdict' = IF ~Keeping THEN "skipped" ELSE IF bad THEN "error" ELSE "kept"
  /\ UNCHANGED groups

GEnd ==
  /\ verdict' = IF Open = {} THEN "done" ELSE "error"
  /\ UNCHANGED groups

\* The file is given up without its end being read.
GLeave ==
  /\ Keeping
  /\ verdict' = "done"
  /\ UNCHANGED groups

GNext ==
  /\ Running
  /\ \/ \E cond \in Conds : GOpen(cond) \/ GElif(cond)
     \/ \E bad \in BOOLEAN : GElse(bad) \/ GEndif(bad) \/ GRow(bad)
     \/ GEnd \/ GLeave

GSpec == GInit /\ [][GNext]_cgvars
=============================================================================
