----------------------------- MODULE MCAlertOps -----------------------------
(***************************************************************************)
(* Three alerts: a low and a medium one of the same group, enough for the  *)
(* repetition rule, and one of level 12 that is a group of its own in the  *)
(* runs with two groups and falls into the same group in the other.        *)
(***************************************************************************)
EXTENDS AlertOps, TLC

CONSTANTS a1, a2, a3, g1, g2, loop, manual, h1, h2

MCAlert == {a1, a2, a3}
MCOneGroup == [a \in MCAlert |-> g1]
MCTwoGroups == (a1 :> g1) @@ (a2 :> g1) @@ (a3 :> g2)
MCLevel == (a1 :> 3) @@ (a2 :> 7) @@ (a3 :> 12)

MCOneTask == [t \in {loop} |-> 1]
MCSameProcess == [t \in {loop, manual} |-> 1]

\* A policy that suppresses the first group and, by its title, one of the
\* alerts, for good or for a time, and one that downgrades whatever is medium
\* or high.
Suppression(temporary, on) ==
    [action |-> "suppress", target_severity |-> None, subjects |-> {a2, g1},
     severities |-> {}, enabled |-> on, expires |-> temporary]
Downgrading ==
    [action |-> "downgrade", target_severity |-> 1, subjects |-> MCAlert \cup {g1, g2},
     severities |-> {2, 3}, enabled |-> TRUE, expires |-> FALSE]
MCPolicies == {Suppression(TRUE, TRUE), Downgrading}
MCSuppression == {Suppression(FALSE, on) : on \in BOOLEAN}

Symmetry == Permutations({loop, manual})
=============================================================================
