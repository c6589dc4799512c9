---------------------------- MODULE AlertIntake ----------------------------
(***************************************************************************)
(* What an intake of alerts promises, whoever runs it: alerts become       *)
(* visible, some of them are stored, and below a mark nothing is looked    *)
(* for again.  An alert is never stored twice or removed, it never becomes *)
(* visible below the mark, and the mark only passes an alert that is       *)
(* stored, that at least Batch stored alerts are as recent as, or that is  *)
(* older than what the first intake had to reach back to.                  *)
(***************************************************************************)
EXTENDS Integers, FiniteSets

CONSTANTS
    Lookback, \* how far the first intake reaches behind its mark
    Alerts,   \* pairs of a number and a time stamp
    Batch,    \* alerts that one answer holds
    Unset     \* the mark before the first intake

VARIABLES
    visible,  \* alerts the indexer returns
    stored,   \* alerts stored
    mark,     \* time stamps below are not asked for again, or Unset
    reach     \* what the first intake had to reach back to, or Unset

vars == <<visible, stored, mark, reach>>

TimeOf(a) == a[2]

Behind(a, set) == Cardinality({b \in set : TimeOf(b) >= TimeOf(a)}) >= Batch

Init ==
    /\ visible \subseteq Alerts /\ stored = {} /\ mark = Unset /\ reach = Unset

Appear(a) ==
    /\ a \notin visible
    /\ mark # Unset => TimeOf(a) >= mark
    /\ visible' = visible \cup {a}
    /\ UNCHANGED <<stored, mark, reach>>

\* An intake adds to the stored alerts and moves the mark.
Intake ==
    /\ stored \subseteq stored' /\ stored' \subseteq visible
    /\ mark' # Unset
    /\ reach' = IF mark = Unset THEN mark' - Lookback ELSE reach
    /\ \A a \in visible \ stored' :
          TimeOf(a) < mark' => TimeOf(a) < reach' \/ Behind(a, stored')
    /\ UNCHANGED visible

Next == Intake \/ \E a \in Alerts : Appear(a)

Spec == Init /\ [][Next]_vars
=============================================================================
