----------------------------- MODULE Consensus ------------------------------
(***************************************************************************)
(* What one slot promises its callers (docs/02-properties.md, P1 to P4):   *)
(* replicas decide, each at most once, one and the same proposed value.    *)
(***************************************************************************)
CONSTANTS Ids, Values, None

VARIABLES
    proposed,   \* values some replica has started to propose
    decision    \* decision[i]: what replica i decided, or None

Init ==
    /\ proposed = {}
    /\ decision = [i \in Ids |-> None]

Propose(V) ==
    /\ proposed' = proposed \cup V
    /\ UNCHANGED decision

\* The replicas in D learn the decision in one step.
Decide(D, v) ==
    /\ v \in proposed
    /\ \A i \in D : decision[i] = None
    /\ \A j \in Ids : decision[j] \in {None, v}
    /\ decision' = [i \in Ids |-> IF i \in D THEN v ELSE decision[i]]
    /\ UNCHANGED proposed

Next ==
    \/ \E V \in SUBSET Values : Propose(V)
    \/ \E D \in SUBSET Ids, v \in Values : Decide(D, v)

Spec == Init /\ [][Next]_<<proposed, decision>>
=============================================================================
