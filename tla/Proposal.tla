------------------------------ MODULE Proposal ------------------------------
(***************************************************************************)
(* Proposals and their total order (crates/consensus/src/proposal.rs), and *)
(* the two selections the concrete protocol makes among them (best_of and  *)
(* fast_path_value, crates/consensus/src/proposer.rs).                     *)
(*                                                                         *)
(* `Option<Proposal>` is represented by adding one bottom element: `None`  *)
(* is Nil, whose priority 0 no proposal ever carries (draw_priority draws  *)
(* from 1..H), so Rust's `None < Some(_)` is the order itself.             *)
(***************************************************************************)
EXTENDS Integers, FiniteSets

CONSTANTS
    H,        \* the reserved top priority (u64::MAX)
    Ids,      \* replica identifiers, the origins of proposals
    Values    \* the values a proposal may carry; ordered, as V: Ord

ASSUME PriorityAssumption == H \in Nat /\ H > 0
ASSUME IdsAssumption      == Ids \subseteq Nat
ASSUME ValuesAssumption   == Values \subseteq Nat

\* One candidate: a value, its priority and the replica that drew it.
Proposals == [priority : 1..H, origin : Ids, value : Values]

\* `None` of Option<Proposal>.
Nil == [priority |-> 0, origin |-> 0, value |-> 0]

OptProposals == Proposals \cup {Nil}

\* impl Ord for Proposal: priority, then origin, then value.
Leq(p, q) ==
    \/ p.priority < q.priority
    \/ p.priority = q.priority /\ p.origin < q.origin
    \/ p.priority = q.priority /\ p.origin = q.origin /\ p.value <= q.value

\* isr.rs max_option: the larger of two optional proposals.
MaxOption(a, b) == IF Leq(a, b) THEN b ELSE a

\* b is the maximum of S.
IsBest(b, S) == b \in S /\ \A p \in S : Leq(p, b)

\* proposal.rs best, proposer.rs best_of: the maximum of a non-empty set.
Best(S) == CHOOSE b \in S : IsBest(b, S)

\* A fast path that does not wait for the quorum to be unanimous.
IsFastPathForOne(firsts) == \E p \in firsts : p.priority = H

\* proposer.rs fast_path_value on the `first` fields of a quorum's replies:
\* every one is at priority H and all are the same proposal.
IsFastPath(firsts) == \E p \in firsts : p.priority = H /\ firsts = {p}
=============================================================================
