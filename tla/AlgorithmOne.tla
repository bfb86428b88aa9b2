---------------------------- MODULE AlgorithmOne ----------------------------
(***************************************************************************)
(* Abstract QuePaxa for one slot (crates/consensus/src/algorithm.rs) on    *)
(* threshold broadcast (tcast.rs, node.rs). The driver runs lock-step      *)
(* rounds of three tcast calls over the replicas it considers live:        *)
(*                                                                         *)
(*     (P, _) = tcast({p})   (E, P') = tcast(P)   (C, U) = tcast(P')       *)
(*                                                                         *)
(* A tcast call sends in batches; the scheduler delivers any part of a     *)
(* batch, and what is still wanted goes into the next one. Replicas crash, *)
(* for good, between rounds.                                               *)
(***************************************************************************)
EXTENDS Proposal

CONSTANTS
    None,        \* `None` of Option<V>
    InitVal,     \* InitVal[i]: the value replica i starts with
    Priorities,  \* what a replica's PRNG may draw
    MaxRounds    \* bound on the rounds the driver runs

ASSUME MembershipAssumption == IsFiniteSet(Ids)
ASSUME NoneAssumption       == None \notin Values
ASSUME InitValAssumption    == InitVal \in [Ids -> Values]
ASSUME PrioritiesAssumption == Priorities \subseteq 1..H
ASSUME MaxRoundsAssumption  == MaxRounds \in Nat

VARIABLES
    live,      \* replicas the driver has not crashed
    v,         \* v[i]: replica i's candidate value
    decided,   \* decided[i]: its decision, or None
    rounds,    \* rounds[i]: rounds it has run
    call,      \* which tcast of the round is running: 1, 2, 3, or 0 for none
    inputs,    \* inputs[i]: what i disseminates in this call
    received,  \* received[i]: whose inputs have reached i in this call
    pending,   \* <<src, dst>> pairs the next batch carries
    E          \* E[i]: replica i's existent set of the round

vars == <<live, v, decided, rounds, call, inputs, received, pending, E>>

-----------------------------------------------------------------------------
Threshold == Cardinality(Ids) \div 2 + 1

\* The replica whose dissemination tcast guarantees.
Source == CHOOSE s \in live : \A i \in live : s <= i

\* R_i and B, the results of a finished call.
R(i) == UNION {inputs[j] : j \in received[i]}
B    == inputs[Source]

\* The pairs still worth sending: not arrived, and either from the source or
\* to a replica short of a majority.
Wanted(pairs, rcv) ==
    {p \in pairs : /\ p[1] \notin rcv[p[2]]
                   /\ p[1] = Source \/ Cardinality(rcv[p[2]]) < Threshold}

\* Start a call: everyone holds its own input and sends it to everyone else.
BeginCall(k, in) ==
    LET alone == [i \in Ids |-> IF i \in live THEN {i} ELSE {}] IN
    /\ call' = k
    /\ inputs' = in
    /\ received' = alone
    /\ pending' = Wanted({p \in live \X live : p[1] # p[2]}, alone)

-----------------------------------------------------------------------------
\* Cluster::new
Init ==
    /\ live = Ids
    /\ v = InitVal
    /\ decided = [i \in Ids |-> None]
    /\ rounds = [i \in Ids |-> 0]
    /\ call = 0
    /\ inputs = [i \in Ids |-> {}]
    /\ received = [i \in Ids |-> {}]
    /\ pending = {}
    /\ E = [i \in Ids |-> {}]

\* Cluster::crash, between rounds.
Crash(i) ==
    /\ call = 0
    /\ i \in live
    /\ live' = live \ {i}
    /\ UNCHANGED <<v, decided, rounds, call, inputs, received, pending, E>>

\* run_round, up to the first tcast: each live replica draws a priority for
\* its candidate. tcast's assertion that a majority is live is a precondition.
BeginRound ==
    /\ call = 0
    /\ 2 * Cardinality(live) > Cardinality(Ids)
    /\ \A i \in live : rounds[i] < MaxRounds   \* run_slot's max_rounds
    /\ \E pri \in [live -> Priorities] :
         BeginCall(1, [i \in Ids |->
                         IF i \in live
                         THEN {[priority |-> pri[i], origin |-> i, value |-> v[i]]}
                         ELSE {}])
    /\ UNCHANGED <<live, v, decided, rounds, E>>

\* One pass of tcast's loop: the batch goes out, the kernel runs to
\* quiescence delivering D of it, and the rest is pruned.
Batch ==
    /\ pending # {}
    /\ \E D \in SUBSET pending :
         received' = [i \in Ids |-> received[i] \cup {p[1] : p \in {q \in D : q[2] = i}}]
    /\ pending' = Wanted(pending, received')
    /\ UNCHANGED <<live, v, decided, rounds, call, inputs, E>>

\* tcast(P): what each replica gathered is what it sends next.
GatherP ==
    /\ call = 1 /\ pending = {}
    /\ BeginCall(2, [i \in Ids |-> IF i \in live THEN R(i) ELSE {}])
    /\ UNCHANGED <<live, v, decided, rounds, E>>

\* A third call on each replica's own gathered set.
GatherEOwn ==
    /\ call = 2 /\ pending = {}
    /\ E' = [i \in Ids |-> IF i \in live THEN R(i) ELSE {}]
    /\ BeginCall(3, [i \in Ids |-> IF i \in live THEN R(i) ELSE {}])
    /\ UNCHANGED <<live, v, decided, rounds>>

\* tcast(P'): the existent sets are kept, and everyone sends the common B.
GatherE ==
    /\ call = 2 /\ pending = {}
    /\ E' = [i \in Ids |-> IF i \in live THEN R(i) ELSE {}]
    /\ BeginCall(3, [i \in Ids |-> IF i \in live THEN B ELSE {}])
    /\ UNCHANGED <<live, v, decided, rounds>>

\* The end of a round, with the set candidates are taken from and the test
\* for a decision as parameters.
EndRound(Candidates(_), Detected(_)) ==
    /\ call = 3 /\ pending = {}
    /\ v' = [i \in Ids |-> IF i \in live THEN Best(Candidates(i)).value ELSE v[i]]
    /\ rounds' = [i \in Ids |-> IF i \in live THEN rounds[i] + 1 ELSE rounds[i]]
    /\ decided' = [i \in Ids |->
                     IF i \in live /\ decided[i] = None /\ Detected(i)
                     THEN Best(Candidates(i)).value
                     ELSE decided[i]]
    /\ call' = 0
    /\ inputs' = [i \in Ids |-> {}]
    /\ received' = [i \in Ids |-> {}]
    /\ E' = [i \in Ids |-> {}]
    /\ UNCHANGED <<live, pending>>

\* Two wrong ends: adopting the best of E, and deciding it without a test.
GatherCFromE == LET S(i) == E[i]
                    T(i) == Best(E[i]) = Best(B)
                IN  EndRound(S, T)
GatherCUntested == LET S(i) == E[i]
                       T(i) == TRUE
                   IN  EndRound(S, T)

\* The rest of run_round: adopt the best of C, decide if best(E) = best(U).
GatherC == LET C(i) == R(i)
               T(i) == Best(E[i]) = Best(B)
           IN  EndRound(C, T)

Next ==
    \/ \E i \in Ids : Crash(i)
    \/ BeginRound \/ Batch \/ GatherP \/ GatherE \/ GatherC

Spec == Init /\ [][Next]_vars

-----------------------------------------------------------------------------
\* Type invariant.
TypeOK ==
    /\ live \subseteq Ids
    /\ v \in [Ids -> Values]
    /\ decided \in [Ids -> Values \cup {None}]
    /\ rounds \in [Ids -> 0..MaxRounds]
    /\ call \in 0..3
    /\ inputs \in [Ids -> SUBSET Proposals]
    /\ received \in [Ids -> SUBSET Ids]
    /\ pending \subseteq Ids \X Ids
    /\ E \in [Ids -> SUBSET Proposals]

\* tcast's contract, whatever the batches lost: when a call ends, every live
\* replica holds the inputs of a majority of the membership, and all of them
\* hold the source's, which is the B they are all given.
TcastContract ==
    call # 0 /\ pending = {} =>
      \A i \in live : Cardinality(received[i]) >= Threshold /\ Source \in received[i]

\* The assertion run_round makes after the third call: U is in every common
\* set, and every common set is in every existent set.
CruxInvariant ==
    call = 3 /\ pending = {} =>
      \A i, j \in live : B \subseteq R(j) /\ R(j) \subseteq E[i]

\* From the end of the round in which anyone decides, the decision is the
\* candidate of every live replica, so no later round can decide otherwise,
\* not even if everyone who decided has crashed.
CandidateLock ==
    \A i \in Ids : decided[i] # None => \A j \in live : v[j] = decided[i]

\* P1 to P4: the rounds implement Consensus.
Slot == INSTANCE Consensus WITH
    proposed <- IF call = 0 /\ \A i \in Ids : rounds[i] = 0 THEN {}
                ELSE {InitVal[i] : i \in Ids},
    decision <- decided

ImplementsConsensus == Slot!Spec

-----------------------------------------------------------------------------
\* The inductive invariant. A running call's bookkeeping: every pair of live
\* replicas has exchanged, is still to exchange, or was given up by a receiver
\* with a majority.
CallInv ==
    /\ call = 0 => pending = {}
    /\ call # 0 =>
         /\ 2 * Cardinality(live) > Cardinality(Ids)
         /\ pending \subseteq live \X live
         /\ \A d \in live :
              /\ rounds[d] < MaxRounds
              /\ inputs[d] # {} /\ IsFiniteSet(inputs[d])
              /\ d \in received[d] /\ received[d] \subseteq live
              /\ \A s \in live :
                   \/ s \in received[d]
                   \/ <<s, d>> \in pending
                   \/ s # Source /\ Cardinality(received[d]) >= Threshold

\* In the third call all inputs are one set, and it is in every E.
CommonInv == call = 3 => \A i, j \in live : inputs[i] = inputs[j] /\ inputs[i] \subseteq E[j]

\* A decided value is everyone's decision, candidate and proposal.
LockInv ==
    \A i \in Ids : decided[i] # None =>
      /\ \A j \in Ids : decided[j] \in {None, decided[i]}
      /\ \A j \in live : v[j] = decided[i] /\ \A p \in inputs[j] : p.value = decided[i]

\* Candidates and proposals come from the initial values, and once anyone has
\* decided, a round has been run.
Initial == {InitVal[i] : i \in Ids}

OriginInv ==
    /\ \A i \in Ids : v[i] \in Initial /\ \A p \in inputs[i] : p.value \in Initial
    /\ \A i \in Ids : decided[i] # None => \E j \in Ids : rounds[j] # 0

AInv == TypeOK /\ CallInv /\ CommonInv /\ LockInv /\ OriginInv
=============================================================================
