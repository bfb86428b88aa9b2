--------------------------- MODULE ProposalProofs ---------------------------
(***************************************************************************)
(* The order on proposals is total, every finite non-empty set of them has *)
(* a maximum, and Best returns it.                                         *)
(***************************************************************************)
EXTENDS Proposal, FiniteSetTheorems, WellFoundedInduction, TLAPS

USE PriorityAssumption, IdsAssumption, ValuesAssumption

\* The fields of optional proposals are numbers, and only Nil has priority 0.
LEMMA OptProposalFields ==
    ASSUME NEW p \in OptProposals
    PROVE  /\ p.priority \in Nat /\ p.origin \in Nat /\ p.value \in Nat
           /\ p = [priority |-> p.priority, origin |-> p.origin, value |-> p.value]
           /\ p.priority <= H
           /\ p \in Proposals <=> p # Nil
           /\ p \in Proposals <=> p.priority >= 1
<1>1. CASE p \in Proposals
  <2>1. /\ p.priority \in 1..H /\ p.origin \in Ids /\ p.value \in Values
        /\ p = [priority |-> p.priority, origin |-> p.origin, value |-> p.value]
    BY <1>1 DEF Proposals
  <2>2. p.priority \in Nat /\ p.priority >= 1 /\ p.priority <= H
    BY <2>1
  <2>3. p # Nil BY <2>2 DEF Nil
  <2>4. QED BY <1>1, <2>1, <2>2, <2>3
<1>2. CASE p = Nil
  <2>1. /\ p.priority = 0 /\ p.origin = 0 /\ p.value = 0
        /\ p = [priority |-> p.priority, origin |-> p.origin, value |-> p.value]
    BY <1>2 DEF Nil
  <2>2. p \notin Proposals
    BY <2>1 DEF Proposals
  <2>3. QED BY <1>2, <2>1, <2>2
<1>3. QED BY <1>1, <1>2 DEF OptProposals

\* impl Ord for Proposal is reflexive, transitive, antisymmetric and total on
\* Option<Proposal>.
LEMMA LeqReflexive ==
    ASSUME NEW p \in OptProposals PROVE Leq(p, p)
BY OptProposalFields DEF Leq

LEMMA LeqTransitive ==
    ASSUME NEW p \in OptProposals, NEW q \in OptProposals, NEW r \in OptProposals,
           Leq(p, q), Leq(q, r)
    PROVE  Leq(p, r)
BY OptProposalFields DEF Leq

LEMMA LeqAntisymmetric ==
    ASSUME NEW p \in OptProposals, NEW q \in OptProposals, Leq(p, q), Leq(q, p)
    PROVE  p = q
<1>1. p.priority = q.priority /\ p.origin = q.origin /\ p.value = q.value
  BY OptProposalFields DEF Leq
<1>2. QED BY <1>1, OptProposalFields, Zenon

LEMMA LeqTotal ==
    ASSUME NEW p \in OptProposals, NEW q \in OptProposals
    PROVE  Leq(p, q) \/ Leq(q, p)
BY OptProposalFields DEF Leq

\* Nothing but Nil is below Nil.
LEMMA LeqNil ==
    ASSUME NEW p \in Proposals PROVE ~Leq(p, Nil)
<1>1. p \in OptProposals BY DEF OptProposals
<1>2. Nil.priority = 0 BY DEF Nil
<1>3. p.priority >= 1 BY <1>1, OptProposalFields
<1>4. QED BY <1>1, <1>2, <1>3, OptProposalFields DEF Leq

\* max_option returns one of its arguments, and no less than either.
LEMMA MaxOptionFacts ==
    ASSUME NEW a \in OptProposals, NEW b \in OptProposals
    PROVE  /\ MaxOption(a, b) \in {a, b}
           /\ Leq(a, MaxOption(a, b)) /\ Leq(b, MaxOption(a, b))
BY LeqReflexive, LeqTotal DEF MaxOption

-----------------------------------------------------------------------------
\* The image of a finite set under a function is finite.
LEMMA FiniteImage ==
    ASSUME NEW S, IsFiniteSet(S), NEW f, DOMAIN f = S
    PROVE  IsFiniteSet({f[x] : x \in S})
<1> DEFINE T == {f[x] : x \in S}
           g == [x \in S |-> f[x]]
<1>1. g \in Surjection(S, T) BY DEF Surjection
<1>2. QED BY <1>1, FS_Surjection, Zenon

\* A total and transitive relation on a finite non-empty set has a maximum: a
\* subset of least cardinality without one would have one.
LEMMA FiniteMaximum ==
    ASSUME NEW S, IsFiniteSet(S), S # {}, NEW R,
           \A x, y \in S : <<x, y>> \in R \/ <<y, x>> \in R,
           \A x, y, z \in S : <<x, y>> \in R /\ <<y, z>> \in R => <<x, z>> \in R
    PROVE  \E m \in S : \A x \in S : <<x, m>> \in R
<1> DEFINE HasMax(A) == \E m \in A : \A x \in A : <<x, m>> \in R
           Bad == {A \in SUBSET S : A # {} /\ ~HasMax(A)}
           Sizes == {Cardinality(A) : A \in Bad}
<1>1. SUFFICES ASSUME Bad # {} PROVE FALSE
  BY DEF Bad
<1>2. \A A \in Bad : IsFiniteSet(A) /\ Cardinality(A) \in Nat
  BY FS_Subset, FS_CardinalityType
<1>3. \E n \in Sizes : \A k \in Sizes : ~(<<k, n>> \in OpToRel(<, Nat))
  <2>1. Sizes \subseteq Nat /\ Sizes # {} BY <1>1, <1>2
  <2>2. QED BY <2>1, NatLessThanWellFounded, WFMin
<1>4. PICK A \in Bad : \A B \in Bad : ~(Cardinality(B) < Cardinality(A))
  <2> HIDE DEF Bad
  <2>1. PICK n \in Sizes : \A k \in Sizes : ~(<<k, n>> \in OpToRel(<, Nat))
    BY <1>3
  <2>2. PICK A \in Bad : n = Cardinality(A)
    BY <2>1
  <2>3. \A B \in Bad : ~(Cardinality(B) < n)
    BY <1>2, <2>1, <2>2 DEF OpToRel
  <2>4. QED BY <2>2, <2>3
<1>5. PICK a \in A : TRUE BY <1>4
<1>6. /\ IsFiniteSet(A \ {a}) /\ Cardinality(A \ {a}) = Cardinality(A) - 1
      /\ Cardinality(A) \in Nat
  BY <1>2, <1>5, FS_RemoveElement
<1>7. A \ {a} \notin Bad
  <2> HIDE DEF Bad
  <2> QED BY <1>4, <1>6
<1>8. CASE A \ {a} = {}
  BY <1>4, <1>5, <1>8
<1>9. CASE A \ {a} # {}
  <2>1. PICK m \in A \ {a} : \A x \in A \ {a} : <<x, m>> \in R
    BY <1>7, <1>9
  <2>2. \A x \in A : x = a \/ <<x, m>> \in R
    BY <2>1
  <2>3. <<a, a>> \in R /\ a \in S /\ m \in S /\ A \subseteq S
    BY <1>5, <2>1
  <2>4. HasMax(A)
    <3>1. CASE <<a, m>> \in R BY <2>1, <2>2, <3>1
    <3>2. CASE <<m, a>> \in R
      <4>1. \A x \in A : <<x, a>> \in R BY <2>2, <2>3, <3>2
      <4>2. QED BY <4>1, <1>5
    <3>3. <<a, m>> \in R \/ <<m, a>> \in R BY <2>3
    <3>4. QED
      <4> HIDE DEF HasMax
      <4> QED BY <3>1, <3>2, <3>3
  <2>5. QED BY <2>4, <1>4
<1>10. QED BY <1>8, <1>9

\* best and best_of return the maximum of the proposals they are given.
LEMMA BestIsMaximum ==
    ASSUME NEW S \in SUBSET OptProposals, IsFiniteSet(S), S # {}
    PROVE  Best(S) \in S /\ \A p \in S : Leq(p, Best(S))
<1> DEFINE R == {z \in S \X S : Leq(z[1], z[2])}
<1>1. \A x, y \in S : <<x, y>> \in R <=> Leq(x, y)
  OBVIOUS
<1>2. \A x, y \in S : <<x, y>> \in R \/ <<y, x>> \in R
  BY <1>1, LeqTotal
<1>3. \A x, y, z \in S : <<x, y>> \in R /\ <<y, z>> \in R => <<x, z>> \in R
  BY <1>1, LeqTransitive
<1>4. \E m \in S : \A x \in S : <<x, m>> \in R
  <2> HIDE DEF R
  <2> QED BY <1>2, <1>3, FiniteMaximum
<1>5. \E m \in S : IsBest(m, S)
  BY <1>1, <1>4 DEF IsBest
<1>6. IsBest(Best(S), S)
  BY <1>5 DEF Best
<1>7. QED BY <1>6 DEF IsBest
=============================================================================
