------------------------- MODULE AlgorithmOneProofs -------------------------
(***************************************************************************)
(* Safety of Algorithm 1 over tcast, for any number of replicas, rounds    *)
(* and crashes, any draws and any loss: tcast's contract, the relation     *)
(* between U, C and E, the lock on a decided value and the refinement of   *)
(* Consensus.                                                              *)
(***************************************************************************)
EXTENDS AlgorithmOne, ProposalProofs

-----------------------------------------------------------------------------
\* b_src exists while anyone is live.
LEMMA SourceIsLive ==
    ASSUME live \subseteq Ids, live # {}
    PROVE  Source \in live
<1> DEFINE G == {z \in live \X live : z[2] <= z[1]}
<1>1. \A x \in live : x \in Nat
  BY IdsAssumption
<1>2. \A x, y \in live : <<x, y>> \in G <=> y <= x
  OBVIOUS
<1>3. \A x, y \in live : <<x, y>> \in G \/ <<y, x>> \in G
  <2> SUFFICES ASSUME NEW x \in live, NEW y \in live
               PROVE  <<x, y>> \in G \/ <<y, x>> \in G
    OBVIOUS
  <2>1. x <= y \/ y <= x BY <1>1
  <2> HIDE DEF G
  <2>2. QED BY <1>2, <2>1
<1>4. \A x, y, z \in live : <<x, y>> \in G /\ <<y, z>> \in G => <<x, z>> \in G
  <2> SUFFICES ASSUME NEW x \in live, NEW y \in live, NEW z \in live,
                      <<x, y>> \in G, <<y, z>> \in G
               PROVE  <<x, z>> \in G
    OBVIOUS
  <2>1. y <= x /\ z <= y BY <1>2
  <2>2. z <= x BY <1>1, <2>1
  <2> HIDE DEF G
  <2>3. QED BY <1>2, <2>2
<1>5. IsFiniteSet(live)
  BY MembershipAssumption, FS_Subset
<1>6. \E m \in live : \A x \in live : <<x, m>> \in G
  <2> HIDE DEF G
  <2> QED BY <1>3, <1>4, <1>5, FiniteMaximum
<1>7. \E m \in live : \A x \in live : m <= x
  BY <1>2, <1>6
<1>8. QED BY <1>7 DEF Source

\* What a live replica gathered is a finite, non-empty set of proposals that
\* were inputs of live replicas.
LEMMA GatheredFacts ==
    ASSUME TypeOK, CallInv, call # 0, NEW i \in live
    PROVE  /\ i \in Ids
           /\ R(i) # {} /\ IsFiniteSet(R(i)) /\ R(i) \in SUBSET OptProposals
           /\ R(i) \subseteq Proposals
           /\ \A p \in R(i) : \E j \in live : p \in inputs[j]
           /\ inputs[i] \subseteq R(i)
<1>1. i \in Ids /\ received[i] \subseteq live /\ i \in received[i]
  BY DEF TypeOK, CallInv
<1>2. \A j \in live : inputs[j] # {} /\ IsFiniteSet(inputs[j]) /\ inputs[j] \subseteq Proposals
  BY DEF TypeOK, CallInv
<1>3. R(i) # {} /\ inputs[i] \subseteq R(i) /\ \A p \in R(i) : \E j \in live : p \in inputs[j]
  BY <1>1, <1>2 DEF R
<1>4. R(i) \subseteq Proposals
  BY <1>2, <1>3
<1>5. IsFiniteSet(R(i))
  <2> DEFINE f == [j \in received[i] |-> inputs[j]]
  <2>1. IsFiniteSet(received[i])
    BY <1>1, MembershipAssumption, FS_Subset DEF TypeOK
  <2>2. IsFiniteSet({f[j] : j \in received[i]})
    <3>1. DOMAIN f = received[i] OBVIOUS
    <3> HIDE DEF f
    <3> QED BY <2>1, <3>1, FiniteImage
  <2>3. {f[j] : j \in received[i]} = {inputs[j] : j \in received[i]}
    OBVIOUS
  <2>4. \A T \in {inputs[j] : j \in received[i]} : IsFiniteSet(T)
    BY <1>1, <1>2
  <2>5. QED BY <2>2, <2>3, <2>4, FS_UNION DEF R
<1>6. QED BY <1>1, <1>3, <1>4, <1>5 DEF OptProposals

-----------------------------------------------------------------------------
(* The invariant.                                                          *)

\* Starting a call establishes its bookkeeping.
LEMMA BeginCallInv ==
    ASSUME TypeOK, NEW k \in {1, 2, 3}, NEW in \in [Ids -> SUBSET Proposals],
           BeginCall(k, in), live' = live,
           2 * Cardinality(live) > Cardinality(Ids),
           rounds' = rounds, \A i \in live : rounds[i] < MaxRounds,
           \A i \in live : in[i] # {} /\ IsFiniteSet(in[i])
    PROVE  /\ CallInv' /\ call' = k /\ inputs' = in
           /\ received' \in [Ids -> SUBSET Ids] /\ pending' \subseteq Ids \X Ids
<1> DEFINE alone == [i \in Ids |-> IF i \in live THEN {i} ELSE {}]
           pairs == {p \in live \X live : p[1] # p[2]}
<1>1. /\ call' = k /\ inputs' = in /\ received' = alone
      /\ pending' = Wanted(pairs, alone) /\ live \subseteq Ids
  BY DEF BeginCall, TypeOK
<1>2. /\ pending' \subseteq live \X live
      /\ \A d \in live : d \in received'[d] /\ received'[d] \subseteq live
  BY <1>1 DEF Wanted
<1>3. Source' = Source
  BY DEF Source
<1>4. ASSUME NEW s \in live, NEW d \in live
      PROVE  \/ s \in received'[d]
             \/ <<s, d>> \in pending'
             \/ s # Source /\ Cardinality(received'[d]) >= Threshold
  <2>1. CASE s = d BY <1>1, <2>1
  <2>2. CASE s # d
    <3>1. <<s, d>> \in pairs BY <2>2
    <3>2. s \notin alone[d] BY <1>1, <2>2
    <3>3. alone[d] = {d} /\ Cardinality({d}) = 1 BY <1>1, FS_Singleton
    <3>4. Cardinality(Ids) \in Nat BY MembershipAssumption, FS_CardinalityType
    <3>5. Threshold \in Nat BY <3>4 DEF Threshold
    <3>6. Cardinality(alone[d]) = 1 BY <3>3
    <3> HIDE DEF alone, pairs
    <3>7. Cardinality(alone[d]) < Threshold \/ Cardinality(alone[d]) >= Threshold
      BY <3>5, <3>6
    <3>8. \/ <<s, d>> \in Wanted(pairs, alone)
          \/ s # Source /\ ~(Cardinality(alone[d]) < Threshold)
      BY <3>1, <3>2 DEF Wanted
    <3>9. QED BY <1>1, <3>7, <3>8
  <2>3. QED BY <2>1, <2>2
<1>5. received' \in [Ids -> SUBSET Ids]
  BY <1>1
<1>6. CallInv'
  <2> HIDE DEF alone, pairs
  <2>1. Threshold' = Threshold BY DEF Threshold
  <2>2. call' # 0 BY <1>1
  <2>3. \A d \in live : /\ rounds'[d] < MaxRounds
                        /\ inputs'[d] # {} /\ IsFiniteSet(inputs'[d])
    BY <1>1
  <2>4. QED BY <1>2, <1>3, <1>4, <2>1, <2>2, <2>3 DEF CallInv
<1>7. QED BY <1>1, <1>2, <1>5, <1>6

LEMMA BatchInv ==
    ASSUME AInv, Batch
    PROVE  AInv'
<1>1. TypeOK /\ CallInv /\ CommonInv /\ LockInv /\ OriginInv
  BY DEF AInv
<1>2. PICK D \in SUBSET pending :
        received' = [i \in Ids |-> received[i] \cup {p[1] : p \in {q \in D : q[2] = i}}]
  BY DEF Batch
<1>3. /\ pending' = Wanted(pending, received') /\ call # 0 /\ pending \subseteq live \X live
      /\ UNCHANGED <<live, v, decided, rounds, call, inputs, E>>
      /\ live \subseteq Ids
  BY <1>1 DEF Batch, CallInv, TypeOK
<1>4. \A q \in D : q[1] \in live
  BY <1>2, <1>3
<1>5. \A d \in live : received[d] \subseteq received'[d] /\ received'[d] \subseteq live
  <2> SUFFICES ASSUME NEW d \in live
               PROVE  received[d] \subseteq received'[d] /\ received'[d] \subseteq live
    OBVIOUS
  <2>1. received[d] \subseteq live BY <1>1, <1>3 DEF CallInv
  <2>2. received'[d] = received[d] \cup {p[1] : p \in {q \in D : q[2] = d}}
    BY <1>2, <1>3
  <2>3. QED BY <1>4, <2>1, <2>2
<1>6. received' \in [Ids -> SUBSET Ids]
  <2>1. \A i \in Ids : received[i] \cup {p[1] : p \in {q \in D : q[2] = i}} \in SUBSET Ids
    BY <1>1, <1>3, <1>4 DEF TypeOK
  <2>2. QED BY <1>2, <2>1
<1>7. TypeOK'
  <2>1. pending' \subseteq Ids \X Ids BY <1>1, <1>3 DEF Wanted, TypeOK
  <2>2. QED BY <1>1, <1>3, <1>6, <2>1 DEF TypeOK
<1>8. Source' = Source /\ Threshold' = Threshold
  BY <1>3 DEF Source, Threshold
<1>9. ASSUME NEW s \in live, NEW d \in live
      PROVE  \/ s \in received'[d]
             \/ <<s, d>> \in pending'
             \/ s # Source /\ Cardinality(received'[d]) >= Threshold
  <2>1. IsFiniteSet(received'[d]) /\ received[d] \in SUBSET received'[d]
    BY <1>3, <1>5, MembershipAssumption, FS_Subset
  <2>2. /\ Cardinality(received[d]) <= Cardinality(received'[d])
        /\ Cardinality(received[d]) \in Nat /\ Cardinality(received'[d]) \in Nat
    BY <2>1, FS_Subset, FS_CardinalityType
  <2>3. Threshold \in Nat
    BY MembershipAssumption, FS_CardinalityType DEF Threshold
  <2>4. CASE s \in received[d] BY <1>5, <2>4
  <2>5. CASE s # Source /\ Cardinality(received[d]) >= Threshold
    BY <2>2, <2>3, <2>5
  <2>6. CASE <<s, d>> \in pending
    <3>1. \/ s \in received'[d]
          \/ <<s, d>> \in Wanted(pending, received')
          \/ s # Source /\ ~(Cardinality(received'[d]) < Threshold)
      BY <1>8, <2>6 DEF Wanted
    <3>2. QED BY <1>3, <2>2, <2>3, <3>1
  <2>7. QED BY <1>1, <1>3, <2>4, <2>5, <2>6 DEF CallInv
<1>10. CallInv'
  <2>1. pending' \subseteq live \X live BY <1>3 DEF Wanted
  <2>2. QED BY <1>1, <1>3, <1>5, <1>8, <1>9, <2>1 DEF CallInv
<1>11. CommonInv' /\ LockInv' /\ OriginInv'
  BY <1>1, <1>3 DEF CommonInv, LockInv, OriginInv, Initial
<1>12. QED BY <1>7, <1>10, <1>11 DEF AInv

\* When a call ends, the source's input has reached everyone.
LEMMA Contract == AInv => TcastContract
<1> SUFFICES ASSUME AInv, call # 0, pending = {}, NEW i \in live
             PROVE  Cardinality(received[i]) >= Threshold /\ Source \in received[i]
  BY DEF TcastContract
<1>1. /\ TypeOK /\ CallInv /\ live \subseteq Ids
  BY DEF AInv, TypeOK
<1>2. Cardinality(Ids) \in Nat /\ Cardinality(live) \in Nat /\ IsFiniteSet(live)
  BY <1>1, MembershipAssumption, FS_CardinalityType, FS_Subset
<1>3. Source \in received[i]
  <2>1. Source \in live BY <1>1, SourceIsLive
  <2>2. QED BY <1>1, <2>1 DEF CallInv
<1>4. ASSUME ~(Cardinality(received[i]) >= Threshold) PROVE FALSE
  <2>1. \A s \in live : s \in received[i] BY <1>1, <1>4 DEF CallInv
  <2>2. received[i] = live BY <1>1, <2>1 DEF CallInv
  <2>3. 2 * Cardinality(live) > Cardinality(Ids) BY <1>1 DEF CallInv
  <2>4. QED BY <1>2, <1>4, <2>2, <2>3 DEF Threshold
<1>5. QED BY <1>3, <1>4

\* In the third call everyone gathers the same set, and it is B.
LEMMA ThirdCall ==
    ASSUME AInv, call = 3, NEW i \in live
    PROVE  R(i) = B /\ inputs[i] = B
<1>1. TypeOK /\ CallInv /\ CommonInv /\ live \subseteq Ids
  BY DEF AInv, TypeOK
<1>2. Source \in live BY <1>1, SourceIsLive
<1>3. \A j \in live : inputs[j] = B BY <1>1, <1>2 DEF CommonInv, B
<1>4. received[i] \subseteq live /\ i \in received[i] BY <1>1 DEF CallInv
<1>5. QED BY <1>3, <1>4 DEF R

LEMMA CrashInv ==
    ASSUME AInv, NEW x \in Ids, Crash(x)
    PROVE  AInv'
<1>1. /\ TypeOK /\ CallInv /\ LockInv /\ OriginInv
      /\ call = 0 /\ call' = 0 /\ live' = live \ {x}
      /\ UNCHANGED <<v, decided, rounds, call, inputs, received, pending, E>>
  BY DEF AInv, Crash
<1>2. TypeOK' BY <1>1 DEF TypeOK
<1>3. CallInv' /\ CommonInv' BY <1>1 DEF CallInv, CommonInv
<1>4. LockInv' /\ OriginInv' BY <1>1 DEF LockInv, OriginInv, Initial
<1>5. QED BY <1>2, <1>3, <1>4 DEF AInv

LEMMA BeginRoundInv ==
    ASSUME AInv, BeginRound
    PROVE  AInv'
<1>1. /\ TypeOK /\ LockInv /\ OriginInv
      /\ 2 * Cardinality(live) > Cardinality(Ids) /\ \A i \in live : rounds[i] < MaxRounds
      /\ live' = live /\ rounds' = rounds /\ UNCHANGED <<v, decided, E>>
      /\ live \subseteq Ids
  BY DEF AInv, BeginRound, TypeOK
<1> DEFINE In(pri) == [i \in Ids |->
                         IF i \in live
                         THEN {[priority |-> pri[i], origin |-> i, value |-> v[i]]}
                         ELSE {}]
<1>2. PICK pri \in [live -> Priorities] : BeginCall(1, In(pri))
  BY DEF BeginRound
<1>3. \A i \in live : [priority |-> pri[i], origin |-> i, value |-> v[i]] \in Proposals
  BY <1>1, PrioritiesAssumption DEF TypeOK, Proposals
<1>4. In(pri) \in [Ids -> SUBSET Proposals]
  BY <1>3
<1>5. \A i \in live : In(pri)[i] # {} /\ IsFiniteSet(In(pri)[i])
  BY <1>1, FS_Singleton
<1>6. \A i \in Ids : \A p \in In(pri)[i] : p.value = v[i]
  OBVIOUS
<1>7. /\ CallInv' /\ call' = 1 /\ inputs' = In(pri)
      /\ received' \in [Ids -> SUBSET Ids] /\ pending' \subseteq Ids \X Ids
  <2> HIDE DEF In
  <2> QED BY <1>1, <1>2, <1>4, <1>5, BeginCallInv
<1> HIDE DEF In
<1>8. TypeOK' BY <1>1, <1>4, <1>7 DEF TypeOK
<1>9. CommonInv' BY <1>7 DEF CommonInv
<1>10. LockInv'
  BY <1>1, <1>6, <1>7 DEF LockInv
<1>11. OriginInv'
  BY <1>1, <1>6, <1>7 DEF OriginInv, Initial
<1>12. QED BY <1>7, <1>8, <1>9, <1>10, <1>11 DEF AInv

LEMMA GatherPInv ==
    ASSUME AInv, GatherP
    PROVE  AInv'
<1> DEFINE in == [i \in Ids |-> IF i \in live THEN R(i) ELSE {}]
<1>1. /\ TypeOK /\ CallInv /\ LockInv /\ OriginInv /\ call = 1 /\ call # 0
      /\ live' = live /\ rounds' = rounds /\ UNCHANGED <<v, decided, E>>
      /\ live \subseteq Ids
      /\ BeginCall(2, in)
  BY DEF AInv, GatherP, TypeOK
<1>2. 2 * Cardinality(live) > Cardinality(Ids) /\ \A i \in live : rounds[i] < MaxRounds
  BY <1>1 DEF CallInv
<1>3. \A i \in live : /\ R(i) # {} /\ IsFiniteSet(R(i)) /\ R(i) \subseteq Proposals
                      /\ \A p \in R(i) : \E j \in live : p \in inputs[j]
  BY <1>1, GatheredFacts
<1>4. in \in [Ids -> SUBSET Proposals] BY <1>3
<1>5. \A i \in live : in[i] # {} /\ IsFiniteSet(in[i]) BY <1>1, <1>3
<1>6. \A i \in Ids : \A p \in in[i] : \E j \in live : p \in inputs[j] BY <1>3
<1> HIDE DEF in
<1>7. /\ CallInv' /\ call' = 2 /\ inputs' = in
      /\ received' \in [Ids -> SUBSET Ids] /\ pending' \subseteq Ids \X Ids
  BY <1>1, <1>2, <1>4, <1>5, BeginCallInv
<1>8. TypeOK' BY <1>1, <1>4, <1>7 DEF TypeOK
<1>9. CommonInv' BY <1>7 DEF CommonInv
<1>10. LockInv' BY <1>1, <1>6, <1>7 DEF LockInv
<1>11. OriginInv' BY <1>1, <1>6, <1>7 DEF OriginInv, Initial
<1>12. QED BY <1>7, <1>8, <1>9, <1>10, <1>11 DEF AInv

LEMMA GatherEInv ==
    ASSUME AInv, GatherE
    PROVE  AInv'
<1> DEFINE in == [i \in Ids |-> IF i \in live THEN B ELSE {}]
<1>1. /\ TypeOK /\ CallInv /\ LockInv /\ OriginInv /\ call = 2 /\ call # 0 /\ pending = {}
      /\ live' = live /\ rounds' = rounds /\ UNCHANGED <<v, decided>>
      /\ E' = [i \in Ids |-> IF i \in live THEN R(i) ELSE {}]
      /\ live \subseteq Ids
      /\ BeginCall(3, in)
  BY DEF AInv, GatherE, TypeOK
<1>2. 2 * Cardinality(live) > Cardinality(Ids) /\ \A i \in live : rounds[i] < MaxRounds
  BY <1>1 DEF CallInv
<1>3. \A i \in live : R(i) \subseteq Proposals
  BY <1>1, GatheredFacts
<1>4. live # {} => Source \in live BY <1>1, SourceIsLive
<1>5. live # {} => B # {} /\ IsFiniteSet(B) /\ B \subseteq Proposals
  BY <1>1, <1>4 DEF CallInv, B, TypeOK
<1>6. in \in [Ids -> SUBSET Proposals] BY <1>5
<1>7. \A i \in live : in[i] # {} /\ IsFiniteSet(in[i]) BY <1>1, <1>5
<1>8. \A i \in Ids : \A p \in in[i] : \E j \in live : p \in inputs[j]
  BY <1>4 DEF B
<1>9. \A j \in live : B \subseteq R(j)
  BY <1>1, Contract DEF TcastContract, B, R
<1>10. \A i, j \in live : in[i] = in[j] /\ in[i] \subseteq E'[j]
  BY <1>1, <1>9
<1> HIDE DEF in
<1>11. /\ CallInv' /\ call' = 3 /\ inputs' = in
       /\ received' \in [Ids -> SUBSET Ids] /\ pending' \subseteq Ids \X Ids
  BY <1>1, <1>2, <1>6, <1>7, BeginCallInv
<1>12. E' \in [Ids -> SUBSET Proposals] BY <1>1, <1>3
<1>13. TypeOK' BY <1>1, <1>6, <1>11, <1>12 DEF TypeOK
<1>14. CommonInv' BY <1>1, <1>10, <1>11 DEF CommonInv
<1>15. LockInv' BY <1>1, <1>8, <1>11 DEF LockInv
<1>16. OriginInv' BY <1>1, <1>8, <1>11 DEF OriginInv, Initial
<1>17. QED BY <1>11, <1>13, <1>14, <1>15, <1>16 DEF AInv

\* A round ends with one value w, the best of B: every live replica adopts it,
\* every new decision is w, and w is what an earlier decision was.
LEMMA RoundEnd ==
    ASSUME AInv, GatherC
    PROVE  /\ live # {}
           /\ \E w \in Values \cap Initial :
                /\ \A i \in Ids : decided[i] \in {None, w}
                /\ v' = [i \in Ids |-> IF i \in live THEN w ELSE v[i]]
                /\ \E D \in SUBSET live :
                     /\ \A i \in D : decided[i] = None
                     /\ decided' = [i \in Ids |-> IF i \in D THEN w ELSE decided[i]]
<1>1. /\ TypeOK /\ CallInv /\ LockInv /\ OriginInv /\ call = 3 /\ call # 0
      /\ live \subseteq Ids
      /\ v' = [i \in Ids |-> IF i \in live THEN Best(R(i)).value ELSE v[i]]
      /\ decided' = [i \in Ids |->
                       IF i \in live /\ decided[i] = None /\ Best(E[i]) = Best(B)
                       THEN Best(R(i)).value
                       ELSE decided[i]]
  BY DEF AInv, TypeOK, GatherC, EndRound
<1>2. live # {}
  <2>1. 2 * Cardinality(live) > Cardinality(Ids) BY <1>1 DEF CallInv
  <2>2. Cardinality({}) = 0 /\ Cardinality(Ids) \in Nat
    BY MembershipAssumption, FS_EmptySet, FS_CardinalityType
  <2>3. QED BY <2>1, <2>2
<1>3. Source \in live BY <1>1, <1>2, SourceIsLive
<1>4. \A i \in live : R(i) = B BY <1>1, ThirdCall
<1>5. Best(B) \in B
  <2>1. B \in SUBSET OptProposals /\ IsFiniteSet(B) /\ B # {}
    BY <1>1, <1>3 DEF B, CallInv, TypeOK, OptProposals
  <2>2. QED BY <2>1, BestIsMaximum
<1> DEFINE w == Best(B).value
           D == {i \in live : decided[i] = None /\ Best(E[i]) = Best(B)}
<1>6. w \in Values /\ w \in Initial
  <2>1. Best(B) \in Proposals BY <1>1, <1>3, <1>5 DEF B, TypeOK
  <2>2. w \in Values BY <2>1 DEF Proposals
  <2>3. QED BY <1>1, <1>3, <1>5, <2>2 DEF B, OriginInv
<1>7. \A i \in Ids : decided[i] \in {None, w}
  BY <1>1, <1>3, <1>5 DEF B, LockInv
<1>8. v' = [i \in Ids |-> IF i \in live THEN w ELSE v[i]]
  BY <1>1, <1>4
<1>9. decided' = [i \in Ids |-> IF i \in D THEN w ELSE decided[i]]
  BY <1>1, <1>4
<1>10. D \in SUBSET live /\ \A i \in D : decided[i] = None
  OBVIOUS
<1> HIDE DEF w, D
<1>11. QED BY <1>2, <1>6, <1>7, <1>8, <1>9, <1>10

LEMMA GatherCInv ==
    ASSUME AInv, GatherC
    PROVE  AInv'
<1>1. /\ TypeOK /\ CallInv /\ LockInv /\ OriginInv /\ call = 3 /\ call # 0 /\ pending = {}
      /\ live \subseteq Ids /\ live' = live /\ pending' = {}
      /\ rounds' = [i \in Ids |-> IF i \in live THEN rounds[i] + 1 ELSE rounds[i]]
      /\ call' = 0
      /\ inputs' = [i \in Ids |-> {}]
      /\ received' = [i \in Ids |-> {}]
      /\ E' = [i \in Ids |-> {}]
  BY DEF AInv, TypeOK, GatherC, EndRound
<1>2. PICK w \in Values \cap Initial :
        /\ \A i \in Ids : decided[i] \in {None, w}
        /\ v' = [i \in Ids |-> IF i \in live THEN w ELSE v[i]]
        /\ \E D \in SUBSET live :
             /\ \A i \in D : decided[i] = None
             /\ decided' = [i \in Ids |-> IF i \in D THEN w ELSE decided[i]]
  BY RoundEnd
<1>3. PICK D \in SUBSET live :
        /\ \A i \in D : decided[i] = None
        /\ decided' = [i \in Ids |-> IF i \in D THEN w ELSE decided[i]]
  BY <1>2
<1>4. \A i \in live : rounds[i] < MaxRounds BY <1>1 DEF CallInv
<1>5. rounds' \in [Ids -> 0..MaxRounds]
  <2>1. \A i \in Ids : rounds[i] \in Nat /\ rounds[i] <= MaxRounds
    BY <1>1, MaxRoundsAssumption DEF TypeOK
  <2>2. \A i \in Ids : (IF i \in live THEN rounds[i] + 1 ELSE rounds[i]) \in 0..MaxRounds
    BY <1>4, <2>1, MaxRoundsAssumption
  <2>3. QED BY <1>1, <2>2
<1>6. v' \in [Ids -> Values] /\ decided' \in [Ids -> Values \cup {None}]
  BY <1>1, <1>2, <1>3 DEF TypeOK
<1>7. TypeOK' BY <1>1, <1>5, <1>6 DEF TypeOK
<1>8. CallInv' /\ CommonInv' BY <1>1 DEF CallInv, CommonInv
<1>9. \A i \in Ids : decided'[i] \in {None, w} BY <1>2, <1>3
<1>10. LockInv'
  <2>1. \A j \in live : v'[j] = w /\ inputs'[j] = {} BY <1>1, <1>2
  <2>2. QED BY <1>1, <1>9, <2>1 DEF LockInv
<1>11. OriginInv'
  <2>1. \A i \in Ids : v'[i] \in Initial /\ inputs'[i] = {} BY <1>1, <1>2 DEF OriginInv
  <2>2. \A i \in Ids : rounds[i] \in Nat BY <1>1, MaxRoundsAssumption DEF TypeOK
  <2>3. \A i \in Ids : (i \in live \/ rounds[i] # 0) => rounds'[i] # 0 BY <1>1, <2>2
  <2>4. \A i \in Ids : decided'[i] # None => \E j \in Ids : rounds'[j] # 0
    BY <1>1, <1>3, <2>3 DEF OriginInv
  <2>5. QED BY <2>1, <2>4 DEF OriginInv, Initial
<1>12. QED BY <1>7, <1>8, <1>10, <1>11 DEF AInv

-----------------------------------------------------------------------------
(* The theorems.                                                           *)

\* AInv holds in every state of every execution of Algorithm 1.
THEOREM RoundsInvariance == Spec => []AInv
<1>1. Init => AInv
  <2> SUFFICES ASSUME Init PROVE AInv
    OBVIOUS
  <2>1. TypeOK
    BY InitValAssumption, MaxRoundsAssumption DEF Init, TypeOK
  <2>2. CallInv /\ CommonInv /\ LockInv BY DEF Init, CallInv, CommonInv, LockInv
  <2>3. OriginInv BY DEF Init, OriginInv, Initial
  <2>4. QED BY <2>1, <2>2, <2>3 DEF AInv
<1>2. AInv /\ [Next]_vars => AInv'
  <2> SUFFICES ASSUME AInv, [Next]_vars PROVE AInv'
    OBVIOUS
  <2>1. CASE \E i \in Ids : Crash(i) BY <2>1, CrashInv
  <2>2. CASE BeginRound BY <2>2, BeginRoundInv
  <2>3. CASE Batch BY <2>3, BatchInv
  <2>4. CASE GatherP BY <2>4, GatherPInv
  <2>5. CASE GatherE BY <2>5, GatherEInv
  <2>6. CASE GatherC BY <2>6, GatherCInv
  <2>7. CASE UNCHANGED vars
    BY <2>7 DEF vars, AInv, TypeOK, CallInv, CommonInv, LockInv, OriginInv, Initial,
                Source, Threshold
  <2>8. QED BY <2>1, <2>2, <2>3, <2>4, <2>5, <2>6, <2>7 DEF Next
<1>3. QED BY <1>1, <1>2, PTL DEF Spec

\* tcast's contract: whatever the batches lose, a call ends with every live
\* replica holding a majority's inputs and the source's among them.
THEOREM RoundsTcastContract == Spec => []TcastContract
BY RoundsInvariance, Contract, PTL

\* The assertion of run_round never fails: U is in every C, every C in every E.
THEOREM RoundsCrux == Spec => []CruxInvariant
<1>1. AInv => CruxInvariant
  <2> SUFFICES ASSUME AInv, call = 3, NEW i \in live, NEW j \in live
               PROVE  B \subseteq R(j) /\ R(j) \subseteq E[i]
    BY DEF CruxInvariant
  <2>1. R(j) = B /\ inputs[j] = B BY ThirdCall
  <2>2. inputs[j] \subseteq E[i] BY DEF AInv, CommonInv
  <2>3. QED BY <2>1, <2>2
<1>2. QED BY <1>1, RoundsInvariance, PTL

\* A decided value is the candidate of everyone still live, so it survives the
\* crash of all who decided it.
THEOREM RoundsCandidateLock == Spec => []CandidateLock
<1>1. AInv => CandidateLock
  BY DEF AInv, LockInv, CandidateLock
<1>2. QED BY <1>1, RoundsInvariance, PTL

\* Algorithm 1 implements Consensus: agreement, validity, and decisions that
\* never change.
THEOREM RoundsImplementConsensus == Spec => ImplementsConsensus
<1> DEFINE P == IF call = 0 /\ \A i \in Ids : rounds[i] = 0 THEN {} ELSE Initial
<1>1. Init => Slot!Init
  BY DEF Init, Slot!Init
<1>2. ASSUME AInv, [Next]_vars
      PROVE  Slot!Next \/ UNCHANGED <<P, decided>>
  <2>1. Initial \in SUBSET Values
    BY InitValAssumption DEF Initial
  <2>2. CASE BeginRound
    <3>1. call' = 1 /\ decided' = decided BY <2>2 DEF BeginRound, BeginCall
    <3>2. P' = Initial BY <3>1 DEF Initial
    <3>3. P \cup Initial = Initial OBVIOUS
    <3>4. Slot!Propose(Initial) BY <3>1, <3>2, <3>3 DEF Slot!Propose, Initial
    <3>5. QED BY <2>1, <3>4 DEF Slot!Next
  <2>3. CASE GatherC
    <3>1. call = 3 /\ TypeOK BY <1>2, <2>3 DEF GatherC, EndRound, AInv
    <3>2. PICK w \in Values \cap Initial :
            /\ \A i \in Ids : decided[i] \in {None, w}
            /\ \E D \in SUBSET live :
                 /\ \A i \in D : decided[i] = None
                 /\ decided' = [i \in Ids |-> IF i \in D THEN w ELSE decided[i]]
      BY <1>2, <2>3, RoundEnd
    <3>3. PICK D \in SUBSET live :
            /\ \A i \in D : decided[i] = None
            /\ decided' = [i \in Ids |-> IF i \in D THEN w ELSE decided[i]]
      BY <3>2
    <3>4. PICK j \in live : TRUE BY <1>2, <2>3, RoundEnd
    <3>5. rounds'[j] # 0
      <4>1. j \in Ids /\ rounds[j] \in Nat BY <3>1, MaxRoundsAssumption DEF TypeOK
      <4>2. rounds'[j] = rounds[j] + 1 BY <2>3, <3>4, <4>1 DEF GatherC, EndRound
      <4>3. QED BY <4>1, <4>2
    <3>6. P = Initial /\ P' = Initial
      BY <3>1, <3>4, <3>5 DEF Initial, TypeOK
    <3>7. D \in SUBSET Ids BY <3>1 DEF TypeOK
    <3>8. Slot!Decide(D, w)
      BY <3>2, <3>3, <3>6 DEF Slot!Decide, Initial
    <3>9. QED BY <3>7, <3>8 DEF Slot!Next
  <2>4. CASE \E i \in Ids : Crash(i)
    BY <2>4 DEF Crash, Initial
  <2>5. CASE Batch
    BY <2>5 DEF Batch, Initial
  <2>6. CASE GatherP
    BY <2>6 DEF GatherP, BeginCall, Initial
  <2>7. CASE GatherE
    BY <2>7 DEF GatherE, BeginCall, Initial
  <2>8. CASE UNCHANGED vars
    BY <2>8 DEF vars, Initial
  <2>9. QED BY <1>2, <2>2, <2>3, <2>4, <2>5, <2>6, <2>7, <2>8 DEF Next
<1>3. QED BY <1>1, <1>2, RoundsInvariance, PTL DEF Spec, ImplementsConsensus, Slot!Spec, Initial
=============================================================================
