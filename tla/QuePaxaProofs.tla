--------------------------- MODULE QuePaxaProofs ----------------------------
(***************************************************************************)
(* Safety of one slot for every membership, every set of values, every     *)
(* choice of leader and hedged replicas, every random draw and every       *)
(* pattern of loss: if no proposer is kicked off twice, IInv is inductive, *)
(* and agreement, the decision lock, panic freedom, one proposal per step  *)
(* and the refinement of Consensus follow from it; types and the           *)
(* monotonicity of the registers hold however often it is kicked off.      *)
(***************************************************************************)
EXTENDS QuePaxaInv, ProposalProofs

USE MembershipAssumption, NoneAssumption, InitValAssumption, LeaderAssumption,
    HedgedAssumption, DrawsAssumption, BoundsAssumption

-----------------------------------------------------------------------------
(* Quorums.                                                                *)

\* Any two majorities of the membership share a recorder.
LEMMA MajoritiesMeet ==
    ASSUME NEW P, NEW Q, IsMajority(P), IsMajority(Q)
    PROVE  \E r \in Ids : r \in P /\ r \in Q
<1>1. Cardinality(Ids) \in Nat /\ Cardinality(P) \in Nat /\ Cardinality(Q) \in Nat
  BY FS_CardinalityType, FS_Subset DEF IsMajority
<1>2. Cardinality(P) + Cardinality(Q) > Cardinality(Ids)
  BY <1>1 DEF IsMajority, Threshold
<1>3. P \cap Q # {}
  BY <1>2, FS_MajoritiesIntersect, Zenon DEF IsMajority
<1>4. QED BY <1>3 DEF IsMajority

\* The response set process_quorum works on is a finite, non-empty set of
\* typed replies by a majority of the recorders.
LEMMA QuorumFacts ==
    ASSUME TypeOK, NEW i \in Ids, NEW R \in SUBSET replies[i], IsQuorum(i, R)
    PROVE  /\ IsMajority(Responders(R))
           /\ R \subseteq Responses
           /\ Firsts(R) \in SUBSET OptProposals /\ PriorAggs(R) \in SUBSET OptProposals
           /\ IsFiniteSet(R) /\ R # {}
           /\ IsFiniteSet(Firsts(R)) /\ Firsts(R) # {}
           /\ IsFiniteSet(PriorAggs(R)) /\ PriorAggs(R) # {}
<1>1. R \subseteq Responses
  BY DEF TypeOK
<1>2. Responders(R) \subseteq Ids
  BY <1>1 DEF Responders, Responses
<1>3. IsMajority(Responders(R))
  <2>1. Cardinality(Ids) \in Nat BY FS_CardinalityType
  <2>2. Threshold \in Nat BY <2>1 DEF Threshold
  <2>3. QED BY <1>2, <2>2 DEF IsMajority, IsQuorum
<1>4. R # {}
  <2>1. SUFFICES ASSUME R = {} PROVE FALSE OBVIOUS
  <2>2. Responders(R) = {} BY <2>1 DEF Responders
  <2>3. Cardinality(Responders(R)) = 0 BY <2>2, FS_EmptySet
  <2>4. Cardinality(Ids) \in Nat BY FS_CardinalityType
  <2>5. QED BY <2>3, <2>4 DEF IsQuorum, Threshold
<1>5. IsFiniteSet(R)
  <2> DEFINE f == [x \in R |-> x.from]
  <2>1. f \in Injection(R, Ids)
    BY <1>1 DEF IsQuorum, Injection, IsInjective, Responses
  <2>2. QED BY <2>1, FS_Injection, Zenon
<1>6. IsFiniteSet(Firsts(R))
  <2> DEFINE f == [x \in R |-> x.first]
  <2>1. DOMAIN f = R OBVIOUS
  <2>2. IsFiniteSet({f[x] : x \in R})
    <3> HIDE DEF f
    <3> QED BY <1>5, <2>1, FiniteImage
  <2>3. {f[x] : x \in R} = Firsts(R) BY DEF Firsts
  <2>4. QED BY <2>2, <2>3
<1>7. IsFiniteSet(PriorAggs(R))
  <2> DEFINE f == [x \in R |-> x.prior_agg]
  <2>1. DOMAIN f = R OBVIOUS
  <2>2. IsFiniteSet({f[x] : x \in R})
    <3> HIDE DEF f
    <3> QED BY <1>5, <2>1, FiniteImage
  <2>3. {f[x] : x \in R} = PriorAggs(R) BY DEF PriorAggs
  <2>4. QED BY <2>2, <2>3
<1>8. /\ Firsts(R) \in SUBSET OptProposals /\ PriorAggs(R) \in SUBSET OptProposals
      /\ Firsts(R) # {} /\ PriorAggs(R) # {}
  BY <1>1, <1>4 DEF Firsts, PriorAggs, Responses
<1>9. QED BY <1>1, <1>3, <1>4, <1>5, <1>6, <1>7, <1>8

-----------------------------------------------------------------------------
(* Registers.                                                              *)

\* Isr::record(s, v) either leaves the step and can only raise the aggregate,
\* or enters step s with v.
Moves(old, new, s, v) ==
    /\ new \in Isrs
    /\ new.step >= s
    /\ Leq(v, new.current_agg) \/ s < new.step
    /\ \/ /\ new.step = old.step
          /\ new.first = old.first /\ new.prior_agg = old.prior_agg
          /\ Leq(old.current_agg, new.current_agg)
          /\ \/ new.current_agg = old.current_agg
             \/ s = new.step /\ new.current_agg = v
       \/ /\ new.step > old.step
          /\ new.step = s /\ new.first = v /\ new.current_agg = v
          /\ new.prior_agg = IF s = old.step + 1 THEN old.current_agg ELSE Nil

LEMMA RecordFacts ==
    ASSUME NEW old \in Isrs, NEW s \in Nat, NEW v \in Proposals
    PROVE  Moves(old, Record(old, s, v), s, v)
<1> DEFINE new == Record(old, s, v)
<1>1. v \in OptProposals /\ old.current_agg \in OptProposals /\ old.step \in Nat
  BY DEF Isrs, OptProposals
<1>2. CASE s < old.step
  <2>1. new = old BY <1>1, <1>2 DEF Record
  <2>2. QED BY <1>1, <1>2, <2>1, LeqReflexive DEF Moves
<1>3. CASE s = old.step
  <2>1. new = [old EXCEPT !.current_agg = MaxOption(old.current_agg, v)]
    BY <1>1, <1>3 DEF Record
  <2>2. /\ new.step = old.step /\ new.first = old.first
        /\ new.prior_agg = old.prior_agg
        /\ new.current_agg = MaxOption(old.current_agg, v)
    BY <2>1 DEF Isrs
  <2>3. /\ MaxOption(old.current_agg, v) \in {old.current_agg, v}
        /\ Leq(old.current_agg, MaxOption(old.current_agg, v))
        /\ Leq(v, MaxOption(old.current_agg, v))
    BY <1>1, MaxOptionFacts
  <2>4. new \in Isrs BY <1>1, <2>1, <2>3 DEF Isrs
  <2>5. QED BY <1>1, <1>3, <2>2, <2>3, <2>4 DEF Moves
<1>4. CASE s > old.step
  <2>1. new = [step |-> s, first |-> v, current_agg |-> v,
               prior_agg |-> IF s = old.step + 1 THEN old.current_agg ELSE Nil]
    BY <1>1, <1>4 DEF Record
  <2>2. new \in Isrs BY <1>1, <2>1 DEF Isrs, OptProposals
  <2>3. Leq(v, v) BY <1>1, LeqReflexive
  <2>4. QED BY <1>1, <1>4, <2>1, <2>2, <2>3 DEF Moves
<1>5. QED BY <1>1, <1>2, <1>3, <1>4

-----------------------------------------------------------------------------
(* Stability: what the invariant says of recorders stays true.             *)

\* A step that touches no register and only drops replies, and leaves alone
\* the proposers whose replies it keeps.
Shrinks ==
    /\ isr' = isr
    /\ \A j \in Ids : \A x \in replies'[j] :
         x \in replies[j] /\ step'[j] = step[j] /\ proposal'[j] = proposal[j]

\* What OnRequest(m) does to the replies.
Answers(m) ==
    \A j \in Ids : \A x \in replies'[j] :
      \/ x \in replies[j]
      \/ /\ j = m.from /\ m.req_step = step[j]
         /\ x.from = m.to /\ x.req_step = m.req_step
         /\ x.step = isr'[m.to].step
         /\ x.first = isr'[m.to].first
         /\ x.prior_agg = isr'[m.to].prior_agg

LEMMA ShrinksStable ==
    ASSUME Shrinks, NEW r \in Ids, NEW s, NEW q
    PROVE  /\ Recorded(r, s, q) => Recorded(r, s, q)'
           /\ Closed(r, s, q) => Closed(r, s, q)'
           /\ FirstAtMost(r, q) => FirstAtMost(r, q)'
BY DEF Shrinks, Recorded, Closed, FirstAtMost

\* OnRequest changes one register, by Isr::record, and hands its proposer the
\* summary of that register.
LEMMA OnRequestFacts ==
    ASSUME TypeOK, NEW m \in reqs, OnRequest(m)
    PROVE  /\ m \in Requests
           /\ isr' \in [Ids -> Isrs]
           /\ Moves(isr[m.to], isr'[m.to], m.req_step, m.prop)
           /\ \A r \in Ids : r # m.to => isr'[r] = isr[r]
           /\ replies' \in [Ids -> SUBSET Responses]
           /\ Answers(m)
           /\ \A j \in Ids : ~Running(j) => replies'[j] = replies[j]
<1> DEFINE new == Record(isr[m.to], m.req_step, m.prop)
           x0 == [from |-> m.to, req_step |-> m.req_step, step |-> new.step,
                  first |-> new.first, prior_agg |-> new.prior_agg]
<1>1. /\ m \in Requests
      /\ m.to \in Ids /\ m.from \in Ids /\ m.req_step \in Nat /\ m.prop \in Proposals
      /\ isr[m.to] \in Isrs
  BY DEF TypeOK, Requests
<1>2. Moves(isr[m.to], new, m.req_step, m.prop) /\ new \in Isrs
  <2>1. Moves(isr[m.to], new, m.req_step, m.prop) BY <1>1, RecordFacts
  <2>2. QED BY <2>1 DEF Moves
<1>3. isr' = [isr EXCEPT ![m.to] = new]
  BY DEF OnRequest
<1>4. /\ isr' \in [Ids -> Isrs] /\ isr'[m.to] = new
      /\ \A r \in Ids : r # m.to => isr'[r] = isr[r]
  BY <1>1, <1>2, <1>3 DEF TypeOK
<1>5. x0 \in Responses
  BY <1>1, <1>2 DEF Responses, Isrs
<1>6. replies' = IF Running(m.from) /\ m.req_step = step[m.from]
                 THEN [replies EXCEPT ![m.from] =
                         {x \in @ : x.from # m.to} \cup {x0}]
                 ELSE replies
  BY DEF OnRequest
<1>7. replies' \in [Ids -> SUBSET Responses]
  BY <1>1, <1>5, <1>6 DEF TypeOK
<1>8. Answers(m)
  <2> SUFFICES ASSUME NEW j \in Ids, NEW x \in replies'[j], x \notin replies[j]
               PROVE  /\ j = m.from /\ m.req_step = step[j]
                      /\ x = x0
    BY <1>4 DEF Answers
  <2> HIDE DEF x0
  <2> QED BY <1>1, <1>6 DEF TypeOK
<1>9. \A j \in Ids : ~Running(j) => replies'[j] = replies[j]
  BY <1>1, <1>6 DEF TypeOK
<1>10. QED BY <1>1, <1>2, <1>4, <1>7, <1>8, <1>9

LEMMA OnRequestStable ==
    ASSUME TypeOK, NEW m \in reqs, OnRequest(m),
           NEW r \in Ids, NEW s \in Nat, NEW q \in Proposals
    PROVE  /\ Recorded(r, s, q) => Recorded(r, s, q)'
           /\ Closed(r, s, q) => Closed(r, s, q)'
           /\ FirstAtMost(r, q) => FirstAtMost(r, q)'
<1>0. /\ m \in Requests /\ isr' \in [Ids -> Isrs] /\ Answers(m)
      /\ Moves(isr[m.to], isr'[m.to], m.req_step, m.prop)
      /\ \A k \in Ids : k # m.to => isr'[k] = isr[k]
  BY OnRequestFacts
<1>1. /\ m.to \in Ids /\ m.from \in Ids /\ m.req_step \in Nat /\ m.prop \in Proposals
      /\ isr[r] \in Isrs /\ isr'[r] \in Isrs
      /\ step' = step /\ proposal' = proposal
  BY <1>0 DEF TypeOK, Requests, OnRequest
<1>2. /\ isr[r].step \in Nat /\ isr'[r].step \in Nat
      /\ isr[r].current_agg \in OptProposals /\ isr'[r].current_agg \in OptProposals
      /\ q \in OptProposals
  BY <1>1 DEF Isrs, OptProposals
<1>3. \/ isr'[r] = isr[r]
      \/ /\ isr'[r].step = isr[r].step
         /\ isr'[r].first = isr[r].first /\ isr'[r].prior_agg = isr[r].prior_agg
         /\ Leq(isr[r].current_agg, isr'[r].current_agg)
      \/ /\ isr'[r].step > isr[r].step
         /\ isr'[r].step = isr[r].step + 1 => isr'[r].prior_agg = isr[r].current_agg
  <2>1. CASE r # m.to BY <1>0, <2>1
  <2>2. CASE r = m.to
    BY <1>0, <1>1, <1>2, <2>2 DEF Moves
  <2>3. QED BY <2>1, <2>2
<1>4. \A j \in Ids : \A x \in replies'[j] :
        \/ x \in replies[j]
        \/ /\ x.from = m.to /\ x.step = isr'[m.to].step
           /\ x.first = isr'[m.to].first /\ x.prior_agg = isr'[m.to].prior_agg
  BY <1>0 DEF Answers
<1>5. ASSUME Recorded(r, s, q) PROVE Recorded(r, s, q)'
  <2>1. isr'[r].step >= s
    BY <1>2, <1>3, <1>5 DEF Recorded
  <2>2. isr'[r].step = s => Leq(q, isr'[r].current_agg)
    BY <1>2, <1>3, <1>5, LeqTransitive DEF Recorded
  <2>3. isr'[r].step = s + 1 => Leq(q, isr'[r].prior_agg)
    BY <1>2, <1>3, <1>5 DEF Recorded
  <2>4. \A j \in Ids : \A x \in replies'[j] :
          x.from = r /\ x.step = s + 1 => Leq(q, x.prior_agg)
    BY <1>4, <1>5, <2>3 DEF Recorded
  <2>5. QED BY <2>1, <2>2, <2>3, <2>4 DEF Recorded
<1>6. ASSUME Closed(r, s, q) PROVE Closed(r, s, q)'
  <2>1. isr'[r].step > s
    BY <1>2, <1>3, <1>6 DEF Closed
  <2>2. \A j \in Ids : \A x \in replies'[j] :
          x.from = r /\ x.step = s /\ step[j] = s => Leq(proposal[j], q)
    BY <1>2, <1>4, <1>6, <2>1 DEF Closed
  <2>3. QED BY <1>1, <2>1, <2>2 DEF Closed
<1>7. ASSUME FirstAtMost(r, q) PROVE FirstAtMost(r, q)'
  <2>1. /\ isr'[r].step >= FIRST_ROUND_STEP
        /\ isr'[r].step = FIRST_ROUND_STEP => Leq(isr'[r].first, q)
    BY <1>2, <1>3, <1>7 DEF FirstAtMost, FIRST_ROUND_STEP
  <2>2. \A j \in Ids : \A x \in replies'[j] :
          x.from = r /\ x.step = FIRST_ROUND_STEP => Leq(x.first, q)
    BY <1>4, <1>7, <2>1 DEF FirstAtMost
  <2>3. QED BY <2>1, <2>2 DEF FirstAtMost
<1>8. QED BY <1>5, <1>6, <1>7

-----------------------------------------------------------------------------
(* A recorder handling a request preserves the invariant.                  *)

LEMMA OnRequestInv ==
    ASSUME IInv, NEW m \in reqs, OnRequest(m)
    PROVE  IInv'
<1>0. TypeOK BY DEF IInv
<1>a. /\ m \in Requests /\ isr' \in [Ids -> Isrs] /\ Answers(m)
      /\ replies' \in [Ids -> SUBSET Responses]
      /\ Moves(isr[m.to], isr'[m.to], m.req_step, m.prop)
      /\ \A k \in Ids : k # m.to => isr'[k] = isr[k]
      /\ \A k \in Ids : ~Running(k) => replies'[k] = replies[k]
  BY <1>0, OnRequestFacts
<1>1. /\ reqs' = reqs /\ step' = step /\ proposal' = proposal /\ decided' = decided
      /\ sent' = sent /\ activated' = activated /\ kicks' = kicks
      /\ hedges' = hedges /\ lastSeen' = lastSeen /\ panicked' = panicked
  BY DEF OnRequest
<1>2. /\ m.to \in Ids /\ m.from \in Ids /\ m.req_step \in Nat /\ m.prop \in Proposals
      /\ m.prop \in SentAt(m.req_step)
      /\ m.req_step >= FIRST_ROUND_STEP
      /\ isr[m.to] \in Isrs /\ isr'[m.to] \in Isrs
      /\ step \in [Ids -> Nat] /\ proposal \in [Ids -> Proposals]
  BY <1>0, <1>a DEF TypeOK, Requests, IInv, RequestsInv, SentAt
<1>3. \A s : SentAt(s)' = SentAt(s)
  BY <1>1 DEF SentAt
<1>4. TypeOK'
  BY <1>0, <1>1, <1>a DEF TypeOK
<1>5. \A j \in Ids : j \notin activated => replies'[j] = replies[j]
  <2> SUFFICES ASSUME NEW j \in Ids, j \notin activated PROVE replies'[j] = replies[j]
    OBVIOUS
  <2>1. j # m.from BY DEF IInv, RequestsInv
  <2>2. QED BY <1>0, <2>1, <1>2 DEF OnRequest, TypeOK
<1>6. Lifecycle'
  BY <1>1, <1>5 DEF IInv, Lifecycle
<1>7. RequestsInv'
  BY <1>1, <1>3 DEF IInv, RequestsInv
<1>8. RegistersInv'
  <2> SUFFICES ASSUME NEW r \in Ids
               PROVE \/ isr'[r] = NewIsr
                     \/ /\ isr'[r].step >= FIRST_ROUND_STEP
                        /\ isr'[r].first \in SentAt(isr'[r].step)
                        /\ isr'[r].current_agg \in SentAt(isr'[r].step)
                        /\ isr'[r].prior_agg \in SentAt(isr'[r].step - 1) \cup {Nil}
    BY <1>3 DEF RegistersInv
  <2>1. CASE r # m.to
    BY <1>a, <2>1 DEF IInv, RegistersInv
  <2>2. CASE r = m.to
    <3>1. /\ Moves(isr[r], isr'[r], m.req_step, m.prop)
          /\ isr[r].step \in Nat /\ isr'[r].step \in Nat
      BY <1>2, <1>a, <2>2 DEF Isrs
    <3>2. CASE isr'[r].step > isr[r].step
      <4>1. /\ isr'[r].step = m.req_step /\ isr'[r].first = m.prop
            /\ isr'[r].current_agg = m.prop
            /\ isr'[r].prior_agg =
                 IF m.req_step = isr[r].step + 1 THEN isr[r].current_agg ELSE Nil
        BY <3>1, <3>2 DEF Moves
      <4>2. isr[r].current_agg \in SentAt(isr[r].step) \cup {Nil}
        BY DEF IInv, RegistersInv, NewIsr
      <4>3. m.req_step = isr[r].step + 1 => isr[r].step = isr'[r].step - 1
        BY <3>1, <4>1
      <4>4. QED BY <1>2, <4>1, <4>2, <4>3
    <3>3. CASE ~(isr'[r].step > isr[r].step)
      <4>1. /\ isr'[r].step = isr[r].step /\ m.req_step <= isr[r].step
            /\ isr'[r].first = isr[r].first /\ isr'[r].prior_agg = isr[r].prior_agg
            /\ \/ isr'[r].current_agg = isr[r].current_agg
               \/ m.req_step = isr'[r].step /\ isr'[r].current_agg = m.prop
        BY <1>2, <3>1, <3>3 DEF Moves
      <4>2. isr[r] # NewIsr
        BY <1>2, <3>1, <4>1 DEF FIRST_ROUND_STEP, NewIsr
      <4>3. /\ isr[r].step >= FIRST_ROUND_STEP
            /\ isr[r].first \in SentAt(isr[r].step)
            /\ isr[r].current_agg \in SentAt(isr[r].step)
            /\ isr[r].prior_agg \in SentAt(isr[r].step - 1) \cup {Nil}
        BY <4>2 DEF IInv, RegistersInv
      <4>4. QED BY <1>2, <4>1, <4>3
    <3>4. QED BY <3>2, <3>3
  <2>3. QED BY <2>1, <2>2
<1>9. \A r \in Ids :
        /\ isr[r].step \in Nat /\ isr'[r].step \in Nat
        /\ isr[r].step <= isr'[r].step
        /\ isr[r].step = isr'[r].step =>
             isr[r].first = isr'[r].first /\ isr[r].prior_agg = isr'[r].prior_agg
  <2> SUFFICES ASSUME NEW r \in Ids
               PROVE /\ isr[r].step \in Nat /\ isr'[r].step \in Nat
                     /\ isr[r].step <= isr'[r].step
                     /\ isr[r].step = isr'[r].step =>
                          isr[r].first = isr'[r].first /\ isr[r].prior_agg = isr'[r].prior_agg
    OBVIOUS
  <2>1. isr[r].step \in Nat /\ isr'[r].step \in Nat
    BY <1>0, <1>a DEF TypeOK, Isrs
  <2>2. CASE r # m.to BY <1>a, <2>1, <2>2
  <2>3. CASE r = m.to BY <1>a, <2>1, <2>3 DEF Moves
  <2>4. QED BY <2>2, <2>3
<1>10. \A i \in Ids : \A x \in replies'[i] :
        \/ x \in replies[i]
        \/ /\ i = m.from /\ m.req_step = step[i]
           /\ x.from = m.to /\ x.req_step = step[i]
           /\ x.step = isr'[m.to].step
           /\ x.first = isr'[m.to].first
           /\ x.prior_agg = isr'[m.to].prior_agg
  BY <1>a DEF Answers
<1>11. \A i \in Ids : \A x \in replies[i] :
        /\ x.from \in Ids /\ x.step \in Nat /\ x.step <= isr[x.from].step
        /\ x.step = isr[x.from].step =>
             x.first = isr[x.from].first /\ x.prior_agg = isr[x.from].prior_agg
  BY <1>0 DEF TypeOK, Responses, IInv, RepliesInv
<1>12. RepliesInv'
  <2>1. ASSUME NEW i \in Ids, NEW x \in replies'[i]
        PROVE  /\ x.req_step = step[i]
               /\ step[i] <= x.step /\ x.step <= isr'[x.from].step
               /\ x.first \in SentAt(x.step)
               /\ x.prior_agg \in SentAt(x.step - 1) \cup {Nil}
               /\ x.step = isr'[x.from].step =>
                    x.first = isr'[x.from].first /\ x.prior_agg = isr'[x.from].prior_agg
    <3>1. CASE x \in replies[i]
      <4>1. /\ x.req_step = step[i] /\ step[i] <= x.step
            /\ x.first \in SentAt(x.step)
            /\ x.prior_agg \in SentAt(x.step - 1) \cup {Nil}
        BY <3>1 DEF IInv, RepliesInv
      <4>2. /\ x.from \in Ids /\ x.step \in Nat /\ x.step <= isr[x.from].step
            /\ x.step = isr[x.from].step =>
                 x.first = isr[x.from].first /\ x.prior_agg = isr[x.from].prior_agg
        BY <3>1, <1>11
      <4>3. /\ isr[x.from].step \in Nat /\ isr'[x.from].step \in Nat
            /\ isr[x.from].step <= isr'[x.from].step
            /\ isr[x.from].step = isr'[x.from].step =>
                 /\ isr[x.from].first = isr'[x.from].first
                 /\ isr[x.from].prior_agg = isr'[x.from].prior_agg
        BY <4>2, <1>9
      <4>4. QED BY <4>1, <4>2, <4>3
    <3>2. CASE x \notin replies[i]
      <4>1. /\ m.req_step = step[i] /\ x.from = m.to /\ x.req_step = step[i]
            /\ x.step = isr'[m.to].step /\ x.first = isr'[m.to].first
            /\ x.prior_agg = isr'[m.to].prior_agg
        BY <1>10, <2>1, <3>2
      <4>2. isr'[m.to].step >= m.req_step
        BY <1>a DEF Moves
      <4>3. isr'[m.to].step >= FIRST_ROUND_STEP
        BY <1>2, <1>9, <4>2 DEF FIRST_ROUND_STEP
      <4>4. isr'[m.to] # NewIsr
        BY <4>3 DEF FIRST_ROUND_STEP, NewIsr
      <4>5. /\ x.first \in SentAt(x.step)
            /\ x.prior_agg \in SentAt(x.step - 1) \cup {Nil}
        BY <1>2, <1>3, <1>8, <4>1, <4>4 DEF RegistersInv
      <4>6. QED BY <1>2, <1>9, <4>1, <4>2, <4>5
    <3>3. QED BY <3>1, <3>2
  <2>2. ASSUME NEW i \in Ids, NEW x \in replies'[i], NEW j \in Ids, NEW y \in replies'[j],
               x.from = y.from, x.step = y.step
        PROVE  x.first = y.first
    <3>1. CASE x \in replies[i] /\ y \in replies[j]
      BY <2>2, <3>1 DEF IInv, RepliesInv
    <3>2. CASE x \notin replies[i]
      <4>1. x.from = m.to /\ x.step = isr'[m.to].step /\ x.first = isr'[m.to].first
        BY <1>10, <2>2, <3>2
      <4>2. y.step = isr'[y.from].step BY <2>2, <4>1
      <4>3. y.first = isr'[y.from].first BY <2>1, <4>2
      <4>4. QED BY <2>2, <4>1, <4>3
    <3>3. CASE y \notin replies[j]
      <4>1. y.from = m.to /\ y.step = isr'[m.to].step /\ y.first = isr'[m.to].first
        BY <1>10, <2>2, <3>3
      <4>2. x.step = isr'[x.from].step BY <2>2, <4>1
      <4>3. x.first = isr'[x.from].first BY <2>1, <4>2
      <4>4. QED BY <2>2, <4>1, <4>3
    <3>4. QED BY <3>1, <3>2, <3>3
  <2>3. QED BY <1>1, <1>3, <2>1, <2>2 DEF RepliesInv
<1>13. AnswersRecorded'
  <2> SUFFICES ASSUME NEW i \in Ids, NEW x \in replies'[i], NEW s, NEW q,
                      s = step[i], q = proposal[i], x.step = s, Phase(s) # 0
               PROVE  Recorded(x.from, s, q)'
    BY <1>1 DEF AnswersRecorded, Recorded
  <2>1. x.from \in Ids /\ s \in Nat /\ q \in Proposals
    BY <1>2, <1>10, <1>11
  <2>2. CASE x \in replies[i]
    <3>1. Recorded(x.from, s, q)
      BY <2>2 DEF IInv, AnswersRecorded
    <3>2. QED BY <1>0, <2>1, <3>1, OnRequestStable
  <2>3. CASE x \notin replies[i]
    <3>1. /\ i = m.from /\ m.req_step = s /\ x.from = m.to
          /\ x.step = isr'[m.to].step
      BY <1>10, <2>3
    <3>2. m.prop = q
      <4>1. i \in activated BY <3>1 DEF IInv, RequestsInv
      <4>2. m.prop = sent[i][m.to] BY <3>1 DEF IInv, RequestsInv
      <4>3. sent[i][m.to] = q BY <1>2, <4>1 DEF IInv, RequestsInv
      <4>4. QED BY <4>2, <4>3
    <3>3. isr'[m.to].step = s /\ Leq(q, isr'[m.to].current_agg)
      BY <1>2, <1>9, <1>a, <3>1, <3>2 DEF Moves
    <3>4. \A j \in Ids : \A y \in replies'[j] : y.from = m.to => y.step # s + 1
      BY <1>1, <1>2, <1>4, <1>9, <1>12, <2>1, <3>3 DEF RepliesInv, TypeOK, Responses
    <3>5. QED BY <2>1, <3>1, <3>3, <3>4 DEF Recorded
  <2>4. QED BY <2>2, <2>3
<1>14. SpreadInv'
  <2> SUFFICES ASSUME NEW n \in reqs, Phase(n.req_step) \in {2, 3}
               PROVE  \E Q \in SUBSET Ids :
                        IsMajority(Q) /\ \A r \in Q : Recorded(r, n.req_step - 1, n.prop)'
    BY <1>1 DEF SpreadInv, IsMajority
  <2>1. PICK Q \in SUBSET Ids :
               IsMajority(Q) /\ \A r \in Q : Recorded(r, n.req_step - 1, n.prop)
    BY DEF IInv, SpreadInv
  <2>2. n.req_step - 1 \in Nat /\ n.prop \in Proposals
    BY <1>0 DEF IInv, RequestsInv, FIRST_ROUND_STEP, TypeOK, Requests
  <2>3. QED BY <1>0, <2>1, <2>2, OnRequestStable
<1>15. GatheredInv'
  <2> SUFFICES ASSUME NEW n \in reqs, NEW s \in 0..n.req_step, Phase(s) = 2,
                      FIRST_ROUND_STEP <= s, s + 2 <= n.req_step
               PROVE  \E c \in SentAt(s), Q \in SUBSET Ids :
                        /\ c.value = n.prop.value /\ IsMajority(Q)
                        /\ \A r \in Q : Closed(r, s, c)'
    BY <1>1, <1>3 DEF GatheredInv, IsMajority
  <2>1. PICK c \in SentAt(s), Q \in SUBSET Ids :
               /\ c.value = n.prop.value /\ IsMajority(Q)
               /\ \A r \in Q : Closed(r, s, c)
    BY DEF IInv, GatheredInv
  <2>2. s \in Nat /\ c \in Proposals
    BY <1>0, <2>1 DEF SentAt, TypeOK, Requests
  <2>3. QED BY <1>0, <2>1, <2>2, OnRequestStable
<1>16. ChosenFirstInv'
  <2> SUFFICES ASSUME NEW n \in reqs, n.req_step > FIRST_ROUND_STEP
               PROVE  \E c \in SentAt(FIRST_ROUND_STEP), Q \in SUBSET Ids :
                        /\ c.value = n.prop.value /\ IsMajority(Q)
                        /\ \A r \in Q : FirstAtMost(r, c)'
    BY <1>1, <1>3 DEF ChosenFirstInv, IsMajority
  <2>1. PICK c \in SentAt(FIRST_ROUND_STEP), Q \in SUBSET Ids :
               /\ c.value = n.prop.value /\ IsMajority(Q)
               /\ \A r \in Q : FirstAtMost(r, c)
    BY DEF IInv, ChosenFirstInv
  <2>2. c \in Proposals
    BY <1>0, <2>1 DEF SentAt, TypeOK, Requests
  <2>3. QED BY <1>0, <2>1, <2>2, OnRequestStable
<1>17. DecidedInv'
  <2> SUFFICES ASSUME NEW i \in Ids, decided[i] # None
               PROVE  \E R \in SUBSET replies'[i] :
                        /\ IsMajority(Responders(R))
                        /\ \A x \in R : x.step = step[i]
                        /\ FastQuorum(i, R) \/ SlowQuorum(i, R)
    BY <1>1, <1>3 DEF DecidedInv, FastQuorum, SlowQuorum, IsMajority
  <2>1. replies'[i] = replies[i] BY <1>a DEF Running
  <2>2. QED BY <2>1 DEF IInv, DecidedInv
<1>18. NoPanic' BY <1>1 DEF IInv, NoPanic
<1>19. QED BY <1>4, <1>6, <1>7, <1>8, <1>12, <1>13, <1>14, <1>15, <1>16, <1>17, <1>18
          DEF IInv

-----------------------------------------------------------------------------
(* begin_step preserves the invariant, if the new step and template are    *)
(* justified by what the proposer has gathered.                            *)

InitialProposal(i) == [priority |-> H, origin |-> i, value |-> InitVal[i]]

Justified(i, s, p) ==
    /\ s \in Nat /\ s >= FIRST_ROUND_STEP /\ p \in Proposals
    /\ i \in activated => s > step[i]
    /\ i \notin activated => s = FIRST_ROUND_STEP /\ p = InitialProposal(i)
    /\ Phase(s) \in {2, 3} =>
         \E Q \in SUBSET Ids : IsMajority(Q) /\ \A r \in Q : Recorded(r, s - 1, p)
    /\ \A t \in 0..s : Phase(t) = 2 /\ FIRST_ROUND_STEP <= t /\ t + 2 <= s =>
         \E c \in SentAt(t), Q \in SUBSET Ids :
           c.value = p.value /\ IsMajority(Q) /\ \A r \in Q : Closed(r, t, c)
    /\ s > FIRST_ROUND_STEP =>
         \E c \in SentAt(FIRST_ROUND_STEP), Q \in SUBSET Ids :
           c.value = p.value /\ IsMajority(Q) /\ \A r \in Q : FirstAtMost(r, c)

\* What begin_step sends keeps the template's value, is the template itself
\* past phase 0, and is at H in phase 0 only for the round-1 leader.
LEMMA OutgoingFacts ==
    ASSUME NEW i \in Ids, NEW s \in Nat, NEW p \in Proposals,
           NEW out \in Outgoing(i, s, p)
    PROVE  /\ out \in [Ids -> Proposals]
           /\ \A r \in Ids : out[r].value = p.value
           /\ Phase(s) # 0 => \A r \in Ids : out[r] = p
           /\ \A r \in Ids : Phase(s) = 0 /\ out[r].priority = H =>
                s = FIRST_ROUND_STEP /\ Leader = i
                /\ out[r] = [priority |-> H, origin |-> i, value |-> p.value]
<1>1. p.value \in Values BY DEF Proposals
<1>a. H \in 1..H /\ \A n \in 1..(H - 1) : n \in 1..H /\ n # H
  BY PriorityAssumption
<1>b. \A n \in 1..H : [priority |-> n, origin |-> i, value |-> p.value] \in Proposals
  BY <1>1 DEF Proposals
<1>2. CASE Phase(s) # 0
  BY <1>2 DEF Outgoing
<1>3. CASE Phase(s) = 0 /\ s = FIRST_ROUND_STEP /\ Leader = i
  <2>1. out = [r \in Ids |-> [priority |-> H, origin |-> i, value |-> p.value]]
    BY <1>3 DEF Outgoing
  <2>2. [priority |-> H, origin |-> i, value |-> p.value] \in Proposals
    BY <1>a, <1>b
  <2>3. QED BY <1>3, <2>1, <2>2
<1>4. CASE Phase(s) = 0 /\ ~(s = FIRST_ROUND_STEP /\ Leader = i)
  <2>1. PICK pri \in Draws[i] :
          out = [r \in Ids |-> [priority |-> pri[r], origin |-> i, value |-> p.value]]
    BY <1>4 DEF Outgoing
  <2>2. \A r \in Ids : pri[r] \in 1..(H - 1)
    BY <2>1
  <2>3. \A r \in Ids :
          /\ [priority |-> pri[r], origin |-> i, value |-> p.value] \in Proposals
          /\ pri[r] # H
    BY <1>a, <1>b, <2>2
  <2>4. QED BY <1>4, <2>1, <2>3
<1>5. QED BY <1>2, <1>3, <1>4

LEMMA BeginStepInv ==
    ASSUME IInv, NEW i \in Ids, NEW s, NEW p, Running(i), Justified(i, s, p),
           BeginStep(i, s, p),
           isr' = isr, decided' = decided, panicked' = panicked,
           lastSeen' \in [Ids -> Nat],
           kicks' \in [Ids -> Nat], kicks'[i] = 1,
           \A j \in Ids : j # i => kicks'[j] = kicks[j],
           hedges' \in [Ids -> Nat], hedges'[i] = 0,
           \A j \in Ids : j # i => hedges'[j] = hedges[j]
    PROVE  IInv'
<1>0. /\ TypeOK /\ Lifecycle /\ RequestsInv /\ RegistersInv /\ RepliesInv
      /\ AnswersRecorded /\ SpreadInv /\ GatheredInv /\ ChosenFirstInv /\ DecidedInv
  BY DEF IInv
<1>1. /\ s \in Nat /\ s >= FIRST_ROUND_STEP /\ p \in Proposals
      /\ i \in activated => s > step[i] /\ step[i] >= FIRST_ROUND_STEP
      /\ i \notin activated => s = FIRST_ROUND_STEP /\ p = InitialProposal(i)
      /\ step[i] \in Nat
  BY <1>0 DEF Justified, Lifecycle, TypeOK
<1>2. PICK out \in Outgoing(i, s, p) :
        /\ sent' = [sent EXCEPT ![i] = out]
        /\ reqs' = reqs \cup
             {[from |-> i, to |-> r, req_step |-> s, prop |-> out[r]] : r \in Ids}
  BY DEF BeginStep
<1>3. /\ out \in [Ids -> Proposals]
      /\ \A r \in Ids : out[r].value = p.value
      /\ Phase(s) # 0 => \A r \in Ids : out[r] = p
      /\ \A r \in Ids : Phase(s) = 0 /\ out[r].priority = H =>
           s = FIRST_ROUND_STEP /\ Leader = i
           /\ out[r] = [priority |-> H, origin |-> i, value |-> p.value]
  BY <1>1, <1>2, OutgoingFacts
<1>4. /\ activated' = activated \cup {i}
      /\ replies'[i] = {} /\ step'[i] = s /\ proposal'[i] = p /\ sent'[i] = out
      /\ \A j \in Ids : j # i =>
           /\ replies'[j] = replies[j] /\ step'[j] = step[j]
           /\ proposal'[j] = proposal[j] /\ sent'[j] = sent[j]
  BY <1>0, <1>2 DEF BeginStep, TypeOK
<1>5. TypeOK'
  <2>1. reqs' \subseteq Requests
    <3>1. \A r \in Ids :
            [from |-> i, to |-> r, req_step |-> s, prop |-> out[r]] \in Requests
      BY <1>1, <1>3 DEF Requests
    <3>2. QED BY <1>0, <1>2, <3>1 DEF TypeOK
  <2>2. sent' \in [Ids -> [Ids -> OptProposals]]
    BY <1>0, <1>2, <1>3 DEF TypeOK, OptProposals
  <2>3. QED BY <1>0, <1>1, <2>1, <2>2 DEF TypeOK, BeginStep
<1>6. \A n \in reqs' :
        n \in reqs \/ (n.from = i /\ n.to \in Ids /\ n.req_step = s /\ n.prop = out[n.to])
  BY <1>2
<1>7. \A t : \A c \in SentAt(t) : c \in SentAt(t)'
  BY <1>2 DEF SentAt
<1>8. Shrinks
  BY <1>4 DEF Shrinks
<1>9. Lifecycle'
  BY <1>0, <1>1, <1>4 DEF Lifecycle, FIRST_ROUND_STEP
<1>10. RequestsInv'
  <2>1. ASSUME NEW n \in reqs'
        PROVE  /\ n.from \in activated'
               /\ FIRST_ROUND_STEP <= n.req_step /\ n.req_step <= step'[n.from]
               /\ n.req_step = step'[n.from] => n.prop = sent'[n.from][n.to]
               /\ Phase(n.req_step) = 0 /\ n.prop.priority = H =>
                    n.req_step = FIRST_ROUND_STEP /\ n.prop = LeaderProposal
    <3>1. CASE n \in reqs
      <4>1. /\ n.from \in activated /\ n.from \in Ids /\ n.req_step \in Nat
            /\ FIRST_ROUND_STEP <= n.req_step /\ n.req_step <= step[n.from]
            /\ n.req_step = step[n.from] => n.prop = sent[n.from][n.to]
            /\ Phase(n.req_step) = 0 /\ n.prop.priority = H =>
                    n.req_step = FIRST_ROUND_STEP /\ n.prop = LeaderProposal
        BY <1>0, <3>1 DEF RequestsInv, TypeOK, Requests
      <4>2. CASE n.from = i BY <1>1, <1>4, <4>1, <4>2
      <4>3. CASE n.from # i BY <1>4, <4>1, <4>3
      <4>4. QED BY <4>2, <4>3
    <3>2. CASE n \notin reqs
      <4>1. n.from = i /\ n.to \in Ids /\ n.req_step = s /\ n.prop = out[n.to]
        BY <1>6, <3>2
      <4>2. ASSUME Phase(s) = 0, out[n.to].priority = H
            PROVE  s = FIRST_ROUND_STEP /\ n.prop = LeaderProposal
        <5>1. /\ s = FIRST_ROUND_STEP /\ Leader = i
              /\ out[n.to] = [priority |-> H, origin |-> i, value |-> p.value]
          BY <1>3, <4>1, <4>2
        <5>2. p.value = InitVal[i]
          BY <1>1, <5>1 DEF FIRST_ROUND_STEP, InitialProposal
        <5>3. QED BY <4>1, <5>1, <5>2 DEF LeaderProposal
      <4>3. QED BY <1>1, <1>4, <4>1, <4>2
    <3>3. QED BY <3>1, <3>2
  <2>2. ASSUME NEW j \in activated', NEW r \in Ids
        PROVE  /\ [from |-> j, to |-> r, req_step |-> step'[j], prop |-> sent'[j][r]] \in reqs'
               /\ Phase(step'[j]) # 0 => sent'[j][r] = proposal'[j]
    <3>1. CASE j = i BY <1>2, <1>3, <1>4, <3>1
    <3>2. CASE j # i
      <4>1. j \in activated /\ j \in Ids BY <1>0, <1>4, <2>2, <3>2 DEF TypeOK
      <4>2. /\ [from |-> j, to |-> r, req_step |-> step[j], prop |-> sent[j][r]] \in reqs
            /\ Phase(step[j]) # 0 => sent[j][r] = proposal[j]
        BY <1>0, <4>1 DEF RequestsInv
      <4>3. QED BY <1>2, <1>4, <3>2, <4>1, <4>2
    <3>3. QED BY <3>1, <3>2
  <2>3. QED BY <2>1, <2>2 DEF RequestsInv, LeaderProposal
<1>11. RegistersInv'
  BY <1>0, <1>7 DEF RegistersInv
<1>12. RepliesInv'
  <2>1. \A j \in Ids : \A x \in replies'[j] : j # i
    BY <1>4
  <2>2. QED BY <1>0, <1>4, <1>7, <2>1 DEF RepliesInv
<1>13. AnswersRecorded'
  <2> SUFFICES ASSUME NEW j \in Ids, NEW x \in replies'[j], NEW t, NEW q,
                      t = step'[j], q = proposal'[j], x.step = t, Phase(t) # 0
               PROVE  Recorded(x.from, t, q)'
    BY DEF AnswersRecorded, Recorded
  <2>1. x \in replies[j] /\ t = step[j] /\ q = proposal[j]
    BY <1>4
  <2>2. x.from \in Ids
    BY <1>0, <2>1 DEF TypeOK, Responses
  <2>3. Recorded(x.from, t, q)
    BY <1>0, <2>1 DEF AnswersRecorded
  <2>4. QED BY <1>8, <2>2, <2>3, ShrinksStable
<1>14. SpreadInv'
  <2> SUFFICES ASSUME NEW n \in reqs', Phase(n.req_step) \in {2, 3}
               PROVE  \E Q \in SUBSET Ids :
                        IsMajority(Q) /\ \A r \in Q : Recorded(r, n.req_step - 1, n.prop)'
    BY DEF SpreadInv, IsMajority
  <2>1. \E Q \in SUBSET Ids :
          IsMajority(Q) /\ \A r \in Q : Recorded(r, n.req_step - 1, n.prop)
    <3>1. CASE n \in reqs BY <1>0, <3>1 DEF SpreadInv
    <3>2. CASE n \notin reqs
      <4>1. n.to \in Ids /\ n.req_step = s /\ n.prop = out[n.to] BY <1>6, <3>2
      <4>2. Phase(s) # 0 BY <4>1
      <4>3. n.prop = p BY <1>3, <4>1, <4>2
      <4>4. QED BY <4>1, <4>3 DEF Justified
    <3>3. QED BY <3>1, <3>2
  <2>2. QED BY <1>8, <2>1, ShrinksStable
<1>15. GatheredInv'
  <2> SUFFICES ASSUME NEW n \in reqs', NEW t \in 0..n.req_step, Phase(t) = 2,
                      FIRST_ROUND_STEP <= t, t + 2 <= n.req_step
               PROVE  \E c \in SentAt(t)', Q \in SUBSET Ids :
                        /\ c.value = n.prop.value /\ IsMajority(Q)
                        /\ \A r \in Q : Closed(r, t, c)'
    BY DEF GatheredInv, IsMajority
  <2>1. PICK c \in SentAt(t), Q \in SUBSET Ids :
          c.value = n.prop.value /\ IsMajority(Q) /\ \A r \in Q : Closed(r, t, c)
    <3>1. CASE n \in reqs BY <1>0, <3>1 DEF GatheredInv
    <3>2. CASE n \notin reqs
      <4>1. n.req_step = s /\ n.prop.value = p.value BY <1>3, <1>6, <3>2
      <4>2. QED BY <4>1 DEF Justified
    <3>3. QED BY <3>1, <3>2
  <2>2. QED BY <1>7, <1>8, <2>1, ShrinksStable
<1>16. ChosenFirstInv'
  <2> SUFFICES ASSUME NEW n \in reqs', n.req_step > FIRST_ROUND_STEP
               PROVE  \E c \in SentAt(FIRST_ROUND_STEP)', Q \in SUBSET Ids :
                        /\ c.value = n.prop.value /\ IsMajority(Q)
                        /\ \A r \in Q : FirstAtMost(r, c)'
    BY DEF ChosenFirstInv, IsMajority
  <2>1. PICK c \in SentAt(FIRST_ROUND_STEP), Q \in SUBSET Ids :
          c.value = n.prop.value /\ IsMajority(Q) /\ \A r \in Q : FirstAtMost(r, c)
    <3>1. CASE n \in reqs BY <1>0, <3>1 DEF ChosenFirstInv
    <3>2. CASE n \notin reqs
      <4>1. n.req_step = s /\ n.prop.value = p.value BY <1>3, <1>6, <3>2
      <4>2. QED BY <4>1 DEF Justified
    <3>3. QED BY <3>1, <3>2
  <2>2. QED BY <1>7, <1>8, <2>1, ShrinksStable
<1>17. DecidedInv'
  <2> SUFFICES ASSUME NEW j \in Ids, decided[j] # None
               PROVE  \E R \in SUBSET replies'[j] :
                        /\ IsMajority(Responders(R))
                        /\ \A x \in R : x.step = step'[j]
                        /\ FastQuorum(j, R)' \/ SlowQuorum(j, R)'
    BY DEF DecidedInv, IsMajority
  <2>1. j # i BY DEF Running
  <2>2. PICK R \in SUBSET replies[j] :
          /\ IsMajority(Responders(R))
          /\ \A x \in R : x.step = step[j]
          /\ FastQuorum(j, R) \/ SlowQuorum(j, R)
    BY <1>0 DEF DecidedInv
  <2>3. /\ replies'[j] = replies[j] /\ step'[j] = step[j] /\ proposal'[j] = proposal[j]
    BY <1>4, <2>1
  <2>4. FastQuorum(j, R) => FastQuorum(j, R)'
    BY <1>7, <2>3 DEF FastQuorum, FIRST_ROUND_STEP
  <2>5. SlowQuorum(j, R) => SlowQuorum(j, R)'
    BY <2>3 DEF SlowQuorum
  <2>6. QED BY <2>2, <2>3, <2>4, <2>5
<1>18. NoPanic'
  BY DEF IInv, NoPanic
<1>19. QED BY <1>5, <1>9, <1>10, <1>11, <1>12, <1>13, <1>14, <1>15, <1>16, <1>17, <1>18
           DEF IInv

-----------------------------------------------------------------------------
(* The steps that send nothing new: arming and deferring a hedge, resending *)
(* and stuttering.                                                          *)

LEMMA IdleInv ==
    ASSUME IInv,
           isr' = isr, reqs' = reqs, proposal' = proposal, decided' = decided,
           replies' = replies, sent' = sent, activated' = activated,
           panicked' = panicked,
           step' \in [Ids -> Nat], kicks' \in [Ids -> Nat],
           hedges' \in [Ids -> Nat], lastSeen' \in [Ids -> Nat],
           \A j \in activated : step'[j] = step[j],
           Lifecycle'
    PROVE  IInv'
<1>0. /\ TypeOK /\ Lifecycle /\ RequestsInv /\ RegistersInv /\ RepliesInv
      /\ AnswersRecorded /\ SpreadInv /\ GatheredInv /\ ChosenFirstInv /\ DecidedInv
  BY DEF IInv
<1>1. \A t : SentAt(t)' = SentAt(t)
  BY DEF SentAt
<1>2. \A j \in Ids : \A x \in replies[j] : j \in activated /\ step'[j] = step[j]
  BY <1>0 DEF Lifecycle
<1>3. Shrinks
  BY <1>2 DEF Shrinks
<1>4. TypeOK'
  BY <1>0 DEF TypeOK
<1>5. RequestsInv'
  BY <1>0, <1>1 DEF RequestsInv
<1>6. RegistersInv'
  BY <1>0, <1>1 DEF RegistersInv
<1>7. RepliesInv'
  BY <1>0, <1>1, <1>2 DEF RepliesInv
<1>8. AnswersRecorded'
  <2> SUFFICES ASSUME NEW j \in Ids, NEW x \in replies[j], NEW t, NEW q,
                      t = step'[j], q = proposal[j], x.step = t, Phase(t) # 0
               PROVE  Recorded(x.from, t, q)'
    BY DEF AnswersRecorded, Recorded
  <2>1. t = step[j] /\ x.from \in Ids
    BY <1>0, <1>2 DEF TypeOK, Responses
  <2>2. Recorded(x.from, t, q)
    BY <1>0, <2>1 DEF AnswersRecorded
  <2>3. QED BY <1>3, <2>1, <2>2, ShrinksStable
<1>9. SpreadInv'
  BY <1>0, <1>3, ShrinksStable DEF SpreadInv, IsMajority
<1>10. GatheredInv'
  <2> SUFFICES ASSUME NEW n \in reqs, NEW t \in 0..n.req_step, Phase(t) = 2,
                      FIRST_ROUND_STEP <= t, t + 2 <= n.req_step
               PROVE  \E c \in SentAt(t), Q \in SUBSET Ids :
                        /\ c.value = n.prop.value /\ IsMajority(Q)
                        /\ \A r \in Q : Closed(r, t, c)'
    BY <1>1 DEF GatheredInv, IsMajority
  <2>1. PICK c \in SentAt(t), Q \in SUBSET Ids :
          c.value = n.prop.value /\ IsMajority(Q) /\ \A r \in Q : Closed(r, t, c)
    BY <1>0 DEF GatheredInv
  <2>2. QED BY <1>3, <2>1, ShrinksStable
<1>11. ChosenFirstInv'
  <2> SUFFICES ASSUME NEW n \in reqs, n.req_step > FIRST_ROUND_STEP
               PROVE  \E c \in SentAt(FIRST_ROUND_STEP), Q \in SUBSET Ids :
                        /\ c.value = n.prop.value /\ IsMajority(Q)
                        /\ \A r \in Q : FirstAtMost(r, c)'
    BY <1>1 DEF ChosenFirstInv, IsMajority
  <2>1. PICK c \in SentAt(FIRST_ROUND_STEP), Q \in SUBSET Ids :
          c.value = n.prop.value /\ IsMajority(Q) /\ \A r \in Q : FirstAtMost(r, c)
    BY <1>0 DEF ChosenFirstInv
  <2>2. QED BY <1>3, <2>1, ShrinksStable
<1>12. DecidedInv'
  <2> SUFFICES ASSUME NEW j \in Ids, decided[j] # None
               PROVE  \E R \in SUBSET replies[j] :
                        /\ IsMajority(Responders(R))
                        /\ \A x \in R : x.step = step'[j]
                        /\ FastQuorum(j, R)' \/ SlowQuorum(j, R)'
    BY DEF DecidedInv, IsMajority
  <2>1. step'[j] = step[j]
    BY <1>0 DEF Lifecycle
  <2>2. PICK R \in SUBSET replies[j] :
          /\ IsMajority(Responders(R))
          /\ \A x \in R : x.step = step[j]
          /\ FastQuorum(j, R) \/ SlowQuorum(j, R)
    BY <1>0 DEF DecidedInv
  <2>3. FastQuorum(j, R) => FastQuorum(j, R)'
    BY <1>1, <2>1 DEF FastQuorum
  <2>4. SlowQuorum(j, R) => SlowQuorum(j, R)'
    BY <2>1 DEF SlowQuorum
  <2>5. QED BY <2>1, <2>2, <2>3, <2>4
<1>13. NoPanic'
  BY DEF IInv, NoPanic
<1>14. QED BY <1>4, <1>5, <1>6, <1>7, <1>8, <1>9, <1>10, <1>11, <1>12, <1>13 DEF IInv

-----------------------------------------------------------------------------
(* The timers.                                                              *)

LEMMA StartInv ==
    ASSUME SingleKick, IInv, NEW i \in Ids, Start(i)
    PROVE  IInv'
<1>1. TypeOK /\ Lifecycle
  BY DEF IInv
<1>2. kicks[i] = 0 /\ MaxKicks[i] \in Nat /\ kicks[i] \in Nat
  <2>1. kicks[i] \in Nat BY <1>1 DEF TypeOK
  <2>2. MaxKicks[i] \in Nat BY BoundsAssumption
  <2>3. MaxKicks[i] <= 1 /\ kicks[i] < MaxKicks[i] BY DEF Start, SingleKick
  <2>4. QED BY <2>1, <2>2, <2>3
<1>3. /\ i \notin activated /\ hedges[i] = 0
      /\ proposal[i] = InitialProposal(i) /\ proposal[i] \in Proposals
  BY SMTT(30), <1>1, <1>2 DEF Lifecycle, InitialProposal, TypeOK
<1>4. Justified(i, FIRST_ROUND_STEP, proposal[i])
  BY <1>3 DEF Justified, FIRST_ROUND_STEP, Phase
<1>5. /\ kicks' \in [Ids -> Nat] /\ kicks'[i] = 1
      /\ \A j \in Ids : j # i => kicks'[j] = kicks[j]
  BY <1>1, <1>2 DEF Start, TypeOK
<1>6. /\ hedges' = hedges /\ lastSeen' = lastSeen
      /\ hedges \in [Ids -> Nat] /\ lastSeen \in [Ids -> Nat]
  BY <1>1 DEF Start, TypeOK
<1>7. QED BY <1>3, <1>4, <1>5, <1>6, BeginStepInv DEF Start

LEMMA HedgeActivateInv ==
    ASSUME IInv, NEW i \in Ids, HedgeActivate(i)
    PROVE  IInv'
<1>1. TypeOK /\ Lifecycle
  BY DEF IInv
<1>2. /\ i \notin activated /\ hedges[i] = 1 /\ kicks[i] = 1
      /\ step[i] = FIRST_ROUND_STEP
      /\ proposal[i] = InitialProposal(i) /\ proposal[i] \in Proposals
  BY <1>1 DEF Lifecycle, InitialProposal, TypeOK, HedgeActivate
<1>3. Justified(i, step[i], proposal[i])
  BY <1>2 DEF Justified, FIRST_ROUND_STEP, Phase
<1>4. /\ hedges' \in [Ids -> Nat] /\ hedges'[i] = 0
      /\ \A j \in Ids : j # i => hedges'[j] = hedges[j]
  BY <1>1, <1>2 DEF HedgeActivate, TypeOK
<1>5. /\ kicks' = kicks /\ lastSeen' = lastSeen
      /\ kicks \in [Ids -> Nat] /\ lastSeen \in [Ids -> Nat]
  BY <1>1 DEF HedgeActivate, TypeOK
<1>6. QED BY <1>2, <1>3, <1>4, <1>5, BeginStepInv DEF HedgeActivate

LEMMA StartHedgedInv ==
    ASSUME SingleKick, IInv, NEW i \in Ids, StartHedged(i)
    PROVE  IInv'
<1>1. TypeOK /\ Lifecycle
  BY DEF IInv
<1>2. kicks[i] = 0 /\ MaxKicks[i] \in Nat /\ kicks[i] \in Nat
  <2>1. kicks[i] \in Nat BY <1>1 DEF TypeOK
  <2>2. MaxKicks[i] \in Nat BY BoundsAssumption
  <2>3. MaxKicks[i] <= 1 /\ kicks[i] < MaxKicks[i] BY DEF StartHedged, SingleKick
  <2>4. QED BY <2>1, <2>2, <2>3
<1>3. i \notin activated /\ hedges[i] = 0
  BY <1>1, <1>2 DEF Lifecycle, TypeOK
<1>4. /\ step' \in [Ids -> Nat] /\ kicks' \in [Ids -> Nat] /\ hedges' \in [Ids -> Nat]
      /\ step'[i] = FIRST_ROUND_STEP /\ kicks'[i] = 1 /\ hedges'[i] = 1
      /\ \A j \in Ids : j # i =>
           step'[j] = step[j] /\ kicks'[j] = kicks[j] /\ hedges'[j] = hedges[j]
  BY <1>1, <1>2, <1>3 DEF StartHedged, TypeOK, FIRST_ROUND_STEP
<1>5. Lifecycle'
  BY <1>1, <1>3, <1>4 DEF Lifecycle, StartHedged
<1>6. \A j \in activated : step'[j] = step[j]
  BY <1>1, <1>3, <1>4 DEF TypeOK
<1>7. lastSeen' \in [Ids -> Nat]
  BY <1>1 DEF StartHedged, TypeOK
<1>8. QED BY <1>4, <1>5, <1>6, <1>7, IdleInv DEF StartHedged

LEMMA HedgeDeferInv ==
    ASSUME IInv, NEW i \in Ids, HedgeDefer(i)
    PROVE  IInv'
<1>1. TypeOK /\ Lifecycle
  BY DEF IInv
<1>2. isr[i].step \in Nat
  BY <1>1 DEF TypeOK, Isrs
<1>3. lastSeen' \in [Ids -> Nat]
  BY <1>1, <1>2 DEF HedgeDefer, TypeOK
<1>4. Lifecycle'
  BY <1>1 DEF Lifecycle, HedgeDefer
<1>5. QED BY <1>1, <1>3, <1>4, IdleInv DEF HedgeDefer, TypeOK

\* A retry repeats messages that were already sent.
LEMMA RetryInv ==
    ASSUME IInv, NEW i \in Ids, Retry(i)
    PROVE  IInv'
<1>1. TypeOK /\ Lifecycle /\ RequestsInv
  BY DEF IInv
<1>2. reqs' = reqs
  BY <1>1 DEF RequestsInv, Retry
<1>3. Lifecycle'
  BY <1>1 DEF Lifecycle, Retry
<1>4. QED BY <1>1, <1>2, <1>3, IdleInv DEF Retry, TypeOK

LEMMA StutterInv ==
    ASSUME IInv, UNCHANGED vars
    PROVE  IInv'
<1>1. TypeOK /\ Lifecycle
  BY DEF IInv
<1>2. Lifecycle'
  BY <1>1 DEF Lifecycle, vars
<1>3. QED BY <1>1, <1>2, IdleInv DEF TypeOK, vars

-----------------------------------------------------------------------------
(* A quorum of replies.                                                     *)

\* A proposer with replies is active, was kicked off once, holds no hedge
\* timer and sent its template to itself too.
LEMMA ActiveFacts ==
    ASSUME IInv, NEW i \in Ids, replies[i] # {}
    PROVE  /\ i \in activated /\ kicks[i] = 1 /\ hedges[i] = 0
           /\ step[i] \in Nat /\ step[i] >= FIRST_ROUND_STEP
           /\ proposal[i] \in Proposals
           /\ Phase(step[i]) # 0 => \E m \in reqs : m.req_step = step[i] /\ m.prop = proposal[i]
<1>1. TypeOK /\ Lifecycle /\ RequestsInv
  BY DEF IInv
<1>2. /\ i \in activated /\ step[i] \in Nat /\ step[i] >= FIRST_ROUND_STEP
      /\ proposal[i] \in Proposals
  BY <1>1 DEF Lifecycle, TypeOK
<1>3. kicks[i] = 1 /\ hedges[i] = 0
  <2>1. /\ kicks[i] \in Nat /\ hedges[i] \in Nat /\ kicks[i] <= 1
        /\ ~(kicks[i] = 0 \/ hedges[i] > 0)
    BY <1>1, <1>2 DEF Lifecycle, TypeOK
  <2>2. QED BY <2>1
<1>4. ASSUME Phase(step[i]) # 0
      PROVE  \E m \in reqs : m.req_step = step[i] /\ m.prop = proposal[i]
  <2>1. /\ [from |-> i, to |-> i, req_step |-> step[i], prop |-> sent[i][i]] \in reqs
        /\ sent[i][i] = proposal[i]
    BY <1>1, <1>2, <1>4 DEF RequestsInv
  <2>2. QED BY <2>1
<1>5. QED BY <1>2, <1>3, <1>4

\* A template taken from an earlier request inherits what is known of it.
LEMMA Inherited ==
    ASSUME IInv, NEW m \in reqs, NEW v, m.prop.value = v
    PROVE  /\ m.req_step \in Nat /\ m.req_step >= FIRST_ROUND_STEP /\ m.prop \in Proposals
           /\ \A t \in Nat : Phase(t) = 2 /\ FIRST_ROUND_STEP <= t /\ t + 2 <= m.req_step =>
                \E c \in SentAt(t), Q \in SUBSET Ids :
                  c.value = v /\ IsMajority(Q) /\ \A r \in Q : Closed(r, t, c)
           /\ m.req_step > FIRST_ROUND_STEP =>
                \E c \in SentAt(FIRST_ROUND_STEP), Q \in SUBSET Ids :
                  c.value = v /\ IsMajority(Q) /\ \A r \in Q : FirstAtMost(r, c)
<1>1. TypeOK /\ RequestsInv /\ GatheredInv /\ ChosenFirstInv
  BY DEF IInv
<1>2. m.req_step \in Nat /\ m.req_step >= FIRST_ROUND_STEP /\ m.prop \in Proposals
  BY <1>1 DEF TypeOK, Requests, RequestsInv, FIRST_ROUND_STEP
<1>3. ASSUME NEW t \in Nat, Phase(t) = 2, FIRST_ROUND_STEP <= t, t + 2 <= m.req_step
      PROVE  \E c \in SentAt(t), Q \in SUBSET Ids :
               c.value = v /\ IsMajority(Q) /\ \A r \in Q : Closed(r, t, c)
  <2>1. t \in 0..m.req_step BY <1>2, <1>3
  <2>2. QED BY <1>1, <1>3, <2>1 DEF GatheredInv
<1>4. m.req_step > FIRST_ROUND_STEP =>
        \E c \in SentAt(FIRST_ROUND_STEP), Q \in SUBSET Ids :
          c.value = v /\ IsMajority(Q) /\ \A r \in Q : FirstAtMost(r, c)
  BY <1>1 DEF ChosenFirstInv
<1>5. QED BY <1>2, <1>3, <1>4

\* The same of one round t that was closed before the request's step.
LEMMA InheritedAt ==
    ASSUME IInv, NEW m \in reqs, NEW t \in Nat,
           Phase(t) = 2, FIRST_ROUND_STEP <= t, t + 2 <= m.req_step
    PROVE  \E c \in SentAt(t), Q \in SUBSET Ids :
             c.value = m.prop.value /\ IsMajority(Q) /\ \A r \in Q : Closed(r, t, c)
<1>1. TypeOK /\ RequestsInv /\ GatheredInv BY DEF IInv
<1>2. m.req_step \in Nat BY <1>1 DEF TypeOK, Requests
<1>3. t \in 0..m.req_step BY <1>2
<1>4. QED BY <1>1, <1>3 DEF GatheredInv

\* The same of the first round.
LEMMA InheritedFirst ==
    ASSUME IInv, NEW m \in reqs, m.req_step > FIRST_ROUND_STEP
    PROVE  \E c \in SentAt(FIRST_ROUND_STEP), Q \in SUBSET Ids :
             c.value = m.prop.value /\ IsMajority(Q) /\ \A r \in Q : FirstAtMost(r, c)
<1>1. ChosenFirstInv BY DEF IInv
<1>2. QED BY <1>1 DEF ChosenFirstInv

\* An advancing proposer's begin_step.
LEMMA ContinueInv ==
    ASSUME IInv, NEW i \in Ids, NEW s, NEW p, Running(i), replies[i] # {},
           Justified(i, s, p), BeginStep(i, s, p),
           UNCHANGED <<isr, decided, kicks, hedges, lastSeen, panicked>>
    PROVE  IInv'
<1>1. /\ kicks[i] = 1 /\ hedges[i] = 0
      /\ kicks \in [Ids -> Nat] /\ hedges \in [Ids -> Nat] /\ lastSeen \in [Ids -> Nat]
  BY ActiveFacts DEF IInv, TypeOK
<1>2. QED BY <1>1, BeginStepInv

\* Phases 1 and 2 keep the template: the quorum that answered recorded it.
LEMMA KeepInv ==
    ASSUME IInv, NEW i \in Ids, NEW R \in SUBSET replies[i],
           QuorumAtStep(i, R, Phase(step[i])), Phase(step[i]) \in {1, 2},
           Advance(i, proposal[i])
    PROVE  IInv'
<1> DEFINE s == step[i]
           p == proposal[i]
<1>1. TypeOK /\ AnswersRecorded BY DEF IInv
<1>2. IsMajority(Responders(R)) /\ R # {} /\ IsQuorum(i, R) /\ R \subseteq Responses
  BY <1>1, QuorumFacts DEF QuorumAtStep
<1>3. /\ i \in activated /\ s \in Nat /\ s >= FIRST_ROUND_STEP /\ p \in Proposals
      /\ \E m \in reqs : m.req_step = s /\ m.prop = p
  BY <1>2, ActiveFacts
<1>4. PICK m \in reqs : m.req_step = s /\ m.prop = p
  BY <1>3
<1>5. \A r \in Responders(R) : Recorded(r, s, p)
  BY <1>1 DEF AnswersRecorded, QuorumAtStep, Responders
<1>6. s > FIRST_ROUND_STEP /\ Phase(s + 1) # 0
  BY <1>3 DEF Phase, FIRST_ROUND_STEP
<1>7. Justified(i, s + 1, p)
  <2>1. /\ s + 1 \in Nat /\ s + 1 >= FIRST_ROUND_STEP /\ s + 1 > s
        /\ (s + 1) - 1 = s
        /\ FIRST_ROUND_STEP < s + 1
    BY <1>3, <1>6 DEF FIRST_ROUND_STEP
  <2>2. \E Q \in SUBSET Ids : IsMajority(Q) /\ \A r \in Q : Recorded(r, (s + 1) - 1, p)
    BY <1>2, <1>5, <2>1 DEF IsMajority
  <2>3. ASSUME NEW t \in 0..(s + 1), Phase(t) = 2, FIRST_ROUND_STEP <= t, t + 2 <= s + 1
        PROVE  \E c \in SentAt(t), Q \in SUBSET Ids :
                 c.value = p.value /\ IsMajority(Q) /\ \A r \in Q : Closed(r, t, c)
    <3>1. t \in Nat /\ t + 2 # s + 1 BY <1>3, <1>6, <2>3 DEF Phase
    <3>2. t + 2 <= m.req_step BY <1>3, <1>4, <2>3, <3>1
    <3>3. QED BY <1>4, <2>3, <3>1, <3>2, Inherited
  <2>4. \E c \in SentAt(FIRST_ROUND_STEP), Q \in SUBSET Ids :
          c.value = p.value /\ IsMajority(Q) /\ \A r \in Q : FirstAtMost(r, c)
    BY <1>4, <1>6, Inherited
  <2>5. QED BY <1>3, <2>1, <2>2, <2>3, <2>4 DEF Justified
<1>8. QED BY <1>2, <1>7, ContinueInv DEF Advance, IsQuorum

\* A reply's first proposal and its previous aggregate were sent.
LEMMA ReplyFacts ==
    ASSUME IInv, NEW i \in Ids, NEW x \in replies[i]
    PROVE  /\ x \in Responses /\ x.from \in Ids /\ x.step \in Nat /\ x.step >= step[i]
           /\ x.first \in Proposals /\ x.first # Nil
           /\ \E m \in reqs : m.req_step = x.step /\ m.prop = x.first
           /\ x.prior_agg \in OptProposals
           /\ x.prior_agg # Nil =>
                \E m \in reqs : m.req_step = x.step - 1 /\ m.prop = x.prior_agg
<1>1. TypeOK /\ RepliesInv BY DEF IInv
<1>2. /\ x \in Responses /\ x.from \in Ids /\ x.step \in Nat /\ x.prior_agg \in OptProposals
  BY <1>1 DEF TypeOK, Responses
<1>3. /\ x.step >= step[i] /\ x.first \in SentAt(x.step)
      /\ x.prior_agg \in SentAt(x.step - 1) \cup {Nil}
  BY <1>1, <1>2 DEF RepliesInv, TypeOK
<1>4. PICK m \in reqs : m.req_step = x.step /\ m.prop = x.first
  BY <1>3 DEF SentAt
<1>5. x.first \in Proposals
  BY <1>1, <1>4 DEF TypeOK, Requests
<1>6. x.first # Nil
  <2>1. x.first \in OptProposals BY <1>5 DEF OptProposals
  <2>2. QED BY <1>5, <2>1, OptProposalFields
<1>7. QED BY <1>2, <1>3, <1>4, <1>5, <1>6 DEF SentAt

\* Phase 0 adopts the best of the quorum's first proposals.
LEMMA ProposeInv ==
    ASSUME IInv, NEW i \in Ids, NEW R \in SUBSET replies[i], Propose(i, R)
    PROVE  IInv'
<1> DEFINE s == step[i]
           p == Best(Firsts(R))
<1>1. TypeOK /\ RepliesInv BY DEF IInv
<1>2. /\ IsQuorum(i, R) /\ Phase(s) = 0 /\ \A x \in R : x.step = s
  BY DEF Propose, QuorumAtStep
<1>3. /\ IsMajority(Responders(R)) /\ R # {} /\ Firsts(R) \in SUBSET OptProposals
      /\ IsFiniteSet(Firsts(R)) /\ Firsts(R) # {}
  BY <1>1, <1>2, QuorumFacts
<1>4. p \in Firsts(R) /\ \A q \in Firsts(R) : Leq(q, p)
  BY <1>3, BestIsMaximum
<1>5. PICK z \in R : z.first = p
  BY <1>4 DEF Firsts
<1>6. PICK m \in reqs : m.req_step = s /\ m.prop = p
  BY <1>2, <1>5, ReplyFacts
<1>7. p \in Proposals /\ p # Nil
  BY <1>5, ReplyFacts
<1>8. /\ i \in activated /\ s \in Nat /\ s >= FIRST_ROUND_STEP
  BY <1>3, ActiveFacts
<1> HIDE DEF p
<1>9. ASSUME s = FIRST_ROUND_STEP
      PROVE  \A r \in Responders(R) : FirstAtMost(r, p)
  <2> SUFFICES ASSUME NEW r \in Responders(R) PROVE FirstAtMost(r, p)
    OBVIOUS
  <2>1. PICK x \in R : x.from = r BY DEF Responders
  <2>2. /\ x.step = FIRST_ROUND_STEP /\ Leq(x.first, p)
    BY <1>2, <1>4, <1>9 DEF Firsts
  <2>3. /\ isr[r].step >= FIRST_ROUND_STEP
        /\ isr[r].step = FIRST_ROUND_STEP => isr[r].first = x.first
    <3>1. /\ x.step <= isr[r].step
          /\ x.step = isr[r].step => x.first = isr[r].first
      BY <1>1, <2>1 DEF RepliesInv
    <3>2. isr[r].step \in Nat
      BY <1>1, <2>1 DEF TypeOK, Isrs, Responses
    <3>3. QED BY <2>2, <3>1, <3>2 DEF FIRST_ROUND_STEP
  <2>4. \A j \in Ids : \A y \in replies[j] :
          y.from = r /\ y.step = FIRST_ROUND_STEP => y.first = x.first
    BY <1>1, <2>1, <2>2 DEF RepliesInv
  <2>5. QED BY <2>2, <2>3, <2>4 DEF FirstAtMost
<1>10. Justified(i, s + 1, p)
  <2>1. /\ s + 1 \in Nat /\ s + 1 >= FIRST_ROUND_STEP /\ s + 1 > s
        /\ Phase(s + 1) \notin {2, 3}
    BY <1>2, <1>8 DEF FIRST_ROUND_STEP, Phase
  <2>2. ASSUME NEW t \in 0..(s + 1), Phase(t) = 2, FIRST_ROUND_STEP <= t, t + 2 <= s + 1
        PROVE  \E c \in SentAt(t), Q \in SUBSET Ids :
                 c.value = p.value /\ IsMajority(Q) /\ \A r \in Q : Closed(r, t, c)
    <3>1. t \in Nat /\ t + 2 # s + 1 BY <1>2, <1>8, <2>2 DEF Phase
    <3>2. t + 2 <= m.req_step BY <1>6, <1>8, <2>2, <3>1
    <3>3. QED BY <1>6, <2>2, <3>1, <3>2, Inherited
  <2>3. \E c \in SentAt(FIRST_ROUND_STEP), Q \in SUBSET Ids :
          c.value = p.value /\ IsMajority(Q) /\ \A r \in Q : FirstAtMost(r, c)
    <3>1. CASE s = FIRST_ROUND_STEP
      <4>1. p \in SentAt(FIRST_ROUND_STEP) BY <1>6, <3>1 DEF SentAt
      <4>2. QED BY <1>3, <1>9, <3>1, <4>1 DEF IsMajority
    <3>2. CASE s # FIRST_ROUND_STEP
      <4>1. m.req_step > FIRST_ROUND_STEP BY <1>6, <1>8, <3>2 DEF FIRST_ROUND_STEP
      <4>2. QED BY <1>6, <4>1, Inherited
    <3>3. QED BY <3>1, <3>2
  <2>4. QED BY <1>7, <1>8, <2>1, <2>2, <2>3 DEF Justified
<1>11. Advance(i, p)
  BY <1>7 DEF Propose, p
<1>12. QED BY <1>2, <1>3, <1>10, <1>11, ContinueInv DEF Advance, IsQuorum

\* Phase 3 adopts the best of what the quorum aggregated in phase 2. There is
\* something: a majority recorded the proposer's own template there (Lemma
\* C.5), and the quorum meets that majority.
LEMMA GatherCInv ==
    ASSUME IInv, NEW i \in Ids, NEW R \in SUBSET replies[i], GatherC(i, R)
    PROVE  IInv'
<1> DEFINE s == step[i]
           p == Best(PriorAggs(R))
<1>1. TypeOK /\ RepliesInv /\ SpreadInv /\ AnswersRecorded BY DEF IInv
<1>2. /\ IsQuorum(i, R) /\ Phase(s) = 3 /\ \A x \in R : x.step = s
  BY DEF GatherC, QuorumAtStep
<1>3. /\ IsMajority(Responders(R)) /\ R # {} /\ PriorAggs(R) \in SUBSET OptProposals
      /\ IsFiniteSet(PriorAggs(R)) /\ PriorAggs(R) # {}
  BY <1>1, <1>2, QuorumFacts
<1>4. p \in PriorAggs(R) /\ \A q \in PriorAggs(R) : Leq(q, p)
  BY <1>3, BestIsMaximum
<1>5. /\ i \in activated /\ s \in Nat /\ s >= FIRST_ROUND_STEP
      /\ proposal[i] \in Proposals
      /\ \E m \in reqs : m.req_step = s /\ m.prop = proposal[i]
  BY <1>2, <1>3, ActiveFacts
<1> HIDE DEF p
<1>6. p # Nil /\ p \in OptProposals
  <2>1. PICK Q \in SUBSET Ids : IsMajority(Q) /\ \A r \in Q : Recorded(r, s - 1, proposal[i])
    BY <1>1, <1>2, <1>5 DEF SpreadInv
  <2>2. PICK r \in Ids : r \in Q /\ r \in Responders(R)
    BY <1>3, <2>1, MajoritiesMeet
  <2>3. PICK x \in R : x.from = r BY <2>2 DEF Responders
  <2>4. x.step = (s - 1) + 1 BY <1>2, <1>5, <2>3
  <2>5. Leq(proposal[i], x.prior_agg)
    BY <2>1, <2>2, <2>3, <2>4 DEF Recorded
  <2>6. x.prior_agg \in PriorAggs(R) BY <2>3 DEF PriorAggs
  <2>7. Leq(proposal[i], p)
    <3>1. proposal[i] \in OptProposals BY <1>5 DEF OptProposals
    <3>2. QED BY <1>3, <1>4, <2>5, <2>6, <3>1, LeqTransitive
  <2>8. QED BY <1>3, <1>4, <1>5, <2>7, LeqNil
<1>7. PICK z \in R : z.prior_agg = p
  BY <1>4 DEF PriorAggs
<1>8. PICK m \in reqs : m.req_step = s - 1 /\ m.prop = p
  BY <1>2, <1>6, <1>7, ReplyFacts
<1>9. /\ p \in Proposals /\ s - 1 \in Nat /\ Phase(s - 1) = 2 /\ s - 1 > FIRST_ROUND_STEP
      /\ p \in SentAt(s - 1)
  <2>1. p \in Proposals BY <1>6 DEF OptProposals
  <2>2. QED BY <1>2, <1>5, <1>8, <2>1 DEF Phase, FIRST_ROUND_STEP, SentAt
<1>10. \A r \in Responders(R) : Closed(r, s - 1, p)
  <2> SUFFICES ASSUME NEW r \in Responders(R) PROVE Closed(r, s - 1, p)
    OBVIOUS
  <2>1. PICK x \in R : x.from = r BY DEF Responders
  <2>2. isr[r].step > s - 1
    <3>1. x.step = s /\ x.step <= isr[r].step BY <1>1, <1>2, <2>1 DEF RepliesInv
    <3>2. isr[r].step \in Nat BY <1>1, <2>1 DEF TypeOK, Isrs, Responses
    <3>3. QED BY <1>5, <3>1, <3>2
  <2>3. ASSUME NEW j \in Ids, NEW y \in replies[j], y.from = r, y.step = s - 1,
               step[j] = s - 1
        PROVE  Leq(proposal[j], p)
    <3>1. Recorded(r, s - 1, proposal[j])
      BY <1>1, <1>9, <2>3 DEF AnswersRecorded
    <3>2. x.step = (s - 1) + 1 BY <1>2, <1>5, <2>1
    <3>3. Leq(proposal[j], x.prior_agg)
      BY <2>1, <3>1, <3>2 DEF Recorded
    <3>4. x.prior_agg \in PriorAggs(R) BY <2>1 DEF PriorAggs
    <3>5. proposal[j] \in OptProposals BY <1>1 DEF TypeOK, OptProposals
    <3>6. QED BY <1>3, <1>4, <3>3, <3>4, <3>5, LeqTransitive
  <2>4. QED BY <2>2, <2>3 DEF Closed
<1>11. Justified(i, s + 1, p)
  <2>1. /\ s + 1 \in Nat /\ s + 1 >= FIRST_ROUND_STEP /\ s + 1 > s
        /\ Phase(s + 1) \notin {2, 3}
    BY <1>2, <1>5 DEF FIRST_ROUND_STEP, Phase
  <2>2. ASSUME NEW t \in 0..(s + 1), Phase(t) = 2, FIRST_ROUND_STEP <= t, t + 2 <= s + 1
        PROVE  \E c \in SentAt(t), Q \in SUBSET Ids :
                 c.value = p.value /\ IsMajority(Q) /\ \A r \in Q : Closed(r, t, c)
    <3>1. CASE t = s - 1
      BY <1>3, <1>9, <1>10, <3>1 DEF IsMajority
    <3>2. CASE t # s - 1
      <4>1. t \in Nat /\ t + 2 <= s - 1 BY <1>2, <1>5, <2>2, <3>2 DEF Phase
      <4>2. t + 2 <= m.req_step BY <1>8, <4>1
      <4>3. \E c \in SentAt(t), Q \in SUBSET Ids :
               c.value = m.prop.value /\ IsMajority(Q) /\ \A r \in Q : Closed(r, t, c)
        BY <1>8, <2>2, <4>1, <4>2, InheritedAt
      <4>4. QED BY <1>8, <4>3
    <3>3. QED BY <3>1, <3>2
  <2>3. \E c \in SentAt(FIRST_ROUND_STEP), Q \in SUBSET Ids :
          c.value = p.value /\ IsMajority(Q) /\ \A r \in Q : FirstAtMost(r, c)
    <3>1. m.req_step > FIRST_ROUND_STEP BY <1>8, <1>9
    <3>2. \E c \in SentAt(FIRST_ROUND_STEP), Q \in SUBSET Ids :
             c.value = m.prop.value /\ IsMajority(Q) /\ \A r \in Q : FirstAtMost(r, c)
      BY <1>8, <3>1, InheritedFirst
    <3>3. QED BY <1>8, <3>2
  <2>4. QED BY <1>5, <1>9, <2>1, <2>2, <2>3 DEF Justified
<1>12. Advance(i, p)
  BY <1>6 DEF GatherC, p
<1>13. QED BY <1>2, <1>3, <1>11, <1>12, ContinueInv DEF Advance, IsQuorum

\* Among finitely many replies, some of them ahead, one is the furthest.
LEMMA FurthestExists ==
    ASSUME NEW R, R \subseteq Responses, IsFiniteSet(R), NEW s \in Nat,
           \E x \in R : x.step > s
    PROVE  \E x \in R : IsFurthest(x, R, s)
<1> DEFINE Before(x, y) == x.step < y.step \/ (x.step = y.step /\ x.from <= y.from)
           B == {z \in R \X R : Before(z[1], z[2])}
<1>1. \A x \in R : x.step \in Nat /\ x.from \in Nat
  BY IdsAssumption DEF Responses
<1>2. \A x, y \in R : <<x, y>> \in B <=> Before(x, y)
  OBVIOUS
<1>3. \A x, y \in R : <<x, y>> \in B \/ <<y, x>> \in B
  <2> SUFFICES ASSUME NEW x \in R, NEW y \in R
               PROVE  Before(x, y) \/ Before(y, x)
    BY <1>2
  <2>1. x.step \in Nat /\ y.step \in Nat /\ x.from \in Nat /\ y.from \in Nat
    BY <1>1
  <2>2. QED BY <2>1
<1>4. \A x, y, z \in R : <<x, y>> \in B /\ <<y, z>> \in B => <<x, z>> \in B
  <2> SUFFICES ASSUME NEW x \in R, NEW y \in R, NEW z \in R, Before(x, y), Before(y, z)
               PROVE  Before(x, z)
    BY <1>2
  <2>1. /\ x.step \in Nat /\ y.step \in Nat /\ z.step \in Nat
        /\ x.from \in Nat /\ y.from \in Nat /\ z.from \in Nat
    BY <1>1
  <2>2. QED BY <2>1
<1>5. \E x \in R : \A y \in R : <<y, x>> \in B
  <2> HIDE DEF B
  <2> QED BY <1>3, <1>4, FiniteMaximum
<1>6. PICK x \in R : \A y \in R : Before(y, x)
  BY <1>2, <1>5
<1>7. x.step > s
  BY <1>1, <1>6
<1>8. QED BY <1>6, <1>7 DEF IsFurthest

\* Catching up adopts a first proposal of the step it jumps to.
LEMMA CatchUpInv ==
    ASSUME IInv, NEW i \in Ids, NEW R \in SUBSET replies[i], CatchUp(i, R)
    PROVE  IInv'
<1>1. TypeOK /\ SpreadInv BY DEF IInv
<1>2. IsQuorum(i, R) /\ \E x \in R : x.step # step[i]
  BY DEF CatchUp
<1>3. IsFiniteSet(R) /\ R # {} /\ R \subseteq Responses
  BY <1>1, <1>2, QuorumFacts
<1>4. i \in activated /\ step[i] \in Nat /\ step[i] >= FIRST_ROUND_STEP
  BY <1>3, ActiveFacts
<1>5. \E x \in R : x.step > step[i]
  BY <1>2, <1>4, ReplyFacts
<1>6. \E x \in R : IsFurthest(x, R, step[i]) /\ x.first # Nil
  BY <1>3, <1>4, <1>5, FurthestExists, ReplyFacts
<1>7. PICK x \in R :
        /\ IsFurthest(x, R, step[i])
        /\ BeginStep(i, x.step, x.first)
        /\ UNCHANGED <<isr, decided, kicks, hedges, lastSeen, panicked>>
  BY <1>6 DEF CatchUp
<1>8. /\ x.step \in Nat /\ x.step > step[i] /\ x.first \in Proposals
      /\ \E m \in reqs : m.req_step = x.step /\ m.prop = x.first
  BY <1>7, ReplyFacts DEF IsFurthest
<1>9. PICK m \in reqs : m.req_step = x.step /\ m.prop = x.first
  BY <1>8
<1>10. Justified(i, x.step, x.first)
  <2>1. x.step >= FIRST_ROUND_STEP
    BY <1>4, <1>8 DEF FIRST_ROUND_STEP
  <2>2. Phase(x.step) \in {2, 3} =>
          \E Q \in SUBSET Ids : IsMajority(Q) /\ \A r \in Q : Recorded(r, x.step - 1, x.first)
    BY <1>1, <1>9 DEF SpreadInv
  <2>3. ASSUME NEW t \in 0..x.step, Phase(t) = 2, FIRST_ROUND_STEP <= t, t + 2 <= x.step
        PROVE  \E c \in SentAt(t), Q \in SUBSET Ids :
                 c.value = x.first.value /\ IsMajority(Q) /\ \A r \in Q : Closed(r, t, c)
    <3>1. t \in Nat /\ t + 2 <= m.req_step BY <1>8, <1>9, <2>3
    <3>2. QED BY <1>9, <2>3, <3>1, InheritedAt
  <2>4. x.step > FIRST_ROUND_STEP =>
          \E c \in SentAt(FIRST_ROUND_STEP), Q \in SUBSET Ids :
            c.value = x.first.value /\ IsMajority(Q) /\ \A r \in Q : FirstAtMost(r, c)
    BY <1>9, Inherited
  <2>5. QED BY <1>4, <1>8, <2>1, <2>2, <2>3, <2>4 DEF Justified
<1>11. QED BY <1>2, <1>3, <1>7, <1>10, ContinueInv DEF IsQuorum

\* A proposer that decides on a quorum still holds it.
LEMMA DecideInv ==
    ASSUME IInv, NEW i \in Ids, NEW v \in Values, Running(i), Decide(i, v),
           NEW R \in SUBSET replies[i], IsMajority(Responders(R)), R # {},
           \A x \in R : x.step = step[i],
           \/ /\ step[i] = FIRST_ROUND_STEP
              /\ \E p \in SentAt(FIRST_ROUND_STEP) :
                   p.priority = H /\ p.value = v /\ \A x \in R : x.first = p
           \/ /\ Phase(step[i]) = 2
              /\ proposal[i].value = v
              /\ \A x \in R : Leq(x.prior_agg, proposal[i])
    PROVE  IInv'
<1>1. /\ TypeOK /\ Lifecycle /\ RequestsInv /\ RegistersInv /\ RepliesInv
      /\ AnswersRecorded /\ SpreadInv /\ GatheredInv /\ ChosenFirstInv /\ DecidedInv
      /\ NoPanic
  BY DEF IInv
<1>2. UNCHANGED <<isr, reqs, step, proposal, replies, sent, activated, kicks,
                  hedges, lastSeen, panicked>>
  BY DEF Decide
<1>3. /\ decided' \in [Ids -> Values \cup {None}] /\ decided'[i] = v
      /\ \A j \in Ids : j # i => decided'[j] = decided[j]
  BY <1>1 DEF Decide, TypeOK
<1>4. TypeOK'
  BY <1>1, <1>2, <1>3 DEF TypeOK
<1>5. Lifecycle'
  <2>1. i \in activated BY ActiveFacts
  <2>2. QED BY <1>1, <1>2, <1>3, <2>1 DEF Lifecycle
<1>6. \A t : SentAt(t)' = SentAt(t)
  BY <1>2 DEF SentAt
<1>7. RequestsInv' /\ RegistersInv' /\ RepliesInv'
  BY <1>1, <1>2, <1>6 DEF RequestsInv, RegistersInv, RepliesInv
<1>8. AnswersRecorded' /\ SpreadInv'
  BY <1>1, <1>2, <1>6 DEF AnswersRecorded, SpreadInv, Recorded, IsMajority
<1>9. GatheredInv'
  <2> SUFFICES ASSUME NEW n \in reqs, NEW t \in 0..n.req_step, Phase(t) = 2,
                      FIRST_ROUND_STEP <= t, t + 2 <= n.req_step
               PROVE  \E c \in SentAt(t), Q \in SUBSET Ids :
                        /\ c.value = n.prop.value /\ IsMajority(Q)
                        /\ \A r \in Q : Closed(r, t, c)'
    BY <1>2, <1>6 DEF GatheredInv, IsMajority
  <2>1. PICK c \in SentAt(t), Q \in SUBSET Ids :
          c.value = n.prop.value /\ IsMajority(Q) /\ \A r \in Q : Closed(r, t, c)
    BY <1>1 DEF GatheredInv
  <2>2. Shrinks BY <1>2 DEF Shrinks
  <2>3. QED BY <2>1, <2>2, ShrinksStable
<1>10. ChosenFirstInv'
  BY SMTT(40), <1>1, <1>2, <1>6 DEF ChosenFirstInv, FirstAtMost, IsMajority
<1>11. DecidedInv'
  <2> SUFFICES ASSUME NEW j \in Ids, decided'[j] # None
               PROVE  \E S \in SUBSET replies[j] :
                        /\ IsMajority(Responders(S))
                        /\ \A x \in S : x.step = step[j]
                        /\ FastQuorum(j, S)' \/ SlowQuorum(j, S)'
    BY <1>2 DEF DecidedInv, IsMajority
  <2>1. CASE j = i
    <3>1. FastQuorum(i, R)' \/ SlowQuorum(i, R)'
      BY <1>2, <1>3, <1>6 DEF FastQuorum, SlowQuorum
    <3>2. QED BY <2>1, <3>1
  <2>2. CASE j # i
    <3>1. decided[j] # None /\ decided'[j] = decided[j] BY <1>3, <2>2
    <3>2. PICK S \in SUBSET replies[j] :
            /\ IsMajority(Responders(S))
            /\ \A x \in S : x.step = step[j]
            /\ FastQuorum(j, S) \/ SlowQuorum(j, S)
      BY <1>1, <3>1 DEF DecidedInv
    <3>3. FastQuorum(j, S)' \/ SlowQuorum(j, S)'
      BY <1>2, <1>6, <3>1, <3>2 DEF FastQuorum, SlowQuorum
    <3>4. QED BY <3>2, <3>3
  <2>3. QED BY <2>1, <2>2
<1>12. NoPanic'
  BY <1>1, <1>2 DEF NoPanic
<1>13. QED BY <1>4, <1>5, <1>7, <1>8, <1>9, <1>10, <1>11, <1>12 DEF IInv

LEMMA FastDecideInv ==
    ASSUME IInv, NEW i \in Ids, NEW R \in SUBSET replies[i], FastDecide(i, R)
    PROVE  IInv'
<1>1. TypeOK /\ RequestsInv BY DEF IInv
<1>2. /\ IsQuorum(i, R) /\ Phase(step[i]) = 0 /\ \A x \in R : x.step = step[i]
      /\ IsFastPath(Firsts(R)) /\ Decide(i, Best(Firsts(R)).value)
  BY DEF FastDecide, QuorumAtStep
<1>3. /\ IsMajority(Responders(R)) /\ R # {} /\ Firsts(R) \in SUBSET OptProposals
      /\ IsFiniteSet(Firsts(R)) /\ Firsts(R) # {}
  BY <1>1, <1>2, QuorumFacts
<1>4. PICK p \in Firsts(R) : p.priority = H /\ Firsts(R) = {p}
  BY <1>2 DEF IsFastPath
<1>5. Best(Firsts(R)) = p
  <2>1. Best(Firsts(R)) \in Firsts(R) BY <1>3, BestIsMaximum
  <2>2. QED BY <1>4, <2>1
<1>6. PICK z \in R : z.first = p
  BY <1>4 DEF Firsts
<1>7. PICK m \in reqs : m.req_step = step[i] /\ m.prop = p
  BY <1>2, <1>6, ReplyFacts
<1>8. step[i] = FIRST_ROUND_STEP /\ p \in SentAt(FIRST_ROUND_STEP)
  BY <1>1, <1>2, <1>4, <1>7 DEF RequestsInv, SentAt
<1>9. p.value \in Values
  BY <1>6, ReplyFacts DEF Proposals
<1>10. \A x \in R : x.first = p
  BY <1>4 DEF Firsts
<1>11. Running(i) BY <1>2 DEF IsQuorum
<1>12. QED BY <1>2, <1>3, <1>4, <1>5, <1>8, <1>9, <1>10, <1>11, DecideInv

LEMMA SlowDecideInv ==
    ASSUME IInv, NEW i \in Ids, NEW R \in SUBSET replies[i], SlowDecide(i, R)
    PROVE  IInv'
<1>1. TypeOK BY DEF IInv
<1>2. /\ IsQuorum(i, R) /\ Phase(step[i]) = 2 /\ \A x \in R : x.step = step[i]
      /\ Best(PriorAggs(R)) = proposal[i] /\ Decide(i, proposal[i].value)
  BY DEF SlowDecide, QuorumAtStep
<1>3. /\ IsMajority(Responders(R)) /\ R # {} /\ PriorAggs(R) \in SUBSET OptProposals
      /\ IsFiniteSet(PriorAggs(R)) /\ PriorAggs(R) # {}
  BY <1>1, <1>2, QuorumFacts
<1>4. \A x \in R : Leq(x.prior_agg, proposal[i])
  BY SMTT(40), <1>2, <1>3, BestIsMaximum DEF PriorAggs
<1>5. proposal[i].value \in Values
  BY <1>1 DEF TypeOK, Proposals
<1>6. Running(i) BY <1>2 DEF IsQuorum
<1>7. QED BY <1>2, <1>3, <1>4, <1>5, <1>6, DecideInv

-----------------------------------------------------------------------------
(* The inductive invariant.                                                 *)

LEMMA InitInv ==
    ASSUME Init
    PROVE  IInv
<1>1. \A i \in Ids : [priority |-> H, origin |-> i, value |-> InitVal[i]] \in Proposals
  <2>1. H \in 1..H BY PriorityAssumption
  <2>2. QED BY <2>1 DEF Proposals
<1>2. Nil \in OptProposals /\ NewIsr \in Isrs
  BY DEF OptProposals, NewIsr, Isrs
<1>3. TypeOK
  BY <1>1, <1>2 DEF Init, TypeOK
<1>4. Lifecycle
  BY DEF Init, Lifecycle
<1>5. RequestsInv /\ RegistersInv /\ RepliesInv
  BY DEF Init, RequestsInv, RegistersInv, RepliesInv
<1>6. AnswersRecorded /\ SpreadInv /\ GatheredInv /\ ChosenFirstInv
  BY DEF Init, AnswersRecorded, SpreadInv, GatheredInv, ChosenFirstInv
<1>7. DecidedInv /\ NoPanic
  BY DEF Init, DecidedInv, NoPanic
<1>8. QED BY <1>3, <1>4, <1>5, <1>6, <1>7 DEF IInv

LEMMA NextInv ==
    ASSUME SingleKick, IInv, [Next]_vars
    PROVE  IInv'
<1>1. ASSUME NEW i \in Ids, Start(i) PROVE IInv'
  BY <1>1, StartInv
<1>2. ASSUME NEW i \in Ids, StartHedged(i) PROVE IInv'
  BY <1>2, StartHedgedInv
<1>3. ASSUME NEW i \in Ids, HedgeDefer(i) PROVE IInv'
  BY <1>3, HedgeDeferInv
<1>4. ASSUME NEW i \in Ids, HedgeActivate(i) PROVE IInv'
  BY <1>4, HedgeActivateInv
<1>5. ASSUME NEW i \in Ids, Retry(i) PROVE IInv'
  BY <1>5, RetryInv
<1>6. ASSUME NEW m \in reqs, OnRequest(m) PROVE IInv'
  BY <1>6, OnRequestInv
<1>7. ASSUME NEW i \in Ids, NEW R \in SUBSET replies[i], OnQuorum(i, R) PROVE IInv'
  <2>1. CASE FastDecide(i, R) BY <2>1, FastDecideInv
  <2>2. CASE Propose(i, R) BY <2>2, ProposeInv
  <2>3. CASE Spread(i, R)
    BY <2>3, KeepInv DEF Spread, QuorumAtStep
  <2>4. CASE SlowDecide(i, R) BY <2>4, SlowDecideInv
  <2>5. CASE GatherE(i, R)
    BY <2>5, KeepInv DEF GatherE, QuorumAtStep
  <2>6. CASE GatherC(i, R) BY <2>6, GatherCInv
  <2>7. CASE CatchUp(i, R) BY <2>7, CatchUpInv
  <2>8. QED BY <1>7, <2>1, <2>2, <2>3, <2>4, <2>5, <2>6, <2>7 DEF OnQuorum
<1>8. CASE UNCHANGED vars
  BY <1>8, StutterInv
<1>9. QED BY <1>1, <1>2, <1>3, <1>4, <1>5, <1>6, <1>7, <1>8 DEF Next

\* IInv holds in every reachable state of a slot whose proposers are each
\* kicked off at most once.
THEOREM Invariance ==
    ASSUME SingleKick
    PROVE  Spec => []IInv
<1>1. Init => IInv BY InitInv
<1>2. IInv /\ [Next]_vars => IInv' BY NextInv
<1>3. QED BY <1>1, <1>2, PTL DEF Spec

-----------------------------------------------------------------------------
(* Types and registers, for any number of kickoffs.                        *)

\* begin_step with a well-typed step and template keeps the types.
LEMMA BeginStepType ==
    ASSUME TypeInv, NEW i \in Ids, NEW s \in Nat, NEW p \in Proposals,
           BeginStep(i, s, p),
           isr' \in [Ids -> Isrs], decided' = decided, panicked' = panicked,
           kicks' \in [Ids -> Nat], hedges' \in [Ids -> Nat], lastSeen' \in [Ids -> Nat]
    PROVE  TypeInv'
<1>0. TypeOK BY DEF TypeInv
<1>1. PICK out \in Outgoing(i, s, p) :
        /\ sent' = [sent EXCEPT ![i] = out]
        /\ reqs' = reqs \cup
             {[from |-> i, to |-> r, req_step |-> s, prop |-> out[r]] : r \in Ids}
  BY DEF BeginStep
<1>2. out \in [Ids -> Proposals]
  BY <1>1, OutgoingFacts
<1>3. reqs' \subseteq Requests
  <2>1. \A r \in Ids :
          [from |-> i, to |-> r, req_step |-> s, prop |-> out[r]] \in Requests
    BY <1>2 DEF Requests
  <2>2. QED BY <1>0, <1>1, <2>1 DEF TypeOK
<1>4. sent' \in [Ids -> [Ids -> OptProposals]]
  BY <1>0, <1>1, <1>2 DEF TypeOK, OptProposals
<1>5. TypeOK'
  BY <1>0, <1>3, <1>4 DEF TypeOK, BeginStep
<1>6. \A j \in activated' : sent'[j] \in [Ids -> Proposals]
  BY <1>0, <1>1, <1>2 DEF TypeInv, TypeOK, BeginStep
<1>7. QED BY <1>5, <1>6 DEF TypeInv

\* What process_phase may adopt is a proposal, or there is none to adopt.
LEMMA BestType ==
    ASSUME TypeOK, NEW i \in Ids, NEW R \in SUBSET replies[i], IsQuorum(i, R)
    PROVE  /\ Best(Firsts(R)) # Nil => Best(Firsts(R)) \in Proposals
           /\ Best(PriorAggs(R)) # Nil => Best(PriorAggs(R)) \in Proposals
<1>1. /\ Firsts(R) \in SUBSET OptProposals /\ PriorAggs(R) \in SUBSET OptProposals
      /\ IsFiniteSet(Firsts(R)) /\ Firsts(R) # {}
      /\ IsFiniteSet(PriorAggs(R)) /\ PriorAggs(R) # {}
  BY QuorumFacts
<1>2. Best(Firsts(R)) \in OptProposals /\ Best(PriorAggs(R)) \in OptProposals
  BY <1>1, BestIsMaximum
<1>3. QED BY <1>2 DEF OptProposals

LEMMA OnQuorumType ==
    ASSUME TypeInv, NEW i \in Ids, NEW R \in SUBSET replies[i], OnQuorum(i, R)
    PROVE  TypeInv'
<1>0. TypeOK BY DEF TypeInv
<1>1. /\ step[i] \in Nat /\ step[i] + 1 \in Nat /\ proposal[i] \in Proposals
      /\ proposal[i].value \in Values
  BY <1>0 DEF TypeOK, Proposals
<1>2. ASSUME NEW p \in Proposals, Advance(i, p) PROVE TypeInv'
  BY <1>1, <1>2, BeginStepType DEF Advance, TypeOK, TypeInv
<1>3. ASSUME NEW v \in Values, Decide(i, v) PROVE TypeInv'
  BY <1>3 DEF Decide, TypeOK, TypeInv
<1>4. ASSUME Panic(i) PROVE TypeInv'
  BY <1>4 DEF Panic, TypeOK, TypeInv
<1>5. CASE FastDecide(i, R)
  <2>1. /\ IsQuorum(i, R) /\ IsFastPath(Firsts(R)) /\ Decide(i, Best(Firsts(R)).value)
    BY <1>5 DEF FastDecide, QuorumAtStep
  <2>2. PICK p \in Firsts(R) : p.priority = H /\ Firsts(R) = {p}
    BY <2>1 DEF IsFastPath
  <2>3. p \in OptProposals /\ Best(Firsts(R)) = p
    <3>1. /\ Firsts(R) \in SUBSET OptProposals
          /\ IsFiniteSet(Firsts(R)) /\ Firsts(R) # {}
      BY <1>0, <2>1, QuorumFacts
    <3>2. Best(Firsts(R)) \in Firsts(R) BY <3>1, BestIsMaximum
    <3>3. QED BY <2>2, <3>1, <3>2
  <2>4. p \in Proposals
    <3>1. p.priority >= 1 BY <2>2, PriorityAssumption
    <3>2. QED BY <2>3, <3>1, OptProposalFields
  <2>5. p.value \in Values BY <2>4 DEF Proposals
  <2>6. QED BY <1>3, <2>1, <2>3, <2>5
<1>6. CASE Propose(i, R)
  BY <1>0, <1>2, <1>4, <1>6, BestType DEF Propose, QuorumAtStep
<1>7. CASE Spread(i, R) \/ GatherE(i, R)
  BY <1>1, <1>2, <1>7 DEF Spread, GatherE
<1>8. CASE SlowDecide(i, R)
  BY <1>1, <1>3, <1>8 DEF SlowDecide
<1>9. CASE GatherC(i, R)
  BY <1>0, <1>2, <1>4, <1>9, BestType DEF GatherC, QuorumAtStep
<1>10. CASE CatchUp(i, R)
  <2>1. CASE Panic(i) BY <1>4, <2>1
  <2>2. CASE ~Panic(i)
    <3>1. PICK x \in R : IsFurthest(x, R, step[i]) /\ x.first # Nil
      BY <1>10, <2>2 DEF CatchUp
    <3>2. PICK y \in R :
            /\ IsFurthest(y, R, step[i])
            /\ BeginStep(i, y.step, y.first)
            /\ UNCHANGED <<isr, decided, kicks, hedges, lastSeen, panicked>>
      BY <1>10, <3>1 DEF CatchUp
    <3>3. x \in Responses /\ y \in Responses BY <1>0 DEF TypeOK
    <3>4. /\ x.step \in Nat /\ y.step \in Nat /\ x.from \in Nat /\ y.from \in Nat
          /\ y.first \in OptProposals
      BY <3>3, IdsAssumption DEF Responses
    <3>5. x.from = y.from BY <3>1, <3>2, <3>4 DEF IsFurthest
    <3>6. x = y BY <1>10, <3>5 DEF CatchUp, IsQuorum
    <3>7. y.first \in Proposals BY <3>1, <3>4, <3>6 DEF OptProposals
    <3>8. QED BY <1>0, <3>2, <3>4, <3>7, BeginStepType DEF TypeOK
  <2>3. QED BY <2>1, <2>2
<1>11. QED BY <1>5, <1>6, <1>7, <1>8, <1>9, <1>10 DEF OnQuorum

LEMMA NextType ==
    ASSUME TypeInv, [Next]_vars
    PROVE  TypeInv'
<1>0. TypeOK BY DEF TypeInv
<1>1. ASSUME NEW i \in Ids, Start(i) PROVE TypeInv'
  <2>1. kicks' \in [Ids -> Nat] BY <1>0, <1>1 DEF Start, TypeOK
  <2>2. proposal[i] \in Proposals /\ FIRST_ROUND_STEP \in Nat
    BY <1>0 DEF TypeOK, FIRST_ROUND_STEP
  <2>3. QED BY <1>1, <2>1, <2>2, <1>0, BeginStepType DEF Start, TypeOK
<1>2. ASSUME NEW i \in Ids, StartHedged(i) PROVE TypeInv'
  BY <1>0, <1>2 DEF StartHedged, TypeInv, TypeOK, FIRST_ROUND_STEP
<1>3. ASSUME NEW i \in Ids, HedgeDefer(i) PROVE TypeInv'
  <2>1. isr[i].step \in Nat BY <1>0 DEF TypeOK, Isrs
  <2>2. QED BY <1>3, <2>1 DEF HedgeDefer, TypeInv, TypeOK
<1>4. ASSUME NEW i \in Ids, HedgeActivate(i) PROVE TypeInv'
  <2>1. hedges' \in [Ids -> Nat] BY <1>0, <1>4 DEF HedgeActivate, TypeOK
  <2>2. proposal[i] \in Proposals /\ step[i] \in Nat BY <1>0 DEF TypeOK
  <2>3. QED BY <1>4, <2>1, <2>2, <1>0, BeginStepType DEF HedgeActivate, TypeOK
<1>5. ASSUME NEW m \in reqs, OnRequest(m) PROVE TypeInv'
  BY <1>5, <1>0, OnRequestFacts DEF OnRequest, TypeInv, TypeOK
<1>6. ASSUME NEW i \in Ids, NEW R \in SUBSET replies[i], OnQuorum(i, R) PROVE TypeInv'
  BY <1>6, OnQuorumType
<1>7. ASSUME NEW i \in Ids, Retry(i) PROVE TypeInv'
  <2>1. \A r \in Ids :
          [from |-> i, to |-> r, req_step |-> step[i], prop |-> sent[i][r]] \in Requests
    BY <1>0, <1>7 DEF Retry, TypeInv, TypeOK, Requests
  <2>2. reqs' \subseteq Requests
    BY <1>0, <1>7, <2>1 DEF Retry, TypeOK
  <2>3. QED BY <1>7, <2>2 DEF Retry, TypeInv, TypeOK
<1>8. CASE UNCHANGED vars
  BY <1>8 DEF vars, TypeInv, TypeOK
<1>9. QED BY <1>1, <1>2, <1>3, <1>4, <1>5, <1>6, <1>7, <1>8 DEF Next

\* Every variable of the slot keeps its type.
THEOREM TypeCorrectness == Spec => []TypeOK
<1>1. Init => TypeInv BY InitInv DEF IInv, TypeInv, Init
<1>2. TypeInv /\ [Next]_vars => TypeInv' BY NextType
<1>3. TypeInv => TypeOK BY DEF TypeInv
<1>4. QED BY <1>1, <1>2, <1>3, PTL DEF Spec

\* A recorder's register never moves back, and within a step only its current
\* aggregate changes, upwards: whatever the requests, however often they come.
THEOREM RegistersMonotone == Spec => IsrMonotone
<1>1. ASSUME TypeOK, Next PROVE IsrAdvances
  <2>1. ASSUME isr' = isr PROVE IsrAdvances
    <3>1. \A r \in Ids : isr[r].current_agg \in OptProposals BY <1>1 DEF TypeOK, Isrs
    <3>2. QED BY <2>1, <3>1, LeqReflexive DEF IsrAdvances
  <2>2. ASSUME NEW m \in reqs, OnRequest(m) PROVE IsrAdvances
    <3>1. /\ isr' \in [Ids -> Isrs]
          /\ Moves(isr[m.to], isr'[m.to], m.req_step, m.prop)
          /\ \A r \in Ids : r # m.to => isr'[r] = isr[r]
      BY <1>1, <2>2, OnRequestFacts
    <3> SUFFICES ASSUME NEW r \in Ids
                 PROVE \/ isr[r].step < isr'[r].step
                       \/ /\ isr[r].step = isr'[r].step
                          /\ isr[r].first = isr'[r].first
                          /\ isr[r].prior_agg = isr'[r].prior_agg
                          /\ Leq(isr[r].current_agg, isr'[r].current_agg)
      BY DEF IsrAdvances
    <3>2. /\ isr[r].step \in Nat /\ isr'[r].step \in Nat
          /\ isr[r].current_agg \in OptProposals
      BY <1>1, <3>1 DEF TypeOK, Isrs
    <3>3. CASE r = m.to BY <3>1, <3>2, <3>3 DEF Moves
    <3>4. CASE r # m.to BY <3>1, <3>2, <3>4, LeqReflexive
    <3>5. QED BY <3>3, <3>4
  <2>3. ASSUME NEW i \in Ids,
               Start(i) \/ StartHedged(i) \/ HedgeDefer(i) \/ HedgeActivate(i) \/ Retry(i)
        PROVE  isr' = isr
    BY <2>3 DEF Start, StartHedged, HedgeDefer, HedgeActivate, Retry
  <2>4. ASSUME NEW i \in Ids, NEW R \in SUBSET replies[i], OnQuorum(i, R)
        PROVE  isr' = isr
    BY <2>4 DEF OnQuorum, FastDecide, Propose, Spread, SlowDecide, GatherE, GatherC,
                CatchUp, Decide, Advance, Panic
  <2>5. QED BY <1>1, <2>1, <2>2, <2>3, <2>4 DEF Next
<1>2. TypeOK /\ [Next]_vars => [IsrAdvances]_vars
  BY <1>1
<1>3. QED BY <1>2, TypeCorrectness, PTL DEF Spec, IsrMonotone

-----------------------------------------------------------------------------
(* Agreement.                                                              *)

\* Only the leader's initial proposal is ever sent at H in phase 0.
LEMMA OneHigh ==
    ASSUME IInv, NEW c \in SentAt(FIRST_ROUND_STEP), c.priority = H
    PROVE  c = LeaderProposal
BY DEF IInv, RequestsInv, SentAt, Phase, FIRST_ROUND_STEP

\* What is sent from the following round on carries a decided value. After
\* the fast path the leader's H proposal is the best of any majority's first
\* proposals; after the slow path the decided proposal is the best a majority
\* aggregated in the deciding phase 2, seen from above and from below.
LEMMA Locks == IInv => DecisionLocks
<1> SUFFICES ASSUME IInv, NEW i \in Ids, decided[i] # None, NEW m \in reqs,
                    m.req_step >= (IF step[i] = FIRST_ROUND_STEP THEN 5 ELSE step[i] + 2)
             PROVE  m.prop.value = decided[i]
  BY DEF DecisionLocks
<1>1. TypeOK /\ RepliesInv /\ SpreadInv /\ DecidedInv BY DEF IInv
<1>2. PICK R \in SUBSET replies[i] :
        /\ IsMajority(Responders(R))
        /\ \A x \in R : x.step = step[i]
        /\ FastQuorum(i, R) \/ SlowQuorum(i, R)
  BY <1>1 DEF DecidedInv
<1>3. ASSUME NEW Q, IsMajority(Q) PROVE \E x \in R : x.from \in Q
  BY <1>2, <1>3, MajoritiesMeet DEF Responders
<1>4. /\ step[i] \in Nat /\ m.req_step \in Nat /\ m.req_step >= FIRST_ROUND_STEP
      /\ m.prop.value = m.prop.value
      /\ proposal[i] \in OptProposals
  BY <1>1, Inherited DEF TypeOK, OptProposals
<1>5. CASE FastQuorum(i, R)
  <2>1. PICK p \in SentAt(FIRST_ROUND_STEP) :
          p.priority = H /\ p.value = decided[i] /\ \A x \in R : x.first = p
    BY <1>5 DEF FastQuorum
  <2>2. step[i] = FIRST_ROUND_STEP /\ m.req_step > FIRST_ROUND_STEP
    BY <1>4, <1>5 DEF FastQuorum, FIRST_ROUND_STEP
  <2>3. PICK c \in SentAt(FIRST_ROUND_STEP), Q \in SUBSET Ids :
          c.value = m.prop.value /\ IsMajority(Q) /\ \A r \in Q : FirstAtMost(r, c)
    BY <2>2, InheritedFirst
  <2>4. PICK x \in R : x.from \in Q
    BY <1>3, <2>3
  <2>5. Leq(p, c)
    BY <1>2, <2>1, <2>2, <2>3, <2>4 DEF FirstAtMost
  <2>6. p \in OptProposals /\ c \in OptProposals
    BY <1>1 DEF SentAt, TypeOK, Requests, OptProposals
  <2>7. c.priority = H
    BY <2>1, <2>5, <2>6, OptProposalFields DEF Leq
  <2>8. QED BY <2>1, <2>3, <2>7, OneHigh
<1>6. CASE SlowQuorum(i, R)
  <2> DEFINE s == step[i]
             p == proposal[i]
  <2>1. /\ Phase(s) = 2 /\ p.value = decided[i]
        /\ \A x \in R : Leq(x.prior_agg, p)
    BY <1>6 DEF SlowQuorum
  <2>2. s # FIRST_ROUND_STEP /\ s + 2 <= m.req_step /\ FIRST_ROUND_STEP <= s
    <3>1. i \in activated
      BY <1>1 DEF IInv, Lifecycle
    <3>2. s >= FIRST_ROUND_STEP
      BY <3>1 DEF IInv, Lifecycle
    <3>3. s # FIRST_ROUND_STEP BY <2>1 DEF Phase, FIRST_ROUND_STEP
    <3>4. QED BY <1>4, <3>2, <3>3 DEF FIRST_ROUND_STEP
  <2>3. PICK c \in SentAt(s), Q \in SUBSET Ids :
          c.value = m.prop.value /\ IsMajority(Q) /\ \A r \in Q : Closed(r, s, c)
    <3>1. s \in Nat /\ Phase(s) = 2 /\ FIRST_ROUND_STEP <= s /\ s + 2 <= m.req_step
      BY <1>4, <2>1, <2>2
    <3> QED BY <3>1, InheritedAt
  <2>4. c \in OptProposals
    BY <1>1 DEF SentAt, TypeOK, Requests, OptProposals
  <2>5. Leq(p, c)
    <3>1. PICK x \in R : x.from \in Q BY <1>3, <2>3
    <3>2. QED BY <1>2, <2>3, <3>1 DEF Closed
  <2>6. Leq(c, p)
    <3>1. PICK n \in reqs : n.req_step = s /\ n.prop = c BY DEF SentAt
    <3>2. PICK P \in SUBSET Ids : IsMajority(P) /\ \A r \in P : Recorded(r, s - 1, c)
      BY <1>1, <2>1, <3>1 DEF SpreadInv
    <3>3. PICK x \in R : x.from \in P BY <1>3, <3>2
    <3>4. x.step = (s - 1) + 1 BY <1>2, <1>4, <3>3
    <3>5. Leq(c, x.prior_agg) BY <3>2, <3>3, <3>4 DEF Recorded
    <3>6. x.prior_agg \in OptProposals BY <3>3, ReplyFacts
    <3>7. QED BY <1>4, <2>1, <2>4, <3>3, <3>5, <3>6, LeqTransitive
  <2>7. QED BY <1>4, <2>1, <2>3, <2>4, <2>5, <2>6, LeqAntisymmetric
<1>7. QED BY <1>2, <1>5, <1>6

\* A proposer that decided on the slow path at step s sent its template at s.
LEMMA SlowSent ==
    ASSUME IInv, NEW i \in Ids, decided[i] # None, step[i] # FIRST_ROUND_STEP
    PROVE  /\ Phase(step[i]) = 2 /\ step[i] \in Nat /\ step[i] > FIRST_ROUND_STEP
           /\ \E m \in reqs : m.req_step = step[i] /\ m.prop = proposal[i]
           /\ proposal[i].value = decided[i] /\ proposal[i] \in OptProposals
           /\ \E R \in SUBSET replies[i] :
                /\ IsMajority(Responders(R))
                /\ \A x \in R : x.step = step[i] /\ Leq(x.prior_agg, proposal[i])
<1>1. PICK R \in SUBSET replies[i] :
        /\ IsMajority(Responders(R))
        /\ \A x \in R : x.step = step[i]
        /\ SlowQuorum(i, R)
  BY DEF IInv, DecidedInv, FastQuorum
<1>2. replies[i] # {}
  BY <1>1, MajoritiesMeet DEF Responders
<1>3. /\ step[i] \in Nat /\ step[i] >= FIRST_ROUND_STEP /\ proposal[i] \in Proposals
      /\ Phase(step[i]) # 0 => \E m \in reqs : m.req_step = step[i] /\ m.prop = proposal[i]
  BY <1>2, ActiveFacts
<1>4. /\ Phase(step[i]) = 2 /\ proposal[i].value = decided[i]
      /\ \A x \in R : Leq(x.prior_agg, proposal[i])
  BY <1>1 DEF SlowQuorum
<1>5. QED BY <1>1, <1>3, <1>4 DEF FIRST_ROUND_STEP, OptProposals

\* Two slow decisions of one step: each template was spread to a majority.
LEMMA SlowBelow ==
    ASSUME IInv, NEW i \in Ids, NEW j \in Ids, decided[i] # None, decided[j] # None,
           step[i] # FIRST_ROUND_STEP, step[j] = step[i]
    PROVE  Leq(proposal[j], proposal[i])
<1>1. /\ Phase(step[i]) = 2 /\ step[i] \in Nat
      /\ proposal[i] \in OptProposals /\ proposal[j] \in OptProposals
      /\ \E m \in reqs : m.req_step = step[i] /\ m.prop = proposal[j]
  BY SlowSent
<1>2. PICK R \in SUBSET replies[i] :
        /\ IsMajority(Responders(R))
        /\ \A x \in R : x.step = step[i] /\ Leq(x.prior_agg, proposal[i])
  BY SlowSent
<1>3. PICK Q \in SUBSET Ids : IsMajority(Q) /\ \A r \in Q : Recorded(r, step[i] - 1, proposal[j])
  BY <1>1 DEF IInv, SpreadInv
<1>4. PICK x \in R : x.from \in Q
  BY <1>2, <1>3, MajoritiesMeet DEF Responders
<1>5. x.step = (step[i] - 1) + 1 BY <1>1, <1>2, <1>4
<1>6. Leq(proposal[j], x.prior_agg) BY <1>3, <1>4, <1>5 DEF Recorded
<1>7. x.prior_agg \in OptProposals BY <1>4, ReplyFacts
<1>8. QED BY <1>1, <1>2, <1>4, <1>6, <1>7, LeqTransitive

LEMMA Agrees == IInv => Agreement
<1> SUFFICES ASSUME IInv, NEW i \in Ids, NEW j \in Ids, decided[i] # None, decided[j] # None
             PROVE  decided[i] = decided[j]
  BY DEF Agreement
<1>1. DecisionLocks BY Locks
<1>2. step[i] \in Nat /\ step[j] \in Nat BY DEF IInv, TypeOK
<1>3. ASSUME NEW k \in Ids, decided[k] # None, step[k] = FIRST_ROUND_STEP
      PROVE  decided[k] = LeaderProposal.value
  <2>1. PICK R \in SUBSET replies[k] : FastQuorum(k, R) \/ SlowQuorum(k, R)
    BY <1>3 DEF IInv, DecidedInv
  <2>2. FastQuorum(k, R)
    BY <1>3, <2>1 DEF SlowQuorum, Phase, FIRST_ROUND_STEP
  <2>3. QED BY <2>2, OneHigh DEF FastQuorum
<1>4. ASSUME NEW k \in Ids, NEW l \in Ids, decided[k] # None, decided[l] # None,
             step[k] \in Nat, step[l] \in Nat,
             step[l] # FIRST_ROUND_STEP, step[k] < step[l]
      PROVE  decided[k] = decided[l]
  <2>1. /\ Phase(step[l]) = 2 /\ step[l] > FIRST_ROUND_STEP
        /\ \E m \in reqs : m.req_step = step[l] /\ m.prop = proposal[l]
        /\ proposal[l].value = decided[l]
    BY <1>4, SlowSent
  <2>2. PICK m \in reqs : m.req_step = step[l] /\ m.prop = proposal[l] BY <2>1
  <2>3. step[l] >= (IF step[k] = FIRST_ROUND_STEP THEN 5 ELSE step[k] + 2)
    <3>1. CASE step[k] = FIRST_ROUND_STEP
      BY <1>4, <2>1, <3>1 DEF FIRST_ROUND_STEP
    <3>2. CASE step[k] # FIRST_ROUND_STEP
      <4>1. Phase(step[k]) = 2 BY <1>4, <3>2, SlowSent
      <4>2. QED BY <1>4, <2>1, <3>2, <4>1 DEF Phase
    <3>3. QED BY <3>1, <3>2
  <2>4. QED BY <1>1, <1>4, <2>1, <2>2, <2>3 DEF DecisionLocks
<1>5. CASE step[i] = FIRST_ROUND_STEP /\ step[j] = FIRST_ROUND_STEP
  BY <1>3, <1>5
<1>6. CASE step[i] = step[j] /\ step[i] # FIRST_ROUND_STEP
  <2>1. /\ proposal[i] \in OptProposals /\ proposal[j] \in OptProposals
        /\ proposal[i].value = decided[i] /\ proposal[j].value = decided[j]
    BY <1>6, SlowSent
  <2>2. Leq(proposal[i], proposal[j]) /\ Leq(proposal[j], proposal[i])
    BY <1>6, SlowBelow
  <2>3. QED BY <2>1, <2>2, LeqAntisymmetric
<1>7. CASE step[i] < step[j]
  <2>1. step[j] # FIRST_ROUND_STEP \/ step[i] < FIRST_ROUND_STEP BY <1>2, <1>7
  <2>2. step[i] >= FIRST_ROUND_STEP BY DEF IInv, Lifecycle
  <2>3. QED BY <1>2, <1>4, <1>7, <2>1, <2>2 DEF FIRST_ROUND_STEP
<1>8. CASE step[j] < step[i]
  <2>1. step[i] # FIRST_ROUND_STEP \/ step[j] < FIRST_ROUND_STEP BY <1>2, <1>8
  <2>2. step[j] >= FIRST_ROUND_STEP BY DEF IInv, Lifecycle
  <2>3. QED BY <1>2, <1>4, <1>8, <2>1, <2>2 DEF FIRST_ROUND_STEP
<1>9. QED BY <1>2, <1>5, <1>6, <1>7, <1>8

\* P1: no two replicas decide differently, whatever is lost, delayed,
\* duplicated or drawn, and whoever stops.
THEOREM SlotAgreement ==
    ASSUME SingleKick
    PROVE  Spec => []Agreement
BY Invariance, Agrees, PTL

\* A decision pins the value of every later round.
THEOREM SlotDecisionLocks ==
    ASSUME SingleKick
    PROVE  Spec => []DecisionLocks
BY Invariance, Locks, PTL

\* No `expect` of the proposer can fail.
THEOREM SlotNoPanic ==
    ASSUME SingleKick
    PROVE  Spec => []NoPanic
<1>1. IInv => NoPanic BY DEF IInv
<1>2. QED BY <1>1, Invariance, PTL

-----------------------------------------------------------------------------
(* What is sent, and the refinement.                                       *)

\* A step that sends something new is begin_step in a step the proposer was
\* not in yet, with a value that was sent before or with its own.
Sends(i, s, p) ==
    /\ BeginStep(i, s, p)
    /\ s \in Nat /\ p \in Proposals
    /\ i \in activated => s > step[i]
    /\ \/ \E m \in reqs : m.prop.value = p.value
       \/ p.value = InitVal[i] /\ kicks'[i] > 0

LEMMA WhatIsSent ==
    ASSUME SingleKick, IInv, [Next]_vars
    PROVE  /\ reqs' = reqs \/ \E i \in Ids : \E s, p : Sends(i, s, p)
           /\ \A k \in Ids : kicks'[k] >= kicks[k] /\ kicks'[k] \in Nat
<1>0. /\ TypeOK /\ Lifecycle /\ RequestsInv /\ kicks \in [Ids -> Nat]
      /\ step \in [Ids -> Nat] /\ proposal \in [Ids -> Proposals]
  BY DEF IInv, TypeOK
<1> DEFINE Sent == reqs' = reqs \/ \E i \in Ids : \E s, p : Sends(i, s, p)
           Kicks == \A k \in Ids : kicks'[k] >= kicks[k] /\ kicks'[k] \in Nat
<1>a. ASSUME kicks' = kicks PROVE Kicks
  BY <1>0, <1>a
<1> HIDE DEF Kicks
<1>1. ASSUME NEW i \in Ids, Start(i) PROVE Sent /\ Kicks
  <2>1. kicks[i] = 0 /\ kicks[i] \in Nat
    <3>1. kicks[i] \in Nat /\ MaxKicks[i] \in Nat BY <1>0, BoundsAssumption
    <3>2. MaxKicks[i] <= 1 /\ kicks[i] < MaxKicks[i] BY <1>1 DEF Start, SingleKick
    <3>3. QED BY <3>1, <3>2
  <2>2. i \notin activated /\ proposal[i].value = InitVal[i]
    BY <1>0, <2>1 DEF Lifecycle
  <2>3. kicks' = [kicks EXCEPT ![i] = @ + 1] BY <1>1 DEF Start
  <2>4. Kicks /\ kicks'[i] > 0 BY <1>0, <2>1, <2>3 DEF Kicks
  <2>5. Sends(i, FIRST_ROUND_STEP, proposal[i])
    BY <1>0, <1>1, <2>2, <2>4 DEF Sends, Start, FIRST_ROUND_STEP
  <2>6. QED BY <2>4, <2>5
<1>2. ASSUME NEW i \in Ids, StartHedged(i) PROVE Sent /\ Kicks
  BY <1>0, <1>2 DEF StartHedged, Kicks
<1>3. ASSUME NEW i \in Ids, HedgeDefer(i) PROVE Sent /\ Kicks
  BY <1>a, <1>3 DEF HedgeDefer
<1>4. ASSUME NEW i \in Ids, HedgeActivate(i) PROVE Sent /\ Kicks
  <2>1. kicks' = kicks BY <1>4 DEF HedgeActivate
  <2>2. /\ i \notin activated /\ proposal[i].value = InitVal[i] /\ kicks[i] = 1
    BY <1>0, <1>4 DEF Lifecycle, HedgeActivate
  <2>3. Sends(i, step[i], proposal[i])
    BY <1>0, <1>4, <2>1, <2>2 DEF Sends, HedgeActivate
  <2>4. QED BY <1>a, <2>1, <2>3
<1>5. ASSUME NEW i \in Ids, Retry(i) PROVE Sent /\ Kicks
  <2>1. reqs' = reqs BY <1>0, <1>5 DEF RequestsInv, Retry, TypeOK
  <2>2. QED BY <1>a, <1>5, <2>1 DEF Retry
<1>6. ASSUME NEW m \in reqs, OnRequest(m) PROVE Sent /\ Kicks
  BY <1>a, <1>6 DEF OnRequest
<1>7. ASSUME NEW i \in Ids, NEW R \in SUBSET replies[i], OnQuorum(i, R) PROVE Sent /\ Kicks
  <2>1. kicks' = kicks
    BY <1>7 DEF OnQuorum, FastDecide, Propose, Spread, SlowDecide, GatherE, GatherC,
                CatchUp, Decide, Advance, Panic
  <2>2. IsQuorum(i, R)
    BY <1>7 DEF OnQuorum, FastDecide, Propose, Spread, SlowDecide, GatherE, GatherC,
                CatchUp, QuorumAtStep
  <2>3. /\ R # {} /\ Firsts(R) \in SUBSET OptProposals /\ PriorAggs(R) \in SUBSET OptProposals
        /\ IsFiniteSet(Firsts(R)) /\ Firsts(R) # {}
        /\ IsFiniteSet(PriorAggs(R)) /\ PriorAggs(R) # {}
    BY <1>0, <2>2, QuorumFacts
  <2>4. step[i] \in Nat /\ proposal[i] \in Proposals
    BY <1>0
  <2>5. ASSUME NEW p \in Proposals, Advance(i, p), \E m \in reqs : m.prop.value = p.value
        PROVE  Sent
    <3>1. Sends(i, step[i] + 1, p) BY <2>4, <2>5 DEF Sends, Advance
    <3>2. QED BY <3>1
  <2>6. CASE Decide(i, Best(Firsts(R)).value) \/ Decide(i, proposal[i].value) \/ Panic(i)
    BY <1>a, <2>1, <2>6 DEF Decide, Panic
  <2>7. CASE Propose(i, R) /\ ~Panic(i)
    <3>1. Best(Firsts(R)) \in Firsts(R) BY <2>3, BestIsMaximum
    <3>2. PICK x \in R : x.first = Best(Firsts(R)) BY <3>1 DEF Firsts
    <3>3. /\ Best(Firsts(R)) \in Proposals
          /\ \E m \in reqs : m.prop.value = Best(Firsts(R)).value
      BY <3>2, ReplyFacts
    <3>4. Advance(i, Best(Firsts(R))) BY <2>7 DEF Propose
    <3>5. QED BY <1>a, <2>1, <2>5, <3>3, <3>4
  <2>8. CASE Spread(i, R) \/ GatherE(i, R)
    <3>1. Phase(step[i]) # 0 /\ Advance(i, proposal[i])
      BY <2>8 DEF Spread, GatherE, QuorumAtStep
    <3>2. \E m \in reqs : m.prop.value = proposal[i].value
      BY <2>3, <3>1, ActiveFacts
    <3>3. QED BY <1>a, <2>1, <2>4, <2>5, <3>1, <3>2
  <2>9. CASE GatherC(i, R) /\ ~Panic(i)
    <3>1. Best(PriorAggs(R)) \in PriorAggs(R) BY <2>3, BestIsMaximum
    <3>2. PICK x \in R : x.prior_agg = Best(PriorAggs(R)) BY <3>1 DEF PriorAggs
    <3>3. Best(PriorAggs(R)) # Nil /\ Advance(i, Best(PriorAggs(R))) BY <2>9 DEF GatherC
    <3>4. /\ Best(PriorAggs(R)) \in Proposals
          /\ \E m \in reqs : m.prop.value = Best(PriorAggs(R)).value
      BY <2>3, <3>1, <3>2, <3>3, ReplyFacts DEF OptProposals
    <3>5. QED BY <1>a, <2>1, <2>5, <3>3, <3>4
  <2>10. CASE CatchUp(i, R) /\ ~Panic(i)
    <3>1. PICK x \in R : IsFurthest(x, R, step[i]) /\ BeginStep(i, x.step, x.first)
      BY <2>10 DEF CatchUp
    <3>2. /\ x.step \in Nat /\ x.first \in Proposals
          /\ \E m \in reqs : m.prop.value = x.first.value
      BY <3>1, ReplyFacts
    <3>3. Sends(i, x.step, x.first) BY <3>1, <3>2 DEF Sends, IsFurthest
    <3>4. QED BY <1>a, <2>1, <3>3
  <2>11. QED BY <1>7, <2>6, <2>7, <2>8, <2>9, <2>10 DEF OnQuorum, FastDecide, SlowDecide
<1>8. ASSUME UNCHANGED vars PROVE Sent /\ Kicks
  BY <1>a, <1>8 DEF vars
<1>9. QED BY <1>1, <1>2, <1>3, <1>4, <1>5, <1>6, <1>7, <1>8 DEF Next, Kicks

\* The requests begin_step adds.
LEMMA NewRequests ==
    ASSUME IInv, NEW i \in Ids, NEW s, NEW p, Sends(i, s, p)
    PROVE  \A m \in reqs' \ reqs :
             /\ m.from = i /\ m.req_step = s /\ m.prop.value = p.value
             /\ \A n \in reqs' \ reqs : Phase(s) # 0 \/ n.to = m.to => n.prop = m.prop
             /\ \A n \in reqs : n.from = i => n.req_step # s
<1>1. s \in Nat /\ p \in Proposals /\ BeginStep(i, s, p)
  BY DEF Sends
<1>2. PICK out \in Outgoing(i, s, p) :
        reqs' = reqs \cup
          {[from |-> i, to |-> r, req_step |-> s, prop |-> out[r]] : r \in Ids}
  BY <1>1 DEF BeginStep
<1>3. /\ \A r \in Ids : out[r].value = p.value
      /\ Phase(s) # 0 => \A r \in Ids : out[r] = p
  <2>1. s \in Nat /\ p \in Proposals /\ out \in Outgoing(i, s, p) BY <1>1, <1>2
  <2>2. \A r \in Ids : out[r].value = p.value
    <3>1. CASE Phase(s) # 0 BY <2>1, <3>1 DEF Outgoing
    <3>2. CASE Phase(s) = 0 BY <2>1, <3>2 DEF Outgoing
    <3> QED BY <3>1, <3>2
  <2>3. Phase(s) # 0 => \A r \in Ids : out[r] = p BY <2>1 DEF Outgoing
  <2>4. QED BY <2>2, <2>3
<1>4. \A m \in reqs' \ reqs :
        m.from = i /\ m.to \in Ids /\ m.req_step = s /\ m.prop = out[m.to]
  BY <1>2
<1>5. \A n \in reqs : n.from = i => n.req_step # s
  <2> SUFFICES ASSUME NEW n \in reqs, n.from = i, n.req_step = s PROVE FALSE
    OBVIOUS
  <2>1. i \in activated /\ n.req_step <= step[i] BY DEF IInv, RequestsInv
  <2>2. s > step[i] /\ step[i] \in Nat BY <2>1 DEF Sends, IInv, TypeOK
  <2>3. QED BY <1>1, <2>1, <2>2
<1>6. QED BY <1>3, <1>4, <1>5

\* A proposer sends one proposal per step (per recorder in phase 0), and every
\* value in flight is one some replica was kicked off with.
THEOREM SlotRequests ==
    ASSUME SingleKick
    PROVE  Spec => [](OneProposalPerStep /\ ValidRequests)
<1>1. Init => OneProposalPerStep /\ ValidRequests
  BY DEF Init, OneProposalPerStep, ValidRequests
<1>2. ASSUME IInv, OneProposalPerStep, ValidRequests, [Next]_vars
      PROVE  OneProposalPerStep' /\ ValidRequests'
  <2>1. /\ reqs' = reqs \/ \E i \in Ids : \E s, p : Sends(i, s, p)
        /\ \A k \in Ids : kicks'[k] >= kicks[k] /\ kicks'[k] \in Nat /\ kicks[k] \in Nat
    BY <1>2, WhatIsSent DEF IInv, TypeOK
  <2>2. Proposed \subseteq Proposed' BY <2>1 DEF Proposed
  <2>3. CASE reqs' = reqs
    BY <1>2, <2>2, <2>3 DEF OneProposalPerStep, ValidRequests
  <2>4. CASE \E i \in Ids : \E s, p : Sends(i, s, p)
    <3>1. PICK i \in Ids : \E s, p : Sends(i, s, p) BY <2>4
    <3>2. PICK s, p : Sends(i, s, p) BY <3>1
    <3>3. \A m \in reqs' \ reqs :
            /\ m.from = i /\ m.req_step = s /\ m.prop.value = p.value
            /\ \A n \in reqs' \ reqs : Phase(s) # 0 \/ n.to = m.to => n.prop = m.prop
            /\ \A n \in reqs : n.from = i => n.req_step # s
      BY <1>2, <3>2, NewRequests
    <3>4. OneProposalPerStep'
      BY <1>2, <3>3 DEF OneProposalPerStep
    <3>5. p.value \in Proposed'
      BY <1>2, <2>2, <3>2 DEF Sends, ValidRequests, Proposed
    <3>6. ValidRequests'
      BY <1>2, <2>2, <3>3, <3>5 DEF ValidRequests
    <3>7. QED BY <3>4, <3>6
  <2>5. QED BY <2>1, <2>3, <2>4
<1>3. QED BY <1>1, <1>2, Invariance, PTL DEF Spec

\* A decision is made from nothing, once, and of a value that was sent.
LEMMA DecisionFacts ==
    ASSUME IInv, [Next]_vars
    PROVE  \/ decided' = decided
           \/ /\ kicks' = kicks
              /\ \E i \in Ids : \E v \in Values :
                   /\ decided[i] = None
                   /\ decided' = [decided EXCEPT ![i] = v]
                   /\ \E m \in reqs : m.prop.value = v
<1> DEFINE Goal == \E i \in Ids : \E v \in Values :
                     /\ decided[i] = None
                     /\ decided' = [decided EXCEPT ![i] = v]
                     /\ \E m \in reqs : m.prop.value = v
<1>0. TypeOK BY DEF IInv
<1>1. ASSUME NEW i \in Ids,
             Start(i) \/ StartHedged(i) \/ HedgeDefer(i) \/ HedgeActivate(i) \/ Retry(i)
      PROVE  decided' = decided
  BY <1>1 DEF Start, StartHedged, HedgeDefer, HedgeActivate, Retry
<1>2. ASSUME NEW m \in reqs, OnRequest(m) PROVE decided' = decided
  BY <1>2 DEF OnRequest
<1>3. ASSUME NEW i \in Ids, NEW R \in SUBSET replies[i], OnQuorum(i, R)
      PROVE  decided' = decided \/ (kicks' = kicks /\ Goal)
  <2>1. CASE FastDecide(i, R)
    <3>1. /\ IsQuorum(i, R) /\ decided[i] = None
          /\ decided' = [decided EXCEPT ![i] = Best(Firsts(R)).value] /\ kicks' = kicks
      BY <2>1 DEF FastDecide, QuorumAtStep, IsQuorum, Running, Decide
    <3>2. /\ Firsts(R) \in SUBSET OptProposals /\ IsFiniteSet(Firsts(R)) /\ Firsts(R) # {}
      BY <1>0, <3>1, QuorumFacts
    <3>3. Best(Firsts(R)) \in Firsts(R) BY <3>2, BestIsMaximum
    <3>4. PICK x \in R : x.first = Best(Firsts(R)) BY <3>3 DEF Firsts
    <3>5. /\ Best(Firsts(R)) \in Proposals
          /\ \E m \in reqs : m.prop.value = Best(Firsts(R)).value
      BY <3>4, ReplyFacts
    <3>6. Best(Firsts(R)).value \in Values BY <3>5 DEF Proposals
    <3>7. QED BY <3>1, <3>5, <3>6
  <2>2. CASE SlowDecide(i, R)
    <3>1. /\ IsQuorum(i, R) /\ decided[i] = None /\ Phase(step[i]) # 0
          /\ decided' = [decided EXCEPT ![i] = proposal[i].value] /\ kicks' = kicks
      BY <2>2 DEF SlowDecide, QuorumAtStep, IsQuorum, Running, Decide
    <3>2. R # {} BY <1>0, <3>1, QuorumFacts
    <3>3. \E m \in reqs : m.prop.value = proposal[i].value
      BY <3>1, <3>2, ActiveFacts
    <3>4. proposal[i].value \in Values BY <1>0 DEF TypeOK, Proposals
    <3>5. QED BY <3>1, <3>3, <3>4
  <2>3. CASE Propose(i, R) \/ Spread(i, R) \/ GatherE(i, R) \/ GatherC(i, R) \/ CatchUp(i, R)
    BY <2>3 DEF Propose, Spread, GatherE, GatherC, CatchUp, Advance, Panic
  <2>4. QED BY <1>3, <2>1, <2>2, <2>3 DEF OnQuorum
<1>4. CASE UNCHANGED vars BY <1>4 DEF vars
<1>5. QED BY <1>1, <1>2, <1>3, <1>4 DEF Next

\* A kickoff proposes the replica's value and nothing else.
LEMMA ProposedFacts ==
    ASSUME IInv, [Next]_vars
    PROVE  \/ Proposed' = Proposed
           \/ decided' = decided /\ \E v \in Values : Proposed' = Proposed \cup {v}
<1>0. kicks \in [Ids -> Nat] BY DEF IInv, TypeOK
<1>1. ASSUME NEW i \in Ids, Start(i) \/ StartHedged(i)
      PROVE  decided' = decided /\ \E v \in Values : Proposed' = Proposed \cup {v}
  <2>1. kicks' = [kicks EXCEPT ![i] = @ + 1] /\ decided' = decided
    BY <1>1 DEF Start, StartHedged
  <2>2. \A k \in Ids : kicks'[k] > 0 <=> kicks[k] > 0 \/ k = i
    BY <1>0, <2>1
  <2>3. Proposed' = Proposed \cup {InitVal[i]}
    BY <2>2 DEF Proposed
  <2>4. InitVal[i] \in Values BY InitValAssumption
  <2>5. QED BY <2>1, <2>3, <2>4
<1>2. ASSUME kicks' = kicks PROVE Proposed' = Proposed
  BY <1>2 DEF Proposed
<1>3. ASSUME NEW i \in Ids, HedgeDefer(i) \/ HedgeActivate(i) \/ Retry(i)
      PROVE  kicks' = kicks
  BY <1>3 DEF HedgeDefer, HedgeActivate, Retry
<1>4. ASSUME NEW m \in reqs, OnRequest(m) PROVE kicks' = kicks
  BY <1>4 DEF OnRequest
<1>5. ASSUME NEW i \in Ids, NEW R \in SUBSET replies[i], OnQuorum(i, R)
      PROVE  kicks' = kicks
  BY <1>5 DEF OnQuorum, FastDecide, Propose, Spread, SlowDecide, GatherE, GatherC,
              CatchUp, Decide, Advance, Panic
<1>6. CASE UNCHANGED vars BY <1>2, <1>6 DEF vars
<1>7. QED BY <1>1, <1>2, <1>3, <1>4, <1>5, <1>6 DEF Next

\* The slot implements Consensus: decisions are final, unanimous and valid.
THEOREM SlotImplementsConsensus ==
    ASSUME SingleKick
    PROVE  Spec => ImplementsConsensus
<1>1. Init => Slot!Init
  <2>1. ASSUME Init PROVE Proposed = {} /\ decided = [i \in Ids |-> None]
    BY <2>1 DEF Init, Proposed
  <2>2. QED BY <2>1 DEF Slot!Init, Proposed
<1>2. ASSUME IInv, Agreement', ValidRequests, [Next]_vars
      PROVE  [Slot!Next]_<<Proposed, decided>>
  <2>1. CASE decided' = decided
    <3>1. CASE Proposed' = Proposed BY <2>1, <3>1
    <3>2. CASE \E v \in Values : Proposed' = Proposed \cup {v}
      <4>1. PICK w \in Values : Proposed' = Proposed \cup {w} BY <3>2
      <4>2. Slot!Propose({w}) BY <2>1, <4>1 DEF Slot!Propose, Proposed
      <4>3. {w} \in SUBSET Values OBVIOUS
      <4>4. QED BY <4>2, <4>3 DEF Slot!Next
    <3>3. QED BY <1>2, <3>1, <3>2, ProposedFacts
  <2>2. CASE decided' # decided
    <3>1. PICK i \in Ids, v \in Values :
            /\ decided[i] = None
            /\ decided' = [decided EXCEPT ![i] = v]
            /\ \E m \in reqs : m.prop.value = v
      BY <1>2, <2>2, DecisionFacts
    <3>2. Proposed' = Proposed BY <1>2, <2>2, DecisionFacts DEF Proposed
    <3>3. v \in Proposed BY <1>2, <3>1 DEF ValidRequests
    <3>4. \A j \in Ids : decided[j] \in {None, v}
      <4>1. Agreement' BY <1>2
      <4>2. decided \in [Ids -> Values \cup {None}] BY <1>2 DEF IInv, TypeOK
      <4>3. decided'[i] = v /\ v # None BY <3>1, <4>2, NoneAssumption
      <4>4. \A j \in Ids : j # i => decided'[j] = decided[j] BY <3>1, <4>2
      <4>5. QED BY <3>1, <4>1, <4>3, <4>4 DEF Agreement
    <3>5. decided' = [j \in Ids |-> IF j \in {i} THEN v ELSE decided[j]]
      BY <1>2, <3>1 DEF IInv, TypeOK
    <3>6. Slot!Decide({i}, v)
      BY <3>1, <3>2, <3>3, <3>4, <3>5 DEF Slot!Decide, Proposed
    <3>7. {i} \in SUBSET Ids OBVIOUS
    <3>8. QED BY <3>6, <3>7 DEF Slot!Next
  <2>3. QED BY <2>1, <2>2
<1>3. Spec => []IInv BY Invariance
<1>4. Spec => []ValidRequests
  <2>1. OneProposalPerStep /\ ValidRequests => ValidRequests OBVIOUS
  <2>2. QED BY <2>1, SlotRequests, PTL
<1>5. Spec => []Agreement BY SlotAgreement
<1>6. QED BY <1>1, <1>2, <1>3, <1>4, <1>5, PTL DEF Spec, ImplementsConsensus, Slot!Spec, Proposed
=============================================================================
