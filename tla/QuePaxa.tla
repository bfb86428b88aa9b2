------------------------------ MODULE QuePaxa -------------------------------
(***************************************************************************)
(* The concrete protocol of one slot: every replica is a recorder (Isr)    *)
(* and a proposer (crates/consensus/src/proposer.rs), composed as in       *)
(* crates/consensus/src/concrete.rs.                                       *)
(*                                                                         *)
(* A request that was ever sent may be handled at any later time, any      *)
(* number of times, or never. A reply to the proposer's current step waits *)
(* in replies[i] from the moment the recorder gives it, and takes effect   *)
(* when it is one of the majority of replies the proposer acts on; the     *)
(* time in between is its transit. Loss, duplication, reordering and a     *)
(* crashed replica are therefore all behaviours of this specification. A   *)
(* handler that returns without changing anything (a stale reply, a stale  *)
(* timer, a kickoff of a decided proposer) is a stuttering step.           *)
(***************************************************************************)
EXTENDS Isr

CONSTANTS
    None,       \* `None` of Option<V> and of Option<NodeId>
    InitVal,    \* InitVal[i]: the value replica i proposes
    Leader,     \* the slot's designated leader, or None
    Hedged,     \* replicas with a nonzero activation_delay
    Draws,      \* Draws[i]: priorities i may draw for the recorders of a step
    Correct,    \* replicas assumed never to crash (liveness only)
    MaxKicks,   \* MaxKicks[i]: how often a driver injects KICKOFF_TIMER at i
    Delivered   \* the <<proposer, recorder, step>> whose requests may arrive;
                \* the network loses all others (this bounds the clock)

ASSUME MembershipAssumption == IsFiniteSet(Ids)
ASSUME NoneAssumption       == None \notin Values /\ None \notin Ids
ASSUME InitValAssumption    == InitVal \in [Ids -> Values]
ASSUME LeaderAssumption     == Leader \in Ids \cup {None}
ASSUME HedgedAssumption     == Hedged \subseteq Ids /\ Correct \subseteq Ids
ASSUME DrawsAssumption      == \A i \in Ids : Draws[i] \subseteq [Ids -> 1..(H - 1)]
ASSUME BoundsAssumption     == MaxKicks \in [Ids -> Nat]

VARIABLES
    isr,         \* isr[r]: recorder r's register
    reqs,        \* every RecordRequest ever sent
    step,        \* step[i]: proposer i's threshold clock, 4 * round + phase
    proposal,    \* proposal[i]: its working template
    decided,     \* decided[i]: its decision, or None
    replies,     \* replies[i]: recorders' replies to its current step
    sent,        \* sent[i][r]: what it sent recorder r in its current step
    activated,   \* replicas whose begin_step has run
    kicks,       \* kicks[i]: KICKOFF_TIMERs delivered so far
    hedges,      \* hedges[i]: HEDGE_TIMERs armed and not yet fired
    lastSeen,    \* lastSeen[i]: last_seen_progress
    panicked     \* replicas whose handler met a failed `expect`

vars == <<isr, reqs, step, proposal, decided, replies, sent, activated, kicks,
          hedges, lastSeen, panicked>>

-----------------------------------------------------------------------------
FIRST_ROUND_STEP == 4

Phase(s) == s % 4

Requests  == [from : Ids, to : Ids, req_step : Nat, prop : Proposals]
Responses == [from : Ids, req_step : Nat, step : Nat,
              first : OptProposals, prior_agg : OptProposals]

\* quorum_threshold: a majority of the fixed membership.
Threshold == Cardinality(Ids) \div 2 + 1

Responders(R) == {x.from : x \in R}

\* Proposer::new, Recorder::new and the driver before the first kickoff.
Init ==
    /\ isr = [r \in Ids |-> NewIsr]
    /\ reqs = {}
    /\ step = [i \in Ids |-> 0]
    /\ proposal =
         [i \in Ids |-> [priority |-> H, origin |-> i, value |-> InitVal[i]]]
    /\ decided = [i \in Ids |-> None]
    /\ replies = [i \in Ids |-> {}]
    /\ sent = [i \in Ids |-> [r \in Ids |-> Nil]]
    /\ activated = {}
    /\ kicks = [i \in Ids |-> 0]
    /\ hedges = [i \in Ids |-> 0]
    /\ lastSeen = [i \in Ids |-> 0]
    /\ panicked = {}

\* A proposer that neither decided nor panicked still acts.
Running(i) == decided[i] = None /\ i \notin panicked

-----------------------------------------------------------------------------
\* draw_priority with an off-by-one: it draws from 0..(H - 2).
OutgoingFromZero(i, s, p) ==
    {[r \in Ids |-> [priority |-> IF Phase(s) = 0 THEN pri[r] - 1 ELSE p.priority,
                     origin |-> i, value |-> p.value]] : pri \in Draws[i]}

\* What begin_step may send at step s with template p: in phase 0 the round-1
\* leader attaches H, everyone else draws a fresh priority per recorder; in
\* the other phases the template goes out unchanged.
Outgoing(i, s, p) ==
    IF Phase(s) # 0
    THEN {[r \in Ids |-> p]}
    ELSE IF s = FIRST_ROUND_STEP /\ Leader = i
    THEN {[r \in Ids |-> [priority |-> H, origin |-> i, value |-> p.value]]}
    ELSE {[r \in Ids |-> [priority |-> pri[r], origin |-> i, value |-> p.value]]
             : pri \in Draws[i]}

\* begin_step: forget the previous step's replies and address every recorder.
BeginStep(i, s, p) ==
    /\ activated' = activated \cup {i}
    /\ replies' = [replies EXCEPT ![i] = {}]
    /\ step' = [step EXCEPT ![i] = s]
    /\ proposal' = [proposal EXCEPT ![i] = p]
    /\ \E out \in Outgoing(i, s, p) :
         /\ sent' = [sent EXCEPT ![i] = out]
         /\ reqs' = reqs \cup
              {[from |-> i, to |-> r, req_step |-> s, prop |-> out[r]] : r \in Ids}

\* on_timer(KICKOFF_TIMER) -> start: round 1 begins, or begins again, with
\* whatever template the proposer holds ...
Start(i) ==
    /\ Running(i)
    /\ i \notin Hedged
    /\ kicks[i] < MaxKicks[i]
    /\ kicks' = [kicks EXCEPT ![i] = @ + 1]
    /\ BeginStep(i, FIRST_ROUND_STEP, proposal[i])
    /\ UNCHANGED <<isr, decided, hedges, lastSeen, panicked>>

\* ... but a hedged proposer only sets its clock and arms HEDGE_TIMER.
StartHedged(i) ==
    /\ Running(i)
    /\ i \in Hedged
    /\ kicks[i] < MaxKicks[i]
    /\ kicks' = [kicks EXCEPT ![i] = @ + 1]
    /\ step' = [step EXCEPT ![i] = FIRST_ROUND_STEP]
    /\ hedges' = [hedges EXCEPT ![i] = @ + 1]
    /\ UNCHANGED <<isr, reqs, proposal, decided, replies, sent, activated,
                   lastSeen, panicked>>

\* A hedge that mistakes any old progress for fresh progress.
SawAnyProgress(i) == isr[i].step > step[i]

\* The co-located recorder moved past this proposer's step since the last look.
SawFreshProgress(i) == isr[i].step > step[i] /\ isr[i].step # lastSeen[i]

\* on_timer(HEDGE_TIMER) -> maybe_activate_after_hedge: stay passive while the
\* local recorder shows fresh progress ...
HedgeDefer(i) ==
    /\ Running(i)
    /\ hedges[i] > 0
    /\ SawFreshProgress(i)
    /\ lastSeen' = [lastSeen EXCEPT ![i] = isr[i].step]
    /\ UNCHANGED <<isr, reqs, step, proposal, decided, replies, sent, activated,
                   kicks, hedges, panicked>>

\* ... and activate as soon as it does not.
HedgeActivate(i) ==
    /\ Running(i)
    /\ hedges[i] > 0
    /\ ~SawFreshProgress(i)
    /\ hedges' = [hedges EXCEPT ![i] = @ - 1]
    /\ BeginStep(i, step[i], proposal[i])
    /\ UNCHANGED <<isr, decided, kicks, lastSeen, panicked>>

\* A retry that resends the template instead of what the step sent.
RetryTemplate(i) ==
    /\ Running(i)
    /\ i \in activated
    /\ reqs' = reqs \cup
         {[from |-> i, to |-> r, req_step |-> step[i], prop |-> proposal[i]] : r \in Ids}
    /\ UNCHANGED <<isr, step, proposal, decided, replies, sent, activated,
                   kicks, hedges, lastSeen, panicked>>

\* on_timer(retry): fewer than a quorum, D, have answered; send the step's
\* own content again to everyone else.
Retry(i) ==
    /\ Running(i)
    /\ i \in activated
    /\ \E D \in SUBSET Responders(replies[i]) :
         /\ Cardinality(D) < Threshold
         /\ reqs' = reqs \cup
              {[from |-> i, to |-> r, req_step |-> step[i], prop |-> sent[i][r]]
                 : r \in Ids \ D}
    /\ UNCHANGED <<isr, step, proposal, decided, replies, sent, activated,
                   kicks, hedges, lastSeen, panicked>>

-----------------------------------------------------------------------------
\* ReplicaNode::on_message(Request) -> Recorder::handle: record, and reply
\* with the register's summary. on_response drops a reply to another step
\* than the proposer's current one, and any reply once it has decided. Handling
\* a copy of a request again never changes the register and only renews the
\* recorder's reply, where `or_insert` keeps the one that arrived first: a
\* proposer acting on the earlier reply is one whose copy was never handled.
OnRequest(m) ==
    LET new == Record(isr[m.to], m.req_step, m.prop) IN
    /\ <<m.from, m.to, m.req_step>> \in Delivered
    /\ isr' = [isr EXCEPT ![m.to] = new]
    /\ replies' =
         IF Running(m.from) /\ m.req_step = step[m.from]
         THEN [replies EXCEPT ![m.from] =
                 {x \in @ : x.from # m.to} \cup
                 {[from |-> m.to, req_step |-> m.req_step, step |-> new.step,
                   first |-> new.first, prior_agg |-> new.prior_agg]}]
         ELSE replies
    /\ UNCHANGED <<reqs, step, proposal, decided, sent, activated, kicks,
                   hedges, lastSeen, panicked>>

\* on_response -> process_quorum: R is the response set at the moment its
\* size reaches the threshold, one reply per recorder.
IsQuorum(i, R) ==
    /\ Running(i)
    /\ Cardinality(Responders(R)) = Threshold
    /\ \A x, y \in R : x.from = y.from => x = y

\* process_quorum, every reply at the proposer's own step.
QuorumAtStep(i, R, phase) ==
    /\ Phase(step[i]) = phase
    /\ IsQuorum(i, R)
    /\ \A x \in R : x.step = step[i]

\* What a quorum reports.
Firsts(R)    == {x.first : x \in R}
PriorAggs(R) == {x.prior_agg : x \in R}

\* process_phase sets `decided`; the step stays as it is.
Decide(i, v) ==
    /\ decided' = [decided EXCEPT ![i] = v]
    /\ UNCHANGED <<isr, reqs, step, proposal, replies, sent, activated, kicks,
                   hedges, lastSeen, panicked>>

\* process_phase leaves the proposer undecided with template p: next step.
Advance(i, p) ==
    /\ BeginStep(i, step[i] + 1, p)
    /\ UNCHANGED <<isr, decided, kicks, hedges, lastSeen, panicked>>

\* A failed `expect`: the handler dies.
Panic(i) ==
    /\ panicked' = panicked \cup {i}
    /\ UNCHANGED <<isr, reqs, step, proposal, decided, replies, sent, activated,
                   kicks, hedges, lastSeen>>

\* Phase 0, fast path: the whole quorum holds one and the same H proposal.
FastDecide(i, R) ==
    /\ QuorumAtStep(i, R, 0)
    /\ IsFastPath(Firsts(R))
    /\ Decide(i, Best(Firsts(R)).value)

\* Phase 0, propose: adopt the best first proposal, or die for lack of one.
Propose(i, R) ==
    /\ QuorumAtStep(i, R, 0)
    /\ ~IsFastPath(Firsts(R))
    /\ IF Best(Firsts(R)) = Nil THEN Panic(i) ELSE Advance(i, Best(Firsts(R)))

\* Phase 1, spread E: nothing to do.
Spread(i, R) ==
    /\ QuorumAtStep(i, R, 1)
    /\ Advance(i, proposal[i])

\* A slow path that decides once its template is in E, best or not.
SlowDecideIfSeen(i, R) ==
    /\ QuorumAtStep(i, R, 2)
    /\ proposal[i] \in PriorAggs(R)
    /\ Decide(i, proposal[i].value)

\* Phase 2, gather E: the template is the best of E, so it is decided ...
SlowDecide(i, R) ==
    /\ QuorumAtStep(i, R, 2)
    /\ Best(PriorAggs(R)) = proposal[i]
    /\ Decide(i, proposal[i].value)

\* ... or it is not, and the template goes on to spread C.
GatherE(i, R) ==
    /\ QuorumAtStep(i, R, 2)
    /\ Best(PriorAggs(R)) # proposal[i]
    /\ Advance(i, proposal[i])

\* A gather C that keeps the template.
GatherCWithoutAdoption(i, R) ==
    /\ QuorumAtStep(i, R, 3)
    /\ IF Best(PriorAggs(R)) = Nil THEN Panic(i) ELSE Advance(i, proposal[i])

\* Phase 3, gather C: adopt the best of C, or die for lack of one.
GatherC(i, R) ==
    /\ QuorumAtStep(i, R, 3)
    /\ IF Best(PriorAggs(R)) = Nil THEN Panic(i) ELSE Advance(i, Best(PriorAggs(R)))

\* x is, of the replies ahead of step s, the one with the highest step, and
\* among those the one of the highest NodeId.
IsFurthest(x, R, s) ==
    /\ x \in R /\ x.step > s
    /\ \A y \in R : y.step < x.step \/ (y.step = x.step /\ y.from <= x.from)

\* process_quorum's other branch: some recorder is at another step. Jump to
\* the furthest reply's step with its first proposal as the template; the two
\* `expect`s are that such a reply exists and that it reports a first.
CatchUp(i, R) ==
    /\ IsQuorum(i, R)
    /\ \E x \in R : x.step # step[i]
    /\ IF \E x \in R : IsFurthest(x, R, step[i]) /\ x.first # Nil
       THEN \E x \in R :
              /\ IsFurthest(x, R, step[i])
              /\ BeginStep(i, x.step, x.first)
              /\ UNCHANGED <<isr, decided, kicks, hedges, lastSeen, panicked>>
       ELSE Panic(i)

OnQuorum(i, R) ==
    \/ FastDecide(i, R)
    \/ Propose(i, R)
    \/ Spread(i, R)
    \/ SlowDecide(i, R)
    \/ GatherE(i, R)
    \/ GatherC(i, R)
    \/ CatchUp(i, R)

-----------------------------------------------------------------------------
Next ==
    \/ \E i \in Ids : \/ Start(i) \/ StartHedged(i)
                      \/ HedgeDefer(i) \/ HedgeActivate(i) \/ Retry(i)
    \/ \E m \in reqs : OnRequest(m)
    \/ \E i \in Ids : \E R \in SUBSET replies[i] : OnQuorum(i, R)

Spec == Init /\ [][Next]_vars

\* Some copy of proposer i's current request to r arrives.
Reaches(i, r) ==
    \E m \in reqs : m.from = i /\ m.to = r /\ m.req_step = step[i] /\ OnRequest(m)

\* A correct proposer's timers fire, its requests reach every correct recorder
\* (a fair-lossy network under unbounded retries), and it acts on a quorum of
\* replies. Nothing is assumed of the others: they may crash at any point.
Fairness ==
    \A i \in Correct :
      /\ WF_vars(Start(i)) /\ WF_vars(StartHedged(i))
      /\ WF_vars(HedgeDefer(i)) /\ WF_vars(HedgeActivate(i))
      /\ \A r \in Correct : WF_vars(Reaches(i, r))
      /\ WF_vars(\E R \in SUBSET replies[i] : OnQuorum(i, R))

FairSpec == Spec /\ Fairness

-----------------------------------------------------------------------------
\* Type invariant: every variable stays in the domain the Rust types give it.
TypeOK ==
    /\ isr \in [Ids -> Isrs]
    /\ reqs \subseteq Requests
    /\ step \in [Ids -> Nat]
    /\ proposal \in [Ids -> Proposals]
    /\ decided \in [Ids -> Values \cup {None}]
    /\ replies \in [Ids -> SUBSET Responses]
    /\ sent \in [Ids -> [Ids -> OptProposals]]
    /\ activated \subseteq Ids
    /\ kicks \in [Ids -> Nat]
    /\ hedges \in [Ids -> Nat]
    /\ lastSeen \in [Ids -> Nat]
    /\ panicked \subseteq Ids

\* P1, Agreement: no two replicas decide different values for the slot.
Agreement ==
    \A i, j \in Ids : decided[i] # None /\ decided[j] # None => decided[i] = decided[j]

\* No `expect` of the proposer ever fails: a quorum that reports an older
\* step does not exist, and phase 3 always gathers something (Lemma C.5),
\* also for a proposer that caught up straight into phase 3.
NoPanic == panicked = {}

\* Once a proposer decides at step s, fast path or slow, every request any
\* proposer ever sends from the following round on carries the decided value
\* (and after the fast path already from step 5 on): what makes a late or
\* lagging proposer's rounds harmless.
DecisionLocks ==
    \A i \in Ids : decided[i] # None =>
      \A m \in reqs :
        m.req_step >= (IF step[i] = FIRST_ROUND_STEP THEN 5 ELSE step[i] + 2)
          => m.prop.value = decided[i]

\* What a proposer sends in one step of phases 1 to 3 is one proposal, to
\* every recorder and over every retry: a reply that echoes the step really
\* answers the proposal the proposer holds. In phase 0 each recorder gets its
\* own draw, but again only one.
OneProposalPerStep ==
    \A m1, m2 \in reqs :
      /\ m1.from = m2.from
      /\ m1.req_step = m2.req_step
      /\ Phase(m1.req_step) # 0 \/ m1.to = m2.to
      => m1.prop = m2.prop

\* A recorder's register only moves forward: its step never falls, and while
\* it stays, the first proposal and the previous aggregate are frozen and the
\* current aggregate only grows.
IsrAdvances ==
    \A r \in Ids :
      \/ isr[r].step < isr'[r].step
      \/ /\ isr[r].step = isr'[r].step
         /\ isr[r].first = isr'[r].first
         /\ isr[r].prior_agg = isr'[r].prior_agg
         /\ Leq(isr[r].current_agg, isr'[r].current_agg)

IsrMonotone == [][IsrAdvances]_vars

\* P1 to P3 at once: the slot implements Consensus. A decision is made once,
\* is the value of a replica that was kicked off, and is everyone's.
Slot == INSTANCE Consensus WITH
    proposed <- {InitVal[j] : j \in {k \in Ids : kicks[k] > 0}},
    decision <- decided

ImplementsConsensus == Slot!Spec

\* P15/P16: a correct replica decides even though the leader may stop at any
\* point of its own attempt, taking its recorder with it, and however far the
\* hedged backup saw that attempt get.
Termination == \A i \in Correct : <>(MaxKicks[i] > 0 => decided[i] # None)
=============================================================================
