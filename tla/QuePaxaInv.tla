----------------------------- MODULE QuePaxaInv -----------------------------
(***************************************************************************)
(* The inductive invariant behind the slot's safety. It speaks only of the *)
(* protocol's own state: the registers, the requests ever sent and the     *)
(* replies the proposers hold for their current steps.                     *)
(***************************************************************************)
EXTENDS QuePaxa

\* A driver kicks every proposer off at most once.
SingleKick == \A i \in Ids : MaxKicks[i] <= 1

IsMajority(Q) == Q \in SUBSET Ids /\ Cardinality(Q) >= Threshold

\* The proposals sent with step s.
SentAt(s) == {m.prop : m \in {k \in reqs : k.req_step = s}}

\* The one proposal that may carry H in a phase 0.
LeaderProposal == [priority |-> H, origin |-> Leader, value |-> InitVal[Leader]]

\* An active proposer has something to resend to everyone.
TypeInv == TypeOK /\ \A i \in activated : sent[i] \in [Ids -> Proposals]

-----------------------------------------------------------------------------
\* Each proposer begins once, and holds its initial template until then.
Lifecycle ==
    \A i \in Ids :
      /\ kicks[i] <= 1
      /\ hedges[i] > 0 => kicks[i] = 1 /\ step[i] = FIRST_ROUND_STEP /\ hedges[i] = 1
      /\ kicks[i] = 0 \/ hedges[i] > 0 => i \notin activated
      /\ i \notin activated =>
           /\ replies[i] = {}
           /\ decided[i] = None
           /\ proposal[i] = [priority |-> H, origin |-> i, value |-> InitVal[i]]
      /\ i \in activated => step[i] >= FIRST_ROUND_STEP

\* Requests belong to steps their proposer has reached, and those of its
\* current step are what it holds in `sent`; past phase 0 that is its template.
RequestsInv ==
    /\ \A m \in reqs :
         /\ m.from \in activated
         /\ FIRST_ROUND_STEP <= m.req_step /\ m.req_step <= step[m.from]
         /\ m.req_step = step[m.from] => m.prop = sent[m.from][m.to]
         /\ Phase(m.req_step) = 0 /\ m.prop.priority = H =>
              m.req_step = FIRST_ROUND_STEP /\ m.prop = LeaderProposal
    /\ \A i \in activated, r \in Ids :
         /\ [from |-> i, to |-> r, req_step |-> step[i], prop |-> sent[i][r]] \in reqs
         /\ Phase(step[i]) # 0 => sent[i][r] = proposal[i]

\* What a register holds was sent to a recorder in the matching step.
RegistersInv ==
    \A r \in Ids :
      \/ isr[r] = NewIsr
      \/ /\ isr[r].step >= FIRST_ROUND_STEP
         /\ isr[r].first \in SentAt(isr[r].step)
         /\ isr[r].current_agg \in SentAt(isr[r].step)
         /\ isr[r].prior_agg \in SentAt(isr[r].step - 1) \cup {Nil}

\* A reply is about its proposer's current step, was true of the register when
\* it was given, and agrees with every other reply about the same step.
RepliesInv ==
    \A i \in Ids : \A x \in replies[i] :
      /\ x.req_step = step[i]
      /\ step[i] <= x.step /\ x.step <= isr[x.from].step
      /\ x.first \in SentAt(x.step)
      /\ x.prior_agg \in SentAt(x.step - 1) \cup {Nil}
      /\ x.step = isr[x.from].step =>
           x.first = isr[x.from].first /\ x.prior_agg = isr[x.from].prior_agg
      /\ \A j \in Ids : \A y \in replies[j] :
           x.from = y.from /\ x.step = y.step => x.first = y.first

\* Recorder r aggregated q in step s: whatever it says of step s from its next
\* step on is at least q.
Recorded(r, s, q) ==
    /\ isr[r].step >= s
    /\ isr[r].step = s => Leq(q, isr[r].current_agg)
    /\ isr[r].step = s + 1 => Leq(q, isr[r].prior_agg)
    /\ \A j \in Ids : \A x \in replies[j] :
         x.from = r /\ x.step = s + 1 => Leq(q, x.prior_agg)

\* Recorder r has left step s, and no proposer it answered in step s holds
\* more than c.
Closed(r, s, c) ==
    /\ isr[r].step > s
    /\ \A j \in Ids : \A x \in replies[j] :
         x.from = r /\ x.step = s /\ step[j] = s => Leq(proposal[j], c)

\* Recorder r's first proposal of step 4 is at most c.
FirstAtMost(r, c) ==
    /\ isr[r].step >= FIRST_ROUND_STEP
    /\ isr[r].step = FIRST_ROUND_STEP => Leq(isr[r].first, c)
    /\ \A j \in Ids : \A x \in replies[j] :
         x.from = r /\ x.step = FIRST_ROUND_STEP => Leq(x.first, c)

\* A recorder that answered a proposer in its own step recorded its template.
AnswersRecorded ==
    \A i \in Ids : \A x \in replies[i] :
      x.step = step[i] /\ Phase(step[i]) # 0 => Recorded(x.from, step[i], proposal[i])

\* What is sent in phases 2 and 3 was recorded by a majority a phase earlier.
SpreadInv ==
    \A m \in reqs : Phase(m.req_step) \in {2, 3} =>
      \E Q \in SUBSET Ids :
        IsMajority(Q) /\ \A r \in Q : Recorded(r, m.req_step - 1, m.prop)

\* A value sent after some round's phase 2 was the best a majority of
\* recorders had aggregated in that phase 2 ...
GatheredInv ==
    \A m \in reqs : \A s \in 0..m.req_step :
      Phase(s) = 2 /\ FIRST_ROUND_STEP <= s /\ s + 2 <= m.req_step =>
        \E c \in SentAt(s), Q \in SUBSET Ids :
          c.value = m.prop.value /\ IsMajority(Q) /\ \A r \in Q : Closed(r, s, c)

\* ... and a value sent after step 4 the best of a majority's first proposals.
ChosenFirstInv ==
    \A m \in reqs : m.req_step > FIRST_ROUND_STEP =>
      \E c \in SentAt(FIRST_ROUND_STEP), Q \in SUBSET Ids :
        c.value = m.prop.value /\ IsMajority(Q) /\ \A r \in Q : FirstAtMost(r, c)

\* A decided proposer still holds the quorum it decided on.
FastQuorum(i, R) ==
    /\ step[i] = FIRST_ROUND_STEP
    /\ \E p \in SentAt(FIRST_ROUND_STEP) :
         p.priority = H /\ p.value = decided[i] /\ \A x \in R : x.first = p

SlowQuorum(i, R) ==
    /\ Phase(step[i]) = 2
    /\ proposal[i].value = decided[i]
    /\ \A x \in R : Leq(x.prior_agg, proposal[i])

DecidedInv ==
    \A i \in Ids : decided[i] # None =>
      \E R \in SUBSET replies[i] :
        /\ IsMajority(Responders(R))
        /\ \A x \in R : x.step = step[i]
        /\ FastQuorum(i, R) \/ SlowQuorum(i, R)

\* P2, Validity, of everything in flight: requests carry values of replicas
\* that were kicked off.
Proposed == {InitVal[j] : j \in {k \in Ids : kicks[k] > 0}}

ValidRequests == \A m \in reqs : m.prop.value \in Proposed

IInv ==
    /\ TypeOK
    /\ Lifecycle
    /\ RequestsInv
    /\ RegistersInv
    /\ RepliesInv
    /\ AnswersRecorded
    /\ SpreadInv
    /\ GatheredInv
    /\ ChosenFirstInv
    /\ DecidedInv
    /\ NoPanic
=============================================================================
