---------------------------- MODULE KernelProofs ----------------------------
(***************************************************************************)
(* Theorems about the simulation kernel, for any nodes, schedulers within  *)
(* their caps, messages, timers and faults.                                *)
(***************************************************************************)
EXTENDS Kernel, FiniteSetTheorems, TLAPS

\* The order of the queue: by time, then by seq.
Earlier(a, b) == a[1] < b[1] \/ (a[1] = b[1] /\ a[2] < b[2])

\* Every event queued is due after the last one dispatched, and is told from
\* the others by its seq alone.
QueueInv ==
    /\ popped[1] = now /\ popped[2] < nextSeq
    /\ \A e \in queue : e.seq < nextSeq /\ Earlier(popped, <<e.time, e.seq>>)
    /\ \A e, f \in queue : e.seq = f.seq => e = f

\* A queued event's (time, seq) is still free for the record of its dispatch.
StampInv ==
    /\ IsFiniteSet(stamps) /\ Cardinality(stamps) = records
    /\ \A s \in stamps : s[2] < nextSeq
    /\ \A e \in queue : <<e.time, e.seq>> \notin stamps

\* The messages in flight and the arrivals queued are the same ones.
ArrivalInv ==
    /\ inFlight = {k \in 1..Len(msgs) : msgs[k].fate = "in_flight"}
    /\ \A e \in queue : e.kind = "arrival" => e.id \in inFlight
    /\ \A k \in inFlight : \E e \in queue : e.kind = "arrival" /\ e.id = k
    /\ \A e, f \in queue : e.kind = "arrival" /\ f.kind = "arrival" /\ e.id = f.id => e = f

\* Under the FIFO scheduler an arrival's place in the queue is told by when its
\* message was sent and by the factor then.
FifoInv ==
    scheduler = "fifo" =>
      /\ \A k \in 1..Len(msgs) : msgs[k].sent <= now
      /\ \A j, k \in 1..Len(msgs) : j < k => msgs[j].sent <= msgs[k].sent
      /\ \A e \in queue : e.kind = "arrival" =>
           e.time = msgs[e.id].sent + Max({MinDelay * msgs[e.id].factor, 1})
      /\ \A e, f \in queue : e.kind = "arrival" /\ f.kind = "arrival" /\ e.id < f.id
           => e.seq < f.seq
      /\ LinkFifo

\* The larger and the smaller of two numbers.
LEMMA LargerOfTwo ==
    ASSUME NEW a \in Int, NEW b \in Int
    PROVE  Max({a, b}) \in Int /\ Max({a, b}) = IF a >= b THEN a ELSE b
  <1> DEFINE S == {a, b}
             m == IF a >= b THEN a ELSE b
  <1>1. m \in S /\ \A y \in S : m >= y OBVIOUS
  <1>2. \A x \in S : (\A y \in S : x >= y) => x = m OBVIOUS
  <1>3. Max(S) = CHOOSE x \in S : \A y \in S : x >= y BY DEF Max
  <1> HIDE DEF S, m
  <1>4. Max(S) = m BY <1>1, <1>2, <1>3
  <1> QED BY <1>1, <1>4 DEF S, m

LEMMA SmallerOfTwo ==
    ASSUME NEW a \in Int, NEW b \in Int
    PROVE  Min({a, b}) \in Int /\ Min({a, b}) = IF a =< b THEN a ELSE b
  <1> DEFINE S == {a, b}
             m == IF a =< b THEN a ELSE b
  <1>1. m \in S /\ \A y \in S : m =< y OBVIOUS
  <1>2. \A x \in S : (\A y \in S : x =< y) => x = m OBVIOUS
  <1>3. Min(S) = CHOOSE x \in S : \A y \in S : x =< y BY DEF Min
  <1> HIDE DEF S, m
  <1>4. Min(S) = m BY <1>1, <1>2, <1>3
  <1> QED BY <1>1, <1>4 DEF S, m

\* The adversaries "respect eventual delivery": a Decision::Drop is possible
\* only beside a delivery, but on the links and the payloads that are cut.
LEMMA SomeDelivery ==
    ASSUME scheduler \in SchedulerKinds, NEW src \in Nodes \ Minority,
           NEW dst \in Nodes \ Minority, NEW tag \in Tags
    PROVE  \/ scheduler = "oblivious" /\ <<src, dst>> \in Blocked
           \/ scheduler = "aware" /\ tag \in BlockedTags
           \/ Decide(src, dst, tag) \cap Delivery # {}
  <1>1. MinDelay \in Delivery BY DelayAssumption DEF Delivery
  <1>2. ASSUME NEW p \in 0..95 PROVE MinDelay \in Gamble(p)
    BY <1>1, <1>2 DEF Gamble
  <1>3. DropPercent \in 0..95 BY SchedulerAssumption
  <1>4. DropChance(src, dst) \in 0..95
    <2>1. DropPercent + LeaderExtra \in Nat BY SchedulerAssumption
    <2> DEFINE p == DropPercent + LeaderExtra
    <2> HIDE DEF p
    <2>2. p \in Nat BY <2>1 DEF p
    <2>3. p \in Int /\ 95 \in Int BY <2>2
    <2>4. Min({p, 95}) = IF p =< 95 THEN p ELSE 95 BY <2>3, SmallerOfTwo, Zenon
    <2>5. Min({p, 95}) \in 0..95 BY <2>2, <2>4
    <2> QED BY <1>3, <2>5 DEF DropChance, p
  <1>5. CASE scheduler = "fifo"
    BY <1>1, <1>5 DEF Decide, FifoDecision
  <1>6. CASE scheduler = "random"
    BY <1>1, <1>6 DEF Decide
  <1>7. CASE scheduler = "oblivious"
    BY <1>1, <1>2, <1>4, <1>7 DEF Decide, ObliviousDecision
  <1>8. CASE scheduler = "aware"
    BY <1>1, <1>2, <1>3, <1>8 DEF Decide, AwareDecision
  <1> QED BY <1>5, <1>6, <1>7, <1>8 DEF SchedulerKinds

\* A decision is a number of ticks, and the FIFO scheduler's is always the same.
LEMMA DecisionTyped ==
    ASSUME scheduler \in SchedulerKinds, NEW src, NEW dst, NEW tag,
           NEW d \in Decide(src, dst, tag)
    PROVE  d \in Nat /\ (scheduler = "fifo" => d = MinDelay)
  <1>1. Delivery \subseteq Nat /\ Drop \in Nat /\ MinDelay \in Nat
    BY DelayAssumption DEF Delivery, Drop
  <1>2. \A p : Gamble(p) \subseteq Nat BY <1>1 DEF Gamble
  <1>3. CASE scheduler = "fifo"
    BY <1>1, <1>3 DEF Decide, FifoDecision
  <1>4. CASE scheduler = "random"
    BY <1>1, <1>4 DEF Decide
  <1>5. CASE scheduler = "oblivious"
    BY <1>1, <1>2, <1>5 DEF Decide, ObliviousDecision
  <1>6. CASE scheduler = "aware"
    BY <1>1, <1>2, <1>6 DEF Decide, AwareDecision
  <1> QED BY <1>3, <1>4, <1>5, <1>6 DEF SchedulerKinds

LEMMA FactorTyped ==
    ASSUME slow \in [Nodes -> Factors], NEW src \in Nodes, NEW dst \in Nodes
    PROVE  SlowMultiplier(src, dst) \in Factors /\ SlowMultiplier(src, dst) \in Nat
  <1>1. \A f \in Factors : f \in Nat /\ f \in Int BY DomainAssumption DEF Factors
  <1>2. slow[src] \in Factors /\ slow[dst] \in Factors OBVIOUS
  <1>3. slow[src] \in Int /\ slow[dst] \in Int BY <1>1, <1>2
  <1>4. Max({slow[src], slow[dst]}) \in {slow[src], slow[dst]} BY <1>3, LargerOfTwo
  <1> QED BY <1>1, <1>2, <1>4 DEF SlowMultiplier

\* A message is dropped and leaves two records, or is queued for a later tick.
Dropped(src, dst, fate) ==
    /\ fate \in Fates \ {"in_flight", "delivered"}
    /\ msgs' = Append(msgs, Envelope(src, dst, fate))
    /\ nextSeq' = nextSeq + 2
    /\ stamps' = (stamps \cup {<<now, nextSeq>>}) \cup {<<now, nextSeq + 1>>}
    /\ records' = records + 2
    /\ UNCHANGED <<queue, inFlight>>

Arrival(t) == [time |-> t, seq |-> nextSeq + 1, kind |-> "arrival", id |-> Len(msgs) + 1]

Posted(src, dst, t) ==
    /\ t \in Nat /\ now < t
    /\ scheduler = "fifo" => t = now + Max({MinDelay * SlowMultiplier(src, dst), 1})
    /\ msgs' = Append(msgs, Envelope(src, dst, "in_flight"))
    /\ queue' = queue \cup {Arrival(t)}
    /\ inFlight' = inFlight \cup {Len(msgs) + 1}
    /\ nextSeq' = nextSeq + 2
    /\ stamps' = stamps \cup {<<now, nextSeq>>}
    /\ records' = records + 1

LEMMA SendEffect ==
    ASSUME TypeOK, NEW src \in Nodes, NEW dst \in Nodes, NEW tag, Send(src, dst, tag)
    PROVE  (\E fate : Dropped(src, dst, fate)) \/ (\E t : Posted(src, dst, t))
  <1> DEFINE id == Len(msgs) + 1
             stamp(k) == <<now, nextSeq + k>>
             enter(fate) == msgs' = Append(msgs, Envelope(src, dst, fate))
             dropped(fate) == /\ enter(fate) /\ nextSeq' = nextSeq + 2
                              /\ Record({stamp(0), stamp(1)}, 2)
                              /\ UNCHANGED <<queue, inFlight>>
  <1>1. now \in Nat /\ nextSeq \in Nat /\ scheduler \in SchedulerKinds BY DEF TypeOK
  <1>2. nextSeq + 0 = nextSeq BY <1>1
  <1>3. ASSUME NEW fate \in {"crashed", "partitioned", "scheduler"}, dropped(fate)
        PROVE  Dropped(src, dst, fate)
    BY <1>2, <1>3 DEF Dropped, Fates, Record
  <1>4. ASSUME NEW d \in Decide(src, dst, tag), d # Drop,
               queue' = queue \cup
                 {[time |-> now + Max({d * SlowMultiplier(src, dst), 1}),
                   seq |-> nextSeq + 1, kind |-> "arrival", id |-> id]},
               inFlight' = inFlight \cup {id}, enter("in_flight"), nextSeq' = nextSeq + 2,
               Record({stamp(0)}, 1)
        PROVE  Posted(src, dst, now + Max({d * SlowMultiplier(src, dst), 1}))
    <2> DEFINE x == d * SlowMultiplier(src, dst)
               t == now + Max({x, 1})
    <2>1. d \in Nat /\ (scheduler = "fifo" => d = MinDelay) BY <1>1, DecisionTyped
    <2>2. SlowMultiplier(src, dst) \in Nat BY FactorTyped DEF TypeOK
    <2>3. x \in Int BY <2>1, <2>2
    <2>4. scheduler = "fifo" => x = MinDelay * SlowMultiplier(src, dst) BY <2>1
    <2> HIDE DEF x
    <2>5. Max({x, 1}) \in Nat /\ Max({x, 1}) >= 1 BY <2>3, LargerOfTwo
    <2>6. t \in Nat /\ now < t BY <1>1, <2>5
    <2>7. queue' = queue \cup {Arrival(t)} BY <1>4 DEF Arrival, x
    <2>8. scheduler = "fifo" => t = now + Max({MinDelay * SlowMultiplier(src, dst), 1})
      BY <2>4
    <2> HIDE DEF t
    <2>9. Posted(src, dst, t) BY <1>2, <1>4, <2>6, <2>7, <2>8 DEF Posted, Record
    <2> QED BY <2>9 DEF t, x
  <1> QED BY <1>3, <1>4 DEF Send

\* A timer is queued for a later tick than the one it is set in.
LEMMA TimerEffect ==
    ASSUME TypeOK, NEW n \in Nodes, NEW after \in Delays, ScheduleTimer(n, after)
    PROVE  \E t \in Nat :
             /\ now < t
             /\ queue' = queue \cup {[time |-> t, seq |-> nextSeq, kind |-> "timer", node |-> n]}
             /\ nextSeq' = nextSeq + 1
             /\ stamps' = stamps \cup {<<now, nextSeq>>} /\ records' = records + 1
             /\ UNCHANGED <<msgs, inFlight>> /\ timers' = timers + 1
  <1>1. now \in Nat /\ after \in Nat BY DomainAssumption DEF TypeOK
  <1>2. Max({after, 1}) \in Nat /\ Max({after, 1}) >= 1 BY <1>1, LargerOfTwo
  <1>3. FireAt(after) \in Nat /\ now < FireAt(after) BY <1>1, <1>2 DEF FireAt
  <1> QED BY <1>3 DEF ScheduleTimer, Record

-----------------------------------------------------------------------------
(***************************************************************************)
(* What a step does to the queue, the messages and the trace, whichever    *)
(* action it is of. The proofs below go by these forms.                    *)
(***************************************************************************)

Stamped(s) == stamps' = stamps \cup {s} /\ records' = records + 1

Queued(e) ==
    /\ queue' = queue \cup {e}
    /\ nextSeq' = nextSeq + 1
    /\ e.seq = nextSeq /\ e.kind # "arrival" /\ e \in Events
    /\ \/ now < e.time /\ Stamped(<<now, nextSeq>>)
       \/ now <= e.time /\ UNCHANGED traceVars

Arrived(e) ==
    /\ e.kind = "arrival" /\ e.id \in inFlight
    /\ inFlight' = inFlight \ {e.id}
    /\ \E fate \in Fates \ {"in_flight"} : msgs' = [msgs EXCEPT ![e.id].fate = fate]

Handled(e) ==
    \/ UNCHANGED nextSeq /\ (Stamped(<<e.time, e.seq>>) \/ UNCHANGED traceVars)
    \/ nextSeq' = nextSeq + 1 /\ Stamped(<<e.time, nextSeq>>)

StepForm ==
    /\ UNCHANGED scheduler
    /\ \/ /\ UNCHANGED <<now, popped>>
          /\ \/ UNCHANGED <<nextSeq, queue, msgs, inFlight, stamps, records>>
             \/ \E src, dst \in Nodes : (\E fate : Dropped(src, dst, fate))
                                          \/ (\E t : Posted(src, dst, t))
             \/ UNCHANGED <<msgs, inFlight>> /\ \E e : Queued(e)
             \/ /\ UNCHANGED <<queue, msgs, inFlight>>
                /\ nextSeq' = nextSeq + 1 /\ Stamped(<<now, nextSeq>>)
       \/ \E e \in queue :
            /\ Pop(e) /\ Handled(e)
            /\ Arrived(e) \/ (e.kind # "arrival" /\ UNCHANGED <<msgs, inFlight>>)

LEMMA StepForms == TypeOK /\ [Next]_vars => StepForm
  <1> SUFFICES ASSUME TypeOK, [Next]_vars PROVE StepForm
    OBVIOUS
  <1>0. now \in Nat /\ nextSeq \in Nat /\ running \in Nodes \cup {NoNode}
    BY NodeAssumption DEF TypeOK
  <1>1. CASE NodeSends \/ Inject
    <2>1. PICK src \in Nodes, dst \in Nodes, tag \in Tags : Send(src, dst, tag)
      BY <1>0, <1>1 DEF NodeSends, Inject
    <2>2. UNCHANGED <<scheduler, now, popped>> BY <1>1 DEF NodeSends, Inject, faultVars
    <2> QED BY <2>1, <2>2, SendEffect DEF StepForm
  <1>2. CASE NodeSchedules \/ InjectTimer
    <2>1. PICK n \in Nodes, after \in Delays : ScheduleTimer(n, after)
      BY <1>0, <1>2 DEF NodeSchedules, InjectTimer
    <2>2. UNCHANGED <<scheduler, now, popped>> BY <1>2 DEF NodeSchedules, InjectTimer, faultVars
    <2>3. PICK t \in Nat :
             /\ now < t
             /\ queue' = queue \cup {[time |-> t, seq |-> nextSeq, kind |-> "timer", node |-> n]}
             /\ nextSeq' = nextSeq + 1
             /\ stamps' = stamps \cup {<<now, nextSeq>>} /\ records' = records + 1
             /\ UNCHANGED <<msgs, inFlight>>
      BY <2>1, TimerEffect
    <2> DEFINE e == [time |-> t, seq |-> nextSeq, kind |-> "timer", node |-> n]
    <2>4. Queued(e) BY <1>0, <2>3 DEF Queued, Events, Stamped
    <2> QED BY <2>2, <2>3, <2>4 DEF StepForm
  <1>3. CASE Return
    BY <1>3 DEF Return, StepForm, coreVars, faultVars, traceVars
  <1>4. CASE SetLeader \/ ApplyNow
    BY <1>4 DEF SetLeader, ApplyNow, Apply, Record, Stamped, StepForm
  <1>5. CASE ScheduleFault
    <2>1. PICK c \in Commands, at \in {now - 1, now, now + 1} :
            /\ at >= 0 /\ NotInThePast(at)
            /\ queue' = queue \cup {[time |-> at, seq |-> nextSeq, kind |-> "fault", command |-> c]}
      BY <1>5 DEF ScheduleFault
    <2> DEFINE e == [time |-> at, seq |-> nextSeq, kind |-> "fault", command |-> c]
    <2>2. at \in Nat /\ now <= at BY <1>0, <2>1 DEF NotInThePast
    <2>3. Queued(e) BY <1>0, <1>5, <2>1, <2>2 DEF ScheduleFault, Queued, Events
    <2> QED BY <1>5, <2>3 DEF ScheduleFault, StepForm, faultVars
  <1>6. CASE DispatchTimer
    <2>1. PICK e \in queue :
            /\ e.kind = "timer" /\ Pop(e)
            /\ Stamped(<<e.time, e.seq>>) \/ UNCHANGED traceVars
            /\ UNCHANGED <<nextSeq, msgs, inFlight, faultVars>>
      BY <1>6 DEF DispatchTimer, Record, Stamped
    <2> QED BY <2>1 DEF StepForm, Handled, faultVars
  <1>7. CASE DispatchArrival
    <2>1. PICK e \in queue : \E fate \in Fates \ {"in_flight"} :
            /\ e.kind = "arrival" /\ Pop(e) /\ e.id \in inFlight
            /\ msgs' = [msgs EXCEPT ![e.id].fate = fate]
            /\ inFlight' = inFlight \ {e.id}
            /\ Stamped(<<e.time, e.seq>>) \/ UNCHANGED traceVars
            /\ UNCHANGED <<nextSeq, faultVars>>
      <3>1. PICK e \in queue :
              /\ e.kind = "arrival" /\ Pop(e) /\ e.id \in inFlight
              /\ LET m == msgs[e.id]
                     fate == IF m.dst \in crashed THEN "crashed"
                             ELSE IF IsPartitioned(m.src, m.dst) THEN "partitioned_at_arrival"
                             ELSE IF m.dst \in Registered THEN "delivered" ELSE "unclaimed"
                 IN  /\ msgs' = [msgs EXCEPT ![e.id].fate = fate]
                     /\ LeavesFlight(e.id, fate)
                     /\ IF fate = "delivered" THEN Call(m.dst) ELSE running' = NoNode
                     /\ IF fate = "unclaimed" THEN UNCHANGED traceVars
                        ELSE Record({<<e.time, e.seq>>}, 1)
              /\ UNCHANGED <<nextSeq, faultVars, timers, faults>>
        BY <1>7 DEF DispatchArrival
      <3> DEFINE m == msgs[e.id]
                 fate == IF m.dst \in crashed THEN "crashed"
                         ELSE IF IsPartitioned(m.src, m.dst) THEN "partitioned_at_arrival"
                         ELSE IF m.dst \in Registered THEN "delivered" ELSE "unclaimed"
      <3>2. fate \in Fates \ {"in_flight"} BY DEF Fates
      <3>3. /\ msgs' = [msgs EXCEPT ![e.id].fate = fate] /\ LeavesFlight(e.id, fate)
            /\ Record({<<e.time, e.seq>>}, 1) \/ UNCHANGED traceVars
        BY <3>1
      <3> HIDE DEF fate
      <3> QED BY <3>1, <3>2, <3>3 DEF LeavesFlight, Record, Stamped
    <2> QED BY <2>1 DEF StepForm, Handled, Arrived, faultVars
  <1>8. CASE DispatchFault
    <2>1. PICK e \in queue :
            /\ e.kind = "fault" /\ Pop(e) /\ Apply(e.command, e.time)
            /\ UNCHANGED <<msgs, inFlight, scheduler>>
      BY <1>8 DEF DispatchFault
    <2>2. Stamped(<<e.time, nextSeq>>) /\ nextSeq' = nextSeq + 1
      BY <2>1 DEF Apply, Record, Stamped
    <2> QED BY <2>1, <2>2 DEF StepForm, Handled
  <1>9. CASE UNCHANGED vars
    BY <1>9 DEF vars, coreVars, faultVars, traceVars, StepForm
  <1> QED BY <1>1, <1>2, <1>3, <1>4, <1>5, <1>6, <1>7, <1>8, <1>9 DEF Next

\* The forms keep the types of what they write.
LEMMA FormTypes ==
    ASSUME TypeOK, StepForm
    PROVE  /\ now' \in Nat /\ nextSeq' \in Nat /\ queue' \subseteq Events
           /\ msgs' \in Seq(Envelopes) /\ inFlight' \subseteq 1..Len(msgs')
           /\ stamps' \subseteq Nat \X Nat /\ records' \in Nat
           /\ popped' \in Nat \X (Nat \cup {-1})
           /\ scheduler' \in SchedulerKinds
  <1>0. /\ now \in Nat /\ nextSeq \in Nat /\ queue \subseteq Events
        /\ msgs \in Seq(Envelopes) /\ inFlight \subseteq 1..Len(msgs)
        /\ stamps \subseteq Nat \X Nat /\ records \in Nat
        /\ popped \in Nat \X (Nat \cup {-1})
        /\ scheduler' = scheduler /\ scheduler \in SchedulerKinds
        /\ Len(msgs) \in Nat
    BY DEF TypeOK, StepForm
  <1>1. ASSUME NEW src \in Nodes, NEW dst \in Nodes, NEW fate \in Fates
        PROVE  Envelope(src, dst, fate) \in Envelopes
    BY <1>0, FactorTyped DEF TypeOK, Envelope, Envelopes
  <1>2. ASSUME NEW v \in Envelopes
        PROVE  /\ Append(msgs, v) \in Seq(Envelopes)
               /\ Len(Append(msgs, v)) = Len(msgs) + 1
    BY <1>0
  <1>3. ASSUME NEW a \in Nat, NEW b \in Nat, Stamped(<<a, b>>)
        PROVE  stamps' \subseteq Nat \X Nat /\ records' \in Nat
    BY <1>0, <1>3 DEF Stamped
  <1>4. CASE UNCHANGED <<now, popped>> /\ UNCHANGED <<nextSeq, queue, msgs, inFlight, stamps, records>>
    BY <1>0, <1>4
  <1>5. ASSUME NEW src \in Nodes, NEW dst \in Nodes, NEW fate, Dropped(src, dst, fate),
               UNCHANGED <<now, popped>>
        PROVE  /\ now' \in Nat /\ nextSeq' \in Nat /\ queue' \subseteq Events
               /\ msgs' \in Seq(Envelopes) /\ inFlight' \subseteq 1..Len(msgs')
               /\ stamps' \subseteq Nat \X Nat /\ records' \in Nat
               /\ popped' \in Nat \X (Nat \cup {-1})
    <2>1. /\ fate \in Fates /\ msgs' = Append(msgs, Envelope(src, dst, fate))
          /\ nextSeq' = nextSeq + 2
          /\ stamps' = (stamps \cup {<<now, nextSeq>>}) \cup {<<now, nextSeq + 1>>}
          /\ records' = records + 2
          /\ UNCHANGED <<queue, inFlight>>
      BY <1>5 DEF Dropped
    <2>2. msgs' \in Seq(Envelopes) /\ Len(msgs') = Len(msgs) + 1 BY <1>1, <1>2, <2>1
    <2>3. inFlight' \subseteq 1..Len(msgs') BY <1>0, <2>1, <2>2
    <2>4. stamps' \subseteq Nat \X Nat BY <1>0, <2>1
    <2> QED BY <1>0, <1>5, <2>1, <2>2, <2>3, <2>4
  <1>6. ASSUME NEW src \in Nodes, NEW dst \in Nodes, NEW t, Posted(src, dst, t),
               UNCHANGED <<now, popped>>
        PROVE  /\ now' \in Nat /\ nextSeq' \in Nat /\ queue' \subseteq Events
               /\ msgs' \in Seq(Envelopes) /\ inFlight' \subseteq 1..Len(msgs')
               /\ stamps' \subseteq Nat \X Nat /\ records' \in Nat
               /\ popped' \in Nat \X (Nat \cup {-1})
    <2>1. /\ t \in Nat /\ msgs' = Append(msgs, Envelope(src, dst, "in_flight"))
          /\ queue' = queue \cup {Arrival(t)}
          /\ inFlight' = inFlight \cup {Len(msgs) + 1}
          /\ nextSeq' = nextSeq + 2
          /\ stamps' = stamps \cup {<<now, nextSeq>>}
          /\ records' = records + 1
      BY <1>6 DEF Posted
    <2>2. "in_flight" \in Fates BY DEF Fates
    <2>3. msgs' \in Seq(Envelopes) /\ Len(msgs') = Len(msgs) + 1 BY <1>1, <1>2, <2>1, <2>2
    <2>4. inFlight' \subseteq 1..Len(msgs')
      <3>1. Len(msgs') = Len(msgs) + 1 /\ Len(msgs) \in Nat BY <1>0, <2>3
      <3>2. 1..Len(msgs) \subseteq 1..Len(msgs') /\ Len(msgs) + 1 \in 1..Len(msgs') BY <3>1
      <3> QED BY <1>0, <2>1, <3>2
    <2>5. Arrival(t) \in Events BY <1>0, <2>1 DEF Arrival, Events
    <2> QED BY <1>0, <1>6, <2>1, <2>3, <2>4, <2>5
  <1>7. ASSUME NEW e, Queued(e), UNCHANGED <<now, popped, msgs, inFlight>>
        PROVE  nextSeq' \in Nat /\ queue' \subseteq Events /\ stamps' \subseteq Nat \X Nat /\ records' \in Nat
    BY <1>0, <1>3, <1>7 DEF Queued, traceVars
  <1>8. ASSUME NEW e \in queue, Pop(e), Handled(e),
               Arrived(e) \/ (e.kind # "arrival" /\ UNCHANGED <<msgs, inFlight>>)
        PROVE  /\ now' \in Nat /\ nextSeq' \in Nat /\ queue' \subseteq Events
               /\ msgs' \in Seq(Envelopes) /\ inFlight' \subseteq 1..Len(msgs')
               /\ stamps' \subseteq Nat \X Nat /\ records' \in Nat
               /\ popped' \in Nat \X (Nat \cup {-1})
    <2>1. e.time \in Nat /\ e.seq \in Nat BY <1>0, <1>8 DEF Events
    <2>2. /\ now' \in Nat /\ queue' \subseteq Events /\ popped' \in Nat \X (Nat \cup {-1})
      BY <1>0, <1>8, <2>1 DEF Pop
    <2>3. nextSeq' \in Nat /\ stamps' \subseteq Nat \X Nat /\ records' \in Nat
      BY <1>0, <1>3, <1>8, <2>1 DEF Handled, traceVars
    <2>4. msgs' \in Seq(Envelopes) /\ inFlight' \subseteq 1..Len(msgs')
      <3>1. CASE Arrived(e)
        <4>1. PICK fate \in Fates \ {"in_flight"} : msgs' = [msgs EXCEPT ![e.id].fate = fate]
          BY <3>1 DEF Arrived
        <4>2. e.id \in 1..Len(msgs) /\ inFlight' \subseteq inFlight BY <1>0, <3>1 DEF Arrived
        <4>3. msgs[e.id] \in Envelopes BY <1>0, <4>2
        <4> DEFINE v == [msgs[e.id] EXCEPT !.fate = fate]
        <4>4. v \in Envelopes BY <4>3 DEF Envelopes
        <4>5. msgs' = [msgs EXCEPT ![e.id] = v] BY <4>1
        <4> HIDE DEF v
        <4>6. msgs' \in Seq(Envelopes) /\ Len(msgs') = Len(msgs) BY <1>0, <4>2, <4>4, <4>5
        <4> QED BY <1>0, <4>2, <4>6
      <3>2. CASE UNCHANGED <<msgs, inFlight>>
        BY <1>0, <3>2
      <3> QED BY <1>8, <3>1, <3>2
    <2> QED BY <2>2, <2>3, <2>4
  <1>9. CASE /\ UNCHANGED <<now, popped, queue, msgs, inFlight>>
             /\ nextSeq' = nextSeq + 1 /\ Stamped(<<now, nextSeq>>)
    BY <1>0, <1>3, <1>9
  <1> QED BY <1>0, <1>4, <1>5, <1>6, <1>7, <1>8, <1>9 DEF StepForm

\* The rest of the state: the faults, the leader, and the node being called.
LEMMA FaultTypes ==
    ASSUME TypeOK, [Next]_vars
    PROVE  /\ crashed' \subseteq Nodes /\ partition' \in Splits \cup {NoSplit}
           /\ slow' \in [Nodes -> Factors] /\ leader' \in Nodes \cup {NoNode}
           /\ running' \in Registered \cup {NoNode} /\ timers' \in Nat /\ faults' \in Nat
  <1>1. ASSUME NEW c \in Commands, NEW t, Apply(c, t)
        PROVE  /\ crashed' \subseteq Nodes /\ partition' \in Splits \cup {NoSplit}
               /\ slow' \in [Nodes -> Factors] /\ running' \in Registered \cup {NoNode}
    <2>1. c.cmd \in {"crash", "restart", "clear_slow", "slow"} => c.node \in Nodes
      BY DEF Commands
    <2>2. running' \in Registered \cup {NoNode} BY <1>1 DEF Apply, Call
    <2>3. CASE c.cmd = "crash" \/ c.cmd = "restart"
      BY <1>1, <2>1, <2>2, <2>3 DEF Apply, TypeOK
    <2>4. CASE c.cmd = "partition"
      <3>1. c.split \in Splits BY <2>4 DEF Commands
      <3> QED BY <1>1, <2>2, <2>4, <3>1 DEF Apply, TypeOK
    <2>5. CASE c.cmd = "heal"
      BY <1>1, <2>2, <2>5 DEF Apply, TypeOK
    <2>6. CASE c.cmd = "slow"
      <3>1. c.by \in Factors BY <2>6 DEF Commands, Factors
      <3>2. slow' = [slow EXCEPT ![c.node] = c.by] /\ UNCHANGED <<crashed, partition>>
        BY <1>1, <2>6 DEF Apply
      <3> QED BY <2>2, <3>1, <3>2 DEF TypeOK
    <2>7. CASE c.cmd = "clear_slow"
      <3>1. 1 \in Factors BY DEF Factors
      <3>2. slow' = [slow EXCEPT ![c.node] = 1] /\ UNCHANGED <<crashed, partition>>
        BY <1>1, <2>7 DEF Apply
      <3> QED BY <2>2, <3>1, <3>2 DEF TypeOK
    <2> QED BY <2>3, <2>4, <2>5, <2>6, <2>7 DEF Commands
  <1>2. CASE NodeSends \/ Inject \/ Return
    BY <1>2 DEF NodeSends, Inject, Return, faultVars, TypeOK
  <1>3. CASE NodeSchedules \/ InjectTimer
    <2>1. timers' = timers + 1 BY <1>3 DEF NodeSchedules, InjectTimer, ScheduleTimer
    <2> QED BY <1>3, <2>1 DEF NodeSchedules, InjectTimer, faultVars, TypeOK
  <1>4. CASE SetLeader \/ ScheduleFault
    BY <1>4 DEF SetLeader, ScheduleFault, faultVars, TypeOK
  <1>5. CASE ApplyNow
    BY <1>1, <1>5 DEF ApplyNow, TypeOK
  <1>6. CASE DispatchTimer
    BY <1>6 DEF DispatchTimer, Call, faultVars, TypeOK
  <1>7. CASE DispatchArrival
    <2>1. running' \in Registered \cup {NoNode} BY <1>7 DEF DispatchArrival, Call
    <2> QED BY <1>7, <2>1 DEF DispatchArrival, faultVars, TypeOK
  <1>8. CASE DispatchFault
    <2>1. PICK e \in queue : e.kind = "fault" /\ Apply(e.command, e.time)
      BY <1>8 DEF DispatchFault
    <2>2. e.command \in Commands BY <2>1 DEF TypeOK, Events
    <2> QED BY <1>1, <1>8, <2>1, <2>2 DEF DispatchFault, TypeOK
  <1>9. CASE UNCHANGED vars
    BY <1>9 DEF vars, faultVars, TypeOK
  <1> QED BY <1>2, <1>3, <1>4, <1>5, <1>6, <1>7, <1>8, <1>9 DEF Next

\* The kernel's state keeps its types, whatever the nodes and the scenario do.
THEOREM KernelTypeCorrectness == Spec => []TypeOK
  <1>1. Init => TypeOK
    BY SchedulerAssumption DEF Init, TypeOK, Factors
  <1>2. TypeOK /\ [Next]_vars => TypeOK'
    <2> SUFFICES ASSUME TypeOK, [Next]_vars PROVE TypeOK'
      OBVIOUS
    <2>1. StepForm BY StepForms
    <2> QED BY <2>1, FormTypes, FaultTypes DEF TypeOK
  <1> QED BY <1>1, <1>2, PTL DEF Spec

\* scheduler.rs: "this keeps a single adversary instance from trivially wedging
\* a naive test": whoever leads, a link that is not cut can deliver.
THEOREM KernelNeverWedged == Spec => []NeverWedged
  <1>1. TypeOK => NeverWedged BY SomeDelivery DEF NeverWedged, TypeOK
  <1> QED BY <1>1, KernelTypeCorrectness, PTL

-----------------------------------------------------------------------------
(***************************************************************************)
(* The queue: every event is due after the last one dispatched.            *)
(***************************************************************************)

LEMMA StepQueue == TypeOK /\ QueueInv /\ StepForm => QueueInv'
  <1> SUFFICES ASSUME TypeOK, QueueInv, StepForm PROVE QueueInv'
    OBVIOUS
  <1>0. /\ now \in Nat /\ nextSeq \in Nat /\ popped \in Nat \X (Nat \cup {-1})
        /\ popped[1] = now /\ popped[2] < nextSeq /\ popped[2] \in Int
        /\ \A e \in queue : e.time \in Nat /\ e.seq \in Nat
        /\ \A e \in queue : e.seq < nextSeq /\ Earlier(popped, <<e.time, e.seq>>)
        /\ \A e, f \in queue : e.seq = f.seq => e = f
    <2>1. \A e \in Events : e.time \in Nat /\ e.seq \in Nat BY DEF Events
    <2> QED BY <2>1 DEF TypeOK, QueueInv
  <1>1. ASSUME NEW k \in Nat, k >= 1, nextSeq' = nextSeq + k, UNCHANGED <<now, popped>>,
               UNCHANGED queue
        PROVE  QueueInv'
    BY <1>0, <1>1 DEF QueueInv
  <1>2. ASSUME NEW e, e.seq \in Nat, e.time \in Nat, e.seq >= nextSeq, e.seq < nextSeq',
               now <= e.time, nextSeq' \in Nat, UNCHANGED <<now, popped>>,
               queue' = queue \cup {e}
        PROVE  QueueInv'
    <2>1. e.seq > popped[2] BY <1>0, <1>2
    <2>2. popped[1] < e.time \/ (popped[1] = e.time /\ popped[2] < e.seq) BY <1>0, <1>2, <2>1
    <2>3. Earlier(popped, <<e.time, e.seq>>) BY <2>2 DEF Earlier
    <2>4. nextSeq <= nextSeq' BY <1>0, <1>2
    <2>5. ASSUME NEW f \in queue'
          PROVE  f.seq < nextSeq' /\ Earlier(popped, <<f.time, f.seq>>)
      <3>1. CASE f = e
        BY <1>2, <2>3, <3>1
      <3>2. CASE f \in queue
        <4>1. f.seq \in Nat /\ f.seq < nextSeq /\ Earlier(popped, <<f.time, f.seq>>)
          BY <1>0, <3>2
        <4> QED BY <1>0, <1>2, <2>4, <4>1
      <3> QED BY <1>2, <3>1, <3>2
    <2>6. ASSUME NEW f \in queue PROVE f.seq # e.seq
      <3>1. f.seq \in Nat /\ f.seq < nextSeq BY <1>0
      <3> QED BY <1>0, <1>2, <3>1
    <2>7. \A f, g \in queue' : f.seq = g.seq => f = g BY <1>0, <1>2, <2>6
    <2>8. popped'[1] = now' /\ popped'[2] < nextSeq' BY <1>0, <1>2, <2>4
    <2> QED BY <1>2, <2>5, <2>7, <2>8 DEF QueueInv
  <1>3. ASSUME NEW src \in Nodes, NEW dst \in Nodes, NEW fate, Dropped(src, dst, fate),
               UNCHANGED <<now, popped>>
        PROVE  QueueInv'
    BY <1>1, <1>3 DEF Dropped
  <1>4. ASSUME NEW src \in Nodes, NEW dst \in Nodes, NEW t, Posted(src, dst, t),
               UNCHANGED <<now, popped>>
        PROVE  QueueInv'
    <2>1. Arrival(t).seq = nextSeq + 1 /\ Arrival(t).time = t BY DEF Arrival
    <2>2. t \in Nat /\ now < t /\ queue' = queue \cup {Arrival(t)} /\ nextSeq' = nextSeq + 2
      BY <1>4 DEF Posted
    <2> HIDE DEF Arrival
    <2>3. /\ Arrival(t).seq \in Nat /\ Arrival(t).time \in Nat /\ Arrival(t).seq >= nextSeq
          /\ Arrival(t).seq < nextSeq' /\ now <= Arrival(t).time /\ nextSeq' \in Nat
      BY <1>0, <2>1, <2>2
    <2> QED BY <1>2, <1>4, <2>2, <2>3
  <1>5. ASSUME NEW e, Queued(e), UNCHANGED <<now, popped>>
        PROVE  QueueInv'
    <2>1. /\ queue' = queue \cup {e} /\ nextSeq' = nextSeq + 1 /\ e.seq = nextSeq
          /\ e \in Events /\ (now < e.time \/ now <= e.time)
      BY <1>5 DEF Queued
    <2>2. e.time \in Nat /\ e.seq \in Nat BY <2>1 DEF Events
    <2>3. e.seq >= nextSeq /\ e.seq < nextSeq' /\ now <= e.time /\ nextSeq' \in Nat
      BY <1>0, <2>1, <2>2
    <2> QED BY <1>2, <1>5, <2>1, <2>2, <2>3
  <1>6. ASSUME NEW e \in queue, Pop(e), Handled(e)
        PROVE  QueueInv'
    <2>1. /\ queue' = queue \ {e} /\ now' = e.time /\ popped' = <<e.time, e.seq>>
          /\ \A f \in queue : e.time < f.time \/ (e.time = f.time /\ e.seq <= f.seq)
      BY <1>6 DEF Pop, IsNext
    <2>2. nextSeq <= nextSeq' /\ nextSeq' \in Nat BY <1>0, <1>6 DEF Handled
    <2>3. popped'[1] = now' /\ popped'[2] < nextSeq' BY <1>0, <2>1, <2>2
    <2>4. ASSUME NEW f \in queue' PROVE f.seq < nextSeq' /\ Earlier(popped', <<f.time, f.seq>>)
      <3>1. f \in queue /\ f.seq # e.seq BY <1>0, <2>1
      <3>2. f.seq < nextSeq'
        <4>1. f.seq \in Nat /\ f.seq < nextSeq BY <1>0, <3>1
        <4> QED BY <1>0, <2>2, <4>1
      <3>3. e.time < f.time \/ (e.time = f.time /\ e.seq < f.seq) BY <1>0, <2>1, <3>1
      <3> QED BY <2>1, <3>2, <3>3 DEF Earlier
    <2>5. \A f, g \in queue' : f.seq = g.seq => f = g BY <1>0, <2>1
    <2> QED BY <2>3, <2>4, <2>5 DEF QueueInv
  <1>7. CASE UNCHANGED <<now, popped, nextSeq, queue>>
    BY <1>7, <1>0 DEF QueueInv
  <1> QED BY <1>1, <1>3, <1>4, <1>5, <1>6, <1>7 DEF StepForm

-----------------------------------------------------------------------------
(***************************************************************************)
(* The stamps: a record takes a number no record has, or the one drawn for *)
(* the event it is of.                                                     *)
(***************************************************************************)

\* What a queued event's stamp may be after a step.
LEMMA StepStamp == TypeOK /\ QueueInv /\ StampInv /\ StepForm => StampInv'
  <1> SUFFICES ASSUME TypeOK, QueueInv, StampInv, StepForm PROVE StampInv'
    OBVIOUS
  <1>0. /\ now \in Nat /\ nextSeq \in Nat /\ records \in Nat
        /\ stamps \subseteq Nat \X Nat /\ IsFiniteSet(stamps) /\ Cardinality(stamps) = records
        /\ \A s \in stamps : s[2] < nextSeq
        /\ \A e \in queue : e.time \in Nat /\ e.seq \in Nat /\ e.seq < nextSeq
                            /\ <<e.time, e.seq>> \notin stamps
        /\ \A e, f \in queue : e.seq = f.seq => e = f
    <2>1. \A e \in Events : e.time \in Nat /\ e.seq \in Nat BY DEF Events
    <2> QED BY <2>1 DEF TypeOK, QueueInv, StampInv
  <1>1. ASSUME NEW s, s \notin stamps, Stamped(s)
        PROVE  IsFiniteSet(stamps') /\ Cardinality(stamps') = records'
    BY <1>0, <1>1, FS_AddElement DEF Stamped
  <1>2. ASSUME NEW t \in Nat PROVE <<t, nextSeq>> \notin stamps
    <2> SUFFICES ASSUME <<t, nextSeq>> \in stamps PROVE FALSE
      OBVIOUS
    <2>1. <<t, nextSeq>>[2] < nextSeq BY <1>0
    <2> QED BY <1>0, <2>1
  <1>2a. ASSUME NEW f \in queue, NEW t
        PROVE  <<f.time, f.seq>> # <<t, nextSeq>> /\ <<f.time, f.seq>> # <<t, nextSeq + 1>>
    <2>1. f.seq \in Nat /\ f.seq < nextSeq BY <1>0
    <2>2. f.seq # nextSeq /\ f.seq # nextSeq + 1 BY <1>0, <2>1
    <2> QED BY <2>2
  <1>3. CASE UNCHANGED <<nextSeq, queue, stamps, records>>
    BY <1>0, <1>3 DEF StampInv
  <1>4. ASSUME NEW src \in Nodes, NEW dst \in Nodes, NEW fate, Dropped(src, dst, fate)
        PROVE  StampInv'
    <2> DEFINE S == stamps \cup {<<now, nextSeq>>}
    <2>1. /\ stamps' = S \cup {<<now, nextSeq + 1>>} /\ nextSeq' = nextSeq + 2
          /\ records' = records + 2 /\ queue' = queue
      BY <1>4 DEF Dropped
    <2>2. IsFiniteSet(S) /\ Cardinality(S) = records + 1 BY <1>0, <1>2, FS_AddElement
    <2>3. <<now, nextSeq + 1>> \notin S
      <3> SUFFICES ASSUME <<now, nextSeq + 1>> \in S PROVE FALSE
        OBVIOUS
      <3>1. <<now, nextSeq + 1>>[2] <= nextSeq BY <1>0
      <3> QED BY <1>0, <3>1
    <2>4. \A s \in stamps' : s[2] < nextSeq' BY <1>0, <2>1
    <2>5. ASSUME NEW e \in queue' PROVE <<e.time, e.seq>> \notin stamps'
      <3>1. e \in queue /\ <<e.time, e.seq>> \notin stamps BY <1>0, <2>1
      <3> QED BY <1>2a, <2>1, <3>1
    <2> HIDE DEF S
    <2>6. IsFiniteSet(stamps') /\ Cardinality(stamps') = (records + 1) + 1
      BY <2>1, <2>2, <2>3, FS_AddElement
    <2>7. Cardinality(stamps') = records' BY <1>0, <2>1, <2>6
    <2> QED BY <2>4, <2>5, <2>6, <2>7 DEF StampInv
  <1>5. ASSUME NEW src \in Nodes, NEW dst \in Nodes, NEW t, Posted(src, dst, t)
        PROVE  StampInv'
    <2>1. /\ t \in Nat /\ queue' = queue \cup {Arrival(t)} /\ nextSeq' = nextSeq + 2
          /\ Stamped(<<now, nextSeq>>)
      BY <1>5 DEF Posted, Stamped
    <2>2. stamps' = stamps \cup {<<now, nextSeq>>} BY <2>1 DEF Stamped
    <2>3. \A s \in stamps' : s[2] < nextSeq' BY <1>0, <2>1, <2>2
    <2>4. <<Arrival(t).time, Arrival(t).seq>> = <<t, nextSeq + 1>> BY DEF Arrival
    <2>5. <<t, nextSeq + 1>> \notin stamps'
      <3> SUFFICES ASSUME <<t, nextSeq + 1>> \in stamps' PROVE FALSE
        OBVIOUS
      <3>1. <<t, nextSeq + 1>>[2] <= nextSeq BY <1>0, <2>2
      <3> QED BY <1>0, <3>1
    <2>6. \A e \in queue : <<e.time, e.seq>> \notin stamps' BY <1>0, <1>2a, <2>2
    <2>7. \A e \in queue' : <<e.time, e.seq>> \notin stamps' BY <2>1, <2>4, <2>5, <2>6
    <2> QED BY <1>0, <1>1, <1>2, <2>1, <2>3, <2>7 DEF StampInv
  <1>6. ASSUME NEW e, Queued(e)
        PROVE  StampInv'
    <2>1. /\ queue' = queue \cup {e} /\ nextSeq' = nextSeq + 1 /\ e.seq = nextSeq /\ e \in Events
          /\ \/ now < e.time /\ Stamped(<<now, nextSeq>>)
             \/ UNCHANGED <<stamps, records>>
      BY <1>6 DEF Queued, traceVars
    <2>2. e.time \in Nat BY <2>1 DEF Events
    <2>3. <<e.time, nextSeq>> \notin stamps BY <1>2, <2>2
    <2>4. CASE now < e.time /\ Stamped(<<now, nextSeq>>)
      <3>1. stamps' = stamps \cup {<<now, nextSeq>>} BY <2>4 DEF Stamped
      <3>2. \A s \in stamps' : s[2] < nextSeq' BY <1>0, <2>1, <3>1
      <3>3. now # e.time BY <1>0, <2>2, <2>4
      <3>4. <<e.time, e.seq>> \notin stamps' BY <2>1, <2>3, <3>1, <3>3
      <3>5. \A f \in queue : <<f.time, f.seq>> \notin stamps' BY <1>0, <1>2a, <3>1
      <3> QED BY <1>0, <1>1, <1>2, <2>1, <2>4, <3>2, <3>4, <3>5 DEF StampInv
    <2>5. CASE UNCHANGED <<stamps, records>>
      <3>1. \A s \in stamps' : s[2] < nextSeq' BY <1>0, <2>1, <2>5
      <3> QED BY <1>0, <2>1, <2>3, <2>5, <3>1 DEF StampInv
    <2> QED BY <2>1, <2>4, <2>5
  <1>7. CASE queue' = queue /\ nextSeq' = nextSeq + 1 /\ Stamped(<<now, nextSeq>>)
    <2>1. stamps' = stamps \cup {<<now, nextSeq>>} BY <1>7 DEF Stamped
    <2>2. \A s \in stamps' : s[2] < nextSeq' BY <1>0, <1>7, <2>1
    <2>3. \A f \in queue : <<f.time, f.seq>> \notin stamps' BY <1>0, <1>2a, <2>1
    <2> QED BY <1>0, <1>1, <1>2, <1>7, <2>2, <2>3 DEF StampInv
  <1>8. ASSUME NEW e \in queue, Pop(e), Handled(e)
        PROVE  StampInv'
    <2>1. queue' = queue \ {e} /\ \A f \in queue' : f \in queue /\ f.seq # e.seq
      BY <1>0, <1>8 DEF Pop
    <2>2. e.time \in Nat /\ e.seq \in Nat /\ e.seq < nextSeq /\ <<e.time, e.seq>> \notin stamps
      BY <1>0
    <2>3. CASE nextSeq' = nextSeq /\ Stamped(<<e.time, e.seq>>)
      <3>1. stamps' = stamps \cup {<<e.time, e.seq>>} BY <2>3 DEF Stamped
      <3>2. \A s \in stamps' : s[2] < nextSeq' BY <1>0, <2>2, <2>3, <3>1
      <3>3. \A f \in queue' : <<f.time, f.seq>> \notin stamps' BY <1>0, <2>1, <3>1
      <3> QED BY <1>1, <2>2, <2>3, <3>2, <3>3 DEF StampInv
    <2>4. CASE nextSeq' = nextSeq /\ UNCHANGED <<stamps, records>>
      BY <1>0, <2>1, <2>4 DEF StampInv
    <2>5. CASE nextSeq' = nextSeq + 1 /\ Stamped(<<e.time, nextSeq>>)
      <3>1. stamps' = stamps \cup {<<e.time, nextSeq>>} BY <2>5 DEF Stamped
      <3>2. \A s \in stamps' : s[2] < nextSeq' BY <1>0, <2>5, <3>1
      <3>3. \A f \in queue' : <<f.time, f.seq>> \notin stamps' BY <1>0, <1>2a, <2>1, <3>1
      <3> QED BY <1>1, <1>2, <2>2, <2>5, <3>2, <3>3 DEF StampInv
    <2> QED BY <1>8, <2>3, <2>4, <2>5 DEF Handled, traceVars
  <1> QED BY <1>3, <1>4, <1>5, <1>6, <1>7, <1>8 DEF StepForm

-----------------------------------------------------------------------------
(***************************************************************************)
(* The ledger of messages: what is in flight has its one arrival queued.   *)
(***************************************************************************)

\* What a message appended, and below a message whose fate is written, leave of msgs.
LEMMA MsgsEffects ==
    ASSUME msgs \in Seq(Envelopes)
    PROVE  /\ Len(msgs) \in Nat
           /\ \A k \in 1..Len(msgs) : msgs[k] \in Envelopes
           /\ \A v : msgs' = Append(msgs, v) =>
                /\ Len(msgs') = Len(msgs) + 1 /\ msgs'[Len(msgs) + 1] = v
                /\ \A k \in 1..Len(msgs) : msgs'[k] = msgs[k]
  <1>1. Len(msgs) \in Nat /\ \A k \in 1..Len(msgs) : msgs[k] \in Envelopes OBVIOUS
  <1>2. ASSUME NEW v, msgs' = Append(msgs, v)
        PROVE  /\ Len(msgs') = Len(msgs) + 1 /\ msgs'[Len(msgs) + 1] = v
               /\ \A k \in 1..Len(msgs) : msgs'[k] = msgs[k]
    BY <1>2
  <1> QED BY <1>1, <1>2

LEMMA FateEffect ==
    ASSUME msgs \in Seq(Envelopes), NEW i \in 1..Len(msgs), NEW fate,
           msgs' = [msgs EXCEPT ![i].fate = fate]
    PROVE  /\ Len(msgs') = Len(msgs)
           /\ \A k \in 1..Len(msgs) :
                /\ msgs'[k].fate = IF k = i THEN fate ELSE msgs[k].fate
                /\ msgs'[k].sent = msgs[k].sent /\ msgs'[k].factor = msgs[k].factor
                /\ msgs'[k].src = msgs[k].src /\ msgs'[k].dst = msgs[k].dst
  <1> DEFINE w == [msgs[i] EXCEPT !.fate = fate]
  <1>1. Len(msgs) \in Nat /\ msgs[i] \in Envelopes OBVIOUS
  <1>2. /\ w.fate = fate /\ w.sent = msgs[i].sent /\ w.factor = msgs[i].factor
        /\ w.src = msgs[i].src /\ w.dst = msgs[i].dst
    BY <1>1 DEF Envelopes
  <1>3. msgs' = [msgs EXCEPT ![i] = w] OBVIOUS
  <1> HIDE DEF w
  <1>4. Len(msgs') = Len(msgs) BY <1>1, <1>3
  <1>5. \A k \in 1..Len(msgs) : msgs'[k] = IF k = i THEN w ELSE msgs[k] BY <1>1, <1>3
  <1> QED BY <1>2, <1>4, <1>5

LEMMA StepArrival == TypeOK /\ ArrivalInv /\ StepForm => ArrivalInv'
  <1> SUFFICES ASSUME TypeOK, ArrivalInv, StepForm PROVE ArrivalInv'
    OBVIOUS
  <1>0. /\ msgs \in Seq(Envelopes) /\ Len(msgs) \in Nat
        /\ inFlight = {k \in 1..Len(msgs) : msgs[k].fate = "in_flight"}
        /\ \A e \in queue : e.kind = "arrival" => e.id \in inFlight
        /\ \A k \in inFlight : \E e \in queue : e.kind = "arrival" /\ e.id = k
        /\ \A e, f \in queue : e.kind = "arrival" /\ f.kind = "arrival" /\ e.id = f.id => e = f
    BY MsgsEffects DEF TypeOK, ArrivalInv
  <1>1. ASSUME NEW src \in Nodes, NEW dst \in Nodes, NEW fate,
               msgs' = Append(msgs, Envelope(src, dst, fate))
        PROVE  {k \in 1..Len(msgs') : msgs'[k].fate = "in_flight"}
                 = inFlight \cup (IF fate = "in_flight" THEN {Len(msgs) + 1} ELSE {})
    <2>1. /\ Len(msgs') = Len(msgs) + 1 /\ msgs'[Len(msgs) + 1] = Envelope(src, dst, fate)
          /\ \A k \in 1..Len(msgs) : msgs'[k] = msgs[k]
      BY <1>0, <1>1, MsgsEffects
    <2>2. msgs'[Len(msgs) + 1].fate = fate BY <2>1 DEF Envelope
    <2>3. 1..Len(msgs') = 1..Len(msgs) \cup {Len(msgs) + 1} BY <1>0, <2>1
    <2> QED BY <1>0, <2>1, <2>2, <2>3
  <1>2. ASSUME UNCHANGED <<queue, msgs, inFlight>>
        PROVE  ArrivalInv'
    BY <1>0, <1>2 DEF ArrivalInv
  <1>3. ASSUME NEW src \in Nodes, NEW dst \in Nodes, NEW fate, Dropped(src, dst, fate)
        PROVE  ArrivalInv'
    <2>1. inFlight' = {k \in 1..Len(msgs') : msgs'[k].fate = "in_flight"}
      BY <1>1, <1>3 DEF Dropped
    <2>2. UNCHANGED <<queue, inFlight>> BY <1>3 DEF Dropped
    <2> QED BY <1>0, <2>1, <2>2 DEF ArrivalInv
  <1>4. ASSUME NEW src \in Nodes, NEW dst \in Nodes, NEW t, Posted(src, dst, t)
        PROVE  ArrivalInv'
    <2> DEFINE a == Arrival(t)
               n == Len(msgs) + 1
    <2>1. /\ queue' = queue \cup {a} /\ inFlight' = inFlight \cup {n}
          /\ inFlight' = {k \in 1..Len(msgs') : msgs'[k].fate = "in_flight"}
      BY <1>1, <1>4 DEF Posted
    <2>2. a.kind = "arrival" /\ a.id = n BY DEF Arrival
    <2>3. n \notin inFlight BY <1>0
    <2> HIDE DEF a, n
    <2>4. \A e \in queue' : e.kind = "arrival" => e.id \in inFlight' BY <1>0, <2>1, <2>2
    <2>5. \A k \in inFlight' : \E e \in queue' : e.kind = "arrival" /\ e.id = k
      BY <1>0, <2>1, <2>2
    <2>6. \A e, f \in queue' : e.kind = "arrival" /\ f.kind = "arrival" /\ e.id = f.id => e = f
      BY <1>0, <2>1, <2>2, <2>3
    <2> QED BY <2>1, <2>4, <2>5, <2>6 DEF ArrivalInv
  <1>5. ASSUME NEW e, Queued(e), UNCHANGED <<msgs, inFlight>>
        PROVE  ArrivalInv'
    <2>1. queue' = queue \cup {e} /\ e.kind # "arrival" BY <1>5 DEF Queued
    <2>2. \A f \in queue' : f.kind = "arrival" => f \in queue BY <2>1
    <2>3. queue \subseteq queue' BY <2>1
    <2> QED BY <1>0, <1>5, <2>2, <2>3 DEF ArrivalInv
  <1>6. ASSUME NEW e \in queue, Pop(e), e.kind # "arrival", UNCHANGED <<msgs, inFlight>>
        PROVE  ArrivalInv'
    <2>1. queue' = queue \ {e} BY <1>6 DEF Pop
    <2>2. \A f \in queue : f.kind = "arrival" => f \in queue' BY <1>6, <2>1
    <2>3. queue' \subseteq queue BY <2>1
    <2> QED BY <1>0, <1>6, <2>2, <2>3 DEF ArrivalInv
  <1>7. ASSUME NEW e \in queue, Pop(e), Arrived(e)
        PROVE  ArrivalInv'
    <2>1. queue' = queue \ {e} BY <1>7 DEF Pop
    <2>2. /\ e.kind = "arrival" /\ e.id \in inFlight /\ inFlight' = inFlight \ {e.id}
          /\ \E fate \in Fates \ {"in_flight"} : msgs' = [msgs EXCEPT ![e.id].fate = fate]
      BY <1>7 DEF Arrived
    <2>3. PICK fate : fate # "in_flight" /\ msgs' = [msgs EXCEPT ![e.id].fate = fate] BY <2>2
    <2>4. e.id \in 1..Len(msgs) BY <1>0, <2>2
    <2>5. /\ Len(msgs') = Len(msgs)
          /\ \A k \in 1..Len(msgs) : msgs'[k].fate = IF k = e.id THEN fate ELSE msgs[k].fate
      BY <1>0, <2>3, <2>4, FateEffect
    <2>6. inFlight' = {k \in 1..Len(msgs') : msgs'[k].fate = "in_flight"}
      BY <1>0, <2>2, <2>3, <2>5
    <2>7. ASSUME NEW f \in queue', f.kind = "arrival" PROVE f.id \in inFlight'
      BY <1>0, <2>1, <2>2, <2>7
    <2>8. ASSUME NEW k \in inFlight' PROVE \E f \in queue' : f.kind = "arrival" /\ f.id = k
      BY <1>0, <2>1, <2>2
    <2> QED BY <1>0, <2>1, <2>6, <2>7, <2>8 DEF ArrivalInv
  <1> QED BY <1>2, <1>3, <1>4, <1>5, <1>6, <1>7 DEF StepForm

\* The arrivals of a message that are queued: one of each in flight.
LEMMA LedgerOfArrivals == TypeOK /\ ArrivalInv => MessageLedger
  <1> SUFFICES ASSUME TypeOK, ArrivalInv, NEW k \in 1..Len(msgs)
               PROVE  Cardinality({e \in queue : e.kind = "arrival" /\ e.id = k})
                        = IF k \in inFlight THEN 1 ELSE 0
    BY DEF MessageLedger, ArrivalInv
  <1> DEFINE A == {e \in queue : e.kind = "arrival" /\ e.id = k}
  <1>1. CASE k \in inFlight
    <2>1. PICK e \in queue : e.kind = "arrival" /\ e.id = k BY <1>1 DEF ArrivalInv
    <2>2. A = {e} BY <2>1 DEF ArrivalInv
    <2> QED BY <1>1, <2>2, FS_Singleton
  <1>2. CASE k \notin inFlight
    <2>1. A = {} BY <1>2 DEF ArrivalInv
    <2> QED BY <1>2, <2>1, FS_EmptySet
  <1> QED BY <1>1, <1>2

-----------------------------------------------------------------------------
(***************************************************************************)
(* The FIFO scheduler: one link's messages arrive in the order they left.  *)
(***************************************************************************)

\* A slower link's message takes as long or longer.
LEMMA DueMonotone ==
    ASSUME NEW a \in Nat, NEW b \in Nat, a <= b
    PROVE  /\ Max({MinDelay * a, 1}) \in Nat /\ Max({MinDelay * b, 1}) \in Nat
           /\ Max({MinDelay * a, 1}) <= Max({MinDelay * b, 1})
  <1> DEFINE x == MinDelay * a
             y == MinDelay * b
             c == b - a
  <1>1. MinDelay \in Nat BY DelayAssumption
  <1>2. c \in Nat /\ b = a + c OBVIOUS
  <1>3. x \in Nat /\ y \in Nat /\ MinDelay * c \in Nat BY <1>1, <1>2
  <1>4. y = x + MinDelay * c BY <1>1, <1>2
  <1>5. x <= y BY <1>3, <1>4
  <1> HIDE DEF x, y
  <1>6. /\ Max({x, 1}) = IF x >= 1 THEN x ELSE 1
        /\ Max({y, 1}) = IF y >= 1 THEN y ELSE 1
    BY <1>3, LargerOfTwo
  <1>7. Max({x, 1}) \in Nat /\ Max({y, 1}) \in Nat /\ Max({x, 1}) <= Max({y, 1})
    BY <1>3, <1>5, <1>6
  <1> QED BY <1>7 DEF x, y

LEMMA StepFifo == TypeOK /\ QueueInv /\ ArrivalInv /\ FifoInv /\ StepForm => FifoInv'
  <1> SUFFICES ASSUME TypeOK, QueueInv, ArrivalInv, FifoInv, StepForm, scheduler' = "fifo"
               PROVE  FifoInv'
    BY DEF FifoInv
  <1> DEFINE L == 1..Len(msgs)
             due(m) == m.sent + Max({MinDelay * m.factor, 1})
  <1>0. /\ scheduler = "fifo" /\ now \in Nat /\ nextSeq \in Nat
        /\ msgs \in Seq(Envelopes) /\ Len(msgs) \in Nat
        /\ \A k \in L : msgs[k].sent \in Nat /\ msgs[k].factor \in Nat
        /\ \A e \in queue : e.time \in Nat /\ e.seq \in Nat /\ e.seq < nextSeq
        /\ \A e \in queue : now <= e.time
    <2>1. \A e \in Events : e.time \in Nat /\ e.seq \in Nat BY DEF Events
    <2>2. \A v \in Envelopes : v.sent \in Nat /\ v.factor \in Nat
      <3>1. \A f \in Factors : f \in Nat BY DomainAssumption DEF Factors
      <3>2. \A v \in Envelopes : v.sent \in Nat /\ v.factor \in Factors BY DEF Envelopes
      <3> QED BY <3>1, <3>2
    <2>3. \A k \in L : msgs[k] \in Envelopes BY MsgsEffects DEF TypeOK
    <2>4. \A e \in queue : now <= e.time BY <2>1 DEF QueueInv, Earlier, TypeOK
    <2> QED BY <2>1, <2>2, <2>3, <2>4, MsgsEffects DEF TypeOK, StepForm, QueueInv
  <1>1. /\ \A k \in L : msgs[k].sent <= now
        /\ \A j, k \in L : j < k => msgs[j].sent <= msgs[k].sent
        /\ \A e \in queue : e.kind = "arrival" => e.time = due(msgs[e.id])
        /\ \A e, f \in queue : (e.kind = "arrival" /\ f.kind = "arrival" /\ e.id < f.id)
                                 => e.seq < f.seq
        /\ LinkFifo
    BY <1>0 DEF FifoInv
  <1>2. /\ \A e \in queue : e.kind = "arrival" => e.id \in L
        /\ \A k \in L : msgs[k].fate = "in_flight" => k \in inFlight
        /\ \A k \in inFlight : \E e \in queue : e.kind = "arrival" /\ e.id = k
    BY DEF ArrivalInv
  \* A message more, that is not delivered.
  <1>3. ASSUME NEW src \in Nodes, NEW dst \in Nodes, NEW fate, fate # "delivered",
               msgs' = Append(msgs, Envelope(src, dst, fate)), now' = now
        PROVE  /\ Len(msgs') = Len(msgs) + 1 /\ \A k \in L : msgs'[k] = msgs[k]
               /\ msgs'[Len(msgs) + 1] = Envelope(src, dst, fate)
               /\ \A k \in 1..Len(msgs') : msgs'[k].sent <= now'
               /\ \A j, k \in 1..Len(msgs') : j < k => msgs'[j].sent <= msgs'[k].sent
               /\ LinkFifo'
    <2>1. /\ Len(msgs') = Len(msgs) + 1 /\ msgs'[Len(msgs) + 1] = Envelope(src, dst, fate)
          /\ \A k \in L : msgs'[k] = msgs[k]
      BY <1>0, <1>3, MsgsEffects
    <2>2. msgs'[Len(msgs) + 1].sent = now /\ msgs'[Len(msgs) + 1].fate # "delivered"
      BY <1>3, <2>1 DEF Envelope
    <2>3. /\ \A k \in 1..Len(msgs') : k \in L \/ k = Len(msgs) + 1
          /\ \A j, k \in 1..Len(msgs') : (j < k /\ k \in L) => j \in L
          /\ \A j, k \in 1..Len(msgs') : (j < k /\ k \notin L) => j \in L
      BY <1>0, <2>1
    <2>4. \A k \in 1..Len(msgs') : msgs'[k].sent <= now'
      BY <1>0, <1>1, <1>3, <2>1, <2>2, <2>3
    <2>5. \A j, k \in 1..Len(msgs') : j < k => msgs'[j].sent <= msgs'[k].sent
      BY <1>0, <1>1, <2>1, <2>2, <2>3
    <2>6. LinkFifo'
      <3> SUFFICES ASSUME NEW j \in 1..Len(msgs'), NEW k \in 1..Len(msgs'),
                          j < k, msgs'[j].src = msgs'[k].src, msgs'[j].dst = msgs'[k].dst,
                          msgs'[j].factor <= msgs'[k].factor, msgs'[k].fate = "delivered"
                   PROVE  msgs'[j].fate # "in_flight"
        BY DEF LinkFifo
      <3>1. k \in L /\ j \in L BY <2>2, <2>3
      <3>2. msgs'[k] = msgs[k] /\ msgs'[j] = msgs[j] BY <2>1, <3>1
      <3> QED BY <1>0, <1>1, <3>1, <3>2 DEF LinkFifo
    <2> QED BY <2>1, <2>4, <2>5, <2>6
  <1>4. ASSUME NEW src \in Nodes, NEW dst \in Nodes, NEW fate, Dropped(src, dst, fate),
               UNCHANGED now
        PROVE  FifoInv'
    <2>1. /\ fate # "delivered" /\ msgs' = Append(msgs, Envelope(src, dst, fate)) /\ queue' = queue
      BY <1>4 DEF Dropped
    <2>2. /\ \A k \in L : msgs'[k] = msgs[k]
          /\ \A k \in 1..Len(msgs') : msgs'[k].sent <= now'
          /\ \A j, k \in 1..Len(msgs') : j < k => msgs'[j].sent <= msgs'[k].sent
          /\ LinkFifo'
      BY <1>3, <1>4, <2>1
    <2>3. \A e \in queue' : e.kind = "arrival" => e.time = due(msgs'[e.id])
      BY <1>1, <1>2, <2>1, <2>2
    <2> QED BY <1>1, <2>1, <2>2, <2>3 DEF FifoInv
  <1>5. ASSUME NEW src \in Nodes, NEW dst \in Nodes, NEW t, Posted(src, dst, t), UNCHANGED now
        PROVE  FifoInv'
    <2> DEFINE a == Arrival(t)
               n == Len(msgs) + 1
    <2>1. /\ msgs' = Append(msgs, Envelope(src, dst, "in_flight")) /\ queue' = queue \cup {a}
          /\ t = now + Max({MinDelay * SlowMultiplier(src, dst), 1})
      BY <1>0, <1>5 DEF Posted
    <2>2. /\ \A k \in L : msgs'[k] = msgs[k]
          /\ msgs'[n] = Envelope(src, dst, "in_flight")
          /\ \A k \in 1..Len(msgs') : msgs'[k].sent <= now'
          /\ \A j, k \in 1..Len(msgs') : j < k => msgs'[j].sent <= msgs'[k].sent
          /\ LinkFifo'
      BY <1>3, <1>5, <2>1
    <2>3. a.time = t /\ a.seq = nextSeq + 1 /\ a.kind = "arrival" /\ a.id = n BY DEF Arrival
    <2>4. due(msgs'[n]) = t
      <3>1. msgs'[n].sent = now /\ msgs'[n].factor = SlowMultiplier(src, dst)
        BY <2>2 DEF Envelope
      <3> QED BY <2>1, <3>1
    <2> HIDE DEF a
    <2>5. \A e \in queue' : e.kind = "arrival" => e.time = due(msgs'[e.id])
      BY <1>1, <1>2, <2>1, <2>2, <2>3, <2>4
    <2>6. ASSUME NEW e \in queue', NEW f \in queue', e.kind = "arrival", f.kind = "arrival",
                 e.id < f.id
          PROVE  e.seq < f.seq
      <3>1. e \in queue
        <4>1. \A k \in L : k < n BY <1>0
        <4>2. f.id = n \/ f.id \in L BY <1>2, <2>1, <2>3, <2>6
        <4>3. e.id # n BY <1>0, <2>6, <4>1, <4>2
        <4> QED BY <2>1, <2>3, <4>3
      <3>2. CASE f \in queue
        BY <1>1, <2>6, <3>1, <3>2
      <3>3. CASE f = a
        BY <1>0, <2>3, <3>1, <3>3
      <3> QED BY <2>1, <3>2, <3>3
    <2> QED BY <2>2, <2>5, <2>6 DEF FifoInv
  <1>6. ASSUME UNCHANGED msgs, now <= now', now' \in Nat,
               \A e \in queue' : e.kind = "arrival" => e \in queue
        PROVE  FifoInv'
    <2>1. LinkFifo' BY <1>0, <1>1, <1>6 DEF LinkFifo
    <2>2. \A k \in L : msgs[k].sent <= now' BY <1>0, <1>1, <1>6
    <2> QED BY <1>1, <1>6, <2>1, <2>2 DEF FifoInv
  <1>7. ASSUME NEW e \in queue, Pop(e), Arrived(e)
        PROVE  FifoInv'
    <2>1. /\ queue' = queue \ {e} /\ now' = e.time /\ now <= e.time
          /\ \A f \in queue : e.time < f.time \/ (e.time = f.time /\ e.seq <= f.seq)
      BY <1>0, <1>7 DEF Pop, IsNext
    <2>2. /\ e.kind = "arrival" /\ e.id \in L
          /\ \E fate \in Fates \ {"in_flight"} : msgs' = [msgs EXCEPT ![e.id].fate = fate]
      BY <1>2, <1>7 DEF Arrived
    <2>3. PICK fate : fate # "in_flight" /\ msgs' = [msgs EXCEPT ![e.id].fate = fate] BY <2>2
    <2>4. /\ Len(msgs') = Len(msgs)
          /\ \A k \in L :
               /\ msgs'[k].fate = IF k = e.id THEN fate ELSE msgs[k].fate
               /\ msgs'[k].sent = msgs[k].sent /\ msgs'[k].factor = msgs[k].factor
               /\ msgs'[k].src = msgs[k].src /\ msgs'[k].dst = msgs[k].dst
      BY <1>0, <2>2, <2>3, FateEffect
    <2>5. \A k \in L : msgs'[k].sent <= now' BY <1>0, <1>1, <2>1, <2>4
    <2>6. \A j, k \in L : j < k => msgs'[j].sent <= msgs'[k].sent BY <1>1, <2>4
    <2>7. \A f \in queue' : f.kind = "arrival" => f.time = due(msgs'[f.id])
      BY <1>1, <1>2, <2>1, <2>4
    <2>8. LinkFifo'
      <3> SUFFICES ASSUME NEW j \in L, NEW k \in L,
                          j < k, msgs'[j].src = msgs'[k].src, msgs'[j].dst = msgs'[k].dst,
                          msgs'[j].factor <= msgs'[k].factor, msgs'[k].fate = "delivered",
                          msgs'[j].fate = "in_flight"
                   PROVE  FALSE
        BY <2>4 DEF LinkFifo
      <3>1. /\ msgs[j].src = msgs[k].src /\ msgs[j].dst = msgs[k].dst
            /\ msgs[j].factor <= msgs[k].factor
        BY <2>4
      <3>2. j # e.id /\ msgs[j].fate = "in_flight" BY <2>3, <2>4
      <3>3. CASE k # e.id
        <4>1. msgs[k].fate = "delivered" BY <2>4, <3>3
        <4> QED BY <1>0, <1>1, <3>1, <3>2, <4>1 DEF LinkFifo
      <3>4. CASE k = e.id
        <4>1. PICK f \in queue : f.kind = "arrival" /\ f.id = j BY <1>2, <3>2
        <4>2. f.seq < e.seq BY <1>1, <2>2, <3>4, <4>1
        <4>3. f.time = due(msgs[j]) /\ e.time = due(msgs[k]) BY <1>1, <2>2, <3>4, <4>1
        <4>4. msgs[j].sent <= msgs[k].sent BY <1>1
        <4>5. /\ Max({MinDelay * msgs[j].factor, 1}) \in Nat
              /\ Max({MinDelay * msgs[k].factor, 1}) \in Nat
              /\ Max({MinDelay * msgs[j].factor, 1}) <= Max({MinDelay * msgs[k].factor, 1})
          BY <1>0, <3>1, DueMonotone
        <4>6. f.time <= e.time BY <1>0, <4>3, <4>4, <4>5
        <4>7. f.time \in Nat /\ e.time \in Nat /\ f.seq \in Nat /\ e.seq \in Nat BY <1>0
        <4> QED BY <2>1, <4>1, <4>2, <4>6, <4>7
      <3> QED BY <3>3, <3>4
    <2>9. \A d, f \in queue' : (d.kind = "arrival" /\ f.kind = "arrival" /\ d.id < f.id)
                                 => d.seq < f.seq
      BY <1>1, <2>1
    <2> QED BY <2>4, <2>5, <2>6, <2>7, <2>8, <2>9 DEF FifoInv
  <1>8. ASSUME NEW e \in queue, Pop(e), UNCHANGED msgs
        PROVE  FifoInv'
    <2>1. queue' = queue \ {e} /\ now' = e.time BY <1>8 DEF Pop
    <2> QED BY <1>0, <1>6, <1>8, <2>1
  <1>9. ASSUME NEW e, Queued(e), UNCHANGED <<now, msgs>>
        PROVE  FifoInv'
    <2>1. queue' = queue \cup {e} /\ e.kind # "arrival" BY <1>9 DEF Queued
    <2> QED BY <1>0, <1>6, <1>9, <2>1
  <1>10. CASE UNCHANGED <<now, queue, msgs>>
    BY <1>0, <1>6, <1>10
  <1> QED BY <1>4, <1>5, <1>7, <1>8, <1>9, <1>10 DEF StepForm

-----------------------------------------------------------------------------
KernelInv == TypeOK /\ QueueInv /\ StampInv /\ ArrivalInv /\ FifoInv

LEMMA KernelInductive == Spec => []KernelInv
  <1>1. Init => QueueInv /\ StampInv /\ ArrivalInv /\ FifoInv
    BY FS_EmptySet DEF Init, QueueInv, StampInv, ArrivalInv, FifoInv, LinkFifo
  <1>2. TypeOK /\ QueueInv /\ StampInv /\ ArrivalInv /\ FifoInv /\ [Next]_vars
          => QueueInv' /\ StampInv' /\ ArrivalInv' /\ FifoInv'
    BY StepForms, StepQueue, StepStamp, StepArrival, StepFifo
  <1>3. TypeOK /\ TypeOK' /\ (QueueInv /\ StampInv /\ ArrivalInv /\ FifoInv) /\ [Next]_vars
          => (QueueInv /\ StampInv /\ ArrivalInv /\ FifoInv)'
    BY <1>2
  <1>4. TypeOK /\ (QueueInv /\ StampInv /\ ArrivalInv /\ FifoInv) <=> KernelInv
    BY DEF KernelInv
  <1> QED BY <1>1, <1>3, <1>4, KernelTypeCorrectness, PTL DEF Spec

\* Every message the kernel took is in flight, with exactly one arrival queued,
\* or has met one fate (kernel.rs, send and dispatch_message_arrival).
THEOREM KernelMessageLedger == Spec => []MessageLedger
  <1>1. KernelInv => MessageLedger BY LedgerOfArrivals DEF KernelInv
  <1> QED BY <1>1, KernelInductive, PTL

\* The state keeps its types, the records of the trace have each a (time, seq)
\* of their own, and a FIFO link delivers in order (trace.rs, scheduler.rs).
THEOREM KernelEventsInOrder == Spec => []EventsInOrder
  <1>1. KernelInv => LinkFifo BY DEF KernelInv, FifoInv, LinkFifo
  <1>2. KernelInv => TypeOK /\ StampsUnique BY DEF KernelInv, StampInv, StampsUnique
  <1>3. KernelInv => EventsInOrder BY <1>1, <1>2 DEF EventsInOrder
  <1> QED BY <1>3, KernelInductive, PTL

\* Events are dispatched in strictly increasing (time, seq), whatever callbacks
\* and scenarios queue for the running tick (queue.rs; kernel.rs, run_until).
THEOREM KernelDispatchInOrder == Spec => DispatchInOrder
  <1>1. KernelInv /\ [Next]_vars
          => [popped' # popped => \/ popped[1] < popped'[1]
                                  \/ popped[1] = popped'[1] /\ popped[2] < popped'[2]]_vars
    <2> SUFFICES ASSUME KernelInv, [Next]_vars, popped' # popped
                 PROVE  \/ popped[1] < popped'[1]
                        \/ popped[1] = popped'[1] /\ popped[2] < popped'[2]
      OBVIOUS
    <2>1. PICK e \in queue : Pop(e) BY StepForms DEF KernelInv, StepForm
    <2>2. popped' = <<e.time, e.seq>> BY <2>1 DEF Pop
    <2>3. Earlier(popped, <<e.time, e.seq>>) BY DEF KernelInv, QueueInv
    <2> QED BY <2>2, <2>3 DEF Earlier
  <1> QED BY <1>1, KernelInductive, PTL DEF Spec, DispatchInOrder
=============================================================================
