------------------------------- MODULE Kernel -------------------------------
(***************************************************************************)
(* The simulation kernel every simulated run of the system goes through    *)
(* (crates/sim/src/kernel.rs, queue.rs, network.rs, fault.rs, scheduler.rs *)
(* and the stamps of trace.rs): a clock, a queue of timers, arrivals and   *)
(* scripted faults popped by (time, seq), messages in flight, and a        *)
(* scheduler that delays or drops.  A callback of a node is the steps from *)
(* the dispatch that starts it to Return; what a node does in it is any    *)
(* sends and timers.  The PRNG is the choice among the decisions it could  *)
(* lead to.                                                                *)
(***************************************************************************)
EXTENDS Integers, Sequences, FiniteSets, FiniteSetsExt

CONSTANTS
    Nodes,         \* the ids messages are addressed to
    Registered,    \* those with a node behind them
    NoNode,        \* `None` of Option<NodeId>
    Schedulers,    \* the kinds of scheduler a run may be built with
    MinDelay, MaxDelay,
    DropPercent,   \* the adversary's drop_probability
    LeaderExtra,   \* leader_dos_extra_drop, in percent
    Minority,      \* minority_partition
    Blocked,       \* asymmetric_blocked, pairs <<from, to>>
    Tags,          \* the kinds of payload
    BlockedTags,   \* blocked_tags
    Splits,        \* the partitions <<group_a, group_b>> a scenario may install
    Multipliers,   \* the slow-node multipliers it may set
    Delays,        \* the delays nodes ask of their timers
    MaxMessages,   \* bound on messages
    MaxTimers,     \* bound on timers
    MaxFaults      \* bound on fault commands and leader changes

ASSUME DelayAssumption == MinDelay \in Nat \ {0} /\ MaxDelay \in Nat /\ MinDelay <= MaxDelay
ASSUME NodeAssumption  == Registered \subseteq Nodes /\ NoNode \notin Nodes
ASSUME LimitAssumption == MaxMessages \in Nat /\ MaxTimers \in Nat /\ MaxFaults \in Nat
ASSUME DomainAssumption == Multipliers \subseteq Nat /\ Delays \subseteq Nat

SchedulerKinds == {"fifo", "random", "oblivious", "aware"}

\* A run has one of the four schedulers; with_drop_probability caps what it is
\* given at 95 percent, with_leader_dos clamps it to 100.
ASSUME SchedulerAssumption ==
    /\ Schedulers \subseteq SchedulerKinds
    /\ DropPercent \in 0..95 /\ LeaderExtra \in 0..100

VARIABLES
    now,        \* KernelCore::now
    nextSeq,    \* next_seq
    queue,      \* EventQueue, as a set
    msgs,       \* every envelope ever sent, by MessageId, with what became of it
    inFlight,   \* the ids of in_flight
    crashed, partition, slow,    \* FaultState
    leader,     \* the leader hint of the adversaries
    scheduler,  \* the SchedulerKind, fixed for the run
    running,    \* the node whose callback is running, or NoNode
    timers,     \* timers scheduled so far
    faults,     \* fault commands so far
    stamps,     \* the (time, seq) of the records of the trace
    records,    \* how many records the trace has
    popped      \* the (time, seq) of the last event dispatched

coreVars  == <<now, nextSeq, queue, msgs, inFlight>>
faultVars == <<crashed, partition, slow, leader, scheduler>>
traceVars == <<stamps, records>>
vars      == <<coreVars, faultVars, running, timers, faults, traceVars, popped>>

Fates == {"in_flight", "delivered", "unclaimed", "crashed", "partitioned",
          "scheduler", "partitioned_at_arrival"}
NoSplit == <<{}, {}>>
Factors == Multipliers \cup {1}
Envelopes == [src : Nodes, dst : Nodes, sent : Nat, factor : Factors, fate : Fates]

Commands ==
    [cmd : {"crash", "restart", "clear_slow"}, node : Nodes]
    \cup [cmd : {"slow"}, node : Nodes, by : Multipliers]
    \cup [cmd : {"partition"}, split : Splits] \cup [cmd : {"heal"}]

Events ==
    [time : Nat, seq : Nat, kind : {"arrival"}, id : Nat]
    \cup [time : Nat, seq : Nat, kind : {"timer"}, node : Nodes]
    \cup [time : Nat, seq : Nat, kind : {"fault"}, command : Commands]

Init ==
    /\ now = 0 /\ nextSeq = 0 /\ queue = {} /\ msgs = <<>> /\ inFlight = {}
    /\ crashed = {} /\ partition = NoSplit /\ slow = [n \in Nodes |-> 1] /\ leader = NoNode
    /\ scheduler \in Schedulers
    /\ running = NoNode /\ timers = 0 /\ faults = 0
    /\ stamps = {} /\ records = 0 /\ popped = <<0, -1>>

-----------------------------------------------------------------------------
\* Trace::record of records with these stamps.
Record(S, n) == stamps' = stamps \cup S /\ records' = records + n

\* FaultState::is_partitioned, slow_multiplier.
IsPartitioned(a, b) ==
    \/ a \in partition[1] /\ b \in partition[2]
    \/ a \in partition[2] /\ b \in partition[1]
SlowMultiplier(a, b) == Max({slow[a], slow[b]})

\* Mutant: the sum with the extra for the leader is not capped.
UncappedDrop(src, dst) ==
    IF leader \in {src, dst} THEN Min({DropPercent + LeaderExtra, 100}) ELSE DropPercent

\* The probability, in percent, with which an adversary drops a message.
DropChance(src, dst) ==
    IF leader \in {src, dst} THEN Min({DropPercent + LeaderExtra, 95}) ELSE DropPercent

\* What SchedulerKind::decide may answer: a delay, or 0 for Decision::Drop.
Drop == 0
Delivery == MinDelay..MaxDelay
Gamble(p) == (IF p > 0 THEN {Drop} ELSE {}) \cup (IF p < 100 THEN Delivery ELSE {})

FifoDecision == {MinDelay}
ObliviousDecision(src, dst) ==
    IF <<src, dst>> \in Blocked \/ (src \in Minority) # (dst \in Minority)
    THEN {Drop} ELSE Gamble(DropChance(src, dst))
AwareDecision(tag) == IF tag \in BlockedTags THEN {Drop} ELSE Gamble(DropPercent)

Decide(src, dst, tag) ==
    CASE scheduler = "fifo"      -> FifoDecision
      [] scheduler = "random"    -> Delivery
      [] scheduler = "oblivious" -> ObliviousDecision(src, dst)
      [] scheduler = "aware"     -> AwareDecision(tag)

\* The factor is not in the envelope; it is what its delay was multiplied by.
Envelope(src, dst, fate) ==
    [src |-> src, dst |-> dst, sent |-> now, factor |-> SlowMultiplier(src, dst), fate |-> fate]

\* KernelCore::send: a record, then a drop for a crashed end or a partition,
\* then the scheduler's decision.
Send(src, dst, tag) ==
    /\ Len(msgs) < MaxMessages
    /\ LET id == Len(msgs) + 1
           stamp(k) == <<now, nextSeq + k>>
           enter(fate) == msgs' = Append(msgs, Envelope(src, dst, fate))
           dropped(fate) == /\ enter(fate) /\ nextSeq' = nextSeq + 2
                            /\ Record({stamp(0), stamp(1)}, 2)
                            /\ UNCHANGED <<queue, inFlight>>
       IN  \/ crashed \cap {src, dst} # {} /\ dropped("crashed")
           \/ crashed \cap {src, dst} = {} /\ IsPartitioned(src, dst) /\ dropped("partitioned")
           \/ /\ crashed \cap {src, dst} = {} /\ ~IsPartitioned(src, dst)
              /\ \E d \in Decide(src, dst, tag) :
                   \/ d = Drop /\ dropped("scheduler")
                   \/ /\ d # Drop
                      /\ queue' = queue \cup
                           {[time |-> now + Max({d * SlowMultiplier(src, dst), 1}),
                             seq |-> nextSeq + 1, kind |-> "arrival", id |-> id]}
                      /\ inFlight' = inFlight \cup {id}
                      /\ enter("in_flight") /\ nextSeq' = nextSeq + 2
                      /\ Record({stamp(0)}, 1)

\* Mutant: a timer of no delay fires in the tick that sets it.
FireAtOnce(after) == now + after

FireAt(after) == now + Max({after, 1})

\* KernelCore::schedule_timer
ScheduleTimer(n, after) ==
    /\ timers < MaxTimers /\ timers' = timers + 1
    /\ queue' = queue \cup {[time |-> FireAt(after), seq |-> nextSeq, kind |-> "timer", node |-> n]}
    /\ nextSeq' = nextSeq + 1
    /\ Record({<<now, nextSeq>>}, 1)
    /\ UNCHANGED <<msgs, inFlight>>

-----------------------------------------------------------------------------
\* A callback: sends and timers, then it returns.
NodeSends ==
    /\ running # NoNode
    /\ \E dst \in Nodes, tag \in Tags : Send(running, dst, tag)
    /\ UNCHANGED <<now, faultVars, running, timers, faults, popped>>

NodeSchedules ==
    /\ running # NoNode
    /\ \E after \in Delays : ScheduleTimer(running, after)
    /\ UNCHANGED <<now, faultVars, running, faults, popped>>

Return ==
    /\ running # NoNode /\ running' = NoNode
    /\ UNCHANGED <<coreVars, faultVars, timers, faults, traceVars, popped>>

\* A node is called, if one is registered.
Call(n) == running' = IF n \in Registered THEN n ELSE NoNode

-----------------------------------------------------------------------------
\* apply_fault_command: the state, a record, and on_restart of a restarted node.
Apply(c, t) ==
    /\ CASE c.cmd = "crash" -> crashed' = crashed \cup {c.node} /\ UNCHANGED <<partition, slow>>
         [] c.cmd = "restart" -> crashed' = crashed \ {c.node} /\ UNCHANGED <<partition, slow>>
         [] c.cmd = "partition" -> partition' = c.split /\ UNCHANGED <<crashed, slow>>
         [] c.cmd = "heal" -> partition' = NoSplit /\ UNCHANGED <<crashed, slow>>
         [] c.cmd = "slow" -> slow' = [slow EXCEPT ![c.node] = c.by] /\ UNCHANGED <<crashed, partition>>
         [] c.cmd = "clear_slow" -> slow' = [slow EXCEPT ![c.node] = 1] /\ UNCHANGED <<crashed, partition>>
    /\ IF c.cmd = "restart" THEN Call(c.node) ELSE running' = NoNode
    /\ Record({<<t, nextSeq>>}, 1)
    /\ nextSeq' = nextSeq + 1

NotInThePast(at) == at >= now

\* The harness, between runs: inject_message, inject_timer, set_leader, a
\* fault applied now, a fault scripted for later.
Inject ==
    /\ running = NoNode
    /\ \E src \in Nodes, dst \in Nodes, tag \in Tags : Send(src, dst, tag)
    /\ UNCHANGED <<now, faultVars, running, timers, faults, popped>>

InjectTimer ==
    /\ running = NoNode
    /\ \E n \in Nodes, after \in Delays : ScheduleTimer(n, after)
    /\ UNCHANGED <<now, faultVars, running, faults, popped>>

SetLeader ==
    /\ running = NoNode /\ faults < MaxFaults /\ faults' = faults + 1
    /\ \E l \in Nodes \cup {NoNode} : leader' = l
    /\ Record({<<now, nextSeq>>}, 1) /\ nextSeq' = nextSeq + 1
    /\ UNCHANGED <<now, queue, msgs, inFlight, crashed, partition, slow, scheduler, running, timers, popped>>

ApplyNow ==
    /\ running = NoNode /\ faults < MaxFaults /\ faults' = faults + 1
    /\ \E c \in Commands : Apply(c, now)
    /\ UNCHANGED <<now, queue, msgs, inFlight, leader, scheduler, timers, popped>>

ScheduleFault ==
    /\ running = NoNode /\ faults < MaxFaults /\ faults' = faults + 1
    /\ \E c \in Commands, at \in {now - 1, now, now + 1} :
         /\ at >= 0 /\ NotInThePast(at)
         /\ queue' = queue \cup {[time |-> at, seq |-> nextSeq, kind |-> "fault", command |-> c]}
    /\ nextSeq' = nextSeq + 1
    /\ UNCHANGED <<now, msgs, inFlight, faultVars, running, timers, traceVars, popped>>

-----------------------------------------------------------------------------
\* EventQueue::pop: least time, then least seq.
IsNext(e) == \A f \in queue : e.time < f.time \/ (e.time = f.time /\ e.seq <= f.seq)

\* One turn of run_until's loop.
Pop(e) ==
    /\ running = NoNode /\ e \in queue /\ IsNext(e)
    /\ queue' = queue \ {e}
    /\ now' = e.time
    /\ popped' = <<e.time, e.seq>>

\* dispatch_timer
DispatchTimer ==
    \E e \in queue :
        /\ e.kind = "timer" /\ Pop(e)
        /\ IF e.node \in crashed \/ e.node \in Registered
           THEN Record({<<e.time, e.seq>>}, 1) ELSE UNCHANGED traceVars
        /\ IF e.node \in crashed THEN running' = NoNode ELSE Call(e.node)
        /\ UNCHANGED <<nextSeq, msgs, inFlight, faultVars, timers, faults>>

\* Mutant: a message cut off at arrival stays in flight.
LeavesFlightIfClaimed(id, fate) ==
    inFlight' = IF fate \in {"delivered", "unclaimed"} THEN inFlight \ {id} ELSE inFlight

LeavesFlight(id, fate) == inFlight' = inFlight \ {id}

\* dispatch_message_arrival: the destination must be up and reachable now; the
\* sender may have crashed since.
DispatchArrival ==
    \E e \in queue :
        /\ e.kind = "arrival" /\ Pop(e) /\ e.id \in inFlight
        /\ LET m == msgs[e.id]
               fate == IF m.dst \in crashed THEN "crashed"
                       ELSE IF IsPartitioned(m.src, m.dst) THEN "partitioned_at_arrival"
                       ELSE IF m.dst \in Registered THEN "delivered" ELSE "unclaimed"
           IN  /\ msgs' = [msgs EXCEPT ![e.id].fate = fate]
               /\ LeavesFlight(e.id, fate)
               /\ IF fate = "delivered" THEN Call(m.dst) ELSE running' = NoNode
               /\ IF fate = "unclaimed" THEN UNCHANGED traceVars
                  ELSE Record({<<e.time, e.seq>>}, 1)
        /\ UNCHANGED <<nextSeq, faultVars, timers, faults>>

DispatchFault ==
    \E e \in queue :
        /\ e.kind = "fault" /\ Pop(e)
        /\ Apply(e.command, e.time)
        /\ UNCHANGED <<msgs, inFlight, leader, scheduler, timers, faults>>

Next ==
    \/ NodeSends \/ NodeSchedules \/ Return
    \/ Inject \/ InjectTimer \/ SetLeader \/ ApplyNow \/ ScheduleFault
    \/ DispatchTimer \/ DispatchArrival \/ DispatchFault

Spec == Init /\ [][Next]_vars

-----------------------------------------------------------------------------
TypeOK ==
    /\ now \in Nat /\ nextSeq \in Nat /\ queue \subseteq Events
    /\ msgs \in Seq(Envelopes) /\ inFlight \subseteq 1..Len(msgs)
    /\ crashed \subseteq Nodes /\ partition \in Splits \cup {NoSplit}
    /\ slow \in [Nodes -> Factors]
    /\ leader \in Nodes \cup {NoNode} /\ scheduler \in SchedulerKinds
    /\ running \in Registered \cup {NoNode}
    /\ timers \in Nat /\ faults \in Nat
    /\ stamps \subseteq Nat \X Nat /\ records \in Nat
    /\ popped \in Nat \X (Nat \cup {-1})

\* Every message is in flight or has met one fate, and the messages in flight
\* are those with exactly one arrival still queued (kernel.rs keeps the two in
\* step by hand: send, dispatch_message_arrival).
MessageLedger ==
    /\ inFlight = {k \in 1..Len(msgs) : msgs[k].fate = "in_flight"}
    /\ \A k \in 1..Len(msgs) :
         Cardinality({e \in queue : e.kind = "arrival" /\ e.id = k})
           = IF k \in inFlight THEN 1 ELSE 0

\* The stamps of the trace (trace.rs: "even same-LogicalTime events have a
\* total, deterministic order"): no two records have the same time and seq,
\* although a timer and a delivery reuse the number drawn when they were queued.
StampsUnique == Cardinality(stamps) = records

\* Events are dispatched in strictly increasing (time, seq), also when a
\* callback or the harness queues something for the running tick (queue.rs, kernel.rs
\* run_until, schedule_fault).
DispatchInOrder ==
    [][popped' # popped =>
         \/ popped[1] < popped'[1]
         \/ popped[1] = popped'[1] /\ popped[2] < popped'[2]]_vars

\* scheduler.rs, Fifo: the messages of a link are delivered
\* in the order they were sent in, unless the link was made faster in between.
LinkFifo ==
    scheduler = "fifo" => \A j, k \in 1..Len(msgs) :
        (j < k /\ msgs[j].src = msgs[k].src /\ msgs[j].dst = msgs[k].dst
           /\ msgs[j].factor <= msgs[k].factor
           /\ msgs[k].fate = "delivered") => msgs[j].fate # "in_flight"

\* Refuted (see the README). The same without the exception: "genuinely FIFO".
GenuinelyFifo ==
    scheduler = "fifo" => \A j, k \in 1..Len(msgs) :
        (j < k /\ msgs[j].src = msgs[k].src /\ msgs[j].dst = msgs[k].dst
           /\ msgs[k].fate = "delivered") => msgs[j].fate # "in_flight"

\* The kernel's state is well typed, no two records of the trace have one
\* stamp, and a FIFO link delivers in order (kernel.rs, trace.rs, scheduler.rs).
EventsInOrder == TypeOK /\ StampsUnique /\ LinkFifo

\* The adversaries "respect eventual delivery": whoever leads, a link that is
\* not cut can deliver (scheduler.rs, the caps of the drop probability).
NeverWedged ==
    \A src, dst \in Nodes \ Minority, tag \in Tags :
        \/ scheduler = "oblivious" /\ <<src, dst>> \in Blocked
        \/ scheduler = "aware" /\ tag \in BlockedTags
        \/ Decide(src, dst, tag) \cap Delivery # {}
=============================================================================
