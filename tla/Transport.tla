----------------------------- MODULE Transport ------------------------------
(***************************************************************************)
(* One directed link between two replicas (crates/net/src/transport.rs):   *)
(* the dialer task that drains the driver's bounded queue into one         *)
(* connection after another, the reader task the acceptor spawns for each  *)
(* connection, and the fault injector the dialer asks before every frame   *)
(* (nemesis.rs).  Messages are numbered in the order the driver sends      *)
(* them.  DNS, the peer's process and the network are the environment; TLS *)
(* is part of the greeting.                                                *)
(***************************************************************************)
EXTENDS Integers, Sequences, FiniteSets, FiniteSetsExt, SequencesExt

CONSTANTS
    SelfId, PeerId, \* the two ends
    Splits,         \* the pairs of groups the test harness may partition
    Capacity,       \* OUTBOUND_QUEUE_CAPACITY
    MaxShift,       \* RESOLVE_BACKOFF_MAX_SHIFT
    MaxMsgs,        \* bound on messages sent
    MaxConns,       \* bound on connections that exist at a time
    MaxFaults,      \* bound on changes of the environment and the injector
    MaxFailures,    \* bound on the counter of resolution failures
    DeadWrites      \* frames a broken connection takes before a write fails

\* What the constants must satisfy.
LinkConstantsOK ==
    /\ SelfId # PeerId
    /\ Capacity \in Nat \ {0} /\ MaxShift \in Nat /\ MaxMsgs \in Nat
    /\ MaxConns \in Nat \ {0} /\ MaxFaults \in Nat /\ MaxFailures \in Nat /\ DeadWrites \in Nat
ASSUME LinkAssumption == LinkConstantsOK

VARIABLES
    pc,         \* where the dialer is
    failures,   \* ResolveBackoff::consecutive_failures
    pause,      \* what the dialer sleeps: 0 not at all, k: RECONNECT_DELAY << (k - 1)
    rx,         \* the queue from the driver
    hand,       \* the message taken from rx and not yet written, 0: none
    conn,       \* the dialer's connection, 0: none
    wire,       \* wire[c]: frames written on c and not yet read
    alive,      \* alive[c]: the network still carries c
    taken,      \* taken[c]: frames written on c since it broke
    reader,     \* reader[c]: the acceptor's task for c
    open,       \* the driver still holds the sending half of the queue
    sent,       \* messages the driver has sent
    received,   \* what the peer's readers have passed on, with the connection
    lost,       \* lost[w]: messages lost, by where
    partition, dropProb, resetProb, latency,    \* Nemesis::inner
    counters,   \* Nemesis::counters
    resolves,   \* the peer's name resolves
    peerUp,     \* the peer accepts connections
    faults

dialVars == <<pc, failures, pause, rx, hand, conn>>
netVars  == <<wire, alive, taken, reader>>
nemVars  == <<partition, dropProb, resetProb, latency>>
envVars  == <<resolves, peerUp, faults>>
linkVars == <<dialVars, netVars, open, sent, received, lost, nemVars, counters, envVars>>

Msgs   == 1..MaxMsgs
Hello  == 0                       \* the frame that is not a message
Conns  == 1..MaxConns
Chances == {"never", "maybe", "always"}
Counters == {"partition_drops", "prob_drops", "resets", "delays_applied"}
Places == {"full", "nemesis", "write", "network"}
NoPartition == <<{}, {}>>

LinkTypeOK ==
    /\ pc \in {"resolve", "backoff", "connect", "greet", "recv", "delay", "sleep", "ended"}
    /\ failures \in 0..MaxFailures /\ pause \in 0..(MaxShift + 1)
    /\ rx \in Seq(Msgs) /\ Len(rx) <= Capacity
    /\ hand \in {0} \cup Msgs /\ conn \in {0} \cup Conns
    /\ wire \in [Conns -> Seq({Hello} \cup Msgs)]
    /\ alive \in [Conns -> BOOLEAN] /\ taken \in [Conns -> 0..DeadWrites]
    /\ reader \in [Conns -> {"none", "hello", "open"}]
    /\ open \in BOOLEAN /\ sent \in 0..MaxMsgs
    /\ received \in Seq([msg : Msgs, conn : Conns])
    /\ lost \in [Places -> SUBSET Msgs]
    /\ partition \in Splits \cup {NoPartition}
    /\ dropProb \in Chances /\ resetProb \in Chances /\ latency \in BOOLEAN
    /\ counters \in [Counters -> Nat]
    /\ resolves \in BOOLEAN /\ peerUp \in BOOLEAN /\ faults \in 0..MaxFaults

LinkInit ==
    /\ pc = "resolve" /\ failures = 0 /\ pause = 0 /\ rx = <<>> /\ hand = 0 /\ conn = 0
    /\ wire = [c \in Conns |-> <<>>] /\ alive = [c \in Conns |-> FALSE]
    /\ taken = [c \in Conns |-> 0] /\ reader = [c \in Conns |-> "none"]
    /\ open = TRUE /\ sent = 0 /\ received = <<>>
    /\ lost = [w \in Places |-> {}]
    /\ partition = NoPartition /\ dropProb = "never" /\ resetProb = "never"
    /\ latency = FALSE
    /\ counters = [k \in Counters |-> 0]
    /\ resolves \in BOOLEAN /\ peerUp \in BOOLEAN /\ faults = 0

-----------------------------------------------------------------------------
QueueHasRoom == Len(rx) < Capacity

\* The driver's side: a bounded queue that drops what does not fit, until the
\* replica shuts down.
Send ==
    /\ open /\ sent < MaxMsgs
    /\ sent' = sent + 1
    /\ IF QueueHasRoom
       THEN rx' = Append(rx, sent + 1) /\ lost' = lost
       ELSE rx' = rx /\ lost' = [lost EXCEPT !["full"] = @ \cup {sent + 1}]
    /\ UNCHANGED <<pc, failures, pause, hand, conn, netVars, open, received, nemVars, counters, envVars>>

Shutdown ==
    /\ open /\ open' = FALSE
    /\ UNCHANGED <<dialVars, netVars, sent, received, lost, nemVars, counters, envVars>>

-----------------------------------------------------------------------------
\* ResolveBackoff::delay; every other retry waits RECONNECT_DELAY.
Delay == Min({failures, MaxShift}) + 1

\* The dialer.  `Dialer` frames what its steps leave alone.
Dialer(from, to) ==
    /\ pc = from /\ pc' = to
    /\ pause' = CASE to = "backoff" -> Delay [] to = "sleep" -> 1 [] OTHER -> 0
    /\ UNCHANGED <<open, sent, received, nemVars, envVars>>

Resolve ==
    /\ resolves
    /\ Dialer("resolve", "connect")
    /\ failures' = 0
    /\ UNCHANGED <<rx, hand, conn, netVars, lost, counters>>

ResolveFails ==
    /\ ~resolves
    /\ Dialer("resolve", "backoff")
    /\ UNCHANGED <<failures, rx, hand, conn, netVars, lost, counters>>

SleepAndEscalate ==
    /\ Dialer("backoff", "resolve")
    /\ failures' = Min({failures + 1, MaxFailures})
    /\ UNCHANGED <<rx, hand, conn, netVars, lost, counters>>

Free(c) == reader[c] = "none" /\ wire[c] = <<>> /\ c # conn

\* TcpStream::connect; the acceptor spawns the connection's reader.
Connect ==
    /\ peerUp
    /\ Dialer("connect", "greet")
    /\ \E c \in Conns :
        /\ Free(c)
        /\ conn' = c
        /\ alive' = [alive EXCEPT ![c] = TRUE] /\ taken' = [taken EXCEPT ![c] = 0]
        /\ reader' = [reader EXCEPT ![c] = "hello"]
    /\ UNCHANGED <<failures, rx, hand, wire, lost, counters>>

ConnectFails ==
    /\ ~peerUp
    /\ Dialer("connect", "sleep")
    /\ UNCHANGED <<failures, rx, hand, conn, netVars, lost, counters>>

\* A write on a connection: it reaches the wire, or the connection is broken
\* and the write is taken by the socket's buffer or fails.
Written(c, f) ==
    /\ alive[c]
    /\ wire' = [wire EXCEPT ![c] = Append(@, f)]
    /\ UNCHANGED taken

Swallowed(c) ==
    /\ ~alive[c] /\ taken[c] < DeadWrites
    /\ taken' = [taken EXCEPT ![c] = @ + 1]
    /\ UNCHANGED wire

\* The TLS handshake and the Hello frame.
Greet ==
    /\ Dialer("greet", "recv")
    /\ Written(conn, Hello) \/ Swallowed(conn)
    /\ UNCHANGED <<failures, rx, hand, conn, alive, reader, lost, counters>>

GreetFails ==
    /\ Dialer("greet", "sleep")
    /\ ~alive[conn]
    /\ conn' = 0
    /\ UNCHANGED <<failures, rx, hand, netVars, lost, counters>>

\* Nemesis::is_partitioned and Nemesis::decide: partition, then reset, then drop.
Partitioned ==
    \/ SelfId \in partition[1] /\ PeerId \in partition[2]
    \/ SelfId \in partition[2] /\ PeerId \in partition[1]

Decide ==
    IF Partitioned THEN {<<"drop", "partition_drops">>}
    ELSE (IF resetProb = "never" THEN {} ELSE {<<"reset", "resets">>})
         \cup (IF resetProb = "always" \/ dropProb = "never" THEN {} ELSE {<<"drop", "prob_drops">>})
         \cup (IF "always" \in {resetProb, dropProb} THEN {} ELSE {<<"send", "none">>})

Count(k) == IF k \in Counters THEN [counters EXCEPT ![k] = @ + 1] ELSE counters

\* Mutant: the message stays at the head of the queue.
Kept == rx

Rest == Tail(rx)

\* rx.recv, and the injector's verdict on what it gave.
TakeAndSend ==
    /\ rx # <<>> /\ <<"send", "none">> \in Decide
    /\ Dialer("recv", "delay")
    /\ rx' = Rest /\ hand' = Head(rx)
    /\ counters' = IF latency THEN Count("delays_applied") ELSE counters
    /\ UNCHANGED <<failures, conn, netVars, lost>>

TakeAndLose(verdict, next) ==
    /\ rx # <<>>
    /\ Dialer("recv", next)
    /\ \E d \in Decide : d[1] = verdict /\ counters' = Count(d[2])
    /\ rx' = Rest
    /\ lost' = [lost EXCEPT !["nemesis"] = @ \cup {Head(rx)}]
    /\ conn' = IF next = "recv" THEN conn ELSE 0
    /\ UNCHANGED <<failures, hand, netVars>>

\* The sleep of Nemesis::delay is over: framed.send.
Write ==
    /\ Dialer("delay", "recv")
    /\ \/ Written(conn, hand) /\ lost' = lost
       \/ Swallowed(conn) /\ lost' = [lost EXCEPT !["network"] = @ \cup {hand}]
    /\ hand' = 0
    /\ UNCHANGED <<failures, rx, conn, alive, reader, counters>>

\* Mutant: a failed write ends the task.
WriteFailsForGood ==
    /\ Dialer("delay", "ended")
    /\ ~alive[conn]
    /\ lost' = [lost EXCEPT !["write"] = @ \cup {hand}]
    /\ hand' = 0 /\ conn' = 0
    /\ UNCHANGED <<failures, rx, netVars, counters>>

WriteFails ==
    /\ Dialer("delay", "sleep")
    /\ ~alive[conn]
    /\ lost' = [lost EXCEPT !["write"] = @ \cup {hand}]
    /\ hand' = 0 /\ conn' = 0
    /\ UNCHANGED <<failures, rx, netVars, counters>>

\* RECONNECT_DELAY has passed.
Retry ==
    /\ Dialer("sleep", "resolve")
    /\ UNCHANGED <<failures, rx, hand, conn, netVars, lost, counters>>

\* The queue is closed and empty: the task ends and its connection closes.
End ==
    /\ ~open /\ rx = <<>>
    /\ Dialer("recv", "ended")
    /\ conn' = 0
    /\ UNCHANGED <<failures, rx, hand, netVars, lost, counters>>

DialerStep ==
    \/ Resolve \/ ResolveFails \/ SleepAndEscalate \/ Connect \/ ConnectFails
    \/ Greet \/ GreetFails \/ TakeAndSend \/ TakeAndLose("drop", "recv")
    \/ TakeAndLose("reset", "sleep") \/ Write \/ WriteFails \/ Retry \/ End

-----------------------------------------------------------------------------
\* The acceptor's reader of connection c: the first frame must be Hello, the
\* others are passed to the peer's inbox.
Reader(c) ==
    /\ reader[c] # "none" /\ wire[c] # <<>>
    /\ wire' = [wire EXCEPT ![c] = Tail(@)]
    /\ UNCHANGED <<dialVars, alive, taken, open, sent, lost, nemVars, counters, envVars>>

ReadHello(c) ==
    /\ Reader(c) /\ reader[c] = "hello" /\ Head(wire[c]) = Hello
    /\ reader' = [reader EXCEPT ![c] = "open"]
    /\ UNCHANGED received

ReadApp(c) ==
    /\ Reader(c) /\ reader[c] = "open"
    /\ received' = Append(received, [msg |-> Head(wire[c]), conn |-> c])
    /\ UNCHANGED reader

\* The reader sees the end of a connection that the dialer has left or the
\* network has cut, once it has read what arrived.
ReadEnd(c) ==
    /\ reader[c] # "none" /\ wire[c] = <<>> /\ (c # conn \/ ~alive[c])
    /\ reader' = [reader EXCEPT ![c] = "none"]
    /\ UNCHANGED <<dialVars, wire, alive, taken, open, sent, received, lost, nemVars, counters, envVars>>

ReaderTask(c) == ReadHello(c) \/ ReadApp(c) \/ ReadEnd(c)

-----------------------------------------------------------------------------
\* The environment.
Fault ==
    /\ faults < MaxFaults /\ faults' = faults + 1
    /\ UNCHANGED <<dialVars, taken, open, sent, received, counters>>

App(s) == Range(s) \ {Hello}

\* A connection breaks, and some of what was on its way does not arrive.
Cut(c) ==
    /\ Fault /\ alive[c] /\ reader[c] # "none"
    /\ alive' = [alive EXCEPT ![c] = FALSE]
    /\ \E k \in 0..Len(wire[c]) :
        /\ wire' = [wire EXCEPT ![c] = SubSeq(@, 1, k)]
        /\ lost' = [lost EXCEPT !["network"] = @ \cup App(SubSeq(wire[c], k + 1, Len(wire[c])))]
    /\ UNCHANGED <<reader, nemVars, resolves, peerUp>>

\* The peer's process ends, with its readers and their sockets.
PeerDown ==
    /\ Fault /\ peerUp /\ peerUp' = FALSE
    /\ alive' = [c \in Conns |-> FALSE]
    /\ wire' = [c \in Conns |-> <<>>]
    /\ reader' = [c \in Conns |-> "none"]
    /\ lost' = [lost EXCEPT !["network"] = @ \cup UNION {App(wire[c]) : c \in Conns}]
    /\ UNCHANGED <<nemVars, resolves>>

PeerStarts ==
    /\ Fault /\ ~peerUp /\ peerUp' = TRUE
    /\ UNCHANGED <<wire, alive, reader, lost, nemVars, resolves>>

NameChanges ==
    /\ Fault /\ resolves' = ~resolves
    /\ UNCHANGED <<wire, alive, reader, lost, nemVars, peerUp>>

\* Nemesis::partition, isolate and heal; set_drop_prob, set_reset_prob and
\* set_latency, called by a test or by run_plan.
Harness == Fault /\ UNCHANGED <<wire, alive, reader, lost, resolves, peerUp>>

Partition(s)    == Harness /\ partition' = s /\ UNCHANGED <<dropProb, resetProb, latency>>
Heal            == Harness /\ partition' = NoPartition /\ UNCHANGED <<dropProb, resetProb, latency>>
SetDropProb(x)  == Harness /\ dropProb' = x /\ UNCHANGED <<partition, resetProb, latency>>
SetResetProb(x) == Harness /\ resetProb' = x /\ UNCHANGED <<partition, dropProb, latency>>
SetLatency(x)   == Harness /\ latency' = x /\ UNCHANGED <<partition, dropProb, resetProb>>

LinkNext ==
    \/ Send \/ Shutdown \/ DialerStep
    \/ \E c \in Conns : ReaderTask(c) \/ Cut(c)
    \/ PeerDown \/ PeerStarts \/ NameChanges
    \/ \E s \in Splits : Partition(s)
    \/ Heal
    \/ \E x \in Chances : SetDropProb(x) \/ SetResetProb(x)
    \/ \E x \in BOOLEAN : SetLatency(x)

LinkSpec == LinkInit /\ [][LinkNext]_linkVars

\* The dialer's and the readers' tasks run.
LinkFairness ==
    /\ WF_linkVars(DialerStep)
    /\ \A c \in Conns : WF_linkVars(ReaderTask(c))

LinkFairSpec == LinkSpec /\ LinkFairness

-----------------------------------------------------------------------------
InHand == IF hand = 0 THEN {} ELSE {hand}
OnWire == UNION {App(wire[c]) : c \in Conns}
Passed == {received[k].msg : k \in 1..Len(received)}
Lost   == UNION {lost[w] : w \in Places}

Stages   == {Range(rx), InHand, OnWire, Passed, Lost}

\* Every message the driver sent is in one place: the queue, the dialer's
\* hand, one connection, the peer's inbox once, or lost; the injector's
\* counters are the messages it lost (transport.rs, spawn_peer_dialer;
\* nemesis.rs, FaultStats: "faults this nemesis has actually applied").
Ledger ==
    /\ UNION Stages = 1..sent
    /\ Cardinality(Range(rx)) + Cardinality(InHand) + Cardinality(OnWire)
         + Len(received) + Cardinality(Lost) = sent
    /\ Cardinality(lost["nemesis"])
         = counters["partition_drops"] + counters["prob_drops"] + counters["resets"]

\* Messages that travel on one connection reach the peer's inbox in the order
\* they were sent; across a reconnect they need not (handle_peer_connection).
ConnectionFifo ==
    \A i, j \in 1..Len(received) :
        i < j /\ received[i].conn = received[j].conn => received[i].msg < received[j].msg

\* The link recovers by itself: once the name resolves, the peer accepts and
\* the injector and the network leave it alone, a broken connection costs at
\* most DeadWrites + 1 messages, and what is queued behind them is delivered,
\* also when the replica is shutting down (spawn_peer_dialer: "retrying
\* forever", "nothing already queued in rx is lost across a reconnect").
Calm ==
    /\ resolves /\ peerUp /\ faults = MaxFaults
    /\ ~Partitioned /\ dropProb = "never" /\ resetProb = "never"

LinkRecovers ==
    \A m \in (DeadWrites + 2)..MaxMsgs :
        [](Calm /\ ((m - DeadWrites - 1)..m) \subseteq Range(rx) => <>(m \in Passed))

\* The delay grows only over resolution failures in a row, up to its cap; a
\* later outage starts from the shortest one (ResolveBackoff).
BackoffOnlyWhileFailing ==
    /\ pause <= MaxShift + 1
    /\ pause > 1 => pc = "backoff"
    /\ failures > 0 => pc \in {"resolve", "backoff"}

\* Every message of a link is in one place, the injector's counters being the
\* messages it lost; a connection delivers in order; and the dialer waits long
\* only while the name fails to resolve (transport.rs, nemesis.rs).
LinkIsAccounted == LinkTypeOK /\ Ledger /\ ConnectionFifo /\ BackoffOnlyWhileFailing

\* Refuted (see the README). What nemesis.rs says of a partition: two groups "cannot exchange peer
\* frames"; a frame is judged "immediately before it would be written".
NothingCrossesPartition ==
    [][Partitioned => OnWire' \subseteq OnWire]_linkVars
=============================================================================
