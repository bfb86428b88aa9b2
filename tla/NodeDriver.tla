----------------------------- MODULE NodeDriver -----------------------------
(***************************************************************************)
(* The event loop of one real replica (crates/net/src/driver.rs), its      *)
(* buffered sends (ctx.rs) and its snapshot file (persist.rs): events are  *)
(* taken from the inbox in batches, the batch's durable state is written   *)
(* once, and only then do replies and client outcomes leave.  The state of *)
(* the replica is a version number that grows when Durable changes.  The   *)
(* peers, the clients, the dialers of the peers and the file system under  *)
(* the snapshot (a page cache that survives a kill and not a power loss)   *)
(* are the environment.                                                    *)
(***************************************************************************)
EXTENDS Integers, Sequences, FiniteSetsExt

CONSTANTS
    Peers,          \* the other replicas
    Healthy,        \* the peers whose dialer keeps delivering
    Self,           \* this replica
    ClientOps,      \* the operations clients submit
    NoOp,           \* no operation, for the events that carry none
    BatchLimit,     \* GROUP_COMMIT_BATCH_LIMIT
    QueueCapacity,  \* transport::OUTBOUND_QUEUE_CAPACITY
    MaxVersion,     \* bound on changes of Durable
    MaxTick,        \* bound on the logical clock
    MaxInbox,       \* bound on the events in the node
    MaxCrashes      \* bound on kills, disk errors and power losses

\* What the constants must satisfy.
ConstantsOK ==
    /\ Healthy \subseteq Peers /\ Self \notin Peers /\ NoOp \notin ClientOps
    /\ BatchLimit \in Nat \ {0} /\ QueueCapacity \in Nat \ {0}
    /\ MaxVersion \in Nat /\ MaxTick \in Nat /\ MaxInbox \in Nat /\ MaxCrashes \in Nat

ASSUME DriverAssumption == ConstantsOK

VARIABLES
    phase,      \* where the loop is, "off" when there is no process
    inbox,      \* inbox_rx
    mem,        \* version of node.durable_snapshot()
    now,        \* RealCtx::now_ticks
    out,        \* RealCtx::pending_outbound
    batch,      \* the batch: its length and whether it may have mutated
    pending,    \* operations with a client waiting
    done,       \* operations whose OpRecord has an outcome
    queue,      \* queue[p]: the bounded channel to p's dialer
    file,       \* the snapshot a process that boots now would load
    stable,     \* the snapshot a power loss is sure to leave
    tmp,        \* the temporary file
    crashes,    \* crashes so far
    asked,      \* peers waiting for an answer to a request
    released,   \* newest version a reply or a client outcome depended on
    published   \* newest version a status or chain reader was shown

nodeVars == <<phase, inbox, mem, now, out, batch, pending, done, queue>>
diskVars == <<file, stable, tmp>>
vars     == <<nodeVars, diskVars, crashes, asked, released, published>>

Versions == 0..MaxVersion
Ticks    == 0..MaxTick
None     == [ver |-> 0, tick |-> 0, whole |-> TRUE, exists |-> FALSE, synced |-> TRUE]
Files    == [ver : Versions, tick : Ticks, whole : BOOLEAN, exists : BOOLEAN, synced : BOOLEAN]

Everyone  == Peers \cup {Self}
Event(kind, from, op) == [kind |-> kind, from |-> from, op |-> op]
Events    == [kind : {"request", "response", "timer"}, from : Everyone, op : {NoOp}]
               \cup [kind : {"submit"}, from : {Self}, op : ClientOps]
Sends     == [to : SUBSET Everyone, kind : {"request", "response"}, ver : Versions]
NoBatch   == [len |-> 0, mutated |-> FALSE]
Phases    == {"off", "wait", "drain", "write", "sync", "rename", "dirsync",
              "flush", "ack", "publish"}
DiskPhases == {"write", "sync", "rename", "dirsync"}

TypeOK ==
    /\ phase \in Phases
    /\ inbox \in Seq(Events) /\ out \in Seq(Sends)
    /\ mem \in Versions /\ now \in Ticks
    /\ batch \in [len : 0..BatchLimit, mutated : BOOLEAN]
    /\ pending \subseteq ClientOps /\ done \subseteq ClientOps
    /\ queue \in [Peers -> Seq(Sends)] /\ \A p \in Peers : Len(queue[p]) <= QueueCapacity
    /\ file \in Files /\ stable \in Files /\ tmp \in Files
    /\ crashes \in 0..MaxCrashes /\ asked \subseteq Peers
    /\ released \in Versions /\ published \in Versions

Init ==
    /\ phase = "off" /\ inbox = <<>> /\ out = <<>>
    /\ mem = 0 /\ now = 0 /\ batch = NoBatch
    /\ pending = {} /\ done = {}
    /\ queue = [p \in Peers |-> <<>>]
    /\ file = None /\ stable = None /\ tmp = None
    /\ crashes = 0 /\ asked = {} /\ released = 0 /\ published = 0

-----------------------------------------------------------------------------
\* What arrives, through channels into the unbounded inbox; MaxInbox bounds
\* all but the peers' requests, of which each peer has one at a time.

Up       == phase # "off"
HasRoom  == Up /\ Len(inbox) + Len(out) < MaxInbox
Enter(e) == inbox' = Append(inbox, e)

\* A peer's proposer sends a record request, or sends it again because no
\* answer came.  A request that finds no process is lost.
InNode(p) ==
    \/ \E k \in 1..Len(inbox) : inbox[k] = Event("request", p, NoOp)
    \/ \E k \in 1..Len(out) : out[k].kind = "response" /\ p \in out[k].to
    \/ \E k \in 1..Len(queue[p]) : queue[p][k].kind = "response"

Request(p) ==
    /\ Up /\ ~InNode(p)
    /\ asked' = asked \cup {p}
    /\ Enter(Event("request", p, NoOp))
    /\ UNCHANGED <<phase, mem, now, out, batch, pending, done, queue, diskVars,
                   crashes, released, published>>

\* A recorder answers this replica's proposer, or a timer of its own fires.
Deliver(kind, p) ==
    /\ HasRoom
    /\ Enter(Event(kind, p, NoOp))
    /\ UNCHANGED <<phase, mem, now, out, batch, pending, done, queue, diskVars,
                   crashes, asked, released, published>>

Submit(o) ==
    /\ HasRoom /\ o \notin pending \cup done
    /\ \A k \in 1..Len(inbox) : inbox[k].op # o
    /\ Enter(Event("submit", Self, o))
    /\ UNCHANGED <<phase, mem, now, out, batch, pending, done, queue, diskVars,
                   crashes, asked, released, published>>

-----------------------------------------------------------------------------
\* The loop.

Broadcast   == [to |-> Everyone, kind |-> "request", ver |-> 0]
MaybeProposes == {out, Append(out, Broadcast)}
MaybeMutates  == {v \in {mem, mem + 1} : v <= MaxVersion}

\* node.on_message of a request: the recorder may change, and answers.
OnRequest(e) ==
    \E v \in MaybeMutates :
        /\ mem' = v
        /\ out' = Append(out, [to |-> {e.from}, kind |-> "response", ver |-> v])
        /\ UNCHANGED <<pending, done>>

\* node.on_message of a response: nothing, a further step of the proposer, or
\* a decision, which changes Durable and may complete an operation.
OnResponse ==
    /\ out' \in MaybeProposes
    /\ \/ UNCHANGED <<mem, done>>
       \/ /\ mem < MaxVersion
          /\ mem' = mem + 1
          /\ \/ done' = done
             \/ \E o \in pending : done' = done \cup {o}
    /\ UNCHANGED pending

\* node.on_timer and node.submit touch no durable state.
OnTimer == out' \in MaybeProposes /\ UNCHANGED <<mem, pending, done>>
OnSubmit(e) ==
    /\ pending' = pending \cup {e.op}
    /\ out' \in MaybeProposes
    /\ UNCHANGED <<mem, done>>

\* may_mutate_durable
MayMutate(e) == e.kind \in {"request", "response"}

\* An event is dispatched at its own tick: the one that woke the loop, and
\* those a try_recv still finds.
ApplyEvent ==
    /\ phase \in {"wait", "drain"} /\ inbox # <<>> /\ batch.len < BatchLimit
    /\ LET e == Head(inbox)
       IN  /\ \/ e.kind = "request"  /\ OnRequest(e)
              \/ e.kind = "response" /\ OnResponse
              \/ e.kind = "timer"    /\ OnTimer
              \/ e.kind = "submit"   /\ OnSubmit(e)
           /\ batch' = [len |-> batch.len + 1, mutated |-> batch.mutated \/ MayMutate(e)]
    /\ now' \in {t \in {now, now + 1} : t <= MaxTick}
    /\ inbox' = Tail(inbox)
    /\ phase' = "drain"
    /\ UNCHANGED <<queue, diskVars, crashes, asked, released, published>>

EndBatch ==
    /\ phase = "drain" /\ (inbox = <<>> \/ batch.len = BatchLimit)
    /\ phase' = IF batch.mutated THEN "write" ELSE "flush"
    /\ UNCHANGED <<inbox, mem, now, out, batch, pending, done, queue, diskVars,
                   crashes, asked, released, published>>

\* write_bytes_blocking: write the temporary file, fsync it, rename it over
\* the snapshot, fsync the directory.
Encoded == [ver |-> mem, tick |-> now, whole |-> TRUE, exists |-> TRUE, synced |-> FALSE]

Disk(from, to) ==
    /\ phase = from /\ phase' = to
    /\ UNCHANGED <<inbox, mem, now, out, batch, pending, done, queue, crashes,
                   asked, released, published>>

\* Mutant: no directory fsync.
NoSyncDir == Disk("dirsync", "flush") /\ UNCHANGED diskVars

WriteTmp == Disk("write", "sync") /\ tmp' = Encoded /\ UNCHANGED <<file, stable>>
SyncTmp  == Disk("sync", "rename") /\ tmp' = [tmp EXCEPT !.synced = TRUE] /\ UNCHANGED <<file, stable>>
Rename   == Disk("rename", "dirsync") /\ file' = tmp /\ tmp' = None /\ UNCHANGED stable
SyncDir  == Disk("dirsync", "flush") /\ stable' = file /\ UNCHANGED <<file, tmp>>

\* flush_outbound, one buffered send at a time: a send to itself becomes an
\* event, the others are try_sent and lost when the dialer's queue is full.
Offer(q, s) == IF Len(q) < QueueCapacity THEN Append(q, s) ELSE q
Loopback(s) == IF Self \in s.to THEN Append(inbox, Event(s.kind, Self, NoOp)) ELSE inbox
Handed(s)   == [p \in Peers |-> IF p \in s.to THEN Offer(queue[p], s) ELSE queue[p]]

\* Mutant: the loop waits for room in the queue.
FlushWaiting ==
    /\ phase = "flush" /\ out # <<>>
    /\ \A p \in Peers \cap Head(out).to : Len(queue[p]) < QueueCapacity
    /\ inbox' = Loopback(Head(out))
    /\ queue' = Handed(Head(out))
    /\ released' = Max({released, Head(out).ver})
    /\ out' = Tail(out)
    /\ UNCHANGED <<phase, mem, now, batch, pending, done, diskVars, crashes,
                   asked, published>>

FlushOne ==
    /\ phase = "flush" /\ out # <<>>
    /\ inbox' = Loopback(Head(out))
    /\ queue' = Handed(Head(out))
    /\ released' = Max({released, Head(out).ver})
    /\ out' = Tail(out)
    /\ UNCHANGED <<phase, mem, now, batch, pending, done, diskVars, crashes,
                   asked, published>>

EndFlush ==
    /\ phase = "flush" /\ out = <<>> /\ phase' = "ack"
    /\ UNCHANGED <<inbox, mem, now, out, batch, pending, done, queue, diskVars,
                   crashes, asked, released, published>>

\* The clients of completed operations are answered ...
Ack ==
    /\ phase = "ack" /\ phase' = "publish"
    /\ pending' = pending \ done
    /\ released' = IF pending \cap done = {} THEN released ELSE Max({released, mem})
    /\ UNCHANGED <<inbox, mem, now, out, batch, done, queue, diskVars, crashes,
                   asked, published>>

\* ... and status, counters and chain checkpoints are published.
Publish ==
    /\ phase = "publish" /\ phase' = "wait"
    /\ published' = Max({published, mem})
    /\ batch' = NoBatch
    /\ UNCHANGED <<inbox, mem, now, out, pending, done, queue, diskVars, crashes,
                   asked, released>>

-----------------------------------------------------------------------------
\* A dialer hands the oldest message of its queue to the connection.
Dial(p) ==
    /\ queue[p] # <<>>
    /\ queue' = [queue EXCEPT ![p] = Tail(@)]
    /\ asked' = IF Head(queue[p]).kind = "response" THEN asked \ {p} ELSE asked
    /\ UNCHANGED <<phase, inbox, mem, now, out, batch, pending, done, diskVars,
                   crashes, released, published>>

\* The process is gone, with everything it kept in memory.
Down ==
    /\ crashes < MaxCrashes /\ crashes' = crashes + 1
    /\ phase' = "off" /\ inbox' = <<>> /\ out' = <<>> /\ batch' = NoBatch
    /\ pending' = {} /\ done' = {}
    /\ queue' = [p \in Peers |-> <<>>]
    /\ UNCHANGED <<mem, now, asked, released, published>>

\* A kill: the page cache keeps what was written and renamed.
Crash == Up /\ Down /\ UNCHANGED diskVars

\* A disk error in any step of the write: `persist` returns it, run_node ends.
\* A write that fails leaves a prefix in the temporary file.
DiskError ==
    /\ phase \in DiskPhases
    /\ Down
    /\ tmp' = IF phase = "write" THEN [Encoded EXCEPT !.whole = FALSE] ELSE tmp
    /\ UNCHANGED <<file, stable>>

\* A power loss: a rename without directory fsync may or may not have been
\* recorded, contents without fsync may be cut.
AfterPowerLoss ==
    {stable, file} \cup (IF file.synced THEN {} ELSE {[file EXCEPT !.whole = FALSE]})

PowerLoss ==
    /\ Down
    /\ \E s \in AfterPowerLoss : file' = s /\ stable' = s
    /\ tmp' = None

\* run_node up to the loop: a snapshot is loaded, and on_restart's probe goes
\* out without a write; without a snapshot the replica is a new one.  What was
\* loaded is published.  A snapshot that does not decode ends the process.
\* Mutant: the clock of a restarted replica starts at zero.
ZeroBaseline == 0

Baseline == file.tick

Boot ==
    /\ phase = "off" /\ file.whole
    /\ phase' = "wait"
    /\ mem' = file.ver /\ now' = Baseline
    /\ LET probe == file.exists
       IN  /\ queue' = IF probe THEN Handed(Broadcast) ELSE queue
           /\ inbox' = IF probe THEN Loopback(Broadcast) ELSE inbox
    /\ published' = Max({published, file.ver})
    /\ UNCHANGED <<out, batch, pending, done, diskVars, crashes, asked, released>>

Loop == \/ ApplyEvent \/ EndBatch \/ WriteTmp \/ SyncTmp \/ Rename \/ SyncDir
        \/ FlushOne \/ EndFlush \/ Ack \/ Publish

Next ==
    \/ Loop \/ Boot \/ Crash \/ DiskError \/ PowerLoss
    \/ \E p \in Peers : Request(p) \/ Dial(p) \/ Deliver("response", p)
    \/ Deliver("timer", Self)
    \/ \E o \in ClientOps : Submit(o)

Spec == Init /\ [][Next]_vars

\* The loop and the dialers of connected peers run; a stopped replica is
\* started again; a peer whose request is unanswered sends it again.
Fairness ==
    /\ WF_vars(Loop) /\ WF_vars(Boot)
    /\ \A p \in Healthy : WF_vars(Dial(p)) /\ WF_vars(p \in asked /\ Request(p))

FairSpec == Spec /\ Fairness

-----------------------------------------------------------------------------
\* Write before reply (driver.rs, released_ok; ctx.rs, flush_outbound): what a
\* reply or a client's outcome depended on is in every snapshot a kill, a disk
\* error or a power loss can leave, and that snapshot can be loaded.
AnsweredIsDurable ==
    \A s \in AfterPowerLoss \cup {file} : s.whole /\ s.ver >= released

\* Logical time (ctx.rs, baseline; persist.rs, max_tick): across restarts the
\* tick that goes with the durable state never goes back.
TickKept == stable'.tick >= stable.tick
DurableTickMonotone == [][TickKept]_vars

\* A peer that keeps its connection gets an answer, unless its own queue is
\* full, although another peer takes nothing from its full queue, however many
\* events keep coming, and also after a crash that took the request (ctx.rs,
\* flush_outbound; driver.rs, GROUP_COMMIT_BATCH_LIMIT).
HealthyPeersAnswered ==
    \A p \in Healthy : (p \in asked) ~> (p \notin asked \/ Len(queue[p]) = QueueCapacity)

\* Refuted (see the README).
\* What driver.rs says of the publication of chain checkpoints: an observer
\* never sees state "that a crash a microsecond later would erase".
PublishedIsDurable == \A s \in AfterPowerLoss \cup {file} : s.ver >= published
=============================================================================
