# queso in TLA+

A verification project for queso, an implementation of QuePaxa (leaderless,
randomised consensus with a one-round-trip fast path) and of a replicated
key-value log on top of it. Paths below are relative to `src/`.

## 1. The system

| Part | Code | State | Operations | Talks to |
|---|---|---|---|---|
| Register and recorder | `consensus/src/{isr,recorder}.rs` | `(S, F_c, A_c, A_p)` per slot | `record`, `summary`, `handle` | answers proposers |
| Proposer | `consensus/src/{proposer,rpc}.rs` | step, template, replies, sent, hedge bookkeeping, decision | `start`, `on_response`, `on_timer` (kickoff, hedge, retry) | requests to all recorders; reads the local recorder's step |
| Slot driver | `consensus/src/concrete.rs` | replicas, live set | `run_slot`, `advance`, `crash`, `partition`, `heal` | injects `KICKOFF_TIMER` |
| Threshold broadcast | `consensus/src/{tcast,node,message}.rs` | mailboxes, pending pairs | `tcast` | the simulation kernel |
| Algorithm 1 | `consensus/src/algorithm.rs` | candidates, decisions, rounds | `run_round`, `run_slot`, `crash`, `restart`, `partition` | three `tcast` calls a round |
| Log replica | `smr/src/replica.rs` | durable: recorders, `next_slot`, log, kv; volatile: queue, attempt, watchdog | `submit`, attempts, catch-up, watchdog, `on_restart` | one proposer at a time at `next_slot` |
| Store and commands | `smr/src/{kv,command}.rs` | map, `last_seq` per client | `apply` | applied in slot order |
| Cluster driver | `smr/src/cluster.rs` | results, live set | `submit`, `crash`, `restart`, `run_for` | kernel |
| Epoch tuner | `smr/src/tuning.rs` | per-epoch leader, observations | `note_attempt_start`, `note_slot_decided`, `leader_for_slot` | shared by all replicas |
| Linearizability checker | `smr/src/linearizability.rs` | none | `is_linearizable` | histories of the driver |
| Simulation kernel | `sim/src/*` | clock, queue, faults, trace | `run_until`, `crash`, `restart`, `schedule_fault`, ... | nodes through `Ctx` |
| Node driver | `net/src/{driver,ctx}.rs` | snapshot, event batch, waiters | boot, batch, persist, flush, answer | persistence, transport, clients |
| Persistence | `net/src/persist.rs` | snapshot file | `save` (write, fsync, rename, fsync dir), `load` | disk |
| Transport | `net/src/{transport,wire}.rs` | bounded queue per peer | dial, send, accept | TCP |
| Client | `net/src/client.rs` | attempt and backoff | `submit` with retries | client port |
| Status, chain, admin | `net/src/{status,chain,admin}.rs`, `chain/src` | latches, `(n, h)` checkpoints | publish, fold, summarise | HTTP |
| Fault injectors | `net/src/nemesis.rs`, `soak/src/proxy.rs` | partitions, link faults | decide, cut, heal | transport |
| Conformance and soak | `conformance/src`, `soak/src` | samples, schedules, verdicts | observe, reconcile, adjudicate | `/chain`, data directories |
| Comparison, Antithesis | `compare/src`, `antithesis/src` | measurements | run | external |

What is hard here: proposers of several replicas interleave on shared
recorders and act on replies that describe the past; the network loses,
repeats and reorders; replies are matched to requests by `(slot, req_step)`
only; timers cannot be cancelled, so every handler must recognise stale ones;
replicas crash with a conversation in flight and come back with their durable
half; a hedged proposer must wait for others and yet never wait for ever. The
list of hazards, line by line, is in `PROJECT.json`.

The properties that make each part correct, in the numbering of
`docs/02-properties.md`: the slot P1 to P3 (agreement, validity, decided once)
and P13 to P17 (termination, whatever the timeouts and the leader do); the log
P5 to P7; the store P8, P8a; the log with its clients P8 to P10; restarts P12.
The tuner must give a slot one leader for ever; persistence and the node driver
must keep write-before-reply; the transport must lose only what it accounts for
and recover; a client's acknowledged put must hold; the simulation kernel must
neither lose nor repeat events; the observers must never report a divergence of
replicas that only lag, and miss none; the soak harness must heal exactly what
it broke, and its audit must not demand what its cadence of sampling cannot deliver.

## 2. The modules

| Module | Models | EXTENDS / INSTANCE |
|---|---|---|
| `Proposal` | proposals, their order, best-of, the fast-path test | |
| `Isr` | the register and `record` | `Proposal` |
| `QuePaxa` | one slot: proposers, recorders, network | `Isr`; refines `Consensus` |
| `QuePaxaInv` | the inductive invariant of the slot | `QuePaxa` |
| `QuePaxaRestart` | a slot whose proposer is replaced in mid-attempt | `QuePaxa` |
| `QuePaxaColdBoot` | a slot whose leader dies before its first save | `QuePaxa` |
| `AlgorithmOne` | Algorithm 1 over `tcast`, with its inductive invariant | `Proposal`; refines `Consensus` |
| `Consensus` | what a slot promises: one decision, proposed, everyone's | |
| `Kv` | commands, the store, and the reference they are checked against | |
| `Smr` | the log: replicas, clients, catch-up, watchdog, crash, restart | `Kv`; takes the slots to be `Consensus` |
| `Tuner` | epochs, their leaders, and the replicas that consult them | |
| `LinCheck` | the history checker, its time stamps, and a reference definition | `Kv` |
| `Kernel` | the simulation kernel, its queue, faults, schedulers and trace stamps | |
| `NodeDriver` | the node's loop, its disk, its clients and peer queues | |
| `Status` | the status server: readiness, recovery time, permits | |
| `Transport` | one directed link: queue, dialer, connections, readers, nemesis | |
| `Client` | the load generator, its sessions, retries over replicas | `Kv` |
| `Chain` | the hook that folds and publishes a replica's chain | |
| `Observer` | the conformance observer as operators on its state | |
| `Conformance` | a run: workload, replicas, polls, observer | `Chain`, `Observer` |
| `Soak` | schedule, reconciliation, audit, detached submissions | |
| `Proxy` | one proxied link: cuts, heals, kills, connections | |
| `Postmortem` | a failing run's evidence and its adjudication | `Observer` |
| `MC*` | the small instances; see section 3 | |
| `*Proofs` | theorems; section 5 | the module each is named for; `LogProofs`: `Smr`, `Tuner`, `Client`; `NetProofs`: `NodeDriver`, `Transport`, `Status`, `Proxy`; `SoakProofs`: `Postmortem` too |

**The slot.** `isr[r]` is recorder `r`'s `Isr`; `step`, `proposal`, `decided`,
`replies`, `sent`, `activated` and `lastSeen` are the `Proposer`'s fields.
`OnRequest` is `ReplicaNode::on_message(Request)`. `on_response` is split by
its outcome: while fewer than a quorum have answered it only collects, which is
`replies`; with the quorum it is one of `FastDecide`, `Propose`, `Spread`,
`SlowDecide`, `GatherE`, `GatherC` (`process_phase`) and `CatchUp` (the other
branch of `process_quorum`). `on_timer` is `Start` / `StartHedged` (kickoff),
`HedgeDefer` / `HedgeActivate`, and `Retry`. The network is the set `reqs` of
all requests ever sent, any of which may be handled at any time, repeatedly or
never. Priorities are `1..H`; `Draws` says which vectors a proposer may draw,
and the proofs leave it open. An `expect` that fails puts the replica into
`panicked`.

**Algorithm 1.** A round is `BeginRound`, then three `tcast` calls; a call is a
number of `Batch` steps, each delivering any subset of what it carries, until
every live replica holds what the call promises, and then one of `GatherP`,
`GatherE`, `GatherC`. Replicas crash between rounds, as the driver does it.

**The log.** `log` and `kv` are durable, `queue` and `attempt` volatile,
`kickoffs` and `watchdogs` are timers in the kernel, which outlive a crash that
ends before they are due. `Learn` is the `on_message(Response)` that makes the
attempt's proposer decide, with the whole of `finish_attempt` and the attempt it
starts next. What a slot decides is open until the first replica learns it and
fixed from then on (`chosen`); it is one of the commands proposed there, those
of crashed replicas included. Clients keep A6: one operation at a time, one
number per operation, retries at any replica, and giving up.

**The tuner.** The variables are `EpochTuner`'s; of an epoch's samples only their
sum and number matter, and these are kept. `BeginTunedAttempt`,
`FinishAttempt` and `RestartReplica` are the replicas' calls
(`begin_next_attempt`, `finish_attempt`, `begin_catch_up`), at frontiers that lie
epochs apart; `Absorb` and `CloseEpoch` are one step, as under the lock. `ledBy`
remembers the leaders proposers were built with.

**The history checker.** `Submit`, `TakeEffect` and `Complete` make histories
with the clock of the driver, which stands still between events; `Search` is the
checker's recursion (the memo changes no answer), compared with a definition by
permutations that knows what really preceded what.

**The kernel.** `Dispatch` pops the least `(time, seq)`, a callback sends and
sets timers before the next event, and the harness schedules faults between
events. A scheduler is the set of decisions it may take.

**The node.** `NodeDriver` has an action for every point at which the process
can die: handling a batch, writing, `fsync`, rename, directory `fsync`, flushing
one message, answering one client. A snapshot is a version number, whole or cut;
`stable` is what a power loss is sure to leave and `AfterPowerLoss` what it may
leave. `Status` interleaves the driver's stores with its readers one field at a
time, and the accept loop's permits with slow and silent connections.

**The network.** `Transport` follows `dial_loop` from resolving to writing; the
queue, the frame in hand, the frames on each connection and what the readers
passed on are separate places, so that a message is in exactly one. `Client`
follows an operation from admission through attempts at rotating addresses; an
attempt that timed out stays in its replica (`submitted`) and may be decided at
any time. `reliable` are the addresses that neither crash nor time out in a
behaviour; they are chosen at its start and may be none.

**Chains.** `FoldOne` and `EndFold` are the steps of a pass between which
`GET /chain` may read. A hash is the sequence it was computed from. An answer is
the sequence of states a replica holds, the positions of those it reports and the
cursor it leaves; `ShownAnswer` shows them to the observer in order, `ShownAnswers`
the answers of a poll one after the other. What is promised of the
observer is promised of the replicas that keep their log (`Steady`): section 4 says
what a log that was rewritten does to the samples.

**The soak.** `Draw` places the schedule's windows, `Turn` is one turn of the
driver's loop with its whole `reconcile`, and the audit recomputes what should
have been injected. The next sample is a step away and up to `Jitter` more, since a
turn sleeps for a step and then spends time on reconciling and polling; `spread`
remembers the longest time between two samples. `Expected` has the step as its
parameter, as `injections_expected` has. `Proxy` has an action for each await of the pump;
`Postmortem` composes a run of appliers, saves, publications and kills with the
verdict on what is left on disk.

## 3. The runs

Components that do not interact are checked side by side in one run: the MC
module declares the variables of all of them and one more (`part` or `kind`)
that a behaviour fixes at the start. A behaviour is one of one part, the
variables of the others rest, and a property of a part is checked in that part.
The state space is the sum of the parts', not their product. `MCNet` extends
`NodeDriver`, `Transport`, `Status` and `Client`, `MCNetLive` extends `Transport`
and `Status`, `MCConformance` extends `Conformance` and `MCSoak` extends `Soak` and `Postmortem`, so
that the runs check the very definitions the theorems are about; the cfg gives
those parts their constants and the MC module gives them to the others, as to the
second and third kind of clients.

| Run | Instance | Shows |
|---|---|---|
| `slot_safety` | leader 0 on the fast path, hedged backup 1, tied and untied draws, steps 4 to 6 | agreement; one proposal per step; the slot implements `Consensus`; the inductive invariant |
| `slot_live` | no leader; proposer 0 stops anywhere in its first round and takes recorder 0 along, backup 1 hedged | the backup decides; a decision pins all later requests |
| `rounds` | 3 replicas, 2 rounds, tied draws, lossy batches, crashes | the crux assertion, a decision outlives its deciders, `Consensus` |
| `log_safety` | the log with 2 replicas, two puts each submitted up to twice and given up at will; the same with a crash; the tuner with epochs of two slots, lag and a restart; the tuner with fast and slow slots through exploration to monitoring, one replica of three without clients; histories of 4 operations, arbitrary and atomic | every put once; linearizable; one leader per slot, from an open epoch; the fastest leads; the checker is exact |
| `log_live` | 3 replicas, one crash and restart, a put and a get | no lost wakeup; what a replica took on is completed |
| `kernel` | 2 nodes under the adversaries and the random scheduler with drops, a cut, a partition and a slow node; FIFO with two messages, a timer, and a crash or a slow node | order and unique stamps; every message accounted for; no link wedged for ever |
| `net_safety` | driver with two kills, disk errors or power losses; status through a restart; a link with two connections and two faults; clients in a closed loop, an open loop, and with one replica that stays | write before reply; logical time never back; readiness and recovery time; the link's ledger; acknowledged puts hold; no operation fails while a replica answers |
| `net_live` | the link, the driver, the open loop, the status server, and the soak's proxy through cuts and kills | links recover, healthy peers are answered, a load run ends, probes are served, every permit is accounted for, a cut lets one chunk through and tears connections down, healed links carry |
| `conformance` | two nodes of which one diverges, polled in mid-fold and through a restart; one node that loses its log while its ring of 1 overflows; three simulated replicas sampled at every second command, one divergent, one that may lose its log, one stopped | what is published is true; the observer's verdict is exact: no false alarm, no divergence missed, the stalled reported |
| `soak` | kills, latencies and gaps about as long as the time between two samples, which is one step to two; cuts, isolations and kills that overlap; four submissions around a cap of two; the postmortem of one fork, one torn sample, one kill | faults contained and healed; a complete run injected what the audit expects at the cadence the run had; submissions add up; the verdict is sound |
| `slot_restart` | replica 1 restarts once in mid-attempt | **violated** (finding 1) |
| `slot_cold_boot` | leader 0 is killed before its first save and boots cold | **violated** (finding 2) |

Why these bounds are enough to matter. Three recorders are the smallest set in
which two quorums share exactly one recorder; two proposers and draws that tie
at some recorders and not at others make every comparison of `Ord` decide
something somewhere; values and origins are ordered oppositely, so that a
comparison by the wrong field shows. Two rounds reach every phase after a
decision that somebody missed. `Delivered` bounds the clock: requests beyond it
are sent and lost. The log's runs have two operations in flight over two or
three replicas, which is what it takes for a command to be decided twice, after
its successor, or at a replica that died meanwhile. The
tuner's two instances reach the second epoch of monitoring, where the fallback
schedule has been used once, with three replicas, the fewest that have a second
and a third. The driver's have a kill before and after every step of a save and
of the next one. Two connections are what it takes for an old reader to overtake
a new one, two cuts for a connection to be cut between accept and subscription
and again while pumping. Two replicas that share a checkpoint are compared at it, and
two checkpoints make a ring of one overflow; the soak's steps, gaps and windows are of
nearly equal length, which is where sampling misses a transition. Every bound is
a named constant (`MaxKicks`, `Delivered`, `MaxRounds`, `MaxSubmits`,
`MaxCrashes`, `MaxFalls`, `MaxGeneration`, `MaxReissues`, `MaxSlot`, `MaxOps`,
`MaxTime`, `MaxDowns`, `MaxAcceptFailures`, `MaxMessages`, `MaxFaults`,
`MaxVersion`, `MaxLog`, `MaxConns`, `MaxShift`, `Duration`, ...), said to be a
bound where it is declared.

Deadlock is checked where a system cannot stop: in the runs of `QuePaxa` and its
variants a request can always be handled once more. The other runs switch the
check off, since their systems rest when the scripts, windows or counts of
events are used up.

Fairness. In `slot_live` the correct replicas' timers fire, a request that is
retried for ever arrives at a correct recorder (unbounded retries over a
fair-lossy network), and a proposer with a quorum of replies acts on it; the
other replica may stop at any step. The draws of that instance break ties, which
stands for the coin that P14's probability is about. In `log_live` timers of a
live replica fire and, while a majority is up, its proposer decides
(`Termination` of the slot); clients, crashes and restarts are under no
fairness.

In `net_live` the parts' own loops are weakly fair and their environment is not:
the driver's loop and its reboot, the dialers of healthy peers and their
requests; the dialer and the readers of a link, faults being bounded; the load
generator and its tasks, whose every wait has a timeout; the accept loop and the
connection handlers, whose reads have a timeout; and in the proxy the tasks the
runtime schedules. Peers, clients, kills, cuts and name resolution are under no
fairness, and properties that need them to calm down say so.

## 4. Findings, and claims the models refute

Two violations have standing runs:

1. **A restart in mid-attempt can break Agreement**
   (`crates/smr/src/replica.rs:1238`, and 1007 for the watchdog; run
   `slot_restart`). The probe's new proposer takes replies to the dead
   proposer's delayed step-5 requests as proof that a majority holds its own
   proposal. With three replicas: 0 decides the client's command at step 6, 1,
   restarted, decides its probe at step 10. The comment at 952 to 975 argues
   that such replies are harmless. An attempt number in requests and replies
   would close it: the theorems below prove the slot safe when no proposer is
   started twice.
2. **A leader that dies before its first save boots cold and may propose a
   second H** (`crates/net/src/driver.rs:446`; run `slot_cold_boot`). Its first
   requests leave with the batch of a client's submission, which persists
   nothing; without a snapshot the next boot is taken for a first one.

`Smr` takes the slots to be `Consensus`; findings 1 and 2 say when the code's
slots are not. What the log's runs show is therefore about the log's own logic.

The definitions marked "Refuted" state what a comment says and the model
contradicts. They are no run's property; each is refuted within seconds when it
is checked of its module with the constants given.

| Claim | Where | Counterexample, and an instance that shows it |
|---|---|---|
| a re-kick restarts "this proposer's attempt, not the protocol" (`crates/consensus/src/proposer.rs:712`) | `QuePaxa`, `Agreement` | `start` rewinds the step and keeps the template; late replies to the first step-5 request count for the second. `MCQuePaxa` with no leader, `Draws <- HighAtTwo`, `MaxKicks <- RekickBound`, `Delivered <- RekickLinks` |
| a catch-up that decides its own probe has reached "the true frontier" (`crates/smr/src/replica.rs:1088`) | `Smr`, `CatchUpEndsAtFrontier` | all replicas probe a slot with the same command. 2 replicas, `MaxCrashes = 2`. Reads stay linearizable, since they go through the log |
| a superseded watchdog "is stale" and ignored (`crates/smr/src/replica.rs:938`) | `Smr`, `StaleWatchdogIgnored` | the generation test compares two fields that are always written together. 2 replicas, one crash |
| an operation without a response can be ignored, "nothing was ever observed" of it (`crates/smr/src/linearizability.rs:62`) | `LinCheck`, `AtomicHistoriesAccepted` | a put that took effect before its replica crashed and was then read. One put and one get |
| a published checkpoint is never one "a crash a microsecond later would erase" (`crates/net/src/driver.rs:714`) | `NodeDriver`, `PublishedIsDurable` | a boot publishes a snapshot whose rename the directory does not hold yet. One kill |
| FIFO scheduling is "genuinely FIFO" (`crates/sim/src/scheduler.rs:142`) | `Kernel`, `GenuinelyFifo` | a message sent while a node is slow is overtaken by one sent after it. `Schedulers = {"fifo"}`, `Multipliers = {2}`, two faults |
| a partition drops "every frame" that crosses it (`crates/net/src/nemesis.rs:52`) | `Transport`, `NothingCrossesPartition` | the verdict is used after a sleep in which the partition begins. Three messages, three faults |
| "no two replicas may ever show a different h" unrecorded (`crates/conformance/src/observer.rs:10`) | `Conformance`, `ShownDivergenceIsRecorded` | the first witness of a height is not compared with itself. 2 replicas, `Source = "full"`, both forgetful and divergent `r1` |
| a sample "reflects the log as it actually is now" (`crates/conformance/src/source.rs:224`) | `Conformance`, `SamplesReflectTheLog` | a log rewritten to the same length is folded on from the old hash. The same with two commands |
| a scrape is "off by at most one batch" (`crates/net/src/status.rs:148`) | `Status`, `ScrapeOffByOneBatch` | two batches pass between two loads. One connection, two batches |
| an early exit "cannot fire" the audit "spuriously" (`crates/soak/src/soak.rs:307`) | `Soak`, `EarlyExitIsCovered` | two latency windows overlap and a divergence ends the run in the first. `Kinds = {"latency"}`, `Duration = 10` |
| the audit "demands only transitions the sampled injector can be relied on to deliver" (`crates/soak/src/soak.rs:664`) | `Soak`, `CleanRunIsCovered` | a turn of two steps passes over a gap of a step and a half between two kills of a node: one kill is delivered, two are expected. The comment concedes this at 716 ("Sampling jitter"). The constants of `SOAK.cfg` |
| a cut drops the existing connections (`crates/soak/src/proxy.rs:69`) | `Proxy`, `CutDropsAll` | a connection accepted before the cut subscribes after it. One connection, one cut |

## 5. Proofs

`QuePaxaProofs` proves, for every finite membership, every leader, hedging and
choice of draws and any loss, repetition and reordering:
`TypeCorrectness` and `RegistersMonotone` without further assumptions, and
under `SingleKick` (no proposer is started twice, which leaves out finding 1 and the
re-kick of section 4) `SlotAgreement`, `SlotDecisionLocks`, `SlotNoPanic`, `SlotRequests` and
`SlotImplementsConsensus`. The assumptions are those named in `Proposal` and
`QuePaxa` (a finite membership of naturals, values that are naturals and so
totally ordered, priorities drawn below `H`) and `SingleKick`.

The inductive invariant `IInv` (`QuePaxaInv`) is needed because agreement says
nothing about requests and registers, from which the decisions come. Its parts:

- `Lifecycle`, `RequestsInv`: a proposer begins once, its requests belong to
  steps it has reached, and those of its current step are what it holds. This
  is what a second start breaks, and why `SingleKick` is assumed.
- `RegistersInv`, `RepliesInv`: what a register or a reply holds of a step was
  sent in that step, and a reply stays true of its recorder while the recorder
  stays in the step.
- `AnswersRecorded`, `SpreadInv`: a recorder that answered a proposer in its own
  step has aggregated its template, so what is sent in phases 2 and 3 was
  recorded by a majority the phase before. Recording is stated so that it bounds
  all the recorder will say of that step later (`Recorded`).
- `GatheredInv`, `ChosenFirstInv`: a value sent after some round's phase 2 was
  the best that a majority, which has since left that phase, had aggregated
  there; a value sent after step 4 the best of a majority's first proposals.
- `DecidedInv`: a decided proposer still holds the quorum it decided on.

Agreement follows where the quorum of `DecidedInv` meets the quorum of
`GatheredInv` or `ChosenFirstInv`: they share a recorder, whose one register
answered both, so neither value can exceed the other. Each action has a step of
its own in the proof, with one below it for every part it can disturb.

`AlgorithmOneProofs` proves `AInv` inductive for any membership, number of
rounds and losses, and from it tcast's contract, `run_round`'s crux assertion,
that a decided value is everyone's candidate, and the refinement of
`Consensus`. `CallInv` says that every pair of live replicas has exchanged, is
still to exchange, or was given up by a receiver with a majority, and never so
if the sender is the source; `CommonInv` that the inputs of a third call are one
set contained in every `E`; `LockInv` that a decided value is everyone's
candidate and proposal; `OriginInv` is validity.

`LogProofs` proves, for any number of replicas, clients, operations, retries,
crashes and watchdog firings, over slots that are `Consensus`:
`LogTypeCorrectness`, which includes that an attempt targets its replica's
frontier; `NoLostWakeup`, inductive together with it; `LogReplay`; and
`LogLinearizable`.
`KvIsReplay` is not inductive: whether the next put takes effect depends on the
dedup table, of which it says nothing. `ReplayInv` adds that `last_seq` is the
highest number of the client's puts in the log, and that a key's value is that
of a last effective put which exists, so the step is one of `Apply` against one
more command of the reference (`DedupAgrees`, `ReplayStep`). The assumptions are
those named in `Kv` and `Smr`.

`Linearizable` needs `LinInv` next to it. `IssuedInv`: nothing is queued, proposed
or decided but probes and what a client has issued. `RecordTrue`: a completed
record names a slot that decided its operation, and a get's outcome is what the
log before the slot wrote last, which is where `ReplayInv` comes in.
`NothingLater`: up to an acknowledged operation's slot the log has no later put
of its client, so a repeated earlier one takes no effect after it. `IssuedAfter`:
an operation is decided, each time, after the slots of what was acknowledged when
it was issued; this is the real-time order.

About the tuner it proves `TunedLeadersArePinned`, for any number of replicas,
length of epochs, latencies, lag, crashes and restarts. `LeadersArePinned` says
nothing of how the samples came in; `TunerInv` does. `SamplesInOrder`: the slots
with a sample are those below `Counted`, the samples of the closed epochs and of
the open one, so a replica at its frontier is either behind them all or brings
the next sample of the open epoch. `FrontiersBehind`: no frontier is past that
slot. `LedAsConfigured`: who led a slot is who its epoch's configuration names,
and closing an epoch adds a configuration without touching an earlier one.

`TunerFastestLeads` is about whom it names. That an order of the replicas by
speed exists at all is shown by counting: each replica's place is the number of
those up to it in a total order, which are distinct and so all of `1..N`
(`OrderExists`). `TurnsInv`: while exploration lasts the leader is the epoch
modulo `N`, so everyone is measured after its first turn and twice after its
second, before anyone is ranked. `RankedInv`: from the first epoch of monitoring
on, the schedule behind the leader is by the last epochs; these change for the
leader alone, so that comparing it with the next in the schedule, as
`close_epoch` does, is comparing it with all.

About the clients it proves `SubmissionsAreSafe`, for any number of sessions,
replicas, rounds and operations, of either loop. `SubmissionsHold` is about the log
and the store; what holds it is in the sessions. `SessionsInv`: a session is in the
pool once or with one operation, whose number is the session's last. `NumbersInv`:
no two operations share a client and a number. `DecidedInv`: so the first copy in
the log of a put that is being retried finds only earlier numbers of its client
before it and takes effect, which the copies after it do not undo; the store is the
replay of the log, by the lemmas of `LogReplay`. `SubmittedInv`: an attempt hears of
one submission, and at a reliable replica it does hear of it, so it is left with an
answer. `RotationInv`: all attempts before the present one were at addresses that
may fail, and after the last one these would be all there are. The invariant was
checked first, on instances like the three of run `net_safety`, with gets, an address
that is reliable or not, and a replica that goes down in each.

`NetProofs` proves about the node's loop, for any peers, operations, batch
limits, queue capacities, crashes, disk errors and power losses, `DriverTypeCorrectness` (a
dialer's queue never exceeds its capacity), `DriverAnsweredIsDurable` and
`DriverTickMonotone`. `DriverInv` says what each phase of a save implies:
`DiskOK`, that the file and what a power loss falls back to are whole, synced and
no older than anything released; `MemoryOK`, where the temporary file stands;
`BatchOK`, that from the flush on nothing is unwritten, and that a batch that
takes the shortcut past the save has no reply that needed one.

It proves `LinkAccounted` about a link, for any queue, cap of the backoff, number
of messages, connections, faults and writes a broken connection swallows.
`StageInv`: the queue, the hand, the wire, the peer's inbox and what is lost are
disjoint, no two connections carry one message and the inbox has none twice, so
the sizes add up to what was sent. `OrderInv`: everything written was sent before
what is in hand, and that before what is queued; each connection carries its
frames, Hello first, in that order, and they are later than what it has
delivered. `DialerInv`: the hand is full exactly during the injector's sleep, and
a reader that has seen Hello sees no other. `CountInv` equates the counters with
what the injector lost; it needs that a queued message was not lost before. The
invariant was checked first, with four messages, three faults and two connections.

About the status server it proves `StatusRejoinIsReported` and `StatusPermits`, for
any number of connections, permits, failing accepts and batches of the driver.
`RecoveryInv`: the recovery time is set with the first rejoin, to its distance from
the boot, and nothing has been published before the first store. `ReadyInv`: in
every stage that readiness passes through, the replica's flag, the shared field and
what a handler has loaded, it is shown only once a catch-up of this boot has ended.
`BacklogInv`: a connection waits in the kernel once, so that accepting it adds one
live handler to the permits' account.

About the soak's proxy it proves `RelayCutStopsBytes`, for any number of
connections, cuts, heals and kills. `RelayInv`: while the link is cut, a direction
that has written its chunk is not past the check again, and the check lets no
other chunk by; a cut after a heal starts the count anew, whatever is then held.

`KernelProofs` proves, for any nodes, messages, timers, scenarios and any of the
four schedulers within their caps, `KernelTypeCorrectness`, `KernelNeverWedged`,
`KernelMessageLedger`, `KernelEventsInOrder` and `KernelDispatchInOrder`.
`QueueInv`: every queued event lies after the last one dispatched, which holds
because a timer or an arrival is at least one tick away and a scripted fault not
in the past. `StampInv`: the stamp an event will be recorded with is still free.
`ArrivalInv`: the messages in flight and the queued arrivals are the same ones.
`FifoInv`: under FIFO an arrival's time follows from when its message was sent
and the slowdown then. A step has one of few forms (`StepForms`), so each part is
shown for the forms and not for every action. Before it was proved, the invariant
was checked on the instance of run `kernel`.

`SoakProofs` proves, for any number of replicas, windows, latencies and sampling,
`SoakContainsFaults` and `SoakAccounts`. `ScheduleInv` says that at no time do the
windows drawn so far take out more nodes than the cluster tolerates. A window is
tested against all it overlaps, at whatever times, so those in force together
are within the bound (`Placeable`); a cut link takes out its receiving end, and
without the nodes taken out what remains is a majority none of whose links is
cut. `ClusterInv` says that the driver's view and the processes agree and that
what is in force is contained; `SubmissionInv` balances the counters.

About the postmortem it proves `PostmortemIsSound`, for any number of replicas,
length of log, forks, torn samples and kills. `DiskInv` says that what a replica
published begins what survives on its disk, which begins what it applied, until
the run is over, and that without a fork every log holds what the cluster
decided. `ClaimInv` says that the observer's witnesses and the two sides of each
divergence are reports of what the disk holds or were torn. The postmortem
compares a report with the disk as it is at the end, so a claim it contradicts
is a torn one, and a divergence whose sides it confirms is one of the logs
(`ComparedLogs`: two logs differ exactly when they differ where both have a
command, and the slot named is the first such place).

`ConformanceProofs` proves `PublishedChainIsTrue` and `ObserverIsExact` for any
replicas, spacing of checkpoints, ring, source and poll, divergent replicas and
ones that lose their log included. `FoldInv` says of a node that is up: its fold,
its stored frontier and all of its checkpoints are states of its own log, in
order, and, as long as none was evicted, every boundary it passed is there. A
hash is the sequence it was computed from, so that a state of the log stays one
as the log grows (`OfChain`).

`ObserverIsExact` says that the observer's verdict is exact of the replicas that
keep their log: no false alarm, no divergence missed, no stall unreported. A
verdict is about what the observer holds, and that is the result of all it was
shown, so the invariant relates the observer to the set of samples it was shown
(`Holds`): everything it keeps was once shown (`ComesFrom`), there is one witness
for each height, and every sample shown has been compared at its height and is
covered by its replica's view (`Accounted`). One sample preserves this
(`ObserveHolds`), hence an answer (`AnswerHolds`) and a poll of any replicas in
any order (`AnswersHold`); the recursions in `ShownAnswer` and `ShownAnswers` are
unfolded by taking the least length for which the claim would fail. What a
replica may answer is one contract (`Answers`), met by a node's `/chain`
(`ChainAnswers`) and by the simulated cluster (`LogAnswers`): it shows something
at every poll, states of its log as far as it has any, and its cursor passes over
no boundary. `RunInv` adds: samples of a replica that keeps its log are states of
its chain (`ShownInv`); the cursor was shown (`CursorInv`); every boundary up to
it was shown, unless the ring overflowed (`BoundaryInv`), which it cannot have
before the log is longer than `Ring` spacings (`RingInv`); and an idle replica can
show nothing above the height its view has had since it was first idle
(`IdleInv`). Before it was proved it was checked on instances of each kind in the run,
with rings of one and two, and with every command sampled.

The theorems of these modules assume no more than the named assumptions of the
modules they extend: that numbers are numbers, that minima do not exceed maxima,
and the caps the code applies (95 percent, 100 percent).

Only model-checked, and why:

- liveness (`Termination`, `OperationsComplete`, all of `net_live` but
  `PermitsAccounted` and `OneChunkAfterCut`): it needs fairness and `ENABLED`;
- `CheckerExact`: the checker is a recursive search, and what it computes for
  every history needs induction over data;
- of `AccountIsTrue` the half about the audit (`CompleteRunIsCovered`), which
  says that the audit at the cadence the run really had is satisfied: with turns
  of exactly a step this is the code's own audit, and a longer turn may make that
  one fail a clean run (section 4). It assumes that no two samples are further apart
  than the shortest fault (0.8 s against a step of 0.1 s in the code's defaults), since
  the audit takes the windows entered to be the first ones of the schedule. It
  compares counts accumulated turn by turn with sums over all links, nodes and
  instants of the schedule; the half about submissions is `SoakAccounts`.

`IsrMonotone`, `TcastContract`, `CandidateLock`, `NoPanic`, `DispatchInOrder`,
`SubmissionsAccounted` and the types of `NodeDriver` and `Kernel` are proved
without being a run's property of their own; they are implied by, or part of, one
that is, or were checked while the proofs were written.

## 6. Not modelled, and the plan

Left out of the modelled parts: backoff delays and clocks where nothing is
compared with them (a timer may fire at any time); the panic of `tcast` after
its retry limit; partition and restart under Algorithm 1; the metrics of the log
replica; request parsing, reports, rendering, file discovery, process spawning
and readiness polling of the status server, the conformance harness, the soak
and the postmortem; the 63-operation limit of the checker and its memo.

Not modelled at all, with the reason: the operator toolkit (a pure fold over
status documents, HTTP and text), TLS (configuration of a library), node
configuration and binaries (plain data and command lines), the comparison with
etcd (a benchmark over wall-clock time and an external service), the Antithesis
template (a driver whose checks are those of the conformance crate).

Worth proving next: `CompleteRunIsCovered`, resource by resource: that every
activation the audit counts contains a sampled turn, and that two of them are
further apart than the longest turn and so have a sample between them.
