------------------------------- MODULE Tuner --------------------------------
(***************************************************************************)
(* Auto-tuned leaders (crates/smr/src/tuning.rs): one tuner, shared by all *)
(* replicas, groups the slots of the log into epochs, lets every replica   *)
(* lead in turn while it measures them, and then keeps the fastest one.    *)
(* The replicas that consult it (LeaderPolicy::Tuned in replica.rs) are at *)
(* their own frontiers, some far behind, some restarted; what matters of a *)
(* proposer is the slot it is for and the leader it is built with.         *)
(***************************************************************************)
EXTENDS Integers, FiniteSets

CONSTANTS
    N,           \* replicas are 0..N-1, as NodeId
    EpochLen,    \* epoch_len
    BaseDelay,   \* base_delay
    Latencies,   \* the completion latencies a slot may show
    MaxSlot,     \* bound on the slots of the log
    MaxFalls,    \* bound on crashes
    NoLeader     \* `None` of Option<NodeId>

\* What the constants must satisfy.
TunerConstantsOK ==
    /\ N \in Nat \ {0} /\ EpochLen \in Nat \ {0}
    /\ Latencies \subseteq Nat /\ BaseDelay \in Nat
    /\ MaxSlot \in Nat /\ MaxFalls \in Nat
ASSUME TunerAssumption == TunerConstantsOK

VARIABLES
    epoch,         \* the epoch open for samples
    leader,        \* its leader
    schedule,      \* its hedging schedule, leader first
    stats,         \* stats[r]: sum and count of the averages of r's epochs
    recent,        \* recent[r]: average of r's last epoch as leader, or Unmeasured
    epochSamples,  \* sum and count of epoch_samples
    started,       \* the slots of slot_started
    recorded,      \* slot_recorded
    epochConfigs,  \* epoch_configs
    frontier,      \* frontier[r]: next_slot of replica r, durable
    building,      \* building[r]: the proposer r is driving, or Idle
    live,          \* the live replicas
    falls,         \* crashes so far
    ledBy          \* ledBy[s]: the leaders proposers for s were ever built with

tunerVars == <<epoch, leader, schedule, stats, recent, epochSamples, recorded,
               epochConfigs>>
tuningVars == <<tunerVars, started, frontier, building, live, falls, ledBy>>

Nodes         == 0..(N - 1)
Slots         == 0..MaxSlot
ExploreEpochs == 2 * N + 1
Unmeasured    == -1
Idle          == [slot |-> -1, leader |-> NoLeader, delay |-> 0]

Orders   == {s \in [1..N -> Nodes] : \A i, j \in 1..N : s[i] = s[j] => i = j}
Configs  == [leader : Nodes, schedule : Orders]
TunedAttempts == [slot : Slots, leader : Nodes \cup {NoLeader}, delay : Nat]

-----------------------------------------------------------------------------
\* The order of the replicas by a speed key, the slowest ones being those
\* without data, ties by NodeId.
Before(key, a, b) ==
    \/ key[b] = Unmeasured /\ key[a] # Unmeasured
    \/ key[a] # Unmeasured /\ key[b] # Unmeasured /\ key[a] < key[b]
    \/ key[a] = key[b] /\ a <= b

\* leader_first: the rest in NodeId order.
LeaderFirst(l) ==
    CHOOSE s \in Orders : s[1] = l /\ \A i, j \in 2..N : i < j => s[i] < s[j]

\* leader_first_by_speed: the rest by their most recent epoch.
LeaderFirstBySpeed(l, rec) ==
    CHOOSE s \in Orders : s[1] = l /\ \A i, j \in 2..N : i < j => Before(rec, s[i], s[j])

\* RunningAvg::add, and avg.
AddSample(st, x) == [sum |-> st.sum + x, count |-> st.count + 1]
NoSamples == [sum |-> 0, count |-> 0]
Average(st) == IF st.count = 0 THEN Unmeasured ELSE st.sum \div st.count

\* ranked_by_speed: everyone by lifetime average.
RankedBySpeed(sts) ==
    LET avg == [r \in Nodes |-> Average(sts[r])] IN
    CHOOSE s \in Orders : \A i, j \in 1..N : i < j => Before(avg, s[i], s[j])

\* is_exploring.
IsExploring == epoch < ExploreEpochs

EpochOf(slot) == slot \div EpochLen

\* config_for panics on an epoch that was never opened.
HasConfig(slot) == EpochOf(slot) \in DOMAIN epochConfigs

LeaderForSlot(slot) == epochConfigs[EpochOf(slot)].leader

DelayForSlot(slot, r) ==
    LET s == epochConfigs[EpochOf(slot)].schedule IN
    (CHOOSE i \in 1..N : s[i] = r) * BaseDelay - BaseDelay

-----------------------------------------------------------------------------
\* EpochTuner::new, new_with_tuning.
TunerInit ==
    /\ epoch = 0
    /\ leader = 0
    /\ schedule = LeaderFirst(0)
    /\ stats = [r \in Nodes |-> NoSamples]
    /\ recent = [r \in Nodes |-> Unmeasured]
    /\ epochSamples = NoSamples
    /\ started = {}
    /\ recorded = {}
    /\ epochConfigs = [e \in {0} |-> [leader |-> 0, schedule |-> LeaderFirst(0)]]
    /\ frontier = [r \in Nodes |-> 0]
    /\ building = [r \in Nodes |-> Idle]
    /\ live = Nodes
    /\ falls = 0
    /\ ledBy = [s \in Slots |-> {}]

-----------------------------------------------------------------------------
\* Monitoring by the lifetime averages.
MonitorByAverage(rec, sts) ==
    IF N > 1 /\ Average(sts[leader]) > Average(sts[schedule[2]])
    THEN schedule[2] ELSE leader

\* Monitoring: the next in the schedule takes over from a leader whose last
\* epoch was slower than its own.
Monitor(rec, sts) ==
    IF /\ N > 1
       /\ rec[leader] # Unmeasured /\ rec[schedule[2]] # Unmeasured
       /\ rec[leader] > rec[schedule[2]]
    THEN schedule[2] ELSE leader

\* The configuration close_epoch pins to the next epoch.
NextConfig(e, rec, sts) ==
    IF e < ExploreEpochs
    THEN [leader |-> e % N, schedule |-> LeaderFirst(e % N)]
    ELSE IF e = ExploreEpochs
         THEN LET s == RankedBySpeed(sts) IN [leader |-> s[1], schedule |-> s]
         ELSE LET l == Monitor(rec, sts) IN
              [leader |-> l, schedule |-> LeaderFirstBySpeed(l, rec)]

\* close_epoch with the epoch's samples.
CloseEpoch(samples) ==
    LET avg == samples.sum \div samples.count
        sts == [stats EXCEPT ![leader] = AddSample(@, avg)]
        rec == [recent EXCEPT ![leader] = avg]
        cfg == NextConfig(epoch + 1, rec, sts)
    IN
    /\ stats' = sts
    /\ recent' = rec
    /\ epochSamples' = NoSamples
    /\ epoch' = epoch + 1
    /\ leader' = cfg.leader
    /\ schedule' = cfg.schedule
    /\ epochConfigs' = [e \in DOMAIN epochConfigs \cup {epoch + 1} |->
                          IF e = epoch + 1 THEN cfg ELSE epochConfigs[e]]

\* An epoch that is closed when a sample comes that no longer fits.
AbsorbLate(latency) ==
    LET samples == AddSample(epochSamples, latency) IN
    IF samples.count > EpochLen
    THEN CloseEpoch(samples)
    ELSE /\ epochSamples' = samples
         /\ UNCHANGED <<epoch, leader, schedule, stats, recent, epochConfigs>>

\* absorb: the sample that completes the epoch closes it.
Absorb(latency) ==
    LET samples == AddSample(epochSamples, latency) IN
    IF samples.count >= EpochLen
    THEN CloseEpoch(samples)
    ELSE /\ epochSamples' = samples
         /\ UNCHANGED <<epoch, leader, schedule, stats, recent, epochConfigs>>

\* note_slot_decided: only the first observation of a slot counts.
NoteSlotDecided(slot) ==
    IF slot \in recorded
    THEN UNCHANGED tunerVars
    ELSE /\ recorded' = recorded \cup {slot}
         /\ \E latency \in IF slot \in started THEN Latencies ELSE {0} : Absorb(latency)

-----------------------------------------------------------------------------
\* begin_next_attempt under LeaderPolicy::Tuned: a client operation at the
\* replica's own frontier.
BeginTunedAttempt(r) ==
    LET s == frontier[r] IN
    /\ r \in live
    /\ building[r] = Idle
    /\ s < MaxSlot
    /\ HasConfig(s)
    /\ building' = [building EXCEPT ![r] =
         [slot |-> s, leader |-> LeaderForSlot(s), delay |-> DelayForSlot(s, r)]]
    /\ ledBy' = [ledBy EXCEPT ![s] = @ \cup {LeaderForSlot(s)}]
    /\ started' = started \cup {s}
    /\ UNCHANGED <<tunerVars, frontier, live, falls>>

\* finish_attempt, as far as the tuner sees it: the slot decided, for the
\* first time or, for a lagging replica, long ago.
FinishAttempt(r) ==
    LET s == building[r].slot IN
    /\ r \in live
    /\ building[r] # Idle
    /\ building' = [building EXCEPT ![r] = Idle]
    /\ frontier' = [frontier EXCEPT ![r] = s + 1]
    /\ NoteSlotDecided(s)
    /\ UNCHANGED <<started, live, falls, ledBy>>

StopReplica(r) ==
    /\ r \in live
    /\ falls < MaxFalls
    /\ falls' = falls + 1
    /\ live' = live \ {r}
    /\ UNCHANGED <<tunerVars, started, frontier, building, ledBy>>

\* on_restart -> begin_catch_up: a probe at the frontier, never as leader.
RestartReplica(r) ==
    LET s == frontier[r] IN
    /\ r \notin live
    /\ s < MaxSlot
    /\ HasConfig(s)
    /\ live' = live \cup {r}
    /\ building' = [building EXCEPT ![r] =
         [slot |-> s, leader |-> NoLeader, delay |-> DelayForSlot(s, r)]]
    /\ started' = started \cup {s}
    /\ UNCHANGED <<tunerVars, frontier, falls, ledBy>>

TunerNext ==
    \E r \in Nodes : \/ BeginTunedAttempt(r) \/ FinishAttempt(r)
                     \/ StopReplica(r) \/ RestartReplica(r)

TunerSpec == TunerInit /\ [][TunerNext]_tuningVars

-----------------------------------------------------------------------------
\* Type invariant of EpochTuner and of the replicas' side of it.
TunerTypeOK ==
    /\ epoch \in Nat
    /\ leader \in Nodes
    /\ schedule \in Orders /\ schedule[1] = leader
    /\ stats \in [Nodes -> [sum : Nat, count : Nat]]
    /\ recent \in [Nodes -> Nat \cup {Unmeasured}]
    /\ epochSamples \in [sum : Nat, count : Nat] /\ epochSamples.count < EpochLen
    /\ started \subseteq Slots
    /\ recorded \subseteq Slots
    /\ DOMAIN epochConfigs = 0..epoch
    /\ \A e \in 0..epoch : epochConfigs[e] \in Configs
    /\ frontier \in [Nodes -> Slots]
    /\ building \in [Nodes -> TunedAttempts \cup {Idle}]
    /\ \A r \in Nodes : building[r] # Idle => building[r].slot = frontier[r]
    /\ live \subseteq Nodes
    /\ falls \in 0..MaxFalls
    /\ ledBy \in [Slots -> SUBSET Nodes]

\* config_for never panics and absorb's debug_assert_eq never fails: the
\* epoch of the slot a replica will ask for has been opened, and a slot that
\* nobody has seen decided belongs to the epoch that is open now. No epoch
\* may close too late for the replica at the head of the log nor too early
\* for the others, in whatever order they learn.
AskedInOpenEpoch ==
    \A r \in Nodes :
      /\ HasConfig(frontier[r])
      /\ frontier[r] \notin recorded => EpochOf(frontier[r]) = epoch

\* Proposer::new: every proposer for a slot is built with the same leader,
\* also a replica's that gets to the slot after the tuner has moved on. Two
\* leaders would both send H.
OneLeaderPerSlot == \A s \in Slots : Cardinality(ledBy[s]) <= 1

\* No replica asks the tuner for an epoch it has not opened nor reports a
\* sample for one it has closed, and all proposers of a slot are built with one
\* leader (tuning.rs, config_for, absorb, leader_for_slot; replica.rs,
\* begin_next_attempt).
LeadersArePinned == AskedInOpenEpoch /\ OneLeaderPerSlot

\* Section 5.3: when exploration ends every replica has led and been measured
\* in two epochs at least, and the fastest on average leads. One epoch later
\* monitoring looks at the last epoch of each replica, and from the next one
\* on nobody's last epoch was faster than the leader's.
FastestLeads ==
    /\ ~IsExploring => \A r \in Nodes : stats[r].count >= 2
    /\ epoch = ExploreEpochs =>
         \A r \in Nodes : Average(stats[leader]) <= Average(stats[r])
    /\ epoch >= ExploreEpochs + 2 => \A r \in Nodes : recent[leader] <= recent[r]

\* The tuner's state is well typed; the fastest replica leads after
\* exploration, and monitoring follows what changes (tuning.rs, close_epoch).
FastestReplicaLeads == TunerTypeOK /\ FastestLeads

=============================================================================
