-------------------------------- MODULE Soak --------------------------------
(***************************************************************************)
(* A soak (crates/soak): a schedule of faults is drawn, the driver samples *)
(* it once per step and moves the cluster from the faults in force to the  *)
(* ones it asks for, and when the run is over its injections are compared  *)
(* with what the schedule promised.  Random draws are nondeterministic.    *)
(***************************************************************************)
EXTENDS Integers, Sequences, FiniteSets, FiniteSetsExt, SequencesExt

CONSTANTS
    N,                          \* replicas
    Duration, Step,             \* in the schedule's unit of time
    Jitter,                     \* bound: what the work of a turn adds to its sleep of a step
    MinFault, MaxFault, MinGap, MaxGap,
    Latencies,                  \* latencies a fault may add
    Kinds,                      \* kinds of fault that are drawn
    MaxFaults,                  \* bound: windows drawn before the schedule is cut off
    MaxOffers,                  \* bound: submissions offered
    MaxInflight                 \* MAX_INFLIGHT_SUBMISSIONS

\* What the constants must satisfy.
ConstantsOK ==
    /\ N \in Nat \ {0} /\ Duration \in Nat /\ Step \in Nat \ {0} /\ Jitter \in Nat
    /\ MinFault \in Nat \ {0} /\ MaxFault \in Nat /\ MinFault <= MaxFault
    /\ MinGap \in Nat /\ MaxGap \in Nat /\ MinGap <= MaxGap
    /\ Latencies \subseteq Nat
    /\ MaxFaults \in Nat /\ MaxOffers \in Nat /\ MaxInflight \in Nat \ {0}
ASSUME SoakAssumption == ConstantsOK

VARIABLES
    phase,          \* "draw", "run", "heal", "drain" or "done"
    cursor, faults, \* the schedule being generated
    now,            \* when the driver samples next
    spread,         \* history: the longest time from a sample to the next
    injected,       \* the faults in force as the driver sees them
    cluster,        \* the same, as the processes and proxies are
    counts,         \* Injections
    seen,           \* seen_windows
    desyncs,
    diverged,       \* the observer found a divergence, which ends the run
    subs            \* the counters of RealCluster, and submissions unsettled

faultVars == <<phase, cursor, faults, now, spread, injected, cluster, counts, seen, desyncs,
               diverged>>
vars == <<faultVars, subs>>

Nodes == 0..(N - 1)
Links == {l \in Nodes \X Nodes : l[1] # l[2]}
Tolerated == (N - 1) \div 2
Gaps == MinGap..MaxGap
Quiet == [cuts |-> {}, crashed |-> {}, latency |-> 0]
NoCounts == [cuts |-> 0, kills |-> 0, latency |-> 0]

AnyFault == [kind : {"isolate", "crash"}, node : Nodes] \cup [kind : {"cut"}, link : Links]
            \cup [kind : {"latency"}, ms : Latencies]
Faults == {f \in AnyFault : f.kind \in Kinds}
Submissions == [offered : Nat, ok : Nat, failed : Nat, deferred : Nat, inflight : Nat,
                waiting : Nat, counted : Nat]
Windows == [start : Nat, end : Nat, fault : AnyFault]

\* Mutant: a one-way cut takes nobody out.
ConsumedWhole(f) == IF f.kind \in {"isolate", "crash"} THEN {f.node} ELSE {}

\* Fault::nodes_consumed
Consumed(f) == CASE f.kind \in {"isolate", "crash"} -> {f.node}
                 [] f.kind = "cut" -> {f.link[2]}
                 [] OTHER -> {}

Init ==
    /\ phase = "draw" /\ cursor \in Gaps /\ faults = <<>>
    /\ now = 0 /\ spread = 0 /\ injected = Quiet /\ cluster = Quiet /\ counts = NoCounts
    /\ seen = {} /\ desyncs = 0 /\ diverged = FALSE
    /\ subs = [offered |-> 0, ok |-> 0, failed |-> 0, deferred |-> 0, inflight |-> 0,
               waiting |-> 0, counted |-> 0]

-----------------------------------------------------------------------------
\* Schedule::generate: one fault is drawn for a window at the cursor and kept
\* if the windows it overlaps leave a majority; the next window begins inside
\* this one or after it.
Overlapping(start, end) == {w \in Range(faults) : w.start < end /\ start < w.end}
Placeable(f, start, end) ==
    Consumed(f) = {} \/ Cardinality(Consumed(f) \cup
        UNION {Consumed(w.fault) : w \in Overlapping(start, end)}) <= Tolerated
Clamp(x, lo, hi) == IF x < lo THEN lo ELSE IF x > hi THEN hi ELSE x

Draw ==
    /\ phase = "draw" /\ cursor < Duration /\ Len(faults) < MaxFaults
    /\ \E length \in MinFault..MaxFault, f \in Faults, gap \in Gaps :
        LET end == Min({cursor + length, Duration})
        IN  IF Placeable(f, cursor, end)
            THEN /\ faults' = Append(faults, [start |-> cursor, end |-> end, fault |-> f])
                 /\ cursor' \in {cursor + Clamp(gap, 1, length), end + gap}
            ELSE cursor' = cursor + Max({gap, 1}) /\ UNCHANGED faults
    /\ UNCHANGED <<phase, now, spread, injected, cluster, counts, seen, desyncs, diverged, subs>>

Drawn ==
    /\ phase = "draw" /\ (cursor >= Duration \/ Len(faults) = MaxFaults)
    /\ phase' = "run" /\ cursor' = Duration
    /\ UNCHANGED <<faults, now, spread, injected, cluster, counts, seen, desyncs, diverged, subs>>

-----------------------------------------------------------------------------
\* Injected::desired_of: the faults of some windows in force at t.
ActiveAt(ws, t) == {w \in ws : w.start <= t /\ t < w.end}

CutBy(f) == CASE f.kind = "isolate" -> {l \in Links : f.node \in {l[1], l[2]}}
              [] f.kind = "cut" -> {f.link}
              [] OTHER -> {}

DesiredOf(ws, t) ==
    LET fs == {w.fault : w \in ActiveAt(ws, t)}
    IN  [cuts |-> UNION {CutBy(f) : f \in fs},
         crashed |-> {f.node : f \in {g \in fs : g.kind = "crash"}},
         latency |-> Max({0} \cup {f.ms : f \in {g \in fs : g.kind = "latency"}})]

\* Mutant: an isolation is retired by healing every link of its node.
Rejoined(from, to) ==
    LET old == {n \in Nodes : \E l \in from.cuts \ to.cuts : n \in {l[1], l[2]}}
    IN  {l \in from.cuts : l[1] \in old \/ l[2] \in old}

\* The links that are healed.
Healed(from, to) == from.cuts \ to.cuts

\* Soak::reconcile: the cluster is moved by the difference; only processes
\* that run are killed, and only what breaks is counted.
Reconcile(from, to) ==
    LET kill    == {n \in to.crashed \ from.crashed : n \notin cluster.crashed}
        restart == {n \in from.crashed \ to.crashed : n \in cluster.crashed}
        slower  == from.latency # to.latency
    IN  /\ cluster' = [cuts |-> (cluster.cuts \cup (to.cuts \ from.cuts)) \ Healed(from, to),
                       crashed |-> (cluster.crashed \cup kill) \ restart,
                       latency |-> IF slower THEN to.latency ELSE cluster.latency]
        /\ counts' = [cuts |-> counts.cuts + Cardinality(to.cuts \ from.cuts),
                      kills |-> counts.kills + Cardinality(kill),
                      latency |-> counts.latency + (IF slower /\ to.latency > 0 THEN 1 ELSE 0)]
        /\ desyncs' = desyncs + Cardinality((to.crashed \ from.crashed) \ kill)
                              + Cardinality((from.crashed \ to.crashed) \ restart)
        /\ injected' = to

\* One turn of Soak::run; a divergence in the samples ends the run. The next
\* sample is a step away and as long as reconciling and polling took.
Turn ==
    /\ phase = "run" /\ now < Duration
    /\ seen' = seen \cup {<<w.start, w.end>> : w \in ActiveAt(Range(faults), now)}
    /\ Reconcile(injected, DesiredOf(Range(faults), now))
    /\ now' \in (now + Step)..(now + Step + Jitter)
    /\ spread' = Max({spread, now' - now})
    /\ diverged' \in BOOLEAN
    /\ phase' = IF diverged' THEN "heal" ELSE "run"
    /\ UNCHANGED <<cursor, faults, subs>>

TimeIsUp ==
    /\ phase = "run" /\ now >= Duration /\ phase' = "heal"
    /\ UNCHANGED <<cursor, faults, now, spread, injected, cluster, counts, seen, desyncs, diverged,
                   subs>>

\* Everything is healed before liveness is judged; breaking nothing, it
\* counts nothing.
Heal ==
    /\ phase = "heal" /\ phase' = "drain"
    /\ Reconcile(injected, Quiet)
    /\ UNCHANGED <<cursor, faults, now, spread, seen, diverged, subs>>

-----------------------------------------------------------------------------
\* RealCluster::submit_detached, between two samples.
Offer ==
    /\ phase = "run" /\ subs.offered < MaxOffers
    /\ subs' = IF subs.inflight >= MaxInflight
               THEN [subs EXCEPT !.offered = @ + 1, !.deferred = @ + 1]
               ELSE IF cluster.crashed = Nodes
               THEN [subs EXCEPT !.offered = @ + 1, !.failed = @ + 1]
               ELSE [subs EXCEPT !.offered = @ + 1, !.inflight = @ + 1, !.waiting = @ + 1]
    /\ UNCHANGED faultVars

\* Its task counts the outcome, then takes it out of those in flight.
Outcome(s, how) == [s EXCEPT !.waiting = @ - 1, ![how] = @ + 1, !.counted = @ + 1]
Leave(s) == [s EXCEPT !.counted = @ - 1, !.inflight = @ - 1]

Settle ==
    /\ subs.waiting > 0 /\ \E how \in {"ok", "failed"} : subs' = Outcome(subs, how)
    /\ UNCHANGED faultVars

Settled == subs.counted > 0 /\ subs' = Leave(subs) /\ UNCHANGED faultVars

\* drain_inflight: nothing is in flight, or its timeout is over.
Drain ==
    /\ phase = "drain" /\ phase' = "done"
    /\ UNCHANGED <<cursor, faults, now, spread, injected, cluster, counts, seen, desyncs, diverged,
                   subs>>

Next ==
    \/ Draw \/ Drawn \/ Turn \/ TimeIsUp \/ Heal \/ Drain
    \/ Offer \/ Settle \/ Settled

Spec == Init /\ [][Next]_vars

-----------------------------------------------------------------------------
\* injections_expected over the windows entered.  An instant is a unit of the
\* schedule's time; a resource opens where it becomes active.
Entered == {faults[i] : i \in 1..Min({Len(faults), Cardinality(seen)})}
Wants(t) == IF t < 0 THEN Quiet ELSE DesiredOf(Entered, t)

\* Mutant: every activation counts, however short the gap before it.
EverySpan(active, step) == Cardinality({t \in active : t - 1 \notin active})

\* Activations, given as their instants, separated by a gap of no more than a
\* step are one.
Coalesced(active, step) ==
    Cardinality({t \in active : active \cap ((t - step - 1)..(t - 1)) = {}})

ExpectedLatency(step) ==
    LET last    == Max({0} \cup {w.end : w \in Entered})
        changes == {t \in 0..last : Wants(t).latency # Wants(t - 1).latency}
        until(t) == Min({last} \cup {u \in changes : u > t})
        pieces  == SetToSortSeq({t \in changes : until(t) - t > step}, <)
        See(acc, t) == LET v == Wants(t).latency
                       IN  [value |-> v, n |-> acc.n + (IF v # acc.value /\ v > 0 THEN 1 ELSE 0)]
    IN  FoldLeft(See, [value |-> 0, n |-> 0], pieces).n

\* What a driver that samples once per step can be relied on to inject.
Expected(step) ==
    LET Cut(l)  == Coalesced({t \in 0..Duration : l \in Wants(t).cuts}, step)
        Down(n) == Coalesced({t \in 0..Duration : n \in Wants(t).crashed}, step)
    IN  [cuts |-> MapThenSumSet(Cut, Links), kills |-> MapThenSumSet(Down, Nodes),
         latency |-> ExpectedLatency(step)]

Covers(step) == LET want == Expected(step) IN \A k \in DOMAIN counts : counts[k] >= want[k]

-----------------------------------------------------------------------------
\* The latency in force is a maximum, and left to the model checker.
TypeOK ==
    /\ phase \in {"draw", "run", "heal", "drain", "done"}
    /\ cursor \in Nat /\ faults \in Seq(Windows) /\ now \in Nat /\ spread \in Nat
    /\ \A c \in {injected, cluster} : c.cuts \subseteq Links /\ c.crashed \subseteq Nodes
    /\ counts \in [cuts : Nat, kills : Nat, latency : Nat]
    /\ seen \subseteq Nat \X Nat /\ desyncs \in Nat /\ diverged \in BOOLEAN
    /\ subs \in Submissions

\* Whatever is drawn, a majority of the replicas runs and hears of one another
\* at every moment, so that a stall is the cluster's fault (schedule.rs, "The
\* majority invariant").
MajorityConnected ==
    \E Q \in SUBSET (Nodes \ cluster.crashed) :
        2 * Cardinality(Q) > N /\ \A a, b \in Q : <<a, b>> \notin cluster.cuts

\* Overlapping faults do not undo one another: what the cluster suffers is what
\* the schedule asked for at the last sample, no kill or restart was skipped,
\* and a finished run leaves everything healed.
ClusterIsAsDesired ==
    /\ cluster = injected /\ desyncs = 0
    /\ phase \in {"drain", "done"} => cluster = Quiet

\* The state is well typed, overlapping faults leave a majority connected, and
\* the cluster is always as the windows in force want it (schedule.rs; soak.rs,
\* reconcile).
FaultsAreContained == TypeOK /\ MajorityConnected /\ ClusterIsAsDesired

\* A run that lasted to the end of its schedule, and in which no fault was too
\* short to be sampled, injected what the audit expects of a driver that samples
\* as seldom as this one did. So the audit, which expects a sample per step,
\* fails such a run only if a turn took longer than a step (soak.rs, "The injector
\* samples, so the expectation must too" and "Sampling jitter").
CompleteRunIsCovered ==
    phase = "done" /\ ~diverged /\ spread <= MinFault => Covers(Max({Step, spread}))

\* When nothing is in flight every submission offered has been counted once
\* (cluster.rs, drain_inflight: "so submission_counts is final").
SubmissionsAccounted ==
    subs.inflight = 0 => subs.offered = subs.ok + subs.failed + subs.deferred

\* Refuted (see the README).
\* What soak.rs says of a run cut short: the comparison is "against the
\* schedule the run actually traversed, so an early exit on divergence cannot
\* fire this spuriously".
EarlyExitIsCovered == phase = "done" => Covers(Step)

\* Refuted (see the README).
\* What soak.rs says of the expectation, that "it demands only transitions the
\* sampled injector can be relied on to deliver", and takes back under "Sampling
\* jitter".
CleanRunIsCovered == phase = "done" /\ ~diverged => Covers(Step)
=============================================================================
