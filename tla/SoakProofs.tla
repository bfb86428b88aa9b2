----------------------------- MODULE SoakProofs -----------------------------
(***************************************************************************)
(* Theorems about a soak, for any number of replicas and any schedule the  *)
(* generator can draw: the faults in force leave a majority connected, and *)
(* the cluster suffers those faults and no others; and about the           *)
(* postmortem of what it leaves on disk, for any replicas, logs, forks,    *)
(* torn samples and kills: its verdict is sound.                           *)
(***************************************************************************)
EXTENDS Soak, Postmortem, FiniteSetTheorems, SequenceTheorems, WellFoundedInduction, TLAPS

\* The nodes some windows in force at t take out.
Out(ws, t) == UNION {Consumed(w.fault) : w \in ActiveAt(ws, t)}

\* "The majority invariant" of schedule.rs: at no time do the windows drawn so
\* far take out more nodes than the cluster tolerates.
ScheduleInv == \A t \in Nat : Cardinality(Out(Range(faults), t)) <= Tolerated

\* A state of the faults that a majority outlives.
Contained(c) ==
    \E Q \in SUBSET (Nodes \ c.crashed) :
        2 * Cardinality(Q) > N /\ \A a, b \in Q : <<a, b>> \notin c.cuts

ClusterInv ==
    /\ cluster = injected /\ desyncs = 0 /\ Contained(injected)
    /\ phase \in {"drain", "done"} => injected = Quiet

\* A submission offered waits for its outcome or is counted; until its task is
\* over it is in flight.
SubmissionInv ==
    /\ subs.inflight = subs.waiting + subs.counted
    /\ subs.offered = subs.ok + subs.failed + subs.deferred + subs.waiting

SoakInv == TypeOK /\ ScheduleInv /\ ClusterInv /\ SubmissionInv

\* The nodes, and what they can lose.
LEMMA NodesFinite ==
    /\ IsFiniteSet(Nodes) /\ Cardinality(Nodes) = N
    /\ IsFiniteSet(Links) /\ Tolerated \in Nat /\ 2 * Tolerated < N
  <1>1. N \in Nat /\ N >= 1 BY SoakAssumption DEF ConstantsOK
  <1>2. IsFiniteSet(Nodes) /\ Cardinality(Nodes) = N
    BY <1>1, FS_Interval DEF Nodes
  <1>3. IsFiniteSet(Links)
    <2>1. IsFiniteSet(Nodes \X Nodes) BY <1>2, FS_Product
    <2> QED BY <2>1, FS_Subset DEF Links
  <1>4. Tolerated \in Nat /\ 2 * Tolerated < N BY <1>1 DEF Tolerated
  <1> QED BY <1>2, <1>3, <1>4

LEMMA ConsumedNodes ==
    ASSUME NEW f \in AnyFault
    PROVE  Consumed(f) \subseteq Nodes
  BY DEF AnyFault, Consumed, Links

LEMMA OutNodes ==
    ASSUME NEW ws, ws \subseteq Windows, NEW t
    PROVE  Out(ws, t) \subseteq Nodes /\ IsFiniteSet(Out(ws, t))
  <1>1. \A w \in Windows : w.fault \in AnyFault BY DEF Windows
  <1>2. Out(ws, t) \subseteq Nodes BY <1>1, ConsumedNodes DEF Out, ActiveAt
  <1> QED BY <1>2, NodesFinite, FS_Subset

\* Fewer nodes out than are tolerated leave a majority that hears of one
\* another.
LEMMA OutlivesFaults ==
    ASSUME NEW ws, ws \subseteq Windows, NEW t, Cardinality(Out(ws, t)) <= Tolerated
    PROVE  Contained(DesiredOf(ws, t))
  <1> DEFINE Q == Nodes \ Out(ws, t)
             c == DesiredOf(ws, t)
  <1>1. \A w \in ActiveAt(ws, t) : w.fault \in AnyFault /\ Consumed(w.fault) \subseteq Out(ws, t)
    BY DEF ActiveAt, Windows, Out
  <1>2. c.crashed = {f.node : f \in {g \in {w.fault : w \in ActiveAt(ws, t)} : g.kind = "crash"}}
    BY DEF DesiredOf
  <1>3. c.cuts = UNION {CutBy(f) : f \in {w.fault : w \in ActiveAt(ws, t)}}
    BY DEF DesiredOf
  <1>4. c.crashed \subseteq Out(ws, t)
    <2> SUFFICES ASSUME NEW w \in ActiveAt(ws, t), w.fault.kind = "crash"
                 PROVE  w.fault.node \in Out(ws, t)
      BY <1>2
    <2>1. w.fault.node \in Consumed(w.fault) BY DEF Consumed
    <2> QED BY <1>1, <2>1
  <1>5. \A a, b \in Q : <<a, b>> \notin c.cuts
    <2> SUFFICES ASSUME NEW a \in Q, NEW b \in Q, NEW w \in ActiveAt(ws, t),
                        <<a, b>> \in CutBy(w.fault)
                 PROVE  FALSE
      BY <1>3
    <2>1. CASE w.fault.kind = "isolate"
      <3>1. w.fault.node \in {a, b} BY <2>1 DEF CutBy
      <3>2. w.fault.node \in Consumed(w.fault) BY <2>1 DEF Consumed
      <3> QED BY <1>1, <3>1, <3>2
    <2>2. CASE w.fault.kind = "cut"
      <3>1. w.fault.link = <<a, b>> BY <2>2 DEF CutBy
      <3>2. b \in Consumed(w.fault) BY <2>2, <3>1 DEF Consumed
      <3> QED BY <1>1, <3>2
    <2> QED BY <2>1, <2>2 DEF CutBy
  <1>6. 2 * Cardinality(Q) > N
    <2>1. /\ IsFiniteSet(Nodes) /\ Cardinality(Nodes) = N /\ N \in Nat
          /\ Tolerated \in Nat /\ 2 * Tolerated < N
      BY NodesFinite, SoakAssumption DEF ConstantsOK
    <2>2. Out(ws, t) \subseteq Nodes /\ IsFiniteSet(Out(ws, t)) BY OutNodes
    <2>3. Cardinality(Q) = Cardinality(Nodes) - Cardinality(Nodes \cap Out(ws, t))
      BY <2>1, FS_Difference
    <2>4. Nodes \cap Out(ws, t) = Out(ws, t) BY <2>2
    <2>5. Cardinality(Out(ws, t)) \in Nat BY <2>2, FS_CardinalityType
    <2>6. Cardinality(Q) = N - Cardinality(Out(ws, t)) BY <2>1, <2>3, <2>4
    <2> HIDE DEF Q
    <2> QED BY <2>1, <2>5, <2>6
  <1>7. Q \in SUBSET (Nodes \ c.crashed) BY <1>4
  <1> QED BY <1>5, <1>6, <1>7 DEF Contained

LEMMA QuietContained == Contained(Quiet)
  <1>1. N \in Nat /\ N >= 1 BY SoakAssumption DEF ConstantsOK
  <1>2. 2 * Cardinality(Nodes) > N BY <1>1, NodesFinite
  <1> QED BY <1>2 DEF Contained, Quiet

LEMMA DesiredTyped ==
    ASSUME NEW ws, ws \subseteq Windows, NEW t
    PROVE  DesiredOf(ws, t).cuts \subseteq Links /\ DesiredOf(ws, t).crashed \subseteq Nodes
  <1>1. \A w \in ActiveAt(ws, t) : w.fault \in AnyFault BY DEF ActiveAt, Windows
  <1>2. \A f \in AnyFault : CutBy(f) \subseteq Links BY DEF CutBy, AnyFault
  <1>3. \A f \in AnyFault : f.kind = "crash" => f.node \in Nodes BY DEF AnyFault
  <1> QED BY <1>1, <1>2, <1>3 DEF DesiredOf

\* Soak::reconcile from where the cluster is reaches what is asked for: no
\* link is left cut or healed that should not be, no kill or restart skipped.
LEMMA ReconcileReaches ==
    ASSUME TypeOK, cluster = injected, desyncs = 0, NEW C, C \subseteq Links,
           NEW K, K \subseteq Nodes, NEW l,
           Reconcile(injected, [cuts |-> C, crashed |-> K, latency |-> l])
    PROVE  /\ injected' = [cuts |-> C, crashed |-> K, latency |-> l] /\ cluster' = injected'
           /\ desyncs' = 0 /\ counts' \in [cuts : Nat, kills : Nat, latency : Nat]
  <1> DEFINE from == injected
             to == [cuts |-> C, crashed |-> K, latency |-> l]
             kill == {n \in to.crashed \ from.crashed : n \notin cluster.crashed}
             restart == {n \in from.crashed \ to.crashed : n \in cluster.crashed}
             slower == from.latency # to.latency
  <1>1. to.cuts = C /\ to.crashed = K /\ to.latency = l OBVIOUS
  <1>2. /\ cluster' = [cuts |-> (cluster.cuts \cup (to.cuts \ from.cuts)) \ Healed(from, to),
                       crashed |-> (cluster.crashed \cup kill) \ restart,
                       latency |-> IF slower THEN to.latency ELSE cluster.latency]
        /\ counts' = [cuts |-> counts.cuts + Cardinality(to.cuts \ from.cuts),
                      kills |-> counts.kills + Cardinality(kill),
                      latency |-> counts.latency + (IF slower /\ to.latency > 0 THEN 1 ELSE 0)]
        /\ desyncs' = desyncs + Cardinality((to.crashed \ from.crashed) \ kill)
                              + Cardinality((from.crashed \ to.crashed) \ restart)
        /\ injected' = to
    BY DEF Reconcile
  <1>3. kill = K \ from.crashed /\ restart = from.crashed \ K BY <1>1
  <1>4. (cluster.cuts \cup (to.cuts \ from.cuts)) \ Healed(from, to) = C
    BY <1>1 DEF Healed
  <1>5. (cluster.crashed \cup kill) \ restart = K BY <1>3
  <1>6. (IF slower THEN to.latency ELSE cluster.latency) = l BY <1>1
  <1>7. cluster' = to BY <1>2, <1>4, <1>5, <1>6
  <1>8. (to.crashed \ from.crashed) \ kill = {} /\ (from.crashed \ to.crashed) \ restart = {}
    BY <1>1, <1>3
  <1>9. desyncs' = 0
    <2>1. /\ Cardinality((to.crashed \ from.crashed) \ kill) = 0
          /\ Cardinality((from.crashed \ to.crashed) \ restart) = 0
      BY <1>8, FS_EmptySet
    <2> QED BY <1>2, <2>1
  <1>10. Cardinality(to.cuts \ from.cuts) \in Nat
    <2>1. IsFiniteSet(to.cuts \ from.cuts) BY <1>1, NodesFinite, FS_Subset
    <2> QED BY <2>1, FS_CardinalityType
  <1>11. Cardinality(kill) \in Nat
    <2>1. IsFiniteSet(kill) BY <1>3, NodesFinite, FS_Subset
    <2> QED BY <2>1, FS_CardinalityType
  <1>12. counts \in [cuts : Nat, kills : Nat, latency : Nat] BY DEF TypeOK
  <1> HIDE DEF kill, to
  <1>13. counts' \in [cuts : Nat, kills : Nat, latency : Nat] BY <1>2, <1>10, <1>11, <1>12
  <1> QED BY <1>2, <1>7, <1>9, <1>13 DEF to

LEMMA OfTwoNats ==
    ASSUME NEW a \in Nat, NEW b \in Nat
    PROVE  Max({a, b}) \in Nat /\ Min({a, b}) \in Nat
  <1> DEFINE S == {a, b}
  <1>1. \E x \in S : \A y \in S : x >= y OBVIOUS
  <1>2. \E x \in S : \A y \in S : x =< y OBVIOUS
  <1>3. S \subseteq Nat OBVIOUS
  <1> HIDE DEF S
  <1>4. Max(S) \in S /\ Min(S) \in S BY <1>1, <1>2 DEF Max, Min
  <1>5. Max(S) \in Nat /\ Min(S) \in Nat BY <1>3, <1>4
  <1> QED BY <1>5 DEF S

\* What Schedule::generate draws in one turn of its loop: a window that leaves
\* a majority with the windows it overlaps, or none.
LEMMA DrawEffect ==
    ASSUME TypeOK, Draw
    PROVE  /\ cursor' \in Nat
           /\ \/ UNCHANGED faults
              \/ \E w \in Windows : /\ faults' = Append(faults, w)
                                    /\ Placeable(w.fault, w.start, w.end)
  <1>1. PICK length \in MinFault..MaxFault, f \in Faults, gap \in Gaps :
          LET end == Min({cursor + length, Duration})
          IN  IF Placeable(f, cursor, end)
              THEN /\ faults' = Append(faults, [start |-> cursor, end |-> end, fault |-> f])
                   /\ cursor' \in {cursor + Clamp(gap, 1, length), end + gap}
              ELSE cursor' = cursor + Max({gap, 1}) /\ UNCHANGED faults
    BY DEF Draw
  <1>2. cursor \in Nat /\ length \in Nat /\ gap \in Nat /\ Duration \in Nat
    BY SMTT(30), SoakAssumption DEF ConstantsOK, Gaps, TypeOK
  <1> DEFINE end == Min({cursor + length, Duration})
             w == [start |-> cursor, end |-> end, fault |-> f]
  <1>3. end \in Nat
    <2>1. cursor + length \in Nat BY <1>2
    <2> QED BY <1>2, <2>1, OfTwoNats
  <1>4. Max({gap, 1}) \in Nat BY <1>2, OfTwoNats
  <1>5. Clamp(gap, 1, length) \in Nat BY <1>2 DEF Clamp
  <1>6. w \in Windows BY <1>2, <1>3 DEF Windows, Faults
  <1>7. w.fault = f /\ w.start = cursor /\ w.end = end OBVIOUS
  <1>8. CASE Placeable(f, cursor, end)
    <2>1. faults' = Append(faults, w) /\ cursor' \in {cursor + Clamp(gap, 1, length), end + gap}
      BY <1>1, <1>8
    <2> HIDE DEF end, w
    <2>2. cursor' \in Nat BY <1>2, <1>3, <1>5, <2>1
    <2> QED BY <1>6, <1>7, <1>8, <2>1, <2>2
  <1>9. CASE ~Placeable(f, cursor, end)
    <2>1. cursor' = cursor + Max({gap, 1}) /\ UNCHANGED faults BY <1>1, <1>9
    <2> QED BY <1>2, <1>4, <2>1
  <1> QED BY <1>8, <1>9

\* A window more keeps the schedule within what is tolerated: at any time it is
\* in force, the windows in force with it are among those it overlaps.
LEMMA DrawSchedule ==
    ASSUME TypeOK, ScheduleInv, NEW w \in Windows, faults' = Append(faults, w),
           Placeable(w.fault, w.start, w.end)
    PROVE  ScheduleInv'
  <1> DEFINE ws == Range(faults)
             near == Overlapping(w.start, w.end)
             lost == Consumed(w.fault) \cup UNION {Consumed(v.fault) : v \in near}
  <1>1. ws \subseteq Windows /\ Range(faults') = ws \cup {w}
    <2>1. faults \in Seq(Windows) /\ Len(faults) \in Nat BY DEF TypeOK
    <2>2. DOMAIN faults = 1..Len(faults) /\ DOMAIN faults' = 1..(Len(faults) + 1) BY <2>1
    <2>3. \A i \in 1..Len(faults) : faults'[i] = faults[i] /\ faults[i] \in Windows BY <2>1
    <2>4. faults'[Len(faults) + 1] = w BY <2>1
    <2>5. 1..(Len(faults) + 1) = 1..Len(faults) \cup {Len(faults) + 1} BY <2>1
    <2> QED BY <2>2, <2>3, <2>4, <2>5 DEF Range
  <1> SUFFICES ASSUME NEW t \in Nat
               PROVE  Cardinality(Out(ws \cup {w}, t)) <= Tolerated
    BY <1>1 DEF ScheduleInv
  <1>2. Cardinality(Out(ws, t)) <= Tolerated BY DEF ScheduleInv
  <1>3. w.start \in Nat /\ w.end \in Nat /\ \A v \in ws : v.start \in Nat /\ v.end \in Nat
    BY <1>1 DEF Windows
  <1>4. CASE ~(w.start <= t /\ t < w.end)
    <2>1. ActiveAt(ws \cup {w}, t) = ActiveAt(ws, t) BY <1>4 DEF ActiveAt
    <2> QED BY <1>2, <2>1 DEF Out
  <1>5. CASE w.start <= t /\ t < w.end /\ Consumed(w.fault) = {}
    <2>1. ActiveAt(ws \cup {w}, t) = ActiveAt(ws, t) \cup {w} BY <1>5 DEF ActiveAt
    <2>2. Out(ws \cup {w}, t) = Out(ws, t) BY <1>5, <2>1 DEF Out
    <2> QED BY <1>2, <2>2
  <1>6. CASE w.start <= t /\ t < w.end /\ Consumed(w.fault) # {}
    <2>1. Cardinality(lost) <= Tolerated BY <1>6 DEF Placeable
    <2>2. ActiveAt(ws, t) \subseteq near
      BY <1>3, <1>6 DEF ActiveAt, Overlapping
    <2>3. Out(ws \cup {w}, t) \subseteq lost BY <2>2 DEF Out, ActiveAt
    <2>4. lost \subseteq Nodes
      <3>1. near \subseteq Windows BY <1>1 DEF Overlapping
      <3>2. \A v \in Windows : Consumed(v.fault) \subseteq Nodes BY ConsumedNodes DEF Windows
      <3> QED BY <3>1, <3>2
    <2> HIDE DEF lost
    <2>5. IsFiniteSet(lost) BY <2>4, NodesFinite, FS_Subset
    <2>6. Cardinality(Out(ws \cup {w}, t)) <= Cardinality(lost) BY <2>3, <2>5, FS_Subset
    <2>7. Cardinality(lost) \in Nat /\ Cardinality(Out(ws \cup {w}, t)) \in Nat
      BY <2>3, <2>5, FS_Subset, FS_CardinalityType
    <2> QED BY <2>1, <2>6, <2>7, NodesFinite
  <1> QED BY <1>4, <1>5, <1>6

-----------------------------------------------------------------------------
\* Submissions with another value in one field, in two, in three.
Counters == {"offered", "ok", "failed", "deferred", "inflight", "waiting", "counted"}

LEMMA CounterTyped ==
    ASSUME NEW s \in Submissions, NEW k \in Nat, NEW x \in Counters
    PROVE  [s EXCEPT ![x] = k] \in Submissions
  BY DEF Submissions, Counters

LEMMA TwoCounters ==
    ASSUME NEW s \in Submissions, NEW x \in Counters, NEW y \in Counters,
           NEW i \in Nat, NEW j \in Nat
    PROVE  [s EXCEPT ![x] = i, ![y] = j] \in Submissions
  <1>1. [s EXCEPT ![x] = i] \in Submissions BY CounterTyped
  <1> QED BY <1>1, CounterTyped

LEMMA ThreeCounters ==
    ASSUME NEW s \in Submissions, NEW x \in Counters, NEW y \in Counters, NEW z \in Counters,
           NEW i \in Nat, NEW j \in Nat, NEW k \in Nat
    PROVE  [s EXCEPT ![x] = i, ![y] = j, ![z] = k] \in Submissions
  <1>1. [s EXCEPT ![x] = i, ![y] = j] \in Submissions BY TwoCounters
  <1> QED BY <1>1, CounterTyped

LEMMA StepSubmissions ==
    ASSUME TypeOK, SubmissionInv, Offer \/ Settle \/ Settled \/ UNCHANGED subs
    PROVE  SubmissionInv' /\ subs' \in Submissions
  <1>0. /\ subs \in Submissions
        /\ subs.inflight = subs.waiting + subs.counted
        /\ subs.offered = subs.ok + subs.failed + subs.deferred + subs.waiting
    BY DEF TypeOK, SubmissionInv, Submissions
  <1>0a. /\ subs.offered \in Nat /\ subs.ok \in Nat /\ subs.failed \in Nat
         /\ subs.deferred \in Nat /\ subs.inflight \in Nat /\ subs.waiting \in Nat
         /\ subs.counted \in Nat
         /\ DOMAIN subs = Counters
    BY <1>0 DEF Submissions, Counters
  <1>1. ASSUME Offer PROVE SubmissionInv' /\ subs' \in Submissions
    <2>1. CASE subs' = [subs EXCEPT !.offered = @ + 1, !.deferred = @ + 1]
      <3>1. subs' \in Submissions
        <4>1. subs' = [subs EXCEPT !["offered"] = subs.offered + 1,
                                   !["deferred"] = subs.deferred + 1]
          BY <1>0a, <2>1
        <4>2. subs.offered + 1 \in Nat /\ subs.deferred + 1 \in Nat
          BY <1>0a
        <4>3. {"offered", "deferred"} \subseteq Counters BY DEF Counters
        <4> QED BY <1>0, <4>1, <4>2, <4>3, TwoCounters
      <3>2. /\ subs'.inflight = subs.inflight /\ subs'.waiting = subs.waiting
            /\ subs'.counted = subs.counted /\ subs'.offered = subs.offered + 1
            /\ subs'.ok = subs.ok /\ subs'.failed = subs.failed
            /\ subs'.deferred = subs.deferred + 1
        BY <1>0a, <2>1
      <3> QED BY <1>0, <1>0a, <3>1, <3>2 DEF SubmissionInv
    <2>2. CASE subs' = [subs EXCEPT !.offered = @ + 1, !.failed = @ + 1]
      <3>1. subs' \in Submissions
        <4>1. subs' = [subs EXCEPT !["offered"] = subs.offered + 1, !["failed"] = subs.failed + 1]
          BY <1>0a, <2>2
        <4>2. subs.offered + 1 \in Nat /\ subs.failed + 1 \in Nat
          BY <1>0a
        <4>3. {"offered", "failed"} \subseteq Counters BY DEF Counters
        <4> QED BY <1>0, <4>1, <4>2, <4>3, TwoCounters
      <3>2. /\ subs'.inflight = subs.inflight /\ subs'.waiting = subs.waiting
            /\ subs'.counted = subs.counted /\ subs'.offered = subs.offered + 1
            /\ subs'.ok = subs.ok /\ subs'.failed = subs.failed + 1
            /\ subs'.deferred = subs.deferred
        BY <1>0a, <2>2
      <3> QED BY <1>0, <1>0a, <3>1, <3>2 DEF SubmissionInv
    <2>3. CASE subs' = [subs EXCEPT !.offered = @ + 1, !.inflight = @ + 1, !.waiting = @ + 1]
      <3>1. subs' \in Submissions
        <4>1. subs' = [subs EXCEPT !["offered"] = subs.offered + 1,
                                   !["inflight"] = subs.inflight + 1,
                                   !["waiting"] = subs.waiting + 1]
          BY <1>0a, <2>3
        <4>2. subs.offered + 1 \in Nat /\ subs.inflight + 1 \in Nat /\ subs.waiting + 1 \in Nat
          BY <1>0a
        <4>3. {"offered", "inflight", "waiting"} \subseteq Counters BY DEF Counters
        <4> QED BY <1>0, <4>1, <4>2, <4>3, ThreeCounters
      <3>2. /\ subs'.inflight = subs.inflight + 1 /\ subs'.waiting = subs.waiting + 1
            /\ subs'.counted = subs.counted /\ subs'.offered = subs.offered + 1
            /\ subs'.ok = subs.ok /\ subs'.failed = subs.failed
            /\ subs'.deferred = subs.deferred
        BY <1>0a, <2>3
      <3> QED BY <1>0, <1>0a, <3>1, <3>2 DEF SubmissionInv
    <2> QED BY <1>1, <2>1, <2>2, <2>3 DEF Offer
  <1>2. ASSUME Settle PROVE SubmissionInv' /\ subs' \in Submissions
    <2>1. PICK how \in {"ok", "failed"} :
            subs.waiting > 0 /\ subs' = [subs EXCEPT !.waiting = @ - 1, ![how] = @ + 1,
                                                     !.counted = @ + 1]
      BY <1>2 DEF Settle, Outcome
    <2>2. subs.waiting - 1 \in Nat BY <1>0, <1>0a, <2>1
    <2>3. CASE how = "ok"
      <3>0. subs' = [subs EXCEPT !.waiting = @ - 1, !.ok = @ + 1, !.counted = @ + 1]
        BY <2>1, <2>3
      <3>1. /\ subs'.inflight = subs.inflight /\ subs'.waiting = subs.waiting - 1
            /\ subs'.counted = subs.counted + 1 /\ subs'.offered = subs.offered
            /\ subs'.ok = subs.ok + 1 /\ subs'.failed = subs.failed
            /\ subs'.deferred = subs.deferred
        BY <1>0a, <3>0
      <3>2. subs' \in Submissions
        <4>1. subs' = [subs EXCEPT !["waiting"] = subs.waiting - 1, !["ok"] = subs.ok + 1,
                                   !["counted"] = subs.counted + 1]
          BY <1>0a, <3>0
        <4>2. subs.waiting - 1 \in Nat /\ subs.ok + 1 \in Nat /\ subs.counted + 1 \in Nat
          BY <1>0a, <2>2
        <4>3. {"waiting", "ok", "counted"} \subseteq Counters BY DEF Counters
        <4> QED BY <1>0, <4>1, <4>2, <4>3, ThreeCounters
      <3> QED BY <1>0, <1>0a, <3>1, <3>2 DEF SubmissionInv
    <2>4. CASE how = "failed"
      <3>0. subs' = [subs EXCEPT !.waiting = @ - 1, !.failed = @ + 1, !.counted = @ + 1]
        BY <2>1, <2>4
      <3>1. /\ subs'.inflight = subs.inflight /\ subs'.waiting = subs.waiting - 1
            /\ subs'.counted = subs.counted + 1 /\ subs'.offered = subs.offered
            /\ subs'.ok = subs.ok /\ subs'.failed = subs.failed + 1
            /\ subs'.deferred = subs.deferred
        BY <1>0a, <3>0
      <3>2. subs' \in Submissions
        <4>1. subs' = [subs EXCEPT !["waiting"] = subs.waiting - 1, !["failed"] = subs.failed + 1,
                                   !["counted"] = subs.counted + 1]
          BY <1>0a, <3>0
        <4>2. subs.waiting - 1 \in Nat /\ subs.failed + 1 \in Nat /\ subs.counted + 1 \in Nat
          BY <1>0a, <2>2
        <4>3. {"waiting", "failed", "counted"} \subseteq Counters BY DEF Counters
        <4> QED BY <1>0, <4>1, <4>2, <4>3, ThreeCounters
      <3> QED BY <1>0, <1>0a, <3>1, <3>2 DEF SubmissionInv
    <2> QED BY <2>3, <2>4
  <1>3. ASSUME Settled PROVE SubmissionInv' /\ subs' \in Submissions
    <2>1. /\ subs.counted > 0
          /\ subs' = [subs EXCEPT !.counted = @ - 1, !.inflight = @ - 1]
      BY <1>3 DEF Settled, Leave
    <2>2. subs.counted - 1 \in Nat /\ subs.inflight - 1 \in Nat BY <1>0, <1>0a, <2>1
    <2>3. subs' \in Submissions
      <3>1. subs' = [subs EXCEPT !["counted"] = subs.counted - 1,
                                 !["inflight"] = subs.inflight - 1]
        BY <1>0a, <2>1
      <3>2. subs.counted - 1 \in Nat /\ subs.inflight - 1 \in Nat
        BY <1>0a, <2>2
      <3>3. {"counted", "inflight"} \subseteq Counters BY DEF Counters
      <3> QED BY <1>0, <3>1, <3>2, <3>3, TwoCounters
    <2>4. /\ subs'.inflight = subs.inflight - 1 /\ subs'.waiting = subs.waiting
          /\ subs'.counted = subs.counted - 1 /\ subs'.offered = subs.offered
          /\ subs'.ok = subs.ok /\ subs'.failed = subs.failed
          /\ subs'.deferred = subs.deferred
      BY <1>0a, <2>1
    <2> QED BY <1>0, <1>0a, <2>3, <2>4 DEF SubmissionInv
  <1>4. ASSUME UNCHANGED subs PROVE SubmissionInv' /\ subs' \in Submissions
    BY <1>0, <1>4 DEF SubmissionInv
  <1> QED BY <1>1, <1>2, <1>3, <1>4

\* Every turn of the soak keeps the invariant.
LEMMA StepSoak == SoakInv /\ [Next]_vars => SoakInv'
  <1> SUFFICES ASSUME SoakInv, [Next]_vars PROVE SoakInv'
    OBVIOUS
  <1> USE DEF SoakInv
  <1>0. SubmissionInv' /\ subs' \in Submissions
    <2>1. Offer \/ Settle \/ Settled \/ UNCHANGED subs
      BY DEF Next, Draw, Drawn, Turn, TimeIsUp, Heal, Drain, vars
    <2> QED BY <2>1, StepSubmissions
  <1>1. CASE Draw
    <2>1. UNCHANGED <<phase, now, spread, injected, cluster, counts, seen, desyncs, diverged>>
      BY <1>1 DEF Draw
    <2>2. cursor' \in Nat /\ (UNCHANGED faults \/ \E w \in Windows :
            faults' = Append(faults, w) /\ Placeable(w.fault, w.start, w.end))
      BY <1>1, DrawEffect
    <2>3. faults' \in Seq(Windows)
      <3>1. faults \in Seq(Windows) BY DEF TypeOK
      <3>2. \A w \in Windows : Append(faults, w) \in Seq(Windows) BY <3>1
      <3> QED BY <2>2, <3>1, <3>2
    <2>4. ScheduleInv'
      <3>1. CASE UNCHANGED faults
        BY <3>1 DEF ScheduleInv
      <3> QED BY <2>2, <3>1, DrawSchedule
    <2>5. TypeOK' BY <1>0, <2>1, <2>2, <2>3 DEF TypeOK
    <2>6. ClusterInv' BY <2>1 DEF ClusterInv
    <2> QED BY <1>0, <2>4, <2>5, <2>6
  <1>2. CASE Drawn
    <2>1. /\ UNCHANGED <<faults, now, spread, injected, cluster, counts, seen, desyncs, diverged>>
          /\ phase' = "run" /\ cursor' = Duration
      BY <1>2 DEF Drawn
    <2>2. cursor' \in Nat BY <2>1, SoakAssumption DEF ConstantsOK
    <2>3. TypeOK' BY <1>0, <2>1, <2>2 DEF TypeOK
    <2> QED BY <1>0, <2>1, <2>3 DEF ScheduleInv, ClusterInv
  <1>3. CASE Turn
    <2> DEFINE ws == Range(faults)
               to == DesiredOf(ws, now)
    <2>1. /\ phase' \in {"run", "heal"} /\ diverged' \in BOOLEAN
          /\ now' \in (now + Step)..(now + Step + Jitter) /\ spread' = Max({spread, now' - now})
          /\ UNCHANGED <<cursor, faults, subs>>
          /\ seen' = seen \cup {<<w.start, w.end>> : w \in ActiveAt(ws, now)}
          /\ Reconcile(injected, to)
      BY <1>3 DEF Turn
    <2>2. ws \subseteq Windows BY DEF TypeOK, Range
    <2>3. to.cuts \subseteq Links /\ to.crashed \subseteq Nodes BY <2>2, DesiredTyped
    <2>4. to = [cuts |-> to.cuts, crashed |-> to.crashed, latency |-> to.latency]
      BY DEF DesiredOf
    <2>5. now \in Nat /\ cluster = injected /\ desyncs = 0 BY DEF TypeOK, ClusterInv
    <2>6. Contained(to) BY <2>2, <2>5, OutlivesFaults DEF ScheduleInv
    <2> HIDE DEF to
    <2>7. /\ injected' = to /\ cluster' = injected'
          /\ desyncs' = 0 /\ counts' \in [cuts : Nat, kills : Nat, latency : Nat]
      BY <2>1, <2>3, <2>4, <2>5, ReconcileReaches
    <2>8. seen' \subseteq Nat \X Nat
      <3>1. \A w \in ActiveAt(ws, now) : <<w.start, w.end>> \in Nat \X Nat
        BY <2>2 DEF ActiveAt, Windows
      <3>2. seen \subseteq Nat \X Nat BY DEF TypeOK
      <3> QED BY <2>1, <3>1, <3>2
    <2>9. now' \in Nat /\ spread' \in Nat
      <3>1. Step \in Nat /\ Jitter \in Nat /\ spread \in Nat
        BY SoakAssumption DEF ConstantsOK, TypeOK
      <3>2. now' \in Nat /\ now' - now \in Nat BY <2>1, <2>5, <3>1
      <3> QED BY <2>1, <3>1, <3>2, OfTwoNats
    <2>10. TypeOK' BY <1>0, <2>1, <2>3, <2>7, <2>8, <2>9 DEF TypeOK
    <2>11. ClusterInv' BY <2>1, <2>6, <2>7 DEF ClusterInv
    <2> QED BY <1>0, <2>1, <2>10, <2>11 DEF ScheduleInv
  <1>4. CASE TimeIsUp
    <2>1. /\ UNCHANGED <<cursor, faults, now, spread, injected, cluster, counts, seen, desyncs,
                        diverged>>
          /\ phase' = "heal"
      BY <1>4 DEF TimeIsUp
    <2>2. TypeOK' BY <1>0, <2>1 DEF TypeOK
    <2> QED BY <1>0, <2>1, <2>2 DEF ScheduleInv, ClusterInv
  <1>5. CASE Heal
    <2>1. /\ phase' = "drain" /\ Reconcile(injected, Quiet)
          /\ UNCHANGED <<cursor, faults, now, spread, seen, diverged, subs>>
      BY <1>5 DEF Heal
    <2>2. cluster = injected /\ desyncs = 0 BY DEF ClusterInv
    <2>3. Reconcile(injected, [cuts |-> {}, crashed |-> {}, latency |-> 0])
      BY <2>1 DEF Quiet
    <2>4. /\ injected' = [cuts |-> {}, crashed |-> {}, latency |-> 0] /\ cluster' = injected'
          /\ desyncs' = 0 /\ counts' \in [cuts : Nat, kills : Nat, latency : Nat]
      BY <2>2, <2>3, ReconcileReaches
    <2>5. injected' = Quiet BY <2>4 DEF Quiet
    <2>6. TypeOK' BY <1>0, <2>1, <2>4 DEF TypeOK
    <2>7. ClusterInv' BY <2>1, <2>4, <2>5, QuietContained DEF ClusterInv
    <2> QED BY <1>0, <2>1, <2>6, <2>7 DEF ScheduleInv
  <1>6. CASE Drain
    <2>1. /\ UNCHANGED <<cursor, faults, now, spread, injected, cluster, counts, seen, desyncs,
                        diverged>>
          /\ phase = "drain" /\ phase' = "done"
      BY <1>6 DEF Drain
    <2>2. TypeOK' BY <1>0, <2>1 DEF TypeOK
    <2> QED BY <1>0, <2>1, <2>2 DEF ScheduleInv, ClusterInv
  <1>7. CASE UNCHANGED faultVars
    <2>1. TypeOK' BY <1>0, <1>7 DEF TypeOK, faultVars
    <2> QED BY <1>0, <1>7, <2>1 DEF faultVars, ScheduleInv, ClusterInv
  <1> QED BY <1>1, <1>2, <1>3, <1>4, <1>5, <1>6, <1>7
          DEF Next, Offer, Settle, Settled, vars

LEMMA SoakInductive == Spec => []SoakInv
  <1>1. Init => SoakInv
    <2> SUFFICES ASSUME Init PROVE SoakInv
      OBVIOUS
    <2>1. TypeOK
      <3>1. cursor \in Nat BY SoakAssumption DEF Init, ConstantsOK, Gaps
      <3>2. \A c \in {injected, cluster} : c.cuts \subseteq Links /\ c.crashed \subseteq Nodes
        BY DEF Init, Quiet
      <3>3. faults \in Seq(Windows) BY DEF Init
      <3> QED BY <3>1, <3>2, <3>3 DEF Init, TypeOK, NoCounts, Submissions
    <2>2. ScheduleInv
      <3>1. Range(faults) = {} BY DEF Init, Range
      <3>2. \A t : Out({}, t) = {} BY DEF Out, ActiveAt
      <3>3. Cardinality({}) = 0 /\ 0 <= Tolerated BY FS_EmptySet, NodesFinite
      <3> QED BY <3>1, <3>2, <3>3 DEF ScheduleInv
    <2>3. ClusterInv BY QuietContained DEF Init, ClusterInv
    <2>4. SubmissionInv BY DEF Init, SubmissionInv
    <2> QED BY <2>1, <2>2, <2>3, <2>4 DEF SoakInv
  <1> QED BY <1>1, StepSoak, PTL DEF Spec

\* "The majority invariant" of schedule.rs, and soak.rs's reconcile: whatever is
\* drawn and however the faults overlap, a majority of the replicas runs and
\* hears of one another at every moment; the cluster suffers exactly what the
\* windows in force ask for, and nothing once the run is over.
THEOREM SoakContainsFaults == Spec => []FaultsAreContained
  <1>1. SoakInv => FaultsAreContained
    BY DEF SoakInv, ClusterInv, Contained, FaultsAreContained, MajorityConnected,
           ClusterIsAsDesired
  <1> QED BY <1>1, SoakInductive, PTL

\* Once nothing is in flight every submission offered has been counted exactly
\* once (cluster.rs, drain_inflight: "so submission_counts is final").
THEOREM SoakAccounts == Spec => []SubmissionsAccounted
  <1>1. SoakInv => SubmissionsAccounted
    BY DEF SoakInv, TypeOK, Submissions, SubmissionInv, SubmissionsAccounted
  <1> QED BY <1>1, SoakInductive, PTL

-----------------------------------------------------------------------------
(* The postmortem.  What a replica shows is durable before it is shown, so *)
(* that the snapshots still hold it when the run is over.                  *)

Commands == {Decided, Own}
Logs     == Seq(Commands)

\* One log begins the other; a log of nothing but what the cluster decided.
Begins(l, k) == Len(l) <= Len(k) /\ \A i \in 1..Len(l) : l[i] = k[i]
Plain(l)     == \A i \in 1..Len(l) : l[i] = Decided

\* The log that r starts again from, as the set of it.
Survives(r) == IF snapshot[r] = {} THEN {<<>>} ELSE snapshot[r]

\* The disk holds what was shown; a report is of the disk or was torn.
Kept(c)   == \A l \in Survives(c.replica) : c.n <= Len(l) /\ c.h = SubSeq(l, 1, c.n)
Honest(c) == c \in torn \/ Kept(c)
Report(w) == [replica |-> w.replica, n |-> w.n, h |-> w.h]

\* What is published begins what survives, which begins what is applied; a log
\* of a run without a fork holds what the cluster decided.
DiskInv ==
    /\ log \in [Replicas -> Logs] /\ published \in [Replicas -> Logs]
    /\ snapshot \in [Replicas -> SUBSET Logs] /\ forks \in Nat /\ over \in BOOLEAN
    /\ \A r \in Replicas :
        /\ \A l, k \in snapshot[r] : l = k
        /\ ~over => \A l \in Survives(r) : Begins(published[r], l) /\ Begins(l, log[r])
        /\ forks = 0 => Plain(log[r]) /\ \A l \in snapshot[r] : Plain(l)

\* Every witness, and both sides of every divergence, are reports of what the
\* disk holds, or torn; a divergence is of two replicas with different hashes.
ClaimInv ==
    /\ \A w \in obs.witnesses :
        w.replica \in Replicas /\ w.n \in Nat /\ (~over => Honest(Report(w)))
    /\ \A d \in obs.divergences :
        /\ d.first \in Replicas /\ d.other \in Replicas /\ d.first # d.other
        /\ d.n \in Nat /\ d.firstH # d.otherH
        /\ \A c \in Sides(d) : Honest(c)

PostmortemInv == DiskInv /\ ClaimInv

LEMMA BeginsItself == ASSUME NEW l \in Logs PROVE Begins(l, l)
  BY DEF Begins, Logs

LEMMA BeginsLonger ==
    ASSUME NEW l \in Logs, NEW k \in Logs, Begins(l, k), NEW c \in Commands
    PROVE  Append(k, c) \in Logs /\ Begins(l, Append(k, c))
  <1> DEFINE m == Append(k, c)
  <1>1. /\ m \in Logs /\ Len(m) = Len(k) + 1 /\ Len(k) \in Nat /\ Len(l) \in Nat
        /\ \A i \in 1..Len(k) : m[i] = k[i]
    BY DEF Logs
  <1> HIDE DEF m
  <1>2. Begins(l, m) BY <1>1 DEF Begins
  <1> QED BY <1>1, <1>2 DEF m

LEMMA BeginsFurther ==
    ASSUME NEW l \in Logs, NEW k \in Logs, NEW m \in Logs, Begins(l, k), Begins(k, m)
    PROVE  Begins(l, m)
  <1>1. Len(l) \in Nat /\ Len(k) \in Nat /\ Len(m) \in Nat BY DEF Logs
  <1> QED BY <1>1 DEF Begins

LEMMA BeginsNothing == ASSUME NEW l \in Logs PROVE <<>> \in Logs /\ Begins(<<>>, l)
  BY DEF Begins, Logs

\* The first n commands of a log.
LEMMA HeadOfLog ==
    ASSUME NEW l \in Logs, NEW n \in Nat, n <= Len(l)
    PROVE  /\ SubSeq(l, 1, n) \in Logs /\ Len(SubSeq(l, 1, n)) = n
           /\ \A i \in 1..n : SubSeq(l, 1, n)[i] = l[i]
  <1>1. Len(l) \in Nat /\ \A i \in 1..n : l[i] \in Commands BY DEF Logs
  <1>2. /\ SubSeq(l, 1, n) \in Seq(Commands)
        /\ Len(SubSeq(l, 1, n)) = IF 1 <= n THEN n - 1 + 1 ELSE 0
        /\ \A i \in 1..(n - 1 + 1) : SubSeq(l, 1, n)[i] = l[1 + i - 1]
    BY <1>1, SubSeqProperties
  <1>3. Len(SubSeq(l, 1, n)) = n BY <1>2
  <1>4. \A i \in 1..n : SubSeq(l, 1, n)[i] = l[i]
    <2> TAKE i \in 1..n
    <2>1. i \in 1..(n - 1 + 1) /\ 1 + i - 1 = i OBVIOUS
    <2> QED BY <1>2, <2>1
  <1> QED BY <1>2, <1>3, <1>4 DEF Logs

\* Two logs of which one begins the other have the same chain up to the end of
\* the shorter, and two with the same chain hold the same commands.
LEMMA SameHead ==
    ASSUME NEW l \in Logs, NEW k \in Logs, NEW n \in Nat, n <= Len(l), n <= Len(k)
    PROVE  SubSeq(l, 1, n) = SubSeq(k, 1, n) <=> \A i \in 1..n : l[i] = k[i]
  <1> DEFINE a == SubSeq(l, 1, n)
             b == SubSeq(k, 1, n)
  <1>1. a \in Seq(Commands) /\ Len(a) = n /\ \A i \in 1..n : a[i] = l[i]
    BY HeadOfLog DEF Logs
  <1>2. b \in Seq(Commands) /\ Len(b) = n /\ \A i \in 1..n : b[i] = k[i]
    BY HeadOfLog DEF Logs
  <1> HIDE DEF a, b
  <1>3. a = b => \A i \in 1..n : l[i] = k[i] BY <1>1, <1>2
  <1>4. ASSUME \A i \in 1..n : l[i] = k[i] PROVE a = b
    <2>1. \A i \in 1..n : a[i] = b[i] BY <1>1, <1>2, <1>4
    <2>2. DOMAIN a = 1..n /\ DOMAIN b = 1..n BY <1>1, <1>2
    <2>3. a = [i \in 1..n |-> a[i]] /\ b = [i \in 1..n |-> b[i]] BY <1>1, <1>2, <2>2
    <2> QED BY <2>1, <2>3
  <1>5. a = b <=> \A i \in 1..n : l[i] = k[i] BY <1>3, <1>4
  <1> QED BY <1>5 DEF a, b

LEMMA BeginsSameHead ==
    ASSUME NEW l \in Logs, NEW k \in Logs, Begins(l, k), NEW n \in Nat, n <= Len(l)
    PROVE  n <= Len(k) /\ SubSeq(l, 1, n) = SubSeq(k, 1, n)
  <1>1. Len(l) \in Nat /\ Len(k) \in Nat BY DEF Logs
  <1>2. n <= Len(k) /\ \A i \in 1..n : l[i] = k[i] BY <1>1 DEF Begins
  <1> QED BY <1>2, SameHead

-----------------------------------------------------------------------------
\* What survives is one log, and the same as what is saved when there is one.
LEMMA SurvivesOne ==
    ASSUME DiskInv, NEW r \in Replicas
    PROVE  /\ Survives(r) \subseteq Logs /\ \E l \in Survives(r) : Survives(r) = {l}
           /\ \A l \in snapshot[r] : snapshot[r] = {l} /\ Survives(r) = {l}
  <1>1. <<>> \in Logs BY DEF Logs
  <1>2. snapshot[r] \subseteq Logs /\ \A l, k \in snapshot[r] : l = k BY DEF DiskInv
  <1> QED BY <1>1, <1>2 DEF Survives

\* A report of a replica that what survives it only grows beyond stays true.
LEMMA KeptGrows ==
    ASSUME DiskInv, NEW c, c.replica \in Replicas, c.n \in Nat, Kept(c),
           NEW m \in Logs, \A l \in Survives(c.replica) : Begins(l, m),
           Survives(c.replica)' \subseteq {m}
    PROVE  \A k \in Survives(c.replica)' : c.n <= Len(k) /\ c.h = SubSeq(k, 1, c.n)
  <1>1. PICK l \in Survives(c.replica) : Survives(c.replica) = {l} BY SurvivesOne
  <1>2. l \in Logs BY SurvivesOne
  <1>3. c.n <= Len(l) /\ c.h = SubSeq(l, 1, c.n) BY DEF Kept
  <1>4. c.n <= Len(m) /\ c.h = SubSeq(m, 1, c.n) BY <1>2, <1>3, BeginsSameHead
  <1> QED BY <1>4

\* The commands a replica applies, a save, a publication of what is saved and a
\* restart from it: what is published never gets ahead of what survives.
LEMMA StepDisk == ASSUME DiskInv, PostmortemNext PROVE DiskInv'
  <1> USE DEF DiskInv
  <1>0. Decided \in Commands /\ Own \in Commands BY DEF Commands
  <1>1. ASSUME NEW r \in Replicas, NEW c \in Commands, Applied(r, c), forks' \in Nat,
               forks' = 0 => forks = 0 /\ c = Decided
        PROVE  DiskInv'
    <2>1. /\ log' = [log EXCEPT ![r] = Append(@, c)] /\ ~over
          /\ UNCHANGED <<snapshot, published, over>>
      BY <1>1 DEF Applied
    <2>2. log[r] \in Logs /\ \A q \in Replicas : log'[q] = IF q = r THEN Append(log[r], c) ELSE log[q]
      BY <2>1
    <2>3. Append(log[r], c) \in Logs BY <2>2 DEF Logs
    <2>4. log' \in [Replicas -> Logs] BY <2>1, <2>3
    <2>5. \A q \in Replicas : Survives(q)' = Survives(q) /\ Survives(q) \subseteq Logs
      BY <2>1, SurvivesOne DEF Survives
    <2>6. \A l \in Survives(r) : Begins(l, Append(log[r], c))
      BY <2>1, <2>2, <2>5, BeginsLonger
    <2>7. forks' = 0 => Plain(Append(log[r], c))
      <3>1. ASSUME forks' = 0 PROVE Plain(Append(log[r], c))
        <4>1. Plain(log[r]) /\ c = Decided BY <1>1, <3>1
        <4>2. /\ Len(Append(log[r], c)) = Len(log[r]) + 1 /\ Len(log[r]) \in Nat
              /\ \A i \in 1..Len(log[r]) : Append(log[r], c)[i] = log[r][i]
              /\ Append(log[r], c)[Len(log[r]) + 1] = c
          BY <2>2 DEF Logs
        <4>3. 1..(Len(log[r]) + 1) = 1..Len(log[r]) \cup {Len(log[r]) + 1} BY <4>2
        <4> QED BY <4>1, <4>2, <4>3 DEF Plain
      <3> QED BY <3>1
    <2> QED BY <1>1, <2>1, <2>2, <2>4, <2>5, <2>6, <2>7
  <1>2. ASSUME NEW r \in Replicas, Save(r) PROVE DiskInv'
    <2>1. /\ snapshot' = [snapshot EXCEPT ![r] = {log[r]}] /\ ~over
          /\ UNCHANGED <<log, published, over, forks>>
      BY <1>2 DEF Save
    <2>2. log[r] \in Logs /\ published[r] \in Logs OBVIOUS
    <2>3. snapshot' \in [Replicas -> SUBSET Logs] BY <2>1, <2>2
    <2>4. \A q \in Replicas : q # r => Survives(q)' = Survives(q) /\ snapshot'[q] = snapshot[q]
      BY <2>1 DEF Survives
    <2>5. snapshot'[r] = {log[r]} /\ Survives(r)' = {log[r]} BY <2>1 DEF Survives
    <2>6. Begins(published[r], log[r])
      <3>1. PICK l \in Survives(r) : Survives(r) = {l} BY SurvivesOne
      <3>2. l \in Logs /\ Begins(published[r], l) /\ Begins(l, log[r]) BY <2>1, <3>1, SurvivesOne
      <3> QED BY <2>2, <3>2, BeginsFurther
    <2>7. Begins(log[r], log[r]) BY <2>2, BeginsItself
    <2> QED BY <2>1, <2>3, <2>4, <2>5, <2>6, <2>7
  <1>3. ASSUME NEW r \in Replicas, Publish(r) PROVE DiskInv'
    <2>1. /\ published' = [published EXCEPT ![r] = log[r]] /\ snapshot[r] = {log[r]}
          /\ UNCHANGED <<log, snapshot, over, forks>>
      BY <1>3 DEF Publish, Folds
    <2>2. log[r] \in Logs /\ published' \in [Replicas -> Logs] BY <2>1
    <2>3. \A q \in Replicas : Survives(q)' = Survives(q) BY <2>1 DEF Survives
    <2>4. Survives(r) = {log[r]} BY <2>1 DEF Survives
    <2>5. Begins(log[r], log[r]) BY <2>2, BeginsItself
    <2>6. published'[r] = log[r] /\ \A q \in Replicas : q # r => published'[q] = published[q]
      BY <2>1
    <2> QED BY <2>1, <2>2, <2>3, <2>4, <2>5, <2>6
  <1>4. ASSUME NEW r \in Replicas, Kill(r) PROVE DiskInv'
    <2>1. PICK l \in Survives(r) :
            log' = [log EXCEPT ![r] = l] /\ published' = [published EXCEPT ![r] = l]
      BY <1>4 DEF Kill, Survives
    <2>2. ~over /\ UNCHANGED <<snapshot, over, forks>> BY <1>4 DEF Kill
    <2>3. l \in Logs /\ Survives(r) = {l} BY SurvivesOne
    <2>4. log' \in [Replicas -> Logs] /\ published' \in [Replicas -> Logs] BY <2>1, <2>3
    <2>5. \A q \in Replicas : Survives(q)' = Survives(q) BY <2>2 DEF Survives
    <2>6. Begins(l, l) BY <2>3, BeginsItself
    <2>7. forks = 0 => Plain(l)
      <3>1. Plain(<<>>) BY DEF Plain
      <3> QED BY <2>1, <3>1 DEF Survives
    <2>8. log'[r] = l /\ published'[r] = l /\ \A q \in Replicas : q # r =>
            log'[q] = log[q] /\ published'[q] = published[q]
      BY <2>1
    <2> QED BY <2>2, <2>3, <2>4, <2>5, <2>6, <2>7, <2>8
  <1>5. ASSUME NEW r \in Replicas, NEW n, NEW m, Show(r, n, m) PROVE DiskInv'
    <2>1. UNCHANGED <<log, snapshot, published, over, forks>> BY <1>5 DEF Show
    <2> QED BY <2>1 DEF Survives
  <1>6. ASSUME End PROVE DiskInv'
    <2>1. /\ over' = TRUE /\ UNCHANGED <<log, published, forks>>
          /\ \/ snapshot' = [r \in Replicas |-> {}]
             \/ snapshot' = snapshot
      BY <1>6 DEF End
    <2>2. CASE snapshot' = [r \in Replicas |-> {}]
      <3>1. \A r \in Replicas : snapshot'[r] = {} BY <2>2
      <3>2. snapshot' \in [Replicas -> SUBSET Logs] BY <2>2
      <3> QED BY <2>1, <3>1, <3>2
    <2>3. CASE snapshot' = snapshot
      BY <2>1, <2>3
    <2> QED BY <2>1, <2>2, <2>3
  <1>7. ASSUME NEW r \in Replicas, Apply(r) PROVE DiskInv'
    BY <1>0, <1>1, <1>7 DEF Apply
  <1>8. ASSUME NEW r \in Replicas, Fork(r) PROVE DiskInv'
    <2>1. Applied(r, Own) /\ forks' = forks + 1 BY <1>8 DEF Fork
    <2>2. forks' \in Nat /\ forks' # 0 BY <2>1
    <2> QED BY <1>0, <1>1, <2>1, <2>2
  <1> QED BY <1>2, <1>3, <1>4, <1>5, <1>6, <1>7, <1>8 DEF PostmortemNext

\* What the disk holds of a report it still holds after a step, unless the run
\* ends without a divergence and the evidence is deleted.
LEMMA StepKept ==
    ASSUME DiskInv, PostmortemNext, End => obs.divergences # {},
           NEW c, c.replica \in Replicas, c.n \in Nat, Kept(c)
    PROVE  Kept(c)'
  <1>1. CASE snapshot' = snapshot
    BY <1>1 DEF Kept, Survives
  <1>2. ASSUME NEW r \in Replicas, Save(r) PROVE Kept(c)'
    <2>1. snapshot' = [snapshot EXCEPT ![r] = {log[r]}] /\ ~over BY <1>2 DEF Save
    <2>2. CASE c.replica = r
      <3>1. snapshot'[r] = {log[r]} /\ log[r] \in Logs BY <2>1 DEF DiskInv
      <3>2. Survives(c.replica)' = {log[r]} BY <2>2, <3>1 DEF Survives
      <3>3. \A l \in Survives(c.replica) : Begins(l, log[r]) BY <2>1, <2>2 DEF DiskInv
      <3> QED BY <3>1, <3>2, <3>3, KeptGrows DEF Kept
    <2>3. CASE c.replica # r
      <3>1. snapshot'[c.replica] = snapshot[c.replica] BY <2>1, <2>3 DEF DiskInv
      <3>2. Survives(c.replica)' = Survives(c.replica) BY <3>1 DEF Survives
      <3> QED BY <3>2 DEF Kept
    <2> QED BY <2>2, <2>3
  <1>3. CASE End
    BY <1>1, <1>3 DEF End
  <1> QED BY <1>1, <1>2, <1>3
          DEF PostmortemNext, Apply, Fork, Applied, Publish, Kill, Show

LEMMA SideTyped ==
    ASSUME ClaimInv, NEW d \in obs.divergences, NEW c \in Sides(d)
    PROVE  c.replica \in Replicas /\ c.n \in Nat /\ c.n = d.n
  <1>1. d.first \in Replicas /\ d.other \in Replicas /\ d.n \in Nat BY DEF ClaimInv
  <1>2. CASE c = [replica |-> d.first, n |-> d.n, h |-> d.firstH]
    BY <1>1, <1>2
  <1>3. CASE c = [replica |-> d.other, n |-> d.n, h |-> d.otherH]
    BY <1>1, <1>3
  <1> QED BY <1>2, <1>3 DEF Sides

\* A sample is the chain of what is published, which the disk holds, or torn.
LEMMA ShownIsHonest ==
    ASSUME DiskInv, NEW r \in Replicas, NEW n \in 0..Len(published[r]),
           NEW m \in 0..Len(published[r]), Show(r, n, m)
    PROVE  Honest([replica |-> r, n |-> n, h |-> SubSeq(published[r], 1, m)])'
  <1> DEFINE c == [replica |-> r, n |-> n, h |-> SubSeq(published[r], 1, m)]
  <1>1. /\ ~over /\ UNCHANGED <<published, snapshot>>
        /\ torn' = IF n = m THEN torn ELSE torn \cup {c}
    BY DEF Show
  <1>2. published[r] \in Logs /\ published[r]' = published[r] BY <1>1 DEF DiskInv
  <1>3. Len(published[r]) \in Nat /\ n \in Nat /\ n <= Len(published[r]) BY <1>2 DEF Logs
  <1>4. CASE n = m
    <2>1. \A l \in Survives(r) : l \in Logs /\ Begins(published[r], l)
      BY <1>1, SurvivesOne DEF DiskInv
    <2>2. \A l \in Survives(r) : n <= Len(l) /\ SubSeq(published[r], 1, n) = SubSeq(l, 1, n)
      BY <1>2, <1>3, <2>1, BeginsSameHead
    <2>3. Survives(r)' = Survives(r) BY <1>1 DEF Survives
    <2>4. c.replica = r /\ c.n = n /\ c.h = SubSeq(published[r], 1, n) BY <1>4
    <2>5. \A l \in Survives(r)' : n <= Len(l) /\ SubSeq(published[r], 1, n)' = SubSeq(l, 1, n)
      BY <1>2, <2>2, <2>3
    <2> QED BY <1>2, <1>4, <2>4, <2>5 DEF Honest, Kept
  <1>5. CASE n # m
    <2>1. c \in torn' BY <1>1, <1>5
    <2> QED BY <1>2, <2>1 DEF Honest
  <1> QED BY <1>4, <1>5

\* Observer::observe keeps the sample as a witness, or holds it against one.
LEMMA StepClaims == ASSUME DiskInv, ClaimInv, PostmortemNext PROVE ClaimInv'
  <1>0. ASSUME End => obs.divergences # {}, torn \subseteq torn',
               NEW c, c.replica \in Replicas, c.n \in Nat, Honest(c)
        PROVE  Honest(c)'
    <2>1. Kept(c) => Kept(c)' BY <1>0, StepKept
    <2> QED BY <1>0, <2>1 DEF Honest
  <1>1. \A w \in obs.witnesses : Report(w).replica = w.replica /\ Report(w).n = w.n
    BY DEF Report
  <1>2. CASE obs' = obs /\ torn' = torn
    <2>1. ASSUME NEW w \in obs'.witnesses PROVE w.replica \in Replicas /\ w.n \in Nat
      BY <1>2, <2>1 DEF ClaimInv
    <2>2. ASSUME NEW w \in obs'.witnesses, ~over' PROVE Honest(Report(w))'
      <3>1. ~over /\ ~End BY <2>2 DEF PostmortemNext, End, Apply, Fork, Applied, Save, Publish, Kill, Show
      <3>2. Honest(Report(w)) /\ Report(w).replica \in Replicas /\ Report(w).n \in Nat
        BY <1>1, <1>2, <2>2, <3>1 DEF ClaimInv
      <3> QED BY <1>0, <1>2, <3>1, <3>2 DEF Report
    <2>3. ASSUME NEW d \in obs'.divergences, NEW c \in Sides(d) PROVE Honest(c)'
      <3>1. d \in obs.divergences BY <1>2
      <3>2. Honest(c) /\ c.replica \in Replicas /\ c.n \in Nat
        BY <2>3, <3>1, SideTyped DEF ClaimInv
      <3> QED BY <1>0, <1>2, <3>1, <3>2
    <2>4. \A d \in obs'.divergences :
            /\ d.first \in Replicas /\ d.other \in Replicas /\ d.first # d.other
            /\ d.n \in Nat /\ d.firstH # d.otherH
      BY <1>2 DEF ClaimInv
    <2> QED BY <2>1, <2>2, <2>3, <2>4 DEF ClaimInv
  <1>3. ASSUME NEW r \in Replicas, NEW n \in 0..Len(published[r]),
               NEW m \in 0..Len(published[r]), Show(r, n, m)
        PROVE  ClaimInv'
    <2> DEFINE h == SubSeq(published[r], 1, m)
               c == [replica |-> r, n |-> n, h |-> h]
               s == Sample(r, 0, [n |-> n, h |-> h])
    <2>1. /\ ~over /\ over' = over /\ ~End /\ torn \subseteq torn' /\ UNCHANGED published
          /\ obs' = Observe(obs, s)
      BY <1>3 DEF Show, End
    <2>2. Honest(c)' BY <1>3, ShownIsHonest
    <2>3. s.replica = r /\ s.at = 0 /\ s.state.n = n /\ s.state.h = h BY DEF Sample
    <2>4. h' = h /\ n \in Nat BY <2>1
    <2> HIDE DEF h, s
    <2>5. /\ \A w \in obs'.witnesses :
                w \in obs.witnesses \/ w = [n |-> n, replica |-> r, h |-> h]
          /\ obs'.divergences = obs.divergences \cup Found(obs, s)
      BY <2>1, <2>3 DEF Observe
    <2>6. \A w \in obs.witnesses :
            w.replica \in Replicas /\ w.n \in Nat /\ Honest(Report(w)) /\ Honest(Report(w))'
      <3> TAKE w \in obs.witnesses
      <3>1. w.replica \in Replicas /\ w.n \in Nat /\ Honest(Report(w)) BY <2>1 DEF ClaimInv
      <3> QED BY <1>0, <1>1, <2>1, <3>1 DEF Report
    <2>7. ASSUME NEW w \in obs'.witnesses
          PROVE  w.replica \in Replicas /\ w.n \in Nat /\ Honest(Report(w))'
      <3>1. CASE w \in obs.witnesses BY <2>6, <3>1
      <3>2. CASE w = [n |-> n, replica |-> r, h |-> h]
        <4>1. w.replica = r /\ w.n = n /\ w.h = h BY <3>2
        <4>2. Report(w) = c BY <4>1 DEF Report
        <4> QED BY <2>2, <2>4, <4>1, <4>2
      <3> QED BY <2>5, <3>1, <3>2
    <2>8. ASSUME NEW d \in obs.divergences, NEW k \in Sides(d) PROVE Honest(k)'
      <3>1. Honest(k) /\ k.replica \in Replicas /\ k.n \in Nat BY <2>8, SideTyped DEF ClaimInv
      <3> QED BY <1>0, <2>1, <3>1
    <2>9. ASSUME NEW d \in Found(obs, s)
          PROVE  /\ d.first \in Replicas /\ d.other \in Replicas /\ d.first # d.other
                 /\ d.n \in Nat /\ d.firstH # d.otherH
                 /\ \A k \in Sides(d) : Honest(k)'
      <3>1. PICK w \in obs.witnesses :
              /\ d = [n |-> n, first |-> w.replica, firstH |-> w.h,
                      other |-> r, otherH |-> h, at |-> 0]
              /\ w.n = n /\ w.replica # r /\ w.h # h
        BY <2>3 DEF Found, Compared, Witness
      <3>2. /\ d.n = n /\ d.first = w.replica /\ d.firstH = w.h /\ d.other = r /\ d.otherH = h
        BY <3>1
      <3>3. Sides(d) = {Report(w), c} BY <3>1, <3>2 DEF Sides, Report
      <3> QED BY <2>2, <2>4, <2>6, <3>1, <3>2, <3>3
    <2>10. \A d \in obs.divergences :
            /\ d.first \in Replicas /\ d.other \in Replicas /\ d.first # d.other
            /\ d.n \in Nat /\ d.firstH # d.otherH
      BY DEF ClaimInv
    <2> QED BY <2>5, <2>7, <2>8, <2>9, <2>10 DEF ClaimInv
  <1>4. CASE End
    <2>1. over' = TRUE /\ obs' = obs /\ torn' = torn BY <1>4 DEF End
    <2> QED BY <1>2, <2>1
  <1> QED BY <1>2, <1>3, <1>4
          DEF PostmortemNext, Apply, Fork, Applied, Save, Publish, Kill

LEMMA PostmortemInductive == PostmortemSpec => []PostmortemInv
  <1>1. PostmortemInit => PostmortemInv
    <2> SUFFICES ASSUME PostmortemInit PROVE PostmortemInv
      OBVIOUS
    <2>1. <<>> \in Logs /\ Len(<<>>) = 0 BY DEF Logs
    <2>2. \A r \in Replicas : log[r] = <<>> /\ published[r] = <<>> /\ snapshot[r] = {}
      BY DEF PostmortemInit
    <2>3. log \in [Replicas -> Logs] /\ published \in [Replicas -> Logs]
          /\ snapshot \in [Replicas -> SUBSET Logs]
      BY <2>1 DEF PostmortemInit
    <2>4. \A r \in Replicas : Survives(r) = {<<>>} BY <2>2 DEF Survives
    <2>5. Begins(<<>>, <<>>) /\ Plain(<<>>) BY <2>1 DEF Begins, Plain
    <2>6. ASSUME NEW r \in Replicas
          PROVE  /\ \A l, k \in snapshot[r] : l = k
                 /\ \A l \in Survives(r) : Begins(published[r], l) /\ Begins(l, log[r])
                 /\ Plain(log[r]) /\ \A l \in snapshot[r] : Plain(l)
      BY <2>2, <2>4, <2>5
    <2>6a. forks = 0 /\ over = FALSE BY DEF PostmortemInit
    <2>6b. DiskInv BY <2>3, <2>6, <2>6a DEF DiskInv
    <2>7. ClaimInv BY DEF PostmortemInit, NewObserver, ClaimInv
    <2> QED BY <2>6b, <2>7 DEF PostmortemInv
  <1>2. PostmortemInv /\ [PostmortemNext]_postmortemVars => PostmortemInv'
    <2> SUFFICES ASSUME PostmortemInv, [PostmortemNext]_postmortemVars PROVE PostmortemInv'
      OBVIOUS
    <2>1. CASE PostmortemNext
      BY <2>1, StepDisk, StepClaims DEF PostmortemInv
    <2>2. CASE UNCHANGED postmortemVars
      BY <2>2 DEF PostmortemInv, DiskInv, ClaimInv, Survives, Honest, Kept, postmortemVars
    <2> QED BY <2>1, <2>2
  <1> QED BY <1>1, <1>2, PTL DEF PostmortemSpec

-----------------------------------------------------------------------------
\* The least of some natural numbers.
LEMMA LeastNat ==
    ASSUME NEW S, S \subseteq Nat, S # {}
    PROVE  Min(S) \in S /\ \A y \in S : Min(S) <= y
  <1>1. \E x \in S : \A y \in S : x =< y
    <2>1. PICK x \in S : \A y \in S : ~(<<y, x>> \in OpToRel(<, Nat))
      BY NatLessThanWellFounded, WFMin
    <2>2. \A y \in S : ~(y < x) BY <2>1 DEF OpToRel
    <2> QED BY <2>2
  <1> QED BY <1>1 DEF Min

\* compare: two logs differ exactly when they differ at some place both have,
\* and the slot named is no later than any such place.
LEMMA ComparedLogs ==
    ASSUME NEW l \in Logs, NEW k \in Logs
    PROVE  /\ Compare(l, k).verdict = "differ" => Compare(l, k).slot \in Nat
           /\ Plain(l) /\ Plain(k) => Compare(l, k).verdict # "differ"
           /\ \A i \in Nat \ {0} : i <= Len(l) /\ i <= Len(k) /\ l[i] # k[i] =>
                Compare(l, k).verdict = "differ" /\ Compare(l, k).slot < i
  <1> DEFINE overlap == Min({Len(l), Len(k)})
             differ  == {i \in 1..overlap : l[i] # k[i]}
  <1>0. /\ overlap = 0 => Compare(l, k) = [verdict |-> "noOverlap"]
        /\ overlap # 0 /\ differ = {} => Compare(l, k) = [verdict |-> "agree"]
        /\ overlap # 0 /\ differ # {} =>
             Compare(l, k) = [verdict |-> "differ", slot |-> Min(differ) - 1]
    BY DEF Compare
  <1>1. Len(l) \in Nat /\ Len(k) \in Nat BY DEF Logs
  <1>2. overlap \in {Len(l), Len(k)} /\ overlap <= Len(l) /\ overlap <= Len(k)
    <2> DEFINE S == {Len(l), Len(k)}
    <2>1. S \subseteq Nat /\ S # {} BY <1>1
    <2> HIDE DEF S
    <2>2. Min(S) \in S /\ \A y \in S : Min(S) <= y BY <2>1, LeastNat
    <2> QED BY <2>2 DEF S
  <1>3. overlap \in Nat BY <1>1, <1>2
  <1>4. differ # {} => Min(differ) \in differ /\ \A i \in differ : Min(differ) <= i
    <2>1. differ \subseteq Nat BY <1>3
    <2> QED BY <2>1, LeastNat
  <1> HIDE DEF overlap
  <1>5. differ # {} => Min(differ) \in Nat \ {0} BY <1>3, <1>4
  <1>6. Plain(l) /\ Plain(k) => differ = {} BY <1>1, <1>2, <1>3 DEF Plain
  <1>7. \A i \in Nat \ {0} : i <= Len(l) /\ i <= Len(k) /\ l[i] # k[i] => overlap # 0 /\ i \in differ
    BY <1>1, <1>2, <1>3
  <1> HIDE DEF differ
  <1>8. CASE overlap # 0 /\ differ # {}
    <2>1. Compare(l, k) = [verdict |-> "differ", slot |-> Min(differ) - 1] BY <1>0, <1>8
    <2>2. Compare(l, k).verdict = "differ" /\ Compare(l, k).slot = Min(differ) - 1 BY <2>1
    <2> QED BY <1>4, <1>5, <1>6, <1>7, <1>8, <2>2
  <1>9. CASE ~(overlap # 0 /\ differ # {})
    <2>1. overlap = 0 => Compare(l, k).verdict # "differ" BY <1>0
    <2>2. overlap # 0 => Compare(l, k).verdict # "differ" BY <1>0, <1>9
    <2>3. Compare(l, k).verdict # "differ" BY <2>1, <2>2
    <2> QED BY <1>7, <1>9, <2>3
  <1> QED BY <1>8, <1>9

\* Postmortem::pairs: what is compared is what two replicas saved.
LEMMA PairsOfLogs ==
    ASSUME NEW v
    PROVE  v \in Pairs <=> \E p, q \in Replicas : p # q /\
               \E l \in snapshot[p], k \in snapshot[q] : v = Compare(l, k)
  <1> DEFINE Two == {q \in Replicas \X Replicas : q[1] # q[2]}
             Of(p) == {Compare(l, k) : l \in snapshot[p[1]], k \in snapshot[p[2]]}
  <1>1. v \in Pairs <=> \E p \in Two : v \in Of(p) BY DEF Pairs
  <1>2. \A p : v \in Of(p) <=> \E l \in snapshot[p[1]], k \in snapshot[p[2]] : v = Compare(l, k)
    OBVIOUS
  <1> HIDE DEF Of
  <1>3. \A p, q : <<p, q>> \in Two <=> p \in Replicas /\ q \in Replicas /\ p # q
    OBVIOUS
  <1>4. \A p \in Two : \E q, r : p = <<q, r>>
    OBVIOUS
  <1>5. \A q, r : <<q, r>>[1] = q /\ <<q, r>>[2] = r
    OBVIOUS
  <1> HIDE DEF Two
  <1>6. ASSUME NEW p \in Two, v \in Of(p)
        PROVE  \E q, r \in Replicas : q # r /\ \E l \in snapshot[q], k \in snapshot[r] : v = Compare(l, k)
    <2>1. PICK q, r : p = <<q, r>> BY <1>4, <1>6
    <2>2. q \in Replicas /\ r \in Replicas /\ q # r BY <1>3, <2>1
    <2> QED BY <1>2, <1>5, <1>6, <2>1, <2>2
  <1>7. ASSUME NEW q \in Replicas, NEW r \in Replicas, q # r,
               \E l \in snapshot[q], k \in snapshot[r] : v = Compare(l, k)
        PROVE  \E p \in Two : v \in Of(p)
    <2>1. <<q, r>> \in Two BY <1>3, <1>7
    <2>2. v \in Of(<<q, r>>) BY <1>2, <1>5, <1>7
    <2> QED BY <2>1, <2>2
  <1> QED BY <1>1, <1>6, <1>7

LEMMA DifferingSlots ==
    ASSUME DiskInv
    PROVE  /\ Differing \subseteq Nat
           /\ forks = 0 => Differing = {}
           /\ \A p, q \in Replicas : \A l \in snapshot[p], k \in snapshot[q] :
                p # q /\ Compare(l, k).verdict = "differ" => Compare(l, k).slot \in Differing
  <1>1. \A r \in Replicas : snapshot[r] \subseteq Logs BY DEF DiskInv
  <1>2. ASSUME NEW x \in Differing PROVE x \in Nat /\ forks # 0
    <2>1. PICK v \in Pairs : v.verdict = "differ" /\ x = v.slot BY <1>2 DEF Differing
    <2>2. PICK p \in Replicas, q \in Replicas : p # q /\
            \E l \in snapshot[p], k \in snapshot[q] : v = Compare(l, k)
      BY <2>1, PairsOfLogs
    <2>3. PICK l \in snapshot[p], k \in snapshot[q] : v = Compare(l, k) BY <2>2
    <2>4. l \in Logs /\ k \in Logs BY <1>1
    <2>5. x \in Nat /\ ~(Plain(l) /\ Plain(k)) BY <2>1, <2>3, <2>4, ComparedLogs
    <2> QED BY <2>5 DEF DiskInv
  <1>3. \A p, q \in Replicas : \A l \in snapshot[p], k \in snapshot[q] :
          p # q => Compare(l, k) \in Pairs
    BY PairsOfLogs
  <1> QED BY <1>2, <1>3 DEF Differing

\* Postmortem::check: what the disk holds is never contradicted, and confirmed
\* where there is a snapshot.
LEMMA KeptIsConfirmed ==
    ASSUME DiskInv, NEW c, c.replica \in Replicas, c.n \in Nat, Kept(c)
    PROVE  /\ Check(c) # "contradicted"
           /\ snapshot[c.replica] # {} => Check(c) = "confirmed"
  <1>1. CASE snapshot[c.replica] = {}
    BY <1>1 DEF Check
  <1>2. CASE snapshot[c.replica] # {}
    <2>1. PICK l \in snapshot[c.replica] : snapshot[c.replica] = {l} /\ Survives(c.replica) = {l}
      BY <1>2, SurvivesOne
    <2>2. c.n <= Len(l) /\ c.h = SubSeq(l, 1, c.n) BY <2>1 DEF Kept
    <2>3. ChainAt(l, c.n) = {c.h} BY <2>2 DEF ChainAt
    <2>4. UNION {ChainAt(k, c.n) : k \in snapshot[c.replica]} = {c.h} BY <2>1, <2>3
    <2>5. Check(c) = "confirmed" BY <1>2, <2>4 DEF Check
    <2> QED BY <2>5
  <1> QED BY <1>1, <1>2

\* A divergence between two faithful reports is one of the snapshots, at a slot
\* below its height.
LEMMA RealDivergence ==
    ASSUME DiskInv, ClaimInv, NEW d \in obs.divergences, Sides(d) \cap torn = {}
    PROVE  /\ \E x \in Differing : x < d.n
           /\ \A c \in Sides(d) : Check(c) = "confirmed"
  <1> DEFINE a == [replica |-> d.first, n |-> d.n, h |-> d.firstH]
             b == [replica |-> d.other, n |-> d.n, h |-> d.otherH]
  <1>1. /\ d.first \in Replicas /\ d.other \in Replicas /\ d.first # d.other
        /\ d.n \in Nat /\ d.firstH # d.otherH /\ \A c \in Sides(d) : Kept(c)
    BY DEF ClaimInv, Honest
  <1>2. Sides(d) = {a, b} BY DEF Sides
  <1>3. PICK l \in Survives(d.first) : Survives(d.first) = {l} /\ l \in Logs
    BY <1>1, SurvivesOne
  <1>4. PICK k \in Survives(d.other) : Survives(d.other) = {k} /\ k \in Logs
    BY <1>1, SurvivesOne
  <1>5. d.n <= Len(l) /\ d.firstH = SubSeq(l, 1, d.n) BY <1>1, <1>2, <1>3 DEF Kept
  <1>6. d.n <= Len(k) /\ d.otherH = SubSeq(k, 1, d.n) BY <1>1, <1>2, <1>4 DEF Kept
  <1>7. PICK i \in 1..d.n : l[i] # k[i] BY <1>1, <1>3, <1>4, <1>5, <1>6, SameHead
  <1>8. i \in Nat \ {0} /\ i <= d.n /\ i <= Len(l) /\ i <= Len(k)
    <2>1. Len(l) \in Nat /\ Len(k) \in Nat BY <1>3, <1>4 DEF Logs
    <2> QED BY <1>1, <1>5, <1>6, <2>1
  <1>9. snapshot[d.first] = {l} /\ snapshot[d.other] = {k}
    <2>1. l # <<>> /\ k # <<>> BY <1>8
    <2> QED BY <1>3, <1>4, <2>1 DEF Survives
  <1>10. Compare(l, k).verdict = "differ" /\ Compare(l, k).slot < i
    BY <1>3, <1>4, <1>7, <1>8, ComparedLogs
  <1>11. Compare(l, k).slot \in Differing /\ Compare(l, k).slot \in Nat
    <2>1. Compare(l, k).slot \in Differing BY <1>1, <1>9, <1>10, DifferingSlots
    <2> QED BY <2>1, DifferingSlots
  <1>12. Compare(l, k).slot < d.n BY <1>1, <1>8, <1>10, <1>11
  <1>13. Check(a) = "confirmed" /\ Check(b) = "confirmed"
    <2>1. a.replica = d.first /\ a.n = d.n /\ b.replica = d.other /\ b.n = d.n OBVIOUS
    <2>2. Kept(a) /\ Kept(b) BY <1>1, <1>2
    <2> HIDE DEF a, b
    <2> QED BY <1>1, <1>9, <2>1, <2>2, KeptIsConfirmed
  <1> QED BY <1>2, <1>11, <1>12, <1>13

\* postmortem.rs and evidence.rs: whatever is applied, saved, published, killed
\* and torn, and in whatever order, a claim that is contradicted was torn; a
\* divergence of two faithful reports is confirmed and proved by the snapshots
\* at a slot its height covers; and a run without a fork, or whose logs agree,
\* is never blamed on the replicas.
THEOREM PostmortemIsSound == PostmortemSpec => []AdjudicationIsSound
  <1>1. PostmortemInv => AdjudicationIsSound
    <2> SUFFICES ASSUME DiskInv, ClaimInv PROVE AdjudicationIsSound
      BY DEF PostmortemInv
    <2>1. OnlyTornIsContradicted
      <3> SUFFICES ASSUME NEW d \in obs.divergences, NEW c \in Sides(d), Check(c) = "contradicted"
                   PROVE  c \in torn
        BY DEF OnlyTornIsContradicted, Claims
      <3>1. Honest(c) /\ c.replica \in Replicas /\ c.n \in Nat BY SideTyped DEF ClaimInv
      <3> QED BY <3>1, KeptIsConfirmed DEF Honest
    <2>2. RealDivergenceIsProved
      <3> SUFFICES ASSUME NEW d \in obs.divergences, Sides(d) \cap torn = {}
                   PROVE  /\ Verdict = 1
                          /\ \A c \in Sides(d) : Check(c) = "confirmed"
                          /\ \E x \in DisputedSlot : x.why = "earliestDivergence" /\ x.slot < d.n
        BY DEF RealDivergenceIsProved
      <3>1. PICK x \in Differing : x < d.n BY RealDivergence
      <3>2. \A c \in Sides(d) : Check(c) = "confirmed" BY RealDivergence
      <3>3. Verdict = 1 BY <3>1 DEF Verdict
      <3>4. Min(Differing) < d.n
        <4>1. Differing \subseteq Nat BY DifferingSlots
        <4>2. Min(Differing) \in Nat /\ Min(Differing) <= x /\ x \in Nat BY <3>1, <4>1, LeastNat
        <4> QED BY <3>1, <4>2 DEF ClaimInv
      <3>5. DisputedSlot = {[slot |-> Min(Differing), why |-> "earliestDivergence"]}
        BY <3>1 DEF DisputedSlot
      <3> QED BY <3>2, <3>3, <3>4, <3>5
    <2>3. VerdictTellsThemApart
      <3>1. ASSUME Verdict # 1, NEW d \in obs.divergences PROVE Sides(d) \cap torn # {}
        <4>1. Differing = {} BY <3>1 DEF Verdict
        <4> QED BY <4>1, RealDivergence
      <3>2. forks = 0 => Verdict # 1 BY DifferingSlots DEF Verdict
      <3> QED BY <3>1, <3>2 DEF VerdictTellsThemApart
    <2> QED BY <2>1, <2>2, <2>3 DEF AdjudicationIsSound
  <1> QED BY <1>1, PostmortemInductive, PTL
=============================================================================
