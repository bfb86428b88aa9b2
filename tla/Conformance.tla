----------------------------- MODULE Conformance ----------------------------
(***************************************************************************)
(* A conformance run (crates/conformance): a workload submits commands to  *)
(* a cluster, the replicas apply what is decided, and an observer polls    *)
(* the chains they publish (samples_from_chain) or, in process, their logs *)
(* (SimCluster).  The replicas are honest, or apply a command of their own *)
(* at some point, or lose their log: what the observer is there to catch.  *)
(***************************************************************************)
EXTENDS Chain, Observer

CONSTANTS
    Source,         \* "chain", "full", "checkpoints" or "frontier"
    Divergent,      \* replicas that may apply a command of their own
    Forgetful,      \* replicas that may lose their log
    MaxTime, Budget, MaxCommands, MaxStops

\* What the constants must satisfy.
ConstantsOK ==
    /\ ChainConstantsOK /\ IsFiniteSet(Replicas)
    /\ Source \in {"chain", "full", "checkpoints", "frontier"}
    /\ Divergent \subseteq Replicas /\ Forgetful \subseteq Replicas
    /\ MaxTime \in Nat /\ Budget \in Nat /\ MaxCommands \in Nat /\ MaxStops \in Nat
ASSUME ConformanceAssumption == ConstantsOK

VARIABLES
    seq,        \* commands submitted; the target numbers them
    decided,    \* the order the cluster decided
    cursor,     \* cursor[r]: emitted_through, or the state folded so far
    obs,        \* the observer
    now,
    shown,      \* every state a replica showed the observer
    honest,     \* every sample was a state of the replica's log at the poll
    idle,       \* idle[r]: the first poll r answered since it last did anything
    stops

runVars == <<seq, decided, cursor, obs, now, shown, honest, idle, stops>>
vars == <<chainVars, runVars>>

Own(r) == [own |-> r, seq |-> 0]
Cmd(k) == [own |-> "cluster", seq |-> k]

Never == MaxTime + 1
Busy(r) == idle' = [idle EXCEPT ![r] = Never]

Init ==
    /\ ChainInit
    /\ honest = TRUE /\ seq = 0 /\ decided = <<>> /\ now = 0 /\ shown = {} /\ stops = 0
    /\ cursor = [r \in Replicas |-> Genesis]
    /\ obs = NewObserver
    /\ idle = [r \in Replicas |-> Never]

-----------------------------------------------------------------------------
\* The workload: every command is new, renumbered by the target so that none
\* is taken for a duplicate.  A target without a live replica drops it.
Submit ==
    /\ seq < MaxCommands /\ up # {}
    /\ seq' = seq + 1
    /\ UNCHANGED <<chainVars, decided, cursor, obs, now, shown, honest, idle, stops>>

\* The cluster decides a submitted command ...
Decide ==
    /\ \E k \in 1..seq : Cmd(k) \notin Range(decided) /\ decided' = Append(decided, Cmd(k))
    /\ UNCHANGED <<chainVars, seq, cursor, obs, now, shown, honest, idle, stops>>

\* ... which the replicas apply in order, a divergent one something else.
ApplyDecided(r) ==
    /\ Len(log[r]) < Len(decided)
    /\ ApplyCommand(r, decided[Len(log[r]) + 1]) /\ Busy(r)
    /\ UNCHANGED <<seq, decided, cursor, obs, now, shown, honest, stops>>

ApplyOwn(r) ==
    /\ r \in Divergent /\ Len(log[r]) < Len(decided)
    /\ ApplyCommand(r, Own(r)) /\ Busy(r)
    /\ UNCHANGED <<seq, decided, cursor, obs, now, shown, honest, stops>>

Hook(r) ==
    /\ Source = "chain" /\ HookStep(r) /\ Busy(r)
    /\ UNCHANGED <<seq, decided, cursor, obs, now, shown, honest, stops>>

Faulty == stops < MaxStops /\ stops' = stops + 1

StopReplica(r)  == Faulty /\ Stop(r) /\ UNCHANGED <<seq, decided, cursor, obs, now, shown, honest, idle>>
StartReplica(r) ==
    /\ IF Source = "chain" THEN Start(r) ELSE Rise(r) /\ UNCHANGED <<log, foldVars>>
    /\ UNCHANGED runVars

LoseLog(r) ==
    /\ r \in Forgetful /\ Faulty /\ Halt(r)
    /\ log' = [log EXCEPT ![r] = <<>>]
    /\ UNCHANGED <<foldVars, seq, decided, cursor, obs, now, shown, honest, idle>>

-----------------------------------------------------------------------------
\* Mutant: a replica that crossed no checkpoint is not mentioned.
OnlyNews(new, last) == new

\* The frontier is reported in every poll.
WithFrontier(new, last) == new \cup {last}

\* An answer is a sequence of states, the positions of those that are reported,
\* and the cursor it leaves.  samples_from_chain: the checkpoints not reported
\* yet, then the frontier.
FromChain(r) ==
    LET fresh == {i \in 1..Len(table[r]) : table[r][i].n > cursor[r].n}
    IN  [states |-> Append(table[r], frontier[r]),
         told   |-> WithFrontier(fresh, Len(table[r]) + 1),
         cursor |-> IF fresh = {} THEN cursor[r] ELSE table[r][Max(fresh)]]

\* SimCluster::poll_samples: the states beyond the cursor, refolded from the
\* beginning when the log is shorter; the last is the frontier.
FromLog(r) ==
    LET base     == IF Len(log[r]) < cursor[r].n THEN Genesis ELSE cursor[r]
        end      == Len(log[r])
        size     == IF end = base.n THEN 1 ELSE end - base.n
        State(n) == [n |-> n, h |-> base.h \o SubSeq(log[r], base.n + 1, n)]
        pending  == {i \in 1..(end - base.n) : \/ Source = "full"
                                               \/ Source = "checkpoints" /\ Boundary(base.n + i)}
    IN  [states |-> [i \in 1..size |-> State(end - size + i)],
         told   |-> WithFrontier(pending, size),
         cursor |-> State(end)]

\* What observer o holds when it was shown r's answer, in order.
ShownAnswer(o, r, ans) ==
    LET seen[i \in 0..Len(ans.states)] ==
            IF i = 0 THEN o
            ELSE IF i \in ans.told THEN Observe(seen[i - 1], Sample(r, now, ans.states[i]))
            ELSE seen[i - 1]
    IN  seen[Len(ans.states)]

\* The observer is shown the answers of the replicas, one after the other.
ShownAnswers(order, answer) ==
    LET seen[i \in 0..Len(order)] ==
            IF i = 0 THEN obs ELSE ShownAnswer(seen[i - 1], order[i], answer[order[i]])
    IN  seen[Len(order)]

Answered(rs, answer) ==
    LET news == UNION {{[replica |-> r, state |-> answer[r].states[i]] : i \in answer[r].told} : r \in rs}
    IN  /\ obs' = ShownAnswers(SetToSeq(rs), answer)
        /\ cursor' = [r \in Replicas |-> IF r \in rs THEN answer[r].cursor ELSE cursor[r]]
        /\ shown' = shown \cup news
        /\ honest' = (honest /\ \A s \in news : s.state = StateOf(log[s.replica], s.state.n))
        /\ idle' = [r \in Replicas |-> IF r \in rs /\ idle[r] = Never THEN now ELSE idle[r]]

\* A running node's /chain is read at some moment, also in the middle of a
\* pass or of the refold after a restart.
PollNode(r) ==
    /\ Source = "chain" /\ r \in up
    /\ Answered({r}, [q \in {r} |-> FromChain(q)])
    /\ UNCHANGED <<chainVars, seq, decided, now, stops>>

\* The simulated cluster is polled as a whole, its stopped replicas too.
PollAll ==
    /\ Source # "chain"
    /\ Answered(Replicas, [q \in Replicas |-> FromLog(q)])
    /\ UNCHANGED <<chainVars, seq, decided, now, stops>>

Tick == now < MaxTime /\ now' = now + 1
        /\ UNCHANGED <<chainVars, seq, decided, cursor, obs, shown, honest, idle, stops>>

Next ==
    \/ Submit \/ Decide \/ Tick \/ PollAll
    \/ \E r \in Replicas :
        \/ ApplyDecided(r) \/ ApplyOwn(r) \/ Hook(r)
        \/ StopReplica(r) \/ StartReplica(r) \/ LoseLog(r) \/ PollNode(r)

Spec == Init /\ [][Next]_vars

-----------------------------------------------------------------------------
\* What is promised of a replica is promised as long as it keeps its log.
Steady == Replicas \ Forgetful

\* Every divergence the observer records is one: the two replicas' logs differ
\* in the prefix of that height (observer.rs, Divergence; chain.rs, the torn
\* frontier of issue #73).
NoFalseAlarm ==
    \A d \in obs.divergences : {d.first, d.other} \subseteq Steady =>
        StateOf(log[d.first], d.n) # StateOf(log[d.other], d.n)

\* No divergence escapes the checkpoints: when two replicas whose logs differ
\* have been polled past a boundary they share, something has been recorded,
\* however their polls, passes and restarts were interleaved (observer.rs,
\* "Safety"; source.rs, samples_from_chain).  Frontiers alone promise nothing
\* (source.rs, FrontierOnly).
Shared(p, q) == {n \in 1..Min({Len(log[p]), Len(log[q])}) :
                    Boundary(n) /\ n <= cursor[p].n /\ n <= cursor[q].n}

DivergenceIsFound ==
    Source # "frontier" => \A p, q \in Steady : \A n \in Shared(p, q) :
        /\ Len(log[p]) <= Ring * Spacing /\ Len(log[q]) <= Ring * Spacing
        /\ StateOf(log[p], n) # StateOf(log[q], n)
        => \E d \in obs.divergences : d.n = n

\* A replica that does nothing is reported as stalled once the budget is over
\* and another was seen ahead of it, also when it never crossed a checkpoint
\* or has stopped answering (samples_from_chain: "a crashed replica,
\* publishing nothing new, becomes invisible exactly when it matters").
StallIsReported ==
    \A r \in Steady :
        /\ idle[r] # Never /\ now - idle[r] > Budget
        /\ Len(log[r]) < ClusterFrontier(obs)
        => r \in Stalls(obs, now, Budget)

\* The observer's verdict is exact: what it records is a divergence, none
\* escapes the checkpoints both replicas were polled past, and a replica that
\* does nothing while another is ahead is reported (observer.rs, source.rs).
VerdictIsExact == NoFalseAlarm /\ DivergenceIsFound /\ StallIsReported

\* Refuted (see the README).
\* What observer.rs says of its verdict: "no two replicas may ever show a
\* different h at the same n ... Violations are recorded as Divergence".
ShownDivergenceIsRecorded ==
    \A a, b \in shown :
        a.replica # b.replica /\ a.state.n = b.state.n /\ a.state.h # b.state.h
        => \E d \in obs.divergences : d.n = a.state.n

\* Refuted (see the README).
\* What source.rs says of a log that was rewritten: it refolds "so the sample
\* reflects the log as it actually is now", and does not assume that a log only
\* grows.
SamplesReflectTheLog == honest
=============================================================================
