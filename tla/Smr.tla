-------------------------------- MODULE Smr ---------------------------------
(***************************************************************************)
(* The replicated log (crates/smr/src/replica.rs and cluster.rs): replicas *)
(* that queue client operations, propose one at a time at their own log    *)
(* frontier, apply whatever the slot decides, and rejoin after a crash by  *)
(* probing for what they missed.                                           *)
(*                                                                         *)
(* A slot is what Consensus promises: it decides once, for everyone, a     *)
(* command that some replica proposed there. The slots' messages, and with *)
(* them the recorders, are in QuePaxa. Slots are numbered from 0, so slot  *)
(* s is chosen[s + 1].                                                     *)
(***************************************************************************)
EXTENDS Kv, FiniteSets

CONSTANTS
    Replicas,
    Script,         \* Script[c]: the operations client c issues, in order
    None,           \* `None` of Option<CurrentAttempt>, Option<(u64, u64)>
    MaxSubmits,     \* MaxSubmits[c]: how often c submits an operation at most
    MaxCrashes,     \* bound on crashes
    MaxGeneration   \* bound on watchdog_generation, for the watchdog's part

ASSUME ReplicasAssumption == IsFiniteSet(Replicas)
ASSUME ScriptAssumption ==
    Script \in [Clients -> Seq([op : {"put"}, key : Keys, value : Values]
                               \cup [op : {"get"}, key : Keys])]
ASSUME BoundsAssumption ==
    MaxSubmits \in [Clients -> Nat] /\ MaxCrashes \in Nat /\ MaxGeneration \in Nat

VARIABLES
    chosen,      \* the commands the slots decided, in slot order
    proposed,    \* commands proposed at the first slot not decided yet;
                 \* what is proposed at a decided slot no longer matters
    log,         \* log[r]: applied_log, durable; next_slot is its length
    kv,          \* kv[r]: the store, durable
    queue,       \* queue[r]: operations waiting for their attempt
    attempt,     \* attempt[r]: the current attempt, or None
    kickoffs,    \* kickoffs[r]: KICKOFF_TIMERs scheduled and not fired
    generation,  \* generation[r]: watchdog_generation
    armedFor,    \* armedFor[r]: watchdog_armed_for
    watchdogs,   \* watchdogs[r]: generations of the watchdog timers not fired,
                 \* the oldest first; all have the same delay
    up,          \* the live replicas
    crashes,     \* crashes so far
    current,     \* current[c]: operations client c has issued
    waiting,     \* clients with an operation in flight
    submits,     \* submits[c]: how often the current one was submitted
    results,     \* the completed records of `results`
    acked,       \* the records a client took while it was waiting for them
    before,      \* before[c][n]: what had been acked when c issued its n-th
    asked        \* asked[r]: slots decided when r's catch-up attempt began

vars == <<chosen, proposed, log, kv, queue, attempt, kickoffs, generation,
          armedFor, watchdogs, up, crashes, current, waiting, submits, results,
          acked, before, asked>>

clientVars == <<current, waiting, submits, acked, before>>

-----------------------------------------------------------------------------
\* Client c's n-th operation; a retry has the same number.
CommandOf(c, n) ==
    LET o == Script[c][n] IN
    IF o.op = "put"
    THEN [op |-> "put", client |-> c, seq |-> n - 1, key |-> o.key, value |-> o.value]
    ELSE [op |-> "get", client |-> c, seq |-> n - 1, key |-> o.key]

NextSlot(r) == Len(log[r])

Attempts == [origin : {"op"}, command : ClientCommands, slot : Nat]
              \cup [origin : {"catch_up"}, command : Probes, slot : Nat]
Records  == [client : Clients, seq : Nat, slot : Nat, outcome : Values \cup {Absent}]

Init ==
    /\ chosen = <<>>
    /\ proposed = {}
    /\ log = [r \in Replicas |-> <<>>]
    /\ kv = [r \in Replicas |-> NewKv]
    /\ queue = [r \in Replicas |-> <<>>]
    /\ attempt = [r \in Replicas |-> None]
    /\ kickoffs = [r \in Replicas |-> 0]
    /\ generation = [r \in Replicas |-> 0]
    /\ armedFor = [r \in Replicas |-> None]
    /\ watchdogs = [r \in Replicas |-> <<>>]
    /\ up = Replicas
    /\ crashes = 0
    /\ current = [c \in Clients |-> 0]
    /\ waiting = {}
    /\ submits = [c \in Clients |-> 0]
    /\ results = {}
    /\ acked = {}
    /\ before = [c \in Clients |-> <<>>]
    /\ asked = [r \in Replicas |-> 0]

ASSUME NoneAssumption == None \notin Attempts

-----------------------------------------------------------------------------
\* A client has one operation in flight at a time (A6): it issues the next
\* one when the last one is acknowledged or given up.
Issue(c) ==
    /\ c \notin waiting
    /\ current[c] < Len(Script[c])
    /\ current' = [current EXCEPT ![c] = @ + 1]
    /\ waiting' = waiting \cup {c}
    /\ submits' = [submits EXCEPT ![c] = 0]
    /\ before' = [before EXCEPT ![c] = Append(@, acked)]
    /\ UNCHANGED <<chosen, proposed, log, kv, queue, attempt, kickoffs, generation,
                   armedFor, watchdogs, up, crashes, results, acked, asked>>

\* submit, first or again, at any replica, a crashed one too: enqueue, and
\* schedule KICKOFF_TIMER if the queue was empty.
Submit(c, r) ==
    /\ c \in waiting
    /\ submits[c] < MaxSubmits[c]
    /\ submits' = [submits EXCEPT ![c] = @ + 1]
    /\ queue' = [queue EXCEPT ![r] = Append(@, CommandOf(c, current[c]))]
    /\ kickoffs' = IF queue[r] = <<>>
                   THEN [kickoffs EXCEPT ![r] = @ + 1] ELSE kickoffs
    /\ UNCHANGED <<chosen, proposed, log, kv, attempt, generation, armedFor,
                   watchdogs, up, crashes, current, waiting, results, acked,
                   before, asked>>

\* The client reads its operation's completed record ...
Acknowledge(c) ==
    /\ c \in waiting
    /\ \E x \in results :
         /\ x.client = c /\ x.seq = current[c] - 1
         /\ acked' = acked \cup {x}
    /\ waiting' = waiting \ {c}
    /\ UNCHANGED <<chosen, proposed, log, kv, queue, attempt, kickoffs, generation,
                   armedFor, watchdogs, up, crashes, current, submits, results,
                   before, asked>>

\* ... or gives up on it.
GiveUp(c) ==
    /\ c \in waiting
    /\ waiting' = waiting \ {c}
    /\ UNCHANGED <<chosen, proposed, log, kv, queue, attempt, kickoffs, generation,
                   armedFor, watchdogs, up, crashes, current, submits, results,
                   acked, before, asked>>

-----------------------------------------------------------------------------
\* The proposals still in play after this step, and with v proposed at slot s.
Open == IF chosen' = chosen THEN proposed ELSE {}

Propose(s, v) == proposed' = IF s = Len(chosen') THEN Open \cup {v} ELSE Open

\* begin_next_attempt with no attempt in flight, queue q and frontier s: start
\* a proposer for the front of the queue.
BeginNextAttempt(r, q, s) ==
    /\ asked' = [asked EXCEPT ![r] = 0]
    /\ IF q = <<>>
       THEN /\ queue' = [queue EXCEPT ![r] = q]
            /\ attempt' = [attempt EXCEPT ![r] = None]
            /\ proposed' = Open
       ELSE /\ queue' = [queue EXCEPT ![r] = Tail(q)]
            /\ attempt' = [attempt EXCEPT ![r] =
                 [origin |-> "op", command |-> Head(q), slot |-> s]]
            /\ Propose(s, Head(q))

\* begin_catch_up with no attempt in flight, and arm_catch_up_watchdog; the
\* timers not fired are w.
BeginCatchUp(r, s, n, w) ==
    /\ attempt' = [attempt EXCEPT ![r] =
         [origin |-> "catch_up", command |-> CatchUpProbe(s), slot |-> s]]
    /\ Propose(s, CatchUpProbe(s))
    /\ asked' = [asked EXCEPT ![r] = n]
    /\ generation' = [generation EXCEPT ![r] = @ + 1]
    /\ armedFor' = [armedFor EXCEPT ![r] = <<s, generation[r] + 1>>]
    /\ watchdogs' = [watchdogs EXCEPT ![r] = Append(w, generation[r] + 1)]

\* on_timer(KICKOFF_TIMER); nothing happens if an attempt is in flight.
Kickoff(r) ==
    /\ r \in up
    /\ kickoffs[r] > 0
    /\ kickoffs' = [kickoffs EXCEPT ![r] = @ - 1]
    /\ UNCHANGED chosen
    /\ IF attempt[r] = None
       THEN BeginNextAttempt(r, queue[r], NextSlot(r))
       ELSE UNCHANGED <<queue, attempt, proposed, asked>>
    /\ UNCHANGED <<log, kv, generation, armedFor, watchdogs, up, crashes,
                   clientVars, results>>

\* What r's slot may turn out to have decided: what it has decided, or, if it
\* has not, anything proposed there.
Decidable(s) ==
    IF s < Len(chosen) THEN {chosen[s + 1]}
    ELSE proposed

\* An attempt that drops the operation when another command wins the slot.
RequeueNothing(r, v) == queue[r]

\* finish_attempt puts an operation that lost its slot back to the front.
Requeue(r, v) ==
    IF attempt[r].origin = "op" /\ v # attempt[r].command
    THEN <<attempt[r].command>> \o queue[r] ELSE queue[r]

\* finish_attempt answers the client when the slot decided its command, by
\* whichever replica that was proposed.
Answers(r, v) == attempt[r].origin = "op" /\ v = attempt[r].command

\* on_message(Response), the attempt's slot decides v -> finish_attempt: apply
\* it, advance, answer the client if the command is its own, and go on with
\* the queue, or with the catch-up while it keeps finding others' commands.
Decide(r, v) ==
    LET a == attempt[r]
        known == Len(chosen')
    IN
    /\ chosen' = IF a.slot < Len(chosen) THEN chosen ELSE Append(chosen, v)
    /\ log' = [log EXCEPT ![r] = Append(@, v)]
    /\ kv' = [kv EXCEPT ![r] = Apply(@, v)]
    /\ results' =
         IF Answers(r, v)
         THEN results \cup {[client |-> a.command.client, seq |-> a.command.seq,
                             slot |-> a.slot, outcome |-> OutcomeOf(kv[r], v)]}
         ELSE results
    /\ IF a.origin = "catch_up" /\ v # a.command
       THEN /\ BeginCatchUp(r, a.slot + 1, known, watchdogs[r])
            /\ UNCHANGED queue
       ELSE /\ BeginNextAttempt(r, Requeue(r, v), a.slot + 1)
            /\ UNCHANGED <<generation, armedFor, watchdogs>>
    /\ UNCHANGED <<kickoffs, up, crashes, clientVars>>

Learn(r) ==
    /\ r \in up
    /\ attempt[r] # None
    /\ \E v \in Decidable(attempt[r].slot) : Decide(r, v)

-----------------------------------------------------------------------------
\* on_catch_up_watchdog, its two tests.
IsStalledCatchUp(r) ==
    /\ armedFor[r] # None
    /\ armedFor[r][2] = generation[r]
    /\ attempt[r] # None
    /\ attempt[r].origin = "catch_up"
    /\ attempt[r].slot = armedFor[r][1]

\* on_timer(CATCH_UP_WATCHDOG_TIMER): the oldest timer fires; drop a stalled
\* catch-up attempt for a fresh one.
Watchdog(r) ==
    /\ r \in up
    /\ watchdogs[r] # <<>>
    /\ UNCHANGED chosen
    /\ IF IsStalledCatchUp(r)
       THEN /\ generation[r] < MaxGeneration
            /\ BeginCatchUp(r, NextSlot(r), Len(chosen), Tail(watchdogs[r]))
       ELSE /\ watchdogs' = [watchdogs EXCEPT ![r] = Tail(@)]
            /\ UNCHANGED <<proposed, attempt, generation, armedFor, asked>>
    /\ UNCHANGED <<log, kv, queue, kickoffs, up, crashes, clientVars, results>>

\* SmrCluster::crash. Volatile state is dropped on restart.
Crash(r) ==
    /\ r \in up
    /\ crashes < MaxCrashes
    /\ crashes' = crashes + 1
    /\ up' = up \ {r}
    /\ UNCHANGED <<chosen, proposed, log, kv, queue, attempt, kickoffs, generation,
                   armedFor, watchdogs, clientVars, results, asked>>

\* The kernel drops a crashed replica's timers as they come due.
DropTimer(r) ==
    /\ r \notin up
    /\ \/ /\ kickoffs[r] > 0
          /\ kickoffs' = [kickoffs EXCEPT ![r] = @ - 1]
          /\ UNCHANGED watchdogs
       \/ /\ watchdogs[r] # <<>>
          /\ watchdogs' = [watchdogs EXCEPT ![r] = Tail(@)]
          /\ UNCHANGED kickoffs
    /\ UNCHANGED <<chosen, proposed, log, kv, queue, attempt, generation, armedFor,
                   up, crashes, clientVars, results, asked>>

\* A restart that keeps the queue and waits for a kickoff.
RestartIdle(r) ==
    /\ r \notin up
    /\ up' = up \cup {r}
    /\ attempt' = [attempt EXCEPT ![r] = None]
    /\ UNCHANGED <<chosen, proposed, log, kv, queue, kickoffs, generation, armedFor,
                   watchdogs, crashes, clientVars, results, asked>>

\* A restart that recovers the log's frontier but not the store.
RestartLosingKv(r) ==
    /\ r \notin up
    /\ up' = up \cup {r}
    /\ queue' = [queue EXCEPT ![r] = <<>>]
    /\ kv' = [kv EXCEPT ![r] = NewKv]
    /\ UNCHANGED chosen
    /\ BeginCatchUp(r, NextSlot(r), Len(chosen), watchdogs[r])
    /\ UNCHANGED <<log, kickoffs, crashes, clientVars, results>>

\* SmrCluster::restart -> on_restart: queue and attempt are gone, timers that
\* have not come due are not; rejoin as a learner.
Restart(r) ==
    /\ r \notin up
    /\ up' = up \cup {r}
    /\ queue' = [queue EXCEPT ![r] = <<>>]
    /\ UNCHANGED chosen
    /\ BeginCatchUp(r, NextSlot(r), Len(chosen), watchdogs[r])
    /\ UNCHANGED <<log, kv, kickoffs, crashes, clientVars, results>>

Next ==
    \/ \E c \in Clients : Issue(c) \/ Acknowledge(c) \/ GiveUp(c)
    \/ \E c \in Clients, r \in Replicas : Submit(c, r)
    \/ \E r \in Replicas : \/ Kickoff(r) \/ Learn(r) \/ Watchdog(r)
                           \/ Crash(r) \/ DropTimer(r) \/ Restart(r)

Spec == Init /\ [][Next]_vars

MajorityUp == 2 * Cardinality(up) > Cardinality(Replicas)

\* Timers of a live replica fire, and a proposer decides while a majority is
\* up (Termination of the slot). Clients, crashes and restarts are free.
Fairness ==
    \A r \in Replicas :
      /\ WF_vars(Kickoff(r))
      /\ WF_vars(MajorityUp /\ Learn(r))

FairSpec == Spec /\ Fairness

-----------------------------------------------------------------------------
\* Type invariant: the types of ReplicaState and of the harness; in addition
\* an attempt targets the frontier (finish_attempt's debug_assert_eq, P7).
TypeOK ==
    /\ chosen \in Seq(Commands)
    /\ proposed \subseteq Commands
    /\ log \in [Replicas -> Seq(Commands)]
    /\ kv \in [Replicas -> Kvs]
    /\ queue \in [Replicas -> Seq(ClientCommands)]
    /\ attempt \in [Replicas -> Attempts \cup {None}]
    /\ \A r \in Replicas : attempt[r] # None => attempt[r].slot = NextSlot(r)
    /\ kickoffs \in [Replicas -> Nat]
    /\ generation \in [Replicas -> Nat]
    /\ armedFor \in [Replicas -> (Nat \X Nat) \cup {None}]
    /\ watchdogs \in [Replicas -> Seq(Nat)]
    /\ up \subseteq Replicas
    /\ crashes \in Nat
    /\ current \in [Clients -> Nat]
    /\ \A c \in Clients : current[c] <= Len(Script[c])
    /\ waiting \subseteq {c \in Clients : current[c] > 0}
    /\ submits \in [Clients -> Nat]
    /\ results \subseteq Records
    /\ acked \subseteq results
    /\ before \in [Clients -> Seq(SUBSET Records)]
    /\ \A c \in Clients : Len(before[c]) = current[c]
    /\ asked \in [Replicas -> Nat]

\* No lost wakeup: a live replica with queued work has an attempt in flight,
\* whose end drains the queue, or a kickoff on its way. submit kicks only on
\* an empty queue, a kickoff during an attempt or a catch-up does nothing, and
\* a crash swallows timers, so this rests on all three together.
QueuedWorkIsDriven ==
    \A r \in up : queue[r] # <<>> => attempt[r] # None \/ kickoffs[r] > 0

\* P5 to P8a: every replica's log is a prefix of the decided one, across
\* crashes, and its store is what the reference makes of that log: each put
\* once, at its first occurrence, however often retries had it decided and
\* even if the client had given it up and gone on.
KvIsReplay ==
    \A r \in Replicas :
      /\ Len(log[r]) <= Len(chosen)
      /\ \A i \in 1..Len(log[r]) : log[r][i] = chosen[i]
      /\ \A k \in Keys : kv[r].map[k] = ValueAfter(chosen, Len(log[r]), k)

\* The slots at which an acknowledged operation may be said to take effect: a
\* put where the log applies it, a get where its reader's record puts it.
EffectSlots(x) ==
    LET cmd == CommandOf(x.client, x.seq + 1) IN
    IF cmd.op = "put"
    THEN {i - 1 : i \in {j \in 1..Len(chosen) : chosen[j] = cmd /\ Effective(chosen, j)}}
    ELSE {x.slot}

\* P8 to P10: the acknowledged operations are linearizable in slot order. An
\* acknowledged put takes effect, at one slot only; an acknowledged get
\* returns the value of the log before its slot; and an operation issued after
\* another was acknowledged takes effect after it, through whichever replicas,
\* retries, lagging or restarted, the two went.
Linearizable ==
    /\ \A x \in acked :
         LET cmd == CommandOf(x.client, x.seq + 1) IN
         /\ Cardinality(EffectSlots(x)) = 1
         /\ cmd.op = "get" => x.outcome = ValueAfter(chosen, x.slot, cmd.key)
    /\ \A y \in acked : \A x \in before[y.client][y.seq + 1] :
         \A i \in EffectSlots(x), j \in EffectSlots(y) : i < j

\* Client c's n-th operation is queued or being attempted at r.
Pending(r, cmd) ==
    \/ attempt[r] # None /\ attempt[r].origin = "op" /\ attempt[r].command = cmd
    \/ \E i \in 1..Len(queue[r]) : queue[r][i] = cmd

\* It is completed, or the replica or the majority is gone.
Settled(r, c, n) ==
    \/ \E x \in results : x.client = c /\ x.seq = n - 1
    \/ r \notin up
    \/ ~MajorityUp

\* P13: an operation a replica has taken on is completed unless the replica
\* crashes or the majority is lost, also behind a catch-up, a stale kickoff or
\* other replicas' commands that keep winning its slots.
OperationsComplete ==
    \A r \in Replicas, c \in Clients : \A n \in 1..Len(Script[c]) :
      Pending(r, CommandOf(c, n)) ~> Settled(r, c, n)

\* Refuted (see the README).
\* finish_attempt: "nothing was pending at this slot before we asked, so we
\* have caught up to the true frontier": a replica that ends its catch-up has
\* applied every slot that was decided when it asked.
CatchUpEndsAtFrontier ==
    [][\A r \in up :
         /\ attempt[r] # None /\ attempt[r].origin = "catch_up"
         /\ attempt'[r] = None \/ attempt'[r].origin = "op"
         => asked[r] <= attempt[r].slot + 1]_vars

\* Refuted (see the README).
\* on_catch_up_watchdog: a firing whose arm a fresher one has superseded "is
\* stale". A watchdog step that re-issues is the newest arm's.
StaleWatchdogIgnored ==
    [][\A r \in up :
         generation'[r] # generation[r] /\ log'[r] = log[r]
           => Head(watchdogs[r]) = generation[r]]_vars
=============================================================================
