------------------------------ MODULE LinCheck ------------------------------
(***************************************************************************)
(* The linearizability checker (crates/smr/src/linearizability.rs) and the *)
(* time stamps the cluster driver hands it (cluster.rs, next_invoked_at),  *)
(* run beside the executions it judges. The driver submits operations and  *)
(* the replicas complete them, at the kernel's time, which stands still    *)
(* between events and outside run_until, which dispatches all that is due; *)
(* an operation whose replica crashed never completes.                     *)
(* What the checker is told are the records; what really preceded what is  *)
(* kept in `preceded`.                                                     *)
(***************************************************************************)
EXTENDS Kv, FiniteSets

CONSTANTS
    Menu,     \* the commands the driver may submit, duplicates allowed
    MaxOps,   \* bound on submissions
    MaxTime,  \* bound on the kernel's clock
    Honest,   \* the replicas answer with what the operation really observed
    Never     \* completed_at of an operation without a response

\* What the constants must satisfy.
ConstantsOK ==
    /\ Menu \subseteq ClientCommands
    /\ MaxOps \in Nat /\ MaxTime \in Nat /\ Honest \in BOOLEAN /\ Never \notin Nat

VARIABLES
    now,       \* the kernel's clock
    running,   \* run_until may still dispatch events at this time
    records,   \* results: records[i] is the OpRecord of OpId i
    preceded,  \* preceded[i]: the operations completed when i was submitted
    store,     \* the object the operations act on, one at a time
    observed   \* observed[i]: what i found there, once it has taken effect

vars == <<now, running, records, preceded, store, observed>>

Ops == 1..Len(records)

-----------------------------------------------------------------------------
\* A time stamp for a submission that is the clock's reading only.
InvokedNow == now

\* next_invoked_at: the clock, or just past the last completion.
NextInvokedAt ==
    LET C == {records[i].completed : i \in Ops} \ {Never}
    IN  CHOOSE t \in {now} \cup {c + 1 : c \in C} :
          \A u \in {now} \cup {c + 1 : c \in C} : t >= u

\* history_from_records: operations that never completed are dropped.
History == {i \in Ops : records[i].completed # Never}

\* must_precede.
MustPrecede(i, j) == i # j /\ records[i].completed < records[j].invoked

\* One operation's recorded outcome against the reference state.
Matches(i, kv) ==
    records[i].command.op = "get"
      => records[i].outcome = OutcomeOf(kv, records[i].command)

\* search: place any operation none of whose predecessors is unplaced. The
\* memo of (used, state) branches that failed only saves repeated work.
RECURSIVE Search(_, _)
Search(used, kv) ==
    \/ used = History
    \/ \E i \in History \ used :
         /\ \A j \in History \ used : ~MustPrecede(j, i)
         /\ Matches(i, kv)
         /\ Search(used \cup {i}, Apply(kv, records[i].command))

\* is_linearizable.
IsLinearizable == Search({}, NewKv)

-----------------------------------------------------------------------------
Init ==
    /\ now = 0
    /\ running = TRUE
    /\ records = <<>>
    /\ preceded = <<>>
    /\ store = NewKv
    /\ observed = <<>>

\* The clock moves to the next event.
Tick ==
    /\ now < MaxTime
    /\ now' = now + 1
    /\ running' = TRUE
    /\ UNCHANGED <<records, preceded, store, observed>>

\* submit, outside run_until: nothing more happens at this time.
Submit(cmd) ==
    /\ Len(records) < MaxOps
    /\ records' = Append(records, [command |-> cmd, invoked |-> NextInvokedAt,
                                   completed |-> Never, outcome |-> Absent])
    /\ preceded' = Append(preceded, History)
    /\ observed' = Append(observed, <<>>)
    /\ running' = FALSE
    /\ UNCHANGED <<now, store>>

\* The operation takes effect, somewhere in the cluster.
TakeEffect(i) ==
    /\ Honest /\ running
    /\ observed[i] = <<>>
    /\ observed' = [observed EXCEPT ![i] = <<OutcomeOf(store, records[i].command)>>]
    /\ store' = Apply(store, records[i].command)
    /\ UNCHANGED <<now, running, records, preceded>>

\* finish_attempt completes the record. Unless Honest, with any outcome.
Complete(i) ==
    /\ running
    /\ records[i].completed = Never
    /\ \E out \in IF records[i].command.op = "put" THEN {Absent}
                  ELSE IF Honest THEN {observed[i][k] : k \in 1..Len(observed[i])}
                  ELSE Values \cup {Absent} :
         records' = [records EXCEPT ![i].completed = now, ![i].outcome = out]
    /\ Honest => observed[i] # <<>>
    /\ UNCHANGED <<now, running, preceded, store, observed>>

Next ==
    \/ Tick
    \/ \E cmd \in Menu : Submit(cmd)
    \/ \E i \in Ops : TakeEffect(i) \/ Complete(i)

Spec == Init /\ [][Next]_vars

-----------------------------------------------------------------------------
\* The reference: some order of the completed operations that respects what
\* really preceded what, in which every get returns the value the puts before
\* it leave, each put counted once per client and number.
Orders(S) ==
    {o \in [1..Cardinality(S) -> S] : \A a, b \in 1..Cardinality(S) : o[a] = o[b] => a = b}

Linearizable ==
    \E o \in Orders(History) :
      LET l == [a \in DOMAIN o |-> records[o[a]].command] IN
      \A a \in DOMAIN o :
        /\ \A b \in DOMAIN o : o[b] \in preceded[o[a]] => b < a
        /\ l[a].op = "get" => records[o[a]].outcome = ValueAfter(l, a - 1, l[a].key)

\* The checker is exact: whatever outcomes the replicas report, it accepts the
\* history iff an order exists, judged by what really preceded what and not
\* by time stamps, which may tie; duplicate submissions included.
CheckerExact == IsLinearizable <=> Linearizable

\* When no operation was left without a response, the checker accepts every
\* history of an object on which operations take effect one at a time between
\* their submission and their response.
CompleteHistoriesAccepted == History = Ops => IsLinearizable

\* Refuted (see the README).
\* history_from_records: "ignore operations with no response, since nothing
\* was ever observed for them to be inconsistent with": the checker accepts
\* every history of operations that take effect one at a time between their
\* submission and their response.
AtomicHistoriesAccepted == IsLinearizable
=============================================================================
