------------------------------- MODULE Client -------------------------------
(***************************************************************************)
(* The retrying client and its server side (crates/net/src/client.rs),     *)
(* driven by the load generator (bench.rs): operations are released on a   *)
(* tick or by closed-loop workers, borrow a session, and are submitted to  *)
(* one replica address after another until one answers.  An attempt that   *)
(* is given up leaves its command in the replica.  The replicated log is   *)
(* reduced to the order in which submitted commands are decided; the store *)
(* is the one of Kv.                                                       *)
(***************************************************************************)
EXTENDS Kv, FiniteSets, SequencesExt

CONSTANTS
    NumAddrs,       \* size of the address pool
    ReliableSets,   \* what `reliable` may be
    MaxRounds,      \* ClientConfig::max_rounds
    Kinds,          \* the kinds of operations in the mix
    OpenLoop,       \* open_loop_run or closed_loop_run
    Admission,      \* concurrency * ADMISSION_MULTIPLE
    Target,         \* StopCondition::target_ops
    MaxOps,         \* bound on operations released
    MaxDowns        \* bound on replicas going down

\* What the constants must satisfy.
ClientConstantsOK ==
    /\ IsFiniteSet(Clients) /\ 1..MaxOps \subseteq Values /\ Absent \notin ClientCommands
    /\ NumAddrs \in Nat \ {0} /\ \A A \in ReliableSets : A \subseteq 0..(NumAddrs - 1)
    /\ MaxRounds \in Nat /\ Admission \in Nat \ {0} /\ Target \in Nat /\ MaxDowns \in Nat
    /\ MaxOps \in Nat /\ MaxOps >= Target + Admission /\ Kinds \subseteq {"get", "put"}
ASSUME ClientAssumption == ClientConstantsOK

VARIABLES
    reliable,   \* addresses that neither crash nor time out in this run
    issued,     \* operations released so far
    task,       \* task[o]: where operation o is
    session,    \* session[o]: the session it holds, Absent: none
    command,    \* command[o]: its command
    start,      \* start[o]: the first address of its submit
    tries,      \* tries[o]: the attempts made, or being made
    result,     \* result[o]: the sample sent for it
    pool,       \* the sessions that are not checked out
    next_seq,   \* next_seq[s]
    cursor,     \* Client::cursor
    op_counter, \* finished and shed operations
    stopped,    \* the generator has left its loop
    submitted,  \* submissions in the replicas
    listening,  \* addresses that accept connections
    downs,      \* replicas gone down so far
    decided, kvstore    \* the decided commands and the store after them

genVars == <<issued, pool, next_seq, op_counter, stopped>>
opVars  == <<task, session, command, start, tries, result>>
smrVars == <<reliable, submitted, listening, downs, decided, kvstore>>
runVars == <<genVars, opVars, cursor, smrVars>>

Ops   == 1..MaxOps
Addrs == 0..(NumAddrs - 1)

\* `0` is treated as `1`.
Rounds   == IF MaxRounds = 0 THEN 1 ELSE MaxRounds
MaxAttempts == Rounds * NumAddrs

ClientTypeOK ==
    /\ reliable \subseteq Addrs
    /\ issued \in 0..MaxOps
    /\ task \in [Ops -> {"none", "queued", "dial", "wait", "backoff", "done"}]
    /\ session \in [Ops -> Clients \cup {Absent}]
    /\ start \in [Ops -> Addrs] /\ tries \in [Ops -> 0..MaxAttempts]
    /\ result \in [Ops -> {"none", "ok", "failed", "shed"}]
    /\ pool \in Seq(Clients) /\ Len(pool) <= Cardinality(Clients)
    /\ next_seq \in [Clients -> 0..MaxOps] /\ cursor \in 0..MaxOps
    /\ op_counter \in 0..MaxOps /\ stopped \in BOOLEAN
    /\ \A p \in submitted : p.op \in Ops /\ p.addr \in Addrs /\ p.heard \in BOOLEAN
    /\ listening \subseteq Addrs /\ downs \in 0..MaxDowns
    /\ \A i \in 1..Len(decided) : \E o \in Ops : decided[i] = command[o]
    /\ op_counter = Cardinality({o \in Ops : result[o] # "none"})

ClientInit ==
    /\ reliable \in ReliableSets
    /\ issued = 0 /\ op_counter = 0 /\ stopped = FALSE /\ cursor = 0
    /\ pool \in {s \in [1..Cardinality(Clients) -> Clients] : IsInjective(s)}
    /\ next_seq = [s \in Clients |-> 0]
    /\ task = [o \in Ops |-> "none"] /\ session = [o \in Ops |-> Absent]
    /\ command = [o \in Ops |-> Absent] /\ start = [o \in Ops |-> 0]
    /\ tries = [o \in Ops |-> 0] /\ result = [o \in Ops |-> "none"]
    /\ submitted = {} /\ listening \in {A \in SUBSET Addrs : reliable \subseteq A} /\ downs = 0
    /\ decided = <<>> /\ kvstore = NewKv

-----------------------------------------------------------------------------
\* The generator.  StopCondition::should_stop; a deadline may pass at any time.

Unfinished == {o \in Ops : task[o] \in {"queued", "dial", "wait", "backoff"}}
TargetMet  == op_counter >= Target

StopRun ==
    /\ ~stopped /\ stopped' = TRUE
    /\ UNCHANGED <<issued, pool, next_seq, op_counter, opVars, cursor, smrVars>>

\* do_one_op: the next number of the session, a command, and Client::submit
\* from the next start of the rotation.
Command(s, o, kind) ==
    IF kind = "put"
    THEN [op |-> "put", client |-> s, seq |-> next_seq[s], key |-> ProbeKey, value |-> o]
    ELSE [op |-> "get", client |-> s, seq |-> next_seq[s], key |-> ProbeKey]

Begin(o, s) ==
    /\ session' = [session EXCEPT ![o] = s]
    /\ next_seq' = [next_seq EXCEPT ![s] = @ + 1]
    /\ \E kind \in Kinds : command' = [command EXCEPT ![o] = Command(s, o, kind)]
    /\ start' = [start EXCEPT ![o] = cursor % NumAddrs]
    /\ cursor' = cursor + 1
    /\ task' = [task EXCEPT ![o] = "dial"]
    /\ tries' = [tries EXCEPT ![o] = 1]

\* closed_loop_run: an idle worker starts its next operation at once.
WorkerOp(k) ==
    /\ ~OpenLoop /\ ~stopped /\ ~TargetMet /\ issued < MaxOps
    /\ issued' = issued + 1
    /\ Begin(issued + 1, pool[k])
    /\ pool' = RemoveAt(pool, k)
    /\ UNCHANGED <<op_counter, stopped, result, smrVars>>

\* open_loop_run, a tick: the operation is admitted, or shed as a failure.
Admit ==
    /\ OpenLoop /\ ~stopped /\ ~TargetMet /\ issued < MaxOps
    /\ Cardinality(Unfinished) < Admission
    /\ issued' = issued + 1
    /\ task' = [task EXCEPT ![issued + 1] = "queued"]
    /\ UNCHANGED <<pool, next_seq, op_counter, stopped, session, command, start, tries, result,
                   cursor, smrVars>>

Shed ==
    /\ OpenLoop /\ ~stopped /\ ~TargetMet /\ issued < MaxOps
    /\ Cardinality(Unfinished) = Admission
    /\ issued' = issued + 1
    /\ task' = [task EXCEPT ![issued + 1] = "done"]
    /\ result' = [result EXCEPT ![issued + 1] = "shed"]
    /\ op_counter' = op_counter + 1
    /\ UNCHANGED <<pool, next_seq, stopped, session, command, start, tries, cursor, smrVars>>

\* An admitted operation receives a session from the pool.
Lend(p) == Tail(p)

CheckOut(o) ==
    /\ task[o] = "queued" /\ pool # <<>>
    /\ Begin(o, Head(pool))
    /\ pool' = Lend(pool)
    /\ UNCHANGED <<issued, op_counter, stopped, result, smrVars>>

\* The operation is over: its sample, and its session back to the pool.
\* Mutant: a failed operation keeps its session.
GiveBackIfOk(r, s) == IF r = "ok" THEN Append(pool, s) ELSE pool

GiveBack(r, s) == Append(pool, s)

CountOp(r) == op_counter + 1

Finish(o, r) ==
    /\ task' = [task EXCEPT ![o] = "done"]
    /\ result' = [result EXCEPT ![o] = r]
    /\ op_counter' = CountOp(r)
    /\ pool' = GiveBack(r, session[o])
    /\ UNCHANGED <<issued, next_seq, stopped, session, command, start, tries, cursor>>

-----------------------------------------------------------------------------
\* Client::submit.  Attempt n is offset n - 1 of the rotation.

Addr(o) == (start[o] + tries[o] - 1) % NumAddrs

\* One attempt has failed: the next address, after a pause at the end of a
\* round, or the last error.
Advance(o) ==
    IF tries[o] = MaxAttempts THEN Finish(o, "failed")
    ELSE /\ tries' = [tries EXCEPT ![o] = @ + 1]
         /\ task' = [task EXCEPT ![o] = IF tries[o] % NumAddrs = 0 THEN "backoff" ELSE "dial"]
         /\ UNCHANGED <<genVars, session, command, start, result, cursor>>

Backoff(o) ==
    /\ task[o] = "backoff"
    /\ task' = [task EXCEPT ![o] = "dial"]
    /\ UNCHANGED <<genVars, session, command, start, tries, result, cursor, smrVars>>

\* submit: connect and send; serve_one_client passes the command to the driver.
Submission(o) == [op |-> o, addr |-> Addr(o), n |-> tries[o], heard |-> TRUE]

DialReplica(o) ==
    /\ task[o] = "dial" /\ Addr(o) \in listening
    /\ task' = [task EXCEPT ![o] = "wait"]
    /\ submitted' = submitted \cup {Submission(o)}
    /\ UNCHANGED <<genVars, session, command, start, tries, result, cursor, reliable, listening,
                   downs, decided, kvstore>>

DialFails(o) ==
    /\ task[o] = "dial" /\ Addr(o) \notin listening
    /\ Advance(o)
    /\ UNCHANGED smrVars

\* attempt_timeout: nobody hears the answer any more, but the command stays.
Deaf(P) == {[p EXCEPT !.heard = FALSE] : p \in P}

AttemptTimesOut(o) ==
    /\ task[o] = "wait" /\ Addr(o) \notin reliable
    /\ Advance(o)
    /\ LET P == {p \in submitted : p.op = o}
       IN  submitted' = (submitted \ P) \cup Deaf(P)
    /\ UNCHANGED <<reliable, listening, downs, decided, kvstore>>

\* A command in some replica is decided; the replicas whose proposals were
\* waiting for it complete them, and the one somebody still listens to is
\* answered.
DecideCommand(o) ==
    \E S \in SUBSET {p \in submitted : p.op = o} :
        /\ S # {}
        /\ decided' = Append(decided, command[o])
        /\ kvstore' = Apply(kvstore, command[o])
        /\ submitted' = submitted \ S
        /\ IF \E p \in S : p.heard
           THEN Finish(o, "ok")
           ELSE UNCHANGED <<genVars, opVars, cursor>>
        /\ UNCHANGED <<reliable, listening, downs>>

\* A replica goes down with its connections.  What it had proposed may be
\* decided by the others all the same, or may be gone.
GoDown(a) ==
    /\ a \in listening \ reliable /\ downs < MaxDowns
    /\ downs' = downs + 1
    /\ listening' = listening \ {a}
    /\ \E gone \in SUBSET {p \in submitted : p.addr = a} :
          submitted' = {p \in submitted : p.addr # a} \cup Deaf({p \in submitted : p.addr = a} \ gone)
    /\ UNCHANGED <<genVars, opVars, cursor, reliable, decided, kvstore>>

ComeUp(a) ==
    /\ a \in Addrs \ listening
    /\ listening' = listening \cup {a}
    /\ UNCHANGED <<genVars, opVars, cursor, reliable, submitted, downs, decided, kvstore>>

\* The connection of a waiting attempt was closed by a crash.
Hangup(o) ==
    /\ task[o] = "wait" /\ ~ \E p \in submitted : p.op = o /\ p.heard
    /\ Advance(o)
    /\ UNCHANGED smrVars

Generate == Admit \/ Shed \/ \E k \in 1..Len(pool) : WorkerOp(k)
Task(o)  == \/ CheckOut(o) \/ Backoff(o) \/ DialReplica(o) \/ DialFails(o)
            \/ AttemptTimesOut(o) \/ DecideCommand(o) \/ Hangup(o)

ClientNext ==
    \/ StopRun \/ Generate
    \/ \E o \in Ops : Task(o)
    \/ \E a \in Addrs : GoDown(a) \/ ComeUp(a)

ClientSpec == ClientInit /\ [][ClientNext]_runVars

\* The generator ticks and the operations' tasks run: an attempt is answered,
\* refused or timed out.
ClientFairness == WF_runVars(Generate) /\ \A o \in Ops : WF_runVars(Task(o))

ClientFairSpec == ClientSpec /\ ClientFairness

-----------------------------------------------------------------------------
First(c) == CHOOSE i \in 1..Len(decided) : decided[i] = c /\ \A j \in 1..(i - 1) : decided[j] # c
PutOps   == {o \in Ops : command[o] # Absent /\ command[o].op = "put"}
InLog(o) == \E i \in 1..Len(decided) : decided[i] = command[o]

\* A put a caller was told of took effect, once and for good: the store holds
\* it or a put that entered the log later, although copies of retried and of
\* given-up puts are decided at any time (client.rs, Client::submit; kv.rs,
\* the soundness precondition A6 that the session pool must keep).
AckedPutsHold ==
    \A o \in PutOps : result[o] = "ok" =>
        \E q \in PutOps : /\ InLog(q) /\ First(command[q]) >= First(command[o])
                         /\ kvstore.map[ProbeKey] = command[q].value

\* A client survives the loss of replicas: while one address of its pool
\* answers, no operation is reported as failed (Client::submit, "retrying
\* against the next address in the pool on any connection failure, I/O error,
\* or per-attempt timeout").
SurvivesReplicaLoss == reliable # {} => \A o \in Ops : result[o] # "failed"

\* What a caller of submit may rely on: an acknowledged put holds, whatever
\* copies of it and of given-up puts are decided, and while one replica of the
\* pool answers no operation fails (client.rs, bench.rs, kv.rs).
SubmissionsHold == AckedPutsHold /\ SurvivesReplicaLoss

\* The run ends with a sample for every operation it released, whatever the
\* replicas do (bench.rs: the session pool, the admission semaphore and the
\* stop condition never wait for one another).
RunEnds == <>[](Unfinished = {} /\ (TargetMet \/ stopped))
=============================================================================
