----------------------------- MODULE LogProofs ------------------------------
(***************************************************************************)
(* Theorems about the replicated log, for any number of replicas, clients, *)
(* operations, retries, crashes and watchdog firings; about the tuner that *)
(* names the leaders of its slots, for any number of replicas, length of   *)
(* epochs and order in which replicas learn; and about the clients that    *)
(* retry their submissions, for any number of sessions, replicas, rounds   *)
(* and operations.                                                         *)
(***************************************************************************)
EXTENDS Smr, Tuner, Client, FiniteSetTheorems, WellFoundedInduction, TLAPS

\* What a client issues is a well-formed command of its own.
LEMMA CommandTyped ==
    ASSUME NEW c \in Clients, NEW n \in 1..Len(Script[c])
    PROVE  CommandOf(c, n) \in ClientCommands
  <1> DEFINE Wanted == [op : {"put"}, key : Keys, value : Values] \cup [op : {"get"}, key : Keys]
  <1>1. Script[c] \in Seq(Wanted) BY ScriptAssumption
  <1>2. Script[c][n] \in Wanted BY <1>1
  <1>3. n - 1 \in Nat BY <1>1
  <1>4. CASE Script[c][n].op = "put"
    <2>1. Script[c][n] \in [op : {"put"}, key : Keys, value : Values] BY <1>2, <1>4
    <2> QED BY <2>1, <1>3, <1>4 DEF CommandOf, ClientCommands, Puts
  <1>5. CASE Script[c][n].op # "put"
    <2>1. Script[c][n] \in [op : {"get"}, key : Keys] BY <1>2, <1>5
    <2> QED BY <2>1, <1>3, <1>5 DEF CommandOf, ClientCommands, Gets
  <1> QED BY <1>4, <1>5

\* apply keeps the store's type, and what it reports is a value or none.
LEMMA ApplyTyped ==
    ASSUME NEW k \in Kvs, NEW cmd \in Commands
    PROVE  /\ Apply(k, cmd) \in Kvs
           /\ OutcomeOf(k, cmd) \in Values \cup {Absent}
  <1>1. CASE cmd.op = "get"
    <2>1. Apply(k, cmd) = k BY <1>1 DEF Apply
    <2>2. cmd.key \in Keys BY DEF Commands, ClientCommands, Puts, Gets, Probes
    <2> QED BY <1>1, <2>1, <2>2 DEF OutcomeOf, Kvs
  <1>2. CASE cmd.op # "get"
    <2>1. cmd \in Puts BY <1>2 DEF Commands, ClientCommands, Gets, Probes
    <2>2. cmd.key \in Keys /\ cmd.value \in Values /\ cmd.client \in Clients /\ cmd.seq \in Nat
      BY <2>1 DEF Puts
    <2>3. OutcomeOf(k, cmd) = Absent BY <1>2 DEF OutcomeOf
    <2> QED BY <1>2, <2>2, <2>3 DEF Apply, Kvs
  <1> QED BY <1>1, <1>2

LEMMA ProbeTyped ==
    ASSUME NEW s \in Nat PROVE CatchUpProbe(s) \in Probes
  BY ReservedAssumption DEF CatchUpProbe, Probes, Gets

-----------------------------------------------------------------------------
\* Type correctness.
LEMMA InitTypes == Init => TypeOK
  <1>1. NewKv \in Kvs BY DEF NewKv, Kvs
  <1>2. \A c \in Clients : Len(Script[c]) \in Nat BY ScriptAssumption
  <1> QED BY <1>1, <1>2 DEF Init, TypeOK, NextSlot

LEMMA NextAttemptTypes ==
    ASSUME TypeOK, NEW r \in Replicas, NEW q \in Seq(ClientCommands), NEW s \in Nat,
           BeginNextAttempt(r, q, s)
    PROVE  /\ queue' \in [Replicas -> Seq(ClientCommands)]
           /\ attempt' \in [Replicas -> Attempts \cup {None}]
           /\ attempt'[r] # None => attempt'[r].slot = s
           /\ \A x \in Replicas \ {r} : attempt'[x] = attempt[x]
           /\ proposed' \subseteq Commands
           /\ asked' \in [Replicas -> Nat]
  <1>1. asked' \in [Replicas -> Nat] BY DEF BeginNextAttempt, TypeOK
  <1>2. Open \subseteq Commands BY DEF Open, TypeOK
  <1>3. CASE q = <<>>
    BY <1>1, <1>2, <1>3 DEF BeginNextAttempt, TypeOK
  <1>4. CASE q # <<>>
    <2>1. Head(q) \in ClientCommands /\ Tail(q) \in Seq(ClientCommands) BY <1>4
    <2> DEFINE a == [origin |-> "op", command |-> Head(q), slot |-> s]
    <2>2. a \in Attempts /\ a.slot = s BY <2>1 DEF Attempts
    <2>3. queue' = [queue EXCEPT ![r] = Tail(q)] /\ attempt' = [attempt EXCEPT ![r] = a]
      BY <1>4 DEF BeginNextAttempt
    <2>4. proposed' \subseteq Commands
      BY <1>2, <1>4, <2>1 DEF BeginNextAttempt, Propose, Commands
    <2> HIDE DEF a
    <2> QED BY <1>1, <2>1, <2>2, <2>3, <2>4 DEF TypeOK
  <1> QED BY <1>3, <1>4

LEMMA CatchUpTypes ==
    ASSUME TypeOK, NEW r \in Replicas, NEW s \in Nat, NEW n \in Nat, NEW w \in Seq(Nat),
           BeginCatchUp(r, s, n, w)
    PROVE  /\ attempt' \in [Replicas -> Attempts \cup {None}]
           /\ attempt'[r].slot = s
           /\ \A x \in Replicas \ {r} : attempt'[x] = attempt[x]
           /\ proposed' \subseteq Commands
           /\ asked' \in [Replicas -> Nat]
           /\ generation' \in [Replicas -> Nat]
           /\ armedFor' \in [Replicas -> (Nat \X Nat) \cup {None}]
           /\ watchdogs' \in [Replicas -> Seq(Nat)]
           /\ attempt'[r] # None
  <1> DEFINE a == [origin |-> "catch_up", command |-> CatchUpProbe(s), slot |-> s]
  <1>1. a \in Attempts /\ a.slot = s BY ProbeTyped DEF Attempts
  <1>2. attempt' = [attempt EXCEPT ![r] = a] BY DEF BeginCatchUp
  <1>3. proposed' \subseteq Commands
    BY ProbeTyped DEF BeginCatchUp, Propose, Open, Commands, TypeOK
  <1>4. generation[r] + 1 \in Nat BY DEF TypeOK
  <1>5. Append(w, generation[r] + 1) \in Seq(Nat) BY <1>4
  <1>6. /\ asked' \in [Replicas -> Nat]
        /\ generation' \in [Replicas -> Nat]
        /\ armedFor' \in [Replicas -> (Nat \X Nat) \cup {None}]
        /\ watchdogs' \in [Replicas -> Seq(Nat)]
    BY <1>4, <1>5 DEF BeginCatchUp, TypeOK
  <1> HIDE DEF a
  <1> QED BY <1>1, <1>2, <1>3, <1>6, NoneAssumption DEF TypeOK

\* What finish_attempt leaves in the queue is made of client operations.
LEMMA RequeueTyped ==
    ASSUME TypeOK, NEW r \in Replicas, attempt[r] \in Attempts, NEW v
    PROVE  Requeue(r, v) \in Seq(ClientCommands)
  <1> DEFINE a == attempt[r]
  <1>1. CASE a.origin = "op" /\ v # a.command
    <2>1. a.command \in ClientCommands BY <1>1 DEF Attempts
    <2>2. <<a.command>> \in Seq(ClientCommands) BY <2>1
    <2>3. Requeue(r, v) = <<a.command>> \o queue[r] BY <1>1 DEF Requeue
    <2> QED BY <2>2, <2>3 DEF TypeOK
  <1>2. CASE ~(a.origin = "op" /\ v # a.command)
    BY <1>2 DEF Requeue, TypeOK
  <1> QED BY <1>1, <1>2

\* finish_attempt, whatever the slot decided.
LEMMA LearnTypes ==
    ASSUME TypeOK, NEW r \in Replicas, Learn(r)
    PROVE  TypeOK'
  <1>1. attempt[r] # None /\ attempt[r] \in Attempts
    BY DEF Learn, TypeOK
  <1>2. PICK v \in Decidable(attempt[r].slot) : Decide(r, v)
    BY DEF Learn
  <1> DEFINE a == attempt[r]
  <1>3. a.slot = Len(log[r]) /\ a.slot \in Nat
    BY <1>1 DEF TypeOK, NextSlot
  <1>4. v \in Commands
    <2>1. CASE a.slot < Len(chosen)
      <3>1. a.slot + 1 \in 1..Len(chosen) BY <1>3, <2>1 DEF TypeOK
      <3>2. v = chosen[a.slot + 1] BY <1>2, <2>1 DEF Decidable
      <3> QED BY <3>1, <3>2 DEF TypeOK
    <2>2. CASE ~(a.slot < Len(chosen))
      BY <1>2, <2>2 DEF Decidable, TypeOK
    <2> QED BY <2>1, <2>2
  <1>5. chosen' \in Seq(Commands)
    BY <1>2, <1>4 DEF Decide, TypeOK
  <1>6. Len(chosen') \in Nat BY <1>5
  <1>7. /\ log' \in [Replicas -> Seq(Commands)]
        /\ log'[r] = Append(log[r], v)
        /\ Len(log'[r]) = a.slot + 1
        /\ \A x \in Replicas \ {r} : log'[x] = log[x]
    BY <1>2, <1>3, <1>4 DEF Decide, TypeOK
  <1>8. kv' \in [Replicas -> Kvs]
    BY <1>2, <1>4, ApplyTyped DEF Decide, TypeOK
  <1>9. results' \subseteq Records /\ results \subseteq results'
    <2>1. CASE Answers(r, v)
      <3>1. a.origin = "op" BY <2>1 DEF Answers
      <3>2. a.command \in ClientCommands BY <1>1, <3>1 DEF Attempts
      <3>3. a.command.client \in Clients /\ a.command.seq \in Nat
        BY <3>2 DEF ClientCommands, Puts, Gets
      <3>4. OutcomeOf(kv[r], v) \in Values \cup {Absent}
        BY <1>4, ApplyTyped DEF TypeOK
      <3>5. results' = results \cup
              {[client |-> a.command.client, seq |-> a.command.seq, slot |-> a.slot,
                outcome |-> OutcomeOf(kv[r], v)]}
        BY <1>2, <2>1 DEF Decide
      <3> QED BY <1>3, <3>3, <3>4, <3>5 DEF Records, TypeOK
    <2>2. CASE ~Answers(r, v)
      BY <1>2, <2>2 DEF Decide, TypeOK
    <2> QED BY <2>1, <2>2
  <1>10. /\ queue' \in [Replicas -> Seq(ClientCommands)]
         /\ attempt' \in [Replicas -> Attempts \cup {None}]
         /\ attempt'[r] # None => attempt'[r].slot = a.slot + 1
         /\ \A x \in Replicas \ {r} : attempt'[x] = attempt[x]
         /\ proposed' \subseteq Commands
         /\ asked' \in [Replicas -> Nat]
         /\ generation' \in [Replicas -> Nat]
         /\ armedFor' \in [Replicas -> (Nat \X Nat) \cup {None}]
         /\ watchdogs' \in [Replicas -> Seq(Nat)]
    <2>1. CASE a.origin = "catch_up" /\ v # a.command
      <3>1. BeginCatchUp(r, a.slot + 1, Len(chosen'), watchdogs[r]) /\ UNCHANGED queue
        BY <1>2, <2>1 DEF Decide
      <3>2. watchdogs[r] \in Seq(Nat) /\ a.slot + 1 \in Nat BY <1>3 DEF TypeOK
      <3> QED BY <1>6, <3>1, <3>2, CatchUpTypes DEF TypeOK
    <2>2. CASE ~(a.origin = "catch_up" /\ v # a.command)
      <3>1. /\ BeginNextAttempt(r, Requeue(r, v), a.slot + 1)
            /\ UNCHANGED <<generation, armedFor, watchdogs>>
        BY <1>2, <2>2 DEF Decide
      <3>2. Requeue(r, v) \in Seq(ClientCommands) BY <1>1, RequeueTyped
      <3>3. a.slot + 1 \in Nat BY <1>3
      <3> QED BY <3>1, <3>2, <3>3, NextAttemptTypes DEF TypeOK
    <2> QED BY <2>1, <2>2
  <1>11. \A x \in Replicas : attempt'[x] # None => attempt'[x].slot = NextSlot(x)'
    BY <1>7, <1>10 DEF TypeOK, NextSlot
  <1>12. UNCHANGED <<kickoffs, up, crashes, clientVars>>
    BY <1>2 DEF Decide
  <1> QED BY <1>5, <1>7, <1>8, <1>9, <1>10, <1>11, <1>12 DEF TypeOK, clientVars

\* Every other step keeps the types.
LEMMA StepTypes == TypeOK /\ [Next]_vars => TypeOK'
  <1> SUFFICES ASSUME TypeOK, [Next]_vars PROVE TypeOK'
    OBVIOUS
  <1>1. ASSUME NEW c \in Clients, Issue(c) PROVE TypeOK'
    <2>1. acked \subseteq Records BY DEF TypeOK
    <2>2. Append(before[c], acked) \in Seq(SUBSET Records)
      BY <2>1 DEF TypeOK
    <2>3. before' \in [Clients -> Seq(SUBSET Records)]
      BY <1>1, <2>2 DEF Issue, TypeOK
    <2>4. \A x \in Clients : Len(before'[x]) = current'[x]
      BY <1>1, <2>2 DEF Issue, TypeOK
    <2>5. Len(Script[c]) \in Nat BY ScriptAssumption
    <2>6. \A x \in Clients : current'[x] <= Len(Script[x])
      BY <1>1, <2>5 DEF Issue, TypeOK
    <2>7. waiting' \subseteq {x \in Clients : current'[x] > 0}
      BY <1>1 DEF Issue, TypeOK
    <2> QED BY SMTT(90), <1>1, <2>3, <2>4, <2>6, <2>7 DEF Issue, TypeOK, NextSlot
  <1>2. ASSUME NEW c \in Clients, Acknowledge(c) PROVE TypeOK'
    BY <1>2 DEF Acknowledge, TypeOK, NextSlot
  <1>3. ASSUME NEW c \in Clients, GiveUp(c) PROVE TypeOK'
    BY <1>3 DEF GiveUp, TypeOK, NextSlot
  <1>4. ASSUME NEW c \in Clients, NEW r \in Replicas, Submit(c, r) PROVE TypeOK'
    <2>1. current[c] \in 1..Len(Script[c])
      <3>1. c \in waiting BY <1>4 DEF Submit
      <3>2. current[c] \in Nat /\ current[c] > 0 /\ current[c] <= Len(Script[c])
        BY <3>1 DEF TypeOK
      <3>3. Len(Script[c]) \in Nat BY ScriptAssumption
      <3> QED BY <3>2, <3>3
    <2>2. Append(queue[r], CommandOf(c, current[c])) \in Seq(ClientCommands)
      BY <2>1, CommandTyped DEF TypeOK
    <2>3. queue' \in [Replicas -> Seq(ClientCommands)]
      BY <1>4, <2>2 DEF Submit, TypeOK
    <2>4. kickoffs' \in [Replicas -> Nat]
      <3>1. CASE queue[r] = <<>>
        <4>1. kickoffs' = [kickoffs EXCEPT ![r] = @ + 1] BY <1>4, <3>1 DEF Submit
        <4> QED BY <4>1 DEF TypeOK
      <3>2. CASE queue[r] # <<>>
        <4>1. kickoffs' = kickoffs BY <1>4, <3>2 DEF Submit
        <4> QED BY <4>1 DEF TypeOK
      <3> QED BY <3>1, <3>2
    <2>5. submits' \in [Clients -> Nat]
      <3>1. submits' = [submits EXCEPT ![c] = @ + 1] BY <1>4 DEF Submit
      <3> QED BY <3>1 DEF TypeOK
    <2>6. UNCHANGED <<chosen, proposed, log, kv, attempt, generation, armedFor,
                      watchdogs, up, crashes, current, waiting, results, acked,
                      before, asked>>
      BY <1>4 DEF Submit
    <2> QED BY <2>3, <2>4, <2>5, <2>6 DEF TypeOK, NextSlot
  <1>5. ASSUME NEW r \in Replicas, Kickoff(r) PROVE TypeOK'
    <2>1. kickoffs' \in [Replicas -> Nat] BY <1>5 DEF Kickoff, TypeOK
    <2>2. UNCHANGED <<chosen, log, kv, generation, armedFor, watchdogs, up, crashes,
                      clientVars, results>>
      BY <1>5 DEF Kickoff
    <2>3. CASE attempt[r] = None
      <3>1. BeginNextAttempt(r, queue[r], NextSlot(r)) BY <1>5, <2>3 DEF Kickoff
      <3>2. queue[r] \in Seq(ClientCommands) /\ NextSlot(r) \in Nat
        BY DEF TypeOK, NextSlot
      <3>3. /\ queue' \in [Replicas -> Seq(ClientCommands)]
            /\ attempt' \in [Replicas -> Attempts \cup {None}]
            /\ attempt'[r] # None => attempt'[r].slot = NextSlot(r)
            /\ \A x \in Replicas \ {r} : attempt'[x] = attempt[x]
            /\ proposed' \subseteq Commands
            /\ asked' \in [Replicas -> Nat]
        BY <3>1, <3>2, NextAttemptTypes
      <3>4. \A x \in Replicas : attempt'[x] # None => attempt'[x].slot = NextSlot(x)'
        BY <2>2, <3>3 DEF TypeOK, NextSlot
      <3> QED BY <2>1, <2>2, <3>3, <3>4 DEF TypeOK, clientVars
    <2>4. CASE attempt[r] # None
      BY <1>5, <2>1, <2>2, <2>4 DEF Kickoff, TypeOK, NextSlot, clientVars
    <2> QED BY <2>3, <2>4
  <1>6. ASSUME NEW r \in Replicas, Watchdog(r) PROVE TypeOK'
    <2>1. UNCHANGED <<chosen, log, kv, queue, kickoffs, up, crashes, clientVars, results>>
      BY <1>6 DEF Watchdog
    <2>2. Tail(watchdogs[r]) \in Seq(Nat) BY <1>6 DEF Watchdog, TypeOK
    <2>3. CASE IsStalledCatchUp(r)
      <3>1. BeginCatchUp(r, NextSlot(r), Len(chosen), Tail(watchdogs[r]))
        BY <1>6, <2>3 DEF Watchdog
      <3>2. NextSlot(r) \in Nat /\ Len(chosen) \in Nat BY DEF TypeOK, NextSlot
      <3>3. /\ attempt' \in [Replicas -> Attempts \cup {None}]
            /\ attempt'[r].slot = NextSlot(r)
            /\ \A x \in Replicas \ {r} : attempt'[x] = attempt[x]
            /\ proposed' \subseteq Commands
            /\ asked' \in [Replicas -> Nat]
            /\ generation' \in [Replicas -> Nat]
            /\ armedFor' \in [Replicas -> (Nat \X Nat) \cup {None}]
            /\ watchdogs' \in [Replicas -> Seq(Nat)]
        BY <2>2, <3>1, <3>2, CatchUpTypes
      <3>4. \A x \in Replicas : attempt'[x] # None => attempt'[x].slot = NextSlot(x)'
        BY <2>1, <3>3 DEF TypeOK, NextSlot
      <3> QED BY <2>1, <3>3, <3>4 DEF TypeOK, clientVars
    <2>4. CASE ~IsStalledCatchUp(r)
      BY <1>6, <2>1, <2>2, <2>4 DEF Watchdog, TypeOK, NextSlot, clientVars
    <2> QED BY <2>3, <2>4
  <1>7. ASSUME NEW r \in Replicas, Crash(r) PROVE TypeOK'
    BY SMTT(30), <1>7 DEF Crash, TypeOK, NextSlot, clientVars
  <1>8. ASSUME NEW r \in Replicas, DropTimer(r) PROVE TypeOK'
    <2>1. UNCHANGED <<chosen, proposed, log, kv, queue, attempt, generation, armedFor,
                      up, crashes, clientVars, results, asked>>
      BY <1>8 DEF DropTimer
    <2>2. CASE kickoffs[r] > 0 /\ kickoffs' = [kickoffs EXCEPT ![r] = @ - 1]
                 /\ UNCHANGED watchdogs
      <3>1. kickoffs' \in [Replicas -> Nat] BY <2>2 DEF TypeOK
      <3> QED BY <2>1, <2>2, <3>1 DEF TypeOK, NextSlot, clientVars
    <2>3. CASE watchdogs[r] # <<>> /\ watchdogs' = [watchdogs EXCEPT ![r] = Tail(@)]
                 /\ UNCHANGED kickoffs
      <3>1. Tail(watchdogs[r]) \in Seq(Nat) BY <2>3 DEF TypeOK
      <3>2. watchdogs' \in [Replicas -> Seq(Nat)] BY <2>3, <3>1 DEF TypeOK
      <3> QED BY <2>1, <2>3, <3>2 DEF TypeOK, NextSlot, clientVars
    <2> QED BY <1>8, <2>2, <2>3 DEF DropTimer
  <1>9. ASSUME NEW r \in Replicas, Restart(r) PROVE TypeOK'
    <2>1. /\ queue' \in [Replicas -> Seq(ClientCommands)]
          /\ up' \subseteq Replicas
          /\ UNCHANGED <<chosen, log, kv, kickoffs, crashes, clientVars, results>>
      BY <1>9 DEF Restart, TypeOK
    <2>2. BeginCatchUp(r, NextSlot(r), Len(chosen), watchdogs[r]) BY <1>9 DEF Restart
    <2>3. NextSlot(r) \in Nat /\ Len(chosen) \in Nat /\ watchdogs[r] \in Seq(Nat)
      BY DEF TypeOK, NextSlot
    <2>4. /\ attempt' \in [Replicas -> Attempts \cup {None}]
          /\ attempt'[r].slot = NextSlot(r)
          /\ \A x \in Replicas \ {r} : attempt'[x] = attempt[x]
          /\ proposed' \subseteq Commands
          /\ asked' \in [Replicas -> Nat]
          /\ generation' \in [Replicas -> Nat]
          /\ armedFor' \in [Replicas -> (Nat \X Nat) \cup {None}]
          /\ watchdogs' \in [Replicas -> Seq(Nat)]
      BY <2>2, <2>3, CatchUpTypes
    <2>5. \A x \in Replicas : attempt'[x] # None => attempt'[x].slot = NextSlot(x)'
      BY <2>1, <2>4 DEF TypeOK, NextSlot
    <2> QED BY <2>1, <2>4, <2>5 DEF TypeOK, clientVars
  <1>10. CASE UNCHANGED vars
    BY <1>10 DEF TypeOK, vars, NextSlot
  <1> QED BY <1>1, <1>2, <1>3, <1>4, <1>5, <1>6, <1>7, <1>8, <1>9, <1>10, LearnTypes DEF Next

\* Every variable keeps its type, and an attempt always targets its replica's
\* frontier: finish_attempt's debug_assert_eq (P7) never fails.
THEOREM LogTypeCorrectness == Spec => []TypeOK
  BY InitTypes, StepTypes, PTL DEF Spec

-----------------------------------------------------------------------------
\* begin_next_attempt leaves a replica without work or with an attempt, and
\* begin_catch_up with an attempt.
LEMMA NextAttemptDrives ==
    ASSUME TypeOK, NEW r \in Replicas, NEW q \in Seq(ClientCommands), NEW s \in Nat,
           BeginNextAttempt(r, q, s)
    PROVE  /\ queue'[r] # <<>> => attempt'[r] # None
           /\ \A x \in Replicas \ {r} : queue'[x] = queue[x] /\ attempt'[x] = attempt[x]
  <1>1. CASE q = <<>>
    BY <1>1 DEF BeginNextAttempt, TypeOK
  <1>2. CASE q # <<>>
    <2> DEFINE a == [origin |-> "op", command |-> Head(q), slot |-> s]
    <2>1. a \in Attempts BY <1>2 DEF Attempts
    <2>2. attempt' = [attempt EXCEPT ![r] = a] /\ queue' = [queue EXCEPT ![r] = Tail(q)]
      BY <1>2 DEF BeginNextAttempt
    <2>3. a # None BY <2>1, NoneAssumption
    <2> HIDE DEF a
    <2> QED BY <2>2, <2>3 DEF TypeOK
  <1> QED BY <1>1, <1>2

\* One step: the actions that touch the queue, the attempt, the kickoffs or
\* the set of live replicas, each on its own.
LEMMA StepDrives == TypeOK /\ QueuedWorkIsDriven /\ [Next]_vars => QueuedWorkIsDriven'
  <1> SUFFICES ASSUME TypeOK, QueuedWorkIsDriven, [Next]_vars PROVE QueuedWorkIsDriven'
    OBVIOUS
  <1>1. ASSUME UNCHANGED <<queue, attempt, kickoffs, up>> PROVE QueuedWorkIsDriven'
    BY <1>1 DEF QueuedWorkIsDriven
  <1>2. ASSUME NEW c \in Clients, NEW r \in Replicas, Submit(c, r)
        PROVE  QueuedWorkIsDriven'
    <2>1. UNCHANGED <<attempt, up>> BY <1>2 DEF Submit
    <2>2. \A x \in Replicas \ {r} : queue'[x] = queue[x] /\ kickoffs'[x] = kickoffs[x]
      BY <1>2 DEF Submit, TypeOK
    <2>3. CASE queue[r] = <<>>
      <3>1. kickoffs' = [kickoffs EXCEPT ![r] = @ + 1] BY <1>2, <2>3 DEF Submit
      <3>2. kickoffs'[r] > 0 BY <3>1 DEF TypeOK
      <3> QED BY <2>1, <2>2, <3>2 DEF QueuedWorkIsDriven, TypeOK
    <2>4. CASE queue[r] # <<>>
      <3>1. kickoffs' = kickoffs BY <1>2, <2>4 DEF Submit
      <3> QED BY <2>1, <2>2, <2>4, <3>1 DEF QueuedWorkIsDriven, TypeOK
    <2> QED BY <2>3, <2>4
  <1>3. ASSUME NEW r \in Replicas, Kickoff(r) PROVE QueuedWorkIsDriven'
    <2>1. /\ up' = up
          /\ \A x \in Replicas \ {r} : kickoffs'[x] = kickoffs[x]
      BY <1>3 DEF Kickoff, TypeOK
    <2>2. CASE attempt[r] = None
      <3>1. BeginNextAttempt(r, queue[r], NextSlot(r)) BY <1>3, <2>2 DEF Kickoff
      <3>2. queue[r] \in Seq(ClientCommands) /\ NextSlot(r) \in Nat
        BY DEF TypeOK, NextSlot
      <3>3. /\ queue'[r] # <<>> => attempt'[r] # None
            /\ \A x \in Replicas \ {r} : queue'[x] = queue[x] /\ attempt'[x] = attempt[x]
        BY <3>1, <3>2, NextAttemptDrives
      <3> QED BY <2>1, <3>3 DEF QueuedWorkIsDriven, TypeOK
    <2>3. CASE attempt[r] # None
      <3>1. UNCHANGED <<queue, attempt>> BY <1>3, <2>3 DEF Kickoff
      <3> QED BY <2>1, <2>3, <3>1 DEF QueuedWorkIsDriven, TypeOK
    <2> QED BY <2>2, <2>3
  <1>4. ASSUME NEW r \in Replicas, Learn(r) PROVE QueuedWorkIsDriven'
    <2>1. PICK v \in Decidable(attempt[r].slot) : Decide(r, v) BY <1>4 DEF Learn
    <2>2. UNCHANGED <<kickoffs, up>> BY <2>1 DEF Decide
    <2>3. attempt[r] \in Attempts BY <1>4 DEF Learn, TypeOK
    <2>4. attempt[r].slot + 1 \in Nat BY <2>3 DEF Attempts
    <2>5. TypeOK' BY <1>4, LearnTypes
    <2>6. /\ queue'[r] # <<>> => attempt'[r] # None
          /\ \A x \in Replicas \ {r} : queue'[x] = queue[x] /\ attempt'[x] = attempt[x]
      <3>1. CASE attempt[r].origin = "catch_up" /\ v # attempt[r].command
        <4>1. /\ BeginCatchUp(r, attempt[r].slot + 1, Len(chosen'), watchdogs[r])
              /\ UNCHANGED queue
          BY <2>1, <3>1 DEF Decide
        <4>2. Len(chosen') \in Nat /\ watchdogs[r] \in Seq(Nat) BY <2>5 DEF TypeOK
        <4> QED BY <2>4, <4>1, <4>2, CatchUpTypes
      <3>2. CASE ~(attempt[r].origin = "catch_up" /\ v # attempt[r].command)
        <4>1. BeginNextAttempt(r, Requeue(r, v), attempt[r].slot + 1)
          BY <2>1, <3>2 DEF Decide
        <4>2. Requeue(r, v) \in Seq(ClientCommands) BY <2>3, RequeueTyped
        <4> QED BY <2>4, <4>1, <4>2, NextAttemptDrives
      <3> QED BY <3>1, <3>2
    <2> QED BY <2>2, <2>6 DEF QueuedWorkIsDriven, TypeOK
  <1>5. ASSUME NEW r \in Replicas, Watchdog(r) PROVE QueuedWorkIsDriven'
    <2>1. UNCHANGED <<queue, kickoffs, up>> BY <1>5 DEF Watchdog
    <2>2. CASE IsStalledCatchUp(r)
      <3>1. BeginCatchUp(r, NextSlot(r), Len(chosen), Tail(watchdogs[r]))
        BY <1>5, <2>2 DEF Watchdog
      <3>2. NextSlot(r) \in Nat /\ Len(chosen) \in Nat /\ Tail(watchdogs[r]) \in Seq(Nat)
        BY <1>5 DEF Watchdog, TypeOK, NextSlot
      <3>3. attempt'[r] # None /\ \A x \in Replicas \ {r} : attempt'[x] = attempt[x]
        BY <3>1, <3>2, CatchUpTypes
      <3> QED BY <2>1, <3>3 DEF QueuedWorkIsDriven, TypeOK
    <2>3. CASE ~IsStalledCatchUp(r)
      BY <1>5, <2>1, <2>3, <1>1 DEF Watchdog
    <2> QED BY <2>2, <2>3
  <1>6. ASSUME NEW r \in Replicas, Crash(r) PROVE QueuedWorkIsDriven'
    BY <1>6 DEF Crash, QueuedWorkIsDriven
  <1>7. ASSUME NEW r \in Replicas, DropTimer(r) PROVE QueuedWorkIsDriven'
    <2>1. UNCHANGED <<queue, attempt, up>> /\ r \notin up BY <1>7 DEF DropTimer
    <2>2. \A x \in Replicas \ {r} : kickoffs'[x] = kickoffs[x]
      BY <1>7 DEF DropTimer, TypeOK
    <2> QED BY <2>1, <2>2 DEF QueuedWorkIsDriven, TypeOK
  <1>8. ASSUME NEW r \in Replicas, Restart(r) PROVE QueuedWorkIsDriven'
    <2>1. /\ BeginCatchUp(r, NextSlot(r), Len(chosen), watchdogs[r])
          /\ UNCHANGED kickoffs
          /\ up' = up \cup {r}
          /\ \A x \in Replicas \ {r} : queue'[x] = queue[x]
      BY <1>8 DEF Restart, TypeOK
    <2>2. NextSlot(r) \in Nat /\ Len(chosen) \in Nat /\ watchdogs[r] \in Seq(Nat)
      BY DEF TypeOK, NextSlot
    <2>3. attempt'[r] # None /\ \A x \in Replicas \ {r} : attempt'[x] = attempt[x]
      BY <2>1, <2>2, CatchUpTypes
    <2> QED BY <2>1, <2>3 DEF QueuedWorkIsDriven, TypeOK
  <1>9. ASSUME NEW c \in Clients, Issue(c) \/ Acknowledge(c) \/ GiveUp(c)
        PROVE  QueuedWorkIsDriven'
    BY <1>1, <1>9 DEF Issue, Acknowledge, GiveUp
  <1>10. CASE UNCHANGED vars
    BY <1>1, <1>10 DEF vars
  <1> QED BY <1>2, <1>3, <1>4, <1>5, <1>6, <1>7, <1>8, <1>9, <1>10 DEF Next

\* No lost wakeup: a live replica with queued work has an attempt in flight or
\* a kickoff on its way, whatever submits, stale kickoffs, catch-ups, watchdog
\* firings, crashes and restarts came before.
THEOREM NoLostWakeup == Spec => []QueuedWorkIsDriven
  <1>1. Init => QueuedWorkIsDriven
    BY DEF Init, QueuedWorkIsDriven
  <1> QED BY <1>1, LogTypeCorrectness, StepDrives, PTL DEF Spec

-----------------------------------------------------------------------------
(***************************************************************************)
(* The store is the replay of the log. KvIsReplay is not inductive: it says *)
(* nothing of the dedup table, on which the next put depends, and its      *)
(* CHOOSE hides that a last write exists. The invariant says both.         *)
(***************************************************************************)

\* v is what the last effective put on k among l's first n commands wrote.
LastWrite(l, n, k, v) ==
    \/ v = Absent /\ \A i \in 1..n : ~(Effective(l, i) /\ l[i].key = k)
    \/ \E i \in 1..n :
         /\ Effective(l, i) /\ l[i].key = k /\ l[i].value = v
         /\ \A j \in 1..n : Effective(l, j) /\ l[j].key = k => j <= i

\* s is the highest number of c's puts among l's first n commands, or -1.
HighestSeq(l, n, c, s) ==
    /\ \A i \in 1..n : l[i].op = "put" /\ l[i].client = c => l[i].seq <= s
    /\ s = -1 \/ \E i \in 1..n : l[i].op = "put" /\ l[i].client = c /\ l[i].seq = s

Replays(l, n, k) ==
    /\ \A key \in Keys : LastWrite(l, n, key, k.map[key])
    /\ \A c \in Clients : HighestSeq(l, n, c, k.last_seq[c])

\* What KvIsReplay needs to be inductive.
ReplayInv ==
    \A r \in Replicas :
      /\ Len(log[r]) <= Len(chosen)
      /\ \A i \in 1..Len(log[r]) : log[r][i] = chosen[i]
      /\ Replays(chosen, Len(log[r]), kv[r])

\* Deciding more slots changes nothing about the ones already replayed.
LEMMA ReplayStable ==
    ASSUME NEW l, NEW m, NEW n \in Nat, NEW k,
           \A i \in 1..n : m[i] = l[i], Replays(l, n, k)
    PROVE  Replays(m, n, k)
  <1>1. \A i \in 1..n : Effective(m, i) <=> Effective(l, i)
    <2> SUFFICES ASSUME NEW i \in 1..n PROVE Effective(m, i) <=> Effective(l, i)
      OBVIOUS
    <2>1. \A j \in 1..(i - 1) : m[j] = l[j] OBVIOUS
    <2>2. m[i] = l[i] OBVIOUS
    <2> QED BY <2>1, <2>2 DEF Effective
  <1>2. ASSUME NEW key \in Keys PROVE LastWrite(m, n, key, k.map[key])
    BY <1>1 DEF Replays, LastWrite
  <1>3. ASSUME NEW c \in Clients PROVE HighestSeq(m, n, c, k.last_seq[c])
    BY DEF Replays, HighestSeq
  <1> QED BY <1>2, <1>3 DEF Replays

\* The reference and Kv::apply agree on whether a put is a duplicate.
LEMMA DedupAgrees ==
    ASSUME NEW l \in Seq(Commands), NEW n \in Nat, n < Len(l), NEW k \in Kvs,
           Replays(l, n, k), l[n + 1] \in Puts
    PROVE  Effective(l, n + 1) <=> ~IsDuplicate(k, l[n + 1])
  <1> DEFINE cmd == l[n + 1]
  <1>1. cmd.op = "put" /\ cmd.client \in Clients /\ cmd.seq \in Nat BY DEF Puts
  <1>2. HighestSeq(l, n, cmd.client, k.last_seq[cmd.client]) BY <1>1 DEF Replays
  <1>3. k.last_seq[cmd.client] \in Nat \cup {-1} BY <1>1 DEF Kvs
  <1>4. \A i \in 1..n : l[i].op = "put" => l[i].seq \in Nat
    <2> SUFFICES ASSUME NEW i \in 1..n, l[i].op = "put" PROVE l[i].seq \in Nat
      OBVIOUS
    <2>1. l[i] \in Commands OBVIOUS
    <2> QED BY <2>1 DEF Commands, ClientCommands, Puts, Gets, Probes
  <1>5. (n + 1) - 1 = n OBVIOUS
  <1>6. Effective(l, n + 1) <=>
          \A j \in 1..n : l[j].op = "put" /\ l[j].client = cmd.client => l[j].seq < cmd.seq
    BY <1>1, <1>5 DEF Effective
  <1>7. IsDuplicate(k, cmd) <=> k.last_seq[cmd.client] >= cmd.seq BY DEF IsDuplicate
  <1> HIDE DEF cmd
  <1>8. CASE k.last_seq[cmd.client] >= cmd.seq
    <2>1. PICK i \in 1..n : /\ l[i].op = "put" /\ l[i].client = cmd.client
                            /\ l[i].seq = k.last_seq[cmd.client]
      BY <1>1, <1>2, <1>3, <1>8 DEF HighestSeq
    <2>2. ~(l[i].seq < cmd.seq) BY <1>1, <1>3, <1>8, <2>1
    <2>3. ~Effective(l, n + 1) BY <1>6, <2>1, <2>2
    <2> QED BY <1>7, <1>8, <2>3 DEF cmd
  <1>9. CASE ~(k.last_seq[cmd.client] >= cmd.seq)
    <2>1. \A j \in 1..n : l[j].op = "put" /\ l[j].client = cmd.client => l[j].seq < cmd.seq
      BY <1>1, <1>2, <1>3, <1>4, <1>9 DEF HighestSeq
    <2>2. Effective(l, n + 1) BY <1>6, <2>1
    <2> QED BY <1>7, <1>9, <2>2 DEF cmd
  <1> QED BY <1>8, <1>9

\* Kv::apply of the next command keeps the store the replay of the log.
LEMMA ReplayStep ==
    ASSUME NEW l \in Seq(Commands), NEW n \in Nat, n < Len(l), NEW k \in Kvs,
           Replays(l, n, k)
    PROVE  Replays(l, n + 1, Apply(k, l[n + 1]))
  <1> DEFINE cmd == l[n + 1]
  <1>1. cmd \in Commands OBVIOUS
  <1>2. 1..(n + 1) = (1..n) \cup {n + 1} OBVIOUS
  <1>3. n + 1 \notin 1..n OBVIOUS
  <1>4. CASE cmd.op # "put"
    <2>1. cmd.op = "get" BY <1>1, <1>4 DEF Commands, ClientCommands, Puts, Gets, Probes
    <2>2. Apply(k, cmd) = k BY <2>1 DEF Apply
    <2>3. ~Effective(l, n + 1) BY <1>4 DEF Effective
    <2>4. \A key \in Keys : LastWrite(l, n + 1, key, k.map[key])
      BY <1>2, <2>3 DEF Replays, LastWrite
    <2>5. \A c \in Clients : HighestSeq(l, n + 1, c, k.last_seq[c])
      BY <1>2, <1>4 DEF Replays, HighestSeq
    <2> QED BY <2>2, <2>4, <2>5 DEF Replays
  <1>5. CASE cmd.op = "put"
    <2>1. cmd \in Puts BY <1>1, <1>5 DEF Commands, ClientCommands, Gets, Probes
    <2>2. /\ cmd.key \in Keys /\ cmd.value \in Values
          /\ cmd.client \in Clients /\ cmd.seq \in Nat
      BY <2>1 DEF Puts
    <2>3. Effective(l, n + 1) <=> ~IsDuplicate(k, cmd) BY <2>1, DedupAgrees
    <2>4. k.last_seq[cmd.client] \in Nat \cup {-1} BY <2>2 DEF Kvs
    <2>5. CASE IsDuplicate(k, cmd)
      <3>1. Apply(k, cmd) = k BY <2>5 DEF Apply
      <3>2. \A key \in Keys : LastWrite(l, n + 1, key, k.map[key])
        BY <1>2, <2>3, <2>5 DEF Replays, LastWrite
      <3>3. cmd.seq <= k.last_seq[cmd.client] BY <2>2, <2>4, <2>5 DEF IsDuplicate
      <3>4. \A c \in Clients : HighestSeq(l, n + 1, c, k.last_seq[c])
        BY <1>2, <3>3 DEF Replays, HighestSeq
      <3> QED BY <3>1, <3>2, <3>4 DEF Replays
    <2>6. CASE ~IsDuplicate(k, cmd)
      <3> DEFINE K == Apply(k, cmd)
      <3>1. K = [map |-> [k.map EXCEPT ![cmd.key] = cmd.value],
                 last_seq |-> [k.last_seq EXCEPT ![cmd.client] = cmd.seq]]
        BY <1>5, <2>6 DEF Apply
      <3>2. /\ K.map[cmd.key] = cmd.value
            /\ \A key \in Keys \ {cmd.key} : K.map[key] = k.map[key]
            /\ K.last_seq[cmd.client] = cmd.seq
            /\ \A c \in Clients \ {cmd.client} : K.last_seq[c] = k.last_seq[c]
        BY <2>2, <3>1 DEF Kvs
      <3>3. Effective(l, n + 1) BY <2>3, <2>6
      <3>4. \A i \in 1..(n + 1) : i <= n + 1 OBVIOUS
      <3> HIDE DEF K
      <3>5. LastWrite(l, n + 1, cmd.key, K.map[cmd.key])
        BY <1>2, <3>2, <3>3, <3>4 DEF LastWrite
      <3>6. ASSUME NEW key \in Keys \ {cmd.key}
            PROVE  LastWrite(l, n + 1, key, K.map[key])
        <4>1. LastWrite(l, n, key, k.map[key]) BY DEF Replays
        <4>2. K.map[key] = k.map[key] BY <3>2
        <4> QED BY <1>2, <4>1, <4>2 DEF LastWrite
      <3>7. \A i \in 1..n : l[i].op = "put" => l[i].seq \in Nat
        <4> SUFFICES ASSUME NEW i \in 1..n, l[i].op = "put" PROVE l[i].seq \in Nat
          OBVIOUS
        <4>1. l[i] \in Commands OBVIOUS
        <4> QED BY <4>1 DEF Commands, ClientCommands, Puts, Gets, Probes
      <3>8. HighestSeq(l, n + 1, cmd.client, K.last_seq[cmd.client])
        <4>1. \A i \in 1..n : l[i].op = "put" /\ l[i].client = cmd.client
                                => l[i].seq <= cmd.seq
          BY SMTT(90), <2>2, <2>4, <2>6, <3>7 DEF Replays, HighestSeq, IsDuplicate
        <4>2. cmd.seq <= cmd.seq BY <2>2
        <4> QED BY <1>2, <1>5, <3>2, <4>1, <4>2 DEF HighestSeq
      <3>9. ASSUME NEW c \in Clients \ {cmd.client}
            PROVE  HighestSeq(l, n + 1, c, K.last_seq[c])
        <4>1. HighestSeq(l, n, c, k.last_seq[c]) BY DEF Replays
        <4>2. K.last_seq[c] = k.last_seq[c] BY <3>2
        <4> QED BY <1>2, <4>1, <4>2 DEF HighestSeq
      <3>10. Replays(l, n + 1, K) BY <3>5, <3>6, <3>8, <3>9 DEF Replays
      <3> QED BY <3>10 DEF K
    <2> QED BY <2>5, <2>6
  <1> QED BY <1>4, <1>5

\* A store that replays the log has, for every key, the reference's value.
LEMMA ReplayValue ==
    ASSUME NEW l, NEW n \in Nat, NEW key, NEW v, LastWrite(l, n, key, v)
    PROVE  v = ValueAfter(l, n, key)
  <1> DEFINE W == {i \in 1..n : Effective(l, i) /\ l[i].key = key}
  <1>1. ValueAfter(l, n, key) =
          IF W = {} THEN Absent ELSE l[CHOOSE i \in W : \A j \in W : j <= i].value
    BY DEF ValueAfter
  <1>2. CASE W = {}
    BY <1>1, <1>2 DEF LastWrite
  <1>3. CASE W # {}
    <2>1. PICK i \in W : l[i].value = v /\ \A j \in W : j <= i
      BY <1>3 DEF LastWrite
    <2>2. \A x \in W : (\A j \in W : j <= x) => x = i
      BY <2>1
    <2> DEFINE m == CHOOSE x \in W : \A j \in W : j <= x
    <2>3. m \in W /\ \A j \in W : j <= m BY <2>1
    <2>4. m = i BY <2>2, <2>3
    <2> QED BY <1>1, <1>3, <2>1, <2>4
  <1> QED BY <1>2, <1>3

LEMMA StepReplays == TypeOK /\ ReplayInv /\ [Next]_vars => ReplayInv'
  <1> SUFFICES ASSUME TypeOK, ReplayInv, [Next]_vars PROVE ReplayInv'
    OBVIOUS
  <1>1. ASSUME UNCHANGED <<chosen, log, kv>> PROVE ReplayInv'
    BY <1>1 DEF ReplayInv
  <1>2. ASSUME NEW r \in Replicas, Learn(r) PROVE ReplayInv'
    <2>1. PICK v \in Decidable(attempt[r].slot) : Decide(r, v) BY <1>2 DEF Learn
    <2> DEFINE n == Len(log[r])
    <2>2. attempt[r].slot = n /\ n \in Nat BY <1>2 DEF Learn, TypeOK, NextSlot
    <2>3. TypeOK' BY <1>2, LearnTypes
    <2>4. /\ chosen \in Seq(Commands) /\ chosen' \in Seq(Commands)
          /\ log \in [Replicas -> Seq(Commands)] /\ kv \in [Replicas -> Kvs]
      BY <2>3 DEF TypeOK
    <2>5. n <= Len(chosen) BY DEF ReplayInv
    <2>6. /\ Len(chosen) <= Len(chosen')
          /\ \A i \in 1..Len(chosen) : chosen'[i] = chosen[i]
          /\ n < Len(chosen') /\ chosen'[n + 1] = v
      <3>1. CASE n < Len(chosen)
        <4>1. chosen' = chosen BY <2>1, <2>2, <3>1 DEF Decide
        <4>2. v = chosen[n + 1] BY <2>1, <2>2, <3>1 DEF Decidable
        <4> QED BY <2>4, <3>1, <4>1, <4>2
      <3>2. CASE ~(n < Len(chosen))
        <4>1. n = Len(chosen) BY <2>2, <2>4, <2>5, <3>2
        <4>2. chosen' = Append(chosen, v) BY <2>1, <2>2, <3>2 DEF Decide
        <4>3. Len(chosen') = Len(chosen) + 1 /\ chosen'[Len(chosen) + 1] = v
          BY <2>4, <4>2
        <4>4. \A i \in 1..Len(chosen) : chosen'[i] = chosen[i] BY <2>4, <4>2
        <4> QED BY <2>4, <4>1, <4>3, <4>4
      <3> QED BY <3>1, <3>2
    <2>7. /\ log' = [log EXCEPT ![r] = Append(@, v)]
          /\ kv' = [kv EXCEPT ![r] = Apply(@, v)]
      BY <2>1 DEF Decide
    <2>8. ASSUME NEW x \in Replicas
          PROVE  /\ Len(log[x]) \in Nat /\ Len(log[x]) <= Len(chosen')
                 /\ \A i \in 1..Len(log[x]) : log[x][i] = chosen'[i]
                 /\ Replays(chosen', Len(log[x]), kv[x])
      <3>1. Len(log[x]) \in Nat /\ Len(chosen) \in Nat /\ Len(chosen') \in Nat BY <2>4
      <3>2. Len(log[x]) <= Len(chosen) /\ Replays(chosen, Len(log[x]), kv[x])
        BY DEF ReplayInv
      <3>3. \A i \in 1..Len(log[x]) : chosen'[i] = chosen[i] BY <2>6, <3>1, <3>2
      <3>4. Replays(chosen', Len(log[x]), kv[x]) BY <3>1, <3>2, <3>3, ReplayStable
      <3>5. \A i \in 1..Len(log[x]) : log[x][i] = chosen[i] BY DEF ReplayInv
      <3> QED BY <2>6, <3>1, <3>2, <3>3, <3>4, <3>5
    <2>9. ASSUME NEW x \in Replicas \ {r}
          PROVE  /\ Len(log'[x]) <= Len(chosen')
                 /\ \A i \in 1..Len(log'[x]) : log'[x][i] = chosen'[i]
                 /\ Replays(chosen', Len(log'[x]), kv'[x])
      <3>1. log'[x] = log[x] /\ kv'[x] = kv[x] BY <2>4, <2>7
      <3> QED BY <2>8, <3>1
    <2>10. /\ Len(log'[r]) <= Len(chosen')
           /\ \A i \in 1..Len(log'[r]) : log'[r][i] = chosen'[i]
           /\ Replays(chosen', Len(log'[r]), kv'[r])
      <3>1. log'[r] = Append(log[r], v) /\ kv'[r] = Apply(kv[r], v) BY <2>4, <2>7
      <3>2. log[r] \in Seq(Commands) /\ kv[r] \in Kvs BY <2>4
      <3>3. /\ Len(log'[r]) = n + 1 /\ log'[r][n + 1] = v
            /\ \A i \in 1..n : log'[r][i] = log[r][i]
        BY <3>1, <3>2
      <3>4. Len(chosen') \in Nat BY <2>4
      <3>5. Len(log'[r]) <= Len(chosen') BY <2>2, <2>6, <3>3, <3>4
      <3>6. \A i \in 1..Len(log'[r]) : log'[r][i] = chosen'[i]
        <4>1. 1..(n + 1) = (1..n) \cup {n + 1} BY <2>2
        <4> QED BY <2>6, <2>8, <3>3, <4>1
      <3>7. Replays(chosen', n, kv[r]) BY <2>8
      <3>8. Replays(chosen', n + 1, Apply(kv[r], chosen'[n + 1]))
        BY <2>2, <2>4, <2>6, <3>2, <3>7, ReplayStep
      <3> QED BY <2>6, <3>1, <3>3, <3>5, <3>6, <3>8
    <2> QED BY <2>9, <2>10 DEF ReplayInv
  <1>3. ASSUME NEW c \in Clients, Issue(c) \/ Acknowledge(c) \/ GiveUp(c)
        PROVE  ReplayInv'
    BY <1>1, <1>3 DEF Issue, Acknowledge, GiveUp
  <1>4. ASSUME NEW c \in Clients, NEW r \in Replicas, Submit(c, r) PROVE ReplayInv'
    BY <1>1, <1>4 DEF Submit
  <1>5. ASSUME NEW r \in Replicas,
               Kickoff(r) \/ Watchdog(r) \/ Crash(r) \/ DropTimer(r) \/ Restart(r)
        PROVE  ReplayInv'
    BY <1>1, <1>5 DEF Kickoff, Watchdog, Crash, DropTimer, Restart
  <1>6. CASE UNCHANGED vars
    BY <1>1, <1>6 DEF vars
  <1> QED BY <1>2, <1>3, <1>4, <1>5, <1>6 DEF Next

LEMMA ReplayInvariance == Spec => []ReplayInv
  <1>1. Init => ReplayInv
    <2> SUFFICES ASSUME Init PROVE ReplayInv
      OBVIOUS
    <2>1. Replays(<<>>, 0, NewKv)
      BY DEF Replays, LastWrite, HighestSeq, NewKv
    <2>2. \A r \in Replicas : log[r] = <<>> /\ kv[r] = NewKv BY DEF Init
    <2>3. chosen = <<>> /\ Len(<<>>) = 0 BY DEF Init
    <2> QED BY <2>1, <2>2, <2>3 DEF ReplayInv
  <1> QED BY <1>1, LogTypeCorrectness, StepReplays, PTL DEF Spec

\* P5 to P8a for any number of replicas, clients, retries and crashes: every
\* replica's applied_log is a prefix of the decided log, and its Kv is what
\* the reference makes of that prefix, each put once at its first occurrence.
THEOREM LogReplay == Spec => []KvIsReplay
  <1>1. TypeOK /\ ReplayInv => KvIsReplay
    <2> SUFFICES ASSUME TypeOK, ReplayInv, NEW r \in Replicas, NEW k \in Keys
                 PROVE  kv[r].map[k] = ValueAfter(chosen, Len(log[r]), k)
      BY DEF ReplayInv, KvIsReplay
    <2>1. Len(log[r]) \in Nat BY DEF TypeOK
    <2>2. LastWrite(chosen, Len(log[r]), k, kv[r].map[k]) BY DEF ReplayInv, Replays
    <2> QED BY <2>1, <2>2, ReplayValue
  <1> QED BY <1>1, ReplayInvariance, LogTypeCorrectness, PTL

-----------------------------------------------------------------------------
(***************************************************************************)
(* The operations of the log are linearizable. Linearizable speaks of the  *)
(* acknowledged operations only; the invariant adds where every command in *)
(* the system comes from, what every completed record says, and what the   *)
(* log cannot contain before an acknowledged operation.                    *)
(***************************************************************************)

\* cmd is an operation its client has issued.
IsIssued(cmd) ==
    /\ cmd.client \in Clients
    /\ cmd.seq + 1 \in 1..current[cmd.client]
    /\ cmd = CommandOf(cmd.client, cmd.seq + 1)

\* Nothing but probes and issued operations is queued, attempted, proposed or
\* decided.
IssuedInv ==
    /\ \A i \in 1..Len(chosen) : chosen[i] \in Probes \/ IsIssued(chosen[i])
    /\ \A v \in proposed : v \in Probes \/ IsIssued(v)
    /\ \A r \in Replicas : \A i \in 1..Len(queue[r]) : IsIssued(queue[r][i])
    /\ \A r \in Replicas :
         attempt[r] # None /\ attempt[r].origin = "op" => IsIssued(attempt[r].command)

\* A completed record names a slot that decided its operation, and a get's
\* outcome is what the log before that slot wrote last.
RecordTrue(x) ==
    LET cmd == CommandOf(x.client, x.seq + 1) IN
    /\ x.seq + 1 <= current[x.client]
    /\ x.slot < Len(chosen)
    /\ chosen[x.slot + 1] = cmd
    /\ cmd.op = "get" => LastWrite(chosen, x.slot, cmd.key, x.outcome)

\* A client goes on only after the acknowledgement, so up to the slot of an
\* acknowledged operation the log has no later put of its client ...
NothingLater(x) ==
    \A i \in 1..(x.slot + 1) :
      chosen[i].op = "put" /\ chosen[i].client = x.client => chosen[i].seq <= x.seq

\* ... and an operation is decided, each time, after the slots of those that
\* were acknowledged when it was issued.
IssuedAfter(c, n) ==
    /\ before[c][n] \subseteq acked
    /\ \A x \in before[c][n] : \A i \in 1..Len(chosen) :
         chosen[i] = CommandOf(c, n) => x.slot + 1 < i

LinInv ==
    /\ IssuedInv
    /\ \A x \in results : RecordTrue(x)
    /\ \A x \in acked : NothingLater(x)
    /\ \A c \in Clients : \A n \in 1..current[c] : IssuedAfter(c, n)

\* A client's operations tell their client and their number.
LEMMA CommandFields ==
    ASSUME NEW c \in Clients, NEW n \in Nat
    PROVE  /\ CommandOf(c, n).client = c
           /\ CommandOf(c, n).seq = n - 1
           /\ CommandOf(c, n).op \in {"put", "get"}
  BY DEF CommandOf

LEMMA ProbeFields ==
    ASSUME NEW v \in Probes
    PROVE  v.op = "get" /\ ~IsIssued(v)
  <1>1. v.op = "get" /\ v.client = CatchUp BY DEF Probes, Gets
  <1> QED BY <1>1, ReservedAssumption DEF IsIssued

\* The steps that touch the clients' side: the others leave it alone.
LEMMA ClientSteps ==
    ASSUME [Next]_vars
    PROVE  \/ UNCHANGED <<current, before, acked>>
           \/ \E c \in Clients : Issue(c) \/ Acknowledge(c)
  <1>1. CASE \E c \in Clients : Issue(c) \/ Acknowledge(c)
    BY <1>1
  <1>2. ASSUME NEW c \in Clients, GiveUp(c) PROVE UNCHANGED <<current, before, acked>>
    BY <1>2 DEF GiveUp
  <1>3. ASSUME NEW c \in Clients, NEW r \in Replicas, Submit(c, r)
        PROVE  UNCHANGED <<current, before, acked>>
    BY <1>3 DEF Submit
  <1>4. ASSUME NEW r \in Replicas, Kickoff(r) \/ Watchdog(r) \/ Crash(r) \/ DropTimer(r) \/ Restart(r)
        PROVE  UNCHANGED <<current, before, acked>>
    BY <1>4 DEF Kickoff, Watchdog, Crash, DropTimer, Restart, clientVars
  <1>5. ASSUME NEW r \in Replicas, Learn(r) PROVE UNCHANGED <<current, before, acked>>
    BY <1>5 DEF Learn, Decide, clientVars
  <1>6. CASE UNCHANGED vars
    BY <1>6 DEF vars
  <1> QED BY <1>1, <1>2, <1>3, <1>4, <1>5, <1>6 DEF Next

\* The steps that touch the log and the records.
LEMMA LogSteps ==
    ASSUME [Next]_vars
    PROVE  UNCHANGED <<chosen, results>> \/ \E r \in Replicas : Learn(r)
  <1>1. ASSUME NEW c \in Clients, Issue(c) \/ Acknowledge(c) \/ GiveUp(c)
        PROVE  UNCHANGED <<chosen, results>>
    BY <1>1 DEF Issue, Acknowledge, GiveUp
  <1>2. ASSUME NEW c \in Clients, NEW r \in Replicas, Submit(c, r)
        PROVE  UNCHANGED <<chosen, results>>
    BY <1>2 DEF Submit
  <1>3. ASSUME NEW r \in Replicas, Kickoff(r) \/ Watchdog(r) \/ Crash(r) \/ DropTimer(r) \/ Restart(r)
        PROVE  UNCHANGED <<chosen, results>>
    BY <1>3 DEF Kickoff, Watchdog, Crash, DropTimer, Restart
  <1>4. CASE UNCHANGED vars
    BY <1>4 DEF vars
  <1> QED BY <1>1, <1>2, <1>3, <1>4 DEF Next

\* What is issued stays issued.
LEMMA IssuedKept ==
    ASSUME TypeOK, [Next]_vars
    PROVE  /\ \A c \in Clients : current[c] \in Nat /\ current'[c] \in Nat /\ current[c] <= current'[c]
           /\ \A v : IsIssued(v) => IsIssued(v)'
  <1>1. \A c \in Clients : current[c] \in Nat /\ current'[c] \in Nat /\ current[c] <= current'[c]
    <2>1. CASE UNCHANGED current
      BY <2>1 DEF TypeOK
    <2>2. ASSUME NEW c \in Clients, Issue(c)
          PROVE  \A x \in Clients : current[x] \in Nat /\ current'[x] \in Nat /\ current[x] <= current'[x]
      BY <2>2 DEF Issue, TypeOK
    <2>3. ASSUME NEW c \in Clients, Acknowledge(c) PROVE UNCHANGED current
      BY <2>3 DEF Acknowledge
    <2> QED BY <2>1, <2>2, <2>3, ClientSteps
  <1>2. ASSUME NEW v, IsIssued(v) PROVE IsIssued(v)'
    <2>1. v.client \in Clients /\ v.seq + 1 \in 1..current[v.client] BY <1>2 DEF IsIssued
    <2>2. v.seq + 1 \in 1..current'[v.client] BY <1>1, <2>1
    <2> QED BY <1>2, <2>1, <2>2 DEF IsIssued, CommandOf
  <1> QED BY <1>1, <1>2

\* The log only grows, by something that was proposed.
LEMMA LogGrows ==
    ASSUME TypeOK, ReplayInv, [Next]_vars
    PROVE  /\ chosen' = chosen \/ \E v \in proposed : chosen' = Append(chosen, v)
           /\ Len(chosen) \in Nat /\ Len(chosen') \in Nat /\ Len(chosen) <= Len(chosen')
           /\ \A i \in 1..Len(chosen) : chosen'[i] = chosen[i]
  <1>1. chosen \in Seq(Commands) /\ proposed \subseteq Commands BY DEF TypeOK
  <1>2. chosen' = chosen \/ \E v \in proposed : chosen' = Append(chosen, v)
    <2>1. ASSUME NEW r \in Replicas, Learn(r)
          PROVE  chosen' = chosen \/ \E v \in proposed : chosen' = Append(chosen, v)
      <3>1. PICK v \in Decidable(attempt[r].slot) : Decide(r, v) BY <2>1 DEF Learn
      <3>2. CASE attempt[r].slot < Len(chosen)
        BY <3>1, <3>2 DEF Decide
      <3>3. CASE ~(attempt[r].slot < Len(chosen))
        BY <3>1, <3>3 DEF Decide, Decidable
      <3> QED BY <3>2, <3>3
    <2> QED BY <2>1, LogSteps
  <1>3. CASE chosen' = chosen
    BY <1>1, <1>3
  <1>4. ASSUME NEW v \in proposed, chosen' = Append(chosen, v)
        PROVE  /\ Len(chosen) \in Nat /\ Len(chosen') \in Nat /\ Len(chosen) <= Len(chosen')
               /\ \A i \in 1..Len(chosen) : chosen'[i] = chosen[i]
    <2>1. v \in Commands BY <1>1
    <2> QED BY <1>1, <1>4, <2>1
  <1> QED BY <1>2, <1>3, <1>4

LEMMA NextAttemptIssued ==
    ASSUME TypeOK, IssuedInv, NEW r \in Replicas, NEW q \in Seq(ClientCommands), NEW s,
           \A i \in 1..Len(q) : IsIssued(q[i]), BeginNextAttempt(r, q, s)
    PROVE  /\ \A v \in proposed' : v \in Probes \/ IsIssued(v)
           /\ \A x \in Replicas : \A i \in 1..Len(queue'[x]) : IsIssued(queue'[x][i])
           /\ \A x \in Replicas : attempt'[x] # None /\ attempt'[x].origin = "op"
                                    => IsIssued(attempt'[x].command)
  <1>1. \A v \in Open : v \in Probes \/ IsIssued(v) BY DEF Open, IssuedInv
  <1>2. CASE q = <<>>
    <2>1. queue' = [queue EXCEPT ![r] = q] /\ attempt' = [attempt EXCEPT ![r] = None]
      BY <1>2 DEF BeginNextAttempt
    <2>2. proposed' = Open BY <1>2 DEF BeginNextAttempt
    <2> QED BY <1>1, <1>2, <2>1, <2>2 DEF IssuedInv, TypeOK
  <1>3. CASE q # <<>>
    <2> DEFINE a == [origin |-> "op", command |-> Head(q), slot |-> s]
    <2>1. queue' = [queue EXCEPT ![r] = Tail(q)] /\ attempt' = [attempt EXCEPT ![r] = a]
      BY <1>3 DEF BeginNextAttempt
    <2>2. proposed' \subseteq Open \cup {Head(q)}
      BY <1>3 DEF BeginNextAttempt, Propose
    <2>3. Head(q) = q[1] /\ IsIssued(Head(q)) BY <1>3
    <2>4. \A i \in 1..Len(Tail(q)) : IsIssued(Tail(q)[i])
      <3>1. \A i \in 1..Len(Tail(q)) : i + 1 \in 1..Len(q) /\ Tail(q)[i] = q[i + 1]
        BY <1>3
      <3> QED BY <3>1
    <2>5. a.command = Head(q) OBVIOUS
    <2> HIDE DEF a
    <2>6. \A x \in Replicas : \A i \in 1..Len(queue'[x]) : IsIssued(queue'[x][i])
      BY <2>1, <2>4 DEF IssuedInv, TypeOK
    <2>7. \A x \in Replicas : attempt'[x] # None /\ attempt'[x].origin = "op"
                                => IsIssued(attempt'[x].command)
      BY <2>1, <2>3, <2>5 DEF IssuedInv, TypeOK
    <2> QED BY <1>1, <2>2, <2>3, <2>6, <2>7
  <1> QED BY <1>2, <1>3

LEMMA CatchUpIssued ==
    ASSUME TypeOK, IssuedInv, NEW r \in Replicas, NEW s \in Nat, NEW n, NEW w,
           BeginCatchUp(r, s, n, w)
    PROVE  /\ \A v \in proposed' : v \in Probes \/ IsIssued(v)
           /\ \A x \in Replicas : attempt'[x] # None /\ attempt'[x].origin = "op"
                                    => IsIssued(attempt'[x].command)
  <1> DEFINE a == [origin |-> "catch_up", command |-> CatchUpProbe(s), slot |-> s]
  <1>1. \A v \in Open : v \in Probes \/ IsIssued(v) BY DEF Open, IssuedInv
  <1>2. proposed' \subseteq Open \cup {CatchUpProbe(s)} BY DEF BeginCatchUp, Propose
  <1>3. attempt' = [attempt EXCEPT ![r] = a] BY DEF BeginCatchUp
  <1>4. a.origin # "op" OBVIOUS
  <1> HIDE DEF a
  <1>5. \A x \in Replicas : attempt'[x] # None /\ attempt'[x].origin = "op"
                              => IsIssued(attempt'[x].command)
    BY <1>3, <1>4 DEF IssuedInv, TypeOK
  <1> QED BY <1>1, <1>2, <1>5, ProbeTyped

LEMMA LearnIssued ==
    ASSUME TypeOK, ReplayInv, IssuedInv, NEW r \in Replicas, Learn(r)
    PROVE  IssuedInv'
  <1>1. PICK v \in Decidable(attempt[r].slot) : Decide(r, v) BY DEF Learn
  <1> DEFINE a == attempt[r]
  <1>2. /\ a \in Attempts /\ a # None
        /\ a.slot = Len(log[r]) /\ a.slot \in Nat /\ Len(log[r]) <= Len(chosen)
    BY DEF Learn, TypeOK, NextSlot, ReplayInv
  <1>3. chosen \in Seq(Commands) /\ proposed \subseteq Commands BY DEF TypeOK
  <1>4. UNCHANGED current BY <1>1 DEF Decide, clientVars
  <1>5. \A x : IsIssued(x)' <=> IsIssued(x) BY <1>4 DEF IsIssued, CommandOf
  <1>6. \A i \in 1..Len(chosen') : chosen'[i] \in Probes \/ IsIssued(chosen'[i])
    <2>1. CASE chosen' = chosen
      BY <2>1 DEF IssuedInv
    <2>2. ASSUME NEW w \in proposed, chosen' = Append(chosen, w)
          PROVE  \A i \in 1..Len(chosen') : chosen'[i] \in Probes \/ IsIssued(chosen'[i])
      <3>1. w \in Commands /\ (w \in Probes \/ IsIssued(w)) BY <1>3 DEF IssuedInv
      <3>2. Len(chosen') = Len(chosen) + 1 /\ chosen'[Len(chosen) + 1] = w
        BY <1>3, <2>2, <3>1
      <3>3. \A i \in 1..Len(chosen) : chosen'[i] = chosen[i] BY <1>3, <2>2, <3>1
      <3>4. 1..Len(chosen') = (1..Len(chosen)) \cup {Len(chosen) + 1} BY <1>3, <3>2
      <3> QED BY <3>1, <3>2, <3>3, <3>4 DEF IssuedInv
    <2>3. [Next]_vars BY DEF Next
    <2> QED BY <2>1, <2>2, <2>3, LogGrows
  <1>7. /\ \A x \in proposed' : x \in Probes \/ IsIssued(x)
        /\ \A x \in Replicas : \A i \in 1..Len(queue'[x]) : IsIssued(queue'[x][i])
        /\ \A x \in Replicas : attempt'[x] # None /\ attempt'[x].origin = "op"
                                 => IsIssued(attempt'[x].command)
    <2>1. CASE a.origin = "catch_up" /\ v # a.command
      <3>1. BeginCatchUp(r, a.slot + 1, Len(chosen'), watchdogs[r]) /\ UNCHANGED queue
        BY <1>1, <2>1 DEF Decide
      <3>2. a.slot + 1 \in Nat BY <1>2
      <3>3. \A x \in Replicas : \A i \in 1..Len(queue'[x]) : IsIssued(queue'[x][i])
        BY <3>1 DEF IssuedInv
      <3> QED BY <3>1, <3>2, <3>3, CatchUpIssued
    <2>2. CASE ~(a.origin = "catch_up" /\ v # a.command)
      <3>1. BeginNextAttempt(r, Requeue(r, v), a.slot + 1) BY <1>1, <2>2 DEF Decide
      <3>2. Requeue(r, v) \in Seq(ClientCommands) BY <1>2, RequeueTyped
      <3>3. \A i \in 1..Len(Requeue(r, v)) : IsIssued(Requeue(r, v)[i])
        <4>1. CASE a.origin = "op" /\ v # a.command
          <5>1. a.command \in ClientCommands BY <1>2, <4>1 DEF Attempts
          <5>2. Requeue(r, v) = <<a.command>> \o queue[r] BY <4>1 DEF Requeue
          <5>3. IsIssued(a.command) BY <1>2, <4>1 DEF IssuedInv
          <5>4. queue[r] \in Seq(ClientCommands) BY DEF TypeOK
          <5>5. ASSUME NEW i \in 1..Len(Requeue(r, v)) PROVE IsIssued(Requeue(r, v)[i])
            <6>1. CASE i = 1
              BY <5>1, <5>2, <5>3, <5>4, <6>1
            <6>2. CASE i # 1
              <7>1. i - 1 \in 1..Len(queue[r]) /\ Requeue(r, v)[i] = queue[r][i - 1]
                BY <5>1, <5>2, <5>4, <5>5, <6>2
              <7> QED BY <7>1 DEF IssuedInv
            <6> QED BY <6>1, <6>2
          <5> QED BY <5>5
        <4>2. CASE ~(a.origin = "op" /\ v # a.command)
          BY <4>2 DEF Requeue, IssuedInv
        <4> QED BY <4>1, <4>2
      <3> QED BY <3>1, <3>2, <3>3, NextAttemptIssued
    <2> QED BY <2>1, <2>2
  <1> QED BY <1>5, <1>6, <1>7 DEF IssuedInv

LEMMA StepIssued == TypeOK /\ ReplayInv /\ IssuedInv /\ [Next]_vars => IssuedInv'
  <1> SUFFICES ASSUME TypeOK, ReplayInv, IssuedInv, [Next]_vars PROVE IssuedInv'
    OBVIOUS
  <1>1. \A v : IsIssued(v) => IsIssued(v)' BY IssuedKept
  <1>2. ASSUME UNCHANGED <<chosen, proposed, queue, attempt>> PROVE IssuedInv'
    BY <1>1, <1>2 DEF IssuedInv
  <1>3. ASSUME NEW c \in Clients, Issue(c) \/ Acknowledge(c) \/ GiveUp(c) PROVE IssuedInv'
    BY <1>2, <1>3 DEF Issue, Acknowledge, GiveUp
  <1>4. ASSUME NEW c \in Clients, NEW r \in Replicas, Submit(c, r) PROVE IssuedInv'
    <2> DEFINE cmd == CommandOf(c, current[c])
    <2>1. current[c] \in Nat /\ current[c] > 0 /\ current[c] <= Len(Script[c])
      BY <1>4 DEF Submit, TypeOK
    <2>2. Len(Script[c]) \in Nat BY ScriptAssumption
    <2>3. cmd.client = c /\ cmd.seq = current[c] - 1 BY <2>1, CommandFields
    <2>4. cmd \in ClientCommands BY <2>1, <2>2, CommandTyped
    <2>5. (current[c] - 1) + 1 = current[c] /\ current[c] \in 1..current[c] BY <2>1
    <2>6. IsIssued(cmd) BY <2>3, <2>5 DEF IsIssued
    <2> HIDE DEF cmd
    <2>7. queue' = [queue EXCEPT ![r] = Append(@, cmd)] BY <1>4 DEF Submit, cmd
    <2>8. queue \in [Replicas -> Seq(ClientCommands)] BY DEF TypeOK
    <2>9. ASSUME NEW x \in Replicas, NEW i \in 1..Len(queue'[x]) PROVE IsIssued(queue'[x][i])
      <3>1. CASE x # r
        BY <2>7, <2>8, <3>1 DEF IssuedInv
      <3>2. CASE x = r
        <4>1. queue'[r] = Append(queue[r], cmd) BY <2>7, <2>8
        <4>2. i \in 1..Len(queue[r]) \/ i = Len(queue[r]) + 1 BY <2>4, <2>8, <3>2, <4>1
        <4>3. CASE i \in 1..Len(queue[r])
          BY <2>4, <2>8, <3>2, <4>1, <4>3 DEF IssuedInv
        <4>4. CASE i = Len(queue[r]) + 1
          <5>1. queue'[r][i] = cmd BY <2>4, <2>8, <4>1, <4>4
          <5> QED BY <2>6, <3>2, <5>1
        <4> QED BY <4>2, <4>3, <4>4
      <3> QED BY <3>1, <3>2
    <2>10. UNCHANGED <<chosen, proposed, attempt>> BY <1>4 DEF Submit
    <2> QED BY <1>1, <2>9, <2>10 DEF IssuedInv
  <1>5. ASSUME NEW r \in Replicas, Kickoff(r) PROVE IssuedInv'
    <2>1. CASE attempt[r] = None
      <3>1. BeginNextAttempt(r, queue[r], NextSlot(r)) /\ UNCHANGED chosen
        BY <1>5, <2>1 DEF Kickoff
      <3>2. queue[r] \in Seq(ClientCommands) BY DEF TypeOK
      <3>3. \A i \in 1..Len(queue[r]) : IsIssued(queue[r][i]) BY DEF IssuedInv
      <3>4. /\ \A x \in proposed' : x \in Probes \/ IsIssued(x)
            /\ \A x \in Replicas : \A i \in 1..Len(queue'[x]) : IsIssued(queue'[x][i])
            /\ \A x \in Replicas : attempt'[x] # None /\ attempt'[x].origin = "op"
                                     => IsIssued(attempt'[x].command)
        BY <3>1, <3>2, <3>3, NextAttemptIssued
      <3>5. \A i \in 1..Len(chosen') : chosen'[i] \in Probes \/ IsIssued(chosen'[i])
        BY <3>1 DEF IssuedInv
      <3> QED BY <1>1, <3>4, <3>5 DEF IssuedInv
    <2>2. CASE attempt[r] # None
      BY <1>2, <1>5, <2>2 DEF Kickoff
    <2> QED BY <2>1, <2>2
  <1>6. ASSUME NEW r \in Replicas, NEW s \in Nat, NEW n, NEW w, BeginCatchUp(r, s, n, w),
               UNCHANGED chosen, \A x \in Replicas : queue'[x] \in {queue[x], <<>>}
        PROVE  IssuedInv'
    <2>1. /\ \A x \in proposed' : x \in Probes \/ IsIssued(x)
          /\ \A x \in Replicas : attempt'[x] # None /\ attempt'[x].origin = "op"
                                   => IsIssued(attempt'[x].command)
      BY <1>6, CatchUpIssued
    <2>2. \A x \in Replicas : \A i \in 1..Len(queue'[x]) : IsIssued(queue'[x][i])
      BY <1>6 DEF IssuedInv
    <2>3. \A i \in 1..Len(chosen') : chosen'[i] \in Probes \/ IsIssued(chosen'[i])
      BY <1>6 DEF IssuedInv
    <2> QED BY <1>1, <2>1, <2>2, <2>3 DEF IssuedInv
  <1>7. ASSUME NEW r \in Replicas, Watchdog(r) PROVE IssuedInv'
    <2>1. CASE IsStalledCatchUp(r)
      <3>1. /\ BeginCatchUp(r, NextSlot(r), Len(chosen), Tail(watchdogs[r]))
            /\ UNCHANGED chosen /\ UNCHANGED queue
        BY <1>7, <2>1 DEF Watchdog
      <3>2. NextSlot(r) \in Nat BY DEF TypeOK, NextSlot
      <3> QED BY <1>6, <3>1, <3>2
    <2>2. CASE ~IsStalledCatchUp(r)
      BY <1>2, <1>7, <2>2 DEF Watchdog
    <2> QED BY <2>1, <2>2
  <1>8. ASSUME NEW r \in Replicas, Restart(r) PROVE IssuedInv'
    <2>1. /\ BeginCatchUp(r, NextSlot(r), Len(chosen), watchdogs[r])
          /\ UNCHANGED chosen /\ queue' = [queue EXCEPT ![r] = <<>>]
      BY <1>8 DEF Restart
    <2>2. NextSlot(r) \in Nat BY DEF TypeOK, NextSlot
    <2>3. \A x \in Replicas : queue'[x] \in {queue[x], <<>>} BY <2>1 DEF TypeOK
    <2> QED BY <1>6, <2>1, <2>2, <2>3
  <1>9. ASSUME NEW r \in Replicas, Crash(r) \/ DropTimer(r) PROVE IssuedInv'
    BY <1>2, <1>9 DEF Crash, DropTimer
  <1>10. CASE UNCHANGED vars
    BY <1>2, <1>10 DEF vars
  <1> QED BY <1>3, <1>4, <1>5, <1>7, <1>8, <1>9, <1>10, LearnIssued DEF Next


\* What a put does to the reference depends on the log up to it only.
LEMMA WriteStable ==
    ASSUME NEW l, NEW m, NEW n \in Nat, NEW key, NEW v,
           \A i \in 1..n : m[i] = l[i], LastWrite(l, n, key, v)
    PROVE  LastWrite(m, n, key, v)
  <1>1. \A i \in 1..n : Effective(m, i) <=> Effective(l, i)
    <2> SUFFICES ASSUME NEW i \in 1..n PROVE Effective(m, i) <=> Effective(l, i)
      OBVIOUS
    <2>1. \A j \in 1..(i - 1) : m[j] = l[j] OBVIOUS
    <2>2. m[i] = l[i] OBVIOUS
    <2> QED BY <2>1, <2>2 DEF Effective
  <1> QED BY <1>1 DEF LastWrite

LEMMA StepResults ==
    ASSUME TypeOK, ReplayInv, IssuedInv, [Next]_vars, \A x \in results : RecordTrue(x)
    PROVE  \A x \in results' : RecordTrue(x)'
  <1>1. ASSUME NEW x \in results PROVE RecordTrue(x)'
    <2> DEFINE cmd == CommandOf(x.client, x.seq + 1)
    <2>1. /\ x.seq + 1 <= current[x.client] /\ x.slot < Len(chosen)
          /\ chosen[x.slot + 1] = cmd
          /\ cmd.op = "get" => LastWrite(chosen, x.slot, cmd.key, x.outcome)
      BY DEF RecordTrue
    <2>2. x.client \in Clients /\ x.seq \in Nat /\ x.slot \in Nat
      BY DEF TypeOK, Records
    <2>3. x.seq + 1 <= current'[x.client] BY <2>1, <2>2, IssuedKept
    <2>4. /\ Len(chosen) \in Nat /\ Len(chosen') \in Nat /\ Len(chosen) <= Len(chosen')
          /\ \A i \in 1..Len(chosen) : chosen'[i] = chosen[i]
      BY LogGrows
    <2>5. x.slot < Len(chosen') /\ chosen'[x.slot + 1] = cmd BY SMTT(30), <2>1, <2>2, <2>4
    <2>6. \A i \in 1..x.slot : chosen'[i] = chosen[i] BY <2>1, <2>2, <2>4
    <2>7. cmd.op = "get" => LastWrite(chosen', x.slot, cmd.key, x.outcome)
      BY <2>1, <2>2, <2>6, WriteStable
    <2> QED BY <2>3, <2>5, <2>7 DEF RecordTrue, CommandOf
  <1>2. ASSUME NEW r \in Replicas, Learn(r), NEW x \in results', x \notin results
        PROVE  RecordTrue(x)'
    <2>1. PICK v \in Decidable(attempt[r].slot) : Decide(r, v) BY <1>2 DEF Learn
    <2> DEFINE a == attempt[r]
               n == Len(log[r])
    <2>2. a \in Attempts /\ a # None /\ a.slot = n /\ n \in Nat /\ n <= Len(chosen)
      BY <1>2 DEF Learn, TypeOK, NextSlot, ReplayInv
    <2>3. /\ a.origin = "op" /\ v = a.command
          /\ x = [client |-> v.client, seq |-> v.seq, slot |-> n,
                  outcome |-> OutcomeOf(kv[r], v)]
      BY <1>2, <2>1, <2>2 DEF Decide, Answers
    <2>4. v \in ClientCommands /\ IsIssued(v) BY <2>2, <2>3 DEF Attempts, IssuedInv
    <2>5. /\ v.client \in Clients /\ v.seq \in Nat /\ v.seq + 1 \in 1..current[v.client]
          /\ v = CommandOf(v.client, v.seq + 1)
      BY <2>4 DEF IsIssued, ClientCommands, Puts, Gets
    <2>6. x.client = v.client /\ x.seq = v.seq /\ x.slot = n /\ x.outcome = OutcomeOf(kv[r], v)
      BY <2>3
    <2>7. UNCHANGED current BY <2>1 DEF Decide, clientVars
    <2>8. /\ chosen \in Seq(Commands) /\ v \in Commands
      BY <2>4 DEF TypeOK, Commands
    <2>9. /\ n < Len(chosen') /\ chosen'[n + 1] = v
          /\ \A i \in 1..n : chosen'[i] = chosen[i]
      <3>1. CASE n < Len(chosen)
        <4>1. chosen' = chosen /\ v = chosen[n + 1]
          BY <2>1, <2>2, <3>1 DEF Decide, Decidable
        <4> QED BY <3>1, <4>1
      <3>2. CASE ~(n < Len(chosen))
        <4>1. n = Len(chosen) BY <2>2, <2>8, <3>2
        <4>2. chosen' = Append(chosen, v) BY <2>1, <2>2, <3>2 DEF Decide
        <4> QED BY <2>8, <4>1, <4>2
      <3> QED BY <3>1, <3>2
    <2>10. v.op = "get" => LastWrite(chosen', n, v.key, x.outcome)
      <3> SUFFICES ASSUME v.op = "get" PROVE LastWrite(chosen', n, v.key, x.outcome)
        OBVIOUS
      <3>1. v.key \in Keys BY <2>4 DEF ClientCommands, Puts, Gets
      <3>2. x.outcome = kv[r].map[v.key] BY <2>6 DEF OutcomeOf
      <3>3. LastWrite(chosen, n, v.key, kv[r].map[v.key]) BY <3>1 DEF ReplayInv, Replays
      <3> QED BY <2>2, <2>9, <3>2, <3>3, WriteStable
    <2>11. v.seq + 1 <= current[v.client] BY <2>5 DEF TypeOK
    <2>12. (CommandOf(x.client, x.seq + 1))' = CommandOf(v.client, v.seq + 1)
      BY <2>6 DEF CommandOf
    <2> QED BY <2>5, <2>6, <2>7, <2>9, <2>10, <2>11, <2>12 DEF RecordTrue
  <1> QED BY <1>1, <1>2, LogSteps

\* What a client has in the log is numbered at most as its latest operation.
LEMMA SeqBound ==
    ASSUME TypeOK, IssuedInv, NEW i \in 1..Len(chosen), chosen[i].client \in Clients
    PROVE  chosen[i].seq \in Nat /\ chosen[i].seq <= current[chosen[i].client] - 1
  <1>1. chosen[i] \in Commands BY DEF TypeOK
  <1>2. IsIssued(chosen[i]) BY ProbeFields, ReservedAssumption DEF IssuedInv, Probes, Gets
  <1>3. chosen[i].seq \in Nat BY <1>1 DEF Commands, ClientCommands, Puts, Gets, Probes
  <1>4. chosen[i].seq + 1 \in 1..current[chosen[i].client] BY <1>2 DEF IsIssued
  <1>5. current[chosen[i].client] \in Nat BY DEF TypeOK
  <1> QED BY <1>3, <1>4, <1>5

LEMMA StepAcked ==
    ASSUME TypeOK, ReplayInv, IssuedInv, [Next]_vars, \A x \in results : RecordTrue(x),
           \A x \in acked : NothingLater(x)
    PROVE  /\ \A x \in acked' : NothingLater(x)'
           /\ acked \subseteq acked'
  <1>0. \A x \in results : x.slot \in Nat /\ x.slot + 1 <= Len(chosen) /\ Len(chosen) \in Nat
    <2> SUFFICES ASSUME NEW x \in results
                 PROVE  x.slot \in Nat /\ x.slot + 1 <= Len(chosen) /\ Len(chosen) \in Nat
      OBVIOUS
    <2>1. x.slot \in Nat BY DEF TypeOK, Records
    <2>2. x.slot < Len(chosen) BY DEF RecordTrue
    <2>3. Len(chosen) \in Nat BY DEF TypeOK
    <2> QED BY <2>1, <2>2, <2>3
  <1>1. ASSUME NEW x \in results, NothingLater(x) PROVE NothingLater(x)'
    <2>1. \A i \in 1..(x.slot + 1) : i \in 1..Len(chosen) BY <1>0
    <2>2. \A i \in 1..(x.slot + 1) : chosen'[i] = chosen[i] BY <2>1, LogGrows
    <2> QED BY <1>1, <2>2 DEF NothingLater
  <1>2. CASE UNCHANGED acked
    BY <1>1, <1>2 DEF TypeOK
  <1>3. ASSUME NEW c \in Clients, Issue(c) PROVE UNCHANGED acked
    BY <1>3 DEF Issue
  <1>4. ASSUME NEW c \in Clients, Acknowledge(c)
        PROVE  /\ \A x \in acked' : NothingLater(x)'
               /\ acked \subseteq acked'
    <2>1. PICK x \in results : /\ x.client = c /\ x.seq = current[c] - 1
                               /\ acked' = acked \cup {x}
      BY <1>4 DEF Acknowledge
    <2>2. NothingLater(x)
      <3> SUFFICES ASSUME NEW i \in 1..(x.slot + 1), chosen[i].op = "put",
                          chosen[i].client = x.client
                   PROVE  chosen[i].seq <= x.seq
        BY DEF NothingLater
      <3>1. i \in 1..Len(chosen) BY <1>0
      <3> QED BY <2>1, <3>1, SeqBound
    <2> QED BY <1>1, <2>1, <2>2 DEF TypeOK
  <1> QED BY <1>2, <1>3, <1>4, ClientSteps

LEMMA StepBefore ==
    ASSUME TypeOK, ReplayInv, LinInv, [Next]_vars
    PROVE  \A c \in Clients : \A n \in 1..current'[c] : IssuedAfter(c, n)'
  <1>1. /\ IssuedInv
        /\ acked \subseteq acked'
        /\ \A c \in Clients : \A n \in 1..current[c] : IssuedAfter(c, n)
    BY StepAcked DEF LinInv
  <1>2. /\ Len(chosen) \in Nat
        /\ \A i \in 1..Len(chosen) : chosen'[i] = chosen[i]
        /\ \A i \in 1..Len(chosen') : i \in 1..Len(chosen) \/ i = Len(chosen) + 1
    <2>1. chosen \in Seq(Commands) /\ proposed \subseteq Commands BY DEF TypeOK
    <2>2. ASSUME NEW v \in proposed, chosen' = Append(chosen, v)
          PROVE  \A i \in 1..Len(chosen') : i \in 1..Len(chosen) \/ i = Len(chosen) + 1
      <3>1. Len(chosen') = Len(chosen) + 1 BY <2>1, <2>2
      <3> QED BY <2>1, <3>1
    <2> QED BY <2>2, LogGrows
  <1>3. \A x \in acked : x.slot \in Nat /\ x.slot + 1 <= Len(chosen)
    <2> SUFFICES ASSUME NEW x \in acked PROVE x.slot \in Nat /\ x.slot + 1 <= Len(chosen)
      OBVIOUS
    <2>1. x \in results BY DEF TypeOK
    <2>2. x.slot \in Nat BY <2>1 DEF TypeOK, Records
    <2>3. x.slot < Len(chosen) BY <2>1 DEF LinInv, RecordTrue
    <2> QED BY <1>2, <2>2, <2>3
  <1>4. ASSUME NEW c \in Clients, NEW n \in 1..current[c], before'[c][n] = before[c][n]
        PROVE  IssuedAfter(c, n)'
    <2>1. /\ before[c][n] \subseteq acked
          /\ \A x \in before[c][n] : \A i \in 1..Len(chosen) :
               chosen[i] = CommandOf(c, n) => x.slot + 1 < i
      BY <1>1 DEF IssuedAfter
    <2>2. ASSUME NEW x \in before[c][n], NEW i \in 1..Len(chosen'), chosen'[i] = CommandOf(c, n)
          PROVE  x.slot + 1 < i
      <3>1. CASE i \in 1..Len(chosen)
        BY <1>2, <2>1, <2>2, <3>1
      <3>2. CASE i = Len(chosen) + 1
        BY <1>2, <1>3, <2>1, <3>2
      <3> QED BY <1>2, <3>1, <3>2
    <2> QED BY <1>1, <1>4, <2>1, <2>2 DEF IssuedAfter, CommandOf
  <1>5. CASE UNCHANGED <<current, before>>
    BY <1>4, <1>5
  <1>6. ASSUME NEW d \in Clients, Issue(d)
        PROVE  \A c \in Clients : \A n \in 1..current'[c] : IssuedAfter(c, n)'
    <2>1. /\ current' = [current EXCEPT ![d] = @ + 1]
          /\ before' = [before EXCEPT ![d] = Append(@, acked)]
          /\ UNCHANGED <<chosen, acked>>
      BY <1>6 DEF Issue
    <2>2. /\ current \in [Clients -> Nat] /\ before \in [Clients -> Seq(SUBSET Records)]
          /\ \A c \in Clients : Len(before[c]) = current[c]
          /\ acked \in SUBSET Records
      BY DEF TypeOK
    <2>3. ASSUME NEW c \in Clients, NEW n \in 1..current[c] PROVE IssuedAfter(c, n)'
      <3>1. CASE c # d
        BY <1>4, <2>1, <2>2, <3>1
      <3>2. CASE c = d
        <4>1. before'[d] = Append(before[d], acked) BY <2>1, <2>2
        <4>2. n \in 1..Len(before[d]) BY <2>2, <2>3, <3>2
        <4>3. before'[c][n] = before[c][n] BY <2>2, <3>2, <4>1, <4>2
        <4> QED BY <1>4, <4>3
      <3> QED BY <3>1, <3>2
    <2>4. ASSUME NEW n, n = current[d] + 1 PROVE IssuedAfter(d, n)'
      <3>1. before'[d] = Append(before[d], acked) /\ Len(before[d]) = current[d]
        BY <2>1, <2>2
      <3>2. before'[d][n] = acked BY <2>2, <2>4, <3>1
      <3>3. ASSUME NEW i \in 1..Len(chosen) PROVE chosen[i] # CommandOf(d, n)
        <4>1. n \in Nat BY <2>2, <2>4
        <4>2. CommandOf(d, n).client = d /\ CommandOf(d, n).seq = n - 1
          BY <4>1, CommandFields
        <4>3. n - 1 = current[d] /\ ~(current[d] <= current[d] - 1) BY <2>2, <2>4
        <4>4. chosen[i].client \in Clients => chosen[i].seq <= current[chosen[i].client] - 1
          BY <1>1, SeqBound
        <4> QED BY <4>2, <4>3, <4>4
      <3>4. before'[d][n] \subseteq acked' BY <2>1, <3>2
      <3>5. \A i \in 1..Len(chosen') : chosen'[i] # CommandOf(d, n) BY <2>1, <3>3
      <3> QED BY <2>1, <3>4, <3>5 DEF IssuedAfter, CommandOf
    <2>5. \A c \in Clients : c # d => current'[c] = current[c] BY <2>1, <2>2
    <2>6. current'[d] = current[d] + 1 /\ current[d] \in Nat BY <2>1, <2>2
    <2>7. \A n \in 1..current'[d] : n \in 1..current[d] \/ n = current[d] + 1 BY <2>6
    <2> QED BY <2>3, <2>4, <2>5, <2>7
  <1>7. ASSUME NEW d \in Clients, Acknowledge(d) PROVE UNCHANGED <<current, before>>
    BY <1>7 DEF Acknowledge
  <1> QED BY <1>5, <1>6, <1>7, ClientSteps

LEMMA StepLin == TypeOK /\ ReplayInv /\ LinInv /\ [Next]_vars => LinInv'
  BY StepIssued, StepResults, StepAcked, StepBefore DEF LinInv

\* Two puts of the log with one client and one number are the same operation.
LEMMA SameOperation ==
    ASSUME TypeOK, IssuedInv, NEW i \in 1..Len(chosen), NEW j \in 1..Len(chosen),
           chosen[i].client \in Clients,
           chosen[i].client = chosen[j].client, chosen[i].seq = chosen[j].seq
    PROVE  chosen[i] = chosen[j]
  <1>1. IsIssued(chosen[i]) /\ IsIssued(chosen[j])
    BY ProbeFields, ReservedAssumption DEF IssuedInv, Probes, Gets
  <1> QED BY <1>1 DEF IsIssued

\* An acknowledged put takes effect at one slot, no later than its record's.
LEMMA PutTakesEffect ==
    ASSUME TypeOK, LinInv, NEW x \in acked, CommandOf(x.client, x.seq + 1).op = "put"
    PROVE  \E e \in 0..x.slot : EffectSlots(x) = {e}
  <1> DEFINE cmd == CommandOf(x.client, x.seq + 1)
  <1>1. x \in results /\ x.client \in Clients /\ x.seq \in Nat /\ x.slot \in Nat
    BY DEF TypeOK, Records
  <1>2. x.slot < Len(chosen) /\ chosen[x.slot + 1] = cmd
    BY <1>1 DEF LinInv, RecordTrue
  <1>3. cmd.client = x.client /\ cmd.seq = x.seq /\ cmd.op = "put"
    <2>1. x.seq + 1 \in Nat /\ (x.seq + 1) - 1 = x.seq BY <1>1
    <2> QED BY <1>1, <2>1, CommandFields
  <1> HIDE DEF cmd
  <1>4. Len(chosen) \in Nat /\ x.slot + 1 \in 1..Len(chosen) BY <1>1, <1>2 DEF TypeOK
  <1> DEFINE At == {i \in Nat : i \in 1..Len(chosen) /\ chosen[i] = cmd}
  <1>5. PICK m \in At : \A i \in At : ~(<<i, m>> \in OpToRel(<, Nat))
    <2>1. x.slot + 1 \in At BY <1>1, <1>2, <1>4
    <2>2. At \subseteq Nat /\ At # {} BY <2>1
    <2> HIDE DEF At
    <2> QED BY <2>2, NatLessThanWellFounded, WFMin
  <1>6. /\ m \in Nat /\ m \in 1..Len(chosen) /\ chosen[m] = cmd
        /\ \A i \in 1..Len(chosen) : chosen[i] = cmd => m <= i
    <2>1. ASSUME NEW i \in 1..Len(chosen), chosen[i] = cmd PROVE m <= i
      <3>1. i \in At /\ m \in At BY <1>4, <2>1
      <3>2. ~(i < m) BY <1>5, <3>1 DEF OpToRel
      <3> QED BY <3>1, <3>2
    <2> QED BY <2>1
  <1>7. m <= x.slot + 1 BY <1>2, <1>4, <1>6
  <1>8. Effective(chosen, m)
    <2> SUFFICES ASSUME NEW j \in 1..(m - 1), chosen[j].op = "put",
                        chosen[j].client = chosen[m].client
                 PROVE  chosen[j].seq < chosen[m].seq
      BY <1>3, <1>6 DEF Effective
    <2>1. j \in 1..Len(chosen) /\ j \in 1..(x.slot + 1) /\ ~(m <= j) BY <1>1, <1>4, <1>6, <1>7
    <2>2. chosen[j].seq <= x.seq BY <1>3, <1>6, <2>1 DEF LinInv, NothingLater
    <2>3. chosen[j].seq \in Nat BY <1>1, <1>3, <1>6, <2>1, SeqBound DEF LinInv
    <2>4. chosen[j].seq # x.seq
      BY <1>1, <1>3, <1>6, <2>1, SameOperation DEF LinInv
    <2> QED BY <1>1, <1>3, <1>6, <2>2, <2>3, <2>4
  <1>9. ASSUME NEW i \in 1..Len(chosen), chosen[i] = cmd, Effective(chosen, i) PROVE i = m
    <2>1. i \in Nat /\ m <= i BY <1>4, <1>6, <1>9
    <2>2. CASE m < i
      <3>1. m \in 1..(i - 1) BY <1>6, <2>1, <2>2
      <3>2. chosen[m].seq < chosen[i].seq BY <1>3, <1>6, <1>9, <3>1 DEF Effective
      <3> QED BY <1>1, <1>3, <1>6, <1>9, <3>2
    <2> QED BY <1>6, <2>1, <2>2
  <1>10. {i \in 1..Len(chosen) : chosen[i] = cmd /\ Effective(chosen, i)} = {m}
    BY <1>6, <1>8, <1>9
  <1>11. EffectSlots(x) = {m - 1}
    BY <1>3, <1>10 DEF EffectSlots, cmd
  <1>12. m - 1 \in 0..x.slot BY <1>1, <1>6, <1>7
  <1> QED BY <1>11, <1>12

LEMMA LinInvImplies == TypeOK /\ LinInv => Linearizable
  <1> SUFFICES ASSUME TypeOK, LinInv PROVE Linearizable
    OBVIOUS
  <1>1. ASSUME NEW x \in acked
        PROVE  /\ x \in results /\ x.client \in Clients /\ x.seq \in Nat /\ x.slot \in Nat
               /\ RecordTrue(x)
               /\ CommandOf(x.client, x.seq + 1).op \in {"put", "get"}
               /\ \E e \in 0..x.slot : EffectSlots(x) = {e}
    <2>1. x \in results /\ x.client \in Clients /\ x.seq \in Nat /\ x.slot \in Nat
      BY DEF TypeOK, Records
    <2>2. CommandOf(x.client, x.seq + 1).op \in {"put", "get"}
      <3>1. x.seq + 1 \in Nat BY <2>1
      <3> QED BY <2>1, <3>1, CommandFields
    <2>3. CASE CommandOf(x.client, x.seq + 1).op = "get"
      <3>1. EffectSlots(x) = {x.slot} BY <2>3 DEF EffectSlots
      <3>2. x.slot \in 0..x.slot BY <2>1
      <3> QED BY <2>1, <2>2, <3>1, <3>2 DEF LinInv
    <2>4. CASE CommandOf(x.client, x.seq + 1).op = "put"
      BY <2>1, <2>2, <2>4, PutTakesEffect DEF LinInv
    <2> QED BY <2>2, <2>3, <2>4
  <1>2. ASSUME NEW x \in acked
        PROVE  /\ Cardinality(EffectSlots(x)) = 1
               /\ CommandOf(x.client, x.seq + 1).op = "get" =>
                    x.outcome = ValueAfter(chosen, x.slot, CommandOf(x.client, x.seq + 1).key)
    <2>1. PICK e \in 0..x.slot : EffectSlots(x) = {e} BY <1>1
    <2>2. Cardinality({e}) = 1 BY FS_Singleton
    <2>3. CommandOf(x.client, x.seq + 1).op = "get" =>
            LastWrite(chosen, x.slot, CommandOf(x.client, x.seq + 1).key, x.outcome)
      BY <1>1 DEF RecordTrue
    <2> QED BY <1>1, <2>1, <2>2, <2>3, ReplayValue
  <1>3. ASSUME NEW y \in acked, NEW x \in before[y.client][y.seq + 1],
               NEW i \in EffectSlots(x), NEW j \in EffectSlots(y)
        PROVE  i < j
    <2> DEFINE cmd == CommandOf(y.client, y.seq + 1)
    <2>1. y.client \in Clients /\ y.seq + 1 \in 1..current[y.client]
      <3>1. y.client \in Clients /\ y.seq \in Nat /\ y.seq + 1 <= current[y.client]
        BY <1>1 DEF RecordTrue
      <3> QED BY <3>1 DEF TypeOK
    <2>2. IssuedAfter(y.client, y.seq + 1) BY <2>1 DEF LinInv
    <2>3. x \in acked BY <2>2 DEF IssuedAfter
    <2>4. i \in 0..x.slot /\ x.slot \in Nat BY <1>1, <2>3
    <2>5. j + 1 \in 1..Len(chosen) /\ chosen[j + 1] = cmd
      <3>1. CASE cmd.op = "put"
        <4>1. PICK k \in 1..Len(chosen) : chosen[k] = cmd /\ j = k - 1
          BY <3>1 DEF EffectSlots
        <4>2. j + 1 = k BY <4>1
        <4> QED BY <4>1, <4>2
      <3>2. CASE cmd.op # "put"
        <4>1. j = y.slot BY <3>2 DEF EffectSlots
        <4>2. y.slot \in Nat /\ y.slot < Len(chosen) /\ chosen[y.slot + 1] = cmd
          BY <1>1 DEF RecordTrue
        <4>3. Len(chosen) \in Nat BY DEF TypeOK
        <4> QED BY <4>1, <4>2, <4>3
      <3> QED BY <3>1, <3>2
    <2>6. x.slot + 1 < j + 1 BY <2>2, <2>5 DEF IssuedAfter
    <2>7. j \in 0..y.slot /\ y.slot \in Nat BY <1>1
    <2> QED BY <2>4, <2>6, <2>7
  <1> QED BY <1>2, <1>3 DEF Linearizable

\* P8 to P10 for any number of replicas, clients, retries, crashes and
\* restarts: acknowledged operations are linearizable in slot order. A put
\* submitted again, at any replica, takes effect once; a get answers with the
\* value of the log before its slot, however far behind its replica was.
THEOREM LogLinearizable == Spec => []Linearizable
  <1>1. Init => LinInv
    BY DEF Init, LinInv, IssuedInv
  <1>2. Spec => []LinInv
    BY <1>1, ReplayInvariance, LogTypeCorrectness, StepLin, PTL DEF Spec
  <1> QED BY <1>2, LogTypeCorrectness, LinInvImplies, PTL

-----------------------------------------------------------------------------
(* The tuner: leaders are pinned.                                          *)

\* Slot s belongs to epoch q when it lies between q's first slot and the next's.
LEMMA EpochOfSlot ==
    ASSUME NEW s \in Nat, NEW q \in Nat, q * EpochLen <= s, s < q * EpochLen + EpochLen
    PROVE  EpochOf(s) = q
  BY TunerAssumption DEF TunerConstantsOK, EpochOf

\* ... and every slot lies in its own epoch.
LEMMA SlotInEpoch ==
    ASSUME NEW s \in Nat
    PROVE  EpochOf(s) \in Nat /\ EpochOf(s) * EpochLen <= s
  BY TunerAssumption DEF TunerConstantsOK, EpochOf

\* How many samples the tuner has taken.
Counted == epoch * EpochLen + epochSamples.count

\* The samples taken are those of the slots below Counted, one each, and every
\* epoch up to the open one has its configuration.
SamplesInOrder ==
    /\ epoch \in Nat
    /\ epochSamples \in [sum : Nat, count : Nat]
    /\ epochSamples.count < EpochLen
    /\ DOMAIN epochConfigs = 0..epoch
    /\ recorded = 0..(Counted - 1)

\* No replica is past the first slot without a sample, and each drives a
\* proposer for its own frontier only.
FrontiersBehind ==
    /\ frontier \in [Nodes -> Nat]
    /\ \A r \in Nodes : frontier[r] <= Counted
    /\ DOMAIN building = Nodes
    /\ \A r \in Nodes : building[r] # Idle => building[r].slot = frontier[r]

\* Who led a slot is who the configuration of its epoch names.
LedAsConfigured ==
    /\ DOMAIN ledBy = Slots
    /\ \A s \in Slots : ledBy[s] # {} => HasConfig(s) /\ ledBy[s] = {LeaderForSlot(s)}

TunerInv == SamplesInOrder /\ FrontiersBehind /\ LedAsConfigured

LEMMA CountedTyped ==
    ASSUME SamplesInOrder PROVE Counted \in Nat
  BY TunerAssumption DEF TunerConstantsOK, SamplesInOrder, Counted

\* The slots up to the first without a sample have a configuration, and that
\* one belongs to the open epoch.
LEMMA AskedIsOpen ==
    ASSUME SamplesInOrder, NEW s \in Nat, s <= Counted
    PROVE  HasConfig(s) /\ (s = Counted => EpochOf(s) = epoch)
  <1>1. EpochLen \in Nat \ {0} BY TunerAssumption DEF TunerConstantsOK
  <1>2. EpochOf(s) \in Nat /\ EpochOf(s) * EpochLen <= s BY SlotInEpoch
  <1>3. s < epoch * EpochLen + EpochLen BY <1>1 DEF SamplesInOrder, Counted
  <1>4. EpochOf(s) <= epoch
    <2>1. epoch \in Nat BY DEF SamplesInOrder
    <2>2. EpochOf(s) * EpochLen < (epoch + 1) * EpochLen BY <1>1, <1>2, <1>3, <2>1
    <2> QED BY <1>1, <1>2, <2>1, <2>2
  <1>5. s = Counted => EpochOf(s) = epoch
    BY <1>1, <1>3, EpochOfSlot DEF SamplesInOrder, Counted
  <1> QED BY <1>2, <1>4, <1>5 DEF HasConfig, SamplesInOrder

\* What close_epoch does to the epochs.
LEMMA CloseEpochSteps ==
    ASSUME NEW samples, CloseEpoch(samples)
    PROVE  /\ epoch' = epoch + 1
           /\ epochSamples' = NoSamples
           /\ DOMAIN epochConfigs' = DOMAIN epochConfigs \cup {epoch + 1}
           /\ \A e \in DOMAIN epochConfigs \ {epoch + 1} : epochConfigs'[e] = epochConfigs[e]
  <1>1. epoch' = epoch + 1 BY DEF CloseEpoch
  <1>2. epochSamples' = NoSamples BY DEF CloseEpoch
  <1>3. \E cfg : epochConfigs' = [e \in DOMAIN epochConfigs \cup {epoch + 1} |->
                                    IF e = epoch + 1 THEN cfg ELSE epochConfigs[e]]
    BY Zenon DEF CloseEpoch
  <1> QED BY <1>1, <1>2, <1>3

\* absorb: the sample of the first slot without one.
LEMMA AbsorbSteps ==
    ASSUME SamplesInOrder, NEW latency \in Nat, Absorb(latency),
           recorded' = recorded \cup {Counted}
    PROVE  /\ SamplesInOrder'
           /\ Counted' = Counted + 1
           /\ \A e \in DOMAIN epochConfigs : /\ e \in DOMAIN epochConfigs'
                                             /\ epochConfigs'[e] = epochConfigs[e]
  <1>1. EpochLen \in Nat \ {0} BY TunerAssumption DEF TunerConstantsOK
  <1> DEFINE samples == AddSample(epochSamples, latency)
  <1>2. samples \in [sum : Nat, count : Nat] /\ samples.count = epochSamples.count + 1
    BY DEF SamplesInOrder, AddSample
  <1>3. epochSamples.count \in Nat /\ epoch \in Nat BY DEF SamplesInOrder
  <1>4. recorded' = 0..Counted
    BY CountedTyped DEF SamplesInOrder
  <1>5. CASE samples.count >= EpochLen
    <2>1. CloseEpoch(samples) BY <1>5 DEF Absorb
    <2>2. /\ epoch' = epoch + 1 /\ epochSamples' = NoSamples
          /\ DOMAIN epochConfigs' = DOMAIN epochConfigs \cup {epoch + 1}
          /\ \A e \in DOMAIN epochConfigs \ {epoch + 1} : epochConfigs'[e] = epochConfigs[e]
      BY <2>1, CloseEpochSteps
    <2>3. epochSamples.count + 1 = EpochLen BY <1>1, <1>2, <1>3, <1>5 DEF SamplesInOrder
    <2>4. Counted' = Counted + 1 BY <1>1, <1>3, <2>2, <2>3 DEF Counted, NoSamples
    <2>5. epoch + 1 \notin DOMAIN epochConfigs BY <1>3 DEF SamplesInOrder
    <2>6. DOMAIN epochConfigs' = 0..epoch' BY <1>3, <2>2 DEF SamplesInOrder
    <2>7. SamplesInOrder'
      <3>1. epochSamples'.count < EpochLen /\ epochSamples' \in [sum : Nat, count : Nat] /\ epoch' \in Nat
        BY <1>1, <1>3, <2>2 DEF NoSamples
      <3>2. recorded' = 0..(Counted' - 1) BY <1>4, <2>4, CountedTyped
      <3> QED BY <2>6, <3>1, <3>2 DEF SamplesInOrder
    <2> QED BY <2>2, <2>4, <2>5, <2>7
  <1>6. CASE ~(samples.count >= EpochLen)
    <2>1. epochSamples' = samples /\ epoch' = epoch /\ epochConfigs' = epochConfigs
      BY <1>6 DEF Absorb
    <2>2. Counted' = Counted + 1 BY <1>1, <1>2, <1>3, <2>1 DEF Counted
    <2>3. recorded' = 0..(Counted' - 1) BY <1>4, <2>2, CountedTyped
    <2>4. samples.count < EpochLen BY <1>1, <1>2, <1>3, <1>6
    <2>5. SamplesInOrder' BY <1>2, <2>1, <2>3, <2>4 DEF SamplesInOrder
    <2> QED BY <2>1, <2>2, <2>5
  <1> QED BY <1>5, <1>6

LEMMA TunerInitInv == TunerInit => TunerInv
  <1> SUFFICES ASSUME TunerInit PROVE TunerInv OBVIOUS
  <1>1. EpochLen \in Nat \ {0} BY TunerAssumption DEF TunerConstantsOK
  <1>2. epochConfigs = [e \in {0} |-> [leader |-> 0, schedule |-> LeaderFirst(0)]]
    BY DEF TunerInit
  <1>3. epoch = 0 /\ epochSamples = NoSamples /\ recorded = {} BY DEF TunerInit
  <1>4. DOMAIN epochConfigs = 0..epoch BY <1>2, <1>3
  <1>5. Counted = 0 BY <1>1, <1>3 DEF Counted, NoSamples
  <1>6. SamplesInOrder BY <1>1, <1>3, <1>4, <1>5 DEF SamplesInOrder, NoSamples
  <1>7. FrontiersBehind BY <1>5 DEF TunerInit, FrontiersBehind
  <1>8. LedAsConfigured BY DEF TunerInit, LedAsConfigured
  <1> QED BY <1>6, <1>7, <1>8 DEF TunerInv

LEMMA TunerStepInv == TunerInv /\ [TunerNext]_tuningVars => TunerInv'
  <1> SUFFICES ASSUME TunerInv, [TunerNext]_tuningVars PROVE TunerInv' OBVIOUS
  <1> USE DEF TunerInv
  <1>1. CASE UNCHANGED tuningVars
    <2>1. UNCHANGED <<epoch, epochSamples, epochConfigs, recorded, frontier, building, ledBy>>
      BY <1>1 DEF tuningVars, tunerVars
    <2> QED
      BY <2>1 DEF SamplesInOrder, FrontiersBehind, LedAsConfigured, Counted, HasConfig,
                  LeaderForSlot
  <1>2. ASSUME NEW r \in Nodes, BeginTunedAttempt(r) PROVE TunerInv'
    <2> DEFINE s == frontier[r]
    <2> DEFINE a == [slot |-> s, leader |-> LeaderForSlot(s), delay |-> DelayForSlot(s, r)]
    <2>1. UNCHANGED <<epoch, epochSamples, epochConfigs, recorded, frontier>>
      BY <1>2 DEF BeginTunedAttempt, tunerVars
    <2>2. building' = [building EXCEPT ![r] = a] BY <1>2 DEF BeginTunedAttempt
    <2>3. SamplesInOrder' BY <2>1 DEF SamplesInOrder, Counted
    <2>4. FrontiersBehind' BY <2>1, <2>2 DEF FrontiersBehind, Counted
    <2>5. LedAsConfigured'
      <3>1. HasConfig(s) /\ s \in Slots
        BY <1>2, TunerAssumption DEF BeginTunedAttempt, TunerConstantsOK, FrontiersBehind, Slots
      <3>2. ledBy' = [ledBy EXCEPT ![s] = @ \cup {LeaderForSlot(s)}]
        BY <1>2 DEF BeginTunedAttempt
      <3>3. ledBy'[s] = {LeaderForSlot(s)} BY <3>1, <3>2 DEF LedAsConfigured
      <3>4. \A t \in Slots \ {s} : ledBy'[t] = ledBy[t] BY <3>1, <3>2 DEF LedAsConfigured
      <3>5. \A t : HasConfig(t)' = HasConfig(t) /\ LeaderForSlot(t)' = LeaderForSlot(t)
        BY <2>1 DEF HasConfig, LeaderForSlot, EpochOf
      <3>6. DOMAIN ledBy' = Slots BY <3>2 DEF LedAsConfigured
      <3> QED BY <3>1, <3>3, <3>4, <3>5, <3>6 DEF LedAsConfigured
    <2> QED BY <2>3, <2>4, <2>5
  <1>3. ASSUME NEW r \in Nodes, FinishAttempt(r) PROVE TunerInv'
    <2> DEFINE s == frontier[r]
    <2>1. /\ building' = [building EXCEPT ![r] = Idle]
          /\ frontier' = [frontier EXCEPT ![r] = s + 1]
          /\ NoteSlotDecided(s)
          /\ ledBy' = ledBy
      BY <1>3 DEF FinishAttempt, FrontiersBehind
    <2>2. s \in Nat /\ s <= Counted /\ Counted \in Nat
      BY CountedTyped DEF FrontiersBehind
    <2>3. s \in recorded <=> s < Counted BY <2>2 DEF SamplesInOrder
    <2>4. /\ SamplesInOrder'
          /\ Counted' \in Nat /\ Counted' >= Counted /\ Counted' >= s + 1
          /\ \A e \in DOMAIN epochConfigs : /\ e \in DOMAIN epochConfigs'
                                            /\ epochConfigs'[e] = epochConfigs[e]
      <3>1. CASE s \in recorded
        <4>1. UNCHANGED <<epoch, epochSamples, epochConfigs, recorded>>
          BY <2>1, <3>1 DEF NoteSlotDecided, tunerVars
        <4> QED BY <2>2, <2>3, <3>1, <4>1 DEF SamplesInOrder, Counted
      <3>2. CASE s \notin recorded
        <4>1. s = Counted BY <2>2, <2>3, <3>2
        <4>2. PICK latency \in Nat : Absorb(latency)
          BY <2>1, <3>2, TunerAssumption DEF NoteSlotDecided, TunerConstantsOK
        <4>3. recorded' = recorded \cup {Counted} BY <2>1, <3>2, <4>1 DEF NoteSlotDecided
        <4>4. /\ SamplesInOrder'
              /\ Counted' = Counted + 1
              /\ \A e \in DOMAIN epochConfigs : /\ e \in DOMAIN epochConfigs'
                                                /\ epochConfigs'[e] = epochConfigs[e]
          BY <4>2, <4>3, AbsorbSteps
        <4> QED BY <2>2, <4>4
      <3> QED BY <3>1, <3>2
    <2>5. FrontiersBehind' BY <2>1, <2>2, <2>4 DEF FrontiersBehind
    <2>6. LedAsConfigured'
      <3>1. \A t : HasConfig(t) => HasConfig(t)' /\ LeaderForSlot(t)' = LeaderForSlot(t)
        BY <2>4 DEF HasConfig, LeaderForSlot, EpochOf
      <3> QED BY <2>1, <3>1 DEF LedAsConfigured
    <2> QED BY <2>4, <2>5, <2>6
  <1>4. ASSUME NEW r \in Nodes, StopReplica(r) PROVE TunerInv'
    <2>1. UNCHANGED <<epoch, epochSamples, epochConfigs, recorded, frontier, building, ledBy>>
      BY <1>4 DEF StopReplica, tunerVars
    <2> QED
      BY <2>1 DEF SamplesInOrder, FrontiersBehind, LedAsConfigured, Counted, HasConfig,
                  LeaderForSlot
  <1>5. ASSUME NEW r \in Nodes, RestartReplica(r) PROVE TunerInv'
    <2> DEFINE s == frontier[r]
    <2> DEFINE a == [slot |-> s, leader |-> NoLeader, delay |-> DelayForSlot(s, r)]
    <2>1. UNCHANGED <<epoch, epochSamples, epochConfigs, recorded, frontier, ledBy>>
      BY <1>5 DEF RestartReplica, tunerVars
    <2>2. building' = [building EXCEPT ![r] = a] BY <1>5 DEF RestartReplica
    <2>3. FrontiersBehind' BY <2>1, <2>2 DEF FrontiersBehind, Counted
    <2> QED
      BY <2>1, <2>3 DEF SamplesInOrder, LedAsConfigured, Counted, HasConfig, LeaderForSlot
  <1> QED BY <1>1, <1>2, <1>3, <1>4, <1>5 DEF TunerNext

LEMMA TunerInvImplies == TunerInv => LeadersArePinned
  <1> SUFFICES ASSUME TunerInv PROVE LeadersArePinned OBVIOUS
  <1>1. AskedInOpenEpoch
    <2> SUFFICES ASSUME NEW r \in Nodes
                 PROVE  /\ HasConfig(frontier[r])
                        /\ frontier[r] \notin recorded => EpochOf(frontier[r]) = epoch
      BY DEF AskedInOpenEpoch
    <2>1. frontier[r] \in Nat /\ frontier[r] <= Counted /\ Counted \in Nat
      BY CountedTyped DEF TunerInv, FrontiersBehind
    <2>2. frontier[r] \notin recorded => frontier[r] = Counted
      BY <2>1 DEF TunerInv, SamplesInOrder
    <2> QED BY <2>1, <2>2, AskedIsOpen DEF TunerInv
  <1>2. OneLeaderPerSlot
    <2> SUFFICES ASSUME NEW s \in Slots PROVE Cardinality(ledBy[s]) <= 1
      BY DEF OneLeaderPerSlot
    <2>1. CASE ledBy[s] = {} BY <2>1, FS_EmptySet
    <2>2. CASE ledBy[s] # {}
      <3>1. ledBy[s] = {LeaderForSlot(s)} BY <2>2 DEF TunerInv, LedAsConfigured
      <3>2. Cardinality({LeaderForSlot(s)}) = 1 BY FS_Singleton
      <3> QED BY <3>1, <3>2
    <2> QED BY <2>1, <2>2
  <1> QED BY <1>1, <1>2 DEF LeadersArePinned

\* However far behind replicas lag, and whenever they crash and restart, no
\* replica asks the tuner for an epoch that is not open, no sample comes for
\* one that is closed, and all proposers of a slot have one leader.
THEOREM TunedLeadersArePinned == TunerSpec => []LeadersArePinned
  <1>1. TunerInit => TunerInv BY TunerInitInv
  <1>2. TunerInv /\ [TunerNext]_tuningVars => TunerInv' BY TunerStepInv
  <1>3. TunerInv => LeadersArePinned BY TunerInvImplies
  <1> QED BY <1>1, <1>2, <1>3, PTL DEF TunerSpec

-----------------------------------------------------------------------------
(* The tuner: the fastest replica leads.                                   *)

\* The replicas as a set to count with.
LEMMA NodesOfTuner ==
  /\ N \in Nat /\ N >= 1 /\ IsFiniteSet(Nodes) /\ Cardinality(Nodes) = N
  /\ IsFiniteSet(1..N) /\ Cardinality(1..N) = N
  <1>1. N \in Nat /\ N >= 1 BY TunerAssumption DEF TunerConstantsOK
  <1>2. IsFiniteSet(Nodes) /\ Cardinality(Nodes) = N BY <1>1, FS_Interval DEF Nodes
  <1>3. IsFiniteSet(1..N) /\ Cardinality(1..N) = N BY <1>1, FS_Interval
  <1> QED BY <1>1, <1>2, <1>3

\* An order names every replica.
LEMMA OrdersCover ==
    ASSUME NEW s \in Orders, NEW r \in Nodes
    PROVE  \E i \in 1..N : s[i] = r
  <1>1. s \in Injection(1..N, Nodes) BY DEF Orders, Injection, IsInjective
  <1>2. s \in Surjection(1..N, Nodes) BY <1>1, NodesOfTuner, FS_Injection
  <1> QED BY <1>2 DEF Surjection

\* The replicas can be put in any total order: each has its place, the number
\* of those up to it.
LEMMA OrderExists ==
    ASSUME NEW R,
           \A a, b \in Nodes : <<a, b>> \in R \/ <<b, a>> \in R,
           \A a, b \in Nodes : <<a, b>> \in R /\ <<b, a>> \in R => a = b,
           \A a, b, c \in Nodes : <<a, b>> \in R /\ <<b, c>> \in R => <<a, c>> \in R
    PROVE  \E s \in Orders : \A i, j \in 1..N : i < j => <<s[i], s[j]>> \in R
  <1> DEFINE Upto(a) == {b \in Nodes : <<b, a>> \in R}
  <1> DEFINE place == [a \in Nodes |-> Cardinality(Upto(a))]
  <1>1. \A a \in Nodes : IsFiniteSet(Upto(a)) /\ Cardinality(Upto(a)) \in 1..N
    <2> SUFFICES ASSUME NEW a \in Nodes
                 PROVE  IsFiniteSet(Upto(a)) /\ Cardinality(Upto(a)) \in 1..N
      OBVIOUS
    <2>1. Upto(a) \in SUBSET Nodes OBVIOUS
    <2>2. IsFiniteSet(Upto(a)) /\ Cardinality(Upto(a)) <= N BY <2>1, NodesOfTuner, FS_Subset
    <2>3. a \in Upto(a) OBVIOUS
    <2>4. Cardinality(Upto(a)) # 0 BY <2>2, <2>3, FS_EmptySet
    <2>5. Cardinality(Upto(a)) \in Nat BY <2>2, FS_CardinalityType
    <2> HIDE DEF Upto
    <2> QED BY <2>2, <2>4, <2>5, NodesOfTuner
  <1>2. \A a, b \in Nodes : <<a, b>> \in R /\ a # b => place[a] < place[b]
    <2> SUFFICES ASSUME NEW a \in Nodes, NEW b \in Nodes, <<a, b>> \in R, a # b
                 PROVE  place[a] < place[b]
      OBVIOUS
    <2>1. Upto(a) \in SUBSET Upto(b) /\ b \in Upto(b) /\ b \notin Upto(a) OBVIOUS
    <2>2. /\ IsFiniteSet(Upto(b)) /\ Cardinality(Upto(a)) \in Nat
          /\ Cardinality(Upto(b)) \in Nat
      <3> HIDE DEF Upto
      <3> QED BY <1>1, NodesOfTuner
    <2>3. /\ Cardinality(Upto(a)) <= Cardinality(Upto(b))
          /\ Cardinality(Upto(b)) = Cardinality(Upto(a)) => Upto(b) = Upto(a)
      BY <2>1, <2>2, FS_Subset
    <2>4. Upto(b) # Upto(a) BY <2>1
    <2>5. place[a] = Cardinality(Upto(a)) /\ place[b] = Cardinality(Upto(b)) OBVIOUS
    <2> HIDE DEF Upto, place
    <2> QED BY <2>2, <2>3, <2>4, <2>5
  <1>3. place \in [Nodes -> 1..N] BY <1>1
  <1> HIDE DEF place, Upto
  <1>4. place \in Injection(Nodes, 1..N)
    <2> SUFFICES ASSUME NEW a \in Nodes, NEW b \in Nodes, place[a] = place[b] PROVE a = b
      BY <1>3 DEF Injection, IsInjective
    <2>1. place[a] \in Int /\ place[b] \in Int BY <1>3
    <2>2. <<a, b>> \in R \/ <<b, a>> \in R OBVIOUS
    <2>3. a # b => place[a] < place[b] \/ place[b] < place[a] BY <1>2, <2>2
    <2> QED BY <2>1, <2>3
  <1>5. place \in Surjection(Nodes, 1..N) BY <1>4, NodesOfTuner, FS_Injection
  <1>6. \A i \in 1..N : \E a \in Nodes : place[a] = i BY <1>5 DEF Surjection
  <1> DEFINE s == [i \in 1..N |-> CHOOSE a \in Nodes : place[a] = i]
  <1>7. \A i \in 1..N : s[i] \in Nodes /\ place[s[i]] = i BY <1>6
  <1>8. s \in Orders
    <2>1. s \in [1..N -> Nodes] BY <1>7
    <2> HIDE DEF s
    <2>2. \A i, j \in 1..N : s[i] = s[j] => i = j BY <1>7
    <2> QED BY <2>1, <2>2 DEF Orders
  <1> HIDE DEF s
  <1>9. ASSUME NEW i \in 1..N, NEW j \in 1..N, i < j PROVE <<s[i], s[j]>> \in R
    <2>1. CASE <<s[j], s[i]>> \in R
      <3>1. s[j] # s[i] BY <1>7, <1>9
      <3>2. place[s[j]] < place[s[i]] BY <1>2, <1>7, <2>1, <3>1
      <3> QED BY <1>7, <1>9, <3>2
    <2> QED BY <1>7, <2>1
  <1> QED BY <1>8, <1>9

\* The order of the speed keys is a total one.
LEMMA BeforeTotal ==
    ASSUME NEW key \in [Nodes -> Nat \cup {Unmeasured}], NEW a \in Nodes, NEW b \in Nodes
    PROVE  /\ Before(key, a, b) \/ Before(key, b, a)
           /\ Before(key, a, b) /\ Before(key, b, a) => a = b
           /\ \A c \in Nodes : Before(key, a, b) /\ Before(key, b, c) => Before(key, a, c)
  <1>1. \A r \in Nodes : r \in Int /\ key[r] \in Int BY NodesOfTuner DEF Nodes, Unmeasured
  <1>2. Before(key, a, b) \/ Before(key, b, a) BY <1>1 DEF Before
  <1>3. Before(key, a, b) /\ Before(key, b, a) => a = b BY <1>1 DEF Before
  <1>4. ASSUME NEW c \in Nodes, Before(key, a, b), Before(key, b, c) PROVE Before(key, a, c)
    <2>1. a \in Int /\ b \in Int /\ c \in Int BY <1>1
    <2>2. key[a] \in Int /\ key[b] \in Int /\ key[c] \in Int BY <1>1
    <2> QED BY <1>4, <2>1, <2>2 DEF Before
  <1> QED BY <1>2, <1>3, <1>4

\* The order of the speed keys, one replica l moved to the front.
Ahead(key, l) ==
    {p \in Nodes \X Nodes : p[1] = l \/ (p[2] # l /\ Before(key, p[1], p[2]))}

\* An order can lead with any replica and keep the rest by speed.
LEMMA LeaderFirstExists ==
    ASSUME NEW l \in Nodes, NEW key \in [Nodes -> Nat \cup {Unmeasured}]
    PROVE  \E s \in Orders : s[1] = l /\ \A i, j \in 2..N : i < j => Before(key, s[i], s[j])
  <1> DEFINE R == Ahead(key, l)
  <1>1. \A a, b \in Nodes : <<a, b>> \in R <=> a = l \/ (b # l /\ Before(key, a, b))
    BY DEF Ahead
  <1> HIDE DEF R
  <1>3. \A a, b \in Nodes : <<a, b>> \in R \/ <<b, a>> \in R
    BY <1>1, BeforeTotal
  <1>4. \A a, b \in Nodes : <<a, b>> \in R /\ <<b, a>> \in R => a = b
    BY <1>1, BeforeTotal
  <1>5. \A a, b, c \in Nodes : <<a, b>> \in R /\ <<b, c>> \in R => <<a, c>> \in R
    BY <1>1, BeforeTotal
  <1>6. PICK s \in Orders : \A i, j \in 1..N : i < j => <<s[i], s[j]>> \in R
    BY <1>3, <1>4, <1>5, OrderExists
  <1>7. \A i \in 1..N : s[i] \in Nodes BY DEF Orders
  <1>8. s[1] = l
    <2>1. PICK k \in 1..N : s[k] = l BY OrdersCover
    <2>2. CASE k = 1 BY <2>1, <2>2
    <2>3. CASE k # 1
      <3>1. 1 \in 1..N /\ 1 < k BY <2>3, NodesOfTuner
      <3>2. <<s[1], l>> \in R BY <1>6, <2>1, <3>1
      <3> QED BY <1>1, <1>7, <3>1, <3>2
    <2> QED BY <2>2, <2>3
  <1>9. ASSUME NEW i \in 2..N, NEW j \in 2..N, i < j PROVE Before(key, s[i], s[j])
    <2>1. i \in 1..N /\ j \in 1..N /\ 1 \in 1..N /\ i # 1 BY NodesOfTuner
    <2>2. s[i] # l BY <1>8, <2>1 DEF Orders
    <2> QED BY <1>1, <1>6, <1>7, <1>9, <2>1, <2>2
  <1> QED BY <1>8, <1>9

\* What the tuner's three orders are: of the rest by NodeId ...
LEMMA LeaderFirstOrder ==
    ASSUME NEW l \in Nodes
    PROVE  LeaderFirst(l) \in Orders /\ LeaderFirst(l)[1] = l
  <1> DEFINE key == [r \in Nodes |-> 0]
  <1>1. PICK s \in Orders : s[1] = l /\ \A i, j \in 2..N : i < j => Before(key, s[i], s[j])
    <2>1. key \in [Nodes -> Nat \cup {Unmeasured}] OBVIOUS
    <2> QED BY <2>1, LeaderFirstExists
  <1>2. \A i, j \in 2..N : i < j => s[i] < s[j]
    <2> SUFFICES ASSUME NEW i \in 2..N, NEW j \in 2..N, i < j PROVE s[i] < s[j] OBVIOUS
    <2>1. i \in 1..N /\ j \in 1..N BY NodesOfTuner
    <2>2. s[i] \in Nodes /\ s[j] \in Nodes /\ s[i] # s[j] BY <2>1 DEF Orders
    <2>3. Before(key, s[i], s[j]) BY <1>1
    <2> QED BY <2>2, <2>3, NodesOfTuner DEF Before, Nodes
  <1> QED BY <1>1, <1>2 DEF LeaderFirst

\* ... of the rest by their last epoch ...
LEMMA BySpeedOrder ==
    ASSUME NEW l \in Nodes, NEW rec \in [Nodes -> Nat \cup {Unmeasured}]
    PROVE  LET s == LeaderFirstBySpeed(l, rec) IN
           s \in Orders /\ s[1] = l /\ \A i, j \in 2..N : i < j => Before(rec, s[i], s[j])
  BY LeaderFirstExists DEF LeaderFirstBySpeed

\* An average is a number where there is a sample.
LEMMA AverageTyped ==
    ASSUME NEW st \in [sum : Nat, count : Nat]
    PROVE  /\ Average(st) \in Nat \cup {Unmeasured}
           /\ st.count # 0 => Average(st) \in Nat
  BY DEF Average

\* ... and of everyone by lifetime average.
LEMMA RankedOrder ==
    ASSUME NEW sts \in [Nodes -> [sum : Nat, count : Nat]]
    PROVE  LET s == RankedBySpeed(sts)
               avg == [r \in Nodes |-> Average(sts[r])]
           IN s \in Orders /\ \A i, j \in 1..N : i < j => Before(avg, s[i], s[j])
  <1> DEFINE avg == [r \in Nodes |-> Average(sts[r])]
  <1> DEFINE R == {p \in Nodes \X Nodes : Before(avg, p[1], p[2])}
  <1>1. \A a, b \in Nodes : <<a, b>> \in R <=> Before(avg, a, b) OBVIOUS
  <1>2. avg \in [Nodes -> Nat \cup {Unmeasured}] BY AverageTyped
  <1> HIDE DEF R, avg
  <1>4. \A a, b \in Nodes : <<a, b>> \in R \/ <<b, a>> \in R
    BY <1>1, <1>2, BeforeTotal
  <1>5. \A a, b \in Nodes : <<a, b>> \in R /\ <<b, a>> \in R => a = b
    BY <1>1, <1>2, BeforeTotal
  <1>6. \A a, b, c \in Nodes : <<a, b>> \in R /\ <<b, c>> \in R => <<a, c>> \in R
    BY <1>1, <1>2, BeforeTotal
  <1>7. PICK s \in Orders : \A i, j \in 1..N : i < j => <<s[i], s[j]>> \in R
    BY <1>4, <1>5, <1>6, OrderExists
  <1>8. \A i, j \in 1..N : i < j => Before(avg, s[i], s[j])
    <2>1. \A i \in 1..N : s[i] \in Nodes BY DEF Orders
    <2> QED BY <1>1, <1>7, <2>1
  <1>9. RankedBySpeed(sts) =
          CHOOSE t \in Orders : \A i, j \in 1..N : i < j => Before(avg, t[i], t[j])
    BY DEF RankedBySpeed, avg
  <1>10. /\ RankedBySpeed(sts) \in Orders
         /\ \A i, j \in 1..N :
              i < j => Before(avg, RankedBySpeed(sts)[i], RankedBySpeed(sts)[j])
    BY <1>8, <1>9
  <1> QED BY <1>10 DEF avg

\* The tuner's own part of its types, and the replicas' part. A replica that
\* drives a proposer has room for one more slot.
TuningTypes ==
    /\ epoch \in Nat
    /\ leader \in Nodes
    /\ schedule \in Orders /\ schedule[1] = leader
    /\ stats \in [Nodes -> [sum : Nat, count : Nat]]
    /\ recent \in [Nodes -> Nat \cup {Unmeasured}]
    /\ epochSamples \in [sum : Nat, count : Nat] /\ epochSamples.count < EpochLen
    /\ DOMAIN epochConfigs = 0..epoch
    /\ \A e \in 0..epoch : epochConfigs[e] \in Configs

ReplicaTypes ==
    /\ started \subseteq Slots
    /\ recorded \subseteq Slots
    /\ frontier \in [Nodes -> Slots]
    /\ building \in [Nodes -> TunedAttempts \cup {Idle}]
    /\ \A r \in Nodes :
         building[r] # Idle => building[r].slot = frontier[r] /\ frontier[r] < MaxSlot
    /\ live \subseteq Nodes
    /\ falls \in 0..MaxFalls
    /\ ledBy \in [Slots -> SUBSET Nodes]

\* The replicas lead in turn while exploration lasts, so that each has been
\* measured once after its first turn and twice after its second.
TurnsInv ==
    /\ IsExploring => leader = epoch % N
    /\ \A r \in Nodes : epoch > r => stats[r].count >= 1 /\ recent[r] # Unmeasured
    /\ \A r \in Nodes : epoch > N + r => stats[r].count >= 2

\* From the first epoch of monitoring on, the schedule behind the leader is by
\* the last epochs.
RankedInv ==
    /\ epoch = ExploreEpochs =>
         \A r \in Nodes : Average(stats[leader]) <= Average(stats[r])
    /\ epoch > ExploreEpochs =>
         \A i, j \in 2..N : i < j => Before(recent, schedule[i], schedule[j])
    /\ epoch >= ExploreEpochs + 2 => \A r \in Nodes : recent[leader] <= recent[r]

SpeedInv == TuningTypes /\ TurnsInv /\ RankedInv

\* The turns: epochs r and N + r are r's.
LEMMA TurnOf ==
    ASSUME NEW r \in Nodes, NEW e \in Nat, e = r \/ e = N + r
    PROVE  e % N = r
  <1>1. N \in Nat /\ N >= 1 /\ r \in Nat /\ r < N BY NodesOfTuner DEF Nodes
  <1>2. CASE e = r BY <1>1, <1>2
  <1>3. CASE e = N + r BY <1>1, <1>3
  <1> QED BY <1>2, <1>3

\* Every epoch is some replica's turn; the first is 0's.
LEMMA TurnTyped == ASSUME NEW e \in Nat PROVE e % N \in Nodes
  BY NodesOfTuner DEF Nodes

LEMMA ZeroIsNode == 0 \in Nodes
  BY NodesOfTuner DEF Nodes

\* close_epoch takes over a leader and a schedule which it heads.
LEMMA NextConfigTyped ==
    ASSUME NEW e \in Nat, leader \in Nodes, schedule \in Orders,
           NEW rec \in [Nodes -> Nat \cup {Unmeasured}],
           NEW sts \in [Nodes -> [sum : Nat, count : Nat]]
    PROVE  LET c == NextConfig(e, rec, sts) IN c \in Configs /\ c.schedule[1] = c.leader
  <1>1. CASE e < ExploreEpochs
    BY <1>1, TurnTyped, LeaderFirstOrder DEF NextConfig, Configs
  <1>2. CASE e = ExploreEpochs
    <2>1. ~(e < ExploreEpochs) BY <1>2, NodesOfTuner DEF ExploreEpochs
    <2>2. RankedBySpeed(sts) \in Orders /\ RankedBySpeed(sts)[1] \in Nodes
      <3>1. RankedBySpeed(sts) \in Orders BY RankedOrder
      <3>2. 1 \in 1..N BY NodesOfTuner
      <3> QED BY <3>1, <3>2 DEF Orders
    <2> QED BY <1>2, <2>1, <2>2 DEF NextConfig, Configs
  <1>3. CASE ~(e < ExploreEpochs) /\ e # ExploreEpochs
    <2>1. Monitor(rec, sts) \in Nodes
      <3>1. N > 1 => schedule[2] \in Nodes BY NodesOfTuner DEF Orders
      <3> QED BY <3>1 DEF Monitor
    <2> QED BY <1>3, <2>1, BySpeedOrder DEF NextConfig, Configs
  <1> QED BY <1>1, <1>2, <1>3

\* close_epoch: whoever led the epoch is measured, and the next configuration
\* is chosen by what is then known.
LEMMA CloseEpochSpeed ==
    ASSUME SpeedInv, NEW samples \in [sum : Nat, count : Nat], samples.count >= 1,
           CloseEpoch(samples)
    PROVE  SpeedInv'
  <1> DEFINE avg == samples.sum \div samples.count
             sts == [stats EXCEPT ![leader] = AddSample(@, avg)]
             rec == [recent EXCEPT ![leader] = avg]
             cfg == NextConfig(epoch + 1, rec, sts)
  <1>1. /\ stats' = sts /\ recent' = rec
        /\ epochSamples' = NoSamples
        /\ epoch' = epoch + 1
        /\ leader' = cfg.leader /\ schedule' = cfg.schedule
        /\ epochConfigs' = [e \in DOMAIN epochConfigs \cup {epoch + 1} |->
                              IF e = epoch + 1 THEN cfg ELSE epochConfigs[e]]
    BY Zenon DEF CloseEpoch
  <1>2. /\ epoch \in Nat /\ leader \in Nodes /\ schedule \in Orders /\ schedule[1] = leader
        /\ stats \in [Nodes -> [sum : Nat, count : Nat]]
        /\ recent \in [Nodes -> Nat \cup {Unmeasured}]
    BY DEF SpeedInv, TuningTypes
  <1>3. avg \in Nat
    <2>1. samples.sum \in Nat /\ samples.count \in Nat OBVIOUS
    <2> QED BY <2>1
  <1> HIDE DEF avg
  <1>4. /\ sts \in [Nodes -> [sum : Nat, count : Nat]]
        /\ sts[leader].count = stats[leader].count + 1
        /\ \A r \in Nodes \ {leader} : sts[r] = stats[r]
    BY <1>2, <1>3 DEF AddSample
  <1>5. /\ rec \in [Nodes -> Nat \cup {Unmeasured}]
        /\ rec[leader] = avg
        /\ \A r \in Nodes \ {leader} : rec[r] = recent[r]
    BY <1>2, <1>3
  <1> HIDE DEF sts, rec
  <1>6. cfg \in Configs /\ cfg.schedule[1] = cfg.leader
    BY <1>2, <1>4, <1>5, NextConfigTyped
  <1>7. TuningTypes'
    <2>1. epoch' \in Nat BY <1>1, <1>2
    <2>2. leader' \in Nodes /\ schedule' \in Orders /\ schedule'[1] = leader'
      BY <1>1, <1>6 DEF Configs
    <2>3. epochSamples' \in [sum : Nat, count : Nat] /\ epochSamples'.count < EpochLen
      BY <1>1, TunerAssumption DEF NoSamples, TunerConstantsOK
    <2>4. DOMAIN epochConfigs = 0..epoch /\ \A e \in 0..epoch : epochConfigs[e] \in Configs
      BY DEF SpeedInv, TuningTypes
    <2> HIDE DEF cfg
    <2>5. DOMAIN epochConfigs' = 0..epoch' BY <1>1, <1>2, <2>4
    <2>6. \A e \in 0..epoch' : epochConfigs'[e] \in Configs BY <1>1, <1>2, <1>6, <2>4
    <2> QED BY <1>1, <1>4, <1>5, <2>1, <2>2, <2>3, <2>5, <2>6 DEF TuningTypes
  <1>8. TurnsInv'
    <2>1. ASSUME IsExploring' PROVE leader' = epoch' % N
      <3>1. epoch + 1 < ExploreEpochs BY <1>1, <2>1 DEF IsExploring, ExploreEpochs
      <3> QED BY <1>1, <3>1 DEF NextConfig
    <2>2. ASSUME NEW r \in Nodes, epoch' > r PROVE sts[r].count >= 1 /\ rec[r] # Unmeasured
      <3>1. r \in Nat /\ r < N /\ N \in Nat BY NodesOfTuner DEF Nodes
      <3>2. CASE r = leader
        <4>1. stats[leader].count \in Nat BY <1>2
        <4> QED BY <1>3, <1>4, <1>5, <3>2, <4>1 DEF Unmeasured
      <3>3. CASE r # leader
        <4>1. epoch # r
          <5>1. epoch = r => IsExploring BY <3>1 DEF IsExploring, ExploreEpochs
          <5> QED BY <1>2, <3>3, <5>1, TurnOf DEF SpeedInv, TurnsInv
        <4>2. epoch > r BY <1>1, <1>2, <2>2, <3>1, <4>1
        <4> QED BY <1>4, <1>5, <3>3, <4>2 DEF SpeedInv, TurnsInv
      <3> QED BY <3>2, <3>3
    <2>3. ASSUME NEW r \in Nodes, epoch' > N + r PROVE sts[r].count >= 2
      <3>1. r \in Nat /\ r < N /\ N \in Nat BY NodesOfTuner DEF Nodes
      <3>2. CASE r = leader
        <4>1. epoch > r BY <1>1, <1>2, <2>3, <3>1, NodesOfTuner
        <4>2. stats[r].count \in Nat /\ stats[r].count >= 1
          BY <1>2, <4>1 DEF SpeedInv, TurnsInv
        <4> QED BY <1>4, <3>2, <4>2
      <3>3. CASE r # leader
        <4>1. epoch # N + r
          <5>1. epoch = N + r => IsExploring BY <3>1 DEF IsExploring, ExploreEpochs
          <5> QED BY <1>2, <3>3, <5>1, TurnOf DEF SpeedInv, TurnsInv
        <4>2. epoch > N + r BY <1>1, <1>2, <2>3, <3>1, <4>1
        <4> QED BY <1>4, <3>3, <4>2 DEF SpeedInv, TurnsInv
      <3> QED BY <3>2, <3>3
    <2> QED BY <1>1, <2>1, <2>2, <2>3 DEF TurnsInv
  <1>9. RankedInv'
    <2>1. ASSUME epoch' = ExploreEpochs, NEW r \in Nodes
          PROVE  Average(sts[leader']) <= Average(sts[r])
      <3> DEFINE s == RankedBySpeed(sts)
                 key == [q \in Nodes |-> Average(sts[q])]
      <3>1. /\ s \in Orders
            /\ \A i, j \in 1..N : i < j => Before(key, s[i], s[j])
        BY <1>4, RankedOrder
      <3>2. leader' = s[1]
        <4>1. epoch + 1 = ExploreEpochs /\ ~(epoch + 1 < ExploreEpochs)
          BY <1>1, <1>2, <2>1
        <4> QED BY <1>1, <4>1 DEF NextConfig
      <3>3. PICK k \in 1..N : s[k] = r BY <3>1, OrdersCover
      <3>4. \A q \in Nodes : key[q] \in Nat /\ key[q] = Average(sts[q])
        <4> SUFFICES ASSUME NEW q \in Nodes PROVE Average(sts[q]) \in Nat OBVIOUS
        <4>1. epoch' > q
          BY <2>1, NodesOfTuner DEF ExploreEpochs, Nodes
        <4>2. sts[q].count >= 1 BY <1>1, <1>8, <4>1 DEF TurnsInv
        <4>3. sts[q] \in [sum : Nat, count : Nat] BY <1>4
        <4> QED BY <4>2, <4>3, AverageTyped
      <3> HIDE DEF s, key
      <3>5. 1 \in 1..N /\ s[1] \in Nodes BY <3>1, NodesOfTuner DEF Orders
      <3>6. CASE k = 1 BY <3>2, <3>3, <3>4, <3>5, <3>6
      <3>7. CASE k # 1
        <4>1. Before(key, s[1], r) BY <3>1, <3>3, <3>5, <3>7
        <4>2. key[s[1]] \in Nat /\ key[r] \in Nat BY <3>4, <3>5
        <4>3. key[s[1]] <= key[r] BY <4>1, <4>2 DEF Before, Unmeasured
        <4> QED BY <3>2, <3>4, <3>5, <4>3
      <3> QED BY <3>6, <3>7
    <2>2. ASSUME epoch' > ExploreEpochs
          PROVE  /\ leader' = Monitor(rec, sts)
                 /\ \A i, j \in 2..N : i < j => Before(rec, schedule'[i], schedule'[j])
      <3>1. ~(epoch + 1 < ExploreEpochs) /\ epoch + 1 # ExploreEpochs
        BY <1>1, <1>2, <2>2, NodesOfTuner DEF ExploreEpochs
      <3>2. /\ leader' = Monitor(rec, sts)
            /\ schedule' = LeaderFirstBySpeed(Monitor(rec, sts), rec)
        BY <1>1, <3>1 DEF NextConfig
      <3>3. leader' \in Nodes BY <1>7 DEF TuningTypes
      <3> QED BY <1>5, <3>2, <3>3, BySpeedOrder
    <2>3. ASSUME epoch' >= ExploreEpochs + 2, NEW r \in Nodes
          PROVE  rec[leader'] <= rec[r]
      <3>1. epoch > ExploreEpochs /\ epoch' > ExploreEpochs
        BY <1>1, <1>2, <2>3, NodesOfTuner DEF ExploreEpochs
      <3>2. leader' = Monitor(rec, sts) BY <2>2, <3>1
      <3>3. \A q \in Nodes : rec[q] \in Nat /\ rec[q] # Unmeasured
        <4> SUFFICES ASSUME NEW q \in Nodes PROVE rec[q] \in Nat /\ rec[q] # Unmeasured OBVIOUS
        <4>1. epoch' > q BY <1>1, <1>2, <3>1, NodesOfTuner DEF ExploreEpochs, Nodes
        <4>2. rec[q] # Unmeasured BY <1>1, <1>8, <4>1 DEF TurnsInv
        <4> QED BY <1>5, <4>2
      <3>4. ASSUME N > 1, NEW q \in Nodes \ {leader} PROVE rec[schedule[2]] <= rec[q]
        <4>1. PICK k \in 1..N : schedule[k] = q BY <1>2, OrdersCover
        <4>2. k # 1 BY <1>2, <4>1
        <4>3. 2 \in 2..N /\ k \in 2..N /\ 1 \in 1..N /\ 2 \in 1..N
          BY <3>4, <4>1, <4>2, NodesOfTuner
        <4>4. schedule[2] \in Nodes \ {leader}
          <5>1. \A i \in 1..N : schedule[i] \in Nodes BY <1>2 DEF Orders
          <5>2. schedule[2] # schedule[1] BY <1>2, <4>3 DEF Orders
          <5> QED BY <1>2, <4>3, <5>1, <5>2
        <4>5. CASE k = 2 BY <3>3, <4>1, <4>4, <4>5
        <4>6. CASE k # 2
          <5>1. Before(recent, schedule[2], q)
            <6>1. 2 < k BY <4>3, <4>6
            <6> QED BY <3>1, <4>1, <4>3, <6>1 DEF SpeedInv, RankedInv
          <5>2. recent[schedule[2]] = rec[schedule[2]] /\ recent[q] = rec[q]
            BY <1>5, <4>4
          <5>3. rec[schedule[2]] \in Nat /\ rec[q] \in Nat BY <3>3, <4>4
          <5> QED BY <5>1, <5>2, <5>3 DEF Before, Unmeasured
        <4> QED BY <4>5, <4>6
      <3>5. CASE N = 1
        <4>1. Nodes = {0} BY <3>5 DEF Nodes
        <4> QED BY <1>7, <3>3, <4>1 DEF TuningTypes
      <3>6. CASE N > 1
        <4>1. schedule[2] \in Nodes BY <1>2, <3>6, NodesOfTuner DEF Orders
        <4>2. rec[leader] \in Nat /\ rec[schedule[2]] \in Nat /\ rec[r] \in Nat
          BY <1>2, <3>3, <4>1
        <4>3. CASE rec[leader] > rec[schedule[2]]
          <5>1. leader' = schedule[2]
            BY <1>2, <3>2, <3>3, <3>6, <4>1, <4>3 DEF Monitor
          <5> QED BY <3>4, <3>6, <4>2, <4>3, <5>1
        <4>4. CASE ~(rec[leader] > rec[schedule[2]])
          <5>1. leader' = leader BY <3>2, <4>4 DEF Monitor
          <5> QED BY <3>4, <3>6, <4>2, <4>4, <5>1
        <4> QED BY <4>3, <4>4
      <3> QED BY <3>5, <3>6, NodesOfTuner
    <2> QED BY <1>1, <2>1, <2>2, <2>3 DEF RankedInv
  <1> QED BY <1>7, <1>8, <1>9 DEF SpeedInv

\* Nobody is measured at first, and exploration begins with replica 0.
LEMMA SpeedInit == TunerInit => SpeedInv /\ ReplicaTypes
  <1> SUFFICES ASSUME TunerInit PROVE SpeedInv /\ ReplicaTypes OBVIOUS
  <1>1. /\ 0 \in Nodes /\ LeaderFirst(0) \in Orders /\ LeaderFirst(0)[1] = 0
    BY ZeroIsNode, LeaderFirstOrder
  <1>2. epoch = 0 /\ leader = 0 /\ schedule = LeaderFirst(0) BY DEF TunerInit
  <1>3. TuningTypes
    <2>1. epochSamples \in [sum : Nat, count : Nat] /\ epochSamples.count < EpochLen
      BY TunerAssumption DEF TunerInit, NoSamples, TunerConstantsOK
    <2>2. stats \in [Nodes -> [sum : Nat, count : Nat]] /\ recent \in [Nodes -> Nat \cup {Unmeasured}]
      BY DEF TunerInit, NoSamples
    <2>3. /\ DOMAIN epochConfigs = 0..epoch
          /\ \A e \in 0..epoch : epochConfigs[e] = [leader |-> 0, schedule |-> LeaderFirst(0)]
      BY <1>2 DEF TunerInit
    <2> QED BY <1>1, <1>2, <2>1, <2>2, <2>3 DEF TuningTypes, Configs
  <1>4. TurnsInv
    <2>1. 0 % N = 0 BY NodesOfTuner
    <2>2. \A r \in Nodes : ~(epoch > r) /\ ~(epoch > N + r)
      BY <1>2, NodesOfTuner DEF Nodes
    <2> QED BY <1>2, <2>1, <2>2 DEF TurnsInv
  <1>5. RankedInv BY <1>2, NodesOfTuner DEF RankedInv, ExploreEpochs
  <1>6. ReplicaTypes
    <2>1. 0 \in Slots /\ 0 \in 0..MaxFalls
      BY TunerAssumption DEF Slots, TunerConstantsOK
    <2> QED BY <2>1 DEF TunerInit, ReplicaTypes
  <1> QED BY <1>3, <1>4, <1>5, <1>6 DEF SpeedInv

\* absorb keeps the open epoch short of its length, or closes it.
LEMMA AbsorbSpeed ==
    ASSUME SpeedInv, NEW latency \in Nat, Absorb(latency)
    PROVE  SpeedInv'
  <1> DEFINE samples == AddSample(epochSamples, latency)
  <1>1. samples \in [sum : Nat, count : Nat] /\ samples.count >= 1
    BY DEF AddSample, SpeedInv, TuningTypes
  <1>2. CASE samples.count >= EpochLen
    BY <1>1, <1>2, CloseEpochSpeed DEF Absorb
  <1>3. CASE ~(samples.count >= EpochLen)
    <2>1. /\ epochSamples' = samples
          /\ UNCHANGED <<epoch, leader, schedule, stats, recent, epochConfigs>>
      BY <1>3 DEF Absorb
    <2>2. EpochLen \in Nat BY TunerAssumption DEF TunerConstantsOK
    <2> HIDE DEF samples
    <2>3. samples.count < EpochLen BY <1>1, <1>3, <2>2
    <2>4. TuningTypes' BY <1>1, <2>1, <2>3 DEF SpeedInv, TuningTypes
    <2> QED BY <2>1, <2>4 DEF SpeedInv, TurnsInv, RankedInv, IsExploring
  <1> QED BY <1>2, <1>3

\* What the tuner tells a replica of a slot whose epoch is open or closed.
LEMMA ConfigTyped ==
    ASSUME TuningTypes, NEW s, HasConfig(s), NEW r \in Nodes
    PROVE  LeaderForSlot(s) \in Nodes /\ DelayForSlot(s, r) \in Nat
  <1>1. epochConfigs[EpochOf(s)] \in Configs BY DEF HasConfig, TuningTypes
  <1>2. LeaderForSlot(s) \in Nodes BY <1>1 DEF Configs, LeaderForSlot
  <1> DEFINE o == epochConfigs[EpochOf(s)].schedule
             k == CHOOSE i \in 1..N : o[i] = r
  <1>3. o \in Orders BY <1>1 DEF Configs
  <1>4. k \in 1..N
    <2> HIDE DEF o
    <2> QED BY <1>3, OrdersCover
  <1>5. DelayForSlot(s, r) = k * BaseDelay - BaseDelay BY DEF DelayForSlot
  <1> HIDE DEF k
  <1>6. BaseDelay \in Nat /\ k - 1 \in Nat
    BY <1>4, NodesOfTuner, TunerAssumption DEF TunerConstantsOK
  <1>7. k * BaseDelay - BaseDelay = (k - 1) * BaseDelay BY <1>4, <1>6
  <1>8. (k - 1) * BaseDelay \in Nat BY <1>6
  <1> QED BY <1>2, <1>5, <1>7, <1>8

\* What leaves the tuner alone leaves its invariant alone.
LEMMA SpeedKept ==
    ASSUME SpeedInv, UNCHANGED tunerVars PROVE SpeedInv'
  BY DEF tunerVars, SpeedInv, TuningTypes, TurnsInv, RankedInv, IsExploring

\* Every step keeps it.
LEMMA SpeedStep ==
    SpeedInv /\ ReplicaTypes /\ [TunerNext]_tuningVars => SpeedInv' /\ ReplicaTypes'
  <1> SUFFICES ASSUME SpeedInv, ReplicaTypes, [TunerNext]_tuningVars
               PROVE  SpeedInv' /\ ReplicaTypes'
    OBVIOUS
  <1>1. CASE UNCHANGED tuningVars
    BY <1>1, SpeedKept DEF tuningVars, tunerVars, ReplicaTypes
  <1>2. ASSUME NEW r \in Nodes, BeginTunedAttempt(r) PROVE SpeedInv' /\ ReplicaTypes'
    <2> DEFINE s == frontier[r]
               a == [slot |-> s, leader |-> LeaderForSlot(s), delay |-> DelayForSlot(s, r)]
    <2>1. /\ building' = [building EXCEPT ![r] = a]
          /\ ledBy' = [ledBy EXCEPT ![s] = @ \cup {LeaderForSlot(s)}]
          /\ started' = started \cup {s}
          /\ UNCHANGED <<tunerVars, frontier, live, falls>>
          /\ HasConfig(s) /\ s < MaxSlot
      BY <1>2 DEF BeginTunedAttempt
    <2>2. s \in Slots BY DEF ReplicaTypes
    <2>3. LeaderForSlot(s) \in Nodes /\ a \in TunedAttempts
      BY <2>1, <2>2, ConfigTyped DEF SpeedInv, TunedAttempts
    <2>4. a.slot = s OBVIOUS
    <2> HIDE DEF a
    <2>5. ReplicaTypes' BY <2>1, <2>2, <2>3, <2>4 DEF ReplicaTypes, tunerVars
    <2> QED BY <2>1, <2>5, SpeedKept
  <1>3. ASSUME NEW r \in Nodes, FinishAttempt(r) PROVE SpeedInv' /\ ReplicaTypes'
    <2> DEFINE s == frontier[r]
    <2>1. /\ building' = [building EXCEPT ![r] = Idle]
          /\ frontier' = [frontier EXCEPT ![r] = s + 1]
          /\ NoteSlotDecided(s)
          /\ UNCHANGED <<started, live, falls, ledBy>>
          /\ s \in Slots /\ s < MaxSlot
      BY <1>3 DEF FinishAttempt, ReplicaTypes
    <2>2. s + 1 \in Slots BY <2>1, TunerAssumption DEF Slots, TunerConstantsOK
    <2>3. recorded' \subseteq Slots
      BY <2>1 DEF NoteSlotDecided, tunerVars, ReplicaTypes
    <2>4. ReplicaTypes' BY <2>1, <2>2, <2>3 DEF ReplicaTypes
    <2>5. SpeedInv'
      <3>1. CASE s \in recorded BY <2>1, <3>1, SpeedKept DEF NoteSlotDecided
      <3>2. CASE s \notin recorded
        <4>1. PICK latency \in Nat : Absorb(latency)
          BY <2>1, <3>2, TunerAssumption DEF NoteSlotDecided, TunerConstantsOK
        <4> QED BY <4>1, AbsorbSpeed
      <3> QED BY <3>1, <3>2
    <2> QED BY <2>4, <2>5
  <1>4. ASSUME NEW r \in Nodes, StopReplica(r) PROVE SpeedInv' /\ ReplicaTypes'
    <2>1. /\ UNCHANGED <<tunerVars, started, frontier, building, ledBy>>
          /\ live' = live \ {r} /\ falls < MaxFalls /\ falls' = falls + 1
      BY <1>4 DEF StopReplica
    <2>2. falls' \in 0..MaxFalls BY <2>1, TunerAssumption DEF ReplicaTypes, TunerConstantsOK
    <2>3. ReplicaTypes' BY <2>1, <2>2 DEF ReplicaTypes, tunerVars
    <2> QED BY <2>1, <2>3, SpeedKept
  <1>5. ASSUME NEW r \in Nodes, RestartReplica(r) PROVE SpeedInv' /\ ReplicaTypes'
    <2> DEFINE s == frontier[r]
               a == [slot |-> s, leader |-> NoLeader, delay |-> DelayForSlot(s, r)]
    <2>1. /\ building' = [building EXCEPT ![r] = a]
          /\ live' = live \cup {r}
          /\ started' = started \cup {s}
          /\ UNCHANGED <<tunerVars, frontier, falls, ledBy>>
          /\ HasConfig(s) /\ s < MaxSlot
      BY <1>5 DEF RestartReplica
    <2>2. s \in Slots BY DEF ReplicaTypes
    <2>3. a \in TunedAttempts
      BY <2>1, <2>2, ConfigTyped DEF SpeedInv, TunedAttempts
    <2>4. a.slot = s OBVIOUS
    <2> HIDE DEF a
    <2>5. ReplicaTypes' BY <2>1, <2>2, <2>3, <2>4 DEF ReplicaTypes, tunerVars
    <2> QED BY <2>1, <2>5, SpeedKept
  <1> QED BY <1>1, <1>2, <1>3, <1>4, <1>5 DEF TunerNext

\* It is what the property says, and more.
LEMMA SpeedImplies == SpeedInv /\ ReplicaTypes => FastestReplicaLeads
  <1> SUFFICES ASSUME SpeedInv, ReplicaTypes PROVE FastestReplicaLeads OBVIOUS
  <1>1. TunerTypeOK BY DEF TunerTypeOK, SpeedInv, TuningTypes, ReplicaTypes
  <1>2. ASSUME ~IsExploring, NEW r \in Nodes PROVE stats[r].count >= 2
    <2>1. epoch > N + r
      BY <1>2, NodesOfTuner DEF IsExploring, ExploreEpochs, SpeedInv, TuningTypes, Nodes
    <2> QED BY <2>1 DEF SpeedInv, TurnsInv
  <1> QED BY <1>1, <1>2 DEF FastestReplicaLeads, FastestLeads, SpeedInv, RankedInv

\* For any number of replicas, length of epochs and latencies, and however
\* replicas lag, crash and restart: everyone is measured twice in exploration,
\* the fastest on average then leads, and once monitoring looks at the last
\* epochs nobody's was faster than the leader's (tuning.rs, close_epoch).
THEOREM TunerFastestLeads == TunerSpec => []FastestReplicaLeads
  <1>1. TunerInit => SpeedInv /\ ReplicaTypes BY SpeedInit
  <1>2. SpeedInv /\ ReplicaTypes /\ [TunerNext]_tuningVars => SpeedInv' /\ ReplicaTypes'
    BY SpeedStep
  <1>3. SpeedInv /\ ReplicaTypes => FastestReplicaLeads BY SpeedImplies
  <1> QED BY <1>1, <1>2, <1>3, PTL DEF TunerSpec

-----------------------------------------------------------------------------
(***************************************************************************)
(* The retrying client. An acknowledged put holds because a session has    *)
(* one operation at a time and numbers them upwards: the command of the    *)
(* operation that holds it is the last of its session's, so its first copy *)
(* in the log takes effect, and the copies after it do not. No operation   *)
(* fails while a replica answers because the attempts of one go round the  *)
(* whole pool, and an attempt at that replica is left with an answer only. *)
(***************************************************************************)

\* Where an operation may be, and what may have become of it.
Places  == {"none", "queued", "dial", "wait", "backoff", "done"}
Samples == {"none", "ok", "failed", "shed"}

Submissions == [op : Ops, addr : Addrs, n : Nat, heard : BOOLEAN]

ClientTypes ==
    /\ reliable \subseteq Addrs /\ listening \subseteq Addrs
    /\ issued \in Nat /\ cursor \in Nat
    /\ task \in [Ops -> Places] /\ result \in [Ops -> Samples]
    /\ session \in [Ops -> Clients \cup {Absent}]
    /\ command \in [Ops -> ClientCommands \cup {Absent}]
    /\ start \in [Ops -> Addrs] /\ tries \in [Ops -> Nat]
    /\ pool \in Seq(Clients) /\ next_seq \in [Clients -> Nat]
    /\ submitted \subseteq Submissions
    /\ decided \in Seq(ClientCommands) /\ kvstore \in Kvs

\* The operation has a session and a task that submits its command.
Held(o) == task[o] \in {"dial", "wait", "backoff"}

\* What has not been started, and what is not over.
StagesInv ==
    \A o \in Ops :
      /\ o > issued => task[o] = "none"
      /\ task[o] \in {"none", "queued"} => command[o] = Absent
      /\ task[o] # "done" => result[o] = "none"

\* A session is in the pool once or with one operation, whose number is its
\* last.
SessionsInv ==
    /\ \A i, j \in 1..Len(pool) : pool[i] = pool[j] => i = j
    /\ \A o \in Ops : Held(o) =>
         /\ session[o] \in Clients /\ command[o] # Absent /\ command[o].client = session[o]
         /\ next_seq[session[o]] = command[o].seq + 1
         /\ \A i \in 1..Len(pool) : pool[i] # session[o]
    /\ \A o, q \in Ops : Held(o) /\ Held(q) /\ session[o] = session[q] => o = q

\* No two operations have the same client and number.
NumbersInv ==
    /\ \A o \in Ops : command[o] # Absent =>
         /\ command[o].key = ProbeKey /\ command[o].seq < next_seq[command[o].client]
         /\ command[o].op = "put" => command[o].value = o
    /\ \A o, q \in Ops : command[o] # Absent /\ command[q] # Absent
         /\ command[o].client = command[q].client /\ command[o].seq = command[q].seq => o = q

\* Only a waiting operation hears of a submission, of one at a time, and one that
\* waits for a reliable replica does.
SubmittedInv ==
    /\ \A p \in submitted : command[p.op] # Absent /\ (p.heard => task[p.op] = "wait")
    /\ \A p, q \in submitted : p.heard /\ q.heard /\ p.op = q.op => p = q
    /\ \A o \in Ops : task[o] = "wait" /\ Addr(o) \in reliable =>
         \E p \in submitted : p.op = o /\ p.heard /\ p.addr = Addr(o)

\* The log is made of the operations' commands, the store is its replay, and a
\* put that is being retried, or was acknowledged, took effect if it is in it.
DecidedInv ==
    /\ \A i \in 1..Len(decided) : \E q \in Ops : command[q] # Absent /\ decided[i] = command[q]
    /\ Replays(decided, Len(decided), kvstore)
    /\ \A o \in Ops : result[o] = "ok" => command[o] # Absent /\ InLog(o)
    /\ \A o \in PutOps : (Held(o) \/ result[o] = "ok") /\ InLog(o) =>
         \E i \in 1..Len(decided) : decided[i] = command[o] /\ Effective(decided, i)

\* The address of attempt n.
AddrOf(o, n) == (start[o] + n - 1) % NumAddrs

\* The attempts so far were at replicas that may fail.
RotationInv ==
    /\ reliable \subseteq listening
    /\ \A o \in Ops : Held(o) =>
         /\ tries[o] >= 1 /\ tries[o] <= MaxAttempts
         /\ \A n \in 1..(tries[o] - 1) : AddrOf(o, n) \notin reliable
    /\ SurvivesReplicaLoss

ClientInv ==
    /\ StagesInv /\ SessionsInv /\ NumbersInv
    /\ SubmittedInv /\ DecidedInv /\ RotationInv

LEMMA ClientConstants ==
    /\ NumAddrs \in Nat /\ NumAddrs >= 1 /\ MaxAttempts \in Nat /\ MaxAttempts >= NumAddrs
    /\ MaxOps \in Nat /\ Ops \subseteq Values /\ Absent \notin ClientCommands
    /\ Kinds \subseteq {"get", "put"}
  <1>1. Rounds \in Nat /\ Rounds >= 1 BY ClientAssumption DEF ClientConstantsOK, Rounds
  <1>2. NumAddrs \in Nat /\ NumAddrs >= 1 BY ClientAssumption DEF ClientConstantsOK
  <1>3. ASSUME NEW r \in Nat, r >= 1 PROVE r * NumAddrs \in Nat /\ r * NumAddrs >= NumAddrs
    BY <1>2, <1>3
  <1>4. MaxAttempts \in Nat /\ MaxAttempts >= NumAddrs BY <1>1, <1>3 DEF MaxAttempts
  <1> QED BY <1>2, <1>4, ClientAssumption DEF ClientConstantsOK, Ops

\* The rotation comes to every address.
LEMMA InTheRotation ==
    ASSUME NEW n \in Nat
    PROVE  n % NumAddrs \in Addrs
  BY ClientConstants DEF Addrs

LEMMA RotationCovers ==
    ASSUME NEW s \in Addrs, NEW a \in Addrs
    PROVE  \E n \in 1..NumAddrs : (s + n - 1) % NumAddrs = a
  <1>1. s \in Nat /\ a \in Nat /\ s < NumAddrs /\ a < NumAddrs /\ NumAddrs \in Nat
    BY ClientConstants DEF Addrs
  <1>2. CASE a >= s
    <2>1. a - s + 1 \in 1..NumAddrs /\ s + (a - s + 1) - 1 = a BY <1>1, <1>2
    <2>2. a % NumAddrs = a BY <1>1
    <2> QED BY <2>1, <2>2
  <1>3. CASE a < s
    <2>1. a - s + 1 + NumAddrs \in 1..NumAddrs /\ s + (a - s + 1 + NumAddrs) - 1 = a + NumAddrs
      BY <1>1, <1>3
    <2>2. (a + NumAddrs) % NumAddrs = a BY <1>1
    <2> QED BY <2>1, <2>2
  <1> QED BY <1>1, <1>2, <1>3

\* A session that leaves the pool is no longer in it, and the others are.
LEMMA PoolWithout ==
    ASSUME NEW q \in Seq(Clients), NEW k \in 1..Len(q), NEW p,
           \A i, j \in 1..Len(q) : q[i] = q[j] => i = j,
           p = RemoveAt(q, k) \/ (k = 1 /\ p = Tail(q))
    PROVE  /\ p \in Seq(Clients)
           /\ \A i, j \in 1..Len(p) : p[i] = p[j] => i = j
           /\ \A i \in 1..Len(p) : p[i] # q[k] /\ \E j \in 1..Len(q) : p[i] = q[j]
  <1> DEFINE after(i) == IF i < k THEN i ELSE i + 1
  <1>1. p \in Seq(Clients) /\ Len(p) = Len(q) - 1 /\ \A i \in 1..(Len(q) - 1) : p[i] = q[after(i)]
    <2>1. CASE p = RemoveAt(q, k)
      <3> DEFINE a == SubSeq(q, 1, k - 1)
                 b == SubSeq(q, k + 1, Len(q))
      <3>1. a \in Seq(Clients) /\ Len(a) = k - 1 /\ \A i \in 1..(k - 1) : a[i] = q[i]
        OBVIOUS
      <3>2. b \in Seq(Clients) /\ Len(b) = Len(q) - k /\ \A i \in 1..(Len(q) - k) : b[i] = q[i + k]
        OBVIOUS
      <3>3. p = a \o b BY <2>1 DEF RemoveAt
      <3> HIDE DEF a, b
      <3>4. p \in Seq(Clients) /\ Len(p) = Len(q) - 1
        <4>1. a \in Seq(Clients) /\ b \in Seq(Clients) BY <3>1, <3>2
        <4>2. a \o b \in Seq(Clients) /\ Len(a \o b) = Len(a) + Len(b) BY <4>1
        <4>3. Len(q) \in Nat /\ (k - 1) + (Len(q) - k) = Len(q) - 1 OBVIOUS
        <4> QED BY <3>1, <3>2, <3>3, <4>2, <4>3
      <3>5. ASSUME NEW i \in 1..(Len(q) - 1) PROVE p[i] = q[after(i)]
        <4>1. CASE i < k BY <3>1, <3>2, <3>3, <4>1
        <4>2. CASE ~(i < k)
          <5>1. i - (k - 1) \in 1..(Len(q) - k) /\ i - (k - 1) + k = i + 1 BY <4>2
          <5>2. a \in Seq(Clients) /\ b \in Seq(Clients) BY <3>1, <3>2
          <5>3. ~(i <= Len(a)) /\ i <= Len(a) + Len(b) BY <3>1, <3>2, <4>2
          <5>4. (a \o b)[i] = b[i - Len(a)] BY <5>2, <5>3
          <5>5. i - Len(a) = i - (k - 1) BY <3>1
          <5> QED BY <3>2, <3>3, <4>2, <5>1, <5>4, <5>5
        <4> QED BY <4>1, <4>2
      <3> QED BY <3>4, <3>5
    <2>2. CASE k = 1 /\ p = Tail(q) BY <2>2
    <2> QED BY <2>1, <2>2
  <1>2. \A i \in 1..Len(p) : after(i) \in 1..Len(q) /\ after(i) # k /\ p[i] = q[after(i)]
    BY <1>1
  <1>3. \A i, j \in 1..Len(p) : after(i) = after(j) => i = j
    BY <1>1
  <1> HIDE DEF after
  <1>4. p \in Seq(Clients) BY <1>1
  <1>5. \A i, j \in 1..Len(p) : p[i] = p[j] => i = j BY <1>2, <1>3
  <1>6. \A i \in 1..Len(p) : p[i] # q[k] BY <1>2
  <1>7. \A i \in 1..Len(p) : \E j \in 1..Len(q) : p[i] = q[j] BY <1>2
  <1> QED BY <1>4, <1>5, <1>6, <1>7

\* A step of an operation that keeps its session and its command.
LEMMA RetrySteps ==
    ASSUME ClientTypes, StagesInv, SessionsInv, NumbersInv, NEW o \in Ops, Held(o),
           task'[o] \in {"dial", "wait", "backoff"},
           \A q \in Ops : q # o => task'[q] = task[q],
           UNCHANGED <<issued, session, command, result, pool, next_seq>>
    PROVE  StagesInv' /\ SessionsInv' /\ NumbersInv'
  <1>1. \A q \in Ops : Held(q)' <=> Held(q) BY DEF Held
  <1>2. \A q \in Ops : task'[q] \in {"none", "queued"} <=> task[q] \in {"none", "queued"}
    BY DEF Held
  <1>3. StagesInv'
    <2> SUFFICES ASSUME NEW q \in Ops
                 PROVE  /\ q > issued' => task'[q] = "none"
                        /\ task'[q] \in {"none", "queued"} => command'[q] = Absent
                        /\ task'[q] # "done" => result'[q] = "none"
      BY DEF StagesInv
    <2>1. CASE q = o
      <3>1. task[o] # "none" /\ task[o] # "done" BY DEF Held
      <3> QED BY <1>2, <2>1, <3>1 DEF StagesInv
    <2>2. CASE q # o BY <2>2 DEF StagesInv
    <2> QED BY <2>1, <2>2
  <1>4. SessionsInv' BY <1>1 DEF SessionsInv
  <1>5. NumbersInv' BY DEF NumbersInv
  <1> QED BY <1>3, <1>4, <1>5

\* The end of an operation: its session is nobody's but the pool's.
LEMMA FinishSteps ==
    ASSUME ClientTypes, StagesInv, SessionsInv, NumbersInv, NEW o \in Ops, Held(o),
           NEW r \in {"ok", "failed"}, Finish(o, r)
    PROVE  /\ StagesInv' /\ SessionsInv' /\ NumbersInv'
           /\ task' \in [Ops -> Places] /\ result' \in [Ops -> Samples]
           /\ pool' \in Seq(Clients)
           /\ task'[o] = "done" /\ result'[o] = r
           /\ \A q \in Ops : q # o => task'[q] = task[q] /\ result'[q] = result[q]
  <1>1. /\ task' = [task EXCEPT ![o] = "done"] /\ result' = [result EXCEPT ![o] = r]
        /\ pool' = Append(pool, session[o])
        /\ UNCHANGED <<issued, next_seq, session, command>>
    BY DEF Finish, GiveBack
  <1>2. "done" \in Places /\ r \in Samples BY DEF Places, Samples
  <1>3. /\ task' \in [Ops -> Places] /\ result' \in [Ops -> Samples]
        /\ task'[o] = "done" /\ result'[o] = r
        /\ \A q \in Ops : q # o => task'[q] = task[q] /\ result'[q] = result[q]
    BY <1>1, <1>2 DEF ClientTypes
  <1>4. session[o] \in Clients /\ pool \in Seq(Clients) BY DEF SessionsInv, ClientTypes
  <1>5. /\ pool' \in Seq(Clients) /\ Len(pool') = Len(pool) + 1
        /\ pool'[Len(pool) + 1] = session[o]
        /\ \A i \in 1..Len(pool) : pool'[i] = pool[i]
    BY <1>1, <1>4
  <1>6. ~Held(o)' /\ \A q \in Ops : Held(q)' => Held(q) /\ q # o
    BY <1>3 DEF Held
  <1>7. StagesInv'
    <2> SUFFICES ASSUME NEW q \in Ops
                 PROVE  /\ q > issued' => task'[q] = "none"
                        /\ task'[q] \in {"none", "queued"} => command'[q] = Absent
                        /\ task'[q] # "done" => result'[q] = "none"
      BY DEF StagesInv
    <2>1. CASE q = o
      <3>1. ~(o > issued) BY DEF Held, StagesInv
      <3> QED BY <1>1, <1>3, <2>1, <3>1
    <2>2. CASE q # o BY <1>1, <1>3, <2>2 DEF StagesInv
    <2> QED BY <2>1, <2>2
  <1>8. \A i \in 1..Len(pool) : pool[i] # session[o] BY DEF SessionsInv
  <1>9. SessionsInv'
    <2>1. ASSUME NEW i \in 1..Len(pool'), NEW j \in 1..Len(pool'), pool'[i] = pool'[j]
          PROVE  i = j
      <3>1. i \in 1..Len(pool) \/ i = Len(pool) + 1 BY <1>4, <1>5
      <3>2. j \in 1..Len(pool) \/ j = Len(pool) + 1 BY <1>4, <1>5
      <3>3. \A m, n \in 1..Len(pool) : pool[m] = pool[n] => m = n BY DEF SessionsInv
      <3> QED BY <1>5, <1>8, <2>1, <3>1, <3>2, <3>3
    <2>2. ASSUME NEW q \in Ops, Held(q)'
          PROVE  /\ session'[q] \in Clients
                 /\ command'[q] # Absent /\ command'[q].client = session'[q]
                 /\ next_seq'[session'[q]] = command'[q].seq + 1
                 /\ \A i \in 1..Len(pool') : pool'[i] # session'[q]
      <3>1. Held(q) /\ q # o BY <1>6, <2>2
      <3>2. session[q] # session[o] BY <3>1 DEF SessionsInv
      <3>3. /\ session[q] \in Clients /\ command[q] # Absent /\ command[q].client = session[q]
            /\ next_seq[session[q]] = command[q].seq + 1
            /\ \A i \in 1..Len(pool) : pool[i] # session[q]
        BY <3>1 DEF SessionsInv
      <3>4. ASSUME NEW i \in 1..Len(pool') PROVE pool'[i] # session[q]
        <4>1. i \in 1..Len(pool) \/ i = Len(pool) + 1 BY <1>4, <1>5
        <4> QED BY <1>5, <3>2, <3>3, <4>1
      <3> QED BY <1>1, <3>3, <3>4
    <2>3. ASSUME NEW p \in Ops, NEW q \in Ops, Held(p)', Held(q)', session'[p] = session'[q]
          PROVE  p = q
      BY <1>1, <1>6, <2>3 DEF SessionsInv
    <2> QED BY <2>1, <2>2, <2>3 DEF SessionsInv
  <1>10. NumbersInv' BY <1>1 DEF NumbersInv
  <1> QED BY <1>3, <1>5, <1>7, <1>9, <1>10

\* What do_one_op numbers is a client's command, later than all of its session's.
LEMMA CommandOfSession ==
    ASSUME ClientTypes, NEW s \in Clients, NEW o \in Ops, NEW kind \in Kinds
    PROVE  /\ Command(s, o, kind) \in ClientCommands
           /\ Command(s, o, kind).client = s /\ Command(s, o, kind).seq = next_seq[s]
           /\ Command(s, o, kind).key = ProbeKey
           /\ Command(s, o, kind).op = "put" => Command(s, o, kind).value = o
  <1>1. next_seq[s] \in Nat /\ ProbeKey \in Keys /\ o \in Values
    BY ClientConstants, ReservedAssumption DEF ClientTypes
  <1>2. CASE kind = "put"
    <2> DEFINE c == [op |-> "put", client |-> s, seq |-> next_seq[s], key |-> ProbeKey, value |-> o]
    <2>1. Command(s, o, kind) = c BY <1>2 DEF Command
    <2>2. c \in ClientCommands BY <1>1 DEF ClientCommands, Puts
    <2> QED BY <2>1, <2>2
  <1>3. CASE kind # "put"
    <2> DEFINE c == [op |-> "get", client |-> s, seq |-> next_seq[s], key |-> ProbeKey]
    <2>1. Command(s, o, kind) = c BY <1>3 DEF Command
    <2>2. c \in ClientCommands BY <1>1 DEF ClientCommands, Gets
    <2> QED BY <2>1, <2>2
  <1> QED BY <1>2, <1>3

\* An operation borrows a session of the pool.
LEMMA BeginSteps ==
    ASSUME ClientTypes, StagesInv, SessionsInv, NumbersInv,
           NEW o \in Ops, NEW k \in 1..Len(pool), task[o] \in {"none", "queued"},
           Begin(o, pool[k]), pool' = RemoveAt(pool, k) \/ (k = 1 /\ pool' = Tail(pool)),
           issued' \in Nat, issued' >= issued, o <= issued', result' = result
    PROVE  /\ StagesInv' /\ SessionsInv' /\ NumbersInv'
           /\ task' \in [Ops -> Places] /\ session' \in [Ops -> Clients \cup {Absent}]
           /\ command' \in [Ops -> ClientCommands \cup {Absent}]
           /\ start' \in [Ops -> Addrs] /\ tries' \in [Ops -> Nat] /\ cursor' \in Nat
           /\ pool' \in Seq(Clients) /\ next_seq' \in [Clients -> Nat]
           /\ task'[o] = "dial" /\ tries'[o] = 1 /\ command[o] = Absent
           /\ \A q \in Ops : q # o => /\ task'[q] = task[q] /\ command'[q] = command[q]
                                      /\ tries'[q] = tries[q] /\ start'[q] = start[q]
           /\ \A q \in Ops : command[q] # Absent => command[q] # command'[o]
  <1> DEFINE s == pool[k]
  <1>1. s \in Clients /\ pool \in Seq(Clients) BY DEF ClientTypes
  <1>2. PICK kind \in Kinds :
          /\ session' = [session EXCEPT ![o] = s]
          /\ next_seq' = [next_seq EXCEPT ![s] = @ + 1]
          /\ command' = [command EXCEPT ![o] = Command(s, o, kind)]
          /\ start' = [start EXCEPT ![o] = cursor % NumAddrs]
          /\ cursor' = cursor + 1
          /\ task' = [task EXCEPT ![o] = "dial"]
          /\ tries' = [tries EXCEPT ![o] = 1]
    BY DEF Begin
  <1> DEFINE c == Command(s, o, kind)
  <1>3. /\ c \in ClientCommands /\ c.client = s /\ c.seq = next_seq[s] /\ c.key = ProbeKey
        /\ c.op = "put" => c.value = o
        /\ c # Absent
    BY <1>1, CommandOfSession, ClientConstants
  <1>4. cursor % NumAddrs \in Addrs /\ "dial" \in Places
    BY InTheRotation DEF ClientTypes, Places
  <1> HIDE DEF s, c
  <1>5. /\ task' \in [Ops -> Places] /\ session' \in [Ops -> Clients \cup {Absent}]
        /\ command' \in [Ops -> ClientCommands \cup {Absent}]
        /\ start' \in [Ops -> Addrs] /\ tries' \in [Ops -> Nat] /\ cursor' \in Nat
    BY <1>1, <1>2, <1>3, <1>4 DEF ClientTypes, s, c
  <1>6. next_seq' \in [Clients -> Nat] /\ next_seq[s] \in Nat
    BY <1>1, <1>2 DEF ClientTypes, s
  <1>7. /\ task'[o] = "dial" /\ tries'[o] = 1 /\ command'[o] = c /\ session'[o] = s
        /\ \A q \in Ops : q # o => /\ task'[q] = task[q] /\ command'[q] = command[q]
                                   /\ session'[q] = session[q]
                                   /\ tries'[q] = tries[q] /\ start'[q] = start[q]
    BY <1>2 DEF ClientTypes, s, c
  <1>8. /\ next_seq'[s] = next_seq[s] + 1
        /\ \A t \in Clients : t # s => next_seq'[t] = next_seq[t]
    BY <1>1, <1>2 DEF ClientTypes, s
  <1>9. command[o] = Absent /\ ~Held(o) BY DEF StagesInv, Held
  <1>10. \A q \in Ops : command[q] # Absent =>
           /\ command[q].client \in Clients /\ command[q].seq \in Nat
           /\ command[q].seq < next_seq[command[q].client]
    BY DEF ClientTypes, NumbersInv, ClientCommands, Puts, Gets
  <1>11. \A q \in Ops : command[q] # Absent =>
           q # o /\ ~(command[q].client = s /\ command[q].seq = next_seq[s])
    BY <1>9, <1>10, <1>6
  <1>12. \A q \in Ops : command[q] # Absent => command[q] # command'[o] BY <1>3, <1>7, <1>11
  <1>13. /\ pool' \in Seq(Clients)
         /\ \A i, j \in 1..Len(pool') : pool'[i] = pool'[j] => i = j
         /\ \A i \in 1..Len(pool') : pool'[i] # s /\ \E j \in 1..Len(pool) : pool'[i] = pool[j]
    BY <1>1, PoolWithout DEF SessionsInv, s
  <1>14. StagesInv'
    <2> SUFFICES ASSUME NEW q \in Ops
                 PROVE  /\ q > issued' => task'[q] = "none"
                        /\ task'[q] \in {"none", "queued"} => command'[q] = Absent
                        /\ task'[q] # "done" => result'[q] = "none"
      BY DEF StagesInv
    <2>1. CASE q = o BY <1>7, <2>1, ClientConstants DEF StagesInv, Ops
    <2>2. CASE q # o
      <3>1. q > issued' => q > issued
        BY ClientConstants DEF Ops, ClientTypes
      <3> QED BY <1>7, <2>2, <3>1 DEF StagesInv
    <2> QED BY <2>1, <2>2
  <1>15. \A q \in Ops : Held(q)' => q = o \/ (q # o /\ Held(q)) BY <1>7 DEF Held
  <1>16. \A q \in Ops : Held(q) => session[q] # s BY DEF SessionsInv, s
  <1>17. SessionsInv'
    <2>1. ASSUME NEW q \in Ops, Held(q)'
          PROVE  /\ session'[q] \in Clients
                 /\ command'[q] # Absent /\ command'[q].client = session'[q]
                 /\ next_seq'[session'[q]] = command'[q].seq + 1
                 /\ \A i \in 1..Len(pool') : pool'[i] # session'[q]
      <3>1. CASE q = o BY <1>1, <1>3, <1>7, <1>8, <1>13, <3>1 DEF s
      <3>2. CASE q # o
        <4>1. Held(q) BY <1>15, <2>1, <3>2
        <4>2. /\ session[q] \in Clients /\ command[q] # Absent /\ command[q].client = session[q]
              /\ next_seq[session[q]] = command[q].seq + 1
              /\ \A i \in 1..Len(pool) : pool[i] # session[q]
          BY <4>1 DEF SessionsInv
        <4> QED BY <1>7, <1>8, <1>13, <1>16, <3>2, <4>1, <4>2
      <3> QED BY <3>1, <3>2
    <2>2. ASSUME NEW p \in Ops, NEW q \in Ops, Held(p)', Held(q)', session'[p] = session'[q]
          PROVE  p = q
      <3>1. CASE p = o \/ q = o BY <1>7, <1>15, <1>16, <2>2, <3>1
      <3>2. CASE p # o /\ q # o BY <1>7, <1>15, <2>2, <3>2 DEF SessionsInv
      <3> QED BY <3>1, <3>2
    <2> QED BY <1>13, <2>1, <2>2 DEF SessionsInv
  <1>18. NumbersInv'
    <2>1. ASSUME NEW q \in Ops, command'[q] # Absent
          PROVE  /\ command'[q].key = ProbeKey /\ command'[q].seq < next_seq'[command'[q].client]
                 /\ command'[q].op = "put" => command'[q].value = q
      <3>1. CASE q = o BY <1>3, <1>6, <1>7, <1>8, <3>1
      <3>2. CASE q # o
        <4>1. command'[q] = command[q] /\ command[q] # Absent BY <1>7, <2>1, <3>2
        <4>2. command[q].seq < next_seq'[command[q].client]
          <5>1. CASE command[q].client = s BY <1>6, <1>8, <1>10, <4>1, <5>1
          <5>2. CASE command[q].client # s BY <1>8, <1>10, <4>1, <5>2
          <5> QED BY <5>1, <5>2
        <4> QED BY <4>1, <4>2 DEF NumbersInv
      <3> QED BY <3>1, <3>2
    <2>2. ASSUME NEW p \in Ops, NEW q \in Ops, command'[p] # Absent, command'[q] # Absent,
                 command'[p].client = command'[q].client, command'[p].seq = command'[q].seq
          PROVE  p = q
      <3>1. CASE p = o /\ q # o BY <1>3, <1>7, <1>11, <2>2, <3>1
      <3>2. CASE p # o /\ q = o BY <1>3, <1>7, <1>11, <2>2, <3>2
      <3>3. CASE p # o /\ q # o BY <1>7, <2>2, <3>3 DEF NumbersInv
      <3> QED BY <3>1, <3>2, <3>3
    <2> QED BY <2>1, <2>2 DEF NumbersInv
  <1> QED BY <1>5, <1>6, <1>7, <1>9, <1>12, <1>13, <1>14, <1>17, <1>18

\* Whether a put takes effect depends on the log up to it only.
LEMMA EffectiveStable ==
    ASSUME NEW l, NEW m, NEW i \in Nat, i >= 1, \A j \in 1..i : m[j] = l[j], Effective(l, i)
    PROVE  Effective(m, i)
  BY DEF Effective

\* A step that decides nothing.
LEMMA DecidedKept ==
    ASSUME ClientTypes, DecidedInv, UNCHANGED <<decided, kvstore>>,
           \A q \in Ops : command[q] # Absent => command'[q] = command[q],
           \A q \in Ops : result'[q] = "ok" => result[q] = "ok",
           \A q \in Ops : Held(q)' => (Held(q) /\ command[q] # Absent) \/ ~InLog(q)'
    PROVE  DecidedInv'
  <1>1. \A i \in 1..Len(decided') : \E q \in Ops : command'[q] # Absent /\ decided'[i] = command'[q]
    BY DEF DecidedInv
  <1>2. Replays(decided', Len(decided'), kvstore') BY DEF DecidedInv
  <1>3. \A q \in Ops : command[q] # Absent => (InLog(q)' <=> InLog(q)) BY DEF InLog
  <1>4. \A q \in Ops : result'[q] = "ok" => command'[q] # Absent /\ InLog(q)'
    BY <1>3 DEF DecidedInv
  <1>5. ASSUME NEW q \in PutOps', (Held(q) \/ result[q] = "ok")', InLog(q)'
        PROVE  \E i \in 1..Len(decided') : decided'[i] = command'[q] /\ Effective(decided', i)
    <2>1. q \in Ops /\ command'[q].op = "put" BY DEF PutOps
    <2>2. command[q] # Absent /\ (Held(q) \/ result[q] = "ok")
      BY <1>5, <2>1 DEF DecidedInv
    <2>3. q \in PutOps /\ command'[q] = command[q] /\ InLog(q) BY <1>3, <1>5, <2>1, <2>2 DEF PutOps
    <2> QED BY <2>2, <2>3 DEF DecidedInv
  <1> QED BY <1>1, <1>2, <1>4, <1>5 DEF DecidedInv

\* A copy of an operation's command is decided.
LEMMA DecideSteps ==
    ASSUME ClientTypes, SessionsInv, NumbersInv, DecidedInv, NEW o \in Ops, command[o] # Absent,
           decided' = Append(decided, command[o]), kvstore' = Apply(kvstore, command[o]),
           command' = command,
           \A q \in Ops : (Held(q) \/ result[q] = "ok")' => Held(q) \/ result[q] = "ok",
           \A q \in Ops : result'[q] = "ok" => result[q] = "ok" \/ q = o
    PROVE  /\ DecidedInv'
           /\ decided' \in Seq(ClientCommands) /\ kvstore' \in Kvs
  <1> DEFINE n == Len(decided)
  <1>1. command[o] \in ClientCommands /\ decided \in Seq(ClientCommands) /\ n \in Nat
    BY DEF ClientTypes
  <1>2. /\ decided' \in Seq(ClientCommands) /\ Len(decided') = n + 1
        /\ decided'[n + 1] = command[o] /\ \A i \in 1..n : decided'[i] = decided[i]
    BY <1>1
  <1>3. decided' \in Seq(Commands) /\ command[o] \in Commands /\ kvstore \in Kvs
    BY <1>1, <1>2 DEF Commands, ClientTypes
  <1>4. kvstore' \in Kvs BY <1>3, ApplyTyped
  <1>5. Replays(decided', Len(decided'), kvstore')
    <2>1. Replays(decided, n, kvstore) BY DEF DecidedInv
    <2>2. Replays(decided', n, kvstore) BY <1>1, <1>2, <2>1, ReplayStable
    <2>3. n < Len(decided') BY <1>1, <1>2
    <2>4. Replays(decided', n + 1, Apply(kvstore, decided'[n + 1]))
      BY <1>1, <1>3, <2>2, <2>3, ReplayStep
    <2> QED BY <1>2, <2>4
  <1> HIDE DEF n
  <1>6. \A i \in 1..Len(decided') : i \in 1..n \/ i = n + 1 BY <1>1, <1>2
  <1>7. \A i \in 1..n : \E q \in Ops : command[q] # Absent /\ decided[i] = command[q]
    BY DEF DecidedInv, n
  <1>8. \A i \in 1..Len(decided') : \E q \in Ops : command'[q] # Absent /\ decided'[i] = command'[q]
    BY <1>2, <1>6, <1>7
  <1>9. n + 1 \in 1..Len(decided') /\ \A i \in 1..n : i \in 1..Len(decided') BY <1>1, <1>2
  <1>10. InLog(o)' /\ \A q \in Ops : InLog(q) => InLog(q)'
    BY <1>2, <1>9 DEF InLog, n
  <1>11. \A q \in Ops : result'[q] = "ok" => command'[q] # Absent /\ InLog(q)'
    BY <1>10 DEF DecidedInv
  <1>12. ASSUME NEW q \in PutOps', (Held(q) \/ result[q] = "ok")', InLog(q)'
         PROVE  \E i \in 1..Len(decided') : decided'[i] = command'[q] /\ Effective(decided', i)
    <2>1. q \in Ops /\ q \in PutOps /\ command[q] # Absent /\ command[q].op = "put" BY DEF PutOps
    <2>2. Held(q) \/ result[q] = "ok" BY <1>12, <2>1
    <2>3. CASE InLog(q)
      <3>1. PICK i \in 1..n : decided[i] = command[q] /\ Effective(decided, i)
        BY <2>1, <2>2, <2>3 DEF DecidedInv, n
      <3>2. i \in Nat /\ i >= 1 /\ \A j \in 1..i : decided'[j] = decided[j] BY <1>1, <1>2
      <3>3. Effective(decided', i) BY <3>1, <3>2, EffectiveStable
      <3> QED BY <1>2, <1>9, <3>1, <3>2, <3>3
    <2>4. CASE ~InLog(q)
      <3>1. PICK i \in 1..Len(decided') : decided'[i] = command[q] BY <1>12 DEF InLog
      <3>2. i = n + 1 BY <1>2, <1>6, <2>4, <3>1 DEF InLog, n
      <3>3. Held(q) BY <2>1, <2>2, <2>4 DEF DecidedInv
      <3>4. /\ command[q].client \in Clients /\ command[q].seq \in Nat
            /\ next_seq[command[q].client] = command[q].seq + 1
        BY <2>1, <3>3 DEF SessionsInv, ClientTypes, ClientCommands, Puts, Gets
      <3>5. ASSUME NEW j \in 1..n, decided'[j].op = "put", decided'[j].client = command[q].client
            PROVE  decided'[j].seq < command[q].seq
        <4>1. PICK p \in Ops : command[p] # Absent /\ decided'[j] = command[p] BY <1>2, <1>7
        <4>2. command[p].seq \in Nat /\ command[p].seq < next_seq[command[p].client]
          BY <4>1 DEF NumbersInv, ClientTypes, ClientCommands, Puts, Gets
        <4>3. p # q BY <1>2, <2>4, <4>1 DEF InLog, n
        <4>4. command[p].seq # command[q].seq BY <2>1, <3>5, <4>1, <4>3 DEF NumbersInv
        <4> QED BY <3>4, <3>5, <4>1, <4>2, <4>4
      <3>6. Effective(decided', n + 1)
        <4>1. decided'[n + 1] = command[q] BY <3>1, <3>2
        <4>2. (n + 1) - 1 = n BY <1>1
        <4> QED BY <2>1, <3>5, <4>1, <4>2 DEF Effective
      <3> QED BY <1>9, <3>1, <3>2, <3>6
    <2> QED BY <2>3, <2>4
  <1> QED BY <1>2, <1>4, <1>5, <1>8, <1>11, <1>12 DEF DecidedInv

\* Before its first attempt an operation has no address it failed at, and after
\* its last one it has been everywhere.
LEMMA BeenEverywhere ==
    ASSUME ClientTypes, RotationInv, NEW o \in Ops, Held(o), Addr(o) \notin reliable,
           tries[o] = MaxAttempts
    PROVE  reliable = {}
  <1> SUFFICES ASSUME NEW a \in reliable PROVE FALSE
    OBVIOUS
  <1>1. a \in Addrs /\ start[o] \in Addrs /\ tries[o] \in Nat BY DEF ClientTypes
  <1>2. PICK n \in 1..NumAddrs : (start[o] + n - 1) % NumAddrs = a BY <1>1, RotationCovers
  <1>3. n \in 1..tries[o] BY ClientConstants
  <1>4. CASE n = tries[o] BY <1>2, <1>4 DEF Addr
  <1>5. CASE n # tries[o]
    <2>1. n \in 1..(tries[o] - 1) BY <1>1, <1>3, <1>5
    <2>2. AddrOf(o, n) = a BY <1>2 DEF AddrOf
    <2> QED BY <2>1, <2>2 DEF RotationInv
  <1> QED BY <1>4, <1>5

\* A failed attempt at a replica that may fail.
LEMMA AdvanceSteps ==
    ASSUME ClientTypes, StagesInv, SessionsInv, NumbersInv, RotationInv,
           NEW o \in Ops, Held(o), Addr(o) \notin reliable, Advance(o),
           reliable' = reliable, listening' = listening
    PROVE  /\ StagesInv' /\ SessionsInv' /\ NumbersInv' /\ RotationInv'
           /\ UNCHANGED <<issued, cursor, session, command, start, next_seq>>
           /\ task' \in [Ops -> Places] /\ result' \in [Ops -> Samples]
           /\ tries' \in [Ops -> Nat] /\ pool' \in Seq(Clients)
           /\ task'[o] # "wait"
           /\ \A q \in Ops : q # o => task'[q] = task[q] /\ tries'[q] = tries[q]
           /\ \A q \in Ops : (result'[q] = "ok" => result[q] = "ok") /\ (Held(q)' => Held(q))
  <1>1. tries[o] \in Nat /\ tries[o] >= 1 /\ tries[o] <= MaxAttempts /\ MaxAttempts \in Nat
    BY ClientConstants DEF ClientTypes, RotationInv
  <1>2. CASE tries[o] = MaxAttempts
    <2>1. Finish(o, "failed") BY <1>2 DEF Advance
    <2>2. /\ StagesInv' /\ SessionsInv' /\ NumbersInv'
          /\ task' \in [Ops -> Places] /\ result' \in [Ops -> Samples]
          /\ pool' \in Seq(Clients)
          /\ task'[o] = "done" /\ result'[o] = "failed"
          /\ \A q \in Ops : q # o => task'[q] = task[q] /\ result'[q] = result[q]
      BY <2>1, FinishSteps
    <2>3. UNCHANGED <<issued, cursor, session, command, start, tries, next_seq>>
      BY <2>1 DEF Finish
    <2>4. reliable = {} BY <1>2, BeenEverywhere
    <2>5. \A q \in Ops : Held(q)' => q # o /\ Held(q) BY <2>2 DEF Held
    <2>6. RotationInv'
      BY <2>3, <2>4, <2>5 DEF RotationInv, AddrOf, SurvivesReplicaLoss
    <2> QED BY <2>2, <2>3, <2>5, <2>6 DEF ClientTypes
  <1>3. CASE tries[o] # MaxAttempts
    <2> DEFINE next == IF tries[o] % NumAddrs = 0 THEN "backoff" ELSE "dial"
    <2>1. /\ tries' = [tries EXCEPT ![o] = @ + 1] /\ task' = [task EXCEPT ![o] = next]
          /\ UNCHANGED <<genVars, session, command, start, result, cursor>>
      BY <1>3 DEF Advance
    <2>2. next \in {"dial", "backoff"} /\ next \in Places BY DEF Places
    <2> HIDE DEF next
    <2>3. /\ task' \in [Ops -> Places] /\ tries' \in [Ops -> Nat]
          /\ task'[o] = next /\ tries'[o] = tries[o] + 1
          /\ \A q \in Ops : q # o => task'[q] = task[q] /\ tries'[q] = tries[q]
      BY <1>1, <2>1, <2>2 DEF ClientTypes
    <2>4. UNCHANGED <<issued, cursor, session, command, start, result, pool, next_seq>>
      BY <2>1 DEF genVars
    <2>5. StagesInv' /\ SessionsInv' /\ NumbersInv'
      BY <2>2, <2>3, <2>4, RetrySteps
    <2>6. \A q \in Ops : Held(q)' => Held(q) BY <2>3 DEF Held
    <2>7. RotationInv'
      <3>1. ASSUME NEW q \in Ops, Held(q)'
            PROVE  /\ tries'[q] >= 1 /\ tries'[q] <= MaxAttempts
                   /\ \A n \in 1..(tries'[q] - 1) : AddrOf(q, n)' \notin reliable'
        <4>1. \A n \in 1..(tries[q] - 1) : AddrOf(q, n)' \notin reliable'
          BY <2>4, <2>6, <3>1 DEF RotationInv, AddrOf
        <4>2. CASE q = o
          <5>1. ASSUME NEW n \in Nat, n = tries[o] PROVE AddrOf(o, n)' \notin reliable'
            BY <2>4, <5>1 DEF AddrOf, Addr
          <5>2. \A n \in 1..(tries'[o] - 1) : n = tries[o] \/ n \in 1..(tries[o] - 1)
            BY <1>1, <2>3
          <5>3. tries'[o] >= 1 /\ tries'[o] <= MaxAttempts BY <1>1, <1>3, <2>3
          <5>4. \A n \in 1..(tries'[o] - 1) : AddrOf(o, n)' \notin reliable'
            BY <1>1, <4>1, <4>2, <5>1, <5>2
          <5> QED BY <4>2, <5>3, <5>4
        <4>3. CASE q # o BY <2>3, <2>6, <3>1, <4>1, <4>3 DEF RotationInv
        <4> QED BY <4>2, <4>3
      <3> QED BY <2>4, <3>1 DEF RotationInv, SurvivesReplicaLoss
    <2> QED BY <2>2, <2>3, <2>4, <2>5, <2>6, <2>7 DEF ClientTypes
  <1> QED BY <1>2, <1>3

\* A step of one operation that submits nothing and hears nothing.
LEMMA SubmittedKept ==
    ASSUME ClientTypes, SubmittedInv, NEW o \in Ops,
           submitted' = submitted, reliable' = reliable,
           \A q \in Ops : command[q] # Absent => command'[q] # Absent,
           \A q \in Ops : q # o => /\ task'[q] = task[q]
                                   /\ tries'[q] = tries[q] /\ start'[q] = start[q],
           task'[o] # "wait", ~ \E p \in submitted : p.op = o /\ p.heard
    PROVE  SubmittedInv'
  <1>1. ASSUME NEW p \in submitted
        PROVE  command'[p.op] # Absent /\ (p.heard => task'[p.op] = "wait")
    <2>1. p.op \in Ops BY DEF ClientTypes, Submissions
    <2> QED BY <2>1 DEF SubmittedInv
  <1>2. ASSUME NEW q \in Ops, task'[q] = "wait", Addr(q)' \in reliable'
        PROVE  \E p \in submitted : p.op = q /\ p.heard /\ p.addr = Addr(q)'
    <2>1. q # o /\ task[q] = "wait" /\ Addr(q)' = Addr(q) BY <1>2 DEF Addr
    <2> QED BY <1>2, <2>1 DEF SubmittedInv
  <1>3. \A p, q \in submitted' : p.heard /\ q.heard /\ p.op = q.op => p = q
    BY DEF SubmittedInv
  <1> QED BY <1>1, <1>2, <1>3 DEF SubmittedInv

\* What a deafened submission keeps.
LEMMA DeafTyped ==
    ASSUME NEW P \in SUBSET Submissions
    PROVE  /\ Deaf(P) \subseteq Submissions
           /\ \A d \in Deaf(P) : ~d.heard /\ \E p \in P : p.op = d.op
  BY DEF Deaf, Submissions

\* The steps of an operation that submit, and the ones in which it is over.
LEMMA DialSteps ==
    ASSUME ClientTypes, ClientInv, NEW o \in Ops, DialReplica(o)
    PROVE  ClientTypes' /\ ClientInv'
  <1>1. /\ task[o] = "dial" /\ Held(o) /\ task' = [task EXCEPT ![o] = "wait"]
        /\ submitted' = submitted \cup {Submission(o)}
        /\ UNCHANGED <<issued, pool, next_seq, session, command, start, tries, result, cursor,
                       reliable, listening, decided, kvstore>>
    BY DEF DialReplica, Held, genVars
  <1>2. Submission(o) \in Submissions
    <2>1. start[o] \in Nat /\ tries[o] \in Nat /\ start[o] + tries[o] - 1 \in Nat
      <3>1. tries[o] >= 1 BY <1>1 DEF ClientInv, RotationInv
      <3> QED BY <3>1, ClientConstants DEF ClientTypes, Addrs
    <2>2. Addr(o) \in Addrs BY <2>1, InTheRotation DEF Addr
    <2> QED BY <2>1, <2>2 DEF Submission, Submissions
  <1>3. /\ task' \in [Ops -> Places] /\ task'[o] = "wait"
        /\ \A q \in Ops : q # o => task'[q] = task[q]
    <2>1. "wait" \in Places BY DEF Places
    <2> QED BY <1>1, <2>1 DEF ClientTypes
  <1>4. ClientTypes' BY <1>1, <1>2, <1>3 DEF ClientTypes
  <1>5. StagesInv' /\ SessionsInv' /\ NumbersInv' BY <1>1, <1>3, RetrySteps DEF ClientInv
  <1>6. \A q \in Ops : Held(q)' => Held(q) BY <1>1, <1>3 DEF Held
  <1>7. SubmittedInv'
    <2>1. \A q \in Ops : Addr(q)' = Addr(q) BY <1>1 DEF Addr
    <2>2. ASSUME NEW p \in submitted'
          PROVE  command'[p.op] # Absent /\ (p.heard => task'[p.op] = "wait")
      <3>1. CASE p = Submission(o)
        <4>1. p.op = o BY <3>1 DEF Submission
        <4>2. command[o] # Absent BY <1>1 DEF ClientInv, SessionsInv
        <4> QED BY <1>1, <1>3, <4>1, <4>2
      <3>2. CASE p \in submitted
        <4>1. p.op \in Ops BY <3>2 DEF ClientTypes, Submissions
        <4> QED BY <1>1, <1>3, <3>2, <4>1 DEF ClientInv, SubmittedInv
      <3> QED BY <1>1, <3>1, <3>2
    <2>3. ASSUME NEW q \in Ops, task'[q] = "wait", Addr(q)' \in reliable'
          PROVE  \E p \in submitted' : p.op = q /\ p.heard /\ p.addr = Addr(q)'
      <3>1. CASE q = o
        <4>1. Submission(o) \in submitted' BY <1>1
        <4>2. /\ Submission(o).op = o /\ Submission(o).heard
              /\ Submission(o).addr = Addr(o)
          BY DEF Submission
        <4> QED BY <2>1, <3>1, <4>1, <4>2
      <3>2. CASE q # o
        BY <1>1, <1>3, <2>1, <2>3, <3>2 DEF ClientInv, SubmittedInv
      <3> QED BY <3>1, <3>2
    <2>4. ASSUME NEW p \in submitted', NEW q \in submitted', p.heard, q.heard, p.op = q.op
          PROVE  p = q
      <3>1. \A d \in submitted : d.heard => d.op # o BY <1>1 DEF ClientInv, SubmittedInv
      <3>2. Submission(o).op = o BY DEF Submission
      <3> QED BY <1>1, <2>4, <3>1, <3>2 DEF ClientInv, SubmittedInv
    <2> QED BY <2>2, <2>3, <2>4 DEF SubmittedInv
  <1>8. DecidedInv'
    <2>1. \A q \in Ops : Held(q)' => (Held(q) /\ command[q] # Absent) \/ ~InLog(q)'
      BY <1>6 DEF ClientInv, SessionsInv
    <2> QED BY <1>1, <2>1, DecidedKept DEF ClientInv
  <1>9. RotationInv'
    BY <1>1, <1>6 DEF ClientInv, RotationInv, AddrOf, SurvivesReplicaLoss
  <1> QED BY <1>4, <1>5, <1>7, <1>8, <1>9 DEF ClientInv

LEMMA FailedAttemptSteps ==
    ASSUME ClientTypes, ClientInv, NEW o \in Ops,
           DialFails(o) \/ Hangup(o) \/ AttemptTimesOut(o)
    PROVE  ClientTypes' /\ ClientInv'
  <1>1. /\ Held(o) /\ Advance(o)
        /\ UNCHANGED <<reliable, listening, decided, kvstore>>
    BY DEF DialFails, Hangup, AttemptTimesOut, Held, smrVars
  <1>2. Addr(o) \notin reliable
    BY DEF DialFails, Hangup, AttemptTimesOut, ClientInv, SubmittedInv, RotationInv
  <1>3. /\ StagesInv' /\ SessionsInv' /\ NumbersInv' /\ RotationInv'
        /\ UNCHANGED <<issued, cursor, session, command, start, next_seq>>
        /\ task' \in [Ops -> Places] /\ result' \in [Ops -> Samples]
        /\ tries' \in [Ops -> Nat] /\ pool' \in Seq(Clients)
        /\ task'[o] # "wait"
        /\ \A q \in Ops : q # o => task'[q] = task[q] /\ tries'[q] = tries[q]
        /\ \A q \in Ops : (result'[q] = "ok" => result[q] = "ok") /\ (Held(q)' => Held(q))
    BY <1>1, <1>2, AdvanceSteps DEF ClientInv
  <1> DEFINE P == {p \in submitted : p.op = o}
  <1>4. \/ submitted' = submitted /\ ~ \E p \in submitted : p.op = o /\ p.heard
        \/ submitted' = (submitted \ P) \cup Deaf(P)
    <2>1. CASE DialFails(o)
      <3>1. \A p \in submitted : p.op = o => ~p.heard
        BY <2>1 DEF DialFails, ClientInv, SubmittedInv
      <3> QED BY <2>1, <3>1 DEF DialFails, smrVars
    <2>2. CASE Hangup(o) BY <2>2 DEF Hangup, smrVars
    <2>3. CASE AttemptTimesOut(o) BY <2>3 DEF AttemptTimesOut
    <2> QED BY <2>1, <2>2, <2>3
  <1> HIDE DEF P
  <1>5. /\ Deaf(P) \subseteq Submissions
        /\ \A d \in Deaf(P) : ~d.heard /\ \E p \in P : p.op = d.op
    <2>1. P \subseteq Submissions BY DEF P, ClientTypes
    <2> QED BY <2>1, DeafTyped
  <1>6. ClientTypes'
    <2>1. submitted' \subseteq Submissions BY <1>4, <1>5 DEF ClientTypes
    <2> QED BY <1>1, <1>3, <2>1 DEF ClientTypes
  <1>7. SubmittedInv'
    <2>1. CASE submitted' = submitted /\ ~ \E p \in submitted : p.op = o /\ p.heard
      BY <1>1, <1>3, <2>1, SubmittedKept DEF ClientInv
    <2>2. CASE submitted' = (submitted \ P) \cup Deaf(P)
      <3>1. ASSUME NEW p \in submitted'
            PROVE  command'[p.op] # Absent /\ (p.heard => task'[p.op] = "wait")
        <4>1. CASE p \in submitted \ P
          <5>1. p.op \in Ops /\ p.op # o BY <4>1 DEF P, ClientTypes, Submissions
          <5> QED BY <1>3, <4>1, <5>1 DEF ClientInv, SubmittedInv
        <4>2. CASE p \in Deaf(P)
          <5>1. ~p.heard /\ p.op = o BY <1>5, <4>2 DEF P
          <5>2. command[o] # Absent BY <1>1 DEF ClientInv, SessionsInv
          <5> QED BY <1>3, <5>1, <5>2
        <4> QED BY <2>2, <4>1, <4>2
      <3>2. ASSUME NEW q \in Ops, task'[q] = "wait", Addr(q)' \in reliable'
            PROVE  \E p \in submitted' : p.op = q /\ p.heard /\ p.addr = Addr(q)'
        <4>1. q # o /\ task[q] = "wait" /\ Addr(q)' = Addr(q) BY <1>3, <3>2 DEF Addr
        <4>2. PICK p \in submitted : p.op = q /\ p.heard /\ p.addr = Addr(q)
          BY <1>1, <3>2, <4>1 DEF ClientInv, SubmittedInv
        <4>3. p \in submitted' BY <2>2, <4>1, <4>2 DEF P
        <4> QED BY <4>1, <4>2, <4>3
      <3>3. \A p, q \in submitted' : p.heard /\ q.heard /\ p.op = q.op => p = q
        BY <1>5, <2>2 DEF ClientInv, SubmittedInv
      <3> QED BY <3>1, <3>2, <3>3 DEF SubmittedInv
    <2> QED BY <1>4, <2>1, <2>2
  <1>8. DecidedInv'
    <2>1. \A q \in Ops : Held(q)' => (Held(q) /\ command[q] # Absent) \/ ~InLog(q)'
      BY <1>3 DEF ClientInv, SessionsInv
    <2> QED BY <1>1, <1>3, <2>1, DecidedKept DEF ClientInv
  <1> QED BY <1>3, <1>6, <1>7, <1>8 DEF ClientInv

LEMMA DecisionSteps ==
    ASSUME ClientTypes, ClientInv, NEW o \in Ops, DecideCommand(o)
    PROVE  ClientTypes' /\ ClientInv'
  <1>1. PICK S \in SUBSET {p \in submitted : p.op = o} :
          /\ S # {}
          /\ decided' = Append(decided, command[o])
          /\ kvstore' = Apply(kvstore, command[o])
          /\ submitted' = submitted \ S
          /\ IF \E p \in S : p.heard
             THEN Finish(o, "ok")
             ELSE UNCHANGED <<genVars, opVars, cursor>>
          /\ UNCHANGED <<reliable, listening, downs>>
    BY DEF DecideCommand
  <1>2. command[o] # Absent
    <2>1. PICK p \in S : p \in submitted /\ p.op = o BY <1>1
    <2> QED BY <2>1 DEF ClientInv, SubmittedInv
  <1>3. CASE \E p \in S : p.heard
    <2>1. Finish(o, "ok") BY <1>1, <1>3
    <2>2. Held(o) BY <1>1, <1>3 DEF ClientInv, SubmittedInv, Held
    <2>3. /\ StagesInv' /\ SessionsInv' /\ NumbersInv'
          /\ task' \in [Ops -> Places] /\ result' \in [Ops -> Samples]
          /\ pool' \in Seq(Clients)
          /\ task'[o] = "done" /\ result'[o] = "ok"
          /\ \A q \in Ops : q # o => task'[q] = task[q] /\ result'[q] = result[q]
      BY <2>1, <2>2, FinishSteps DEF ClientInv
    <2>4. UNCHANGED <<issued, cursor, session, command, start, tries, next_seq>>
      BY <2>1 DEF Finish
    <2>5. \A q \in Ops : Held(q)' => q # o /\ Held(q) BY <2>3 DEF Held
    <2>6. \A q \in Ops : (Held(q) \/ result[q] = "ok")' => Held(q) \/ result[q] = "ok"
      BY <2>2, <2>3, <2>5
    <2>7. \A q \in Ops : result'[q] = "ok" => result[q] = "ok" \/ q = o BY <2>3
    <2>8. DecidedInv' /\ decided' \in Seq(ClientCommands) /\ kvstore' \in Kvs
      BY <1>1, <1>2, <2>4, <2>6, <2>7, DecideSteps DEF ClientInv
    <2>9. ClientTypes' BY <1>1, <2>3, <2>4, <2>8 DEF ClientTypes
    <2>10. SubmittedInv'
      <3>1. ASSUME NEW p \in submitted'
            PROVE  command'[p.op] # Absent
        BY <1>1, <2>4, <3>1 DEF ClientInv, SubmittedInv
      <3>2. ASSUME NEW p \in submitted', p.heard PROVE task'[p.op] = "wait"
        <4>1. p \in submitted /\ p \notin S /\ p.op \in Ops
          BY <1>1 DEF ClientTypes, Submissions
        <4>2. task[p.op] = "wait" BY <3>2, <4>1 DEF ClientInv, SubmittedInv
        <4>3. p.op # o BY <1>1, <1>3, <3>2, <4>1 DEF ClientInv, SubmittedInv
        <4> QED BY <2>3, <4>1, <4>2, <4>3
      <3>3. ASSUME NEW q \in Ops, task'[q] = "wait", Addr(q)' \in reliable'
            PROVE  \E p \in submitted' : p.op = q /\ p.heard /\ p.addr = Addr(q)'
        <4>1. q # o /\ task[q] = "wait" /\ Addr(q)' = Addr(q)
          BY <2>3, <2>4, <3>3 DEF Addr
        <4>2. PICK p \in submitted : p.op = q /\ p.heard /\ p.addr = Addr(q)
          BY <1>1, <3>3, <4>1 DEF ClientInv, SubmittedInv
        <4>3. p \in submitted' BY <1>1, <4>1, <4>2
        <4> QED BY <4>1, <4>2, <4>3
      <3>4. \A p, q \in submitted' : p.heard /\ q.heard /\ p.op = q.op => p = q
        BY <1>1 DEF ClientInv, SubmittedInv
      <3> QED BY <3>1, <3>2, <3>3, <3>4 DEF SubmittedInv
    <2>11. RotationInv'
      BY <1>1, <2>3, <2>4, <2>5 DEF ClientInv, RotationInv, AddrOf, SurvivesReplicaLoss
    <2> QED BY <2>3, <2>8, <2>9, <2>10, <2>11 DEF ClientInv
  <1>4. CASE ~ \E p \in S : p.heard
    <2>1. UNCHANGED <<issued, pool, next_seq, opVars, cursor>>
      BY <1>1, <1>4 DEF genVars
    <2>2. UNCHANGED <<task, session, command, start, tries, result>> BY <2>1 DEF opVars
    <2>3. \A q \in Ops : Held(q)' <=> Held(q) BY <2>2 DEF Held
    <2>4. DecidedInv' /\ decided' \in Seq(ClientCommands) /\ kvstore' \in Kvs
      BY <1>1, <1>2, <2>2, <2>3, DecideSteps DEF ClientInv
    <2>5. ClientTypes' BY <1>1, <2>1, <2>2, <2>4 DEF ClientTypes
    <2>6. StagesInv' /\ SessionsInv' /\ NumbersInv'
      BY <2>1, <2>2, <2>3 DEF ClientInv, StagesInv, SessionsInv, NumbersInv
    <2>7. SubmittedInv'
      BY <1>1, <1>4, <2>2 DEF ClientInv, SubmittedInv, Addr
    <2>8. RotationInv'
      BY <1>1, <2>2, <2>3 DEF ClientInv, RotationInv, AddrOf, SurvivesReplicaLoss
    <2> QED BY <2>4, <2>5, <2>6, <2>7, <2>8 DEF ClientInv
  <1> QED BY <1>3, <1>4

LEMMA BorrowSteps ==
    ASSUME ClientTypes, ClientInv,
           NEW o \in Ops, NEW k \in 1..Len(pool), task[o] \in {"none", "queued"},
           Begin(o, pool[k]), pool' = RemoveAt(pool, k) \/ (k = 1 /\ pool' = Tail(pool)),
           issued' \in Nat, issued' >= issued, o <= issued',
           UNCHANGED <<result, reliable, submitted, listening, decided, kvstore>>
    PROVE  ClientTypes' /\ ClientInv'
  <1>1. /\ StagesInv' /\ SessionsInv' /\ NumbersInv'
        /\ task' \in [Ops -> Places] /\ session' \in [Ops -> Clients \cup {Absent}]
        /\ command' \in [Ops -> ClientCommands \cup {Absent}]
        /\ start' \in [Ops -> Addrs] /\ tries' \in [Ops -> Nat] /\ cursor' \in Nat
        /\ pool' \in Seq(Clients) /\ next_seq' \in [Clients -> Nat]
        /\ task'[o] = "dial" /\ tries'[o] = 1 /\ command[o] = Absent
        /\ \A q \in Ops : q # o => /\ task'[q] = task[q] /\ command'[q] = command[q]
                                   /\ tries'[q] = tries[q] /\ start'[q] = start[q]
        /\ \A q \in Ops : command[q] # Absent => command[q] # command'[o]
    BY BeginSteps DEF ClientInv
  <1>2. ClientTypes' BY <1>1 DEF ClientTypes
  <1>3. ~ \E p \in submitted : p.op = o /\ p.heard
    BY DEF ClientInv, SubmittedInv
  <1>4. \A q \in Ops : command[q] # Absent => command'[q] = command[q] BY <1>1
  <1>5. SubmittedInv'
    <2>1. task'[o] # "wait" BY <1>1
    <2>2. \A q \in Ops : command[q] # Absent => command'[q] # Absent BY <1>4
    <2>3. \A q \in Ops : q # o => task'[q] = task[q] /\ tries'[q] = tries[q] /\ start'[q] = start[q]
      BY <1>1
    <2>4. SubmittedInv BY DEF ClientInv
    <2> QED BY <1>3, <2>1, <2>2, <2>3, <2>4, SubmittedKept
  <1>6. DecidedInv'
    <2>1. ~InLog(o)'
      <3> SUFFICES ASSUME NEW i \in 1..Len(decided), decided[i] = command'[o] PROVE FALSE
        BY DEF InLog
      <3>1. PICK q \in Ops : command[q] # Absent /\ decided[i] = command[q]
        BY DEF ClientInv, DecidedInv
      <3> QED BY <1>1, <3>1
    <2>2. \A q \in Ops : Held(q)' => (Held(q) /\ command[q] # Absent) \/ ~InLog(q)'
      <3> SUFFICES ASSUME NEW q \in Ops, Held(q)', q # o PROVE Held(q) /\ command[q] # Absent
        BY <2>1
      <3> QED BY <1>1 DEF Held, ClientInv, SessionsInv
    <2> QED BY <1>4, <2>2, DecidedKept DEF ClientInv
  <1>7. RotationInv'
    <2>1. ASSUME NEW q \in Ops, Held(q)'
          PROVE  /\ tries'[q] >= 1 /\ tries'[q] <= MaxAttempts
                 /\ \A n \in 1..(tries'[q] - 1) : AddrOf(q, n)' \notin reliable'
      <3>1. CASE q = o BY <1>1, <3>1, ClientConstants
      <3>2. CASE q # o
        <4>1. Held(q) /\ tries'[q] = tries[q] /\ start'[q] = start[q]
          BY <1>1, <2>1, <3>2 DEF Held
        <4> QED BY <4>1 DEF ClientInv, RotationInv, AddrOf
      <3> QED BY <3>1, <3>2
    <2> QED BY <2>1 DEF ClientInv, RotationInv, SurvivesReplicaLoss
  <1> QED BY <1>1, <1>2, <1>5, <1>6, <1>7 DEF ClientInv

\* Steps of the generator that touch no operation, and of the replicas.
LEMMA QuietSteps ==
    ASSUME ClientTypes, ClientInv,
           UNCHANGED <<reliable, issued, task, session, command, start, tries, result, pool,
                       next_seq, cursor, decided, kvstore>>,
           listening' \subseteq Addrs, reliable \subseteq listening',
           submitted' \subseteq Submissions, SubmittedInv'
    PROVE  ClientTypes' /\ ClientInv'
  <1>1. ClientTypes' BY DEF ClientTypes
  <1>2. \A q \in Ops : Held(q)' <=> Held(q) BY DEF Held
  <1>3. StagesInv' /\ SessionsInv' /\ NumbersInv'
    BY <1>2 DEF ClientInv, StagesInv, SessionsInv, NumbersInv
  <1>4. DecidedInv'
    <2>1. \A q \in Ops : Held(q)' => (Held(q) /\ command[q] # Absent) \/ ~InLog(q)'
      BY <1>2 DEF ClientInv, SessionsInv
    <2> QED BY <2>1, DecidedKept DEF ClientInv
  <1>5. RotationInv' BY <1>2 DEF ClientInv, RotationInv, AddrOf, SurvivesReplicaLoss
  <1> QED BY <1>1, <1>3, <1>4, <1>5 DEF ClientInv

LEMMA DownSteps ==
    ASSUME ClientTypes, ClientInv, NEW a \in Addrs, GoDown(a)
    PROVE  ClientTypes' /\ ClientInv'
  <1> DEFINE there == {p \in submitted : p.addr = a}
             away  == {p \in submitted : p.addr # a}
  <1>1. /\ a \notin reliable /\ listening' = listening \ {a}
        /\ UNCHANGED <<reliable, issued, task, session, command, start, tries, result, pool,
                       next_seq, cursor, decided, kvstore>>
    BY DEF GoDown, genVars, opVars
  <1>2. PICK gone \in SUBSET there : submitted' = away \cup Deaf(there \ gone)
    BY DEF GoDown
  <1> DEFINE left == there \ gone
  <1>3. left \in SUBSET Submissions /\ left \subseteq submitted BY DEF ClientTypes
  <1>4. /\ Deaf(left) \subseteq Submissions
        /\ \A d \in Deaf(left) : ~d.heard /\ \E p \in left : p.op = d.op
    BY <1>3, DeafTyped
  <1>5. away \subseteq submitted /\ \A p \in submitted : p.addr # a => p \in away OBVIOUS
  <1> HIDE DEF there, away, left
  <1>6. submitted' \subseteq Submissions BY <1>2, <1>4, <1>5 DEF ClientTypes, left
  <1>7. SubmittedInv'
    <2>1. \A q \in Ops : Addr(q)' = Addr(q) BY <1>1 DEF Addr
    <2>2. \A p \in submitted' : p \in submitted \/ (~p.heard /\ \E d \in submitted : d.op = p.op)
      BY <1>2, <1>3, <1>4, <1>5 DEF left
    <2>3. \A p \in submitted' : command'[p.op] # Absent /\ (p.heard => task'[p.op] = "wait")
      BY <1>1, <2>2 DEF ClientInv, SubmittedInv
    <2>4. \A p, q \in submitted' : p.heard /\ q.heard /\ p.op = q.op => p = q
      BY <2>2 DEF ClientInv, SubmittedInv
    <2>5. ASSUME NEW q \in Ops, task'[q] = "wait", Addr(q)' \in reliable'
          PROVE  \E p \in submitted' : p.op = q /\ p.heard /\ p.addr = Addr(q)'
      <3>1. PICK p \in submitted : p.op = q /\ p.heard /\ p.addr = Addr(q)
        BY <1>1, <2>1, <2>5 DEF ClientInv, SubmittedInv
      <3>2. p.addr # a BY <1>1, <2>1, <2>5, <3>1
      <3> QED BY <1>2, <1>5, <2>1, <3>1, <3>2
    <2> QED BY <2>3, <2>4, <2>5 DEF SubmittedInv
  <1>8. listening' \subseteq Addrs /\ reliable \subseteq listening'
    BY <1>1 DEF ClientTypes, ClientInv, RotationInv
  <1> QED BY <1>1, <1>6, <1>7, <1>8, QuietSteps

LEMMA AdmissionSteps ==
    ASSUME ClientTypes, ClientInv, Admit \/ Shed
    PROVE  ClientTypes' /\ ClientInv'
  <1> DEFINE o == issued + 1
  <1>1. /\ o \in Ops /\ issued \in Nat /\ issued' = issued + 1
        /\ UNCHANGED <<reliable, session, command, start, tries, pool, next_seq, cursor,
                       submitted, listening, decided, kvstore>>
    BY ClientConstants DEF Admit, Shed, Ops, ClientTypes, smrVars
  <1>2. task[o] = "none" /\ command[o] = Absent /\ result[o] = "none" /\ ~Held(o)
    BY <1>1 DEF ClientInv, StagesInv, Held
  <1>3. /\ task' \in [Ops -> Places] /\ result' \in [Ops -> Samples]
        /\ \/ task'[o] = "queued" /\ result'[o] = "none"
           \/ task'[o] = "done" /\ result'[o] = "shed"
        /\ \A q \in Ops : q # o => task'[q] = task[q] /\ result'[q] = result[q]
    <2>1. "queued" \in Places /\ "done" \in Places /\ "shed" \in Samples
      BY DEF Places, Samples
    <2>2. CASE Admit
      <3>1. task' = [task EXCEPT ![o] = "queued"] /\ result' = result BY <2>2 DEF Admit
      <3> QED BY <1>1, <1>2, <2>1, <3>1 DEF ClientTypes
    <2>3. CASE Shed
      <3>1. task' = [task EXCEPT ![o] = "done"] /\ result' = [result EXCEPT ![o] = "shed"]
        BY <2>3 DEF Shed
      <3> QED BY <1>1, <2>1, <3>1 DEF ClientTypes
    <2> QED BY <2>2, <2>3
  <1>4. \A q \in Ops : q > issued' => q > issued /\ q # o
    BY <1>1, ClientConstants DEF Ops
  <1> HIDE DEF o
  <1>5. ClientTypes' BY <1>1, <1>3 DEF ClientTypes
  <1>6. \A q \in Ops : (Held(q)' <=> Held(q)) /\ (Held(q) => q # o)
    BY <1>2, <1>3 DEF Held
  <1>7. StagesInv'
    <2> SUFFICES ASSUME NEW q \in Ops
                 PROVE  /\ q > issued' => task'[q] = "none"
                        /\ task'[q] \in {"none", "queued"} => command'[q] = Absent
                        /\ task'[q] # "done" => result'[q] = "none"
      BY DEF StagesInv
    <2>1. CASE q = o BY <1>1, <1>2, <1>3, <1>4, <2>1
    <2>2. CASE q # o BY <1>1, <1>3, <1>4, <2>2 DEF ClientInv, StagesInv
    <2> QED BY <2>1, <2>2
  <1>8. SessionsInv' /\ NumbersInv'
    BY <1>1, <1>6 DEF ClientInv, SessionsInv, NumbersInv
  <1>9. SubmittedInv'
    <2>1. ~ \E p \in submitted : p.op = o /\ p.heard BY <1>2 DEF ClientInv, SubmittedInv
    <2>2. task'[o] # "wait" BY <1>3
    <2> QED BY <1>1, <1>3, <2>1, <2>2, SubmittedKept DEF ClientInv
  <1>10. DecidedInv'
    <2>1. \A q \in Ops : Held(q)' => (Held(q) /\ command[q] # Absent) \/ ~InLog(q)'
      BY <1>6 DEF ClientInv, SessionsInv
    <2>2. \A q \in Ops : result'[q] = "ok" => result[q] = "ok" BY <1>3
    <2> QED BY <1>1, <2>1, <2>2, DecidedKept DEF ClientInv
  <1>11. RotationInv'
    <2>1. \A q \in Ops : result'[q] = "failed" => result[q] = "failed" BY <1>3
    <2> QED BY <1>1, <1>6, <2>1 DEF ClientInv, RotationInv, AddrOf, SurvivesReplicaLoss
  <1> QED BY <1>5, <1>7, <1>8, <1>9, <1>10, <1>11 DEF ClientInv

LEMMA BackoffSteps ==
    ASSUME ClientTypes, ClientInv, NEW o \in Ops, Backoff(o)
    PROVE  ClientTypes' /\ ClientInv'
  <1>1. /\ task[o] = "backoff" /\ Held(o) /\ task' = [task EXCEPT ![o] = "dial"]
        /\ UNCHANGED <<reliable, issued, session, command, start, tries, result, pool, next_seq,
                       cursor, submitted, listening, decided, kvstore>>
    BY DEF Backoff, Held, genVars, smrVars
  <1>2. /\ task' \in [Ops -> Places] /\ task'[o] = "dial"
        /\ \A q \in Ops : q # o => task'[q] = task[q]
    <2>1. "dial" \in Places BY DEF Places
    <2> QED BY <1>1, <2>1 DEF ClientTypes
  <1>3. ClientTypes' BY <1>1, <1>2 DEF ClientTypes
  <1>4. StagesInv' /\ SessionsInv' /\ NumbersInv' BY <1>1, <1>2, RetrySteps DEF ClientInv
  <1>5. \A q \in Ops : Held(q)' => Held(q) BY <1>1, <1>2 DEF Held
  <1>6. SubmittedInv'
    <2>1. ~ \E p \in submitted : p.op = o /\ p.heard BY <1>1 DEF ClientInv, SubmittedInv
    <2> QED BY <1>1, <1>2, <2>1, SubmittedKept DEF ClientInv
  <1>7. DecidedInv'
    <2>1. \A q \in Ops : Held(q)' => (Held(q) /\ command[q] # Absent) \/ ~InLog(q)'
      BY <1>5 DEF ClientInv, SessionsInv
    <2> QED BY <1>1, <2>1, DecidedKept DEF ClientInv
  <1>8. RotationInv'
    BY <1>1, <1>5 DEF ClientInv, RotationInv, AddrOf, SurvivesReplicaLoss
  <1> QED BY <1>3, <1>4, <1>6, <1>7, <1>8 DEF ClientInv

LEMMA ClientStepInv ==
    ClientTypes /\ ClientInv /\ [ClientNext]_runVars => (ClientTypes /\ ClientInv)'
  <1> SUFFICES ASSUME ClientTypes, ClientInv, [ClientNext]_runVars
               PROVE  ClientTypes' /\ ClientInv'
    OBVIOUS
  <1>1. ASSUME UNCHANGED <<reliable, issued, task, session, command, start, tries, result, pool,
                           next_seq, cursor, submitted, decided, kvstore>>,
               listening' \subseteq Addrs, listening \subseteq listening'
        PROVE  ClientTypes' /\ ClientInv'
    <2>1. SubmittedInv' BY <1>1 DEF ClientInv, SubmittedInv, Addr
    <2>2. submitted' \subseteq Submissions BY <1>1 DEF ClientTypes
    <2>3. reliable \subseteq listening' BY <1>1 DEF ClientInv, RotationInv
    <2> QED BY <1>1, <2>1, <2>2, <2>3, QuietSteps
  <1>2. CASE StopRun \/ UNCHANGED runVars
    <2>1. UNCHANGED <<reliable, issued, task, session, command, start, tries, result, pool,
                      next_seq, cursor, submitted, listening, decided, kvstore>>
      BY <1>2 DEF StopRun, runVars, genVars, opVars, smrVars
    <2> QED BY <1>1, <2>1 DEF ClientTypes
  <1>3. CASE Admit \/ Shed BY <1>3, AdmissionSteps
  <1>4. ASSUME NEW k \in 1..Len(pool), WorkerOp(k) PROVE ClientTypes' /\ ClientInv'
    <2>1. issued \in Nat /\ issued + 1 \in Ops
      BY <1>4, ClientConstants DEF WorkerOp, Ops, ClientTypes
    <2>2. task[issued + 1] = "none" BY <2>1 DEF ClientInv, StagesInv
    <2>3. /\ issued' = issued + 1 /\ Begin(issued + 1, pool[k]) /\ pool' = RemoveAt(pool, k)
          /\ UNCHANGED <<result, reliable, submitted, listening, decided, kvstore>>
      BY <1>4 DEF WorkerOp, smrVars
    <2>4. issued' \in Nat /\ issued' >= issued /\ issued + 1 <= issued' BY <2>1, <2>3
    <2> QED BY <2>1, <2>2, <2>3, <2>4, BorrowSteps
  <1>5. ASSUME NEW o \in Ops, CheckOut(o) PROVE ClientTypes' /\ ClientInv'
    <2>1. /\ task[o] = "queued" /\ pool # <<>> /\ Begin(o, Head(pool)) /\ pool' = Tail(pool)
          /\ UNCHANGED <<issued, result, reliable, submitted, listening, decided, kvstore>>
      BY <1>5 DEF CheckOut, Lend, smrVars
    <2>2. 1 \in 1..Len(pool) /\ Head(pool) = pool[1] BY <2>1 DEF ClientTypes
    <2>3. issued' \in Nat /\ issued' >= issued /\ o <= issued'
      BY <2>1, ClientConstants DEF ClientTypes, ClientInv, StagesInv, Ops
    <2> QED BY <2>1, <2>2, <2>3, BorrowSteps
  <1>6. ASSUME NEW o \in Ops, Task(o), ~CheckOut(o) PROVE ClientTypes' /\ ClientInv'
    BY <1>6, BackoffSteps, DialSteps, FailedAttemptSteps, DecisionSteps DEF Task
  <1>7. ASSUME NEW a \in Addrs, GoDown(a) PROVE ClientTypes' /\ ClientInv'
    BY <1>7, DownSteps
  <1>8. ASSUME NEW a \in Addrs, ComeUp(a) PROVE ClientTypes' /\ ClientInv'
    <2>1. /\ listening' = listening \cup {a}
          /\ UNCHANGED <<reliable, issued, task, session, command, start, tries, result, pool,
                         next_seq, cursor, submitted, decided, kvstore>>
      BY <1>8 DEF ComeUp, genVars, opVars
    <2>2. listening' \subseteq Addrs /\ listening \subseteq listening' BY <2>1 DEF ClientTypes
    <2> QED BY <1>1, <2>1, <2>2
  <1> QED BY <1>2, <1>3, <1>4, <1>5, <1>6, <1>7, <1>8 DEF ClientNext, Generate

LEMMA ClientInitInv == ClientInit => ClientTypes /\ ClientInv
  <1> SUFFICES ASSUME ClientInit PROVE ClientTypes /\ ClientInv
    OBVIOUS
  <1>1. Cardinality(Clients) \in Nat
    BY FS_CardinalityType, ClientAssumption DEF ClientConstantsOK
  <1>2. pool \in [1..Cardinality(Clients) -> Clients] /\ IsInjective(pool) BY DEF ClientInit
  <1>3. pool \in Seq(Clients) /\ Len(pool) = Cardinality(Clients) BY <1>1, <1>2
  <1>4. \A i, j \in 1..Len(pool) : pool[i] = pool[j] => i = j BY <1>2, <1>3 DEF IsInjective
  <1>5. reliable \subseteq Addrs /\ listening \subseteq Addrs /\ reliable \subseteq listening
    BY ClientAssumption DEF ClientInit, ClientConstantsOK, Addrs
  <1>6. NewKv \in Kvs BY DEF NewKv, Kvs
  <1>7. 0 \in Addrs /\ "none" \in Places /\ "none" \in Samples
    BY ClientConstants DEF Addrs, Places, Samples
  <1>8. ClientTypes BY <1>3, <1>5, <1>6, <1>7 DEF ClientInit, ClientTypes
  <1>9. \A o \in Ops : task[o] = "none" /\ command[o] = Absent /\ result[o] = "none" /\ ~Held(o)
    BY DEF ClientInit, Held
  <1>10. StagesInv BY <1>9 DEF StagesInv
  <1>11. SessionsInv BY <1>4, <1>9 DEF SessionsInv
  <1>12. NumbersInv BY <1>9 DEF NumbersInv
  <1>13. SubmittedInv BY <1>9 DEF ClientInit, SubmittedInv
  <1>14. DecidedInv
    <2>1. decided = <<>> /\ Len(decided) = 0 /\ kvstore = NewKv BY DEF ClientInit
    <2>2. Replays(decided, 0, kvstore)
      BY <2>1 DEF Replays, LastWrite, HighestSeq, NewKv
    <2> QED BY <1>9, <2>1, <2>2 DEF DecidedInv, PutOps
  <1>15. RotationInv BY <1>5, <1>9 DEF RotationInv, SurvivesReplicaLoss
  <1> QED BY <1>8, <1>10, <1>11, <1>12, <1>13, <1>14, <1>15 DEF ClientInv

\* A put that takes effect is the first copy of its command.
LEMMA EffectiveIsFirst ==
    ASSUME ClientTypes, NEW i \in 1..Len(decided), Effective(decided, i)
    PROVE  First(decided[i]) = i
  <1>1. decided \in Seq(ClientCommands) BY DEF ClientTypes
  <1>2. decided[i] \in ClientCommands /\ decided[i].op = "put" /\ decided[i].seq \in Nat
    BY <1>1 DEF Effective, ClientCommands, Puts, Gets
  <1>3. ASSUME NEW j \in 1..Len(decided), j < i, decided[j] = decided[i] PROVE FALSE
    <2>1. j \in 1..(i - 1) BY <1>1, <1>3
    <2>2. decided[j].seq < decided[i].seq BY <1>2, <1>3, <2>1 DEF Effective
    <2> QED BY <1>2, <1>3, <2>2
  <1> DEFINE P(x) == decided[x] = decided[i] /\ \A j \in 1..(x - 1) : decided[j] # decided[i]
  <1>4. P(i) BY <1>1, <1>3
  <1>5. ASSUME NEW x \in 1..Len(decided), P(x) PROVE x = i
    <2>1. ~(x < i) BY <1>3, <1>5
    <2>2. ~(i < x)
      <3> SUFFICES ASSUME i < x PROVE FALSE
        OBVIOUS
      <3>1. i \in 1..(x - 1) BY <1>1
      <3> QED BY <1>5, <3>1
    <2> QED BY <1>1, <2>1, <2>2
  <1>6. First(decided[i]) = CHOOSE x \in 1..Len(decided) : P(x) BY DEF First
  <1> HIDE DEF P
  <1> QED BY <1>4, <1>5, <1>6

LEMMA ClientInvImplies == ClientTypes /\ ClientInv => SubmissionsHold
  <1> SUFFICES ASSUME ClientTypes, ClientInv PROVE SubmissionsHold
    OBVIOUS
  <1>1. SurvivesReplicaLoss BY DEF ClientInv, RotationInv
  <1>2. ASSUME NEW o \in PutOps, result[o] = "ok"
        PROVE  \E q \in PutOps : /\ InLog(q) /\ First(command[q]) >= First(command[o])
                                /\ kvstore.map[ProbeKey] = command[q].value
    <2>1. o \in Ops /\ command[o] # Absent BY DEF PutOps
    <2>2. PICK i \in 1..Len(decided) : decided[i] = command[o] /\ Effective(decided, i)
      BY <1>2, <2>1 DEF ClientInv, DecidedInv
    <2>3. decided[i].key = ProbeKey BY <2>1, <2>2 DEF ClientInv, NumbersInv
    <2>4. LastWrite(decided, Len(decided), ProbeKey, kvstore.map[ProbeKey])
      BY ReservedAssumption DEF ClientInv, DecidedInv, Replays
    <2>5. PICK m \in 1..Len(decided) :
            /\ Effective(decided, m) /\ decided[m].value = kvstore.map[ProbeKey]
            /\ \A j \in 1..Len(decided) :
                 Effective(decided, j) /\ decided[j].key = ProbeKey => j <= m
      BY <2>2, <2>3, <2>4 DEF LastWrite
    <2>6. i <= m BY <2>2, <2>3, <2>5
    <2>7. PICK q \in Ops : command[q] # Absent /\ decided[m] = command[q]
      BY DEF ClientInv, DecidedInv
    <2>8. q \in PutOps /\ InLog(q) BY <2>5, <2>7 DEF PutOps, InLog, Effective
    <2>9. First(command[q]) = m /\ First(command[o]) = i
      BY <2>2, <2>5, <2>7, EffectiveIsFirst
    <2> QED BY <2>5, <2>6, <2>7, <2>8, <2>9
  <1>3. AckedPutsHold BY <1>2 DEF AckedPutsHold
  <1> QED BY <1>1, <1>3 DEF SubmissionsHold

\* What a caller of submit may rely on, for any number of sessions, replicas,
\* rounds and operations: the store holds an acknowledged put or a later one,
\* and no operation fails while one replica of the pool answers (client.rs,
\* Client::submit; bench.rs, the session pool; kv.rs, precondition A6).
THEOREM SubmissionsAreSafe == ClientSpec => []SubmissionsHold
  BY ClientInitInv, ClientStepInv, ClientInvImplies, PTL DEF ClientSpec
=============================================================================
