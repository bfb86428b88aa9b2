------------------------------- MODULE Status -------------------------------
(***************************************************************************)
(* The status server of a node (crates/net/src/status.rs) and the driver   *)
(* that publishes into it (crates/net/src/driver.rs).  The driver stores   *)
(* the numbers of a snapshot one atomic at a time, while handlers on other *)
(* threads load them one at a time; connections are admitted by permits.   *)
(* Of the counters, decisions and fast-path decisions are kept: the others *)
(* are stored and loaded in the same way.                                  *)
(***************************************************************************)
EXTENDS Integers, Sequences, FiniteSets, SequencesExt

CONSTANTS
    Visitors,       \* connections clients may open
    MaxConnections, \* MAX_STATUS_CONNECTIONS
    MaxBatches,     \* bound on the driver's iterations
    MaxTime,        \* bound on the clock
    MaxAcceptFailures   \* bound on failing accepts

\* What the constants must satisfy.
StatusConstantsOK ==
    /\ IsFiniteSet(Visitors)
    /\ MaxConnections \in Nat \ {0} /\ MaxBatches \in Nat
    /\ MaxTime \in Nat /\ MaxAcceptFailures \in Nat
ASSUME StatusAssumption == StatusConstantsOK

VARIABLES
    loop,           \* the driver: "boot", "wait", or the field it stores next
    is_restart,     \* this boot reloaded durable state
    node,           \* the counters of SmrNode, and is_catching_up
    batches, clock,
    shared,         \* StatusShared
    began, rejoined,    \* when the restart began; when it was first seen done
    ended,          \* a catch-up of this boot has ended
    permits, acceptor,  \* free permits; "acquire" or "accept"
    backlog,        \* connections the kernel holds
    serving,        \* serving[c]: where the connection is
    got,            \* got[c]: what its answer shows
    refused

publisherVars == <<loop, is_restart, node, batches, shared, began, rejoined, ended>>
serverVars == <<permits, acceptor, backlog, serving, got, refused>>
statusVars == <<publisherVars, clock, serverVars>>

Unset == MaxTime + 1        \* RECOVERY_UNSET, and a time that has not come

\* StatusShared::with_chain
NewStatus == [dec |-> 0, fast |-> 0, ready |-> FALSE, restarted |-> FALSE, recovery |-> Unset]

\* What publish and publish_consensus store, in order, before the recovery.
Stores == <<"ready", "dec", "fast", "recovery">>
\* What metrics_json loads, in order.
Loads  == <<"dec", "fast", "restarted", "recovery", "ready">>

StatusInit ==
    /\ loop = "boot" /\ is_restart \in BOOLEAN
    /\ node = [dec |-> 0, fast |-> 0, catching |-> FALSE]
    /\ batches = 0 /\ clock = 0 /\ shared = NewStatus
    /\ began = Unset /\ rejoined = Unset /\ ended = FALSE
    /\ permits = MaxConnections /\ acceptor = "acquire" /\ backlog = <<>> /\ refused = 0
    /\ serving = [c \in Visitors |-> "none"]
    /\ got = [c \in Visitors |-> NewStatus]

-----------------------------------------------------------------------------
\* A restart notes itself and begins its catch-up, then everyone publishes.
PublishBoot ==
    /\ loop = "boot" /\ loop' = Stores[1]
    /\ IF is_restart
       THEN /\ shared' = [shared EXCEPT !.restarted = TRUE]
            /\ node' = [node EXCEPT !.catching = TRUE]
            /\ began' = clock
       ELSE UNCHANGED <<shared, node, began>>
    /\ UNCHANGED <<is_restart, batches, rejoined, ended, clock, serverVars>>

\* An iteration of the loop: slots decided by fast or slow path; a catch-up
\* that ends, or one that the watchdog begins again.
Batch ==
    /\ loop = "wait" /\ batches < MaxBatches
    /\ batches' = batches + 1 /\ loop' = Stores[1]
    /\ \E d \in 0..1, f \in 0..1, c \in BOOLEAN :
        /\ f <= d
        /\ node' = [dec |-> node.dec + d, fast |-> node.fast + f, catching |-> c]
        /\ ended' = (ended \/ (is_restart /\ ~c))
    /\ UNCHANGED <<is_restart, shared, began, rejoined, clock, serverVars>>

\* Mutant: the latest completed catch-up is reported.
LastRejoin(old, elapsed) == elapsed

\* StatusShared::note_recovery: the first write wins.
NoteRecovery(old, elapsed) == IF old = Unset THEN elapsed ELSE old

\* note_recovery_if_complete
Rejoins == is_restart /\ ~node.catching

NextStore(f) == IF f = "recovery" THEN "wait" ELSE Stores[CHOOSE i \in 2..4 : Stores[i - 1] = f]

\* The driver's next store.
Store ==
    /\ loop \in Range(Stores)
    /\ shared' = CASE loop = "ready"    -> [shared EXCEPT !.ready = ~node.catching]
                   [] loop = "dec"      -> [shared EXCEPT !.dec = node.dec]
                   [] loop = "fast"     -> [shared EXCEPT !.fast = node.fast]
                   [] loop = "recovery" -> IF Rejoins
                                         THEN [shared EXCEPT !.recovery = NoteRecovery(@, clock - began)]
                                         ELSE shared
    /\ rejoined' = IF loop = "recovery" /\ Rejoins /\ rejoined = Unset THEN clock ELSE rejoined
    /\ loop' = NextStore(loop)
    /\ UNCHANGED <<is_restart, node, batches, began, ended, clock, serverVars>>

Tick == clock < MaxTime /\ clock' = clock + 1 /\ UNCHANGED <<publisherVars, serverVars>>

-----------------------------------------------------------------------------
\* A client connects; the kernel keeps the connection until it is accepted.
Visit(c) ==
    /\ serving[c] = "none"
    /\ serving' = [serving EXCEPT ![c] = "backlog"] /\ backlog' = Append(backlog, c)
    /\ UNCHANGED <<publisherVars, clock, permits, acceptor, got, refused>>

\* serve_status_with_permits: a permit first, then a connection.
Acquire ==
    /\ acceptor = "acquire" /\ permits > 0
    /\ permits' = permits - 1 /\ acceptor' = "accept"
    /\ UNCHANGED <<publisherVars, clock, backlog, serving, got, refused>>

Accept ==
    /\ acceptor = "accept" /\ backlog # <<>>
    /\ serving' = [serving EXCEPT ![Head(backlog)] = "reading"] /\ backlog' = Tail(backlog)
    /\ acceptor' = "acquire"
    /\ UNCHANGED <<publisherVars, clock, permits, got, refused>>

\* Mutant: the permit of a failed accept is lost.
KeepPermit == UNCHANGED permits

\* The permit of a failed accept is dropped with it.
DropPermit == permits' = permits + 1

AcceptFails ==
    /\ acceptor = "accept" /\ refused < MaxAcceptFailures
    /\ refused' = refused + 1 /\ acceptor' = "acquire" /\ DropPermit
    /\ UNCHANGED <<publisherVars, clock, backlog, serving, got>>

Close(c, how) == serving' = [serving EXCEPT ![c] = how] /\ permits' = permits + 1

\* A request arrives and is routed: /metrics is loaded field by field, /ready
\* reads one of them, everything else is answered at once.
Route(c) ==
    /\ serving[c] = "reading"
    /\ \/ serving' = [serving EXCEPT ![c] = Loads[1]] /\ UNCHANGED <<got, permits>>
       \/ got' = [got EXCEPT ![c].ready = shared.ready] /\ Close(c, "ready answered")
       \/ Close(c, "answered") /\ UNCHANGED got
    /\ UNCHANGED <<publisherVars, clock, acceptor, backlog, refused>>

NextLoad(f) == Loads[CHOOSE i \in 2..5 : Loads[i - 1] = f]

\* metrics_json's next load.
Load(c) ==
    /\ serving[c] \in Range(Loads)
    /\ got' = [got EXCEPT ![c] = [@ EXCEPT ![serving[c]] = shared[serving[c]]]]
    /\ IF serving[c] = "ready" THEN Close(c, "metrics answered")
       ELSE serving' = [serving EXCEPT ![c] = NextLoad(serving[c])] /\ UNCHANGED permits
    /\ UNCHANGED <<publisherVars, clock, acceptor, backlog, refused>>

\* Mutant: a connection is given up only when its client goes away.
GivenUp(c) == FALSE

\* REQUEST_TIMEOUT is over without a request.
Expired(c) == serving[c] = "reading"

TimesOut(c) ==
    /\ Expired(c) /\ Close(c, "closed")
    /\ UNCHANGED <<publisherVars, clock, acceptor, backlog, got, refused>>

Publisher == PublishBoot \/ Batch \/ Store
Handler(c) == Load(c) \/ TimesOut(c)

StatusNext ==
    \/ Publisher \/ Tick \/ Acquire \/ Accept \/ AcceptFails
    \/ \E c \in Visitors : Visit(c) \/ Route(c) \/ Handler(c)

StatusSpec == StatusInit /\ [][StatusNext]_statusVars

\* The accept loop and the handlers are scheduled and the timeout of an idle
\* connection expires.  No client has to send anything.
StatusFairness ==
    /\ WF_statusVars(Acquire) /\ WF_statusVars(Accept)
    /\ \A c \in Visitors : WF_statusVars(Handler(c))

StatusFairSpec == StatusSpec /\ StatusFairness

-----------------------------------------------------------------------------
\* The recovery time is the one of this boot's first rejoin, never of a later
\* catch-up that the watchdog began, and a node that did not restart has none.
RecoveryIsTheRejoin ==
    /\ shared.recovery # Unset => is_restart /\ shared.recovery = rejoined - began
    /\ rejoined # Unset /\ loop = "wait" => shared.recovery # Unset

\* No answer calls a restarted node ready before a catch-up of this boot has
\* ended, also not one to a probe that comes in before the driver has published
\* anything or while it stores.
ReadyOnlyAfterRejoin ==
    \A c \in Visitors : serving[c] \in {"ready answered", "metrics answered"} /\ got[c].ready
        => ended \/ ~is_restart

\* A node's recovery time is that of this boot's first rejoin, and no probe is
\* told that a restarted node is ready before it (status.rs).
RejoinIsReported == RecoveryIsTheRejoin /\ ReadyOnlyAfterRejoin

\* Every permit is free, held by the accept loop or held by one live handler.
Live == {c \in Visitors : serving[c] = "reading" \/ serving[c] \in Range(Loads)}
PermitsAccounted ==
    permits + Cardinality(Live) + (IF acceptor = "accept" THEN 1 ELSE 0) = MaxConnections

\* A probe that waits behind silent connections is served in the end.
ProbesAreServed ==
    \A c \in Visitors : serving[c] = "backlog" ~> serving[c] \notin {"backlog", "reading"}

\* Refuted (see the README).
\* What status.rs says of a scrape: decisions and fast-path decisions may be
\* a batch apart, and the hit rate is "off by at most one batch".  A batch
\* decides at most one slot here.
ScrapeOffByOneBatch ==
    \A c \in Visitors : serving[c] = "metrics answered" => got[c].fast <= got[c].dec + 1
=============================================================================
