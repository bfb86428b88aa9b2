------------------------------- MODULE MCLog --------------------------------
(***************************************************************************)
(* The smr crate, part by part: the replicated log with retries and with   *)
(* crashes, the tuner that names the leaders of its slots, and the checker *)
(* its tests judge histories with. Each behaviour is one of one part; the  *)
(* variables of the others rest.                                           *)
(***************************************************************************)
EXTENDS MCSmr, Tuner

CONSTANTS Never

VARIABLES
    part, now, running, records, preceded, store, observed

checkPart == <<now, running, records, preceded, store, observed>>

\* Replicas that crash and restart, under the first operation of each client.
Crashing == INSTANCE Smr WITH Script <- WriteRead, MaxCrashes <- 1

\* Replicas that lag, one of which restarts; every slot takes as long.
Lagging == INSTANCE Tuner WITH Latencies <- {1}

\* Fast and slow epochs until monitoring has begun. Replica 2 serves no clients;
\* it leads in its turn all the same.
RacingNext == \E r \in {0, 1} : BeginTunedAttempt(r) \/ FinishAttempt(r)

WriteOf(n) == [op |-> "put", client |-> "w", seq |-> n, key |-> "k", value |-> n + 1]
ReadOf     == [op |-> "get", client |-> "x", seq |-> 0, key |-> "k"]

\* Histories whose outcomes may be anything.
Arbitrary == INSTANCE LinCheck WITH
    Menu <- {WriteOf(0), WriteOf(1), ReadOf}, MaxOps <- 4, MaxTime <- 2, Honest <- FALSE

\* Histories of an object the operations act on one at a time.
Atomic == INSTANCE LinCheck WITH
    Menu <- {WriteOf(0), WriteOf(1), ReadOf}, MaxOps <- 4, MaxTime <- 2, Honest <- TRUE

ASSUME PartsAssumption ==
    /\ Lagging!TunerConstantsOK
    /\ Arbitrary!ConstantsOK /\ Atomic!ConstantsOK

MCInit ==
    /\ part \in {"retries", "crashes", "lagging", "racing", "arbitrary", "atomic"}
    /\ Init
    /\ TunerInit
    /\ Atomic!Init

MCNext ==
    /\ UNCHANGED part
    /\ \/ part = "retries" /\ Next /\ UNCHANGED <<tuningVars, checkPart>>
       \/ part = "crashes" /\ Crashing!Next /\ UNCHANGED <<tuningVars, checkPart>>
       \/ part = "lagging" /\ Lagging!TunerNext /\ UNCHANGED <<vars, checkPart>>
       \/ part = "racing" /\ RacingNext /\ UNCHANGED <<vars, checkPart>>
       \/ part = "arbitrary" /\ Arbitrary!Next /\ UNCHANGED <<vars, tuningVars>>
       \/ part = "atomic" /\ Atomic!Next /\ UNCHANGED <<vars, tuningVars>>

MCSpec == MCInit /\ [][MCNext]_<<part, vars, tuningVars, checkPart>>

-----------------------------------------------------------------------------
(* Smr's own properties are checked as they are: those of its two parts    *)
(* differ in the clients' scripts only, of which one begins the other.     *)

\* The checker accepts a history iff an order of its operations exists, and so
\* every complete history of an atomic object (linearizability.rs, search and
\* must_precede; cluster.rs, next_invoked_at).
CheckerExact ==
    /\ part = "arbitrary" => Arbitrary!CheckerExact
    /\ part = "atomic" => Atomic!CompleteHistoriesAccepted
=============================================================================
