------------------------------- MODULE MCSoak -------------------------------
(***************************************************************************)
(* The soak harness and the postmortem of its evidence, side by side: runs *)
(* whose audit is checked, with kills, latencies and gaps about as long as *)
(* the time from a sample to the next, which is one step to two; runs with *)
(* cuts, isolations and kills that overlap; runs with submissions; and the *)
(* analysis of what a run left on disk. Each behaviour is one of one part; *)
(* the others rest.                                                        *)
(***************************************************************************)
EXTENDS Soak, Postmortem

VARIABLE part

CutsAndKills == INSTANCE Soak WITH
    Duration <- 7, Jitter <- 1, MinFault <- 3, MaxGap <- 2, Kinds <- {"isolate", "cut", "crash"}

Submits == INSTANCE Soak WITH
    Duration <- 4, MinFault <- 3, MaxGap <- 2, Kinds <- {"crash"}, MaxOffers <- 4

ASSUME PartsAssumption == CutsAndKills!ConstantsOK /\ Submits!ConstantsOK

MCInit ==
    /\ part \in {"audit", "faults", "submits", "postmortem"}
    /\ PostmortemInit
    /\ Init
    /\ part # "audit" => cursor \in MinGap..2
    /\ part = "postmortem" => cursor = MinGap

MCNext ==
    \/ part = "audit" /\ Next /\ UNCHANGED <<part, postmortemVars>>
    \/ part = "faults" /\ CutsAndKills!Next /\ UNCHANGED <<part, postmortemVars>>
    \/ part = "submits" /\ Submits!Next /\ UNCHANGED <<part, postmortemVars>>
    \/ part = "postmortem" /\ PostmortemNext /\ UNCHANGED <<part, vars>>

MCSpec == MCInit /\ [][MCNext]_<<part, vars, postmortemVars>>

-----------------------------------------------------------------------------
\* The run's account of itself is true: a complete run injected what the audit
\* expects at the cadence the run really had, and every submission offered is
\* counted once (soak.rs, injections_expected; cluster.rs, drain_inflight).
AccountIsTrue == CompleteRunIsCovered /\ SubmissionsAccounted
=============================================================================
