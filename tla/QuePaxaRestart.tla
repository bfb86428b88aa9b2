--------------------------- MODULE QuePaxaRestart ---------------------------
(***************************************************************************)
(* A slot whose replicas may replace their proposer in mid-attempt, as the *)
(* replicated log does (crates/smr/src/replica.rs): a replica that crashes *)
(* keeps its recorder and comes back with a catch-up probe for the slot it *)
(* was working on (on_restart), and a catch-up that looks stalled is       *)
(* dropped for a fresh one (on_catch_up_watchdog). The policy is           *)
(* LeaderPolicy::Fixed: no hedging. Replies already given when the new     *)
(* proposer starts are taken to be lost; requests still on their way, and  *)
(* the replies they will earn, are not.                                    *)
(***************************************************************************)
EXTENDS QuePaxa

CONSTANTS
    Probe,        \* catch_up_probe(slot): the same command on every replica
    MaxReissues   \* MaxReissues[i]: bound on i's restarts within the slot

VARIABLE reissues    \* reissues[i]: proposers replaced so far

\* begin_catch_up with no attempt left: a new Proposer for the same slot, with
\* the probe, no leader and none of the old one's state. What the old one sent,
\* and the replies it is owed, are still on their way.
BeginCatchUp(i) ==
    /\ activated' = activated \cup {i}
    /\ step' = [step EXCEPT ![i] = FIRST_ROUND_STEP]
    /\ proposal' = [proposal EXCEPT ![i] = [priority |-> H, origin |-> i, value |-> Probe]]
    /\ replies' = [replies EXCEPT ![i] = {}]
    /\ \E pri \in Draws[i] :
         LET out == [r \in Ids |-> [priority |-> pri[r], origin |-> i, value |-> Probe]] IN
         /\ sent' = [sent EXCEPT ![i] = out]
         /\ reqs' = reqs \cup {[from |-> i, to |-> r, req_step |-> FIRST_ROUND_STEP,
                                prop |-> out[r]] : r \in Ids}

\* on_restart, or the watchdog's re-issue, of an attempt that had not decided.
Reissue(i) ==
    /\ Running(i)
    /\ i \in activated
    /\ reissues[i] < MaxReissues[i]
    /\ reissues' = [reissues EXCEPT ![i] = @ + 1]
    /\ BeginCatchUp(i)
    /\ UNCHANGED <<isr, decided, kicks, hedges, lastSeen, panicked>>

RestartInit == Init /\ reissues = [i \in Ids |-> 0]

RestartNext ==
    \/ Next /\ UNCHANGED reissues
    \/ \E i \in Ids : Reissue(i)

RestartSpec == RestartInit /\ [][RestartNext]_<<vars, reissues>>
=============================================================================
