--------------------------- MODULE QuePaxaColdBoot --------------------------
(***************************************************************************)
(* A slot whose leader dies before its first snapshot is on disk.  The     *)
(* batch that takes a client's command writes nothing (driver.rs: only a   *)
(* message may mutate Durable) and sends the leader's requests at once; if *)
(* the process ends before any message was persisted, load() finds no file *)
(* and the next process is a new replica at slot 0, that leads it again    *)
(* with whatever the next client submits.                                  *)
(***************************************************************************)
EXTENDS QuePaxa

CONSTANTS
    NextVal,      \* NextVal[i]: the command submitted to i after its restart
    MayColdBoot   \* the replicas that may lose their first process

VARIABLE reborn    \* the replicas whose first process is gone

\* run_node with load() = None: no message was ever persisted, so the recorder
\* is empty and the proposer still in its first step.  new_fixed_leader, no
\* on_restart, and the next client's submit.  The old process's requests are
\* still on their way; the replies it is owed are taken to be lost.
ColdBoot(i) ==
    /\ i \in MayColdBoot \ reborn
    /\ Running(i) /\ i \in activated
    /\ isr[i] = NewIsr /\ step[i] = FIRST_ROUND_STEP
    /\ reborn' = reborn \cup {i}
    /\ BeginStep(i, FIRST_ROUND_STEP, [priority |-> H, origin |-> i, value |-> NextVal[i]])
    /\ UNCHANGED <<isr, decided, kicks, hedges, lastSeen, panicked>>

ColdBootInit == Init /\ reborn = {}

ColdBootNext ==
    \/ Next /\ UNCHANGED reborn
    \/ \E i \in Ids : ColdBoot(i)

ColdBootSpec == ColdBootInit /\ [][ColdBootNext]_<<vars, reborn>>
=============================================================================
