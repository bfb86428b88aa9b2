----------------------------- MODULE MCQuePaxa ------------------------------
(***************************************************************************)
(* Small instances of QuePaxa: three recorders, of which the replicas in   *)
(* Kicked run a proposer. Replica i proposes the value 3 - i, so that the  *)
(* order on values and the order on origins disagree.                      *)
(***************************************************************************)
EXTENDS QuePaxaInv

CONSTANTS Kicked, MaxStep

MCInitVal  == [i \in Ids |-> 3 - i]
MCMaxKicks == [i \in Ids |-> IF i \in Kicked THEN 1 ELSE 0]

\* The clock's bound: requests of MaxStep are sent and all lost.
BelowMaxStep == Ids \X Ids \X (0..(MaxStep - 1))

\* Replica i draws the high priority for recorder i only: each proposer can
\* win at one recorder, and they tie at the others.
OwnHigh == [i \in Ids |-> {[r \in Ids |-> IF r = i THEN 2 ELSE 1]}]

\* The crash scenario: proposer 0 stops for good somewhere in its first
\* round and takes recorder 0 with it; proposer 1 has all the steps it needs.
CrashLinks == ({0} \X Ids \X (4..7)) \cup ({1} \X {1, 2} \X (4..20))

\* The re-kick scenario (README, claims the models refute): proposer 1 is kicked off a second time; proposer 0
\* is partitioned from recorder 2, and so is proposer 1 after step 4.
RekickBound == [i \in Ids |-> IF i = 1 THEN 2 ELSE IF i \in Kicked THEN 1 ELSE 0]
RekickLinks == ({0} \X {0, 1} \X (4..6)) \cup ({1} \X {0, 1} \X (4..10))
                 \cup {<<1, 2, FIRST_ROUND_STEP>>}
HighAtTwo ==
    [i \in Ids |-> {[r \in Ids |-> IF i = 1 /\ r = 2 THEN 2 ELSE 1]}]
=============================================================================
