-------------------------- MODULE MCQuePaxaRestart --------------------------
(***************************************************************************)
(* Replicas 0 and 1 propose 3 and 2; replica 1 restarts once and then      *)
(* probes with 1. Proposer 0 never reaches recorder 2, proposer 1 only in  *)
(* step 4.                                                                 *)
(***************************************************************************)
EXTENDS QuePaxaRestart

MCInitVal     == [i \in Ids |-> 3 - i]
MCMaxKicks    == [i \in Ids |-> IF i = 2 THEN 0 ELSE 1]
MCMaxReissues == [i \in Ids |-> IF i = 1 THEN 1 ELSE 0]

RestartLinks == ({0} \X {0, 1} \X (4..6)) \cup ({1} \X {0, 1} \X (4..10))
                  \cup {<<1, 2, 4>>}
HighAtTwo ==
    [i \in Ids |-> {[r \in Ids |-> IF i = 1 /\ r = 2 THEN 2 ELSE 1]}]
=============================================================================
