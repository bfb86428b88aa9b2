-------------------------- MODULE MCQuePaxaColdBoot -------------------------
(***************************************************************************)
(* Replica 0 leads with 1, dies, and leads with 3; replica 1 proposes 2    *)
(* and reaches recorders 1 and 2 in step 4 only.                           *)
(***************************************************************************)
EXTENDS QuePaxaColdBoot

MCInitVal   == [i \in Ids |-> i + 1]
MCNextVal   == [i \in Ids |-> 3]
MCMaxKicks  == [i \in Ids |-> IF i = 2 THEN 0 ELSE 1]
Links       == ({0} \X Ids \X (4..6)) \cup ({1} \X {1, 2} \X {4})
LowDraws    == [i \in Ids |-> {[r \in Ids |-> 1]}]
=============================================================================
