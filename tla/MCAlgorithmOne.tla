-------------------------- MODULE MCAlgorithmOne ----------------------------
(***************************************************************************)
(* Three replicas, the values ordered against the replicas' identifiers.   *)
(***************************************************************************)
EXTENDS AlgorithmOne

MCInitVal == [i \in Ids |-> 3 - i]
=============================================================================
