------------------------------- MODULE MCSmr --------------------------------
(***************************************************************************)
(* Small instances of Smr: one client writes, one reads, one key.          *)
(***************************************************************************)
EXTENDS Smr, TLC

Put(v) == [op |-> "put", key |-> "k", value |-> v]
Get    == [op |-> "get", key |-> "k"]

MCClients == {"w", "x"}

\* One client writes twice, the other reads.
WriteTwiceRead == [c \in MCClients |-> IF c = "w" THEN <<Put(1), Put(2)>> ELSE <<Get>>]

\* One client writes, the other reads once.
WriteRead == [c \in MCClients |-> IF c = "w" THEN <<Put(1)>> ELSE <<Get>>]

RetryWrites == [c \in MCClients |-> IF c = "w" THEN 2 ELSE 1]
SubmitOnce  == [c \in MCClients |-> 1]

Symmetry == Permutations(Replicas)
=============================================================================
