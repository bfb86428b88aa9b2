--------------------------- MODULE MCConformance ----------------------------
(***************************************************************************)
(* Conformance runs of three kinds, side by side: two nodes whose /chain   *)
(* is polled while one of them applies commands of its own; one node that  *)
(* restarts and loses its log while its ring overflows; and a simulated    *)
(* cluster of three, one divergent and one forgetful, whose logs are       *)
(* polled as a whole.  Checkpoints are two commands apart.  A behaviour is *)
(* a run of one kind, in which the other replicas are never heard of.      *)
(***************************************************************************)
EXTENDS Conformance

VARIABLE kind

Alone == INSTANCE Conformance WITH MaxLog <- 4, MaxCommands <- 4, MaxStops <- 2

Sim == INSTANCE Conformance WITH Source <- "checkpoints"

ASSUME KindsAssumption == Alone!ConstantsOK /\ Sim!ConstantsOK

MCInit == kind \in {"nodes", "alone", "sim"} /\ Init

NodesNext ==
    \/ Submit \/ Decide \/ Tick
    \/ \E r \in {"r1", "r3"} :
        \/ ApplyDecided(r) \/ ApplyOwn(r) \/ Hook(r)
        \/ StopReplica(r) \/ StartReplica(r) \/ PollNode(r)

AloneNext ==
    \/ Alone!Submit \/ Alone!Decide
    \/ Alone!ApplyDecided("r2") \/ Alone!Hook("r2") \/ Alone!PollNode("r2")
    \/ Alone!StopReplica("r2") \/ Alone!StartReplica("r2") \/ Alone!LoseLog("r2")

MCNext ==
    /\ UNCHANGED kind
    /\ \/ kind = "nodes" /\ NodesNext
       \/ kind = "alone" /\ AloneNext
       \/ kind = "sim" /\ Sim!Next

MCSpec == MCInit /\ [][MCNext]_<<kind, vars>>
=============================================================================
