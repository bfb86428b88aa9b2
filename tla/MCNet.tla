------------------------------- MODULE MCNet --------------------------------
(***************************************************************************)
(* The safety of the parts around a networked node, checked side by side:  *)
(* the driver with its disk, the status server, a link to a peer, and the  *)
(* load generator's clients in a closed loop, in an open loop, and with    *)
(* one replica that stays up. Each behaviour is one of one part; the       *)
(* others rest in an initial state.                                        *)
(***************************************************************************)
EXTENDS NodeDriver, Transport, Status, Client

CONSTANTS n1, n2, n3

VARIABLE part

allVars == <<part, vars, statusVars, linkVars, runVars>>

ThreeWaySplits == {<<{n1}, {n2, n3}>>, <<{n2}, {n1, n3}>>, <<{n1, n2}, {n3}>>}

\* The closed loop has two sessions and two addresses. So has the open loop, but
\* for one session, a replica that goes down and more than one operation.
Open == INSTANCE Client WITH
    Clients <- {"s"}, OpenLoop <- TRUE, Admission <- 2, Target <- 1, MaxDowns <- 1

\* Of three replicas two go down, and one stays up.
OneStays == INSTANCE Client WITH
    Clients <- {"s"}, NumAddrs <- 3, ReliableSets <- {{1}}, MaxRounds <- 2, MaxDowns <- 2

ASSUME PartsAssumption == Open!ClientConstantsOK /\ OneStays!ClientConstantsOK

MCInit ==
    /\ part \in {"driver", "server", "link", "closed", "open", "one stays"}
    /\ Init /\ LinkInit /\ StatusInit
    /\ CASE part = "open" -> Open!ClientInit
         [] part = "one stays" -> OneStays!ClientInit
         [] OTHER -> ClientInit
    /\ part # "server" => ~is_restart
    /\ part # "link" => resolves /\ peerUp
    /\ part \in {"driver", "server", "link"} => listening = {} /\ pool[1] = "s"

ClientsNext ==
    \/ part = "closed" /\ ClientNext
    \/ part = "open" /\ Open!ClientNext
    \/ part = "one stays" /\ OneStays!ClientNext

MCNext ==
    \/ /\ part = "driver" /\ Next
       /\ UNCHANGED <<part, statusVars, linkVars, runVars>>
    \/ /\ part = "server" /\ StatusNext
       /\ UNCHANGED <<part, vars, linkVars, runVars>>
    \/ /\ part = "link" /\ LinkNext
       /\ UNCHANGED <<part, vars, statusVars, runVars>>
    \/ /\ ClientsNext
       /\ UNCHANGED <<part, vars, statusVars, linkVars>>

MCSpec == MCInit /\ [][MCNext]_allVars
=============================================================================
