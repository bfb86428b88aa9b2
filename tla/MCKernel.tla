------------------------------ MODULE MCKernel ------------------------------
(***************************************************************************)
(* Two nodes under every scheduler. The adversaries and the random         *)
(* scheduler run with drops, a cut link, a partition and a slow node; the  *)
(* FIFO scheduler with a timer, and with a crash or a slow node. The       *)
(* scheduler is fixed for a run and tells the two apart.                   *)
(***************************************************************************)
EXTENDS Kernel

CONSTANTS n0, n1

OneBlocked == {<<n0, n0>>}
Apart      == {<<{n0}, {n1}>>}

Fifo == INSTANCE Kernel WITH
    Schedulers <- {"fifo"}, DropPercent <- 0, LeaderExtra <- 0,
    Blocked <- {}, BlockedTags <- {}, Splits <- {}, Multipliers <- {2},
    Delays <- {0, 1}, MaxMessages <- 2, MaxTimers <- 1, MaxFaults <- 1

MCInit == Init \/ Fifo!Init

MCNext ==
    \/ scheduler # "fifo" /\ Next
    \/ scheduler = "fifo" /\ Fifo!Next

MCSpec == MCInit /\ [][MCNext]_vars

=============================================================================
