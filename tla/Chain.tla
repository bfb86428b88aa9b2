------------------------------- MODULE Chain --------------------------------
(***************************************************************************)
(* The Chain-of-Blocks hook of a node: the chain (crates/chain/src/lib.rs) *)
(* a replica folds over the commands it has applied, and the frontier and  *)
(* checkpoint ring it publishes under one lock (crates/net/src/chain.rs).  *)
(* A chain hash is modelled by the sequence it was computed from: hashes   *)
(* are taken to be free of collisions.                                     *)
(***************************************************************************)
EXTENDS Integers, Sequences, FiniteSets, SequencesExt

CONSTANTS
    Replicas,
    Every,      \* checkpoint spacing, the same on every replica
    Ring,       \* CHECKPOINT_RING_CAPACITY
    MaxLog      \* bound on commands applied

\* What the constants must satisfy.
ChainConstantsOK == Every \in Nat /\ Ring \in Nat \ {0} /\ MaxLog \in Nat

VARIABLES
    log,        \* log[r]: the commands r has applied, durably
    up,         \* the replicas that run
    pass,       \* pass[r]: r's driver is inside ChainFolder::fold
    folder,     \* folder[r]: ChainFolder::state
    frontier, table, truncated      \* Published, of each replica

foldVars  == <<pass, folder, frontier, table, truncated>>
chainVars == <<log, up, foldVars>>

\* ChainState and its extension by one command.
Genesis     == [n |-> 0, h |-> <<>>]
Extend(s, c) == [n |-> s.n + 1, h |-> Append(s.h, c)]
StateOf(l, n) == [n |-> n, h |-> SubSeq(l, 1, n)]

\* A spacing of 0 is treated as 1.
Spacing     == IF Every = 0 THEN 1 ELSE Every
Boundary(n) == n % Spacing = 0

ChainInit ==
    /\ log = [r \in Replicas |-> <<>>] /\ up = Replicas
    /\ pass = [r \in Replicas |-> FALSE]
    /\ folder = [r \in Replicas |-> Genesis]
    /\ frontier = [r \in Replicas |-> Genesis]
    /\ table = [r \in Replicas |-> <<>>]
    /\ truncated = [r \in Replicas |-> FALSE]

\* A command is applied, in the part of the driver's loop before the hook.
ApplyCommand(r, c) ==
    /\ r \in up /\ ~pass[r] /\ Len(log[r]) < MaxLog
    /\ log' = [log EXCEPT ![r] = Append(@, c)]
    /\ UNCHANGED <<up, foldVars>>

BeginFold(r) ==
    /\ r \in up /\ ~pass[r] /\ folder[r].n < Len(log[r])
    /\ pass' = [pass EXCEPT ![r] = TRUE]
    /\ UNCHANGED <<log, up, folder, frontier, table, truncated>>

\* ChainCheckpoints::record: the oldest checkpoint goes when the ring is full.
Recorded(t, s) == Append(IF Len(t) = Ring THEN Tail(t) ELSE t, s)

\* One command of the pass, and the checkpoint it crosses.
FoldOne(r) ==
    /\ r \in up /\ pass[r] /\ folder[r].n < Len(log[r])
    /\ LET s == Extend(folder[r], log[r][folder[r].n + 1])
       IN  /\ folder' = [folder EXCEPT ![r] = s]
           /\ IF Boundary(s.n)
              THEN /\ table' = [table EXCEPT ![r] = Recorded(@, s)]
                   /\ truncated' = [truncated EXCEPT ![r] = @ \/ Len(table[r]) = Ring]
              ELSE UNCHANGED <<table, truncated>>
    /\ UNCHANGED <<log, up, pass, frontier>>

\* Mutant: height and hash are stored one after the other, and a reader comes
\* in between.
HalfStored(old, s) == [n |-> s.n, h |-> old.h]

\* ChainCheckpoints::set_frontier stores the pair.
Stored(old, s) == s

EndFold(r) ==
    /\ r \in up /\ pass[r] /\ folder[r].n = Len(log[r])
    /\ frontier' = [frontier EXCEPT ![r] = Stored(@, folder[r])]
    /\ pass' = [pass EXCEPT ![r] = FALSE]
    /\ UNCHANGED <<log, up, folder, table, truncated>>

\* The process ends; what the hook published goes with it.
Halt(r) == r \in up /\ up' = up \ {r}

Stop(r) == Halt(r) /\ UNCHANGED <<log, foldVars>>

Rise(r) == r \notin up /\ up' = up \cup {r}

\* The process is started again and folds its durable log from the beginning
\* before it serves anything else.
Start(r) ==
    /\ Rise(r)
    /\ pass' = [pass EXCEPT ![r] = TRUE]
    /\ folder' = [folder EXCEPT ![r] = Genesis]
    /\ frontier' = [frontier EXCEPT ![r] = Genesis]
    /\ table' = [table EXCEPT ![r] = <<>>]
    /\ truncated' = [truncated EXCEPT ![r] = FALSE]
    /\ UNCHANGED log

HookStep(r) == BeginFold(r) \/ FoldOne(r) \/ EndFold(r)

\* Everything GET /chain can show is a state of the replica's own chain: a
\* hash always goes with the height it was computed at, whatever a reader
\* interleaves with and however often the process restarts (chain.rs,
\* "Concurrency").
PublishedIsOwnChain ==
    \A r \in up :
        /\ frontier[r] = StateOf(log[r], frontier[r].n)
        /\ \A i \in 1..Len(table[r]) : table[r][i] = StateOf(log[r], table[r][i].n)
        /\ \A i, j \in 1..Len(table[r]) : i < j => table[r][i].n < table[r][j].n

\* The ring holds every boundary a pass has crossed, or says that it does not.
TableIsComplete ==
    \A r \in up : ~truncated[r] =>
        \A n \in 1..folder[r].n : Boundary(n) => StateOf(log[r], n) \in Range(table[r])

\* What GET /chain can show is a state of the node's own chain, and its ring
\* holds every boundary a pass has crossed, or says that it does not
\* (crates/net/src/chain.rs).
PublishedIsTrue == PublishedIsOwnChain /\ TableIsComplete
=============================================================================
