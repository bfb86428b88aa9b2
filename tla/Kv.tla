--------------------------------- MODULE Kv ---------------------------------
(***************************************************************************)
(* The commands of the replicated log (crates/smr/src/command.rs) and the  *)
(* store they are applied to, with its per-client dedup table              *)
(* (crates/smr/src/kv.rs).                                                 *)
(***************************************************************************)
EXTENDS Integers, Sequences

CONSTANTS
    Clients,   \* ClientId, without CATCH_UP_CLIENT
    Keys, Values,
    CatchUp,   \* CATCH_UP_CLIENT, the reserved client of catch-up probes
    ProbeKey,  \* CATCH_UP_KEY
    Absent     \* a key without a value; a slot without a command

ASSUME ReservedAssumption ==
    CatchUp \notin Clients /\ ProbeKey \in Keys /\ Absent \notin Values

Puts == [op : {"put"}, client : Clients, seq : Nat, key : Keys, value : Values]
Gets(C) == [op : {"get"}, client : C, seq : Nat, key : Keys]

ClientCommands == Puts \cup Gets(Clients)
Probes         == Gets({CatchUp})
Commands       == ClientCommands \cup Probes

\* A probe numbered after the last slot applied.
ProbeOfLastSlot(slot) == [op |-> "get", client |-> CatchUp, seq |-> slot - 1, key |-> ProbeKey]

\* catch_up_probe(slot): the same command on every replica.
CatchUpProbe(slot) == [op |-> "get", client |-> CatchUp, seq |-> slot, key |-> ProbeKey]

Kvs == [map : [Keys -> Values \cup {Absent}], last_seq : [Clients -> Nat \cup {-1}]]

NewKv == [map |-> [k \in Keys |-> Absent], last_seq |-> [c \in Clients |-> -1]]

\* is_duplicate: this client has had this or a later put applied.
IsDuplicate(kv, cmd) == kv.last_seq[cmd.client] >= cmd.seq

\* A store that applies every put, repeated ones too.
ApplyAgain(kv, cmd) ==
    IF cmd.op = "get" THEN kv
    ELSE [map |-> [kv.map EXCEPT ![cmd.key] = cmd.value],
          last_seq |-> [kv.last_seq EXCEPT ![cmd.client] = cmd.seq]]

\* A dedup test that recognises an exact repetition only.
ApplyUnlessLast(kv, cmd) ==
    IF cmd.op = "get" \/ kv.last_seq[cmd.client] = cmd.seq THEN kv
    ELSE ApplyAgain(kv, cmd)

\* Kv::apply, the only mutator: a get changes nothing, a put takes effect
\* unless it is a duplicate.
Apply(kv, cmd) ==
    IF cmd.op = "get" \/ IsDuplicate(kv, cmd) THEN kv
    ELSE [map |-> [kv.map EXCEPT ![cmd.key] = cmd.value],
          last_seq |-> [kv.last_seq EXCEPT ![cmd.client] = cmd.seq]]

\* What the command's client is told: a put nothing, a get the key's value.
\* A get changes no state, so before or after it is the same.
OutcomeOf(kv, cmd) == IF cmd.op = "get" THEN kv.map[cmd.key] ELSE Absent

-----------------------------------------------------------------------------
\* The reference: a put of a log takes effect iff no put of its client before
\* it in the log has its number or a later one.
Effective(l, i) ==
    /\ l[i].op = "put"
    /\ \A j \in 1..(i - 1) :
         l[j].op = "put" /\ l[j].client = l[i].client => l[j].seq < l[i].seq

\* The value of key k after the first n commands of log l.
ValueAfter(l, n, k) ==
    LET W == {i \in 1..n : Effective(l, i) /\ l[i].key = k} IN
    IF W = {} THEN Absent ELSE l[CHOOSE i \in W : \A j \in W : j <= i].value
=============================================================================
