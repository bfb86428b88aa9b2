-------------------------------- MODULE Proxy -------------------------------
(***************************************************************************)
(* One directed link of the turbulence proxy (crates/soak/src/proxy.rs):   *)
(* an accept loop, a task per connection that connects to the real peer    *)
(* and copies both ways, and the soak driver, which cuts and heals the     *)
(* link.  The dialler comes back whenever it loses its connection.         *)
(***************************************************************************)
EXTENDS Integers

CONSTANTS
    Relayed,            \* connections the dialler keeps, each redialled when lost
    MaxCuts,            \* bound: cuts of the link
    MaxKills,           \* bound: kills of the upstream process
    MaxCloses           \* bound: connections the dialler closes by itself

\* What the constants must satisfy.
ProxyConstantsOK == MaxCuts \in Nat /\ MaxKills \in Nat /\ MaxCloses \in Nat

VARIABLES
    cut,                \* Link::cut
    cutting,            \* cut() has stored the flag and not yet woken the channel
    generation,         \* the value of the watch channel
    upstream,           \* the upstream process runs
    at,                 \* "lost", "backlog", "connecting" or "pumping"
    seenAt,             \* the generation each task last saw
    eof,                \* one end of the connection is gone
    pump,               \* what each direction of a connection is doing
    late,               \* chunks written since the link was cut (history)
    hit,                \* where a cut() that returned found the connection (history)
    cuts, kills, closes \* events so far, for the bounds

cutVars == <<cut, cutting, generation>>
connVars == <<at, seenAt, eof, pump, late, hit>>
boundVars == <<cuts, kills, closes>>
proxyVars == <<cutVars, upstream, connVars, boundVars>>

Dirs == {"forward", "backward"}
Joined(c) == at[c] \in {"connecting", "pumping"}

ProxyInit ==
    /\ cut = FALSE /\ cutting = FALSE /\ generation = 0 /\ upstream = TRUE
    /\ at = [c \in Relayed |-> "lost"] /\ seenAt = [c \in Relayed |-> 0]
    /\ eof = [c \in Relayed |-> FALSE] /\ pump = [p \in Relayed \X Dirs |-> "reading"]
    /\ late = [p \in Relayed \X Dirs |-> 0] /\ hit = [c \in Relayed |-> "no"]
    /\ cuts = 0 /\ kills = 0 /\ closes = 0

\* Both sockets of c are dropped.
Drop(c) ==
    /\ at' = [at EXCEPT ![c] = "lost"] /\ seenAt' = [seenAt EXCEPT ![c] = 0]
    /\ eof' = [eof EXCEPT ![c] = FALSE] /\ hit' = [hit EXCEPT ![c] = "no"]
    /\ pump' = [p \in Relayed \X Dirs |-> IF p[1] = c THEN "reading" ELSE pump[p]]
    /\ late' = [p \in Relayed \X Dirs |-> IF p[1] = c THEN 0 ELSE late[p]]

-----------------------------------------------------------------------------
(* The driver.                                                             *)

\* Link::cut, first statement.
CutStore ==
    /\ cuts < MaxCuts /\ ~cut /\ ~cutting
    /\ cut' = TRUE /\ cutting' = TRUE /\ cuts' = cuts + 1
    /\ late' = [p \in Relayed \X Dirs |-> 0]
    /\ UNCHANGED <<generation, upstream, at, seenAt, eof, pump, hit, kills, closes>>

\* Mutant: the flag alone.
FlagOnly == generation

\* A watch channel keeps its value when nobody is subscribed.
NextGeneration == IF \E c \in Relayed : at[c] = "pumping" THEN generation + 1 ELSE generation

\* Link::cut, the rest of it.
CutWake ==
    /\ cutting /\ cutting' = FALSE
    /\ generation' = NextGeneration
    /\ hit' = [c \in Relayed |-> IF Joined(c) /\ hit[c] = "no" THEN at[c] ELSE hit[c]]
    /\ UNCHANGED <<cut, upstream, at, seenAt, eof, pump, late, boundVars>>

HealLink ==
    /\ cut /\ ~cutting /\ cut' = FALSE
    /\ UNCHANGED <<cutting, generation, upstream, connVars, boundVars>>

-----------------------------------------------------------------------------
(* The two ends.                                                           *)

\* The process behind the link is killed, and with it the connections to it;
\* it is spawned again.
Kill ==
    /\ upstream /\ kills < MaxKills /\ upstream' = FALSE /\ kills' = kills + 1
    /\ eof' = [c \in Relayed |-> eof[c] \/ at[c] = "pumping"]
    /\ UNCHANGED <<cutVars, at, seenAt, pump, late, hit, cuts, closes>>

Spawn == ~upstream /\ upstream' = TRUE /\ UNCHANGED <<cutVars, connVars, boundVars>>

Redial(c) ==
    /\ at[c] = "lost" /\ at' = [at EXCEPT ![c] = "backlog"]
    /\ UNCHANGED <<cutVars, upstream, seenAt, eof, pump, late, hit, boundVars>>

CloseConn(c) ==
    /\ Joined(c) /\ ~eof[c] /\ closes < MaxCloses
    /\ eof' = [eof EXCEPT ![c] = TRUE] /\ closes' = closes + 1
    /\ UNCHANGED <<cutVars, upstream, at, seenAt, pump, late, hit, cuts, kills>>

-----------------------------------------------------------------------------
(* The proxy.                                                              *)

\* accept_loop: a cut link accepts and closes at once.
AcceptDial(c) ==
    /\ at[c] = "backlog"
    /\ \/ cut /\ Drop(c)
       \/ /\ ~cut /\ at' = [at EXCEPT ![c] = "connecting"]
          /\ UNCHANGED <<seenAt, eof, pump, late, hit>>
    /\ UNCHANGED <<cutVars, upstream, boundVars>>

\* Mutant: a new task starts from the channel's first generation.
FromTheStart == 0

\* subscribe() marks the current generation as seen.
Subscribed == generation

\* The upstream connection is made and the task subscribes; or it cannot be made.
ConnectUpstream(c) ==
    /\ at[c] = "connecting" /\ upstream
    /\ at' = [at EXCEPT ![c] = "pumping"] /\ seenAt' = [seenAt EXCEPT ![c] = Subscribed]
    /\ UNCHANGED <<cutVars, upstream, eof, pump, late, hit, boundVars>>

UpstreamFails(c) ==
    at[c] = "connecting" /\ ~upstream /\ Drop(c) /\ UNCHANGED <<cutVars, upstream, boundVars>>

\* select!: the generation changed, or a direction read the end of its stream.
TearDown(c) ==
    /\ at[c] = "pumping" /\ seenAt[c] # generation
    /\ Drop(c) /\ UNCHANGED <<cutVars, upstream, boundVars>>

EndOfStream(c) ==
    /\ at[c] = "pumping" /\ eof[c] /\ \E d \in Dirs : pump[<<c, d>>] = "reading"
    /\ Drop(c) /\ UNCHANGED <<cutVars, upstream, boundVars>>

\* pump: a chunk is read, held for the latency, checked against the cut, and
\* written; the connection ends where the check fails or the other end is gone.
ReadChunk(c, d) ==
    /\ at[c] = "pumping" /\ ~eof[c] /\ pump[<<c, d>>] = "reading"
    /\ pump' = [pump EXCEPT ![<<c, d>>] = "holding"]
    /\ UNCHANGED <<cutVars, upstream, at, seenAt, eof, late, hit, boundVars>>

\* Mutant: the cut is not looked at again after the latency.
NotAgain == TRUE

LinkOpen == ~cut

CheckChunk(c, d) ==
    /\ at[c] = "pumping" /\ pump[<<c, d>>] = "holding"
    /\ \/ ~LinkOpen /\ Drop(c)
       \/ /\ LinkOpen /\ pump' = [pump EXCEPT ![<<c, d>>] = "writing"]
          /\ UNCHANGED <<at, seenAt, eof, late, hit>>
    /\ UNCHANGED <<cutVars, upstream, boundVars>>

WriteChunk(c, d) ==
    /\ at[c] = "pumping" /\ pump[<<c, d>>] = "writing"
    /\ \/ eof[c] /\ Drop(c)
       \/ /\ pump' = [pump EXCEPT ![<<c, d>>] = "reading"]
          /\ late' = [late EXCEPT ![<<c, d>>] = IF cut /\ @ < 2 THEN @ + 1 ELSE @]
          /\ UNCHANGED <<at, seenAt, eof, hit>>
    /\ UNCHANGED <<cutVars, upstream, boundVars>>

RelayTask(c) ==
    \/ AcceptDial(c) \/ ConnectUpstream(c) \/ UpstreamFails(c)
    \/ TearDown(c) \/ EndOfStream(c)
    \/ \E d \in Dirs : CheckChunk(c, d) \/ WriteChunk(c, d)

ProxyNext ==
    \/ CutStore \/ CutWake \/ HealLink \/ Kill \/ Spawn
    \/ \E c \in Relayed : \/ Redial(c) \/ CloseConn(c) \/ RelayTask(c)
                          \/ \E d \in Dirs : ReadChunk(c, d)

\* The runtime polls every task that is ready, the driver finishes what it has
\* begun, and the dialler comes back.  Nothing promises a heal, a respawn or
\* that anybody sends.  select! polls its ready branches in random order, so
\* that a task woken by the channel notices however busy its pumps are.
ProxyFairness ==
    /\ WF_proxyVars(CutWake)
    /\ \A c \in Relayed :
        /\ WF_proxyVars(Redial(c)) /\ WF_proxyVars(AcceptDial(c))
        /\ WF_proxyVars(ConnectUpstream(c) \/ UpstreamFails(c))
        /\ WF_proxyVars(TearDown(c)) /\ WF_proxyVars(EndOfStream(c))
        /\ \A d \in Dirs : WF_proxyVars(CheckChunk(c, d)) /\ WF_proxyVars(WriteChunk(c, d))

ProxySpec == ProxyInit /\ [][ProxyNext]_proxyVars

ProxyFairSpec == ProxySpec /\ ProxyFairness

-----------------------------------------------------------------------------
\* A cut stops the bytes: of each direction of a connection at most the chunk
\* that had passed the check is still written (pump, "must not deliver the next
\* chunk that arrives").
OneChunkAfterCut == \A p \in Relayed \X Dirs : late[p] <= 1

\* A connection that is pumping when the link is cut is torn down, also when
\* the link heals before its task has run ("tearing this connection down
\* mid-flight").
PumpingIsTornDown == \A c \in Relayed : hit[c] = "pumping" ~> hit[c] = "no"

\* Once the link stays healed and the process behind it up, every connection
\* the dialler keeps is established for good: the turbulence leaves nothing
\* behind (soak.rs judges liveness after "everything heals").
CarriesAgain == <>[](upstream /\ ~cut) => <>[](\A c \in Relayed : at[c] = "pumping")

\* Refuted (see the README). What Link::cut says: "existing connections are dropped".
CutDropsAll == \A c \in Relayed : hit[c] # "no" ~> hit[c] = "no"
=============================================================================
