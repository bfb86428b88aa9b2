----------------------------- MODULE MCNetLive ------------------------------
(***************************************************************************)
(* What the parts around a networked node must do in the end, checked side *)
(* by side: a link to a peer, the driver with its disk, the clients of the *)
(* open loop, the status server, and the soak harness's proxy of a link.   *)
(* Each behaviour is one of one part; the others rest.                     *)
(***************************************************************************)
EXTENDS Transport, Status, Proxy

CONSTANTS Absent, CatchUp

VARIABLES
    part,
    phase, inbox, mem, now, out, batch, pending, done, queue, file, stable, tmp,
    crashes, asked, released, published,
    reliable, issued, task, session, command, start, tries, result, pool, next_seq, cursor,
    op_counter, stopped, submitted, listening, downs, decided, kvstore

driverVars ==
    <<phase, inbox, mem, now, out, batch, pending, done, queue, file, stable, tmp,
      crashes, asked, released, published>>
clientVars ==
    <<reliable, issued, task, session, command, start, tries, result, pool, next_seq, cursor,
      op_counter, stopped, submitted, listening, downs, decided, kvstore>>
allVars == <<part, linkVars, driverVars, clientVars, statusVars, proxyVars>>

OneSplit == {<<{SelfId}, {PeerId}>>}

Driver == INSTANCE NodeDriver WITH
    Peers <- {"p", "q"}, Healthy <- {"p"}, Self <- "self", ClientOps <- {}, NoOp <- "none",
    BatchLimit <- 1, QueueCapacity <- 1, MaxVersion <- 0, MaxTick <- 0, MaxInbox <- 2,
    MaxCrashes <- 1

Open == INSTANCE Client WITH
    Clients <- {"s"}, Keys <- {"k"}, ProbeKey <- "k", Values <- 1..3,
    NumAddrs <- 1, ReliableSets <- {{}}, MaxRounds <- 2, Kinds <- {"put"},
    OpenLoop <- TRUE, Admission <- 2, Target <- 1, MaxOps <- 3, MaxDowns <- 1

ASSUME PartsAssumption ==
    Driver!ConstantsOK /\ Open!ClientConstantsOK /\ ProxyConstantsOK

MCInit ==
    /\ part \in {"link", "driver", "clients", "server", "relay"}
    /\ LinkInit /\ Driver!Init /\ Open!ClientInit /\ StatusInit /\ ProxyInit
    /\ part # "link" => resolves /\ peerUp
    /\ part # "clients" => listening = {}
    /\ part # "server" => ~is_restart

MCNext ==
    \/ /\ part = "link" /\ LinkNext
       /\ UNCHANGED <<part, driverVars, clientVars, statusVars, proxyVars>>
    \/ /\ part = "driver" /\ Driver!Next
       /\ UNCHANGED <<part, linkVars, clientVars, statusVars, proxyVars>>
    \/ /\ part = "clients" /\ Open!ClientNext
       /\ UNCHANGED <<part, linkVars, driverVars, statusVars, proxyVars>>
    \/ /\ part = "server" /\ StatusNext
       /\ UNCHANGED <<part, linkVars, driverVars, clientVars, proxyVars>>
    \/ /\ part = "relay" /\ ProxyNext
       /\ UNCHANGED <<part, linkVars, driverVars, clientVars, statusVars>>

\* The fairness of each part, as its module states it, in its own behaviours.
MCFairness ==
    /\ WF_linkVars(part = "link" /\ DialerStep)
    /\ \A c \in Conns : WF_linkVars(part = "link" /\ ReaderTask(c))
    /\ WF_driverVars(part = "driver" /\ Driver!Loop)
    /\ WF_driverVars(part = "driver" /\ Driver!Boot)
    /\ WF_driverVars(part = "driver" /\ Driver!Dial("p"))
    /\ WF_driverVars(part = "driver" /\ "p" \in asked /\ Driver!Request("p"))
    /\ WF_clientVars(part = "clients" /\ Open!Generate)
    /\ \A o \in 1..3 : WF_clientVars(part = "clients" /\ Open!Task(o))
    /\ WF_statusVars(part = "server" /\ Acquire)
    /\ WF_statusVars(part = "server" /\ Accept)
    /\ \A c \in Visitors : WF_statusVars(part = "server" /\ Handler(c))
    /\ WF_proxyVars(part = "relay" /\ CutWake)
    /\ \A c \in Relayed :
        /\ WF_proxyVars(part = "relay" /\ Redial(c))
        /\ WF_proxyVars(part = "relay" /\ AcceptDial(c))
        /\ WF_proxyVars(part = "relay" /\ (ConnectUpstream(c) \/ UpstreamFails(c)))
        /\ WF_proxyVars(part = "relay" /\ TearDown(c))
        /\ WF_proxyVars(part = "relay" /\ EndOfStream(c))
        /\ \A d \in Dirs : /\ WF_proxyVars(part = "relay" /\ CheckChunk(c, d))
                           /\ WF_proxyVars(part = "relay" /\ WriteChunk(c, d))

MCSpec == MCInit /\ [][MCNext]_allVars /\ MCFairness

-----------------------------------------------------------------------------
\* A peer that takes its replies is answered, although another takes nothing,
\* events keep coming and a crash takes the request (ctx.rs, flush_outbound).
HealthyPeersAnswered == Driver!HealthyPeersAnswered

\* A run of the open loop counts its samples right and ends with one for every
\* operation (bench.rs).
RunEnds == []Open!ClientTypeOK /\ (part = "clients" => Open!RunEnds)

\* A healed link to a live process carries its connection again (proxy.rs).
LinkCarriesAgain == part = "relay" => CarriesAgain
=============================================================================
