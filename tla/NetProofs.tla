----------------------------- MODULE NetProofs -----------------------------
(***************************************************************************)
(* Theorems about the net crate: one link between two nodes, for any       *)
(* queue, number of messages, connections and faults; one node's event     *)
(* loop and its snapshot file, for any number of peers, events, crashes,   *)
(* disk errors and power losses; its status server, for any number of      *)
(* connections, permits and failing accepts; and the proxy a soak puts in  *)
(* a link, for any number of connections, cuts and kills.                  *)
(***************************************************************************)
EXTENDS NodeDriver, Transport, Status, Proxy, SequenceTheorems, FiniteSetTheorems, TLAPS

-----------------------------------------------------------------------------
(* The link.                                                               *)

\* Messages are numbered in the order they are sent in.
Increasing(s) == \A i, j \in 1..Len(s) : i < j => s[i] < s[j]

\* The dialer works on one message at a time, and greets a connection nobody
\* has written on; a reader that has seen Hello sees no other.
DialerInv ==
    /\ hand # 0 => pc = "delay"
    /\ pc = "delay" => hand # 0
    /\ pc \in {"greet", "recv", "delay"} => conn \in Conns
    /\ pc = "greet" => wire[conn] = <<>> /\ reader[conn] # "open"
    /\ \A c \in Conns : reader[c] = "open" => Hello \notin Range(wire[c])

\* The stages are disjoint, and what has passed has passed once.
StageInv ==
    /\ Range(rx) \cup InHand \cup OnWire \cup Passed \cup Lost = 1..sent
    /\ Range(rx) \cap (InHand \cup OnWire \cup Passed \cup Lost) = {}
    /\ InHand \cap (OnWire \cup Passed \cup Lost) = {}
    /\ OnWire \cap (Passed \cup Lost) = {}
    /\ Passed \cap Lost = {}
    /\ \A c, d \in Conns : c # d => App(wire[c]) \cap App(wire[d]) = {}
    /\ \A i, j \in 1..Len(received) : received[i].msg = received[j].msg => i = j

\* What the dialer has written was sent before what it still holds, and a
\* connection carries its frames, and its messages arrive, in that order.
OrderInv ==
    /\ Increasing(rx) /\ \A c \in Conns : Increasing(wire[c])
    /\ \A m \in InHand, n \in Range(rx) : m < n
    /\ \A m \in OnWire \cup Passed, n \in Range(rx) \cup InHand : m < n
    /\ \A k \in 1..Len(received) : \A m \in App(wire[received[k].conn]) : received[k].msg < m
    /\ ConnectionFifo

\* The injector counts each message it loses.
CountInv ==
    Cardinality(lost["nemesis"])
      = counters["partition_drops"] + counters["prob_drops"] + counters["resets"]

LinkInv == LinkTypeOK /\ BackoffOnlyWhileFailing /\ DialerInv /\ StageInv /\ OrderInv /\ CountInv

-----------------------------------------------------------------------------
(* Sequences of frames.                                                    *)

LEMMA AppendRange ==
    ASSUME NEW s \in Seq(Nat), NEW e \in Nat
    PROVE  Range(Append(s, e)) = Range(s) \cup {e}
  <1>1. /\ Len(Append(s, e)) = Len(s) + 1 /\ Append(s, e)[Len(s) + 1] = e
        /\ \A i \in 1..Len(s) : Append(s, e)[i] = s[i]
    OBVIOUS
  <1>2. Range(Append(s, e)) \subseteq Range(s) \cup {e} BY <1>1 DEF Range
  <1>3. Range(s) \cup {e} \subseteq Range(Append(s, e)) BY <1>1 DEF Range
  <1> QED BY <1>2, <1>3

LEMMA IncreasingAppend ==
    ASSUME NEW s \in Seq(Nat), NEW e \in Nat, Increasing(s), \A m \in Range(s) : m < e
    PROVE  Increasing(Append(s, e))
  <1>1. /\ Len(Append(s, e)) = Len(s) + 1 /\ Append(s, e)[Len(s) + 1] = e
        /\ \A i \in 1..Len(s) : Append(s, e)[i] = s[i] /\ s[i] \in Range(s) /\ s[i] \in Nat
    BY DEF Range
  <1> QED BY <1>1 DEF Increasing

LEMMA IncreasingTail ==
    ASSUME NEW s \in Seq(Nat), s # <<>>, Increasing(s)
    PROVE  /\ Increasing(Tail(s)) /\ Tail(s) \in Seq(Nat) /\ Len(Tail(s)) = Len(s) - 1
           /\ Head(s) \in Range(s) /\ Head(s) \in Nat
           /\ Range(Tail(s)) = Range(s) \ {Head(s)}
           /\ \A m \in Range(Tail(s)) : Head(s) < m
  <1>1. /\ Len(s) \in Nat /\ Len(s) >= 1 /\ Len(Tail(s)) = Len(s) - 1 /\ Head(s) = s[1]
        /\ Tail(s) \in Seq(Nat)
        /\ \A i \in 1..(Len(s) - 1) : Tail(s)[i] = s[i + 1] /\ s[i + 1] \in Nat
    OBVIOUS
  <1>2. Increasing(Tail(s)) BY <1>1 DEF Increasing
  <1>3. Head(s) \in Range(s) /\ Head(s) \in Nat BY <1>1 DEF Range
  <1>4. \A m \in Range(Tail(s)) : Head(s) < m /\ m \in Range(s)
    BY <1>1 DEF Increasing, Range
  <1>5. ASSUME NEW m \in Range(s), m # Head(s) PROVE m \in Range(Tail(s))
    <2>1. PICK i \in 1..Len(s) : m = s[i] BY DEF Range
    <2>2. i # 1 /\ i - 1 \in 1..(Len(s) - 1) BY <1>1, <1>5, <2>1
    <2>3. Tail(s)[i - 1] = m BY <1>1, <2>1, <2>2
    <2>4. Tail(s) \in Seq(Nat) BY <1>1
    <2>5. Range(Tail(s)) = {Tail(s)[j] : j \in 1..Len(Tail(s))} BY <2>4, RangeEquality, Zenon
    <2> QED BY <1>1, <2>2, <2>3, <2>5
  <1>6. Head(s) \notin Range(Tail(s)) BY <1>3, <1>4
  <1> QED BY <1>1, <1>2, <1>3, <1>4, <1>5, <1>6

LEMMA IncreasingSplit ==
    ASSUME NEW s \in Seq(Nat), Increasing(s), NEW k \in 0..Len(s)
    PROVE  LET p == SubSeq(s, 1, k)
               q == SubSeq(s, k + 1, Len(s))
           IN  /\ p \in Seq(Nat) /\ Increasing(p)
               /\ Range(p) \cup Range(q) = Range(s) /\ Range(p) \cap Range(q) = {}
  <1> DEFINE p == SubSeq(s, 1, k)
             q == SubSeq(s, k + 1, Len(s))
  <1>1. /\ p \in Seq(Nat) /\ Len(p) = k /\ \A i \in 1..k : p[i] = s[i] /\ p[i] \in Nat
        /\ Len(s) \in Nat
    OBVIOUS
  <1>2. /\ Len(q) = Len(s) - k /\ \A i \in 1..(Len(s) - k) : q[i] = s[k + i]
        /\ q \in Seq(Nat)
    OBVIOUS
  <1>3. Increasing(p) BY <1>1 DEF Increasing
  <1>4. Range(p) = {s[i] : i \in 1..k} BY <1>1 DEF Range
  <1>5. Range(q) = {s[i] : i \in (k + 1)..Len(s)}
    <2>1. Range(q) \subseteq {s[i] : i \in (k + 1)..Len(s)} BY <1>1, <1>2 DEF Range
    <2>2. ASSUME NEW i \in (k + 1)..Len(s) PROVE s[i] \in Range(q)
      <3>1. i - k \in 1..(Len(s) - k) BY <1>1
      <3>2. q[i - k] = s[i] BY <1>2, <3>1
      <3>3. q \in Seq(Nat) BY <1>2
      <3> HIDE DEF q
      <3>4. Range(q) = {q[j] : j \in 1..Len(q)} BY <3>3, RangeEquality, Zenon
      <3> QED BY <1>2, <3>1, <3>2, <3>4
    <2> QED BY <2>1, <2>2
  <1>6. Range(s) = {s[i] : i \in 1..Len(s)} BY DEF Range
  <1>7. Range(p) \cup Range(q) = Range(s) BY <1>1, <1>4, <1>5, <1>6
  <1>8. Range(p) \cap Range(q) = {}
    <2>1. \A i \in 1..k, j \in (k + 1)..Len(s) : s[i] < s[j] /\ s[i] \in Nat /\ s[j] \in Nat
      BY <1>1 DEF Increasing
    <2> QED BY SMTT(40), <1>4, <1>5, <2>1
  <1> QED BY <1>1, <1>3, <1>7, <1>8

-----------------------------------------------------------------------------
(* Types and the dialer.                                                   *)

LEMMA MinOfTwo ==
    ASSUME NEW a \in Nat, NEW b \in Nat
    PROVE  Min({a, b}) \in {a, b} /\ Min({a, b}) <= a /\ Min({a, b}) <= b
  <1>1. \E x \in {a, b} : \A y \in {a, b} : x <= y
    <2>1. a <= b \/ b <= a OBVIOUS
    <2> QED BY <2>1
  <1> QED BY <1>1 DEF Min

LEMMA DelayType == ASSUME LinkTypeOK PROVE Delay \in 1..(MaxShift + 1)
  <1>1. failures \in Nat /\ MaxShift \in Nat BY LinkAssumption DEF LinkConstantsOK, LinkTypeOK
  <1> QED BY <1>1, MinOfTwo DEF Delay

LEMMA CountType ==
    ASSUME NEW k, counters \in [Counters -> Nat]
    PROVE  Count(k) \in [Counters -> Nat]
  BY DEF Count

\* What Dialer leaves alone, and where it leads.
LEMMA DialerFrame ==
    ASSUME LinkTypeOK, NEW from, NEW to, Dialer(from, to)
    PROVE  /\ pause' \in 0..(MaxShift + 1) /\ (pause' > 1 => pc' = "backoff")
           /\ pc = from /\ pc' = to
           /\ UNCHANGED <<open, sent, received, partition, dropProb, resetProb, latency>>
           /\ UNCHANGED <<resolves, peerUp, faults>>
  <1>1. Delay \in 1..(MaxShift + 1) /\ MaxShift \in Nat
    BY DelayType, LinkAssumption DEF LinkConstantsOK
  <1> QED BY <1>1 DEF Dialer, nemVars, envVars

\* The messages a frame sequence holds are messages.
LEMMA FramesTyped ==
    ASSUME LinkTypeOK
    PROVE  /\ MaxMsgs \in Nat /\ MaxShift \in Nat /\ MaxFailures \in Nat /\ DeadWrites \in Nat
           /\ MaxFaults \in Nat
           /\ rx \in Seq(Nat) /\ Range(rx) \subseteq Msgs
           /\ \A c \in Conns : /\ wire[c] \in Seq({Hello} \cup Msgs) /\ wire[c] \in Seq(Nat)
                               /\ Range(wire[c]) \subseteq {Hello} \cup Msgs
                               /\ App(wire[c]) \subseteq Msgs
           /\ \A k \in 1..Len(received) : received[k] \in [msg : Msgs, conn : Conns]
           /\ Len(received) \in Nat
  <1>1. /\ MaxMsgs \in Nat /\ MaxShift \in Nat /\ MaxFailures \in Nat /\ DeadWrites \in Nat
        /\ MaxFaults \in Nat
    BY LinkAssumption DEF LinkConstantsOK
  <1>2. rx \in Seq(Msgs) BY DEF LinkTypeOK
  <1>3. rx \in Seq(Nat) /\ Range(rx) \subseteq Msgs
    <2>1. Range(rx) \subseteq Msgs BY <1>2, RangeOfSeq
    <2>2. Msgs \subseteq Nat BY DEF Msgs
    <2>3. rx \in Seq(Nat) BY <1>2, <2>2, SeqMonotonic
    <2> QED BY <2>1, <2>3
  <1>4. ASSUME NEW c \in Conns
        PROVE  /\ wire[c] \in Seq({Hello} \cup Msgs) /\ wire[c] \in Seq(Nat)
               /\ Range(wire[c]) \subseteq {Hello} \cup Msgs /\ App(wire[c]) \subseteq Msgs
    <2>1. wire[c] \in Seq({Hello} \cup Msgs) BY DEF LinkTypeOK
    <2>2. Range(wire[c]) \subseteq {Hello} \cup Msgs BY <2>1, RangeOfSeq
    <2>3. wire[c] \in Seq(Nat) BY <2>1 DEF Msgs, Hello
    <2> QED BY <2>1, <2>2, <2>3 DEF App
  <1>5. received \in Seq([msg : Msgs, conn : Conns]) BY DEF LinkTypeOK
  <1>6. Len(received) \in Nat /\ \A k \in 1..Len(received) : received[k] \in [msg : Msgs, conn : Conns]
    BY <1>5, ElementOfSeq, LenProperties
  <1> QED BY <1>1, <1>3, <1>4, <1>6

\* Losing a message keeps the type of `lost`.
LEMMA LostTyped ==
    ASSUME NEW w \in Places, NEW S \in SUBSET Msgs, lost \in [Places -> SUBSET Msgs]
    PROVE  [lost EXCEPT ![w] = @ \cup S] \in [Places -> SUBSET Msgs]
  OBVIOUS

\* A write puts a frame on a connection or is swallowed.
LEMMA WriteTyped ==
    ASSUME LinkTypeOK, conn \in Conns, NEW f \in {Hello} \cup Msgs,
           Written(conn, f) \/ Swallowed(conn)
    PROVE  wire' \in [Conns -> Seq({Hello} \cup Msgs)] /\ taken' \in [Conns -> 0..DeadWrites]
  <1>1. /\ wire \in [Conns -> Seq({Hello} \cup Msgs)] /\ taken \in [Conns -> 0..DeadWrites]
        /\ DeadWrites \in Nat
    BY FramesTyped DEF LinkTypeOK
  <1>2. CASE Written(conn, f)
    <2>1. wire[conn] \in Seq({Hello} \cup Msgs) BY <1>1
    <2>2. Append(wire[conn], f) \in Seq({Hello} \cup Msgs) BY <2>1
    <2> QED BY <1>1, <1>2, <2>2 DEF Written
  <1>3. CASE Swallowed(conn)
    <2>1. taken[conn] \in 0..DeadWrites BY <1>1
    <2>2. taken[conn] + 1 \in 0..DeadWrites BY <1>1, <1>3, <2>1 DEF Swallowed
    <2> QED BY <1>1, <1>3, <2>2 DEF Swallowed
  <1> QED BY <1>2, <1>3

LEMMA SendTyped ==
    ASSUME LinkTypeOK, BackoffOnlyWhileFailing, Send \/ Shutdown
    PROVE  LinkTypeOK' /\ BackoffOnlyWhileFailing'
  <1> USE DEF LinkTypeOK, BackoffOnlyWhileFailing, dialVars, netVars, nemVars, envVars
  <1>1. MaxMsgs \in Nat /\ Capacity \in Nat BY LinkAssumption DEF LinkConstantsOK
  <1>2. CASE Send /\ QueueHasRoom
    <2>1. sent + 1 \in Msgs BY <1>1, <1>2 DEF Send, Msgs
    <2>2. rx \in Seq(Msgs) /\ Len(rx) < Capacity /\ rx' = Append(rx, sent + 1)
      BY <1>2 DEF Send, QueueHasRoom
    <2>3. rx' \in Seq(Msgs) /\ Len(rx') = Len(rx) + 1
      BY <2>1, <2>2, AppendProperties
    <2>4. Len(rx') <= Capacity BY <1>1, <2>2, <2>3, LenProperties
    <2> QED BY <1>1, <1>2, <2>1, <2>3, <2>4 DEF Send
  <1>3. CASE Send /\ ~QueueHasRoom
    <2>1. sent + 1 \in Msgs BY <1>1, <1>3 DEF Send, Msgs
    <2>2. lost' \in [Places -> SUBSET Msgs] BY <1>3, <2>1, LostTyped DEF Send, Places
    <2> QED BY <1>1, <1>3, <2>1, <2>2 DEF Send
  <1>4. CASE Shutdown
    <2>1. open' \in BOOLEAN BY <1>4 DEF Shutdown
    <2>2. UNCHANGED <<pc, failures, pause, rx, hand, conn, wire, alive, taken, reader, sent,
                      received, lost, partition, dropProb, resetProb, latency, counters,
                      resolves, peerUp, faults>>
      BY <1>4 DEF Shutdown
    <2> QED BY <2>1, <2>2
  <1> QED BY <1>2, <1>3, <1>4

\* What a step of the dialer that takes nothing from the queue, writes
\* nothing and loses nothing leaves alone.
Idle == UNCHANGED <<rx, hand, wire, lost, counters, sent, received>>

\* The dialer's steps between two messages.
IdleDialer ==
    \/ Resolve \/ ResolveFails \/ SleepAndEscalate \/ Connect \/ ConnectFails
    \/ GreetFails \/ Retry \/ End

LEMMA IdleDialerTyped ==
    ASSUME LinkTypeOK, BackoffOnlyWhileFailing, DialerInv, IdleDialer
    PROVE  LinkTypeOK' /\ BackoffOnlyWhileFailing' /\ DialerInv' /\ Idle
  <1> USE DEF LinkTypeOK, BackoffOnlyWhileFailing, DialerInv, Idle, netVars
  <1>1. MaxFailures \in Nat BY FramesTyped
  <1>2. CASE Resolve
    <2>1. /\ pause' \in 0..(MaxShift + 1) /\ (pause' > 1 => pc' = "backoff")
          /\ pc = "resolve" /\ pc' = "connect"
          /\ UNCHANGED <<open, sent, received, partition, dropProb, resetProb, latency>>
          /\ UNCHANGED <<resolves, peerUp, faults>>
      BY <1>2, DialerFrame DEF Resolve
    <2>2. Idle /\ DialerInv' BY <1>2, <2>1 DEF Resolve
    <2>3. BackoffOnlyWhileFailing' BY <1>2, <2>1, FramesTyped DEF Resolve
    <2>4. LinkTypeOK' BY <1>1, <1>2, <2>1 DEF Resolve
    <2> QED BY <2>2, <2>3, <2>4
  <1>3. CASE ResolveFails
    <2>1. /\ pause' \in 0..(MaxShift + 1) /\ (pause' > 1 => pc' = "backoff")
          /\ pc = "resolve" /\ pc' = "backoff"
          /\ UNCHANGED <<open, sent, received, partition, dropProb, resetProb, latency>>
          /\ UNCHANGED <<resolves, peerUp, faults>>
      BY <1>3, DialerFrame DEF ResolveFails
    <2>2. Idle /\ DialerInv' BY <1>3, <2>1 DEF ResolveFails
    <2>3. BackoffOnlyWhileFailing' BY <1>3, <2>1, FramesTyped DEF ResolveFails
    <2>4. LinkTypeOK' BY <1>1, <1>3, <2>1 DEF ResolveFails
    <2> QED BY <2>2, <2>3, <2>4
  <1>4. CASE SleepAndEscalate
    <2>1. failures' \in 0..MaxFailures
      <3>1. failures + 1 \in Nat /\ failures' = Min({failures + 1, MaxFailures})
        BY <1>1, <1>4 DEF SleepAndEscalate
      <3> DEFINE m == Min({failures + 1, MaxFailures})
      <3>2. m \in {failures + 1, MaxFailures} /\ m <= MaxFailures
        BY <1>1, <3>1, MinOfTwo, Zenon
      <3> HIDE DEF m
      <3>3. m \in Nat BY <1>1, <3>1, <3>2
      <3>4. m \in 0..MaxFailures BY <1>1, <3>2, <3>3
      <3> QED BY <3>1, <3>4 DEF m
    <2> QED BY SMTT(90), <1>4, <2>1, DialerFrame DEF SleepAndEscalate
  <1>5. CASE Connect
    <2>1. PICK c \in Conns :
            /\ Free(c) /\ conn' = c
            /\ alive' = [alive EXCEPT ![c] = TRUE] /\ taken' = [taken EXCEPT ![c] = 0]
            /\ reader' = [reader EXCEPT ![c] = "hello"]
      BY <1>5 DEF Connect
    <2>2. DeadWrites \in Nat BY FramesTyped
    <2>3. wire[c] = <<>> BY <2>1 DEF Free
    <2>4. /\ alive' \in [Conns -> BOOLEAN] /\ taken' \in [Conns -> 0..DeadWrites]
          /\ reader' \in [Conns -> {"none", "hello", "open"}]
          /\ reader'[c] = "hello" /\ \A d \in Conns : d # c => reader'[d] = reader[d]
      BY <2>1, <2>2
    <2>5. /\ pause' \in 0..(MaxShift + 1) /\ (pause' > 1 => pc' = "backoff")
          /\ pc = "connect" /\ pc' = "greet"
          /\ UNCHANGED <<open, sent, received, partition, dropProb, resetProb, latency>>
          /\ UNCHANGED <<resolves, peerUp, faults>>
      BY <1>5, DialerFrame DEF Connect
    <2>6. Idle /\ UNCHANGED failures BY <1>5, <2>5 DEF Connect
    <2>7. DialerInv' BY <2>1, <2>3, <2>4, <2>5, <2>6
    <2>8. BackoffOnlyWhileFailing' BY <2>5, <2>6, FramesTyped
    <2>9. LinkTypeOK' BY <2>1, <2>4, <2>5, <2>6
    <2> QED BY <2>6, <2>7, <2>8, <2>9
  <1>6. CASE ConnectFails
    <2>1. /\ pause' \in 0..(MaxShift + 1) /\ (pause' > 1 => pc' = "backoff")
          /\ pc = "connect" /\ pc' = "sleep"
          /\ UNCHANGED <<open, sent, received, partition, dropProb, resetProb, latency>>
          /\ UNCHANGED <<resolves, peerUp, faults>>
      BY <1>6, DialerFrame DEF ConnectFails
    <2>2. Idle /\ UNCHANGED <<failures, conn, alive, taken, reader>>
      BY <1>6, <2>1 DEF ConnectFails
    <2>3. DialerInv' BY <2>1, <2>2
    <2>4. BackoffOnlyWhileFailing' BY <2>1, <2>2, FramesTyped
    <2>5. LinkTypeOK' BY <2>1, <2>2
    <2> QED BY <2>2, <2>3, <2>4, <2>5
  <1>7. CASE GreetFails
    <2>1. /\ pause' \in 0..(MaxShift + 1) /\ (pause' > 1 => pc' = "backoff")
          /\ pc = "greet" /\ pc' = "sleep"
          /\ UNCHANGED <<open, sent, received, partition, dropProb, resetProb, latency>>
          /\ UNCHANGED <<resolves, peerUp, faults>>
      BY <1>7, DialerFrame DEF GreetFails
    <2>2. Idle /\ conn' = 0 /\ UNCHANGED <<failures, alive, taken, reader>>
      BY <1>7, <2>1 DEF GreetFails
    <2>3. DialerInv' BY <2>1, <2>2
    <2>4. BackoffOnlyWhileFailing' BY <2>1, <2>2, FramesTyped
    <2>5. LinkTypeOK' BY <2>1, <2>2
    <2> QED BY <2>2, <2>3, <2>4, <2>5
  <1>8. CASE Retry BY <1>8, DialerFrame DEF Retry
  <1>9. CASE End BY SMTT(60), <1>9, DialerFrame DEF End
  <1> QED BY <1>2, <1>3, <1>4, <1>5, <1>6, <1>7, <1>8, <1>9 DEF IdleDialer

\* A greeting: the connection's first frame, or none.
Greets ==
    /\ \E c \in Conns : /\ wire[c] = <<>>
                        /\ wire' = wire \/ wire' = [wire EXCEPT ![c] = <<Hello>>]
    /\ UNCHANGED <<rx, hand, lost, counters, sent, received>>

LEMMA GreetTyped ==
    ASSUME LinkTypeOK, BackoffOnlyWhileFailing, DialerInv, Greet
    PROVE  LinkTypeOK' /\ BackoffOnlyWhileFailing' /\ DialerInv' /\ Greets
  <1> USE DEF LinkTypeOK, BackoffOnlyWhileFailing
  <1>1. /\ pause' \in 0..(MaxShift + 1) /\ (pause' > 1 => pc' = "backoff")
        /\ pc = "greet" /\ pc' = "recv"
        /\ UNCHANGED <<open, sent, received, partition, dropProb, resetProb, latency>>
        /\ UNCHANGED <<resolves, peerUp, faults>>
    BY DialerFrame DEF Greet
  <1>2. UNCHANGED <<failures, rx, hand, conn, alive, reader, lost, counters>> BY DEF Greet
  <1>3. conn \in Conns /\ wire[conn] = <<>> /\ reader[conn] # "open" BY <1>1 DEF DialerInv
  <1>4. wire' \in [Conns -> Seq({Hello} \cup Msgs)] /\ taken' \in [Conns -> 0..DeadWrites]
    BY <1>3, WriteTyped DEF Greet
  <1>5. LinkTypeOK' BY <1>1, <1>2, <1>4
  <1>6. BackoffOnlyWhileFailing' BY <1>1, <1>2, FramesTyped
  <1>7. wire' = wire \/ wire' = [wire EXCEPT ![conn] = <<Hello>>]
    <2>1. Append(wire[conn], Hello) = <<Hello>> BY <1>3
    <2> QED BY <2>1 DEF Greet, Written, Swallowed
  <1>8. Greets BY <1>1, <1>2, <1>3, <1>7 DEF Greets
  <1>9. DialerInv'
    <2>1. \A c \in Conns : c # conn => wire'[c] = wire[c] BY <1>7
    <2> QED BY <1>1, <1>2, <1>3, <2>1 DEF DialerInv
  <1> QED BY <1>5, <1>6, <1>8, <1>9

\* A message leaves the queue, for the dialer's hand or for good.
Takes ==
    /\ rx # <<>> /\ rx' = Tail(rx) /\ hand = 0
    /\ \/ hand' = Head(rx) /\ lost' = lost /\ counters' \in {counters, Count("delays_applied")}
       \/ /\ hand' = 0 /\ lost' = [lost EXCEPT !["nemesis"] = @ \cup {Head(rx)}]
          /\ \E k \in {"partition_drops", "prob_drops", "resets"} : counters' = Count(k)
    /\ UNCHANGED <<wire, sent, received>>

LEMMA QueueTyped ==
    ASSUME LinkTypeOK, rx # <<>>
    PROVE  Tail(rx) \in Seq(Msgs) /\ Len(Tail(rx)) <= Capacity /\ Head(rx) \in Msgs /\ Head(rx) # 0
  <1>1. rx \in Seq(Msgs) /\ Len(rx) <= Capacity /\ Capacity \in Nat
    BY LinkAssumption DEF LinkConstantsOK, LinkTypeOK
  <1>2. /\ Tail(rx) \in Seq(Msgs) /\ Len(Tail(rx)) = Len(rx) - 1 /\ Len(rx) \in Nat
        /\ Head(rx) \in Msgs
    BY <1>1, HeadTailProperties, LenProperties
  <1> QED BY <1>1, <1>2 DEF Msgs

LEMMA TakeTyped ==
    ASSUME LinkTypeOK, BackoffOnlyWhileFailing, DialerInv,
           TakeAndSend \/ TakeAndLose("drop", "recv") \/ TakeAndLose("reset", "sleep")
    PROVE  LinkTypeOK' /\ BackoffOnlyWhileFailing' /\ DialerInv' /\ Takes
  <1> USE DEF LinkTypeOK, BackoffOnlyWhileFailing
  <1>1. CASE TakeAndSend
    <2>1. /\ pause' \in 0..(MaxShift + 1) /\ (pause' > 1 => pc' = "backoff")
          /\ pc = "recv" /\ pc' = "delay"
          /\ UNCHANGED <<open, sent, received, partition, dropProb, resetProb, latency>>
          /\ UNCHANGED <<resolves, peerUp, faults>>
      BY <1>1, DialerFrame DEF TakeAndSend
    <2>2. /\ UNCHANGED <<failures, conn, wire, alive, taken, reader, lost>> /\ rx # <<>>
          /\ rx' = Tail(rx) /\ hand' = Head(rx) /\ counters' \in {counters, Count("delays_applied")}
      BY <1>1 DEF TakeAndSend, Rest, netVars
    <2>3. hand = 0 /\ conn \in Conns BY <2>1 DEF DialerInv
    <2>4. counters' \in [Counters -> Nat] BY <2>2, CountType
    <2>5. /\ rx' \in Seq(Msgs) /\ Len(rx') <= Capacity /\ hand' \in Msgs /\ hand' # 0
      BY <2>2, QueueTyped
    <2>6. LinkTypeOK' BY <2>1, <2>2, <2>4, <2>5
    <2>7. BackoffOnlyWhileFailing' BY <2>1, <2>2, FramesTyped
    <2>8. Takes BY <2>1, <2>2, <2>3 DEF Takes
    <2>9. DialerInv' BY <2>1, <2>2, <2>3, <2>5 DEF DialerInv
    <2> QED BY <2>6, <2>7, <2>8, <2>9
  <1>2. ASSUME NEW verdict, NEW next \in {"recv", "sleep"}, TakeAndLose(verdict, next),
               verdict # "send"
        PROVE  LinkTypeOK' /\ BackoffOnlyWhileFailing' /\ DialerInv' /\ Takes
    <2>1. /\ pause' \in 0..(MaxShift + 1) /\ (pause' > 1 => pc' = "backoff")
          /\ pc = "recv" /\ pc' = next
          /\ UNCHANGED <<open, sent, received, partition, dropProb, resetProb, latency>>
          /\ UNCHANGED <<resolves, peerUp, faults>>
      BY <1>2, DialerFrame DEF TakeAndLose
    <2>2. /\ UNCHANGED <<failures, hand, wire, alive, taken, reader>> /\ rx # <<>>
          /\ rx' = Tail(rx) /\ lost' = [lost EXCEPT !["nemesis"] = @ \cup {Head(rx)}]
          /\ conn' = IF next = "recv" THEN conn ELSE 0
      BY <1>2 DEF TakeAndLose, Rest, netVars
    <2>3. hand = 0 /\ conn \in Conns BY <2>1 DEF DialerInv
    <2>4. PICK d \in Decide : d[1] = verdict /\ counters' = Count(d[2])
      BY <1>2 DEF TakeAndLose
    <2>5. d[2] \in {"partition_drops", "prob_drops", "resets"}
      BY <1>2, <2>4 DEF Decide
    <2>6. counters' \in [Counters -> Nat] BY <2>4, CountType
    <2>7. rx' \in Seq(Msgs) /\ Len(rx') <= Capacity /\ {Head(rx)} \in SUBSET Msgs
      BY <2>2, QueueTyped
    <2>8. lost' \in [Places -> SUBSET Msgs] BY <2>2, <2>7, LostTyped DEF Places
    <2>9. LinkTypeOK' BY <2>1, <2>2, <2>3, <2>6, <2>7, <2>8
    <2>10. BackoffOnlyWhileFailing' BY <2>1, <2>2, FramesTyped
    <2>11. Takes BY <2>1, <2>2, <2>3, <2>4, <2>5 DEF Takes
    <2>12. DialerInv' BY <2>1, <2>2, <2>3 DEF DialerInv
    <2> QED BY <2>9, <2>10, <2>11, <2>12
  <1> QED BY <1>1, <1>2

\* The message in hand is written on a connection, or lost.
Leaves ==
    /\ hand # 0 /\ hand' = 0 /\ rx' = rx
    /\ \/ \E c \in Conns : wire' = [wire EXCEPT ![c] = Append(@, hand)] /\ lost' = lost
       \/ /\ wire' = wire
          /\ \E w \in {"network", "write"} : lost' = [lost EXCEPT ![w] = @ \cup {hand}]
    /\ UNCHANGED <<counters, sent, received>>

LEMMA WriteStepTyped ==
    ASSUME LinkTypeOK, BackoffOnlyWhileFailing, DialerInv, Write \/ WriteFails
    PROVE  LinkTypeOK' /\ BackoffOnlyWhileFailing' /\ DialerInv' /\ Leaves
  <1> USE DEF LinkTypeOK, BackoffOnlyWhileFailing
  <1>1. CASE Write
    <2>1. /\ pause' \in 0..(MaxShift + 1) /\ (pause' > 1 => pc' = "backoff")
          /\ pc = "delay" /\ pc' = "recv"
          /\ UNCHANGED <<open, sent, received, partition, dropProb, resetProb, latency>>
          /\ UNCHANGED <<resolves, peerUp, faults>>
      BY <1>1, DialerFrame DEF Write
    <2>2. UNCHANGED <<failures, rx, conn, alive, reader, counters>> /\ hand' = 0
      BY <1>1 DEF Write
    <2>3. hand # 0 /\ hand \in Msgs /\ conn \in Conns BY <2>1 DEF DialerInv
    <2>4. wire' \in [Conns -> Seq({Hello} \cup Msgs)] /\ taken' \in [Conns -> 0..DeadWrites]
      BY <1>1, <2>3, WriteTyped DEF Write
    <2>5. \/ wire' = [wire EXCEPT ![conn] = Append(@, hand)] /\ lost' = lost
          \/ wire' = wire /\ lost' = [lost EXCEPT !["network"] = @ \cup {hand}]
      BY <1>1 DEF Write, Written, Swallowed
    <2>6. lost' \in [Places -> SUBSET Msgs] BY <2>3, <2>5, LostTyped DEF Places
    <2>7. LinkTypeOK' BY <2>1, <2>2, <2>4, <2>6
    <2>8. BackoffOnlyWhileFailing' BY <2>1, <2>2, FramesTyped
    <2>9. Leaves BY <2>1, <2>2, <2>3, <2>5 DEF Leaves
    <2>10. \A c \in Conns : reader'[c] = "open" => Hello \notin Range(wire'[c])
      <3>1. wire[conn] \in Seq(Nat) /\ hand \in Nat BY <2>3, FramesTyped DEF Msgs
      <3>2. Range(Append(wire[conn], hand)) = Range(wire[conn]) \cup {hand}
        BY <3>1, AppendRange
      <3>3. \A c \in Conns : Range(wire'[c]) \subseteq Range(wire[c]) \cup {hand}
        BY <2>3, <2>5, <3>2
      <3> QED BY <2>2, <2>3, <3>3 DEF DialerInv, Hello
    <2>11. DialerInv' BY <2>1, <2>2, <2>3, <2>10 DEF DialerInv
    <2> QED BY <2>7, <2>8, <2>9, <2>11
  <1>2. CASE WriteFails
    <2>1. /\ pause' \in 0..(MaxShift + 1) /\ (pause' > 1 => pc' = "backoff")
          /\ pc = "delay" /\ pc' = "sleep"
          /\ UNCHANGED <<open, sent, received, partition, dropProb, resetProb, latency>>
          /\ UNCHANGED <<resolves, peerUp, faults>>
      BY <1>2, DialerFrame DEF WriteFails
    <2>2. /\ UNCHANGED <<failures, rx, wire, alive, taken, reader, counters>>
          /\ hand' = 0 /\ conn' = 0 /\ lost' = [lost EXCEPT !["write"] = @ \cup {hand}]
      BY <1>2 DEF WriteFails, netVars
    <2>3. hand # 0 /\ {hand} \in SUBSET Msgs BY <2>1 DEF DialerInv
    <2>4. lost' \in [Places -> SUBSET Msgs] BY <2>2, <2>3, LostTyped DEF Places
    <2>5. LinkTypeOK' BY <2>1, <2>2, <2>4
    <2>6. BackoffOnlyWhileFailing' BY <2>1, <2>2, FramesTyped
    <2>7. Leaves BY <2>1, <2>2, <2>3 DEF Leaves
    <2>8. DialerInv' BY <2>1, <2>2 DEF DialerInv
    <2> QED BY <2>5, <2>6, <2>7, <2>8
  <1> QED BY <1>1, <1>2

\* The first frame of a connection is read: Hello, or a message for the inbox.
Opens ==
    /\ \E c \in Conns : /\ wire[c] # <<>> /\ Head(wire[c]) = Hello
                        /\ wire' = [wire EXCEPT ![c] = Tail(@)]
    /\ UNCHANGED <<rx, hand, lost, counters, sent, received>>

Passes ==
    /\ \E c \in Conns : /\ wire[c] # <<>> /\ Head(wire[c]) # Hello
                        /\ wire' = [wire EXCEPT ![c] = Tail(@)]
                        /\ received' = Append(received, [msg |-> Head(wire[c]), conn |-> c])
    /\ UNCHANGED <<rx, hand, lost, counters, sent>>

LEMMA ReadTyped ==
    ASSUME LinkTypeOK, BackoffOnlyWhileFailing, DialerInv, OrderInv,
           NEW c \in Conns, ReaderTask(c)
    PROVE  LinkTypeOK' /\ BackoffOnlyWhileFailing' /\ DialerInv' /\ (Idle \/ Opens \/ Passes)
  <1> USE DEF dialVars, nemVars, envVars
  <1>1. CASE ReadEnd(c)
    <2>1. /\ reader' = [reader EXCEPT ![c] = "none"] /\ UNCHANGED <<dialVars, wire, alive, taken>>
          /\ UNCHANGED <<open, sent, received, lost, nemVars, counters, envVars>>
      BY <1>1 DEF ReadEnd
    <2>2. LinkTypeOK' BY <2>1 DEF LinkTypeOK
    <2>3. DialerInv'
      <3>1. \A d \in Conns : reader'[d] = "open" => reader[d] = "open"
        BY <2>1 DEF LinkTypeOK
      <3>2. pc = "greet" => conn \in Conns /\ reader'[conn] # "open"
        BY <3>1 DEF DialerInv
      <3> QED BY <2>1, <3>1, <3>2 DEF DialerInv
    <2>4. BackoffOnlyWhileFailing' BY <2>1 DEF BackoffOnlyWhileFailing
    <2>5. Idle BY <2>1 DEF Idle
    <2> QED BY <2>2, <2>3, <2>4, <2>5
  <1>2. ASSUME Reader(c), reader[c] = "open" \/ Head(wire[c]) = Hello,
               \A d \in Conns : reader'[d] = "open" => reader[d] = "open" \/ d = c
        PROVE  /\ wire' \in [Conns -> Seq({Hello} \cup Msgs)] /\ BackoffOnlyWhileFailing'
               /\ DialerInv' /\ wire[c] # <<>> /\ wire' = [wire EXCEPT ![c] = Tail(@)]
               /\ Head(wire[c]) \in Range(wire[c]) /\ Head(wire[c]) \in {Hello} \cup Msgs
    <2>1. /\ wire[c] # <<>> /\ wire' = [wire EXCEPT ![c] = Tail(@)] /\ UNCHANGED dialVars
      BY <1>2 DEF Reader
    <2>2. wire[c] \in Seq({Hello} \cup Msgs) /\ wire[c] \in Seq(Nat) /\ Increasing(wire[c])
      BY FramesTyped DEF OrderInv
    <2>3. Tail(wire[c]) \in Seq({Hello} \cup Msgs) BY <2>1, <2>2, HeadTailProperties
    <2>4. wire' \in [Conns -> Seq({Hello} \cup Msgs)] BY <2>1, <2>3 DEF LinkTypeOK
    <2>5. BackoffOnlyWhileFailing' BY <2>1 DEF BackoffOnlyWhileFailing
    <2>6. /\ Head(wire[c]) \in Range(wire[c]) /\ Head(wire[c]) \in Nat
          /\ Range(Tail(wire[c])) = Range(wire[c]) \ {Head(wire[c])}
          /\ \A m \in Range(Tail(wire[c])) : Head(wire[c]) < m
      BY <2>1, <2>2, IncreasingTail
    <2>7. Hello \notin Range(Tail(wire[c]))
      <3>1. CASE reader[c] = "open" BY <2>6, <3>1 DEF DialerInv
      <3>2. CASE Head(wire[c]) = Hello BY <2>6, <3>2 DEF Hello
      <3> QED BY <1>2, <3>1, <3>2
    <2>8. pc = "greet" => conn # c BY <2>1 DEF DialerInv
    <2>9. /\ wire'[c] = Tail(wire[c]) /\ \A d \in Conns : d # c => wire'[d] = wire[d]
      BY <2>1 DEF LinkTypeOK
    <2>10. DialerInv' BY <1>2, <2>1, <2>7, <2>8, <2>9 DEF DialerInv
    <2>11. Head(wire[c]) \in {Hello} \cup Msgs BY <2>1, <2>2, HeadTailProperties
    <2> QED BY <2>1, <2>4, <2>5, <2>6, <2>10, <2>11
  <1>3. CASE ReadHello(c)
    <2>1. /\ Reader(c) /\ Head(wire[c]) = Hello /\ UNCHANGED received
          /\ reader' = [reader EXCEPT ![c] = "open"]
      BY <1>3 DEF ReadHello
    <2>2. \A d \in Conns : reader'[d] = "open" => reader[d] = "open" \/ d = c
      BY <2>1 DEF LinkTypeOK
    <2>3. /\ wire' \in [Conns -> Seq({Hello} \cup Msgs)] /\ BackoffOnlyWhileFailing'
          /\ DialerInv' /\ wire[c] # <<>> /\ wire' = [wire EXCEPT ![c] = Tail(@)]
      BY <1>2, <2>1, <2>2
    <2>4. UNCHANGED <<dialVars, alive, taken, open, sent, lost, nemVars, counters, envVars>>
      BY <2>1 DEF Reader
    <2>5. LinkTypeOK' BY <2>1, <2>3, <2>4 DEF LinkTypeOK
    <2>6. Opens BY <2>1, <2>3, <2>4 DEF Opens
    <2> QED BY <2>3, <2>5, <2>6
  <1>4. CASE ReadApp(c)
    <2>1. /\ Reader(c) /\ reader[c] = "open" /\ UNCHANGED reader
          /\ received' = Append(received, [msg |-> Head(wire[c]), conn |-> c])
      BY <1>4 DEF ReadApp
    <2>2. /\ wire' \in [Conns -> Seq({Hello} \cup Msgs)] /\ BackoffOnlyWhileFailing'
          /\ DialerInv' /\ wire[c] # <<>> /\ wire' = [wire EXCEPT ![c] = Tail(@)]
          /\ Head(wire[c]) \in Range(wire[c]) /\ Head(wire[c]) \in {Hello} \cup Msgs
      BY <1>2, <2>1
    <2>3. UNCHANGED <<dialVars, alive, taken, open, sent, lost, nemVars, counters, envVars>>
      BY <2>1 DEF Reader
    <2>4. Head(wire[c]) # Hello /\ Head(wire[c]) \in Msgs BY <2>1, <2>2 DEF DialerInv
    <2>5. received' \in Seq([msg : Msgs, conn : Conns])
      BY <2>1, <2>4, AppendProperties DEF LinkTypeOK
    <2>6. LinkTypeOK' BY SMTT(40), <2>1, <2>2, <2>3, <2>5 DEF LinkTypeOK
    <2>7. Passes BY <2>1, <2>2, <2>3, <2>4 DEF Passes
    <2> QED BY <2>2, <2>6, <2>7
  <1> QED BY <1>1, <1>3, <1>4 DEF ReaderTask

\* Connections break: what was on the wire and is there no longer is lost.
Breaks ==
    /\ wire' \in [Conns -> Seq(Nat)]
    /\ \A c \in Conns : Increasing(wire'[c]) /\ Range(wire'[c]) \subseteq Range(wire[c])
    /\ \E S \in SUBSET OnWire :
        /\ S \cap OnWire' = {} /\ S \cup OnWire' = OnWire
        /\ lost' = [lost EXCEPT !["network"] = @ \cup S]
    /\ UNCHANGED <<rx, hand, counters, sent, received>>

\* The messages that the connections of a set carry.
Carried(w, D) == UNION {App(w[d]) : d \in D}

LEMMA OnWireCarried == OnWire = Carried(wire, Conns) /\ OnWire' = Carried(wire', Conns)
  BY Zenon DEF OnWire, Carried

LEMMA InCarried ==
    ASSUME NEW w, NEW D, NEW m
    PROVE  m \in Carried(w, D) <=> \E d \in D : m \in App(w[d])
  BY DEF Carried

\* The wires, when only connection c has changed.
LEMMA WireUpdate ==
    ASSUME NEW w, NEW v, NEW c \in Conns, \A d \in Conns : d # c => v[d] = w[d]
    PROVE  Carried(v, Conns) = Carried(w, Conns \ {c}) \cup App(v[c])
  <1>1. ASSUME NEW m
        PROVE  m \in Carried(v, Conns) <=> m \in Carried(w, Conns \ {c}) \/ m \in App(v[c])
    <2>1. m \in Carried(v, Conns) <=> \E d \in Conns : m \in App(v[d]) BY InCarried
    <2>2. m \in Carried(w, Conns \ {c}) <=> \E d \in Conns \ {c} : m \in App(w[d])
      BY InCarried
    <2>3. (\E d \in Conns : m \in App(v[d])) => (\E d \in Conns \ {c} : m \in App(w[d])) \/ m \in App(v[c])
      <3>1. ASSUME NEW d \in Conns, m \in App(v[d])
            PROVE  (\E e \in Conns \ {c} : m \in App(w[e])) \/ m \in App(v[c])
        <4>1. CASE d = c BY <3>1, <4>1
        <4>2. CASE d # c
          <5>1. d \in Conns \ {c} /\ v[d] = w[d] BY <4>2
          <5> QED BY <3>1, <5>1
        <4> QED BY <4>1, <4>2
      <3> QED BY <3>1
    <2>4. ASSUME NEW d \in Conns \ {c}, m \in App(w[d]) PROVE \E e \in Conns : m \in App(v[e])
      <3>1. d \in Conns /\ v[d] = w[d] OBVIOUS
      <3> QED BY <2>4, <3>1
    <2> QED BY <2>1, <2>2, <2>3, <2>4
  <1> QED BY <1>1

\* A change of the environment is counted.
LEMMA FaultTyped ==
    ASSUME LinkTypeOK, faults < MaxFaults, faults' = faults + 1
    PROVE  faults' \in 0..MaxFaults
  <1>1. faults \in 0..MaxFaults /\ MaxFaults \in Nat BY FramesTyped DEF LinkTypeOK
  <1> QED BY <1>1

LEMMA OnWireTyped == ASSUME LinkTypeOK PROVE OnWire \subseteq Msgs
  BY FramesTyped DEF OnWire

LEMMA BreakTyped ==
    ASSUME LinkTypeOK, BackoffOnlyWhileFailing, DialerInv, OrderInv, StageInv,
           PeerDown \/ \E c \in Conns : Cut(c)
    PROVE  LinkTypeOK' /\ BackoffOnlyWhileFailing' /\ DialerInv' /\ Breaks
  <1> USE DEF dialVars, nemVars, Fault
  <1>1. CASE PeerDown
    <2>1. /\ alive' = [c \in Conns |-> FALSE] /\ wire' = [c \in Conns |-> <<>>]
          /\ reader' = [c \in Conns |-> "none"] /\ peerUp' = FALSE
          /\ lost' = [lost EXCEPT !["network"] = @ \cup OnWire]
          /\ UNCHANGED <<dialVars, taken, open, sent, received, counters, nemVars, resolves>>
          /\ faults < MaxFaults /\ faults' = faults + 1
      BY <1>1 DEF PeerDown, OnWire
    <2>2. lost' \in [Places -> SUBSET Msgs]
      BY <2>1, OnWireTyped, LostTyped DEF Places, LinkTypeOK
    <2>3. wire' \in [Conns -> Seq({Hello} \cup Msgs)] /\ wire' \in [Conns -> Seq(Nat)] BY <2>1
    <2>4. faults' \in 0..MaxFaults BY <2>1, FaultTyped
    <2>5. LinkTypeOK' BY <2>1, <2>2, <2>3, <2>4 DEF LinkTypeOK
    <2>6. BackoffOnlyWhileFailing' BY <2>1 DEF BackoffOnlyWhileFailing
    <2>7. DialerInv' BY <2>1 DEF DialerInv
    <2>8. \A c \in Conns : wire'[c] = <<>> /\ Len(wire'[c]) = 0 /\ Range(wire'[c]) = {}
      BY <2>1 DEF Range
    <2>9. OnWire' = {} BY <2>8 DEF OnWire, App
    <2>10. /\ OnWire \in SUBSET OnWire /\ OnWire \cap OnWire' = {} /\ OnWire \cup OnWire' = OnWire
           /\ lost' = [lost EXCEPT !["network"] = @ \cup OnWire]
      BY <2>1, <2>9
    <2>11. \A c \in Conns : Increasing(wire'[c]) /\ Range(wire'[c]) \subseteq Range(wire[c])
      BY <2>8 DEF Increasing
    <2>12. Breaks BY <2>1, <2>3, <2>10, <2>11 DEF Breaks
    <2> QED BY <2>5, <2>6, <2>7, <2>12
  <1>2. ASSUME NEW c \in Conns, Cut(c)
        PROVE  LinkTypeOK' /\ BackoffOnlyWhileFailing' /\ DialerInv' /\ Breaks
    <2>1. /\ alive' = [alive EXCEPT ![c] = FALSE]
          /\ UNCHANGED <<dialVars, taken, open, sent, received, counters>>
          /\ UNCHANGED <<reader, nemVars, resolves, peerUp>>
          /\ faults < MaxFaults /\ faults' = faults + 1
      BY <1>2 DEF Cut
    <2>2. PICK k \in 0..Len(wire[c]) :
            /\ wire' = [wire EXCEPT ![c] = SubSeq(@, 1, k)]
            /\ lost' = [lost EXCEPT !["network"] = @ \cup App(SubSeq(wire[c], k + 1, Len(wire[c])))]
      BY <1>2 DEF Cut
    <2> DEFINE p == SubSeq(wire[c], 1, k)
               q == SubSeq(wire[c], k + 1, Len(wire[c]))
    <2>3. /\ wire[c] \in Seq({Hello} \cup Msgs) /\ wire[c] \in Seq(Nat) /\ Increasing(wire[c])
          /\ \A d \in Conns : wire[d] \in Seq(Nat) /\ Increasing(wire[d]) /\ App(wire[d]) \subseteq Msgs
      BY FramesTyped DEF OrderInv
    <2>4. /\ p \in Seq(Nat) /\ Increasing(p)
          /\ Range(p) \cup Range(q) = Range(wire[c]) /\ Range(p) \cap Range(q) = {}
      BY <2>3, IncreasingSplit
    <2>5. p \in Seq({Hello} \cup Msgs) BY <2>3, SubSeqProperties
    <2>6. App(q) \in SUBSET Msgs /\ App(q) \in SUBSET OnWire
      BY <2>3, <2>4 DEF App, OnWire
    <2> HIDE DEF p, q
    <2>7. lost' = [lost EXCEPT !["network"] = @ \cup App(q)] BY <2>2 DEF q
    <2>8. /\ wire' \in [Conns -> Seq({Hello} \cup Msgs)] /\ wire'[c] = p
          /\ \A d \in Conns : d # c => wire'[d] = wire[d]
      BY <2>2, <2>5 DEF p, LinkTypeOK
    <2>9. lost' \in [Places -> SUBSET Msgs]
      BY <2>6, <2>7, LostTyped DEF Places, LinkTypeOK
    <2>10. faults' \in 0..MaxFaults BY <2>1, FaultTyped
    <2>11. LinkTypeOK'
      <3>1. wire' \in [Conns -> Seq({Hello} \cup Msgs)] BY <2>8
      <3>2. alive' \in [Conns -> BOOLEAN] BY <2>1 DEF LinkTypeOK
      <3>3. UNCHANGED <<pc, failures, pause, rx, hand, conn, taken, open, sent, received,
                        counters, reader, partition, dropProb, resetProb, latency,
                        resolves, peerUp>>
        BY <2>1 DEF dialVars, nemVars
      <3> QED BY SMTT(40), <2>9, <2>10, <3>1, <3>2, <3>3 DEF LinkTypeOK
    <2>12. BackoffOnlyWhileFailing' BY <2>1 DEF BackoffOnlyWhileFailing
    <2>13. DialerInv'
      <3>1. wire[c] = <<>> => p = <<>> BY <2>2 DEF p
      <3> QED BY <2>1, <2>4, <2>8, <3>1 DEF DialerInv
    <2>14. OnWire' = Carried(wire, Conns \ {c}) \cup App(p)
      BY <2>8, WireUpdate, OnWireCarried
    <2>15. OnWire = Carried(wire, Conns \ {c}) \cup App(p) \cup App(q)
      <3>1. App(wire[c]) = App(p) \cup App(q) BY <2>4 DEF App
      <3>2. OnWire = Carried(wire, Conns \ {c}) \cup App(wire[c])
        BY WireUpdate, OnWireCarried
      <3> QED BY <3>1, <3>2
    <2>16. App(q) \cap OnWire' = {}
      <3>1. \A d \in Conns \ {c} : App(wire[d]) \cap App(wire[c]) = {} BY DEF StageInv
      <3>2. App(q) \subseteq App(wire[c]) /\ App(q) \cap App(p) = {} BY <2>4 DEF App
      <3>3. App(q) \cap Carried(wire, Conns \ {c}) = {} BY <3>1, <3>2, InCarried
      <3> QED BY <2>14, <3>2, <3>3
    <2>17. Breaks
      <3>1. wire' \in [Conns -> Seq(Nat)] BY <2>3, <2>4, <2>8
      <3>2. \A d \in Conns : Increasing(wire'[d]) /\ Range(wire'[d]) \subseteq Range(wire[d])
        BY <2>3, <2>4, <2>8
      <3>3. App(q) \cup OnWire' = OnWire BY <2>14, <2>15
      <3> QED BY <2>1, <2>6, <2>7, <2>16, <3>1, <3>2, <3>3 DEF Breaks
    <2> QED BY <2>11, <2>12, <2>13, <2>17
  <1> QED BY <1>1, <1>2

\* What a test or the environment does to the injector, the name and the peer.
Outside ==
    \/ PeerStarts \/ NameChanges \/ Heal
    \/ \E s \in Splits : Partition(s)
    \/ \E x \in Chances : SetDropProb(x) \/ SetResetProb(x)
    \/ \E x \in BOOLEAN : SetLatency(x)

LEMMA OutsideTyped ==
    ASSUME LinkTypeOK, BackoffOnlyWhileFailing, DialerInv, Outside
    PROVE  LinkTypeOK' /\ BackoffOnlyWhileFailing' /\ DialerInv' /\ Idle
  <1>1. /\ faults < MaxFaults /\ faults' = faults + 1
        /\ UNCHANGED <<dialVars, taken, open, sent, received, counters, wire, alive, reader, lost>>
        /\ partition' \in Splits \cup {NoPartition} /\ dropProb' \in Chances
        /\ resetProb' \in Chances /\ latency' \in BOOLEAN
        /\ resolves' \in BOOLEAN /\ peerUp' \in BOOLEAN
    BY DEF Outside, PeerStarts, NameChanges, Heal, Partition, SetDropProb, SetResetProb,
           SetLatency, Harness, Fault, nemVars, LinkTypeOK
  <1>2. faults' \in 0..MaxFaults BY <1>1, FaultTyped
  <1>3. LinkTypeOK' BY <1>1, <1>2 DEF LinkTypeOK, dialVars
  <1>4. BackoffOnlyWhileFailing' BY <1>1 DEF BackoffOnlyWhileFailing, dialVars
  <1>5. DialerInv' /\ Idle BY <1>1 DEF DialerInv, Idle, dialVars
  <1> QED BY <1>3, <1>4, <1>5

-----------------------------------------------------------------------------
(* The stages a message goes through.                                      *)

\* Losing messages at a place.
LEMMA LostUpdate ==
    ASSUME LinkTypeOK, NEW w \in Places, NEW S, lost' = [lost EXCEPT ![w] = @ \cup S]
    PROVE  Lost' = Lost \cup S
  <1>1. \A m : m \in Lost <=> \E v \in Places : m \in lost[v] BY DEF Lost
  <1>2. \A m : m \in Lost' <=> \E v \in Places : m \in lost'[v] BY DEF Lost
  <1>3. /\ lost'[w] = lost[w] \cup S /\ \A v \in Places : v # w => lost'[v] = lost[v]
    BY DEF LinkTypeOK
  <1>4. ASSUME NEW m PROVE m \in Lost' <=> m \in Lost \/ m \in S
    <2>1. ASSUME NEW v \in Places, m \in lost'[v] PROVE m \in Lost \/ m \in S
      <3>1. CASE v = w BY <1>1, <1>3, <2>1, <3>1
      <3>2. CASE v # w BY <1>1, <1>3, <2>1, <3>2
      <3> QED BY <3>1, <3>2
    <2>2. ASSUME NEW v \in Places, m \in lost[v] PROVE m \in lost'[v]
      <3>1. CASE v = w BY <1>3, <2>2, <3>1
      <3>2. CASE v # w BY <1>3, <2>2, <3>2
      <3> QED BY <3>1, <3>2
    <2>3. m \in S => m \in lost'[w] BY <1>3
    <2> QED BY <1>1, <1>2, <2>1, <2>2, <2>3
  <1> QED BY <1>4

\* Passing a message on.
LEMMA PassedUpdate ==
    ASSUME LinkTypeOK, NEW m, NEW c, received' = Append(received, [msg |-> m, conn |-> c])
    PROVE  /\ Passed' = Passed \cup {m}
           /\ Len(received') = Len(received) + 1 /\ Len(received) \in Nat
           /\ received'[Len(received) + 1] = [msg |-> m, conn |-> c]
           /\ \A k \in 1..Len(received) : received'[k] = received[k]
  <1>1. received \in Seq([msg : Msgs, conn : Conns]) BY DEF LinkTypeOK
  <1>2. /\ Len(received') = Len(received) + 1 /\ Len(received) \in Nat
        /\ received'[Len(received) + 1] = [msg |-> m, conn |-> c]
        /\ \A k \in 1..Len(received) : received'[k] = received[k]
    BY <1>1
  <1>3. \A x : x \in Passed <=> \E k \in 1..Len(received) : x = received[k].msg BY DEF Passed
  <1>4. \A x : x \in Passed' <=> \E k \in 1..(Len(received) + 1) : x = received'[k].msg
    BY <1>2 DEF Passed
  <1>5. 1..(Len(received) + 1) = 1..Len(received) \cup {Len(received) + 1} BY <1>2
  <1>6. ASSUME NEW x PROVE x \in Passed' <=> x \in Passed \/ x = m
    BY <1>2, <1>3, <1>4, <1>5
  <1> QED BY <1>2, <1>6

\* The numbers of all messages are natural.
LEMMA StagesTyped ==
    ASSUME LinkTypeOK, StageInv
    PROVE  /\ sent \in Nat
           /\ \A m \in Range(rx) \cup InHand \cup OnWire \cup Passed \cup Lost :
                 m \in Nat /\ 1 <= m /\ m <= sent
  <1>1. sent \in Nat BY FramesTyped DEF LinkTypeOK
  <1> QED BY <1>1 DEF StageInv

LEMMA IdleKeeps ==
    ASSUME StageInv, OrderInv, CountInv, Idle
    PROVE  StageInv' /\ OrderInv' /\ CountInv'
  <1>1. UNCHANGED <<Range(rx), InHand, OnWire, Passed, Lost>>
    BY DEF Idle, InHand, OnWire, Passed, Lost
  <1>2. StageInv' BY <1>1 DEF Idle, StageInv
  <1>3. OrderInv' BY <1>1 DEF Idle, OrderInv, ConnectionFifo
  <1>4. CountInv' BY DEF Idle, CountInv
  <1> QED BY <1>2, <1>3, <1>4

LEMMA SendKeeps ==
    ASSUME LinkTypeOK, StageInv, OrderInv, CountInv, Send
    PROVE  StageInv' /\ OrderInv' /\ CountInv'
  <1> DEFINE e == sent + 1
  <1>1. /\ sent' = e /\ UNCHANGED <<hand, wire, received, counters>>
    BY DEF Send, netVars
  <1>2. sent \in Nat /\ \A m \in Range(rx) \cup InHand \cup OnWire \cup Passed \cup Lost :
                           m \in Nat /\ 1 <= m /\ m <= sent
    BY StagesTyped
  <1>3. InHand' = InHand /\ OnWire' = OnWire /\ Passed' = Passed
    BY <1>1 DEF InHand, OnWire, Passed
  <1>4. 1..e = 1..sent \cup {e} /\ e \in Nat BY <1>2
  <1>5. \A m \in Range(rx) \cup InHand \cup OnWire \cup Passed \cup Lost : m < e /\ m # e
    BY <1>2
  <1> HIDE DEF e
  <1>6. CASE QueueHasRoom
    <2>1. rx' = Append(rx, e) /\ lost' = lost BY <1>6 DEF Send, e
    <2>2. rx \in Seq(Nat) /\ Increasing(rx) BY FramesTyped DEF OrderInv
    <2>3. Range(rx') = Range(rx) \cup {e} BY <1>4, <2>1, <2>2, AppendRange
    <2>4. Increasing(rx') BY <1>4, <1>5, <2>1, <2>2, IncreasingAppend
    <2>5. Lost' = Lost BY <2>1 DEF Lost
    <2>6. StageInv'
      <3>1. Range(rx') \cup InHand' \cup OnWire' \cup Passed' \cup Lost' = 1..sent'
        BY <1>1, <1>3, <1>4, <2>3, <2>5 DEF StageInv
      <3>2. Range(rx') \cap (InHand' \cup OnWire' \cup Passed' \cup Lost') = {}
        BY <1>3, <1>5, <2>3, <2>5 DEF StageInv
      <3> QED BY <1>1, <1>3, <2>5, <3>1, <3>2 DEF StageInv
    <2>7. OrderInv'
      BY <1>1, <1>3, <1>5, <2>3, <2>4 DEF OrderInv, ConnectionFifo
    <2>8. CountInv' BY <1>1, <2>1 DEF CountInv
    <2> QED BY <2>6, <2>7, <2>8
  <1>7. CASE ~QueueHasRoom
    <2>1. rx' = rx /\ lost' = [lost EXCEPT !["full"] = @ \cup {e}] BY <1>7 DEF Send, e
    <2>2. Lost' = Lost \cup {e} BY <2>1, LostUpdate DEF Places
    <2>3. StageInv'
      <3>1. Range(rx') \cup InHand' \cup OnWire' \cup Passed' \cup Lost' = 1..sent'
        BY <1>1, <1>3, <1>4, <2>1, <2>2 DEF StageInv
      <3>2. /\ Range(rx') \cap (InHand' \cup OnWire' \cup Passed' \cup Lost') = {}
            /\ InHand' \cap (OnWire' \cup Passed' \cup Lost') = {}
            /\ OnWire' \cap (Passed' \cup Lost') = {} /\ Passed' \cap Lost' = {}
        BY <1>3, <1>5, <2>1, <2>2 DEF StageInv
      <3> QED BY <1>1, <3>1, <3>2 DEF StageInv
    <2>4. OrderInv' BY <1>1, <1>3, <2>1 DEF OrderInv, ConnectionFifo
    <2>5. lost'["nemesis"] = lost["nemesis"] BY <2>1 DEF LinkTypeOK, Places
    <2>6. CountInv' BY <1>1, <2>5 DEF CountInv
    <2> QED BY <2>3, <2>4, <2>6
  <1> QED BY <1>6, <1>7

LEMMA TakeKeepsStages ==
    ASSUME LinkTypeOK, StageInv, OrderInv, Takes
    PROVE  StageInv' /\ OrderInv'
  <1> DEFINE h == Head(rx)
  <1>1. rx \in Seq(Nat) /\ Increasing(rx) /\ rx # <<>> /\ rx' = Tail(rx)
    BY FramesTyped DEF OrderInv, Takes
  <1>2. /\ Increasing(rx') /\ h \in Range(rx) /\ h \in Nat
        /\ Range(rx') = Range(rx) \ {h} /\ \A m \in Range(rx') : h < m
    BY <1>1, IncreasingTail
  <1>3. UNCHANGED <<wire, sent, received>> /\ hand = 0 /\ InHand = {}
    BY DEF Takes, InHand
  <1>4. OnWire' = OnWire /\ Passed' = Passed BY <1>3 DEF OnWire, Passed
  <1>5. \/ InHand' = {h} /\ Lost' = Lost
        \/ InHand' = {} /\ Lost' = Lost \cup {h}
    <2>1. CASE hand' = Head(rx) /\ lost' = lost
      <3>1. h # 0 BY <1>1, QueueTyped
      <3> QED BY <2>1, <3>1 DEF InHand, Lost
    <2>2. CASE hand' = 0 /\ lost' = [lost EXCEPT !["nemesis"] = @ \cup {Head(rx)}]
      <3>1. Lost' = Lost \cup {h} BY <2>2, LostUpdate DEF Places
      <3> QED BY <2>2, <3>1 DEF InHand
    <2> QED BY <2>1, <2>2 DEF Takes
  <1> HIDE DEF h
  <1>6. StageInv'
    <2>1. Range(rx') \cup InHand' \cup OnWire' \cup Passed' \cup Lost' = 1..sent'
      BY <1>2, <1>3, <1>4, <1>5 DEF StageInv
    <2>2. /\ Range(rx') \cap (InHand' \cup OnWire' \cup Passed' \cup Lost') = {}
          /\ InHand' \cap (OnWire' \cup Passed' \cup Lost') = {}
          /\ OnWire' \cap (Passed' \cup Lost') = {} /\ Passed' \cap Lost' = {}
      BY <1>2, <1>3, <1>4, <1>5 DEF StageInv
    <2> QED BY <1>3, <2>1, <2>2 DEF StageInv
  <1>7. OrderInv'
    <2>1. \A m \in InHand', n \in Range(rx') : m < n BY <1>2, <1>5
    <2>2. \A m \in OnWire' \cup Passed', n \in Range(rx') \cup InHand' : m < n
      BY <1>2, <1>4, <1>5 DEF OrderInv
    <2> QED BY <1>2, <1>3, <2>1, <2>2 DEF OrderInv, ConnectionFifo
  <1> QED BY <1>6, <1>7

LEMMA FiniteMsgs == \A S \in SUBSET Msgs : IsFiniteSet(S)
  <1>1. MaxMsgs \in Int /\ 1 \in Int BY LinkAssumption DEF LinkConstantsOK
  <1>2. IsFiniteSet(Msgs) BY <1>1, FS_Interval DEF Msgs
  <1> QED BY <1>2, FS_Subset

LEMMA TakeKeepsCount ==
    ASSUME LinkTypeOK, StageInv, CountInv, Takes
    PROVE  CountInv'
  <1>1. /\ lost["nemesis"] \in SUBSET Msgs /\ MaxMsgs \in Nat /\ counters \in [Counters -> Nat]
        /\ lost \in [Places -> SUBSET Msgs]
    BY FramesTyped DEF LinkTypeOK, Places
  <1>2. IsFiniteSet(lost["nemesis"]) BY <1>1, FiniteMsgs
  <1>3. CASE lost' = lost /\ counters' \in {counters, Count("delays_applied")}
    <2>1. \A k \in {"partition_drops", "prob_drops", "resets"} : counters'[k] = counters[k]
      BY <1>1, <1>3 DEF Count, Counters
    <2> QED BY <1>3, <2>1 DEF CountInv
  <1>4. ASSUME lost' = [lost EXCEPT !["nemesis"] = @ \cup {Head(rx)}],
               NEW k \in {"partition_drops", "prob_drops", "resets"}, counters' = Count(k)
        PROVE  CountInv'
    <2>2. Head(rx) \in Range(rx)
      <3>1. rx # <<>> /\ rx \in Seq(Nat) BY FramesTyped DEF Takes
      <3> QED BY <3>1 DEF Range
    <2>3. Head(rx) \notin lost["nemesis"] BY <2>2 DEF StageInv, Lost, Places
    <2>4. lost'["nemesis"] = lost["nemesis"] \cup {Head(rx)} BY <1>1, <1>4 DEF Places
    <2>5. Cardinality(lost'["nemesis"]) = Cardinality(lost["nemesis"]) + 1
      BY <1>2, <2>3, <2>4, FS_AddElement
    <2>6. /\ counters'[k] = counters[k] + 1
          /\ \A l \in Counters : l # k => counters'[l] = counters[l]
          /\ \A l \in Counters : counters[l] \in Nat
      BY <1>1, <1>4 DEF Count, Counters
    <2>7. Cardinality(lost["nemesis"]) \in Nat BY <1>2, FS_CardinalityType
    <2>8. CASE k = "partition_drops" BY <2>5, <2>6, <2>7, <2>8 DEF CountInv, Counters
    <2>9. CASE k = "prob_drops" BY <2>5, <2>6, <2>7, <2>9 DEF CountInv, Counters
    <2>10. CASE k = "resets" BY <2>5, <2>6, <2>7, <2>10 DEF CountInv, Counters
    <2> QED BY <2>8, <2>9, <2>10
  <1> QED BY <1>3, <1>4 DEF Takes

LEMMA LeaveKeeps ==
    ASSUME LinkTypeOK, StageInv, OrderInv, CountInv, Leaves
    PROVE  StageInv' /\ OrderInv' /\ CountInv'
  <1>1. /\ UNCHANGED <<rx, received, counters, sent>> /\ hand # 0
        /\ InHand = {hand} /\ InHand' = {} /\ Passed' = Passed
    BY DEF Leaves, InHand, Passed
  <1>2. hand \in Nat BY <1>1, StagesTyped
  <1>3. ASSUME NEW c \in Conns, wire' = [wire EXCEPT ![c] = Append(@, hand)], lost' = lost
        PROVE  StageInv' /\ OrderInv' /\ CountInv'
    <2>1. wire'[c] = Append(wire[c], hand) /\ \A d \in Conns : d # c => wire'[d] = wire[d]
      BY <1>3 DEF LinkTypeOK
    <2>2. wire[c] \in Seq(Nat) /\ Increasing(wire[c]) /\ \A m \in OnWire \cup Passed : m < hand
      BY <1>1, FramesTyped DEF OrderInv
    <2>3. App(wire'[c]) = App(wire[c]) \cup {hand}
      BY <1>1, <1>2, <2>1, <2>2, AppendRange DEF App, Hello
    <2>4. OnWire' = Carried(wire, Conns \ {c}) \cup App(wire'[c])
      BY <2>1, WireUpdate, OnWireCarried
    <2>5. OnWire = Carried(wire, Conns \ {c}) \cup App(wire[c])
      BY WireUpdate, OnWireCarried
    <2>6. OnWire' = OnWire \cup {hand} BY <2>3, <2>4, <2>5
    <2>7. Lost' = Lost BY <1>3 DEF Lost
    <2>8. Increasing(wire'[c])
      <3>1. \A m \in Range(wire[c]) : m < hand
        BY <1>1, <1>2, <2>2, <2>5 DEF App, Hello
      <3> QED BY <1>2, <2>1, <2>2, <3>1, IncreasingAppend
    <2>9. \A d, f \in Conns : d # f => App(wire'[d]) \cap App(wire'[f]) = {}
      <3>1. \A d \in Conns : hand \notin App(wire[d])
        BY <1>1, OnWireCarried, InCarried DEF StageInv
      <3>2. \A d \in Conns : d # c => App(wire'[d]) = App(wire[d]) BY <2>1
      <3> QED BY <2>3, <3>1, <3>2 DEF StageInv
    <2>10. StageInv'
      <3>1. Range(rx') \cup InHand' \cup OnWire' \cup Passed' \cup Lost' = 1..sent'
        BY <1>1, <2>6, <2>7 DEF StageInv
      <3>2. /\ Range(rx') \cap (InHand' \cup OnWire' \cup Passed' \cup Lost') = {}
            /\ InHand' \cap (OnWire' \cup Passed' \cup Lost') = {}
            /\ OnWire' \cap (Passed' \cup Lost') = {} /\ Passed' \cap Lost' = {}
        BY <1>1, <2>6, <2>7 DEF StageInv
      <3> QED BY <1>1, <2>9, <3>1, <3>2 DEF StageInv
    <2>11. OrderInv'
      <3>1. \A d \in Conns : Increasing(wire'[d]) BY <2>1, <2>8 DEF OrderInv
      <3>2. \A m \in OnWire' \cup Passed', n \in Range(rx') \cup InHand' : m < n
        BY <1>1, <2>6 DEF OrderInv
      <3>3. \A k \in 1..Len(received) : \A m \in App(wire'[received[k].conn]) : received[k].msg < m
        <4>1. ASSUME NEW k \in 1..Len(received), NEW m \in App(wire'[received[k].conn])
              PROVE  received[k].msg < m
          <5>1. received[k].conn \in Conns /\ received[k].msg \in Passed
            BY FramesTyped DEF Passed
          <5>2. CASE m \in App(wire[received[k].conn]) BY <5>2 DEF OrderInv
          <5>3. CASE m = hand BY <2>2, <5>1, <5>3
          <5>4. m \in App(wire[received[k].conn]) \/ m = hand
            BY <2>1, <2>3, <4>1, <5>1
          <5> QED BY <5>2, <5>3, <5>4
        <4> QED BY <4>1
      <3> QED BY <1>1, <3>1, <3>2, <3>3 DEF OrderInv, ConnectionFifo
    <2>12. CountInv' BY <1>1, <1>3 DEF CountInv
    <2> QED BY <2>10, <2>11, <2>12
  <1>4. ASSUME wire' = wire, NEW w \in {"network", "write"}, lost' = [lost EXCEPT ![w] = @ \cup {hand}]
        PROVE  StageInv' /\ OrderInv' /\ CountInv'
    <2>1. OnWire' = OnWire BY <1>4 DEF OnWire
    <2>2. Lost' = Lost \cup {hand} BY <1>4, LostUpdate DEF Places
    <2>3. StageInv'
      <3>1. Range(rx') \cup InHand' \cup OnWire' \cup Passed' \cup Lost' = 1..sent'
        BY <1>1, <2>1, <2>2 DEF StageInv
      <3>2. /\ Range(rx') \cap (InHand' \cup OnWire' \cup Passed' \cup Lost') = {}
            /\ InHand' \cap (OnWire' \cup Passed' \cup Lost') = {}
            /\ OnWire' \cap (Passed' \cup Lost') = {} /\ Passed' \cap Lost' = {}
        BY <1>1, <2>1, <2>2 DEF StageInv
      <3> QED BY <1>1, <1>4, <3>1, <3>2 DEF StageInv
    <2>4. OrderInv' BY <1>1, <1>4, <2>1 DEF OrderInv, ConnectionFifo
    <2>5. lost'["nemesis"] = lost["nemesis"] BY <1>4 DEF LinkTypeOK, Places
    <2>6. CountInv' BY <1>1, <2>5 DEF CountInv
    <2> QED BY <2>3, <2>4, <2>6
  <1> QED BY <1>3, <1>4 DEF Leaves

\* A change of one connection's frames that carries the same messages.
LEMMA SameMessages ==
    ASSUME LinkTypeOK, StageInv, OrderInv, NEW c \in Conns,
           \A d \in Conns : d # c => wire'[d] = wire[d],
           App(wire'[c]) = App(wire[c]), Increasing(wire'[c]),
           UNCHANGED <<rx, hand, lost, sent, received>>
    PROVE  StageInv' /\ OrderInv'
  <1>1. \A d \in Conns : App(wire'[d]) = App(wire[d]) OBVIOUS
  <1>2. OnWire' = OnWire
    <2>1. OnWire = Carried(wire, Conns \ {c}) \cup App(wire[c]) BY WireUpdate, OnWireCarried
    <2>2. OnWire' = Carried(wire, Conns \ {c}) \cup App(wire'[c])
      BY WireUpdate, OnWireCarried
    <2> QED BY <2>1, <2>2
  <1>3. InHand' = InHand /\ Passed' = Passed /\ Lost' = Lost BY DEF InHand, Passed, Lost
  <1>4. StageInv'
    <2>1. \A d, f \in Conns : d # f => App(wire'[d]) \cap App(wire'[f]) = {}
      BY <1>1 DEF StageInv
    <2> QED BY <1>2, <1>3, <2>1 DEF StageInv
  <1>5. OrderInv'
    <2>1. \A d \in Conns : Increasing(wire'[d]) BY DEF OrderInv
    <2>2. \A k \in 1..Len(received) : \A m \in App(wire'[received[k].conn]) : received[k].msg < m
      <3>1. \A k \in 1..Len(received) : received[k].conn \in Conns BY FramesTyped
      <3> QED BY <1>1, <3>1 DEF OrderInv
    <2> QED BY <1>2, <1>3, <2>1, <2>2 DEF OrderInv, ConnectionFifo
  <1> QED BY <1>4, <1>5

LEMMA GreetKeeps ==
    ASSUME LinkTypeOK, StageInv, OrderInv, CountInv, Greets
    PROVE  StageInv' /\ OrderInv' /\ CountInv'
  <1>1. PICK c \in Conns : wire[c] = <<>> /\ (wire' = wire \/ wire' = [wire EXCEPT ![c] = <<Hello>>])
    BY DEF Greets
  <1>2. UNCHANGED <<rx, hand, lost, sent, received, counters>> BY DEF Greets
  <1>3. wire'[c] \in {<<>>, <<Hello>>} /\ \A d \in Conns : d # c => wire'[d] = wire[d]
    BY <1>1 DEF LinkTypeOK
  <1>4. App(wire'[c]) = {} /\ App(wire[c]) = {} /\ Increasing(wire'[c])
    <2>1. App(<<>>) = {} /\ Increasing(<<>>) BY DEF App, Range, Increasing
    <2>2. Range(<<Hello>>) = {Hello} BY DEF Range
    <2>3. App(<<Hello>>) = {} /\ Increasing(<<Hello>>) BY <2>2 DEF App, Increasing
    <2> QED BY <1>1, <1>3, <2>1, <2>3
  <1>5. StageInv' /\ OrderInv' BY <1>2, <1>3, <1>4, SameMessages
  <1> QED BY <1>2, <1>5 DEF CountInv

LEMMA OpenKeeps ==
    ASSUME LinkTypeOK, StageInv, OrderInv, CountInv, Opens
    PROVE  StageInv' /\ OrderInv' /\ CountInv'
  <1>1. PICK c \in Conns : /\ wire[c] # <<>> /\ Head(wire[c]) = Hello
                           /\ wire' = [wire EXCEPT ![c] = Tail(@)]
    BY DEF Opens
  <1>2. UNCHANGED <<rx, hand, lost, sent, received, counters>> BY DEF Opens
  <1>3. wire'[c] = Tail(wire[c]) /\ \A d \in Conns : d # c => wire'[d] = wire[d]
    BY <1>1 DEF LinkTypeOK
  <1>4. wire[c] \in Seq(Nat) /\ Increasing(wire[c]) BY FramesTyped DEF OrderInv
  <1>5. Increasing(Tail(wire[c])) /\ Range(Tail(wire[c])) = Range(wire[c]) \ {Hello}
    BY <1>1, <1>4, IncreasingTail
  <1>6. App(wire'[c]) = App(wire[c]) BY <1>3, <1>5 DEF App
  <1>7. StageInv' /\ OrderInv' BY <1>2, <1>3, <1>5, <1>6, SameMessages
  <1> QED BY <1>2, <1>7 DEF CountInv

LEMMA PassKeeps ==
    ASSUME LinkTypeOK, StageInv, OrderInv, CountInv, Passes
    PROVE  StageInv' /\ OrderInv' /\ CountInv'
  <1>1. PICK c \in Conns :
          /\ wire[c] # <<>> /\ Head(wire[c]) # Hello /\ wire' = [wire EXCEPT ![c] = Tail(@)]
          /\ received' = Append(received, [msg |-> Head(wire[c]), conn |-> c])
    BY DEF Passes
  <1> DEFINE h == Head(wire[c])
             n == Len(received)
  <1>2. /\ UNCHANGED <<rx, hand, lost, counters, sent>>
        /\ InHand' = InHand /\ Lost' = Lost
    BY DEF Passes, InHand, Lost
  <1>3. wire'[c] = Tail(wire[c]) /\ \A d \in Conns : d # c => wire'[d] = wire[d]
    BY <1>1 DEF LinkTypeOK
  <1>4. wire[c] \in Seq(Nat) /\ Increasing(wire[c]) BY FramesTyped DEF OrderInv
  <1>5. /\ Increasing(wire'[c]) /\ h \in Range(wire[c]) /\ h \in Nat
        /\ Range(wire'[c]) = Range(wire[c]) \ {h} /\ \A m \in Range(wire'[c]) : h < m
    BY <1>1, <1>3, <1>4, IncreasingTail
  <1>6. /\ Passed' = Passed \cup {h} /\ Len(received') = n + 1 /\ n \in Nat
        /\ received'[n + 1] = [msg |-> h, conn |-> c]
        /\ \A k \in 1..n : received'[k] = received[k]
    BY <1>1, PassedUpdate
  <1>7. h \in App(wire[c]) /\ App(wire'[c]) = App(wire[c]) \ {h}
    BY <1>1, <1>5 DEF App
  <1> HIDE DEF h
  <1>8. OnWire' = OnWire \ {h} /\ h \in OnWire
    <2>1. OnWire = Carried(wire, Conns \ {c}) \cup App(wire[c]) BY WireUpdate, OnWireCarried
    <2>2. OnWire' = Carried(wire, Conns \ {c}) \cup App(wire'[c])
      BY <1>3, WireUpdate, OnWireCarried
    <2>3. h \notin Carried(wire, Conns \ {c}) BY <1>7, InCarried DEF StageInv
    <2> QED BY <1>7, <2>1, <2>2, <2>3
  <1>9. /\ \A d \in Conns : App(wire'[d]) \subseteq App(wire[d])
        /\ \A d \in Conns : Increasing(wire'[d])
    BY <1>3, <1>5, <1>7 DEF OrderInv
  <1>10. \A k \in 1..n : /\ received[k].conn \in Conns /\ received[k].msg \in Passed
                         /\ received[k].msg # h
    BY <1>8, FramesTyped DEF Passed, StageInv
  <1>11. \A k \in 1..(n + 1) : k \in 1..n \/ k = n + 1 BY <1>6
  <1> HIDE DEF n
  <1>12. StageInv'
    <2>1. Range(rx') \cup InHand' \cup OnWire' \cup Passed' \cup Lost' = 1..sent'
      BY <1>2, <1>6, <1>8 DEF StageInv
    <2>2. /\ Range(rx') \cap (InHand' \cup OnWire' \cup Passed' \cup Lost') = {}
          /\ InHand' \cap (OnWire' \cup Passed' \cup Lost') = {}
          /\ OnWire' \cap (Passed' \cup Lost') = {} /\ Passed' \cap Lost' = {}
      BY <1>2, <1>6, <1>8 DEF StageInv
    <2>3. \A d, f \in Conns : d # f => App(wire'[d]) \cap App(wire'[f]) = {}
      BY <1>9 DEF StageInv
    <2>4. \A i, j \in 1..(n + 1) : received'[i].msg = received'[j].msg => i = j
      <3>1. \A i, j \in 1..n : received[i].msg = received[j].msg => i = j
        BY DEF StageInv, n
      <3> QED BY <1>6, <1>10, <1>11, <3>1
    <2> QED BY <1>6, <2>1, <2>2, <2>3, <2>4 DEF StageInv
  <1>13. OrderInv'
    <2>1. /\ \A m \in InHand', k \in Range(rx') : m < k
          /\ \A m \in OnWire' \cup Passed', k \in Range(rx') \cup InHand' : m < k
      BY <1>2, <1>6, <1>8 DEF OrderInv
    <2>2. \A k \in 1..(n + 1) : \A m \in App(wire'[received'[k].conn]) : received'[k].msg < m
      <3>1. ASSUME NEW k \in 1..n, NEW m \in App(wire'[received'[k].conn])
            PROVE  received'[k].msg < m
        <4>1. m \in App(wire[received[k].conn]) BY <1>6, <1>9, <1>10, <3>1
        <4> QED BY <1>6, <4>1 DEF OrderInv, n
      <3>2. \A m \in App(wire'[c]) : h < m BY <1>5 DEF App
      <3> QED BY <1>6, <1>11, <3>1, <3>2
    <2>3. \A k \in 1..n : received[k].conn = c => received[k].msg < h
      BY <1>7 DEF OrderInv, n
    <2>4. \A i, j \in 1..(n + 1) :
             i < j /\ received'[i].conn = received'[j].conn => received'[i].msg < received'[j].msg
      <3>1. ASSUME NEW i \in 1..(n + 1), NEW j \in 1..(n + 1), i < j,
                   received'[i].conn = received'[j].conn
            PROVE  received'[i].msg < received'[j].msg
        <4>1. i \in 1..n BY <1>6, <3>1
        <4>2. CASE j \in 1..n
          BY <1>6, <3>1, <4>1, <4>2 DEF OrderInv, ConnectionFifo, n
        <4>3. CASE j = n + 1 BY <1>6, <2>3, <3>1, <4>1, <4>3
        <4> QED BY <1>11, <4>2, <4>3
      <3> QED BY <3>1
    <2> QED BY <1>2, <1>6, <1>9, <2>1, <2>2, <2>4 DEF OrderInv, ConnectionFifo
  <1>14. CountInv' BY <1>2 DEF CountInv
  <1> QED BY <1>12, <1>13, <1>14

LEMMA BreakKeeps ==
    ASSUME LinkTypeOK, StageInv, OrderInv, CountInv, Breaks
    PROVE  StageInv' /\ OrderInv' /\ CountInv'
  <1>1. PICK S \in SUBSET OnWire :
          /\ S \cap OnWire' = {} /\ S \cup OnWire' = OnWire
          /\ lost' = [lost EXCEPT !["network"] = @ \cup S]
    BY DEF Breaks
  <1>2. UNCHANGED <<rx, hand, counters, sent, received>> BY DEF Breaks
  <1>3. InHand' = InHand /\ Passed' = Passed BY <1>2 DEF InHand, Passed
  <1>4. Lost' = Lost \cup S BY <1>1, LostUpdate DEF Places
  <1>5. \A c \in Conns : Increasing(wire'[c]) /\ App(wire'[c]) \subseteq App(wire[c])
    BY DEF Breaks, App
  <1>6. StageInv'
    <2>1. Range(rx') \cup InHand' \cup OnWire' \cup Passed' \cup Lost' = 1..sent'
      BY <1>1, <1>2, <1>3, <1>4 DEF StageInv
    <2>2. /\ Range(rx') \cap (InHand' \cup OnWire' \cup Passed' \cup Lost') = {}
          /\ InHand' \cap (OnWire' \cup Passed' \cup Lost') = {}
          /\ OnWire' \cap (Passed' \cup Lost') = {} /\ Passed' \cap Lost' = {}
      BY <1>1, <1>2, <1>3, <1>4 DEF StageInv
    <2>3. \A c, d \in Conns : c # d => App(wire'[c]) \cap App(wire'[d]) = {}
      BY <1>5 DEF StageInv
    <2> QED BY <1>2, <2>1, <2>2, <2>3 DEF StageInv
  <1>7. OrderInv'
    <2>1. \A k \in 1..Len(received) : received[k].conn \in Conns BY FramesTyped
    <2>2. \A k \in 1..Len(received) : \A m \in App(wire'[received[k].conn]) : received[k].msg < m
      BY <1>5, <2>1 DEF OrderInv
    <2>3. \A m \in OnWire' \cup Passed', n \in Range(rx') \cup InHand' : m < n
      BY <1>1, <1>2, <1>3 DEF OrderInv
    <2> QED BY <1>2, <1>3, <1>5, <2>2, <2>3 DEF OrderInv, ConnectionFifo
  <1>8. lost'["nemesis"] = lost["nemesis"] BY <1>1 DEF LinkTypeOK, Places
  <1>9. CountInv' BY <1>2, <1>8 DEF CountInv
  <1> QED BY <1>6, <1>7, <1>9

-----------------------------------------------------------------------------
(* The invariant, and what it says of the link.                            *)

\* Initially no message is anywhere and the dialer has not begun.
LEMMA LinkInitially == LinkInit => LinkInv
  <1> SUFFICES ASSUME LinkInit PROVE LinkInv OBVIOUS
  <1>1. LinkTypeOK
    <2>1. /\ Capacity \in Nat /\ MaxShift \in Nat /\ MaxMsgs \in Nat /\ MaxFaults \in Nat
          /\ MaxFailures \in Nat /\ DeadWrites \in Nat
      BY LinkAssumption DEF LinkConstantsOK
    <2>2. rx \in Seq(Msgs) /\ Len(rx) <= Capacity /\ received \in Seq([msg : Msgs, conn : Conns])
      BY <2>1 DEF LinkInit
    <2>3. /\ wire \in [Conns -> Seq({Hello} \cup Msgs)] /\ alive \in [Conns -> BOOLEAN]
          /\ taken \in [Conns -> 0..DeadWrites] /\ reader \in [Conns -> {"none", "hello", "open"}]
          /\ lost \in [Places -> SUBSET Msgs] /\ counters \in [Counters -> Nat]
      BY <2>1 DEF LinkInit
    <2>4. /\ failures \in 0..MaxFailures /\ pause \in 0..(MaxShift + 1) /\ sent \in 0..MaxMsgs
          /\ faults \in 0..MaxFaults
      BY <2>1 DEF LinkInit
    <2> QED BY <2>2, <2>3, <2>4 DEF LinkInit, LinkTypeOK, Chances
  <1>2. BackoffOnlyWhileFailing
    BY LinkAssumption DEF LinkInit, BackoffOnlyWhileFailing, LinkConstantsOK
  <1>3. DialerInv BY DEF LinkInit, DialerInv
  <1>4. /\ Range(rx) = {} /\ InHand = {} /\ OnWire = {} /\ Passed = {} /\ Lost = {}
        /\ Len(rx) = 0 /\ Len(received) = 0
        /\ \A c \in Conns : App(wire[c]) = {} /\ Len(wire[c]) = 0
    <2>1. rx = <<>> /\ received = <<>> /\ hand = 0 /\ \A c \in Conns : wire[c] = <<>>
      BY DEF LinkInit
    <2>2. Range(<<>>) = {} /\ Len(<<>>) = 0 BY DEF Range
    <2>3. \A c \in Conns : App(wire[c]) = {} BY <2>1, <2>2 DEF App
    <2>4. OnWire = {} BY <2>3 DEF OnWire
    <2>5. Lost = {} BY DEF LinkInit, Lost
    <2> QED BY <2>1, <2>2, <2>3, <2>4, <2>5 DEF InHand, Passed
  <1>5. StageInv
    <2>1. 1..sent = {} BY DEF LinkInit
    <2> QED BY <1>4, <2>1 DEF StageInv
  <1>6. OrderInv BY <1>4 DEF OrderInv, Increasing, ConnectionFifo
  <1>7. CountInv BY FS_EmptySet DEF LinkInit, CountInv, Counters, Places
  <1> QED BY <1>1, <1>2, <1>3, <1>5, <1>6, <1>7 DEF LinkInv

\* Every step keeps it.
LEMMA LinkStep == LinkInv /\ [LinkNext]_linkVars => LinkInv'
  <1> SUFFICES ASSUME LinkInv, [LinkNext]_linkVars PROVE LinkInv' OBVIOUS
  <1>1. /\ LinkTypeOK /\ BackoffOnlyWhileFailing /\ DialerInv /\ StageInv /\ OrderInv /\ CountInv
    BY DEF LinkInv
  <1>2. CASE Send
    <2>1. DialerInv' BY <1>1, <1>2 DEF DialerInv, Send, netVars
    <2> QED BY <1>1, <1>2, <2>1, SendTyped, SendKeeps DEF LinkInv
  <1>3. CASE Shutdown
    <2>1. DialerInv' /\ Idle BY <1>1, <1>3 DEF DialerInv, Shutdown, dialVars, netVars, Idle
    <2> QED BY <1>1, <1>3, <2>1, SendTyped, IdleKeeps DEF LinkInv
  <1>4. CASE IdleDialer BY <1>1, <1>4, IdleDialerTyped, IdleKeeps DEF LinkInv
  <1>5. CASE Greet BY <1>1, <1>5, GreetTyped, GreetKeeps DEF LinkInv
  <1>6. CASE TakeAndSend \/ TakeAndLose("drop", "recv") \/ TakeAndLose("reset", "sleep")
    BY <1>1, <1>6, TakeTyped, TakeKeepsStages, TakeKeepsCount DEF LinkInv
  <1>7. CASE Write \/ WriteFails BY <1>1, <1>7, WriteStepTyped, LeaveKeeps DEF LinkInv
  <1>8. ASSUME NEW c \in Conns, ReaderTask(c) PROVE LinkInv'
    <2>1. LinkTypeOK' /\ BackoffOnlyWhileFailing' /\ DialerInv' /\ (Idle \/ Opens \/ Passes)
      BY <1>1, <1>8, ReadTyped
    <2> QED BY <1>1, <2>1, IdleKeeps, OpenKeeps, PassKeeps DEF LinkInv
  <1>9. CASE PeerDown \/ \E c \in Conns : Cut(c)
    BY <1>1, <1>9, BreakTyped, BreakKeeps DEF LinkInv
  <1>10. CASE Outside BY <1>1, <1>10, OutsideTyped, IdleKeeps DEF LinkInv
  <1>11. CASE UNCHANGED linkVars
    <2>1. /\ LinkTypeOK' /\ BackoffOnlyWhileFailing' /\ DialerInv' /\ Idle
      BY <1>1, <1>11 DEF LinkTypeOK, BackoffOnlyWhileFailing, DialerInv, Idle, linkVars,
                         dialVars, netVars, nemVars, envVars
    <2> QED BY <1>1, <2>1, IdleKeeps DEF LinkInv
  <1> QED BY <1>2, <1>3, <1>4, <1>5, <1>6, <1>7, <1>8, <1>9, <1>10, <1>11
          DEF LinkNext, DialerStep, IdleDialer, Outside

\* What has passed has passed once: as many messages as the inbox is long.
LEMMA PassedOnce ==
    ASSUME LinkTypeOK, StageInv
    PROVE  IsFiniteSet(Passed) /\ Cardinality(Passed) = Len(received)
  <1> DEFINE n == Len(received)
             f == [k \in 1..n |-> received[k].msg]
  <1>1. n \in Nat BY FramesTyped
  <1>2. f \in Bijection(1..n, Passed)
    <2>1. f \in [1..n -> Passed] BY DEF Passed
    <2>2. \A i, j \in 1..n : f[i] = f[j] => i = j BY DEF StageInv
    <2>3. \A m \in Passed : \E k \in 1..n : f[k] = m BY DEF Passed
    <2>4. DOMAIN f = 1..n OBVIOUS
    <2> HIDE DEF f, n
    <2> QED BY <2>1, <2>2, <2>3, <2>4 DEF Bijection, Injection, Surjection, IsInjective
  <1>3. ExistsBijection(1..n, Passed) BY <1>2 DEF ExistsBijection
  <1> HIDE DEF n
  <1>4. IsFiniteSet(1..n) /\ Cardinality(1..n) = n
    <2>1. n \in Int /\ 1 \in Int BY <1>1
    <2>2. IsFiniteSet(1..n) /\ Cardinality(1..n) = IF 1 > n THEN 0 ELSE n - 1 + 1
      BY <2>1, FS_Interval
    <2> QED BY <1>1, <2>2
  <1>5. IsFiniteSet(Passed) /\ Cardinality(Passed) = Cardinality(1..n)
    BY <1>3, <1>4, FS_Bijection
  <1> QED BY <1>4, <1>5 DEF n

\* The number of messages in two disjoint stages.
LEMMA DisjointCount ==
    ASSUME NEW S, NEW T, IsFiniteSet(S), IsFiniteSet(T), S \cap T = {}
    PROVE  /\ IsFiniteSet(S \cup T) /\ Cardinality(S) \in Nat /\ Cardinality(T) \in Nat
           /\ Cardinality(S \cup T) = Cardinality(S) + Cardinality(T)
  <1>1. Cardinality(S \cap T) = 0 BY FS_EmptySet
  <1>2. Cardinality(S) \in Nat /\ Cardinality(T) \in Nat BY FS_CardinalityType
  <1>3. /\ IsFiniteSet(S \cup T)
        /\ Cardinality(S \cup T) = Cardinality(S) + Cardinality(T) - Cardinality(S \cap T)
    BY FS_Union
  <1> QED BY <1>1, <1>2, <1>3

\* Disjoint stages whose union is all that was sent add up.
LEMMA LedgerBalances == ASSUME LinkTypeOK, StageInv, CountInv PROVE Ledger
  <1> DEFINE R == Range(rx)
             H == InHand
             W == OnWire
             P == Passed
             L == Lost
  <1>1. R \cup H \cup W \cup P \cup L = 1..sent /\ sent \in Nat
    BY StagesTyped DEF StageInv
  <1>2. /\ R \cap (H \cup (W \cup (P \cup L))) = {} /\ H \cap (W \cup (P \cup L)) = {}
        /\ W \cap (P \cup L) = {} /\ P \cap L = {}
    BY DEF StageInv
  <1>3. UNION Stages = 1..sent BY <1>1 DEF Stages
  <1>4. /\ IsFiniteSet(P) /\ Cardinality(P) = Len(received) BY PassedOnce
  <1> HIDE DEF R, H, W, P, L
  <1>5. IsFiniteSet(1..sent) /\ Cardinality(1..sent) = sent BY <1>1, FS_Interval
  <1>6. IsFiniteSet(R) /\ IsFiniteSet(H) /\ IsFiniteSet(W) /\ IsFiniteSet(L)
    BY <1>1, <1>5, FS_Subset
  <1>7. IsFiniteSet(P \cup L) /\ Cardinality(P \cup L) = Cardinality(P) + Cardinality(L)
        /\ Cardinality(P) \in Nat /\ Cardinality(L) \in Nat
    BY <1>2, <1>4, <1>6, DisjointCount
  <1>8. /\ IsFiniteSet(W \cup (P \cup L)) /\ Cardinality(W) \in Nat
        /\ Cardinality(W \cup (P \cup L)) = Cardinality(W) + Cardinality(P \cup L)
    BY <1>2, <1>6, <1>7, DisjointCount
  <1>9. /\ IsFiniteSet(H \cup (W \cup (P \cup L))) /\ Cardinality(H) \in Nat
        /\ Cardinality(H \cup (W \cup (P \cup L))) = Cardinality(H) + Cardinality(W \cup (P \cup L))
    BY <1>2, <1>6, <1>8, DisjointCount
  <1>10. /\ Cardinality(R) \in Nat
         /\ Cardinality(R \cup (H \cup (W \cup (P \cup L))))
              = Cardinality(R) + Cardinality(H \cup (W \cup (P \cup L)))
    BY <1>2, <1>6, <1>9, DisjointCount
  <1>11. R \cup (H \cup (W \cup (P \cup L))) = 1..sent BY <1>1
  <1>12. Cardinality(R) + Cardinality(H) + Cardinality(W) + Len(received) + Cardinality(L) = sent
    <2>1. Cardinality(R \cup (H \cup (W \cup (P \cup L)))) = sent BY <1>5, <1>11
    <2> QED BY SMTT(40), <2>1, <1>4, <1>7, <1>8, <1>9, <1>10
  <1> QED BY <1>3, <1>12 DEF Ledger, CountInv, R, H, W, L

\* Every message of a link is in one place, the injector's counters are the
\* messages it lost, a connection delivers in order, and the dialer waits long
\* only while the name fails to resolve (transport.rs, spawn_peer_dialer and
\* handle_peer_connection; nemesis.rs, FaultStats).
THEOREM LinkAccounted == LinkSpec => []LinkIsAccounted
  <1>1. LinkInv => LinkIsAccounted
    BY LedgerBalances DEF LinkInv, LinkIsAccounted, OrderInv
  <1> QED BY <1>1, LinkInitially, LinkStep, PTL DEF LinkSpec

-----------------------------------------------------------------------------
(* The event loop and the snapshot file.                                   *)

\* What a power loss, a kill or a disk error finds on the disk.
DiskOK ==
    /\ file.whole /\ file.synced /\ stable.whole /\ stable.synced
    /\ released <= stable.ver /\ stable.ver <= file.ver
    /\ stable.tick <= file.tick

\* A process is never behind its snapshot; where the write stands.
MemoryOK ==
    phase # "off" =>
      /\ file.ver <= mem /\ file.tick <= now
      /\ phase = "sync" => tmp = Encoded
      /\ phase = "rename" => tmp = [Encoded EXCEPT !.synced = TRUE]
      /\ phase = "dirsync" => file = [Encoded EXCEPT !.synced = TRUE]

\* Nothing is unwritten: the durable state is the file's, and if a client's
\* operation has completed since the boot, a power loss keeps it.
NothingUnwritten == mem = file.ver /\ (done = {} \/ stable.ver = mem)

\* Where the loop may release a reply, everything is written; before that a
\* batch with nothing unwritten has no reply that depends on a new version.
BatchOK ==
    /\ phase \in {"off", "wait"} => batch = NoBatch
    /\ phase = "off" => done = {}
    /\ phase \in {"wait", "drain"} /\ ~batch.mutated => NothingUnwritten
    /\ phase \in {"flush", "ack", "publish"} => NothingUnwritten
    /\ phase \in {"off", "wait", "ack", "publish"} => out = <<>>
    /\ phase = "drain" /\ ~batch.mutated => \A k \in 1..Len(out) : out[k].ver = 0
    /\ phase \in {"drain"} \cup DiskPhases => \A k \in 1..Len(out) : out[k].ver <= mem
    /\ phase = "flush" => \A k \in 1..Len(out) : out[k].ver <= stable.ver

DriverInv == DiskOK /\ MemoryOK /\ BatchOK

\* The larger of two versions.
LEMMA MaxOfTwo ==
    ASSUME NEW a \in Int, NEW b \in Int
    PROVE  Max({a, b}) \in {a, b} /\ Max({a, b}) >= a /\ Max({a, b}) >= b
  <1> DEFINE S == {a, b}
  <1>1. \E m \in S : \A y \in S : m >= y
    <2>1. CASE a >= b
      BY <2>1
    <2>2. CASE ~(a >= b)
      <3>1. b >= a BY <2>2
      <3> QED BY <3>1
    <2> QED BY <2>1, <2>2
  <1>2. Max(S) = CHOOSE m \in S : \A y \in S : m >= y BY DEF Max
  <1> HIDE DEF S
  <1>3. Max(S) \in S /\ \A y \in S : Max(S) >= y BY <1>1, <1>2
  <1> QED BY <1>3 DEF S

LEMMA MaxVersionTyped ==
    ASSUME NEW a \in Versions, NEW b \in Versions
    PROVE  Max({a, b}) \in Versions /\ Max({a, b}) >= a /\ Max({a, b}) >= b
  <1>1. a \in Int /\ b \in Int BY DriverAssumption DEF ConstantsOK, Versions
  <1> QED BY <1>1, MaxOfTwo

LEMMA ConstantTypes ==
    /\ None \in Files /\ Broadcast \in Sends /\ 0 \in Versions /\ 0 \in Ticks
    /\ NoBatch \in [len : 0..BatchLimit, mutated : BOOLEAN]
    /\ \A k \in {"request", "response", "timer"} : \A p \in Everyone :
         Event(k, p, NoOp) \in Events
    /\ \A o \in ClientOps : Event("submit", Self, o) \in Events
  BY DriverAssumption
     DEF ConstantsOK, None, Files, Versions, Ticks, Broadcast, Sends, Everyone, NoBatch,
         Event, Events

\* What flush_outbound does with a send keeps the queues within their capacity.
LEMMA HandedTyped ==
    ASSUME TypeOK, NEW s \in Sends
    PROVE  /\ Handed(s) \in [Peers -> Seq(Sends)]
           /\ \A p \in Peers : Len(Handed(s)[p]) <= QueueCapacity
           /\ Loopback(s) \in Seq(Events)
  <1>1. QueueCapacity \in Nat BY DriverAssumption DEF ConstantsOK
  <1>2. ASSUME NEW p \in Peers
        PROVE  /\ Offer(queue[p], s) \in Seq(Sends)
               /\ Len(Offer(queue[p], s)) <= QueueCapacity
    <2>1. queue[p] \in Seq(Sends) /\ Len(queue[p]) <= QueueCapacity BY DEF TypeOK
    <2>2. CASE Len(queue[p]) < QueueCapacity
      BY <1>1, <2>1, <2>2 DEF Offer
    <2>3. CASE ~(Len(queue[p]) < QueueCapacity)
      BY <2>1, <2>3 DEF Offer
    <2> QED BY <2>2, <2>3
  <1>3. /\ Handed(s) \in [Peers -> Seq(Sends)]
        /\ \A p \in Peers : Len(Handed(s)[p]) <= QueueCapacity
    BY <1>2 DEF Handed, TypeOK
  <1>4. Event(s.kind, Self, NoOp) \in Events
    BY ConstantTypes DEF Sends, Everyone
  <1>5. Loopback(s) \in Seq(Events) BY <1>4 DEF Loopback, TypeOK
  <1> QED BY <1>3, <1>5

\* One event of the batch, whatever its kind.
LEMMA ApplyEventTypes == ASSUME TypeOK, ApplyEvent PROVE TypeOK'
  <1> DEFINE e == Head(inbox)
  <1>1. /\ inbox # <<>> /\ batch.len < BatchLimit
        /\ \/ e.kind = "request"  /\ OnRequest(e)
           \/ e.kind = "response" /\ OnResponse
           \/ e.kind = "timer"    /\ OnTimer
           \/ e.kind = "submit"   /\ OnSubmit(e)
        /\ batch' = [len |-> batch.len + 1, mutated |-> batch.mutated \/ MayMutate(e)]
        /\ now' \in {t \in {now, now + 1} : t <= MaxTick}
        /\ inbox' = Tail(inbox)
        /\ phase' = "drain"
        /\ UNCHANGED <<queue, diskVars, crashes, asked, released, published>>
    BY DEF ApplyEvent
  <1>2. e \in Events /\ Tail(inbox) \in Seq(Events) BY <1>1 DEF TypeOK
  <1>3. mem \in Versions /\ mem \in Nat /\ MaxVersion \in Nat /\ MaxTick \in Nat
    BY DriverAssumption DEF TypeOK, ConstantsOK, Versions
  <1>4. now' \in Ticks
    BY <1>1, <1>3 DEF TypeOK, Ticks
  <1>5. batch' \in [len : 0..BatchLimit, mutated : BOOLEAN]
    BY <1>1, DriverAssumption DEF TypeOK, MayMutate, ConstantsOK
  <1>6. mem' \in Versions /\ out' \in Seq(Sends) /\ pending' \subseteq ClientOps /\ done' \subseteq ClientOps
    <2>1. MaybeMutates \subseteq Versions BY <1>3 DEF MaybeMutates, Versions
    <2>2. MaybeProposes \subseteq Seq(Sends)
      <3>1. Append(out, Broadcast) \in Seq(Sends) BY ConstantTypes DEF TypeOK
      <3> QED BY <3>1 DEF MaybeProposes, TypeOK
    <2>3. CASE OnRequest(e)
      <3>1. PICK v \in MaybeMutates :
              /\ mem' = v
              /\ out' = Append(out, [to |-> {e.from}, kind |-> "response", ver |-> v])
              /\ UNCHANGED <<pending, done>>
        BY <2>3 DEF OnRequest
      <3>2. [to |-> {e.from}, kind |-> "response", ver |-> v] \in Sends
        <4>1. e.from \in Everyone BY <1>2 DEF Events, Everyone
        <4> QED BY <2>1, <4>1 DEF Sends
      <3> QED BY <2>1, <3>1, <3>2 DEF TypeOK
    <2>4. CASE OnResponse
      <3>1. mem' \in Versions /\ pending' = pending
        BY <1>3, <2>4 DEF OnResponse, TypeOK, Versions
      <3>2. out' \in Seq(Sends) BY <2>2, <2>4 DEF OnResponse
      <3>3. done' \subseteq ClientOps BY <2>4 DEF OnResponse, TypeOK
      <3> QED BY <3>1, <3>2, <3>3 DEF TypeOK
    <2>5. CASE OnTimer
      BY <2>2, <2>5 DEF OnTimer, TypeOK
    <2>6. CASE e.kind = "submit" /\ OnSubmit(e)
      <3>1. out' \in Seq(Sends) /\ mem' = mem /\ done' = done BY <2>2, <2>6 DEF OnSubmit
      <3>2. pending' = pending \cup {e.op} BY <2>6 DEF OnSubmit
      <3>3. e.op \in ClientOps BY <1>2, <2>6 DEF Events
      <3> QED BY <3>1, <3>2, <3>3 DEF TypeOK
    <2> QED BY <1>1, <2>3, <2>4, <2>5, <2>6
  <1>7. phase' \in Phases BY <1>1 DEF Phases
  <1> QED BY <1>1, <1>2, <1>4, <1>5, <1>6, <1>7 DEF TypeOK, diskVars

\* The other steps of the loop.
LEMMA LoopTypes == ASSUME TypeOK, Loop PROVE TypeOK'
  <1>1. CASE EndBatch
    BY <1>1 DEF EndBatch, TypeOK, Phases, diskVars
  <1>2. Encoded \in Files BY DEF Encoded, Files, TypeOK
  <1>3. CASE WriteTmp
    <2>1. Disk("write", "sync") /\ tmp' = Encoded /\ UNCHANGED <<file, stable>>
      BY <1>3 DEF WriteTmp
    <2> QED BY <1>2, <2>1 DEF Disk, TypeOK, Phases
  <1>4. CASE SyncTmp
    <2>1. Disk("sync", "rename") /\ UNCHANGED <<file, stable>> BY <1>4 DEF SyncTmp
    <2>2. tmp' \in Files BY <1>4 DEF SyncTmp, TypeOK, Files
    <2> QED BY <2>1, <2>2 DEF Disk, TypeOK, Phases
  <1>5. CASE Rename
    <2>1. Disk("rename", "dirsync") /\ file' = tmp /\ tmp' = None /\ UNCHANGED stable
      BY <1>5 DEF Rename
    <2> QED BY <2>1, ConstantTypes DEF Disk, TypeOK, Phases
  <1>6. CASE SyncDir
    <2>1. Disk("dirsync", "flush") /\ stable' = file /\ UNCHANGED <<file, tmp>>
      BY <1>6 DEF SyncDir
    <2> QED BY <2>1 DEF Disk, TypeOK, Phases
  <1>7. CASE FlushOne
    <2> DEFINE s == Head(out)
    <2>1. /\ out # <<>> /\ inbox' = Loopback(s) /\ queue' = Handed(s)
          /\ released' = Max({released, s.ver}) /\ out' = Tail(out)
          /\ UNCHANGED <<phase, mem, now, batch, pending, done, diskVars, crashes,
                         asked, published>>
      BY <1>7 DEF FlushOne
    <2>2. s \in Sends /\ Tail(out) \in Seq(Sends) BY <2>1 DEF TypeOK
    <2>3. s.ver \in Versions BY <2>2 DEF Sends
    <2>4. released' \in Versions BY <2>1, <2>3, MaxVersionTyped DEF TypeOK
    <2>5. /\ queue' \in [Peers -> Seq(Sends)]
          /\ \A p \in Peers : Len(queue'[p]) <= QueueCapacity
          /\ inbox' \in Seq(Events)
      BY <2>1, <2>2, HandedTyped
    <2> HIDE DEF s
    <2> QED BY <2>1, <2>2, <2>4, <2>5 DEF TypeOK, diskVars
  <1>8. CASE EndFlush
    BY <1>8 DEF EndFlush, TypeOK, Phases, diskVars
  <1>9. CASE Ack
    <2>1. released' \in Versions BY <1>9, MaxVersionTyped DEF Ack, TypeOK
    <2> QED BY <1>9, <2>1 DEF Ack, TypeOK, Phases, diskVars
  <1>10. CASE Publish
    <2>1. published' \in Versions BY <1>10, MaxVersionTyped DEF Publish, TypeOK
    <2> QED BY <1>10, <2>1, ConstantTypes DEF Publish, TypeOK, Phases, diskVars
  <1> QED
    BY <1>1, <1>3, <1>4, <1>5, <1>6, <1>7, <1>8, <1>9, <1>10, ApplyEventTypes DEF Loop

\* The process ends, and starts again.
LEMMA DownTypes ==
    ASSUME TypeOK, Down, file' \in Files, stable' \in Files, tmp' \in Files
    PROVE  TypeOK'
  <1>1. crashes' \in 0..MaxCrashes BY DriverAssumption DEF Down, TypeOK, ConstantsOK
  <1>2. /\ queue' \in [Peers -> Seq(Sends)]
        /\ \A p \in Peers : Len(queue'[p]) <= QueueCapacity
    BY DriverAssumption DEF Down, ConstantsOK
  <1> QED BY <1>1, <1>2, ConstantTypes DEF Down, TypeOK, Phases

LEMMA OutageTypes == ASSUME TypeOK, Boot \/ Crash \/ DiskError \/ PowerLoss PROVE TypeOK'
  <1>1. CASE Crash
    BY <1>1, DownTypes DEF Crash, TypeOK, diskVars
  <1>2. CASE DiskError
    <2>1. tmp' \in Files BY <1>2 DEF DiskError, Encoded, Files, TypeOK
    <2> QED BY <1>2, <2>1, DownTypes DEF DiskError, TypeOK
  <1>3. CASE PowerLoss
    <2>1. AfterPowerLoss \subseteq Files BY DEF AfterPowerLoss, Files, TypeOK
    <2> QED BY <1>3, <2>1, DownTypes, ConstantTypes DEF PowerLoss
  <1>4. CASE Boot
    <2>1. /\ phase' = "wait" /\ mem' = file.ver /\ now' = Baseline
          /\ queue' \in {queue, Handed(Broadcast)}
          /\ inbox' \in {inbox, Loopback(Broadcast)}
          /\ published' = Max({published, file.ver})
          /\ UNCHANGED <<out, batch, pending, done, diskVars, crashes, asked, released>>
      BY <1>4 DEF Boot
    <2>2. file.ver \in Versions /\ file.tick \in Ticks BY DEF TypeOK, Files
    <2>3. published' \in Versions BY <2>1, <2>2, MaxVersionTyped DEF TypeOK
    <2>4. /\ queue' \in [Peers -> Seq(Sends)]
          /\ \A p \in Peers : Len(queue'[p]) <= QueueCapacity
          /\ inbox' \in Seq(Events)
      BY <2>1, HandedTyped, ConstantTypes DEF TypeOK
    <2> QED BY <2>1, <2>2, <2>3, <2>4 DEF TypeOK, Phases, Baseline, diskVars
  <1> QED BY <1>1, <1>2, <1>3, <1>4

\* What arrives and what leaves.
LEMMA EnvironmentTypes ==
    ASSUME TypeOK,
           \/ \E p \in Peers : Request(p) \/ Dial(p) \/ Deliver("response", p)
           \/ Deliver("timer", Self)
           \/ \E o \in ClientOps : Submit(o)
    PROVE  TypeOK'
  <1>1. ASSUME NEW p \in Peers, Request(p) PROVE TypeOK'
    <2>1. Event("request", p, NoOp) \in Events BY ConstantTypes DEF Everyone
    <2> QED BY <1>1, <2>1 DEF Request, Enter, TypeOK, diskVars
  <1>2. ASSUME NEW p \in Everyone, NEW k \in {"response", "timer"}, Deliver(k, p) PROVE TypeOK'
    <2>1. Event(k, p, NoOp) \in Events BY ConstantTypes
    <2> QED BY <1>2, <2>1 DEF Deliver, Enter, TypeOK, diskVars
  <1>3. ASSUME NEW o \in ClientOps, Submit(o) PROVE TypeOK'
    <2>1. Event("submit", Self, o) \in Events BY ConstantTypes
    <2> QED BY <1>3, <2>1 DEF Submit, Enter, TypeOK, diskVars
  <1>4. ASSUME NEW p \in Peers, Dial(p) PROVE TypeOK'
    <2>1. /\ queue[p] \in Seq(Sends) /\ queue[p] # <<>> /\ Len(queue[p]) <= QueueCapacity
          /\ queue' = [queue EXCEPT ![p] = Tail(@)]
          /\ asked' \in {asked, asked \ {p}}
      BY <1>4 DEF Dial, TypeOK
    <2>2. Tail(queue[p]) \in Seq(Sends) /\ Len(Tail(queue[p])) = Len(queue[p]) - 1
      BY <2>1
    <2>3. QueueCapacity \in Nat /\ Len(queue[p]) \in Nat
      BY <2>1, DriverAssumption DEF ConstantsOK
    <2>4. Len(Tail(queue[p])) <= QueueCapacity BY <2>1, <2>2, <2>3
    <2>5. /\ queue' \in [Peers -> Seq(Sends)]
          /\ \A q \in Peers : Len(queue'[q]) <= QueueCapacity
      BY <2>1, <2>2, <2>4 DEF TypeOK
    <2> QED BY <1>4, <2>1, <2>5 DEF Dial, TypeOK, diskVars
  <1>5. Self \in Everyone /\ Peers \subseteq Everyone BY DEF Everyone
  <1> QED BY <1>1, <1>2, <1>3, <1>4, <1>5

\* The driver's state keeps its types; the channels to the dialers never hold
\* more than OUTBOUND_QUEUE_CAPACITY, whichever peers have stopped reading.
THEOREM DriverTypeCorrectness == Spec => []TypeOK
  <1>1. Init => TypeOK
    <2> SUFFICES ASSUME Init PROVE TypeOK
      OBVIOUS
    <2>1. /\ queue \in [Peers -> Seq(Sends)]
          /\ \A p \in Peers : Len(queue[p]) <= QueueCapacity
      BY DriverAssumption DEF Init, ConstantsOK
    <2>2. 0 \in 0..MaxCrashes BY DriverAssumption DEF ConstantsOK
    <2> QED BY <2>1, <2>2, ConstantTypes DEF Init, TypeOK, Phases
  <1>2. TypeOK /\ [Next]_vars => TypeOK'
    <2>1. TypeOK /\ UNCHANGED vars => TypeOK' BY DEF TypeOK, vars, nodeVars, diskVars
    <2> QED BY <2>1, LoopTypes, OutageTypes, EnvironmentTypes DEF Next
  <1> QED BY <1>1, <1>2, PTL DEF Spec

-----------------------------------------------------------------------------
(***************************************************************************)
(* Write before reply. What a power loss leaves depends on how far the     *)
(* write has got, what a reply depends on on how far the batch has: the    *)
(* invariant ties both to the phase of the loop.                           *)
(***************************************************************************)

\* Nothing of the state DriverInv reads has changed.
LEMMA DriverStutter ==
    ASSUME DriverInv,
           UNCHANGED <<phase, mem, now, out, batch, done, file, stable, tmp, released>>
    PROVE  DriverInv'
  BY DEF DriverInv, DiskOK, MemoryOK, BatchOK, NothingUnwritten, Encoded

LEMMA VersionsAreNumbers ==
    ASSUME TypeOK
    PROVE  /\ mem \in Nat /\ released \in Nat /\ file.ver \in Nat /\ stable.ver \in Nat
           /\ now \in Nat /\ file.tick \in Nat /\ stable.tick \in Nat
           /\ \A k \in 1..Len(out) : out[k] \in Sends /\ out[k].ver \in Nat
           /\ batch.mutated \in BOOLEAN
  <1>1. Versions \subseteq Nat /\ Ticks \subseteq Nat BY DEF Versions, Ticks
  <1>2. \A k \in 1..Len(out) : out[k] \in Sends BY DEF TypeOK
  <1> QED BY <1>1, <1>2 DEF TypeOK, Files, Sends

\* A batch that mutates nothing sends requests only; a response carries the
\* version it depends on.
LEMMA ApplyEventInv == ASSUME TypeOK, DriverInv, ApplyEvent PROVE DriverInv'
  <1> DEFINE e == Head(inbox)
  <1>1. /\ phase \in {"wait", "drain"} /\ phase' = "drain" /\ inbox # <<>>
        /\ \/ e.kind = "request"  /\ OnRequest(e)
           \/ e.kind = "response" /\ OnResponse
           \/ e.kind = "timer"    /\ OnTimer
           \/ e.kind = "submit"   /\ OnSubmit(e)
        /\ batch' = [len |-> batch.len + 1, mutated |-> batch.mutated \/ MayMutate(e)]
        /\ now' \in {t \in {now, now + 1} : t <= MaxTick}
        /\ UNCHANGED <<diskVars, released>>
    BY DEF ApplyEvent
  <1>2. UNCHANGED <<file, stable, tmp, released>> /\ now <= now' /\ now' \in Nat
    BY <1>1, VersionsAreNumbers DEF diskVars
  <1>3. /\ out \in Seq(Sends)
        /\ \A k \in 1..Len(out) : out[k].ver \in Nat /\ out[k].ver <= mem
        /\ ~batch.mutated => \A k \in 1..Len(out) : out[k].ver = 0
    BY SMTT(40), <1>1, VersionsAreNumbers DEF DriverInv, BatchOK, TypeOK
  <1>4. batch'.mutated = (batch.mutated \/ MayMutate(e)) BY <1>1
  <1>5. /\ mem' \in Nat /\ mem <= mem'
        /\ \/ out' = out
           \/ \E s : out' = Append(out, s) /\ s \in Sends /\ s.ver \in {0, mem'}
                     /\ (~MayMutate(e) => s.ver = 0)
        /\ ~MayMutate(e) => mem' = mem /\ done' = done
    <2>1. mem \in Nat BY VersionsAreNumbers
    <2>2. Broadcast \in Sends /\ Broadcast.ver = 0 BY ConstantTypes DEF Broadcast
    <2>3. CASE e.kind = "request" /\ OnRequest(e)
      <3>1. PICK v \in MaybeMutates :
              /\ mem' = v
              /\ out' = Append(out, [to |-> {e.from}, kind |-> "response", ver |-> v])
        BY <2>3 DEF OnRequest
      <3> DEFINE s == [to |-> {e.from}, kind |-> "response", ver |-> v]
      <3>2. MayMutate(e) BY <2>3 DEF MayMutate
      <3>3. v \in Versions /\ mem <= v /\ v \in Nat
        BY <2>1 DEF MaybeMutates, Versions
      <3>4. e \in Events BY <1>1 DEF TypeOK
      <3>5. e.from \in Everyone BY <3>4 DEF Events, Everyone
      <3>6. s \in Sends /\ s.ver = mem' BY <3>1, <3>3, <3>5 DEF Sends
      <3> QED BY <3>1, <3>2, <3>3, <3>6
    <2>4. CASE e.kind = "response" /\ OnResponse
      <3>1. MayMutate(e) BY <2>4 DEF MayMutate
      <3>2. mem' \in {mem, mem + 1} /\ out' \in {out, Append(out, Broadcast)}
        BY <2>4 DEF OnResponse, MaybeProposes
      <3> QED BY <2>1, <2>2, <3>1, <3>2
    <2>5. CASE OnTimer \/ OnSubmit(e)
      <3>1. mem' = mem /\ done' = done /\ out' \in {out, Append(out, Broadcast)}
        BY <2>5 DEF OnTimer, OnSubmit, MaybeProposes
      <3> QED BY <2>1, <2>2, <3>1
    <2> QED BY <1>1, <2>3, <2>4, <2>5
  <1>6. /\ \A k \in 1..Len(out') : out'[k].ver <= mem'
        /\ ~batch'.mutated => \A k \in 1..Len(out') : out'[k].ver = 0
    <2>1. CASE out' = out
      BY <1>3, <1>4, <1>5, <2>1, VersionsAreNumbers
    <2>2. ASSUME NEW s, out' = Append(out, s), s \in Sends, s.ver \in {0, mem'},
                 ~MayMutate(e) => s.ver = 0, NEW k \in 1..Len(out')
          PROVE  out'[k].ver <= mem' /\ (~batch'.mutated => out'[k].ver = 0)
      <3>1. \/ k \in 1..Len(out) /\ out'[k] = out[k]
            \/ out'[k] = s
        <4>1. out \in Seq(Sends) /\ s \in Sends /\ out' = Append(out, s) BY <1>3, <2>2
        <4> QED BY <2>2, <4>1
      <3>2. CASE k \in 1..Len(out) /\ out'[k] = out[k]
        <4>1. out[k].ver \in Nat /\ out[k].ver <= mem /\ (~batch.mutated => out[k].ver = 0)
          BY <1>3, <3>2
        <4> QED BY SMTT(60), <1>4, <1>5, <3>2, <4>1, VersionsAreNumbers
      <3>3. CASE out'[k] = s
        <4>1. s.ver <= mem' BY <1>5, <2>2
        <4> QED BY <1>4, <2>2, <3>3, <4>1
      <3> QED BY <3>1, <3>2, <3>3
    <2> QED BY <1>5, <2>1, <2>2
  <1>7. ~batch'.mutated => mem' = file.ver /\ (done' = {} \/ stable.ver = mem')
    BY <1>1, <1>4, <1>5 DEF DriverInv, BatchOK, NothingUnwritten
  <1>8. DiskOK' BY <1>2 DEF DriverInv, DiskOK
  <1>9. file.ver <= mem' /\ file.tick <= now'
    <2>1. file.ver <= mem /\ file.tick <= now BY <1>1 DEF DriverInv, MemoryOK
    <2> QED BY <1>2, <1>5, <2>1, VersionsAreNumbers
  <1>10. MemoryOK' BY <1>1, <1>2, <1>9 DEF MemoryOK
  <1>11. BatchOK' BY <1>1, <1>2, <1>6, <1>7 DEF BatchOK, NothingUnwritten, DiskPhases
  <1> QED BY <1>8, <1>10, <1>11 DEF DriverInv

\* EndBatch writes if it has to; at the end of the write everything is
\* written, and only then is anything released.
LEMMA LoopInv == ASSUME TypeOK, DriverInv, Loop PROVE DriverInv'
  <1>0. /\ mem \in Nat /\ released \in Nat /\ file.ver \in Nat /\ stable.ver \in Nat
        /\ now \in Nat /\ file.tick \in Nat /\ stable.tick \in Nat
    BY VersionsAreNumbers
  <1>1. CASE EndBatch
    <2>1. /\ phase = "drain" /\ phase' = (IF batch.mutated THEN "write" ELSE "flush")
          /\ UNCHANGED <<mem, now, out, batch, done, file, stable, tmp, released>>
      BY <1>1 DEF EndBatch, diskVars
    <2>2. ~batch.mutated => \A k \in 1..Len(out) : out[k].ver <= stable.ver
      BY <1>0, <2>1 DEF DriverInv, BatchOK
    <2> QED BY <2>1, <2>2 DEF DriverInv, DiskOK, MemoryOK, BatchOK, NothingUnwritten, DiskPhases
  <1>2. CASE WriteTmp
    <2>1. /\ phase = "write" /\ phase' = "sync" /\ tmp' = Encoded
          /\ UNCHANGED <<mem, now, out, batch, done, file, stable, released>>
      BY <1>2 DEF WriteTmp, Disk
    <2> QED BY <2>1 DEF DriverInv, DiskOK, MemoryOK, BatchOK, NothingUnwritten, DiskPhases, Encoded
  <1>3. CASE SyncTmp
    <2>1. /\ phase = "sync" /\ phase' = "rename" /\ tmp' = [tmp EXCEPT !.synced = TRUE]
          /\ UNCHANGED <<mem, now, out, batch, done, file, stable, released>>
      BY <1>3 DEF SyncTmp, Disk
    <2> QED BY <2>1 DEF DriverInv, DiskOK, MemoryOK, BatchOK, NothingUnwritten, DiskPhases, Encoded
  <1>4. CASE Rename
    <2>1. /\ phase = "rename" /\ phase' = "dirsync" /\ file' = tmp
          /\ UNCHANGED <<mem, now, out, batch, done, stable, released>>
      BY <1>4 DEF Rename, Disk
    <2>2. tmp = [Encoded EXCEPT !.synced = TRUE] BY <2>1 DEF DriverInv, MemoryOK
    <2>3. /\ file'.ver = mem /\ file'.tick = now /\ file'.whole /\ file'.synced
          /\ file' = [Encoded EXCEPT !.synced = TRUE]'
      BY <2>1, <2>2 DEF Encoded
    <2>4. stable.ver <= mem /\ stable.tick <= now
      BY <1>0, <2>1 DEF DriverInv, DiskOK, MemoryOK
    <2> QED
      BY <1>0, <2>1, <2>3, <2>4 DEF DriverInv, DiskOK, MemoryOK, BatchOK, NothingUnwritten, DiskPhases
  <1>5. CASE SyncDir
    <2>1. /\ phase = "dirsync" /\ phase' = "flush" /\ stable' = file
          /\ UNCHANGED <<mem, now, out, batch, done, file, tmp, released>>
      BY <1>5 DEF SyncDir, Disk
    <2>2. file.ver = mem /\ file.whole /\ file.synced
      BY <2>1 DEF DriverInv, DiskOK, MemoryOK, Encoded
    <2>3. \A k \in 1..Len(out) : out[k].ver <= mem
      BY <2>1 DEF DriverInv, BatchOK, DiskPhases
    <2> QED
      BY <1>0, <2>1, <2>2, <2>3 DEF DriverInv, DiskOK, MemoryOK, BatchOK, NothingUnwritten, DiskPhases
  <1>6. CASE FlushOne
    <2>1. /\ phase = "flush" /\ out # <<>> /\ released' = Max({released, Head(out).ver})
          /\ out' = Tail(out)
          /\ UNCHANGED <<phase, mem, now, batch, done, file, stable, tmp>>
      BY <1>6 DEF FlushOne, diskVars
    <2>2. out \in Seq(Sends) BY DEF TypeOK
    <2>3. 1 \in 1..Len(out) /\ Head(out) = out[1] BY <2>1, <2>2
    <2>4. Head(out).ver \in Int /\ Head(out).ver <= stable.ver
      BY <2>1, <2>3, VersionsAreNumbers DEF DriverInv, BatchOK
    <2>5. released <= stable.ver BY DEF DriverInv, DiskOK
    <2>6. released' <= stable.ver
      <3>1. released \in Int BY <1>0
      <3>2. Max({released, Head(out).ver}) \in {released, Head(out).ver}
        BY <2>4, <3>1, MaxOfTwo, Zenon
      <3> QED BY <2>1, <2>4, <2>5, <3>2
    <2>7. \A k \in 1..Len(out') : k + 1 \in 1..Len(out) /\ out'[k] = out[k + 1]
      BY <2>1, <2>2
    <2>8. \A k \in 1..Len(out') : out'[k].ver <= stable.ver
      BY <2>1, <2>7 DEF DriverInv, BatchOK
    <2> QED
      BY <2>1, <2>6, <2>8 DEF DriverInv, DiskOK, MemoryOK, BatchOK, NothingUnwritten, DiskPhases, Encoded
  <1>7. CASE EndFlush
    <2>1. /\ phase = "flush" /\ out = <<>> /\ phase' = "ack"
          /\ UNCHANGED <<mem, now, out, batch, done, file, stable, tmp, released>>
      BY <1>7 DEF EndFlush, diskVars
    <2> QED BY <2>1 DEF DriverInv, DiskOK, MemoryOK, BatchOK, NothingUnwritten, DiskPhases
  <1>8. CASE Ack
    <2>1. /\ phase = "ack" /\ phase' = "publish"
          /\ released' = IF pending \cap done = {} THEN released ELSE Max({released, mem})
          /\ UNCHANGED <<mem, now, out, batch, done, file, stable, tmp>>
      BY <1>8 DEF Ack, diskVars
    <2>2. NothingUnwritten /\ released <= stable.ver BY <2>1 DEF DriverInv, BatchOK, DiskOK
    <2>3. released' <= stable.ver
      <3>1. CASE done = {}
        BY <2>1, <2>2, <3>1
      <3>2. CASE done # {}
        <4>1. stable.ver = mem BY <2>2, <3>2 DEF NothingUnwritten
        <4>2. Max({released, mem}) \in {released, mem}
          <5>1. released \in Int /\ mem \in Int BY <1>0
          <5> QED BY <5>1, MaxOfTwo, Zenon
        <4>3. released' \in {released, mem} BY <2>1, <4>2
        <4> QED BY <1>0, <2>2, <4>1, <4>3
      <3> QED BY <3>1, <3>2
    <2> QED BY <2>1, <2>3 DEF DriverInv, DiskOK, MemoryOK, BatchOK, NothingUnwritten, DiskPhases
  <1>9. CASE Publish
    <2>1. /\ phase = "publish" /\ phase' = "wait" /\ batch' = NoBatch
          /\ UNCHANGED <<mem, now, out, done, file, stable, tmp, released>>
      BY <1>9 DEF Publish, diskVars
    <2> QED BY <2>1 DEF DriverInv, DiskOK, MemoryOK, BatchOK, NothingUnwritten, DiskPhases
  <1> QED
    BY <1>1, <1>2, <1>3, <1>4, <1>5, <1>6, <1>7, <1>8, <1>9, ApplyEventInv DEF Loop

\* Whatever ends the process leaves one of two whole snapshots, and neither is
\* older than what was released; a boot takes up the one it finds.
LEMMA OutageInv ==
    ASSUME TypeOK, DriverInv, Boot \/ Crash \/ DiskError \/ PowerLoss
    PROVE  DriverInv'
  <1>1. ASSUME Down, DiskOK' PROVE DriverInv'
    BY <1>1 DEF Down, DriverInv, MemoryOK, BatchOK, NoBatch, DiskPhases
  <1>2. CASE Crash
    BY <1>1, <1>2 DEF Crash, Down, DriverInv, DiskOK, diskVars
  <1>3. CASE DiskError
    BY <1>1, <1>3 DEF DiskError, Down, DriverInv, DiskOK
  <1>4. CASE PowerLoss
    <2>1. AfterPowerLoss = {stable, file} BY DEF AfterPowerLoss, DriverInv, DiskOK
    <2>2. file' = stable' /\ file' \in {stable, file} /\ released' = released
      BY <1>4, <2>1 DEF PowerLoss, Down
    <2>3. DiskOK' BY <2>2, VersionsAreNumbers DEF DriverInv, DiskOK
    <2> QED BY <1>1, <1>4, <2>3 DEF PowerLoss
  <1>5. CASE Boot
    <2>1. /\ phase = "off" /\ phase' = "wait" /\ mem' = file.ver /\ now' = file.tick
          /\ UNCHANGED <<out, batch, done, file, stable, tmp, released>>
      BY <1>5 DEF Boot, Baseline, diskVars
    <2> QED
      BY <2>1, VersionsAreNumbers DEF DriverInv, DiskOK, MemoryOK, BatchOK, NothingUnwritten, DiskPhases
  <1> QED BY <1>2, <1>3, <1>4, <1>5

LEMMA DriverInvariance == Spec => []DriverInv
  <1>1. Init => DriverInv
    BY DEF Init, DriverInv, DiskOK, MemoryOK, BatchOK, NothingUnwritten, None, NoBatch, DiskPhases
  <1>2. TypeOK /\ DriverInv /\ [Next]_vars => DriverInv'
    <2> SUFFICES ASSUME TypeOK, DriverInv, [Next]_vars PROVE DriverInv'
      OBVIOUS
    <2>1. ASSUME \/ \E p \in Peers : Request(p) \/ Dial(p) \/ Deliver("response", p)
                 \/ Deliver("timer", Self)
                 \/ \E o \in ClientOps : Submit(o)
          PROVE  DriverInv'
      BY <2>1, DriverStutter DEF Request, Dial, Deliver, Submit, diskVars
    <2>2. CASE UNCHANGED vars
      BY <2>2, DriverStutter DEF vars, nodeVars, diskVars
    <2> QED BY <2>1, <2>2, LoopInv, OutageInv DEF Next
  <1> QED BY <1>1, <1>2, DriverTypeCorrectness, PTL DEF Spec

\* Write before reply (driver.rs, released_ok): for any batches, peers and
\* outages, what a reply or a client's outcome depended on is in every snapshot
\* that a kill, a disk error or a power loss can leave, and that one loads.
THEOREM DriverAnsweredIsDurable == Spec => []AnsweredIsDurable
  <1>1. TypeOK /\ DriverInv => AnsweredIsDurable
    <2> SUFFICES ASSUME TypeOK, DriverInv PROVE AnsweredIsDurable
      OBVIOUS
    <2>1. AfterPowerLoss \cup {file} = {stable, file}
      BY DEF AfterPowerLoss, DriverInv, DiskOK
    <2> QED BY <2>1, VersionsAreNumbers DEF AnsweredIsDurable, DriverInv, DiskOK
  <1> QED BY <1>1, DriverInvariance, DriverTypeCorrectness, PTL

\* Logical time (ctx.rs, baseline; persist.rs, max_tick): the tick that goes
\* with the durable state never goes back, across restarts and power losses.
THEOREM DriverTickMonotone == Spec => DurableTickMonotone
  <1>1. TypeOK /\ DriverInv /\ [Next]_vars => [TickKept]_vars
    <2> SUFFICES ASSUME TypeOK, DriverInv, [Next]_vars PROVE TickKept
      OBVIOUS
    <2>0. stable.tick \in Nat /\ file.tick \in Nat /\ stable.tick <= file.tick
      BY VersionsAreNumbers DEF DriverInv, DiskOK
    <2>1. CASE UNCHANGED stable
      BY <2>0, <2>1 DEF TickKept
    <2>2. CASE SyncDir
      BY <2>0, <2>2 DEF SyncDir, TickKept
    <2>3. CASE PowerLoss
      <3>1. AfterPowerLoss = {stable, file} BY DEF AfterPowerLoss, DriverInv, DiskOK
      <3> QED BY <2>0, <2>3, <3>1 DEF PowerLoss, TickKept
    <2>4. ASSUME Loop, ~SyncDir PROVE UNCHANGED stable
      BY <2>4 DEF Loop, ApplyEvent, EndBatch, WriteTmp, SyncTmp, Rename, FlushOne, EndFlush, Ack,
                  Publish, diskVars
    <2>5. ASSUME Boot \/ Crash \/ DiskError PROVE UNCHANGED stable
      BY <2>5 DEF Boot, Crash, DiskError, diskVars
    <2>6. ASSUME \/ \E p \in Peers : Request(p) \/ Dial(p) \/ Deliver("response", p)
                 \/ Deliver("timer", Self)
                 \/ \E o \in ClientOps : Submit(o)
          PROVE  UNCHANGED stable
      BY <2>6 DEF Request, Dial, Deliver, Submit, diskVars
    <2>7. CASE UNCHANGED vars
      BY <2>1, <2>7 DEF vars, diskVars
    <2> QED BY <2>1, <2>2, <2>3, <2>4, <2>5, <2>6, <2>7 DEF Next
  <1> QED BY <1>1, DriverInvariance, DriverTypeCorrectness, PTL DEF Spec, DurableTickMonotone

-----------------------------------------------------------------------------
(* The status server.                                                      *)

Snapshots == [dec : Nat, fast : Nat, ready : BOOLEAN, restarted : BOOLEAN, recovery : 0..Unset]

\* How a handler ends, and where a connection can be.
Ends        == {"closed", "answered", "ready answered", "metrics answered"}
Whereabouts == {"none", "backlog", "reading"} \cup Ends \cup Range(Loads)

\* Every variable keeps its type; the clock and the times stay in bounds.
StatusTypeOK ==
    /\ loop \in {"boot", "wait"} \cup Range(Stores)
    /\ is_restart \in BOOLEAN /\ ended \in BOOLEAN
    /\ node \in [dec : Nat, fast : Nat, catching : BOOLEAN]
    /\ clock \in 0..MaxTime
    /\ began \in 0..clock \cup {Unset} /\ rejoined \in 0..clock \cup {Unset}
    /\ shared \in Snapshots
    /\ permits \in Nat /\ acceptor \in {"acquire", "accept"}
    /\ backlog \in Seq(Visitors)
    /\ serving \in [Visitors -> Whereabouts]
    /\ got \in [Visitors -> Snapshots]

\* The recovery time is set once and with the first rejoin, and before the
\* first store nothing has been published.
RecoveryInv ==
    /\ shared.recovery # Unset <=> rejoined # Unset
    /\ shared.recovery # Unset =>
         is_restart /\ began <= rejoined /\ shared.recovery = rejoined - began
    /\ is_restart /\ loop # "boot" => began <= clock
    /\ loop = "boot" => ~shared.ready /\ shared.recovery = Unset

\* What the server shows as ready has ended a catch-up, in every stage from the
\* replica's flag to the answer.
ReadyInv ==
    /\ is_restart /\ loop # "boot" /\ ~node.catching => ended
    /\ is_restart /\ shared.ready => ended
    /\ \A c \in Visitors : is_restart /\ got[c].ready => ended

\* The backlog holds the connections nobody has accepted, each once.
BacklogInv ==
    /\ \A i \in 1..Len(backlog) : serving[backlog[i]] = "backlog"
    /\ \A i, j \in 1..Len(backlog) : backlog[i] = backlog[j] => i = j

StatusInv == StatusTypeOK /\ RecoveryInv /\ ReadyInv /\ BacklogInv /\ PermitsAccounted

LEMMA StoresNames ==
    /\ Range(Stores) = {"ready", "dec", "fast", "recovery"}
    /\ Range(Loads) = {"dec", "fast", "restarted", "recovery", "ready"}
    /\ Stores[1] = "ready" /\ Loads[1] = "dec"
  BY DEF Range, Stores, Loads

LEMMA WhereaboutsNames ==
    /\ {"none", "backlog", "reading"} \subseteq Whereabouts /\ Range(Loads) \subseteq Whereabouts
    /\ \A how \in Ends : /\ how \in Whereabouts /\ how \notin {"backlog", "reading"}
                          /\ how \notin Range(Loads)
    /\ \A f \in Range(Loads) : f \notin {"none", "backlog", "reading"}
  BY StoresNames DEF Whereabouts, Ends

LEMMA NextStoreTyped ==
    ASSUME NEW f \in Range(Stores) PROVE NextStore(f) \in {"wait"} \cup Range(Stores)
  <1>1. CASE f = "recovery" BY <1>1 DEF NextStore
  <1>2. CASE f # "recovery"
    <2>1. \E i \in 2..4 : Stores[i - 1] = f BY <1>2, StoresNames DEF Stores
    <2>2. \A i \in 2..4 : Stores[i] \in Range(Stores) BY StoresNames DEF Stores
    <2> QED BY <1>2, <2>1, <2>2 DEF NextStore
  <1> QED BY <1>1, <1>2

LEMMA NextLoadTyped ==
    ASSUME NEW f \in Range(Loads), f # "ready" PROVE NextLoad(f) \in Range(Loads)
  <1>1. \E i \in 2..5 : Loads[i - 1] = f BY StoresNames DEF Loads
  <1>2. \A i \in 2..5 : Loads[i] \in Range(Loads) BY StoresNames DEF Loads
  <1> QED BY <1>1, <1>2 DEF NextLoad

LEMMA UnsetTyped == Unset \in Nat /\ Unset > MaxTime /\ MaxTime \in Nat
  BY StatusAssumption DEF StatusConstantsOK, Unset

LEMMA StatusInitInv == StatusInit => StatusInv
  <1> SUFFICES ASSUME StatusInit PROVE StatusInv OBVIOUS
  <1>1. NewStatus \in Snapshots /\ ~NewStatus.ready /\ NewStatus.recovery = Unset
    BY UnsetTyped DEF NewStatus, Snapshots
  <1>2. StatusTypeOK
    <2>1. /\ loop = "boot" /\ is_restart \in BOOLEAN /\ ended = FALSE
          /\ node = [dec |-> 0, fast |-> 0, catching |-> FALSE]
          /\ clock = 0 /\ began = Unset /\ rejoined = Unset /\ shared = NewStatus
          /\ acceptor = "acquire" /\ backlog = <<>>
      BY DEF StatusInit
    <2>2. permits \in Nat BY StatusAssumption DEF StatusInit, StatusConstantsOK
    <2>3. serving \in [Visitors -> Whereabouts] BY WhereaboutsNames DEF StatusInit
    <2>4. got \in [Visitors -> Snapshots] BY <1>1 DEF StatusInit
    <2>5. clock \in 0..MaxTime BY <2>1, UnsetTyped
    <2>6. node \in [dec : Nat, fast : Nat, catching : BOOLEAN] BY <2>1
    <2>7. acceptor \in {"acquire", "accept"} /\ backlog \in Seq(Visitors) BY <2>1
    <2> QED BY <1>1, <2>1, <2>2, <2>3, <2>4, <2>5, <2>6, <2>7 DEF StatusTypeOK
  <1>3. RecoveryInv /\ ReadyInv BY <1>1 DEF StatusInit, RecoveryInv, ReadyInv
  <1>4. BacklogInv BY DEF StatusInit, BacklogInv
  <1>5. PermitsAccounted
    <2>1. Live = {} BY StoresNames DEF Live, StatusInit
    <2> QED BY <2>1, FS_EmptySet, StatusAssumption
         DEF PermitsAccounted, StatusInit, StatusConstantsOK
  <1> QED BY <1>2, <1>3, <1>4, <1>5 DEF StatusInv

\* The driver's steps leave the server's state alone.
LEMMA PublisherKeeps ==
    ASSUME StatusInv, UNCHANGED serverVars
    PROVE  /\ BacklogInv' /\ PermitsAccounted'
           /\ permits' \in Nat /\ acceptor' \in {"acquire", "accept"}
           /\ backlog' \in Seq(Visitors)
           /\ serving' \in [Visitors -> Whereabouts]
           /\ got' \in [Visitors -> Snapshots]
           /\ got' = got
  <1>1. UNCHANGED <<permits, acceptor, backlog, serving, got>> BY DEF serverVars
  <1>2. BacklogInv' BY <1>1 DEF StatusInv, BacklogInv
  <1>3. PermitsAccounted' BY <1>1 DEF StatusInv, PermitsAccounted, Live
  <1> QED BY <1>1, <1>2, <1>3 DEF StatusInv, StatusTypeOK

LEMMA PublishBootInv == StatusInv /\ PublishBoot => StatusInv'
  <1> SUFFICES ASSUME StatusInv, PublishBoot PROVE StatusInv' OBVIOUS
  <1> USE DEF StatusInv
  <1>1. /\ loop = "boot" /\ loop' = "ready"
        /\ UNCHANGED <<is_restart, batches, rejoined, ended, clock, serverVars>>
    BY StoresNames DEF PublishBoot
  <1>2. /\ shared' \in Snapshots /\ shared'.recovery = shared.recovery
        /\ shared'.ready = shared.ready
        /\ node' \in [dec : Nat, fast : Nat, catching : BOOLEAN]
        /\ is_restart => node'.catching
    BY DEF PublishBoot, StatusTypeOK, Snapshots
  <1>3. /\ began' \in 0..clock \cup {Unset} /\ (is_restart => began' = clock)
    BY DEF PublishBoot, StatusTypeOK
  <1>4. StatusTypeOK'
    BY <1>1, <1>2, <1>3, PublisherKeeps, StoresNames DEF StatusTypeOK
  <1>5. RecoveryInv' BY <1>1, <1>2, <1>3, UnsetTyped DEF RecoveryInv, StatusTypeOK
  <1>6. ReadyInv' BY <1>1, <1>2, PublisherKeeps DEF ReadyInv, RecoveryInv
  <1> QED BY <1>1, <1>4, <1>5, <1>6, PublisherKeeps

LEMMA BatchInv == StatusInv /\ Batch => StatusInv'
  <1> SUFFICES ASSUME StatusInv, Batch PROVE StatusInv' OBVIOUS
  <1> USE DEF StatusInv
  <1>1. /\ loop = "wait" /\ loop' = "ready"
        /\ UNCHANGED <<is_restart, shared, began, rejoined, clock, serverVars>>
    BY StoresNames DEF Batch
  <1>2. PICK d \in 0..1, f \in 0..1, c \in BOOLEAN :
           /\ node' = [dec |-> node.dec + d, fast |-> node.fast + f, catching |-> c]
           /\ ended' = (ended \/ (is_restart /\ ~c))
    BY DEF Batch
  <1>3. node' \in [dec : Nat, fast : Nat, catching : BOOLEAN] /\ ended' \in BOOLEAN
    BY <1>2 DEF StatusTypeOK
  <1>4. StatusTypeOK' BY <1>1, <1>3, PublisherKeeps, StoresNames DEF StatusTypeOK
  <1>5. RecoveryInv' BY <1>1 DEF RecoveryInv
  <1>6. ReadyInv' BY <1>1, <1>2, PublisherKeeps DEF ReadyInv
  <1> QED BY <1>1, <1>4, <1>5, <1>6, PublisherKeeps

LEMMA StoreInv == StatusInv /\ Store => StatusInv'
  <1> SUFFICES ASSUME StatusInv, Store PROVE StatusInv' OBVIOUS
  <1> USE DEF StatusInv
  <1>1. /\ loop \in {"ready", "dec", "fast", "recovery"}
        /\ loop' = NextStore(loop)
        /\ UNCHANGED <<is_restart, node, batches, began, ended, clock, serverVars>>
    BY StoresNames DEF Store
  <1>2. loop' \in {"wait"} \cup Range(Stores) /\ loop' # "boot"
    BY <1>1, NextStoreTyped, StoresNames
  <1>3. CASE loop # "recovery"
    <2>1. rejoined' = rejoined BY <1>3 DEF Store
    <2>2. /\ shared' \in Snapshots /\ shared'.recovery = shared.recovery
          /\ shared'.ready => shared.ready \/ ~node.catching
      BY <1>1, <1>3 DEF Store, StatusTypeOK, Snapshots
    <2>3. StatusTypeOK' BY <1>1, <1>2, <2>1, <2>2, PublisherKeeps DEF StatusTypeOK
    <2>4. RecoveryInv' BY <1>1, <1>2, <2>1, <2>2 DEF RecoveryInv
    <2>5. ReadyInv' BY <1>1, <2>2, PublisherKeeps DEF ReadyInv
    <2> QED BY <1>1, <2>3, <2>4, <2>5, PublisherKeeps
  <1>4. CASE loop = "recovery" /\ ~(Rejoins /\ rejoined = Unset)
    <2>1. rejoined' = rejoined BY <1>4 DEF Store
    <2>2. shared' = shared
      BY <1>4 DEF Store, NoteRecovery, RecoveryInv, StatusTypeOK, Snapshots
    <2>3. StatusTypeOK' BY <1>1, <1>2, <2>1, <2>2, PublisherKeeps DEF StatusTypeOK
    <2>4. RecoveryInv' BY <1>1, <1>2, <2>1, <2>2 DEF RecoveryInv
    <2>5. ReadyInv' BY <1>1, <2>2, PublisherKeeps DEF ReadyInv
    <2> QED BY <1>1, <2>3, <2>4, <2>5, PublisherKeeps
  <1>5. CASE loop = "recovery" /\ Rejoins /\ rejoined = Unset
    <2>1. rejoined' = clock BY <1>5 DEF Store
    <2>2. is_restart /\ began <= clock /\ began \in 0..clock
      BY <1>5, UnsetTyped DEF Rejoins, RecoveryInv, StatusTypeOK
    <2>3. shared' = [shared EXCEPT !.recovery = clock - began]
      BY <1>5 DEF Store, NoteRecovery, RecoveryInv, StatusTypeOK, Snapshots
    <2>4. clock - began \in 0..MaxTime BY <2>2, UnsetTyped DEF StatusTypeOK
    <2>5. /\ shared' \in Snapshots /\ shared'.recovery = clock - began
          /\ shared'.ready = shared.ready
      <3>1. shared \in Snapshots BY DEF StatusTypeOK
      <3>2. clock - began \in 0..Unset BY <2>4, UnsetTyped
      <3> HIDE DEF Unset
      <3> QED BY <2>3, <3>1, <3>2 DEF Snapshots
    <2>6. StatusTypeOK'
      BY <1>1, <1>2, <2>1, <2>5, PublisherKeeps DEF StatusTypeOK
    <2>7. RecoveryInv'
      BY <1>1, <1>2, <2>1, <2>2, <2>4, <2>5, UnsetTyped DEF RecoveryInv, StatusTypeOK
    <2>8. ReadyInv' BY <1>1, <2>5, PublisherKeeps DEF ReadyInv
    <2> QED BY <1>1, <2>6, <2>7, <2>8, PublisherKeeps
  <1> QED BY <1>3, <1>4, <1>5

LEMMA TickInv == StatusInv /\ Tick => StatusInv'
  <1> SUFFICES ASSUME StatusInv, Tick PROVE StatusInv' OBVIOUS
  <1> USE DEF StatusInv
  <1>1. UNCHANGED <<loop, is_restart, node, batches, shared, began, rejoined, ended>>
        /\ UNCHANGED serverVars
    BY DEF Tick, publisherVars
  <1>2. clock' = clock + 1 /\ clock' \in 0..MaxTime BY UnsetTyped DEF Tick, StatusTypeOK
  <1>3. StatusTypeOK' BY <1>1, <1>2, PublisherKeeps DEF StatusTypeOK
  <1>4. RecoveryInv' BY <1>1, <1>2, UnsetTyped DEF RecoveryInv, StatusTypeOK
  <1>5. ReadyInv' BY <1>1, PublisherKeeps DEF ReadyInv
  <1> QED BY <1>1, <1>3, <1>4, <1>5, PublisherKeeps

\* The server's steps leave what the driver publishes alone.
LEMMA ServerKeeps ==
    ASSUME StatusInv, UNCHANGED <<publisherVars, clock>>,
           permits' \in Nat, acceptor' \in {"acquire", "accept"}, backlog' \in Seq(Visitors),
           serving' \in [Visitors -> Whereabouts],
           got' \in [Visitors -> Snapshots],
           \A c \in Visitors : got'[c].ready => got[c].ready \/ shared.ready,
           BacklogInv', PermitsAccounted'
    PROVE  StatusInv'
  <1>1. UNCHANGED <<loop, is_restart, node, batches, shared, began, rejoined, ended, clock>>
    BY DEF publisherVars
  <1>2. StatusTypeOK' BY <1>1 DEF StatusInv, StatusTypeOK
  <1>3. RecoveryInv' BY <1>1 DEF StatusInv, RecoveryInv
  <1>4. ReadyInv' BY <1>1 DEF StatusInv, ReadyInv
  <1> QED BY <1>2, <1>3, <1>4 DEF StatusInv

LEMMA LiveFinite == IsFiniteSet(Live) /\ Cardinality(Live) \in Nat
  BY StatusAssumption, FS_Subset, FS_CardinalityType DEF StatusConstantsOK, Live

\* A handler that ends frees a permit; a connection leaves no backlog twice.
LEMMA CloseSteps ==
    ASSUME StatusInv, NEW c \in Live,
           NEW how \in Ends,
           Close(c, how), UNCHANGED <<acceptor, backlog>>
    PROVE  /\ permits' \in Nat
           /\ serving' \in [Visitors -> Whereabouts]
           /\ BacklogInv' /\ PermitsAccounted'
  <1>1. serving' = [serving EXCEPT ![c] = how] /\ permits' = permits + 1 BY DEF Close
  <1>2. c \in Visitors /\ serving[c] # "backlog" BY WhereaboutsNames DEF Live
  <1>3. Live' = Live \ {c} BY <1>1, <1>2, WhereaboutsNames DEF Live, StatusInv, StatusTypeOK
  <1>4. Cardinality(Live') = Cardinality(Live) - 1 BY <1>3, LiveFinite, FS_RemoveElement
  <1>5. PermitsAccounted'
    <2>1. permits \in Nat BY DEF StatusInv, StatusTypeOK
    <2> QED BY <1>1, <1>4, <2>1, LiveFinite, StatusAssumption
         DEF PermitsAccounted, StatusInv, StatusConstantsOK
  <1>6. BacklogInv' BY <1>1, <1>2 DEF BacklogInv, StatusInv, StatusTypeOK
  <1>7. permits' \in Nat BY <1>1 DEF StatusInv, StatusTypeOK
  <1>8. serving' \in [Visitors -> Whereabouts]
    BY <1>1, <1>2, WhereaboutsNames DEF StatusInv, StatusTypeOK
  <1> QED BY <1>5, <1>6, <1>7, <1>8

\* A handler that goes on keeps its permit.
LEMMA StaySteps ==
    ASSUME StatusInv, NEW c \in Live, NEW f \in Range(Loads),
           serving' = [serving EXCEPT ![c] = f], UNCHANGED <<permits, acceptor, backlog>>
    PROVE  /\ permits' \in Nat
           /\ serving' \in [Visitors -> Whereabouts]
           /\ BacklogInv' /\ PermitsAccounted'
  <1>1. c \in Visitors /\ serving[c] # "backlog" BY WhereaboutsNames DEF Live
  <1>2. Live' = Live BY <1>1, WhereaboutsNames DEF Live, StatusInv, StatusTypeOK
  <1>3. PermitsAccounted' BY <1>2 DEF PermitsAccounted, StatusInv
  <1>4. BacklogInv' BY <1>1 DEF BacklogInv, StatusInv, StatusTypeOK
  <1> QED BY <1>1, <1>3, <1>4, WhereaboutsNames DEF StatusInv, StatusTypeOK

LEMMA VisitInv == ASSUME NEW c \in Visitors, StatusInv, Visit(c) PROVE StatusInv'
  <1> USE DEF StatusInv
  <1>1. /\ serving[c] = "none" /\ serving' = [serving EXCEPT ![c] = "backlog"]
        /\ backlog' = Append(backlog, c)
        /\ UNCHANGED <<publisherVars, clock, permits, acceptor, got>>
    BY DEF Visit
  <1>2. Live' = Live BY <1>1, StoresNames DEF Live, StatusTypeOK
  <1>3. PermitsAccounted' BY <1>1, <1>2 DEF PermitsAccounted
  <1>4. backlog' \in Seq(Visitors) BY <1>1 DEF StatusTypeOK
  <1>5. BacklogInv'
    <2>1. /\ Len(backlog') = Len(backlog) + 1 /\ backlog'[Len(backlog) + 1] = c
          /\ \A i \in 1..Len(backlog) : backlog'[i] = backlog[i] /\ backlog[i] \in Visitors
      BY <1>1 DEF StatusTypeOK
    <2>2. Len(backlog) \in Nat BY DEF StatusTypeOK
    <2>3. \A i \in 1..Len(backlog) : backlog[i] # c BY <1>1 DEF BacklogInv
    <2>4. \A i \in 1..Len(backlog') : serving'[backlog'[i]] = "backlog"
      <3> SUFFICES ASSUME NEW i \in 1..Len(backlog') PROVE serving'[backlog'[i]] = "backlog"
        OBVIOUS
      <3>1. CASE i = Len(backlog) + 1 BY <1>1, <2>1, <3>1 DEF StatusTypeOK
      <3>2. CASE i # Len(backlog) + 1
        <4>1. i \in 1..Len(backlog) BY <2>1, <2>2, <3>2
        <4> QED BY <1>1, <2>1, <4>1 DEF StatusTypeOK, BacklogInv
      <3> QED BY <3>1, <3>2
    <2>5. \A i, j \in 1..Len(backlog') : backlog'[i] = backlog'[j] => i = j
      <3> SUFFICES ASSUME NEW i \in 1..Len(backlog'), NEW j \in 1..Len(backlog'),
                          backlog'[i] = backlog'[j]
                   PROVE  i = j
        OBVIOUS
      <3>1. i \in 1..Len(backlog) \/ i = Len(backlog) + 1 BY <2>1, <2>2
      <3>2. j \in 1..Len(backlog) \/ j = Len(backlog) + 1 BY <2>1, <2>2
      <3> QED BY <2>1, <2>3, <3>1, <3>2 DEF BacklogInv
    <2> QED BY <2>4, <2>5 DEF BacklogInv
  <1>6. serving' \in [Visitors -> Whereabouts] BY <1>1, WhereaboutsNames DEF StatusTypeOK
  <1> QED BY <1>1, <1>3, <1>4, <1>5, <1>6, ServerKeeps DEF StatusTypeOK

LEMMA AcquireInv == StatusInv /\ (Acquire \/ AcceptFails) => StatusInv'
  <1> SUFFICES ASSUME StatusInv, Acquire \/ AcceptFails PROVE StatusInv' OBVIOUS
  <1> USE DEF StatusInv
  <1>1. UNCHANGED <<publisherVars, clock, backlog, serving, got>> BY DEF Acquire, AcceptFails
  <1>2. Live' = Live BY <1>1 DEF Live
  <1>3. permits' \in Nat /\ acceptor' \in {"acquire", "accept"}
    BY DEF Acquire, AcceptFails, DropPermit, StatusTypeOK
  <1>4. PermitsAccounted'
    BY <1>2, LiveFinite DEF Acquire, AcceptFails, DropPermit, PermitsAccounted, StatusTypeOK
  <1>5. BacklogInv' BY <1>1 DEF BacklogInv
  <1> QED BY <1>1, <1>3, <1>4, <1>5, ServerKeeps DEF StatusTypeOK

LEMMA AcceptInv == StatusInv /\ Accept => StatusInv'
  <1> SUFFICES ASSUME StatusInv, Accept PROVE StatusInv' OBVIOUS
  <1> USE DEF StatusInv
  <1> DEFINE c == Head(backlog)
  <1>1. /\ acceptor = "accept" /\ acceptor' = "acquire" /\ backlog # <<>>
        /\ serving' = [serving EXCEPT ![c] = "reading"] /\ backlog' = Tail(backlog)
        /\ UNCHANGED <<publisherVars, clock, permits, got>>
    BY DEF Accept
  <1>2. /\ backlog \in Seq(Visitors) /\ Len(backlog) \in Nat \ {0}
        /\ c = backlog[1] /\ c \in Visitors
        /\ backlog' \in Seq(Visitors) /\ Len(backlog') = Len(backlog) - 1
        /\ \A i \in 1..Len(backlog') : backlog'[i] = backlog[i + 1]
    BY <1>1 DEF StatusTypeOK
  <1>3. serving[c] = "backlog" BY <1>2 DEF BacklogInv
  <1>4. Live' = Live \cup {c} /\ c \notin Live
    BY <1>1, <1>2, <1>3, StoresNames DEF Live, StatusTypeOK
  <1>5. Cardinality(Live') = Cardinality(Live) + 1 BY <1>4, LiveFinite, FS_AddElement
  <1>6. PermitsAccounted'
    BY <1>1, <1>5, LiveFinite DEF PermitsAccounted, StatusTypeOK
  <1>7. BacklogInv'
    <2>1. \A i \in 1..Len(backlog') : i + 1 \in 1..Len(backlog) /\ backlog[i + 1] # c
      BY <1>2 DEF BacklogInv
    <2>2. \A i \in 1..Len(backlog') : backlog'[i] \in Visitors BY <1>2
    <2>3. \A i \in 1..Len(backlog') : serving'[backlog'[i]] = "backlog"
      BY <1>1, <1>2, <2>1, <2>2 DEF BacklogInv, StatusTypeOK
    <2>4. \A i, j \in 1..Len(backlog') : backlog'[i] = backlog'[j] => i = j
      BY SMTT(90), <1>2, <2>1 DEF BacklogInv
    <2> QED BY <2>3, <2>4 DEF BacklogInv
  <1>8. serving' \in [Visitors -> Whereabouts] BY <1>1, <1>2, WhereaboutsNames DEF StatusTypeOK
  <1> QED BY <1>1, <1>2, <1>6, <1>7, <1>8, ServerKeeps DEF StatusTypeOK

LEMMA RouteInv == ASSUME NEW c \in Visitors, StatusInv, Route(c) PROVE StatusInv'
  <1> USE DEF StatusInv
  <1>1. serving[c] = "reading" /\ UNCHANGED <<publisherVars, clock, acceptor, backlog>>
    BY DEF Route
  <1>2. c \in Live BY <1>1 DEF Live
  <1>3. CASE serving' = [serving EXCEPT ![c] = Loads[1]] /\ UNCHANGED <<got, permits>>
    <2>1. Loads[1] \in Range(Loads) BY StoresNames
    <2> QED BY <1>1, <1>2, <1>3, <2>1, StaySteps, ServerKeeps DEF StatusTypeOK
  <1>4. CASE got' = [got EXCEPT ![c].ready = shared.ready] /\ Close(c, "ready answered")
    <2>1. got' \in [Visitors -> Snapshots] BY <1>4 DEF StatusTypeOK, Snapshots
    <2>2. \A x \in Visitors : got'[x].ready => got[x].ready \/ shared.ready
      BY <1>4 DEF StatusTypeOK, Snapshots
    <2> QED BY <1>1, <1>2, <1>4, <2>1, <2>2, CloseSteps, ServerKeeps DEF Ends, StatusTypeOK
  <1>5. CASE Close(c, "answered") /\ UNCHANGED got
    BY <1>1, <1>2, <1>5, CloseSteps, ServerKeeps DEF Ends, StatusTypeOK
  <1> QED BY <1>3, <1>4, <1>5 DEF Route

LEMMA LoadInv == ASSUME NEW c \in Visitors, StatusInv, Load(c) PROVE StatusInv'
  <1> USE DEF StatusInv
  <1>1. serving[c] \in Range(Loads) /\ UNCHANGED <<publisherVars, clock, acceptor, backlog>>
    BY DEF Load
  <1>2. c \in Live BY <1>1 DEF Live
  <1> DEFINE g == [got[c] EXCEPT ![serving[c]] = shared[serving[c]]]
  <1>3. got' = [got EXCEPT ![c] = g] BY DEF Load
  <1>4. got[c] \in Snapshots /\ shared \in Snapshots BY DEF StatusTypeOK
  <1>5. g \in Snapshots /\ (g.ready => got[c].ready \/ shared.ready)
    <2>1. CASE serving[c] = "dec" BY <1>4, <2>1 DEF Snapshots
    <2>2. CASE serving[c] = "fast" BY <1>4, <2>2 DEF Snapshots
    <2>3. CASE serving[c] = "restarted" BY <1>4, <2>3 DEF Snapshots
    <2>4. CASE serving[c] = "recovery" BY <1>4, <2>4 DEF Snapshots
    <2>5. CASE serving[c] = "ready" BY <1>4, <2>5 DEF Snapshots
    <2> QED BY <1>1, <2>1, <2>2, <2>3, <2>4, <2>5, StoresNames
  <1> HIDE DEF g
  <1>6. got' \in [Visitors -> Snapshots] BY <1>3, <1>5 DEF StatusTypeOK
  <1>7. \A x \in Visitors : got'[x].ready => got[x].ready \/ shared.ready
    BY <1>3, <1>5 DEF StatusTypeOK
  <1>8. CASE serving[c] = "ready"
    <2>1. Close(c, "metrics answered") BY <1>8 DEF Load
    <2> QED BY <1>1, <1>2, <1>6, <1>7, <2>1, CloseSteps, ServerKeeps DEF Ends, StatusTypeOK
  <1>9. CASE serving[c] # "ready"
    <2>1. serving' = [serving EXCEPT ![c] = NextLoad(serving[c])] /\ UNCHANGED permits
      BY <1>9 DEF Load
    <2>2. NextLoad(serving[c]) \in Range(Loads) BY <1>1, <1>9, NextLoadTyped
    <2> QED BY <1>1, <1>2, <1>6, <1>7, <2>1, <2>2, StaySteps, ServerKeeps DEF StatusTypeOK
  <1> QED BY <1>8, <1>9

LEMMA TimesOutInv == ASSUME NEW c \in Visitors, StatusInv, TimesOut(c) PROVE StatusInv'
  <1> USE DEF StatusInv
  <1>1. /\ serving[c] = "reading" /\ Close(c, "closed")
        /\ UNCHANGED <<publisherVars, clock, acceptor, backlog, got>>
    BY DEF TimesOut, Expired
  <1>2. c \in Live BY <1>1 DEF Live
  <1> QED BY <1>1, <1>2, CloseSteps, ServerKeeps DEF Ends, StatusTypeOK

LEMMA StatusStepInv == StatusInv /\ [StatusNext]_statusVars => StatusInv'
  <1> SUFFICES ASSUME StatusInv, [StatusNext]_statusVars PROVE StatusInv' OBVIOUS
  <1>1. CASE UNCHANGED statusVars
    <2>1. /\ UNCHANGED serverVars /\ UNCHANGED clock
          /\ UNCHANGED <<loop, is_restart, node, batches, shared, began, rejoined, ended>>
      BY <1>1 DEF statusVars, publisherVars
    <2>2. StatusTypeOK' BY <2>1, PublisherKeeps DEF StatusInv, StatusTypeOK
    <2>3. RecoveryInv' BY <2>1 DEF StatusInv, RecoveryInv
    <2>4. ReadyInv' BY <2>1, PublisherKeeps DEF StatusInv, ReadyInv
    <2> QED BY <2>1, <2>2, <2>3, <2>4, PublisherKeeps DEF StatusInv
  <1>2. CASE Publisher
    BY <1>2, PublishBootInv, BatchInv, StoreInv DEF Publisher
  <1>3. CASE Tick BY <1>3, TickInv
  <1>4. CASE Acquire \/ AcceptFails BY <1>4, AcquireInv
  <1>5. CASE Accept BY <1>5, AcceptInv
  <1>6. ASSUME NEW c \in Visitors, Visit(c) \/ Route(c) \/ Handler(c) PROVE StatusInv'
    BY <1>6, VisitInv, RouteInv, LoadInv, TimesOutInv DEF Handler
  <1> QED BY <1>1, <1>2, <1>3, <1>4, <1>5, <1>6 DEF StatusNext

\* The recovery time a node reports is that of this boot's first rejoin, and no
\* answer calls a restarted node ready before a catch-up has ended, for any
\* number of probes, permits, batches and failing accepts, and any clock.
THEOREM StatusRejoinIsReported == StatusSpec => []RejoinIsReported
  <1>1. StatusInit => StatusInv BY StatusInitInv
  <1>2. StatusInv /\ [StatusNext]_statusVars => StatusInv' BY StatusStepInv
  <1>3. StatusInv => RejoinIsReported
    <2> SUFFICES ASSUME StatusInv PROVE RejoinIsReported OBVIOUS
    <2>1. RecoveryIsTheRejoin BY DEF RecoveryIsTheRejoin, StatusInv, RecoveryInv
    <2>2. ReadyOnlyAfterRejoin BY DEF ReadyOnlyAfterRejoin, StatusInv, ReadyInv
    <2> QED BY <2>1, <2>2 DEF RejoinIsReported
  <1> QED BY <1>1, <1>2, <1>3, PTL DEF StatusSpec

\* Every permit of the status server is free or held by one task.
THEOREM StatusPermits == StatusSpec => []PermitsAccounted
  <1>1. StatusInit => StatusInv BY StatusInitInv
  <1>2. StatusInv /\ [StatusNext]_statusVars => StatusInv' BY StatusStepInv
  <1>3. StatusInv => PermitsAccounted BY DEF StatusInv
  <1> QED BY <1>1, <1>2, <1>3, PTL DEF StatusSpec

-----------------------------------------------------------------------------
(* The proxy between two nodes of a soak.                                  *)

\* One direction of one connection.
Streams == Relayed \X Dirs

\* What a direction has written since the last cut, by where its task is: once
\* it has written its chunk it is past the check, and the check lets no other by.
RelayInv ==
    /\ pump \in [Streams -> {"reading", "holding", "writing"}]
    /\ late \in [Streams -> {0, 1}]
    /\ \A p \in Streams : cut /\ late[p] = 1 => pump[p] # "writing"

\* A connection that is dropped starts anew.
LEMMA DropKeepsRelayInv ==
    ASSUME RelayInv, NEW c \in Relayed, Drop(c), UNCHANGED cut
    PROVE  RelayInv'
  <1>1. /\ pump' = [p \in Streams |-> IF p[1] = c THEN "reading" ELSE pump[p]]
        /\ late' = [p \in Streams |-> IF p[1] = c THEN 0 ELSE late[p]]
    BY DEF Drop, Streams
  <1> QED BY <1>1 DEF RelayInv

\* Every step of the relay keeps it.
LEMMA RelayStep == RelayInv /\ [ProxyNext]_proxyVars => RelayInv'
  <1> SUFFICES ASSUME RelayInv, [ProxyNext]_proxyVars PROVE RelayInv'
    OBVIOUS
  <1> USE DEF RelayInv
  <1>1. CASE CutStore
    <2>1. late' = [p \in Streams |-> 0] /\ pump' = pump
      BY <1>1 DEF CutStore, Streams
    <2> QED BY <2>1
  <1>2. CASE HealLink
    BY <1>2 DEF HealLink, connVars
  <1>3. CASE UNCHANGED <<cut, pump, late>>
    BY <1>3
  <1>4. ASSUME NEW c \in Relayed, Drop(c), UNCHANGED cut PROVE RelayInv'
    BY <1>4, DropKeepsRelayInv
  <1>5. ASSUME NEW c \in Relayed, NEW d \in Dirs, ReadChunk(c, d) PROVE RelayInv'
    <2>1. /\ <<c, d>> \in Streams /\ pump' = [pump EXCEPT ![<<c, d>>] = "holding"]
          /\ late' = late /\ cut' = cut
      BY <1>5 DEF ReadChunk, cutVars, Streams
    <2> QED BY <2>1
  <1>6. ASSUME NEW c \in Relayed, NEW d \in Dirs, CheckChunk(c, d) PROVE RelayInv'
    <2>1. cut' = cut BY <1>6 DEF CheckChunk, cutVars
    <2>2. CASE ~LinkOpen /\ Drop(c) BY <2>1, <2>2, <1>4
    <2>3. CASE LinkOpen /\ pump' = [pump EXCEPT ![<<c, d>>] = "writing"] /\ late' = late
      <3>1. ~cut /\ <<c, d>> \in Streams BY <2>3 DEF LinkOpen, Streams
      <3> QED BY <2>1, <2>3, <3>1
    <2> QED BY <1>6, <2>2, <2>3 DEF CheckChunk
  <1>7. ASSUME NEW c \in Relayed, NEW d \in Dirs, WriteChunk(c, d) PROVE RelayInv'
    <2>1. cut' = cut /\ pump[<<c, d>>] = "writing"
      BY <1>7 DEF WriteChunk, cutVars
    <2>2. CASE Drop(c) BY <2>1, <2>2, <1>4
    <2>3. CASE /\ pump' = [pump EXCEPT ![<<c, d>>] = "reading"]
               /\ late' = [late EXCEPT ![<<c, d>>] = IF cut /\ @ < 2 THEN @ + 1 ELSE @]
      <3>1. <<c, d>> \in Streams BY DEF Streams
      <3>2. cut => late[<<c, d>>] = 0 BY <2>1, <3>1
      <3> QED BY <2>1, <2>3, <3>1, <3>2
    <2> QED BY <1>7, <2>2, <2>3 DEF WriteChunk
  <1>8. ASSUME NEW c \in Relayed, RelayTask(c) PROVE RelayInv'
    <2>1. AcceptDial(c) \/ UpstreamFails(c) \/ TearDown(c) \/ EndOfStream(c)
            => UNCHANGED cut /\ (Drop(c) \/ UNCHANGED <<pump, late>>)
      BY DEF AcceptDial, UpstreamFails, TearDown, EndOfStream, cutVars
    <2>2. ConnectUpstream(c) => UNCHANGED <<cut, pump, late>>
      BY DEF ConnectUpstream, cutVars
    <2> QED BY <1>8, <2>1, <2>2, <1>3, <1>4, <1>6, <1>7 DEF RelayTask
  <1>9. CutWake \/ Kill \/ Spawn \/ UNCHANGED proxyVars
          => UNCHANGED <<cut, pump, late>>
    BY DEF CutWake, Kill, Spawn, proxyVars, cutVars, connVars
  <1>10. \A c \in Relayed : Redial(c) \/ CloseConn(c) => UNCHANGED <<cut, pump, late>>
    BY DEF Redial, CloseConn, cutVars
  <1> QED
    BY <1>1, <1>2, <1>3, <1>5, <1>8, <1>9, <1>10 DEF ProxyNext

\* However the chunks, the checks, cuts and heals of any number of connections
\* interleave, each direction of a connection writes at most one chunk after a
\* cut (proxy.rs, pump: "must not deliver the next chunk that arrives").
THEOREM RelayCutStopsBytes == ProxySpec => []OneChunkAfterCut
  <1>1. ProxyInit => RelayInv BY DEF ProxyInit, RelayInv, Streams
  <1>2. RelayInv => OneChunkAfterCut BY DEF RelayInv, Streams, OneChunkAfterCut
  <1> QED BY <1>1, <1>2, RelayStep, PTL DEF ProxySpec
=============================================================================
