------------------------- MODULE ConformanceProofs --------------------------
(***************************************************************************)
(* Theorems about the chain a node publishes and the observer that reads   *)
(* it, for any replicas, spacing, ring, workload and way of polling:       *)
(* however it is read, restarted and made to lose its log, GET /chain      *)
(* shows states of the node's own chain; and what the observer makes of    *)
(* the replicas it polls is exact.                                         *)
(***************************************************************************)
EXTENDS Conformance, FiniteSetTheorems, WellFoundedInduction, TLAPS

Entries == {Own(r) : r \in Replicas} \cup {Cmd(k) : k \in Nat}
States  == [n : Nat, h : Seq(Entries)]

ChainTypes ==
    /\ log \in [Replicas -> Seq(Entries)] /\ up \subseteq Replicas
    /\ pass \in [Replicas -> BOOLEAN]
    /\ folder \in [Replicas -> States] /\ frontier \in [Replicas -> States]
    /\ table \in [Replicas -> Seq(States)] /\ truncated \in [Replicas -> BOOLEAN]
    /\ seq \in Nat /\ decided \in Seq(Entries)

\* s is a state of the chain of l.
OfChain(s, l) == s.n <= Len(l) /\ s = StateOf(l, s.n)

\* What a fold keeps of l is true of it: its own state, the frontier stored at
\* the end of a pass, the checkpoints in the order they were crossed, and, as
\* long as none was evicted, all of them.
FoldIsTrue(l, fold, front, ring, evicted) ==
    /\ OfChain(fold, l) /\ OfChain(front, l)
    /\ \A i \in 1..Len(ring) : ring[i].n <= fold.n /\ OfChain(ring[i], l)
    /\ \A i, j \in 1..Len(ring) : i < j => ring[i].n < ring[j].n
    /\ ~evicted => \A n \in 1..fold.n : Boundary(n) => StateOf(l, n) \in Range(ring)

FoldInv == \A r \in up :
    FoldIsTrue(log[r], folder[r], frontier[r], table[r], truncated[r])

\* Only a node folds; the simulated cluster's replicas publish nothing.
NoFold == Source # "chain" => \A r \in Replicas :
    folder[r] = Genesis /\ frontier[r] = Genesis /\ table[r] = <<>>

ChainInv == ChainTypes /\ FoldInv /\ NoFold

-----------------------------------------------------------------------------
(***************************************************************************)
(* Prefixes of a log.                                                      *)
(***************************************************************************)

LEMMA PrefixTyped ==
    ASSUME NEW l \in Seq(Entries), NEW n \in Nat, n <= Len(l)
    PROVE  /\ StateOf(l, n) \in States
           /\ StateOf(l, n).n = n /\ StateOf(l, n).h = SubSeq(l, 1, n)
           /\ Len(SubSeq(l, 1, n)) = n
           /\ \A i \in 1..n : SubSeq(l, 1, n)[i] = l[i]
  <1>1. /\ SubSeq(l, 1, n) \in Seq(Entries) /\ Len(SubSeq(l, 1, n)) = n
        /\ \A i \in 1..n : SubSeq(l, 1, n)[i] = l[i]
    OBVIOUS
  <1> QED BY <1>1 DEF StateOf, States

\* Sequences are equal when they are of one length and agree.
LEMMA SameSeq ==
    ASSUME NEW a \in Seq(Entries), NEW b \in Seq(Entries), Len(a) = Len(b),
           \A i \in 1..Len(a) : a[i] = b[i]
    PROVE  a = b
  OBVIOUS

\* A log that grows keeps the states of its chain.
LEMMA PrefixKept ==
    ASSUME NEW l \in Seq(Entries), NEW c \in Entries, NEW n \in Nat, n <= Len(l)
    PROVE  StateOf(Append(l, c), n) = StateOf(l, n)
  <1> DEFINE m == Append(l, c)
  <1>1. m \in Seq(Entries) /\ Len(m) = Len(l) + 1 /\ \A i \in 1..Len(l) : m[i] = l[i]
    OBVIOUS
  <1>2. n <= Len(m) /\ Len(l) \in Nat BY <1>1
  <1> HIDE DEF m
  <1>3. /\ SubSeq(m, 1, n) \in Seq(Entries) /\ Len(SubSeq(m, 1, n)) = n
        /\ \A i \in 1..n : SubSeq(m, 1, n)[i] = m[i]
    BY <1>1, <1>2, PrefixTyped
  <1>4. /\ SubSeq(l, 1, n) \in Seq(Entries) /\ Len(SubSeq(l, 1, n)) = n
        /\ \A i \in 1..n : SubSeq(l, 1, n)[i] = l[i]
    BY PrefixTyped
  <1>5. \A i \in 1..n : m[i] = l[i] BY <1>1, <1>2
  <1>6. SubSeq(m, 1, n) = SubSeq(l, 1, n) BY <1>3, <1>4, <1>5, SameSeq
  <1> QED BY <1>6 DEF StateOf, m

\* A chain state extended by the next entry of the log is the next state.
LEMMA PrefixExtended ==
    ASSUME NEW l \in Seq(Entries), NEW n \in Nat, n < Len(l)
    PROVE  /\ l[n + 1] \in Entries
           /\ Extend(StateOf(l, n), l[n + 1]) = StateOf(l, n + 1)
  <1> DEFINE p == SubSeq(l, 1, n)
             q == Append(p, l[n + 1])
             w == SubSeq(l, 1, n + 1)
  <1>1. n + 1 \in Nat /\ n + 1 <= Len(l) /\ n <= Len(l) /\ l[n + 1] \in Entries OBVIOUS
  <1>2. p \in Seq(Entries) /\ Len(p) = n /\ \A i \in 1..n : p[i] = l[i]
    BY <1>1, PrefixTyped
  <1>3. w \in Seq(Entries) /\ Len(w) = n + 1 /\ \A i \in 1..(n + 1) : w[i] = l[i]
    BY <1>1, PrefixTyped
  <1> HIDE DEF p, w
  <1>4. q \in Seq(Entries) /\ Len(q) = n + 1 /\ \A i \in 1..n : q[i] = p[i] /\ q[n + 1] = l[n + 1]
    BY <1>1, <1>2
  <1>5. \A i \in 1..(n + 1) : q[i] = l[i] BY <1>2, <1>4
  <1>6. q = w BY <1>3, <1>4, <1>5, SameSeq
  <1> QED BY <1>1, <1>6 DEF Extend, StateOf, p, w

-----------------------------------------------------------------------------
(***************************************************************************)
(* What each part of the hook does to a fold.                              *)
(***************************************************************************)

LEMMA FreshFold ==
    ASSUME NEW l \in Seq(Entries), NEW e
    PROVE  FoldIsTrue(l, Genesis, Genesis, <<>>, e)
  <1>1. SubSeq(l, 1, 0) = <<>> /\ Len(l) >= 0 OBVIOUS
  <1>2. OfChain(Genesis, l) BY <1>1 DEF OfChain, Genesis, StateOf
  <1>3. 1..Len(<<>>) = {} /\ 1..Genesis.n = {} BY DEF Genesis
  <1> QED BY <1>2, <1>3 DEF FoldIsTrue

LEMMA LongerLog ==
    ASSUME NEW l \in Seq(Entries), NEW c \in Entries, NEW fold \in States,
           NEW front \in States, NEW ring \in Seq(States), NEW e,
           FoldIsTrue(l, fold, front, ring, e)
    PROVE  FoldIsTrue(Append(l, c), fold, front, ring, e)
  <1> DEFINE m == Append(l, c)
  <1>1. Len(m) = Len(l) + 1 /\ Len(l) \in Nat OBVIOUS
  <1>2. \A n \in Nat : n <= Len(l) => StateOf(m, n) = StateOf(l, n) BY PrefixKept
  <1> HIDE DEF m
  <1>3. \A s \in States : OfChain(s, l) => OfChain(s, m)
    <2>1. \A s \in States : s.n \in Nat BY DEF States
    <2> QED BY <1>1, <1>2, <2>1 DEF OfChain
  <1>4. fold.n \in Nat /\ fold.n <= Len(l) BY DEF States, FoldIsTrue, OfChain
  <1>5. \A n \in 1..fold.n : n \in Nat /\ n <= Len(l) BY <1>1, <1>4
  <1>6. ~e => \A n \in 1..fold.n : Boundary(n) => StateOf(m, n) \in Range(ring)
    BY <1>2, <1>5 DEF FoldIsTrue
  <1>7. \A i \in 1..Len(ring) : ring[i] \in States OBVIOUS
  <1>8. FoldIsTrue(m, fold, front, ring, e) BY <1>3, <1>6, <1>7 DEF FoldIsTrue
  <1> QED BY <1>8 DEF m

LEMMA StoredFrontier ==
    ASSUME NEW l, NEW fold, NEW front, NEW ring, NEW e, FoldIsTrue(l, fold, front, ring, e)
    PROVE  FoldIsTrue(l, fold, Stored(front, fold), ring, e)
  BY DEF FoldIsTrue, Stored

\* One command: the state of the fold is the next one of the chain, and a
\* boundary it reaches enters the ring, which says when another leaves it.
LEMMA FoldedOne ==
    ASSUME NEW l \in Seq(Entries), NEW fold \in States, NEW front \in States,
           NEW ring \in Seq(States), NEW e \in BOOLEAN, FoldIsTrue(l, fold, front, ring, e),
           fold.n < Len(l), NEW s, s = Extend(fold, l[fold.n + 1])
    PROVE  /\ s \in States
           /\ Boundary(s.n) => /\ Recorded(ring, s) \in Seq(States)
                               /\ FoldIsTrue(l, s, front, Recorded(ring, s), e \/ Len(ring) = Ring)
           /\ ~Boundary(s.n) => FoldIsTrue(l, s, front, ring, e)
  <1> DEFINE k == fold.n
             old == IF Len(ring) = Ring THEN Tail(ring) ELSE ring
  <1>0. k \in Nat /\ Len(l) \in Nat /\ Len(ring) \in Nat /\ Ring \in Nat \ {0}
    BY ConformanceAssumption DEF ConstantsOK, ChainConstantsOK, States
  <1>1. fold = StateOf(l, k) BY DEF FoldIsTrue, OfChain
  <1>2. k + 1 \in Nat /\ k + 1 <= Len(l) BY <1>0
  <1>3. s = StateOf(l, k + 1) BY <1>0, <1>1, PrefixExtended
  <1>4. s \in States /\ s.n = k + 1 BY <1>2, <1>3, PrefixTyped
  <1>5. OfChain(s, l) BY <1>2, <1>3, <1>4 DEF OfChain
  <1>6. /\ OfChain(front, l)
        /\ \A i \in 1..Len(ring) : ring[i].n <= k /\ OfChain(ring[i], l) /\ ring[i] \in States
        /\ \A i, j \in 1..Len(ring) : i < j => ring[i].n < ring[j].n
        /\ ~e => \A n \in 1..k : Boundary(n) => StateOf(l, n) \in Range(ring)
    BY DEF FoldIsTrue
  <1>7. \A x \in States : x.n \in Nat BY DEF States
  <1>8. 1..s.n = 1..k \cup {k + 1} BY <1>0, <1>4
  <1> HIDE DEF k
  <1>9. CASE ~Boundary(s.n)
    <2>1. \A i \in 1..Len(ring) : ring[i].n <= s.n BY <1>0, <1>4, <1>6, <1>7
    <2>2. ~e => \A n \in 1..s.n : Boundary(n) => StateOf(l, n) \in Range(ring)
      BY <1>4, <1>6, <1>8, <1>9
    <2>3. FoldIsTrue(l, s, front, ring, e) BY <1>5, <1>6, <2>1, <2>2 DEF FoldIsTrue
    <2> QED BY <1>4, <1>9, <2>3 DEF k
  <1>10. CASE Boundary(s.n)
    <2>1. /\ old \in Seq(States) /\ Len(old) \in Nat
          /\ \A i \in 1..Len(old) : old[i].n <= k /\ OfChain(old[i], l) /\ old[i] \in States
          /\ \A i, j \in 1..Len(old) : i < j => old[i].n < old[j].n
      <3>1. CASE Len(ring) = Ring
        <4>1. ring # <<>> BY <1>0, <3>1
        <4>2. /\ Tail(ring) \in Seq(States) /\ Len(Tail(ring)) = Len(ring) - 1
              /\ \A i \in 1..Len(Tail(ring)) : Tail(ring)[i] = ring[i + 1]
          BY <4>1
        <4>3. \A i \in 1..Len(Tail(ring)) : i + 1 \in 1..Len(ring) BY <1>0, <4>2
        <4>4. \A i, j \in 1..Len(Tail(ring)) : i < j => i + 1 < j + 1 BY <1>0, <4>2
        <4>5. Len(Tail(ring)) \in Nat BY <4>2
        <4> QED BY <1>6, <3>1, <4>2, <4>3, <4>4, <4>5
      <3>2. CASE Len(ring) # Ring
        BY <1>0, <1>6, <3>2
      <3> QED BY <3>1, <3>2
    <2> DEFINE new == Append(old, s)
               m == Len(old)
    <2>2. new = Recorded(ring, s) BY DEF Recorded
    <2> HIDE DEF old
    <2>3. /\ new \in Seq(States) /\ Len(new) = m + 1 /\ new[m + 1] = s
          /\ \A i \in 1..m : new[i] = old[i]
      BY <1>4, <2>1
    <2>4. \A i \in 1..Len(new) : i \in 1..m \/ i = m + 1 BY <2>1, <2>3
    <2>5. \A i \in 1..Len(new) : new[i].n <= s.n /\ OfChain(new[i], l)
      <3> SUFFICES ASSUME NEW i \in 1..Len(new) PROVE new[i].n <= s.n /\ OfChain(new[i], l)
        OBVIOUS
      <3>1. CASE i \in 1..m
        <4>1. new[i] = old[i] /\ old[i].n <= k /\ OfChain(old[i], l) /\ old[i].n \in Nat
          BY <1>7, <2>1, <2>3, <3>1
        <4> QED BY <1>0, <1>4, <4>1
      <3>2. CASE i = m + 1
        BY <1>0, <1>4, <1>5, <2>3, <3>2
      <3> QED BY <2>4, <3>1, <3>2
    <2>6. \A i, j \in 1..Len(new) : i < j => new[i].n < new[j].n
      <3> SUFFICES ASSUME NEW i \in 1..Len(new), NEW j \in 1..Len(new), i < j
                   PROVE  new[i].n < new[j].n
        OBVIOUS
      <3>1. i \in 1..m BY <2>1, <2>3
      <3>2. new[i] = old[i] /\ old[i].n <= k /\ old[i].n \in Nat BY <1>7, <2>1, <2>3, <3>1
      <3>3. CASE j \in 1..m
        BY <2>1, <2>3, <3>1, <3>3
      <3>4. CASE j = m + 1
        <4>1. new[j].n = k + 1 BY <1>4, <2>3, <3>4
        <4> QED BY <1>0, <3>2, <4>1
      <3> QED BY <2>4, <3>3, <3>4
    <2>7. ASSUME ~e, Len(ring) # Ring
          PROVE  \A n \in 1..s.n : Boundary(n) => StateOf(l, n) \in Range(new)
      <3>1. old = ring BY <2>7 DEF old
      <3>2. DOMAIN new = 1..(m + 1) /\ DOMAIN ring = 1..m BY <2>1, <2>3, <3>1
      <3>3. Range(ring) \subseteq Range(new) /\ s \in Range(new)
        BY <2>1, <2>3, <3>1, <3>2 DEF Range
      <3> QED BY <1>3, <1>6, <1>8, <2>7, <3>3 DEF k
    <2>8. FoldIsTrue(l, s, front, new, e \/ Len(ring) = Ring)
      BY <1>5, <1>6, <2>5, <2>6, <2>7 DEF FoldIsTrue
    <2> QED BY <1>4, <1>10, <2>2, <2>3, <2>8 DEF k
  <1> QED BY <1>9, <1>10

-----------------------------------------------------------------------------
(***************************************************************************)
(* The steps of a run, by what they do to one replica.                     *)
(***************************************************************************)

\* A replica's log and what it has folded and published are left alone.
Same(q) ==
    /\ log'[q] = log[q] /\ folder'[q] = folder[q] /\ frontier'[q] = frontier[q]
    /\ table'[q] = table[q] /\ truncated'[q] = truncated[q]

Applies(r) ==
    /\ r \in up /\ up' = up
    /\ \E c \in Entries : log' = [log EXCEPT ![r] = Append(@, c)]
    /\ UNCHANGED foldVars

\* What becomes of the chain in a step, whatever else the run does.
ChainStep ==
    \/ UNCHANGED chainVars
    \/ \E r \in Replicas :
         \/ Applies(r) \/ (Source = "chain" /\ HookStep(r)) \/ Stop(r)
         \/ Source = "chain" /\ Start(r)
         \/ Source # "chain" /\ Rise(r) /\ UNCHANGED <<log, foldVars>>
         \/ Halt(r) /\ log' = [log EXCEPT ![r] = <<>>] /\ UNCHANGED foldVars

LEMMA ChainSteps ==
    ASSUME ChainTypes, [Next]_vars
    PROVE  ChainStep /\ seq' \in Nat /\ decided' \in Seq(Entries)
  <1>0. seq \in Nat /\ decided \in Seq(Entries) BY DEF ChainTypes
  <1>1. CASE Submit \/ Tick
    BY <1>0, <1>1 DEF Submit, Tick, ChainStep
  <1>2. CASE Decide
    <2>1. PICK k \in 1..seq : decided' = Append(decided, Cmd(k)) BY <1>2 DEF Decide
    <2>2. Cmd(k) \in Entries BY <1>0 DEF Entries
    <2> QED BY <1>0, <1>2, <2>1, <2>2 DEF Decide, ChainStep
  <1>3. CASE PollAll
    BY <1>0, <1>3 DEF PollAll, ChainStep
  <1>4. ASSUME NEW r \in Replicas, ApplyDecided(r) \/ ApplyOwn(r)
        PROVE  ChainStep /\ UNCHANGED <<seq, decided>>
    <2>1. \E c \in Entries : ApplyCommand(r, c)
      <3>1. CASE ApplyDecided(r)
        <4>1. Len(log[r]) < Len(decided) /\ ApplyCommand(r, decided[Len(log[r]) + 1])
          BY <3>1 DEF ApplyDecided
        <4>2. Len(log[r]) \in Nat BY DEF ChainTypes
        <4>3. decided[Len(log[r]) + 1] \in Entries BY <1>0, <4>1, <4>2
        <4> QED BY <4>1, <4>3
      <3>2. CASE ApplyOwn(r)
        BY <3>2 DEF ApplyOwn, Entries
      <3> QED BY <1>4, <3>1, <3>2
    <2>2. Applies(r) BY <2>1 DEF ApplyCommand, Applies
    <2> QED BY <1>4, <2>2 DEF ApplyDecided, ApplyOwn, ChainStep
  <1>5. ASSUME NEW r \in Replicas, Hook(r) \/ StopReplica(r) \/ PollNode(r)
        PROVE  ChainStep /\ UNCHANGED <<seq, decided>>
    BY <1>5 DEF Hook, StopReplica, PollNode, ChainStep
  <1>6. ASSUME NEW r \in Replicas, StartReplica(r) \/ LoseLog(r)
        PROVE  ChainStep /\ UNCHANGED <<seq, decided>>
    BY <1>6 DEF StartReplica, LoseLog, ChainStep, runVars
  <1>7. CASE UNCHANGED vars
    BY <1>0, <1>7 DEF vars, runVars, ChainStep
  <1> QED BY <1>0, <1>1, <1>2, <1>3, <1>4, <1>5, <1>6, <1>7 DEF Next

LEMMA StepChain ==
    ASSUME ChainInv, ChainStep, seq' \in Nat, decided' \in Seq(Entries)
    PROVE  ChainInv'
  <1>0. /\ log \in [Replicas -> Seq(Entries)] /\ up \subseteq Replicas
        /\ pass \in [Replicas -> BOOLEAN]
        /\ folder \in [Replicas -> States] /\ frontier \in [Replicas -> States]
        /\ table \in [Replicas -> Seq(States)] /\ truncated \in [Replicas -> BOOLEAN]
        /\ \A r \in up : FoldIsTrue(log[r], folder[r], frontier[r], table[r], truncated[r])
    BY DEF ChainInv, ChainTypes, FoldInv
  <1>1. Genesis \in States /\ <<>> \in Seq(States) /\ <<>> \in Seq(Entries)
    BY DEF Genesis, States
  \* It is enough to know the replica that takes the step.
  <1>2. ASSUME NEW r \in Replicas, ChainTypes', NoFold', up' \subseteq up \cup {r},
               \A q \in Replicas \ {r} : Same(q),
               r \in up' => FoldIsTrue(log'[r], folder'[r], frontier'[r], table'[r], truncated'[r])
        PROVE  ChainInv'
    <2>1. ASSUME NEW q \in up'
          PROVE  FoldIsTrue(log'[q], folder'[q], frontier'[q], table'[q], truncated'[q])
      <3>1. CASE q = r
        BY <1>2, <2>1, <3>1
      <3>2. CASE q # r
        <4>1. q \in up /\ q \in Replicas BY <1>0, <1>2, <2>1, <3>2
        <4> QED BY <1>0, <1>2, <3>2, <4>1 DEF Same
      <3> QED BY <3>1, <3>2
    <2> QED BY <1>2, <2>1 DEF ChainInv, FoldInv
  <1>3. CASE UNCHANGED chainVars
    BY <1>3 DEF chainVars, foldVars, ChainInv, ChainTypes, FoldInv, NoFold
  <1>4. ASSUME NEW r \in Replicas, Applies(r) PROVE ChainInv'
    <2>1. PICK c \in Entries : log' = [log EXCEPT ![r] = Append(@, c)] BY <1>4 DEF Applies
    <2>2. r \in up /\ up' = up /\ UNCHANGED <<pass, folder, frontier, table, truncated>>
      BY <1>4 DEF Applies, foldVars
    <2>3. Append(log[r], c) \in Seq(Entries) BY <1>0
    <2>4. log' \in [Replicas -> Seq(Entries)] /\ log'[r] = Append(log[r], c)
          /\ \A q \in Replicas \ {r} : log'[q] = log[q]
      BY <1>0, <2>1, <2>3
    <2>5. ChainTypes' BY <1>0, <2>2, <2>4 DEF ChainTypes
    <2>6. FoldIsTrue(log'[r], folder[r], frontier[r], table[r], truncated[r])
      BY <1>0, <2>2, <2>4, LongerLog
    <2>7. NoFold' BY <2>2 DEF ChainInv, NoFold
    <2> QED BY <1>2, <2>2, <2>4, <2>5, <2>6, <2>7 DEF Same
  <1>5. ASSUME NEW r \in Replicas, Source = "chain", BeginFold(r) PROVE ChainInv'
    <2>1. pass' = [pass EXCEPT ![r] = TRUE]
          /\ UNCHANGED <<log, up, folder, frontier, table, truncated>>
      BY <1>5 DEF BeginFold
    <2>2. pass' \in [Replicas -> BOOLEAN] BY <1>0, <2>1
    <2>3. ChainTypes' BY <1>0, <2>1, <2>2 DEF ChainTypes
    <2> QED BY <2>1, <2>3 DEF ChainInv, FoldInv, NoFold
  <1>6. ASSUME NEW r \in Replicas, Source = "chain", FoldOne(r) PROVE ChainInv'
    <2>0. PICK s : s = Extend(folder[r], log[r][folder[r].n + 1]) OBVIOUS
    <2>1. /\ r \in up /\ folder[r].n < Len(log[r])
          /\ folder' = [folder EXCEPT ![r] = s]
          /\ Boundary(s.n) => /\ table' = [table EXCEPT ![r] = Recorded(@, s)]
                              /\ truncated' = [truncated EXCEPT ![r] = @ \/ Len(table[r]) = Ring]
          /\ ~Boundary(s.n) => UNCHANGED <<table, truncated>>
          /\ UNCHANGED <<log, up, pass, frontier>>
      BY <1>6, <2>0 DEF FoldOne
    <2>2. /\ s \in States
          /\ Boundary(s.n) =>
               /\ Recorded(table[r], s) \in Seq(States)
               /\ FoldIsTrue(log[r], s, frontier[r], Recorded(table[r], s),
                             truncated[r] \/ Len(table[r]) = Ring)
          /\ ~Boundary(s.n) => FoldIsTrue(log[r], s, frontier[r], table[r], truncated[r])
      <3>1. /\ log[r] \in Seq(Entries) /\ folder[r] \in States /\ frontier[r] \in States
            /\ table[r] \in Seq(States) /\ truncated[r] \in BOOLEAN
        BY <1>0
      <3>2. FoldIsTrue(log[r], folder[r], frontier[r], table[r], truncated[r]) BY <1>0, <2>1
      <3>3. folder[r].n < Len(log[r]) BY <2>1
      <3> QED BY <2>0, <3>1, <3>2, <3>3, FoldedOne
    <2>3. folder' \in [Replicas -> States] /\ folder'[r] = s
          /\ \A q \in Replicas \ {r} : folder'[q] = folder[q]
      BY <1>0, <2>1, <2>2
    <2>4. CASE Boundary(s.n)
      <3>1. /\ table' \in [Replicas -> Seq(States)] /\ table'[r] = Recorded(table[r], s)
            /\ \A q \in Replicas \ {r} : table'[q] = table[q]
        BY <1>0, <2>1, <2>2, <2>4
      <3>2. /\ truncated' \in [Replicas -> BOOLEAN]
            /\ truncated'[r] = (truncated[r] \/ Len(table[r]) = Ring)
            /\ \A q \in Replicas \ {r} : truncated'[q] = truncated[q]
        BY <1>0, <2>1, <2>4
      <3>3. ChainTypes' BY <1>0, <2>1, <2>3, <3>1, <3>2 DEF ChainTypes
      <3>4. FoldIsTrue(log'[r], folder'[r], frontier'[r], table'[r], truncated'[r])
        BY <2>1, <2>2, <2>3, <2>4, <3>1, <3>2
      <3> QED BY <1>2, <1>6, <2>1, <2>3, <3>1, <3>2, <3>3, <3>4 DEF Same, NoFold
    <2>5. CASE ~Boundary(s.n)
      <3>1. UNCHANGED <<table, truncated>> BY <2>1, <2>5
      <3>2. ChainTypes' BY <1>0, <2>1, <2>3, <3>1 DEF ChainTypes
      <3>3. FoldIsTrue(log'[r], folder'[r], frontier'[r], table'[r], truncated'[r])
        BY <2>1, <2>2, <2>3, <2>5, <3>1
      <3> QED BY <1>2, <1>6, <2>1, <2>3, <3>1, <3>2, <3>3 DEF Same, NoFold
    <2> QED BY <2>4, <2>5
  <1>7. ASSUME NEW r \in Replicas, Source = "chain", EndFold(r) PROVE ChainInv'
    <2>1. /\ r \in up /\ frontier' = [frontier EXCEPT ![r] = Stored(@, folder[r])]
          /\ pass' = [pass EXCEPT ![r] = FALSE]
          /\ UNCHANGED <<log, up, folder, table, truncated>>
      BY <1>7 DEF EndFold
    <2>2. pass' \in [Replicas -> BOOLEAN] BY <1>0, <2>1
    <2>3. Stored(frontier[r], folder[r]) \in States BY <1>0 DEF Stored
    <2>4. /\ frontier' \in [Replicas -> States]
          /\ frontier'[r] = Stored(frontier[r], folder[r])
          /\ \A q \in Replicas \ {r} : frontier'[q] = frontier[q]
      BY <1>0, <2>1, <2>3
    <2>5. ChainTypes' BY <1>0, <2>1, <2>2, <2>4 DEF ChainTypes
    <2>6. FoldIsTrue(log[r], folder[r], frontier'[r], table[r], truncated[r])
      BY <1>0, <2>1, <2>4, StoredFrontier
    <2> QED BY <1>2, <1>7, <2>1, <2>4, <2>5, <2>6 DEF Same, NoFold
  <1>8. ASSUME NEW r \in Replicas, Stop(r) PROVE ChainInv'
    <2>1. r \in up /\ up' = up \ {r}
          /\ UNCHANGED <<log, pass, folder, frontier, table, truncated>>
      BY <1>8 DEF Stop, Halt, foldVars
    <2>2. ChainTypes' BY <1>0, <2>1 DEF ChainTypes
    <2> QED BY <2>1, <2>2 DEF ChainInv, FoldInv, NoFold
  <1>9. ASSUME NEW r \in Replicas, Source = "chain", Start(r) PROVE ChainInv'
    <2>1. /\ up' = up \cup {r} /\ log' = log
          /\ pass' = [pass EXCEPT ![r] = TRUE] /\ folder' = [folder EXCEPT ![r] = Genesis]
          /\ frontier' = [frontier EXCEPT ![r] = Genesis] /\ table' = [table EXCEPT ![r] = <<>>]
          /\ truncated' = [truncated EXCEPT ![r] = FALSE]
      BY <1>9 DEF Start, Rise
    <2>2. /\ pass' \in [Replicas -> BOOLEAN] /\ folder' \in [Replicas -> States]
          /\ frontier' \in [Replicas -> States] /\ table' \in [Replicas -> Seq(States)]
          /\ truncated' \in [Replicas -> BOOLEAN]
      BY <1>0, <1>1, <2>1
    <2>3. folder'[r] = Genesis /\ frontier'[r] = Genesis /\ table'[r] = <<>> BY <1>0, <2>1
    <2>4. \A q \in Replicas \ {r} : Same(q) BY <1>0, <2>1 DEF Same
    <2>5. ChainTypes' BY <1>0, <2>1, <2>2 DEF ChainTypes
    <2>6. FoldIsTrue(log'[r], folder'[r], frontier'[r], table'[r], truncated'[r])
      BY <1>0, <2>1, <2>3, FreshFold
    <2> QED BY <1>2, <1>9, <2>1, <2>4, <2>5, <2>6 DEF NoFold
  <1>10. ASSUME NEW r \in Replicas, Source # "chain", Rise(r), UNCHANGED <<log, foldVars>>
         PROVE  ChainInv'
    <2>1. up' = up \cup {r} /\ UNCHANGED <<log, pass, folder, frontier, table, truncated>>
      BY <1>10 DEF Rise, foldVars
    <2>2. ChainTypes' BY <1>0, <2>1 DEF ChainTypes
    <2>3. folder[r] = Genesis /\ frontier[r] = Genesis /\ table[r] = <<>>
      BY <1>10 DEF ChainInv, NoFold
    <2>4. FoldIsTrue(log[r], folder[r], frontier[r], table[r], truncated[r])
      BY <1>0, <2>3, FreshFold
    <2>5. NoFold' BY <2>1 DEF ChainInv, NoFold
    <2> QED BY <1>2, <2>1, <2>2, <2>4, <2>5 DEF Same
  <1>11. ASSUME NEW r \in Replicas, Halt(r), log' = [log EXCEPT ![r] = <<>>], UNCHANGED foldVars
         PROVE  ChainInv'
    <2>1. up' = up \ {r} /\ UNCHANGED <<pass, folder, frontier, table, truncated>>
      BY <1>11 DEF Halt, foldVars
    <2>2. log' \in [Replicas -> Seq(Entries)] /\ \A q \in Replicas \ {r} : log'[q] = log[q]
      BY <1>0, <1>1, <1>11
    <2>3. ChainTypes' BY <1>0, <2>1, <2>2 DEF ChainTypes
    <2>4. NoFold' BY <2>1 DEF ChainInv, NoFold
    <2> QED BY <1>2, <2>1, <2>2, <2>3, <2>4 DEF Same
  <1> QED BY <1>3, <1>4, <1>5, <1>6, <1>7, <1>8, <1>9, <1>10, <1>11 DEF ChainStep, HookStep

LEMMA ChainInductive == Spec => []ChainInv
  <1>1. Init => ChainInv
    <2> SUFFICES ASSUME Init PROVE ChainInv
      OBVIOUS
    <2>0. Genesis \in States /\ <<>> \in Seq(States) /\ <<>> \in Seq(Entries)
      BY DEF Genesis, States
    <2>1. ChainTypes BY <2>0 DEF Init, ChainInit, ChainTypes
    <2>2. NoFold BY DEF Init, ChainInit, NoFold
    <2>3. FoldInv BY <2>0, FreshFold DEF Init, ChainInit, FoldInv
    <2> QED BY <2>1, <2>2, <2>3 DEF ChainInv
  <1>2. ChainInv /\ [Next]_vars => ChainInv'
    <2> SUFFICES ASSUME ChainInv, [Next]_vars PROVE ChainInv'
      OBVIOUS
    <2>1. ChainTypes BY DEF ChainInv
    <2> QED BY <2>1, ChainSteps, StepChain
  <1> QED BY <1>1, <1>2, PTL DEF Spec

\* GET /chain shows states of the node's own chain, whatever a reader is
\* interleaved with, and its ring holds every boundary a pass has crossed or
\* says that one was evicted (chain.rs, "Concurrency", ChainCheckpoints).
THEOREM PublishedChainIsTrue == Spec => []PublishedIsTrue
  <1>1. ChainInv => PublishedIsOwnChain
    BY DEF ChainInv, FoldInv, FoldIsTrue, OfChain, PublishedIsOwnChain
  <1>2. ChainInv => TableIsComplete
    BY DEF ChainInv, FoldInv, FoldIsTrue, TableIsComplete
  <1>3. ChainInv => PublishedIsTrue BY <1>1, <1>2 DEF PublishedIsTrue
  <1> QED BY <1>3, ChainInductive, PTL

-----------------------------------------------------------------------------
(***************************************************************************)
(* The invariant of the observer: what it holds is made of the samples it  *)
(* was shown, and none of them was forgotten.                              *)
(***************************************************************************)
Samples == [replica : Replicas, state : States]

\* What the observer o keeps, was once shown: its witnesses, of which there is
\* one per height, the two sides of its divergences, and its views.
ComesFrom(o, S, t) ==
    /\ \A w \in o.witnesses :
         \E x \in S : x.replica = w.replica /\ x.state.n = w.n /\ x.state.h = w.h
    /\ \A v, w \in o.witnesses : v.n = w.n => v = w
    /\ \A d \in o.divergences : d.firstH # d.otherH /\ \E x, y \in S :
         /\ x.replica = d.first /\ x.state.n = d.n /\ x.state.h = d.firstH
         /\ y.replica = d.other /\ y.state.n = d.n /\ y.state.h = d.otherH
    /\ \A v \in o.views :
         /\ v.progress \in Nat /\ v.progress <= t
         /\ \E x \in S : x.replica = v.replica /\ x.state = v.latest

\* Sample x has been compared at its height, and the view of its replica has
\* come as far.
Accounted(o, x) ==
    /\ \E w \in o.witnesses :
         /\ w.n = x.state.n
         /\ \/ w.h = x.state.h \/ w.replica = x.replica
            \/ \E d \in o.divergences : d.n = x.state.n
    /\ \E v \in o.views : v.replica = x.replica /\ v.latest.n >= x.state.n

\* The observer holds what it was shown up to time t, the samples S.
Holds(o, S, t) == ComesFrom(o, S, t) /\ \A x \in S : Accounted(o, x)

\* Replica q was seen at height m or above at time p at the latest.
Watched(o, q, m, p) ==
    \E v \in o.views : v.replica = q /\ v.latest.n >= m /\ v.progress <= p

\* r can show nothing above height m.
Covers(r, m) ==
    /\ Source = "chain" => /\ frontier[r].n <= m
                           /\ \A i \in 1..Len(table[r]) : table[r][i].n <= m
    /\ Source # "chain" => Len(log[r]) <= m

RunTypes ==
    /\ now \in Nat /\ cursor \in [Replicas -> States] /\ idle \in [Replicas -> Nat]
    /\ shown \subseteq Samples
    /\ \A r \in Replicas : Len(log[r]) <= MaxLog
    /\ \A x \in shown : x.state.n <= MaxLog

\* As long as no checkpoint was evicted there is one in the ring for at most
\* every Spacing commands.
RingInv == Source = "chain" => \A r \in up :
    /\ truncated[r] => Len(log[r]) > Ring * Spacing
    /\ ~truncated[r] => Len(table[r]) * Spacing <= folder[r].n

\* A sample of a replica that keeps its log is a state of its chain.
ShownInv == \A x \in shown : x.replica \in Steady => OfChain(x.state, log[x.replica])

CursorInv == \A r \in Replicas :
    cursor[r] = Genesis \/ [replica |-> r, state |-> cursor[r]] \in shown

\* Every boundary up to the cursor was shown, when the ring never overflowed.
BoundaryInv ==
    Source # "frontier" => \A r \in Steady : Len(log[r]) <= Ring * Spacing =>
        \A n \in 1..cursor[r].n :
            Boundary(n) => [replica |-> r, state |-> StateOf(log[r], n)] \in shown

IdleInv == \A r \in Replicas : idle[r] # Never =>
    \E m \in Nat : Covers(r, m) /\ Watched(obs, r, m, idle[r])

RunInv ==
    /\ RunTypes /\ RingInv /\ Holds(obs, shown, now)
    /\ ShownInv /\ CursorInv /\ BoundaryInv /\ IdleInv

\* One more sample.
LEMMA ObserveHolds ==
    ASSUME NEW o, NEW S \in SUBSET Samples, NEW t \in Nat, Holds(o, S, t), NEW x \in Samples
    PROVE  Holds(Observe(o, Sample(x.replica, t, x.state)), S \cup {x}, t)
  <1> DEFINE s == Sample(x.replica, t, x.state)
             p == Observe(o, s)
             n == x.state.n
             T == S \cup {x}
             new == [n |-> n, replica |-> x.replica, h |-> x.state.h]
             view == [replica |-> x.replica, latest |-> x.state, progress |-> t]
             old == View(o, x.replica)
  <1>0. x.replica \in Replicas /\ x.state \in States /\ n \in Nat BY DEF Samples, States
  <1>1. s.replica = x.replica /\ s.state = x.state /\ s.at = t BY DEF Sample
  <1>2. \A y \in S : y.state \in States /\ y.state.n \in Nat BY DEF Samples, States
  <1>3. /\ Witness(o, n) # {} => p.witnesses = o.witnesses
        /\ Witness(o, n) = {} => p.witnesses = o.witnesses \cup {new}
    BY <1>1 DEF Observe
  <1>4. p.divergences = o.divergences \cup Found(o, s) /\ p.views = NextViews(o, s)
    BY DEF Observe
  <1>5. ComesFrom(o, S, t) /\ \A y \in S : Accounted(o, y) BY DEF Holds
  <1>6. \/ p.views = o.views \cup {view} /\ old = {}
        \/ p.views = (o.views \ old) \cup {view} /\ \A v \in old : n > v.latest.n
        \/ p.views = o.views /\ \E v \in old : ~(n > v.latest.n)
    BY <1>1, <1>4 DEF NextViews
  <1> HIDE DEF s, p
  <1>7. \A w \in p.witnesses :
          \E y \in T : y.replica = w.replica /\ y.state.n = w.n /\ y.state.h = w.h
    BY <1>3, <1>5 DEF ComesFrom
  <1>8. \A v, w \in p.witnesses : v.n = w.n => v = w
    BY <1>3, <1>5 DEF ComesFrom, Witness
  <1>9. ASSUME NEW d \in p.divergences
        PROVE  d.firstH # d.otherH /\ \E y, z \in T :
                 /\ y.replica = d.first /\ y.state.n = d.n /\ y.state.h = d.firstH
                 /\ z.replica = d.other /\ z.state.n = d.n /\ z.state.h = d.otherH
    <2>1. CASE d \in o.divergences
      BY <1>5, <2>1 DEF ComesFrom
    <2>2. CASE d \in Found(o, s)
      <3>1. PICK w \in o.witnesses :
              /\ w.n = n /\ w.h # x.state.h
              /\ d = [n |-> n, first |-> w.replica, firstH |-> w.h,
                      other |-> x.replica, otherH |-> x.state.h, at |-> t]
        BY <1>1, <2>2 DEF Found, Compared, Witness
      <3>2. PICK y \in S : y.replica = w.replica /\ y.state.n = w.n /\ y.state.h = w.h
        BY <1>5, <3>1 DEF ComesFrom
      <3>3. /\ d.n = n /\ d.first = w.replica /\ d.firstH = w.h
            /\ d.other = x.replica /\ d.otherH = x.state.h
        BY <3>1
      <3>4. y \in T /\ x \in T OBVIOUS
      <3> QED BY <3>1, <3>2, <3>3, <3>4
    <2> QED BY <1>4, <2>1, <2>2
  <1>10. \A v \in p.views :
           /\ v.progress \in Nat /\ v.progress <= t
           /\ \E y \in T : y.replica = v.replica /\ y.state = v.latest
    <2>1. \A v \in p.views : v \in o.views \/ v = view BY <1>6
    <2>2. view.progress = t /\ view.replica = x.replica /\ view.latest = x.state /\ t <= t
      OBVIOUS
    <2>3. \A v \in o.views :
            /\ v.progress \in Nat /\ v.progress <= t
            /\ \E y \in S : y.replica = v.replica /\ y.state = v.latest
      BY <1>5 DEF ComesFrom
    <2> QED BY <2>1, <2>2, <2>3
  <1>11. ComesFrom(p, T, t) BY <1>7, <1>8, <1>9, <1>10 DEF ComesFrom
  <1>12. \A v \in o.views : v.latest.n \in Nat
    BY <1>2, <1>5 DEF ComesFrom
  <1>13. \E v \in p.views : v.replica = x.replica /\ v.latest.n >= n
    <2>1. view.replica = x.replica /\ view.latest.n = n /\ n >= n BY <1>0
    <2>2. \A v \in old : v \in o.views /\ v.replica = x.replica BY DEF View
    <2>3. \A v \in old : ~(n > v.latest.n) => v.latest.n >= n BY <1>0, <1>12, <2>2
    <2> QED BY <1>6, <2>1, <2>2, <2>3
  <1>14. ASSUME NEW y \in S
         PROVE  \E v \in p.views : v.replica = y.replica /\ v.latest.n >= y.state.n
    <2>1. PICK v \in o.views : v.replica = y.replica /\ v.latest.n >= y.state.n
      BY <1>5 DEF Accounted
    <2>2. CASE v \in p.views
      BY <2>1, <2>2
    <2>3. CASE v \notin p.views
      <3>1. v \in old /\ view \in p.views /\ n > v.latest.n BY <1>6, <2>3
      <3>2. view.replica = y.replica /\ view.latest.n = n BY <2>1, <3>1 DEF View
      <3>3. n >= y.state.n BY <1>0, <1>2, <1>12, <2>1, <3>1
      <3> QED BY <3>1, <3>2, <3>3
    <2> QED BY <2>2, <2>3
  <1>15. \E w \in p.witnesses :
           /\ w.n = n
           /\ w.h = x.state.h \/ w.replica = x.replica \/ \E d \in p.divergences : d.n = n
    <2>1. CASE Witness(o, n) = {}
      <3>1. new \in p.witnesses /\ new.n = n /\ new.h = x.state.h BY <1>3, <2>1
      <3> QED BY <3>1
    <2>2. CASE Witness(o, n) # {}
      <3>1. PICK w \in o.witnesses : w.n = n BY <2>2 DEF Witness
      <3>2. w \in p.witnesses BY <1>3, <2>2
      <3>3. ASSUME w.h # x.state.h, w.replica # x.replica
            PROVE  \E d \in p.divergences : d.n = n
        <4>1. CASE \E d \in o.divergences : d.n = n
          BY <1>4, <4>1
        <4>2. CASE ~ \E d \in o.divergences : d.n = n
          <5>1. w \in Compared(o, s) BY <1>1, <3>1, <3>3 DEF Compared, Witness
          <5>2. [n |-> n, first |-> w.replica, firstH |-> w.h, other |-> x.replica,
                 otherH |-> x.state.h, at |-> t] \in Found(o, s)
            BY <1>1, <3>3, <4>2, <5>1 DEF Found
          <5> QED BY <1>4, <5>2
        <4> QED BY <4>1, <4>2
      <3> QED BY <3>1, <3>2, <3>3
    <2> QED BY <2>1, <2>2
  <1>16. ASSUME NEW y \in S
         PROVE  \E w \in p.witnesses :
                  /\ w.n = y.state.n
                  /\ \/ w.h = y.state.h \/ w.replica = y.replica
                     \/ \E d \in p.divergences : d.n = y.state.n
    <2>1. o.witnesses \subseteq p.witnesses /\ o.divergences \subseteq p.divergences
      BY <1>3, <1>4
    <2> QED BY <1>5, <2>1 DEF Accounted
  <1>17. Accounted(p, x) BY <1>13, <1>15 DEF Accounted
  <1>18. \A y \in S : Accounted(p, y) BY <1>14, <1>16 DEF Accounted
  <1>19. Holds(p, T, t) BY <1>11, <1>17, <1>18 DEF Holds
  <1> QED BY <1>19 DEF p, s

\* A sample of another replica, or of no greater height, leaves a view alone.
LEMMA ObserveWatched ==
    ASSUME NEW o, NEW S \in SUBSET Samples, NEW t \in Nat, Holds(o, S, t), NEW x \in Samples,
           NEW q, NEW m \in Nat, NEW p, Watched(o, q, m, p),
           x.replica = q => x.state.n <= m
    PROVE  Watched(Observe(o, Sample(x.replica, t, x.state)), q, m, p)
  <1> DEFINE s == Sample(x.replica, t, x.state)
  <1>1. s.replica = x.replica /\ s.state = x.state BY DEF Sample
  <1>2. PICK v \in o.views : v.replica = q /\ v.latest.n >= m /\ v.progress <= p BY DEF Watched
  <1>3. x.state.n \in Nat /\ v.latest.n \in Nat
    <2>1. PICK y \in S : y.state = v.latest BY DEF Holds, ComesFrom
    <2> QED BY <2>1 DEF Samples, States
  <1>4. v \in NextViews(o, s)
    <2>1. CASE x.replica = q
      <3>1. v \in View(o, s.replica) BY <1>1, <1>2, <2>1 DEF View
      <3>2. ~(s.state.n > v.latest.n) BY <1>1, <1>2, <1>3, <2>1
      <3>3. NextViews(o, s) = o.views BY <3>1, <3>2 DEF NextViews
      <3> QED BY <3>3
    <2>2. CASE x.replica # q
      <3>1. v \notin View(o, s.replica) BY <1>1, <1>2, <2>2 DEF View
      <3> QED BY <3>1 DEF NextViews
    <2> QED BY <2>1, <2>2
  <1>5. Observe(o, s).views = NextViews(o, s) BY DEF Observe
  <1> HIDE DEF s
  <1>6. Watched(Observe(o, s), q, m, p) BY <1>2, <1>4, <1>5 DEF Watched
  <1> QED BY <1>6 DEF s
-----------------------------------------------------------------------------
(***************************************************************************)
(* What the observer holds after an answer, and after several.             *)
(***************************************************************************)

\* A set of natural numbers has a least one.
LEMMA LeastOne ==
    ASSUME NEW S, S \subseteq Nat, S # {}
    PROVE  \E x \in S : \A y \in S : x <= y
  <1>1. PICK x \in S : \A y \in S : ~(<<y, x>> \in OpToRel(<, Nat))
    BY NatLessThanWellFounded, WFMin
  <1>2. \A y \in S : ~(y < x) BY <1>1 DEF OpToRel
  <1> QED BY <1>2

\* The recursion of ShownAnswer has a solution.
LEMMA AnswerUnfolds ==
    ASSUME NEW o, NEW r, NEW ans, NEW k \in Nat, Len(ans.states) = k
    PROVE  \E f : /\ ShownAnswer(o, r, ans) = f[k]
                  /\ f[0] = o
                  /\ \A i \in 1..k : f[i] = IF i \in ans.told
                                            THEN Observe(f[i - 1], Sample(r, now, ans.states[i]))
                                            ELSE f[i - 1]
  <1> DEFINE Body(f, n) ==
               [i \in 0..n |->
                  IF i = 0 THEN o
                  ELSE IF i \in ans.told THEN Observe(f[i - 1], Sample(r, now, ans.states[i]))
                  ELSE f[i - 1]]
             bad == {n \in Nat : ~ \E f : f = Body(f, n)}
  <1>1. bad = {}
    <2> SUFFICES ASSUME bad # {} PROVE FALSE
      OBVIOUS
    <2>1. PICK n \in bad : \A m \in bad : n <= m BY LeastOne
    <2>2. n \in Nat /\ ~ \E f : f = Body(f, n) BY <2>1
    <2>3. CASE n = 0
      <3> DEFINE g == [i \in 0..0 |-> o]
      <3>1. g = Body(g, 0) OBVIOUS
      <3> QED BY <2>2, <2>3, <3>1
    <2>4. CASE n # 0
      <3>1. n - 1 \in Nat /\ n - 1 \notin bad
        <4> HIDE DEF bad
        <4> QED BY <2>1, <2>2, <2>4
      <3>2. PICK f : f = Body(f, n - 1) BY <3>1
      <3> DEFINE last == IF n \in ans.told THEN Observe(f[n - 1], Sample(r, now, ans.states[n]))
                         ELSE f[n - 1]
                 g == [i \in 0..n |-> IF i = n THEN last ELSE f[i]]
      <3>3. \A i \in 0..(n - 1) : g[i] = f[i] BY <2>2, <3>1
      <3>4. ASSUME NEW i \in 0..n PROVE g[i] = Body(g, n)[i]
        <4>1. CASE i = n
          <5>1. g[n - 1] = f[n - 1] /\ n # 0 /\ n \in 0..n BY <2>2, <2>4, <3>1, <3>3
          <5>2. g[n] = last BY <2>2
          <5> HIDE DEF g
          <5> QED BY <4>1, <5>1, <5>2
        <4>2. CASE i # n
          <5>1. i \in 0..(n - 1) BY <2>2, <4>2
          <5>2. g[i] = f[i] BY <3>3, <5>1
          <5>3. f[i] = Body(f, n - 1)[i] BY <3>2
          <5>4. i # 0 => g[i - 1] = f[i - 1]
            <6>1. i # 0 => i - 1 \in 0..(n - 1) BY <2>2, <5>1
            <6> QED BY <3>3, <6>1
          <5> HIDE DEF g
          <5> QED BY <5>1, <5>2, <5>3, <5>4
        <4> QED BY <4>1, <4>2
      <3>5. g = Body(g, n)
        <4>1. g = [i \in 0..n |-> g[i]] OBVIOUS
        <4>2. Body(g, n) = [i \in 0..n |-> Body(g, n)[i]] OBVIOUS
        <4> HIDE DEF g, Body
        <4> QED BY <3>4, <4>1, <4>2
      <3> QED BY <2>2, <3>5
    <2> QED BY <2>3, <2>4
  <1> DEFINE seen == CHOOSE f : f = Body(f, k)
  <1>2. seen = Body(seen, k)
    <2>1. k \notin bad BY <1>1
    <2>2. \E f : f = Body(f, k) BY <2>1
    <2> QED BY <2>2
  <1>3. ShownAnswer(o, r, ans) = seen[k] BY DEF ShownAnswer
  <1> HIDE DEF seen
  <1>4. seen[0] = o BY <1>2
  <1>5. ASSUME NEW i \in 1..k
        PROVE  seen[i] = IF i \in ans.told
                         THEN Observe(seen[i - 1], Sample(r, now, ans.states[i]))
                         ELSE seen[i - 1]
    <2>1. i \in 0..k /\ i # 0 OBVIOUS
    <2> QED BY <1>2, <2>1
  <1> QED BY <1>3, <1>4, <1>5

\* The recursion of ShownAnswers has a solution: f[i] is what the observer has
\* been shown once the first i replicas have answered.
Unfolding(f, order, answer, k) ==
    /\ ShownAnswers(order, answer) = f[k]
    /\ f[0] = obs
    /\ \A i \in 1..k : f[i] = ShownAnswer(f[i - 1], order[i], answer[order[i]])

LEMMA AnswersUnfold ==
    ASSUME NEW order, NEW answer, NEW k \in Nat, Len(order) = k
    PROVE  \E f : Unfolding(f, order, answer, k)
  <1> DEFINE Body(f, n) ==
               [i \in 0..n |->
                  IF i = 0 THEN obs ELSE ShownAnswer(f[i - 1], order[i], answer[order[i]])]
             bad == {n \in Nat : ~ \E f : f = Body(f, n)}
  <1>1. bad = {}
    <2> SUFFICES ASSUME bad # {} PROVE FALSE
      OBVIOUS
    <2>1. PICK n \in bad : \A m \in bad : n <= m BY LeastOne
    <2>2. n \in Nat /\ ~ \E f : f = Body(f, n) BY <2>1
    <2>3. CASE n = 0
      <3> DEFINE g == [i \in 0..0 |-> obs]
      <3>1. g = Body(g, 0) OBVIOUS
      <3> QED BY <2>2, <2>3, <3>1
    <2>4. CASE n # 0
      <3>1. n - 1 \in Nat /\ n - 1 \notin bad
        <4> HIDE DEF bad
        <4> QED BY <2>1, <2>2, <2>4
      <3>2. PICK f : f = Body(f, n - 1) BY <3>1
      <3> DEFINE last == ShownAnswer(f[n - 1], order[n], answer[order[n]])
                 g == [i \in 0..n |-> IF i = n THEN last ELSE f[i]]
      <3>3. \A i \in 0..(n - 1) : g[i] = f[i] BY <2>2, <3>1
      <3>4. ASSUME NEW i \in 0..n PROVE g[i] = Body(g, n)[i]
        <4>1. CASE i = n
          <5>1. g[n - 1] = f[n - 1] /\ n # 0 /\ n \in 0..n BY <2>2, <2>4, <3>1, <3>3
          <5>2. g[n] = last BY <2>2
          <5> HIDE DEF g
          <5> QED BY <4>1, <5>1, <5>2
        <4>2. CASE i # n
          <5>1. i \in 0..(n - 1) BY <2>2, <4>2
          <5>2. g[i] = f[i] BY <3>3, <5>1
          <5>3. f[i] = Body(f, n - 1)[i] BY <3>2
          <5>4. i # 0 => g[i - 1] = f[i - 1]
            <6>1. i # 0 => i - 1 \in 0..(n - 1) BY <2>2, <5>1
            <6> QED BY <3>3, <6>1
          <5> HIDE DEF g
          <5> QED BY <5>1, <5>2, <5>3, <5>4
        <4> QED BY <4>1, <4>2
      <3>5. g = Body(g, n)
        <4>1. g = [i \in 0..n |-> g[i]] OBVIOUS
        <4>2. Body(g, n) = [i \in 0..n |-> Body(g, n)[i]] OBVIOUS
        <4> HIDE DEF g, Body
        <4> QED BY <3>4, <4>1, <4>2
      <3> QED BY <2>2, <3>5
    <2> QED BY <2>3, <2>4
  <1> DEFINE seen == CHOOSE f : f = Body(f, k)
  <1>2. seen = Body(seen, k)
    <2>1. k \notin bad BY <1>1
    <2>2. \E f : f = Body(f, k) BY <2>1
    <2> QED BY <2>2
  <1>3. ShownAnswers(order, answer) = seen[k] BY DEF ShownAnswers
  <1> HIDE DEF seen
  <1>4. seen[0] = obs BY <1>2
  <1>5. ASSUME NEW i \in 1..k
        PROVE  seen[i] = ShownAnswer(seen[i - 1], order[i], answer[order[i]])
    <2>1. i \in 0..k /\ i # 0 OBVIOUS
    <2> QED BY <1>2, <2>1
  <1>6. Unfolding(seen, order, answer, k) BY <1>3, <1>4, <1>5 DEF Unfolding
  <1> QED BY <1>6

\* An answer the observer can be shown, and what it then was shown.
Readable(ans) ==
    /\ Len(ans.states) \in Nat /\ ans.told \subseteq 1..Len(ans.states)
    /\ \A i \in ans.told : ans.states[i] \in States

Told(r, ans) == {[replica |-> r, state |-> ans.states[i]] : i \in ans.told}

LEMMA AnswerHolds ==
    ASSUME NEW o, NEW S \in SUBSET Samples, now \in Nat, Holds(o, S, now),
           NEW r \in Replicas, NEW ans, Readable(ans),
           NEW q, NEW m \in Nat, NEW p
    PROVE  /\ Holds(ShownAnswer(o, r, ans), S \cup Told(r, ans), now)
           /\ Told(r, ans) \subseteq Samples
           /\ Watched(o, q, m, p) /\ (r = q => \A i \in ans.told : ans.states[i].n <= m) =>
                Watched(ShownAnswer(o, r, ans), q, m, p)
  <1> DEFINE k == Len(ans.states)
             x(i) == [replica |-> r, state |-> ans.states[i]]
             T(j) == S \cup {x(i) : i \in {h \in ans.told : h <= j}}
             low == Watched(o, q, m, p) /\ (r = q => \A i \in ans.told : ans.states[i].n <= m)
  <1>1. k \in Nat /\ Len(ans.states) = k BY DEF Readable
  <1>2. \A i \in ans.told : x(i) \in Samples /\ x(i).replica = r /\ x(i).state = ans.states[i]
    BY DEF Readable, Samples
  <1>3. \A j : T(j) \in SUBSET Samples BY <1>2
  <1>4. ans.told \subseteq 1..k /\ \A i \in ans.told : i \in Nat BY DEF Readable
  <1> HIDE DEF k
  <1>5. PICK f : /\ ShownAnswer(o, r, ans) = f[k]
                 /\ f[0] = o
                 /\ \A i \in 1..k : f[i] = IF i \in ans.told
                                           THEN Observe(f[i - 1], Sample(r, now, ans.states[i]))
                                           ELSE f[i - 1]
    BY <1>1, AnswerUnfolds
  <1> DEFINE good(i) == Holds(f[i], T(i), now) /\ (low => Watched(f[i], q, m, p))
             bad == {i \in Nat : i <= k /\ ~good(i)}
  <1>6. good(0)
    <2>1. {h \in ans.told : h <= 0} = {} BY <1>4
    <2>2. T(0) = S BY <2>1
    <2> QED BY <1>5, <2>2
  <1>7. ASSUME NEW i \in 1..k, good(i - 1) PROVE good(i)
    <2>1. i - 1 \in Nat /\ i \in Nat BY <1>1
    <2>2. CASE i \in ans.told
      <3>1. {h \in ans.told : h <= i} = {h \in ans.told : h <= i - 1} \cup {i}
        BY <1>4, <2>1, <2>2
      <3>2. T(i) = T(i - 1) \cup {x(i)} BY <3>1
      <3>3. x(i) \in Samples /\ x(i).replica = r /\ x(i).state = ans.states[i] BY <1>2, <2>2
      <3>4. f[i] = Observe(f[i - 1], Sample(x(i).replica, now, x(i).state))
        BY <1>5, <2>2, <3>3
      <3>5. T(i - 1) \in SUBSET Samples BY <1>3
      <3>6. low /\ x(i).replica = q => x(i).state.n <= m BY <2>2, <3>3
      <3> HIDE DEF T, x, low
      <3>7. Holds(f[i], T(i), now)
        <4>1. Holds(f[i - 1], T(i - 1), now) BY <1>7
        <4> DEFINE y == x(i)
                   S0 == T(i - 1)
                   f0 == f[i - 1]
        <4>2. y \in Samples /\ S0 \in SUBSET Samples /\ Holds(f0, S0, now)
          BY <3>3, <3>5, <4>1
        <4> HIDE DEF y, S0, f0, good
        <4>3. Holds(Observe(f0, Sample(y.replica, now, y.state)), S0 \cup {y}, now)
          BY <4>2, ObserveHolds
        <4> QED BY <3>2, <3>4, <4>3 DEF y, S0, f0
      <3>8. low => Watched(f[i], q, m, p)
        BY <1>7, <3>3, <3>4, <3>5, <3>6, ObserveWatched
      <3> QED BY <3>7, <3>8
    <2>3. CASE i \notin ans.told
      <3>1. {h \in ans.told : h <= i} = {h \in ans.told : h <= i - 1}
        BY <1>4, <2>1, <2>3
      <3>2. T(i) = T(i - 1) BY <3>1
      <3>3. f[i] = f[i - 1] BY <1>5, <2>3
      <3> QED BY <1>7, <3>2, <3>3
    <2> QED BY <2>2, <2>3
  <1>8. bad = {}
    <2> SUFFICES ASSUME bad # {} PROVE FALSE
      OBVIOUS
    <2> HIDE DEF good
    <2>1. PICK i \in bad : \A j \in bad : i <= j BY LeastOne
    <2>2. i # 0 /\ i \in 1..k BY <1>1, <1>6, <2>1
    <2>3. i - 1 \in Nat /\ i - 1 <= k /\ i - 1 < i BY <1>1, <2>2
    <2>4. good(i - 1) BY <2>1, <2>3
    <2> QED BY <1>7, <2>1, <2>2, <2>4
  <1>9. good(k)
    <2> HIDE DEF good
    <2> QED BY <1>1, <1>8
  <1>10. T(k) = S \cup Told(r, ans)
    <2>1. {h \in ans.told : h <= k} = ans.told BY <1>1, <1>4
    <2> QED BY <2>1 DEF Told
  <1>11. Told(r, ans) \subseteq Samples BY <1>2 DEF Told
  <1> QED BY <1>5, <1>9, <1>10, <1>11

\* ... and of several replicas, which are answered for one after the other.
LEMMA AnswersHold ==
    ASSUME NEW order, NEW k \in Nat, Len(order) = k, NEW rs \in SUBSET Replicas,
           rs = {order[i] : i \in 1..k}, NEW answer, \A r \in rs : Readable(answer[r]),
           NEW S \in SUBSET Samples, now \in Nat, Holds(obs, S, now),
           NEW q, NEW m \in Nat, NEW p
    PROVE  LET o == ShownAnswers(order, answer)
           IN  /\ Holds(o, S \cup UNION {Told(r, answer[r]) : r \in rs}, now)
               /\ Watched(obs, q, m, p)
                  /\ (q \in rs => \A i \in answer[q].told : answer[q].states[i].n <= m) =>
                    Watched(o, q, m, p)
  <1>0. PICK f : Unfolding(f, order, answer, k) BY AnswersUnfold
  <1>1. /\ ShownAnswers(order, answer) = f[k]
        /\ f[0] = obs
        /\ \A i \in 1..k : f[i] = ShownAnswer(f[i - 1], order[i], answer[order[i]])
    BY <1>0 DEF Unfolding
  <1> DEFINE ans(i) == answer[order[i]]
             T(j) == S \cup UNION {Told(order[i], ans(i)) : i \in 1..j}
             low == /\ Watched(obs, q, m, p)
                    /\ q \in rs => \A i \in answer[q].told : answer[q].states[i].n <= m
  <1>2. ASSUME NEW i \in 1..k
        PROVE  order[i] \in Replicas /\ Readable(ans(i)) /\ Told(order[i], ans(i)) \subseteq Samples
    <2>1. order[i] \in rs OBVIOUS
    <2>2. order[i] \in Replicas /\ Readable(ans(i)) BY <2>1
    <2> QED BY <2>2, AnswerHolds
  <1>3. \A j \in 0..k : T(j) \in SUBSET Samples
    <2>1. ASSUME NEW j \in 0..k, NEW i \in 1..j PROVE i \in 1..k
      OBVIOUS
    <2>2. ASSUME NEW j \in 0..k PROVE \A i \in 1..j : Told(order[i], ans(i)) \subseteq Samples
      BY <1>2, <2>1
    <2> QED BY <2>2
  <1> DEFINE good(i) == Holds(f[i], T(i), now) /\ (low => Watched(f[i], q, m, p))
             bad == {i \in Nat : i <= k /\ ~good(i)}
  <1>4. good(0)
    <2>1. 1..0 = {} OBVIOUS
    <2>2. T(0) = S BY <2>1
    <2> QED BY <1>1, <2>2
  <1>5. ASSUME NEW i \in 1..k, good(i - 1) PROVE good(i)
    <2>1. 1..i = 1..(i - 1) \cup {i} OBVIOUS
    <2>2. T(i) = T(i - 1) \cup Told(order[i], ans(i)) BY <2>1
    <2>3. i - 1 \in 0..k OBVIOUS
    <2>4. T(i - 1) \in SUBSET Samples BY <1>3, <2>3
    <2>5. f[i] = ShownAnswer(f[i - 1], order[i], ans(i)) BY <1>1
    <2>6. order[i] \in Replicas /\ order[i] \in rs /\ Readable(ans(i)) BY <1>2
    <2>7. low /\ order[i] = q => \A h \in ans(i).told : ans(i).states[h].n <= m BY <2>6
    <2> HIDE DEF T, low, ans
    <2>8. Holds(f[i - 1], T(i - 1), now) /\ (low => Watched(f[i - 1], q, m, p)) BY <1>5
    <2> DEFINE g == f[i - 1]
    <2> HIDE DEF good, g
    <2>8a. Holds(g, T(i - 1), now) /\ f[i] = ShownAnswer(g, order[i], ans(i)) BY <2>5, <2>8 DEF g
    <2>9. /\ Holds(f[i], T(i - 1) \cup Told(order[i], ans(i)), now)
          /\ Watched(g, q, m, p)
             /\ (order[i] = q => \A h \in ans(i).told : ans(i).states[h].n <= m) =>
               Watched(f[i], q, m, p)
      BY <2>4, <2>6, <2>8a, AnswerHolds
    <2> QED BY <2>2, <2>7, <2>8, <2>9 DEF good, g
  <1>6. bad = {}
    <2> SUFFICES ASSUME bad # {} PROVE FALSE
      OBVIOUS
    <2> HIDE DEF good
    <2>1. PICK i \in bad : \A j \in bad : i <= j BY LeastOne
    <2>2. i # 0 /\ i \in 1..k BY <1>4, <2>1
    <2>3. i - 1 \in Nat /\ i - 1 <= k /\ i - 1 < i BY <2>2
    <2>4. good(i - 1) BY <2>1, <2>3
    <2> QED BY <1>5, <2>1, <2>2, <2>4
  <1>7. good(k)
    <2> HIDE DEF good
    <2> QED BY <1>6
  <1>8. T(k) = S \cup UNION {Told(r, answer[r]) : r \in rs}
    <2>1. {Told(order[i], ans(i)) : i \in 1..k} = {Told(r, answer[r]) : r \in rs} OBVIOUS
    <2> QED BY <2>1
  <1> QED BY <1>1, <1>7, <1>8

\* SetToSeq lists a finite set.
LEMMA Listed ==
    ASSUME NEW S, IsFiniteSet(S)
    PROVE  /\ Len(SetToSeq(S)) = Cardinality(S) /\ Cardinality(S) \in Nat
           /\ S = {SetToSeq(S)[i] : i \in 1..Cardinality(S)}
  <1> DEFINE n == Cardinality(S)
             f == SetToSeq(S)
  <1>1. n \in Nat /\ ExistsBijection(1..n, S) BY FS_CardinalityType
  <1>2. f \in [1..n -> S] /\ IsInjective(f)
    <2>1. \E g : g \in [1..n -> S] /\ IsInjective(g)
      BY <1>1 DEF ExistsBijection, Bijection, Injection
    <2> QED BY <2>1 DEF SetToSeq
  <1> HIDE DEF f
  <1>3. f \in Injection(1..n, S) BY <1>2 DEF Injection
  <1>4. Cardinality(1..n) = n BY <1>1, FS_Interval
  <1>5. f \in Surjection(1..n, S) BY <1>3, <1>4, FS_Injection
  <1>6. S = {f[i] : i \in 1..n} BY <1>2, <1>5 DEF Surjection
  <1>7. Len(f) = n BY <1>1, <1>2
  <1> QED BY <1>1, <1>6, <1>7 DEF f

-----------------------------------------------------------------------------
(***************************************************************************)
(* How many checkpoints a log has.                                         *)
(***************************************************************************)

\* A multiple of c above k * c is (k + 1) * c at least.
LEMMA NextMultiple ==
    ASSUME NEW c \in Nat \ {0}, NEW k \in Nat, NEW m \in Nat, k * c < m, m % c = 0
    PROVE  (k + 1) * c <= m
  <1> DEFINE d == m \div c
  <1>1. d \in Nat /\ m = c * d + (m % c) OBVIOUS
  <1>2. m = c * d BY <1>1
  <1> HIDE DEF d
  <1>3. k < d
    <2>1. CASE d <= k
      <3>1. c * d <= c * k BY <1>1, <2>1
      <3> QED BY <1>2, <3>1
    <2> QED BY <1>1, <2>1
  <1>4. k + 1 <= d BY <1>1, <1>3
  <1>5. c * (k + 1) <= c * d BY <1>1, <1>4
  <1> QED BY <1>2, <1>5

LEMMA RingStep ==
    ASSUME ChainInv, RingInv, ChainStep
    PROVE  RingInv'
  <1> SUFFICES ASSUME Source = "chain" PROVE RingInv'
    BY DEF RingInv
  <1>0. /\ log \in [Replicas -> Seq(Entries)] /\ up \subseteq Replicas
        /\ folder \in [Replicas -> States] /\ frontier \in [Replicas -> States]
        /\ table \in [Replicas -> Seq(States)] /\ truncated \in [Replicas -> BOOLEAN]
        /\ \A r \in up : FoldIsTrue(log[r], folder[r], frontier[r], table[r], truncated[r])
    BY DEF ChainInv, ChainTypes, FoldInv
  <1>1. Ring \in Nat \ {0} /\ Spacing \in Nat \ {0}
    BY ConformanceAssumption DEF ConstantsOK, ChainConstantsOK, Spacing
  <1> DEFINE kept(l, fold, ring, e) == /\ e => Len(l) > Ring * Spacing
                                       /\ ~e => Len(ring) * Spacing <= fold.n
  <1>2. \A r \in up : kept(log[r], folder[r], table[r], truncated[r]) BY DEF RingInv
  <1>3. ASSUME NEW r \in Replicas, up' \subseteq up \cup {r},
               \A q \in up \ {r} : Same(q),
               r \in up' => kept(log'[r], folder'[r], table'[r], truncated'[r])
        PROVE  RingInv'
    <2>1. ASSUME NEW q \in up' PROVE kept(log'[q], folder'[q], table'[q], truncated'[q])
      <3>1. CASE q = r
        BY <1>3, <2>1, <3>1
      <3>2. CASE q # r
        <4>1. q \in up /\ Same(q) BY <1>3, <2>1, <3>2
        <4> QED BY <1>2, <4>1 DEF Same
      <3> QED BY <3>1, <3>2
    <2> QED BY <2>1 DEF RingInv
  <1>4. CASE UNCHANGED chainVars
    BY <1>4 DEF chainVars, foldVars, RingInv
  <1>5. ASSUME NEW r \in Replicas, Applies(r) PROVE RingInv'
    <2>1. PICK c \in Entries : log' = [log EXCEPT ![r] = Append(@, c)] BY <1>5 DEF Applies
    <2>2. r \in up /\ up' = up /\ UNCHANGED <<folder, frontier, table, truncated>>
      BY <1>5 DEF Applies, foldVars
    <2>3. log'[r] = Append(log[r], c) /\ \A q \in Replicas \ {r} : log'[q] = log[q]
      BY <1>0, <2>1
    <2>4. Len(log'[r]) = Len(log[r]) + 1 /\ Len(log[r]) \in Nat BY <1>0, <2>3
    <2>5. kept(log'[r], folder'[r], table'[r], truncated'[r])
      <3>1. Ring * Spacing \in Nat BY <1>1
      <3> HIDE DEF RingInv
      <3>2. Len(log[r]) > Ring * Spacing => Len(log'[r]) > Ring * Spacing BY <2>4, <3>1
      <3> QED BY <1>2, <2>2, <3>2
    <2>6. \A q \in up \ {r} : Same(q) BY <1>0, <2>2, <2>3 DEF Same
    <2> HIDE DEF kept
    <2> QED BY <1>3, <2>2, <2>5, <2>6
  <1>6. ASSUME NEW r \in Replicas, BeginFold(r) \/ EndFold(r) PROVE RingInv'
    <2>1. UNCHANGED <<log, up, folder, table, truncated>> BY <1>6 DEF BeginFold, EndFold
    <2> QED BY <2>1 DEF RingInv
  <1>7. ASSUME NEW r \in Replicas, FoldOne(r) PROVE RingInv'
    <2>0. PICK s : s = Extend(folder[r], log[r][folder[r].n + 1]) OBVIOUS
    <2>1. /\ r \in up /\ folder[r].n < Len(log[r])
          /\ folder' = [folder EXCEPT ![r] = s]
          /\ Boundary(s.n) => /\ table' = [table EXCEPT ![r] = Recorded(@, s)]
                              /\ truncated' = [truncated EXCEPT ![r] = @ \/ Len(table[r]) = Ring]
          /\ ~Boundary(s.n) => UNCHANGED <<table, truncated>>
          /\ UNCHANGED <<log, up, pass, frontier>>
      BY <1>7, <2>0 DEF FoldOne
    <2>2. s.n = folder[r].n + 1 BY <2>0 DEF Extend
    <2>3. /\ folder[r].n \in Nat /\ Len(log[r]) \in Nat /\ Len(table[r]) \in Nat
          /\ Ring * Spacing \in Nat /\ Len(table[r]) * Spacing \in Nat
      <3>1. folder[r] \in States /\ log[r] \in Seq(Entries) /\ table[r] \in Seq(States) BY <1>0
      <3>2. folder[r].n \in Nat /\ Len(log[r]) \in Nat /\ Len(table[r]) \in Nat
        BY <3>1 DEF States
      <3> QED BY <1>1, <3>2
    <2>4. kept(log[r], folder[r], table[r], truncated[r]) BY <1>2, <2>1
    <2>5. folder'[r] = s /\ \A q \in up \ {r} : folder'[q] = folder[q] BY <1>0, <2>1
    <2>6. CASE ~Boundary(s.n)
      <3>1. UNCHANGED <<table, truncated>> BY <2>1, <2>6
      <3>2. kept(log'[r], folder'[r], table'[r], truncated'[r])
        BY <2>1, <2>2, <2>3, <2>4, <2>5, <3>1
      <3>3. \A q \in up \ {r} : Same(q) BY <2>1, <2>5, <3>1 DEF Same
      <3> HIDE DEF kept
      <3> QED BY <1>3, <2>1, <3>2, <3>3
    <2>7. CASE Boundary(s.n)
      <3>1. /\ table'[r] = Recorded(table[r], s) /\ \A q \in up \ {r} : table'[q] = table[q]
            /\ truncated'[r] = (truncated[r] \/ Len(table[r]) = Ring)
            /\ \A q \in up \ {r} : truncated'[q] = truncated[q]
        BY <1>0, <2>1, <2>7
      <3>2. \A q \in up \ {r} : Same(q) BY <2>1, <2>5, <3>1 DEF Same
      <3>3. ~truncated[r] => (Len(table[r]) + 1) * Spacing <= s.n
        <4>1. s.n % Spacing = 0 BY <2>7 DEF Boundary
        <4>2. ~truncated[r] => Len(table[r]) * Spacing < s.n BY <2>2, <2>3, <2>4
        <4>3. s.n \in Nat BY <2>2, <2>3
        <4> DEFINE k == Len(table[r])
                   m == s.n
        <4>4. k \in Nat BY <2>3
        <4> HIDE DEF k, m
        <4>5. m \in Nat /\ m % Spacing = 0 BY <4>1, <4>3 DEF m
        <4>6. k * Spacing < m => (k + 1) * Spacing <= m BY <1>1, <4>4, <4>5, NextMultiple
        <4> QED BY <4>2, <4>6 DEF k, m
      <3>4. ~truncated[r] /\ Len(table[r]) = Ring => Len(log[r]) > Ring * Spacing
        <4>1. ~truncated[r] /\ Len(table[r]) = Ring => Ring * Spacing <= folder[r].n BY <2>4
        <4> QED BY <2>1, <2>3, <4>1
      <3>5. Len(table[r]) # Ring => Len(Recorded(table[r], s)) = Len(table[r]) + 1
        <4>1. table[r] \in Seq(States) BY <1>0
        <4> QED BY <4>1 DEF Recorded
      <3>6. kept(log'[r], folder'[r], table'[r], truncated'[r])
        <4>1. log' = log BY <2>1
        <4>2. truncated'[r] => Len(log[r]) > Ring * Spacing BY <2>4, <3>1, <3>4
        <4>3. ~truncated'[r] => Len(table'[r]) * Spacing <= s.n BY <3>1, <3>3, <3>5
        <4> QED BY <2>5, <4>1, <4>2, <4>3
      <3> HIDE DEF kept
      <3> QED BY <1>3, <2>1, <3>2, <3>6
    <2> QED BY <2>6, <2>7
  <1>8. ASSUME NEW r \in Replicas, Stop(r) PROVE RingInv'
    <2>1. up' = up \ {r} /\ UNCHANGED <<log, folder, table, truncated>>
      BY <1>8 DEF Stop, Halt, foldVars
    <2> QED BY <2>1 DEF RingInv
  <1>9. ASSUME NEW r \in Replicas, Start(r) PROVE RingInv'
    <2>1. /\ up' = up \cup {r} /\ log' = log
          /\ folder' = [folder EXCEPT ![r] = Genesis]
          /\ frontier' = [frontier EXCEPT ![r] = Genesis] /\ table' = [table EXCEPT ![r] = <<>>]
          /\ truncated' = [truncated EXCEPT ![r] = FALSE]
      BY <1>9 DEF Start, Rise
    <2>2. folder'[r] = Genesis /\ table'[r] = <<>> /\ truncated'[r] = FALSE BY <1>0, <2>1
    <2>3. \A q \in up \ {r} : Same(q) BY <1>0, <2>1 DEF Same
    <2>4. Len(<<>>) = 0 /\ 0 * Spacing = 0 /\ Genesis.n = 0 BY <1>1 DEF Genesis
    <2>5. kept(log'[r], folder'[r], table'[r], truncated'[r]) BY <2>2, <2>4
    <2> HIDE DEF kept
    <2> QED BY <1>3, <2>1, <2>3, <2>5
  <1>10. ASSUME Source # "chain" PROVE RingInv'
    BY <1>10
  <1>11. ASSUME NEW r \in Replicas, Halt(r), log' = [log EXCEPT ![r] = <<>>], UNCHANGED foldVars
         PROVE  RingInv'
    <2>1. up' = up \ {r} /\ UNCHANGED <<folder, table, truncated>>
      BY <1>11 DEF Halt, foldVars
    <2>2. \A q \in Replicas \ {r} : log'[q] = log[q] BY <1>0, <1>11
    <2> QED BY <1>0, <2>1, <2>2 DEF RingInv
  <1> QED BY <1>4, <1>5, <1>6, <1>7, <1>8, <1>9, <1>10, <1>11 DEF ChainStep, HookStep

-----------------------------------------------------------------------------
(***************************************************************************)
(* What a replica answers when it is polled.                               *)
(***************************************************************************)

\* A replica always shows something, states of its log as far as it can show
\* any; the cursor is one of them or stays, and passes over no boundary.
Answers(r, ans) ==
    /\ Readable(ans) /\ ans.told # {} /\ ans.cursor \in States
    /\ \A i \in ans.told : /\ ans.states[i].n <= Len(log[r])
                           /\ r \in Steady => OfChain(ans.states[i], log[r])
    /\ ans.cursor = cursor[r] \/ \E i \in ans.told : ans.cursor = ans.states[i]
    /\ r \in Steady /\ Source # "frontier" /\ Len(log[r]) <= Ring * Spacing =>
         \A n \in 1..ans.cursor.n : Boundary(n) /\ n > cursor[r].n =>
            \E i \in ans.told : ans.states[i] = StateOf(log[r], n)
    /\ \A m \in Nat : Covers(r, m) => \A i \in ans.told : ans.states[i].n <= m
    /\ \A m \in Nat : cursor[r].n <= m /\ (\A i \in ans.told : ans.states[i].n <= m) => Covers(r, m)

\* A bounded set of natural numbers has a greatest one.
LEMMA GreatestOne ==
    ASSUME NEW b \in Nat, NEW S, S \subseteq 0..b, S # {}
    PROVE  Max(S) \in S /\ \A y \in S : y <= Max(S)
  <1> DEFINE T == {k \in Nat : \E y \in S : k = b - y}
  <1>1. T # {}
    <2>1. PICK y \in S : TRUE OBVIOUS
    <2>2. b - y \in T BY <2>1
    <2> QED BY <2>2
  <1>2. PICK k \in T : \A j \in T : k <= j
    <2>1. T \subseteq Nat OBVIOUS
    <2> HIDE DEF T
    <2> QED BY <1>1, <2>1, LeastOne
  <1>3. PICK x \in S : k = b - x BY <1>2
  <1>4. \A y \in S : x >= y
    <2>1. \A y \in S : b - y \in T OBVIOUS
    <2>2. \A y \in S : k <= b - y BY <1>2, <2>1
    <2> QED BY <1>3, <2>2
  <1>5. \E z \in S : \A y \in S : z >= y BY <1>4
  <1>6. Max(S) \in S /\ \A y \in S : Max(S) >= y BY <1>5 DEF Max
  <1> QED BY <1>6

\* A prefix and what follows it make a longer prefix.
LEMMA Spliced ==
    ASSUME NEW l \in Seq(Entries), NEW h \in Seq(Entries), NEW b \in Nat, NEW n \in Nat,
           b <= n, n <= Len(l)
    PROVE  /\ h \o SubSeq(l, b + 1, n) \in Seq(Entries)
           /\ h = SubSeq(l, 1, b) => h \o SubSeq(l, b + 1, n) = SubSeq(l, 1, n)
  <1> DEFINE t == SubSeq(l, b + 1, n)
             w == SubSeq(l, 1, n)
             j == h \o t
  <1>0. Len(l) \in Nat /\ b + 1 \in Nat OBVIOUS
  <1>1. t \in Seq(Entries) /\ Len(t) = n - b /\ \A i \in 1..(n - b) : t[i] = l[b + i]
    OBVIOUS
  <1>2. w \in Seq(Entries) /\ Len(w) = n /\ \A i \in 1..n : w[i] = l[i]
    BY PrefixTyped
  <1> HIDE DEF t, w
  <1>3. /\ j \in Seq(Entries) /\ Len(j) = Len(h) + Len(t)
        /\ \A i \in 1..Len(h) : j[i] = h[i]
        /\ \A i \in (Len(h) + 1)..(Len(h) + Len(t)) : j[i] = t[i - Len(h)]
    <2>1. h \in Seq(Entries) /\ t \in Seq(Entries) BY <1>1
    <2>2. j \in Seq(Entries) /\ Len(j) = Len(h) + Len(t) BY <2>1
    <2>3. \A i \in 1..Len(h) : j[i] = h[i] BY <2>1
    <2>4. \A i \in (Len(h) + 1)..(Len(h) + Len(t)) : j[i] = t[i - Len(h)] BY <2>1
    <2> QED BY <2>2, <2>3, <2>4
  <1> HIDE DEF j
  <1>4. ASSUME h = SubSeq(l, 1, b) PROVE j = w
    <2>1. Len(h) = b /\ \A i \in 1..b : h[i] = l[i]
      <3>1. b <= Len(l) BY <1>0
      <3> QED BY <1>4, <3>1, PrefixTyped
    <2>2. Len(j) = n BY <1>1, <1>3, <2>1
    <2>3. ASSUME NEW i \in 1..n PROVE j[i] = w[i]
      <3>1. CASE i <= b
        <4>1. i \in 1..b BY <3>1
        <4> QED BY <1>2, <1>3, <2>1, <4>1
      <3>2. CASE i > b
        <4>1. i - b \in 1..(n - b) /\ b + (i - b) = i BY <3>2
        <4>2. j[i] = t[i - b]
          <5>1. i \in (b + 1)..(b + Len(t)) BY <1>1, <3>2
          <5> QED BY <1>3, <2>1, <5>1
        <4>3. t[i - b] = l[b + (i - b)] BY <1>1, <4>1
        <4> QED BY <1>2, <4>1, <4>2, <4>3
      <3> QED BY <3>1, <3>2
    <2> QED BY <1>2, <1>3, <2>2, <2>3, SameSeq
  <1> QED BY <1>3, <1>4 DEF j, t, w

\* /chain: a checkpoint that is not reported was reported before.
LEMMA ChainAnswers ==
    ASSUME ChainInv, RunTypes, RingInv, Source = "chain", NEW r \in up
    PROVE  Answers(r, FromChain(r))
  <1> DEFINE ans == FromChain(r)
             t == table[r]
             k == Len(t)
             fresh == {i \in 1..k : t[i].n > cursor[r].n}
  <1>1. /\ r \in Replicas /\ t \in Seq(States) /\ frontier[r] \in States /\ cursor[r] \in States
        /\ log[r] \in Seq(Entries) /\ folder[r] \in States
    BY DEF ChainInv, ChainTypes, RunTypes
  <1>2. FoldIsTrue(log[r], folder[r], frontier[r], t, truncated[r]) BY DEF ChainInv, FoldInv
  <1>3. /\ ans.states = Append(t, frontier[r]) /\ ans.told = fresh \cup {k + 1}
        /\ fresh = {} => ans.cursor = cursor[r]
        /\ fresh # {} => ans.cursor = t[Max(fresh)]
    BY DEF FromChain, WithFrontier
  <1>4. k \in Nat /\ Len(log[r]) \in Nat /\ cursor[r].n \in Nat /\ folder[r].n \in Nat
        /\ \A i \in 1..k : t[i] \in States /\ t[i].n \in Nat
    <2>1. \A s \in States : s.n \in Nat BY DEF States
    <2>2. k \in Nat /\ Len(log[r]) \in Nat BY <1>1
    <2>3. cursor[r].n \in Nat /\ folder[r].n \in Nat BY <1>1, <2>1
    <2>4. t \in Seq(States) BY <1>1
    <2> HIDE DEF t
    <2>5. \A i \in 1..k : t[i] \in States BY <2>4
    <2> QED BY <2>1, <2>2, <2>3, <2>5
  <1>5. /\ Len(ans.states) = k + 1 /\ ans.states[k + 1] = frontier[r]
        /\ \A i \in 1..k : ans.states[i] = t[i]
    BY <1>1, <1>3
  <1>6. fresh # {} => Max(fresh) \in fresh
    <2>1. fresh \subseteq 0..k BY <1>4
    <2> HIDE DEF fresh
    <2> QED BY <1>4, <2>1, GreatestOne
  <1> HIDE DEF ans, t, k
  <1>7. \A i \in ans.told : ans.states[i] \in States /\ OfChain(ans.states[i], log[r])
    <2>1. \A i \in 1..k : OfChain(t[i], log[r]) BY <1>2 DEF FoldIsTrue, k
    <2>2. OfChain(frontier[r], log[r]) BY <1>2 DEF FoldIsTrue
    <2> QED BY <1>1, <1>3, <1>4, <1>5, <2>1, <2>2
  <1>8. Readable(ans)
    <2>1. ans.told \subseteq 1..(k + 1) BY <1>3, <1>4
    <2> QED BY <1>4, <1>5, <1>7, <2>1 DEF Readable
  <1>9. ans.cursor \in States
    BY <1>1, <1>3, <1>4, <1>6
  <1>10. ans.cursor = cursor[r] \/ \E i \in ans.told : ans.cursor = ans.states[i]
    <2>1. CASE fresh = {}
      BY <1>3, <2>1
    <2>2. CASE fresh # {}
      <3>1. Max(fresh) \in ans.told /\ Max(fresh) \in 1..k BY <1>3, <1>6, <2>2
      <3> QED BY <1>3, <1>5, <2>2, <3>1
    <2> QED BY <2>1, <2>2
  <1>11. ASSUME Len(log[r]) <= Ring * Spacing, NEW n \in 1..ans.cursor.n, Boundary(n),
                n > cursor[r].n
         PROVE  \E i \in ans.told : ans.states[i] = StateOf(log[r], n)
    <2>0. Ring * Spacing \in Nat
      BY ConformanceAssumption DEF ConstantsOK, ChainConstantsOK, Spacing
    <2>1. ~truncated[r] BY <1>4, <1>11, <2>0 DEF RingInv
    <2>2. fresh # {} BY <1>3, <1>4, <1>11
    <2>3. Max(fresh) \in 1..k /\ n <= t[Max(fresh)].n BY <1>3, <1>6, <1>11, <2>2
    <2>4. t[Max(fresh)].n <= folder[r].n BY <1>2, <2>3 DEF FoldIsTrue, k
    <2>5. n \in 1..folder[r].n BY <1>4, <2>3, <2>4
    <2>6. StateOf(log[r], n) \in Range(t) BY <1>2, <1>11, <2>1, <2>5 DEF FoldIsTrue
    <2>7. PICK i \in 1..k : t[i] = StateOf(log[r], n) BY <1>1, <2>6 DEF Range, t, k
    <2>8. t[i].n = n BY <2>7 DEF StateOf
    <2>9. i \in fresh BY <1>11, <2>8
    <2> QED BY <1>3, <1>5, <2>7, <2>9
  <1>12. ASSUME NEW m \in Nat, Covers(r, m), NEW i \in ans.told PROVE ans.states[i].n <= m
    <2>1. frontier[r].n <= m /\ \A h \in 1..k : t[h].n <= m BY <1>12 DEF Covers, t, k
    <2>2. i \in 1..k \/ i = k + 1 BY <1>3
    <2> QED BY <1>5, <2>1, <2>2
  <1>13. ASSUME NEW m \in Nat, cursor[r].n <= m, \A i \in ans.told : ans.states[i].n <= m
         PROVE  Covers(r, m)
    <2>1. frontier[r].n <= m BY <1>3, <1>5, <1>13
    <2>2. ASSUME NEW i \in 1..k PROVE t[i].n <= m
      <3>1. CASE i \in fresh
        BY <1>3, <1>5, <1>13, <3>1
      <3>2. CASE i \notin fresh
        BY <1>4, <1>13, <3>2
      <3> QED BY <3>1, <3>2
    <2> QED BY <2>1, <2>2 DEF Covers, t, k
  <1>14. \A i \in ans.told : ans.states[i].n <= Len(log[r]) /\ OfChain(ans.states[i], log[r])
    BY <1>7 DEF OfChain
  <1>15. Answers(r, ans)
    BY <1>3, <1>8, <1>9, <1>10, <1>11, <1>12, <1>13, <1>14 DEF Answers
  <1> QED BY <1>15 DEF ans

\* The cursor of a replica that keeps its log is a state of its chain.
LEMMA CursorOfChain ==
    ASSUME ChainInv, RunTypes, ShownInv, CursorInv, NEW r \in Steady
    PROVE  OfChain(cursor[r], log[r])
  <1>1. r \in Replicas /\ log[r] \in Seq(Entries) BY DEF Steady, ChainInv, ChainTypes
  <1>2. OfChain(Genesis, log[r]) BY <1>1, FreshFold DEF FoldIsTrue
  <1>3. [replica |-> r, state |-> cursor[r]] \in shown => OfChain(cursor[r], log[r])
    <2> DEFINE x == [replica |-> r, state |-> cursor[r]]
    <2>1. x.replica = r /\ x.state = cursor[r] OBVIOUS
    <2> HIDE DEF x
    <2>2. x \in shown => OfChain(cursor[r], log[r]) BY <2>1 DEF ShownInv
    <2> QED BY <2>2 DEF x
  <1> QED BY <1>1, <1>2, <1>3 DEF CursorInv

\* SimCluster: the states beyond the cursor, or the frontier when there are none.
LEMMA LogAnswers ==
    ASSUME ChainInv, RunTypes, ShownInv, CursorInv, Source # "chain", NEW r \in Replicas
    PROVE  Answers(r, FromLog(r))
  <1> DEFINE ans      == FromLog(r)
             base     == IF Len(log[r]) < cursor[r].n THEN Genesis ELSE cursor[r]
             end      == Len(log[r])
             size     == IF end = base.n THEN 1 ELSE end - base.n
             State(n) == [n |-> n, h |-> base.h \o SubSeq(log[r], base.n + 1, n)]
             pending  == {i \in 1..(end - base.n) : \/ Source = "full"
                                                    \/ Source = "checkpoints" /\ Boundary(base.n + i)}
  <1>0. /\ ans.states = [i \in 1..size |-> State(end - size + i)]
        /\ ans.told = pending \cup {size} /\ ans.cursor = State(end)
    BY DEF FromLog, WithFrontier
  <1>1. log[r] \in Seq(Entries) /\ cursor[r] \in States /\ Genesis \in States
    BY DEF ChainInv, ChainTypes, RunTypes, Genesis, States
  <1>2. \A s \in States : s.n \in Nat /\ s.h \in Seq(Entries) BY DEF States
  <1>3. base \in States /\ base.n \in Nat /\ base.h \in Seq(Entries) /\ end \in Nat /\ base.n <= end
    <2>1. end \in Nat BY <1>1
    <2>2. cursor[r].n \in Nat /\ Genesis.n = 0 BY <1>1, <1>2 DEF Genesis
    <2>3. base \in States BY <1>1
    <2>4. base.n <= end BY <2>1, <2>2
    <2> QED BY <1>2, <2>1, <2>3, <2>4
  <1>4. r \in Steady => cursor[r].n <= end /\ base = cursor[r] /\ base.h = SubSeq(log[r], 1, base.n)
    <2> SUFFICES ASSUME r \in Steady
                 PROVE  cursor[r].n <= end /\ base = cursor[r] /\ base.h = SubSeq(log[r], 1, base.n)
      OBVIOUS
    <2>1. cursor[r].n <= end /\ cursor[r] = StateOf(log[r], cursor[r].n)
      BY CursorOfChain DEF OfChain
    <2>2. cursor[r].n \in Nat BY <1>1, <1>2
    <2>3. base = cursor[r] BY <1>3, <2>1, <2>2
    <2>4. cursor[r].h = SubSeq(log[r], 1, cursor[r].n) BY <2>1 DEF StateOf
    <2> HIDE DEF base
    <2> QED BY <2>1, <2>3, <2>4
  <1>5. cursor[r].n <= end => base = cursor[r] BY <1>1, <1>2, <1>3
  <1> HIDE DEF base
  <1>6. ASSUME NEW n \in Nat, base.n <= n, n <= end
        PROVE  /\ State(n) \in States /\ State(n).n = n
               /\ r \in Steady => State(n) = StateOf(log[r], n)
    <2> DEFINE h == base.h \o SubSeq(log[r], base.n + 1, n)
    <2>1. h \in Seq(Entries) /\ (base.h = SubSeq(log[r], 1, base.n) => h = SubSeq(log[r], 1, n))
      BY <1>1, <1>3, <1>6, Spliced
    <2>2. State(n) = [n |-> n, h |-> h] OBVIOUS
    <2> HIDE DEF State, h
    <2>3. State(n) \in States /\ State(n).n = n BY <2>1, <2>2 DEF States
    <2>4. r \in Steady => State(n) = StateOf(log[r], n) BY <1>4, <2>1, <2>2 DEF StateOf
    <2> QED BY <2>3, <2>4
  <1>7. size \in Nat /\ size >= 1 /\ size <= end - base.n + 1
        /\ (end # base.n => size = end - base.n) /\ (end = base.n => size = 1)
    BY <1>3
  <1> HIDE DEF size, State, end
  <1>8. Len(ans.states) = size BY <1>0, <1>7
  <1>9. ans.told \subseteq 1..size /\ size \in ans.told
    <2>1. pending \subseteq 1..size BY <1>3, <1>7
    <2> QED BY <1>0, <1>7, <2>1
  <1>10. ASSUME NEW i \in ans.told
         PROVE  /\ ans.states[i] = State(end - size + i)
                /\ end - size + i \in Nat /\ base.n <= end - size + i /\ end - size + i <= end
    <2>1. i \in 1..size BY <1>9
    <2>2. ans.states[i] = State(end - size + i) BY <1>0, <2>1
    <2>3. base.n <= end - size + i BY <1>3, <1>7, <2>1
    <2>4. end - size + i <= end BY <1>3, <1>7, <2>1
    <2> QED BY <1>3, <1>7, <2>1, <2>2, <2>3, <2>4
  <1> HIDE DEF ans
  <1>11. \A i \in ans.told : /\ ans.states[i] \in States /\ ans.states[i].n <= end
                             /\ r \in Steady => OfChain(ans.states[i], log[r])
    <2> SUFFICES ASSUME NEW i \in ans.told
                 PROVE  /\ ans.states[i] \in States /\ ans.states[i].n <= end
                        /\ r \in Steady => OfChain(ans.states[i], log[r])
      OBVIOUS
    <2> DEFINE n == end - size + i
    <2>1. ans.states[i] = State(n) /\ n \in Nat /\ base.n <= n /\ n <= end BY <1>10
    <2> HIDE DEF n
    <2>2. State(n) \in States /\ State(n).n = n /\ (r \in Steady => State(n) = StateOf(log[r], n))
      BY <1>6, <2>1
    <2> QED BY <2>1, <2>2 DEF OfChain, end
  <1>12. Readable(ans)
    BY <1>7, <1>8, <1>9, <1>11 DEF Readable
  <1>13. ans.cursor \in States /\ ans.cursor.n = end BY <1>0, <1>3, <1>6
  <1>14. ans.states[size] = ans.cursor
    <2>1. end - size + size = end BY <1>3, <1>7
    <2> QED BY <1>0, <1>9, <1>10, <2>1
  <1>15. ASSUME r \in Steady, Source # "frontier", NEW n \in 1..ans.cursor.n, Boundary(n),
                n > cursor[r].n
         PROVE  \E i \in ans.told : ans.states[i] = StateOf(log[r], n)
    <2> DEFINE i == n - base.n
    <2>1. n \in Nat /\ n <= end /\ n > base.n /\ base.n <= n BY <1>3, <1>4, <1>13, <1>15
    <2>2. i \in 1..(end - base.n) /\ base.n + i = n BY <1>3, <2>1
    <2>3. Source \in {"full", "checkpoints"}
      BY <1>15, ConformanceAssumption DEF ConstantsOK
    <2>4. i \in pending BY <1>15, <2>2, <2>3
    <2>5. size = end - base.n BY <1>3, <1>7, <2>1
    <2>6. end - size + i = n BY <1>3, <2>1, <2>5
    <2>7. i \in ans.told BY <1>0, <2>4
    <2>8. ans.states[i] = State(n) BY <1>10, <2>6, <2>7
    <2>9. State(n) = StateOf(log[r], n) BY <1>6, <1>15, <2>1
    <2> QED BY <2>7, <2>8, <2>9
  <1>16. ASSUME NEW m \in Nat, Covers(r, m), NEW i \in ans.told PROVE ans.states[i].n <= m
    <2>1. end <= m BY <1>16 DEF Covers, end
    <2>2. ans.states[i].n \in Nat /\ ans.states[i].n <= end BY <1>2, <1>11
    <2> QED BY <1>3, <2>1, <2>2
  <1>17. ASSUME NEW m \in Nat, \A i \in ans.told : ans.states[i].n <= m PROVE Covers(r, m)
    <2>1. end <= m BY <1>9, <1>13, <1>14, <1>17
    <2> QED BY <2>1 DEF Covers, end
  <1>18. Answers(r, ans)
    <2>1. \A i \in ans.told : /\ ans.states[i].n <= Len(log[r])
                              /\ r \in Steady => OfChain(ans.states[i], log[r])
      BY <1>11 DEF end
    <2>2. \E i \in ans.told : ans.cursor = ans.states[i] BY <1>9, <1>14
    <2> QED BY <1>9, <1>12, <1>13, <1>15, <1>16, <1>17, <2>1, <2>2 DEF Answers
  <1> QED BY <1>18 DEF ans

-----------------------------------------------------------------------------
(***************************************************************************)
(* The steps of a run.                                                     *)
(***************************************************************************)

LEMMA PollStep ==
    ASSUME ChainInv, RunInv, UNCHANGED <<chainVars, now>>,
           NEW rs \in SUBSET Replicas, NEW answer, \A r \in rs : Answers(r, answer[r]),
           Answered(rs, answer)
    PROVE  RunInv'
  <1> DEFINE news == UNION {Told(r, answer[r]) : r \in rs}
  <1>1. /\ obs' = ShownAnswers(SetToSeq(rs), answer)
        /\ cursor' = [r \in Replicas |-> IF r \in rs THEN answer[r].cursor ELSE cursor[r]]
        /\ shown' = shown \cup news
        /\ idle' = [r \in Replicas |-> IF r \in rs /\ idle[r] = Never THEN now ELSE idle[r]]
    BY DEF Answered, Told
  <1>2. UNCHANGED <<log, up, folder, frontier, table, truncated, now>> BY DEF chainVars, foldVars
  <1>3. /\ RunTypes /\ RingInv /\ Holds(obs, shown, now)
        /\ ShownInv /\ CursorInv /\ BoundaryInv /\ IdleInv
    BY DEF RunInv
  <1>4. /\ now \in Nat /\ shown \in SUBSET Samples
        /\ cursor \in [Replicas -> States] /\ idle \in [Replicas -> Nat]
        /\ \A r \in Replicas : Len(log[r]) <= MaxLog /\ Len(log[r]) \in Nat
        /\ MaxLog \in Nat
    <2>1. \A r \in Replicas : log[r] \in Seq(Entries) BY DEF ChainInv, ChainTypes
    <2>2. \A r \in Replicas : Len(log[r]) \in Nat BY <2>1
    <2> QED BY <1>3, <2>2, ConformanceAssumption DEF RunTypes, ConstantsOK, ChainConstantsOK
  <1>5. \A r \in rs : /\ r \in Replicas /\ Readable(answer[r]) /\ answer[r].told # {}
                      /\ answer[r].cursor \in States
    BY DEF Answers
  <1>6. ASSUME NEW x \in news
        PROVE  \E r \in rs : \E i \in answer[r].told :
                  x = [replica |-> r, state |-> answer[r].states[i]]
    BY DEF Told
  <1>6a. ASSUME NEW r \in rs, NEW i \in answer[r].told
         PROVE  [replica |-> r, state |-> answer[r].states[i]] \in news
    BY DEF Told
  <1> HIDE DEF news
  <1>7. ASSUME NEW x \in news
        PROVE  /\ x \in Samples /\ x.replica \in rs /\ x.state.n <= Len(log[x.replica])
               /\ x.replica \in Steady => OfChain(x.state, log[x.replica])
    <2>1. PICK r \in rs : \E i \in answer[r].told : x = [replica |-> r, state |-> answer[r].states[i]]
      BY <1>6
    <2>1a. PICK i \in answer[r].told : x = [replica |-> r, state |-> answer[r].states[i]] BY <2>1
    <2>2. x.replica = r /\ x.state = answer[r].states[i] BY <2>1a
    <2>3. answer[r].states[i] \in States BY <1>5 DEF Readable
    <2>4. x \in Samples BY <1>5, <2>1a, <2>3 DEF Samples
    <2>5. /\ answer[r].states[i].n <= Len(log[r])
          /\ r \in Steady => OfChain(answer[r].states[i], log[r])
      BY DEF Answers
    <2> QED BY <2>2, <2>4, <2>5
  <1>8. RunTypes'
    <2>1. cursor' \in [Replicas -> States] BY <1>1, <1>4, <1>5
    <2>2. idle' \in [Replicas -> Nat] BY <1>1, <1>4
    <2>3. shown' \subseteq Samples BY <1>1, <1>4, <1>7
    <2>4. ASSUME NEW x \in news PROVE x.state.n <= MaxLog
      <3>1. x.state.n \in Nat /\ x.replica \in Replicas BY <1>7 DEF Samples, States
      <3>2. x.state.n <= Len(log[x.replica]) BY <1>7
      <3> QED BY <1>4, <3>1, <3>2
    <2>5. \A x \in shown : x.state.n <= MaxLog BY <1>3 DEF RunTypes
    <2> QED BY <1>1, <1>2, <1>4, <2>1, <2>2, <2>3, <2>4, <2>5 DEF RunTypes
  <1>9. RingInv' BY <1>2, <1>3 DEF RingInv
  <1>10. /\ Holds(obs', shown', now)
         /\ \A q \in Replicas : \A m, p \in Nat :
              /\ Watched(obs, q, m, p)
              /\ q \in rs => \A i \in answer[q].told : answer[q].states[i].n <= m
              => Watched(obs', q, m, p)
    <2>1. IsFiniteSet(rs) BY ConformanceAssumption, FS_Subset DEF ConstantsOK
    <2> DEFINE order == SetToSeq(rs)
               k == Cardinality(rs)
    <2>2. Len(order) = k /\ k \in Nat /\ rs = {order[i] : i \in 1..k} BY <2>1, Listed
    <2> HIDE DEF order, k
    <2>3. obs' = ShownAnswers(order, answer) BY <1>1 DEF order
    <2>4. ASSUME NEW q, NEW m \in Nat, NEW p
          PROVE  /\ Holds(obs', shown', now)
                 /\ Watched(obs, q, m, p)
                    /\ (q \in rs => \A i \in answer[q].told : answer[q].states[i].n <= m) =>
                      Watched(obs', q, m, p)
      <3>1. /\ Holds(ShownAnswers(order, answer),
                     shown \cup UNION {Told(r, answer[r]) : r \in rs}, now)
            /\ Watched(obs, q, m, p)
               /\ (q \in rs => \A i \in answer[q].told : answer[q].states[i].n <= m) =>
                 Watched(ShownAnswers(order, answer), q, m, p)
        <4>1. \A r \in rs : Readable(answer[r]) BY <1>5
        <4>2. Holds(obs, shown, now) /\ shown \in SUBSET Samples /\ now \in Nat BY <1>3, <1>4
        <4> QED BY <2>2, <4>1, <4>2, AnswersHold
      <3> QED BY <1>1, <2>3, <3>1 DEF news
    <2>5. Holds(obs', shown', now) BY <2>4
    <2> QED BY <2>4, <2>5
  <1>11. ShownInv' BY <1>1, <1>2, <1>3, <1>7 DEF ShownInv
  <1>12. CursorInv'
    <2> SUFFICES ASSUME NEW r \in Replicas
                 PROVE  cursor'[r] = Genesis \/ [replica |-> r, state |-> cursor'[r]] \in shown'
      BY DEF CursorInv
    <2>1. cursor[r] = Genesis \/ [replica |-> r, state |-> cursor[r]] \in shown'
      BY <1>1, <1>3 DEF CursorInv
    <2>2. CASE r \in rs
      <3>1. cursor'[r] = answer[r].cursor BY <1>1, <2>2
      <3>2. answer[r].cursor = cursor[r]
            \/ \E i \in answer[r].told : answer[r].cursor = answer[r].states[i]
        BY <2>2 DEF Answers
      <3> QED BY <1>1, <1>6a, <2>1, <2>2, <3>1, <3>2
    <2>3. CASE r \notin rs
      BY <1>1, <2>1, <2>3
    <2> QED BY <2>2, <2>3
  <1>13. BoundaryInv'
    <2> SUFFICES ASSUME Source # "frontier", NEW r \in Steady, Len(log[r]) <= Ring * Spacing,
                        NEW n \in 1..cursor'[r].n, Boundary(n)
                 PROVE  [replica |-> r, state |-> StateOf(log[r], n)] \in shown'
      BY <1>2 DEF BoundaryInv
    <2>0. r \in Replicas BY DEF Steady
    <2>1. n <= cursor[r].n => n \in 1..cursor[r].n BY <1>4, <2>0 DEF States
    <2>2. n <= cursor[r].n => [replica |-> r, state |-> StateOf(log[r], n)] \in shown'
      BY <1>1, <1>3, <2>1 DEF BoundaryInv
    <2>3. CASE r \in rs
      <3>1. n \in 1..answer[r].cursor.n BY <1>1, <2>0, <2>3
      <3>2. n > cursor[r].n => \E i \in answer[r].told : answer[r].states[i] = StateOf(log[r], n)
        BY <2>3, <3>1 DEF Answers
      <3>3. cursor[r].n \in Nat /\ n \in Nat BY <1>4, <1>8, <2>0 DEF States, RunTypes
      <3>4. n > cursor[r].n => [replica |-> r, state |-> StateOf(log[r], n)] \in shown'
        BY <1>1, <1>6a, <2>3, <3>2
      <3> QED BY <2>2, <3>3, <3>4
    <2>4. CASE r \notin rs
      <3>1. cursor'[r] = cursor[r] BY <1>1, <2>0, <2>4
      <3>2. cursor[r].n \in Nat BY <1>4, <2>0 DEF States
      <3> QED BY <2>2, <3>1, <3>2
    <2> QED BY <2>3, <2>4
  <1>14. IdleInv'
    <2> SUFFICES ASSUME NEW r \in Replicas, idle'[r] # Never
                 PROVE  \E m \in Nat : Covers(r, m)' /\ Watched(obs', r, m, idle'[r])
      BY DEF IdleInv
    <2>1. \A m : Covers(r, m)' <=> Covers(r, m) BY <1>2 DEF Covers
    <2>2. CASE idle[r] # Never
      <3>1. idle'[r] = idle[r] /\ idle[r] \in Nat BY <1>1, <1>4, <2>2
      <3>2. PICK m \in Nat : Covers(r, m) /\ Watched(obs, r, m, idle[r])
        BY <1>3, <2>2 DEF IdleInv
      <3>3. r \in rs => \A i \in answer[r].told : answer[r].states[i].n <= m
        BY <3>2 DEF Answers
      <3>4. Watched(obs', r, m, idle[r]) BY <1>10, <3>1, <3>2, <3>3
      <3> QED BY <2>1, <3>1, <3>2, <3>4
    <2>3. CASE idle[r] = Never
      <3>1. r \in rs /\ idle'[r] = now BY <1>1, <2>3
      <3> DEFINE H == {h \in 0..MaxLog : \E x \in shown' : x.replica = r /\ x.state.n = h}
                 m == Max(H)
      <3>2. ASSUME NEW x \in shown', x.replica = r PROVE x.state.n \in H
        <4>1. x.state.n \in Nat /\ x.state.n <= MaxLog
          BY <1>8 DEF RunTypes, Samples, States
        <4> QED BY <1>4, <3>2, <4>1
      <3>3. ASSUME NEW i \in answer[r].told PROVE answer[r].states[i].n \in H
        <4> DEFINE x == [replica |-> r, state |-> answer[r].states[i]]
        <4>1. x \in shown' /\ x.replica = r /\ x.state = answer[r].states[i]
          BY <1>1, <1>6a, <3>1
        <4> HIDE DEF x, H
        <4> QED BY <3>2, <4>1
      <3>4. H # {} BY <1>5, <3>1, <3>3
      <3>5. m \in H /\ \A h \in H : h <= m
        <4>1. H \subseteq 0..MaxLog OBVIOUS
        <4> HIDE DEF H
        <4> QED BY <1>4, <3>4, <4>1, GreatestOne
      <3>6. m \in Nat /\ \E x \in shown' : x.replica = r /\ x.state.n = m BY <3>5
      <3>7. cursor[r].n <= m
        <4>1. CASE cursor[r] = Genesis
          BY <3>6, <4>1 DEF Genesis
        <4>2. CASE [replica |-> r, state |-> cursor[r]] \in shown
          <5> DEFINE x == [replica |-> r, state |-> cursor[r]]
          <5>1. x \in shown' /\ x.replica = r /\ x.state = cursor[r] BY <1>1, <4>2
          <5> HIDE DEF x, H, m
          <5> QED BY <3>2, <3>5, <5>1
        <4> QED BY <1>3, <4>1, <4>2 DEF CursorInv
      <3> HIDE DEF H, m
      <3>8. Covers(r, m)
        <4>1. Answers(r, answer[r]) BY <3>1
        <4>2. \A n \in Nat :
                 cursor[r].n <= n /\ (\A i \in answer[r].told : answer[r].states[i].n <= n) =>
                   Covers(r, n)
          BY <4>1 DEF Answers
        <4>3. \A i \in answer[r].told : answer[r].states[i].n <= m BY <3>3, <3>5
        <4> QED BY <3>6, <3>7, <4>2, <4>3
      <3>9. Watched(obs', r, m, now)
        <4>1. PICK x \in shown' : x.replica = r /\ x.state.n = m BY <3>6
        <4>2. PICK v \in obs'.views : v.replica = r /\ v.latest.n >= m
          BY <1>10, <4>1 DEF Holds, Accounted
        <4>3. v.progress <= now BY <1>10 DEF Holds, ComesFrom
        <4> QED BY <4>2, <4>3 DEF Watched
      <3> QED BY <2>1, <3>1, <3>6, <3>8, <3>9
    <2> QED BY <2>2, <2>3
  <1>15. Holds(obs, shown, now)' BY <1>2, <1>10
  <1> QED BY <1>8, <1>9, <1>11, <1>12, <1>13, <1>14, <1>15 DEF RunInv

\* A step that is not a poll: a log that is not lost keeps its states, and a
\* replica that was seen and does something is no longer idle.
LEMMA OtherStep ==
    ASSUME ChainInv, RunInv, RingInv', UNCHANGED <<cursor, obs, shown>>,
           now' \in Nat, now <= now', idle' \in [Replicas -> Nat],
           \A q \in Replicas : Len(log'[q]) <= MaxLog,
           \A q \in Steady : log'[q] = log[q] \/ \E c \in Entries : log'[q] = Append(log[q], c),
           \A q \in Replicas :
              \/ idle'[q] = Never
              \/ idle'[q] = idle[q] /\ \A m \in Nat : Covers(q, m) => Covers(q, m)'
    PROVE  RunInv'
  <1>1. /\ RunTypes /\ RingInv /\ Holds(obs, shown, now)
        /\ ShownInv /\ CursorInv /\ BoundaryInv /\ IdleInv
    BY DEF RunInv
  <1>2. /\ now \in Nat /\ cursor \in [Replicas -> States] /\ shown \subseteq Samples
        /\ \A r \in Replicas : log[r] \in Seq(Entries)
    BY <1>1 DEF RunTypes, ChainInv, ChainTypes
  <1>3. RunTypes' BY <1>1 DEF RunTypes
  <1>4. Holds(obs, shown, now)'
    <2>1. \A v \in obs.views : v.progress \in Nat /\ v.progress <= now
      BY <1>1 DEF Holds, ComesFrom
    <2>2. \A v \in obs.views : v.progress <= now' BY <1>2, <2>1
    <2> QED BY <1>1, <2>2 DEF Holds, ComesFrom, Accounted
  \* What is a state of the chain of a replica that keeps its log remains one.
  <1>5. ASSUME NEW q \in Steady, NEW s \in States, OfChain(s, log[q])
        PROVE  OfChain(s, log'[q]) /\ StateOf(log'[q], s.n) = StateOf(log[q], s.n)
    <2>1. q \in Replicas /\ log[q] \in Seq(Entries) /\ s.n \in Nat
      BY <1>2 DEF Steady, States
    <2>2. CASE log'[q] = log[q]
      BY <1>5, <2>2
    <2>3. ASSUME NEW c \in Entries, log'[q] = Append(log[q], c)
          PROVE  OfChain(s, log'[q]) /\ StateOf(log'[q], s.n) = StateOf(log[q], s.n)
      <3>1. s.n <= Len(log[q]) /\ s = StateOf(log[q], s.n) BY <1>5 DEF OfChain
      <3>2. StateOf(Append(log[q], c), s.n) = StateOf(log[q], s.n) BY <2>1, <3>1, PrefixKept
      <3>3. Len(Append(log[q], c)) = Len(log[q]) + 1 /\ Len(log[q]) \in Nat BY <2>1
      <3> QED BY <2>1, <2>3, <3>1, <3>2, <3>3 DEF OfChain
    <2> QED BY <2>2, <2>3
  <1>6. ShownInv'
    <2> SUFFICES ASSUME NEW x \in shown, x.replica \in Steady
                 PROVE  OfChain(x.state, log'[x.replica])
      BY DEF ShownInv
    <2>1. x.state \in States /\ OfChain(x.state, log[x.replica])
      BY <1>1, <1>2 DEF ShownInv, Samples
    <2> QED BY <1>5, <2>1
  <1>7. CursorInv' BY <1>1 DEF CursorInv
  <1>8. BoundaryInv'
    <2> SUFFICES ASSUME Source # "frontier", NEW r \in Steady, Len(log'[r]) <= Ring * Spacing,
                        NEW n \in 1..cursor[r].n, Boundary(n)
                 PROVE  [replica |-> r, state |-> StateOf(log'[r], n)] \in shown
      BY DEF BoundaryInv
    <2>1. r \in Replicas /\ log[r] \in Seq(Entries) /\ cursor[r].n \in Nat
      BY <1>2 DEF Steady, States
    <2>2. n \in Nat /\ n <= Len(log[r])
      <3>1. cursor[r].n <= Len(log[r]) BY <1>1, CursorOfChain DEF OfChain
      <3>2. Len(log[r]) \in Nat BY <2>1
      <3> QED BY <2>1, <3>1, <3>2
    <2>3. StateOf(log'[r], n) = StateOf(log[r], n) /\ Len(log[r]) <= Ring * Spacing
      <3>0. Ring * Spacing \in Nat
        BY ConformanceAssumption DEF ConstantsOK, ChainConstantsOK, Spacing
      <3>1. CASE log'[r] = log[r]
        BY <3>1
      <3>2. ASSUME NEW c \in Entries, log'[r] = Append(log[r], c)
            PROVE  StateOf(log'[r], n) = StateOf(log[r], n) /\ Len(log[r]) <= Ring * Spacing
        <4>1. StateOf(Append(log[r], c), n) = StateOf(log[r], n) BY <2>1, <2>2, PrefixKept
        <4>2. Len(Append(log[r], c)) = Len(log[r]) + 1 /\ Len(log[r]) \in Nat BY <2>1
        <4> QED BY <3>0, <3>2, <4>1, <4>2
      <3> QED BY <3>1, <3>2
    <2> QED BY <1>1, <2>3 DEF BoundaryInv
  <1>9. IdleInv'
    <2> SUFFICES ASSUME NEW q \in Replicas, idle'[q] # Never
                 PROVE  \E m \in Nat : Covers(q, m)' /\ Watched(obs, q, m, idle'[q])
      BY DEF IdleInv
    <2>1. idle'[q] = idle[q] /\ \A m \in Nat : Covers(q, m) => Covers(q, m)' OBVIOUS
    <2> QED BY <1>1, <2>1 DEF IdleInv
  <1> QED BY <1>3, <1>4, <1>6, <1>7, <1>8, <1>9 DEF RunInv

LEMMA RunStep ==
    ASSUME ChainInv, ChainInv', RunInv, [Next]_vars
    PROVE  RunInv'
  <1>1. ChainTypes /\ ChainStep /\ RunTypes /\ RingInv
    BY ChainSteps DEF ChainInv, RunInv
  <1>2. RingInv' BY <1>1, RingStep
  <1>3. /\ log \in [Replicas -> Seq(Entries)] /\ up \subseteq Replicas
        /\ frontier \in [Replicas -> States] /\ table \in [Replicas -> Seq(States)]
        /\ now \in Nat /\ idle \in [Replicas -> Nat]
        /\ \A q \in Replicas : Len(log[q]) <= MaxLog /\ Len(log[q]) \in Nat
    <2>1. log \in [Replicas -> Seq(Entries)] BY <1>1 DEF ChainTypes
    <2>2. \A q \in Replicas : Len(log[q]) \in Nat BY <2>1
    <2> QED BY <1>1, <2>1, <2>2 DEF ChainTypes, RunTypes
  <1>4. Never \in Nat /\ MaxLog \in Nat
    BY ConformanceAssumption DEF ConstantsOK, ChainConstantsOK, Never
  \* Only replica r changes, and it is no longer idle.
  <1>5. ASSUME NEW r \in Replicas, UNCHANGED <<cursor, obs, shown, now>>, Busy(r),
               \A q \in Replicas \ {r} : Same(q), Len(log'[r]) <= MaxLog,
               log'[r] = log[r] \/ \E c \in Entries : log'[r] = Append(log[r], c)
        PROVE  RunInv'
    <2>1. idle' \in [Replicas -> Nat] /\ idle'[r] = Never
          /\ \A q \in Replicas \ {r} : idle'[q] = idle[q]
      BY <1>3, <1>4, <1>5 DEF Busy
    <2>2. \A q \in Replicas : Len(log'[q]) <= MaxLog BY <1>3, <1>5 DEF Same
    <2>3. \A q \in Steady : log'[q] = log[q] \/ \E c \in Entries : log'[q] = Append(log[q], c)
      BY <1>5 DEF Same, Steady
    <2>4. \A q \in Replicas \ {r} : \A m \in Nat : Covers(q, m) => Covers(q, m)'
      BY <1>5 DEF Same, Covers
    <2>5. now' \in Nat /\ now <= now' BY <1>3, <1>5
    <2> QED BY <1>2, <1>5, <2>1, <2>2, <2>3, <2>4, <2>5, OtherStep
  \* No replica does anything.
  <1>6. ASSUME UNCHANGED <<log, frontier, table, cursor, obs, shown, idle>>,
               now' \in Nat, now <= now'
        PROVE  RunInv'
    <2>1. \A q \in Replicas : \A m \in Nat : Covers(q, m) => Covers(q, m)' BY <1>6 DEF Covers
    <2>2. idle' \in [Replicas -> Nat] /\ \A q \in Replicas : Len(log'[q]) <= MaxLog
      BY <1>3, <1>6
    <2>3. \A q \in Steady : log'[q] = log[q] \/ \E c \in Entries : log'[q] = Append(log[q], c)
      BY <1>6
    <2> QED BY <1>2, <1>6, <2>1, <2>2, <2>3, OtherStep
  <1>7. CASE Submit \/ Decide
    <2>1. UNCHANGED <<log, frontier, table, cursor, obs, shown, idle, now>>
      BY <1>7 DEF Submit, Decide, chainVars, foldVars
    <2> QED BY <1>3, <1>6, <2>1
  <1>8. CASE Tick
    <2>1. UNCHANGED <<log, frontier, table, cursor, obs, shown, idle>> /\ now' = now + 1
      BY <1>8 DEF Tick, chainVars, foldVars
    <2> QED BY <1>3, <1>6, <2>1
  <1>9. CASE UNCHANGED vars
    <2>1. UNCHANGED <<log, frontier, table, cursor, obs, shown, idle, now>>
      BY <1>9 DEF vars, runVars, chainVars, foldVars
    <2> QED BY <1>3, <1>6, <2>1
  <1>10. ASSUME NEW r \in Replicas, ApplyDecided(r) \/ ApplyOwn(r) PROVE RunInv'
    <2>1. PICK c \in Entries : ApplyCommand(r, c)
      <3>1. CASE ApplyDecided(r)
        <4>1. Len(log[r]) < Len(decided) /\ ApplyCommand(r, decided[Len(log[r]) + 1])
          BY <3>1 DEF ApplyDecided
        <4>2. decided \in Seq(Entries) BY <1>1 DEF ChainTypes
        <4>3. decided[Len(log[r]) + 1] \in Entries BY <1>3, <4>1, <4>2
        <4> QED BY <4>1, <4>3
      <3>2. CASE ApplyOwn(r)
        BY <3>2 DEF ApplyOwn, Entries
      <3> QED BY <1>10, <3>1, <3>2
    <2>2. /\ Len(log[r]) < MaxLog /\ log' = [log EXCEPT ![r] = Append(@, c)]
          /\ UNCHANGED <<folder, frontier, table, truncated>>
      BY <2>1 DEF ApplyCommand, foldVars
    <2>3. log'[r] = Append(log[r], c) /\ \A q \in Replicas \ {r} : log'[q] = log[q]
      BY <1>3, <2>2
    <2>4. Len(log'[r]) <= MaxLog
      <3>1. log[r] \in Seq(Entries) BY <1>3
      <3>2. Len(Append(log[r], c)) = Len(log[r]) + 1 BY <3>1
      <3> QED BY <1>3, <1>4, <2>2, <2>3, <3>2
    <2>5. \A q \in Replicas \ {r} : Same(q) BY <2>2, <2>3 DEF Same
    <2>6. UNCHANGED <<cursor, obs, shown, now>> /\ Busy(r)
      BY <1>10 DEF ApplyDecided, ApplyOwn
    <2> QED BY <1>5, <2>3, <2>4, <2>5, <2>6
  <1>11. ASSUME NEW r \in Replicas, Hook(r) PROVE RunInv'
    <2>1. HookStep(r) /\ UNCHANGED <<cursor, obs, shown, now>> /\ Busy(r) BY <1>11 DEF Hook
    <2>2. log' = log
      BY <2>1 DEF HookStep, BeginFold, FoldOne, EndFold
    <2>3. \A q \in Replicas \ {r} : Same(q)
      <3>1. CASE BeginFold(r)
        BY <2>2, <3>1 DEF BeginFold, Same
      <3>2. CASE FoldOne(r)
        <4>0. /\ folder \in [Replicas -> States] /\ truncated \in [Replicas -> BOOLEAN]
          BY <1>1 DEF ChainTypes
        <4>1. /\ frontier' = frontier
              /\ \A q \in Replicas \ {r} : folder'[q] = folder[q]
          BY <3>2, <4>0 DEF FoldOne
        <4>2. \/ UNCHANGED <<table, truncated>>
              \/ \E t, e : table' = [table EXCEPT ![r] = t] /\ truncated' = [truncated EXCEPT ![r] = e]
          BY <3>2 DEF FoldOne
        <4>3. \A q \in Replicas \ {r} : table'[q] = table[q] /\ truncated'[q] = truncated[q]
          BY <1>3, <4>0, <4>2
        <4> QED BY <2>2, <4>1, <4>3 DEF Same
      <3>3. CASE EndFold(r)
        <4>1. /\ UNCHANGED <<log, folder, table, truncated>>
              /\ \A q \in Replicas \ {r} : frontier'[q] = frontier[q]
          BY <1>3, <3>3 DEF EndFold
        <4> QED BY <4>1 DEF Same
      <3> QED BY <2>1, <3>1, <3>2, <3>3 DEF HookStep
    <2>4. Len(log'[r]) <= MaxLog BY <1>3, <2>2
    <2> QED BY <1>5, <2>1, <2>2, <2>3, <2>4
  <1>12. ASSUME NEW r \in Replicas, StopReplica(r) PROVE RunInv'
    <2>1. UNCHANGED <<log, frontier, table, cursor, obs, shown, idle, now>>
      BY <1>12 DEF StopReplica, Stop, foldVars
    <2> QED BY <1>3, <1>6, <2>1
  <1>13. ASSUME NEW r \in Replicas, StartReplica(r) PROVE RunInv'
    <2>1. UNCHANGED <<log, cursor, obs, shown, now, idle>>
      BY <1>13 DEF StartReplica, Start, runVars
    <2>2. CASE Source # "chain"
      <3>1. UNCHANGED <<frontier, table>> BY <1>13, <2>2 DEF StartReplica, foldVars
      <3> QED BY <1>3, <1>6, <2>1, <3>1
    <2>3. CASE Source = "chain"
      <3>1. /\ frontier' = [frontier EXCEPT ![r] = Genesis] /\ table' = [table EXCEPT ![r] = <<>>]
        BY <1>13, <2>3 DEF StartReplica, Start
      <3>2. \A q \in Replicas \ {r} : frontier'[q] = frontier[q] /\ table'[q] = table[q]
        BY <1>3, <3>1
      <3>3. frontier'[r].n = 0 /\ 1..Len(table'[r]) = {} BY <1>3, <3>1 DEF Genesis
      <3>4. ASSUME NEW q \in Replicas, NEW m \in Nat, Covers(q, m) PROVE Covers(q, m)'
        <4>1. CASE q = r
          <5>1. frontier'[q].n <= m /\ \A i \in 1..Len(table'[q]) : table'[q][i].n <= m
            BY <3>3, <4>1
          <5> QED BY <2>3, <5>1 DEF Covers
        <4>2. CASE q # r
          BY <2>1, <3>2, <3>4, <4>2 DEF Covers
        <4> QED BY <4>1, <4>2
      <3>5. now' \in Nat /\ now <= now' /\ idle' \in [Replicas -> Nat]
            /\ \A q \in Replicas : Len(log'[q]) <= MaxLog
        BY <1>3, <2>1
      <3> QED BY <1>2, <2>1, <3>4, <3>5, OtherStep
    <2> QED BY <2>2, <2>3
  <1>14. ASSUME NEW r \in Replicas, LoseLog(r) PROVE RunInv'
    <2>1. /\ r \in Forgetful /\ log' = [log EXCEPT ![r] = <<>>]
          /\ UNCHANGED <<frontier, table, cursor, obs, shown, idle, now>>
      BY <1>14 DEF LoseLog, foldVars
    <2>2. log'[r] = <<>> /\ \A q \in Replicas \ {r} : log'[q] = log[q] BY <1>3, <2>1
    <2>3. \A q \in Replicas : Len(log'[q]) <= MaxLog BY <1>3, <1>4, <2>2
    <2>4. \A q \in Steady : log'[q] = log[q] BY <2>1, <2>2 DEF Steady
    <2>5. ASSUME NEW q \in Replicas, NEW m \in Nat, Covers(q, m) PROVE Covers(q, m)'
      <3>1. CASE q = r
        <4>1. Len(log'[q]) <= m BY <2>2, <3>1
        <4> QED BY <2>1, <2>5, <4>1 DEF Covers
      <3>2. CASE q # r
        BY <2>1, <2>2, <2>5, <3>2 DEF Covers
      <3> QED BY <3>1, <3>2
    <2>6. now' \in Nat /\ now <= now' /\ idle' \in [Replicas -> Nat] BY <1>3, <2>1
    <2> QED BY <1>2, <2>1, <2>3, <2>4, <2>5, <2>6, OtherStep
  <1>15. ASSUME NEW r \in Replicas, PollNode(r) PROVE RunInv'
    <2> DEFINE answer == [q \in {r} |-> FromChain(q)]
    <2>1. /\ Source = "chain" /\ r \in up /\ Answered({r}, answer)
          /\ UNCHANGED <<chainVars, now>>
      BY <1>15 DEF PollNode
    <2>2. Answers(r, FromChain(r)) BY <1>1, <2>1, ChainAnswers
    <2>3. \A q \in {r} : Answers(q, answer[q]) BY <2>2
    <2> HIDE DEF answer
    <2> QED BY <2>1, <2>3, PollStep
  <1>16. CASE PollAll
    <2> DEFINE answer == [q \in Replicas |-> FromLog(q)]
    <2>1. /\ Source # "chain" /\ Answered(Replicas, answer)
          /\ UNCHANGED <<chainVars, now>>
      BY <1>16 DEF PollAll
    <2>2. \A q \in Replicas : Answers(q, FromLog(q)) BY <2>1, LogAnswers DEF RunInv
    <2>3. \A q \in Replicas : Answers(q, answer[q]) BY <2>2
    <2> HIDE DEF answer
    <2> QED BY <2>1, <2>3, PollStep
  <1> QED BY <1>7, <1>8, <1>9, <1>10, <1>11, <1>12, <1>13, <1>14, <1>15, <1>16 DEF Next

LEMMA RunInductive == Spec => [](ChainInv /\ RunInv)
  <1>1. Init /\ ChainInv => RunInv
    <2> SUFFICES ASSUME Init, ChainInv PROVE RunInv
      OBVIOUS
    <2>1. Genesis \in States /\ MaxLog \in Nat /\ Never \in Nat /\ Spacing \in Nat
      BY ConformanceAssumption
      DEF Genesis, States, Never, ConstantsOK, ChainConstantsOK, Spacing
    <2>2. /\ now = 0 /\ shown = {} /\ obs = NewObserver
          /\ cursor = [r \in Replicas |-> Genesis] /\ idle = [r \in Replicas |-> Never]
          /\ log = [r \in Replicas |-> <<>>] /\ up = Replicas
          /\ folder = [r \in Replicas |-> Genesis] /\ table = [r \in Replicas |-> <<>>]
          /\ truncated = [r \in Replicas |-> FALSE]
      BY DEF Init, ChainInit
    <2>3. \A r \in Replicas : Len(log[r]) = 0 /\ cursor[r] = Genesis /\ idle[r] = Never BY <2>2
    <2>4. RunTypes BY <2>1, <2>2, <2>3 DEF RunTypes
    <2>5. RingInv
      <3>1. Len(<<>>) * Spacing = 0 /\ Genesis.n = 0 BY <2>1 DEF Genesis
      <3> QED BY <2>2, <3>1 DEF RingInv
    <2>6. Holds(obs, shown, now) BY <2>2 DEF NewObserver, Holds, ComesFrom
    <2>7. ShownInv /\ CursorInv /\ IdleInv BY <2>2, <2>3 DEF ShownInv, CursorInv, IdleInv
    <2>8. BoundaryInv
      <3>1. 1..Genesis.n = {} BY DEF Genesis
      <3> QED BY <2>3, <3>1 DEF BoundaryInv, Steady
    <2> QED BY <2>4, <2>5, <2>6, <2>7, <2>8 DEF RunInv
  <1>2. ChainInv /\ ChainInv' /\ RunInv /\ [Next]_vars => RunInv' BY RunStep
  <1> QED BY <1>1, <1>2, ChainInductive, PTL DEF Spec

\* What is seen of the chain is compared, so two replicas whose chains differ
\* where both were seen have been caught.
LEMMA Caught ==
    ASSUME RunInv, NEW p \in Steady, NEW q \in Steady, NEW n \in Nat,
           [replica |-> p, state |-> StateOf(log[p], n)] \in shown,
           [replica |-> q, state |-> StateOf(log[q], n)] \in shown,
           StateOf(log[p], n) # StateOf(log[q], n)
    PROVE  \E d \in obs.divergences : d.n = n
  <1> SUFFICES ASSUME ~ \E d \in obs.divergences : d.n = n PROVE FALSE
    OBVIOUS
  <1>1. Holds(obs, shown, now) /\ ShownInv BY DEF RunInv
  <1>2. ASSUME NEW r \in Steady, [replica |-> r, state |-> StateOf(log[r], n)] \in shown
        PROVE  \E w \in obs.witnesses : w.n = n /\ w.h = StateOf(log[r], n).h
    <2> DEFINE x == [replica |-> r, state |-> StateOf(log[r], n)]
    <2>1. x \in shown /\ x.replica = r /\ x.state = StateOf(log[r], n) /\ x.state.n = n
      BY <1>2 DEF StateOf
    <2> HIDE DEF x
    <2>2. PICK w \in obs.witnesses : w.n = n /\ (w.h = x.state.h \/ w.replica = r)
      BY <1>1, <2>1 DEF Holds, Accounted
    <2>3. PICK y \in shown : y.replica = w.replica /\ y.state.n = n /\ y.state.h = w.h
      BY <1>1, <2>2 DEF Holds, ComesFrom
    <2>4. w.replica = r => y.state = StateOf(log[r], n)
      BY <1>1, <2>3 DEF ShownInv, OfChain
    <2> QED BY <2>1, <2>2, <2>3, <2>4
  <1>3. PICK v \in obs.witnesses : v.n = n /\ v.h = StateOf(log[p], n).h BY <1>2
  <1>4. PICK w \in obs.witnesses : w.n = n /\ w.h = StateOf(log[q], n).h BY <1>2
  <1>5. v = w BY <1>1, <1>3, <1>4 DEF Holds, ComesFrom
  <1>6. StateOf(log[p], n).h = StateOf(log[q], n).h BY <1>3, <1>4, <1>5
  <1> QED BY <1>6 DEF StateOf

\* The observer's verdict is exact: what it records about replicas that keep
\* their log is a divergence of their logs, none escapes the checkpoints both
\* were polled past, and a replica that does nothing while another is ahead is
\* reported, however polls, passes, restarts and lost logs are interleaved
\* (observer.rs, Observer::observe and stalls; source.rs, samples_from_chain).
THEOREM ObserverIsExact == Spec => []VerdictIsExact
  <1>1. ASSUME ChainInv, RunInv PROVE NoFalseAlarm
    <2> SUFFICES ASSUME NEW d \in obs.divergences, d.first \in Steady, d.other \in Steady
                 PROVE  StateOf(log[d.first], d.n) # StateOf(log[d.other], d.n)
      BY DEF NoFalseAlarm
    <2>1. Holds(obs, shown, now) /\ ShownInv BY <1>1 DEF RunInv
    <2>2. PICK x \in shown, y \in shown :
            /\ x.replica = d.first /\ x.state.n = d.n /\ x.state.h = d.firstH
            /\ y.replica = d.other /\ y.state.n = d.n /\ y.state.h = d.otherH
      BY <2>1 DEF Holds, ComesFrom
    <2>3. d.firstH # d.otherH BY <2>1 DEF Holds, ComesFrom
    <2>4. x.state = StateOf(log[d.first], d.n) /\ y.state = StateOf(log[d.other], d.n)
      BY <2>1, <2>2 DEF ShownInv, OfChain
    <2> QED BY <2>2, <2>3, <2>4
  <1>2. ASSUME ChainInv, RunInv PROVE DivergenceIsFound
    <2> SUFFICES ASSUME Source # "frontier", NEW p \in Steady, NEW q \in Steady,
                        NEW n \in Shared(p, q), Len(log[p]) <= Ring * Spacing,
                        Len(log[q]) <= Ring * Spacing,
                        StateOf(log[p], n) # StateOf(log[q], n)
                 PROVE  \E d \in obs.divergences : d.n = n
      BY DEF DivergenceIsFound
    <2>1. BoundaryInv /\ RunTypes BY <1>2 DEF RunInv
    <2>2. cursor[p].n \in Nat /\ cursor[q].n \in Nat
      BY <2>1 DEF RunTypes, States, Steady
    <2>3. /\ Boundary(n) /\ n <= cursor[p].n /\ n <= cursor[q].n
          /\ n \in 1..Min({Len(log[p]), Len(log[q])})
      BY DEF Shared
    <2>4. n \in Nat /\ n >= 1
      <3>1. \A a : n \in 1..a => n \in Int /\ n >= 1 OBVIOUS
      <3> QED BY <2>3, <3>1
    <2>5. n \in 1..cursor[p].n /\ n \in 1..cursor[q].n BY <2>2, <2>3, <2>4
    <2>6. /\ [replica |-> p, state |-> StateOf(log[p], n)] \in shown
          /\ [replica |-> q, state |-> StateOf(log[q], n)] \in shown
      BY <2>1, <2>3, <2>5 DEF BoundaryInv
    <2> QED BY <1>2, <2>4, <2>6, Caught
  <1>3. ASSUME ChainInv, RunInv PROVE StallIsReported
    <2> SUFFICES ASSUME NEW r \in Steady, idle[r] # Never, now - idle[r] > Budget,
                        Len(log[r]) < ClusterFrontier(obs)
                 PROVE  r \in Stalls(obs, now, Budget)
      BY DEF StallIsReported
    <2>1. Holds(obs, shown, now) /\ ShownInv /\ RunTypes /\ IdleInv BY <1>3 DEF RunInv
    <2>2. /\ r \in Replicas /\ now \in Nat /\ idle[r] \in Nat /\ shown \subseteq Samples
          /\ Budget \in Nat /\ MaxLog \in Nat /\ log[r] \in Seq(Entries)
      BY <1>3, <2>1, ConformanceAssumption
      DEF RunTypes, Steady, ConstantsOK, ChainConstantsOK, ChainInv, ChainTypes
    <2>3. PICK m \in Nat : Watched(obs, r, m, idle[r]) BY <2>1, <2>2 DEF IdleInv
    <2>4. PICK v \in obs.views : v.replica = r /\ v.progress <= idle[r] BY <2>3 DEF Watched
    <2>5. PICK x \in shown : x.replica = r /\ x.state = v.latest /\ v.progress \in Nat
      BY <2>1, <2>4 DEF Holds, ComesFrom
    <2>6. v.latest.n <= Len(log[r]) /\ v.latest.n \in Nat
      BY <2>1, <2>2, <2>5 DEF ShownInv, OfChain, Samples, States
    <2>7. ClusterFrontier(obs) \in Nat
      <3> DEFINE H == {0} \cup {u.latest.n : u \in obs.views}
      <3>1. ASSUME NEW u \in obs.views PROVE u.latest.n \in 0..MaxLog
        <4>1. PICK y \in shown : y.state = u.latest BY <2>1 DEF Holds, ComesFrom
        <4>2. y.state.n \in Nat /\ y.state.n <= MaxLog
          BY <2>1, <2>2 DEF RunTypes, Samples, States
        <4> QED BY <2>2, <4>1, <4>2
      <3>2. H \subseteq 0..MaxLog /\ H # {} BY <2>2, <3>1
      <3>3. ClusterFrontier(obs) = Max(H) BY DEF ClusterFrontier
      <3> HIDE DEF H
      <3>4. Max(H) \in H BY <2>2, <3>2, GreatestOne
      <3>5. Max(H) \in 0..MaxLog BY <3>2, <3>4
      <3>6. ClusterFrontier(obs) \in 0..MaxLog BY <3>3, <3>5
      <3> QED BY <2>2, <3>6
    <2>8. v.latest.n < ClusterFrontier(obs)
      <3>1. Len(log[r]) \in Nat BY <2>2
      <3> QED BY <2>6, <2>7, <3>1
    <2>9. now - v.progress > Budget BY <2>2, <2>4, <2>5
    <2> QED BY <2>4, <2>8, <2>9 DEF Stalls
  <1>4. ChainInv /\ RunInv => VerdictIsExact BY <1>1, <1>2, <1>3 DEF VerdictIsExact
  <1> QED BY <1>4, RunInductive, PTL
=============================================================================
