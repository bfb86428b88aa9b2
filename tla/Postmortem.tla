----------------------------- MODULE Postmortem -----------------------------
(***************************************************************************)
(* The adjudication of a preserved failure (crates/soak/src/postmortem.rs, *)
(* evidence.rs): replicas apply commands, make them durable and publish    *)
(* their chain; an observer compares what they show; a soak that found a   *)
(* divergence kills the cluster, keeps its snapshots and confronts the     *)
(* observer's claims with them.  Two things may have gone wrong, and the   *)
(* verdict has to tell them apart: a replica applied a command of its own, *)
(* or the way from the chain to the observer tore a pair (height, hash).   *)
(* A chain hash is the sequence it was computed from.                      *)
(***************************************************************************)
EXTENDS Observer, SequencesExt

CONSTANTS
    Replicas,
    MaxLog,         \* bound: commands applied by a replica
    MaxForks,       \* bound: commands applied against the cluster's decision
    MaxTears,       \* bound: samples whose hash belongs to another height
    MaxKills        \* bound: processes killed during the run

\* What the constants must satisfy.
PostmortemConstantsOK ==
    MaxLog \in Nat /\ MaxForks \in Nat /\ MaxTears \in Nat /\ MaxKills \in Nat
ASSUME PostmortemAssumption == PostmortemConstantsOK

VARIABLES
    log,            \* log[r]: applied, in memory
    snapshot,       \* snapshot[r]: {} or the log of its durable.bin
    published,      \* published[r]: the log its chain was folded over
    obs,            \* the observer
    torn,           \* the samples that were torn (history)
    over,           \* the run has ended and the processes are killed
    forks, killed   \* events so far, for the bounds

postmortemVars == <<log, snapshot, published, obs, torn, over, forks, killed>>

\* What the cluster decided at every slot, and what a faulty replica applies.
Decided == "decided"
Own     == "own"

PostmortemInit ==
    /\ log = [r \in Replicas |-> <<>>] /\ published = [r \in Replicas |-> <<>>]
    /\ snapshot = [r \in Replicas |-> {}]
    /\ obs = NewObserver /\ torn = {} /\ over = FALSE /\ forks = 0 /\ killed = 0

-----------------------------------------------------------------------------
(* The run.                                                                *)

Applied(r, c) ==
    /\ ~over /\ Len(log[r]) < MaxLog
    /\ log' = [log EXCEPT ![r] = Append(@, c)]
    /\ UNCHANGED <<snapshot, published, obs, torn, over, killed>>

Apply(r) == Applied(r, Decided) /\ UNCHANGED forks
Fork(r)  == Applied(r, Own) /\ forks < MaxForks /\ forks' = forks + 1

\* Store::save at the end of a batch.
Save(r) ==
    /\ ~over /\ snapshot[r] # {log[r]}
    /\ snapshot' = [snapshot EXCEPT ![r] = {log[r]}]
    /\ UNCHANGED <<log, published, obs, torn, over, forks, killed>>

\* The chain is folded after the batch has been made durable.
Folds(r) == snapshot[r] = {log[r]}

Publish(r) ==
    /\ ~over /\ published[r] # log[r] /\ Folds(r)
    /\ published' = [published EXCEPT ![r] = log[r]]
    /\ UNCHANGED <<log, snapshot, obs, torn, over, forks, killed>>

\* A process is killed and starts again from its snapshot, whose chain it
\* folds as it boots.
Kill(r) ==
    /\ ~over /\ killed < MaxKills /\ killed' = killed + 1
    /\ \E l \in IF snapshot[r] = {} THEN {<<>>} ELSE snapshot[r] :
        /\ log' = [log EXCEPT ![r] = l] /\ published' = [published EXCEPT ![r] = l]
    /\ UNCHANGED <<snapshot, obs, torn, over, forks>>

\* The observer is shown a height of r's chain with its hash, or torn with the
\* hash of another height.
Show(r, n, m) ==
    /\ ~over /\ (n # m => Cardinality(torn) < MaxTears)
    /\ obs' = Observe(obs, Sample(r, 0, [n |-> n, h |-> SubSeq(published[r], 1, m)]))
    /\ torn' = IF n = m THEN torn ELSE torn \cup {[replica |-> r, n |-> n, h |-> SubSeq(published[r], 1, m)]}
    /\ UNCHANGED <<log, snapshot, published, over, forks, killed>>

\* The run ends, RealCluster is dropped; a clean seed's directory is deleted
\* (retain_evidence), a failing one's is kept as it is.
End ==
    /\ ~over /\ over' = TRUE
    /\ snapshot' = IF obs.divergences = {} THEN [r \in Replicas |-> {}] ELSE snapshot
    /\ UNCHANGED <<log, published, obs, torn, forks, killed>>

PostmortemNext ==
    \/ End
    \/ \E r \in Replicas :
        \/ Apply(r) \/ Fork(r) \/ Save(r) \/ Publish(r) \/ Kill(r)
        \/ \E n, m \in 0..Len(published[r]) : Show(r, n, m)

PostmortemSpec == PostmortemInit /\ [][PostmortemNext]_postmortemVars

-----------------------------------------------------------------------------
(* The adjudication.                                                       *)

\* claims_from: both sides of every divergence, each once.
Sides(d) == {[replica |-> d.first, n |-> d.n, h |-> d.firstH],
             [replica |-> d.other, n |-> d.n, h |-> d.otherH]}
Claims == UNION {Sides(d) : d \in obs.divergences}

\* Mutant: the height is taken for a slot.
ThroughSlot(l, n) == IF n < Len(l) THEN {SubSeq(l, 1, n + 1)} ELSE {}

\* AppliedLog::chain_at: a shorter log has nothing to say.
ChainAt(l, n) == IF n <= Len(l) THEN {SubSeq(l, 1, n)} ELSE {}

\* Postmortem::check.
Check(c) ==
    IF snapshot[c.replica] = {} THEN "noLog"
    ELSE LET h == UNION {ChainAt(l, c.n) : l \in snapshot[c.replica]}
         IN  IF h = {} THEN "shortLog" ELSE IF h = {c.h} THEN "confirmed" ELSE "contradicted"

\* compare: the verdict on two logs; slots are counted from 0.
Compare(l, k) ==
    LET overlap == Min({Len(l), Len(k)})
        differ  == {i \in 1..overlap : l[i] # k[i]}
    IN  IF overlap = 0 THEN [verdict |-> "noOverlap"]
        ELSE IF differ = {} THEN [verdict |-> "agree"]
        ELSE [verdict |-> "differ", slot |-> Min(differ) - 1]

\* Postmortem::pairs; a replica is never compared with itself.
Pairs ==
    UNION {{Compare(l, k) : l \in snapshot[p[1]], k \in snapshot[p[2]]} :
            p \in {q \in Replicas \X Replicas : q[1] # q[2]}}

Differing == {v.slot : v \in {w \in Pairs : w.verdict = "differ"}}

\* Postmortem::disputed_slot, as the set of at most one choice.
DisputedSlot ==
    IF Differing # {} THEN {[slot |-> Min(Differing), why |-> "earliestDivergence"]}
    ELSE IF Claims = {} THEN {}
    ELSE {[slot |-> Min({IF c.n = 0 THEN 0 ELSE c.n - 1 : c \in Claims}), why |-> "observerClaim"]}

\* The exit code of queso-postmortem.
Verdict == IF Differing # {} THEN 1 ELSE IF \E v \in Pairs : v.verdict = "agree" THEN 0 ELSE 2

-----------------------------------------------------------------------------
\* A divergence between replicas that were both reported faithfully is always
\* proved by the snapshots: both claims are confirmed, the logs are found to
\* disagree, and the slot named is one the observer's height covers.  It rests
\* on the driver publishing only what is durable, through every kill.
RealDivergenceIsProved ==
    over => \A d \in obs.divergences :
        Sides(d) \cap torn = {} =>
            /\ Verdict = 1
            /\ \A c \in Sides(d) : Check(c) = "confirmed"
            /\ \E x \in DisputedSlot : x.why = "earliestDivergence" /\ x.slot < d.n

\* Only a claim that was torn is contradicted: "this sample did not come from
\* the log" never blames a replica that was reported faithfully.
OnlyTornIsContradicted ==
    over => \A c \in Claims : Check(c) = "contradicted" => c \in torn

\* When the logs agree wherever they overlap, every divergence involves a torn
\* sample ("came from the observability path"); and when no replica applied a
\* command of its own the verdict is never that the logs disagree.
VerdictTellsThemApart ==
    over => /\ Verdict # 1 => \A d \in obs.divergences : Sides(d) \cap torn # {}
            /\ forks = 0 => Verdict # 1

\* The postmortem contradicts only torn samples, proves every divergence of the
\* logs, and tells the two apart (postmortem.rs).
AdjudicationIsSound ==
    OnlyTornIsContradicted /\ RealDivergenceIsProved /\ VerdictTellsThemApart
=============================================================================
