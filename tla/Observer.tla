------------------------------ MODULE Observer ------------------------------
(***************************************************************************)
(* The Chain-of-Blocks observer (crates/conformance/src/observer.rs) as    *)
(* operators on its state: what it keeps of the samples it is shown, and   *)
(* the verdicts it gives.                                                  *)
(***************************************************************************)
EXTENDS Integers, Sequences, FiniteSets, FiniteSetsExt, Functions

Sample(replica, time, state) == [replica |-> replica, at |-> time, state |-> state]

\* Observer::new.  Views and witnesses are maps that grow; of the count of
\* comparisons it is kept whether there was one.
NewObserver == [witnesses |-> {}, views |-> {}, divergences |-> {}, compared |-> FALSE]

Witness(obs, n) == {w \in obs.witnesses : w.n = n}
View(obs, r)    == {v \in obs.views : v.replica = r}

\* Only another replica's hash is evidence.
Compared(obs, s) == {w \in Witness(obs, s.state.n) : w.replica # s.replica}

\* The first disagreement of a replica at a height is kept.
Found(obs, s) ==
    {[n |-> s.state.n, first |-> w.replica, firstH |-> w.h,
      other |-> s.replica, otherH |-> s.state.h, at |-> s.at] :
        w \in {x \in Compared(obs, s) : x.h # s.state.h
                 /\ ~ \E d \in obs.divergences : d.n = s.state.n /\ d.other = s.replica}}

NextViews(obs, s) ==
    LET old == View(obs, s.replica)
        new == [replica |-> s.replica, latest |-> s.state, progress |-> s.at]
    IN  IF old = {} THEN obs.views \cup {new}
        ELSE IF \A v \in old : s.state.n > v.latest.n THEN (obs.views \ old) \cup {new}
        ELSE obs.views

\* Observer::observe.
Observe(obs, s) ==
    [witnesses |-> IF Witness(obs, s.state.n) # {} THEN obs.witnesses
                   ELSE obs.witnesses \cup {[n |-> s.state.n, replica |-> s.replica, h |-> s.state.h]},
     views |-> NextViews(obs, s),
     divergences |-> obs.divergences \cup Found(obs, s),
     compared |-> obs.compared \/ Compared(obs, s) # {}]

ClusterFrontier(obs) == Max({0} \cup {v.latest.n : v \in obs.views})

\* Observer::stalls.
Stalls(obs, now, budget) ==
    {v.replica : v \in {x \in obs.views : x.latest.n < ClusterFrontier(obs) /\ now - x.progress > budget}}
=============================================================================
