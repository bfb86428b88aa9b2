-------------------------------- MODULE Isr ---------------------------------
(***************************************************************************)
(* The interval summary register (crates/consensus/src/isr.rs), the whole  *)
(* state a recorder keeps for a slot, and the recorder's reply to one      *)
(* request (crates/consensus/src/recorder.rs).                             *)
(***************************************************************************)
EXTENDS Proposal

\* The register: the step it is in, the first proposal recorded in that
\* step, the maximum recorded in it so far, and the maximum recorded in the
\* step before it (Nil when that step was skipped).
Isrs == [step : Nat, first : OptProposals,
         current_agg : OptProposals, prior_agg : OptProposals]

\* Isr::new
NewIsr == [step |-> 0, first |-> Nil, current_agg |-> Nil, prior_agg |-> Nil]

\* Isr::record(s, v): a stale step is discarded, an equal one aggregates,
\* a newer one starts afresh and carries the aggregate over only from the
\* immediately preceding step.
Record(isr, s, v) ==
    CASE s < isr.step -> isr
      [] s = isr.step ->
            [isr EXCEPT !.current_agg = MaxOption(isr.current_agg, v)]
      [] s > isr.step ->
            [step        |-> s,
             first       |-> v,
             current_agg |-> v,
             prior_agg   |-> IF s = isr.step + 1 THEN isr.current_agg ELSE Nil]
=============================================================================
