-------------------------- MODULE PixarcValidation --------------------------
(***************************************************************************)
(* validate_stage1 on the records of a run whose samples were instrumented  *)
(* (one of them here).  The issues are named by their codes, all that are   *)
(* found in records once these are collected; each of them blocks the run.  *)
(* Collecting, and its code record_collection, is PixarcSamples' subject.   *)
(***************************************************************************)
EXTENDS PixarcInstrument

Correctness(check) == {i \in DOMAIN correctness : correctness[i].check = check}
Risk(a) == {i \in DOMAIN risk : risk[i].action = a}

\* Counter: every expected key has a record, no key has two.  keys: of the records.
OnceEach(keys, expected) ==
    /\ \A key \in expected : \E i \in DOMAIN keys : keys[i] = key
    /\ \A i, j \in DOMAIN keys : keys[i] = keys[j] => i = j

StepsOf == 0 .. (cfg.steps - 1)
PlansOf == Values(cfg.plans)

FreshChecksComplete ==
    OnceEach([i \in Correctness("fresh_split_equivalence") |->
                <<correctness[i].step, correctness[i].branch>>],
             cfg.equivalence \X GuidedBranches)

ReplaysComplete ==
    OnceEach([i \in Correctness("replay_age_0") |-> <<correctness[i].step, correctness[i].plan>>],
             StepsOf \X PlansOf)

FreshRecordsComplete ==
    /\ OnceEach([i \in Risk("fresh") |-> risk[i].step], StepsOf)
    /\ \A i \in Risk("fresh") : risk[i].risk \in {"zero", None}

ActionsComplete ==
    \A a \in Values(cfg.actions) \ {"fresh"} :
      OnceEach([i \in Risk(a) |-> <<risk[i].step, risk[i].plan>>], StepsOf \X PlansOf)

UntilHasty(a) == 1        \* slip: a forecast is taken to need one earlier step
UnavailableUntil(a) == IF a = "reuse_age_1" THEN 1 ELSE 2

AvailabilityRight ==
    \A i \in UNION {Risk(a) : a \in Counterfactual} :
      /\ risk[i].ready <=> risk[i].step >= UnavailableUntil(risk[i].action)
      /\ ~risk[i].ready => risk[i].skip = "insufficient_history"

\* Asked for, a reuse must have been possible somewhere and have made a difference.
ReuseActions == {"reuse_age_1", "reuse_age_2"}
AskedForReuse == Values(cfg.actions) \cap ReuseActions # {}
ReuseSane ==
    AskedForReuse =>
      \E i \in UNION {Risk(a) : a \in ReuseActions} : risk[i].ready /\ risk[i].risk = "positive"

\* _find_nonfinite, over every record.
RecordsFinite ==
    /\ \A i \in DOMAIN risk : risk[i].risk \notin NotFinite
    /\ \A i \in DOMAIN correctness : correctness[i].finite

\* A ready record says that its candidate has the fresh form, a check that both
\* its sides have one.
FormsMatch ==
    /\ \A i \in DOMAIN risk : risk[i].ready => risk[i].form = "same"
    /\ \A i \in DOMAIN correctness : correctness[i].form = "same"

\* future_leakage_count, which the instrumenter always writes as 0.
LeakageCount == 0

Holds ==
    [ nonfinite |-> RecordsFinite,
      fresh_equivalence_completeness |-> FreshChecksComplete,
      fresh_equivalence |-> \A i \in Correctness("fresh_split_equivalence") : correctness[i].allclose,
      replay_completeness |-> ReplaysComplete,
      replay_age0 |-> \A i \in Correctness("replay_age_0") :
                        correctness[i].allclose /\ correctness[i].within,
      future_leakage |-> LeakageCount = 0,
      fresh_record_completeness |-> FreshRecordsComplete,
      action_completeness |-> ActionsComplete,
      action_availability |-> AvailabilityRight,
      shape_dtype |-> FormsMatch,
      candidate_sanity |-> ReuseSane,
      history_cleanup |-> leftover = 0 ]

Issues == {code \in DOMAIN Holds : ~Holds[code]}
Status == IF Issues = {} THEN "PASS" ELSE "BLOCK"

-----------------------------------------------------------------------------
(* Properties *)

Youngest == IF "reuse_age_1" \in Values(cfg.actions) THEN 1 ELSE 2

\* The validator blocks a finished sample for what was measured and never for
\* how its records were made: no record is missing, doubled, in the wrong place,
\* of another form than the validator asks of it or not finite.  It passes unless
\* a check did not come out close or no reuse was ever possible, or none made a
\* difference.  Another form can only be that of the model's own output, which
\* then is not close either.  Under --strict-correctness what still blocks is the
\* validator's own tolerance and what the reuse candidates came to.
BlocksOnlyMeasured ==
    at = "done" =>
      /\ Issues \subseteq {"fresh_equivalence", "shape_dtype", "replay_age0", "candidate_sanity"}
      /\ "shape_dtype" \in Issues => "fresh_equivalence" \in Issues
      /\ cfg.strict => Issues \subseteq {"replay_age0", "candidate_sanity"}
      /\ AskedForReuse /\ cfg.steps <= Youngest => "candidate_sanity" \in Issues
      /\ misses = 0 =>
           Issues = IF AskedForReuse /\ ~(cfg.moves /\ cfg.steps > Youngest)
                    THEN {"candidate_sanity"} ELSE {}
=============================================================================
