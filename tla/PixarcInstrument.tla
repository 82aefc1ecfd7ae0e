-------------------------- MODULE PixarcInstrument --------------------------
(***************************************************************************)
(* One sample of a PixARC stage-1 measurement (instrument_sample).  Every   *)
(* sampling step is computed in full; beside it the code evaluates what     *)
(* would have happened had a range of blocks been replaced by what it       *)
(* returned one or two steps ago, or by a Taylor forecast, and records it.  *)
(* The validator then looks at the records only.                            *)
(*                                                                          *)
(* Metrics are abstracted to what the checks ask of them; signals, latency  *)
(* and frequency bands are left out, nothing depends on them.               *)
(***************************************************************************)
EXTENDS PixarcBlocks, FiniteSets

CONSTANTS
    Configs,     \* resolved configurations, with the network they run on
    None,
    MaxMisses    \* bound: measurements of one sample that come out wrong

VARIABLES
    cfg,         \* the resolved configuration and the network
    at,          \* where instrument_sample is
    step,        \* step_idx
    plan,        \* index of the plan being worked on
    action,      \* index of the action tried last, or 0
    state,       \* the sampling state: its step, and the actions it came about by
    fresh,       \* JiTFreshStepCapture: boundary outputs, per branch and plan
    history,     \* JiTFreshBoundaryHistory, per branch and plan
    risk,        \* risk_records
    correctness, \* correctness_records
    candidate,   \* the counterfactual transition evaluated last
    leftover,    \* history_items_after_clear of the summary
    misses       \* measurements so far that came out wrong

vars == <<cfg, at, step, plan, action, state, fresh, history, risk, correctness,
          candidate, leftover, misses>>

-----------------------------------------------------------------------------
(* Configurations *)

Counterfactual == {"reuse_age_1", "reuse_age_2", "taylor_order_1"}
DefaultActions == {"fresh", "replay_age_0"} \cup Counterfactual

Values(s) == {s[i] : i \in DOMAIN s}
Unique(s) == Cardinality(Values(s)) = Len(s)

\* resolve_stage1_config and resolve_jit_boundary_plans.  `moves': whether the
\* outputs of the network change at all from step to step.
ConfigOK(c) ==
    /\ DOMAIN c = {"net", "steps", "plans", "actions", "equivalence", "strict", "moves"}
    /\ c.net \in Network /\ c.net.blocks >= 3
    /\ c.steps \in Nat \ {0}
    /\ c.plans \in Seq(PlanNames) /\ c.plans # <<>> /\ Unique(c.plans)
    /\ c.actions \in Seq(DefaultActions) /\ Unique(c.actions)
    /\ {"fresh", "replay_age_0"} \subseteq Values(c.actions)
    /\ c.equivalence \subseteq 0 .. (c.steps - 1) /\ c.equivalence # {}
    /\ c.strict \in BOOLEAN /\ c.moves \in BOOLEAN

ASSUME InstrumentAssumption == \A c \in Configs : ConfigOK(c)
ASSUME MissesAssumption == MaxMisses \in Nat

\* Differences that are no numbers.
NotFinite == {"nan", "inf"}
ASSUME NoneAssumption == None \notin NotFinite

Net == cfg.net
Plan == cfg.plans[plan]
Keys == GuidedBranches \X Values(cfg.plans)

-----------------------------------------------------------------------------
(* JiTFreshBoundaryHistory, of one sample *)

MaxHistory == 3

Item(s, hidden) == [step |-> s, output |-> hidden]
NoItems == [k \in Keys |-> <<>>]

\* append: refuses a step that does not increase; the deque drops the oldest.
AppendRaises(h, s) == h # <<>> /\ s <= h[Len(h)].step
Appended(h, item) == LET all == Append(h, item)
                     IN IF Len(all) > MaxHistory THEN Tail(all) ELSE all

SelectLatest(h, s, age) == {h[i] : i \in {Len(h)} \ {0}}    \* slip: whatever is newest
\* select_age: the item of exactly that step, if there is one.
SelectAge(h, s, age) == {h[i] : i \in {j \in DOMAIN h : h[j].step = s - age}}

\* latest_two: the last two items before step s, if there are two.
Past(h, s) == {i \in DOMAIN h : h[i].step < s}
LatestTwo(h, s) ==
    {<<h[p[1]], h[p[2]]>> : p \in {q \in Past(h, s) \X Past(h, s) :
        q[1] < q[2] /\ \A i \in Past(h, s) : i <= q[1] \/ i = q[2]}}

\* taylor_order_1: a linear combination of two outputs.
Blend(first, second) ==
    [branch |-> first.branch,
     ran |-> [i \in DOMAIN first.ran |->
                [block |-> first.ran[i].block,
                 steps |-> first.ran[i].steps \cup second.ran[i].steps]],
     context |-> first.context]

\* _replacement_for_action, for one branch: at most one hidden tensor.
Replacement(b, a) ==
    LET h == history[<<b, Plan>>]
    IN IF a = "taylor_order_1"
       THEN {Blend(pair[1].output, pair[2].output) : pair \in LatestTwo(h, step)}
       ELSE {item.output : item \in SelectAge(h, step, IF a = "reuse_age_1" THEN 1 ELSE 2)}

Age(a) == IF a = "reuse_age_1" THEN 1 ELSE IF a = "reuse_age_2" THEN 2 ELSE None

-----------------------------------------------------------------------------
(* instrument_sample *)

Start == [step |-> 0, by |-> {}]

\* An Euler step of the state, whose velocity came about by action a.
Moved(a) == [step |-> state.step + 1, by |-> state.by \cup {a}]

NothingTried == [action |-> None]

Init ==
    /\ cfg \in Configs
    /\ at = "capture" /\ step = 0 /\ plan = 1 /\ action = 0
    /\ state = Start /\ fresh = None /\ history = NoItems
    /\ risk = <<>> /\ correctness = <<>>
    /\ candidate = NothingTried /\ leftover = None /\ misses = 0

\* risk: "zero" or "positive", None where there is no candidate; form: whether
\* the candidate's output has the form of the fresh one.
RiskRecord(p, a, age, ready, value, form) ==
    [step |-> step, plan |-> p, action |-> a, age |-> age, ready |-> ready,
     skip |-> IF ready THEN None ELSE "insufficient_history", risk |-> value, form |-> form]

\* equivalence_metrics, as the two thresholds see it: allclose is the
\* instrumenter's, `within' the validator's; form: what differs before a value
\* does; finite: every difference is a number.
Outcome == [allclose : BOOLEAN, within : BOOLEAN, form : {"same", "shape", "dtype"},
            finite : BOOLEAN]
Close == [allclose |-> TRUE, within |-> TRUE, form |-> "same", finite |-> TRUE]

\* Another shape is written down as the largest float32, without comparing.
Measurable == {o \in Outcome : o.form = "shape" => ~o.allclose /\ ~o.within /\ o.finite}
Outcomes == IF misses < MaxMisses THEN Measurable ELSE {Close}
Missed(o) == misses' = misses + (IF o = Close THEN 0 ELSE 1)

\* tensor_scalar refuses what is not finite, allclose two types.
MetricsRaise(o) == ~o.finite \/ o.form = "dtype"

CorrectnessRecord(check, b, p, o) ==
    [step |-> step, check |-> check, branch |-> b, plan |-> p,
     allclose |-> o.allclose, within |-> o.within, form |-> o.form, finite |-> o.finite]

\* A risk is recorded behind nan_to_num.
NanToNum(v) == IF v = "nan" THEN "zero" ELSE IF v = "inf" THEN "positive" ELSE v

\* The whole step is computed, in both branches; a fresh risk record, unless the
\* norm of the fresh velocity is not finite, which ends the sample.
CaptureStep ==
    /\ at = "capture" /\ step < cfg.steps
    /\ ~\E b \in GuidedBranches : CaptureRaises(Net, b, step)
    /\ fresh' = [k \in Keys |-> FreshHidden(Net, k[1], EndBlock(k[2], Net.blocks), step)]
    /\ plan' = 1
    /\ \/ /\ risk' = Append(risk, RiskRecord("fresh", "fresh", None, TRUE, "zero", "same"))
          /\ at' = IF step \in cfg.equivalence THEN "cond" ELSE "replay"
          /\ UNCHANGED misses
       \/ /\ misses < MaxMisses /\ misses' = misses + 1
          /\ at' = "failed" /\ UNCHANGED risk
    /\ UNCHANGED <<cfg, step, action, state, history, correctness, candidate, leftover>>

\* A check: what was measured is recorded, unless that raises; a failed check
\* ends the sample if checks are strict.
Checked(check, b, p, o, next) ==
    /\ Missed(o)
    /\ correctness' = IF MetricsRaise(o) THEN correctness
                      ELSE Append(correctness, CorrectnessRecord(check, b, p, o))
    /\ at' = IF MetricsRaise(o) \/ (cfg.strict /\ ~o.allclose) THEN "failed" ELSE next

\* The split forward against the model's own, branch by branch.
CheckEquivalence ==
    /\ at \in GuidedBranches
    /\ \E o \in Outcomes :
         Checked("fresh_split_equivalence", at, None, o,
                 IF at = "cond" THEN "uncond" ELSE "replay")
    /\ UNCHANGED <<cfg, step, plan, action, state, fresh, history, risk, candidate, leftover>>

Tried(a, replacement) ==
    [action |-> a, plan |-> Plan, step |-> step,
     output |-> [b \in GuidedBranches |-> Candidate(Net, Plan, replacement[b], step)],
     next |-> Moved(a)]

SomeRaises(replacement) ==
    \E b \in GuidedBranches : CandidateRaises(Net, Plan, b, replacement[b], step)

FreshOutput(b) == FreshHidden(Net, b, Net.blocks, step)

\* Both branches' outputs enter the next state.
FormOfStep(tried) ==
    IF \A b \in GuidedBranches : FormOf(tried.output[b], FreshOutput(b)) = "same"
    THEN "same" ELSE "shape"

\* The replacement is what this very step computed; a correctness record and,
\* unless the check ends the sample, a risk record.
Replay ==
    LET replacement == [b \in GuidedBranches |-> fresh[<<b, Plan>>]]
        tried == Tried("replay_age_0", replacement)
    IN
    /\ at = "replay" /\ ~SomeRaises(replacement)
    /\ candidate' = tried
    /\ \E o \in Outcomes :
         /\ o.form = FormOfStep(tried)
         /\ Checked("replay_age_0", "cfg", Plan, o, "action")
         /\ risk' = IF at' = "failed" THEN risk
                    ELSE Append(risk, RiskRecord(Plan, "replay_age_0", 0, TRUE,
                                                 IF o = Close THEN "zero" ELSE "positive", o.form))
    /\ action' = 0
    /\ UNCHANGED <<cfg, step, plan, state, fresh, history, leftover>>

\* The requested actions beside fresh and replay, in their order: those left and
\* the first of them.
Left == {j \in DOMAIN cfg.actions : j > action /\ cfg.actions[j] \in Counterfactual}
Due == {j \in Left : at = "action" /\ \A k \in Left : j <= k}

Available(a) == \A b \in GuidedBranches : Replacement(b, a) # {}
Chosen(a) == [b \in GuidedBranches |-> CHOOSE h \in Replacement(b, a) : TRUE]

Unavailable ==
    \E j \in Due : LET a == cfg.actions[j] IN
      /\ ~Available(a)
      /\ risk' = Append(risk, RiskRecord(Plan, a, Age(a), FALSE, None, None))
      /\ action' = j
      /\ UNCHANGED <<cfg, at, step, plan, state, fresh, history, correctness, candidate,
                     leftover, misses>>

\* How far the candidate's transition is from the fresh one.
Distance == IF cfg.moves THEN "positive" ELSE "zero"

\* Whatever it came to, a candidate is recorded: a difference that is no number
\* as none at all.
Counterfact ==
    \E j \in Due : LET a == cfg.actions[j]
                       tried == Tried(a, Chosen(a))
                   IN
      /\ Available(a) /\ ~SomeRaises(Chosen(a))
      /\ candidate' = tried
      /\ \E v \in {Distance} \cup (IF misses < MaxMisses THEN NotFinite ELSE {}) :
           /\ risk' = Append(risk, RiskRecord(Plan, a, Age(a), TRUE, NanToNum(v), FormOfStep(tried)))
           /\ misses' = misses + (IF v = Distance THEN 0 ELSE 1)
      /\ action' = j
      /\ UNCHANGED <<cfg, at, step, plan, state, fresh, history, correctness, leftover>>

NextPlan ==
    /\ at = "action" /\ Left = {}
    /\ \/ plan < Len(cfg.plans) /\ plan' = plan + 1 /\ at' = "replay"
       \/ plan = Len(cfg.plans) /\ at' = "append" /\ UNCHANGED plan
    /\ UNCHANGED <<cfg, step, action, state, fresh, history, risk, correctness, candidate,
                   leftover, misses>>

AdvancedByCandidate == candidate.next    \* slip: the state of the last candidate
Advanced == Moved("fresh")

\* After every candidate of the step: the fresh outputs enter the histories and
\* the fresh transition is taken.
AppendHistory ==
    /\ at = "append" /\ ~\E k \in Keys : AppendRaises(history[k], step)
    /\ history' = [k \in Keys |-> Appended(history[k], Item(step, fresh[k]))]
    /\ state' = Advanced
    /\ step' = step + 1 /\ at' = "capture"
    /\ UNCHANGED <<cfg, plan, action, fresh, risk, correctness, candidate, leftover, misses>>

\* clear_sample, and the summary.
Cleared == NoItems
ItemCount(h) == Cardinality({p \in Keys \X (1 .. MaxHistory) : p[2] <= Len(h[p[1]])})

Finish ==
    /\ at = "capture" /\ step = cfg.steps
    /\ history' = Cleared /\ leftover' = ItemCount(Cleared)
    /\ at' = "done"
    /\ UNCHANGED <<cfg, step, plan, action, state, fresh, risk, correctness, candidate, misses>>

\* Where an exception would end the sample: none of the actions above is enabled.
Breaks ==
    \/ at = "capture" /\ step < cfg.steps /\ \E b \in GuidedBranches : CaptureRaises(Net, b, step)
    \/ at = "replay" /\ SomeRaises([b \in GuidedBranches |-> fresh[<<b, Plan>>]])
    \/ \E j \in Due : Available(cfg.actions[j]) /\ SomeRaises(Chosen(cfg.actions[j]))
    \/ at = "append" /\ \E k \in Keys : AppendRaises(history[k], step)

Terminated == at \in {"done", "failed"} /\ UNCHANGED vars

Next ==
    \/ CaptureStep \/ CheckEquivalence \/ Replay \/ Unavailable \/ Counterfact
    \/ NextPlan \/ AppendHistory \/ Finish
    \/ Terminated

Spec == Init /\ [][Next]_vars

-----------------------------------------------------------------------------
(* Properties *)

Points == {"capture", "cond", "uncond", "replay", "action", "append", "done", "failed"}

TypeOK ==
    /\ cfg \in Configs /\ at \in Points
    /\ step \in 0 .. cfg.steps
    /\ plan \in 1 .. Len(cfg.plans) /\ action \in Nat
    /\ state \in [step : Nat, by : SUBSET DefaultActions]
    /\ misses \in 0 .. MaxMisses

\* Nothing but what was measured ends a sample, a failed strict check, a number
\* that is not finite or another type: every replacement fits behind its plan, no
\* block range meets a second prefix of context tokens or misses the first, no
\* output keeps one, histories ascend.
NothingRaises == ~Breaks

\* The block at position i of branch b's tensor was run on the states of `steps'.
Ran(h, i, steps) == h.ran[i] = [block |-> i - 1, steps |-> steps]

Replaced(a, s) == IF a = "replay_age_0" THEN {s}
                  ELSE IF a = "reuse_age_1" THEN {s - 1}
                  ELSE IF a = "reuse_age_2" THEN {s - 2} ELSE {s - 1, s - 2}

\* A candidate is what the plan and the action say and nothing else: in both
\* branches every block once and in order, those of the plan and before it from
\* exactly the right earlier steps, those behind it from this one, and the
\* in-context tokens exactly once if the network has them.
CandidatesSound ==
    candidate.action # None =>
      LET now == candidate.step
          n   == Net.blocks
      IN \A b \in GuidedBranches :
           LET h == candidate.output[b] IN
           /\ h.branch = b /\ Len(h.ran) = n
           /\ \A i \in 1 .. n :
                Ran(h, i, IF i <= EndBlock(candidate.plan, n)
                          THEN Replaced(candidate.action, now) ELSE {now})
           /\ h.context = IF Inserts(Net, 0, n) THEN 1 ELSE 0

\* Candidates never touch the trajectory or the histories: the state came about
\* by fresh steps only, one for each step done, and a history holds the last
\* fresh steps of its branch.
TrajectoryFresh ==
    /\ state.step = step /\ state.by \subseteq {"fresh"}
    /\ \A k \in Keys : \A i \in DOMAIN history[k] :
         /\ history[k][i].step = step - Len(history[k]) + i - 1
         /\ history[k][i].output =
              FreshHidden(Net, k[1], EndBlock(k[2], Net.blocks), history[k][i].step)
=============================================================================
