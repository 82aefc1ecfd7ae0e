----------------------------- MODULE SpeCaCache -----------------------------
(***************************************************************************)
(* SpeCaCachePolicy: one decision per step, full or speculative, for all    *)
(* selected modules and both branches.  Speculative steps forecast from     *)
(* TaylorHistory; from the min_forecast_steps-th on, one module also runs   *)
(* and the error of its forecast decides how the run goes on.               *)
(*                                                                          *)
(* Errors and thresholds are naturals; threshold_for_step is any function   *)
(* that never rises.  JiT has the Euler stage only, hence one stream.       *)
(***************************************************************************)
EXTENDS TaylorHistory

CONSTANT Errors   \* what calculate_speca_error may return

VARIABLES
    stream,    \* SpeCaStreamState: decision, run length, pending branch errors
    speca,     \* _speca_stats and the sum of _all_completed_run_lengths
    measured   \* ghost: per step of this batch, the errors the verifier found

specaVars == <<stream, speca, measured>>
vars == <<driverVars, cacheVars, cfg, historyVars, specaVars>>

Guided == {"cond", "uncond"}   \* verification_branches

\* The constructor's checks, on a record of its arguments.
ConfigOK(c) ==
    /\ DOMAIN c = {"enabled", "cache_modules", "max_order", "min_history", "max_history",
                   "first_full_steps", "threshold", "min_forecast_steps",
                   "max_forecast_steps", "aggregation", "verifier"}
    /\ c.enabled \in BOOLEAN /\ c.aggregation \in {"mean", "max"}
    /\ c.cache_modules \subseteq Modules /\ c.verifier \in c.cache_modules
    /\ c.max_order \in Nat /\ c.first_full_steps \in Nat
    /\ {c.min_history, c.max_history, c.min_forecast_steps} \subseteq Nat \ {0}
    /\ c.max_forecast_steps \in Nat /\ c.max_forecast_steps >= c.min_forecast_steps
    /\ c.threshold \in [StepIdx -> Nat]
    /\ \A s \in StepIdx \ {0} : c.threshold[s] <= c.threshold[s - 1]

\* Even errors have an integer mean.
ASSUME SpeCaAssumption ==
    /\ \A c \in Configs : ConfigOK(c)
    /\ \A e \in Errors : e \in Nat /\ e % 2 = 0

Reasons == {"initial_full_steps", "insufficient_history", "missing_verification_error",
            "max_forecast_steps", "verification_reject", "min_forecast_run",
            "verification_accept"}
GoesOn == {"min_forecast_run", "verification_accept"}
Speculative(d) == d.reason \in GoesOn

Decision == [step : StepIdx, reason : Reasons, verify : BOOLEAN]

ASSUME DecisionAssumption == None \notin Decision

NoErrors == [b \in Guided |-> None]
NewStream == [decision |-> None, run |-> 0, errors |-> NoErrors]

-----------------------------------------------------------------------------
(* _finalize_pending_verification *)

Found(errors) == {b \in Guided : errors[b] # None}

Aggregate(errors) ==
    LET x == errors["cond"]
        y == errors["uncond"]
    IN IF Found(errors) = {} THEN None
       ELSE IF x = None THEN y
       ELSE IF y = None THEN x
       ELSE IF cfg.aggregation = "mean" THEN (x + y) \div 2
       ELSE IF x < y THEN y ELSE x

Unverified == stream.decision # None /\ stream.decision.verify /\ Found(stream.errors) = {}

\* last_aggregated_error
PreviousError == IF stream.decision # None /\ stream.decision.verify
                 THEN Aggregate(stream.errors) ELSE None

-----------------------------------------------------------------------------
(* _decision_for_step *)

AnyReady == \E m \in cfg.cache_modules, b \in Guided : history[<<m, b, "euler", size>>] # <<>> \* slip
\* histories_ready: all modules, both branches.
AllReady == \A m \in cfg.cache_modules, b \in Guided : Ready(history[<<m, b, "euler", size>>])

AfterFull == stream.decision # None /\ ~Speculative(stream.decision)

TooLongByOne == stream.run > cfg.max_forecast_steps   \* slip
TooLong == stream.run >= cfg.max_forecast_steps

RejectedOnce(s) == FALSE   \* slip: the error is measured and not acted upon
Rejected(s) == /\ stream.run >= cfg.min_forecast_steps
               /\ PreviousError # None /\ PreviousError > cfg.threshold[s]

\* The first rule that applies names the decision.
Reason(s) ==
    IF s < cfg.first_full_steps THEN "initial_full_steps"
    ELSE IF ~AllReady THEN "insufficient_history"
    ELSE IF AfterFull THEN "min_forecast_run"
    ELSE IF Unverified THEN "missing_verification_error"
    ELSE IF TooLong THEN "max_forecast_steps"
    ELSE IF Rejected(s) THEN "verification_reject"
    ELSE IF PreviousError # None THEN "verification_accept"
    ELSE "min_forecast_run"

Counted == {"full", "speculative", "verification_steps", "fresh_calls", "accepts",
            "rejects", "runs"}
NothingCounted == [f \in Counted |-> 0]

\* The run that ends enters the completed runs (_finish_speculative_run).
Flushed(c) == [c EXCEPT !["runs"] = @ + stream.run]

Decide(s) ==
    LET reason == Reason(s)
    IN [decision |-> [step |-> s, reason |-> reason,
                      verify |-> reason \in GoesOn /\ stream.run >= cfg.min_forecast_steps],
        run |-> IF reason \in GoesOn THEN stream.run + 1 ELSE 0,
        errors |-> NoErrors]

CountDecision(d) ==
    LET c == IF Speculative(d) THEN speca ELSE Flushed(speca)
        is == [full |-> ~Speculative(d), speculative |-> Speculative(d),
               verification_steps |-> d.verify, fresh_calls |-> FALSE,
               accepts |-> d.reason = "verification_accept",
               rejects |-> d.reason = "verification_reject", runs |-> FALSE]
    IN [f \in Counted |-> IF is[f] THEN c[f] + 1 ELSE c[f]]

\* The first managed call of a step decides for the whole step.
DecidedNever == FALSE   \* slip: every managed call decides again
DecidedNow == stream.decision # None /\ stream.decision.step = context.step
Now == IF DecidedNow THEN stream ELSE Decide(context.step)
CountsNow == IF DecidedNow THEN speca ELSE CountDecision(Now.decision)

-----------------------------------------------------------------------------
(* CachedModule.forward under this policy. *)

Managed(m) == cfg.enabled /\ m \in cfg.cache_modules /\ context.stage = "euler"

\* ValueError, RuntimeError: the worker ends.
Raises(m) == \/ stream.decision # None /\ context.step < stream.decision.step
             \/ Speculative(Now.decision) /\ EntryOf(m) = None

ForwardInactive(m) ==
    /\ Call(m) /\ ~Managed(m)
    /\ Bypass(m)
    /\ points' = <<>> /\ UNCHANGED <<cfg, history, pending, seer, specaVars>>

ForwardFull(m) ==
    /\ Call(m) /\ Managed(m) /\ ~Raises(m) /\ ~Speculative(Now.decision)
    /\ Refresh(m)
    /\ stream' = Now /\ speca' = CountsNow
    /\ UNCHANGED <<cfg, measured>>

VerifiesOnce(m) == m = cfg.verifier /\ Now.decision.verify /\ Now.errors = NoErrors \* slip
\* process_reuse_tensor: the verifier's own call, far enough in the run, once per branch.
Verifies(m) == /\ m = cfg.verifier /\ Now.decision.verify
               /\ Now.errors[context.branch] = None
               /\ EntryMatches(EntryOf(m)) /\ Ready(HistoryOf(m))

ForwardSpeculative(m) ==
    /\ Call(m) /\ Managed(m) /\ ~Raises(m) /\ Speculative(Now.decision) /\ ~Verifies(m)
    /\ Forecast(m)
    /\ stream' = Now /\ speca' = CountsNow
    /\ UNCHANGED <<cfg, measured>>

\* The forecast is served all the same; the fresh output is only compared.
ForwardVerified(m) ==
    /\ Call(m) /\ Managed(m) /\ ~Raises(m) /\ Speculative(Now.decision) /\ Verifies(m)
    /\ Forecast(m)
    /\ \E error \in Errors :
         /\ stream' = [Now EXCEPT !.errors[context.branch] = error]
         /\ measured' = [measured EXCEPT ![context.step][context.branch] = error]
    /\ speca' = [CountsNow EXCEPT !["fresh_calls"] = @ + 1]
    /\ UNCHANGED cfg

-----------------------------------------------------------------------------

NotMeasured == [s \in StepIdx |-> NoErrors]

Init ==
    /\ RuntimeInit /\ HistoryInit /\ cfg \in Configs
    /\ stream = NewStream /\ speca = NothingCounted /\ measured = NotMeasured

ClearBatch == stream' = NewStream /\ speca' = Flushed(speca)

StartBatch ==
    /\ BeginBatch /\ ForgetBatch /\ ClearBatch
    /\ measured' = NotMeasured /\ points' = <<>> /\ UNCHANGED <<cfg, seer>>

\* reset_runtime_state flushes the run, then reset_stats clears the counts.
FlushedAfterReset == Flushed(NothingCounted)   \* slip: the two the other way round
FormalCounts == NothingCounted

LeaveWarmup ==
    /\ EndWarmup /\ ForgetBatch
    /\ stream' = NewStream /\ speca' = FormalCounts /\ seer' = NoCalls
    /\ measured' = NotMeasured /\ points' = <<>> /\ UNCHANGED cfg

Terminated == Finished /\ UNCHANGED vars

Next ==
    \/ StartBatch \/ LeaveWarmup
    \/ (SetContext \/ EndStep) /\ UNCHANGED <<cfg, historyVars, specaVars>>
    \/ \E m \in Modules : \/ ForwardInactive(m) \/ ForwardFull(m)
                          \/ ForwardSpeculative(m) \/ ForwardVerified(m)
    \/ Terminated

Spec == Init /\ [][Next]_vars

-----------------------------------------------------------------------------
(* Properties *)

TypeOK ==
    /\ HistoryTypeOK
    /\ sampler \in SamplerNames /\ at \in {"batch", "pass", "module", "reset"}
    /\ step \in StepIdx /\ context \in Context
    /\ entries \in [Keys -> Entry \cup {None}] /\ stats \in Stats
    /\ stream.decision \in Decision \cup {None} /\ stream.run \in 0 .. cfg.max_forecast_steps
    /\ stream.errors \in [Guided -> Errors \cup {None}]
    /\ speca \in [Counted -> Nat]
    /\ measured \in [StepIdx -> [Guided -> Errors \cup {None}]]

\* Every decision to speculate is carried out, for every module and branch: steps
\* ascend within a batch, and after the preflight over all histories no entry is
\* missing and no history too short (should_reuse_entry, make_reuse_tensor).
DecisionsCarriedOut ==
    /\ at = "module" /\ Managed(module) => ~Raises(module)
    /\ ForecastsCommitted

Evaluated == at = "pass" /\ pass > Len(Evals)

\* No step is partly forecast and partly full: after both evaluations, every
\* selected module was computed in both branches or in neither.
StepConsistent ==
    Evaluated /\ cfg.enabled =>
      \A m \in cfg.cache_modules \ NonTensorModules, b \in Guided :
        LET e == entries[<<m, b, "euler", size>>]
        IN e # None /\ (e.step = step <=> ~Speculative(stream.decision))

\* Types, control and the consistency of a step, which the step's decision,
\* kept between its calls, has to guarantee.
IInv == TypeOK /\ Control /\ HistoryMeetsEntry /\ StepConsistent

\* A run of forecasts goes on only as long as it earns it: every step of it
\* beyond the min_forecast_steps-th but the last was measured in both branches,
\* with an error within the threshold of the step after, and a step that is not
\* part of a run measured nothing.
RunEarned ==
    stream.decision # None /\ stream.run > 0 =>
      LET first == stream.decision.step - stream.run + 1
      IN \A s \in first .. stream.decision.step - 1 :
           IF s < first + cfg.min_forecast_steps THEN measured[s] = NoErrors
           ELSE /\ Found(measured[s]) = Guided
                /\ Aggregate(measured[s]) <= cfg.threshold[s + 1]

\* A verified step is settled: measured once per branch, and the decision after
\* it is never taken without an error (reason missing_verification_error).
EveryVerificationCounts ==
    /\ stream.decision # None => stream.decision.reason # "missing_verification_error"
    /\ Evaluated \/ at = "batch" => speca["fresh_calls"] = 2 * speca["verification_steps"]
    /\ speca["accepts"] + speca["rejects"] <= speca["verification_steps"]

Sampled == batch - 1 - (IF batch > WarmupBatches THEN WarmupBatches ELSE 0)

\* The reported steps and runs are those of the formal batches, each once: what
\* a batch leaves unfinished is flushed, what the warm-up did is gone
\* (clear_batch, reset_runtime_state, reset_stats).
RunsAccounted ==
    /\ speca["runs"] + stream.run = speca["speculative"]
    /\ at = "batch" /\ cfg.enabled =>
         speca["full"] + speca["speculative"] = Steps * Sampled
=============================================================================
