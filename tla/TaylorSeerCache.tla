-------------------------- MODULE TaylorSeerCache --------------------------
(***************************************************************************)
(* TaylorSeerCachePolicy on its own: refresh on a fixed schedule of steps,  *)
(* forecast from TaylorHistory at every other step.  The JiT script makes   *)
(* both branches managed branches and Euler the only stage.                 *)
(***************************************************************************)
EXTENDS TaylorHistory

vars == <<driverVars, cacheVars, cfg, historyVars>>

\* The constructor's checks, on a record of its arguments (it refuses any other);
\* total_steps is the run's Steps or None.
ConfigOK(c) ==
    /\ DOMAIN c = {"enabled", "cache_modules", "interval", "max_order", "min_history",
                   "max_history", "forecast_on_steps", "refresh_first_n_steps",
                   "refresh_last_n_steps", "disable_final_step", "total_steps"}
    /\ c.enabled \in BOOLEAN /\ c.disable_final_step \in BOOLEAN
    /\ c.cache_modules \subseteq Modules
    /\ {c.interval, c.min_history, c.max_history} \subseteq Nat \ {0}
    /\ {c.max_order, c.refresh_first_n_steps, c.refresh_last_n_steps} \subseteq Nat
    /\ c.total_steps \in {Steps, None}
    /\ c.forecast_on_steps = None \/ c.forecast_on_steps \subseteq StepIdx

-----------------------------------------------------------------------------
(* _decision_for_key *)

Last(s) == /\ cfg.total_steps # None
           /\ \/ cfg.disable_final_step /\ s >= cfg.total_steps - 1
              \/ cfg.refresh_last_n_steps > 0 /\ s >= cfg.total_steps - cfg.refresh_last_n_steps

OnIntervalForgotten(s) == FALSE  \* slip: only the first and last steps refresh
OnInterval(s) == s % cfg.interval = 0

Scheduled(s) ==
    \/ s < cfg.refresh_first_n_steps
    \/ Last(s)
    \/ OnInterval(s)
    \/ cfg.forecast_on_steps # None /\ s \notin cfg.forecast_on_steps

Managed(m) == cfg.enabled /\ m \in cfg.cache_modules /\ context.stage = "euler"

Forecasts(m) ==
    EntryOf(m) # None /\ ~Scheduled(context.step) /\ Ready(HistoryOf(m))

-----------------------------------------------------------------------------
(* CachedModule.forward under this policy. *)

ForwardInactive(m) ==
    /\ Call(m) /\ ~Managed(m)
    /\ Bypass(m)
    /\ points' = <<>> /\ UNCHANGED <<cfg, history, pending, seer>>

ForwardRefresh(m) ==
    /\ Call(m) /\ Managed(m) /\ ~Forecasts(m)
    /\ Refresh(m) /\ UNCHANGED cfg

ForwardForecast(m) ==
    /\ Call(m) /\ Managed(m) /\ Forecasts(m)
    /\ Forecast(m) /\ UNCHANGED cfg

Init == RuntimeInit /\ HistoryInit /\ cfg \in {c \in Configs : ConfigOK(c)}

\* The script calls clear_batch next to begin_batch.
StartBatch ==
    /\ BeginBatch /\ ForgetBatch
    /\ points' = <<>> /\ UNCHANGED <<cfg, seer>>

\* reset_runtime_state and reset_stats.
LeaveWarmup ==
    /\ EndWarmup /\ ForgetBatch
    /\ seer' = NoCalls /\ points' = <<>> /\ UNCHANGED cfg

Terminated == Finished /\ UNCHANGED vars

Next ==
    \/ StartBatch \/ LeaveWarmup
    \/ (SetContext \/ EndStep) /\ UNCHANGED <<cfg, historyVars>>
    \/ \E m \in Modules : ForwardInactive(m) \/ ForwardRefresh(m) \/ ForwardForecast(m)
    \/ Terminated

Spec == Init /\ [][Next]_vars

-----------------------------------------------------------------------------
(* Properties *)

TypeOK ==
    /\ HistoryTypeOK
    /\ sampler \in SamplerNames /\ at \in {"batch", "pass", "module", "reset"}
    /\ step \in StepIdx /\ context \in Context
    /\ entries \in [Keys -> Entry \cup {None}] /\ stats \in Stats

\* The inductive invariant: the histories follow the cache's entries.
IInv == TypeOK /\ Control /\ HistoryMeetsEntry

\* The steps that are forecast are the same in every batch, for every module
\* and in both branches: those that are not scheduled for a refresh, from the
\* min_history-th on (before it no history is long enough, so every step
\* refreshes), unless fewer outputs are kept.
SameStepsForecast ==
    (served.how \in {"reuse", "compute"} /\ served.module \notin NonTensorModules) =>
      (served.how = "reuse" <=>
         /\ ~Scheduled(served.step)
         /\ served.step >= cfg.min_history
         /\ cfg.max_history >= cfg.min_history)
=============================================================================
