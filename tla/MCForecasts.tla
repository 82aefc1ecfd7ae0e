---------------------------- MODULE MCForecasts ----------------------------
(* Small instances of the two policies that forecast: a worker builds either *)
(* SpeCaCache or TaylorSeerCache, over the same cache and histories.         *)
EXTENDS ForecastWorker

\* taylorseer_style with max_history = max_order + 2.
Seer == [enabled |-> TRUE, cache_modules |-> Modules, interval |-> 3, max_order |-> 1,
         min_history |-> 2, max_history |-> 3, forecast_on_steps |-> None,
         refresh_first_n_steps |-> 1, refresh_last_n_steps |-> 0,
         disable_final_step |-> FALSE, total_steps |-> Steps]

MCSeerConfigs ==
    { Seer,
      [Seer EXCEPT !.interval = 4, !.max_order = 4, !.max_history = 6, !.refresh_first_n_steps = 3],
      [Seer EXCEPT !.interval = 2, !.refresh_last_n_steps = 2, !.max_order = 0, !.max_history = 2],
      [Seer EXCEPT !.interval = 4, !.min_history = 1, !.disable_final_step = TRUE],
      [Seer EXCEPT !.forecast_on_steps = {2, 4, 5}, !.min_history = 1, !.total_steps = None],
      [Seer EXCEPT !.max_order = 0, !.max_history = 2, !.min_history = 3],
      [Seer EXCEPT !.cache_modules = {1}], [Seer EXCEPT !.enabled = FALSE] }

\* Thresholds fall from 3 to 1: an error of 2 passes early and fails late.
Falling == [s \in StepIdx |-> IF s < 4 THEN 3 ELSE 1]

Base == [enabled |-> TRUE, cache_modules |-> Modules, max_order |-> 4, min_history |-> 2,
         max_history |-> 6, first_full_steps |-> 1, threshold |-> Falling,
         min_forecast_steps |-> 1, max_forecast_steps |-> 3, aggregation |-> "mean",
         verifier |-> NumModules]

SpeCaConfigs ==
    { Base,
      [Base EXCEPT !.aggregation = "max", !.max_forecast_steps = 4, !.max_order = 0, !.max_history = 2],
      [Base EXCEPT !.first_full_steps = 0, !.min_history = 1, !.min_forecast_steps = 2],
      [Base EXCEPT !.min_forecast_steps = 2, !.max_forecast_steps = 2],
      [Base EXCEPT !.max_order = 0, !.max_history = 2, !.min_history = 3],
      [Base EXCEPT !.cache_modules = {1}, !.verifier = 1, !.first_full_steps = 3],
      [Base EXCEPT !.enabled = FALSE] }
=============================================================================
