------------------------ MODULE MCFixedIntervalCache ------------------------
(* Small instances of FixedIntervalCache for TLC. *)
EXTENDS FixedIntervalCache

Both == 1..NumModules

\* The constructor's defaults (euler stage, no window, no warm-up).
Base == [enabled |-> TRUE, interval |-> 2, cache_modules |-> Both, warmup_steps |-> 0,
         cooldown_steps |-> 0, max_steps |-> None, refresh_first_step |-> TRUE,
         cache_cond |-> TRUE, cache_uncond |-> TRUE, solver_stages |-> {"euler"},
         active_t_min |-> None, active_t_max |-> None, active_step_min |-> None,
         active_step_max |-> None, active_window_warmup_refreshes |-> 0]

Heun == {"heun_predictor", "heun_corrector"}

\* The shapes of the presets, scaled to 7 steps (see the README).
AllConfigs ==
    { [Base EXCEPT !.active_t_min = 1, !.active_t_max = 6],
      [Base EXCEPT !.active_t_min = 2, !.interval = 3, !.active_t_max = 7],
      [Base EXCEPT !.active_t_min = 1, !.active_t_max = 6, !.active_window_warmup_refreshes = 1],
      [Base EXCEPT !.active_t_min = 0, !.active_t_max = 7, !.active_window_warmup_refreshes = 2],
      [Base EXCEPT !.interval = 4, !.refresh_first_step = FALSE, !.active_window_warmup_refreshes = 2,
                   !.cache_uncond = FALSE],
      [Base EXCEPT !.interval = 1], [Base EXCEPT !.enabled = FALSE],
      [Base EXCEPT !.interval = 3, !.warmup_steps = 1, !.max_steps = 7, !.cooldown_steps = 2,
                   !.cache_modules = {2}],
      [Base EXCEPT !.interval = 5, !.active_step_min = 1, !.active_step_max = 5],
      [Base EXCEPT !.solver_stages = Heun, !.active_t_min = 2, !.active_t_max = 6],
      [Base EXCEPT !.solver_stages = Heun, !.interval = 3] }
=============================================================================
