----------------------------- MODULE MCJitLaunch -----------------------------
(* Command lines of the JiT launcher, and what a batch of one or two images   *)
(* may leave in the ledgers.                                                  *)
EXTENDS JitLaunch

Plain(method) ==
    [method |-> method, given |-> << >>, gpus |-> 2, num_shards |-> None, execute |-> TRUE,
     save_png |-> TRUE, save_npz |-> FALSE, resume |-> FALSE, safe_map |-> "none",
     allow_empty_safe_map |-> FALSE, checkpoint |-> TRUE]

With(method, given) == [Plain(method) EXCEPT !.given = given]

\* Around the launch itself.
OtherLaunches ==
    { Plain("no_cache_50"), Plain("reduced_steps_30"), Plain("bfc_speed_t02_10"),
      Plain("no_such_method"),
      [Plain("no_cache_50") EXCEPT !.execute = FALSE],
      [Plain("no_cache_50") EXCEPT !.gpus = 0],
      [Plain("no_cache_50") EXCEPT !.num_shards = 3],
      [Plain("no_cache_50") EXCEPT !.gpus = 1, !.num_shards = 1, !.save_npz = TRUE],
      [Plain("no_cache_50") EXCEPT !.save_npz = TRUE],
      [Plain("no_cache_50") EXCEPT !.save_png = FALSE],
      [Plain("no_cache_50") EXCEPT !.save_png = FALSE, !.resume = TRUE],
      [Plain("no_cache_50") EXCEPT !.checkpoint = FALSE],
      [Plain("safe_bfc_speed") EXCEPT !.safe_map = "useful"],
      [Plain("safe_bfc_speed") EXCEPT !.safe_map = "useful", !.resume = TRUE],
      [Plain("safe_bfc_quality") EXCEPT !.safe_map = "empty"],
      [Plain("safe_bfc_quality") EXCEPT !.safe_map = "empty", !.allow_empty_safe_map = TRUE],
      [Plain("safe_bfc_quality") EXCEPT !.safe_map = "without_positions"],
      [Plain("safe_bfc_quality") EXCEPT !.safe_map = "missing"] }

\* Around a policy's options; a worker may refuse what the launcher takes.
PolicyLaunches ==
    { [Plain("taylorseer_style") EXCEPT !.resume = TRUE],
      With("taylorseer_quality_i3_o3", [taylorseer_interval |-> 5]),
      With("taylorseer_style", [taylorseer_max_order |-> 1, taylorseer_min_history |-> 3,
                                taylorseer_refresh_first_n_steps |-> 0,
                                taylorseer_refresh_last_n_steps |-> 2]),
      With("taylorseer_style", [taylorseer_interval |-> 0]),
      [Plain("speca_style") EXCEPT !.resume = TRUE],
      With("speca_style", [speca_first_full_steps |-> 0, speca_max_order |-> 0,
                           speca_verifier_module |-> "blocks.3", speca_eps |-> 2]),
      With("speca_style", [speca_base_threshold |-> 5]),
      With("speca_style", [speca_max_forecast_steps |-> 1]),
      With("speca_style", [speca_min_forecast_steps |-> 6, speca_max_forecast_steps |-> 4]),
      With("speca_style", [speca_verifier_module |-> "blocks.12"]),
      [Plain("dicache_style") EXCEPT !.resume = TRUE],
      With("dicache_style", [dicache_probe_depth |-> 2, dicache_share_cfg_prefix |-> TRUE,
                             dicache_dcta_enabled |-> FALSE, dicache_force_full |-> TRUE]),
      With("dicache_style", [dicache_gamma_min |-> 0, dicache_ret_ratio |-> 0,
                             dicache_force_last_step_full |-> FALSE]),
      With("dicache_style", [dicache_probe_depth |-> 12]),
      With("dicache_style", [dicache_gamma_min |-> 1600]),
      With("seacache_style", [sea_beta |-> 1000, sea_proxy_downsample |-> 0]),
      With("teacache_style", [dynamic_cache_threshold |-> 50]),
      With("teacache_style", [dynamic_cache_threshold |-> 0]),
      With("seacache_style", [sea_proxy_downsample |-> -1]) }

MCLaunches == OtherLaunches \cup PolicyLaunches

\* A zero where the option's range has one.
ZeroOrder == {With("taylorseer_style", [taylorseer_max_order |-> 0])}

-----------------------------------------------------------------------------
(* Ledgers of one batch: one with reuse and one where everything is computed. *)

SeerRuns ==
    { [total_managed_calls |-> 10, forecast_decisions |-> 7, forecast_committed |-> 6,
       forecast_failures |-> 1, order_sum |-> 9, hits |-> 6, misses |-> 4, disabled |-> 0],
      [total_managed_calls |-> 10, forecast_decisions |-> 0, forecast_committed |-> 0,
       forecast_failures |-> 0, order_sum |-> 0, hits |-> 0, misses |-> 10, disabled |-> 2] }

SpeCaRuns ==
    { [full_step_decisions |-> 3, speculative_step_decisions |-> 4,
       verification_accept_decisions |-> 2, verification_reject_decisions |-> 1,
       forecast_committed |-> 16, verifier_fresh_calls |-> 4, full_compute_calls |-> 12,
       order_sum |-> 24, runs |-> 2, run_sum |-> 4, run_max |-> 3, errors |-> 6,
       error_sum |-> 15, error_sum_sq |-> 55, error_max |-> 5, hits |-> 16, misses |-> 12,
       disabled |-> 0],
      [full_step_decisions |-> 6, speculative_step_decisions |-> 1,
       verification_accept_decisions |-> 0, verification_reject_decisions |-> 1,
       forecast_committed |-> 4, verifier_fresh_calls |-> 1, full_compute_calls |-> 24,
       order_sum |-> 4, runs |-> 1, run_sum |-> 1, run_max |-> 1, errors |-> 2,
       error_sum |-> 14, error_sum_sq |-> 100, error_max |-> 8, hits |-> 4, misses |-> 24,
       disabled |-> 0] }

DiCacheRuns ==
    { [full_step_decisions |-> 3, reuse_step_decisions |-> 4, decision_device_to_host_syncs |-> 5,
       errors |-> 5, error_sum |-> 8, error_sum_sq |-> 14, error_max |-> 2, peak_history |-> 6,
       hits |-> 0, misses |-> 0, disabled |-> 0],
      [full_step_decisions |-> 7, reuse_step_decisions |-> 0, decision_device_to_host_syncs |-> 0,
       errors |-> 0, error_sum |-> 0, error_sum_sq |-> 0, error_max |-> 0, peak_history |-> 4,
       hits |-> 0, misses |-> 0, disabled |-> 0] }

SafeMapRuns ==
    { [total_managed_calls |-> 10, safe_reuse_committed |-> 6, refresh_decisions |-> 4,
       age_sum |-> 8, age_max |-> 2, hits |-> 6, misses |-> 4, disabled |-> 0],
      [total_managed_calls |-> 10, safe_reuse_committed |-> 0, refresh_decisions |-> 10,
       age_sum |-> 0, age_max |-> 0, hits |-> 0, misses |-> 10, disabled |-> 0] }

CachedRuns == {[hits |-> 6, misses |-> 4, disabled |-> 2], [hits |-> 0, misses |-> 10, disabled |-> 0]}

MCOutcomes(type) ==
    CASE type = "forecast_cache" -> SeerRuns
      [] type = "speculative_cache" -> SpeCaRuns
      [] type = "probe_cache" -> DiCacheRuns
      [] type = "safe_cache" -> SafeMapRuns
      [] type \in {"cache", "dynamic_cache"} -> CachedRuns
      [] OTHER -> {NoLedger(type)}
=============================================================================
