--------------------------- MODULE ShardSummaries ---------------------------
(***************************************************************************)
(* What the policies report of a run, and how the merge makes one report of *)
(* those of the shards.  A worker keeps a ledger (_stats, _order_values,    *)
(* ...), writes summary() of it into cache_stats_shard<i>.json, and the     *)
(* merge sees nothing but the summaries.                                    *)
(*                                                                          *)
(* Every number of a summary is a fraction <<n, d>>, a count has d = 1; the *)
(* rounding of floats is left out.  Errors, orders and ages are naturals.   *)
(***************************************************************************)
EXTENDS Integers, FiniteSets, FiniteSetsExt, TLC

CONSTANT None

gcd[a, b \in Nat] == IF b = 0 THEN a ELSE gcd[b, a % b]

\* In lowest terms, so that equal numbers are equal; 0 / 0 is the code's 0.0.
Count(n) == <<n, 1>>
Frac(n, d) == LET g == gcd[IF n < 0 THEN -n ELSE n, d]
              IN IF d = 0 THEN <<0, 1>> ELSE <<n \div g, d \div g>>

Plus(q, r) == Frac(q[1] * r[2] + r[1] * q[2], q[2] * r[2])
Times(q, r) == Frac(q[1] * r[1], q[2] * r[2])
Minus(q, r) == Plus(q, <<-r[1], r[2]>>)
Over(q, n) == Frac(q[1], q[2] * n)

-----------------------------------------------------------------------------
(* Ledgers: what a policy's counters and lists hold, added up. *)

Counters(type) ==
    CASE type = "forecast_cache" ->
           {"total_managed_calls", "forecast_decisions", "forecast_committed", "forecast_failures"}
      [] type = "speculative_cache" ->
           {"full_step_decisions", "speculative_step_decisions", "verification_accept_decisions",
            "verification_reject_decisions", "forecast_committed", "verifier_fresh_calls",
            "full_compute_calls"}
      [] type = "probe_cache" ->
           {"full_step_decisions", "reuse_step_decisions", "decision_device_to_host_syncs"}
      [] type = "safe_cache" -> {"total_managed_calls", "safe_reuse_committed", "refresh_decisions"}
      [] OTHER -> {}

\* The wrapped modules' own counters, which every policy with a cache has.
RuntimeCounters == {"hits", "misses", "disabled"}

\* Sums over orders, ages, run lengths and errors.
Sums(type) ==
    CASE type = "forecast_cache" -> {"order_sum"}
      [] type = "speculative_cache" -> {"order_sum", "runs", "run_sum", "errors", "error_sum",
                                        "error_sum_sq"}
      [] type = "probe_cache" -> {"errors", "error_sum", "error_sum_sq"}
      [] type = "safe_cache" -> {"age_sum"}
      [] OTHER -> {}

Peaks(type) ==
    CASE type = "speculative_cache" -> {"run_max", "error_max"}
      [] type = "probe_cache" -> {"error_max", "peak_history"}
      [] type = "safe_cache" -> {"age_max"}
      [] OTHER -> {}

Fields(type) == Counters(type) \cup RuntimeCounters \cup Sums(type) \cup Peaks(type)

NoLedger(type) == [f \in Fields(type) |-> 0]

\* A ledger after another batch.
Added(type, l, b) ==
    [f \in Fields(type) |-> IF f \in Peaks(type) THEN Max({l[f], b[f]}) ELSE l[f] + b[f]]

-----------------------------------------------------------------------------
(* summary() of the policies *)

Counted(l, names) == [f \in names |-> Count(l[f])]

RuntimeSummary(l) ==
    Counted(l, RuntimeCounters)
      @@ [total_calls |-> Count(l["hits"] + l["misses"] + l["disabled"]),
          hit_rate |-> Frac(l["hits"], l["hits"] + l["misses"] + l["disabled"])]

\* The interval and the order stand among the statistics.
TaylorSeerSummary(l, interval, order) ==
    Counted(l, Counters("forecast_cache"))
      @@ [mean_effective_order |-> Frac(l["order_sum"], l["forecast_committed"]),
          interval |-> Count(interval), max_order |-> Count(order)]

\* Mean and variance of recorded errors; std is the root of the latter.
Mean(l) == Frac(l["error_sum"], l["errors"])
Variance(l) == Minus(Frac(l["error_sum_sq"], l["errors"]), Times(Mean(l), Mean(l)))

SpeCaRates(l) ==
    LET accepted == l["verification_accept_decisions"]
        forecast == l["forecast_committed"]
        fresh    == l["verifier_fresh_calls"]
        full     == l["full_compute_calls"]
        steps    == l["full_step_decisions"] + l["speculative_step_decisions"]
        skipped  == Max({forecast - fresh, 0})
    IN [total_step_decisions |-> Count(steps),
        logical_managed_calls |-> Count(full + forecast),
        actual_original_module_forwards |-> Count(full + fresh),
        effective_skipped_block_calls |-> Count(skipped),
        raw_forecast_rate |-> Frac(forecast, full + forecast),
        effective_compute_saving_rate |-> Frac(skipped, full + forecast),
        verifier_overhead_rate |-> Frac(fresh, full + forecast),
        actual_compute_fraction |-> Frac(full + fresh, full + forecast),
        verification_acceptance_rate |->
          Frac(accepted, accepted + l["verification_reject_decisions"]),
        speculative_step_ratio |-> Frac(l["speculative_step_decisions"], steps)]

ErrorSummary(l) ==
    [count |-> Count(l["errors"]),
     mean |-> IF l["errors"] = 0 THEN None ELSE Mean(l),
     variance |-> IF l["errors"] = 0 THEN None ELSE Variance(l),
     max |-> IF l["errors"] = 0 THEN None ELSE Count(l["error_max"])]

SpeCaSummary(l) ==
    Counted(l, Counters("speculative_cache")) @@ SpeCaRates(l) @@ ErrorSummary(l)
      @@ [completed_speculative_runs |-> Count(l["runs"]),
          mean_speculative_run_length |-> Frac(l["run_sum"], l["runs"]),
          max_speculative_run_length |-> Count(l["run_max"]),
          mean_effective_order |-> Frac(l["order_sum"], l["forecast_committed"])]

\* Block calls follow from the steps, for two branches of 12 blocks.
DiCacheCalls(l, depth, shared) ==
    LET steps  == l["full_step_decisions"] + l["reuse_step_decisions"]
        actual == 2 * (steps * depth + l["full_step_decisions"] * (12 - depth))
        prefix == IF shared THEN steps ELSE 2 * steps
    IN [total_steps_seen |-> Count(steps),
        reference_block_calls |-> Count(steps * 24),
        actual_block_calls |-> Count(actual),
        effective_skipped_block_calls |-> Count(Max({steps * 24 - actual, 0})),
        effective_block_compute_saving_rate |-> Frac(steps * 24 - actual, steps * 24),
        actual_block_compute_fraction |-> Frac(actual, steps * 24),
        reuse_step_ratio |-> Frac(l["reuse_step_decisions"], steps),
        decision_syncs_per_step |-> Frac(l["decision_device_to_host_syncs"], steps),
        cfg_prefix_calls_saved |-> Count(2 * steps - prefix)]

DiCacheSummary(l, depth, shared) ==
    Counted(l, Counters("probe_cache")) @@ DiCacheCalls(l, depth, shared)
      @@ [count |-> Count(l["errors"]), sum |-> Count(l["error_sum"]),
          sum_sq |-> Count(l["error_sum_sq"]), mean |-> Mean(l), variance |-> Variance(l),
          max |-> IF l["errors"] = 0 THEN None ELSE Count(l["error_max"]),
          peak_history_storage_bytes |-> Count(l["peak_history"])]

SafeMapSummary(l) ==
    Counted(l, Counters("safe_cache"))
      @@ [mean_age_of_reuse |-> Frac(l["age_sum"], l["safe_reuse_committed"]),
          max_age_of_reuse |-> Count(l["age_max"])]

\* The cache_stats of a worker.
Summary(type, l, c) ==
    RuntimeSummary(l) @@
      (CASE type = "forecast_cache" ->
              TaylorSeerSummary(l, c["taylorseer_interval"], c["taylorseer_max_order"])
         [] type = "speculative_cache" -> SpeCaSummary(l)
         [] type = "probe_cache" ->
              DiCacheSummary(l, c["dicache_probe_depth"], c["dicache_share_cfg_prefix"])
         [] type = "safe_cache" -> SafeMapSummary(l)
         [] OTHER -> << >>)
=============================================================================
