----------------------------- MODULE ShardMerge -----------------------------
(***************************************************************************)
(* _merge_cache_stats of merge_jit_parallel_shards.py: one set of           *)
(* statistics out of the summaries of the shards.  Counts are added up;     *)
(* rates are computed anew from the added counts; means are weighted by the *)
(* count behind them, which the merge has to find in the same summary.      *)
(***************************************************************************)
EXTENDS ShardSummaries

\* r: the summaries, per shard.
Total(r, f) == Count(MapThenSumSet(LAMBDA s : r[s][f][1], DOMAIN r))
Totals(r, names) == [f \in names |-> Total(r, f)]

Highest(r, f) ==
    LET present == {s \in DOMAIN r : r[s][f] # None}
    IN IF present = {} THEN None ELSE Count(Max({r[s][f][1] : s \in present}))

\* The sum of a function's values.
AddUp(of) == MapThenFoldSet(Plus, Count(0), LAMBDA s : of[s],
                            LAMBDA T : CHOOSE s \in T : TRUE, DOMAIN of)

\* slip: every shard's mean weighs the same
WeightedAlike(r, f, w) ==
    LET sum == AddUp([s \in DOMAIN r |-> IF r[s][f] = None THEN Count(0) ELSE r[s][f]])
    IN Over(sum, Cardinality(DOMAIN r))

\* The mean of r[s][f], each as often as w counts it in its shard.
Weighted(r, f, w) ==
    LET all == Total(r, w)[1]
        sum == AddUp([s \in DOMAIN r |-> IF r[s][f] = None THEN Count(0)
                                    ELSE Times(r[s][f], r[s][w])])
    IN IF all = 0 THEN Count(0) ELSE Over(sum, all)

MergeRuntime(r) ==
    LET hits  == Total(r, "hits")[1]
        calls == Total(r, "total_calls")[1]
    IN Totals(r, RuntimeCounters \cup {"total_calls"}) @@ [hit_rate |-> Frac(hits, calls)]

\* Whatever is an int among the statistics is added up, the interval and the
\* order too.
MergeTaylorSeer(r) ==
    Totals(r, Counters("forecast_cache") \cup {"interval", "max_order"})
      @@ [mean_effective_order |-> Weighted(r, "mean_effective_order", "forecast_committed")]

\* The errors of all shards: the sum of squares is recovered from std and mean.
MergeErrors(r) ==
    LET counted == {s \in DOMAIN r : r[s]["count"][1] > 0}
        count   == Total(r, "count")[1]
        mean    == Weighted(r, "mean", "count")
        squares == AddUp([s \in counted |-> Times(Plus(r[s]["variance"],
                                                     Times(r[s]["mean"], r[s]["mean"])),
                                                r[s]["count"])])
    IN [count |-> Count(count),
        mean |-> IF count = 0 THEN None ELSE mean,
        variance |-> IF count = 0 THEN None
                     ELSE Minus(Over(squares, count), Times(mean, mean)),
        max |-> Highest(r, "max")]

MergeSpeCa(r) ==
    LET added == [f \in Counters("speculative_cache") |-> Total(r, f)[1]]
    IN Counted(added, DOMAIN added) @@ SpeCaRates(added) @@ MergeErrors(r)
         @@ [completed_speculative_runs |-> Total(r, "completed_speculative_runs"),
             mean_speculative_run_length |->
               Weighted(r, "mean_speculative_run_length", "completed_speculative_runs"),
             max_speculative_run_length |-> Highest(r, "max_speculative_run_length"),
             mean_effective_order |-> Weighted(r, "mean_effective_order", "forecast_committed")]

\* _merge_running_stats: sums are in the summaries, moments follow from them.
MergeRunning(r) ==
    LET n == Total(r, "count")[1]
        mean == Frac(Total(r, "sum")[1], n)
    IN Totals(r, {"count", "sum", "sum_sq"})
         @@ [mean |-> mean, max |-> Highest(r, "max"),
             variance |-> IF n = 0 THEN Count(0)
                          ELSE Minus(Frac(Total(r, "sum_sq")[1], n), Times(mean, mean))]

MergeDiCache(r) ==
    LET added == Totals(r, Counters("probe_cache")
                             \cup {"total_steps_seen", "reference_block_calls",
                                   "actual_block_calls", "effective_skipped_block_calls",
                                   "cfg_prefix_calls_saved"})
        reference == added["reference_block_calls"][1]
        steps == added["total_steps_seen"][1]
    IN added @@ MergeRunning(r)
         @@ [reuse_step_ratio |-> Frac(added["reuse_step_decisions"][1], steps),
             decision_syncs_per_step |-> Frac(added["decision_device_to_host_syncs"][1], steps),
             effective_block_compute_saving_rate |->
               Frac(added["effective_skipped_block_calls"][1], reference),
             actual_block_compute_fraction |-> Frac(added["actual_block_calls"][1], reference),
             peak_history_storage_bytes |-> Highest(r, "peak_history_storage_bytes")]

MergeSafeMap(r) ==
    Totals(r, Counters("safe_cache"))
      @@ [mean_age_of_reuse |-> Weighted(r, "mean_age_of_reuse", "safe_reuse_committed"),
          max_age_of_reuse |-> Highest(r, "max_age_of_reuse")]

\* Of the dynamic policies the first shard's statistics are kept as they are.
Merged(type, r) ==
    MergeRuntime(r) @@
      (CASE type = "forecast_cache" -> MergeTaylorSeer(r)
         [] type = "speculative_cache" -> MergeSpeCa(r)
         [] type = "probe_cache" -> MergeDiCache(r)
         [] type = "safe_cache" -> MergeSafeMap(r)
         [] OTHER -> << >>)
=============================================================================
