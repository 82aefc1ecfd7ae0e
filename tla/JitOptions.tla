----------------------------- MODULE JitOptions -----------------------------
(***************************************************************************)
(* How the options of a JiT launch become the configuration of a policy:    *)
(* the launcher checks them and forwards them to its workers, a worker      *)
(* checks them again, fills them in from the method's preset and hands them *)
(* to the policy's constructor, which checks them a third time.             *)
(*                                                                          *)
(* An option is named as in argparse.  Thresholds and ratios are counted in *)
(* thousandths, the two eps in units of their default 1e-10.                *)
(***************************************************************************)
EXTENDS Integers

CONSTANT None   \* Python's None

TaylorSeerOptions == {"taylorseer_interval", "taylorseer_max_order", "taylorseer_min_history",
                      "taylorseer_refresh_first_n_steps", "taylorseer_refresh_last_n_steps",
                      "taylorseer_clone_forecast"}

\* What speca_style resolves with its preset, and what it takes as it is.
SpeCaResolved == {"speca_max_order", "speca_first_full_steps", "speca_base_threshold",
                  "speca_decay_rate", "speca_min_threshold", "speca_min_forecast_steps",
                  "speca_max_forecast_steps", "speca_error_metric", "speca_branch_aggregation",
                  "speca_verifier_module", "speca_min_history"}
SpeCaTaken == {"speca_eps", "speca_max_error_samples", "speca_clone_forecast"}

DiCacheResolved == {"dicache_probe_depth", "dicache_reuse_threshold", "dicache_error_choice",
                    "dicache_branch_aggregation", "dicache_ret_ratio",
                    "dicache_force_last_step_full", "dicache_dcta_enabled", "dicache_gamma_min",
                    "dicache_gamma_max", "dicache_eps", "dicache_max_stat_samples",
                    "dicache_share_cfg_prefix"}
DiCacheTaken == {"dicache_clone_history", "dicache_force_full"}

DynamicOptions == {"dynamic_cache_threshold", "sea_beta", "sea_proxy_downsample"}

Options == TaylorSeerOptions \cup SpeCaResolved \cup SpeCaTaken \cup DiCacheResolved
             \cup DiCacheTaken \cup DynamicOptions

\* The store_true options: absent means FALSE.
Flags == {"taylorseer_clone_forecast", "speca_clone_forecast", "dicache_clone_history",
          "dicache_force_full"}

-----------------------------------------------------------------------------
(* Parsing: what is not on the command line has the parser's default. *)

Parsed(given, defaults) ==
    [o \in Options |-> IF o \in DOMAIN given THEN given[o]
                       ELSE IF o \in Flags THEN FALSE
                       ELSE IF o \in DOMAIN defaults THEN defaults[o]
                       ELSE None]

LauncherDefaults == [speca_eps |-> 1, speca_max_error_samples |-> 4096,
                     dicache_share_cfg_prefix |-> FALSE, sea_beta |-> 2000,
                     sea_proxy_downsample |-> 64]

WorkerDefaults == [taylorseer_refresh_first_n_steps |-> 1, taylorseer_refresh_last_n_steps |-> 0,
                   taylorseer_min_history |-> 2, speca_eps |-> 1, speca_max_error_samples |-> 4096,
                   sea_beta |-> 2000, sea_proxy_downsample |-> 64]

-----------------------------------------------------------------------------
(* The checks the two scripts share, on options that are given. *)

MustBePositive ==
    {"taylorseer_interval", "taylorseer_min_history", "speca_base_threshold",
     "speca_min_threshold", "speca_min_forecast_steps", "speca_max_forecast_steps",
     "speca_min_history", "speca_eps", "speca_max_error_samples", "dicache_probe_depth",
     "dicache_reuse_threshold", "dicache_eps", "dicache_max_stat_samples"}

MayBeZero ==
    {"taylorseer_max_order", "taylorseer_refresh_first_n_steps",
     "taylorseer_refresh_last_n_steps", "speca_max_order", "speca_first_full_steps",
     "dicache_gamma_min"}

InRange(a) ==
    /\ \A o \in MustBePositive : a[o] # None => a[o] > 0
    /\ \A o \in MayBeZero : a[o] # None => a[o] >= 0
    /\ a["speca_decay_rate"] # None => a["speca_decay_rate"] \in 1 .. 1000
    /\ a["dicache_ret_ratio"] # None => a["dicache_ret_ratio"] \in 0 .. 999

Ordered(a, low, high) == a[low] # None /\ a[high] # None => a[low] <= a[high]

\* The launcher compares two options only where both are given: what one of
\* them and the preset make together is left to the workers.
LauncherTakes(a) ==
    /\ InRange(a)
    /\ Ordered(a, "dicache_gamma_min", "dicache_gamma_max")
    /\ Ordered(a, "speca_min_forecast_steps", "speca_max_forecast_steps")
    /\ Ordered(a, "speca_min_threshold", "speca_base_threshold")

-----------------------------------------------------------------------------
(* Forwarding *)

OnlyFor(method) == (IF method = "speca_style" THEN {} ELSE SpeCaTaken)
                     \cup (IF method = "dicache_style" THEN {} ELSE {"dicache_share_cfg_prefix"})

\* slip: an option is passed on when its value is true, not when it is given
ForwardedIfTrue(a, method) ==
    LET passed == {o \in Options \ OnlyFor(method) :
                     a[o] # None /\ (o \in Flags => a[o] = TRUE)
                       /\ (o \in MayBeZero => a[o] > 0)}
    IN [o \in passed |-> a[o]]

\* The options on the command line of a worker: what is None or an unset flag
\* stays away.
Forwarded(a, method) ==
    LET passed == {o \in Options \ OnlyFor(method) :
                     a[o] # None /\ (o \in Flags => a[o] = TRUE)}
    IN [o \in passed |-> a[o]]

-----------------------------------------------------------------------------
(* The presets of get_jit_stage4a_methods *)

Methods == {"no_cache_50", "bfc_quality_t02_08", "bfc_speed_t02_10", "safe_bfc_quality",
            "safe_bfc_speed", "taylorseer_style", "taylorseer_quality_i3_o3", "speca_style",
            "dicache_style", "reduced_steps_35", "reduced_steps_30", "teacache_style",
            "seacache_style"}

TypeOf(method) ==
    CASE method = "no_cache_50" -> "reference"
      [] method \in {"reduced_steps_35", "reduced_steps_30"} -> "reduced_steps"
      [] method \in {"bfc_quality_t02_08", "bfc_speed_t02_10"} -> "cache"
      [] method \in {"safe_bfc_quality", "safe_bfc_speed"} -> "safe_cache"
      [] method \in {"taylorseer_style", "taylorseer_quality_i3_o3"} -> "forecast_cache"
      [] method = "speca_style" -> "speculative_cache"
      [] method = "dicache_style" -> "probe_cache"
      [] OTHER -> "dynamic_cache"

SeerPreset(n) == [taylorseer_interval |-> n, taylorseer_max_order |-> n,
                  taylorseer_refresh_first_n_steps |-> 1, taylorseer_refresh_last_n_steps |-> 0]

SpeCaPreset ==
    [speca_max_order |-> 4, speca_first_full_steps |-> 3, speca_base_threshold |-> 100,
     speca_decay_rate |-> 10, speca_min_threshold |-> 10, speca_min_forecast_steps |-> 2,
     speca_max_forecast_steps |-> 5, speca_error_metric |-> "relative_l1",
     speca_branch_aggregation |-> "mean", speca_verifier_module |-> "auto",
     speca_min_history |-> 2]

DiCachePreset ==
    [dicache_probe_depth |-> 1, dicache_reuse_threshold |-> 400,
     dicache_error_choice |-> "delta_y", dicache_branch_aggregation |-> "mean",
     dicache_ret_ratio |-> 200, dicache_force_last_step_full |-> TRUE,
     dicache_dcta_enabled |-> TRUE, dicache_gamma_min |-> 1000, dicache_gamma_max |-> 1500,
     dicache_eps |-> 1, dicache_max_stat_samples |-> 4096, dicache_share_cfg_prefix |-> FALSE]

Preset(method) ==
    CASE method = "taylorseer_style" -> SeerPreset(4)
      [] method = "taylorseer_quality_i3_o3" -> SeerPreset(3)
      [] method = "speca_style" -> SpeCaPreset
      [] method = "dicache_style" -> DiCachePreset
      [] method = "teacache_style" -> [dynamic_cache_threshold |-> 100]
      [] method = "seacache_style" -> [dynamic_cache_threshold |-> 60]
      [] OTHER -> << >>

-----------------------------------------------------------------------------
(* Resolving, in the worker *)

\* _speca_value, _dicache_value and their like: the option, else the preset's.
\* The defaults of the code repeat the presets' values.
Value(a, p, o) == IF a[o] # None THEN a[o] ELSE p[o]

\* `option or preset or 4': a zero counts as absent.
ValueIfTrue(a, p, o) == IF a[o] # None /\ a[o] # 0 THEN a[o] ELSE p[o]

TaylorSeerConfig(a, p) ==
    [o \in TaylorSeerOptions |->
       IF o \in {"taylorseer_interval", "taylorseer_max_order"} THEN ValueIfTrue(a, p, o)
       ELSE IF o \in {"taylorseer_min_history", "taylorseer_clone_forecast"} THEN a[o]
       ELSE Value(a, p, o)]

SpeCaConfig(a, p) ==
    [o \in SpeCaResolved \cup SpeCaTaken |-> IF o \in SpeCaTaken THEN a[o] ELSE Value(a, p, o)]

DiCacheConfig(a, p) ==
    [o \in DiCacheResolved \cup DiCacheTaken |->
       IF o \in DiCacheTaken THEN a[o] ELSE Value(a, p, o)]

DynamicConfig(a, p) ==
    [o \in DynamicOptions |-> IF o = "dynamic_cache_threshold" THEN Value(a, p, o) ELSE a[o]]

Resolved(a, method) ==
    LET p == Preset(method)
        type == TypeOf(method)
    IN CASE type = "forecast_cache" -> TaylorSeerConfig(a, p)
         [] type = "speculative_cache" -> SpeCaConfig(a, p)
         [] type = "probe_cache" -> DiCacheConfig(a, p)
         [] type = "dynamic_cache" -> DynamicConfig(a, p)
         [] OTHER -> << >>

\* The blocks of JiT-B/16; resolve_verifier_module refuses any other name.
TotalBlocks == 12
Verifiers == {"auto", "blocks.0", "blocks.1", "blocks.2", "blocks.3", "blocks.4", "blocks.5",
              "blocks.6", "blocks.7", "blocks.8", "blocks.9", "blocks.10", "blocks.11"}

\* The worker's own checks, on its options and on what they resolve to.
WorkerTakes(a, type, c) ==
    /\ InRange(a) /\ a["sea_proxy_downsample"] >= 0
    /\ type = "speculative_cache" =>
         /\ c["speca_verifier_module"] \in Verifiers
         /\ c["speca_min_threshold"] <= c["speca_base_threshold"]
         /\ c["speca_min_forecast_steps"] <= c["speca_max_forecast_steps"]
    /\ type = "probe_cache" =>
         /\ c["dicache_probe_depth"] \in 1 .. (TotalBlocks - 1)
         /\ c["dicache_gamma_min"] <= c["dicache_gamma_max"]

-----------------------------------------------------------------------------
(* The constructors, after the model is loaded *)

TaylorSeerBuilds(c) ==
    /\ c["taylorseer_interval"] > 0 /\ c["taylorseer_max_order"] >= 0
    /\ c["taylorseer_min_history"] > 0
    /\ c["taylorseer_refresh_first_n_steps"] >= 0 /\ c["taylorseer_refresh_last_n_steps"] >= 0

SpeCaBuilds(c) ==
    /\ c["speca_max_order"] >= 0 /\ c["speca_min_history"] > 0
    /\ c["speca_first_full_steps"] >= 0 /\ c["speca_min_forecast_steps"] > 0
    /\ c["speca_min_threshold"] \in 1 .. c["speca_base_threshold"]
    /\ c["speca_decay_rate"] \in 1 .. 1000
    /\ c["speca_min_forecast_steps"] <= c["speca_max_forecast_steps"]
    /\ c["speca_eps"] > 0 /\ c["speca_max_error_samples"] > 0
    /\ c["speca_verifier_module"] \in Verifiers

DiCacheBuilds(c) ==
    /\ c["dicache_probe_depth"] \in 1 .. (TotalBlocks - 1)
    /\ c["dicache_reuse_threshold"] > 0 /\ c["dicache_ret_ratio"] \in 0 .. 999
    /\ c["dicache_gamma_min"] \in 0 .. c["dicache_gamma_max"]
    /\ c["dicache_eps"] > 0 /\ c["dicache_max_stat_samples"] > 0

\* Neither script checks the threshold of the dynamic policies.
DynamicBuilds(c) == c["dynamic_cache_threshold"] > 0

Builds(type, c) ==
    /\ type = "forecast_cache" => TaylorSeerBuilds(c)
    /\ type = "speculative_cache" => SpeCaBuilds(c)
    /\ type = "probe_cache" => DiCacheBuilds(c)
    /\ type = "dynamic_cache" => DynamicBuilds(c)
=============================================================================
