------------------------------ MODULE MCReuse ------------------------------
(* Small instances of the policies that reuse outputs unchanged for as long   *)
(* as a signal (DynamicCache) or a calibrated table (SafeMapCache) allows.   *)
EXTENDS ReuseWorker

\* The scripts' defaults; a threshold of 2 lets the proxy move once or twice.
Watched == [enabled |-> TRUE, threshold |-> 2, force_first_step_refresh |-> TRUE,
            force_first_n_steps |-> 0, min_t |-> None, max_t |-> None, per_branch |-> FALSE,
            cache_modules |-> Modules, cache_cond |-> TRUE, cache_uncond |-> TRUE,
            solver_stages |-> {"euler", "heun_predictor", "heun_corrector"}]

WatchedConfigs ==
    { Watched, [Watched EXCEPT !.per_branch = TRUE],
      [Watched EXCEPT !.force_first_n_steps = 2],
      [Watched EXCEPT !.min_t = 1, !.max_t = 3, !.force_first_step_refresh = FALSE],
      [Watched EXCEPT !.cache_modules = {1}, !.cache_uncond = FALSE],
      [Watched EXCEPT !.enabled = FALSE] }

\* Calibrated ages of two boundaries: A rests on every step, B on the later ones,
\* where one step is unsafe at age 1 only and one is missing.
RowA == [s \in StepIdx \ {0} |-> IF s = 3 THEN <<TRUE, FALSE>> ELSE <<TRUE, TRUE, TRUE>>]
RowB == [s \in StepIdx \ {0, 2} |-> IF s = 3 THEN <<FALSE, TRUE>> ELSE <<TRUE, TRUE>>]
Row2 == [A |-> RowA, B |-> RowB]
RowU == [A |-> [s \in StepIdx |-> <<TRUE>>]]

\* The last module is a boundary of its own.
TwoToOne == [m \in Modules |-> IF m = NumModules THEN "B" ELSE "A"]

Mapped == [enabled |-> TRUE, boundary |-> TwoToOne, branches |-> {"global"},
           fallback |-> TRUE, default_safe |-> FALSE, max_age |-> 2,
           safe |-> [global |-> Row2]]

MappedConfigs ==
    { Mapped,
      [Mapped EXCEPT !.default_safe = TRUE, !.max_age = 3],
      [Mapped EXCEPT !.branches = {"cond", "uncond"}, !.safe = [cond |-> Row2, uncond |-> RowU]],
      [Mapped EXCEPT !.branches = {"cond", "uncond"}, !.safe = [cond |-> RowU, global |-> Row2]],
      [Mapped EXCEPT !.branches = {"cond", "uncond"}, !.safe = [cond |-> Row2]],
      [Mapped EXCEPT !.branches = {"cond"}, !.fallback = FALSE, !.safe = [cond |-> Row2]],
      [Mapped EXCEPT !.branches = {"cond"}],
      [Mapped EXCEPT !.boundary = [m \in {1} |-> "A"]],
      [Mapped EXCEPT !.enabled = FALSE] }
=============================================================================
