------------------------------ MODULE DiCache ------------------------------
(***************************************************************************)
(* DiCachePolicy under sample_jit_dicache: every Euler step runs the first  *)
(* probe_depth blocks of both CFG branches, compares their features with    *)
(* the previous step's and decides for both branches at once, either to run *)
(* the remaining blocks (full) or to add an extrapolated residual (reuse).  *)
(*                                                                          *)
(* A relative L1 error is a number of Errors, doubled where branches are    *)
(* averaged; a probe residual is a member of Residuals; a raw gamma is one  *)
(* of the three intervals that gamma_min and gamma_max cut.                 *)
(***************************************************************************)
EXTENDS Integers, Sequences, FiniteSets, FiniteSetsExt

CONSTANTS
    Steps,          \* config.steps = policy.total_steps
    Batches,        \* batches of the formal run
    WarmupBatches,  \* --warmup-batches
    ProbeDepth, TotalBlocks,
    Errors,         \* values of a branch error
    Residuals,      \* values of a probe residual
    Configs         \* the policies to check

VARIABLES
    conf,        \* constructor arguments
    at,          \* between, decide, branches, finish
    formal,      \* warm-up is over
    batch, step,
    accumulated, \* accumulated_error, doubled
    seen,        \* the previous step's input and probe features are kept
    history,     \* per branch, its last two true refreshes
    pending,     \* gamma scalars still on the device
    counts,      \* _counts, and the counts of the running statistics
    reuse,       \* the decision of this step
    todo,        \* branches still to be computed in this step
    fellBack,    \* a DCTA result of this step was a fallback
    fulls,       \* history variable: full steps of this batch
    gone,        \* history variable: per branch, the errors since the last one
    work         \* history variable: block runs of the formal batches

control == <<at, formal, batch, step>>
ghosts == <<fulls, gone, work>>
vars == <<conf, control, accumulated, seen, history, pending, counts, reuse, todo, fellBack, ghosts>>

Branches == {"cond", "uncond"}
Order == <<"cond", "uncond">>
Reasons == {"force_full", "first_step", "retention_full", "last_step",
            "insufficient_history", "adaptive_threshold"}
Gammas == {"low", "within", "high"}

ConfigOK(c) ==
    /\ DOMAIN c = {"forced", "retention", "force_last", "threshold", "aggregation", "dcta"}
    /\ {c.forced, c.force_last, c.dcta} \subseteq BOOLEAN
    /\ c.retention \in 0 .. Steps - 1     \* int(ret_ratio * total_steps), ret_ratio < 1
    /\ c.threshold \in Nat \ {0}          \* reuse_threshold, doubled
    /\ c.aggregation \in {"mean", "max"}

ASSUME DiCacheAssumption ==
    /\ Steps \in Nat \ {0} /\ Batches \in Nat /\ WarmupBatches \in Nat
    /\ TotalBlocks \in Nat /\ ProbeDepth \in 1 .. TotalBlocks - 1
    /\ Errors \subseteq Nat
    /\ \A c \in Configs : ConfigOK(c)

-----------------------------------------------------------------------------
(* Statistics *)

Fields == Reasons \cup
    {"total", "reuse", "syncs", "decided", "calls", "degenerate", "short", "disabled",
     "gammas", "low", "high", "dcta_steps", "fallback_steps"}
NoCounts == [f \in Fields |-> 0]
NoGammas == [g \in Gammas |-> 0]

\* The fields named in S are each one more.
Counted(c, S) == [f \in Fields |-> IF f \in S THEN c[f] + 1 ELSE c[f]]

GammasOf(p) == p["low"] + p["within"] + p["high"]
FullSteps(c) == c["force_full"] + c["first_step"] + c["retention_full"] + c["last_step"]
                + c["insufficient_history"] + c["adaptive_threshold"]
Fallbacks(c) == c["degenerate"] + c["short"] + c["disabled"]

\* finalize_batch_statistics: one transfer of the pending gammas.
Flushed(c, p) ==
    [f \in Fields |-> IF f = "gammas" THEN c[f] + GammasOf(p)
                      ELSE IF f \in {"low", "high"} THEN c[f] + p[f] ELSE c[f]]

StatsKept(c) == c                          \* slip: the warm-up stays in the statistics
ResetStats(c) == NoCounts

\* summary: the block calls it derives from the step counts.
ActualBlockCalls(c) ==
    2 * (c["total"] * ProbeDepth + FullSteps(c) * (TotalBlocks - ProbeDepth))

-----------------------------------------------------------------------------
(* The state of a batch *)

NoHistory == [b \in Branches |-> <<>>]
Refresh == [batch : Nat, step : 0 .. Steps - 1, p : Residuals]

Init ==
    /\ conf \in Configs
    /\ at = "between" /\ formal = (WarmupBatches = 0) /\ batch = 0 /\ step = 0
    /\ accumulated = 0 /\ seen = FALSE /\ history = NoHistory
    /\ pending = NoGammas /\ counts = NoCounts
    /\ reuse = FALSE /\ todo = <<>> /\ fellBack = FALSE
    /\ fulls = <<>> /\ gone = [b \in Branches |-> 0] /\ work = 0

\* clear_batch flushes, then forgets the batch.
ClearBatch ==
    /\ accumulated' = 0 /\ seen' = FALSE /\ history' = NoHistory
    /\ pending' = NoGammas
    /\ fulls' = <<>> /\ gone' = [b \in Branches |-> 0]

StartBatch ==
    /\ at = "between"
    /\ batch < IF formal THEN Batches ELSE WarmupBatches
    /\ at' = "decide" /\ batch' = batch + 1 /\ step' = 0
    /\ ClearBatch
    /\ counts' = Flushed(counts, pending)
    /\ UNCHANGED <<conf, formal, reuse, todo, fellBack, work>>

-----------------------------------------------------------------------------
(* decide *)

\* released_flux_schedule_reason, "none" when the errors decide.
ScheduleReason ==
    IF conf.forced THEN "force_full"
    ELSE IF step = 0 THEN "first_step"
    ELSE IF step <= conf.retention THEN "retention_full"
    ELSE IF conf.force_last /\ step = Steps - 1 THEN "last_step"
    ELSE "none"

\* The doubled aggregate of the branch errors.
Aggregated(e) ==
    IF conf.aggregation = "mean" THEN e["cond"] + e["uncond"]
    ELSE 2 * Max({e["cond"], e["uncond"]})

HasFullHistory == \A b \in Branches : history[b] # <<>>

LatestError(e) == Aggregated(e)            \* slip: the errors are not accumulated
Candidate(e) == accumulated + Aggregated(e)
ShouldReuse(e) == Candidate(e) < conf.threshold

ReasonNow ==
    IF ScheduleReason # "none" THEN ScheduleReason
    ELSE IF ~seen \/ ~HasFullHistory THEN "insufficient_history"
    ELSE "adaptive_threshold"

\* The probes have run: the decision, shared by both branches.
Decide(e) ==
    LET reused == ReasonNow = "adaptive_threshold" /\ ShouldReuse(e)
    IN
    /\ at = "decide" /\ step < Steps
    /\ at' = "branches" /\ todo' = Order
    /\ reuse' = reused
    /\ accumulated' = IF reused THEN Candidate(e) ELSE 0
    /\ counts' = Counted(counts,
         {"total", IF reused THEN "reuse" ELSE ReasonNow}
           \cup {f \in {"syncs"} : seen}
           \cup {f \in {"decided"} : ReasonNow = "adaptive_threshold"})
    /\ fulls' = IF reused THEN fulls ELSE Append(fulls, step)
    /\ gone' = [b \in Branches |-> IF reused THEN gone[b] + e[b] ELSE 0]
    /\ work' = IF formal THEN work + 2 * ProbeDepth ELSE work
    /\ UNCHANGED <<conf, formal, batch, step, seen, history, pending, fellBack>>

-----------------------------------------------------------------------------
(* The branches *)

NextBranch ==
    /\ at = "branches"
    /\ todo' = Tail(todo)
    /\ at' = IF Len(todo) = 1 THEN "finish" ELSE "branches"
    /\ UNCHANGED <<conf, formal, batch, step, accumulated, seen, reuse>>

LastOne(s) == SubSeq(s, Len(s), Len(s))    \* slip: deque(maxlen=1)
\* deque(maxlen=2)
LastTwo(s) == IF Len(s) <= 2 THEN s ELSE SubSeq(s, Len(s) - 1, Len(s))

\* The deep blocks of a branch, and record_refresh.
RecordRefresh(p) ==
    LET b == Head(todo)
    IN
    /\ NextBranch /\ ~reuse
    /\ history' = [history EXCEPT ![b] =
                     LastTwo(Append(@, [batch |-> batch, step |-> step, p |-> p]))]
    /\ work' = IF formal THEN work + TotalBlocks - ProbeDepth ELSE work
    /\ UNCHANGED <<pending, counts, fellBack, fulls, gone>>

\* The reasons approximate_residual returns the latest true residual for.
Fallback(h) ==
    IF ~conf.dcta THEN "disabled"
    ELSE IF Len(h) < 2 THEN "short"
    ELSE IF h[1].p = h[2].p THEN "degenerate"
    ELSE "none"

\* approximate_residual; gamma is the interval of the raw gamma.
Approximate(gamma) ==
    LET why == Fallback(history[Head(todo)])
    IN
    /\ NextBranch /\ reuse
    /\ counts' = Counted(counts, {"calls", why})
    /\ pending' = IF why = "none" THEN [pending EXCEPT ![gamma] = @ + 1] ELSE pending
    /\ fellBack' = (fellBack \/ why # "none")
    /\ UNCHANGED <<history, ghosts>>

-----------------------------------------------------------------------------
(* The end of a step, of a batch and of the warm-up *)

FinishStep ==
    /\ at = "finish"
    /\ at' = "decide" /\ step' = step + 1
    /\ seen' = TRUE
    /\ counts' = Counted(counts, {f \in {"dcta_steps"} : reuse}
                                  \cup {f \in {"fallback_steps"} : fellBack})
    /\ reuse' = FALSE /\ fellBack' = FALSE
    /\ UNCHANGED <<conf, formal, batch, accumulated, history, pending, todo, ghosts>>

EndBatch ==
    /\ at = "decide" /\ step = Steps
    /\ at' = "between"
    /\ counts' = Flushed(counts, pending) /\ pending' = NoGammas
    /\ UNCHANGED <<conf, formal, batch, step, accumulated, seen, history, reuse, todo, fellBack, ghosts>>

\* reset_runtime_state, then reset_stats.
EndWarmup ==
    /\ at = "between" /\ ~formal /\ batch = WarmupBatches
    /\ formal' = TRUE /\ batch' = 0
    /\ ClearBatch
    /\ counts' = ResetStats(Flushed(counts, pending))
    /\ UNCHANGED <<conf, at, step, reuse, todo, fellBack, work>>

Finished ==
    /\ at = "between" /\ formal /\ batch = Batches
    /\ UNCHANGED vars

Next ==
    \/ StartBatch
    \/ \E e \in [Branches -> Errors] : Decide(e)
    \/ \E p \in Residuals : RecordRefresh(p)
    \/ \E gamma \in Gammas : Approximate(gamma)
    \/ FinishStep
    \/ EndBatch
    \/ EndWarmup
    \/ Finished

Spec == Init /\ [][Next]_vars

-----------------------------------------------------------------------------
(* Properties *)

TypeOK ==
    /\ conf \in Configs
    /\ at \in {"between", "decide", "branches", "finish"}
    /\ formal \in BOOLEAN /\ batch \in Nat /\ step \in 0 .. Steps
    /\ accumulated \in Nat /\ {seen, reuse, fellBack} \subseteq BOOLEAN
    /\ history \in [Branches -> Seq(Refresh)] /\ \A b \in Branches : Len(history[b]) <= 2
    /\ pending \in [Gammas -> Nat] /\ counts \in [Fields -> Nat]
    /\ todo \in {<<>>, <<"uncond">>, Order}
    /\ fulls \in Seq(Nat) /\ gone \in [Branches -> Nat] /\ work \in Nat

\* A branch whose turn in a full step is still to come.
Waiting(b) == at = "branches" /\ ~reuse /\ \E k \in DOMAIN todo : todo[k] = b

\* The histories of both branches hold the same two last full steps of this
\* batch: approximate_residual pairs residuals that belong together, and no
\* extrapolated residual was ever recorded.
FullsOf(b) == IF Waiting(b) THEN SubSeq(fulls, 1, Len(fulls) - 1) ELSE fulls

Mirrors(h, steps, of) ==
    /\ Len(h) = IF Len(steps) < 2 THEN Len(steps) ELSE 2
    /\ \A k \in 1 .. Len(h) : /\ h[k].step = steps[Len(steps) - Len(h) + k]
                             /\ h[k].batch = of

HistoryIsTrue == at # "between" => \A b \in Branches : Mirrors(history[b], FullsOf(b), batch)

\* accumulated_error covers what each branch moved since its last full step.
AccumulatedCovers ==
    /\ at # "between" => Aggregated(gone) <= accumulated
    /\ accumulated > 0 => accumulated < conf.threshold

\* What the points of the sampler's loop say of the step in progress.
Control ==
    /\ at = "branches" <=> todo # <<>>
    /\ at \in {"branches", "finish"} => step < Steps
    /\ at \in {"between", "decide"} => ~reuse /\ ~fellBack
    /\ at \in {"branches", "finish"} =>
         /\ fulls # <<>>
         /\ IF reuse THEN seen ELSE fulls[Len(fulls)] = step

\* The inductive invariant: at every point of the loop the histories mirror the
\* full steps made, and the accumulated error covers the movement since.
IInv == TypeOK /\ Control /\ HistoryIsTrue /\ AccumulatedCovers

\* A residual is only reused on a step that follows a full step of the same
\* batch, while the errors since then stay below the threshold (docs, "Online
\* Probe Profiling"): under max those of either branch; under mean those of both
\* on average, so that one branch alone may have passed the threshold, but not
\* twice the threshold.
ReuseEarned ==
    reuse => /\ fulls # <<>> /\ seen
             /\ \A b \in Branches :
                  /\ history[b] # <<>>
                  /\ history[b][Len(history[b])].step = fulls[Len(fulls)]
                  /\ gone[b] < conf.threshold            \* twice the threshold
                  /\ conf.aggregation = "max" => 2 * gone[b] < conf.threshold
             /\ conf.aggregation = "mean" => gone["cond"] + gone["uncond"] < conf.threshold

\* The statistics of a formal run describe its batches and nothing of the
\* warm-up: one decision a step, one DCTA call a branch of a reused step, each
\* a fallback or a gamma, and the block calls that were really made.
StatsOfFormalRun ==
    formal =>
      /\ counts["total"] = counts["reuse"] + FullSteps(counts)
      /\ counts["calls"] = Fallbacks(counts) + counts["gammas"] + GammasOf(pending)
      /\ at = "between" =>
           /\ pending = NoGammas
           /\ counts["total"] = batch * Steps
           /\ counts["syncs"] = batch * (Steps - 1)
           /\ counts["calls"] = 2 * counts["reuse"] /\ counts["dcta_steps"] = counts["reuse"]
           /\ counts["fallback_steps"] <= Fallbacks(counts)
           /\ Fallbacks(counts) <= 2 * counts["fallback_steps"]
           /\ counts["decided"] = counts["reuse"] + counts["adaptive_threshold"]
           /\ counts["first_step"] + counts["force_full"] >= batch
           /\ ActualBlockCalls(counts) = work

=============================================================================
