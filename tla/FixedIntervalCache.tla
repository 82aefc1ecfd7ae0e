------------------------- MODULE FixedIntervalCache -------------------------
(***************************************************************************)
(* FixedIntervalCachePolicy (BoundaryFlowCache's own policy) deciding for   *)
(* the modules of CacheRuntime: reuse inside an active window of steps or   *)
(* timesteps, refresh every interval-th step, and delay the first reuses of *)
(* a window by `active_window_warmup_refreshes' forced refreshes.           *)
(***************************************************************************)
EXTENDS CacheRuntime, FiniteSets

CONSTANT Configs   \* the policy configurations a run may start with

VARIABLES
    cfg,           \* the configuration of this process, never reassigned
    refreshCount,  \* _active_window_refresh_counts, None where absent
    lastStep       \* _active_window_last_steps, None where absent

policyVars == <<cfg, refreshCount, lastStep>>
vars == <<driverVars, cacheVars, policyVars>>

\* The constructor's checks, on a record of its arguments.
ConfigOK(c) ==
    /\ DOMAIN c = {"enabled", "interval", "cache_modules", "warmup_steps", "cooldown_steps",
                   "max_steps", "refresh_first_step", "cache_cond", "cache_uncond",
                   "solver_stages", "active_t_min", "active_t_max", "active_step_min",
                   "active_step_max", "active_window_warmup_refreshes"}
    /\ {c.enabled, c.refresh_first_step, c.cache_cond, c.cache_uncond} \subseteq BOOLEAN
    /\ c.interval \in Nat \ {0}
    /\ c.cache_modules \subseteq Modules /\ c.solver_stages \subseteq Stages
    /\ {c.warmup_steps, c.cooldown_steps, c.active_window_warmup_refreshes} \subseteq Nat
    /\ {c.max_steps, c.active_t_min, c.active_t_max, c.active_step_min, c.active_step_max}
         \subseteq Nat \cup {None}

ASSUME ConfigAssumption == \A c \in Configs : ConfigOK(c)

WindowKeys == Modules \X Branches

-----------------------------------------------------------------------------
(* _active_for_context *)

BranchEnabled(b) == /\ b = "cond"   => cfg.cache_cond
                    /\ b = "uncond" => cfg.cache_uncond

InSteps(s) ==
    /\ s >= cfg.warmup_steps
    /\ cfg.max_steps # None => s < cfg.max_steps
    /\ cfg.max_steps # None /\ cfg.cooldown_steps > 0 => s < cfg.max_steps - cfg.cooldown_steps
    /\ cfg.active_step_min # None => s >= cfg.active_step_min
    /\ cfg.active_step_max # None => s < cfg.active_step_max

InTimes(t) ==
    /\ cfg.active_t_min # None => t >= cfg.active_t_min
    /\ cfg.active_t_max # None => t < cfg.active_t_max

ActiveFor(m, b, st, s, t) ==
    /\ cfg.enabled /\ m \in cfg.cache_modules /\ BranchEnabled(b) /\ st \in cfg.solver_stages
    /\ InSteps(s) /\ InTimes(t)

Active == ActiveFor(module, context.branch, context.stage, context.step, context.t)

\* The refreshes should_refresh owes whatever the window's warm-up says.
ScheduledRefresh(s) ==
    \/ cfg.interval = 1
    \/ cfg.refresh_first_step /\ s = 0
    \/ s % cfg.interval = 0

-----------------------------------------------------------------------------
(* _consume_active_window_warmup_refresh: the query changes the counters. *)

WindowKey == <<module, context.branch>>

StepNeverWentBack == FALSE   \* slip: the counters survive into the next batch
StepWentBack == lastStep[WindowKey] # None /\ context.step < lastStep[WindowKey]

\* The count the query starts from: a smaller step means a new batch.
CountSeen == IF StepWentBack THEN 0 ELSE refreshCount[WindowKey]

WarmupPending == CountSeen < cfg.active_window_warmup_refreshes

\* A query that owes a refresh counts it once per step.
CountAfter == IF WarmupPending /\ lastStep[WindowKey] # context.step
              THEN CountSeen + 1 ELSE CountSeen

ConsumeWarmup ==
    IF cfg.active_window_warmup_refreshes = 0
    THEN UNCHANGED <<refreshCount, lastStep>>
    ELSE /\ refreshCount' = [refreshCount EXCEPT ![WindowKey] = CountAfter]
         /\ lastStep' = [lastStep EXCEPT ![WindowKey] = context.step]

-----------------------------------------------------------------------------
(* CachedModule.forward under this policy, one action per way through it. *)

Call(m) == at = "module" /\ module = m /\ Advance

\* Outside the window the policy is not even asked.
ForwardInactive(m) ==
    /\ Call(m) /\ ~Active
    /\ Bypass(m)
    /\ UNCHANGED policyVars

\* Nothing stored yet: compute without asking should_reuse.
ForwardMiss(m) ==
    /\ Call(m) /\ Active /\ EntryOf(m) = None
    /\ Compute(m)
    /\ UNCHANGED policyVars

\* should_reuse says no because the interval refreshes here.
ForwardScheduled(m) ==
    /\ Call(m) /\ Active /\ EntryOf(m) # None
    /\ ScheduledRefresh(context.step)
    /\ Compute(m)
    /\ UNCHANGED policyVars

\* should_reuse says no because the window is still warming up.
ForwardWarmup(m) ==
    /\ Call(m) /\ Active /\ EntryOf(m) # None
    /\ ~ScheduledRefresh(context.step) /\ WarmupPending
    /\ ConsumeWarmup
    /\ Compute(m)
    /\ UNCHANGED cfg

\* should_reuse says yes: the entry is served if its signature still matches.
ForwardReuse(m) ==
    /\ Call(m) /\ Active /\ EntryOf(m) # None
    /\ ~ScheduledRefresh(context.step) /\ ~WarmupPending
    /\ ConsumeWarmup
    /\ IF EntryMatches(EntryOf(m)) THEN Serve(m) ELSE Compute(m)
    /\ UNCHANGED cfg

Forward(m) ==
    \/ ForwardInactive(m) \/ ForwardMiss(m) \/ ForwardScheduled(m)
    \/ ForwardWarmup(m) \/ ForwardReuse(m)

-----------------------------------------------------------------------------

Init ==
    /\ RuntimeInit
    /\ cfg \in Configs
    /\ refreshCount = [k \in WindowKeys |-> 0]
    /\ lastStep = [k \in WindowKeys |-> None]

\* The driver's steps leave the policy alone: it has no reset to call, neither
\* at the start of a batch nor after the warm-up batches.
Drive == BeginBatch \/ SetContext \/ SkipEval \/ EndStep \/ EndWarmup

Terminated == Finished /\ UNCHANGED vars

Next ==
    \/ Drive /\ UNCHANGED policyVars
    \/ \E m \in Modules : Forward(m)
    \/ Terminated

Spec == Init /\ [][Next]_vars

-----------------------------------------------------------------------------
(* Properties *)

TypeOK ==
    /\ sampler \in SamplerNames /\ at \in {"batch", "pass", "module", "reset"}
    /\ batch \in 1..(WarmupBatches + Batches + 1) /\ size \in BatchSizes
    /\ step \in StepIdx /\ pass \in 1..3 /\ module \in Modules
    /\ context \in Context /\ session \in Nat
    /\ entries \in [Keys -> Entry \cup {None}] /\ stats \in Stats
    /\ cfg \in Configs
    /\ refreshCount \in [WindowKeys -> Nat] /\ lastStep \in [WindowKeys -> StepIdx \cup {None}]

Reused == Sampling /\ served.how = "reuse"

\* A reused output was computed for the batch that is being sampled, at an
\* earlier step and by the same module, branch and solver stage: nothing leaks
\* from a previous or a warm-up batch, although no key and (in the scripts) no
\* session names the batch (RuntimeCacheState.begin_batch, CachedModule.forward).
NoStaleBatch == Reused => served.batch = batch /\ served.from < served.step

\* A reused output is less than `interval' steps old: the multiples of the
\* interval inside the window refresh it (FixedIntervalCachePolicy.should_refresh).
AgeBelowInterval == Reused => served.step - served.from < cfg.interval

(* What the policy's documentation describes, as a function of the step alone. *)

EvaluatedAt(b, st, s) ==
    Runs(st, s) /\ \E i \in 1..Len(Evals) : Evals[i] = Eval(b, st)

ActiveAt(m, b, st, s) == EvaluatedAt(b, st, s) /\ ActiveFor(m, b, st, s, TimeOf(st, s))

\* A step at which an entry of this window exists and the interval allows reuse.
Candidate(m, b, st, s) ==
    /\ ActiveAt(m, b, st, s) /\ ~ScheduledRefresh(s)
    /\ m \notin NonTensorModules /\ \E u \in 0..(s - 1) : ActiveAt(m, b, st, u)

ReusesAt(m, b, st, s) ==
    /\ Candidate(m, b, st, s)
    /\ cfg.active_window_warmup_refreshes
         <= Cardinality({u \in 0..(s - 1) : Candidate(m, b, st, u)})

\* The counters, queried once per call, realise that function in every batch:
\* all modules of an evaluation agree, batches behave alike, and exactly the
\* first `active_window_warmup_refreshes' candidates of a batch are refreshed
\* (_consume_active_window_warmup_refresh and its reset when the step goes back).
MatchesSchedule ==
    Sampling /\ served.how # "nothing" =>
        LET c == <<served.module, served.branch, served.stage, served.step>> IN
        /\ served.how = "reuse"  <=> ReusesAt(c[1], c[2], c[3], c[4])
        /\ served.how = "bypass" <=> ~ActiveAt(c[1], c[2], c[3], c[4])

-----------------------------------------------------------------------------
(* The inductive invariant behind NoStaleBatch and AgeBelowInterval. *)

\* This step has already called the module in this branch and stage.
CalledThisStep(m, b, st) ==
    \E i \in 1..Len(Evals) : /\ Evals[i] = Eval(b, st)
                             /\ i < pass \/ (i = pass /\ at = "module" /\ m < module)

\* An entry is of this batch, was stored by an active call, and every call
\* since that the interval scheduled would have replaced it.
EntryCurrent(m, b, st, n) ==
    LET e == entries[<<m, b, st, n>>] IN
    e # None =>
        /\ e.batch = batch /\ n = size /\ m \notin NonTensorModules
        /\ e.step <= step /\ (e.step = step => CalledThisStep(m, b, st))
        /\ ActiveAt(m, b, st, e.step)
        /\ \A u \in (e.step + 1)..step :
             (u < step \/ CalledThisStep(m, b, st)) /\ ActiveAt(m, b, st, u) => ~ScheduledRefresh(u)

EntriesCurrent ==
    Sampling => \A m \in Modules, b \in Branches, st \in Stages, n \in BatchSizes :
                    EntryCurrent(m, b, st, n)

\* The inductive invariant: every entry that may still be served is of this
\* batch and younger than the interval allows.
IInv == TypeOK /\ Control /\ EntriesCurrent /\ NoStaleBatch /\ AgeBelowInterval

-----------------------------------------------------------------------------
(* What a consumer of the outputs relies on: BoundedReuse. *)

Streams == Modules \X Branches \X Stages

Held == [s \in Streams |-> LET e == entries[<<s[1], s[2], s[3], size>>]
                           IN IF e = None THEN None ELSE e.step]

Output == IF served.how = "nothing" THEN None
          ELSE [stream |-> <<served.module, served.branch, served.stage>>,
                now |-> served.step, from |-> served.from, batch |-> served.batch]

Contract == INSTANCE BoundedReuse WITH
    limit <- cfg.interval, now <- step, held <- Held, output <- Output,
    batch <- IF Sampling THEN batch ELSE batch - 1

\* The cache implements BoundedReuse with the interval as the age limit.
ImplementsContract == Contract!Spec
=============================================================================
