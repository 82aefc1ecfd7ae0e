---------------------------- MODULE DynamicCache ----------------------------
(***************************************************************************)
(* The TeaCache- and SeaCache-style baselines: RawAccumulatedDistancePolicy *)
(* watches a cheap proxy of the sampler's state and adds up how far it      *)
(* moved since the last refresh; DynamicPolicyAdapter answers the wrapped   *)
(* modules of CacheRuntime from the last decision.                          *)
(*                                                                          *)
(* Distances are naturals from a small set.  The SEA filter of the SeaCache *)
(* style changes which distance is measured, not what is done with it.      *)
(***************************************************************************)
EXTENDS CacheRuntime

CONSTANTS Configs,   \* the policy configurations a run may start with
          Distances  \* what relative_l1 may return

VARIABLES
    cfg,          \* the arguments of the policy and of its adapter
    seen,         \* the signals with a previous proxy (_previous)
    accumulated,  \* _accumulated, per signal
    decision,     \* _decisions, None where absent
    counters,     \* total_steps, refresh_steps, reuse_steps, forced_refresh_steps
    moved,        \* distance between the last two proxies
    drift         \* ghost: per key, distance observed since its entry was computed

policyVars == <<cfg, seen, accumulated, decision, counters>>
observation == <<seen, accumulated, decision, counters, moved>>
vars == <<driverVars, cacheVars, policyVars, moved, drift>>

ConfigOK(c) ==
    /\ DOMAIN c = {"enabled", "threshold", "force_first_step_refresh", "force_first_n_steps",
                   "min_t", "max_t", "per_branch", "cache_modules", "cache_cond",
                   "cache_uncond", "solver_stages"}
    /\ {c.enabled, c.force_first_step_refresh, c.per_branch, c.cache_cond, c.cache_uncond}
         \subseteq BOOLEAN
    /\ c.threshold \in Nat \ {0} /\ c.force_first_n_steps \in Nat
    /\ {c.min_t, c.max_t} \subseteq Nat \cup {None}
    /\ c.cache_modules \subseteq Modules /\ c.solver_stages \subseteq Stages

ASSUME DynamicAssumption ==
    /\ \A c \in Configs : ConfigOK(c)
    /\ Distances \subseteq Nat /\ Distances # {}

-----------------------------------------------------------------------------
(* RawAccumulatedDistancePolicy *)

\* The proxies of one signal are compared with each other.
Shared == <<"global", "global">>
Signals == (Branches \X Stages) \cup {Shared}

SignalOf(b, st) == IF cfg.per_branch THEN <<b, st>> ELSE Shared

Decision == [step : StepIdx, refresh : BOOLEAN, forced : BOOLEAN]

ASSUME DecisionAssumption == None \notin Decision

Counters == [{"total", "refresh", "reuse", "forced"} -> Nat]
NoCounts == [f \in {"total", "refresh", "reuse", "forced"} |-> 0]

ClearBatch ==
    /\ seen' = {}
    /\ accumulated' = [g \in Signals |-> 0]
    /\ decision' = [g \in Signals |-> None]

Reset == ClearBatch /\ counters' = NoCounts

OutsideWindow(t) == \/ cfg.min_t # None /\ t < cfg.min_t
                    \/ cfg.max_t # None /\ t >= cfg.max_t

Forced(g, s, t) ==
    \/ ~cfg.enabled
    \/ OutsideWindow(t)
    \/ g \notin seen
    \/ cfg.force_first_step_refresh /\ s = 0
    \/ s < cfg.force_first_n_steps

AccumulateOnly(g, d) == d               \* slip: only the last distance counts
Accumulate(g, d) == accumulated[g] + d

KeptAfterRefresh(refresh, a) == a       \* slip: a refresh leaves the sum
Kept(refresh, a) == IF refresh THEN 0 ELSE a

\* update(): the proxy moved by d since the signal's previous one.
Update(g, s, t, d) ==
    LET forced  == Forced(g, s, t)
        refresh == forced \/ Accumulate(g, d) > cfg.threshold
    IN
    /\ seen' = seen \cup {g}
    /\ accumulated' = [accumulated EXCEPT ![g] = Kept(refresh, Accumulate(g, d))]
    /\ decision' = [decision EXCEPT ![g] = [step |-> s, refresh |-> refresh, forced |-> forced]]
    /\ counters' = [f \in DOMAIN counters |->
                      counters[f] + (IF \/ f = "total"
                                        \/ f = "refresh" /\ refresh
                                        \/ f = "reuse" /\ ~refresh
                                        \/ f = "forced" /\ forced THEN 1 ELSE 0)]

-----------------------------------------------------------------------------
(* DynamicPolicyAdapter *)

BranchEnabled(b) == /\ b = "cond"   => cfg.cache_cond
                    /\ b = "uncond" => cfg.cache_uncond

\* is_active ignores the window: outside it the decision forces a refresh.
Active(m) ==
    /\ cfg.enabled /\ context.stage \in cfg.solver_stages
    /\ m \in cfg.cache_modules /\ BranchEnabled(context.branch)

DecisionNow == decision[SignalOf(context.branch, context.stage)]

ShouldRefresh == \/ DecisionNow = None
                 \/ DecisionNow.step # context.step
                 \/ DecisionNow.refresh

-----------------------------------------------------------------------------
(* The samplers: the proxy is observed just before the evaluation. *)

\* With one signal for both branches the JiT sampler updates it once per step.
Observes(b) == (sampler = "jit" /\ b = "uncond") => cfg.per_branch

\* JiT's uncond branch is given the state the cond branch saw.
DistancesFor(b) == IF sampler = "jit" /\ b = "uncond" THEN {moved} ELSE Distances

SignalOfKey(k) == SignalOf(k[2], k[3])

Observe(b, st) ==
    \E d \in DistancesFor(b) :
        /\ Update(SignalOf(b, st), step, TimeOf(st, step), d)
        /\ moved' = d
        /\ drift' = [k \in Keys |-> IF SignalOfKey(k) = SignalOf(b, st) THEN drift[k] + d
                                    ELSE drift[k]]

StartEval ==
    /\ SetContext
    /\ LET e == Evals[pass] IN
       IF Observes(e.branch) THEN Observe(e.branch, e.stage)
       ELSE UNCHANGED <<observation, drift>>
    /\ UNCHANGED cfg

-----------------------------------------------------------------------------
(* CachedModule.forward under this policy. *)

Call(m) == at = "module" /\ module = m /\ Advance

\* What is computed has not moved from what was computed.
Computed(m) ==
    /\ Compute(m)
    /\ drift' = [drift EXCEPT ![KeyOf(m)] = 0]

ForwardInactive(m) ==
    /\ Call(m) /\ ~Active(m)
    /\ Bypass(m)
    /\ UNCHANGED <<policyVars, moved, drift>>

ForwardMiss(m) ==
    /\ Call(m) /\ Active(m) /\ EntryOf(m) = None
    /\ Computed(m)
    /\ UNCHANGED <<policyVars, moved>>

ForwardRefresh(m) ==
    /\ Call(m) /\ Active(m) /\ EntryOf(m) # None /\ ShouldRefresh
    /\ Computed(m)
    /\ UNCHANGED <<policyVars, moved>>

ForwardReuse(m) ==
    /\ Call(m) /\ Active(m) /\ EntryOf(m) # None /\ ~ShouldRefresh
    /\ IF EntryMatches(EntryOf(m)) THEN Serve(m) /\ UNCHANGED drift ELSE Computed(m)
    /\ UNCHANGED <<policyVars, moved>>

Forward(m) ==
    ForwardInactive(m) \/ ForwardMiss(m) \/ ForwardRefresh(m) \/ ForwardReuse(m)

-----------------------------------------------------------------------------

Init ==
    /\ RuntimeInit
    /\ cfg \in Configs /\ (sampler = "deco" => ~cfg.per_branch)
    /\ seen = {} /\ accumulated = [g \in Signals |-> 0] /\ decision = [g \in Signals |-> None]
    /\ counters = NoCounts /\ moved = 0 /\ drift = [k \in Keys |-> 0]

\* The samplers clear the policy with the cache.
StartBatch ==
    /\ BeginBatch /\ ClearBatch
    /\ moved' = 0 /\ drift' = [k \in Keys |-> 0]
    /\ UNCHANGED <<cfg, counters>>

\* The JiT script resets the policy with the cache.
LeaveWarmup ==
    /\ EndWarmup /\ Reset
    /\ UNCHANGED <<cfg, moved, drift>>

Terminated == Finished /\ UNCHANGED vars

Next ==
    \/ StartBatch \/ StartEval \/ LeaveWarmup
    \/ (SkipEval \/ EndStep) /\ UNCHANGED <<policyVars, moved, drift>>
    \/ \E m \in Modules : Forward(m)
    \/ Terminated

Spec == Init /\ [][Next]_vars

-----------------------------------------------------------------------------
(* Properties *)

TypeOK ==
    /\ sampler \in SamplerNames /\ at \in {"batch", "pass", "module", "reset"}
    /\ batch \in 1..(WarmupBatches + Batches + 1) /\ size \in BatchSizes
    /\ step \in StepIdx /\ pass \in 1..3 /\ module \in Modules
    /\ context \in Context /\ session \in Nat
    /\ entries \in [Keys -> Entry \cup {None}] /\ stats \in Stats
    /\ cfg \in Configs /\ seen \subseteq Signals
    /\ accumulated \in [Signals -> Nat] /\ decision \in [Signals -> Decision \cup {None}]
    /\ counters \in Counters /\ moved \in Nat /\ drift \in [Keys -> Nat]

\* The last answer was a reuse, and nothing was observed since.
ReusedNow ==
    /\ Sampling /\ served.how = "reuse"
    /\ <<served.step, served.branch, served.stage>> = <<context.step, context.branch, context.stage>>
ServedKey == <<served.module, served.branch, served.stage, size>>

\* A reused output is only served while its proxy has moved at most `threshold'
\* since it was computed, whatever the steps that forced, skipped or missed a
\* refresh in between (RawAccumulatedDistancePolicy.update and the adapter).
DriftBounded == ReusedNow => drift[ServedKey] <= cfg.threshold

\* The two branches that classifier-free guidance combines are never of
\* different ages: JiT's cond and uncond entries of a module come from the same
\* step, with one shared signal or with one each (sample_jit).
BranchesInStep ==
    sampler = "jit" /\ at = "pass" /\ pass = 3 /\ cfg.cache_cond /\ cfg.cache_uncond =>
        \A m \in Modules :
            LET cond   == entries[<<m, "cond", "euler", size>>]
                uncond == entries[<<m, "uncond", "euler", size>>]
            IN (cond = None <=> uncond = None) /\ (cond # None => cond.step = uncond.step)

\* An exact Heun run with one signal for both stages is not bounded: see DriftBounded.
Separated == sampler = "pixelgen_exact" => cfg.per_branch

\* The model will be asked for the key again (approximate Heun predicts once).
AskedAgain(k) == ~(sampler = "pixelgen" /\ k[3] = "heun_predictor")

\* The signal's decision of this step refreshes the key, which has not been
\* called since.
RefreshOwed(k) ==
    LET d == decision[SignalOfKey(k)]
    IN /\ d # None /\ d.refresh /\ d.step = step
       /\ \E i \in pass..Len(Evals) :
            /\ Evals[i] = Eval(k[2], k[3])
            /\ i = pass /\ at = "module" => module <= k[1]

\* Why the drift is bounded: what an entry has moved is in its signal's sum,
\* which is at most the threshold, unless the entry is about to be refreshed.
SumCoversDrift ==
    /\ \A g \in Signals : accumulated[g] <= cfg.threshold
    /\ Sampling /\ Separated =>
         \A k \in Keys : entries[k] # None /\ AskedAgain(k) /\ ~RefreshOwed(k) =>
                           drift[k] <= accumulated[SignalOfKey(k)]

-----------------------------------------------------------------------------

Streams == Modules \X Branches \X Stages

Held == [s \in Streams |-> LET e == entries[<<s[1], s[2], s[3], size>>]
                           IN IF e = None THEN None ELSE e.step]

Output == IF served.how = "nothing" THEN None
          ELSE [stream |-> <<served.module, served.branch, served.stage>>,
                now |-> served.step, from |-> served.from, batch |-> served.batch]
=============================================================================
