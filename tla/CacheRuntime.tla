---------------------------- MODULE CacheRuntime ----------------------------
(***************************************************************************)
(* The runtime every cache policy of pfc/ runs on: RuntimeCacheState, the   *)
(* cache effects of CachedModule.forward, and the loop of the samplers that *)
(* calls the wrapped modules one after the other.                           *)
(*                                                                          *)
(* Tensors are abstracted to their provenance: an entry remembers the batch *)
(* and the step whose evaluation produced the tensor, and `served' says     *)
(* what the last CachedModule.forward returned.  A policy module EXTENDS    *)
(* this one and decides, per call, which of Bypass, Compute and Serve runs. *)
(***************************************************************************)
EXTENDS Integers, Sequences

CONSTANTS
    Samplers,          \* which samplers may drive the run
    NumModules,        \* wrapped modules, called in the order 1..NumModules
    Steps,             \* sampling steps of one batch (config.steps)
    Batches,           \* batches of the formal run
    WarmupBatches,     \* --warmup-batches, run before the formal ones
    BatchSizes,        \* sizes a batch may have: the last one may be short
    NonTensorModules,  \* wrapped modules whose output is not a tensor
    None               \* Python's None

SamplerNames == {"jit", "deco", "pixelgen", "pixelgen_exact"}

ASSUME RuntimeAssumption ==
    /\ Samplers \subseteq SamplerNames /\ Samplers # {}
    /\ NumModules \in Nat \ {0} /\ Steps \in Nat \ {0}
    /\ Batches \in Nat \ {0} /\ WarmupBatches \in Nat
    /\ BatchSizes \subseteq Nat \ {0} /\ BatchSizes # {}
    /\ NonTensorModules \subseteq 1..NumModules
    /\ None \notin Nat

Modules  == 1..NumModules
Branches == {"cond", "uncond", "cfg_cat"}
Stages   == {"euler", "heun_predictor", "heun_corrector"}
StepIdx  == 0..(Steps - 1)
Ticks    == 0..Steps          \* timestep i of the schedule, in place of its t
BatchIdx == 1..(WarmupBatches + Batches)

VARIABLES
    sampler,   \* the sampler of this process
    at,        \* where the driver is: "batch", "pass", "module" or "reset"
    batch,     \* the batch being sampled, warm-up batches first
    size,      \* its number of samples
    step,      \* step_idx of the sampling loop
    pass,      \* next model evaluation of this step
    module,    \* next wrapped module of this evaluation
    context,   \* current_step_idx, current_t, cfg_branch, solver_stage
    session,   \* RuntimeCacheState.session_id
    entries,   \* RuntimeCacheState.entries
    stats,     \* RuntimeCacheState.stats
    served     \* what the last CachedModule.forward returned

driverVars == <<sampler, at, batch, size, step, pass, module, context>>
cacheVars  == <<session, entries, stats, served>>

-----------------------------------------------------------------------------
(* RuntimeCacheState *)

\* CacheKey: model_name is fixed in a process.
Keys == Modules \X Branches \X Stages \X BatchSizes

Context == [step : StepIdx \cup {-1}, t : Ticks, branch : Branches \cup {"unknown"},
            stage : Stages]

\* InputSignature: shape, dtype and device of a wrapped module's input only
\* change with the batch size.
Signature(sid) == [batch_size |-> size, session_id |-> sid]

\* CacheEntry: `batch' is provenance, the rest are its fields.
Entry == [step : StepIdx, t : Ticks, batch : BatchIdx,
          signature : [batch_size : BatchSizes, session_id : Nat]]

ASSUME NoneAssumption == None \notin Entry

NoEntries == [k \in Keys |-> None]

Stats == [{"hits", "misses", "refreshes", "disabled"} -> Nat]
ZeroStats == [f \in {"hits", "misses", "refreshes", "disabled"} |-> 0]
Mark(s, field) == [s EXCEPT ![field] = @ + 1]

\* total_calls counts what mark() marks with count_total.
TotalCalls == stats["hits"] + stats["misses"] + stats["disabled"]

KeyWithoutStage(m) == <<m, context.branch, "euler", size>> \* slip: Heun's stages share a key
KeyOf(m) == <<m, context.branch, context.stage, size>>
EntryOf(m) == entries[KeyOf(m)]

EntryMatches(e) == e # None /\ e.signature = Signature(session)

NewEntry == [step |-> context.step, t |-> context.t, batch |-> batch,
             signature |-> Signature(session)]

\* begin_batch(session_id): a named session is a string, after which the next
\* unnamed one counts from 0 again.
BeginUnnamed(sid) == IF sid \in Nat THEN sid + 1 ELSE 1
ClearForgotten == UNCHANGED entries   \* slip: the entries outlive the batch
Clear == entries' = NoEntries

ResetStats == stats' = ZeroStats

-----------------------------------------------------------------------------
(* What one CachedModule.forward does to the cache. *)

Served(m, how, e) ==
    [how |-> how, module |-> m, branch |-> context.branch, stage |-> context.stage,
     step |-> context.step, t |-> context.t, from |-> e.step, batch |-> e.batch]

Nothing == [how |-> "nothing", module |-> 1, branch |-> "cond", stage |-> "euler",
            step |-> 0, t |-> 0, from |-> 0, batch |-> 1]

\* The cache is inactive here: the module runs and nothing is stored.
Bypass(m) ==
    /\ served' = Served(m, "bypass", NewEntry)
    /\ stats' = Mark(stats, "disabled")
    /\ UNCHANGED <<session, entries>>

\* The module runs; a tensor replaces the entry, anything else is passed on.
Compute(m) ==
    /\ served' = Served(m, "compute", NewEntry)
    /\ IF m \in NonTensorModules
       THEN /\ stats' = Mark(stats, "disabled")
            /\ UNCHANGED entries
       ELSE /\ stats' = Mark(Mark(stats, "misses"), "refreshes")
            /\ entries' = [entries EXCEPT ![KeyOf(m)] = NewEntry]
    /\ UNCHANGED session

\* The stored tensor is returned and the module does not run.
Serve(m) ==
    /\ served' = Served(m, "reuse", EntryOf(m))
    /\ stats' = Mark(stats, "hits")
    /\ UNCHANGED <<session, entries>>

-----------------------------------------------------------------------------
(* The samplers *)

Eval(b, st) == [branch |-> b, stage |-> st]

\* The model evaluations of one step, in order; Heun's are not all made.
Evals == IF sampler = "jit" THEN <<Eval("cond", "euler"), Eval("uncond", "euler")>>
         ELSE IF sampler = "deco" THEN <<Eval("cfg_cat", "euler")>>
         ELSE <<Eval("cfg_cat", "heun_predictor"), Eval("cfg_cat", "heun_corrector")>>

\* predictor_ran and corrector_ran: without exact_heun the previous corrector's
\* velocity stands in for the predictor's.
Runs(st, s) ==
    /\ st = "heun_predictor" => s = 0 \/ sampler = "pixelgen_exact"
    /\ st = "heun_corrector" => s < Steps - 1

\* The corrector is evaluated at the end of the step.
TimeOf(st, s) == IF st = "heun_corrector" THEN s + 1 ELSE s

RuntimeInit ==
    /\ sampler \in Samplers
    /\ at = "batch" /\ step = 0 /\ pass = 1 /\ module = 1
    /\ batch = IF sampler = "jit" THEN 1 ELSE WarmupBatches + 1
    /\ size = CHOOSE n \in BatchSizes : TRUE
    /\ context = [step |-> -1, t |-> 0, branch |-> "unknown", stage |-> "euler"]
    /\ session = 0 /\ entries = NoEntries /\ stats = ZeroStats /\ served = Nothing

\* The generation script names a session for the batch and the sampler then
\* clears the entries; a sampler that loops over several batches itself only
\* clears.
BeginBatch ==
    /\ at = "batch" /\ batch \in BatchIdx
    /\ size' \in BatchSizes
    /\ \E named \in BOOLEAN :
         session' = BeginUnnamed(IF named THEN None ELSE session)
    /\ Clear
    /\ at' = "pass" /\ step' = 0 /\ pass' = 1
    /\ served' = Nothing
    /\ UNCHANGED <<sampler, batch, module, context, stats>>

EvalContext == [step |-> step, t |-> TimeOf(Evals[pass].stage, step),
                branch |-> Evals[pass].branch, stage |-> Evals[pass].stage]

\* set_context, before the model is evaluated.
SetContext ==
    /\ at = "pass" /\ pass <= Len(Evals) /\ Runs(Evals[pass].stage, step)
    /\ context' = EvalContext
    /\ at' = "module" /\ module' = 1
    /\ UNCHANGED <<sampler, batch, size, step, pass, cacheVars>>

SkipEval ==
    /\ at = "pass" /\ pass <= Len(Evals) /\ ~Runs(Evals[pass].stage, step)
    /\ pass' = pass + 1
    /\ UNCHANGED <<sampler, at, batch, size, step, module, context, cacheVars>>

\* The model calls the next wrapped module, or its evaluation is over.
Advance ==
    /\ at = "module"
    /\ IF module < NumModules
       THEN /\ module' = module + 1
            /\ UNCHANGED <<at, pass>>
       ELSE /\ at' = "pass" /\ pass' = pass + 1
            /\ UNCHANGED module
    /\ UNCHANGED <<sampler, batch, size, step, context>>

\* All evaluations of this step are done: the state is integrated to the next.
EndStep ==
    /\ at = "pass" /\ pass > Len(Evals)
    /\ IF step < Steps - 1
       THEN /\ step' = step + 1 /\ pass' = 1
            /\ UNCHANGED <<at, batch>>
       ELSE /\ at' = IF batch = WarmupBatches THEN "reset" ELSE "batch"
            /\ batch' = batch + 1
            /\ UNCHANGED <<step, pass>>
    /\ UNCHANGED <<sampler, size, module, context, cacheVars>>

\* After the warm-up batches of the JiT script: cache_state.clear() and
\* reset_stats(); the policy that runs adds its own resets.
EndWarmup ==
    /\ at = "reset" /\ at' = "batch"
    /\ session' = BeginUnnamed(session) /\ Clear /\ ResetStats
    /\ UNCHANGED <<sampler, batch, size, step, pass, module, context, served>>

Finished == at = "batch" /\ batch \notin BatchIdx

-----------------------------------------------------------------------------
(* What the invariants of the policies have in common. *)

Sampling == at \in {"pass", "module"}

\* While a model is evaluated the cache's context is the driver's.
Control ==
    /\ Sampling => batch \in BatchIdx
    /\ pass <= Len(Evals) + 1
    /\ at = "module" => pass <= Len(Evals) /\ Runs(Evals[pass].stage, step) /\ context = EvalContext
=============================================================================
