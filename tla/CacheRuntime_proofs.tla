------------------------- MODULE CacheRuntime_proofs -------------------------
(***************************************************************************)
(* What the proofs about the cache policies share: the types of the         *)
(* runtime's variables, and that the cache's context follows the sampler,   *)
(* whichever policy answers the calls.                                      *)
(***************************************************************************)
EXTENDS CacheRuntime, TLAPS

\* The part of a policy's type invariant that is about the runtime.
RuntimeTyped ==
    /\ sampler \in SamplerNames /\ at \in {"batch", "pass", "module", "reset"}
    /\ batch \in 1..(WarmupBatches + Batches + 1) /\ size \in BatchSizes
    /\ step \in StepIdx /\ pass \in 1..3 /\ module \in Modules
    /\ context \in Context /\ session \in Nat
    /\ entries \in [Keys -> Entry \cup {None}] /\ stats \in Stats

-----------------------------------------------------------------------------
(* The evaluations of a step *)

\* The evaluations of a step are one or two, of distinct branch or stage.
LEMMA EvalsShape ==
    ASSUME sampler \in SamplerNames
    PROVE  /\ Len(Evals) \in 1..2
           /\ \A i \in 1..Len(Evals) :
                /\ Evals[i].branch \in Branches /\ Evals[i].stage \in Stages
                /\ Evals[i] = Eval(Evals[i].branch, Evals[i].stage)
           /\ \A i, j \in 1..Len(Evals) : Evals[i] = Evals[j] => i = j
  <1>1. CASE sampler = "jit"
    BY <1>1 DEF Evals, Eval, Branches, Stages
  <1>2. CASE sampler = "deco"
    BY <1>2 DEF Evals, Eval, Branches, Stages
  <1>3. CASE sampler \notin {"jit", "deco"}
    BY <1>3 DEF Evals, Eval, Branches, Stages
  <1> QED BY <1>1, <1>2, <1>3

LEMMA EvalsKept ==
    ASSUME UNCHANGED sampler
    PROVE  Evals' = Evals
  BY DEF Evals, Eval

\* The context set before an evaluation is a context.
LEMMA EvalContextType ==
    ASSUME RuntimeTyped, pass <= Len(Evals), Runs(Evals[pass].stage, step)
    PROVE  /\ EvalContext \in Context
           /\ EvalContext.step = step /\ EvalContext.branch \in Branches
           /\ EvalContext.stage = Evals[pass].stage /\ EvalContext.branch = Evals[pass].branch
           /\ EvalContext.t = TimeOf(Evals[pass].stage, step)
           /\ EvalContext.t \in Ticks
  <1>1. /\ Evals[pass].branch \in Branches
        /\ Evals[pass].stage \in Stages
    BY EvalsShape DEF RuntimeTyped
  <1>2. TimeOf(Evals[pass].stage, step) \in Ticks
    BY <1>1, RuntimeAssumption DEF TimeOf, Ticks, StepIdx, RuntimeTyped, Runs
  <1> QED BY <1>1, <1>2 DEF EvalContext, Context, RuntimeTyped

-----------------------------------------------------------------------------
(* The driver *)

LEMMA RuntimeInitTyped == RuntimeInit => RuntimeTyped /\ Control
  <1> SUFFICES ASSUME RuntimeInit PROVE RuntimeTyped /\ Control
    OBVIOUS
  <1> USE RuntimeAssumption DEF RuntimeInit
  <1>1. sampler \in SamplerNames /\ size \in BatchSizes
    OBVIOUS
  <1>2. Len(Evals) \in 1..2
    BY <1>1, EvalsShape
  <1>3. context \in Context
    BY DEF Context, Ticks, Branches, Stages
  <1>4. entries \in [Keys -> Entry \cup {None}]
    BY DEF NoEntries
  <1>5. stats \in Stats
    BY DEF ZeroStats, Stats
  <1> QED BY <1>1, <1>2, <1>3, <1>4, <1>5 DEF RuntimeTyped, Control, Sampling, StepIdx, Modules

\* The driver's own steps.
LEMMA DriverKeeps ==
    ASSUME RuntimeTyped, Control,
           BeginBatch \/ SetContext \/ SkipEval \/ EndStep \/ EndWarmup
    PROVE  RuntimeTyped' /\ Control'
  <1> USE RuntimeAssumption DEF RuntimeTyped, Control, Sampling
  <1>0. Len(Evals) \in 1..2
    BY EvalsShape
  <1>1. CASE BeginBatch
    <2>1. session' \in Nat
      BY <1>1 DEF BeginBatch, BeginUnnamed
    <2>2. entries' \in [Keys -> Entry \cup {None}]
      BY <1>1 DEF BeginBatch, Clear, NoEntries
    <2>3. Evals' = Evals
      BY <1>1, EvalsKept DEF BeginBatch
    <2> QED BY <1>0, <1>1, <2>1, <2>2, <2>3 DEF BeginBatch, BatchIdx, StepIdx
  <1>2. CASE SetContext
    <2>1. Evals' = Evals
      BY <1>2, EvalsKept DEF SetContext
    <2>2. EvalContext' = EvalContext
      BY <1>2, <2>1 DEF SetContext, EvalContext, TimeOf
    <2>3. Runs(Evals[pass].stage, step)'
      BY <1>2, <2>1 DEF SetContext, Runs
    <2> QED BY <1>0, <1>2, <2>1, <2>2, <2>3, EvalContextType DEF SetContext, cacheVars, Modules
  <1>3. CASE SkipEval
    <2>1. Evals' = Evals
      BY <1>3, EvalsKept DEF SkipEval
    <2> QED BY <1>0, <1>3, <2>1 DEF SkipEval, cacheVars
  <1>4. CASE EndStep
    <2>1. Evals' = Evals
      BY <1>4, EvalsKept DEF EndStep
    <2> QED BY <1>0, <1>4, <2>1 DEF EndStep, cacheVars, BatchIdx, StepIdx
  <1>5. CASE EndWarmup
    <2>1. session' \in Nat /\ entries' \in [Keys -> Entry \cup {None}] /\ stats' \in Stats
      BY <1>5 DEF EndWarmup, BeginUnnamed, Clear, NoEntries, ResetStats, ZeroStats, Stats
    <2>2. Evals' = Evals
      BY <1>5, EvalsKept DEF EndWarmup
    <2> QED BY <1>0, <1>5, <2>1, <2>2 DEF EndWarmup
  <1> QED BY <1>1, <1>2, <1>3, <1>4, <1>5

-----------------------------------------------------------------------------
(* The calls of wrapped modules *)

Calls(m) == at = "module" /\ module = m /\ Advance

\* What the driver knows at a call: the context is that of the evaluation, the
\* key and the entry a refresh would store are well typed.
LEMMA CallsFacts ==
    ASSUME RuntimeTyped, Control, NEW m \in Modules, Calls(m)
    PROVE  /\ pass \in 1..Len(Evals) /\ Len(Evals) <= 2
           /\ context = EvalContext /\ context.step = step /\ context.step \in StepIdx
           /\ context.branch \in Branches /\ context.stage \in Stages
           /\ Evals[pass] = Eval(context.branch, context.stage)
           /\ Runs(context.stage, step) /\ context.t = TimeOf(context.stage, step)
           /\ KeyOf(m) \in Keys
           /\ batch \in BatchIdx /\ NewEntry \in Entry
           /\ module' \in Modules /\ pass' \in 1..(Len(Evals) + 1) /\ at' \in {"module", "pass"}
           /\ at' = "module" => pass' = pass
  <1>1. /\ pass \in 1..Len(Evals) /\ Len(Evals) <= 2 /\ Runs(Evals[pass].stage, step)
        /\ context = EvalContext /\ batch \in BatchIdx
    BY EvalsShape DEF Calls, RuntimeTyped, Control, Sampling
  <1>2. /\ context \in Context /\ context.step = step /\ context.t \in Ticks
        /\ context.branch \in Branches /\ context.stage \in Stages
        /\ context.branch = Evals[pass].branch /\ context.stage = Evals[pass].stage
        /\ context.t = TimeOf(context.stage, step)
    BY <1>1, EvalsShape, EvalContextType DEF RuntimeTyped
  <1>3. Evals[pass] = Eval(context.branch, context.stage)
    BY <1>1, <1>2, EvalsShape DEF RuntimeTyped
  <1>4. KeyOf(m) \in Keys
    BY <1>2 DEF KeyOf, Keys, RuntimeTyped
  <1>5. NewEntry \in Entry
    BY <1>1, <1>2 DEF NewEntry, Entry, Signature, RuntimeTyped
  <1>6. /\ module' \in Modules /\ pass' \in 1..(Len(Evals) + 1) /\ at' \in {"module", "pass"}
        /\ at' = "module" => pass' = pass
    BY <1>1, RuntimeAssumption DEF Calls, Advance, RuntimeTyped, Modules
  <1> QED BY <1>1, <1>2, <1>3, <1>4, <1>5, <1>6 DEF RuntimeTyped

\* However a call is answered.
LEMMA AnswerKeeps ==
    ASSUME RuntimeTyped, Control, NEW m \in Modules, Calls(m),
           Bypass(m) \/ Compute(m) \/ Serve(m)
    PROVE  RuntimeTyped' /\ Control'
  <1>1. UNCHANGED <<sampler, batch, size, step, context>>
    BY DEF Calls, Advance
  <1>2. session' \in Nat /\ entries' \in [Keys -> Entry \cup {None}] /\ stats' \in Stats
    <2>0. \A s \in Stats, f \in {"hits", "misses", "refreshes", "disabled"} : Mark(s, f) \in Stats
      BY DEF Mark, Stats
    <2>1. NewEntry \in Entry /\ KeyOf(m) \in Keys
      BY CallsFacts
    <2>2. CASE Bypass(m)
      BY <2>0, <2>2 DEF Bypass, RuntimeTyped
    <2>3. CASE Serve(m)
      BY <2>0, <2>3 DEF Serve, RuntimeTyped
    <2>4. CASE Compute(m)
      <3>1. session' \in Nat /\ stats' \in Stats
        BY <2>4, <2>0 DEF Compute, RuntimeTyped
      <3>2. entries' \in [Keys -> Entry \cup {None}]
        BY <2>4, <2>1 DEF Compute, RuntimeTyped
      <3> QED BY <3>1, <3>2
    <2> QED BY <2>2, <2>3, <2>4
  <1>3. RuntimeTyped'
    BY <1>1, <1>2, CallsFacts DEF RuntimeTyped
  <1>4. Evals' = Evals
    BY <1>1, EvalsKept
  <1>5. EvalContext' = EvalContext \/ at' # "module"
    BY <1>1, <1>4, CallsFacts DEF EvalContext, TimeOf
  <1>6. Runs(Evals[pass].stage, step)' \/ at' # "module"
    BY <1>1, <1>4, CallsFacts DEF Runs, Control, Calls
  <1>7. Control'
    BY <1>1, <1>4, <1>5, <1>6, CallsFacts DEF Control, Sampling
  <1> QED BY <1>3, <1>7

=============================================================================
