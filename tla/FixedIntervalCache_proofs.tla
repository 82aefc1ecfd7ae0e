---------------------- MODULE FixedIntervalCache_proofs ----------------------
(***************************************************************************)
(* Proofs about FixedIntervalCache, for every sampler, number of modules,   *)
(* steps and batches, and every configuration the constructor accepts.      *)
(***************************************************************************)
EXTENDS FixedIntervalCache, CacheRuntime_proofs, FiniteSetTheorems

USE RuntimeAssumption, ConfigAssumption

-----------------------------------------------------------------------------
(* Facts about the operators. *)

LEMMA MultipleRemainder ==
    ASSUME NEW q \in Nat, NEW n \in Nat \ {0}
    PROVE  (n * q) % n = 0 /\ n * q \in Nat
  <1>1. (n * q) % n = 0
    OBVIOUS
  <1>2. n * q \in Nat
    OBVIOUS
  <1> QED BY <1>1, <1>2

\* The remainder, and the last multiple of n that is not after s.
LEMMA LastMultiple ==
    ASSUME NEW s \in Nat, NEW n \in Nat \ {0}
    PROVE  /\ s % n \in 0..(n - 1)
           /\ s % n <= s
           /\ (s - (s % n)) % n = 0
  <1>1. s % n \in 0..(n - 1) /\ s \div n \in Nat
    OBVIOUS
  <1>2. s = n * (s \div n) + (s % n)
    OBVIOUS
  <1>3. (n * (s \div n)) % n = 0 /\ n * (s \div n) \in Nat
    BY <1>1, MultipleRemainder
  <1>4. s - (s % n) = n * (s \div n)
    BY <1>1, <1>2, <1>3
  <1> QED BY <1>1, <1>3, <1>4

-----------------------------------------------------------------------------
(* Type correctness, and that the context follows the driver. *)

LEMMA Typed == TypeOK => RuntimeTyped
  BY DEF TypeOK, RuntimeTyped

LEMMA InitTyped == Init => TypeOK /\ Control
  <1> SUFFICES ASSUME Init PROVE TypeOK /\ Control
    OBVIOUS
  <1>1. RuntimeTyped /\ Control
    BY RuntimeInitTyped DEF Init
  <1> QED BY <1>1 DEF Init, TypeOK, RuntimeTyped, WindowKeys

\* The driver's own steps.
LEMMA DriveTyped ==
    ASSUME TypeOK, Control, Drive, UNCHANGED policyVars
    PROVE  TypeOK' /\ Control'
  <1>1. RuntimeTyped' /\ Control'
    BY Typed, DriverKeeps DEF Drive
  <1> QED BY <1>1 DEF TypeOK, RuntimeTyped, policyVars

\* What the driver knows at a call.
LEMMA CallFacts ==
    ASSUME TypeOK, Control, NEW m \in Modules, Call(m)
    PROVE  /\ pass \in 1..Len(Evals) /\ Len(Evals) <= 2
           /\ context = EvalContext /\ context.step = step /\ context.step \in StepIdx
           /\ context.branch \in Branches /\ context.stage \in Stages
           /\ Evals[pass] = Eval(context.branch, context.stage)
           /\ Runs(context.stage, step) /\ context.t = TimeOf(context.stage, step)
           /\ KeyOf(m) \in Keys /\ WindowKey \in WindowKeys
           /\ batch \in BatchIdx /\ NewEntry \in Entry
           /\ module' \in Modules /\ pass' \in 1..(Len(Evals) + 1) /\ at' \in {"module", "pass"}
           /\ at' = "module" => pass' = pass
  <1>1. RuntimeTyped /\ Calls(m)
    BY Typed DEF Call, Calls
  <1>2. context.branch \in Branches /\ context.stage \in Stages
    BY <1>1, CallsFacts
  <1>3. WindowKey \in WindowKeys
    BY <1>1, <1>2 DEF WindowKey, WindowKeys, Calls
  <1> QED BY <1>1, <1>3, CallsFacts

\* A call is answered in one of three ways and only touches its own key.
LEMMA ForwardEffect ==
    ASSUME TypeOK, Control, NEW m \in Modules, Forward(m)
    PROVE  /\ Call(m) /\ UNCHANGED cfg
           /\ Bypass(m) \/ (Active /\ Compute(m)) \/ Serve(m)
           /\ Serve(m) \/ ~Active \/ Compute(m)
           /\ refreshCount' \in [WindowKeys -> Nat] /\ lastStep' \in [WindowKeys -> StepIdx \cup {None}]
  <1>1. Call(m) /\ UNCHANGED cfg
    BY DEF Forward, ForwardInactive, ForwardMiss, ForwardScheduled, ForwardWarmup, ForwardReuse, policyVars
  <1>2. /\ Bypass(m) \/ (Active /\ Compute(m)) \/ Serve(m)
        /\ Serve(m) \/ ~Active \/ Compute(m)
    BY DEF Forward, ForwardInactive, ForwardMiss, ForwardScheduled, ForwardWarmup, ForwardReuse
  <1>3. CASE UNCHANGED <<refreshCount, lastStep>>
    BY <1>3, <1>1, <1>2 DEF TypeOK
  <1>4. CASE ConsumeWarmup
    <2>1. CountAfter \in Nat /\ context.step \in StepIdx /\ WindowKey \in WindowKeys
      BY <1>1, CallFacts DEF CountAfter, CountSeen, TypeOK
    <2> QED BY <2>1, <1>4, <1>1, <1>2 DEF ConsumeWarmup, TypeOK
  <1> QED BY <1>1, <1>2, <1>3, <1>4 DEF Forward, ForwardInactive, ForwardMiss, ForwardScheduled,
                                        ForwardWarmup, ForwardReuse, policyVars

LEMMA ForwardTyped ==
    ASSUME TypeOK, Control, NEW m \in Modules, Forward(m)
    PROVE  TypeOK' /\ Control'
  <1>1. RuntimeTyped' /\ Control'
    BY Typed, ForwardEffect, AnswerKeeps DEF Call, Calls
  <1> QED BY <1>1, ForwardEffect DEF TypeOK, RuntimeTyped

\* Every variable stays in its type, and while a model is evaluated the cache's
\* context is the one its sampler set (RuntimeCacheState.set_context).
THEOREM TypeCorrect == Spec => [](TypeOK /\ Control)
  <1>1. TypeOK /\ Control /\ [Next]_vars => TypeOK' /\ Control'
    <2> SUFFICES ASSUME TypeOK, Control, [Next]_vars PROVE TypeOK' /\ Control'
      OBVIOUS
    <2>1. CASE Drive /\ UNCHANGED policyVars
      BY <2>1, DriveTyped
    <2>2. ASSUME NEW m \in Modules, Forward(m) PROVE TypeOK' /\ Control'
      BY <2>2, ForwardTyped
    <2>3. CASE UNCHANGED vars
      BY <2>3 DEF vars, driverVars, cacheVars, policyVars, TypeOK, Control, Sampling, Evals, Eval,
                  EvalContext, TimeOf, Runs
    <2> QED BY <2>1, <2>2, <2>3 DEF Next, Terminated
  <1> QED BY InitTyped, <1>1, PTL DEF Spec

-----------------------------------------------------------------------------
(* Reuse is recent, and of this batch. *)

\* The window is contiguous: a stream active at two steps is active between.
LEMMA ActiveBetween ==
    ASSUME TypeOK, NEW m, NEW b, NEW st, NEW u \in StepIdx, NEW w \in StepIdx,
           NEW v \in Nat, u < v, v < w, ActiveAt(m, b, st, u), ActiveAt(m, b, st, w)
    PROVE  ActiveAt(m, b, st, v)
  <1>1. ConfigOK(cfg)
    BY DEF TypeOK
  <1>2. EvaluatedAt(b, st, v)
    BY DEF ActiveAt, EvaluatedAt, Runs, StepIdx
  <1>3. InSteps(v)
    BY <1>1 DEF ActiveAt, ActiveFor, InSteps, ConfigOK, StepIdx
  <1>4. InTimes(TimeOf(st, v))
    BY <1>1 DEF ActiveAt, ActiveFor, InTimes, ConfigOK, StepIdx, TimeOf
  <1> QED BY <1>2, <1>3, <1>4 DEF ActiveAt, ActiveFor

\* What is active at a step, and what the interval schedules, is fixed by the
\* sampler and the configuration.
LEMMA ScheduleFixed ==
    ASSUME UNCHANGED <<sampler, cfg>>
    PROVE  /\ \A m, b, st, u : ActiveAt(m, b, st, u)' <=> ActiveAt(m, b, st, u)
           /\ \A u : ScheduledRefresh(u)' <=> ScheduledRefresh(u)
           /\ Evals' = Evals
  BY DEF ActiveAt, EvaluatedAt, ActiveFor, InSteps, InTimes, BranchEnabled, TimeOf, Runs, Evals,
         Eval, ScheduledRefresh

\* The stream of the call in progress has not been called at this step yet, and
\* it is active in the driver's terms exactly if the code finds it active.
LEMMA CallIsFirst ==
    ASSUME TypeOK, Control, NEW m \in Modules, Call(m)
    PROVE  /\ ~CalledThisStep(m, context.branch, context.stage)
           /\ Active <=> ActiveAt(m, context.branch, context.stage, step)
  <1>1. /\ pass \in 1..Len(Evals) /\ context.step = step /\ Runs(context.stage, step)
        /\ context.t = TimeOf(context.stage, step)
        /\ Evals[pass] = Eval(context.branch, context.stage)
    BY CallFacts
  <1>2. ~CalledThisStep(m, context.branch, context.stage)
    BY <1>1, EvalsShape DEF CalledThisStep, Call, TypeOK, Modules
  <1>3. EvaluatedAt(context.branch, context.stage, step)
    BY <1>1, EvalsShape DEF EvaluatedAt, Eval
  <1> QED BY <1>1, <1>2, <1>3 DEF Active, ActiveAt, Call

\* After the call, its stream has been called at this step, and no other is new.
LEMMA CalledAfter ==
    ASSUME TypeOK, Control, NEW m \in Modules, Call(m), UNCHANGED cfg,
           NEW n \in Modules, NEW b \in Branches, NEW st \in Stages
    PROVE  CalledThisStep(n, b, st)' <=>
             CalledThisStep(n, b, st) \/ (n = m /\ b = context.branch /\ st = context.stage)
  <1>1. /\ pass \in 1..Len(Evals) /\ Len(Evals) <= 2
        /\ Evals[pass] = Eval(context.branch, context.stage)
    BY CallFacts
  <1>2. Evals' = Evals
    BY DEF Call, Advance, Evals, Eval
  <1>a. at = "module" /\ module = m /\ m \in 1..NumModules /\ n \in 1..NumModules /\ NumModules \in Nat
    BY DEF Call, Modules
  <1>b. \A i \in 1..Len(Evals) : Evals[i] = Eval(b, st) /\ i = pass
                                <=> b = context.branch /\ st = context.stage /\ i = pass
    BY <1>1 DEF Eval
  <1>3. CASE module < NumModules
    <2>1. at' = "module" /\ module' = m + 1 /\ pass' = pass
      BY <1>3, <1>a DEF Call, Advance
    <2> QED BY <1>1, <1>2, <1>a, <1>b, <2>1 DEF CalledThisStep
  <1>4. CASE ~(module < NumModules)
    <2>1. at' = "pass" /\ pass' = pass + 1 /\ m = NumModules
      BY <1>4, <1>a DEF Call, Advance
    <2>2. \A i \in 1..Len(Evals) : i < pass' <=> i < pass \/ i = pass
      BY <1>1, <2>1
    <2>3. CalledThisStep(n, b, st)' <=> \E i \in 1..Len(Evals) : Evals[i] = Eval(b, st) /\ i < pass'
      BY <1>2, <2>1 DEF CalledThisStep, Eval
    <2>4. CalledThisStep(n, b, st) <=>
            \E i \in 1..Len(Evals) : Evals[i] = Eval(b, st) /\ (i < pass \/ (i = pass /\ n < m))
      BY <1>a DEF CalledThisStep
    <2>5. n < m \/ n = m
      BY <1>a, <2>1
    <2> QED BY <1>1, <1>b, <2>2, <2>3, <2>4, <2>5
  <1> QED BY <1>3, <1>4

\* The entries of the type invariant, one key at a time.
LEMMA EntryTyped ==
    ASSUME TypeOK, NEW m \in Modules, NEW b \in Branches, NEW st \in Stages, NEW n \in BatchSizes,
           entries[<<m, b, st, n>>] # None
    PROVE  entries[<<m, b, st, n>>] \in Entry /\ entries[<<m, b, st, n>>].step \in StepIdx
  <1>1. <<m, b, st, n>> \in Keys
    BY DEF Keys
  <1> QED BY <1>1 DEF TypeOK, Entry

LEMMA DriveKeepsEntries ==
    ASSUME IInv, Drive, UNCHANGED policyVars,
           NEW m \in Modules, NEW b \in Branches, NEW st \in Stages, NEW n \in BatchSizes,
           Sampling'
    PROVE  EntryCurrent(m, b, st, n)'
  <1> DEFINE e == entries[<<m, b, st, n>>]
  <1>0. TypeOK /\ Control /\ UNCHANGED cfg
    BY DEF IInv, policyVars
  <1>1. CASE BeginBatch
    <2>1. entries' = NoEntries /\ <<m, b, st, n>> \in Keys
      BY <1>1 DEF BeginBatch, Clear, Keys
    <2> QED BY <2>1 DEF EntryCurrent, NoEntries
  <1>2. CASE SetContext \/ SkipEval \/ EndStep
    <2>1. UNCHANGED <<sampler, size, entries>> /\ batch' = batch /\ Sampling
      BY <1>2 DEF SetContext, SkipEval, EndStep, cacheVars, Sampling
    <2>2. /\ \A u : ActiveAt(m, b, st, u)' <=> ActiveAt(m, b, st, u)
          /\ \A u : ScheduledRefresh(u)' <=> ScheduledRefresh(u)
          /\ Evals' = Evals
      BY <1>0, <2>1, ScheduleFixed
    <2>3. SUFFICES ASSUME e # None PROVE EntryCurrent(m, b, st, n)'
      BY <2>1 DEF EntryCurrent
    <2>4. EntryCurrent(m, b, st, n) /\ e.step \in StepIdx /\ step \in Nat /\ pass \in Nat
      <3>1. e.step \in StepIdx
        BY <1>0, <2>3, EntryTyped
      <3>2. EntryCurrent(m, b, st, n)
        BY <2>1 DEF IInv, EntriesCurrent
      <3> QED BY <1>0, <3>1, <3>2 DEF TypeOK, StepIdx
    <2>5. CASE SetContext
      <3>1. step' = step /\ CalledThisStep(m, b, st)' <=> CalledThisStep(m, b, st)
        BY <2>2, <2>5 DEF SetContext, CalledThisStep, Eval, Modules
      <3> QED BY <2>1, <2>2, <2>4, <2>5, <3>1 DEF EntryCurrent, SetContext
    <2>6. CASE SkipEval
      <3>1. step' = step
        BY <2>6 DEF SkipEval
      <3>2. CalledThisStep(m, b, st) => CalledThisStep(m, b, st)'
        BY <2>2, <2>4, <2>6 DEF SkipEval, CalledThisStep, Eval
      <3>3. CalledThisStep(m, b, st)' => CalledThisStep(m, b, st) \/ ~ActiveAt(m, b, st, step)
        BY <1>0, <2>2, <2>4, <2>6 DEF SkipEval, CalledThisStep, Eval, ActiveAt, EvaluatedAt
      <3> QED BY <2>1, <2>2, <2>4, <3>1, <3>2, <3>3 DEF EntryCurrent, StepIdx
    <2>7. CASE EndStep
      <3>1. step' = step + 1 /\ ~CalledThisStep(m, b, st)'
        BY <1>0, <2>2, <2>7 DEF EndStep, CalledThisStep, Sampling, TypeOK
      <3>2. ActiveAt(m, b, st, step) => CalledThisStep(m, b, st)
        BY <1>0, <2>4, <2>7, EvalsShape DEF EndStep, CalledThisStep, ActiveAt, EvaluatedAt, TypeOK
      <3> QED BY <2>1, <2>2, <2>4, <3>1, <3>2 DEF EntryCurrent, StepIdx
    <2> QED BY <1>2, <2>5, <2>6, <2>7
  <1>3. CASE EndWarmup
    BY <1>3 DEF EndWarmup, Sampling
  <1> QED BY <1>1, <1>2, <1>3 DEF Drive

LEMMA ForwardKeepsEntries ==
    ASSUME IInv, NEW c \in Modules, Forward(c),
           NEW m \in Modules, NEW b \in Branches, NEW st \in Stages, NEW n \in BatchSizes
    PROVE  EntryCurrent(m, b, st, n)'
  <1> DEFINE k == <<m, b, st, n>>
  <1> DEFINE mine == m = c /\ b = context.branch /\ st = context.stage
  <1>1. /\ TypeOK /\ Control /\ Call(c) /\ EntriesCurrent /\ Sampling
        /\ UNCHANGED <<cfg, sampler, batch, size, step, context>>
    BY ForwardEffect DEF IInv, Call, Advance, Sampling
  <1>2. /\ \A u : ActiveAt(m, b, st, u)' <=> ActiveAt(m, b, st, u)
        /\ \A u : ScheduledRefresh(u)' <=> ScheduledRefresh(u)
    BY <1>1, ScheduleFixed
  <1>3. CalledThisStep(m, b, st)' <=> CalledThisStep(m, b, st) \/ mine
    BY <1>1, CalledAfter
  <1>4. k \in Keys /\ KeyOf(c) \in Keys /\ context.step = step /\ step \in StepIdx
    BY <1>1, CallFacts DEF Keys, TypeOK
  <1>5. CASE entries' = [entries EXCEPT ![KeyOf(c)] = NewEntry] /\ k = KeyOf(c) /\ Active
                /\ c \notin NonTensorModules
    <2>1. entries[k]' = NewEntry /\ mine /\ n = size
      BY <1>1, <1>4, <1>5 DEF KeyOf, TypeOK
    <2>2. NewEntry.batch = batch /\ NewEntry.step = step /\ ActiveAt(m, b, st, step)
      BY <1>1, <1>4, <1>5, <2>1, CallIsFirst DEF NewEntry
    <2> QED BY <1>1, <1>2, <1>3, <1>4, <1>5, <2>1, <2>2 DEF EntryCurrent, StepIdx
  <1>6. CASE entries[k]' = entries[k]
    <2>1. SUFFICES ASSUME entries[k] # None PROVE EntryCurrent(m, b, st, n)'
      BY <1>6 DEF EntryCurrent
    <2>2. EntryCurrent(m, b, st, n) /\ entries[k].step \in StepIdx
      BY <1>1, <2>1, EntryTyped DEF EntriesCurrent
    <2>3. mine => ~ActiveAt(m, b, st, step) \/ ~ScheduledRefresh(step)
      <3>1. CASE Bypass(c) /\ ~Active
        BY <3>1, <1>1, CallIsFirst
      <3>2. CASE Serve(c) /\ ~ScheduledRefresh(context.step)
        BY <3>2, <1>4
      <3>3. CASE Compute(c) /\ mine
        <4>1. k = KeyOf(c) /\ c \notin NonTensorModules
          BY <2>1, <2>2, <3>3 DEF EntryCurrent, KeyOf
        <4>2. entries[k]' = NewEntry /\ NewEntry.step = step
          BY <1>1, <1>4, <3>3, <4>1 DEF Compute, NewEntry, TypeOK
        <4>3. CalledThisStep(m, b, st)
          BY <1>6, <2>1, <2>2, <4>2 DEF EntryCurrent
        <4> QED BY <1>1, <3>3, <4>3, CallIsFirst
      <3> QED BY <3>1, <3>2, <3>3 DEF Forward, ForwardInactive, ForwardMiss, ForwardScheduled,
                                      ForwardWarmup, ForwardReuse
    <2> QED BY <1>1, <1>2, <1>3, <1>4, <1>6, <2>2, <2>3 DEF EntryCurrent, StepIdx
  <1>7. entries[k]' = entries[k] \/ (/\ entries' = [entries EXCEPT ![KeyOf(c)] = NewEntry]
                                   /\ k = KeyOf(c) /\ Active /\ c \notin NonTensorModules)
    BY <1>1, <1>4, ForwardEffect DEF Bypass, Compute, Serve, TypeOK
  <1> QED BY <1>5, <1>6, <1>7

\* An entry that is served is of this batch, of an earlier step, and younger
\* than the interval: the last multiple of the interval is not after its step.
LEMMA ServedIsRecent ==
    ASSUME IInv, NEW m \in Modules, Call(m), Active, EntryOf(m) # None,
           ~ScheduledRefresh(context.step)
    PROVE  LET e == EntryOf(m) IN
           /\ e.batch = batch /\ e.step \in StepIdx
           /\ e.step < step /\ step - e.step < cfg.interval
  <1> DEFINE b == context.branch  st == context.stage  e == EntryOf(m)
  <1>1. /\ TypeOK /\ Control /\ EntriesCurrent /\ Sampling
        /\ context.step = step /\ step \in StepIdx /\ b \in Branches /\ st \in Stages
        /\ size \in BatchSizes
    BY CallFacts DEF IInv, Call, Sampling, TypeOK
  <1>2. EntryCurrent(m, b, st, size) /\ e = entries[<<m, b, st, size>>]
    BY <1>1 DEF EntriesCurrent, EntryOf, KeyOf
  <1>3. e.step \in StepIdx
    BY <1>1, <1>2, EntryTyped
  <1>4. ~CalledThisStep(m, b, st) /\ ActiveAt(m, b, st, step)
    BY <1>1, CallIsFirst
  <1>5. e.batch = batch /\ e.step < step
    BY <1>1, <1>2, <1>3, <1>4 DEF EntryCurrent, StepIdx
  <1>6. cfg.interval \in Nat \ {0} /\ step % cfg.interval # 0
    BY <1>1 DEF TypeOK, ConfigOK, ScheduledRefresh
  <1> DEFINE last == step - (step % cfg.interval)
  <1>7. last \in Nat /\ last < step /\ last % cfg.interval = 0 /\ step - last < cfg.interval
    <2>1. step \in Nat
      BY <1>1 DEF StepIdx
    <2>2. /\ step % cfg.interval \in 0..(cfg.interval - 1) /\ step % cfg.interval <= step
          /\ (step - (step % cfg.interval)) % cfg.interval = 0
      BY <1>6, <2>1, LastMultiple
    <2> DEFINE r == step % cfg.interval
    <2>3. last = step - r /\ r \in 1..(cfg.interval - 1) /\ r <= step /\ last % cfg.interval = 0
      BY <1>6, <2>2
    <2> HIDE DEF r, last
    <2>4. last \in Nat /\ last < step /\ step - last < cfg.interval
      BY <1>6, <2>1, <2>3
    <2> QED BY <2>3, <2>4
  <1>8. ScheduledRefresh(last)
    BY <1>7 DEF ScheduledRefresh
  <1>9. last <= e.step
    <2> SUFFICES ASSUME e.step < last PROVE FALSE
      BY <1>3, <1>7 DEF StepIdx
    <2>1. ActiveAt(m, b, st, last)
      BY <1>1, <1>2, <1>3, <1>4, <1>7, ActiveBetween DEF EntryCurrent
    <2>2. last \in (e.step + 1)..step
      BY <1>1, <1>3, <1>7 DEF StepIdx
    <2> QED BY <1>2, <1>7, <1>8, <2>1, <2>2 DEF EntryCurrent
  <1> HIDE DEF last
  <1> QED BY <1>1, <1>3, <1>5, <1>6, <1>7, <1>9 DEF StepIdx

LEMMA ForwardServesRecent ==
    ASSUME IInv, NEW m \in Modules, Forward(m)
    PROVE  NoStaleBatch' /\ AgeBelowInterval'
  <1>1. TypeOK /\ Control /\ Call(m) /\ UNCHANGED <<cfg, batch>> /\ context.step = step
    BY ForwardEffect, CallFacts DEF IInv, Call, Advance
  <1>2. CASE Bypass(m) \/ Compute(m)
    BY <1>2 DEF Bypass, Compute, Served, NoStaleBatch, AgeBelowInterval, Reused
  <1>3. CASE ForwardReuse(m) /\ Serve(m)
    <2>1. LET e == EntryOf(m) IN e.batch = batch /\ e.step < step /\ step - e.step < cfg.interval
      BY <1>3, ServedIsRecent DEF ForwardReuse
    <2>2. /\ served.batch' = EntryOf(m).batch /\ served.from' = EntryOf(m).step
          /\ served.step' = step
      BY <1>1, <1>3 DEF Serve, Served
    <2> QED BY <1>1, <2>1, <2>2 DEF NoStaleBatch, AgeBelowInterval
  <1> QED BY <1>2, <1>3 DEF Forward, ForwardInactive, ForwardMiss, ForwardScheduled, ForwardWarmup,
                            ForwardReuse

LEMMA DriveKeepsServed ==
    ASSUME IInv, Drive, UNCHANGED policyVars
    PROVE  NoStaleBatch' /\ AgeBelowInterval'
  <1> USE DEF NoStaleBatch, AgeBelowInterval, Reused, Sampling, IInv, policyVars
  <1>1. CASE BeginBatch
    BY <1>1 DEF BeginBatch, Nothing
  <1>2. CASE SetContext \/ SkipEval
    BY <1>2 DEF SetContext, SkipEval, cacheVars
  <1>3. CASE EndStep
    BY <1>3 DEF EndStep, cacheVars
  <1>4. CASE EndWarmup
    BY <1>4 DEF EndWarmup
  <1> QED BY <1>1, <1>2, <1>3, <1>4 DEF Drive

\* The inductive invariant holds in every behaviour.
THEOREM Invariance == Spec => []IInv
  <1>1. Init => IInv
    <2> SUFFICES ASSUME Init PROVE IInv
      OBVIOUS
    <2>1. TypeOK /\ Control
      BY InitTyped
    <2> QED BY <2>1 DEF IInv, Init, RuntimeInit, EntriesCurrent, NoStaleBatch, AgeBelowInterval,
                        Reused, Sampling
  <1>2. IInv /\ [Next]_vars => IInv'
    <2> SUFFICES ASSUME IInv, [Next]_vars PROVE IInv'
      OBVIOUS
    <2>0. TypeOK /\ Control
      BY DEF IInv
    <2>1. CASE Drive /\ UNCHANGED policyVars
      BY <2>0, <2>1, DriveTyped, DriveKeepsEntries, DriveKeepsServed
      DEF IInv, EntriesCurrent
    <2>2. ASSUME NEW m \in Modules, Forward(m) PROVE IInv'
      BY <2>0, <2>2, ForwardTyped, ForwardKeepsEntries, ForwardServesRecent
      DEF IInv, EntriesCurrent
    <2>3. CASE UNCHANGED vars
      <3> USE <2>3 DEF vars, driverVars, cacheVars, policyVars
      <3>1. TypeOK' /\ Control'
        BY <2>0 DEF TypeOK, Control, Sampling, Evals, Eval, EvalContext, TimeOf, Runs
      <3>2. NoStaleBatch' /\ AgeBelowInterval'
        BY DEF IInv, NoStaleBatch, AgeBelowInterval, Reused, Sampling
      <3>3. ASSUME NEW m \in Modules, NEW b \in Branches, NEW st \in Stages, NEW n \in BatchSizes
            PROVE  EntryCurrent(m, b, st, n)' <=> EntryCurrent(m, b, st, n)
        <4>1. CalledThisStep(m, b, st)' <=> CalledThisStep(m, b, st)
          BY ScheduleFixed DEF CalledThisStep, Eval
        <4> QED BY <4>1, ScheduleFixed DEF EntryCurrent
      <3> QED BY <3>1, <3>2, <3>3 DEF IInv, EntriesCurrent, Sampling
    <2> QED BY <2>1, <2>2, <2>3 DEF Next, Terminated
  <1> QED BY <1>1, <1>2, PTL DEF Spec

\* A reused output belongs to the batch being sampled and to an earlier step
\* (RuntimeCacheState.begin_batch clears what a key would confuse).
THEOREM NeverStaleBatch == Spec => []NoStaleBatch
  <1>1. IInv => NoStaleBatch
    BY DEF IInv
  <1> QED BY <1>1, Invariance, PTL

\* A reused output is younger than the refresh interval, whatever the window
\* (FixedIntervalCachePolicy.should_refresh).
THEOREM AgeBounded == Spec => []AgeBelowInterval
  <1>1. IInv => AgeBelowInterval
    BY DEF IInv
  <1> QED BY <1>1, Invariance, PTL

-----------------------------------------------------------------------------
(* The cache implements BoundedReuse. *)

LEMMA InitRefines == Init => Contract!Init
  <1> SUFFICES ASSUME Init PROVE Contract!Init
    OBVIOUS
  <1>1. cfg.interval \in Nat \ {0}
    BY DEF Init, ConfigOK
  <1>2. ~Sampling /\ batch \in Nat \ {0} /\ step = 0 /\ Output = None
    BY DEF Init, RuntimeInit, Sampling, Output, Nothing
  <1>3. Held = Contract!Nowhere
    <2>1. \A s \in Streams : <<s[1], s[2], s[3], size>> \in Keys
      BY DEF Init, RuntimeInit, Streams, Keys
    <2> QED BY <2>1 DEF Init, RuntimeInit, Held, NoEntries, Contract!Nowhere
  <1> QED BY <1>1, <1>2, <1>3 DEF Contract!Init

LEMMA DriveRefines ==
    ASSUME IInv, Drive, UNCHANGED policyVars
    PROVE  [Contract!Next]_(Contract!vars)
  <1>0. TypeOK /\ Control /\ cfg' = cfg
    BY DEF IInv, policyVars
  <1> USE DEF Contract!vars
  <1>1. ASSUME UNCHANGED <<entries, size>> PROVE Held' = Held
    BY <1>1 DEF Held, Streams
  <1>2. ASSUME entries' = NoEntries, size' \in BatchSizes PROVE Held' = Contract!Nowhere
    <2>1. \A s \in Streams : <<s[1], s[2], s[3], size'>> \in Keys
      BY <1>2 DEF Streams, Keys
    <2> QED BY <1>2, <2>1 DEF Held, NoEntries, Contract!Nowhere, Streams
  <1>3. ASSUME UNCHANGED served PROVE Output' = Output
    BY <1>3 DEF Output
  <1>4. CASE BeginBatch
    <2>1. Held' = Contract!Nowhere
      BY <1>2, <1>4 DEF BeginBatch, Clear
    <2>2. Output' = None
      BY <1>4 DEF BeginBatch, Output, Nothing
    <2> QED BY <1>0, <1>4, <2>1, <2>2
            DEF BeginBatch, Sampling, TypeOK, Contract!Next, Contract!NewBatch
  <1>5. CASE SetContext \/ SkipEval
    BY <1>0, <1>1, <1>3, <1>5 DEF SetContext, SkipEval, Sampling, cacheVars
  <1>6. CASE EndStep
    BY <1>0, <1>1, <1>3, <1>6
    DEF EndStep, Sampling, TypeOK, cacheVars, Contract!Next, Contract!Tick
  <1>7. CASE EndWarmup
    <2>1. Held' = Contract!Nowhere /\ Output' = Output
      BY <1>0, <1>2, <1>3, <1>7 DEF EndWarmup, Clear, TypeOK
    <2> QED BY <1>0, <1>7, <2>1 DEF EndWarmup, Sampling, Contract!Next, Contract!Drop
  <1> QED BY <1>4, <1>5, <1>6, <1>7 DEF Drive

LEMMA ForwardRefines ==
    ASSUME IInv, NEW m \in Modules, Forward(m)
    PROVE  Contract!Next
  <1> DEFINE s == <<m, context.branch, context.stage>>
  <1>1. /\ TypeOK /\ Control /\ Call(m) /\ Sampling /\ Sampling' /\ context.step = step
        /\ UNCHANGED <<cfg, sampler, batch, size, step, context>> /\ s \in Streams
        /\ step \in StepIdx /\ NewEntry \in Entry /\ KeyOf(m) \in Keys
    BY ForwardEffect, CallFacts DEF IInv, Call, Advance, Sampling, Streams
  <1>2. s[1] = m /\ s[2] = context.branch /\ s[3] = context.stage
    OBVIOUS
  <1>3. ASSUME NEW how \in {"bypass", "compute"}, served' = Served(m, how, NewEntry)
        PROVE  Output' = Contract!Out(s, step)
    BY <1>1, <1>3 DEF Served, Output, NewEntry, Contract!Out
  <1>4. ASSUME UNCHANGED entries PROVE Held' = Held
    BY <1>1, <1>4 DEF Held, Streams
  <1>5. CASE Bypass(m)
    BY <1>1, <1>3, <1>4, <1>5 DEF Bypass, Contract!Next, Contract!Fresh
  <1>6. CASE Compute(m)
    <2>1. Held' = Held \/ Held' = [Held EXCEPT ![s] = step]
      <3>1. CASE m \in NonTensorModules
        BY <1>4, <1>6, <3>1 DEF Compute
      <3>2. CASE m \notin NonTensorModules
        <4>1. entries' = [entries EXCEPT ![KeyOf(m)] = NewEntry]
          BY <1>6, <3>2 DEF Compute
        <4>2. NewEntry # None /\ NewEntry.step = step
          BY <1>1, NoneAssumption DEF NewEntry
        <4>3. ASSUME NEW r \in Streams
              PROVE  Held'[r] = IF r = s THEN step ELSE Held[r]
          <5>1. <<r[1], r[2], r[3], size>> \in Keys
            BY <1>1 DEF Streams, Keys, TypeOK
          <5>2. r = s <=> <<r[1], r[2], r[3], size>> = KeyOf(m)
            BY <1>1, <1>2 DEF Streams, KeyOf
          <5> QED BY <1>1, <4>1, <4>2, <5>1, <5>2 DEF Held, TypeOK
        <4> QED BY <4>3 DEF Held
      <3> QED BY <3>1, <3>2
    <2> QED BY <1>1, <1>3, <1>6, <2>1 DEF Compute, Contract!Next, Contract!Fresh
  <1>7. CASE ForwardReuse(m) /\ Serve(m)
    <2>1. LET e == EntryOf(m) IN /\ e.batch = batch /\ e.step \in StepIdx
                                /\ e.step < step /\ step - e.step < cfg.interval
      BY <1>7, ServedIsRecent DEF ForwardReuse
    <2>2. Held[s] = EntryOf(m).step /\ EntryOf(m) # None
      BY <1>1, <1>2, <1>7 DEF Held, EntryOf, KeyOf, ForwardReuse
    <2>3. Output' = Contract!Out(s, Held[s])
      BY <1>1, <1>7, <2>1, <2>2 DEF Serve, Served, Output, Contract!Out
    <2>4. Held[s] # None
      BY <2>1, <2>2 DEF StepIdx
    <2> QED BY <1>1, <1>4, <1>7, <2>1, <2>2, <2>3, <2>4 DEF Serve, Contract!Next, Contract!Reuse
  <1> QED BY <1>5, <1>6, <1>7 DEF Forward, ForwardInactive, ForwardMiss, ForwardScheduled,
                                  ForwardWarmup, ForwardReuse

\* The cache under the fixed-interval policy implements BoundedReuse: whatever
\* the sampler reads was computed now, or less than `interval' steps ago by the
\* same stream in the same batch (CachedModule.forward).
THEOREM Refinement == Spec => ImplementsContract
  <1>1. IInv /\ [Next]_vars => [Contract!Next]_(Contract!vars)
    <2> SUFFICES ASSUME IInv, [Next]_vars PROVE [Contract!Next]_(Contract!vars)
      OBVIOUS
    <2>1. CASE Drive /\ UNCHANGED policyVars
      BY <2>1, DriveRefines
    <2>2. ASSUME NEW m \in Modules, Forward(m) PROVE [Contract!Next]_(Contract!vars)
      BY <2>2, ForwardRefines
    <2>3. CASE UNCHANGED vars
      BY <2>3 DEF vars, driverVars, cacheVars, policyVars, Contract!vars, Sampling, Held, Output,
                  Streams
    <2> QED BY <2>1, <2>2, <2>3 DEF Next, Terminated
  <1> QED BY InitRefines, Invariance, <1>1, PTL DEF Spec, ImplementsContract, Contract!Spec

-----------------------------------------------------------------------------
(* The warm-up counters realise the schedule. *)

\* Where the counters can be told apart: a window has candidates of one solver
\* stage only, and never just one in a batch.  Its counters are kept per module
\* and branch, and start over when a query's step is before the last one's.
WarmupsSeparate ==
    cfg.active_window_warmup_refreshes = 0 \/
    \A m \in Modules, b \in Branches, st \in Stages, s \in StepIdx :
      Candidate(m, b, st, s) =>
        /\ \E t \in StepIdx : t # s /\ Candidate(m, b, st, t)
        /\ \A stage \in Stages, t \in StepIdx : Candidate(m, b, stage, t) => stage = st

\* The evaluation of this batch that has been made.
Past(m, b, st, u) == u < step \/ (u = step /\ CalledThisStep(m, b, st))

\* An active call leaves an entry, which stays until the batch ends.
EntriesKept ==
    Sampling => \A m \in Modules \ NonTensorModules, b \in Branches, st \in Stages, u \in StepIdx :
      Past(m, b, st, u) /\ ActiveAt(m, b, st, u) => entries[<<m, b, st, size>>] # None

\* No entry outlives its session.
SignaturesCurrent ==
    Sampling => \A m \in Modules, b \in Branches, st \in Stages, n \in BatchSizes :
      entries[<<m, b, st, n>>] # None =>
        entries[<<m, b, st, n>>].signature = [batch_size |-> n, session_id |-> session]

\* The candidates of this batch that the policy has been asked about.
Queried(m, b, st) == {u \in StepIdx : Past(m, b, st, u) /\ Candidate(m, b, st, u)}

Capped(n) == IF n <= cfg.active_window_warmup_refreshes THEN n
             ELSE cfg.active_window_warmup_refreshes

\* The counters of a window with candidates: those of this batch, or, before
\* its first one, those the last batch has left.
CounterTrue(m, b, st) ==
    IF Sampling /\ Queried(m, b, st) # {}
    THEN /\ lastStep[<<m, b>>] \in Queried(m, b, st)
         /\ \A u \in Queried(m, b, st) : u <= lastStep[<<m, b>>]
         /\ refreshCount[<<m, b>>] = Capped(Cardinality(Queried(m, b, st)))
    ELSE \/ lastStep[<<m, b>>] = None /\ refreshCount[<<m, b>>] = 0
         \/ /\ lastStep[<<m, b>>] \in StepIdx /\ Candidate(m, b, st, lastStep[<<m, b>>])
            /\ \A u \in StepIdx : Candidate(m, b, st, u) => u <= lastStep[<<m, b>>]

CountersTrue ==
    \A m \in Modules, b \in Branches, st \in Stages :
      (\E s \in StepIdx : Candidate(m, b, st, s)) => CounterTrue(m, b, st)

\* Candidates, like the schedule, are fixed by the sampler and the configuration.
LEMMA CandidatesFixed ==
    ASSUME UNCHANGED <<sampler, cfg>>
    PROVE  /\ \A m, b, st, u : Candidate(m, b, st, u)' <=> Candidate(m, b, st, u)
           /\ \A m, b, st, u : ReusesAt(m, b, st, u)' <=> ReusesAt(m, b, st, u)
           /\ WarmupsSeparate' <=> WarmupsSeparate
           /\ \A n : Capped(n)' = Capped(n)
  <1>1. \A m, b, st, u : Candidate(m, b, st, u)' <=> Candidate(m, b, st, u)
    BY ScheduleFixed DEF Candidate
  <1>2. ASSUME NEW m, NEW b, NEW st, NEW u
        PROVE  ReusesAt(m, b, st, u)' <=> ReusesAt(m, b, st, u)
    <2>1. {v \in 0..(u - 1) : Candidate(m, b, st, v)'} = {v \in 0..(u - 1) : Candidate(m, b, st, v)}
      BY <1>1
    <2> QED BY <1>1, <2>1 DEF ReusesAt
  <1>3. WarmupsSeparate' <=> WarmupsSeparate
    BY <1>1 DEF WarmupsSeparate
  <1> QED BY <1>1, <1>2, <1>3 DEF Capped

\* A step of the driver inside a batch makes no call.
LEMMA DrivePast ==
    ASSUME TypeOK, Control, UNCHANGED cfg, SetContext \/ SkipEval \/ EndStep, Sampling',
           NEW m \in Modules, NEW b \in Branches, NEW st \in Stages, NEW u \in StepIdx,
           ActiveAt(m, b, st, u)
    PROVE  Past(m, b, st, u)' <=> Past(m, b, st, u)
  <1>0. step \in Nat /\ pass \in Nat /\ u \in Nat
    BY DEF TypeOK, StepIdx
  <1>1. UNCHANGED sampler
    BY DEF SetContext, SkipEval, EndStep
  <1>2. Evals' = Evals
    BY <1>1, EvalsKept
  <1>3. CASE SetContext
    BY <1>2, <1>3 DEF SetContext, CalledThisStep, Eval, Modules, Past
  <1>4. CASE SkipEval
    <2>1. CalledThisStep(m, b, st) => CalledThisStep(m, b, st)'
      BY <1>0, <1>2, <1>4 DEF SkipEval, CalledThisStep, Eval
    <2>2. CalledThisStep(m, b, st)' => CalledThisStep(m, b, st) \/ ~ActiveAt(m, b, st, step)
      BY <1>0, <1>2, <1>4 DEF SkipEval, CalledThisStep, Eval, ActiveAt, EvaluatedAt
    <2> QED BY <1>0, <1>4, <2>1, <2>2 DEF SkipEval, Past
  <1>5. CASE EndStep
    <2>1. step' = step + 1 /\ ~CalledThisStep(m, b, st)'
      BY <1>2, <1>5 DEF EndStep, CalledThisStep, Sampling, TypeOK
    <2>2. ActiveAt(m, b, st, step) => CalledThisStep(m, b, st)
      BY <1>0, <1>5, EvalsShape DEF EndStep, CalledThisStep, ActiveAt, EvaluatedAt, TypeOK
    <2> QED BY <1>0, <2>1, <2>2 DEF Past
  <1> QED BY <1>3, <1>4, <1>5

\* When the batch is over every active evaluation has been made.
LEMMA EndPast ==
    ASSUME TypeOK, Control, EndStep, ~Sampling',
           NEW m \in Modules, NEW b \in Branches, NEW st \in Stages, NEW u \in StepIdx,
           ActiveAt(m, b, st, u)
    PROVE  Past(m, b, st, u)
  <1>1. step \in Nat /\ pass \in Nat /\ u \in Nat /\ step >= Steps - 1 /\ u <= Steps - 1
    BY DEF TypeOK, StepIdx, EndStep, Sampling
  <1>2. u = step => CalledThisStep(m, b, st)
    BY <1>1, EvalsShape DEF EndStep, CalledThisStep, ActiveAt, EvaluatedAt, TypeOK
  <1> QED BY <1>1, <1>2 DEF Past

\* A call makes its own evaluation.
LEMMA ForwardPast ==
    ASSUME TypeOK, Control, NEW c \in Modules, Call(c), UNCHANGED cfg,
           NEW m \in Modules, NEW b \in Branches, NEW st \in Stages, NEW u \in StepIdx
    PROVE  Past(m, b, st, u)' <=>
             Past(m, b, st, u) \/ (u = step /\ m = c /\ b = context.branch /\ st = context.stage)
  <1>1. step' = step
    BY DEF Call, Advance
  <1> QED BY <1>1, CalledAfter DEF Past

\* A batch starts with nothing evaluated.
LEMMA BeginPast ==
    ASSUME BeginBatch, NEW m, NEW b, NEW st, NEW u \in StepIdx
    PROVE  ~Past(m, b, st, u)'
  <1>1. step' = 0 /\ pass' = 1 /\ at' = "pass"
    BY DEF BeginBatch
  <1> QED BY <1>1 DEF Past, CalledThisStep, StepIdx

-----------------------------------------------------------------------------
(* Entries *)

\* Both stay true: only Compute writes an entry, and only BeginBatch drops one while
\* a batch is sampled.
LEMMA EntriesKeptNext ==
    ASSUME IInv, EntriesKept, SignaturesCurrent, [Next]_vars
    PROVE  EntriesKept' /\ SignaturesCurrent'
  <1>0. TypeOK /\ Control
    BY DEF IInv
  <1>1. CASE Drive /\ UNCHANGED policyVars
    <2>1. CASE BeginBatch
      <3>1. entries' = NoEntries
        BY <2>1 DEF BeginBatch, Clear
      <3>2. EntriesKept'
        BY <2>1, BeginPast DEF EntriesKept
      <3>3. SignaturesCurrent'
        BY <3>1 DEF SignaturesCurrent, NoEntries, Keys
      <3> QED BY <3>2, <3>3
    <2>2. CASE SetContext \/ SkipEval \/ EndStep
      <3>1. UNCHANGED <<sampler, size, entries, session, cfg>> /\ Sampling
        BY <1>1, <2>2 DEF SetContext, SkipEval, EndStep, cacheVars, Sampling, policyVars
      <3>2. \A m, b, st, u : ActiveAt(m, b, st, u)' <=> ActiveAt(m, b, st, u)
        BY <3>1, ScheduleFixed
      <3>3. SignaturesCurrent'
        BY <3>1 DEF SignaturesCurrent
      <3>4. EntriesKept'
        <4> SUFFICES ASSUME Sampling', NEW m \in Modules \ NonTensorModules, NEW b \in Branches,
                            NEW st \in Stages, NEW u \in StepIdx,
                            Past(m, b, st, u)', ActiveAt(m, b, st, u)'
                     PROVE  entries'[<<m, b, st, size>>] # None
          BY <3>1 DEF EntriesKept
        <4>1. Past(m, b, st, u) /\ ActiveAt(m, b, st, u)
          BY <1>0, <2>2, <3>1, <3>2, DrivePast
        <4> QED BY <3>1, <4>1 DEF EntriesKept
      <3> QED BY <3>3, <3>4
    <2>3. CASE EndWarmup
      BY <2>3 DEF EndWarmup, Sampling, EntriesKept, SignaturesCurrent
    <2> QED BY <1>1, <2>1, <2>2, <2>3 DEF Drive
  <1>2. ASSUME NEW c \in Modules, Forward(c) PROVE EntriesKept' /\ SignaturesCurrent'
    <2>1. /\ Call(c) /\ Sampling /\ context.step = step /\ KeyOf(c) \in Keys /\ NewEntry \in Entry
          /\ UNCHANGED <<cfg, sampler, batch, size, step, context>>
          /\ context.branch \in Branches /\ context.stage \in Stages /\ size \in BatchSizes
          /\ entries \in [Keys -> Entry \cup {None}]
      BY <1>0, <1>2, ForwardEffect, CallFacts DEF Call, Advance, Sampling, TypeOK
    <2>2. UNCHANGED session
      BY <1>0, <1>2, ForwardEffect DEF Bypass, Compute, Serve
    <2>3. UNCHANGED entries \/ entries' = [entries EXCEPT ![KeyOf(c)] = NewEntry]
      BY <1>0, <1>2, ForwardEffect DEF Bypass, Compute, Serve
    <2>4. NewEntry # None /\ NewEntry.signature = [batch_size |-> size, session_id |-> session]
      BY <2>1, NoneAssumption DEF NewEntry, Signature
    <2>5. KeyOf(c) = <<c, context.branch, context.stage, size>>
      BY DEF KeyOf
    <2>6. SignaturesCurrent'
      <3> SUFFICES ASSUME NEW m \in Modules, NEW b \in Branches, NEW st \in Stages,
                          NEW n \in BatchSizes, entries'[<<m, b, st, n>>] # None
                   PROVE  entries'[<<m, b, st, n>>].signature
                            = [batch_size |-> n, session_id |-> session]
        BY <2>2 DEF SignaturesCurrent
      <3>1. <<m, b, st, n>> \in Keys
        BY DEF Keys
      <3>2. CASE entries'[<<m, b, st, n>>] = entries[<<m, b, st, n>>]
        BY <2>1, <3>2 DEF SignaturesCurrent
      <3>3. CASE entries'[<<m, b, st, n>>] = NewEntry /\ <<m, b, st, n>> = KeyOf(c)
        BY <2>4, <2>5, <3>3
      <3> QED BY <2>1, <2>3, <3>1, <3>2, <3>3
    <2>7. EntriesKept'
      <3> SUFFICES ASSUME NEW m \in Modules \ NonTensorModules, NEW b \in Branches,
                          NEW st \in Stages, NEW u \in StepIdx,
                          Past(m, b, st, u)', ActiveAt(m, b, st, u)'
                   PROVE  entries'[<<m, b, st, size>>] # None
        BY <2>1 DEF EntriesKept
      <3>1. ActiveAt(m, b, st, u)
        BY <2>1, ScheduleFixed
      <3>2. <<m, b, st, size>> \in Keys
        BY <2>1 DEF Keys
      <3>3. CASE Past(m, b, st, u)
        <4>1. entries[<<m, b, st, size>>] # None
          BY <2>1, <3>1, <3>3 DEF EntriesKept
        <4> QED BY <2>1, <2>3, <2>4, <3>2, <4>1
      <3>4. CASE u = step /\ m = c /\ b = context.branch /\ st = context.stage
        <4>1. Active
          BY <1>0, <2>1, <3>1, <3>4, CallIsFirst
        <4>2. CASE Compute(c)
          <5>1. entries' = [entries EXCEPT ![KeyOf(c)] = NewEntry]
            BY <3>4, <4>2 DEF Compute
          <5> QED BY <2>1, <2>4, <2>5, <3>2, <3>4, <5>1
        <4>3. CASE Serve(c) /\ ForwardReuse(c)
          BY <2>5, <3>4, <4>3 DEF Serve, ForwardReuse, EntryOf
        <4> QED BY <1>2, <4>1, <4>2, <4>3 DEF Forward, ForwardInactive, ForwardMiss,
                    ForwardScheduled, ForwardWarmup, ForwardReuse
      <3> QED BY <1>0, <2>1, <3>3, <3>4, ForwardPast
    <2> QED BY <2>6, <2>7
  <1>3. CASE UNCHANGED vars
    <2> USE <1>3 DEF vars, driverVars, cacheVars, policyVars
    <2>1. \A m, b, st, u : /\ ActiveAt(m, b, st, u)' <=> ActiveAt(m, b, st, u)
                           /\ Past(m, b, st, u)' <=> Past(m, b, st, u)
      <3>1. Evals' = Evals
        BY EvalsKept
      <3> QED BY <3>1, ScheduleFixed DEF Past, CalledThisStep, Eval
    <2> QED BY <2>1 DEF EntriesKept, SignaturesCurrent, Sampling
  <1> QED BY <1>1, <1>2, <1>3 DEF Next, Terminated

\* The policy's counters are asked about exactly the candidates.
LEMMA AskedIsCandidate ==
    ASSUME IInv, EntriesKept, NEW m \in Modules, Call(m)
    PROVE  Candidate(m, context.branch, context.stage, step) <=>
             Active /\ EntryOf(m) # None /\ ~ScheduledRefresh(step)
  <1> DEFINE b == context.branch  st == context.stage
  <1>1. /\ TypeOK /\ Control /\ Sampling /\ context.step = step /\ step \in StepIdx
        /\ b \in Branches /\ st \in Stages /\ size \in BatchSizes
        /\ EntryOf(m) = entries[<<m, b, st, size>>]
    BY CallFacts DEF IInv, Call, Sampling, TypeOK, EntryOf, KeyOf
  <1>2. Active <=> ActiveAt(m, b, st, step)
    BY <1>1, CallIsFirst
  <1>3. ASSUME Candidate(m, b, st, step) PROVE EntryOf(m) # None
    <2>1. PICK u \in 0..(step - 1) : ActiveAt(m, b, st, u)
      BY <1>3 DEF Candidate
    <2>2. u \in StepIdx /\ Past(m, b, st, u) /\ m \notin NonTensorModules
      BY <1>1, <1>3, <2>1 DEF Candidate, Past, StepIdx
    <2> QED BY <1>1, <2>1, <2>2 DEF EntriesKept
  <1>4. ASSUME EntryOf(m) # None, Active, ~ScheduledRefresh(step) PROVE Candidate(m, b, st, step)
    <2>1. EntryCurrent(m, b, st, size) /\ entries[<<m, b, st, size>>].step \in StepIdx
      BY <1>1, <1>4, EntryTyped DEF IInv, EntriesCurrent
    <2>2. ~CalledThisStep(m, b, st)
      BY <1>1, CallIsFirst
    <2>3. /\ m \notin NonTensorModules
          /\ entries[<<m, b, st, size>>].step \in 0..(step - 1)
          /\ ActiveAt(m, b, st, entries[<<m, b, st, size>>].step)
      BY <1>1, <1>4, <2>1, <2>2 DEF EntryCurrent, StepIdx
    <2> QED BY <1>2, <1>4, <2>3 DEF Candidate
  <1> QED BY <1>2, <1>3, <1>4 DEF Candidate

-----------------------------------------------------------------------------
(* Counters *)

\* Before a candidate's query, its window's count is that of this batch.
LEMMA CountSeenTrue ==
    ASSUME IInv, WarmupsSeparate, cfg.active_window_warmup_refreshes # 0, CountersTrue,
           NEW m \in Modules, Call(m), Candidate(m, context.branch, context.stage, step)
    PROVE  /\ Queried(m, context.branch, context.stage)
                = {u \in 0..(step - 1) : Candidate(m, context.branch, context.stage, u)}
           /\ IsFiniteSet(Queried(m, context.branch, context.stage))
           /\ Cardinality(Queried(m, context.branch, context.stage)) \in Nat
           /\ step \notin Queried(m, context.branch, context.stage)
           /\ CountSeen = Capped(Cardinality(Queried(m, context.branch, context.stage)))
           /\ lastStep[WindowKey] # step
  <1>1. PICK b, st : b = context.branch /\ st = context.stage
    OBVIOUS
  <1>2. /\ TypeOK /\ Control /\ Sampling /\ context.step = step /\ step \in StepIdx
        /\ b \in Branches /\ st \in Stages /\ WindowKey = <<m, b>>
    BY <1>1, CallFacts DEF IInv, Call, Sampling, TypeOK, WindowKey
  <1>3. ~CalledThisStep(m, b, st)
    BY <1>1, <1>2, CallIsFirst
  <1>4. PICK A : A = Queried(m, b, st)
    OBVIOUS
  <1> SUFFICES /\ A = {u \in 0..(step - 1) : Candidate(m, b, st, u)}
               /\ IsFiniteSet(A) /\ Cardinality(A) \in Nat /\ step \notin A
               /\ CountSeen = Capped(Cardinality(A)) /\ lastStep[WindowKey] # step
    BY <1>1, <1>4
  <1>5. A = {u \in 0..(step - 1) : Candidate(m, b, st, u)}
    BY <1>2, <1>3, <1>4 DEF Queried, Past, StepIdx
  <1>6. IsFiniteSet(A) /\ Cardinality(A) \in Nat /\ step \notin A
    <2>1. IsFiniteSet(0..(step - 1))
      BY <1>2, FS_Interval DEF StepIdx
    <2>2. IsFiniteSet(A)
      BY <1>5, <2>1, FS_Subset
    <2> QED BY <1>2, <1>5, <2>2, FS_CardinalityType DEF StepIdx
  <1>7. CounterTrue(m, b, st) /\ Candidate(m, b, st, step)
    BY <1>1, <1>2 DEF CountersTrue
  <1>8. CASE A # {}
    <2>1. lastStep[<<m, b>>] \in A /\ refreshCount[<<m, b>>] = Capped(Cardinality(A))
      BY <1>2, <1>4, <1>7, <1>8 DEF CounterTrue
    <2>2. lastStep[<<m, b>>] < step /\ lastStep[<<m, b>>] # step
      BY <1>2, <1>5, <2>1 DEF StepIdx
    <2>3. ~StepWentBack
      BY <1>2, <1>5, <2>1, <2>2 DEF StepWentBack, StepIdx
    <2> QED BY <1>1, <1>2, <1>4, <1>5, <1>6, <2>1, <2>2, <2>3 DEF CountSeen
  <1>9. CASE A = {}
    <2>1. Cardinality(A) = 0 /\ Capped(0) = 0
      <3>1. cfg.active_window_warmup_refreshes \in Nat
        BY <1>2 DEF TypeOK, ConfigOK
      <3> QED BY <1>9, <3>1, FS_EmptySet DEF Capped
    <2>2. CASE lastStep[<<m, b>>] = None /\ refreshCount[<<m, b>>] = 0
      <3>1. None # step
        BY <1>2 DEF StepIdx
      <3> QED BY <1>1, <1>2, <1>4, <1>5, <1>6, <2>1, <2>2, <3>1 DEF CountSeen, StepWentBack
    <2>3. CASE /\ lastStep[<<m, b>>] \in StepIdx
               /\ \A u \in StepIdx : Candidate(m, b, st, u) => u <= lastStep[<<m, b>>]
      <3>1. PICK t \in StepIdx : t # step /\ Candidate(m, b, st, t)
        BY <1>2, <1>7 DEF WarmupsSeparate
      <3>2. ~(t < step)
        BY <1>2, <1>5, <1>9, <3>1 DEF StepIdx
      <3>3. step < lastStep[<<m, b>>]
        BY <1>2, <2>3, <3>1, <3>2 DEF StepIdx
      <3>4. StepWentBack /\ lastStep[<<m, b>>] # step
        BY <1>2, <2>3, <3>3 DEF StepWentBack, StepIdx
      <3> QED BY <1>1, <1>2, <1>4, <1>5, <1>6, <2>1, <3>4 DEF CountSeen
    <2> QED BY <1>4, <1>7, <1>9, <2>2, <2>3 DEF CounterTrue
  <1> QED BY <1>8, <1>9

\* A candidate's query counts itself; any other call leaves the counters alone.
LEMMA ForwardKeepsCounters ==
    ASSUME IInv, EntriesKept, WarmupsSeparate, cfg.active_window_warmup_refreshes # 0, CountersTrue,
           NEW c \in Modules, Forward(c)
    PROVE  CountersTrue'
  <1>1. /\ TypeOK /\ Control /\ Call(c) /\ Sampling /\ Sampling' /\ context.step = step
        /\ UNCHANGED <<cfg, sampler, batch, size, step, context>> /\ step \in StepIdx
        /\ context.branch \in Branches /\ context.stage \in Stages /\ WindowKey \in WindowKeys
        /\ cfg.active_window_warmup_refreshes \in Nat
    BY ForwardEffect, CallFacts DEF IInv, Call, Advance, Sampling, TypeOK, ConfigOK
  <1>2. PICK b0, st0 : b0 = context.branch /\ st0 = context.stage /\ WindowKey = <<c, b0>>
    BY <1>1 DEF WindowKey, Call
  <1> SUFFICES ASSUME NEW m \in Modules, NEW b \in Branches, NEW st \in Stages,
                      NEW s \in StepIdx, Candidate(m, b, st, s)'
               PROVE  CounterTrue(m, b, st)'
    BY DEF CountersTrue
  <1>3. /\ \A u : Candidate(m, b, st, u)' <=> Candidate(m, b, st, u)
        /\ \A n : Capped(n)' = Capped(n)
    BY <1>1, CandidatesFixed
  <1>4. CounterTrue(m, b, st) /\ Candidate(m, b, st, s)
    BY <1>3 DEF CountersTrue
  <1>5. \A u \in StepIdx : Past(m, b, st, u)' <=>
          Past(m, b, st, u) \/ (u = step /\ m = c /\ b = b0 /\ st = st0)
    BY <1>1, <1>2, ForwardPast
  <1>6. PICK A, B : A = Queried(m, b, st) /\ B = Queried(m, b, st)'
    OBVIOUS
  <1>7. B = IF m = c /\ b = b0 /\ st = st0 /\ Candidate(m, b, st, step) THEN A \cup {step} ELSE A
    BY <1>1, <1>3, <1>5, <1>6 DEF Queried
  <1>8. CASE Candidate(c, b0, st0, step)
    <2>1. ConsumeWarmup
      <3>1. Active /\ EntryOf(c) # None /\ ~ScheduledRefresh(step)
        BY <1>1, <1>2, <1>8, AskedIsCandidate
      <3> QED BY <1>1, <3>1 DEF Forward, ForwardInactive, ForwardMiss, ForwardScheduled,
                               ForwardWarmup, ForwardReuse
    <2>2. /\ refreshCount' = [refreshCount EXCEPT ![<<c, b0>>] = CountAfter]
          /\ lastStep' = [lastStep EXCEPT ![<<c, b0>>] = step]
      BY <1>1, <1>2, <2>1 DEF ConsumeWarmup
    <2>3. /\ <<c, b0>> \in WindowKeys /\ <<m, b>> \in WindowKeys
          /\ refreshCount \in [WindowKeys -> Nat] /\ lastStep \in [WindowKeys -> StepIdx \cup {None}]
      BY <1>1, <1>2 DEF WindowKeys, TypeOK
    <2>4. CASE m = c /\ b = b0
      <3>1. st = st0
        BY <1>1, <1>2, <1>4, <1>8, <2>4 DEF WarmupsSeparate
      <3>2. /\ A = {u \in 0..(step - 1) : Candidate(m, b, st, u)}
            /\ IsFiniteSet(A) /\ Cardinality(A) \in Nat /\ step \notin A
            /\ CountSeen = Capped(Cardinality(A)) /\ lastStep[<<m, b>>] # step
        BY <1>1, <1>2, <1>6, <1>8, <2>4, <3>1, CountSeenTrue
      <3>3. B = A \cup {step}
        BY <1>7, <1>8, <2>4, <3>1
      <3>4. Cardinality(B) = Cardinality(A) + 1
        BY <3>2, <3>3, FS_AddElement
      <3>5. lastStep'[<<m, b>>] = step /\ refreshCount'[<<m, b>>] = CountAfter
        BY <2>2, <2>3, <2>4
      <3>6. CountAfter = Capped(Cardinality(B))
        BY <1>1, <1>2, <2>4, <3>2, <3>4 DEF CountAfter, WarmupPending, Capped
      <3>7. \A u \in B : u <= step
        BY <1>1, <3>2, <3>3 DEF StepIdx
      <3> QED BY <1>1, <1>3, <1>6, <3>3, <3>5, <3>6, <3>7 DEF CounterTrue
    <2>5. CASE ~(m = c /\ b = b0)
      <3>1. lastStep'[<<m, b>>] = lastStep[<<m, b>>] /\ refreshCount'[<<m, b>>] = refreshCount[<<m, b>>]
        BY <2>2, <2>3, <2>5
      <3>2. B = A
        BY <1>7, <2>5
      <3> QED BY <1>1, <1>3, <1>4, <1>6, <3>1, <3>2 DEF CounterTrue
    <2> QED BY <2>4, <2>5
  <1>9. CASE ~Candidate(c, b0, st0, step)
    <2>1. ~(Active /\ EntryOf(c) # None /\ ~ScheduledRefresh(step))
      BY <1>1, <1>2, <1>9, AskedIsCandidate
    <2>2. UNCHANGED <<refreshCount, lastStep>>
      BY <1>1, <2>1 DEF Forward, ForwardInactive, ForwardMiss, ForwardScheduled,
                        ForwardWarmup, ForwardReuse, policyVars
    <2>3. B = A
      BY <1>7, <1>9
    <2> QED BY <1>1, <1>3, <1>4, <1>6, <2>2, <2>3 DEF CounterTrue
  <1> QED BY <1>8, <1>9

\* At the end of a batch the counters become those the next one finds.
LEMMA DriveKeepsCounters ==
    ASSUME IInv, CountersTrue, Drive, UNCHANGED policyVars
    PROVE  CountersTrue'
  <1>1. TypeOK /\ Control /\ UNCHANGED <<cfg, refreshCount, lastStep, sampler>>
    BY DEF IInv, policyVars, Drive, BeginBatch, SetContext, SkipEval, EndStep, EndWarmup
  <1> SUFFICES ASSUME NEW m \in Modules, NEW b \in Branches, NEW st \in Stages,
                      NEW s \in StepIdx, Candidate(m, b, st, s)'
               PROVE  CounterTrue(m, b, st)'
    BY DEF CountersTrue
  <1>2. /\ \A u : Candidate(m, b, st, u)' <=> Candidate(m, b, st, u)
        /\ \A n : Capped(n)' = Capped(n)
    BY <1>1, CandidatesFixed
  <1>3. CounterTrue(m, b, st) /\ Candidate(m, b, st, s)
    BY <1>2 DEF CountersTrue
  <1>4. CASE BeginBatch
    <2>1. ~Sampling
      BY <1>4 DEF BeginBatch, Sampling
    <2>2. Queried(m, b, st)' = {}
      BY <1>4, BeginPast DEF Queried
    <2> QED BY <1>1, <1>2, <1>3, <2>1, <2>2 DEF CounterTrue
  <1>5. CASE EndWarmup
    BY <1>1, <1>2, <1>3, <1>5 DEF CounterTrue, EndWarmup, Sampling
  <1>6. CASE SetContext \/ SkipEval \/ EndStep
    <2>1. Sampling
      BY <1>6 DEF SetContext, SkipEval, EndStep, Sampling
    <2>2. CASE Sampling'
      <3>1. \A u \in StepIdx : Candidate(m, b, st, u) => (Past(m, b, st, u)' <=> Past(m, b, st, u))
        BY <1>1, <1>6, <2>2, DrivePast DEF Candidate
      <3>2. Queried(m, b, st)' = Queried(m, b, st)
        BY <1>2, <3>1 DEF Queried
      <3> QED BY <1>1, <1>2, <1>3, <2>1, <2>2, <3>2 DEF CounterTrue
    <2>3. CASE ~Sampling'
      <3>1. EndStep
        BY <1>6, <2>1, <2>3 DEF SetContext, SkipEval, Sampling
      <3>2. \A u \in StepIdx : Candidate(m, b, st, u) => u \in Queried(m, b, st)
        BY <1>1, <2>3, <3>1, EndPast DEF Candidate, Queried
      <3>3. Queried(m, b, st) # {}
        BY <1>3, <3>2
      <3>4. /\ lastStep[<<m, b>>] \in Queried(m, b, st)
            /\ \A u \in Queried(m, b, st) : u <= lastStep[<<m, b>>]
        BY <1>3, <2>1, <3>3 DEF CounterTrue
      <3>5. PICK l : l = lastStep[<<m, b>>]
        OBVIOUS
      <3>6. l \in StepIdx /\ Candidate(m, b, st, l) /\ \A u \in StepIdx : Candidate(m, b, st, u) => u <= l
        BY <3>2, <3>4, <3>5 DEF Queried
      <3>7. l = lastStep'[<<m, b>>] /\ Candidate(m, b, st, l)'
        BY <1>1, <1>2, <3>5, <3>6
      <3>8. Candidate(m, b, st, lastStep[<<m, b>>])'
        BY <3>7 DEF Candidate, ActiveAt, EvaluatedAt, ActiveFor, InSteps, InTimes, BranchEnabled,
               TimeOf, Runs, Evals, Eval, ScheduledRefresh
      <3> QED BY <1>2, <2>3, <3>6, <3>7, <3>8 DEF CounterTrue
    <2> QED BY <2>2, <2>3
  <1> QED BY <1>4, <1>5, <1>6 DEF Drive

-----------------------------------------------------------------------------
(* Answers *)

\* The schedule's reuses are the candidates whose window is no longer warming up.
LEMMA ReuseIsWarm ==
    ASSUME IInv, WarmupsSeparate, cfg.active_window_warmup_refreshes # 0 => CountersTrue,
           NEW m \in Modules, Call(m)
    PROVE  ReusesAt(m, context.branch, context.stage, step) <=>
             Candidate(m, context.branch, context.stage, step) /\ ~WarmupPending
  <1>1. PICK b, st : b = context.branch /\ st = context.stage
    OBVIOUS
  <1>2. PICK W, A : /\ W = cfg.active_window_warmup_refreshes
                    /\ A = {u \in 0..(step - 1) : Candidate(m, b, st, u)}
    OBVIOUS
  <1>3. TypeOK /\ Control /\ step \in StepIdx /\ W \in Nat /\ WindowKey \in WindowKeys
    BY <1>2, CallFacts DEF IInv, TypeOK, ConfigOK
  <1>4. Cardinality(A) \in Nat
    <2>1. IsFiniteSet(0..(step - 1))
      BY <1>3, FS_Interval DEF StepIdx
    <2> QED BY <1>2, <2>1, FS_Subset, FS_CardinalityType
  <1>5. ReusesAt(m, b, st, step) <=> Candidate(m, b, st, step) /\ W <= Cardinality(A)
    BY <1>2 DEF ReusesAt
  <1> SUFFICES ASSUME Candidate(m, b, st, step) PROVE ~WarmupPending <=> W <= Cardinality(A)
    BY <1>1, <1>5
  <1>6. CASE W = 0
    <2>1. CountSeen \in Nat
      BY <1>3 DEF CountSeen, TypeOK
    <2> QED BY <1>2, <1>4, <1>6, <2>1 DEF WarmupPending
  <1>7. CASE W # 0
    <2>1. CountSeen = Capped(Cardinality(A))
      BY <1>1, <1>2, <1>7, CountSeenTrue
    <2> QED BY <1>2, <1>3, <1>4, <2>1 DEF WarmupPending, Capped
  <1> QED BY <1>6, <1>7

\* The entry a candidate finds is of this session, so it is never refused.
LEMMA EntryAccepted ==
    ASSUME IInv, SignaturesCurrent, NEW m \in Modules, Call(m), EntryOf(m) # None
    PROVE  EntryMatches(EntryOf(m))
  <1>1. /\ Sampling /\ context.branch \in Branches /\ context.stage \in Stages
        /\ size \in BatchSizes
    BY CallFacts DEF IInv, Call, Sampling, TypeOK
  <1> QED BY <1>1 DEF SignaturesCurrent, EntryMatches, EntryOf, KeyOf, Signature

\* Each way through CachedModule.forward gives the schedule's answer.
LEMMA ForwardAnswers ==
    ASSUME IInv, EntriesKept, SignaturesCurrent, WarmupsSeparate,
           cfg.active_window_warmup_refreshes # 0 => CountersTrue,
           NEW m \in Modules, Forward(m)
    PROVE  MatchesSchedule'
  <1>1. PICK b, st : b = context.branch /\ st = context.stage
    OBVIOUS
  <1>2. /\ TypeOK /\ Control /\ Call(m) /\ context.step = step
        /\ UNCHANGED <<cfg, sampler>>
    BY ForwardEffect, CallFacts DEF IInv, Call, Advance
  <1>3. /\ Active <=> ActiveAt(m, b, st, step)
        /\ Candidate(m, b, st, step) <=>
             Active /\ EntryOf(m) # None /\ ~ScheduledRefresh(step)
        /\ ReusesAt(m, b, st, step) <=> Candidate(m, b, st, step) /\ ~WarmupPending
        /\ EntryOf(m) # None => EntryMatches(EntryOf(m))
    BY <1>1, <1>2, CallIsFirst, AskedIsCandidate, ReuseIsWarm, EntryAccepted
  <1>4. /\ ReusesAt(m, b, st, step)' <=> ReusesAt(m, b, st, step)
        /\ ActiveAt(m, b, st, step)' <=> ActiveAt(m, b, st, step)
        /\ step' = step
    BY <1>2, CandidatesFixed, ScheduleFixed DEF Call, Advance
  <1>5. PICK s, how : /\ s = served' /\ how = s.how
    OBVIOUS
  <1>6. /\ s.module = m /\ s.branch = b /\ s.stage = st /\ s.step = step
        /\ how = "reuse" <=> ReusesAt(m, b, st, step)
        /\ how = "bypass" <=> ~ActiveAt(m, b, st, step)
    <2>1. CASE ForwardInactive(m)
      BY <1>1, <1>2, <1>3, <1>5, <2>1 DEF ForwardInactive, Bypass, Served
    <2>2. CASE ForwardMiss(m) \/ ForwardScheduled(m)
      BY <1>1, <1>2, <1>3, <1>5, <2>2 DEF ForwardMiss, ForwardScheduled, Compute, Served
    <2>3. CASE ForwardWarmup(m)
      BY <1>1, <1>2, <1>3, <1>5, <2>3 DEF ForwardWarmup, Compute, Served
    <2>4. CASE ForwardReuse(m)
      BY <1>1, <1>2, <1>3, <1>5, <2>4 DEF ForwardReuse, Serve, Served
    <2> QED BY <2>1, <2>2, <2>3, <2>4 DEF Forward
  <1>7. ASSUME NEW r \in {step}
        PROVE  /\ ReusesAt(m, b, st, r)' <=> ReusesAt(m, b, st, step)
               /\ ActiveAt(m, b, st, r)' <=> ActiveAt(m, b, st, step)
    BY <1>2, CandidatesFixed, ScheduleFixed
  <1> QED BY <1>4, <1>5, <1>6, <1>7 DEF MatchesSchedule

\* Outside a call the last answer stands, or the batch is over.
LEMMA DriveKeepsAnswer ==
    ASSUME IInv, MatchesSchedule, Drive, UNCHANGED policyVars
    PROVE  MatchesSchedule'
  <1>1. CASE BeginBatch
    BY <1>1 DEF BeginBatch, Nothing, MatchesSchedule
  <1>2. CASE EndWarmup
    BY <1>2 DEF EndWarmup, Sampling, MatchesSchedule
  <1>3. CASE SetContext \/ SkipEval \/ EndStep
    <2>1. UNCHANGED <<served, sampler, cfg>> /\ Sampling
      BY <1>3 DEF SetContext, SkipEval, EndStep, cacheVars, Sampling, policyVars
    <2>2. /\ \A m, b, st, u : ActiveAt(m, b, st, u)' <=> ActiveAt(m, b, st, u)
          /\ \A m, b, st, u : ReusesAt(m, b, st, u)' <=> ReusesAt(m, b, st, u)
      BY <2>1, ScheduleFixed, CandidatesFixed
    <2> QED BY <2>1, <2>2 DEF MatchesSchedule
  <1> QED BY <1>1, <1>2, <1>3 DEF Drive

\* What the counters and the entries must satisfy for the answers to follow.
Scheduled ==
    WarmupsSeparate =>
      MatchesSchedule /\ (cfg.active_window_warmup_refreshes # 0 => CountersTrue)

\* Wherever the warm-up counters of a window can be told apart, the answer to
\* every call is the one the schedule gives as a function of the step alone: the
\* first `active_window_warmup_refreshes' candidates of each batch are refreshed,
\* every other is reused, and only inactive calls bypass the cache
\* (_consume_active_window_warmup_refresh, CachedModule.forward).
THEOREM ScheduleRealised == Spec => [](WarmupsSeparate => MatchesSchedule)
  <1>1. Init => EntriesKept /\ SignaturesCurrent /\ Scheduled
    <2> SUFFICES ASSUME Init PROVE EntriesKept /\ SignaturesCurrent /\ Scheduled
      OBVIOUS
    <2>1. ~Sampling /\ EntriesKept /\ SignaturesCurrent /\ MatchesSchedule
      BY DEF Init, RuntimeInit, Sampling, EntriesKept, SignaturesCurrent, MatchesSchedule
    <2>2. ASSUME NEW m \in Modules, NEW b \in Branches, NEW st \in Stages
          PROVE  CounterTrue(m, b, st)
      <3>1. <<m, b>> \in WindowKeys
        BY DEF WindowKeys
      <3> QED BY <2>1, <3>1 DEF Init, CounterTrue
    <2> QED BY <2>1, <2>2 DEF Scheduled, CountersTrue
  <1>2. IInv /\ EntriesKept /\ SignaturesCurrent /\ Scheduled /\ [Next]_vars => Scheduled'
    <2> SUFFICES ASSUME IInv, EntriesKept, SignaturesCurrent, Scheduled, [Next]_vars
                 PROVE  Scheduled'
      OBVIOUS
    <2>1. UNCHANGED <<sampler, cfg>>
      <3>1. CASE Drive /\ UNCHANGED policyVars
        BY <3>1 DEF policyVars, Drive, BeginBatch, SetContext, SkipEval, EndStep, EndWarmup
      <3>2. ASSUME NEW m \in Modules, Forward(m) PROVE UNCHANGED <<sampler, cfg>>
        BY <3>2, ForwardEffect DEF IInv, Call, Advance
      <3>3. CASE UNCHANGED vars
        BY <3>3 DEF vars, driverVars, policyVars
      <3> QED BY <3>1, <3>2, <3>3 DEF Next, Terminated
    <2>2. WarmupsSeparate' <=> WarmupsSeparate
      BY <2>1, CandidatesFixed
    <2> SUFFICES ASSUME WarmupsSeparate
                 PROVE  /\ MatchesSchedule'
                        /\ cfg.active_window_warmup_refreshes # 0 => CountersTrue'
      BY <2>1, <2>2 DEF Scheduled
    <2>3. MatchesSchedule /\ (cfg.active_window_warmup_refreshes # 0 => CountersTrue)
      BY DEF Scheduled
    <2>4. CASE Drive /\ UNCHANGED policyVars
      BY <2>3, <2>4, DriveKeepsAnswer, DriveKeepsCounters
    <2>5. ASSUME NEW m \in Modules, Forward(m)
          PROVE  /\ MatchesSchedule'
                 /\ cfg.active_window_warmup_refreshes # 0 => CountersTrue'
      BY <2>3, <2>5, ForwardAnswers, ForwardKeepsCounters
    <2>6. CASE UNCHANGED vars
      <3>1. UNCHANGED <<served, at, step, pass, module, refreshCount, lastStep>>
        BY <2>6 DEF vars, driverVars, cacheVars, policyVars
      <3>2. MatchesSchedule'
        <4>1. /\ \A m, b, st, u : ActiveAt(m, b, st, u)' <=> ActiveAt(m, b, st, u)
              /\ \A m, b, st, u : ReusesAt(m, b, st, u)' <=> ReusesAt(m, b, st, u)
          BY <2>1, ScheduleFixed, CandidatesFixed
        <4> QED BY <2>3, <3>1, <4>1 DEF MatchesSchedule, Sampling
      <3>3. ASSUME CountersTrue PROVE CountersTrue'
        <4>1. /\ \A m, b, st, u : Candidate(m, b, st, u)' <=> Candidate(m, b, st, u)
              /\ \A n : Capped(n)' = Capped(n)
          BY <2>1, CandidatesFixed
        <4>2. \A m, b, st, u : Past(m, b, st, u)' <=> Past(m, b, st, u)
          <5>1. Evals' = Evals
            BY <2>1, EvalsKept
          <5> QED BY <3>1, <5>1 DEF Past, CalledThisStep, Eval
        <4> SUFFICES ASSUME NEW m \in Modules, NEW b \in Branches, NEW st \in Stages,
                            CounterTrue(m, b, st)
                     PROVE  CounterTrue(m, b, st)'
          BY <3>3, <4>1 DEF CountersTrue
        <4>3. Queried(m, b, st)' = Queried(m, b, st)
          BY <4>1, <4>2 DEF Queried
        <4>4. Candidate(m, b, st, lastStep[<<m, b>>])' <=> Candidate(m, b, st, lastStep[<<m, b>>])
          BY <2>1, <3>1 DEF Candidate, ActiveAt, EvaluatedAt, ActiveFor, InSteps, InTimes,
                 BranchEnabled, TimeOf, Runs, Evals, Eval, ScheduledRefresh
        <4> QED BY <3>1, <4>1, <4>3, <4>4 DEF CounterTrue, Sampling
      <3> QED BY <2>3, <3>2, <3>3
    <2> QED BY <2>4, <2>5, <2>6 DEF Next, Terminated
  <1>3. IInv /\ EntriesKept /\ SignaturesCurrent /\ [Next]_vars => EntriesKept' /\ SignaturesCurrent'
    BY EntriesKeptNext
  <1>4. Scheduled => (WarmupsSeparate => MatchesSchedule)
    BY DEF Scheduled
  <1> QED BY Invariance, <1>1, <1>2, <1>3, <1>4, PTL DEF Spec
=============================================================================
