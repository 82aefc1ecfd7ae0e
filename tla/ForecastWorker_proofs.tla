------------------------ MODULE ForecastWorker_proofs ------------------------
(***************************************************************************)
(* The policies that forecast, for every number of modules, steps and       *)
(* batches, every configuration and all verification errors.                *)
(*                                                                          *)
(* First what both owe to TaylorHistory: the histories follow the entries,  *)
(* and forecasts go through distinct steps of their batch.  Then which      *)
(* steps TaylorSeer forecasts, then SpeCa's one decision per step, its      *)
(* errors, runs and statistics; last a worker, whichever policy it built.   *)
(***************************************************************************)
EXTENDS ForecastWorker, CacheRuntime_proofs, SequenceTheorems

-----------------------------------------------------------------------------
(* The inductive invariants *)

\* The key of a module in a branch; JiT has the Euler stage only.
KeyAt(m, b) == <<m, b, "euler", size>>

\* The evaluation of the branch, and whether the module's call in it is behind.
PassOf(b) == IF b = "cond" THEN 1 ELSE 2
Done(m, b) == \/ PassOf(b) < pass
              \/ PassOf(b) = pass /\ at = "module" /\ m < module

\* The keys that a refresh stores under.
Live(k) ==
    /\ cfg.enabled /\ k[1] \in cfg.cache_modules \ NonTensorModules
    /\ k[2] \in Guided /\ k[3] = "euler" /\ k[4] = size

EntryOK(k) ==
    entries[k] # None =>
      /\ Live(k) /\ entries[k].batch = batch /\ entries[k].signature = Signature(session)
      /\ entries[k].step <= step
      /\ entries[k].step = step => Done(k[1], k[2])

HistoryOK(k) ==
    /\ \A i \in DOMAIN history[k] : history[k][i].batch = batch
    /\ \A i, j \in DOMAIN history[k] : i < j => history[k][i].step < history[k][j].step

\* What the histories need of a configuration, whichever policy it is of.
HistoryConfig ==
    /\ cfg.enabled \in BOOLEAN /\ cfg.cache_modules \subseteq Modules
    /\ cfg.min_history \in Nat \ {0} /\ cfg.max_history \in Nat \ {0} /\ cfg.max_order \in Nat

HistoryTyped ==
    /\ DOMAIN history = Keys
    /\ \A k \in Keys : history[k] \in Seq(Item) /\ Len(history[k]) <= cfg.max_history
    /\ pending \subseteq Keys \X StepIdx
    /\ seer \in [Fields -> Nat]
    /\ points \in Seq(Item)

\* Of both policies.
HistoryInv ==
    /\ RuntimeTyped /\ Control /\ sampler = "jit"
    /\ HistoryConfig /\ HistoryTyped /\ HistoryMeetsEntry
    /\ Sampling => \A k \in Keys : EntryOK(k) /\ HistoryOK(k)
    /\ PointsSound

-----------------------------------------------------------------------------
(* Of TaylorSeer *)

\* The steps of this batch whose call with this key is behind.
Behind(k) == IF Done(k[1], k[2]) THEN step + 1 ELSE step

\* Until min_history steps are behind, the history holds all of them.
LengthOK(k) ==
    Live(k) /\ cfg.max_history >= cfg.min_history =>
      IF Behind(k) < cfg.min_history THEN Len(history[k]) = Behind(k)
      ELSE Len(history[k]) >= cfg.min_history

\* No multiple of the interval was left out since the entry was computed.
AgeOK(k) ==
    entries[k] # None =>
      \A s \in StepIdx : entries[k].step < s /\ s < Behind(k) => ~TaylorSeer!OnInterval(s)

SeerInv ==
    /\ HistoryInv /\ cfg \in SeerConfigs /\ TaylorSeer!ConfigOK(cfg)
    /\ Sampling => \A k \in Keys : LengthOK(k) /\ AgeOK(k)
    /\ TaylorSeer!SameStepsForecast

-----------------------------------------------------------------------------
(* Of SpeCa *)

StreamTyped ==
    /\ stream.decision \in Decision \cup {None} /\ stream.run \in 0 .. cfg.max_forecast_steps
    /\ stream.errors \in [Guided -> Errors \cup {None}]
    /\ stream = [decision |-> stream.decision, run |-> stream.run, errors |-> stream.errors]
    /\ speca \in [Counted -> Nat]
    /\ measured \in [StepIdx -> [Guided -> Errors \cup {None}]]

\* The decision, the run it belongs to and the errors found for it.
DecisionOK ==
    IF stream.decision = None THEN stream = NewStream
    ELSE /\ Speculative(stream.decision) <=> stream.run > 0
         /\ stream.decision.verify <=> stream.run > cfg.min_forecast_steps
         /\ stream.run <= stream.decision.step + 1
         /\ ~stream.decision.verify => stream.errors = NoErrors
         /\ stream.decision.reason # "missing_verification_error"

\* Some selected module has been called in this step.
Asked == \E m \in cfg.cache_modules, b \in Guided : Done(m, b)

\* The decision is that of this step from the first managed call on, before it
\* that of the step before.
DecidedInStep ==
    IF ~cfg.enabled THEN stream.decision = None
    ELSE /\ stream.decision # None <=> step > 0 \/ Asked
         /\ stream.decision # None => stream.decision.step = IF Asked THEN step ELSE step - 1

\* The errors of a verified step are those of the verifier's calls behind.
ErrorsInStep ==
    /\ stream.decision # None /\ stream.decision.verify =>
         \A b \in Guided : stream.errors[b] # None
                             <=> stream.decision.step < step \/ Done(cfg.verifier, b)
    /\ stream.decision # None => measured[stream.decision.step] = stream.errors
    /\ \A s \in StepIdx : stream.decision = None \/ stream.decision.step < s
                            => measured[s] = NoErrors

\* The last full step of a run is where its entries were computed; a full step
\* reaches the keys one call after the other.
EntriesInStep ==
    stream.decision # None =>
      \A m \in cfg.cache_modules \ NonTensorModules, b \in Guided :
        stream.run > 0 \/ stream.decision.step < step \/ Done(m, b) =>
          /\ entries[KeyAt(m, b)] # None
          /\ entries[KeyAt(m, b)].step = stream.decision.step - stream.run

\* While a step is forecast every history stays long enough.
ReadyInStep == stream.decision # None /\ stream.run > 0 /\ stream.decision.step = step => AllReady

Verifying == stream.decision # None /\ stream.decision.verify

\* What the verifier still owes to the step decided last.
Awaited == IF Verifying
           THEN (IF stream.errors["cond"] = None THEN 1 ELSE 0)
                  + (IF stream.errors["uncond"] = None THEN 1 ELSE 0)
           ELSE 0

CountsOK ==
    /\ speca["runs"] + stream.run = speca["speculative"]
    /\ speca["fresh_calls"] + Awaited = 2 * speca["verification_steps"]
    /\ speca["accepts"] + speca["rejects"] + (IF Verifying THEN 1 ELSE 0)
         <= speca["verification_steps"]
    /\ cfg.enabled /\ at # "reset" =>
         speca["full"] + speca["speculative"]
           = Steps * Sampled + (IF Sampling THEN step + (IF Asked THEN 1 ELSE 0) ELSE 0)

SpeCaInv ==
    /\ HistoryInv /\ cfg \in Configs /\ StreamTyped /\ DecisionOK
    /\ Sampling => /\ DecidedInStep /\ ErrorsInStep
                   /\ cfg.enabled => EntriesInStep /\ ReadyInStep
    /\ ~Sampling /\ Verifying => Found(stream.errors) = Guided
    /\ at = "reset" => batch = WarmupBatches + 1
    /\ ForecastsCommitted /\ CountsOK /\ RunEarned

WorkerInv ==
    \/ SpeCaRuns /\ SpeCaInv
    \/ SeerRuns /\ SeerInv

-----------------------------------------------------------------------------
(* The sampler *)

LEMMA JitEvals ==
    ASSUME sampler = "jit"
    PROVE  /\ Len(Evals) = 2 /\ Evals[1] = Eval("cond", "euler") /\ Evals[2] = Eval("uncond", "euler")
           /\ \A s : Runs("euler", s)
  BY DEF Evals, Runs

LEMMA KeysAt ==
    ASSUME size \in BatchSizes
    PROVE  /\ \A m \in Modules, b \in Guided :
                /\ KeyAt(m, b) \in Keys
                /\ KeyAt(m, b)[1] = m /\ KeyAt(m, b)[2] = b /\ KeyAt(m, b)[3] = "euler"
                /\ KeyAt(m, b)[4] = size
           /\ \A k \in Keys : Live(k) => k = KeyAt(k[1], k[2])
  BY DEF KeyAt, Keys, Guided, Branches, Stages, Live

\* A call, seen from the driver: it is the next one, and then it is behind.
LEMMA CallAt ==
    ASSUME HistoryInv, NEW m \in Modules, Call(m)
    PROVE  /\ Sampling /\ Sampling' /\ at = "module" /\ module = m
           /\ UNCHANGED <<sampler, batch, size, step, context>>
           /\ context.branch \in Guided /\ context.stage = "euler"
           /\ context.step = step /\ step \in StepIdx /\ batch \in BatchIdx
           /\ KeyOf(m) = KeyAt(m, context.branch) /\ KeyOf(m) \in Keys
           /\ NewEntry \in Entry /\ size \in BatchSizes
           /\ ~Done(m, context.branch)
           /\ \A n \in Modules, b \in Guided :
                Done(n, b)' <=> Done(n, b) \/ (n = m /\ b = context.branch)
  <1>1. /\ RuntimeTyped /\ Control /\ sampler = "jit" /\ Calls(m)
        /\ at = "module" /\ module = m /\ Advance
    BY DEF HistoryInv, Call, Calls
  <1>2. /\ pass \in 1..2 /\ context.step = step /\ step \in StepIdx
        /\ Evals[pass] = Eval(context.branch, context.stage)
        /\ KeyOf(m) \in Keys /\ batch \in BatchIdx /\ NewEntry \in Entry
    BY <1>1, CallsFacts, JitEvals
  <1>3. /\ context.stage = "euler" /\ context.branch \in Guided
        /\ context.branch = IF pass = 1 THEN "cond" ELSE "uncond"
    <2>1. CASE pass = 1
      BY <1>1, <1>2, <2>1, JitEvals DEF Eval, Guided
    <2>2. CASE pass = 2
      BY <1>1, <1>2, <2>2, JitEvals DEF Eval, Guided
    <2> QED BY <1>2, <2>1, <2>2
  <1>4. pass = PassOf(context.branch)
    BY <1>2, <1>3 DEF PassOf
  <1>5. /\ UNCHANGED <<sampler, batch, size, step, context>>
        /\ \/ at' = "module" /\ module' = module + 1 /\ pass' = pass /\ module < NumModules
           \/ at' = "pass" /\ pass' = pass + 1 /\ ~(module < NumModules)
    BY <1>1 DEF Advance
  <1>6. \A n \in Modules, b \in Guided :
                Done(n, b)' <=> Done(n, b) \/ (n = m /\ b = context.branch)
    <2> TAKE n \in Modules, b \in Guided
    <2>1. n \in Nat /\ n <= NumModules /\ m \in Nat /\ m <= NumModules /\ NumModules \in Nat
      BY RuntimeAssumption DEF Modules
    <2>2. PassOf(b) \in 1..2 /\ PassOf(b)' = PassOf(b) /\ (PassOf(b) = pass <=> b = context.branch)
      BY <1>2, <1>3 DEF PassOf, Guided
    <2>3. /\ Done(n, b) <=> PassOf(b) < pass \/ (PassOf(b) = pass /\ n < m)
          /\ Done(n, b)' <=> PassOf(b) < pass' \/ (PassOf(b) = pass' /\ at' = "module" /\ n < module')
      BY <1>1, <2>2 DEF Done
    <2> QED BY <1>1, <1>2, <1>5, <2>1, <2>2, <2>3
  <1>7. ~Done(m, context.branch)
    BY <1>1, <1>2, <1>4 DEF Done, Modules
  <1>8. KeyOf(m) = KeyAt(m, context.branch) /\ size \in BatchSizes
    BY <1>1, <1>3 DEF KeyOf, KeyAt, RuntimeTyped
  <1>9. Sampling /\ Sampling'
    BY <1>1, <1>5 DEF Sampling
  <1> QED BY <1>1, <1>2, <1>3, <1>5, <1>6, <1>7, <1>8, <1>9

\* The driver's other steps, seen from the calls.
LEMMA StepsAt ==
    ASSUME HistoryInv
    PROVE  /\ SetContext => /\ UNCHANGED <<sampler, batch, size, step, cacheVars>> /\ Sampling /\ Sampling'
                            /\ \A n \in Modules, b \in Guided : Done(n, b)' <=> Done(n, b)
           /\ EndStep => /\ UNCHANGED <<sampler, size, context, cacheVars>> /\ Sampling
                         /\ \A n \in Modules, b \in Guided : Done(n, b)
                         /\ \/ /\ Sampling' /\ step < Steps - 1 /\ step' = step + 1 /\ batch' = batch
                               /\ \A n \in Modules, b \in Guided : ~Done(n, b)'
                            \/ ~Sampling' /\ step = Steps - 1 /\ batch' = batch + 1
           /\ BeginBatch => /\ ~Sampling /\ Sampling' /\ step' = 0 /\ batch' = batch /\ batch \in BatchIdx
                            /\ size' \in BatchSizes /\ session' \in Nat
                            /\ \A n \in Modules, b \in Guided : ~Done(n, b)'
           /\ EndWarmup => ~Sampling /\ ~Sampling'
  <1>1. /\ RuntimeTyped /\ Control /\ sampler = "jit" /\ Len(Evals) = 2 /\ pass \in 1..3
        /\ step \in StepIdx /\ Steps \in Nat \ {0}
        /\ \A b : PassOf(b) \in 1..2 /\ PassOf(b)' = PassOf(b)
    BY JitEvals, RuntimeAssumption DEF HistoryInv, RuntimeTyped, PassOf
  <1>2. ASSUME SetContext
        PROVE  /\ UNCHANGED <<sampler, batch, size, step, cacheVars>> /\ Sampling /\ Sampling'
               /\ \A n \in Modules, b \in Guided : Done(n, b)' <=> Done(n, b)
    BY <1>1, <1>2, RuntimeAssumption DEF SetContext, Sampling, Done, Modules
  <1>3. ASSUME EndStep
        PROVE  /\ UNCHANGED <<sampler, size, context, cacheVars>> /\ Sampling
               /\ \A n \in Modules, b \in Guided : Done(n, b)
               /\ \/ /\ Sampling' /\ step < Steps - 1 /\ step' = step + 1 /\ batch' = batch
                     /\ \A n \in Modules, b \in Guided : ~Done(n, b)'
                  \/ ~Sampling' /\ step = Steps - 1 /\ batch' = batch + 1
    <2>1. UNCHANGED <<sampler, size, context, cacheVars>> /\ Sampling /\ pass = 3 /\ at = "pass"
      BY <1>1, <1>3 DEF EndStep, Sampling
    <2>2. \A n \in Modules, b \in Guided : Done(n, b)
      BY <1>1, <2>1 DEF Done
    <2>3. CASE step < Steps - 1
      <3>1. step' = step + 1 /\ pass' = 1 /\ at' = "pass" /\ batch' = batch
        BY <1>3, <2>1, <2>3 DEF EndStep
      <3>2. \A n \in Modules, b \in Guided : ~Done(n, b)'
        BY <1>1, <3>1 DEF Done
      <3> QED BY <2>1, <2>2, <2>3, <3>1, <3>2 DEF Sampling
    <2>4. CASE ~(step < Steps - 1)
      BY <1>1, <1>3, <2>1, <2>2, <2>4 DEF EndStep, Sampling, StepIdx
    <2> QED BY <2>3, <2>4
  <1>4. ASSUME BeginBatch
        PROVE  /\ ~Sampling /\ Sampling' /\ step' = 0 /\ batch' = batch /\ batch \in BatchIdx
               /\ size' \in BatchSizes /\ session' \in Nat
               /\ \A n \in Modules, b \in Guided : ~Done(n, b)'
    <2>1. at' = "pass" /\ pass' = 1
      BY <1>4 DEF BeginBatch
    <2>2. \A n \in Modules, b \in Guided : ~Done(n, b)'
      BY <1>1, <2>1 DEF Done
    <2> QED BY <1>1, <1>4, <2>2, DriverKeeps DEF BeginBatch, Sampling, RuntimeTyped
  <1>5. EndWarmup => ~Sampling /\ ~Sampling'
    BY DEF EndWarmup, Sampling
  <1> QED BY <1>2, <1>3, <1>4, <1>5

-----------------------------------------------------------------------------
(* Histories *)

\* A new output goes to the end, and past max_history the oldest one goes.
LEMMA RememberGives ==
    ASSUME HistoryConfig, NEW h \in Seq(Item), Len(h) <= cfg.max_history, NEW item \in Item,
           h # <<>> => h[Len(h)].step < item.step
    PROVE  LET r == Remember(h, item)
               d == IF Len(h) = cfg.max_history THEN 1 ELSE 0
           IN /\ r \in Seq(Item) /\ r # <<>> /\ r[Len(r)] = item
              /\ Len(r) = Len(h) + 1 - d /\ Len(r) <= cfg.max_history
              /\ \A i \in DOMAIN r : r[i] = IF i = Len(r) THEN item ELSE h[i + d]
              /\ \A i \in DOMAIN r : i < Len(r) => i + d \in DOMAIN h
  <1> DEFINE a == Append(h, item)
             r == Remember(h, item)
             d == IF Len(h) = cfg.max_history THEN 1 ELSE 0
             n == Len(h)
             max == cfg.max_history
  <1>1. n \in Nat /\ max \in Nat \ {0} /\ n <= max
    BY DEF HistoryConfig
  <1>2. item.step \in Int /\ (h # <<>> => n >= 1 /\ h[n].step \in Int)
    <2>1. h # <<>> => n >= 1 /\ n \in DOMAIN h
      BY <1>1
    <2>2. h # <<>> => h[n] \in Item
      BY <2>1
    <2> QED BY <2>1, <2>2 DEF Item, StepIdx
  <1>3. r = Kept(a)
    BY <1>2 DEF Remember
  <1>4. /\ a \in Seq(Item) /\ Len(a) = n + 1 /\ DOMAIN h = 1 .. n
        /\ \A i \in 1 .. n + 1 : a[i] = IF i = n + 1 THEN item ELSE h[i]
    OBVIOUS
  <1> HIDE DEF a
  <1>5. CASE n = max
    <2>1. r = SubSeq(a, 2, n + 1)
      BY <1>1, <1>3, <1>4, <1>5 DEF Kept
    <2>2. /\ r \in Seq(Item) /\ Len(r) = n
          /\ \A i \in 1 .. n : r[i] = a[i + 1]
      BY <1>1, <1>4, <2>1, SubSeqProperties
    <2> HIDE DEF r, n
    <2>3. ASSUME NEW i \in 1 .. n PROVE r[i] = IF i = n THEN item ELSE h[i + 1]
      <3>1. r[i] = a[i + 1] /\ i + 1 \in 1 .. n + 1 /\ (i + 1 = n + 1 <=> i = n)
        BY <1>1, <2>2
      <3> QED BY <1>4, <3>1
    <2> USE DEF n
    <2> QED BY <1>1, <1>4, <1>5, <2>2, <2>3 DEF r
  <1>6. CASE n # max
    <2>1. r = a
      BY <1>1, <1>3, <1>4, <1>6 DEF Kept
    <2> HIDE DEF r
    <2> QED BY <1>1, <1>4, <1>6, <2>1 DEF r
  <1> QED BY <1>5, <1>6

\* The points of a forecast are the end of a history.
LEMMA PointsGive ==
    ASSUME HistoryConfig, NEW h \in Seq(Item), Ready(h)
    PROVE  /\ Points(h) \in Seq(Item) /\ Len(Points(h)) = Order(h) + 1
           /\ Order(h) \in Nat /\ Order(h) <= cfg.max_order
           /\ Len(h) = Order(h) + 1 \/ Order(h) = cfg.max_order
           /\ Len(h) \in Nat \ {0}
           /\ \A i \in DOMAIN Points(h) :
                /\ i + (Len(h) - Order(h) - 1) \in DOMAIN h
                /\ Points(h)[i] = h[i + (Len(h) - Order(h) - 1)]
  <1>1. /\ Len(h) \in Nat \ {0} /\ cfg.max_order \in Nat
        /\ Order(h) \in Nat /\ Order(h) <= cfg.max_order /\ Order(h) <= Len(h) - 1
        /\ Len(h) = Order(h) + 1 \/ Order(h) = cfg.max_order
    BY DEF HistoryConfig, Ready, Order
  <1>2. Len(h) - Order(h) \in 1 .. Len(h)
    BY <1>1
  <1>3. /\ Points(h) \in Seq(Item) /\ Len(Points(h)) = Order(h) + 1
        /\ \A i \in 1 .. Order(h) + 1 : Points(h)[i] = h[Len(h) - Order(h) + i - 1]
    BY <1>1, <1>2, SubSeqProperties DEF Points
  <1>4. DOMAIN Points(h) = 1 .. Order(h) + 1 /\ DOMAIN h = 1 .. Len(h)
    BY <1>3
  <1>5. ASSUME NEW i \in DOMAIN Points(h)
        PROVE  /\ i + (Len(h) - Order(h) - 1) \in DOMAIN h
               /\ Points(h)[i] = h[i + (Len(h) - Order(h) - 1)]
    <2>1. /\ i + (Len(h) - Order(h) - 1) = Len(h) - Order(h) + i - 1
          /\ i + (Len(h) - Order(h) - 1) \in 1 .. Len(h)
      BY <1>1, <1>4
    <2> QED BY <1>3, <1>4, <2>1
  <1> QED BY <1>1, <1>3, <1>5

-----------------------------------------------------------------------------
(* Histories, entries and points under either policy *)

\* A run starts without any.
LEMMA HistoryStart ==
    ASSUME RuntimeInit, HistoryInit, HistoryConfig
    PROVE  HistoryInv
  <1>1. RuntimeTyped /\ Control /\ ~Sampling /\ sampler = "jit"
    BY RuntimeInitTyped, JiTAssumption DEF RuntimeInit, Sampling
  <1>2. HistoryTyped
    <2>1. seer \in [Fields -> Nat]
      BY DEF HistoryInit, NoCalls
    <2>2. DOMAIN history = Keys /\ \A k \in Keys : history[k] = <<>>
      BY DEF HistoryInit, NoHistory
    <2>3. <<>> \in Seq(Item) /\ Len(<<>>) = 0
      OBVIOUS
    <2>4. \A k \in Keys : history[k] \in Seq(Item) /\ Len(history[k]) <= cfg.max_history
      <3>1. 0 <= cfg.max_history
        BY DEF HistoryConfig
      <3>2. \A h : h = <<>> => h \in Seq(Item) /\ Len(h) <= cfg.max_history
        BY <2>3, <3>1
      <3> QED BY <2>2, <3>2
    <2>5. pending = {} /\ points \in Seq(Item)
      BY <2>3 DEF HistoryInit
    <2> QED BY <2>1, <2>2, <2>4, <2>5 DEF HistoryTyped
  <1>3. HistoryMeetsEntry
    BY DEF HistoryMeetsEntry, HistoryInit, NoHistory, RuntimeInit, NoEntries
  <1>4. PointsSound
    BY DEF PointsSound, HistoryInit
  <1> QED BY <1>1, <1>2, <1>3, <1>4 DEF HistoryInv

\* Entries and histories are forgotten together.
LEMMA HistoryForgets ==
    ASSUME HistoryInv, BeginBatch \/ EndWarmup, ForgetBatch, points' = <<>>, cfg' = cfg,
           seer' \in [Fields -> Nat]
    PROVE  /\ HistoryInv'
           /\ \A k \in Keys : entries'[k] = None /\ history'[k] = <<>>
           /\ pending' = {}
  <1>1. RuntimeTyped' /\ Control' /\ sampler' = "jit"
    BY DriverKeeps DEF HistoryInv, BeginBatch, EndWarmup
  <1>2. \A k \in Keys : entries'[k] = None /\ history'[k] = <<>>
    BY DEF BeginBatch, EndWarmup, Clear, NoEntries, ForgetBatch, NoHistory
  <1>3. HistoryConfig' /\ DOMAIN history' = Keys /\ pending' = {}
    BY DEF HistoryInv, HistoryConfig, ForgetBatch, NoHistory
  <1>4. HistoryTyped'
    <2>1. <<>> \in Seq(Item) /\ Len(<<>>) = 0
      OBVIOUS
    <2>2. \A k \in Keys : history'[k] \in Seq(Item) /\ Len(history'[k]) <= cfg'.max_history
      <3>1. 0 <= cfg'.max_history
        BY <1>3 DEF HistoryConfig
      <3>2. \A h : h = <<>> => h \in Seq(Item) /\ Len(h) <= cfg'.max_history
        BY <2>1, <3>1
      <3> QED BY <1>2, <3>2
    <2>3. points' \in Seq(Item)
      BY <2>1
    <2>4. Item' = Item
      BY DEF Item
    <2> QED BY <1>3, <2>2, <2>3, <2>4 DEF HistoryTyped
  <1>5. HistoryMeetsEntry' /\ PointsSound'
    BY <1>2 DEF HistoryMeetsEntry, PointsSound
  <1>6. \A k \in Keys : EntryOK(k)' /\ HistoryOK(k)'
    BY <1>2 DEF EntryOK, HistoryOK
  <1> QED BY <1>1, <1>2, <1>3, <1>4, <1>5, <1>6 DEF HistoryInv

\* The steps of the driver within a batch leave them alone.
LEMMA HistoryStays ==
    ASSUME HistoryInv, SetContext \/ EndStep, UNCHANGED <<cfg, historyVars>>
    PROVE  HistoryInv'
  <1>1. RuntimeTyped' /\ Control' /\ RuntimeTyped
    BY DriverKeeps DEF HistoryInv
  <1>2. UNCHANGED <<sampler, size, session, entries, served, history, pending, seer, points, cfg>> /\ Sampling
    BY StepsAt DEF cacheVars, historyVars
  <1>3. HistoryConfig' /\ HistoryTyped' /\ HistoryMeetsEntry' /\ sampler' = "jit"
    BY <1>2 DEF HistoryInv, HistoryConfig, HistoryTyped, HistoryMeetsEntry
  <1>4. Sampling' => /\ batch' = batch /\ step \in StepIdx
                     /\ \/ /\ step' = step
                           /\ \A n \in Modules, b \in Guided : Done(n, b)' <=> Done(n, b)
                        \/ step' = step + 1
    BY <1>1, StepsAt DEF RuntimeTyped
  <1>5. ASSUME Sampling', NEW k \in Keys PROVE EntryOK(k)' /\ HistoryOK(k)'
    <2>1. EntryOK(k) /\ HistoryOK(k) /\ batch' = batch
      BY <1>2, <1>4, <1>5 DEF HistoryInv
    <2>2. HistoryOK(k)'
      BY <1>2, <2>1 DEF HistoryOK
    <2>3. ASSUME entries'[k] # None PROVE EntryOK(k)'
      <3>1. /\ Live(k) /\ entries[k].batch = batch /\ entries[k].signature = Signature(session)
            /\ entries[k].step <= step /\ (entries[k].step = step => Done(k[1], k[2]))
            /\ entries[k].step \in StepIdx
        BY <1>1, <1>2, <2>1, <2>3 DEF EntryOK, RuntimeTyped, Entry
      <3>2. Live(k)' /\ Signature(session)' = Signature(session)
        BY <1>2, <3>1 DEF Live, Signature
      <3>3. entries[k].step <= step' /\ (entries[k].step = step' => Done(k[1], k[2])')
        <4>1. CASE step' = step + 1
          BY <1>4, <1>5, <3>1, <4>1 DEF StepIdx
        <4>2. CASE step' # step + 1
          BY <1>2, <1>4, <1>5, <3>1, <4>2 DEF HistoryInv, HistoryConfig, Live
        <4> QED BY <4>1, <4>2
      <3> QED BY <1>2, <2>1, <3>1, <3>2, <3>3 DEF EntryOK
    <2> QED BY <2>2, <2>3 DEF EntryOK
  <1>6. PointsSound'
    <2> SUFFICES ASSUME points' # <<>>, Sampling' PROVE PointsSound'
      BY DEF PointsSound, Sampling
    <2>1. points # <<>> /\ at \in {"pass", "module"} /\ batch' = batch
      BY <1>2, <1>4 DEF Sampling
    <2> QED BY <1>2, <2>1 DEF PointsSound, HistoryInv
  <1> QED BY <1>1, <1>3, <1>5, <1>6 DEF HistoryInv

\* What a module computes goes to the end of its history, after earlier steps.
LEMMA RecomputeGives ==
    ASSUME HistoryInv, NEW m \in Modules, Call(m), NEW counted, Recompute(m, counted),
           cfg.enabled, m \in cfg.cache_modules,
           NEW key \in Keys, key = KeyOf(m), NEW item, item = [step |-> step, batch |-> batch]
    PROVE  /\ points' = <<>> /\ session' = session /\ seer' \in [Fields -> Nat]
           /\ DOMAIN history' = Keys
           /\ \A k \in Keys : k # key => entries'[k] = entries[k] /\ history'[k] = history[k]
           /\ m \in NonTensorModules => entries'[key] = entries[key] /\ history'[key] = history[key]
           /\ m \notin NonTensorModules =>
                /\ entries'[key] = NewEntry /\ history'[key] = Remember(history[key], item)
                /\ Live(key)
                /\ history[key] # <<>> => history[key][Len(history[key])].step < step
           /\ item \in Item /\ NewEntry # None
           /\ NewEntry.step = step /\ NewEntry.batch = batch /\ NewEntry.signature = Signature(session)
  <1>1. /\ Sampling /\ context.step = step /\ step \in StepIdx /\ batch \in BatchIdx
        /\ context.branch \in Guided /\ key = KeyAt(m, context.branch) /\ NewEntry \in Entry
        /\ ~Done(m, context.branch) /\ size \in BatchSizes
    BY CallAt
  <1>2. /\ key[1] = m /\ key[2] = context.branch /\ key[3] = "euler" /\ key[4] = size
    BY <1>1, KeysAt
  <1>3. item = [step |-> context.step, batch |-> batch] /\ item \in Item
    BY <1>1 DEF Item
  <1>4. NewEntry # None
    BY <1>1, NoneAssumption
  <1>5. NewEntry.step = step /\ NewEntry.batch = batch /\ NewEntry.signature = Signature(session)
    BY <1>1 DEF NewEntry
  <1>6. seer' \in [Fields -> Nat]
    <2>1. \A fields : Count(seer, fields) \in [Fields -> Nat]
      BY DEF HistoryInv, HistoryTyped, Count
    <2> QED BY <2>1 DEF Recompute
  <1>7. history[key] # <<>> => history[key][Len(history[key])].step < step
    <2> SUFFICES ASSUME history[key] # <<>>
                 PROVE  history[key][Len(history[key])].step < step
      OBVIOUS
    <2>1. /\ entries[key] # None
          /\ history[key][Len(history[key])] = [step |-> entries[key].step, batch |-> entries[key].batch]
      BY DEF HistoryInv, HistoryMeetsEntry
    <2>2. entries[key].step <= step /\ entries[key].step # step
      BY <1>1, <1>2, <2>1 DEF HistoryInv, EntryOK
    <2>3. entries[key].step \in Int /\ step \in Int
      BY <1>1, <2>1 DEF HistoryInv, RuntimeTyped, Entry, StepIdx
    <2>4. history[key][Len(history[key])].step = entries[key].step
      BY <2>1
    <2> QED BY <2>2, <2>3, <2>4
  <1>8. /\ points' = <<>> /\ session' = session
        /\ entries \in [Keys -> Entry \cup {None}] /\ DOMAIN history = Keys
    BY DEF Recompute, Compute, HistoryInv, RuntimeTyped, HistoryTyped
  <1>9. CASE m \in NonTensorModules
    <2>1. entries' = entries /\ history' = history
      BY <1>9 DEF Recompute, Compute
    <2> QED BY <1>3, <1>4, <1>5, <1>6, <1>8, <1>9, <2>1
  <1>10. CASE m \notin NonTensorModules
    <2>1. /\ entries' = [entries EXCEPT ![key] = NewEntry]
          /\ history' = [history EXCEPT ![key] = Remember(history[key], item)]
      BY <1>3, <1>10 DEF Recompute, Compute
    <2>2. Live(key)
      BY <1>1, <1>2, <1>10 DEF Live
    <2>3. \A k \in Keys : k # key => entries'[k] = entries[k] /\ history'[k] = history[k]
      BY <1>8, <2>1
    <2>4. entries'[key] = NewEntry /\ history'[key] = Remember(history[key], item) /\ DOMAIN history' = Keys
      BY <1>8, <2>1
    <2> QED BY <1>3, <1>4, <1>5, <1>6, <1>7, <1>8, <1>10, <2>2, <2>3, <2>4
  <1> QED BY <1>9, <1>10

\* The history that the new output makes.
LEMMA RememberSound ==
    ASSUME HistoryConfig, NEW h \in Seq(Item), Len(h) <= cfg.max_history, NEW item \in Item,
           item.batch = batch, h # <<>> => h[Len(h)].step < item.step,
           \A i \in DOMAIN h : h[i].batch = batch,
           \A i, j \in DOMAIN h : i < j => h[i].step < h[j].step
    PROVE  LET r == Remember(h, item)
           IN /\ \A i \in DOMAIN r : r[i].batch = batch
              /\ \A i, j \in DOMAIN r : i < j => r[i].step < r[j].step
  <1>1. PICK d \in {0, 1} : d = IF Len(h) = cfg.max_history THEN 1 ELSE 0
    OBVIOUS
  <1>2. PICK r \in Seq(Item) :
            /\ r = Remember(h, item) /\ Len(r) = Len(h) + 1 - d
            /\ \A i \in DOMAIN r : r[i] = IF i = Len(r) THEN item ELSE h[i + d]
            /\ \A i \in DOMAIN r : i < Len(r) => i + d \in DOMAIN h
    BY <1>1, RememberGives
  <1>3. DOMAIN r = 1 .. Len(r) /\ DOMAIN h = 1 .. Len(h) /\ Len(r) \in Nat /\ Len(h) \in Nat
    OBVIOUS
  <1>4. \A i \in DOMAIN h : h[i].step \in Int
    <2>1. \A i \in DOMAIN h : h[i] \in Item
      OBVIOUS
    <2> QED BY <2>1 DEF Item, StepIdx
  <1>5. ASSUME NEW i \in DOMAIN r PROVE r[i].batch = batch
    BY <1>2, <1>3, <1>5
  <1>6. ASSUME NEW i \in DOMAIN r, NEW j \in DOMAIN r, i < j PROVE r[i].step < r[j].step
    <2>1. /\ i \in 1 .. Len(r) /\ j \in 1 .. Len(r) /\ i < Len(r) /\ i + d \in DOMAIN h /\ r[i] = h[i + d]
      BY <1>2, <1>3, <1>6
    <2>2. CASE j = Len(r)
      <3>1. r[j] = item /\ h # <<>> /\ Len(h) \in DOMAIN h
        BY <1>2, <1>3, <2>1, <2>2
      <3>2. h[i + d].step <= h[Len(h)].step
        BY <1>3, <1>4, <2>1, <3>1
      <3>3. h[Len(h)].step < item.step /\ item.step \in Int
        BY <3>1 DEF Item, StepIdx
      <3> QED BY <1>4, <2>1, <3>1, <3>2, <3>3
    <2>3. CASE j # Len(r)
      <3>1. j < Len(r) /\ i + d < j + d
        BY <1>3, <1>6, <2>1, <2>3
      <3>2. j + d \in DOMAIN h /\ r[j] = h[j + d]
        BY <1>2, <2>3, <3>1
      <3> QED BY <2>1, <3>1, <3>2
    <2> QED BY <2>2, <2>3
  <1> QED BY <1>2, <1>5, <1>6

\* A module that runs keeps its history in step with its entry.
LEMMA RecomputeKeeps ==
    ASSUME HistoryInv, NEW m \in Modules, Call(m), NEW counted, Recompute(m, counted),
           cfg.enabled, m \in cfg.cache_modules, cfg' = cfg, pending' \subseteq Keys \X StepIdx
    PROVE  HistoryInv'
  <1>1. PICK key \in Keys : key = KeyOf(m)
    BY CallAt
  <1>2. PICK item : item = [step |-> step, batch |-> batch]
    OBVIOUS
  <1>3. /\ Sampling /\ UNCHANGED <<sampler, batch, size, step>> /\ context.branch \in Guided
        /\ step \in StepIdx /\ batch \in BatchIdx
        /\ key = KeyAt(m, context.branch) /\ size \in BatchSizes
        /\ \A n \in Modules, b \in Guided : Done(n, b)' <=> Done(n, b) \/ (n = m /\ b = context.branch)
    BY <1>1, CallAt
  <1>4. RuntimeTyped' /\ Control'
    BY AnswerKeeps DEF HistoryInv, Recompute, Call, Calls
  <1>5. /\ points' = <<>> /\ session' = session /\ seer' \in [Fields -> Nat]
        /\ DOMAIN history' = Keys /\ item \in Item
        /\ \A k \in Keys : k # key => entries'[k] = entries[k] /\ history'[k] = history[k]
    BY <1>1, <1>2, RecomputeGives
  <1>6. \/ entries'[key] = entries[key] /\ history'[key] = history[key]
        \/ /\ entries'[key] = NewEntry /\ history'[key] = Remember(history[key], item)
           /\ Live(key)
           /\ history[key] # <<>> => history[key][Len(history[key])].step < step
           /\ NewEntry # None
           /\ NewEntry.step = step /\ NewEntry.batch = batch /\ NewEntry.signature = Signature(session)
    BY <1>1, <1>2, RecomputeGives
  <1>7. HistoryConfig /\ HistoryConfig' /\ sampler' = "jit"
    BY <1>3 DEF HistoryInv, HistoryConfig
  <1>8. ASSUME NEW k \in Keys
        PROVE  /\ history'[k] \in Seq(Item) /\ Len(history'[k]) <= cfg.max_history
               /\ IF entries'[k] = None THEN history'[k] = <<>>
                  ELSE /\ history'[k] # <<>>
                       /\ history'[k][Len(history'[k])] = [step |-> entries'[k].step, batch |-> entries'[k].batch]
               /\ EntryOK(k)' /\ HistoryOK(k)'
    <2>1. /\ history[k] \in Seq(Item) /\ Len(history[k]) <= cfg.max_history
          /\ IF entries[k] = None THEN history[k] = <<>>
             ELSE /\ history[k] # <<>>
                  /\ history[k][Len(history[k])] = [step |-> entries[k].step, batch |-> entries[k].batch]
          /\ EntryOK(k) /\ HistoryOK(k)
      BY <1>3 DEF HistoryInv, HistoryTyped, HistoryMeetsEntry
    <2>2. Live(k)' <=> Live(k)
      BY <1>3 DEF Live
    <2>3. CASE entries'[k] = entries[k] /\ history'[k] = history[k]
      <3>1. HistoryOK(k)'
        BY <1>3, <2>1, <2>3 DEF HistoryOK
      <3>2. EntryOK(k)'
        <4>1. SUFFICES ASSUME entries'[k] # None PROVE EntryOK(k)'
          BY DEF EntryOK
        <4>2. k[1] \in Modules /\ k[2] \in Guided /\ Signature(session)' = Signature(session)
          BY <1>3, <1>5, <1>7, <2>1, <2>3, <4>1 DEF EntryOK, Live, HistoryConfig, Signature
        <4>3. Done(k[1], k[2]) => Done(k[1], k[2])'
          BY <1>3, <4>2
        <4> QED BY <1>3, <2>1, <2>2, <2>3, <4>1, <4>2, <4>3 DEF EntryOK
      <3> QED BY <2>1, <2>3, <3>1, <3>2
    <2>4. CASE ~(entries'[k] = entries[k] /\ history'[k] = history[k])
      <3>1. /\ k = key /\ entries'[k] = NewEntry /\ history'[k] = Remember(history[k], item)
            /\ Live(k)
            /\ history[k] # <<>> => history[k][Len(history[k])].step < step
            /\ NewEntry # None
            /\ NewEntry.step = step /\ NewEntry.batch = batch /\ NewEntry.signature = Signature(session)
        BY <1>5, <1>6, <2>4
      <3>2. item.step = step /\ item.batch = batch
        BY <1>2
      <3>3. PICK r, h : r = history'[k] /\ r = Remember(h, item) /\ h = history[k]
        BY <3>1
      <3>8. /\ h \in Seq(Item) /\ Len(h) <= cfg.max_history /\ item \in Item /\ item.batch = batch
            /\ h # <<>> => h[Len(h)].step < item.step
            /\ \A i \in DOMAIN h : h[i].batch = batch
            /\ \A i, j \in DOMAIN h : i < j => h[i].step < h[j].step
        <4>1. h # <<>> => h[Len(h)].step < item.step
          BY <3>1, <3>2, <3>3
        <4>2. h \in Seq(Item) /\ Len(h) <= cfg.max_history /\ item \in Item /\ item.batch = batch
          BY <1>5, <2>1, <3>2, <3>3
        <4>3. /\ \A i \in DOMAIN h : h[i].batch = batch
              /\ \A i, j \in DOMAIN h : i < j => h[i].step < h[j].step
          BY <2>1, <3>3 DEF HistoryOK
        <4> QED BY <4>1, <4>2, <4>3
      <3>4. r \in Seq(Item) /\ Len(r) <= cfg.max_history /\ r # <<>> /\ r[Len(r)] = item
        BY <1>7, <3>3, <3>8, RememberGives
      <3>5. /\ \A i \in DOMAIN r : r[i].batch = batch
            /\ \A i, j \in DOMAIN r : i < j => r[i].step < r[j].step
        BY <1>7, <3>3, <3>8, RememberSound
      <3>6. HistoryOK(k)'
        BY <1>3, <3>3, <3>5 DEF HistoryOK
      <3>7. EntryOK(k)'
        <4>1. k[1] = m /\ k[2] = context.branch
          BY <1>3, <3>1, KeysAt
        <4>2. Done(k[1], k[2])' /\ Signature(session)' = Signature(session) /\ step <= step
          BY <1>3, <1>5, <4>1 DEF Signature, StepIdx
        <4>3. /\ entries'[k].batch = batch' /\ entries'[k].signature = Signature(session)'
              /\ entries'[k].step <= step' /\ Live(k)'
          <5>1. Live(k)' /\ entries'[k].batch = batch'
            BY <1>3, <2>2, <3>1
          <5>2. entries'[k].signature = Signature(session)'
            BY <3>1, <4>2
          <5>3. entries'[k].step = step /\ step' = step /\ step \in Int
            BY <1>3, <3>1 DEF StepIdx
          <5> QED BY <5>1, <5>2, <5>3
        <4> QED BY <4>2, <4>3 DEF EntryOK
      <3> QED BY <1>2, <3>1, <3>3, <3>4, <3>6, <3>7
    <2> QED BY <2>3, <2>4
  <1>9. HistoryTyped'
    <2>1. points' \in Seq(Item)
      BY <1>5
    <2>2. Item' = Item
      BY DEF Item
    <2> QED BY <1>5, <1>8, <2>1, <2>2 DEF HistoryTyped
  <1>10. HistoryMeetsEntry'
    BY <1>8 DEF HistoryMeetsEntry
  <1>11. PointsSound'
    BY <1>5 DEF PointsSound
  <1> QED BY <1>4, <1>7, <1>8, <1>9, <1>10, <1>11 DEF HistoryInv

\* A call that stores nothing leaves them as they are.
LEMMA AnswerLeaves ==
    ASSUME HistoryInv, NEW m \in Modules, Call(m), Bypass(m) \/ Serve(m),
           UNCHANGED <<cfg, history, pending>>, seer' \in [Fields -> Nat], points' \in Seq(Item), PointsSound'
    PROVE  HistoryInv'
  <1>1. /\ Sampling /\ UNCHANGED <<sampler, batch, size, step, session, entries>>
        /\ \A n \in Modules, b \in Guided : Done(n, b)' <=> Done(n, b) \/ (n = m /\ b = context.branch)
    BY CallAt DEF Bypass, Serve
  <1>2. RuntimeTyped' /\ Control'
    BY AnswerKeeps DEF HistoryInv, Call, Calls
  <1>3. HistoryConfig' /\ HistoryMeetsEntry' /\ sampler' = "jit" /\ HistoryConfig
    BY <1>1 DEF HistoryInv, HistoryConfig, HistoryMeetsEntry
  <1>4. HistoryTyped'
    <2>1. Item' = Item
      BY DEF Item
    <2> QED BY <2>1 DEF HistoryInv, HistoryTyped
  <1>5. ASSUME NEW k \in Keys PROVE EntryOK(k)' /\ HistoryOK(k)'
    <2>1. EntryOK(k) /\ HistoryOK(k)
      BY <1>1 DEF HistoryInv
    <2>2. HistoryOK(k)' /\ (Live(k)' <=> Live(k)) /\ Signature(session)' = Signature(session)
      BY <1>1, <2>1 DEF HistoryOK, Live, Signature
    <2>3. Live(k) => (Done(k[1], k[2]) => Done(k[1], k[2])')
      BY <1>1, <1>3 DEF Live, HistoryConfig
    <2> QED BY <1>1, <2>1, <2>2, <2>3 DEF EntryOK
  <1> QED BY <1>2, <1>3, <1>4, <1>5 DEF HistoryInv

\* The cache is inactive: no forecast was made.
LEMMA BypassKeeps ==
    ASSUME HistoryInv, NEW m \in Modules, Call(m), Bypass(m), points' = <<>>,
           UNCHANGED <<cfg, history, pending, seer>>
    PROVE  HistoryInv'
  <1>1. PointsSound'
    BY DEF PointsSound
  <1>2. points' \in Seq(Item) /\ seer' \in [Fields -> Nat]
    BY DEF HistoryInv, HistoryTyped
  <1> QED BY <1>1, <1>2, AnswerLeaves

\* A forecast goes through earlier steps of its batch.
LEMMA ForecastKeeps ==
    ASSUME HistoryInv, NEW m \in Modules, Call(m), Serve(m), Ready(HistoryOf(m)),
           points' = Points(HistoryOf(m)), UNCHANGED <<cfg, history, pending>>, seer' \in [Fields -> Nat]
    PROVE  HistoryInv'
  <1>1. PICK key \in Keys : key = KeyOf(m)
    BY CallAt
  <1>2. /\ Sampling /\ UNCHANGED <<sampler, batch, size, step>> /\ context.branch \in Guided
        /\ step \in StepIdx /\ key = KeyAt(m, context.branch) /\ size \in BatchSizes
        /\ context.step = step /\ ~Done(m, context.branch)
    BY <1>1, CallAt
  <1>3. HistoryConfig /\ EntryOK(key) /\ HistoryOK(key)
    BY <1>2 DEF HistoryInv
  <1>4. PICK h : h = history[key]
    OBVIOUS
  <1>5. /\ h \in Seq(Item) /\ Ready(h) /\ points' = Points(h)
        /\ \A i \in DOMAIN h : h[i].batch = batch
        /\ \A i, j \in DOMAIN h : i < j => h[i].step < h[j].step
    <2>1. h \in Seq(Item) /\ Ready(h) /\ points' = Points(h)
      BY <1>1, <1>4 DEF HistoryInv, HistoryTyped, HistoryOf
    <2>2. /\ \A i \in DOMAIN h : h[i].batch = batch
          /\ \A i, j \in DOMAIN h : i < j => h[i].step < h[j].step
      BY <1>3, <1>4 DEF HistoryOK
    <2> QED BY <2>1, <2>2
  <1>6. PICK p \in Seq(Item), o \in Nat :
          /\ p = points' /\ o = Order(h) /\ Len(p) = o + 1 /\ o <= cfg.max_order
          /\ Len(h) = o + 1 \/ o = cfg.max_order
          /\ Len(h) \in Nat \ {0}
          /\ \A i \in DOMAIN p : i + (Len(h) - o - 1) \in DOMAIN h /\ p[i] = h[i + (Len(h) - o - 1)]
    BY <1>3, <1>5, PointsGive
  <1>7. h[Len(h)].step < step
    <2>1. /\ entries[key] # None
          /\ h[Len(h)] = [step |-> entries[key].step, batch |-> entries[key].batch]
      BY <1>4, <1>6 DEF HistoryInv, HistoryMeetsEntry
    <2>2. entries[key].step <= step /\ entries[key].step # step
      BY <1>2, <1>3, <2>1, KeysAt DEF EntryOK
    <2>3. entries[key].step \in Int /\ step \in Int /\ h[Len(h)].step = entries[key].step
      BY <1>2, <2>1 DEF HistoryInv, RuntimeTyped, Entry, StepIdx
    <2> QED BY <2>2, <2>3
  <1>8. \A i \in DOMAIN h : h[i].step \in Int /\ h[i].step < step
    <2>1. \A i \in DOMAIN h : h[i] \in Item
      BY <1>5
    <2>2. \A i \in DOMAIN h : h[i].step \in Int
      BY <2>1 DEF Item, StepIdx
    <2>3. DOMAIN h = 1 .. Len(h) /\ Len(h) \in DOMAIN h
      BY <1>5, <1>6
    <2>4. ASSUME NEW i \in DOMAIN h PROVE h[i].step < step
      <3>1. CASE i = Len(h)
        BY <1>7, <3>1
      <3>2. CASE i # Len(h)
        <4>1. i < Len(h)
          BY <2>3, <3>2
        <4>2. h[i].step < h[Len(h)].step
          BY <1>5, <2>3, <4>1
        <4> QED BY <1>2, <1>7, <2>2, <2>3, <4>2 DEF StepIdx
      <3> QED BY <3>1, <3>2
    <2> QED BY <2>2, <2>4
  <1>9. PointsSound'
    <2>1. served'.step = step
      BY <1>2 DEF Serve, Served
    <2>2. cfg.min_history \in Nat /\ cfg.max_order \in Nat /\ Len(h) >= cfg.min_history
      BY <1>3, <1>5 DEF HistoryConfig, Ready
    <2>3. Len(p) >= cfg.min_history \/ Len(p) = cfg.max_order + 1
      BY <1>6, <2>2
    <2>4. Len(p) <= cfg.max_order + 1
      BY <1>6, <2>2
    <2>5. \A i \in DOMAIN p : p[i].batch = batch /\ p[i].step < step
      BY <1>5, <1>6, <1>8
    <2>6. ASSUME NEW i \in DOMAIN p, NEW j \in DOMAIN p, i < j PROVE p[i].step < p[j].step
      <3>1. DOMAIN p = 1 .. Len(p)
        BY <1>6
      <3>2. i + (Len(h) - o - 1) < j + (Len(h) - o - 1)
        BY <1>6, <2>6, <3>1
      <3> QED BY <1>5, <1>6, <3>2
    <2> QED BY <1>2, <1>6, <2>1, <2>3, <2>4, <2>5, <2>6 DEF PointsSound
  <1> QED BY <1>6, <1>9, AnswerLeaves

\* A managed call that stores an output or forecasts one.
LEMMA ManagedKeeps ==
    ASSUME HistoryInv, NEW m \in Modules, Call(m), Refresh(m) \/ Forecast(m),
           cfg.enabled, m \in cfg.cache_modules, cfg' = cfg
    PROVE  HistoryInv'
  <1>1. /\ KeyOf(m) \in Keys /\ context.step \in StepIdx /\ pending \subseteq Keys \X StepIdx
        /\ <<KeyOf(m), context.step>> \in Keys \X StepIdx
    BY CallAt DEF HistoryInv, HistoryTyped
  <1>2. \A fields : Count(seer, fields) \in [Fields -> Nat]
    BY DEF HistoryInv, HistoryTyped, Count
  <1>3. CASE Refresh(m)
    BY <1>1, <1>3, RecomputeKeeps DEF Refresh
  <1>4. CASE Forecast(m) /\ EntryMatches(EntryOf(m)) /\ Ready(HistoryOf(m))
    BY <1>2, <1>4, ForecastKeeps DEF Forecast
  <1>5. CASE Forecast(m) /\ ~(EntryMatches(EntryOf(m)) /\ Ready(HistoryOf(m)))
    <2>1. /\ \E counted : Recompute(m, counted)
          /\ pending' = pending \cup {<<KeyOf(m), context.step>>}
      BY <1>5 DEF Forecast
    <2> QED BY <1>1, <2>1, RecomputeKeeps
  <1> QED BY <1>3, <1>4, <1>5

-----------------------------------------------------------------------------
(* TaylorSeerCache's copy of the runtime and of the histories is this one. *)

\* The instance shares the variables, and its operators are defined alike.
LEMMA SameRuntime ==
    /\ TaylorSeer!RuntimeInit <=> RuntimeInit
    /\ TaylorSeer!BeginBatch <=> BeginBatch
    /\ TaylorSeer!SetContext <=> SetContext
    /\ TaylorSeer!EndStep <=> EndStep
    /\ TaylorSeer!EndWarmup <=> EndWarmup
    /\ TaylorSeer!Finished <=> Finished
    /\ TaylorSeer!HistoryInit <=> HistoryInit
    /\ TaylorSeer!ForgetBatch <=> ForgetBatch
    /\ TaylorSeer!NoCalls = NoCalls
    /\ UNCHANGED TaylorSeer!historyVars <=> UNCHANGED historyVars
    /\ UNCHANGED TaylorSeer!vars <=> UNCHANGED <<driverVars, cacheVars, cfg, historyVars>>
    /\ TaylorSeer!Modules = Modules /\ TaylorSeer!StepIdx = StepIdx
    /\ \A m : /\ TaylorSeer!Call(m) <=> Call(m)
              /\ TaylorSeer!Bypass(m) <=> Bypass(m)
              /\ TaylorSeer!Refresh(m) <=> Refresh(m)
              /\ TaylorSeer!Forecast(m) <=> Forecast(m)
              /\ TaylorSeer!EntryOf(m) = EntryOf(m)
              /\ TaylorSeer!HistoryOf(m) = HistoryOf(m)
    /\ \A h : TaylorSeer!Ready(h) <=> Ready(h)
  <1>1. /\ TaylorSeer!Modules = Modules /\ TaylorSeer!StepIdx = StepIdx
        /\ TaylorSeer!Keys = Keys /\ TaylorSeer!Evals = Evals /\ TaylorSeer!EvalContext = EvalContext
        /\ TaylorSeer!BatchIdx = BatchIdx /\ TaylorSeer!NewEntry = NewEntry
        /\ \A st, s : TaylorSeer!Runs(st, s) <=> Runs(st, s)
    BY DEF TaylorSeer!Keys, Keys, TaylorSeer!Modules, Modules, TaylorSeer!Branches, Branches,
           TaylorSeer!Stages, Stages, TaylorSeer!StepIdx, StepIdx,
           TaylorSeer!Evals, Evals, TaylorSeer!Eval, Eval, TaylorSeer!EvalContext, EvalContext,
           TaylorSeer!TimeOf, TimeOf, TaylorSeer!BatchIdx, BatchIdx, TaylorSeer!NewEntry, NewEntry,
           TaylorSeer!Signature, Signature, TaylorSeer!Runs, Runs
  <1>2. /\ TaylorSeer!NoEntries = NoEntries /\ TaylorSeer!ZeroStats = ZeroStats /\ TaylorSeer!Nothing = Nothing
        /\ TaylorSeer!Fields = Fields /\ TaylorSeer!NoCalls = NoCalls /\ TaylorSeer!NoHistory = NoHistory
    BY <1>1 DEF TaylorSeer!NoEntries, NoEntries, TaylorSeer!ZeroStats, ZeroStats, TaylorSeer!Nothing, Nothing,
                TaylorSeer!Fields, Fields, TaylorSeer!NoCalls, NoCalls, TaylorSeer!NoHistory, NoHistory
  <1>3. \A m : /\ TaylorSeer!KeyOf(m) = KeyOf(m) /\ TaylorSeer!EntryOf(m) = EntryOf(m)
               /\ TaylorSeer!HistoryOf(m) = HistoryOf(m)
    BY DEF TaylorSeer!KeyOf, KeyOf, TaylorSeer!EntryOf, EntryOf, TaylorSeer!HistoryOf, HistoryOf
  <1>4. \A m, how, e : TaylorSeer!Served(m, how, e) = Served(m, how, e)
    BY DEF TaylorSeer!Served, Served
  <1>5. \A s, f : TaylorSeer!Mark(s, f) = Mark(s, f)
    BY DEF TaylorSeer!Mark, Mark
  <1>6. \A sid : TaylorSeer!BeginUnnamed(sid) = BeginUnnamed(sid)
    BY DEF TaylorSeer!BeginUnnamed, BeginUnnamed
  <1>7. TaylorSeer!RuntimeInit <=> RuntimeInit
    BY <1>2 DEF TaylorSeer!RuntimeInit, RuntimeInit
  <1>8. TaylorSeer!BeginBatch <=> BeginBatch
    BY <1>1, <1>2, <1>6 DEF TaylorSeer!BeginBatch, BeginBatch, TaylorSeer!Clear, Clear
  <1>9. TaylorSeer!SetContext <=> SetContext
    BY <1>1 DEF TaylorSeer!SetContext, SetContext, TaylorSeer!cacheVars, cacheVars
  <1>10. TaylorSeer!EndStep <=> EndStep
    BY <1>1 DEF TaylorSeer!EndStep, EndStep, TaylorSeer!cacheVars, cacheVars
  <1>11. TaylorSeer!EndWarmup <=> EndWarmup
    BY <1>2, <1>6 DEF TaylorSeer!EndWarmup, EndWarmup, TaylorSeer!Clear, Clear, TaylorSeer!ResetStats, ResetStats
  <1>12. TaylorSeer!Finished <=> Finished
    BY <1>1 DEF TaylorSeer!Finished, Finished
  <1>13. (TaylorSeer!HistoryInit <=> HistoryInit) /\ (TaylorSeer!ForgetBatch <=> ForgetBatch)
    BY <1>2 DEF TaylorSeer!HistoryInit, HistoryInit, TaylorSeer!ForgetBatch, ForgetBatch
  <1>14. \A m : TaylorSeer!Call(m) <=> Call(m)
    BY DEF TaylorSeer!Call, Call, TaylorSeer!Advance, Advance
  <1>15. \A m : TaylorSeer!Bypass(m) <=> Bypass(m)
    BY <1>1, <1>4, <1>5 DEF TaylorSeer!Bypass, Bypass
  <1>16. \A m : TaylorSeer!Compute(m) <=> Compute(m)
    BY <1>1, <1>3, <1>4, <1>5 DEF TaylorSeer!Compute, Compute
  <1>17. \A m : TaylorSeer!Serve(m) <=> Serve(m)
    BY <1>1, <1>3, <1>4, <1>5 DEF TaylorSeer!Serve, Serve
  <1>18. \A e : TaylorSeer!EntryMatches(e) <=> EntryMatches(e)
    BY DEF TaylorSeer!EntryMatches, EntryMatches, TaylorSeer!Signature, Signature
  <1>19. \A h : (TaylorSeer!Ready(h) <=> Ready(h)) /\ TaylorSeer!Points(h) = Points(h)
    BY DEF TaylorSeer!Ready, Ready, TaylorSeer!Points, Points, TaylorSeer!Order, Order
  <1>20. \A h, item : TaylorSeer!Remember(h, item) = Remember(h, item)
    BY DEF TaylorSeer!Remember, Remember, TaylorSeer!Kept, Kept
  <1>21. \A s, fields : TaylorSeer!Count(s, fields) = Count(s, fields)
    BY <1>2 DEF TaylorSeer!Count, Count
  <1>22. \A m, counted : TaylorSeer!Recompute(m, counted) <=> Recompute(m, counted)
    BY <1>3, <1>16, <1>20, <1>21 DEF TaylorSeer!Recompute, Recompute
  <1>23. \A m : TaylorSeer!Refresh(m) <=> Refresh(m)
    BY <1>22 DEF TaylorSeer!Refresh, Refresh
  <1>24. \A m : TaylorSeer!Forecast(m) <=> Forecast(m)
    BY <1>3, <1>17, <1>18, <1>19, <1>21, <1>22 DEF TaylorSeer!Forecast, Forecast
  <1>25. /\ UNCHANGED TaylorSeer!historyVars <=> UNCHANGED historyVars
         /\ UNCHANGED TaylorSeer!vars <=> UNCHANGED <<driverVars, cacheVars, cfg, historyVars>>
    BY DEF TaylorSeer!historyVars, historyVars, TaylorSeer!vars, TaylorSeer!driverVars, driverVars,
           TaylorSeer!cacheVars, cacheVars
  <1> QED BY <1>1, <1>2, <1>3, <1>7, <1>8, <1>9, <1>10, <1>11, <1>12, <1>13, <1>14, <1>15, <1>19, <1>23,
             <1>24, <1>25

-----------------------------------------------------------------------------
(* Which steps TaylorSeer forecasts *)

SeerForward(m) == \/ TaylorSeer!ForwardInactive(m)
                  \/ TaylorSeer!ForwardRefresh(m)
                  \/ TaylorSeer!ForwardForecast(m)

ForecastStep(s) == /\ ~TaylorSeer!Scheduled(s)
                   /\ s >= cfg.min_history
                   /\ cfg.max_history >= cfg.min_history

\* What a call is answered depends on the step alone.
LEMMA SeerCall ==
    ASSUME SeerInv, NEW m \in Modules, SeerForward(m), NEW key \in Keys, key = KeyOf(m)
    PROVE  /\ Call(m) /\ cfg' = cfg
           /\ \/ /\ ~(cfg.enabled /\ m \in cfg.cache_modules)
                 /\ Bypass(m) /\ points' = <<>> /\ UNCHANGED <<history, pending, seer>>
              \/ /\ cfg.enabled /\ m \in cfg.cache_modules /\ Refresh(m)
                 /\ m \notin NonTensorModules => ~ForecastStep(step)
              \/ /\ cfg.enabled /\ m \in cfg.cache_modules \ NonTensorModules /\ ForecastStep(step)
                 /\ Forecast(m) /\ Serve(m) /\ UNCHANGED history
                 /\ entries[key] # None /\ Len(history[key]) >= cfg.min_history
  <1> USE SameRuntime
  <1>1. Call(m) /\ cfg' = cfg
    BY DEF SeerForward, TaylorSeer!ForwardInactive, TaylorSeer!ForwardRefresh, TaylorSeer!ForwardForecast
  <1>2. /\ Sampling /\ context.step = step /\ context.stage = "euler" /\ context.branch \in Guided
        /\ key = KeyAt(m, context.branch) /\ ~Done(m, context.branch) /\ size \in BatchSizes /\ step \in Nat
    BY <1>1, CallAt DEF SeerInv, StepIdx
  <1>3. key[1] = m /\ key[2] = context.branch /\ key[3] = "euler" /\ key[4] = size
    BY <1>2, KeysAt
  <1>4. PICK h, e : h = history[key] /\ e = entries[key]
    OBVIOUS
  <1>5. h = HistoryOf(m) /\ e = EntryOf(m)
    BY <1>4 DEF HistoryOf, EntryOf
  <1>6. /\ EntryOK(key) /\ LengthOK(key) /\ h \in Seq(Item) /\ Len(h) <= cfg.max_history
        /\ e = None => h = <<>>
        /\ cfg.min_history \in Nat \ {0} /\ cfg.max_history \in Nat
    BY <1>2, <1>4 DEF SeerInv, HistoryInv, HistoryTyped, HistoryMeetsEntry, HistoryConfig
  <1>7. TaylorSeer!Managed(m) <=> cfg.enabled /\ m \in cfg.cache_modules
    BY <1>2 DEF TaylorSeer!Managed
  <1>8. e # None => EntryMatches(e) /\ m \in cfg.cache_modules \ NonTensorModules
    BY <1>3, <1>4, <1>6 DEF EntryOK, EntryMatches, Live
  <1>9. ASSUME cfg.enabled, m \in cfg.cache_modules \ NonTensorModules
        PROVE  e # None /\ Ready(h) <=> step >= cfg.min_history /\ cfg.max_history >= cfg.min_history
    <2>1. Live(key) /\ Behind(key) = step
      BY <1>2, <1>3, <1>9 DEF Live, Behind
    <2>2. Len(h) \in Nat /\ (h = <<>> => Len(h) = 0)
      BY <1>6
    <2>3. Ready(h) <=> Len(h) >= cfg.min_history
      BY DEF Ready
    <2>4. Ready(h) => e # None
      BY <1>6, <2>2, <2>3
    <2>5. CASE cfg.max_history >= cfg.min_history
      <3>1. IF step < cfg.min_history THEN Len(h) = step ELSE Len(h) >= cfg.min_history
        BY <1>4, <1>6, <2>1, <2>5 DEF LengthOK
      <3> QED BY <1>2, <1>6, <2>2, <2>3, <2>4, <2>5, <3>1
    <2>6. CASE ~(cfg.max_history >= cfg.min_history)
      BY <1>6, <2>2, <2>3, <2>6
    <2> QED BY <2>5, <2>6
  <1>10. TaylorSeer!Forecasts(m) <=> e # None /\ ~TaylorSeer!Scheduled(step) /\ Ready(h)
    BY <1>2, <1>5 DEF TaylorSeer!Forecasts
  <1>11. CASE TaylorSeer!ForwardInactive(m)
    BY <1>1, <1>7, <1>11 DEF TaylorSeer!ForwardInactive
  <1>12. CASE TaylorSeer!ForwardRefresh(m)
    <2>1. cfg.enabled /\ m \in cfg.cache_modules /\ Refresh(m) /\ ~TaylorSeer!Forecasts(m)
      BY <1>7, <1>12 DEF TaylorSeer!ForwardRefresh
    <2> QED BY <1>1, <1>9, <1>10, <2>1 DEF ForecastStep
  <1>13. CASE TaylorSeer!ForwardForecast(m)
    <2>1. /\ cfg.enabled /\ m \in cfg.cache_modules \ NonTensorModules /\ Forecast(m) /\ e # None
          /\ ~TaylorSeer!Scheduled(step) /\ Ready(h) /\ EntryMatches(e)
      BY <1>7, <1>8, <1>10, <1>13 DEF TaylorSeer!ForwardForecast
    <2>2. Serve(m) /\ UNCHANGED history
      BY <1>5, <2>1 DEF Forecast
    <2> QED BY <1>1, <1>4, <1>9, <2>1, <2>2 DEF ForecastStep, Ready
  <1> QED BY <1>11, <1>12, <1>13 DEF SeerForward

\* The lengths of the histories and the ages of the entries, at a call.
LEMMA SeerCallKeeps ==
    ASSUME SeerInv, NEW m \in Modules, SeerForward(m)
    PROVE  SeerInv'
  <1>1. PICK key \in Keys : key = KeyOf(m)
    BY SeerCall, CallAt, SameRuntime
       DEF SeerInv, SeerForward, TaylorSeer!ForwardInactive, TaylorSeer!ForwardRefresh, TaylorSeer!ForwardForecast
  <1>2. Call(m) /\ cfg' = cfg
    BY <1>1, SeerCall
  <1>3. /\ Sampling /\ UNCHANGED <<batch, size, step>> /\ context.branch \in Guided
        /\ context.step = step /\ step \in StepIdx /\ step \in Nat
        /\ key = KeyAt(m, context.branch) /\ size \in BatchSizes /\ ~Done(m, context.branch)
        /\ \A n \in Modules, b \in Guided : Done(n, b)' <=> Done(n, b) \/ (n = m /\ b = context.branch)
    BY <1>1, <1>2, CallAt DEF SeerInv, StepIdx
  <1>4. key[1] = m /\ key[2] = context.branch /\ key[3] = "euler" /\ key[4] = size
    BY <1>3, KeysAt
  <1>5. \/ /\ ~(cfg.enabled /\ m \in cfg.cache_modules)
           /\ Bypass(m) /\ points' = <<>> /\ UNCHANGED <<history, pending, seer>>
        \/ /\ cfg.enabled /\ m \in cfg.cache_modules /\ Refresh(m)
           /\ m \notin NonTensorModules => ~ForecastStep(step)
        \/ /\ cfg.enabled /\ m \in cfg.cache_modules \ NonTensorModules /\ ForecastStep(step)
           /\ Forecast(m) /\ Serve(m) /\ UNCHANGED history
           /\ entries[key] # None /\ Len(history[key]) >= cfg.min_history
    BY <1>1, SeerCall
  <1>6. HistoryInv'
    BY <1>2, <1>5, BypassKeeps, ManagedKeeps DEF SeerInv
  <1>7. cfg' \in SeerConfigs /\ TaylorSeer!ConfigOK(cfg')
    BY <1>2 DEF SeerInv
  <1>8. /\ \A s : TaylorSeer!Scheduled(s)' <=> TaylorSeer!Scheduled(s)
        /\ \A s : TaylorSeer!OnInterval(s)' <=> TaylorSeer!OnInterval(s)
    BY <1>2 DEF TaylorSeer!Scheduled, TaylorSeer!OnInterval, TaylorSeer!Last
  <1>9. TaylorSeer!SameStepsForecast'
    <2>1. CASE Bypass(m)
      BY <2>1 DEF TaylorSeer!SameStepsForecast, Bypass, Served
    <2>2. CASE Refresh(m) /\ (m \notin NonTensorModules => ~ForecastStep(step))
      <3>1. served'.how = "compute" /\ served'.step = step /\ served'.module = m
        BY <1>3, <2>2 DEF Refresh, Recompute, Compute, Served
      <3> QED BY <1>2, <1>8, <2>2, <3>1 DEF TaylorSeer!SameStepsForecast, ForecastStep
    <2>3. CASE Serve(m) /\ ForecastStep(step)
      <3>1. served'.how = "reuse" /\ served'.step = step /\ served'.module = m
        BY <1>3, <2>3 DEF Serve, Served
      <3> QED BY <1>2, <1>8, <2>3, <3>1 DEF TaylorSeer!SameStepsForecast, ForecastStep
    <2> QED BY <1>5, <2>1, <2>2, <2>3
  <1>10. \A k \in Keys : (Live(k)' <=> Live(k)) /\ (Live(k) => k[1] \in Modules /\ k[2] \in Guided)
    BY <1>2, <1>3 DEF SeerInv, HistoryInv, HistoryConfig, Live
  <1>11. ASSUME NEW k \in Keys PROVE (LengthOK(k) /\ AgeOK(k))'
    <2>1. LengthOK(k) /\ AgeOK(k) /\ EntryOK(k) /\ EntryOK(k)'
      BY <1>3, <1>6, CallAt, <1>2 DEF SeerInv, HistoryInv
    <2>2. CASE ~Live(k)
      <3>1. entries'[k] = None
        BY <1>10, <2>1, <2>2 DEF EntryOK
      <3> QED BY <1>10, <2>2, <3>1 DEF LengthOK, AgeOK
    <2>3. CASE Live(k) /\ k # key
      <3>1. history'[k] = history[k] /\ entries'[k] = entries[k]
        <4>1. CASE Bypass(m) /\ UNCHANGED history
          BY <4>1 DEF Bypass
        <4>2. CASE Serve(m) /\ UNCHANGED history
          BY <4>2 DEF Serve
        <4>3. CASE Refresh(m) /\ cfg.enabled /\ m \in cfg.cache_modules
          BY <1>1, <1>2, <2>3, <4>3, RecomputeGives DEF Refresh, SeerInv
        <4> QED BY <1>5, <4>1, <4>2, <4>3
      <3>2. Done(k[1], k[2])' <=> Done(k[1], k[2])
        <4>1. k = KeyAt(k[1], k[2])
          BY <1>3, <2>3, KeysAt
        <4>2. ~(k[1] = m /\ k[2] = context.branch)
          BY <1>3, <2>3, <4>1
        <4> QED BY <1>3, <1>10, <2>3, <4>2
      <3>3. Behind(k)' = Behind(k)
        BY <1>3, <3>2 DEF Behind
      <3> QED BY <1>2, <1>8, <1>10, <2>1, <3>1, <3>3 DEF LengthOK, AgeOK
    <2>4. CASE Live(k) /\ k = key
      <3>1. Behind(k) = step /\ Behind(k)' = step + 1
        BY <1>3, <1>4, <2>4 DEF Behind
      <3>2. cfg.enabled /\ m \in cfg.cache_modules \ NonTensorModules
        BY <1>4, <2>4 DEF Live
      <3>3. PICK min \in Nat, max \in Nat, h \in Seq(Item) :
              min = cfg.min_history /\ max = cfg.max_history /\ h = history[k] /\ Len(h) <= max
        BY DEF SeerInv, HistoryInv, HistoryConfig, HistoryTyped
      <3>4. Len(h) \in Nat /\ (max >= min => IF step < min THEN Len(h) = step ELSE Len(h) >= min)
        BY <2>1, <2>4, <3>1, <3>3 DEF LengthOK
      <3>5. CASE Refresh(m)
        <4>1. PICK item : item = [step |-> step, batch |-> batch]
          OBVIOUS
        <4>2. /\ entries'[k] = NewEntry /\ NewEntry.step = step /\ history'[k] = Remember(h, item)
              /\ item \in Item /\ (h # <<>> => h[Len(h)].step < item.step)
          <5>1. item.step = step
            BY <4>1
          <5> QED BY <1>1, <1>2, <2>4, <3>2, <3>3, <3>5, <4>1, <5>1, RecomputeGives DEF Refresh, SeerInv
        <4>3. PICK r : r = history'[k] /\ Len(r) = Len(h) + 1 - (IF Len(h) = max THEN 1 ELSE 0)
          BY <3>3, <4>2, RememberGives DEF SeerInv, HistoryInv
        <4>4. max >= min => IF step + 1 < min THEN Len(r) = step + 1 ELSE Len(r) >= min
          <5>1. PICK l, n : l \in Nat /\ l = Len(h) /\ n = Len(r)
            BY <3>4
          <5>2. l <= max /\ (max >= min => IF step < min THEN l = step ELSE l >= min)
            BY <3>3, <3>4, <5>1
          <5>3. n = IF l = max THEN l ELSE l + 1
            BY <4>3, <5>1
          <5> QED BY <1>3, <5>1, <5>2, <5>3
        <4>5. LengthOK(k)'
          BY <1>2, <3>1, <3>3, <4>3, <4>4 DEF LengthOK
        <4>6. \A s \in StepIdx : ~(step < s /\ s < step + 1)
          BY <1>3 DEF StepIdx
        <4>7. AgeOK(k)'
          BY <3>1, <4>2, <4>6 DEF AgeOK
        <4> QED BY <4>5, <4>7
      <3>6. CASE /\ ForecastStep(step) /\ Serve(m) /\ UNCHANGED history /\ entries[key] # None
                 /\ Len(history[key]) >= cfg.min_history
        <4>1. entries' = entries /\ ~TaylorSeer!OnInterval(step) /\ step >= min
          BY <3>3, <3>6 DEF Serve, ForecastStep, TaylorSeer!Scheduled
        <4>2. LengthOK(k)'
          <5>1. ~(step + 1 < min) /\ Len(history'[k]) >= min
            BY <1>3, <2>4, <3>3, <3>6, <4>1
          <5> QED BY <1>2, <3>1, <3>3, <5>1 DEF LengthOK
        <4>3. AgeOK(k)'
          <5>1. \A s \in StepIdx : s < step + 1 => s < step \/ s = step
            BY <1>3 DEF StepIdx
          <5> QED BY <1>8, <2>1, <3>1, <4>1, <5>1 DEF AgeOK
        <4> QED BY <4>2, <4>3
      <3> QED BY <1>5, <3>2, <3>5, <3>6
    <2> QED BY <2>2, <2>3, <2>4
  <1> QED BY <1>6, <1>7, <1>9, <1>11 DEF SeerInv

\* A run starts without entries.
LEMMA SeerStart ==
    ASSUME TaylorSeer!Init
    PROVE  SeerInv
  <1> USE SameRuntime
  <1>1. RuntimeInit /\ HistoryInit /\ cfg \in SeerConfigs /\ TaylorSeer!ConfigOK(cfg)
    BY DEF TaylorSeer!Init
  <1>2. HistoryConfig
    BY <1>1 DEF TaylorSeer!ConfigOK, HistoryConfig
  <1>3. HistoryInv /\ ~Sampling
    BY <1>1, <1>2, HistoryStart DEF RuntimeInit, Sampling
  <1>4. TaylorSeer!SameStepsForecast
    BY <1>1 DEF TaylorSeer!SameStepsForecast, RuntimeInit, Nothing
  <1> QED BY <1>1, <1>3, <1>4 DEF SeerInv

\* A new batch starts without entries, and so does the run after the warm-up.
LEMMA SeerForgets ==
    ASSUME SeerInv, TaylorSeer!StartBatch \/ TaylorSeer!LeaveWarmup
    PROVE  SeerInv'
  <1> USE SameRuntime
  <1>1. /\ BeginBatch \/ EndWarmup
        /\ ForgetBatch /\ points' = <<>> /\ cfg' = cfg /\ (seer' = seer \/ seer' = NoCalls)
    BY DEF TaylorSeer!StartBatch, TaylorSeer!LeaveWarmup
  <1>2. seer' \in [Fields -> Nat]
    BY <1>1 DEF SeerInv, HistoryInv, HistoryTyped, NoCalls
  <1>3. HistoryInv' /\ \A k \in Keys : entries'[k] = None /\ history'[k] = <<>>
    BY <1>1, <1>2, HistoryForgets DEF SeerInv
  <1>4. cfg' \in SeerConfigs /\ TaylorSeer!ConfigOK(cfg')
    BY <1>1 DEF SeerInv
  <1>5. TaylorSeer!SameStepsForecast'
    <2>1. CASE BeginBatch
      BY <2>1 DEF TaylorSeer!SameStepsForecast, BeginBatch, Nothing
    <2>2. CASE EndWarmup
      <3>1. served' = served
        BY <2>2 DEF EndWarmup
      <3> QED BY <1>1, <3>1 DEF SeerInv, TaylorSeer!SameStepsForecast, TaylorSeer!Scheduled,
                                TaylorSeer!OnInterval, TaylorSeer!Last
    <2> QED BY <1>1, <2>1, <2>2
  <1>6. ASSUME Sampling', NEW k \in Keys PROVE (LengthOK(k) /\ AgeOK(k))'
    <2>1. /\ step' = 0 /\ size' \in BatchSizes /\ \A n \in Modules, b \in Guided : ~Done(n, b)'
      BY <1>1, <1>6, StepsAt DEF SeerInv
    <2>2. Live(k)' => Behind(k)' = 0
      <3>1. Live(k)' => k[1] \in Modules /\ k[2] \in Guided
        BY <1>3 DEF HistoryInv, HistoryConfig, Live
      <3> QED BY <2>1, <3>1 DEF Behind
    <2>3. LengthOK(k)'
      <3>1. Len(<<>>) = 0 /\ cfg'.min_history \in Nat \ {0}
        BY <1>3 DEF HistoryInv, HistoryConfig
      <3>2. 0 < cfg'.min_history /\ Len(history'[k]) = 0
        BY <1>3, <3>1
      <3> QED BY <2>2, <3>2 DEF LengthOK
    <2>4. AgeOK(k)'
      BY <1>3 DEF AgeOK
    <2> QED BY <2>3, <2>4
  <1> QED BY <1>3, <1>4, <1>5, <1>6 DEF SeerInv

\* The next evaluation, or the next step: every call of the last one is behind.
LEMMA SeerDrives ==
    ASSUME SeerInv, SetContext \/ EndStep, UNCHANGED <<cfg, historyVars>>
    PROVE  SeerInv'
  <1>1. HistoryInv' /\ HistoryInv /\ RuntimeTyped
    BY HistoryStays DEF SeerInv, HistoryInv
  <1>2. UNCHANGED <<size, entries, served, history, cfg>> /\ Sampling
    BY <1>1, StepsAt DEF cacheVars, historyVars
  <1>3. /\ cfg' \in SeerConfigs /\ TaylorSeer!ConfigOK(cfg') /\ TaylorSeer!SameStepsForecast'
        /\ \A s : TaylorSeer!OnInterval(s)' <=> TaylorSeer!OnInterval(s)
    BY <1>2 DEF SeerInv, TaylorSeer!SameStepsForecast, TaylorSeer!Scheduled,
                TaylorSeer!OnInterval, TaylorSeer!Last
  <1>4. ASSUME Sampling', NEW k \in Keys PROVE (LengthOK(k) /\ AgeOK(k))'
    <2>1. LengthOK(k) /\ AgeOK(k) /\ EntryOK(k) /\ (Live(k)' <=> Live(k))
      BY <1>1, <1>2 DEF SeerInv, HistoryInv, Live
    <2>2. Live(k) => k[1] \in Modules /\ k[2] \in Guided
      BY <1>1 DEF HistoryInv, HistoryConfig, Live
    <2>3. Live(k) => Behind(k)' = Behind(k)
      <3>1. CASE SetContext
        BY <1>1, <2>2, <3>1, StepsAt DEF Behind
      <3>2. CASE EndStep
        BY <1>1, <1>4, <2>2, <3>2, StepsAt DEF Behind
      <3> QED BY <3>1, <3>2
    <2>4. LengthOK(k)'
      BY <1>2, <2>1, <2>3 DEF LengthOK
    <2>5. AgeOK(k)'
      BY <1>2, <1>3, <2>1, <2>3 DEF AgeOK, EntryOK
    <2> QED BY <2>4, <2>5
  <1> QED BY <1>1, <1>3, <1>4 DEF SeerInv

\* Nothing that the invariants speak of changes.
LEMMA HistoryStill ==
    ASSUME UNCHANGED <<driverVars, cacheVars, cfg, historyVars>>
    PROVE  HistoryInv => HistoryInv'
  <1>1. /\ UNCHANGED <<sampler, at, batch, size, step, pass, module, context, session, entries, stats, served>>
        /\ UNCHANGED <<cfg, history, pending, seer, points>>
    BY DEF driverVars, cacheVars, historyVars
  <1>2. /\ RuntimeTyped => RuntimeTyped'
        /\ HistoryConfig => HistoryConfig'
        /\ HistoryTyped => HistoryTyped'
        /\ HistoryMeetsEntry => HistoryMeetsEntry'
        /\ PointsSound => PointsSound'
        /\ Sampling' <=> Sampling
    BY <1>1 DEF RuntimeTyped, HistoryConfig, HistoryTyped, HistoryMeetsEntry, PointsSound, Sampling, Item
  <1>3. Control => Control'
    <2>1. Evals' = Evals
      BY <1>1, EvalsKept
    <2>2. /\ EvalContext' = EvalContext
          /\ Runs(Evals[pass].stage, step)' <=> Runs(Evals[pass].stage, step)
      BY <1>1, <2>1 DEF EvalContext, TimeOf, Runs
    <2> QED BY <1>1, <1>2, <2>1, <2>2 DEF Control
  <1>4. \A k : (EntryOK(k) => EntryOK(k)') /\ (HistoryOK(k) => HistoryOK(k)')
    BY <1>1 DEF EntryOK, HistoryOK, Live, Done, PassOf, Signature
  <1> QED BY <1>1, <1>2, <1>3, <1>4 DEF HistoryInv

LEMMA SeerStill ==
    ASSUME UNCHANGED <<driverVars, cacheVars, cfg, historyVars>>
    PROVE  SeerInv => SeerInv'
  <1>1. /\ UNCHANGED <<sampler, at, batch, size, step, pass, module, context, session, entries, stats, served>>
        /\ UNCHANGED <<cfg, history, pending, seer, points>>
    BY DEF driverVars, cacheVars, historyVars
  <1>2. /\ Sampling' <=> Sampling
        /\ TaylorSeer!SameStepsForecast => TaylorSeer!SameStepsForecast'
    BY <1>1 DEF Sampling, TaylorSeer!SameStepsForecast, TaylorSeer!Scheduled, TaylorSeer!OnInterval, TaylorSeer!Last
  <1>3. \A k : (LengthOK(k) => LengthOK(k)') /\ (AgeOK(k) => AgeOK(k)')
    BY <1>1 DEF LengthOK, AgeOK, Behind, Live, Done, PassOf, TaylorSeer!OnInterval
  <1> QED BY <1>1, <1>2, <1>3, HistoryStill DEF SeerInv

\* Of TaylorSeer's schedule, and of every step its policy takes part in.
LEMMA SeerNext ==
    ASSUME SeerInv, TaylorSeer!Next
    PROVE  SeerInv'
  <1> USE SameRuntime
  <1>1. CASE TaylorSeer!StartBatch \/ TaylorSeer!LeaveWarmup
    BY <1>1, SeerForgets
  <1>2. CASE (SetContext \/ EndStep) /\ UNCHANGED <<cfg, historyVars>>
    BY <1>2, SeerDrives
  <1>3. ASSUME NEW m \in Modules, SeerForward(m) PROVE SeerInv'
    BY <1>3, SeerCallKeeps
  <1>4. CASE UNCHANGED TaylorSeer!vars
    BY <1>4, SeerStill
  <1> QED BY <1>1, <1>2, <1>3, <1>4 DEF TaylorSeer!Next, TaylorSeer!Terminated, SeerForward

-----------------------------------------------------------------------------
(* SpeCa's decision for a step *)

\* What a configuration, checked by the constructor, is.
LEMMA SpeCaConfig ==
    ASSUME cfg \in Configs
    PROVE  /\ HistoryConfig /\ cfg.verifier \in cfg.cache_modules /\ cfg.first_full_steps \in Nat
           /\ cfg.min_forecast_steps \in Nat \ {0} /\ cfg.max_forecast_steps \in Nat
           /\ cfg.min_forecast_steps <= cfg.max_forecast_steps
           /\ cfg.threshold \in [StepIdx -> Nat]
  <1>1. ConfigOK(cfg)
    BY SpeCaAssumption
  <1> QED BY <1>1 DEF ConfigOK, HistoryConfig

\* Two errors have an aggregate.
LEMMA AggregateGives ==
    ASSUME NEW errors \in [Guided -> Errors \cup {None}], Found(errors) = Guided
    PROVE  Aggregate(errors) \in Nat /\ Aggregate(errors) # None
  <1>1. PICK x, y : x = errors["cond"] /\ y = errors["uncond"]
    OBVIOUS
  <1>2. x # None /\ y # None /\ Found(errors) # {}
    BY <1>1 DEF Found, Guided
  <1>3. x \in Errors /\ y \in Errors
    BY <1>1, <1>2 DEF Guided
  <1>4. x \in Nat /\ y \in Nat /\ x % 2 = 0 /\ y % 2 = 0
    BY <1>3, SpeCaAssumption
  <1>5. (x + y) \div 2 \in Nat
    BY <1>4
  <1>6. Aggregate(errors) \in {x, y, (x + y) \div 2}
    BY <1>1, <1>2 DEF Aggregate
  <1> QED BY <1>4, <1>5, <1>6, RuntimeAssumption

\* In the middle of a step: its decision, run and errors N, and the counts C.
StreamIs(N) ==
    /\ N.decision \in Decision /\ N.decision.step = step
    /\ N.run \in 0 .. cfg.max_forecast_steps /\ N.errors \in [Guided -> Errors \cup {None}]
    /\ N = [decision |-> N.decision, run |-> N.run, errors |-> N.errors]
    /\ Speculative(N.decision) <=> N.run > 0
    /\ N.decision.verify <=> N.run > cfg.min_forecast_steps
    /\ N.run <= step + 1
    /\ ~N.decision.verify => N.errors = NoErrors
    /\ N.decision.reason # "missing_verification_error"

ErrorsAre(N) ==
    /\ N.decision.verify => \A b \in Guided : N.errors[b] # None <=> Done(cfg.verifier, b)
    /\ measured[step] = N.errors
    /\ \A s \in StepIdx : step < s => measured[s] = NoErrors

EntriesAre(N) ==
    /\ N.run > 0 => AllReady
    /\ \A m \in cfg.cache_modules \ NonTensorModules, b \in Guided : N.run > 0 \/ Done(m, b) =>
         entries[KeyAt(m, b)] # None /\ entries[KeyAt(m, b)].step = step - N.run

\* The earlier steps of a run of this length have earned it.
EarnedTo(s, run) ==
    run > 0 => \A r \in s - run + 1 .. s - 1 :
      IF r < s - run + 1 + cfg.min_forecast_steps THEN measured[r] = NoErrors
      ELSE Found(measured[r]) = Guided /\ Aggregate(measured[r]) <= cfg.threshold[r + 1]

Owed(N) == IF N.decision.verify
           THEN (IF N.errors["cond"] = None THEN 1 ELSE 0) + (IF N.errors["uncond"] = None THEN 1 ELSE 0)
           ELSE 0

CountsAre(N, C) ==
    /\ C \in [Counted -> Nat]
    /\ C["runs"] + N.run = C["speculative"]
    /\ C["fresh_calls"] + Owed(N) = 2 * C["verification_steps"]
    /\ C["accepts"] + C["rejects"] + (IF N.decision.verify THEN 1 ELSE 0) <= C["verification_steps"]
    /\ C["full"] + C["speculative"] = Steps * Sampled + (step + 1)

\* The last decision, seen from a step in which nobody asked yet.
LEMMA BeforeDecision ==
    ASSUME SpeCaInv, Sampling, cfg.enabled, ~Asked
    PROVE  \/ stream = NewStream /\ stream.decision = None /\ step = 0
           \/ /\ stream.decision # None /\ stream.decision \in Decision
              /\ stream.decision.step = step - 1 /\ step > 0 /\ step - 1 \in StepIdx
  <1>1. DecidedInStep /\ DecisionOK /\ StreamTyped /\ step \in StepIdx
    BY DEF SpeCaInv, HistoryInv, RuntimeTyped
  <1>2. CASE stream.decision = None
    BY <1>1, <1>2 DEF DecidedInStep, DecisionOK, StepIdx
  <1>3. CASE stream.decision # None
    <2>1. step > 0 /\ stream.decision.step = step - 1
      BY <1>1, <1>3 DEF DecidedInStep
    <2>2. stream.decision \in Decision
      BY <1>1, <1>3 DEF StreamTyped
    <2>3. step - 1 \in StepIdx
      BY <1>1, <2>1, RuntimeAssumption DEF StepIdx
    <2> QED BY <1>3, <2>1, <2>2, <2>3
  <1> QED BY <1>2, <1>3

\* An entry is at most as old as the batch: with it, some step is behind.
LEMMA ReadyMeansEntries ==
    ASSUME SpeCaInv, Sampling, AllReady, NEW m \in cfg.cache_modules, NEW b \in Guided
    PROVE  /\ entries[KeyAt(m, b)] # None /\ EntryOK(KeyAt(m, b)) /\ KeyAt(m, b) \in Keys
           /\ Ready(history[KeyAt(m, b)]) /\ EntryMatches(entries[KeyAt(m, b)])
           /\ m \notin NonTensorModules /\ entries[KeyAt(m, b)].step \in StepIdx
  <1>1. /\ m \in Modules /\ size \in BatchSizes /\ cfg.min_history \in Nat \ {0}
        /\ HistoryTyped /\ HistoryMeetsEntry /\ RuntimeTyped
    BY DEF SpeCaInv, HistoryInv, HistoryConfig, RuntimeTyped
  <1>2. PICK k \in Keys : k = KeyAt(m, b) /\ k[1] = m
    BY <1>1, KeysAt
  <1>3. Ready(history[k])
    BY <1>2 DEF AllReady, KeyAt
  <1>4. history[k] # <<>>
    BY <1>1, <1>3 DEF Ready
  <1>5. entries[k] # None /\ EntryOK(k)
    BY <1>1, <1>4 DEF HistoryMeetsEntry, SpeCaInv, HistoryInv
  <1>6. EntryMatches(entries[k]) /\ m \notin NonTensorModules
    BY <1>2, <1>5 DEF EntryOK, EntryMatches, Live
  <1>7. entries[k].step \in StepIdx
    BY <1>1, <1>5 DEF RuntimeTyped, Entry
  <1> QED BY <1>2, <1>3, <1>5, <1>6, <1>7

\* The rule that speaks, and what it says.
LEMMA ReasonGives ==
    ASSUME SpeCaInv, Sampling, cfg.enabled, ~Asked
    PROVE  /\ Reason(step) \in Reasons /\ Reason(step) # "missing_verification_error"
           /\ Verifying => /\ Found(stream.errors) = Guided
                           /\ PreviousError = Aggregate(stream.errors) /\ PreviousError \in Nat
           /\ Reason(step) \in GoesOn =>
                /\ AllReady /\ step > 0 /\ stream.decision # None /\ stream.run < cfg.max_forecast_steps
                /\ Verifying => Aggregate(stream.errors) <= cfg.threshold[step]
           /\ Reason(step) \in {"verification_accept", "verification_reject"} => Verifying
  <1> DEFINE why == Reason(step)
  <1>1. /\ cfg \in Configs /\ DecisionOK /\ StreamTyped /\ ErrorsInStep /\ step \in StepIdx
        /\ cfg.min_forecast_steps \in Nat \ {0} /\ cfg.max_forecast_steps \in Nat
        /\ cfg.min_forecast_steps <= cfg.max_forecast_steps
        /\ cfg.threshold[step] \in Nat
    BY SpeCaConfig DEF SpeCaInv, HistoryInv, RuntimeTyped
  <1>2. stream.run \in Nat
    BY <1>1 DEF StreamTyped
  <1>3. ASSUME Verifying
        PROVE  Found(stream.errors) = Guided /\ PreviousError = Aggregate(stream.errors) /\ PreviousError \in Nat
    <2>1. stream.decision # None /\ stream.decision.verify /\ stream.decision.step < step
      BY <1>1, <1>3, BeforeDecision DEF Verifying, StepIdx
    <2>2. Found(stream.errors) = Guided
      BY <1>1, <2>1 DEF ErrorsInStep, Found
    <2>3. PreviousError = Aggregate(stream.errors)
      BY <2>1 DEF PreviousError
    <2> QED BY <1>1, <2>2, <2>3, AggregateGives DEF StreamTyped
  <1>4. ~Verifying => PreviousError = None
    BY DEF Verifying, PreviousError
  <1>5. ~Unverified
    <2>1. Guided # {}
      BY DEF Guided
    <2> QED BY <1>3, <2>1 DEF Unverified, Verifying
  <1>6. why \in Reasons /\ why # "missing_verification_error"
    BY <1>5 DEF Reason, Reasons
  <1>7. why \in {"verification_accept", "verification_reject"} => Verifying
    BY <1>4 DEF Reason, Rejected
  <1>8. ASSUME why \in GoesOn
        PROVE  /\ AllReady /\ step > 0 /\ stream.decision # None /\ stream.run < cfg.max_forecast_steps
               /\ Verifying => Aggregate(stream.errors) <= cfg.threshold[step]
    <2>1. AllReady
      BY <1>8 DEF Reason, GoesOn
    <2>2. step > 0 /\ stream.decision # None
      <3>1. PICK b \in Guided : TRUE
        BY DEF Guided
      <3>2. PICK k : /\ k = KeyAt(cfg.verifier, b) /\ entries[k] # None /\ EntryOK(k)
                     /\ k[1] = cfg.verifier /\ k[2] = b /\ entries[k].step \in StepIdx
        BY <1>1, <2>1, SpeCaConfig, ReadyMeansEntries DEF KeyAt
      <3>3. entries[k].step # step /\ entries[k].step <= step
        BY <1>1, <3>2, SpeCaConfig DEF EntryOK, Asked
      <3>4. step # 0
        BY <1>1, <3>2, <3>3 DEF StepIdx
      <3> QED BY <1>1, <3>4, BeforeDecision DEF StepIdx
    <2>3. CASE AfterFull
      <3>1. stream.run = 0 /\ ~Verifying
        BY <1>1, <1>2, <2>2, <2>3 DEF AfterFull, DecisionOK, Verifying
      <3> QED BY <1>1, <2>1, <2>2, <3>1
    <2>4. CASE ~AfterFull
      <3>1. ~TooLong /\ ~Rejected(step)
        BY <1>8, <2>4 DEF Reason, GoesOn
      <3>2. stream.run < cfg.max_forecast_steps
        BY <1>1, <1>2, <3>1 DEF TooLong
      <3>3. ASSUME Verifying PROVE Aggregate(stream.errors) <= cfg.threshold[step]
        <4>1. stream.run >= cfg.min_forecast_steps
          BY <1>1, <1>2, <3>3 DEF Verifying, DecisionOK
        <4>2. PreviousError \in Nat /\ PreviousError # None
          BY <1>3, <3>3, RuntimeAssumption
        <4>3. ~(PreviousError > cfg.threshold[step])
          BY <3>1, <4>1, <4>2 DEF Rejected
        <4> QED BY <1>1, <1>3, <3>3, <4>2, <4>3
      <3> QED BY <2>1, <2>2, <3>2, <3>3
    <2> QED BY <2>3, <2>4
  <1> QED BY <1>3, <1>6, <1>7, <1>8

\* A new decision: it opens a run or carries one on, or ends it.
LEMMA DecideStream ==
    ASSUME SpeCaInv, Sampling, cfg.enabled, ~Asked
    PROVE  LET N == Decide(step)
           IN StreamIs(N) /\ ErrorsAre(N) /\ EntriesAre(N) /\ EarnedTo(step, N.run)
  <1> DEFINE N == Decide(step)
             goesOn == Reason(step) \in GoesOn
  <1>1. /\ cfg \in Configs /\ DecisionOK /\ StreamTyped /\ ErrorsInStep /\ EntriesInStep /\ RunEarned
        /\ step \in StepIdx /\ step \in Nat
        /\ cfg.min_forecast_steps \in Nat \ {0} /\ cfg.max_forecast_steps \in Nat
        /\ cfg.min_forecast_steps <= cfg.max_forecast_steps /\ cfg.verifier \in cfg.cache_modules
    BY SpeCaConfig DEF SpeCaInv, HistoryInv, RuntimeTyped, StepIdx
  <1>2. stream.run \in 0 .. cfg.max_forecast_steps
    BY <1>1 DEF StreamTyped
  <1>3. /\ N.decision = [step |-> step, reason |-> Reason(step),
                         verify |-> goesOn /\ stream.run >= cfg.min_forecast_steps]
        /\ N.run = (IF goesOn THEN stream.run + 1 ELSE 0)
        /\ N.errors = NoErrors
        /\ N = [decision |-> N.decision, run |-> N.run, errors |-> N.errors]
        /\ N.decision.verify = (goesOn /\ stream.run >= cfg.min_forecast_steps)
    BY DEF Decide
  <1> HIDE DEF N
  <1>4. goesOn => /\ AllReady /\ step > 0 /\ stream.decision # None /\ stream.run < cfg.max_forecast_steps
                  /\ stream.decision.step = step - 1 /\ step - 1 \in StepIdx
                  /\ Verifying => Aggregate(stream.errors) <= cfg.threshold[step]
    BY ReasonGives, BeforeDecision
  <1>5. Speculative(N.decision) <=> goesOn
    BY <1>3 DEF Speculative
  <1>6. StreamIs(N)
    <2>1. N.decision \in Decision /\ N.decision.step = step
      BY <1>1, <1>3, ReasonGives DEF Decision
    <2>2. N.run \in 0 .. cfg.max_forecast_steps
      BY <1>1, <1>2, <1>3, <1>4
    <2>3. N.errors \in [Guided -> Errors \cup {None}]
      BY <1>3 DEF NoErrors
    <2>4. Speculative(N.decision) <=> N.run > 0
      BY <1>2, <1>3, <1>5
    <2>5. N.decision.verify <=> N.run > cfg.min_forecast_steps
      <3>1. N.decision.verify <=> goesOn /\ stream.run >= cfg.min_forecast_steps
        BY <1>3
      <3>2. goesOn /\ stream.run >= cfg.min_forecast_steps <=> N.run > cfg.min_forecast_steps
        BY <1>1, <1>2, <1>3
      <3> QED BY <3>1, <3>2
    <2>6. N.run <= step + 1
      <3>1. goesOn => stream.run <= stream.decision.step + 1
        BY <1>1, <1>4 DEF DecisionOK
      <3> QED BY <1>1, <1>2, <1>3, <1>4, <3>1
    <2>7. N.decision.reason # "missing_verification_error"
      BY <1>3, ReasonGives
    <2> QED BY <1>3, <2>1, <2>2, <2>3, <2>4, <2>5, <2>6, <2>7 DEF StreamIs
  <1>7. ErrorsAre(N)
    <2>1. \A s \in StepIdx : step <= s => measured[s] = NoErrors
      <3>1. stream.decision = None \/ stream.decision.step = step - 1
        BY BeforeDecision
      <3>2. \A s \in StepIdx : step <= s => step - 1 < s
        BY <1>1 DEF StepIdx
      <3> QED BY <1>1, <3>1, <3>2 DEF ErrorsInStep
    <2>2. measured[step] = N.errors
      BY <1>1, <1>3, <2>1
    <2>3. \A s \in StepIdx : step < s => measured[s] = NoErrors
      BY <1>1, <2>1 DEF StepIdx
    <2>4. \A b \in Guided : N.errors[b] = None /\ ~Done(cfg.verifier, b)
      BY <1>1, <1>3 DEF NoErrors, Asked
    <2> QED BY <2>2, <2>3, <2>4 DEF ErrorsAre
  <1>8. EntriesAre(N)
    <2>1. N.run > 0 => goesOn
      BY <1>3
    <2>2. ASSUME NEW m \in cfg.cache_modules \ NonTensorModules, NEW b \in Guided, N.run > 0 \/ Done(m, b)
          PROVE  entries[KeyAt(m, b)] # None /\ entries[KeyAt(m, b)].step = step - N.run
      <3>1. goesOn
        BY <2>1, <2>2 DEF Asked
      <3>2. entries[KeyAt(m, b)] # None /\ entries[KeyAt(m, b)].step = stream.decision.step - stream.run
        <4>1. stream.decision # None /\ stream.decision.step < step
          BY <1>1, <1>4, <3>1
        <4> QED BY <1>1, <4>1 DEF EntriesInStep
      <3>3. stream.decision.step - stream.run = step - N.run
        BY <1>1, <1>2, <1>3, <1>4, <3>1
      <3> QED BY <3>2, <3>3
    <2> QED BY <1>4, <2>1, <2>2 DEF EntriesAre
  <1>9. EarnedTo(step, N.run)
    <2> SUFFICES ASSUME N.run > 0, NEW r \in step - N.run + 1 .. step - 1
                 PROVE  IF r < step - N.run + 1 + cfg.min_forecast_steps THEN measured[r] = NoErrors
                        ELSE /\ Found(measured[r]) = Guided
                             /\ Aggregate(measured[r]) <= cfg.threshold[r + 1]
      BY DEF EarnedTo
    <2>1. goesOn /\ N.run = stream.run + 1
      BY <1>3
    <2>2. /\ stream.decision # None /\ stream.decision.step = step - 1
          /\ step - N.run + 1 = stream.decision.step - stream.run + 1
          /\ stream.run > 0
      BY <1>1, <1>2, <1>4, <2>1
    <2>3. CASE r < step - 1
      <3>1. r \in stream.decision.step - stream.run + 1 .. stream.decision.step - 1
        BY <1>1, <1>2, <2>1, <2>2, <2>3
      <3> QED BY <1>1, <2>2, <3>1 DEF RunEarned
    <2>4. CASE ~(r < step - 1)
      <3>1. r = stream.decision.step /\ r + 1 = step
        BY <1>1, <1>2, <2>1, <2>2, <2>4
      <3>2. measured[r] = stream.errors
        BY <1>1, <2>2, <3>1 DEF ErrorsInStep
      <3>3. r < step - N.run + 1 + cfg.min_forecast_steps <=> ~(stream.run > cfg.min_forecast_steps)
        BY <1>1, <1>2, <2>1, <3>1
      <3>4. (stream.decision.verify <=> stream.run > cfg.min_forecast_steps)
            /\ (~stream.decision.verify => stream.errors = NoErrors)
        BY <1>1, <2>2 DEF DecisionOK
      <3>5. stream.decision.verify => Verifying
        BY <2>2 DEF Verifying
      <3> QED BY <1>4, <2>1, <3>1, <3>2, <3>3, <3>4, <3>5, ReasonGives
    <2> QED BY <2>3, <2>4
  <1> QED BY <1>6, <1>7, <1>8, <1>9 DEF N

\* The counts of a new decision: a step more, and a run more or one step longer.
LEMMA DecideCounts ==
    ASSUME SpeCaInv, Sampling, cfg.enabled, ~Asked
    PROVE  CountsAre(Decide(step), CountDecision(Decide(step).decision))
  <1> DEFINE N == Decide(step)
             d == N.decision
             goesOn == Reason(step) \in GoesOn
             C == CountDecision(d)
             base == IF goesOn THEN speca ELSE Flushed(speca)
  <1>1. /\ StreamTyped /\ CountsOK /\ ErrorsInStep /\ step \in Nat /\ at # "reset"
        /\ speca \in [Counted -> Nat] /\ stream.run \in Nat /\ cfg.max_forecast_steps \in Nat
    <2>1. cfg.max_forecast_steps \in Nat /\ StreamTyped
      BY SpeCaConfig DEF SpeCaInv
    <2>2. stream.run \in Nat
      BY <2>1 DEF StreamTyped
    <2> QED BY <2>1, <2>2 DEF SpeCaInv, HistoryInv, RuntimeTyped, StreamTyped, StepIdx, Sampling
  <1>2. /\ d.reason = Reason(step) /\ d.verify = (goesOn /\ stream.run >= cfg.min_forecast_steps)
        /\ N.run = (IF goesOn THEN stream.run + 1 ELSE 0) /\ N.errors = NoErrors
        /\ Speculative(d) = goesOn
    BY DEF Decide, Speculative
  <1>3. /\ base \in [Counted -> Nat]
        /\ base["runs"] = (IF goesOn THEN speca["runs"] ELSE speca["runs"] + stream.run)
        /\ \A f \in Counted \ {"runs"} : base[f] = speca[f]
    <2>1. speca["runs"] + stream.run \in Nat /\ "runs" \in Counted
      BY <1>1 DEF Counted
    <2>2. Flushed(speca) = [speca EXCEPT !["runs"] = speca["runs"] + stream.run]
      BY DEF Flushed
    <2> QED BY <1>1, <2>1, <2>2
  <1> HIDE DEF N
  <1>4. /\ C \in [Counted -> Nat]
        /\ C["full"] = (IF goesOn THEN base["full"] ELSE base["full"] + 1)
        /\ C["speculative"] = (IF goesOn THEN base["speculative"] + 1 ELSE base["speculative"])
        /\ C["verification_steps"] = (IF d.verify THEN base["verification_steps"] + 1 ELSE base["verification_steps"])
        /\ C["fresh_calls"] = base["fresh_calls"] /\ C["runs"] = base["runs"]
        /\ C["accepts"] = (IF d.reason = "verification_accept" THEN base["accepts"] + 1 ELSE base["accepts"])
        /\ C["rejects"] = (IF d.reason = "verification_reject" THEN base["rejects"] + 1 ELSE base["rejects"])
    <2> DEFINE is == [full |-> ~Speculative(d), speculative |-> Speculative(d),
                      verification_steps |-> d.verify, fresh_calls |-> FALSE,
                      accepts |-> d.reason = "verification_accept",
                      rejects |-> d.reason = "verification_reject", runs |-> FALSE]
    <2>1. C = [f \in Counted |-> IF is[f] THEN base[f] + 1 ELSE base[f]]
      BY <1>2 DEF CountDecision
    <2>2. \A f \in Counted : base[f] \in Nat /\ base[f] + 1 \in Nat
      BY <1>3
    <2>3. C \in [Counted -> Nat]
      BY <2>1, <2>2
    <2> HIDE DEF base
    <2> QED BY <1>2, <2>1, <2>3 DEF Counted
  <1>5. /\ speca["runs"] + stream.run = speca["speculative"]
        /\ speca["fresh_calls"] + Awaited = 2 * speca["verification_steps"]
        /\ speca["accepts"] + speca["rejects"] + (IF Verifying THEN 1 ELSE 0) <= speca["verification_steps"]
        /\ speca["full"] + speca["speculative"] = Steps * Sampled + step
    <2>1. CASE cfg.enabled
      BY <1>1, <2>1 DEF CountsOK
    <2> QED BY <2>1
  <1>6. Awaited = 0
    <2>1. Verifying => stream.errors["cond"] # None /\ stream.errors["uncond"] # None
      BY ReasonGives DEF Found, Guided
    <2> QED BY <2>1 DEF Awaited
  <1>7. Owed(N) = IF d.verify THEN 2 ELSE 0
    BY <1>2 DEF Owed, NoErrors, Guided
  <1>8. /\ d.reason \in {"verification_accept", "verification_reject"} => Verifying
        /\ d.verify => goesOn
    BY <1>2, ReasonGives
  <1>9. PICK total \in Int : total = Steps * Sampled
    BY RuntimeAssumption DEF Sampled, SpeCaInv, HistoryInv, RuntimeTyped
  <1>10. \A f \in Counted : speca[f] \in Nat
    BY <1>1
  <1>11. /\ speca["runs"] \in Nat /\ speca["speculative"] \in Nat /\ speca["fresh_calls"] \in Nat
         /\ speca["verification_steps"] \in Nat /\ speca["accepts"] \in Nat /\ speca["rejects"] \in Nat
         /\ speca["full"] \in Nat
         /\ base["full"] = speca["full"] /\ base["speculative"] = speca["speculative"]
         /\ base["verification_steps"] = speca["verification_steps"]
         /\ base["fresh_calls"] = speca["fresh_calls"]
         /\ base["accepts"] = speca["accepts"] /\ base["rejects"] = speca["rejects"]
    BY <1>3, <1>10 DEF Counted
  <1> HIDE DEF C, base, goesOn
  <1>12. C["runs"] + N.run = C["speculative"]
    BY <1>1, <1>2, <1>3, <1>4, <1>5, <1>11
  <1>13. C["fresh_calls"] + Owed(N) = 2 * C["verification_steps"]
    BY <1>4, <1>5, <1>6, <1>7, <1>11
  <1>14. C["accepts"] + C["rejects"] + (IF d.verify THEN 1 ELSE 0) <= C["verification_steps"]
    BY <1>4, <1>5, <1>8, <1>11
  <1>15. C["full"] + C["speculative"] = Steps * Sampled + (step + 1)
    BY <1>1, <1>4, <1>5, <1>9, <1>11
  <1> QED BY <1>4, <1>12, <1>13, <1>14, <1>15 DEF CountsAre, C, N

\* What a managed call goes by: the step's decision, found or taken now.
LEMMA NowGives ==
    ASSUME SpeCaInv, Sampling, cfg.enabled, context.step = step
    PROVE  /\ StreamIs(Now) /\ ErrorsAre(Now) /\ EntriesAre(Now) /\ EarnedTo(step, Now.run)
           /\ CountsAre(Now, CountsNow)
  <1>1. CASE ~Asked
    <2>1. ~DecidedNow
      BY <1>1, BeforeDecision DEF DecidedNow, SpeCaInv, HistoryInv, RuntimeTyped, StepIdx
    <2> QED BY <1>1, <2>1, DecideStream, DecideCounts DEF Now, CountsNow
  <1>2. CASE Asked
    <2>1. /\ DecidedInStep /\ DecisionOK /\ StreamTyped /\ ErrorsInStep /\ EntriesInStep /\ ReadyInStep
          /\ CountsOK /\ RunEarned /\ at # "reset"
      BY DEF SpeCaInv, Sampling
    <2>2. stream.decision # None /\ stream.decision.step = step
      BY <1>2, <2>1 DEF DecidedInStep
    <2>3. Now = stream /\ CountsNow = speca
      BY <2>2 DEF DecidedNow, Now, CountsNow
    <2>4. StreamIs(stream)
      BY <2>1, <2>2 DEF StreamIs, StreamTyped, DecisionOK
    <2>5. ErrorsAre(stream)
      <3>1. ~(stream.decision.step < step)
        BY <2>2 DEF SpeCaInv, HistoryInv, RuntimeTyped, StepIdx
      <3> QED BY <2>1, <2>2, <3>1 DEF ErrorsAre, ErrorsInStep
    <2>6. EntriesAre(stream)
      BY <2>1, <2>2 DEF EntriesAre, EntriesInStep, ReadyInStep
    <2>7. EarnedTo(step, stream.run)
      BY <2>1, <2>2 DEF EarnedTo, RunEarned
    <2>8. CountsAre(stream, speca)
      <3>1. Awaited = Owed(stream) /\ (Verifying <=> stream.decision.verify)
        BY <2>2 DEF Awaited, Owed, Verifying
      <3>2. speca \in [Counted -> Nat]
        BY <2>1 DEF StreamTyped
      <3> QED BY <1>2, <2>1, <3>1, <3>2 DEF CountsAre, CountsOK
    <2> QED BY <2>3, <2>4, <2>5, <2>6, <2>7, <2>8
  <1> QED BY <1>1, <1>2

\* A managed call that leaves its step's decision as it is, with what it found.
LEMMA SpeCaCallKeeps ==
    ASSUME SpeCaInv, NEW m \in Modules, Call(m), cfg.enabled, m \in cfg.cache_modules, cfg' = cfg,
           HistoryInv', ForecastsCommitted', EntriesInStep', ReadyInStep',
           NEW N, StreamIs(N), ErrorsAre(N), EarnedTo(step, N.run),
           NEW errors \in [Guided -> Errors \cup {None}],
           stream' = [decision |-> N.decision, run |-> N.run, errors |-> errors],
           N.decision.verify => \A b \in Guided : errors[b] # None <=> Done(cfg.verifier, b)',
           ~N.decision.verify => errors = NoErrors,
           measured' \in [StepIdx -> [Guided -> Errors \cup {None}]],
           measured'[step] = errors, \A s \in StepIdx : s # step => measured'[s] = measured[s],
           CountsAre([decision |-> N.decision, run |-> N.run, errors |-> errors], speca')
    PROVE  SpeCaInv'
  <1> DEFINE S == [decision |-> N.decision, run |-> N.run, errors |-> errors]
  <1>1. /\ Sampling /\ Sampling' /\ UNCHANGED <<batch, size, step>> /\ context.branch \in Guided
        /\ step \in StepIdx /\ step \in Nat
        /\ \A n \in Modules, b \in Guided : Done(n, b)' <=> Done(n, b) \/ (n = m /\ b = context.branch)
    BY CallAt DEF SpeCaInv, StepIdx
  <1>2. Asked'
    BY <1>1 DEF Asked
  <1>3. /\ stream'.decision = N.decision /\ stream'.run = N.run /\ stream'.errors = errors /\ stream' = S
        /\ N.decision \in Decision /\ N.decision # None /\ N.decision.step = step
        /\ N.run \in 0 .. cfg.max_forecast_steps /\ N.run \in Nat /\ N.run <= step + 1
    BY DecisionAssumption, SpeCaConfig DEF StreamIs, SpeCaInv
  <1>4. StreamTyped'
    <2>1. speca' \in [Counted -> Nat]
      BY DEF CountsAre
    <2> QED BY <1>3, <2>1 DEF StreamTyped
  <1>5. DecisionOK'
    BY <1>3 DEF DecisionOK, StreamIs
  <1>6. DecidedInStep'
    BY <1>1, <1>2, <1>3 DEF DecidedInStep
  <1>7. ErrorsInStep'
    <2>1. ~(stream'.decision.step < step')
      BY <1>1, <1>3
    <2>2. ASSUME NEW s \in StepIdx, stream'.decision.step < s PROVE measured'[s] = NoErrors
      <3>1. step < s /\ s # step
        BY <1>1, <1>3, <2>2 DEF StepIdx
      <3> QED BY <3>1 DEF ErrorsAre
    <2>3. stream'.decision.verify => \A b \in Guided : stream'.errors[b] # None <=> Done(cfg.verifier, b)'
      BY <1>3
    <2> QED BY <1>3, <2>1, <2>2, <2>3 DEF ErrorsInStep
  <1>8. RunEarned'
    <2> SUFFICES ASSUME N.run > 0, NEW r \in step - N.run + 1 .. step - 1
                 PROVE  IF r < step - N.run + 1 + cfg.min_forecast_steps THEN measured'[r] = NoErrors
                        ELSE /\ Found(measured'[r]) = Guided
                             /\ Aggregate(measured'[r]) <= cfg.threshold[r + 1]
      BY <1>3 DEF RunEarned, Aggregate
    <2>1. r \in StepIdx /\ r # step
      BY <1>1, <1>3, RuntimeAssumption DEF StepIdx
    <2>2. measured'[r] = measured[r]
      BY <2>1
    <2> QED BY <2>2 DEF EarnedTo
  <1>9. CountsOK'
    <2>1. Awaited' = Owed(S) /\ (Verifying' <=> N.decision.verify)
      BY <1>3 DEF Awaited, Owed, Verifying
    <2>2. Sampled' = Sampled
      BY <1>1 DEF Sampled
    <2>3. /\ speca'["runs"] + N.run = speca'["speculative"]
          /\ speca'["fresh_calls"] + Owed(S) = 2 * speca'["verification_steps"]
          /\ speca'["accepts"] + speca'["rejects"] + (IF N.decision.verify THEN 1 ELSE 0)
               <= speca'["verification_steps"]
          /\ speca'["full"] + speca'["speculative"] = Steps * Sampled + (step + 1)
      BY DEF CountsAre
    <2> HIDE DEF S
    <2> QED BY <1>1, <1>2, <1>3, <2>1, <2>2, <2>3 DEF CountsOK
  <1>10. cfg' \in Configs
    BY DEF SpeCaInv
  <1>11. at' # "reset"
    BY <1>1 DEF Sampling
  <1> QED BY <1>1, <1>4, <1>5, <1>6, <1>7, <1>8, <1>9, <1>10, <1>11 DEF SpeCaInv

\* A full step: the module runs and its entry becomes one of this step.
LEMMA FullKeeps ==
    ASSUME SpeCaInv, NEW m \in Modules, ForwardFull(m)
    PROVE  SpeCaInv'
  <1>1. /\ Call(m) /\ Managed(m) /\ ~Speculative(Now.decision) /\ Refresh(m)
        /\ stream' = Now /\ speca' = CountsNow /\ cfg' = cfg /\ measured' = measured
    BY DEF ForwardFull
  <1>2. cfg.enabled /\ m \in cfg.cache_modules
    BY <1>1 DEF Managed
  <1>3. PICK key \in Keys : key = KeyOf(m)
    BY <1>1, CallAt DEF SpeCaInv
  <1>4. /\ Sampling /\ UNCHANGED <<batch, size, step>> /\ context.branch \in Guided /\ context.step = step
        /\ step \in StepIdx /\ step \in Nat /\ size \in BatchSizes
        /\ key = KeyAt(m, context.branch) /\ ~Done(m, context.branch)
        /\ \A n \in Modules, b \in Guided : Done(n, b)' <=> Done(n, b) \/ (n = m /\ b = context.branch)
    BY <1>1, <1>3, CallAt DEF SpeCaInv, StepIdx
  <1>5. PICK N : N = Now
    OBVIOUS
  <1>6. StreamIs(N) /\ ErrorsAre(N) /\ EntriesAre(N) /\ EarnedTo(step, N.run) /\ CountsAre(N, speca')
    BY <1>1, <1>2, <1>4, <1>5, NowGives
  <1>7. N.run = 0 /\ ~N.decision.verify /\ stream' = N
    BY <1>1, <1>5, <1>6, SpeCaConfig DEF StreamIs, SpeCaInv
  <1>8. HistoryInv'
    BY <1>1, <1>2, ManagedKeeps DEF SpeCaInv
  <1>9. ForecastsCommitted'
    <2>1. \A fields : fields \subseteq Fields /\ fields \cap {"decided", "committed", "failures"} = {} =>
             \A f \in {"decided", "committed", "failures"} : Count(seer, fields)[f] = seer[f]
      BY DEF Count, Fields
    <2>2. \/ seer' = Count(seer, {"managed"})
          \/ seer' = Count(seer, {"managed"} \cup {"appends"})
      BY <1>1 DEF Refresh, Recompute
    <2>3. \A f \in {"decided", "committed", "failures"} : seer'[f] = seer[f]
      BY <2>1, <2>2 DEF Fields
    <2>4. pending' = pending
      BY <1>1 DEF Refresh
    <2> QED BY <2>3, <2>4 DEF ForecastsCommitted, SpeCaInv
  <1>10. EntriesInStep'
    <2> SUFFICES ASSUME NEW n \in cfg.cache_modules \ NonTensorModules, NEW b \in Guided,
                        N.decision.step < step \/ Done(n, b)'
                 PROVE  entries'[KeyAt(n, b)] # None /\ entries'[KeyAt(n, b)].step = N.decision.step
      <3>2. N.decision.step - N.run = N.decision.step /\ ~(N.run > 0)
        BY <1>4, <1>6, <1>7 DEF StreamIs
      <3>3. \A x, y : KeyAt(x, y)' = KeyAt(x, y)
        BY <1>4 DEF KeyAt
      <3> QED BY <1>1, <1>4, <1>7, <3>2, <3>3 DEF EntriesInStep
    <2>1. N.decision.step = step /\ Done(n, b)' /\ n \in Modules
      BY <1>4, <1>6 DEF StreamIs, SpeCaInv, HistoryInv, HistoryConfig
    <2>2. PICK item : item = [step |-> step, batch |-> batch]
      OBVIOUS
    <2>3. /\ NewEntry # None /\ NewEntry.step = step
          /\ \A k \in Keys : k # key => entries'[k] = entries[k]
          /\ m \notin NonTensorModules => entries'[key] = NewEntry
      BY <1>1, <1>2, <1>3, <2>2, RecomputeGives DEF Refresh, SpeCaInv
    <2>4. CASE n = m /\ b = context.branch
      BY <1>4, <2>1, <2>3, <2>4
    <2>5. CASE ~(n = m /\ b = context.branch)
      <3>1. Done(n, b) /\ KeyAt(n, b) \in Keys /\ KeyAt(n, b) # key
        BY <1>4, <2>1, <2>5, KeysAt
      <3>2. entries[KeyAt(n, b)] # None /\ entries[KeyAt(n, b)].step = step - N.run
        BY <1>6, <3>1 DEF EntriesAre
      <3> QED BY <1>4, <1>7, <2>1, <2>3, <3>1, <3>2
    <2> QED BY <2>4, <2>5
  <1>11. ReadyInStep'
    BY <1>7 DEF ReadyInStep
  <1>12. PICK errors \in [Guided -> Errors \cup {None}] :
           errors = N.errors /\ N = [decision |-> N.decision, run |-> N.run, errors |-> errors]
    BY <1>6 DEF StreamIs
  <1>13. measured' \in [StepIdx -> [Guided -> Errors \cup {None}]]
    BY <1>1 DEF SpeCaInv, StreamTyped
  <1>14. measured'[step] = errors /\ errors = NoErrors
    BY <1>1, <1>6, <1>7, <1>12 DEF ErrorsAre, StreamIs
  <1> QED BY <1>1, <1>2, <1>6, <1>7, <1>8, <1>9, <1>10, <1>11, <1>12, <1>13, <1>14, SpeCaCallKeeps

\* A step that is forecast: every selected module has an entry and a history.
LEMMA SpeculativeServes ==
    ASSUME SpeCaInv, NEW m \in Modules, Call(m), Managed(m), Speculative(Now.decision), Forecast(m),
           cfg' = cfg
    PROVE  /\ Serve(m) /\ EntryMatches(EntryOf(m)) /\ Ready(HistoryOf(m)) /\ m \notin NonTensorModules
           /\ HistoryInv' /\ ForecastsCommitted' /\ UNCHANGED <<entries, history>>
           /\ Now.run > 0
  <1>1. cfg.enabled /\ m \in cfg.cache_modules
    BY DEF Managed
  <1>2. /\ Sampling /\ context.branch \in Guided /\ context.step = step
        /\ KeyOf(m) = KeyAt(m, context.branch)
    BY CallAt DEF SpeCaInv
  <1>3. PICK N : N = Now
    OBVIOUS
  <1>4. N.run > 0 /\ AllReady
    BY <1>1, <1>2, <1>3, NowGives DEF StreamIs, EntriesAre
  <1>5. /\ EntryMatches(EntryOf(m)) /\ Ready(HistoryOf(m)) /\ m \notin NonTensorModules
    BY <1>1, <1>2, <1>4, ReadyMeansEntries DEF EntryOf, HistoryOf
  <1>6. /\ Serve(m) /\ seer' = Count(seer, {"managed", "decided", "committed"})
        /\ UNCHANGED <<history, pending>>
    BY <1>5 DEF Forecast
  <1>7. ForecastsCommitted'
    <2>1. /\ seer'["failures"] = seer["failures"]
          /\ seer'["decided"] = seer["decided"] + 1 /\ seer'["committed"] = seer["committed"] + 1
      BY <1>6 DEF Count, Fields
    <2> QED BY <1>6, <2>1 DEF ForecastsCommitted, SpeCaInv
  <1>8. HistoryInv'
    BY <1>1, ManagedKeeps DEF SpeCaInv
  <1> QED BY <1>3, <1>4, <1>5, <1>6, <1>7, <1>8 DEF Serve

\* The entries and histories a forecast step goes by outlast its calls.
LEMMA SpeculativeEntries ==
    ASSUME SpeCaInv, NEW m \in Modules, Call(m), cfg' = cfg, UNCHANGED <<entries, history>>,
           NEW N, StreamIs(N), EntriesAre(N), N.run > 0,
           stream'.decision = N.decision, stream'.run = N.run
    PROVE  EntriesInStep' /\ ReadyInStep'
  <1>1. UNCHANGED <<size, step>> /\ step \in StepIdx
    BY CallAt DEF SpeCaInv
  <1>2. \A x, y : KeyAt(x, y)' = KeyAt(x, y)
    BY <1>1 DEF KeyAt
  <1>3. AllReady'
    BY <1>1 DEF EntriesAre, AllReady, Ready
  <1>4. EntriesInStep'
    BY <1>1, <1>2 DEF EntriesInStep, EntriesAre, StreamIs
  <1> QED BY <1>3, <1>4 DEF ReadyInStep

\* A forecast that is not compared: another module's, or of a step too early.
LEMMA SpeculativeKeeps ==
    ASSUME SpeCaInv, NEW m \in Modules, ForwardSpeculative(m)
    PROVE  SpeCaInv'
  <1>1. /\ Call(m) /\ Managed(m) /\ Speculative(Now.decision) /\ ~Verifies(m) /\ Forecast(m)
        /\ stream' = Now /\ speca' = CountsNow /\ cfg' = cfg /\ measured' = measured
    BY DEF ForwardSpeculative
  <1>2. cfg.enabled /\ m \in cfg.cache_modules /\ cfg.verifier \in Modules
    BY <1>1, SpeCaConfig DEF Managed, SpeCaInv, HistoryConfig
  <1>3. /\ Sampling /\ UNCHANGED step /\ context.branch \in Guided /\ context.step = step
        /\ ~Done(m, context.branch)
        /\ \A n \in Modules, b \in Guided : Done(n, b)' <=> Done(n, b) \/ (n = m /\ b = context.branch)
    BY <1>1, CallAt DEF SpeCaInv
  <1>4. PICK N : N = Now
    OBVIOUS
  <1>5. StreamIs(N) /\ ErrorsAre(N) /\ EntriesAre(N) /\ EarnedTo(step, N.run) /\ CountsAre(N, speca')
    BY <1>1, <1>2, <1>3, <1>4, NowGives
  <1>6. /\ EntryMatches(EntryOf(m)) /\ Ready(HistoryOf(m)) /\ N.run > 0 /\ stream' = N
        /\ HistoryInv' /\ ForecastsCommitted' /\ UNCHANGED <<entries, history>>
    BY <1>1, <1>4, SpeculativeServes
  <1>7. EntriesInStep' /\ ReadyInStep'
    BY <1>1, <1>5, <1>6, SpeculativeEntries
  <1>8. N.decision.verify => m # cfg.verifier
    BY <1>1, <1>3, <1>4, <1>5, <1>6 DEF Verifies, ErrorsAre
  <1>9. PICK errors \in [Guided -> Errors \cup {None}] :
          errors = N.errors /\ N = [decision |-> N.decision, run |-> N.run, errors |-> errors]
    BY <1>5 DEF StreamIs
  <1>10. N.decision.verify => \A b \in Guided : errors[b] # None <=> Done(cfg.verifier, b)'
    <2>1. PICK v \in Modules : v = cfg.verifier /\ v = cfg'.verifier
      BY <1>1, <1>2
    <2>2. \A b \in Guided : (Done(cfg.verifier, b)' <=> Done(v, b)') /\ (Done(cfg.verifier, b) <=> Done(v, b))
      BY <2>1 DEF Done, PassOf
    <2>3. N.decision.verify => \A b \in Guided : Done(v, b)' <=> Done(v, b)
      BY <1>3, <1>8, <2>1
    <2> QED BY <1>5, <1>9, <2>2, <2>3 DEF ErrorsAre
  <1>11. ~N.decision.verify => errors = NoErrors
    BY <1>5, <1>9 DEF StreamIs
  <1>12. measured' \in [StepIdx -> [Guided -> Errors \cup {None}]] /\ measured'[step] = errors
    BY <1>1, <1>5, <1>9 DEF SpeCaInv, StreamTyped, ErrorsAre
  <1> QED BY <1>1, <1>2, <1>5, <1>6, <1>7, <1>9, <1>10, <1>11, <1>12, SpeCaCallKeeps

\* A forecast that is compared with what the verifier computes.
LEMMA VerifiedKeeps ==
    ASSUME SpeCaInv, NEW m \in Modules, ForwardVerified(m)
    PROVE  SpeCaInv'
  <1>1. PICK error \in Errors :
          /\ Call(m) /\ Managed(m) /\ Speculative(Now.decision) /\ Verifies(m) /\ Forecast(m) /\ cfg' = cfg
          /\ stream' = [Now EXCEPT !.errors[context.branch] = error]
          /\ measured' = [measured EXCEPT ![context.step][context.branch] = error]
          /\ speca' = [CountsNow EXCEPT !["fresh_calls"] = @ + 1]
    BY DEF ForwardVerified
  <1>2. cfg.enabled /\ m \in cfg.cache_modules
    BY <1>1 DEF Managed
  <1>3. /\ Sampling /\ UNCHANGED step /\ context.branch \in Guided /\ context.step = step /\ step \in StepIdx
        /\ ~Done(m, context.branch)
        /\ \A n \in Modules, b \in Guided : Done(n, b)' <=> Done(n, b) \/ (n = m /\ b = context.branch)
    BY <1>1, CallAt DEF SpeCaInv
  <1>4. PICK N, C : N = Now /\ C = CountsNow
    OBVIOUS
  <1>5. StreamIs(N) /\ ErrorsAre(N) /\ EntriesAre(N) /\ EarnedTo(step, N.run) /\ CountsAre(N, C)
    BY <1>2, <1>3, <1>4, NowGives
  <1>6. N.run > 0 /\ HistoryInv' /\ ForecastsCommitted' /\ UNCHANGED <<entries, history>>
    BY <1>1, <1>4, SpeculativeServes
  <1>7. N.decision.verify /\ m = cfg.verifier /\ N.errors[context.branch] = None
    BY <1>1, <1>4 DEF Verifies
  <1>8. error # None /\ error \in Nat
    BY SpeCaAssumption, RuntimeAssumption
  <1>9. PICK errors \in [Guided -> Errors \cup {None}] : errors = [N.errors EXCEPT ![context.branch] = error]
    BY <1>3, <1>5 DEF StreamIs
  <1>10. stream' = [decision |-> N.decision, run |-> N.run, errors |-> errors]
    BY <1>1, <1>4, <1>5, <1>9 DEF StreamIs
  <1>11. EntriesInStep' /\ ReadyInStep'
    BY <1>1, <1>5, <1>6, <1>10, SpeculativeEntries
  <1>12. \A b \in Guided : errors[b] = IF b = context.branch THEN error ELSE N.errors[b]
    BY <1>3, <1>5, <1>9 DEF StreamIs
  <1>13. \A b \in Guided : errors[b] # None <=> Done(cfg.verifier, b)'
    <2>1. \A b \in Guided : (Done(cfg.verifier, b)' <=> Done(m, b)') /\ (Done(cfg.verifier, b) <=> Done(m, b))
      BY <1>1, <1>7 DEF Done, PassOf
    <2>2. \A b \in Guided : N.errors[b] # None <=> Done(m, b)
      BY <1>5, <1>7, <2>1 DEF ErrorsAre
    <2> QED BY <1>3, <1>8, <1>12, <2>1, <2>2
  <1>14. /\ measured' \in [StepIdx -> [Guided -> Errors \cup {None}]]
         /\ measured'[step] = errors /\ \A s \in StepIdx : s # step => measured'[s] = measured[s]
    <2>1. measured \in [StepIdx -> [Guided -> Errors \cup {None}]] /\ measured[step] = N.errors
      BY <1>5 DEF SpeCaInv, StreamTyped, ErrorsAre
    <2>2. measured' = [measured EXCEPT ![step] = errors]
      BY <1>1, <1>3, <1>9, <2>1
    <2> QED BY <1>3, <2>1, <2>2
  <1>15. CountsAre([decision |-> N.decision, run |-> N.run, errors |-> errors], speca')
    <2> DEFINE S == [decision |-> N.decision, run |-> N.run, errors |-> errors]
    <2>1. /\ C \in [Counted -> Nat] /\ speca' = [C EXCEPT !["fresh_calls"] = @ + 1] /\ "fresh_calls" \in Counted
      BY <1>1, <1>4, <1>5 DEF CountsAre, Counted
    <2>2. /\ speca' \in [Counted -> Nat] /\ speca'["fresh_calls"] = C["fresh_calls"] + 1
          /\ \A f \in Counted \ {"fresh_calls"} : speca'[f] = C[f]
      BY <2>1
    <2>3. Owed(N) \in Nat /\ Owed(S) = Owed(N) - 1
      <3>1. context.branch = "cond" \/ context.branch = "uncond"
        BY <1>3 DEF Guided
      <3>2. /\ Owed(N) = (IF N.errors["cond"] = None THEN 1 ELSE 0) + (IF N.errors["uncond"] = None THEN 1 ELSE 0)
            /\ Owed(S) = (IF errors["cond"] = None THEN 1 ELSE 0) + (IF errors["uncond"] = None THEN 1 ELSE 0)
        BY <1>7 DEF Owed
      <3> QED BY <1>7, <1>8, <1>12, <3>1, <3>2 DEF Guided
    <2>4. \A f \in Counted : C[f] \in Nat
      BY <2>1
    <2>5. /\ C["fresh_calls"] \in Nat /\ C["verification_steps"] \in Nat
          /\ speca'["verification_steps"] = C["verification_steps"] /\ speca'["runs"] = C["runs"]
          /\ speca'["speculative"] = C["speculative"] /\ speca'["accepts"] = C["accepts"]
          /\ speca'["rejects"] = C["rejects"] /\ speca'["full"] = C["full"]
      BY <2>2, <2>4 DEF Counted
    <2>6. speca'["fresh_calls"] + Owed(S) = 2 * speca'["verification_steps"]
      <3>1. C["fresh_calls"] + Owed(N) = 2 * C["verification_steps"]
        BY <1>5 DEF CountsAre
      <3> HIDE DEF S
      <3> QED BY <2>2, <2>3, <2>5, <3>1
    <2>7. S.decision = N.decision /\ S.run = N.run
      OBVIOUS
    <2> HIDE DEF S
    <2>8. CountsAre(S, speca')
      BY <1>5, <2>2, <2>5, <2>6, <2>7 DEF CountsAre
    <2> QED BY <2>8 DEF S
  <1> QED BY <1>1, <1>2, <1>5, <1>6, <1>7, <1>9, <1>10, <1>11, <1>13, <1>14, <1>15, SpeCaCallKeeps

\* A call the policy does not manage leaves its decisions alone.
LEMMA InactiveKeeps ==
    ASSUME SpeCaInv, NEW m \in Modules, ForwardInactive(m)
    PROVE  SpeCaInv'
  <1>1. /\ Call(m) /\ ~Managed(m) /\ Bypass(m) /\ points' = <<>>
        /\ UNCHANGED <<cfg, history, pending, seer, stream, speca, measured>>
    BY DEF ForwardInactive, specaVars
  <1>2. /\ Sampling /\ Sampling' /\ UNCHANGED <<batch, size, step, entries>> /\ context.branch \in Guided
        /\ context.stage = "euler"
        /\ \A n \in Modules, b \in Guided : Done(n, b)' <=> Done(n, b) \/ (n = m /\ b = context.branch)
    BY <1>1, CallAt DEF SpeCaInv, Bypass
  <1>3. cfg.cache_modules \subseteq Modules /\ cfg.verifier \in cfg.cache_modules
    BY SpeCaConfig DEF SpeCaInv, HistoryConfig
  <1>4. HistoryInv'
    BY <1>1, BypassKeeps DEF SpeCaInv
  <1>5. cfg.enabled => m \notin cfg.cache_modules
    BY <1>1, <1>2 DEF Managed
  <1>6. cfg.enabled => \A n \in cfg.cache_modules, b \in Guided : Done(n, b)' <=> Done(n, b)
    BY <1>2, <1>3, <1>5
  <1>7. cfg.enabled => (Asked' <=> Asked)
    BY <1>1, <1>6 DEF Asked
  <1>8. StreamTyped' /\ DecisionOK' /\ ForecastsCommitted' /\ at' # "reset"
    BY <1>1, <1>2 DEF SpeCaInv, StreamTyped, DecisionOK, ForecastsCommitted, Sampling
  <1>9. DecidedInStep'
    BY <1>1, <1>2, <1>7 DEF SpeCaInv, DecidedInStep
  <1>10. ErrorsInStep'
    <2>1. CASE cfg.enabled
      <3>1. \A b \in Guided : Done(cfg.verifier, b)' <=> Done(cfg.verifier, b)
        <4>1. PICK v \in cfg.cache_modules : v = cfg.verifier /\ v = cfg'.verifier
          BY <1>1, <1>3
        <4>2. \A b \in Guided : (Done(cfg.verifier, b)' <=> Done(v, b)') /\ (Done(cfg.verifier, b) <=> Done(v, b))
          BY <4>1 DEF Done, PassOf
        <4> QED BY <1>6, <2>1, <4>1, <4>2
      <3> QED BY <1>1, <1>2, <3>1 DEF SpeCaInv, ErrorsInStep
    <2>2. CASE ~cfg.enabled
      <3>1. stream.decision = None
        BY <1>2, <2>2 DEF SpeCaInv, DecidedInStep
      <3> QED BY <1>1, <1>2, <3>1 DEF SpeCaInv, ErrorsInStep
    <2> QED BY <2>1, <2>2
  <1>11. cfg.enabled => EntriesInStep' /\ ReadyInStep'
    <2>1. \A x, y : KeyAt(x, y)' = KeyAt(x, y)
      BY <1>2 DEF KeyAt
    <2>2. AllReady => AllReady'
      BY <1>1, <1>2 DEF AllReady, Ready
    <2> QED BY <1>1, <1>2, <1>6, <2>1, <2>2 DEF SpeCaInv, EntriesInStep, ReadyInStep
  <1>12. CountsOK'
    <2>1. Awaited' = Awaited /\ (Verifying' <=> Verifying) /\ Sampled' = Sampled
      BY <1>1, <1>2 DEF Awaited, Verifying, Sampled
    <2>2. at # "reset"
      BY <1>2 DEF Sampling
    <2> QED BY <1>1, <1>2, <1>7, <2>1, <2>2 DEF SpeCaInv, CountsOK
  <1>13. RunEarned'
    BY <1>1 DEF SpeCaInv, RunEarned, Aggregate
  <1> QED BY <1>1, <1>2, <1>4, <1>8, <1>9, <1>10, <1>11, <1>12, <1>13 DEF SpeCaInv

\* A run of the sampler starts without decisions.
LEMMA SpeCaStart ==
    ASSUME Init
    PROVE  SpeCaInv
  <1>1. /\ RuntimeInit /\ HistoryInit /\ cfg \in Configs
        /\ stream = NewStream /\ speca = NothingCounted /\ measured = NotMeasured
    BY DEF Init
  <1>2. HistoryInv /\ ~Sampling /\ at = "batch" /\ batch = 1 /\ step = 0
    BY <1>1, SpeCaConfig, HistoryStart, JiTAssumption DEF RuntimeInit, Sampling
  <1>3. stream.decision = None /\ stream.run = 0 /\ stream.errors = NoErrors
    BY <1>1 DEF NewStream
  <1>4. StreamTyped
    <2>1. NoErrors \in [Guided -> Errors \cup {None}]
      BY DEF NoErrors
    <2>2. speca \in [Counted -> Nat]
      BY <1>1 DEF NothingCounted
    <2>3. measured \in [StepIdx -> [Guided -> Errors \cup {None}]]
      BY <1>1, <2>1 DEF NotMeasured
    <2>4. 0 \in 0 .. cfg.max_forecast_steps
      BY <1>1, SpeCaConfig
    <2> QED BY <1>1, <1>3, <2>1, <2>2, <2>3, <2>4 DEF StreamTyped, NewStream
  <1>5. DecisionOK /\ ~Verifying /\ RunEarned
    BY <1>1, <1>3 DEF DecisionOK, Verifying, RunEarned
  <1>6. ForecastsCommitted
    BY <1>1 DEF ForecastsCommitted, HistoryInit, NoCalls, Fields
  <1>7. CountsOK
    <2>1. \A f \in Counted : speca[f] = 0
      BY <1>1 DEF NothingCounted
    <2>2. /\ speca["runs"] = 0 /\ speca["speculative"] = 0 /\ speca["fresh_calls"] = 0
          /\ speca["verification_steps"] = 0 /\ speca["accepts"] = 0 /\ speca["rejects"] = 0
          /\ speca["full"] = 0
      BY <2>1 DEF Counted
    <2>3. Sampled = 0
      <3>1. PICK w \in Nat : w = WarmupBatches
        BY RuntimeAssumption
      <3>2. (IF 1 > w THEN w ELSE 0) = 0
        BY <3>1
      <3>3. Sampled = batch - 1 - (IF batch > w THEN w ELSE 0)
        BY <3>1 DEF Sampled
      <3>4. batch - 1 = 0
        BY <1>2
      <3>5. Sampled = 0 - 0
        BY <1>2, <3>2, <3>3, <3>4
      <3> QED BY <3>5
    <2>4. Steps * Sampled = 0
      BY <2>3, RuntimeAssumption
    <2>5. Awaited = 0
      BY <1>5 DEF Awaited
    <2> QED BY <1>2, <1>3, <1>5, <2>2, <2>4, <2>5 DEF CountsOK
  <1> QED BY <1>1, <1>2, <1>4, <1>5, <1>6, <1>7 DEF SpeCaInv

\* The statistics of a run that a batch leaves unfinished are flushed.
LEMMA FlushedGives ==
    ASSUME NEW C \in [Counted -> Nat], stream.run \in Nat
    PROVE  /\ Flushed(C) \in [Counted -> Nat] /\ Flushed(C)["runs"] = C["runs"] + stream.run
           /\ \A f \in Counted \ {"runs"} : Flushed(C)[f] = C[f]
  <1>1. "runs" \in Counted
    BY DEF Counted
  <1>2. C["runs"] + stream.run \in Nat
    BY <1>1
  <1> QED BY <1>1, <1>2 DEF Flushed

LEMMA SpeCaForgets ==
    ASSUME SpeCaInv, StartBatch \/ LeaveWarmup
    PROVE  SpeCaInv'
  <1>1. /\ BeginBatch \/ EndWarmup
        /\ ForgetBatch /\ points' = <<>> /\ cfg' = cfg /\ stream' = NewStream /\ measured' = NotMeasured
        /\ \/ BeginBatch /\ seer' = seer /\ speca' = Flushed(speca)
           \/ EndWarmup /\ seer' = NoCalls /\ speca' = NothingCounted
    BY DEF StartBatch, LeaveWarmup, ClearBatch, FormalCounts
  <1>2. ~Sampling /\ stream.run \in Nat /\ speca \in [Counted -> Nat] /\ step \in Nat
    <2>1. stream.run \in 0 .. cfg.max_forecast_steps /\ speca \in [Counted -> Nat] /\ cfg.max_forecast_steps \in Nat
      BY SpeCaConfig DEF SpeCaInv, StreamTyped
    <2> QED BY <1>1, <2>1, StepsAt DEF SpeCaInv, HistoryInv, RuntimeTyped, StepIdx
  <1>3. HistoryInv' /\ pending' = {} /\ \A k \in Keys : entries'[k] = None
    <2>1. seer' \in [Fields -> Nat]
      BY <1>1 DEF SpeCaInv, HistoryInv, HistoryTyped, NoCalls
    <2> QED BY <1>1, <2>1, HistoryForgets DEF SpeCaInv
  <1>4. stream'.decision = None /\ stream'.run = 0 /\ stream'.errors = NoErrors
    BY <1>1 DEF NewStream
  <1>5. speca' \in [Counted -> Nat]
    BY <1>1, <1>2, FlushedGives DEF NothingCounted
  <1>6. StreamTyped'
    <2>1. NoErrors \in [Guided -> Errors \cup {None}]
      BY DEF NoErrors
    <2>2. measured' \in [StepIdx -> [Guided -> Errors \cup {None}]]
      BY <1>1, <2>1 DEF NotMeasured
    <2>3. 0 \in 0 .. cfg.max_forecast_steps
      BY SpeCaConfig DEF SpeCaInv
    <2> QED BY <1>1, <1>4, <1>5, <2>1, <2>2, <2>3 DEF StreamTyped, NewStream
  <1>7. DecisionOK' /\ ~Verifying' /\ RunEarned'
    BY <1>1, <1>4 DEF DecisionOK, Verifying, RunEarned
  <1>8. ForecastsCommitted'
    BY <1>1, <1>3 DEF SpeCaInv, ForecastsCommitted, NoCalls, Fields
  <1>9. ASSUME Sampling' PROVE step' = 0 /\ ~Asked'
    <2>1. step' = 0 /\ \A n \in Modules, b \in Guided : ~Done(n, b)'
      BY <1>1, <1>9, StepsAt DEF SpeCaInv
    <2>2. cfg'.cache_modules \subseteq Modules
      BY <1>3 DEF HistoryInv, HistoryConfig
    <2> QED BY <2>1, <2>2 DEF Asked
  <1>10. Sampling' => DecidedInStep' /\ ErrorsInStep' /\ EntriesInStep' /\ ReadyInStep'
    <2>1. ErrorsInStep'
      BY <1>1, <1>4 DEF ErrorsInStep, NotMeasured
    <2> QED BY <1>4, <1>9, <2>1 DEF DecidedInStep, EntriesInStep, ReadyInStep
  <1>11. CountsOK'
    <2>1. Awaited' = 0
      BY <1>7 DEF Awaited
    <2>2. Sampling' => step' + (IF Asked' THEN 1 ELSE 0) = 0
      BY <1>9
    <2>3. CASE BeginBatch /\ speca' = Flushed(speca)
      <3>1. /\ speca'["runs"] = speca["runs"] + stream.run
            /\ speca'["speculative"] = speca["speculative"] /\ speca'["fresh_calls"] = speca["fresh_calls"]
            /\ speca'["verification_steps"] = speca["verification_steps"]
            /\ speca'["accepts"] = speca["accepts"] /\ speca'["rejects"] = speca["rejects"]
            /\ speca'["full"] = speca["full"]
        BY <1>2, <2>3, FlushedGives DEF Counted
      <3>2. \A f \in Counted : speca[f] \in Nat
        BY <1>2
      <3>3. /\ speca["runs"] \in Nat /\ speca["verification_steps"] \in Nat /\ speca["fresh_calls"] \in Nat
            /\ speca["accepts"] \in Nat /\ speca["rejects"] \in Nat
        BY <3>2 DEF Counted
      <3>4. Awaited = 0
        <4>1. Verifying => stream.errors["cond"] # None /\ stream.errors["uncond"] # None
          BY <1>2 DEF SpeCaInv, Found, Guided
        <4> QED BY <4>1 DEF Awaited
      <3>5. Sampled' = Sampled /\ at # "reset"
        BY <2>3, StepsAt DEF Sampled, SpeCaInv, BeginBatch
      <3>6. /\ speca["runs"] + stream.run = speca["speculative"]
            /\ speca["fresh_calls"] + Awaited = 2 * speca["verification_steps"]
            /\ speca["accepts"] + speca["rejects"] + (IF Verifying THEN 1 ELSE 0) <= speca["verification_steps"]
            /\ cfg.enabled => speca["full"] + speca["speculative"] = Steps * Sampled + 0
        BY <1>2, <3>5 DEF SpeCaInv, CountsOK
      <3>7. PICK total \in Int : total = Steps * Sampled
        BY RuntimeAssumption DEF Sampled, SpeCaInv, HistoryInv, RuntimeTyped
      <3>8. speca'["accepts"] + speca'["rejects"] + 0 <= speca'["verification_steps"]
        BY <3>1, <3>3, <3>6
      <3>9. speca'["runs"] + stream'.run = speca'["speculative"]
        BY <1>2, <1>4, <3>1, <3>3, <3>6
      <3>10. speca'["fresh_calls"] + Awaited' = 2 * speca'["verification_steps"]
        BY <2>1, <3>1, <3>3, <3>4, <3>6
      <3>11. cfg'.enabled => speca'["full"] + speca'["speculative"]
                = Steps * Sampled' + (IF Sampling' THEN step' + (IF Asked' THEN 1 ELSE 0) ELSE 0)
        BY <1>1, <2>2, <3>1, <3>5, <3>6
      <3> QED BY <1>7, <3>8, <3>9, <3>10, <3>11 DEF CountsOK
    <2>4. CASE EndWarmup /\ speca' = NothingCounted
      <3>1. \A f \in Counted : speca'[f] = 0
        BY <2>4 DEF NothingCounted
      <3>2. /\ speca'["runs"] = 0 /\ speca'["speculative"] = 0 /\ speca'["fresh_calls"] = 0
            /\ speca'["verification_steps"] = 0 /\ speca'["accepts"] = 0 /\ speca'["rejects"] = 0
            /\ speca'["full"] = 0
        BY <3>1 DEF Counted
      <3>3. Sampled' = 0
        BY <2>4, RuntimeAssumption DEF SpeCaInv, EndWarmup, Sampled
      <3>4. Steps * Sampled' = 0
        BY <3>3, RuntimeAssumption
      <3> QED BY <1>4, <1>7, <2>1, <2>2, <3>2, <3>4 DEF CountsOK
    <2> QED BY <1>1, <2>3, <2>4
  <1>12. at' # "reset" /\ cfg' \in Configs
    BY <1>1 DEF SpeCaInv, BeginBatch, EndWarmup
  <1> QED BY <1>3, <1>6, <1>7, <1>8, <1>10, <1>11, <1>12 DEF SpeCaInv

\* The next evaluation of a step is one of the same step.
LEMMA SpeCaContext ==
    ASSUME SpeCaInv, SetContext, UNCHANGED <<cfg, historyVars, specaVars>>
    PROVE  SpeCaInv'
  <1>1. /\ UNCHANGED <<batch, size, step, entries, history, pending, seer, cfg, stream, speca, measured>>
        /\ Sampling /\ Sampling'
        /\ \A n \in Modules, b \in Guided : Done(n, b)' <=> Done(n, b)
    BY StepsAt DEF SpeCaInv, historyVars, specaVars, cacheVars
  <1>2. HistoryInv' /\ HistoryConfig /\ cfg.verifier \in cfg.cache_modules
    BY HistoryStays, SpeCaConfig DEF SpeCaInv
  <1>3. \A n \in cfg.cache_modules, b \in Guided : Done(n, b)' <=> Done(n, b)
    BY <1>1, <1>2 DEF HistoryConfig
  <1>4. Asked' <=> Asked
    BY <1>1, <1>3 DEF Asked
  <1>5. StreamTyped' /\ DecisionOK' /\ ForecastsCommitted' /\ RunEarned' /\ DecidedInStep' /\ at' # "reset"
    BY <1>1, <1>4 DEF SpeCaInv, StreamTyped, DecisionOK, ForecastsCommitted, RunEarned, Aggregate,
                      DecidedInStep, Sampling
  <1>6. ErrorsInStep'
    <2>1. \A b \in Guided : Done(cfg.verifier, b)' <=> Done(cfg.verifier, b)
      <3>1. PICK v \in cfg.cache_modules : v = cfg.verifier /\ v = cfg'.verifier
        BY <1>1, <1>2
      <3>2. \A b \in Guided : (Done(cfg.verifier, b)' <=> Done(v, b)') /\ (Done(cfg.verifier, b) <=> Done(v, b))
        BY <3>1 DEF Done, PassOf
      <3> QED BY <1>3, <3>1, <3>2
    <2> QED BY <1>1, <2>1 DEF SpeCaInv, ErrorsInStep
  <1>7. cfg.enabled => EntriesInStep' /\ ReadyInStep'
    <2>1. \A x, y : KeyAt(x, y)' = KeyAt(x, y)
      BY <1>1 DEF KeyAt
    <2>2. AllReady => AllReady'
      BY <1>1 DEF AllReady, Ready
    <2> QED BY <1>1, <1>3, <2>1, <2>2 DEF SpeCaInv, EntriesInStep, ReadyInStep
  <1>8. CountsOK'
    <2>1. Awaited' = Awaited /\ (Verifying' <=> Verifying) /\ Sampled' = Sampled /\ at # "reset"
      BY <1>1 DEF Awaited, Verifying, Sampled, Sampling
    <2> QED BY <1>1, <1>4, <2>1 DEF SpeCaInv, CountsOK
  <1> QED BY <1>1, <1>2, <1>5, <1>6, <1>7, <1>8 DEF SpeCaInv

\* A step is over when every module was called: it is decided and verified.
LEMMA StepDecided ==
    ASSUME SpeCaInv, EndStep
    PROVE  /\ \A m \in cfg.cache_modules, b \in Guided : Done(m, b)
           /\ cfg.enabled => /\ Asked /\ stream.decision # None /\ stream.decision.step = step
                             /\ Verifying => Found(stream.errors) = Guided
           /\ ~cfg.enabled => stream.decision = None
  <1>1. /\ Sampling /\ \A m \in cfg.cache_modules, b \in Guided : Done(m, b)
    BY StepsAt DEF SpeCaInv, HistoryInv, HistoryConfig
  <1>2. cfg.verifier \in cfg.cache_modules /\ Guided # {}
    BY SpeCaConfig DEF SpeCaInv, Guided
  <1>3. Asked
    BY <1>1, <1>2 DEF Asked
  <1>4. cfg.enabled => stream.decision # None /\ stream.decision.step = step
    BY <1>1, <1>3 DEF SpeCaInv, DecidedInStep
  <1>5. ~cfg.enabled => stream.decision = None
    BY <1>1 DEF SpeCaInv, DecidedInStep
  <1>6. Verifying => Found(stream.errors) = Guided
    BY <1>1, <1>2 DEF SpeCaInv, ErrorsInStep, Verifying, Found
  <1> QED BY <1>1, <1>3, <1>4, <1>5, <1>6

LEMMA SpeCaEndsStep ==
    ASSUME SpeCaInv, EndStep, UNCHANGED <<cfg, historyVars, specaVars>>
    PROVE  SpeCaInv'
  <1>1. /\ UNCHANGED <<size, entries, history, pending, seer, cfg, stream, speca, measured>> /\ Sampling
        /\ step \in StepIdx /\ step \in Nat /\ batch \in Nat /\ at # "reset"
        /\ \/ Sampling' /\ step < Steps - 1 /\ step' = step + 1 /\ batch' = batch
           \/ ~Sampling' /\ step = Steps - 1 /\ batch' = batch + 1
    BY StepsAt DEF SpeCaInv, HistoryInv, RuntimeTyped, StepIdx, historyVars, specaVars, cacheVars, Sampling
  <1>2. HistoryInv' /\ HistoryConfig /\ cfg.verifier \in cfg.cache_modules
    BY HistoryStays, SpeCaConfig DEF SpeCaInv
  <1>3. /\ \A m \in cfg.cache_modules, b \in Guided : Done(m, b)
        /\ cfg.enabled => /\ Asked /\ stream.decision # None /\ stream.decision.step = step
                          /\ Verifying => Found(stream.errors) = Guided
        /\ ~cfg.enabled => stream.decision = None
    BY StepDecided
  <1>4. Sampling' => ~Asked'
    <2>1. Sampling' => \A n \in Modules, b \in Guided : ~Done(n, b)'
      BY <1>1, StepsAt DEF SpeCaInv
    <2> QED BY <1>1, <1>2, <2>1 DEF Asked, HistoryConfig
  <1>5. StreamTyped' /\ DecisionOK' /\ ForecastsCommitted' /\ RunEarned'
    BY <1>1 DEF SpeCaInv, StreamTyped, DecisionOK, ForecastsCommitted, RunEarned, Aggregate
  <1>6. ASSUME Sampling' PROVE DecidedInStep' /\ ErrorsInStep' /\ (cfg.enabled => EntriesInStep' /\ ReadyInStep')
    <2>1. step' = step + 1 /\ step' > 0 /\ step' # step /\ step < step' /\ step = step' - 1
      BY <1>1, <1>6
    <2>2. DecidedInStep'
      BY <1>1, <1>3, <1>4, <1>6, <2>1 DEF DecidedInStep
    <2>3. ErrorsInStep'
      <3>1. stream.decision # None /\ stream.decision.verify => \A b \in Guided : stream.errors[b] # None
        BY <1>3 DEF Verifying, Found
      <3>2. stream.decision # None => stream.decision.step < step'
        BY <1>3, <2>1
      <3> QED BY <1>1, <3>1, <3>2 DEF SpeCaInv, ErrorsInStep
    <2>4. cfg.enabled => EntriesInStep'
      <3>1. \A x, y : KeyAt(x, y)' = KeyAt(x, y)
        BY <1>1 DEF KeyAt
      <3> QED BY <1>1, <1>3, <3>1 DEF SpeCaInv, EntriesInStep
    <2>5. cfg.enabled => ReadyInStep'
      BY <1>1, <1>3, <2>1 DEF ReadyInStep
    <2> QED BY <2>2, <2>3, <2>4, <2>5
  <1>7. ~Sampling' /\ Verifying' => Found(stream'.errors) = Guided
    BY <1>1, <1>3 DEF Verifying
  <1>8. at' = "reset" => batch' = WarmupBatches + 1
    BY <1>1 DEF EndStep
  <1>9. CountsOK'
    <2>1. Awaited' = Awaited /\ (Verifying' <=> Verifying)
      BY <1>1 DEF Awaited, Verifying
    <2>2. ASSUME cfg.enabled, at' # "reset"
          PROVE  speca["full"] + speca["speculative"] = Steps * Sampled' + (IF Sampling' THEN step' + 0 ELSE 0)
      <3>1. speca["full"] + speca["speculative"] = Steps * Sampled + (step + 1)
        BY <1>1, <1>3, <2>2 DEF SpeCaInv, CountsOK
      <3>2. CASE Sampling'
        <4>1. Sampled' = Sampled /\ step' + 0 = step + 1
          BY <1>1, <3>2 DEF Sampled
        <4> QED BY <3>1, <3>2, <4>1
      <3>3. CASE ~Sampling'
        <4>1. PICK w \in Nat, b \in Nat, n \in Nat : w = WarmupBatches /\ b = batch /\ n = Steps
          BY <1>1, RuntimeAssumption
        <4>2. b # w /\ batch' = b + 1 /\ step + 1 = n
          BY <1>1, <2>2, <3>3, <4>1 DEF EndStep
        <4>3. PICK t \in Int : t = Sampled /\ t = b - 1 - (IF b > w THEN w ELSE 0)
          <5>1. Sampled = b - 1 - (IF b > w THEN w ELSE 0)
            BY <4>1 DEF Sampled
          <5>2. b - 1 - (IF b > w THEN w ELSE 0) \in Int
            BY <4>1
          <5> QED BY <5>1, <5>2
        <4>4. Sampled' = t + 1
          <5>1. Sampled' = b + 1 - 1 - (IF b + 1 > w THEN w ELSE 0)
            BY <4>1, <4>2 DEF Sampled
          <5> QED BY <4>1, <4>2, <4>3, <5>1
        <4>5. n * (t + 1) = n * t + n
          BY <4>1, <4>3
        <4> QED BY <3>1, <3>3, <4>1, <4>2, <4>3, <4>4, <4>5
      <3> QED BY <3>2, <3>3
    <2> QED BY <1>1, <1>4, <2>1, <2>2 DEF SpeCaInv, CountsOK
  <1> QED BY <1>1, <1>2, <1>5, <1>6, <1>7, <1>8, <1>9 DEF SpeCaInv

LEMMA SpeCaStill ==
    ASSUME UNCHANGED vars
    PROVE  SpeCaInv => SpeCaInv'
  <1>1. /\ UNCHANGED <<sampler, at, batch, size, step, pass, module, context, session, entries, stats, served>>
        /\ UNCHANGED <<cfg, history, pending, seer, points, stream, speca, measured>>
        /\ UNCHANGED <<driverVars, cacheVars, cfg, historyVars>>
    BY DEF vars, driverVars, cacheVars, historyVars, specaVars
  <1>2. (HistoryInv => HistoryInv') /\ (Sampling' <=> Sampling)
    BY <1>1, HistoryStill DEF Sampling
  <1>3. /\ StreamTyped => StreamTyped'
        /\ DecisionOK => DecisionOK'
        /\ ForecastsCommitted => ForecastsCommitted'
        /\ RunEarned => RunEarned'
    BY <1>1 DEF StreamTyped, DecisionOK, ForecastsCommitted, RunEarned, Aggregate
  <1>4. /\ \A m, b : Done(m, b)' <=> Done(m, b)
        /\ \A b : Done(cfg.verifier, b)' <=> Done(cfg.verifier, b)
        /\ Asked' <=> Asked
        /\ \A x, y : KeyAt(x, y)' = KeyAt(x, y)
        /\ AllReady' <=> AllReady
        /\ Awaited' = Awaited /\ (Verifying' <=> Verifying) /\ Sampled' = Sampled
    BY <1>1 DEF Done, PassOf, Asked, KeyAt, AllReady, Ready, Awaited, Verifying, Sampled
  <1>5. /\ DecidedInStep => DecidedInStep'
        /\ ErrorsInStep => ErrorsInStep'
        /\ EntriesInStep => EntriesInStep'
        /\ ReadyInStep => ReadyInStep'
        /\ CountsOK => CountsOK'
    BY <1>1, <1>2, <1>4 DEF DecidedInStep, ErrorsInStep, EntriesInStep, ReadyInStep, CountsOK
  <1>6. Verifying' => (Found(stream.errors) = Guided => Found(stream'.errors) = Guided)
    BY <1>1
  <1> QED BY <1>1, <1>2, <1>3, <1>4, <1>5, <1>6 DEF SpeCaInv

\* Of SpeCa's decisions, and of every step its policy takes part in.
LEMMA SpeCaNext ==
    ASSUME SpeCaInv, Next
    PROVE  SpeCaInv'
  <1>1. CASE StartBatch \/ LeaveWarmup
    BY <1>1, SpeCaForgets
  <1>2. CASE (SetContext \/ EndStep) /\ UNCHANGED <<cfg, historyVars, specaVars>>
    BY <1>2, SpeCaContext, SpeCaEndsStep
  <1>3. ASSUME NEW m \in Modules,
               ForwardInactive(m) \/ ForwardFull(m) \/ ForwardSpeculative(m) \/ ForwardVerified(m)
        PROVE  SpeCaInv'
    BY <1>3, InactiveKeeps, FullKeeps, SpeculativeKeeps, VerifiedKeeps
  <1>4. CASE UNCHANGED vars
    BY <1>4, SpeCaStill
  <1> QED BY <1>1, <1>2, <1>3, <1>4 DEF Next, Terminated

-----------------------------------------------------------------------------
(* A worker *)

\* The variables of the policy it did not build stay as they are.
LEMMA WorkerStep ==
    ASSUME WorkerInv, [PolicyNext]_allVars
    PROVE  /\ policy' = policy /\ WorkerInv'
           /\ \/ SpeCaRuns /\ SpeCaInv /\ [Next]_vars
              \/ SeerRuns /\ SeerInv /\ (TaylorSeer!Next \/ UNCHANGED <<driverVars, cacheVars, cfg, historyVars>>)
  <1>1. CASE SpeCaRuns /\ SpeCaInv
    <2>1. [Next]_vars /\ policy' = policy
      BY <1>1 DEF PolicyNext, allVars, SpeCaRuns, SeerRuns
    <2>2. SpeCaInv'
      BY <1>1, <2>1, SpeCaNext, SpeCaStill
    <2> QED BY <1>1, <2>1, <2>2 DEF WorkerInv, SpeCaRuns
  <1>2. CASE SeerRuns /\ SeerInv
    <2>1. /\ TaylorSeer!Next \/ UNCHANGED <<driverVars, cacheVars, cfg, historyVars>>
          /\ policy' = policy
      BY <1>2 DEF PolicyNext, allVars, vars, SpeCaRuns, SeerRuns
    <2>2. SeerInv'
      BY <1>2, <2>1, SeerNext, SeerStill
    <2> QED BY <1>2, <2>1, <2>2 DEF WorkerInv, SeerRuns
  <1> QED BY <1>1, <1>2 DEF WorkerInv

\* Whatever policy the worker built, its invariant holds in every reachable state.
THEOREM WorkerInvariance == PolicySpec => []WorkerInv
  <1>1. PolicyInit => WorkerInv
    BY SpeCaStart, SeerStart DEF PolicyInit, WorkerInv
  <1>2. WorkerInv /\ [PolicyNext]_allVars => WorkerInv'
    BY WorkerStep
  <1> QED BY <1>1, <1>2, PTL DEF PolicySpec

\* During an evaluation the keys are those of its branch.
LEMMA ContextAt ==
    ASSUME HistoryInv, at = "module"
    PROVE  /\ Sampling /\ module \in Modules /\ step \in StepIdx
           /\ context.step = step /\ context.stage = "euler" /\ context.branch \in Guided
           /\ \A m : KeyOf(m) = KeyAt(m, context.branch)
  <1>1. /\ RuntimeTyped /\ sampler = "jit" /\ pass \in 1..2 /\ context = EvalContext
    <2>1. pass \in 1..3 /\ Len(Evals) = 2 /\ RuntimeTyped
      BY JitEvals DEF HistoryInv, RuntimeTyped
    <2>2. pass <= Len(Evals) /\ context = EvalContext /\ sampler = "jit"
      BY DEF HistoryInv, Control
    <2> QED BY <2>1, <2>2
  <1>2. context.step = step /\ context.branch = Evals[pass].branch /\ context.stage = Evals[pass].stage
    BY <1>1 DEF EvalContext
  <1>3. context.stage = "euler" /\ context.branch \in Guided
    BY <1>1, <1>2, JitEvals DEF Eval, Guided
  <1> QED BY <1>1, <1>2, <1>3 DEF RuntimeTyped, Sampling, KeyOf, KeyAt

\* After both evaluations every call is behind.
LEMMA EvaluatedAt ==
    ASSUME HistoryInv, Evaluated
    PROVE  Sampling /\ \A m, b : Done(m, b)
  <1>1. pass > 2 /\ at = "pass"
    BY JitEvals DEF HistoryInv, Evaluated
  <1>2. \A b : PassOf(b) < pass
    BY <1>1 DEF PassOf, HistoryInv, RuntimeTyped
  <1> QED BY <1>1, <1>2 DEF Done, Sampling

\* The sets and invariants TaylorSeer takes from the same modules.
LEMMA SameTypes ==
    /\ TaylorSeer!Control <=> Control
    /\ TaylorSeer!HistoryMeetsEntry <=> HistoryMeetsEntry
    /\ TaylorSeer!SamplerNames = SamplerNames /\ TaylorSeer!StepIdx = StepIdx
    /\ TaylorSeer!Context = Context /\ TaylorSeer!Stats = Stats
    /\ TaylorSeer!Keys = Keys /\ TaylorSeer!Entry = Entry
    /\ TaylorSeer!Item = Item /\ TaylorSeer!Fields = Fields
  <1>1. /\ TaylorSeer!StepIdx = StepIdx /\ TaylorSeer!Keys = Keys /\ TaylorSeer!Evals = Evals
        /\ TaylorSeer!EvalContext = EvalContext /\ TaylorSeer!BatchIdx = BatchIdx
        /\ TaylorSeer!Ticks = Ticks /\ TaylorSeer!Branches = Branches /\ TaylorSeer!Stages = Stages
        /\ \A st, s : TaylorSeer!Runs(st, s) <=> Runs(st, s)
    BY DEF TaylorSeer!Keys, Keys, TaylorSeer!Modules, Modules, TaylorSeer!Branches, Branches,
           TaylorSeer!Stages, Stages, TaylorSeer!StepIdx, StepIdx, TaylorSeer!Ticks, Ticks,
           TaylorSeer!Evals, Evals, TaylorSeer!Eval, Eval, TaylorSeer!EvalContext, EvalContext,
           TaylorSeer!TimeOf, TimeOf, TaylorSeer!BatchIdx, BatchIdx, TaylorSeer!Runs, Runs
  <1>2. TaylorSeer!Control <=> Control
    BY <1>1 DEF TaylorSeer!Control, Control, TaylorSeer!Sampling, Sampling
  <1>3. TaylorSeer!HistoryMeetsEntry <=> HistoryMeetsEntry
    BY <1>1 DEF TaylorSeer!HistoryMeetsEntry, HistoryMeetsEntry
  <1>4. /\ TaylorSeer!Context = Context /\ TaylorSeer!Stats = Stats /\ TaylorSeer!Entry = Entry
        /\ TaylorSeer!Item = Item /\ TaylorSeer!Fields = Fields /\ TaylorSeer!SamplerNames = SamplerNames
    BY <1>1 DEF TaylorSeer!Context, Context, TaylorSeer!Stats, Stats, TaylorSeer!Entry, Entry,
                TaylorSeer!Item, Item, TaylorSeer!Fields, Fields, TaylorSeer!SamplerNames, SamplerNames
  <1> QED BY <1>1, <1>2, <1>3, <1>4

\* A step that was decided computes its modules in both branches or in neither.
LEMMA StepsConsistent ==
    ASSUME SpeCaInv
    PROVE  StepConsistent
  <1> SUFFICES ASSUME Evaluated, cfg.enabled, NEW m \in cfg.cache_modules \ NonTensorModules, NEW b \in Guided
               PROVE  /\ entries[KeyAt(m, b)] # None
                      /\ entries[KeyAt(m, b)].step = step <=> ~Speculative(stream.decision)
    BY DEF StepConsistent, KeyAt
  <1>1. Sampling /\ \A n, c : Done(n, c)
    BY EvaluatedAt DEF SpeCaInv
  <1>2. DecidedInStep /\ EntriesInStep /\ DecisionOK /\ StreamTyped /\ step \in StepIdx
    BY <1>1 DEF SpeCaInv, HistoryInv, RuntimeTyped
  <1>3. Asked
    BY <1>1 DEF Asked, Guided
  <1>4. stream.decision # None /\ stream.decision.step = step
    BY <1>2, <1>3 DEF DecidedInStep
  <1>5. /\ entries[KeyAt(m, b)] # None /\ entries[KeyAt(m, b)].step = step - stream.run
    BY <1>1, <1>2, <1>4 DEF EntriesInStep
  <1>6. stream.run \in Nat /\ (Speculative(stream.decision) <=> stream.run > 0)
    BY <1>2, <1>4, SpeCaConfig DEF StreamTyped, DecisionOK, SpeCaInv
  <1> QED BY <1>2, <1>5, <1>6 DEF StepIdx

\* The histories tell what the cache's entries tell, and no step is partly
\* forecast and partly full.
THEOREM HistoriesFollow == PolicySpec => []HistoriesInStep
  <1>1. SpeCaRuns /\ SpeCaInv => HistoriesInStep
    <2> SUFFICES ASSUME SpeCaRuns, SpeCaInv PROVE IInv
      BY DEF HistoriesInStep
    <2>1. RuntimeTyped /\ HistoryTyped /\ StreamTyped /\ cfg \in Configs /\ Control /\ HistoryMeetsEntry
      BY DEF SpeCaInv, HistoryInv
    <2>2. TypeOK
      BY <2>1 DEF TypeOK, HistoryTypeOK, HistoryTyped, RuntimeTyped, StreamTyped
    <2> QED BY <2>1, <2>2, StepsConsistent DEF IInv
  <1>2. SeerRuns /\ SeerInv => HistoriesInStep
    <2> SUFFICES ASSUME SeerRuns, SeerInv PROVE TaylorSeer!IInv
      BY DEF HistoriesInStep, SpeCaRuns, SeerRuns
    <2>1. RuntimeTyped /\ HistoryTyped /\ cfg \in SeerConfigs /\ Control /\ HistoryMeetsEntry
      BY DEF SeerInv, HistoryInv
    <2>2. TaylorSeer!TypeOK
      BY <2>1, SameTypes DEF TaylorSeer!TypeOK, TaylorSeer!HistoryTypeOK, HistoryTyped, RuntimeTyped
    <2> QED BY <2>1, <2>2, SameTypes DEF TaylorSeer!IInv
  <1>3. WorkerInv => HistoriesInStep
    BY <1>1, <1>2 DEF WorkerInv
  <1> QED BY <1>3, WorkerInvariance, PTL

\* Every forecast goes through outputs of its own batch, at distinct earlier
\* steps in ascending order: no Lagrange weight divides by zero.
THEOREM PointsAreSound == PolicySpec => []PointsSound
  <1>1. WorkerInv => PointsSound
    BY DEF WorkerInv, SpeCaInv, SeerInv, HistoryInv
  <1> QED BY <1>1, WorkerInvariance, PTL

\* TaylorSeer's forecast steps are a function of its schedule alone.
THEOREM ForecastStepsFixed == PolicySpec => []SameStepsForecast
  <1>1. WorkerInv => SameStepsForecast
    BY DEF WorkerInv, SeerInv, SameStepsForecast, SpeCaRuns, SeerRuns
  <1> QED BY <1>1, WorkerInvariance, PTL

\* A run of SpeCa's forecasts has earned every step it went on.
THEOREM RunsAreEarned == PolicySpec => []ForecastsEarned
  <1>1. WorkerInv => ForecastsEarned
    BY DEF WorkerInv, SpeCaInv, ForecastsEarned, SpeCaRuns, SeerRuns
  <1> QED BY <1>1, WorkerInvariance, PTL

\* SpeCa's reported runs add up to its forecast steps at all times, its steps to
\* those of the formal batches between them.
THEOREM StepsAreAccounted == PolicySpec => []StepsAccounted
  <1>1. SpeCaInv => RunsAccounted
    <2>1. SpeCaInv /\ at = "batch" => ~Sampling
      BY DEF Sampling
    <2>2. Steps \in Nat /\ (SpeCaInv => Sampled \in Int)
      BY RuntimeAssumption DEF Sampled, SpeCaInv, HistoryInv, RuntimeTyped
    <2> QED BY <2>1, <2>2 DEF SpeCaInv, CountsOK, RunsAccounted
  <1>2. WorkerInv => StepsAccounted
    BY <1>1 DEF WorkerInv, StepsAccounted, SpeCaRuns, SeerRuns
  <1> QED BY <1>2, WorkerInvariance, PTL

\* At a managed call the decision can be carried out: it is not of a later step,
\* and the entry a forecast needs is there.
LEMMA NothingRaises ==
    ASSUME SpeCaInv, at = "module", Managed(module)
    PROVE  ~Raises(module)
  <1>1. /\ Sampling /\ step \in StepIdx /\ context.step = step /\ context.branch \in Guided
        /\ KeyOf(module) = KeyAt(module, context.branch)
        /\ cfg.enabled /\ module \in cfg.cache_modules
    BY ContextAt DEF SpeCaInv, Managed
  <1>2. stream.decision # None => ~(context.step < stream.decision.step)
    BY <1>1 DEF SpeCaInv, DecidedInStep, StepIdx
  <1>3. ASSUME Speculative(Now.decision) PROVE EntryOf(module) # None
    <2>1. AllReady
      BY <1>1, <1>3, NowGives DEF StreamIs, EntriesAre
    <2> QED BY <1>1, <2>1, ReadyMeansEntries DEF EntryOf
  <1> QED BY <1>2, <1>3 DEF Raises

\* Once both evaluations of a step are over the verifier owes nothing.
LEMMA VerificationsSettled ==
    ASSUME SpeCaInv
    PROVE  EveryVerificationCounts
  <1>1. /\ StreamTyped /\ CountsOK /\ (stream.decision # None => DecisionOK)
        /\ (stream.decision # None => stream.decision.reason # "missing_verification_error")
    BY DEF SpeCaInv, DecisionOK
  <1>2. ASSUME Evaluated \/ at = "batch" PROVE Verifying => Found(stream.errors) = Guided
    <2>1. CASE at = "batch"
      BY <2>1 DEF SpeCaInv, Sampling
    <2>2. CASE Evaluated
      <3>1. Sampling /\ \A b : Done(cfg.verifier, b)
        BY <2>2, EvaluatedAt DEF SpeCaInv
      <3> QED BY <3>1 DEF SpeCaInv, ErrorsInStep, Verifying, Found
    <2> QED BY <1>2, <2>1, <2>2
  <1>3. ASSUME Evaluated \/ at = "batch" PROVE Awaited = 0
    BY <1>2, <1>3 DEF Awaited, Found, Guided
  <1>4. /\ speca["fresh_calls"] \in Nat /\ speca["verification_steps"] \in Nat
        /\ speca["accepts"] \in Nat /\ speca["rejects"] \in Nat
    BY <1>1 DEF StreamTyped, Counted
  <1> QED BY <1>1, <1>3, <1>4 DEF EveryVerificationCounts, CountsOK

\* SpeCa's decisions are carried out, and taken on the errors of the step before.
THEOREM DecisionsAreSettled == PolicySpec => []DecisionsSettled
  <1>1. SpeCaInv => DecisionsCarriedOut
    BY NothingRaises DEF SpeCaInv, DecisionsCarriedOut
  <1>2. WorkerInv => DecisionsSettled
    BY <1>1, VerificationsSettled DEF WorkerInv, DecisionsSettled, SpeCaRuns, SeerRuns
  <1> QED BY <1>2, WorkerInvariance, PTL

-----------------------------------------------------------------------------
(* The refinement of BoundedReuse *)

Limit == IF SpeCaRuns THEN cfg.max_forecast_steps + 1 ELSE cfg.interval

\* Less than d below a step there is a multiple of d.
LEMMA MultipleBelow ==
    ASSUME NEW d \in Nat \ {0}, NEW s \in Nat
    PROVE  \E r \in 0 .. d - 1 : s - r \in Nat /\ (s - r) % d = 0
  <1>1. /\ s \div d \in Nat /\ s % d \in 0 .. d - 1
        /\ s = d * (s \div d) + (s % d)
    OBVIOUS
  <1>2. \A q \in Nat : d * q \in Nat /\ (d * q) % d = 0
    OBVIOUS
  <1>3. s - (s % d) = d * (s \div d)
    BY <1>1, <1>2
  <1> QED BY <1>1, <1>2, <1>3

\* What TaylorSeer forecasts from was refreshed within its interval.
LEMMA SeerAge ==
    ASSUME SeerInv, Sampling, ForecastStep(step), NEW k \in Keys, entries[k] # None,
           ~Done(k[1], k[2])
    PROVE  /\ entries[k].batch = batch /\ entries[k].step < step
           /\ step - entries[k].step < cfg.interval
  <1>1. EntryOK(k) /\ AgeOK(k) /\ step \in StepIdx /\ cfg.interval \in Nat \ {0}
    BY DEF SeerInv, HistoryInv, RuntimeTyped, TaylorSeer!ConfigOK
  <1>2. PICK from \in StepIdx : from = entries[k].step
    BY DEF SeerInv, HistoryInv, RuntimeTyped, Entry
  <1>3. entries[k].batch = batch /\ from < step
    BY <1>1, <1>2 DEF EntryOK, StepIdx
  <1>4. \A s \in StepIdx : from < s /\ s <= step => s % cfg.interval # 0
    <2>1. Behind(k) = step
      BY DEF Behind
    <2>2. step % cfg.interval # 0
      BY DEF ForecastStep, TaylorSeer!Scheduled, TaylorSeer!OnInterval
    <2>3. \A s \in StepIdx : from < s /\ s < step => s % cfg.interval # 0
      BY <1>1, <1>2, <2>1 DEF AgeOK, TaylorSeer!OnInterval
    <2> QED BY <1>1, <2>2, <2>3 DEF StepIdx
  <1>5. PICK r \in 0 .. cfg.interval - 1 : step - r \in Nat /\ (step - r) % cfg.interval = 0
    BY <1>1, MultipleBelow DEF StepIdx
  <1>6. step - r \in StepIdx /\ step - r <= step
    BY <1>1, <1>5, RuntimeAssumption DEF StepIdx
  <1>7. ~(from < step - r)
    BY <1>4, <1>5, <1>6
  <1> QED BY <1>1, <1>2, <1>3, <1>5, <1>7 DEF StepIdx

\* What SpeCa forecasts from is the last full step of its run.
LEMMA SpeCaAge ==
    ASSUME SpeCaInv, NEW m \in Modules, Call(m), Managed(m), Speculative(Now.decision), Forecast(m),
           cfg' = cfg
    PROVE  /\ Serve(m) /\ EntryOf(m) # None /\ EntryOf(m).batch = batch
           /\ EntryOf(m).step < step /\ step - EntryOf(m).step < cfg.max_forecast_steps + 1
  <1>1. /\ Sampling /\ context.branch \in Guided /\ context.step = step /\ step \in StepIdx
        /\ KeyOf(m) = KeyAt(m, context.branch) /\ KeyOf(m) \in Keys
        /\ cfg.enabled /\ m \in cfg.cache_modules
    BY CallAt DEF SpeCaInv, Managed
  <1>2. Serve(m) /\ m \notin NonTensorModules /\ Now.run > 0
    BY SpeculativeServes
  <1>3. PICK N : N = Now
    OBVIOUS
  <1>4. StreamIs(N) /\ EntriesAre(N) /\ N.run > 0
    BY <1>1, <1>2, <1>3, NowGives
  <1>5. EntryOf(m) # None /\ EntryOf(m).step = step - N.run
    BY <1>1, <1>2, <1>4 DEF EntriesAre, EntryOf
  <1>6. EntryOf(m).batch = batch
    BY <1>1, <1>5 DEF SpeCaInv, HistoryInv, EntryOK, EntryOf
  <1>7. N.run \in 0 .. cfg.max_forecast_steps /\ cfg.max_forecast_steps \in Nat
    BY <1>4, SpeCaConfig DEF StreamIs, SpeCaInv
  <1> QED BY <1>1, <1>2, <1>4, <1>5, <1>6, <1>7 DEF StepIdx

\* Nothing is held and nothing was put out.
LEMMA PromiseStart ==
    ASSUME RuntimeInit, Limit \in Nat \ {0}
    PROVE  Promise!Init
  <1>1. at = "batch" /\ batch \in Nat \ {0} /\ step = 0 /\ Output = None
    BY RuntimeAssumption DEF RuntimeInit, Output, Nothing
  <1>2. Held = Promise!Nowhere
    <2>1. size \in BatchSizes
      BY RuntimeAssumption DEF RuntimeInit
    <2>2. \A s \in Streams : <<s[1], s[2], s[3], size>> \in Keys
      BY <2>1 DEF Streams, Keys
    <2> QED BY <2>2 DEF RuntimeInit, Held, NoEntries, Promise!Nowhere
  <1> QED BY <1>1, <1>2 DEF Promise!Init, Limit

\* The driver's steps are those of the abstract sampler, or stutters.
LEMMA PromiseDrives ==
    ASSUME RuntimeTyped, BeginBatch \/ SetContext \/ EndStep \/ EndWarmup, Limit' = Limit
    PROVE  [Promise!Next]_(Promise!vars)
  <1> USE DEF Promise!vars, Limit
  <1>1. ASSUME UNCHANGED <<entries, size>> PROVE Held' = Held
    BY <1>1 DEF Held, Streams
  <1>2. ASSUME entries' = NoEntries, size' \in BatchSizes PROVE Held' = Promise!Nowhere
    <2>1. \A s \in Streams : <<s[1], s[2], s[3], size'>> \in Keys
      BY <1>2 DEF Streams, Keys
    <2> QED BY <1>2, <2>1 DEF Held, NoEntries, Promise!Nowhere, Streams
  <1>3. ASSUME UNCHANGED served PROVE Output' = Output
    BY <1>3 DEF Output
  <1>4. batch \in Nat /\ size \in BatchSizes /\ step \in StepIdx
    BY RuntimeAssumption DEF RuntimeTyped
  <1>5. CASE BeginBatch
    <2>1. Held' = Promise!Nowhere /\ Output' = None
      BY <1>2, <1>5 DEF BeginBatch, Clear, Output, Nothing
    <2> QED BY <1>4, <1>5, <2>1 DEF BeginBatch, Promise!Next, Promise!NewBatch
  <1>6. CASE SetContext
    BY <1>1, <1>3, <1>6 DEF SetContext, cacheVars
  <1>7. CASE EndStep
    BY <1>1, <1>3, <1>4, <1>7 DEF EndStep, cacheVars, Promise!Next, Promise!Tick
  <1>8. CASE EndWarmup
    <2>1. Held' = Promise!Nowhere /\ Output' = Output
      BY <1>2, <1>3, <1>4, <1>8 DEF EndWarmup, Clear
    <2> QED BY <1>8, <2>1 DEF EndWarmup, Promise!Next, Promise!Drop
  <1> QED BY <1>5, <1>6, <1>7, <1>8

\* A call puts out a fresh output, or one that is held and recent enough.
LEMMA PromiseCalls ==
    ASSUME HistoryInv, NEW m \in Modules, Call(m), Limit' = Limit,
           \/ Bypass(m) \/ Compute(m)
           \/ /\ Serve(m) /\ EntryOf(m) # None /\ EntryOf(m).batch = batch
              /\ EntryOf(m).step < step /\ step - EntryOf(m).step < Limit
    PROVE  Promise!Next
  <1>1. PICK key \in Keys : key = KeyOf(m)
    BY CallAt
  <1>2. PICK s \in Streams : /\ s = <<m, context.branch, context.stage>>
                             /\ s[1] = m /\ s[2] = context.branch /\ s[3] = context.stage
    <2>1. context.branch \in Branches /\ context.stage \in Stages
      BY CallAt DEF Guided, Branches, Stages
    <2>2. <<m, context.branch, context.stage>> \in Streams
      BY <2>1 DEF Streams
    <2> QED BY <2>2
  <1>3. /\ Sampling /\ Sampling' /\ context.step = step
        /\ UNCHANGED <<sampler, batch, size, step, context>>
        /\ step \in StepIdx /\ NewEntry \in Entry
        /\ RuntimeTyped
    BY CallAt DEF HistoryInv
  <1>4. ASSUME NEW how \in {"bypass", "compute"}, served' = Served(m, how, NewEntry)
        PROVE  Output' = Promise!Out(s, step)
    BY <1>2, <1>3, <1>4 DEF Served, Output, NewEntry, Promise!Out, Sampling
  <1>5. ASSUME UNCHANGED entries PROVE Held' = Held
    BY <1>3, <1>5 DEF Held, Streams
  <1>6. (at \in {"pass", "module"}) /\ (at' \in {"pass", "module"})
    BY <1>3 DEF Sampling
  <1> USE DEF Limit
  <1>7. CASE Bypass(m)
    BY <1>3, <1>4, <1>5, <1>6, <1>7 DEF Bypass, Promise!Next, Promise!Fresh
  <1>8. CASE Compute(m)
    <2>1. Held' = Held \/ Held' = [Held EXCEPT ![s] = step]
      <3>1. CASE m \in NonTensorModules
        BY <1>5, <1>8, <3>1 DEF Compute
      <3>2. CASE m \notin NonTensorModules
        <4>1. entries' = [entries EXCEPT ![key] = NewEntry]
          BY <1>1, <1>8, <3>2 DEF Compute
        <4>2. NewEntry # None /\ NewEntry.step = step
          BY <1>3, NoneAssumption DEF NewEntry
        <4>3. ASSUME NEW r \in Streams
              PROVE  Held'[r] = IF r = s THEN step ELSE Held[r]
          <5>1. <<r[1], r[2], r[3], size>> \in Keys
            BY <1>3 DEF Streams, Keys, RuntimeTyped
          <5>2. r = s <=> <<r[1], r[2], r[3], size>> = key
            BY <1>1, <1>2 DEF Streams, KeyOf
          <5> QED BY <1>3, <4>1, <4>2, <5>1, <5>2 DEF Held, RuntimeTyped
        <4> QED BY <4>3 DEF Held
      <3> QED BY <3>1, <3>2
    <2> QED BY <1>3, <1>4, <1>6, <1>8, <2>1 DEF Compute, Promise!Next, Promise!Fresh
  <1>9. CASE /\ Serve(m) /\ EntryOf(m) # None /\ EntryOf(m).batch = batch
             /\ EntryOf(m).step < step /\ step - EntryOf(m).step < Limit
    <2>1. Held[s] = EntryOf(m).step /\ EntryOf(m) = entries[key]
      BY <1>1, <1>2, <1>9 DEF Held, EntryOf, KeyOf
    <2>2. EntryOf(m).step \in StepIdx
      BY <1>3, <1>9, <2>1 DEF RuntimeTyped, Entry
    <2>3. Held[s] # None
      BY <2>1, <2>2, RuntimeAssumption DEF StepIdx
    <2>4. Output' = Promise!Out(s, Held[s])
      BY <1>2, <1>3, <1>6, <1>9, <2>1 DEF Serve, Served, Output, Promise!Out
    <2> QED BY <1>3, <1>5, <1>6, <1>9, <2>1, <2>3, <2>4 DEF Serve, Promise!Next, Promise!Reuse
  <1> QED BY <1>7, <1>8, <1>9

\* SpeCa's steps.
LEMMA SpeCaRefines ==
    ASSUME SpeCaRuns, policy' = policy, SpeCaInv, [Next]_vars
    PROVE  [Promise!Next]_(Promise!vars)
  <1>1. HistoryInv /\ RuntimeTyped
    BY DEF SpeCaInv, HistoryInv
  <1>2. ASSUME cfg' = cfg PROVE Limit' = Limit
    BY <1>2 DEF Limit, SpeCaRuns
  <1>3. CASE StartBatch \/ LeaveWarmup \/ ((SetContext \/ EndStep) /\ UNCHANGED <<cfg, historyVars, specaVars>>)
    <2>1. (BeginBatch \/ SetContext \/ EndStep \/ EndWarmup) /\ cfg' = cfg
      BY <1>3 DEF StartBatch, LeaveWarmup
    <2> QED BY <1>1, <1>2, <2>1, PromiseDrives
  <1>4. ASSUME NEW m \in Modules, ForwardInactive(m) PROVE Promise!Next
    BY <1>1, <1>2, <1>4, PromiseCalls DEF ForwardInactive
  <1>5. ASSUME NEW m \in Modules, ForwardFull(m) PROVE Promise!Next
    BY <1>1, <1>2, <1>5, PromiseCalls DEF ForwardFull, Refresh, Recompute
  <1>6. ASSUME NEW m \in Modules, ForwardSpeculative(m) \/ ForwardVerified(m) PROVE Promise!Next
    <2>1. /\ Call(m) /\ Managed(m) /\ Speculative(Now.decision) /\ Forecast(m) /\ cfg' = cfg
      BY <1>6 DEF ForwardSpeculative, ForwardVerified
    <2>2. /\ Serve(m) /\ EntryOf(m) # None /\ EntryOf(m).batch = batch
          /\ EntryOf(m).step < step /\ step - EntryOf(m).step < Limit
      BY <2>1, SpeCaAge DEF Limit
    <2> QED BY <1>1, <1>2, <2>1, <2>2, PromiseCalls
  <1>7. CASE UNCHANGED vars
    <2>1. UNCHANGED <<at, batch, size, step, entries, served, cfg>>
      BY <1>7 DEF vars, driverVars, cacheVars
    <2> QED BY <2>1, <1>2 DEF Promise!vars, Held, Output, Limit
  <1> QED BY <1>3, <1>4, <1>5, <1>6, <1>7 DEF Next, Terminated

\* TaylorSeer's.
LEMMA SeerRefines ==
    ASSUME SeerRuns, policy' = policy, SeerInv,
           TaylorSeer!Next \/ UNCHANGED <<driverVars, cacheVars, cfg, historyVars>>
    PROVE  [Promise!Next]_(Promise!vars)
  <1> USE SameRuntime
  <1>1. HistoryInv /\ RuntimeTyped
    BY DEF SeerInv, HistoryInv
  <1>2. /\ Limit = cfg.interval
        /\ cfg' = cfg => Limit' = Limit
    BY DEF Limit, SeerRuns, SpeCaRuns
  <1>3. CASE \/ TaylorSeer!StartBatch \/ TaylorSeer!LeaveWarmup
             \/ (SetContext \/ EndStep) /\ UNCHANGED <<cfg, historyVars>>
    <2>1. (BeginBatch \/ SetContext \/ EndStep \/ EndWarmup) /\ cfg' = cfg
      BY <1>3 DEF TaylorSeer!StartBatch, TaylorSeer!LeaveWarmup
    <2> QED BY <1>1, <1>2, <2>1, PromiseDrives
  <1>4. ASSUME NEW m \in Modules, SeerForward(m) PROVE Promise!Next
    <2>1. Call(m) /\ cfg' = cfg
      BY <1>4 DEF SeerForward, TaylorSeer!ForwardInactive, TaylorSeer!ForwardRefresh, TaylorSeer!ForwardForecast
    <2>2. PICK key \in Keys : /\ key = KeyOf(m) /\ ~Done(key[1], key[2]) /\ EntryOf(m) = entries[key]
                              /\ Sampling
      BY <1>1, <2>1, CallAt, KeysAt DEF EntryOf
    <2>3. \/ Bypass(m) \/ Refresh(m)
          \/ ForecastStep(step) /\ Serve(m) /\ entries[key] # None
      BY <1>4, <2>2, SeerCall
    <2>4. \/ Bypass(m) \/ Compute(m)
          \/ /\ Serve(m) /\ EntryOf(m) # None /\ EntryOf(m).batch = batch
             /\ EntryOf(m).step < step /\ step - EntryOf(m).step < Limit
      BY <1>2, <2>2, <2>3, SeerAge DEF Refresh, Recompute
    <2> QED BY <1>1, <1>2, <2>1, <2>4, PromiseCalls
  <1>5. CASE UNCHANGED <<driverVars, cacheVars, cfg, historyVars>>
    <2>1. UNCHANGED <<at, batch, size, step, entries, served, cfg>>
      BY <1>5 DEF driverVars, cacheVars
    <2> QED BY <2>1, <1>2 DEF Promise!vars, Held, Output, Limit
  <1> QED BY <1>3, <1>4, <1>5 DEF TaylorSeer!Next, TaylorSeer!Terminated, SeerForward

\* Whatever policy the worker built, its cache implements BoundedReuse: what a
\* call returns was computed now, or stands for what the same module, branch and
\* stage computed earlier in the same batch, less than TaylorSeer's interval or at
\* most SpeCa's max_forecast_steps ago.
THEOREM PromiseKept == PolicySpec => KeepsPromise
  <1>1. PolicyInit => Promise!Init
    <2>1. ASSUME PolicyInit PROVE RuntimeInit /\ Limit \in Nat \ {0}
      <3>1. CASE SpeCaRuns /\ Init
        BY <3>1, SpeCaConfig DEF Init, Limit
      <3>2. CASE SeerRuns /\ TaylorSeer!Init
        BY <3>2, SameRuntime DEF TaylorSeer!Init, TaylorSeer!ConfigOK, Limit, SeerRuns, SpeCaRuns
      <3> QED BY <2>1, <3>1, <3>2 DEF PolicyInit
    <2> QED BY <2>1, PromiseStart
  <1>2. WorkerInv /\ [PolicyNext]_allVars => [Promise!Next]_(Promise!vars)
    BY WorkerStep, SpeCaRefines, SeerRefines
  <1> QED BY <1>1, <1>2, WorkerInvariance, PTL DEF PolicySpec, KeepsPromise, Promise!Spec

=============================================================================
