------------------------- MODULE ReuseWorker_proofs -------------------------
(***************************************************************************)
(* The policies that reuse outputs unchanged, for every sampler, number of  *)
(* modules, steps and batches, every configuration, table and distances.    *)
(*                                                                          *)
(* First DynamicCache on its own: no output is reused once its proxy has    *)
(* moved past the threshold, as long as exact Heun's two stages do not      *)
(* share a signal.  Then a worker, whichever policy it built: what it       *)
(* reuses is warranted, what the sampler combines is of one age, nothing is *)
(* recomputed in vain, and BoundedReuse is implemented.                     *)
(***************************************************************************)
EXTENDS ReuseWorker, CacheRuntime_proofs

-----------------------------------------------------------------------------
(* Types *)

\* The runtime's part of the type invariant.
LEMMA Typed == TypeOK => RuntimeTyped
  BY DEF TypeOK, RuntimeTyped

\* What the type invariant says of the policy.
PolicyTyped ==
    /\ cfg \in Configs /\ seen \subseteq Signals
    /\ accumulated \in [Signals -> Nat] /\ decision \in [Signals -> Decision \cup {None}]
    /\ counters \in Counters /\ moved \in Nat /\ drift \in [Keys -> Nat]

\* The type invariant is the runtime's and the policy's.
LEMMA TypeParts == TypeOK <=> RuntimeTyped /\ PolicyTyped
  BY DEF TypeOK, RuntimeTyped, PolicyTyped

\* Signals and the parts of keys have their types.
LEMMA SignalTyped ==
    /\ \A b \in Branches, st \in Stages : SignalOf(b, st) \in Signals
    /\ \A k \in Keys : /\ SignalOfKey(k) \in Signals /\ k[1] \in Modules /\ k[2] \in Branches
                       /\ k[3] \in Stages /\ k[4] \in BatchSizes /\ k = <<k[1], k[2], k[3], k[4]>>
  BY DEF SignalOf, SignalOfKey, Signals, Keys

\* update() keeps the policy's types, decides for this step, and empties the sum
\* where it refreshes.
LEMMA UpdateTyped ==
    ASSUME PolicyTyped, NEW g \in Signals, NEW s \in StepIdx, NEW t, NEW d \in Nat, Update(g, s, t, d)
    PROVE  /\ seen' \subseteq Signals /\ accumulated' \in [Signals -> Nat]
           /\ decision' \in [Signals -> Decision \cup {None}] /\ counters' \in Counters
           /\ \A h \in Signals \ {g} : accumulated'[h] = accumulated[h] /\ decision'[h] = decision[h]
           /\ decision'[g] # None /\ decision'[g].step = s
           /\ \/ decision'[g].refresh /\ accumulated'[g] = 0
              \/ /\ ~decision'[g].refresh /\ accumulated'[g] = accumulated[g] + d
                 /\ accumulated[g] + d <= cfg.threshold
  <1> DEFINE forced == Forced(g, s, t)
             refresh == forced \/ Accumulate(g, d) > cfg.threshold
             r == [step |-> s, refresh |-> refresh, forced |-> forced]
  <1>1. forced \in BOOLEAN /\ refresh \in BOOLEAN
    BY DEF Forced
  <1>2. /\ seen' = seen \cup {g}
        /\ accumulated' = [accumulated EXCEPT ![g] = Kept(refresh, Accumulate(g, d))]
        /\ decision' = [decision EXCEPT ![g] = r]
        /\ counters' = [f \in DOMAIN counters |->
                          counters[f] + (IF \/ f = "total"
                                            \/ f = "refresh" /\ refresh
                                            \/ f = "reuse" /\ ~refresh
                                            \/ f = "forced" /\ forced THEN 1 ELSE 0)]
    BY DEF Update
  <1>3. ~refresh => Accumulate(g, d) <= cfg.threshold
    <2>1. cfg.threshold \in Nat
      BY DynamicAssumption DEF PolicyTyped, ConfigOK
    <2>2. Accumulate(g, d) \in Nat
      BY DEF Accumulate, PolicyTyped
    <2> QED BY <2>1, <2>2
  <1>4. counters' \in Counters
    <2> HIDE DEF forced, refresh
    <2> QED BY <1>2 DEF PolicyTyped, Counters
  <1>5. r \in Decision /\ r.step = s /\ r.refresh = refresh
    BY <1>1 DEF Decision
  <1>6. r # None
    BY <1>5, DecisionAssumption
  <1> HIDE DEF forced, refresh, r
  <1> QED
    BY <1>1, <1>2, <1>3, <1>4, <1>5, <1>6 DEF PolicyTyped, Kept, Accumulate

-----------------------------------------------------------------------------
(* The inductive invariant *)

\* An evaluation of this step is under way or over.
Begun(i) == i < pass \/ (i = pass /\ at = "module")

\* The key has been called at this step, or will still be.
CalledNow(k) ==
    \E i \in 1..Len(Evals) : /\ Evals[i] = Eval(k[2], k[3])
                             /\ i < pass \/ (i = pass /\ at = "module" /\ k[1] < module)
Ahead(k) ==
    \E i \in pass..Len(Evals) : /\ Evals[i] = Eval(k[2], k[3])
                                /\ i = pass /\ at = "module" => module <= k[1]

\* The key of a call that the adapter finds active.
Live(k) ==
    /\ k[4] = size
    /\ cfg.enabled /\ k[3] \in cfg.solver_stages /\ k[1] \in cfg.cache_modules
    /\ BranchEnabled(k[2])
    /\ \E i \in 1..Len(Evals) : Evals[i] = Eval(k[2], k[3])

EntryOK(k) ==
    entries[k] # None => /\ Live(k) /\ entries[k].step <= step
                         /\ entries[k].step = step => CalledNow(k)

DecisionOK(g) ==
    decision[g] # None =>
      /\ decision[g].step <= step
      /\ decision[g].step = step =>
           \E i \in 1..Len(Evals) : /\ SignalOf(Evals[i].branch, Evals[i].stage) = g
                                    /\ Runs(Evals[i].stage, step) /\ Begun(i)

ServedOK ==
    served.how = "reuse" =>
      /\ served.module \in Modules /\ served.branch \in Branches /\ served.stage \in Stages
      /\ served.step = step =>
           \E i \in 1..Len(Evals) : Evals[i] = Eval(served.branch, served.stage) /\ Begun(i)
      /\ served.step \in StepIdx /\ served.step <= step

Covered(k) ==
    entries[k] # None /\ AskedAgain(k) /\ ~RefreshOwed(k) =>
      drift[k] <= accumulated[SignalOfKey(k)]

FullInv ==
    /\ TypeOK /\ Control
    /\ \A g \in Signals : accumulated[g] <= cfg.threshold
    /\ Sampling => /\ \A k \in Keys : EntryOK(k)
                   /\ \A g \in Signals : DecisionOK(g)
                   /\ ServedOK
    /\ Sampling /\ Separated => DriftBounded /\ \A k \in Keys : Covered(k)

\* A refresh is owed where one is decided and the call is still to come.
LEMMA OwedIsAhead ==
    \A k : RefreshOwed(k) <=> LET d == decision[SignalOfKey(k)]
                              IN d # None /\ d.refresh /\ d.step = step /\ Ahead(k)
  BY DEF RefreshOwed, Ahead

-----------------------------------------------------------------------------
(* The order of the evaluations *)

\* The evaluations of each sampler, in their order.
LEMMA EvalsAre ==
    ASSUME sampler \in SamplerNames
    PROVE  /\ sampler = "jit" => /\ Len(Evals) = 2 /\ Evals[1] = Eval("cond", "euler")
                                 /\ Evals[2] = Eval("uncond", "euler")
           /\ sampler = "deco" => Len(Evals) = 1 /\ Evals[1] = Eval("cfg_cat", "euler")
           /\ sampler \in {"pixelgen", "pixelgen_exact"} =>
                /\ Len(Evals) = 2 /\ Evals[1] = Eval("cfg_cat", "heun_predictor")
                /\ Evals[2] = Eval("cfg_cat", "heun_corrector")
           /\ sampler \in {"jit", "deco", "pixelgen", "pixelgen_exact"}
  BY DEF Evals, SamplerNames

\* An evaluation is its branch and its stage.
LEMMA EvalParts ==
    /\ \A b, st : Eval(b, st).branch = b /\ Eval(b, st).stage = st
    /\ \A b, st, c, su : Eval(b, st) = Eval(c, su) <=> b = c /\ st = su
  BY DEF Eval

\* With a signal per branch no two evaluations share one.
LEMMA SignalsApart ==
    ASSUME cfg.per_branch
    PROVE  \A b, st, c, su : SignalOf(b, st) = SignalOf(c, su) <=> b = c /\ st = su
  BY DEF SignalOf

\* Otherwise all do.
LEMMA SignalsShared ==
    ASSUME ~cfg.per_branch
    PROVE  \A b, st : SignalOf(b, st) = Shared
  BY DEF SignalOf

\* What only depends on what a batch does not change.
LEMMA Frame ==
    ASSUME UNCHANGED <<sampler, size, cfg>>
    PROVE  /\ Evals' = Evals /\ (Separated' <=> Separated)
           /\ \A b, st : SignalOf(b, st)' = SignalOf(b, st)
           /\ \A k : /\ SignalOfKey(k)' = SignalOfKey(k) /\ (Live(k)' <=> Live(k))
                     /\ AskedAgain(k)' <=> AskedAgain(k)
           /\ \A st, s : Runs(st, s)' <=> Runs(st, s)
  <1>1. Evals' = Evals
    BY EvalsKept
  <1> QED
    BY <1>1 DEF Separated, SignalOf, SignalOfKey, Live, AskedAgain, Runs, BranchEnabled

\* At the start of an evaluation, or instead of it: no decision of this step is
\* owed to the keys of its signal, so none is lost by taking it now.
LEMMA NothingOwed ==
    ASSUME FullInv, Sampling, Separated, at = "pass", pass \in 1..Len(Evals),
           NEW k \in Keys, entries[k] # None, AskedAgain(k),
           SignalOfKey(k) = SignalOf(Evals[pass].branch, Evals[pass].stage),
           \/ Observes(Evals[pass].branch)
           \/ ~Runs(Evals[pass].stage, step) /\ Evals[pass] = Eval(k[2], k[3])
    PROVE  ~RefreshOwed(k)
  <1> DEFINE g == SignalOfKey(k)
  <1>1. /\ RuntimeTyped /\ g \in Signals /\ EntryOK(k) /\ DecisionOK(g)
        /\ sampler \in SamplerNames /\ step \in StepIdx /\ entries[k] \in Entry
    BY Typed, SignalTyped DEF FullInv, RuntimeTyped
  <1>2. SUFFICES ASSUME RefreshOwed(k) PROVE FALSE
    OBVIOUS
  <1>3. PICK i \in 1..Len(Evals) : /\ SignalOf(Evals[i].branch, Evals[i].stage) = g
                                   /\ Runs(Evals[i].stage, step) /\ i < pass
    BY <1>1, <1>2 DEF RefreshOwed, DecisionOK, Begun
  <1>4. i = 1 /\ pass = 2 /\ Len(Evals) = 2 /\ Evals[pass] = Evals[2] /\ Evals[i] = Evals[1]
    BY <1>1, <1>3, EvalsShape
  <1>5. ~cfg.per_branch
    <2>1. SUFFICES ASSUME cfg.per_branch PROVE FALSE
      OBVIOUS
    <2>2. Evals[1].branch = Evals[2].branch /\ Evals[1].stage = Evals[2].stage
      BY <1>3, <1>4, <2>1, SignalsApart
    <2>3. Evals[1] = Evals[2]
      BY <1>1, <1>4, <2>2, EvalsShape
    <2> QED BY <1>1, <1>4, <2>3, EvalsShape
  <1>6. CASE sampler = "jit"
    <2>1. Evals[2] = Eval("uncond", "euler")
      BY <1>1, <1>6, EvalsAre
    <2>2. Evals[pass].branch = "uncond" /\ Evals[pass].stage = "euler"
      BY <1>4, <2>1, EvalParts
    <2> QED BY <1>5, <1>6, <2>2 DEF Observes, Runs
  <1>7. CASE sampler \in {"pixelgen", "pixelgen_exact"}
    <2>1. sampler = "pixelgen"
      BY <1>5, <1>7 DEF Separated
    <2>2. step = 0
      <3>1. Evals[1] = Eval("cfg_cat", "heun_predictor")
        BY <1>1, <2>1, EvalsAre
      <3>2. Evals[i].stage = "heun_predictor"
        BY <1>4, <3>1, EvalParts
      <3> QED BY <1>3, <2>1, <3>2 DEF Runs
    <2>3. Eval(k[2], k[3]) = Evals[2]
      <3>1. PICK j \in 1..Len(Evals) : Evals[j] = Eval(k[2], k[3])
        BY <1>1 DEF EntryOK, Live
      <3>2. j # 1
        <4>1. Evals[1] = Eval("cfg_cat", "heun_predictor")
          BY <1>1, <2>1, EvalsAre
        <4> QED BY <2>1, <3>1, <4>1, EvalParts DEF AskedAgain
      <3> QED BY <1>4, <3>1, <3>2
    <2>4. entries[k].step = step
      BY <1>1, <2>2 DEF EntryOK, Entry, StepIdx
    <2>5. PICK j \in 1..Len(Evals) : Evals[j] = Eval(k[2], k[3]) /\ j < pass
      BY <1>1, <2>4 DEF EntryOK, CalledNow
    <2>6. j = 1
      BY <1>4, <2>5
    <2>7. Evals[1] = Evals[2]
      BY <2>3, <2>5, <2>6
    <2> QED BY <1>1, <1>4, <2>7, EvalsShape
  <1>8. CASE sampler = "deco"
    BY <1>1, <1>4, <1>8, EvalsAre
  <1> QED BY <1>1, <1>6, <1>7, <1>8 DEF SamplerNames

\* A decision taken now comes before the calls of every key of its signal.
LEMMA ObservedInTime ==
    ASSUME FullInv, Sampling, Separated, at = "pass", pass \in 1..Len(Evals),
           NEW k \in Keys, entries[k] # None, AskedAgain(k),
           SignalOfKey(k) = SignalOf(Evals[pass].branch, Evals[pass].stage),
           Observes(Evals[pass].branch)
    PROVE  \E i \in pass..Len(Evals) : Evals[i] = Eval(k[2], k[3])
  <1>1. RuntimeTyped /\ EntryOK(k) /\ sampler \in SamplerNames
    BY Typed DEF FullInv, RuntimeTyped
  <1>2. PICK i \in 1..Len(Evals) : Evals[i] = Eval(k[2], k[3])
    BY <1>1 DEF EntryOK, Live
  <1>3. CASE cfg.per_branch
    <2>1. Evals[pass] = Eval(k[2], k[3])
      BY <1>1, <1>3, SignalsApart, EvalsShape DEF SignalOfKey
    <2> QED BY <2>1
  <1>4. CASE ~cfg.per_branch
    <2>1. CASE sampler = "jit"
      <3>1. Evals[1].branch = "cond" /\ Evals[2].branch = "uncond" /\ Len(Evals) = 2
        BY <1>1, <2>1, EvalsAre, EvalParts
      <3>2. pass # 2
        BY <1>4, <2>1, <3>1 DEF Observes
      <3>3. pass = 1
        BY <3>1, <3>2
      <3> QED BY <1>2, <3>3
    <2>2. CASE sampler = "deco"
      <3>1. Len(Evals) = 1
        BY <1>1, <2>2, EvalsAre
      <3> QED BY <1>2, <3>1
    <2>3. CASE sampler \in {"pixelgen", "pixelgen_exact"}
      <3>1. sampler = "pixelgen"
        BY <1>4, <2>3 DEF Separated
      <3>2. Evals[1] = Eval("cfg_cat", "heun_predictor") /\ Len(Evals) = 2
        BY <1>1, <3>1, EvalsAre
      <3>3. i # 1
        BY <1>2, <3>1, <3>2, EvalParts DEF AskedAgain
      <3>4. i = 2
        BY <1>2, <3>2, <3>3
      <3> QED BY <1>2, <3>2, <3>4
    <2> QED BY <1>1, <2>1, <2>2, <2>3 DEF SamplerNames
  <1> QED BY <1>3, <1>4

-----------------------------------------------------------------------------
(* The driver's steps *)

\* Between batches the invariant asks for types and bounded sums only.
LEMMA AtRest ==
    ASSUME TypeOK', Control', ~Sampling', \A g \in Signals : accumulated'[g] <= cfg'.threshold
    PROVE  FullInv'
  BY DEF FullInv, Sampling

\* The invariant holds where a run starts.
LEMMA Start == Init => FullInv
  <1> SUFFICES ASSUME Init PROVE FullInv
    OBVIOUS
  <1>1. RuntimeTyped /\ Control
    BY RuntimeInitTyped DEF Init
  <1>2. PolicyTyped
    <2>1. counters \in Counters
      BY DEF Init, NoCounts, Counters
    <2>2. decision \in [Signals -> Decision \cup {None}]
      BY DEF Init
    <2> QED BY <2>1, <2>2 DEF Init, PolicyTyped
  <1>3. cfg.threshold \in Nat
    BY <1>2, DynamicAssumption DEF PolicyTyped, ConfigOK
  <1>4. \A g \in Signals : accumulated[g] <= cfg.threshold
    BY <1>3 DEF Init
  <1>5. ~Sampling
    BY DEF Init, RuntimeInit, Sampling
  <1> QED BY <1>1, <1>2, <1>4, <1>5, TypeParts DEF FullInv

\* clear() leaves a typed policy with nothing decided or added up.
LEMMA ClearTyped ==
    ASSUME PolicyTyped, ClearBatch, cfg' = cfg, counters' \in Counters,
           moved' \in Nat, drift' \in [Keys -> Nat]
    PROVE  /\ PolicyTyped' /\ \A g \in Signals : accumulated'[g] <= cfg'.threshold
           /\ \A g \in Signals : decision'[g] = None
  <1>1. /\ seen' = {} /\ accumulated' = [g \in Signals |-> 0]
        /\ decision' = [g \in Signals |-> None]
    BY DEF ClearBatch
  <1>2. cfg.threshold \in Nat
    BY DynamicAssumption DEF PolicyTyped, ConfigOK
  <1>3. /\ seen' \subseteq Signals /\ accumulated' \in [Signals -> Nat]
        /\ decision' \in [Signals -> Decision \cup {None}]
        /\ \A g \in Signals : accumulated'[g] = 0 /\ decision'[g] = None
    BY <1>1
  <1> QED BY <1>2, <1>3 DEF PolicyTyped

\* A new batch forgets entries and decisions together.
LEMMA StartBatchKeeps == FullInv /\ StartBatch => FullInv'
  <1> SUFFICES ASSUME FullInv, StartBatch PROVE FullInv'
    OBVIOUS
  <1>1. RuntimeTyped /\ PolicyTyped /\ Control
    BY TypeParts DEF FullInv
  <1>2. RuntimeTyped' /\ Control'
    BY <1>1, DriverKeeps DEF StartBatch
  <1>3. /\ PolicyTyped' /\ \A g \in Signals : accumulated'[g] <= cfg'.threshold
        /\ \A g \in Signals : decision'[g] = None
    BY <1>1, ClearTyped DEF StartBatch, PolicyTyped
  <1>4. (\A k \in Keys : entries'[k] = None) /\ served' = Nothing
    BY DEF StartBatch, BeginBatch, Clear, NoEntries
  <1>5. TypeOK'
    BY <1>2, <1>3 DEF TypeOK, RuntimeTyped, PolicyTyped
  <1>6. served'.how # "reuse"
    BY <1>4 DEF Nothing
  <1>7. (\A k \in Keys : EntryOK(k)' /\ Covered(k)')
    BY <1>4 DEF EntryOK, Covered
  <1>8. \A g \in Signals : DecisionOK(g)'
    BY <1>3 DEF DecisionOK
  <1>9. ServedOK' /\ DriftBounded'
    BY <1>6 DEF ServedOK, DriftBounded, ReusedNow
  <1> QED BY <1>2, <1>3, <1>5, <1>7, <1>8, <1>9 DEF FullInv

\* The reset after the warm-up batches.
LEMMA LeaveWarmupKeeps == FullInv /\ LeaveWarmup => FullInv'
  <1> SUFFICES ASSUME FullInv, LeaveWarmup PROVE FullInv'
    OBVIOUS
  <1>1. RuntimeTyped /\ PolicyTyped /\ Control
    BY TypeParts DEF FullInv
  <1>2. RuntimeTyped' /\ Control'
    BY <1>1, DriverKeeps DEF LeaveWarmup
  <1>3. NoCounts \in Counters
    BY DEF NoCounts, Counters
  <1>4. PolicyTyped' /\ \A g \in Signals : accumulated'[g] <= cfg'.threshold
    BY <1>1, <1>3, ClearTyped DEF LeaveWarmup, Reset, PolicyTyped
  <1>5. ~Sampling'
    BY DEF LeaveWarmup, EndWarmup, Sampling
  <1>6. TypeOK'
    BY <1>2, <1>4 DEF TypeOK, RuntimeTyped, PolicyTyped
  <1> QED BY <1>2, <1>4, <1>5, <1>6, AtRest

\* What a step of the driver leaves alone.
LEMMA DriverFrame ==
    ASSUME FullInv, SkipEval \/ EndStep, UNCHANGED <<policyVars, moved, drift>>
    PROVE  /\ TypeOK' /\ Control'
           /\ \A g \in Signals : accumulated'[g] <= cfg'.threshold
           /\ UNCHANGED <<sampler, size, cfg, entries, served, context, accumulated, decision, drift>>
  <1>1. RuntimeTyped /\ PolicyTyped /\ Control
    BY TypeParts DEF FullInv
  <1>2. RuntimeTyped' /\ Control'
    BY <1>1, DriverKeeps
  <1>3. UNCHANGED <<sampler, size, cfg, entries, served, context, accumulated, decision, drift>>
    BY DEF SkipEval, EndStep, policyVars, cacheVars
  <1>4. TypeOK'
    BY <1>1, <1>2 DEF TypeOK, RuntimeTyped, PolicyTyped, policyVars
  <1> QED BY <1>2, <1>3, <1>4 DEF FullInv

\* At the end of a step no refresh is owed any more.
LEMMA EndStepKeeps == FullInv /\ EndStep /\ UNCHANGED <<policyVars, moved, drift>> => FullInv'
  <1> SUFFICES ASSUME FullInv, EndStep, UNCHANGED <<policyVars, moved, drift>> PROVE FullInv'
    OBVIOUS
  <1>1. /\ TypeOK' /\ Control' /\ \A g \in Signals : accumulated'[g] <= cfg'.threshold
        /\ UNCHANGED <<sampler, size, cfg, entries, served, context, accumulated, decision, drift>>
    BY DriverFrame
  <1>2. RuntimeTyped /\ PolicyTyped /\ Sampling /\ pass > Len(Evals) /\ step \in StepIdx
    BY TypeParts DEF FullInv, EndStep, Sampling, RuntimeTyped
  <1>3. CASE step < Steps - 1
    <2>1. step' = step + 1 /\ Sampling'
      BY <1>3 DEF EndStep, Sampling
    <2>2. ASSUME NEW k \in Keys PROVE EntryOK(k)'
      <3>1. EntryOK(k) /\ (entries[k] # None => entries[k] \in Entry)
        BY <1>2 DEF FullInv, RuntimeTyped
      <3>2. entries'[k] # None => /\ entries'[k].step \in StepIdx /\ entries'[k].step <= step
                                  /\ Live(k)'
        BY <1>1, <3>1, Frame DEF EntryOK, Entry
      <3> QED BY <1>2, <2>1, <3>2 DEF EntryOK, StepIdx
    <2>3. ASSUME NEW g \in Signals PROVE DecisionOK(g)'
      <3>1. DecisionOK(g) /\ (decision[g] # None => decision[g] \in Decision)
        BY <1>2 DEF FullInv, PolicyTyped
      <3>2. decision'[g] # None => decision'[g].step \in StepIdx /\ decision'[g].step <= step
        BY <1>1, <3>1 DEF DecisionOK, Decision
      <3> QED BY <1>2, <2>1, <3>2 DEF DecisionOK, StepIdx
    <2>4. ServedOK'
      <3>1. ServedOK
        BY <1>2 DEF FullInv
      <3> QED BY <1>1, <1>2, <2>1, <3>1 DEF ServedOK, StepIdx
    <2>5. ASSUME Separated' PROVE DriftBounded' /\ \A k \in Keys : Covered(k)'
      <3>1. Separated /\ DriftBounded /\ \A k \in Keys : Covered(k)
        BY <1>1, <1>2, <2>5, Frame DEF FullInv
      <3>2. DriftBounded'
        BY <1>1, <1>2, <2>1, <3>1 DEF DriftBounded, ReusedNow, ServedKey
      <3>3. ASSUME NEW k \in Keys PROVE Covered(k)'
        <4>1. ~RefreshOwed(k)
          <5>1. pass \in Int /\ Len(Evals) \in Int
            BY <1>2, EvalsShape DEF RuntimeTyped
          <5> QED BY <1>2, <5>1 DEF RefreshOwed
        <4> QED BY <1>1, <3>1, <4>1, Frame DEF Covered
      <3> QED BY <3>2, <3>3
    <2> QED BY <1>1, <2>2, <2>3, <2>4, <2>5 DEF FullInv
  <1>4. CASE ~(step < Steps - 1)
    <2>1. ~Sampling'
      BY <1>4 DEF EndStep, Sampling
    <2> QED BY <1>1, <2>1, AtRest
  <1> QED BY <1>3, <1>4

\* Nothing is owed to the keys of an evaluation that Heun skips.
LEMMA SkipEvalKeeps == FullInv /\ SkipEval /\ UNCHANGED <<policyVars, moved, drift>> => FullInv'
  <1> SUFFICES ASSUME FullInv, SkipEval, UNCHANGED <<policyVars, moved, drift>> PROVE FullInv'
    OBVIOUS
  <1>1. /\ TypeOK' /\ Control' /\ \A g \in Signals : accumulated'[g] <= cfg'.threshold
        /\ UNCHANGED <<sampler, size, cfg, entries, served, context, accumulated, decision, drift>>
    BY DriverFrame
  <1>2. /\ RuntimeTyped /\ PolicyTyped /\ Sampling /\ at = "pass" /\ at' = "pass"
        /\ pass \in 1..Len(Evals) /\ pass' = pass + 1 /\ step' = step
        /\ ~Runs(Evals[pass].stage, step)
    BY TypeParts, EvalsShape DEF FullInv, SkipEval, Sampling, RuntimeTyped
  <1>3. Evals' = Evals /\ Sampling'
    BY <1>1, <1>2, EvalsKept DEF Sampling
  <1>4. (\A i \in 1..Len(Evals) : Begun(i) => Begun(i)') /\ (\A k : CalledNow(k) => CalledNow(k)')
    BY <1>2, <1>3 DEF Begun, CalledNow
  <1>5. ASSUME NEW k \in Keys PROVE EntryOK(k)'
    <2>1. EntryOK(k)
      BY <1>2 DEF FullInv
    <2> QED BY <1>1, <1>2, <1>4, <2>1, Frame DEF EntryOK
  <1>6. ASSUME NEW g \in Signals PROVE DecisionOK(g)'
    <2>1. DecisionOK(g)
      BY <1>2 DEF FullInv
    <2> QED BY <1>1, <1>2, <1>3, <1>4, <2>1, Frame DEF DecisionOK
  <1>7. ServedOK'
    <2>1. ServedOK
      BY <1>2 DEF FullInv
    <2> QED BY <1>1, <1>2, <1>3, <1>4, <2>1, Frame DEF ServedOK, Eval
  <1>8. ASSUME Separated' PROVE DriftBounded' /\ \A k \in Keys : Covered(k)'
    <2>1. Separated /\ DriftBounded /\ \A k \in Keys : Covered(k)
      BY <1>1, <1>2, <1>8, Frame DEF FullInv
    <2>2. DriftBounded'
      BY <1>1, <1>2, <1>3, <2>1 DEF DriftBounded, ReusedNow, ServedKey
    <2>3. ASSUME NEW k \in Keys PROVE Covered(k)'
      <3>1. SUFFICES ASSUME entries[k] # None, AskedAgain(k), ~RefreshOwed(k)'
                     PROVE  ~RefreshOwed(k)
        BY <1>1, <2>1, Frame DEF Covered
      <3>2. SUFFICES ASSUME RefreshOwed(k) PROVE Evals[pass] = Eval(k[2], k[3])
        <4>1. ASSUME Evals[pass] = Eval(k[2], k[3]) PROVE ~RefreshOwed(k)
          <5>1. SignalOfKey(k) = SignalOf(Evals[pass].branch, Evals[pass].stage)
            BY <4>1, EvalParts DEF SignalOfKey
          <5> QED BY <1>2, <2>1, <3>1, <4>1, <5>1, NothingOwed
        <4> QED BY <4>1
      <3>3. PICK i \in pass..Len(Evals) : Evals[i] = Eval(k[2], k[3])
        BY <3>2 DEF RefreshOwed
      <3>4. i # pass => RefreshOwed(k)'
        <4>1. i # pass => i \in pass'..Len(Evals')
          BY <1>2, <1>3, <3>3, EvalsShape DEF RuntimeTyped
        <4>2. i # pass => Evals'[i] = Eval(k[2], k[3])'
          BY <1>3, <3>3 DEF Eval
        <4>3. SignalOfKey(k)' = SignalOfKey(k)
          BY <1>1, Frame
        <4> QED BY <1>1, <1>2, <3>2, <4>1, <4>2, <4>3 DEF RefreshOwed
      <3> QED BY <3>1, <3>3, <3>4
    <2> QED BY <2>2, <2>3
  <1> QED BY <1>1, <1>5, <1>6, <1>7, <1>8 DEF FullInv

-----------------------------------------------------------------------------
(* The start of an evaluation *)

\* What the start of an evaluation changes and leaves alone.
LEMMA StartFacts ==
    ASSUME FullInv, StartEval
    PROVE  /\ RuntimeTyped /\ PolicyTyped /\ Sampling /\ Sampling' /\ at = "pass" /\ at' = "module"
           /\ pass \in 1..Len(Evals) /\ Runs(Evals[pass].stage, step)
           /\ UNCHANGED <<sampler, batch, size, cfg, step, pass, entries, served>>
           /\ module' = 1 /\ context' = EvalContext /\ Evals' = Evals
           /\ Evals[pass].branch \in Branches /\ Evals[pass].stage \in Stages
           /\ RuntimeTyped' /\ Control'
  <1>1. RuntimeTyped /\ PolicyTyped /\ Control /\ SetContext /\ cfg' = cfg
    BY TypeParts DEF FullInv, StartEval
  <1>2. RuntimeTyped' /\ Control'
    BY <1>1, DriverKeeps
  <1>3. pass \in 1..Len(Evals)
    BY <1>1 DEF SetContext, RuntimeTyped
  <1>4. Evals[pass].branch \in Branches /\ Evals[pass].stage \in Stages
    BY <1>1, <1>3, EvalsShape DEF RuntimeTyped
  <1>5. Evals' = Evals
    BY <1>1, EvalsKept DEF SetContext
  <1> QED BY <1>1, <1>2, <1>3, <1>4, <1>5 DEF SetContext, cacheVars, Sampling

\* The context of the new evaluation is not that of the last answer.
LEMMA StartNotReused == FullInv /\ StartEval => ~ReusedNow'
  <1> SUFFICES ASSUME FullInv, StartEval, ReusedNow' PROVE FALSE
    OBVIOUS
  <1>1. /\ RuntimeTyped /\ Sampling /\ at = "pass" /\ pass \in 1..Len(Evals)
        /\ served' = served /\ context' = EvalContext
    BY StartFacts
  <1>2. /\ served.how = "reuse" /\ served.step = step /\ served.branch = Evals[pass].branch
        /\ served.stage = Evals[pass].stage
    BY <1>1 DEF ReusedNow, EvalContext
  <1>3. PICK i \in 1..Len(Evals) : Evals[i] = Eval(served.branch, served.stage) /\ i < pass
    BY <1>1, <1>2 DEF FullInv, ServedOK, Begun
  <1>4. Evals[i] = Evals[pass]
    BY <1>1, <1>2, <1>3, EvalsShape DEF RuntimeTyped
  <1> QED BY <1>1, <1>3, <1>4, EvalsShape DEF RuntimeTyped

\* The start of an evaluation begins it, and calls nothing yet.
LEMMA StartCalls ==
    ASSUME FullInv, StartEval
    PROVE  /\ \A i \in 1..Len(Evals) : (Begun(i) => Begun(i)') /\ (i = pass => Begun(i)')
           /\ \A k \in Keys : /\ CalledNow(k) => CalledNow(k)'
                              /\ Ahead(k)' <=> Ahead(k)
                              /\ Ahead(k) <=> \E i \in pass..Len(Evals) : Evals[i] = Eval(k[2], k[3])
           /\ \A k \in Keys : EntryOK(k)'
           /\ ServedOK'
  <1> USE StartFacts
  <1>1. \A i \in 1..Len(Evals) : (Begun(i) => Begun(i)') /\ (i = pass => Begun(i)')
    BY DEF Begun
  <1>2. ASSUME NEW k \in Keys
        PROVE  /\ CalledNow(k) => CalledNow(k)'
               /\ Ahead(k)' <=> Ahead(k)
               /\ Ahead(k) <=> \E i \in pass..Len(Evals) : Evals[i] = Eval(k[2], k[3])
    <2>1. k[1] \in Nat /\ 1 <= k[1]
      BY SignalTyped, RuntimeAssumption DEF Modules
    <2>2. \A b, st : Eval(b, st)' = Eval(b, st)
      BY DEF Eval
    <2>3. CalledNow(k) => CalledNow(k)'
      BY <2>2 DEF CalledNow
    <2>4. Ahead(k) <=> \E i \in pass..Len(Evals) : Evals[i] = Eval(k[2], k[3])
      BY DEF Ahead
    <2>5. Ahead(k)' <=> \E i \in pass..Len(Evals) : Evals[i] = Eval(k[2], k[3])
      BY <2>1, <2>2 DEF Ahead
    <2> QED BY <2>3, <2>4, <2>5
  <1>3. ASSUME NEW k \in Keys PROVE EntryOK(k)'
    <2>1. EntryOK(k)
      BY DEF FullInv
    <2> QED BY <1>2, <2>1, Frame DEF EntryOK
  <1>4. ServedOK'
    <2>1. ServedOK
      BY DEF FullInv
    <2> QED BY <1>1, <2>1 DEF ServedOK, Eval
  <1> QED BY <1>1, <1>2, <1>3, <1>4

\* An observation adds to the drift what it adds to the sum, or owes a refresh.
LEMMA ObserveKeeps ==
    ASSUME FullInv, StartEval, NEW d \in Nat, Observes(Evals[pass].branch),
           Update(SignalOf(Evals[pass].branch, Evals[pass].stage), step,
                  TimeOf(Evals[pass].stage, step), d),
           moved' = d,
           \A k \in Keys : drift'[k] = IF SignalOfKey(k) = SignalOf(Evals[pass].branch, Evals[pass].stage)
                                       THEN drift[k] + d ELSE drift[k],
           drift' \in [Keys -> Nat]
    PROVE  FullInv'
  <1> DEFINE G == SignalOf(Evals[pass].branch, Evals[pass].stage)
  <1>0. PICK g \in Signals : g = G
    BY StartFacts, SignalTyped
  <1>1. /\ seen' \subseteq Signals /\ accumulated' \in [Signals -> Nat]
        /\ decision' \in [Signals -> Decision \cup {None}] /\ counters' \in Counters
        /\ \A h \in Signals \ {g} : accumulated'[h] = accumulated[h] /\ decision'[h] = decision[h]
        /\ decision'[g] # None /\ decision'[g].step = step
        /\ \/ decision'[g].refresh /\ accumulated'[g] = 0
           \/ /\ ~decision'[g].refresh /\ accumulated'[g] = accumulated[g] + d
              /\ accumulated[g] + d <= cfg.threshold
    BY <1>0, StartFacts, UpdateTyped DEF RuntimeTyped
  <1>2. cfg' = cfg /\ cfg.threshold \in Nat
    BY StartFacts, DynamicAssumption DEF PolicyTyped, ConfigOK
  <1>3. TypeOK' /\ Control'
    <2>1. PolicyTyped'
      BY <1>1, StartFacts DEF PolicyTyped
    <2> QED BY <2>1, StartFacts DEF TypeOK, RuntimeTyped, PolicyTyped
  <1>4. \A h \in Signals : accumulated'[h] <= cfg'.threshold
    BY <1>1, <1>2 DEF FullInv
  <1>5. ASSUME NEW h \in Signals PROVE DecisionOK(h)'
    <2>1. DecisionOK(h)
      BY StartFacts DEF FullInv
    <2>2. CASE h = g
      <3>1. \E i \in 1..Len(Evals) : /\ SignalOf(Evals[i].branch, Evals[i].stage)' = h
                                     /\ Runs(Evals[i].stage, step)' /\ Begun(i)'
        BY <1>0, <2>2, StartFacts, StartCalls, Frame
      <3>2. decision'[h].step = step' /\ step' \in Int
        BY <1>1, <2>2, StartFacts DEF RuntimeTyped, StepIdx
      <3>3. Len(Evals)' = Len(Evals)
        BY StartFacts
      <3> QED BY <3>1, <3>2, <3>3 DEF DecisionOK
    <2>3. CASE h # g
      BY <1>1, <2>1, <2>3, StartFacts, StartCalls, Frame DEF DecisionOK
    <2> QED BY <2>2, <2>3
  <1>6. DriftBounded'
    BY StartNotReused DEF DriftBounded
  <1>7. ASSUME NEW k \in Keys, Separated' PROVE Covered(k)'
    <2>1. Separated /\ Covered(k) /\ SignalOfKey(k) \in Signals /\ drift[k] \in Nat
      BY <1>7, StartFacts, Frame, SignalTyped DEF FullInv, PolicyTyped
    <2>2. /\ SignalOfKey(k)' = SignalOfKey(k) /\ (AskedAgain(k)' <=> AskedAgain(k))
          /\ entries' = entries /\ step' = step
      BY StartFacts, Frame
    <2>3. SUFFICES ASSUME entries[k] # None, AskedAgain(k), ~RefreshOwed(k)'
                   PROVE  drift'[k] <= accumulated'[SignalOfKey(k)]
      BY <2>2 DEF Covered
    <2>4. CASE SignalOfKey(k) = g
      <3>1. ~RefreshOwed(k)
        BY <1>0, <2>1, <2>3, <2>4, NothingOwed, StartFacts
      <3>2. drift[k] <= accumulated[g] /\ drift'[k] = drift[k] + d
        BY <1>0, <2>1, <2>3, <2>4, <3>1 DEF Covered
      <3>3. Ahead(k)'
        BY <1>0, <2>1, <2>3, <2>4, ObservedInTime, StartFacts, StartCalls
      <3>4. ~decision'[g].refresh
        BY <1>1, <2>2, <2>3, <2>4, <3>3 DEF RefreshOwed, Ahead
      <3>5. accumulated'[g] = accumulated[g] + d /\ accumulated[g] \in Nat
        BY <1>1, <3>4, StartFacts DEF PolicyTyped
      <3>6. drift'[k] <= accumulated'[g]
        BY <2>1, <3>2, <3>5
      <3> QED BY <2>4, <3>6
    <2>5. CASE SignalOfKey(k) # g
      <3>1. accumulated'[SignalOfKey(k)] = accumulated[SignalOfKey(k)]
            /\ decision'[SignalOfKey(k)] = decision[SignalOfKey(k)] /\ drift'[k] = drift[k]
        BY <1>0, <1>1, <2>1, <2>5
      <3>2. ~RefreshOwed(k)
        BY <2>2, <2>3, <3>1, StartCalls DEF RefreshOwed, Ahead
      <3> QED BY <2>1, <2>3, <3>1, <3>2 DEF Covered
    <2> QED BY <2>4, <2>5
  <1> QED BY <1>3, <1>4, <1>5, <1>6, <1>7, StartCalls DEF FullInv

\* The start of an evaluation, observed or not.
LEMMA StartEvalKeeps == FullInv /\ StartEval => FullInv'
  <1> SUFFICES ASSUME FullInv, StartEval PROVE FullInv'
    OBVIOUS
  <1>1. CASE Observes(Evals[pass].branch)
    <2>1. PICK d \in DistancesFor(Evals[pass].branch) :
            /\ Update(SignalOf(Evals[pass].branch, Evals[pass].stage), step,
                      TimeOf(Evals[pass].stage, step), d)
            /\ moved' = d
            /\ drift' = [k \in Keys |-> IF SignalOfKey(k) = SignalOf(Evals[pass].branch, Evals[pass].stage)
                                        THEN drift[k] + d ELSE drift[k]]
      BY <1>1 DEF StartEval, Observe
    <2>2. d \in Nat /\ drift \in [Keys -> Nat]
      BY <2>1, StartFacts, DynamicAssumption DEF DistancesFor, PolicyTyped
    <2>3. drift' \in [Keys -> Nat]
      BY <2>1, <2>2
    <2> QED BY <1>1, <2>1, <2>2, <2>3, ObserveKeeps
  <1>2. CASE ~Observes(Evals[pass].branch)
    <2>1. UNCHANGED <<seen, accumulated, decision, counters, moved, drift, cfg>>
      BY <1>2 DEF StartEval, observation
    <2>2. TypeOK' /\ Control'
      BY <2>1, StartFacts DEF TypeOK, RuntimeTyped, PolicyTyped
    <2>3. \A g \in Signals : accumulated'[g] <= cfg'.threshold
      BY <2>1 DEF FullInv
    <2>4. ASSUME NEW h \in Signals PROVE DecisionOK(h)'
      <3>1. DecisionOK(h)
        BY StartFacts DEF FullInv
      <3> QED BY <2>1, <3>1, StartFacts, StartCalls, Frame DEF DecisionOK
    <2>5. DriftBounded'
      BY StartNotReused DEF DriftBounded
    <2>6. ASSUME NEW k \in Keys, Separated' PROVE Covered(k)'
      <3>1. Separated /\ Covered(k)
        BY <2>6, StartFacts, Frame DEF FullInv
      <3>2. RefreshOwed(k)' <=> RefreshOwed(k)
        <4>1. SignalOfKey(k)' = SignalOfKey(k) /\ step' = step /\ decision' = decision
          BY <2>1, StartFacts, Frame
        <4> QED BY <4>1, StartCalls DEF RefreshOwed, Ahead
      <3> QED BY <2>1, <3>1, <3>2, StartFacts, Frame DEF Covered
    <2> QED BY <2>2, <2>3, <2>4, <2>5, <2>6, StartCalls DEF FullInv
  <1> QED BY <1>1, <1>2

-----------------------------------------------------------------------------
(* A call of a wrapped module *)

\* Call is Calls of CacheRuntime_proofs.
LEMMA CallsAre == \A m : Call(m) <=> Calls(m)
  BY DEF Call, Calls

\* What a call leaves alone, and where it stands in the step.
LEMMA CallFrame ==
    ASSUME FullInv, NEW m \in Modules, Call(m), cfg' = cfg
    PROVE  /\ RuntimeTyped /\ PolicyTyped /\ Control /\ Sampling /\ Sampling'
           /\ at = "module" /\ module = m
           /\ UNCHANGED <<sampler, batch, size, step, context, cfg>> /\ Evals' = Evals
           /\ pass \in 1..Len(Evals) /\ Len(Evals) <= 2 /\ context.step = step /\ step \in StepIdx
           /\ context.branch \in Branches /\ context.stage \in Stages
           /\ Evals[pass] = Eval(context.branch, context.stage)
           /\ Runs(context.stage, step) /\ KeyOf(m) \in Keys /\ NewEntry \in Entry
  <1>1. RuntimeTyped /\ PolicyTyped /\ Control /\ Calls(m)
    BY TypeParts, CallsAre DEF FullInv
  <1>2. /\ pass \in 1..Len(Evals) /\ Len(Evals) <= 2 /\ context.step = step
        /\ context.branch \in Branches /\ context.stage \in Stages
        /\ Evals[pass] = Eval(context.branch, context.stage)
        /\ Runs(context.stage, step) /\ KeyOf(m) \in Keys /\ NewEntry \in Entry
        /\ at' \in {"module", "pass"}
    BY <1>1, CallsFacts
  <1>3. Evals' = Evals
    BY EvalsKept DEF Call, Advance
  <1> QED BY <1>1, <1>2, <1>3 DEF Call, Advance, Sampling, RuntimeTyped

\* A call only goes past itself.
LEMMA CallMoves ==
    ASSUME FullInv, NEW m \in Modules, Call(m), cfg' = cfg
    PROVE  /\ \A i \in 1..Len(Evals) : (Begun(i) => Begun(i)') /\ (i = pass => Begun(i)')
           /\ \A k \in Keys : /\ CalledNow(k) => CalledNow(k)'
                              /\ k = KeyOf(m) => CalledNow(k)'
                              /\ Ahead(k) => Ahead(k)' \/ k = KeyOf(m) \/ k[4] # size
  <1> USE CallFrame
  <1>1. \A b, st : Eval(b, st)' = Eval(b, st)
    BY DEF Eval
  <1>2. /\ m < NumModules => module' = m + 1 /\ at' = "module" /\ pass' = pass
        /\ ~(m < NumModules) => at' = "pass" /\ pass' = pass + 1
        /\ m \in 1..NumModules /\ NumModules \in Nat
    BY RuntimeAssumption DEF Call, Advance, Modules
  <1>3. \A i \in 1..Len(Evals) : (Begun(i) => Begun(i)') /\ (i = pass => Begun(i)')
    BY <1>2 DEF Begun
  <1>4. ASSUME NEW k \in Keys
        PROVE  /\ CalledNow(k) => CalledNow(k)'
               /\ k = KeyOf(m) => CalledNow(k)'
               /\ Ahead(k) => Ahead(k)' \/ k = KeyOf(m) \/ k[4] # size
    <2>1. k[1] \in 1..NumModules /\ k = <<k[1], k[2], k[3], k[4]>>
      BY SignalTyped DEF Modules
    <2>2. CalledNow(k) => CalledNow(k)'
      <3>1. SUFFICES ASSUME CalledNow(k) PROVE CalledNow(k)'
        OBVIOUS
      <3>2. PICK i \in 1..Len(Evals) : /\ Evals[i] = Eval(k[2], k[3])
                                       /\ i < pass \/ (i = pass /\ k[1] < m)
        BY <3>1 DEF CalledNow
      <3>3. i < pass' \/ (i = pass' /\ at' = "module" /\ k[1] < module')
        BY <1>2, <2>1, <3>2
      <3> QED BY <1>1, <3>2, <3>3 DEF CalledNow
    <2>3. k = KeyOf(m) => CalledNow(k)'
      <3>1. SUFFICES ASSUME k = KeyOf(m) PROVE CalledNow(k)'
        OBVIOUS
      <3>2. k[1] = m /\ k[2] = context.branch /\ k[3] = context.stage
        BY <3>1 DEF KeyOf
      <3>3. pass < pass' \/ (pass = pass' /\ at' = "module" /\ k[1] < module')
        BY <1>2, <3>2
      <3>4. PICK i \in 1..Len(Evals) : i = pass
        OBVIOUS
      <3>5. Evals[i] = Eval(k[2], k[3])
        BY <3>2, <3>4
      <3> QED BY <1>1, <3>3, <3>4, <3>5 DEF CalledNow
    <2>4. ASSUME Ahead(k), k # KeyOf(m), k[4] = size PROVE Ahead(k)'
      <3>1. PICK i \in pass..Len(Evals) : /\ Evals[i] = Eval(k[2], k[3])
                                          /\ i = pass => m <= k[1]
        BY <2>4 DEF Ahead
      <3>2. i = pass => k[1] # m
        <4>1. i = pass => k[2] = context.branch /\ k[3] = context.stage
          BY <3>1, EvalParts
        <4> QED BY <2>1, <2>4, <4>1 DEF KeyOf
      <3>3. i \in pass'..Len(Evals) /\ (i = pass' /\ at' = "module" => module' <= k[1])
        BY <1>2, <2>1, <3>1, <3>2
      <3> QED BY <1>1, <3>1, <3>3 DEF Ahead
    <2> QED BY <2>2, <2>3, <2>4
  <1> QED BY <1>3, <1>4

\* A call that keeps the drift of its key covered keeps the invariant.
LEMMA CallKeeps ==
    ASSUME FullInv, NEW m \in Modules, Call(m), UNCHANGED <<policyVars, moved>>,
           TypeOK', Control', NEW key \in Keys, key = KeyOf(m),
           \A k \in Keys : k # key => entries'[k] = entries[k] /\ drift'[k] = drift[k],
           entries'[key] # None => Live(key) /\ (entries'[key] = entries[key] \/ entries'[key].step = step),
           Separated /\ AskedAgain(key) /\ entries'[key] # None =>
             drift'[key] <= accumulated[SignalOfKey(key)],
           ServedOK', Separated => DriftBounded'
    PROVE  FullInv'
  <1>1. /\ UNCHANGED <<cfg, seen, accumulated, decision, counters, moved>>
        /\ UNCHANGED <<sampler, batch, size, step>> /\ Evals' = Evals
        /\ Sampling /\ Sampling' /\ step \in StepIdx
    BY CallFrame DEF policyVars
  <1>2. \A g \in Signals : accumulated'[g] <= cfg'.threshold
    BY <1>1 DEF FullInv
  <1>3. ASSUME NEW k \in Keys PROVE EntryOK(k)'
    <2>1. EntryOK(k) /\ (Live(k)' <=> Live(k)) /\ step \in Nat
      BY <1>1, Frame DEF FullInv, StepIdx
    <2>2. CASE k = key
      BY <1>1, <2>1, <2>2, CallMoves DEF EntryOK
    <2>3. CASE k # key
      BY <1>1, <2>1, <2>3, CallMoves DEF EntryOK
    <2> QED BY <2>2, <2>3
  <1>4. ASSUME NEW g \in Signals PROVE DecisionOK(g)'
    <2>1. DecisionOK(g)
      BY <1>1 DEF FullInv
    <2>2. Evals' = Evals /\ step' = step /\ decision' = decision
      BY <1>1
    <2>3. \A i \in 1..Len(Evals) : Begun(i) => Begun(i)'
      BY <1>1, CallMoves
    <2> QED BY <1>1, <2>1, <2>2, <2>3, Frame DEF DecisionOK
  <1>5. ASSUME NEW k \in Keys, Separated' PROVE Covered(k)'
    <2>1. /\ Separated /\ Covered(k) /\ EntryOK(k) /\ SignalOfKey(k)' = SignalOfKey(k)
          /\ AskedAgain(k)' <=> AskedAgain(k)
      BY <1>1, <1>5, Frame DEF FullInv
    <2>2. CASE k = key
      BY <1>1, <2>1, <2>2 DEF Covered
    <2>3. CASE k # key
      <3>1. SUFFICES ASSUME entries[k] # None, AskedAgain(k), ~RefreshOwed(k)'
                     PROVE  ~RefreshOwed(k)
        BY <1>1, <2>1, <2>3 DEF Covered
      <3>2. k[4] = size
        BY <2>1, <3>1 DEF EntryOK, Live
      <3>3. Ahead(k) => Ahead(k)'
        BY <1>1, <2>3, <3>2, CallMoves
      <3>4. SignalOfKey(k)' = SignalOfKey(k) /\ step' = step /\ decision' = decision
        BY <1>1, <2>1
      <3> QED BY <3>1, <3>3, <3>4 DEF RefreshOwed, Ahead
    <2> QED BY <2>2, <2>3
  <1>6. Separated' => Separated
    BY <1>1, Frame
  <1> QED BY <1>2, <1>3, <1>4, <1>5, <1>6 DEF FullInv

\* The adapter is active for exactly the live keys.
LEMMA LiveIsActive ==
    ASSUME FullInv, NEW m \in Modules, Call(m), cfg' = cfg, NEW key \in Keys, key = KeyOf(m)
    PROVE  Live(key) <=> Active(m)
  <1>1. key[1] = m /\ key[2] = context.branch /\ key[3] = context.stage /\ key[4] = size
    BY DEF KeyOf
  <1>2. \E i \in 1..Len(Evals) : Evals[i] = Eval(key[2], key[3])
    BY <1>1, CallFrame
  <1> QED BY <1>1, <1>2 DEF Live, Active

\* Every answer keeps the types.
LEMMA AnswerTyped ==
    ASSUME FullInv, NEW m \in Modules, Call(m), UNCHANGED <<policyVars, moved>>,
           Bypass(m) \/ Compute(m) \/ Serve(m), drift' \in [Keys -> Nat]
    PROVE  TypeOK' /\ Control'
  <1>1. RuntimeTyped /\ PolicyTyped /\ Control /\ Calls(m)
    BY TypeParts, CallsAre DEF FullInv
  <1>2. RuntimeTyped' /\ Control'
    BY <1>1, AnswerKeeps
  <1> QED BY <1>1, <1>2 DEF TypeOK, RuntimeTyped, PolicyTyped, policyVars

\* A call of a module that is not cached.
LEMMA InactiveKeeps ==
    ASSUME FullInv, NEW m \in Modules, ForwardInactive(m)
    PROVE  FullInv'
  <1>1. Call(m) /\ ~Active(m) /\ Bypass(m) /\ UNCHANGED <<policyVars, moved, drift>> /\ cfg' = cfg
    BY DEF ForwardInactive, policyVars
  <1>2. PICK key \in Keys : key = KeyOf(m)
    BY <1>1, CallFrame
  <1>3. drift' \in [Keys -> Nat] /\ drift' = drift /\ entries' = entries
    BY <1>1, CallFrame DEF PolicyTyped, Bypass
  <1>4. entries[key] = None
    BY <1>1, <1>2, LiveIsActive, CallFrame DEF FullInv, EntryOK
  <1>5. ServedOK' /\ DriftBounded'
    BY <1>1 DEF Bypass, Served, ServedOK, DriftBounded, ReusedNow
  <1>6. TypeOK' /\ Control'
    BY <1>1, <1>3, AnswerTyped
  <1> QED BY <1>1, <1>2, <1>3, <1>4, <1>5, <1>6, CallKeeps

\* A recomputation: the output has not moved yet.
LEMMA ComputedKeeps ==
    ASSUME FullInv, NEW m \in Modules, Call(m), Active(m), Computed(m), UNCHANGED <<policyVars, moved>>
    PROVE  FullInv'
  <1>1. Compute(m) /\ cfg' = cfg /\ drift' = [drift EXCEPT ![KeyOf(m)] = 0]
    BY DEF Computed, policyVars
  <1>2. PICK key \in Keys : key = KeyOf(m)
    BY <1>1, CallFrame
  <1>3. drift \in [Keys -> Nat] /\ entries \in [Keys -> Entry \cup {None}]
        /\ accumulated \in [Signals -> Nat]
    BY <1>1, CallFrame DEF PolicyTyped, RuntimeTyped
  <1>4. /\ drift' \in [Keys -> Nat] /\ drift'[key] = 0
        /\ \A k \in Keys : k # key => drift'[k] = drift[k]
    BY <1>1, <1>2, <1>3
  <1>5. /\ \A k \in Keys : k # key => entries'[k] = entries[k]
        /\ entries'[key] = entries[key] \/ entries'[key].step = step
    <2>1. CASE m \in NonTensorModules
      BY <1>1, <2>1 DEF Compute
    <2>2. CASE m \notin NonTensorModules
      <3>1. entries' = [entries EXCEPT ![key] = NewEntry] /\ NewEntry.step = step
        BY <1>1, <1>2, <2>2, CallFrame DEF Compute, NewEntry
      <3> QED BY <1>3, <3>1
    <2> QED BY <2>1, <2>2
  <1>6. Live(key) /\ accumulated[SignalOfKey(key)] \in Nat
    BY <1>1, <1>2, <1>3, LiveIsActive, SignalTyped
  <1>7. ServedOK' /\ DriftBounded'
    BY <1>1 DEF Compute, Served, ServedOK, DriftBounded, ReusedNow
  <1>8. TypeOK' /\ Control'
    BY <1>1, <1>4, AnswerTyped
  <1>9. drift'[key] <= accumulated[SignalOfKey(key)]
    BY <1>4, <1>6
  <1> QED BY <1>1, <1>2, <1>4, <1>5, <1>6, <1>7, <1>8, <1>9, CallKeeps

\* A reuse: the entry is covered, for its step's decision does not refresh.
LEMMA ServeKeeps ==
    ASSUME FullInv, NEW m \in Modules, Call(m), Active(m), EntryOf(m) # None, ~ShouldRefresh,
           Serve(m), UNCHANGED <<policyVars, moved, drift>>
    PROVE  FullInv'
  <1>1. cfg' = cfg /\ drift' = drift /\ entries' = entries
    BY DEF Serve, policyVars
  <1>2. PICK key \in Keys : key = KeyOf(m)
    BY <1>1, CallFrame
  <1>3. key[1] = m /\ key[2] = context.branch /\ key[3] = context.stage /\ key[4] = size
    BY <1>2 DEF KeyOf
  <1>4. Live(key) /\ entries[key] # None /\ EntryOK(key) /\ entries[key] \in Entry
    BY <1>1, <1>2, LiveIsActive, CallFrame DEF EntryOf, FullInv, RuntimeTyped
  <1>5. ~RefreshOwed(key)
    <2>1. SignalOfKey(key) = SignalOf(context.branch, context.stage)
      BY <1>3 DEF SignalOfKey
    <2> QED BY <2>1 DEF RefreshOwed, ShouldRefresh, DecisionNow
  <1>6. AskedAgain(key)
    <2>1. SUFFICES ASSUME sampler = "pixelgen", context.stage = "heun_predictor" PROVE FALSE
      BY <1>3 DEF AskedAgain
    <2>2. step = 0
      BY <1>1, <2>1, CallFrame DEF Runs
    <2>3. entries[key].step = step
      BY <1>4, <2>2 DEF EntryOK, Entry, StepIdx
    <2>4. PICK i \in 1..Len(Evals) : /\ Evals[i] = Eval(key[2], key[3])
                                     /\ i < pass \/ (i = pass /\ key[1] < module)
      BY <1>4, <2>3 DEF EntryOK, CalledNow
    <2>5. i = pass
      BY <1>1, <1>3, <2>4, CallFrame, EvalsShape DEF RuntimeTyped
    <2> QED BY <1>1, <1>3, <2>4, <2>5, CallFrame DEF Modules
  <1>7. /\ served'.how = "reuse" /\ served'.module = m /\ served'.branch = context.branch
        /\ served'.stage = context.stage /\ served'.step = step
    BY <1>1, CallFrame DEF Serve, Served
  <1>8. ServedOK'
    <2>1. PICK i \in 1..Len(Evals) : i = pass
      BY <1>1, CallFrame
    <2>2. Evals'[i] = Eval(served.branch, served.stage)' /\ Begun(i)' /\ Len(Evals)' = Len(Evals)
      BY <1>1, <1>7, <2>1, CallFrame, CallMoves DEF Eval
    <2>3. step' = step /\ step \in StepIdx /\ context.branch \in Branches /\ context.stage \in Stages
      BY <1>1, CallFrame
    <2> QED BY <1>7, <2>2, <2>3 DEF ServedOK, StepIdx
  <1>9. ASSUME Separated
        PROVE  DriftBounded' /\ drift'[key] <= accumulated[SignalOfKey(key)]
    <2>1. drift[key] <= accumulated[SignalOfKey(key)]
      BY <1>1, <1>4, <1>5, <1>6, <1>9, CallFrame DEF FullInv, Covered
    <2>2. accumulated[SignalOfKey(key)] <= cfg.threshold /\ SignalOfKey(key) \in Signals
      BY SignalTyped DEF FullInv
    <2>3. /\ drift[key] \in Nat /\ accumulated[SignalOfKey(key)] \in Nat /\ cfg.threshold \in Nat
      BY <1>1, <2>2, CallFrame, DynamicAssumption DEF PolicyTyped, ConfigOK
    <2>4. ServedKey' = key
      BY <1>1, <1>2, <1>7, CallFrame DEF ServedKey, KeyOf
    <2> QED BY <1>1, <2>1, <2>2, <2>3, <2>4 DEF DriftBounded
  <1>10. TypeOK' /\ Control'
    BY <1>1, AnswerTyped, CallFrame DEF PolicyTyped
  <1> QED BY <1>1, <1>2, <1>4, <1>8, <1>9, <1>10, CallKeeps

\* A call of CachedModule.forward.
LEMMA ForwardKeeps == ASSUME FullInv, NEW m \in Modules, Forward(m) PROVE FullInv'
  <1>1. CASE ForwardInactive(m)
    BY <1>1, InactiveKeeps
  <1>2. CASE ForwardMiss(m)
    BY <1>2, ComputedKeeps DEF ForwardMiss
  <1>3. CASE ForwardRefresh(m)
    BY <1>3, ComputedKeeps DEF ForwardRefresh
  <1>4. CASE ForwardReuse(m)
    <2>1. CASE EntryMatches(EntryOf(m))
      BY <1>4, <2>1, ServeKeeps DEF ForwardReuse
    <2>2. CASE ~EntryMatches(EntryOf(m))
      BY <1>4, <2>2, ComputedKeeps DEF ForwardReuse
    <2> QED BY <2>1, <2>2
  <1> QED BY <1>1, <1>2, <1>3, <1>4 DEF Forward

-----------------------------------------------------------------------------
(* The theorems *)

\* A step that changes nothing.
LEMMA StutterKeeps == FullInv /\ UNCHANGED vars => FullInv'
  <1> SUFFICES ASSUME FullInv, UNCHANGED vars PROVE FullInv'
    OBVIOUS
  <1>1. UNCHANGED <<sampler, at, batch, size, step, pass, module, context, session, entries, stats,
                    served, cfg, seen, accumulated, decision, counters, moved, drift>>
    BY DEF vars, driverVars, cacheVars, policyVars
  <1>2. /\ Evals' = Evals /\ (Sampling' <=> Sampling)
        /\ \A i : Begun(i)' <=> Begun(i)
        /\ \A k : (CalledNow(k)' <=> CalledNow(k)) /\ (RefreshOwed(k)' <=> RefreshOwed(k))
    <2>1. Evals' = Evals /\ (\A b, st : Eval(b, st)' = Eval(b, st))
      BY <1>1, EvalsKept DEF Eval
    <2>2. \A k : CalledNow(k)' <=> CalledNow(k)
      BY <1>1, <2>1 DEF CalledNow
    <2>3. \A k : RefreshOwed(k)' <=> RefreshOwed(k)
      BY <1>1, <2>1, Frame DEF RefreshOwed
    <2> QED BY <1>1, <2>1, <2>2, <2>3 DEF Sampling, Begun
  <1>3. TypeOK' /\ Control'
    <2>1. TypeOK'
      BY <1>1 DEF FullInv, TypeOK
    <2>2. EvalContext' = EvalContext
      BY <1>1, <1>2 DEF EvalContext, TimeOf
    <2> QED BY <1>1, <1>2, <2>1, <2>2 DEF FullInv, Control, Runs
  <1>4. \A k \in Keys : (EntryOK(k) => EntryOK(k)') /\ (Covered(k) => Covered(k)')
    BY <1>1, <1>2, Frame DEF EntryOK, Covered
  <1>5. \A g \in Signals : DecisionOK(g) => DecisionOK(g)'
    BY <1>1, <1>2, Frame DEF DecisionOK
  <1>6. ServedOK => ServedOK'
    BY <1>1, <1>2 DEF ServedOK, Eval
  <1>7. (DriftBounded => DriftBounded') /\ (Separated' => Separated)
    BY <1>1, <1>2, Frame DEF DriftBounded, ReusedNow, ServedKey
  <1> QED BY <1>1, <1>2, <1>3, <1>4, <1>5, <1>6, <1>7 DEF FullInv

\* The inductive invariant: whatever an output kept in the cache has moved is in
\* its signal's sum, or a refresh of it is decided and still to come.
THEOREM Invariance == Spec => []FullInv
  <1>1. FullInv /\ [Next]_vars => FullInv'
    BY StartBatchKeeps, StartEvalKeeps, LeaveWarmupKeeps, SkipEvalKeeps, EndStepKeeps,
       ForwardKeeps, StutterKeeps DEF Next, Terminated
  <1> QED BY <1>1, Start, PTL DEF Spec

\* Every variable keeps its type, for every configuration of the policy.
THEOREM TypeCorrect == Spec => []TypeOK
  <1>1. FullInv => TypeOK
    BY DEF FullInv
  <1> QED BY <1>1, Invariance, PTL

\* Why: the sum that update() compares with the threshold covers the movement of
\* every stored output that will be asked for again, under any order of forced
\* refreshes, skipped evaluations and modules that are not cached.
THEOREM SumAccounts == Spec => []SumCoversDrift
  <1>1. FullInv => SumCoversDrift
    BY DEF FullInv, SumCoversDrift, Covered
  <1> QED BY <1>1, Invariance, PTL

\* No wrapped module's output is reused once its proxy has moved by more than
\* the threshold since the output was computed (update() and should_refresh()),
\* unless exact Heun's stages share one signal.
THEOREM DriftIsBounded == Spec => [](Separated => DriftBounded)
  <1>1. FullInv => (Separated => DriftBounded)
    BY DEF FullInv, DriftBounded, ReusedNow
  <1> QED BY <1>1, Invariance, PTL

-----------------------------------------------------------------------------
(* Entries and decisions *)

\* Entries are of this batch and session, and only tensors are stored.
EntriesCurrent ==
    Sampling => \A k \in Keys : entries[k] # None =>
      /\ k[4] = size /\ k[1] \notin NonTensorModules
      /\ entries[k].batch = batch
      /\ entries[k].signature = [batch_size |-> size, session_id |-> session]

\* The decision of a step is taken before the modules it is for are called, and
\* leaves an empty sum where it refreshes.
Decided ==
    Sampling => \A i \in 1..Len(Evals) : Begun(i) /\ Runs(Evals[i].stage, step) =>
      LET g == SignalOf(Evals[i].branch, Evals[i].stage)
      IN decision[g] # None /\ decision[g].step = step /\ (decision[g].refresh => accumulated[g] = 0)

\* The samplers that evaluate every branch at every step, and observe each
\* signal once in it.
Steady == Sampling /\ sampler \in {"jit", "deco"}

\* From its first call on a cached key has an entry.
Stored ==
    Steady => \A k \in Keys :
      Live(k) /\ k[1] \notin NonTensorModules /\ (step > 0 \/ CalledNow(k)) => entries[k] # None

\* In the first step every signal is new, so nothing is added up yet.
SumStarts ==
    Steady /\ step = 0 => \A g \in Signals :
      /\ accumulated[g] = 0
      /\ g \in seen => \E i \in 1..Len(Evals) : SignalOf(Evals[i].branch, Evals[i].stage) = g /\ Begun(i)

\* What an output has moved is at least its signal's sum, and above the threshold
\* where a refresh is owed that nothing forced.
DriftCoversSum ==
    Steady => \A k \in Keys : entries[k] # None =>
      /\ drift[k] >= accumulated[SignalOfKey(k)]
      /\ RefreshOwed(k) /\ ~decision[SignalOfKey(k)].forced => drift[k] > cfg.threshold

Cond == SignalOf("cond", "euler")
Uncond == SignalOf("uncond", "euler")

\* Between the observations of the two branches, the second will repeat the first.
HalfObserved == (at = "module" /\ pass = 1) \/ (at = "pass" /\ pass = 2)

SignalsAlike ==
    Sampling /\ sampler = "jit" /\ cfg.per_branch =>
      IF HalfObserved
      THEN /\ Cond \in seen
           /\ decision[Cond].refresh <=> \/ Forced(Uncond, step, step)
                                         \/ accumulated[Uncond] + moved > cfg.threshold
           /\ accumulated[Cond] = Kept(decision[Cond].refresh, accumulated[Uncond] + moved)
      ELSE /\ accumulated[Cond] = accumulated[Uncond] /\ (Cond \in seen <=> Uncond \in seen)
           /\ Begun(1) => (decision[Cond].refresh <=> decision[Uncond].refresh)

CondKey(m) == <<m, "cond", "euler", size>>
UncondKey(m) == <<m, "uncond", "euler", size>>

SameAge(k, l) == /\ entries[k] = None <=> entries[l] = None
                 /\ entries[k] # None => entries[k].step = entries[l].step

\* The branches of a module are of one age, except that the first may have been
\* recomputed where the second will be.
PairsInStep ==
    Sampling /\ sampler = "jit" /\ cfg.cache_cond /\ cfg.cache_uncond =>
      \A m \in Modules \ NonTensorModules :
        IF CalledNow(CondKey(m)) /\ ~CalledNow(UncondKey(m)) /\ Live(UncondKey(m))
           /\ (entries[UncondKey(m)] = None \/ decision[Cond].refresh)
        THEN entries[CondKey(m)] # None /\ entries[CondKey(m)].step = step
        ELSE SameAge(CondKey(m), UncondKey(m))

-----------------------------------------------------------------------------
(* Calls *)

\* The last call of a step leaves nothing of it to be called.
LEMMA AllCalled ==
    ASSUME FullInv, Sampling, pass > Len(Evals)
    PROVE  \A k \in Keys : Live(k) => CalledNow(k)
  <1>1. pass \in Nat /\ Len(Evals) \in Nat
    BY EvalsShape DEF FullInv, TypeOK
  <1> QED BY <1>1 DEF Live, CalledNow

\* Entries' own signatures.
LEMMA EntryAccepted ==
    ASSUME FullInv, EntriesCurrent, NEW m \in Modules, Call(m), cfg' = cfg, EntryOf(m) # None
    PROVE  EntryMatches(EntryOf(m))
  <1>1. KeyOf(m) \in Keys /\ Sampling
    BY CallFrame
  <1> QED BY <1>1 DEF EntriesCurrent, EntryOf, EntryMatches, Signature

\* A call recomputes what is missing or to be refreshed, and nothing else.
LEMMA ForwardAnswers ==
    ASSUME FullInv, EntriesCurrent, NEW m \in Modules, Forward(m), NEW key \in Keys, key = KeyOf(m)
    PROVE  /\ Call(m) /\ UNCHANGED <<policyVars, cfg, moved, session, seen, accumulated, decision>>
           /\ \A k \in Keys : k # key => entries'[k] = entries[k] /\ drift'[k] = drift[k]
           /\ Live(key) <=> Active(m)
           /\ \/ /\ Live(key) /\ (entries[key] = None \/ ShouldRefresh) /\ drift'[key] = 0
                 /\ entries'[key] = IF m \in NonTensorModules THEN entries[key] ELSE NewEntry
              \/ /\ ~(Live(key) /\ (entries[key] = None \/ ShouldRefresh))
                 /\ entries'[key] = entries[key] /\ drift'[key] = drift[key]
  <1>1. Call(m) /\ UNCHANGED <<policyVars, cfg, moved, seen, accumulated, decision>>
    BY DEF Forward, ForwardInactive, ForwardMiss, ForwardRefresh, ForwardReuse, policyVars
  <1>2. Live(key) <=> Active(m)
    BY <1>1, LiveIsActive
  <1>3. entries \in [Keys -> Entry \cup {None}] /\ drift \in [Keys -> Nat] /\ EntryOf(m) = entries[key]
    BY <1>1, CallFrame DEF RuntimeTyped, PolicyTyped, EntryOf
  <1>4. CASE Active(m) /\ (entries[key] = None \/ ShouldRefresh) /\ Computed(m)
    <2>1. Compute(m) /\ drift' = [drift EXCEPT ![key] = 0]
      BY <1>4 DEF Computed
    <2>2. session' = session
      BY <2>1 DEF Compute
    <2>3. CASE m \in NonTensorModules
      <3>1. entries' = entries
        BY <2>1, <2>3 DEF Compute
      <3> QED BY <1>1, <1>2, <1>3, <1>4, <2>1, <2>2, <2>3, <3>1
    <2>4. CASE m \notin NonTensorModules
      <3>1. entries' = [entries EXCEPT ![key] = NewEntry]
        BY <2>1, <2>4 DEF Compute
      <3> QED BY <1>1, <1>2, <1>3, <1>4, <2>1, <2>2, <2>4, <3>1
    <2> QED BY <2>3, <2>4
  <1>5. CASE /\ ~(Active(m) /\ (entries[key] = None \/ ShouldRefresh))
             /\ UNCHANGED <<session, entries, drift>>
    BY <1>1, <1>2, <1>5
  <1>6. CASE ForwardInactive(m)
    BY <1>5, <1>6 DEF ForwardInactive, Bypass
  <1>7. CASE ForwardMiss(m) \/ ForwardRefresh(m)
    BY <1>3, <1>4, <1>7 DEF ForwardMiss, ForwardRefresh
  <1>8. CASE ForwardReuse(m)
    <2>1. EntryMatches(EntryOf(m))
      BY <1>1, <1>8, EntryAccepted DEF ForwardReuse
    <2> QED BY <1>3, <1>5, <1>8, <2>1 DEF ForwardReuse, Serve
  <1> QED BY <1>6, <1>7, <1>8 DEF Forward

-----------------------------------------------------------------------------
(* Entries *)

\* Entries are cleared with the batch, whose session and size never change.
LEMMA EntriesCurrentNext ==
    ASSUME FullInv, EntriesCurrent, [Next]_vars
    PROVE  EntriesCurrent'
  <1>1. CASE StartBatch
    <2>1. \A k \in Keys : entries'[k] = None
      BY <1>1 DEF StartBatch, BeginBatch, Clear, NoEntries
    <2> QED BY <2>1 DEF EntriesCurrent
  <1>2. CASE LeaveWarmup
    BY <1>2 DEF LeaveWarmup, EndWarmup, Sampling, EntriesCurrent
  <1>3. CASE StartEval \/ ((SkipEval \/ EndStep) /\ UNCHANGED <<policyVars, moved, drift>>) \/ UNCHANGED vars
    <2>1. UNCHANGED <<entries, session, size>> /\ (Sampling' => Sampling /\ batch' = batch)
      BY <1>3 DEF StartEval, SetContext, SkipEval, EndStep, cacheVars, Sampling, vars, driverVars
    <2> QED BY <2>1 DEF EntriesCurrent
  <1>4. ASSUME NEW m \in Modules, Forward(m) PROVE EntriesCurrent'
    <2>1. Call(m) /\ cfg' = cfg
      BY <1>4 DEF Forward, ForwardInactive, ForwardMiss, ForwardRefresh, ForwardReuse, policyVars
    <2>2. PICK key \in Keys : key = KeyOf(m)
      BY <2>1, CallFrame
    <2>3. /\ session' = session /\ UNCHANGED <<size, batch>> /\ Sampling
          /\ \A k \in Keys : entries'[k] = entries[k] \/
               (k = key /\ m \notin NonTensorModules /\ entries'[k] = NewEntry)
      BY <1>4, <2>1, <2>2, ForwardAnswers, CallFrame
    <2>4. /\ key[1] = m /\ key[4] = size /\ NewEntry.batch = batch
          /\ NewEntry.signature = [batch_size |-> size, session_id |-> session]
      BY <2>2 DEF KeyOf, NewEntry, Signature
    <2> QED BY <2>3, <2>4 DEF EntriesCurrent
  <1> QED BY <1>1, <1>2, <1>3, <1>4 DEF Next, Terminated

\* Each evaluation is observed, or shares the signal of one that was.
LEMMA DecidedNext ==
    ASSUME FullInv, Decided, [Next]_vars
    PROVE  Decided'
  <1>1. CASE StartBatch
    <2>1. \A i \in 1..Len(Evals') : ~Begun(i)'
      BY <1>1 DEF StartBatch, BeginBatch, Begun
    <2> QED BY <2>1 DEF Decided
  <1>2. CASE LeaveWarmup
    BY <1>2 DEF LeaveWarmup, EndWarmup, Sampling, Decided
  <1>3. CASE EndStep /\ UNCHANGED <<policyVars, moved, drift>>
    <2>1. Sampling' => \A i \in 1..Len(Evals') : ~Begun(i)'
      BY <1>3 DEF EndStep, Sampling, Begun
    <2> QED BY <2>1 DEF Decided
  <1>4. CASE SkipEval /\ UNCHANGED <<policyVars, moved, drift>>
    <2>1. UNCHANGED <<sampler, size, cfg, step, decision, accumulated>> /\ Sampling
      BY <1>4 DEF SkipEval, policyVars, Sampling
    <2>2. Evals' = Evals /\ pass \in Nat
      BY <2>1, EvalsKept DEF FullInv, TypeOK
    <2>3. \A i \in 1..Len(Evals) : Begun(i)' => Begun(i) \/ ~Runs(Evals[i].stage, step)
      BY <1>4, <2>2 DEF SkipEval, Begun
    <2> QED BY <2>1, <2>2, <2>3, Frame DEF Decided
  <1>5. CASE StartEval
    <2>1. /\ RuntimeTyped /\ PolicyTyped /\ Sampling /\ at = "pass" /\ at' = "module"
          /\ pass \in 1..Len(Evals) /\ UNCHANGED <<sampler, size, cfg, step, pass>> /\ Evals' = Evals
          /\ Evals[pass].branch \in Branches /\ Evals[pass].stage \in Stages
          /\ Runs(Evals[pass].stage, step)
      BY <1>5, StartFacts
    <2>2. \A i \in 1..Len(Evals) : Begun(i)' => Begun(i) \/ i = pass
      BY <2>1 DEF Begun
    <2>3. PICK g \in Signals : g = SignalOf(Evals[pass].branch, Evals[pass].stage)
      BY <2>1, SignalTyped
    <2>4. CASE Observes(Evals[pass].branch)
      <3>1. PICK d \in DistancesFor(Evals[pass].branch) :
              Update(g, step, TimeOf(Evals[pass].stage, step), d)
        BY <1>5, <2>3, <2>4 DEF StartEval, Observe
      <3>2. d \in Nat /\ step \in StepIdx
        BY <2>1, <3>1, DynamicAssumption DEF DistancesFor, PolicyTyped, RuntimeTyped
      <3>3. /\ \A h \in Signals \ {g} : accumulated'[h] = accumulated[h] /\ decision'[h] = decision[h]
            /\ decision'[g] # None /\ decision'[g].step = step
            /\ (decision'[g].refresh /\ accumulated'[g] = 0) \/ ~decision'[g].refresh
        BY <2>1, <3>1, <3>2, UpdateTyped
      <3>4. ASSUME NEW i \in 1..Len(Evals), Begun(i)', Runs(Evals[i].stage, step), NEW h \in Signals,
                   h = SignalOf(Evals[i].branch, Evals[i].stage)
            PROVE  /\ decision'[h] # None /\ decision'[h].step = step
                   /\ decision'[h].refresh => accumulated'[h] = 0
        <4>1. CASE h = g
          BY <3>3, <4>1
        <4>2. CASE h # g
          <5>1. Begun(i)
            BY <2>2, <2>3, <3>4, <4>2
          <5> QED BY <2>1, <3>3, <3>4, <4>2, <5>1 DEF Decided
        <4> QED BY <4>1, <4>2
      <3>5. \A i \in 1..Len(Evals) : SignalOf(Evals[i].branch, Evals[i].stage) \in Signals
        BY <2>1, EvalsShape, SignalTyped DEF RuntimeTyped
      <3> QED BY <2>1, <3>4, <3>5, Frame DEF Decided
    <2>5. CASE ~Observes(Evals[pass].branch)
      <3>1. UNCHANGED <<accumulated, decision>>
        BY <1>5, <2>5 DEF StartEval, observation
      <3>2. sampler = "jit" /\ Evals[pass].branch = "uncond" /\ ~cfg.per_branch
        BY <2>5 DEF Observes
      <3>3. Len(Evals) = 2 /\ Evals[1] = Eval("cond", "euler") /\ Evals[2] = Eval("uncond", "euler")
        BY <2>1, <3>2, EvalsAre DEF RuntimeTyped
      <3>4. pass = 2 /\ Begun(1) /\ Runs(Evals[1].stage, step) /\ 1 \in 1..Len(Evals)
        BY <2>1, <3>2, <3>3, EvalParts DEF Begun, Runs
      <3>5. SignalOf(Evals[1].branch, Evals[1].stage) = Shared /\ g = Shared
        BY <2>3, <3>2, SignalsShared
      <3>6. decision[Shared] # None /\ decision[Shared].step = step
            /\ (decision[Shared].refresh => accumulated[Shared] = 0)
        BY <2>1, <3>4, <3>5 DEF Decided
      <3>7. \A i \in 1..Len(Evals) : SignalOf(Evals[i].branch, Evals[i].stage) = Shared
        BY <3>2, SignalsShared
      <3> QED BY <2>1, <3>1, <3>6, <3>7, Frame DEF Decided
    <2> QED BY <2>4, <2>5
  <1>6. ASSUME NEW m \in Modules, Forward(m) PROVE Decided'
    <2>1. Call(m) /\ UNCHANGED <<cfg, decision, accumulated>>
      BY <1>6 DEF Forward, ForwardInactive, ForwardMiss, ForwardRefresh, ForwardReuse, policyVars
    <2>2. /\ UNCHANGED <<sampler, size, step>> /\ Evals' = Evals /\ Sampling
          /\ pass \in 1..Len(Evals) /\ at = "module"
      BY <2>1, CallFrame
    <2>3. pass' \in {pass, pass + 1} /\ (at' = "module" => pass' = pass)
      BY <2>1 DEF Call, Advance
    <2>4. \A i \in 1..Len(Evals) : Begun(i)' => Begun(i)
      BY <2>2, <2>3 DEF Begun
    <2> QED BY <2>1, <2>2, <2>4, Frame DEF Decided
  <1>7. CASE UNCHANGED vars
    <2>1. UNCHANGED <<sampler, at, size, step, pass, cfg, decision, accumulated>>
      BY <1>7 DEF vars, driverVars, policyVars
    <2>2. Evals' = Evals
      BY <2>1, EvalsKept
    <2> QED BY <2>1, <2>2, Frame DEF Decided, Begun, Sampling
  <1> QED BY <1>1, <1>2, <1>3, <1>4, <1>5, <1>6, <1>7 DEF Next, Terminated

-----------------------------------------------------------------------------
(* What a step observes and calls *)

\* What update() computes.
LEMMA UpdateGives ==
    ASSUME PolicyTyped, NEW g \in Signals, NEW s \in StepIdx, NEW t, NEW d \in Nat, Update(g, s, t, d)
    PROVE  /\ seen' = seen \cup {g}
           /\ decision'[g].refresh <=> Forced(g, s, t) \/ accumulated[g] + d > cfg.threshold
           /\ decision'[g].forced <=> Forced(g, s, t)
           /\ accumulated'[g] = Kept(decision'[g].refresh, accumulated[g] + d)
  <1>1. PICK forced \in BOOLEAN : forced = Forced(g, s, t)
    BY DEF Forced
  <1>2. PICK sum \in Nat : sum = Accumulate(g, d) /\ sum = accumulated[g] + d
    BY DEF Accumulate, PolicyTyped
  <1>3. PICK refresh \in BOOLEAN : refresh = (forced \/ sum > cfg.threshold)
    OBVIOUS
  <1>4. PICK r : r = [step |-> s, refresh |-> refresh, forced |-> forced]
    OBVIOUS
  <1>5. /\ seen' = seen \cup {g}
        /\ accumulated' = [accumulated EXCEPT ![g] = Kept(refresh, sum)]
        /\ decision' = [decision EXCEPT ![g] = r]
    BY <1>1, <1>2, <1>3, <1>4 DEF Update
  <1>6. decision'[g] = r /\ accumulated'[g] = Kept(refresh, sum)
    BY <1>5 DEF PolicyTyped
  <1>7. r.refresh = refresh /\ r.forced = forced
    BY <1>4
  <1> QED BY <1>1, <1>2, <1>3, <1>5, <1>6, <1>7

\* The start of an evaluation that is observed.
LEMMA StartGives ==
    ASSUME FullInv, StartEval, Observes(Evals[pass].branch), NEW g \in Signals,
           g = SignalOf(Evals[pass].branch, Evals[pass].stage)
    PROVE  \E d \in Nat :
             /\ d \in DistancesFor(Evals[pass].branch) /\ moved' = d
             /\ seen' = seen \cup {g}
             /\ decision'[g].refresh <=> \/ Forced(g, step, TimeOf(Evals[pass].stage, step))
                                         \/ accumulated[g] + d > cfg.threshold
             /\ decision'[g].forced <=> Forced(g, step, TimeOf(Evals[pass].stage, step))
             /\ accumulated'[g] = Kept(decision'[g].refresh, accumulated[g] + d)
             /\ \A h \in Signals \ {g} : accumulated'[h] = accumulated[h] /\ decision'[h] = decision[h]
             /\ \A k \in Keys : drift'[k] = IF SignalOfKey(k) = g THEN drift[k] + d ELSE drift[k]
  <1>1. PICK d \in DistancesFor(Evals[pass].branch) :
          /\ Update(g, step, TimeOf(Evals[pass].stage, step), d)
          /\ moved' = d
          /\ drift' = [k \in Keys |-> IF SignalOfKey(k) = g THEN drift[k] + d ELSE drift[k]]
    BY DEF StartEval, Observe
  <1>2. d \in Nat /\ step \in StepIdx /\ PolicyTyped
    BY <1>1, StartFacts, DynamicAssumption DEF DistancesFor, PolicyTyped, RuntimeTyped
  <1>3. \A h \in Signals \ {g} : accumulated'[h] = accumulated[h] /\ decision'[h] = decision[h]
    BY <1>1, <1>2, UpdateTyped
  <1>4. /\ seen' = seen \cup {g}
        /\ decision'[g].refresh <=> \/ Forced(g, step, TimeOf(Evals[pass].stage, step))
                                    \/ accumulated[g] + d > cfg.threshold
        /\ decision'[g].forced <=> Forced(g, step, TimeOf(Evals[pass].stage, step))
        /\ accumulated'[g] = Kept(decision'[g].refresh, accumulated[g] + d)
    BY <1>1, <1>2, UpdateGives
  <1>5. \A k \in Keys : drift'[k] = IF SignalOfKey(k) = g THEN drift[k] + d ELSE drift[k]
    BY <1>1
  <1> QED BY <1>1, <1>2, <1>3, <1>4, <1>5

\* Or is not.
LEMMA StartGivesNothing ==
    ASSUME FullInv, StartEval, ~Observes(Evals[pass].branch)
    PROVE  /\ UNCHANGED <<seen, accumulated, decision, moved, drift>>
           /\ sampler = "jit" /\ ~cfg.per_branch /\ pass = 2
  <1>1. sampler = "jit" /\ ~cfg.per_branch /\ Evals[pass].branch = "uncond"
    BY DEF Observes
  <1>2. Len(Evals) = 2 /\ Evals[1].branch = "cond" /\ pass \in 1..Len(Evals)
    BY <1>1, StartFacts, EvalsAre, EvalParts DEF RuntimeTyped
  <1>3. pass # 1
    BY <1>1, <1>2
  <1>4. pass = 2
    BY <1>2, <1>3
  <1> QED BY <1>1, <1>4 DEF StartEval, observation

\* Nothing is called between two evaluations.
LEMMA StartCallsNothing ==
    ASSUME FullInv, StartEval
    PROVE  \A k \in Keys : CalledNow(k)' <=> CalledNow(k)
  <1>1. \A b, st : Eval(b, st)' = Eval(b, st)
    BY DEF Eval
  <1>2. ASSUME NEW k \in Keys PROVE ~(k[1] < module')
    BY StartFacts, SignalTyped, RuntimeAssumption DEF Modules
  <1> QED BY <1>1, <1>2, StartFacts DEF CalledNow

\* What a call leaves alone, under any policy.
LEMMA CallRuns ==
    ASSUME RuntimeTyped, Control, NEW m \in Modules, Call(m)
    PROVE  /\ Sampling /\ Sampling' /\ at = "module" /\ module = m
           /\ UNCHANGED <<sampler, batch, size, step, context>> /\ Evals' = Evals
           /\ pass \in 1..Len(Evals) /\ Len(Evals) <= 2 /\ context.step = step /\ step \in StepIdx
           /\ context.branch \in Branches /\ context.stage \in Stages
           /\ context.t = TimeOf(context.stage, step)
           /\ Evals[pass] = Eval(context.branch, context.stage)
           /\ KeyOf(m) \in Keys /\ NewEntry \in Entry /\ batch \in BatchIdx
           /\ at' \in {"module", "pass"}
  <1>1. Calls(m)
    BY CallsAre
  <1>2. Evals' = Evals
    BY EvalsKept DEF Call, Advance
  <1> QED BY <1>1, <1>2, CallsFacts DEF Call, Advance, Sampling, RuntimeTyped

\* The key of a call has not been called before at its step, and is not again.
LEMMA CallsOnce ==
    ASSUME RuntimeTyped, Control, NEW m \in Modules, Call(m), NEW key \in Keys, key = KeyOf(m)
    PROVE  /\ ~CalledNow(key) /\ ~Ahead(key)'
           /\ \A k \in Keys : k[4] = size =>
                (CalledNow(k)' <=> CalledNow(k) \/ k = key)
           /\ \A k \in Keys : Ahead(k)' => Ahead(k)
  <1> USE CallRuns
  <1>1. \A b, st : Eval(b, st)' = Eval(b, st)
    BY DEF Eval
  <1>2. /\ m < NumModules => module' = m + 1 /\ at' = "module" /\ pass' = pass
        /\ ~(m < NumModules) => at' = "pass" /\ pass' = pass + 1
        /\ m \in 1..NumModules /\ NumModules \in Nat
    BY RuntimeAssumption DEF Call, Advance, Modules
  <1>3. key[1] = m /\ key[2] = context.branch /\ key[3] = context.stage /\ key[4] = size
    BY DEF KeyOf
  <1>4. Evals[pass] = Eval(key[2], key[3])
    BY <1>3
  <1>5. \A i \in 1..Len(Evals) : Evals[i] = Eval(key[2], key[3]) => i = pass
    BY <1>4, EvalsShape DEF RuntimeTyped
  <1>6. ~CalledNow(key)
    BY <1>2, <1>3, <1>5 DEF CalledNow
  <1>7. ~Ahead(key)'
    <2>1. SUFFICES ASSUME NEW i \in pass'..Len(Evals), Evals[i] = Eval(key[2], key[3]),
                          i = pass' /\ at' = "module" => module' <= m
                   PROVE  FALSE
      BY <1>1, <1>3 DEF Ahead
    <2>2. i \in 1..Len(Evals) /\ i >= pass'
      BY <1>2, <2>1
    <2>3. i = pass
      BY <1>5, <2>1, <2>2
    <2> QED BY <1>2, <2>1, <2>2, <2>3
  <1>8. ASSUME NEW k \in Keys, k[4] = size PROVE CalledNow(k)' <=> CalledNow(k) \/ k = key
    <2>1. k[1] \in 1..NumModules /\ k = <<k[1], k[2], k[3], k[4]>>
      BY SignalTyped DEF Modules
    <2>2. k = key <=> Evals[pass] = Eval(k[2], k[3]) /\ k[1] = m
      <3>1. Eval(k[2], k[3]) = Eval(key[2], key[3]) <=> k[2] = key[2] /\ k[3] = key[3]
        BY EvalParts
      <3> QED BY <1>3, <1>4, <1>8, <2>1, <3>1 DEF KeyOf
    <2>3. ASSUME NEW i \in 1..Len(Evals), Evals[i] = Eval(k[2], k[3])
          PROVE  (i < pass' \/ (i = pass' /\ at' = "module" /\ k[1] < module'))
                 <=> (i < pass \/ (i = pass /\ k[1] < m) \/ (i = pass /\ k[1] = m))
      BY <1>2, <2>1
    <2>4. CalledNow(k)' <=> \E i \in 1..Len(Evals) :
                              /\ Evals[i] = Eval(k[2], k[3])
                              /\ i < pass' \/ (i = pass' /\ at' = "module" /\ k[1] < module')
      BY <1>1 DEF CalledNow
    <2>5. CalledNow(k) <=> \E i \in 1..Len(Evals) : /\ Evals[i] = Eval(k[2], k[3])
                                                    /\ i < pass \/ (i = pass /\ k[1] < m)
      BY DEF CalledNow
    <2> QED BY <2>2, <2>3, <2>4, <2>5
  <1>9. ASSUME NEW k \in Keys, Ahead(k)' PROVE Ahead(k)
    <2>1. PICK i \in pass'..Len(Evals) : /\ Evals[i] = Eval(k[2], k[3])
                                         /\ i = pass' /\ at' = "module" => module' <= k[1]
      BY <1>1, <1>9 DEF Ahead
    <2>2. k[1] \in 1..NumModules
      BY SignalTyped DEF Modules
    <2>3. i \in pass..Len(Evals) /\ (i = pass /\ at = "module" => module <= k[1])
      BY <1>2, <2>1, <2>2
    <2> QED BY <2>1, <2>3 DEF Ahead
  <1> QED BY <1>6, <1>7, <1>8, <1>9

\* JiT's and DeCo's evaluations are all made.
LEMMA SteadyRuns ==
    ASSUME FullInv, Steady
    PROVE  /\ \A i \in 1..Len(Evals) : Evals[i].stage = "euler" /\ Runs(Evals[i].stage, step)
           /\ ~SkipEval
  <1>1. sampler \in SamplerNames
    BY DEF FullInv, TypeOK
  <1>2. \A i \in 1..Len(Evals) : Evals[i].stage = "euler"
    BY <1>1, EvalsAre, EvalParts DEF Steady
  <1>3. \A i \in 1..Len(Evals) : Runs(Evals[i].stage, step)
    BY <1>2 DEF Runs
  <1>4. pass \in Nat /\ pass >= 1
    BY DEF FullInv, TypeOK
  <1> QED BY <1>2, <1>3, <1>4 DEF SkipEval

-----------------------------------------------------------------------------
(* Sums and drifts *)

\* A step that leaves everything of the policy, or of the batch, alone.
LEMMA Still ==
    ASSUME UNCHANGED vars
    PROVE  /\ UNCHANGED <<sampler, at, batch, size, step, pass, module, session, entries, cfg, seen,
                          accumulated, decision, moved, drift>>
           /\ Evals' = Evals /\ (Steady' <=> Steady) /\ (Sampling' <=> Sampling)
           /\ \A i : Begun(i)' <=> Begun(i)
           /\ \A k : (CalledNow(k)' <=> CalledNow(k)) /\ (RefreshOwed(k)' <=> RefreshOwed(k))
  <1>1. UNCHANGED <<sampler, at, batch, size, step, pass, module, session, entries, cfg, seen,
                    accumulated, decision, moved, drift>>
    BY DEF vars, driverVars, cacheVars, policyVars
  <1>2. Evals' = Evals /\ (\A b, st : Eval(b, st)' = Eval(b, st))
    BY <1>1, EvalsKept DEF Eval
  <1>3. \A k : CalledNow(k)' <=> CalledNow(k)
    BY <1>1, <1>2 DEF CalledNow
  <1>4. \A k : RefreshOwed(k)' <=> RefreshOwed(k)
    BY <1>1, <1>2, Frame DEF RefreshOwed
  <1> QED BY <1>1, <1>2, <1>3, <1>4 DEF Sampling, Begun, Steady

\* The new batch and the new step.
LEMMA StartsOver ==
    ASSUME StartBatch
    PROVE  /\ step' = 0 /\ pass' = 1 /\ at' = "pass" /\ sampler' = sampler /\ cfg' = cfg
           /\ seen' = {} /\ \A g \in Signals : accumulated'[g] = 0
           /\ \A k \in Keys : entries'[k] = None
           /\ \A i \in 1..2 : ~Begun(i)'
           /\ \A k : ~CalledNow(k)'
  <1>1. step' = 0 /\ pass' = 1 /\ at' = "pass" /\ sampler' = sampler
    BY DEF StartBatch, BeginBatch
  <1>2. \A k \in Keys : entries'[k] = None
    BY DEF StartBatch, BeginBatch, Clear, NoEntries
  <1> QED BY <1>1, <1>2 DEF StartBatch, ClearBatch, Begun, CalledNow

\* The end of a step that is not the last.
LEMMA StepsOn ==
    ASSUME FullInv, EndStep, UNCHANGED <<policyVars, moved, drift>>, Sampling'
    PROVE  /\ step \in StepIdx /\ step' = step + 1 /\ pass' = 1 /\ at' = "pass" /\ Sampling /\ at = "pass"
           /\ pass > Len(Evals) /\ pass \in Nat
           /\ UNCHANGED <<sampler, batch, size, cfg, session, entries, seen, accumulated, decision, moved, drift>>
           /\ Evals' = Evals
           /\ \A k \in Keys : Live(k) => CalledNow(k)
           /\ \A i \in 1..2 : ~Begun(i)'
           /\ \A k : ~CalledNow(k)'
  <1>1. /\ step' = step + 1 /\ pass' = 1 /\ at' = "pass" /\ at = "pass" /\ pass > Len(Evals)
        /\ UNCHANGED <<sampler, batch, size, session, entries>>
    BY DEF EndStep, Sampling, cacheVars
  <1>2. Sampling /\ Evals' = Evals
    BY <1>1, EvalsKept DEF Sampling
  <1>3. pass \in Nat /\ step \in StepIdx
    BY DEF FullInv, TypeOK
  <1> QED BY <1>1, <1>2, <1>3, AllCalled DEF policyVars, Begun, CalledNow

\* The first call of a live key stores its output, and nothing drops it.
LEMMA StoredNext ==
    ASSUME FullInv, EntriesCurrent, Stored, [Next]_vars
    PROVE  Stored'
  <1>1. CASE StartBatch
    <2>1. step' = 0 /\ \A k : ~CalledNow(k)'
      BY <1>1, StartsOver
    <2> QED BY <2>1 DEF Stored
  <1>2. CASE LeaveWarmup
    BY <1>2 DEF LeaveWarmup, EndWarmup, Sampling, Steady, Stored
  <1>3. CASE StartEval
    <2>1. UNCHANGED <<sampler, size, cfg, step, entries>> /\ Sampling
      BY <1>3, StartFacts
    <2>2. \A k \in Keys : (CalledNow(k)' <=> CalledNow(k)) /\ (Live(k)' <=> Live(k))
      BY <1>3, <2>1, StartCallsNothing, Frame
    <2> QED BY <2>1, <2>2 DEF Stored, Steady
  <1>4. CASE SkipEval /\ UNCHANGED <<policyVars, moved, drift>>
    <2>1. Sampling /\ sampler' = sampler
      BY <1>4 DEF SkipEval, Sampling
    <2> QED BY <1>4, <2>1, SteadyRuns DEF Stored, Steady
  <1>5. CASE EndStep /\ UNCHANGED <<policyVars, moved, drift>>
    <2>1. SUFFICES ASSUME Steady', NEW k \in Keys, Live(k)', k[1] \notin NonTensorModules
                   PROVE  entries'[k] # None
      BY DEF Stored
    <2>2. Sampling' /\ sampler' \in {"jit", "deco"}
      BY <2>1 DEF Steady
    <2>3. Steady /\ entries' = entries /\ CalledNow(k)
      BY <1>5, <2>1, <2>2, StepsOn, Frame DEF Steady
    <2>4. Live(k)
      BY <1>5, <2>1, <2>2, StepsOn, Frame
    <2> QED BY <2>1, <2>3, <2>4 DEF Stored
  <1>6. ASSUME NEW m \in Modules, Forward(m) PROVE Stored'
    <2>1. Call(m) /\ cfg' = cfg
      BY <1>6 DEF Forward, ForwardInactive, ForwardMiss, ForwardRefresh, ForwardReuse, policyVars
    <2>2. PICK key \in Keys : key = KeyOf(m)
      BY <2>1, CallFrame
    <2>3. SUFFICES ASSUME Steady', NEW k \in Keys, Live(k)', k[1] \notin NonTensorModules,
                          step' > 0 \/ CalledNow(k)'
                   PROVE  entries'[k] # None
      BY DEF Stored
    <2>4. UNCHANGED <<sampler, size, step>> /\ Sampling /\ Live(k) /\ Steady /\ k[4] = size
      BY <2>1, <2>3, CallFrame, Frame DEF Steady, Live
    <2>5. NewEntry # None
      BY <2>1, CallFrame, NoneAssumption
    <2>6. CASE k = key
      <3>1. key[1] = m
        BY <2>2 DEF KeyOf
      <3> QED BY <1>6, <2>2, <2>3, <2>4, <2>5, <2>6, <3>1, ForwardAnswers
    <2>7. CASE k # key
      <3>1. entries'[k] = entries[k]
        BY <1>6, <2>2, <2>7, ForwardAnswers
      <3>2. step > 0 \/ CalledNow(k)
        BY <2>1, <2>2, <2>3, <2>4, <2>7, CallsOnce, CallFrame
      <3> QED BY <2>3, <2>4, <3>1, <3>2 DEF Stored
    <2> QED BY <2>6, <2>7
  <1>7. CASE UNCHANGED vars
    BY <1>7, Still, Frame DEF Stored
  <1> QED BY <1>1, <1>2, <1>3, <1>4, <1>5, <1>6, <1>7 DEF Next, Terminated

\* The first observation of a signal is forced and leaves an empty sum.
LEMMA SumStartsNext ==
    ASSUME FullInv, SumStarts, [Next]_vars
    PROVE  SumStarts'
  <1>1. CASE StartBatch
    BY <1>1, StartsOver DEF SumStarts
  <1>2. CASE LeaveWarmup
    BY <1>2 DEF LeaveWarmup, EndWarmup, Sampling, Steady, SumStarts
  <1>3. CASE StartEval
    <2>1. SUFFICES ASSUME Steady', step' = 0 PROVE SumStarts'
      BY DEF SumStarts
    <2>2. /\ UNCHANGED <<sampler, size, cfg, step>> /\ Sampling /\ Steady /\ step = 0 /\ Evals' = Evals
          /\ pass \in 1..Len(Evals) /\ at = "pass"
          /\ Evals[pass].branch \in Branches /\ Evals[pass].stage \in Stages
          /\ RuntimeTyped /\ PolicyTyped
      BY <1>3, <2>1, StartFacts DEF Steady
    <2>3. PICK g \in Signals : g = SignalOf(Evals[pass].branch, Evals[pass].stage)
      BY <2>2, SignalTyped
    <2>4. \A i \in 1..Len(Evals) : (Begun(i) => Begun(i)') /\ (i = pass => Begun(i)')
      BY <1>3, StartCalls
    <2>5. CASE Observes(Evals[pass].branch)
      <3>1. PICK d \in Nat :
              /\ seen' = seen \cup {g}
              /\ decision'[g].refresh <=> \/ Forced(g, step, TimeOf(Evals[pass].stage, step))
                                          \/ accumulated[g] + d > cfg.threshold
              /\ accumulated'[g] = Kept(decision'[g].refresh, accumulated[g] + d)
              /\ \A h \in Signals \ {g} : accumulated'[h] = accumulated[h] /\ decision'[h] = decision[h]
        BY <1>3, <2>3, <2>5, StartGives
      <3>2. g \notin seen
        <4>1. SUFFICES ASSUME g \in seen PROVE FALSE
          OBVIOUS
        <4>2. PICK i \in 1..Len(Evals) : SignalOf(Evals[i].branch, Evals[i].stage) = g /\ i < pass
          BY <2>2, <4>1 DEF SumStarts, Begun
        <4>3. Evals[i] # Evals[pass] /\ Len(Evals) = 2 /\ pass = 2
          BY <2>2, <4>2, EvalsShape DEF RuntimeTyped
        <4>4. ~cfg.per_branch
          BY <2>2, <2>3, <4>2, <4>3, SignalsApart, EvalsShape DEF RuntimeTyped
        <4>5. sampler = "jit" /\ Evals[2].branch = "uncond"
          BY <2>2, <4>3, EvalsAre, EvalParts DEF RuntimeTyped, Steady
        <4> QED BY <2>5, <4>3, <4>4, <4>5 DEF Observes
      <3>3. decision'[g].refresh
        BY <3>1, <3>2 DEF Forced
      <3>4. accumulated'[g] = 0
        BY <3>1, <3>3 DEF Kept
      <3>5. \A h \in Signals : accumulated'[h] = 0
        BY <2>2, <3>1, <3>4 DEF SumStarts
      <3>6. ASSUME NEW h \in Signals, h \in seen'
            PROVE  \E i \in 1..Len(Evals) : SignalOf(Evals[i].branch, Evals[i].stage) = h /\ Begun(i)'
        <4>1. CASE h = g
          BY <2>2, <2>3, <2>4, <4>1
        <4>2. CASE h # g
          BY <2>2, <2>4, <3>1, <3>6, <4>2 DEF SumStarts
        <4> QED BY <4>1, <4>2
      <3> QED BY <2>2, <3>5, <3>6, Frame DEF SumStarts
    <2>6. CASE ~Observes(Evals[pass].branch)
      <3>1. UNCHANGED <<seen, accumulated>>
        BY <1>3, <2>6, StartGivesNothing
      <3>2. ASSUME NEW h \in Signals, h \in seen
            PROVE  \E i \in 1..Len(Evals) : SignalOf(Evals[i].branch, Evals[i].stage) = h /\ Begun(i)'
        BY <2>2, <2>4, <3>2 DEF SumStarts
      <3> QED BY <2>2, <3>1, <3>2, Frame DEF SumStarts
    <2> QED BY <2>5, <2>6
  <1>4. CASE SkipEval /\ UNCHANGED <<policyVars, moved, drift>>
    <2>1. Sampling /\ sampler' = sampler
      BY <1>4 DEF SkipEval, Sampling
    <2> QED BY <1>4, <2>1, SteadyRuns DEF SumStarts, Steady
  <1>5. CASE EndStep /\ UNCHANGED <<policyVars, moved, drift>>
    <2>1. Sampling' => step' # 0
      BY <1>5, StepsOn DEF StepIdx
    <2> QED BY <2>1 DEF SumStarts, Steady
  <1>6. ASSUME NEW m \in Modules, Forward(m) PROVE SumStarts'
    <2>1. Call(m) /\ UNCHANGED <<cfg, seen, accumulated>>
      BY <1>6 DEF Forward, ForwardInactive, ForwardMiss, ForwardRefresh, ForwardReuse, policyVars
    <2>2. UNCHANGED <<sampler, size, step>> /\ Sampling /\ Evals' = Evals
      BY <2>1, CallFrame
    <2>3. \A i \in 1..Len(Evals) : Begun(i) => Begun(i)'
      BY <2>1, CallMoves
    <2>4. ASSUME Steady, step = 0, NEW h \in Signals, h \in seen
          PROVE  \E i \in 1..Len(Evals) : SignalOf(Evals[i].branch, Evals[i].stage) = h /\ Begun(i)'
      BY <2>3, <2>4 DEF SumStarts
    <2> QED BY <2>1, <2>2, <2>4, Frame DEF SumStarts, Steady
  <1>7. CASE UNCHANGED vars
    BY <1>7, Still, Frame DEF SumStarts
  <1> QED BY <1>1, <1>2, <1>3, <1>4, <1>5, <1>6, <1>7 DEF Next, Terminated

\* The signal of the evaluation under way has decided this step.
LEMMA DecidedNow ==
    ASSUME FullInv, Decided, NEW m \in Modules, Call(m), cfg' = cfg, NEW g \in Signals,
           g = SignalOf(context.branch, context.stage)
    PROVE  /\ decision[g] # None /\ decision[g].step = step
           /\ decision[g].refresh => accumulated[g] = 0
           /\ ShouldRefresh <=> decision[g].refresh
  <1>1. PICK i \in 1..Len(Evals) : i = pass
    BY CallFrame
  <1>2. /\ Begun(i) /\ Runs(Evals[i].stage, step) /\ Sampling /\ context.step = step
        /\ g = SignalOf(Evals[i].branch, Evals[i].stage)
    BY <1>1, CallFrame, EvalParts DEF Begun
  <1>3. /\ decision[g] # None /\ decision[g].step = step
        /\ decision[g].refresh => accumulated[g] = 0
    BY <1>2 DEF Decided
  <1> QED BY <1>2, <1>3 DEF ShouldRefresh, DecisionNow

\* The sum and the drift grow together; the sum is emptied with it or before it.
LEMMA DriftCoversNext ==
    ASSUME FullInv, EntriesCurrent, Decided, Stored, SumStarts, DriftCoversSum, [Next]_vars
    PROVE  DriftCoversSum'
  <1>1. CASE StartBatch
    BY <1>1, StartsOver DEF DriftCoversSum
  <1>2. CASE LeaveWarmup
    BY <1>2 DEF LeaveWarmup, EndWarmup, Sampling, Steady, DriftCoversSum
  <1>3. CASE StartEval
    <2>1. SUFFICES ASSUME Steady', NEW k \in Keys, entries'[k] # None, NEW s \in Signals, s = SignalOfKey(k)
                   PROVE  /\ drift'[k] >= accumulated'[s]
                          /\ RefreshOwed(k)' /\ ~decision'[s].forced => drift'[k] > cfg.threshold
      BY <1>3, StartFacts, Frame, SignalTyped DEF DriftCoversSum
    <2>2. /\ UNCHANGED <<sampler, size, cfg, step, entries>> /\ Sampling /\ Steady
          /\ pass \in 1..Len(Evals) /\ PolicyTyped
          /\ Evals[pass].branch \in Branches /\ Evals[pass].stage \in Stages
      BY <1>3, <2>1, StartFacts DEF Steady
    <2>3. /\ drift[k] >= accumulated[s]
          /\ RefreshOwed(k) /\ ~decision[s].forced => drift[k] > cfg.threshold
      BY <2>1, <2>2 DEF DriftCoversSum
    <2>4. (Ahead(k)' <=> Ahead(k)) /\ SignalOfKey(k)' = s
      BY <1>3, <2>1, <2>2, StartCalls, Frame
    <2>5. RefreshOwed(k) <=> decision[s] # None /\ decision[s].refresh /\ decision[s].step = step /\ Ahead(k)
      BY <2>1, OwedIsAhead
    <2>6. RefreshOwed(k)' <=> decision'[s] # None /\ decision'[s].refresh /\ decision'[s].step = step /\ Ahead(k)'
      BY <2>2, <2>4 DEF RefreshOwed, Ahead
    <2>7. drift[k] \in Nat /\ accumulated[s] \in Nat /\ cfg.threshold \in Nat
      BY <2>1, <2>2, DynamicAssumption DEF PolicyTyped, ConfigOK
    <2>8. PICK g \in Signals : g = SignalOf(Evals[pass].branch, Evals[pass].stage)
      BY <2>2, SignalTyped
    <2>9. CASE Observes(Evals[pass].branch)
      <3>1. PICK d \in Nat :
              /\ decision'[g].refresh <=> \/ Forced(g, step, TimeOf(Evals[pass].stage, step))
                                          \/ accumulated[g] + d > cfg.threshold
              /\ decision'[g].forced <=> Forced(g, step, TimeOf(Evals[pass].stage, step))
              /\ accumulated'[g] = Kept(decision'[g].refresh, accumulated[g] + d)
              /\ \A h \in Signals \ {g} : accumulated'[h] = accumulated[h] /\ decision'[h] = decision[h]
              /\ drift'[k] = IF s = g THEN drift[k] + d ELSE drift[k]
        BY <1>3, <2>1, <2>8, <2>9, StartGives
      <3>2. CASE s = g
        <4>1. accumulated'[s] \in {0, accumulated[s] + d} /\ drift'[k] = drift[k] + d
          BY <3>1, <3>2 DEF Kept
        <4>2. RefreshOwed(k)' /\ ~decision'[s].forced => accumulated[s] + d > cfg.threshold
          BY <2>6, <3>1, <3>2
        <4> QED BY <2>3, <2>7, <4>1, <4>2
      <3>3. CASE s # g
        BY <2>3, <2>4, <2>5, <2>6, <3>1, <3>3
      <3> QED BY <3>2, <3>3
    <2>10. CASE ~Observes(Evals[pass].branch)
      <3>1. UNCHANGED <<accumulated, decision, drift>>
        BY <1>3, <2>10, StartGivesNothing
      <3> QED BY <2>3, <2>4, <2>5, <2>6, <3>1
    <2> QED BY <2>9, <2>10
  <1>4. CASE SkipEval /\ UNCHANGED <<policyVars, moved, drift>>
    <2>1. Sampling /\ sampler' = sampler
      BY <1>4 DEF SkipEval, Sampling
    <2> QED BY <1>4, <2>1, SteadyRuns DEF DriftCoversSum, Steady
  <1>5. CASE EndStep /\ UNCHANGED <<policyVars, moved, drift>>
    <2>1. SUFFICES ASSUME Steady', NEW k \in Keys, entries'[k] # None, NEW s \in Signals, s = SignalOfKey(k),
                          UNCHANGED <<sampler, size, cfg>>
                   PROVE  /\ drift'[k] >= accumulated'[s]
                          /\ ~RefreshOwed(k)'
      BY <1>5, StepsOn, Frame, SignalTyped DEF DriftCoversSum, Steady
    <2>2. /\ Sampling /\ Sampling' /\ Steady /\ UNCHANGED <<entries, accumulated, decision, drift>>
          /\ step' = step + 1 /\ step \in StepIdx
      BY <1>5, <2>1, StepsOn DEF Steady
    <2>3. drift[k] >= accumulated[s]
      BY <2>1, <2>2 DEF DriftCoversSum
    <2>4. decision[s] # None => decision[s].step \in Nat /\ decision[s].step <= step
      BY <2>1, <2>2 DEF FullInv, DecisionOK, TypeOK, Decision, StepIdx
    <2>5. SignalOfKey(k)' = s
      BY <2>1, Frame
    <2>6. ~RefreshOwed(k)'
      BY <2>2, <2>4, <2>5 DEF RefreshOwed, StepIdx
    <2> QED BY <2>2, <2>3, <2>6
  <1>6. ASSUME NEW m \in Modules, Forward(m) PROVE DriftCoversSum'
    <2>1. Call(m) /\ UNCHANGED <<cfg, accumulated, decision>>
      BY <1>6 DEF Forward, ForwardInactive, ForwardMiss, ForwardRefresh, ForwardReuse, policyVars
    <2>2. PICK key \in Keys : key = KeyOf(m)
      BY <2>1, CallFrame
    <2>3. UNCHANGED <<sampler, size, step>> /\ Sampling /\ PolicyTyped
      BY <2>1, CallFrame
    <2>4. SUFFICES ASSUME Steady', NEW k \in Keys, entries'[k] # None, NEW s \in Signals, s = SignalOfKey(k)
                   PROVE  /\ drift'[k] >= accumulated[s]
                          /\ RefreshOwed(k)' /\ ~decision[s].forced => drift'[k] > cfg.threshold
      BY <2>1, <2>3, Frame, SignalTyped DEF DriftCoversSum
    <2>5. Steady /\ SignalOfKey(k)' = s
      BY <2>1, <2>3, <2>4, Frame DEF Steady
    <2>6. RefreshOwed(k)' => Ahead(k)' /\ (RefreshOwed(k) <=> Ahead(k))
      BY <2>1, <2>3, <2>4, <2>5 DEF RefreshOwed, Ahead
    <2>7. RefreshOwed(k)' => RefreshOwed(k) /\ k # key
      BY <2>1, <2>2, <2>6, CallsOnce, CallFrame
    <2>8. CASE entries'[k] = entries[k] /\ drift'[k] = drift[k]
      BY <2>4, <2>5, <2>7, <2>8 DEF DriftCoversSum
    <2>9. CASE ~(entries'[k] = entries[k] /\ drift'[k] = drift[k])
      <3>1. /\ k = key /\ Live(key) /\ (entries[key] = None \/ ShouldRefresh) /\ drift'[key] = 0
            /\ entries'[key] = IF m \in NonTensorModules THEN entries[key] ELSE NewEntry
        BY <1>6, <2>2, <2>9, ForwardAnswers
      <3>2. s = SignalOf(context.branch, context.stage) /\ key[1] = m
        BY <2>2, <2>4, <3>1 DEF KeyOf, SignalOfKey
      <3>3. ShouldRefresh => accumulated[s] = 0
        BY <2>1, <2>4, <3>2, DecidedNow
      <3>4. entries[key] = None => accumulated[s] = 0
        <4>1. SUFFICES ASSUME entries[key] = None PROVE accumulated[s] = 0
          OBVIOUS
        <4>2. m \notin NonTensorModules
          BY <2>4, <3>1, <4>1
        <4>3. ~(step > 0) /\ step \in Nat
          BY <2>5, <3>1, <3>2, <4>1, <4>2 DEF Stored, FullInv, TypeOK, StepIdx
        <4>4. step = 0
          BY <4>3
        <4> QED BY <2>4, <2>5, <4>4 DEF SumStarts
      <3> QED BY <2>7, <3>1, <3>3, <3>4
    <2> QED BY <2>8, <2>9
  <1>7. CASE UNCHANGED vars
    BY <1>7, Still, Frame DEF DriftCoversSum
  <1> QED BY <1>1, <1>2, <1>3, <1>4, <1>5, <1>6, <1>7 DEF Next, Terminated

-----------------------------------------------------------------------------
(* JiT's two branches *)

\* When the keys of JiT's two branches have been called.
LEMMA JitCalls ==
    ASSUME sampler = "jit"
    PROVE  /\ Len(Evals) = 2 /\ Evals[1] = Eval("cond", "euler") /\ Evals[2] = Eval("uncond", "euler")
           /\ \A m : CalledNow(CondKey(m)) <=> 1 < pass \/ (1 = pass /\ at = "module" /\ m < module)
           /\ \A m : CalledNow(UncondKey(m)) <=> 2 < pass \/ (2 = pass /\ at = "module" /\ m < module)
  <1>1. Len(Evals) = 2 /\ Evals[1] = Eval("cond", "euler") /\ Evals[2] = Eval("uncond", "euler")
    BY DEF Evals
  <1>2. \A i \in 1..Len(Evals) : /\ Evals[i] = Eval("cond", "euler") <=> i = 1
                                 /\ Evals[i] = Eval("uncond", "euler") <=> i = 2
    BY <1>1, EvalParts
  <1>3. \A m : /\ CondKey(m)[1] = m /\ CondKey(m)[2] = "cond" /\ CondKey(m)[3] = "euler"
               /\ UncondKey(m)[1] = m /\ UncondKey(m)[2] = "uncond" /\ UncondKey(m)[3] = "euler"
    BY DEF CondKey, UncondKey
  <1> QED BY <1>1, <1>2, <1>3 DEF CalledNow

\* JiT's evaluations, signals and keys.
LEMMA JitEvals ==
    ASSUME FullInv, sampler = "jit"
    PROVE  /\ Len(Evals) = 2 /\ Evals[1] = Eval("cond", "euler") /\ Evals[2] = Eval("uncond", "euler")
           /\ Cond = SignalOf(Evals[1].branch, Evals[1].stage)
           /\ Uncond = SignalOf(Evals[2].branch, Evals[2].stage)
           /\ Cond \in Signals /\ Uncond \in Signals
           /\ Cond = Uncond <=> ~cfg.per_branch
           /\ \A m : CondKey(m)[4] = size /\ UncondKey(m)[4] = size
           /\ \A m : CondKey(m)[1] = m /\ UncondKey(m)[1] = m
           /\ \A m \in Modules : CondKey(m) \in Keys /\ UncondKey(m) \in Keys
           /\ \A m : CalledNow(CondKey(m)) <=> 1 < pass \/ (1 = pass /\ at = "module" /\ m < module)
           /\ \A m : CalledNow(UncondKey(m)) <=> 2 < pass \/ (2 = pass /\ at = "module" /\ m < module)
           /\ \A m : Live(CondKey(m)) <=> /\ cfg.enabled /\ "euler" \in cfg.solver_stages
                                          /\ m \in cfg.cache_modules /\ cfg.cache_cond
           /\ \A m : Live(UncondKey(m)) <=> /\ cfg.enabled /\ "euler" \in cfg.solver_stages
                                            /\ m \in cfg.cache_modules /\ cfg.cache_uncond
  <1>1. sampler \in SamplerNames /\ size \in BatchSizes
    BY DEF FullInv, TypeOK
  <1>2. Len(Evals) = 2 /\ Evals[1] = Eval("cond", "euler") /\ Evals[2] = Eval("uncond", "euler")
    BY JitCalls
  <1>3. \A i \in 1..Len(Evals) : /\ Evals[i] = Eval("cond", "euler") <=> i = 1
                                 /\ Evals[i] = Eval("uncond", "euler") <=> i = 2
    BY <1>2, EvalParts
  <1>4. "cond" \in Branches /\ "uncond" \in Branches /\ "euler" \in Stages
    BY DEF Branches, Stages
  <1>5. Cond \in Signals /\ Uncond \in Signals
    BY <1>4, SignalTyped DEF Cond, Uncond
  <1>6. Cond = Uncond <=> ~cfg.per_branch
    BY DEF Cond, Uncond, SignalOf
  <1>7. /\ Cond = SignalOf(Evals[1].branch, Evals[1].stage)
        /\ Uncond = SignalOf(Evals[2].branch, Evals[2].stage)
    BY <1>2, EvalParts DEF Cond, Uncond
  <1>8. \A m : /\ CondKey(m)[1] = m /\ CondKey(m)[2] = "cond" /\ CondKey(m)[3] = "euler" /\ CondKey(m)[4] = size
               /\ UncondKey(m)[1] = m /\ UncondKey(m)[2] = "uncond" /\ UncondKey(m)[3] = "euler"
               /\ UncondKey(m)[4] = size
    BY DEF CondKey, UncondKey
  <1>9. \A m \in Modules : CondKey(m) \in Keys /\ UncondKey(m) \in Keys
    BY <1>1, <1>4 DEF CondKey, UncondKey, Keys
  <1>10. /\ \A m : CalledNow(CondKey(m)) <=> 1 < pass \/ (1 = pass /\ at = "module" /\ m < module)
         /\ \A m : CalledNow(UncondKey(m)) <=> 2 < pass \/ (2 = pass /\ at = "module" /\ m < module)
    BY JitCalls
  <1>11. \A m : Live(CondKey(m)) <=> /\ cfg.enabled /\ "euler" \in cfg.solver_stages
                                     /\ m \in cfg.cache_modules /\ cfg.cache_cond
    BY <1>2, <1>3, <1>8 DEF Live, BranchEnabled
  <1>12. \A m : Live(UncondKey(m)) <=> /\ cfg.enabled /\ "euler" \in cfg.solver_stages
                                       /\ m \in cfg.cache_modules /\ cfg.cache_uncond
    BY <1>2, <1>3, <1>8 DEF Live, BranchEnabled
  <1> QED BY <1>2, <1>5, <1>6, <1>7, <1>8, <1>9, <1>10, <1>11, <1>12

\* Names that depend only on what a batch does not change.
LEMMA NamesKept ==
    ASSUME UNCHANGED <<sampler, size, cfg>>
    PROVE  /\ Cond' = Cond /\ Uncond' = Uncond
           /\ \A m : CondKey(m)' = CondKey(m) /\ UncondKey(m)' = UncondKey(m)
  BY Frame DEF Cond, Uncond, CondKey, UncondKey

\* Which evaluation of a JiT step starts.
LEMMA JitStarts ==
    ASSUME FullInv, StartEval, sampler = "jit"
    PROVE  /\ pass \in {1, 2} /\ at = "pass" /\ at' = "module" /\ pass' = pass
           /\ pass = 1 => SignalOf(Evals[pass].branch, Evals[pass].stage) = Cond /\ Observes(Evals[pass].branch)
           /\ pass = 2 => /\ SignalOf(Evals[pass].branch, Evals[pass].stage) = Uncond
                          /\ Observes(Evals[pass].branch) <=> cfg.per_branch
                          /\ DistancesFor(Evals[pass].branch) = {moved}
           /\ TimeOf(Evals[pass].stage, step) = step
  <1>1. Len(Evals) = 2 /\ pass \in 1..Len(Evals)
    BY StartFacts, JitEvals
  <1>2. pass \in {1, 2}
    BY <1>1
  <1>3. CASE pass = 1
    <2>1. Evals[pass].branch = "cond" /\ Evals[pass].stage = "euler"
      BY <1>3, JitEvals, EvalParts
    <2> QED BY <1>3, <2>1, StartFacts DEF Cond, Observes, TimeOf
  <1>4. CASE pass = 2
    <2>1. Evals[pass].branch = "uncond" /\ Evals[pass].stage = "euler"
      BY <1>4, JitEvals, EvalParts
    <2> QED BY <1>4, <2>1, StartFacts DEF Uncond, Observes, TimeOf, DistancesFor
  <1> QED BY <1>2, <1>3, <1>4

\* Both branches see the same distances, so their signals decide alike.
LEMMA SignalsAlikeNext ==
    ASSUME FullInv, SignalsAlike, [Next]_vars
    PROVE  SignalsAlike'
  <1>1. CASE StartBatch
    <2>1. Cond' \in Signals /\ Uncond' \in Signals
      <3>1. "cond" \in Branches /\ "uncond" \in Branches /\ "euler" \in Stages
        BY DEF Branches, Stages
      <3> QED BY <3>1 DEF Cond, Uncond, SignalOf, Signals
    <2>2. ~HalfObserved' /\ ~Begun(1)'
      BY <1>1, StartsOver DEF HalfObserved
    <2> QED BY <1>1, <2>1, <2>2, StartsOver DEF SignalsAlike
  <1>2. CASE LeaveWarmup
    BY <1>2 DEF LeaveWarmup, EndWarmup, Sampling, SignalsAlike
  <1>3. CASE StartEval
    <2>1. SUFFICES ASSUME sampler' = "jit", cfg'.per_branch PROVE SignalsAlike'
      BY DEF SignalsAlike
    <2>2. /\ UNCHANGED <<sampler, size, cfg, step, pass>> /\ Sampling /\ sampler = "jit" /\ cfg.per_branch
          /\ PolicyTyped
      BY <1>3, <2>1, StartFacts
    <2>3. /\ Cond \in Signals /\ Uncond \in Signals /\ Cond # Uncond
          /\ Cond' = Cond /\ Uncond' = Uncond
      BY <2>2, JitEvals, NamesKept
    <2>4. PICK t : t = TimeOf(Evals[pass].stage, step) /\ t = step
      BY <1>3, <2>2, JitStarts
    <2>5. CASE pass = 1
      <3>1. HalfObserved' /\ ~HalfObserved
        BY <1>3, <2>2, <2>5, JitStarts DEF HalfObserved
      <3>2. accumulated[Cond] = accumulated[Uncond] /\ (Cond \in seen <=> Uncond \in seen)
        BY <2>2, <3>1 DEF SignalsAlike
      <3>3. PICK d \in Nat :
              /\ moved' = d /\ seen' = seen \cup {Cond}
              /\ decision'[Cond].refresh <=> Forced(Cond, step, t) \/ accumulated[Cond] + d > cfg.threshold
              /\ accumulated'[Cond] = Kept(decision'[Cond].refresh, accumulated[Cond] + d)
              /\ \A h \in Signals \ {Cond} : accumulated'[h] = accumulated[h] /\ decision'[h] = decision[h]
        BY <1>3, <2>2, <2>3, <2>4, <2>5, JitStarts, StartGives
      <3>4. Uncond \in seen' <=> Cond \in seen
        BY <2>3, <3>2, <3>3
      <3>5. Forced(Uncond, step, step)' <=> Forced(Cond, step, step)
        BY <2>2, <2>3, <3>4 DEF Forced, OutsideWindow
      <3>6. accumulated'[Uncond] = accumulated[Cond] /\ Cond \in seen'
        BY <2>3, <3>2, <3>3
      <3>7. accumulated'[Cond] = Kept(decision'[Cond].refresh, accumulated'[Uncond] + moved')
        BY <3>3, <3>6
      <3>8. \/ Forced(Uncond, step, step)' \/ accumulated'[Uncond] + moved' > cfg'.threshold
            <=> decision'[Cond].refresh
        BY <2>2, <2>4, <3>3, <3>5, <3>6
      <3> QED BY <2>2, <2>3, <3>1, <3>6, <3>7, <3>8 DEF SignalsAlike, Kept
    <2>6. CASE pass = 2
      <3>1. HalfObserved /\ ~HalfObserved' /\ Begun(1)'
        BY <1>3, <2>2, <2>6, JitStarts DEF HalfObserved, Begun
      <3>2. /\ Cond \in seen
            /\ decision[Cond].refresh <=> \/ Forced(Uncond, step, step)
                                          \/ accumulated[Uncond] + moved > cfg.threshold
            /\ accumulated[Cond] = Kept(decision[Cond].refresh, accumulated[Uncond] + moved)
        BY <2>2, <3>1 DEF SignalsAlike
      <3>3. PICK d \in Nat :
              /\ d \in {moved} /\ seen' = seen \cup {Uncond}
              /\ decision'[Uncond].refresh <=> Forced(Uncond, step, t) \/ accumulated[Uncond] + d > cfg.threshold
              /\ accumulated'[Uncond] = Kept(decision'[Uncond].refresh, accumulated[Uncond] + d)
              /\ \A h \in Signals \ {Uncond} : accumulated'[h] = accumulated[h] /\ decision'[h] = decision[h]
        BY <1>3, <2>2, <2>3, <2>4, <2>6, JitStarts, StartGives
      <3>4. d = moved /\ Cond \in seen' /\ Uncond \in seen'
        BY <3>2, <3>3
      <3>5. decision'[Cond] = decision[Cond] /\ accumulated'[Cond] = accumulated[Cond]
        BY <2>3, <3>3
      <3>6. decision'[Uncond].refresh <=> decision[Cond].refresh
        BY <2>4, <3>2, <3>3, <3>4
      <3>7. accumulated'[Uncond] = accumulated[Cond]
        BY <3>2, <3>3, <3>4, <3>6 DEF Kept
      <3> QED BY <2>2, <2>3, <3>1, <3>4, <3>5, <3>6, <3>7 DEF SignalsAlike
    <2> QED BY <1>3, <2>2, <2>5, <2>6, JitStarts
  <1>4. CASE SkipEval /\ UNCHANGED <<policyVars, moved, drift>>
    <2>1. Sampling /\ sampler' = sampler
      BY <1>4 DEF SkipEval, Sampling
    <2> QED BY <1>4, <2>1, SteadyRuns DEF SignalsAlike, Steady
  <1>5. CASE EndStep /\ UNCHANGED <<policyVars, moved, drift>>
    <2>1. SUFFICES ASSUME sampler' = "jit", cfg'.per_branch, Sampling' PROVE SignalsAlike'
      BY DEF SignalsAlike
    <2>2. /\ UNCHANGED <<sampler, size, cfg, seen, accumulated>> /\ Sampling
          /\ pass > Len(Evals) /\ at = "pass" /\ pass' = 1 /\ at' = "pass" /\ pass \in Nat
      BY <1>5, <2>1, StepsOn
    <2>3. ~HalfObserved /\ ~HalfObserved' /\ ~Begun(1)'
      BY <2>1, <2>2, JitEvals DEF HalfObserved, Begun
    <2> QED BY <2>1, <2>2, <2>3, NamesKept DEF SignalsAlike
  <1>6. ASSUME NEW m \in Modules, Forward(m) PROVE SignalsAlike'
    <2>1. Call(m) /\ UNCHANGED <<cfg, seen, accumulated, decision, moved>>
      BY <1>6 DEF Forward, ForwardInactive, ForwardMiss, ForwardRefresh, ForwardReuse, policyVars
    <2>2. SUFFICES ASSUME sampler' = "jit", cfg'.per_branch PROVE SignalsAlike'
      BY DEF SignalsAlike
    <2>3. /\ UNCHANGED <<sampler, size, step>> /\ Sampling /\ at = "module" /\ sampler = "jit" /\ cfg.per_branch
          /\ pass \in 1..Len(Evals)
      BY <2>1, <2>2, CallFrame
    <2>4. (at' = "module" /\ pass' = pass) \/ (at' = "pass" /\ pass' = pass + 1)
      BY <2>1 DEF Call, Advance
    <2>5. (HalfObserved' <=> HalfObserved) /\ Begun(1)
      BY <2>2, <2>3, <2>4, JitEvals DEF HalfObserved, Begun
    <2>6. Forced(Uncond, step, step)' <=> Forced(Uncond, step, step)
      BY <2>1, <2>3, NamesKept DEF Forced, OutsideWindow
    <2> QED BY <2>1, <2>3, <2>5, <2>6, NamesKept DEF SignalsAlike
  <1>7. CASE UNCHANGED vars
    <2>1. UNCHANGED <<sampler, at, size, step, pass, cfg, seen, accumulated, decision, moved>>
          /\ (Sampling' <=> Sampling) /\ (Begun(1)' <=> Begun(1))
      BY <1>7, Still
    <2>2. Forced(Uncond, step, step)' <=> Forced(Uncond, step, step)
      BY <2>1, NamesKept DEF Forced, OutsideWindow
    <2> QED BY <2>1, <2>2, NamesKept DEF SignalsAlike, HalfObserved
  <1> QED BY <1>1, <1>2, <1>3, <1>4, <1>5, <1>6, <1>7 DEF Next, Terminated

\* So the second branch of a module follows what the first was answered.
LEMMA PairsNext ==
    ASSUME FullInv, EntriesCurrent, Decided, SignalsAlike, PairsInStep, [Next]_vars
    PROVE  PairsInStep'
  <1>1. CASE StartBatch
    <2>1. SUFFICES ASSUME sampler' = "jit", NEW m \in Modules
                   PROVE  ~CalledNow(CondKey(m))' /\ SameAge(CondKey(m), UncondKey(m))'
      BY DEF PairsInStep
    <2>2. CondKey(m)' \in Keys /\ UncondKey(m)' \in Keys
      <3>1. size' \in BatchSizes
        BY <1>1 DEF StartBatch, BeginBatch
      <3> QED BY <3>1 DEF CondKey, UncondKey, Keys, Branches, Stages
    <2>3. \A k \in Keys : entries'[k] = None
      BY <1>1, StartsOver
    <2>4. entries'[CondKey(m)'] = None /\ entries'[UncondKey(m)'] = None
      BY <2>2, <2>3
    <2>5. ~CalledNow(CondKey(m))'
      <3>1. Evals'[1] = Evals'[1] /\ pass' = 1 /\ at' = "pass"
        BY <1>1, StartsOver
      <3> QED BY <3>1 DEF CalledNow
    <2> QED BY <2>4, <2>5 DEF SameAge
  <1>2. CASE LeaveWarmup
    BY <1>2 DEF LeaveWarmup, EndWarmup, Sampling, PairsInStep
  <1>3. CASE ~StartBatch /\ ~LeaveWarmup
    <2>1. SUFFICES ASSUME sampler' = "jit", Sampling', cfg'.cache_cond, cfg'.cache_uncond,
                          NEW m \in Modules \ NonTensorModules
                   PROVE  IF /\ CalledNow(CondKey(m))' /\ ~CalledNow(UncondKey(m))' /\ Live(UncondKey(m))'
                             /\ (entries[UncondKey(m)] = None \/ decision[Cond].refresh)'
                          THEN (entries[CondKey(m)] # None /\ entries[CondKey(m)].step = step)'
                          ELSE SameAge(CondKey(m), UncondKey(m))'
      BY DEF PairsInStep
    <2>2. /\ UNCHANGED <<sampler, size, cfg>> /\ Sampling /\ Evals' = Evals
      <3>1. CASE StartEval
        BY <3>1, StartFacts
      <3>2. CASE (SkipEval \/ EndStep) /\ UNCHANGED <<policyVars, moved, drift>>
        <4>1. UNCHANGED <<sampler, size, cfg>> /\ Sampling
          BY <3>2 DEF SkipEval, EndStep, policyVars, Sampling
        <4> QED BY <4>1, EvalsKept
      <3>3. ASSUME NEW n \in Modules, Forward(n) PROVE UNCHANGED <<sampler, size, cfg>> /\ Sampling /\ Evals' = Evals
        <4>1. Call(n) /\ cfg' = cfg
          BY <3>3 DEF Forward, ForwardInactive, ForwardMiss, ForwardRefresh, ForwardReuse, policyVars
        <4> QED BY <4>1, CallFrame
      <3>4. CASE UNCHANGED vars
        BY <2>1, <3>4, Still
      <3> QED BY <1>3, <3>1, <3>2, <3>3, <3>4 DEF Next, Terminated
    <2>3. PICK c \in Keys, u \in Keys :
            /\ c = CondKey(m) /\ u = UncondKey(m) /\ c # u /\ c[4] = size /\ u[4] = size
            /\ CondKey(m)' = c /\ UncondKey(m)' = u
      <3>1. CondKey(m) # UncondKey(m)
        BY DEF CondKey, UncondKey
      <3> QED BY <2>1, <2>2, <3>1, JitEvals, NamesKept
    <2>4. /\ sampler = "jit" /\ cfg.cache_cond /\ cfg.cache_uncond /\ Cond' = Cond
          /\ (Live(u)' <=> Live(u)) /\ (Live(c)' <=> Live(c)) /\ (Live(u) <=> Live(c))
          /\ Cond \in Signals /\ pass \in Nat
      BY <2>1, <2>2, <2>3, JitEvals, NamesKept, Frame DEF FullInv, TypeOK
    <2>5. IF CalledNow(c) /\ ~CalledNow(u) /\ Live(u) /\ (entries[u] = None \/ decision[Cond].refresh)
          THEN entries[c] # None /\ entries[c].step = step ELSE SameAge(c, u)
      BY <2>1, <2>2, <2>3, <2>4 DEF PairsInStep
    <2>6. SUFFICES
            IF CalledNow(c)' /\ ~CalledNow(u)' /\ Live(u) /\ (entries'[u] = None \/ decision'[Cond].refresh)
            THEN entries'[c] # None /\ entries'[c].step = step'
            ELSE /\ entries'[c] = None <=> entries'[u] = None
                 /\ entries'[c] # None => entries'[c].step = entries'[u].step
      <3>1. (CalledNow(CondKey(m))' <=> CalledNow(c)') /\ (CalledNow(UncondKey(m))' <=> CalledNow(u)')
        BY <2>3 DEF CalledNow, Eval
      <3>2. Live(UncondKey(m))' <=> Live(u)
        BY <2>3, <2>4 DEF Live, Eval
      <3> QED BY <2>3, <2>4, <3>1, <3>2 DEF SameAge
    <2>7. CASE StartEval
      <3>1. /\ UNCHANGED <<step, entries>> /\ (CalledNow(c)' <=> CalledNow(c)) /\ (CalledNow(u)' <=> CalledNow(u))
        BY <2>3, <2>7, StartFacts, StartCallsNothing
      <3>2. CalledNow(c) => decision'[Cond] = decision[Cond]
        <4>1. SUFFICES ASSUME CalledNow(c) PROVE decision'[Cond] = decision[Cond]
          OBVIOUS
        <4>2. pass = 2
          BY <2>3, <2>4, <2>7, <4>1, JitStarts, JitEvals
        <4>3. CASE cfg.per_branch
          <5>1. /\ Observes(Evals[pass].branch) /\ Uncond \in Signals /\ Cond # Uncond
                /\ Uncond = SignalOf(Evals[pass].branch, Evals[pass].stage)
            BY <2>4, <2>7, <4>2, <4>3, JitStarts, JitEvals
          <5>2. \A h \in Signals \ {Uncond} : decision'[h] = decision[h]
            BY <2>7, <5>1, StartGives
          <5> QED BY <2>4, <5>1, <5>2
        <4>4. CASE ~cfg.per_branch
          <5>1. ~Observes(Evals[pass].branch)
            BY <2>4, <2>7, <4>2, <4>4, JitStarts
          <5> QED BY <2>7, <5>1, StartGivesNothing
        <4> QED BY <4>3, <4>4
      <3> QED BY <2>5, <3>1, <3>2 DEF SameAge
    <2>8. CASE SkipEval /\ UNCHANGED <<policyVars, moved, drift>>
      BY <2>2, <2>4, <2>8, SteadyRuns DEF Steady
    <2>9. CASE EndStep /\ UNCHANGED <<policyVars, moved, drift>>
      <3>1. entries' = entries /\ (Live(u) => CalledNow(u)) /\ ~CalledNow(c)'
        BY <2>1, <2>3, <2>9, StepsOn
      <3> QED BY <2>5, <3>1 DEF SameAge
    <2>10. ASSUME NEW n \in Modules, Forward(n)
           PROVE  IF CalledNow(c)' /\ ~CalledNow(u)' /\ Live(u) /\ (entries'[u] = None \/ decision'[Cond].refresh)
                  THEN entries'[c] # None /\ entries'[c].step = step'
                  ELSE /\ entries'[c] = None <=> entries'[u] = None
                       /\ entries'[c] # None => entries'[c].step = entries'[u].step
      <3>1. Call(n) /\ UNCHANGED <<cfg, decision>>
        BY <2>10 DEF Forward, ForwardInactive, ForwardMiss, ForwardRefresh, ForwardReuse, policyVars
      <3>2. PICK key \in Keys : key = KeyOf(n)
        BY <3>1, CallFrame
      <3>3. /\ step' = step /\ NewEntry.step = step /\ NewEntry # None
            /\ pass \in 1..Len(Evals) /\ Evals[pass] = Eval(context.branch, context.stage)
            /\ at = "module" /\ module = n /\ context.branch \in Branches /\ context.stage \in Stages
        <4>1. NewEntry \in Entry /\ context.step = step
          BY <3>1, CallFrame
        <4> QED BY <3>1, <4>1, CallFrame, NoneAssumption DEF NewEntry
      <3>4. /\ ~CalledNow(key)
            /\ CalledNow(c)' <=> CalledNow(c) \/ c = key
            /\ CalledNow(u)' <=> CalledNow(u) \/ u = key
        BY <2>3, <3>1, <3>2, CallsOnce, CallFrame
      <3>5. /\ \A k \in Keys : k # key => entries'[k] = entries[k]
            /\ \/ /\ Live(key) /\ (entries[key] = None \/ ShouldRefresh)
                  /\ entries'[key] = IF n \in NonTensorModules THEN entries[key] ELSE NewEntry
               \/ /\ ~(Live(key) /\ (entries[key] = None \/ ShouldRefresh))
                  /\ entries'[key] = entries[key]
        BY <2>10, <3>2, ForwardAnswers
      <3>6. PICK g \in Signals : g = SignalOf(context.branch, context.stage)
        BY <3>3, SignalTyped
      <3>7. ShouldRefresh <=> decision[g].refresh
        BY <3>1, <3>6, DecidedNow
      <3>8. Len(Evals) = 2 /\ Evals[1] = Eval("cond", "euler") /\ Evals[2] = Eval("uncond", "euler")
        BY <2>4, JitEvals
      <3>9. CASE c # key /\ u # key
        BY <2>3, <2>5, <3>1, <3>3, <3>4, <3>5, <3>9 DEF SameAge
      <3>10. CASE c = key
        <4>1. key[1] = n /\ context.branch = "cond" /\ context.stage = "euler"
          BY <2>3, <3>2, <3>10 DEF KeyOf, CondKey
        <4>2. n = m /\ g = Cond
          BY <2>3, <3>6, <3>10, <4>1 DEF CondKey, Cond
        <4>3. ~CalledNow(c) /\ CalledNow(c)' /\ entries'[u] = entries[u]
          BY <2>3, <3>4, <3>5, <3>10
        <4>4. pass = 1
          <5>1. pass \in 1..2
            BY <3>3, <3>8
          <5>2. pass # 2
            BY <3>3, <3>8, <4>1, EvalParts
          <5> QED BY <5>1, <5>2
        <4>5. ~CalledNow(u)'
          <5>1. ~CalledNow(u)
            BY <2>3, <2>4, <3>3, <4>4, JitEvals
          <5> QED BY <2>3, <3>4, <3>10, <5>1
        <4>6. /\ entries[c] = None <=> entries[u] = None
              /\ entries[c] # None => entries[c].step = entries[u].step
          BY <2>5, <4>3 DEF SameAge
        <4>7. n \notin NonTensorModules /\ decision'[Cond] = decision[Cond]
          BY <3>1, <4>2
        <4> QED BY <2>4, <3>3, <3>5, <3>7, <3>10, <4>2, <4>3, <4>5, <4>6, <4>7
      <3>11. CASE u = key
        <4>1. key[1] = n /\ context.branch = "uncond" /\ context.stage = "euler"
          BY <2>3, <3>2, <3>11 DEF KeyOf, UncondKey
        <4>2. n = m /\ g = Uncond
          BY <2>3, <3>6, <3>11, <4>1 DEF UncondKey, Uncond
        <4>3. ~CalledNow(u) /\ CalledNow(u)' /\ entries'[c] = entries[c]
          BY <2>3, <3>4, <3>5, <3>11
        <4>4. pass = 2
          <5>1. pass \in 1..2
            BY <3>3, <3>8
          <5>2. pass # 1
            BY <3>3, <3>8, <4>1, EvalParts
          <5> QED BY <5>1, <5>2
        <4>5. CalledNow(c)
          BY <2>3, <2>4, <4>4, JitEvals
        <4>6. decision[Uncond].refresh <=> decision[Cond].refresh
          <5>1. CASE cfg.per_branch
            <6>1. ~HalfObserved /\ Begun(1)
              BY <3>3, <4>4 DEF HalfObserved, Begun
            <6> QED BY <2>2, <2>4, <5>1, <6>1 DEF SignalsAlike
          <5>2. CASE ~cfg.per_branch
            BY <5>2, SignalsShared DEF Cond, Uncond
          <5> QED BY <5>1, <5>2
        <4> QED BY <2>4, <2>5, <3>3, <3>5, <3>7, <3>11, <4>2, <4>3, <4>5, <4>6 DEF SameAge
      <3> QED BY <3>9, <3>10, <3>11
    <2>11. CASE UNCHANGED vars
      <3>1. UNCHANGED <<step, entries, decision>> /\ (CalledNow(c)' <=> CalledNow(c)) /\ (CalledNow(u)' <=> CalledNow(u))
        BY <2>11, Still
      <3> QED BY <2>5, <3>1 DEF SameAge
    <2> QED BY <1>3, <2>7, <2>8, <2>9, <2>10, <2>11 DEF Next, Terminated
  <1> QED BY <1>1, <1>2, <1>3

-----------------------------------------------------------------------------
(* SafeMapCache's copy of the runtime is this one. *)

\* The instance shares the variables, and its operators are defined alike.
LEMMA SameRuntime ==
    /\ SafeMap!RuntimeInit <=> RuntimeInit
    /\ SafeMap!BeginBatch <=> BeginBatch
    /\ SafeMap!SetContext <=> SetContext
    /\ SafeMap!EndStep <=> EndStep
    /\ SafeMap!EndWarmup <=> EndWarmup
    /\ \A m : /\ SafeMap!Call(m) <=> Call(m)
              /\ SafeMap!Bypass(m) <=> Bypass(m)
              /\ SafeMap!Compute(m) <=> Compute(m)
              /\ SafeMap!Serve(m) <=> Serve(m)
              /\ SafeMap!EntryOf(m) = EntryOf(m)
    /\ \A e : SafeMap!EntryMatches(e) <=> EntryMatches(e)
  <1>1. /\ SafeMap!Keys = Keys /\ SafeMap!Evals = Evals /\ SafeMap!EvalContext = EvalContext
        /\ SafeMap!BatchIdx = BatchIdx /\ SafeMap!NewEntry = NewEntry
        /\ \A st, s : SafeMap!Runs(st, s) <=> Runs(st, s)
    BY DEF SafeMap!Keys, Keys, SafeMap!Modules, Modules, SafeMap!Branches, Branches, SafeMap!Stages, Stages,
           SafeMap!Evals, Evals, SafeMap!Eval, Eval, SafeMap!EvalContext, EvalContext,
           SafeMap!TimeOf, TimeOf, SafeMap!BatchIdx, BatchIdx, SafeMap!NewEntry, NewEntry,
           SafeMap!Signature, Signature, SafeMap!Runs, Runs
  <1>2. SafeMap!NoEntries = NoEntries /\ SafeMap!ZeroStats = ZeroStats /\ SafeMap!Nothing = Nothing
    BY <1>1 DEF SafeMap!NoEntries, NoEntries, SafeMap!ZeroStats, ZeroStats, SafeMap!Nothing, Nothing
  <1>3. \A m : SafeMap!KeyOf(m) = KeyOf(m) /\ SafeMap!EntryOf(m) = EntryOf(m)
    BY DEF SafeMap!KeyOf, KeyOf, SafeMap!EntryOf, EntryOf
  <1>4. \A m, how, e : SafeMap!Served(m, how, e) = Served(m, how, e)
    BY DEF SafeMap!Served, Served
  <1>5. \A s, f : SafeMap!Mark(s, f) = Mark(s, f)
    BY DEF SafeMap!Mark, Mark
  <1>6. \A sid : SafeMap!BeginUnnamed(sid) = BeginUnnamed(sid)
    BY DEF SafeMap!BeginUnnamed, BeginUnnamed
  <1>7. SafeMap!RuntimeInit <=> RuntimeInit
    BY <1>2 DEF SafeMap!RuntimeInit, RuntimeInit
  <1>8. SafeMap!BeginBatch <=> BeginBatch
    BY <1>1, <1>2, <1>6 DEF SafeMap!BeginBatch, BeginBatch, SafeMap!Clear, Clear
  <1>9. SafeMap!SetContext <=> SetContext
    BY <1>1 DEF SafeMap!SetContext, SetContext, SafeMap!cacheVars, cacheVars
  <1>10. SafeMap!EndStep <=> EndStep
    BY <1>1 DEF SafeMap!EndStep, EndStep, SafeMap!cacheVars, cacheVars
  <1>11. SafeMap!EndWarmup <=> EndWarmup
    BY <1>2, <1>6 DEF SafeMap!EndWarmup, EndWarmup, SafeMap!Clear, Clear, SafeMap!ResetStats, ResetStats
  <1>12. \A m : SafeMap!Call(m) <=> Call(m)
    BY DEF SafeMap!Call, Call, SafeMap!Advance, Advance
  <1>13. \A m : SafeMap!Bypass(m) <=> Bypass(m)
    BY <1>1, <1>4, <1>5 DEF SafeMap!Bypass, Bypass
  <1>14. \A m : SafeMap!Compute(m) <=> Compute(m)
    BY <1>1, <1>3, <1>4, <1>5 DEF SafeMap!Compute, Compute
  <1>15. \A m : SafeMap!Serve(m) <=> Serve(m)
    BY <1>1, <1>3, <1>4, <1>5 DEF SafeMap!Serve, Serve
  <1>16. \A e : SafeMap!EntryMatches(e) <=> EntryMatches(e)
    BY DEF SafeMap!EntryMatches, EntryMatches, SafeMap!Signature, Signature
  <1> QED BY <1>3, <1>7, <1>8, <1>9, <1>10, <1>11, <1>12, <1>13, <1>14, <1>15, <1>16

-----------------------------------------------------------------------------
(* Decisions of a safe map *)

KeyAt(m, b) == <<m, b, "euler", size>>
Called(m, b) == CalledNow(KeyAt(m, b))
EntryAt(m, b) == entries[KeyAt(m, b)]

\* SafeMap!Row, Reason and Reuses, of any module and branch.
SafeRow(b) == LET selected == IF b \in cfg.branches THEN b ELSE "global"
              IN IF selected \in DOMAIN cfg.safe THEN selected
                 ELSE IF cfg.fallback /\ "global" \in DOMAIN cfg.safe THEN "global" ELSE None

SafeReason(m, b, e) ==
    IF e = None THEN "missing_entry_refresh"
    ELSE IF step - e.step <= 0 THEN "non_positive_age_refresh"
    ELSE IF step - e.step > cfg.max_age THEN "over_age_refresh"
    ELSE IF SafeRow(b) = None THEN "branch_not_found"
    ELSE IF cfg.boundary[m] \notin DOMAIN cfg.safe[SafeRow(b)] THEN "boundary_not_found"
    ELSE SafeMap!Lookup(cfg.safe[SafeRow(b)][cfg.boundary[m]], step, step - e.step)

Allows(m, b, e) ==
    \/ SafeReason(m, b, e) = "safe_reuse"
    \/ cfg.default_safe /\ SafeReason(m, b, e) \in {"step_not_found", "age_not_found"}

\* A call of the module in the branch would recompute it.
Recomputes(m, b) == cfg.enabled /\ SafeMap!ManagedIn(b) /\ ~Allows(m, b, EntryAt(m, b))

-----------------------------------------------------------------------------
(* The invariant *)

SafeEntries ==
    Sampling => \A k \in Keys : entries[k] # None =>
      /\ k[3] = "euler" /\ k[4] = size /\ k[1] \notin NonTensorModules
      /\ entries[k] = [step |-> entries[k].step, t |-> entries[k].step, batch |-> batch,
                       signature |-> [batch_size |-> size, session_id |-> session]]
      /\ entries[k].step <= step /\ (entries[k].step = step => CalledNow(k))

InTable == DOMAIN cfg.boundary \ NonTensorModules

\* Modules and branches that share a row of the table.
Linked(m, b, n, c) == cfg.boundary[m] = cfg.boundary[n] /\ (b = c \/ SafeMap!OneRow)

\* Of two that share a row, the one called first is already recomputed where the
\* other will be; otherwise their outputs are the same age.
Grouped ==
    Sampling => \A m, n \in InTable : \A b, c \in {"cond", "uncond"} : Linked(m, b, n, c) =>
      /\ Called(m, b) /\ ~Called(n, c) /\ Recomputes(n, c) =>
           EntryAt(m, b) # None /\ EntryAt(m, b).step = step
      /\ ~(Called(m, b) /\ ~Called(n, c) /\ Recomputes(n, c)) /\ (Called(m, b) \/ ~Called(n, c)) =>
           EntryAt(m, b) = EntryAt(n, c)

SafeInv ==
    /\ RuntimeTyped /\ Control /\ sampler = "jit" /\ cfg \in SafeConfigs /\ SafeMap!ConfigOK(cfg)
    /\ SafeEntries /\ Grouped /\ SafeMap!ReuseIsCalibrated

-----------------------------------------------------------------------------
(* A call *)

\* What a module is answered, in the words of the invariant.
LEMMA SafeCall ==
    ASSUME SafeInv, NEW m \in Modules, NEW key \in Keys, key = KeyOf(m),
           SafeMap!ForwardInactive(m) \/ SafeMap!ForwardRefresh(m) \/ SafeMap!ForwardReuse(m)
    PROVE  /\ Call(m) /\ UNCHANGED <<cfg, session>> /\ context.stage = "euler" /\ context.t = step
           /\ context.branch \in {"cond", "uncond"} /\ key = KeyAt(m, context.branch)
           /\ \/ /\ m \in DOMAIN cfg.boundary /\ Recomputes(m, context.branch) /\ Compute(m)
              \/ /\ ~(m \in DOMAIN cfg.boundary /\ Recomputes(m, context.branch)) /\ Bypass(m)
              \/ /\ ~(m \in DOMAIN cfg.boundary /\ Recomputes(m, context.branch)) /\ Serve(m)
                 /\ m \in DOMAIN cfg.boundary /\ entries[key] # None
                 /\ Allows(m, context.branch, entries[key])
  <1> USE SameRuntime
  <1>1. Call(m) /\ cfg' = cfg
    BY DEF SafeMap!ForwardInactive, SafeMap!ForwardRefresh, SafeMap!ForwardReuse, SafeMap!Recompute
  <1>2. /\ Sampling /\ pass \in 1..Len(Evals) /\ context.step = step
        /\ Evals[pass] = Eval(context.branch, context.stage) /\ context.t = TimeOf(context.stage, step)
        /\ sampler = "jit"
    BY <1>1, CallRuns DEF SafeInv
  <1>3. context.stage = "euler" /\ context.branch \in {"cond", "uncond"}
    <2>1. Len(Evals) = 2 /\ Evals[1] = Eval("cond", "euler") /\ Evals[2] = Eval("uncond", "euler")
      BY <1>2, JitCalls
    <2>2. pass \in {1, 2}
      BY <1>2, <2>1
    <2>3. \/ Eval(context.branch, context.stage) = Eval("cond", "euler")
          \/ Eval(context.branch, context.stage) = Eval("uncond", "euler")
      BY <1>2, <2>1, <2>2
    <2> QED BY <2>3, EvalParts
  <1>4. context.t = step /\ key = KeyAt(m, context.branch)
    BY <1>2, <1>3 DEF TimeOf, KeyAt, KeyOf
  <1>5. PICK b \in {"cond", "uncond"} : b = context.branch
    BY <1>3
  <1>6. PICK e : e = entries[key] /\ e = EntryOf(m) /\ e = EntryAt(m, b) /\ e = SafeMap!EntryOf(m)
    BY <1>4, <1>5 DEF EntryOf, EntryAt
  <1>7. SafeMap!Row = SafeRow(b)
    BY <1>5 DEF SafeMap!Row, SafeMap!Selected, SafeMap!Global, SafeRow
  <1>8. SafeMap!Reason(m) = SafeReason(m, b, e)
    BY <1>2, <1>6, <1>7 DEF SafeMap!Reason, SafeMap!Age, SafeReason
  <1>9. SafeMap!Reuses(m) <=> Allows(m, b, e)
    BY <1>8 DEF SafeMap!Reuses, Allows
  <1>10. SafeMap!Managed(m) <=> cfg.enabled /\ m \in DOMAIN cfg.boundary /\ SafeMap!ManagedIn(b)
    BY <1>3, <1>5 DEF SafeMap!Managed
  <1>11. SafeMap!Managed(m) => (Recomputes(m, b) <=> ~Allows(m, b, e))
    BY <1>6, <1>10 DEF Recomputes
  <1>12. ASSUME Allows(m, b, e) PROVE e # None /\ EntryMatches(e)
    <2>1. e # None
      BY <1>12 DEF Allows, SafeReason
    <2>2. e.signature = [batch_size |-> size, session_id |-> session]
      <3>1. entries[key] = [step |-> entries[key].step, t |-> entries[key].step, batch |-> batch,
                            signature |-> [batch_size |-> size, session_id |-> session]]
        BY <1>2, <1>6, <2>1 DEF SafeInv, SafeEntries
      <3>2. entries[key].signature = [batch_size |-> size, session_id |-> session]
        BY <3>1
      <3> QED BY <1>6, <3>2
    <2> QED BY <2>1, <2>2 DEF EntryMatches, Signature
  <1>13. CASE SafeMap!ForwardInactive(m)
    <2>1. Bypass(m) /\ ~SafeMap!Managed(m)
      BY <1>13 DEF SafeMap!ForwardInactive
    <2>2. ~(m \in DOMAIN cfg.boundary /\ Recomputes(m, b)) /\ session' = session
      BY <1>10, <2>1 DEF Recomputes, Bypass
    <2> QED BY <1>1, <1>3, <1>4, <1>5, <2>1, <2>2
  <1>14. CASE SafeMap!ForwardRefresh(m)
    <2>1. Compute(m) /\ SafeMap!Managed(m) /\ ~SafeMap!Reuses(m)
      BY <1>14 DEF SafeMap!ForwardRefresh, SafeMap!Recompute
    <2>2. m \in DOMAIN cfg.boundary /\ Recomputes(m, b) /\ session' = session
      BY <1>9, <1>10, <1>11, <2>1 DEF Compute
    <2> QED BY <1>1, <1>3, <1>4, <1>5, <2>1, <2>2
  <1>15. CASE SafeMap!ForwardReuse(m)
    <2>1. SafeMap!Managed(m) /\ Allows(m, b, e)
      BY <1>9, <1>15 DEF SafeMap!ForwardReuse
    <2>2. EntryMatches(SafeMap!EntryOf(m)) /\ e # None
      BY <1>6, <1>12, <2>1
    <2>3. Serve(m)
      BY <1>15, <2>2 DEF SafeMap!ForwardReuse
    <2>4. ~(m \in DOMAIN cfg.boundary /\ Recomputes(m, b)) /\ m \in DOMAIN cfg.boundary /\ session' = session
      BY <1>10, <1>11, <2>1, <2>3 DEF Serve
    <2> QED BY <1>1, <1>3, <1>4, <1>5, <1>6, <2>1, <2>2, <2>3, <2>4
  <1> QED BY <1>13, <1>14, <1>15

Fresh == [step |-> step, t |-> step, batch |-> batch,
          signature |-> [batch_size |-> size, session_id |-> session]]

\* What a call does to the entries.
LEMMA SafeCallEffect ==
    ASSUME SafeInv, NEW m \in Modules, NEW key \in Keys, key = KeyOf(m),
           SafeMap!ForwardInactive(m) \/ SafeMap!ForwardRefresh(m) \/ SafeMap!ForwardReuse(m)
    PROVE  /\ UNCHANGED <<sampler, batch, size, step, cfg, session>> /\ Sampling /\ Sampling' /\ Evals' = Evals
           /\ RuntimeTyped' /\ Control' /\ Fresh # None
           /\ \A k \in Keys : k # key => entries'[k] = entries[k]
           /\ entries'[key] = IF m \in InTable /\ Recomputes(m, context.branch) THEN Fresh ELSE entries[key]
  <1>1. /\ Call(m) /\ UNCHANGED <<cfg, session>> /\ context.t = step
        /\ \/ /\ m \in DOMAIN cfg.boundary /\ Recomputes(m, context.branch) /\ Compute(m)
           \/ /\ ~(m \in DOMAIN cfg.boundary /\ Recomputes(m, context.branch)) /\ (Bypass(m) \/ Serve(m))
    BY SafeCall
  <1>2. /\ UNCHANGED <<sampler, batch, size, step>> /\ Sampling /\ Sampling' /\ Evals' = Evals
        /\ NewEntry \in Entry /\ context.step = step /\ RuntimeTyped
    BY <1>1, CallRuns DEF SafeInv
  <1>3. RuntimeTyped' /\ Control'
    BY <1>1, CallsAre, AnswerKeeps DEF SafeInv
  <1>4. NewEntry = Fresh
    BY <1>1, <1>2 DEF NewEntry, Signature, Fresh
  <1>5. /\ \A k \in Keys : k # key => entries'[k] = entries[k]
        /\ entries'[key] = IF m \in InTable /\ Recomputes(m, context.branch) THEN NewEntry ELSE entries[key]
    <2>1. entries \in [Keys -> Entry \cup {None}]
      BY <1>2 DEF RuntimeTyped
    <2>2. CASE Bypass(m) \/ Serve(m)
      BY <1>1, <2>1, <2>2 DEF Bypass, Serve, Compute, InTable
    <2>3. CASE Compute(m) /\ m \in DOMAIN cfg.boundary /\ Recomputes(m, context.branch)
      BY <2>1, <2>3 DEF Compute, InTable
    <2> QED BY <1>1, <2>2, <2>3
  <1> QED BY <1>1, <1>2, <1>3, <1>4, <1>5, NoneAssumption

\* A call stores nothing but outputs of this step.
LEMMA SafeEntriesCall ==
    ASSUME SafeInv, NEW m \in Modules,
           SafeMap!ForwardInactive(m) \/ SafeMap!ForwardRefresh(m) \/ SafeMap!ForwardReuse(m)
    PROVE  SafeEntries'
  <1>1. Call(m)
    BY SameRuntime DEF SafeMap!ForwardInactive, SafeMap!ForwardRefresh, SafeMap!ForwardReuse
  <1>2. PICK key \in Keys : key = KeyOf(m)
    BY <1>1, CallRuns DEF SafeInv
  <1>3. /\ UNCHANGED <<sampler, batch, size, step, cfg, session>> /\ Sampling
        /\ \A k \in Keys : k # key => entries'[k] = entries[k]
        /\ entries'[key] = IF m \in InTable /\ Recomputes(m, context.branch) THEN Fresh ELSE entries[key]
    BY <1>2, SafeCallEffect
  <1>4. key[1] = m /\ key[3] = "euler" /\ key[4] = size
    <2>1. key = KeyAt(m, context.branch)
      BY <1>2, SafeCall
    <2> QED BY <2>1 DEF KeyAt
  <1>5. \A k \in Keys : k[4] = size => (CalledNow(k)' <=> CalledNow(k) \/ k = key)
    BY <1>1, <1>2, CallsOnce DEF SafeInv
  <1>6. SUFFICES ASSUME NEW k \in Keys, entries'[k] # None
                 PROVE  /\ k[3] = "euler" /\ k[4] = size /\ k[1] \notin NonTensorModules
                        /\ entries'[k] = [step |-> entries'[k].step, t |-> entries'[k].step, batch |-> batch,
                                          signature |-> [batch_size |-> size, session_id |-> session]]
                        /\ entries'[k].step <= step /\ (entries'[k].step = step => CalledNow(k)')
    BY <1>3 DEF SafeEntries
  <1>7. CASE entries'[k] = entries[k]
    BY <1>3, <1>5, <1>6, <1>7 DEF SafeInv, SafeEntries
  <1>8. CASE k = key /\ m \in InTable /\ entries'[k] = Fresh
    <2>1. PICK e : e = Fresh
      OBVIOUS
    <2>2. e.step = step /\ step \in Int
      BY <2>1 DEF Fresh, SafeInv, RuntimeTyped, StepIdx
    <2>3. e = [step |-> e.step, t |-> e.step, batch |-> batch,
               signature |-> [batch_size |-> size, session_id |-> session]]
      BY <2>1, <2>2 DEF Fresh
    <2> QED BY <1>4, <1>5, <1>8, <2>1, <2>2, <2>3 DEF InTable
  <1> QED BY <1>3, <1>6, <1>7, <1>8

\* What a call serves is of an age the table allows.
LEMMA CalibratedCall ==
    ASSUME SafeInv, NEW m \in Modules,
           SafeMap!ForwardInactive(m) \/ SafeMap!ForwardRefresh(m) \/ SafeMap!ForwardReuse(m)
    PROVE  SafeMap!ReuseIsCalibrated'
  <1>1. Call(m)
    BY SameRuntime DEF SafeMap!ForwardInactive, SafeMap!ForwardRefresh, SafeMap!ForwardReuse
  <1>2. PICK key \in Keys : key = KeyOf(m)
    BY <1>1, CallRuns DEF SafeInv
  <1>3. /\ UNCHANGED <<batch, step, cfg>> /\ context.step = step /\ step \in StepIdx /\ Sampling
    BY <1>1, <1>2, SafeCallEffect, CallRuns DEF SafeInv
  <1>4. CASE Bypass(m) \/ Compute(m)
    <2>1. served'.how # "reuse"
      BY <1>4 DEF Bypass, Compute, Served
    <2> QED BY <2>1 DEF SafeMap!ReuseIsCalibrated
  <1>5. CASE /\ Serve(m) /\ m \in DOMAIN cfg.boundary /\ entries[key] # None
             /\ Allows(m, context.branch, entries[key])
    <2>1. PICK e : e = entries[key] /\ e = EntryOf(m)
      BY <1>2 DEF EntryOf
    <2>2. PICK b : b = context.branch
      OBVIOUS
    <2>3. e.batch = batch /\ e.step \in StepIdx
      <3>1. entries[key] = [step |-> entries[key].step, t |-> entries[key].step, batch |-> batch,
                            signature |-> [batch_size |-> size, session_id |-> session]]
        BY <1>3, <1>5 DEF SafeInv, SafeEntries
      <3>2. entries[key].batch = batch
        BY <3>1
      <3>3. entries[key] \in Entry
        BY <1>5 DEF SafeInv, RuntimeTyped
      <3> QED BY <2>1, <3>2, <3>3 DEF Entry
    <2>4. PICK x : x = served' /\ x = Served(m, "reuse", e)
      BY <1>5, <2>1 DEF Serve
    <2>5. /\ x.module = m /\ x.branch = b /\ x.step = step /\ x.from = e.step /\ x.batch = e.batch
      BY <1>3, <2>2, <2>4 DEF Served
    <2>6. PICK age \in Int : age = step - e.step /\ age = x.step - x.from
      BY <1>3, <2>3, <2>5 DEF StepIdx
    <2>7. PICK row : row = SafeRow(b)
      OBVIOUS
    <2>8. PICK group : group = cfg.boundary[m]
      OBVIOUS
    <2>9. /\ ~(age <= 0) /\ ~(age > cfg.max_age) /\ row # None /\ group \in DOMAIN cfg.safe[row]
          /\ \/ SafeMap!Lookup(cfg.safe[row][group], step, age) = "safe_reuse"
             \/ /\ cfg.default_safe
                /\ SafeMap!Lookup(cfg.safe[row][group], step, age) \in {"step_not_found", "age_not_found"}
      BY <1>5, <2>1, <2>2, <2>6, <2>7, <2>8 DEF Allows, SafeReason
    <2>10. age \in 1 .. cfg.max_age
      BY <2>6, <2>9 DEF SafeInv, SafeMap!ConfigOK
    <2>11. row \in DOMAIN cfg.safe /\ row \in {b, "global"}
      BY <2>7, <2>9 DEF SafeRow
    <2>12. PICK table : table = cfg.safe[row][group]
      OBVIOUS
    <2>13. IF step \in DOMAIN table /\ age <= Len(table[step]) THEN table[step][age] ELSE cfg.default_safe
      <3>1. \/ SafeMap!Lookup(table, step, age) = "safe_reuse"
            \/ /\ cfg.default_safe
               /\ SafeMap!Lookup(table, step, age) \in {"step_not_found", "age_not_found"}
        BY <2>9, <2>12
      <3>2. step \in DOMAIN table => Len(table[step]) \in Int
        BY <2>8, <2>9, <2>11, <2>12 DEF SafeInv, SafeMap!ConfigOK
      <3> QED BY <2>6, <3>1, <3>2 DEF SafeMap!Lookup
    <2> QED BY <1>3, <2>2, <2>3, <2>4, <2>5, <2>6, <2>8, <2>9, <2>10, <2>11, <2>12, <2>13
            DEF SafeMap!ReuseIsCalibrated, SafeMap!Global
  <1> QED BY <1>2, <1>4, <1>5, SafeCall

\* Linked modules and branches answer alike where their entries are alike.
LEMMA LinkedAlike ==
    ASSUME NEW m \in InTable, NEW n \in InTable, NEW b \in {"cond", "uncond"}, NEW c \in {"cond", "uncond"},
           Linked(m, b, n, c), EntryAt(m, b) = EntryAt(n, c)
    PROVE  Recomputes(m, b) <=> Recomputes(n, c)
  <1>1. SafeRow(b) = SafeRow(c)
    BY DEF Linked, SafeMap!OneRow, SafeMap!ManagedIn, SafeMap!FallsBack, SafeMap!Global, SafeRow
  <1>2. SafeMap!ManagedIn(b) <=> SafeMap!ManagedIn(c)
    BY DEF Linked, SafeMap!OneRow
  <1>3. PICK e : e = EntryAt(m, b) /\ e = EntryAt(n, c)
    OBVIOUS
  <1>4. PICK row : row = SafeRow(b) /\ row = SafeRow(c)
    BY <1>1
  <1>5. PICK group : group = cfg.boundary[m] /\ group = cfg.boundary[n]
    BY DEF Linked
  <1>6. SafeReason(m, b, e) = SafeReason(n, c, e)
    BY <1>4, <1>5 DEF SafeReason
  <1>7. Allows(m, b, e) <=> Allows(n, c, e)
    BY <1>6 DEF Allows
  <1> QED BY <1>2, <1>3, <1>7 DEF Recomputes

\* The links go both ways.
LEMMA LinkedBack ==
    \A m, n, b, c : Linked(m, b, n, c) => Linked(n, c, m, b)
  BY DEF Linked

\* The keys of a module's two branches.
LEMMA KeysAt ==
    ASSUME RuntimeTyped, NEW m \in Modules, NEW b \in {"cond", "uncond"}
    PROVE  KeyAt(m, b) \in Keys /\ KeyAt(m, b)[4] = size
  BY DEF RuntimeTyped, KeyAt, Keys, Branches, Stages

\* What a call changes of one module and branch.
LEMMA CallAt ==
    ASSUME SafeInv, NEW m \in Modules,
           SafeMap!ForwardInactive(m) \/ SafeMap!ForwardRefresh(m) \/ SafeMap!ForwardReuse(m),
           NEW n \in InTable, NEW c \in {"cond", "uncond"}
    PROVE  /\ ~(n = m /\ c = context.branch) =>
                /\ Called(n, c)' <=> Called(n, c)
                /\ EntryAt(n, c)' = EntryAt(n, c) /\ (Recomputes(n, c)' <=> Recomputes(n, c))
           /\ n = m /\ c = context.branch =>
                /\ ~Called(n, c) /\ Called(n, c)'
                /\ EntryAt(n, c)' = IF Recomputes(n, c) THEN Fresh ELSE EntryAt(n, c)
           /\ UNCHANGED <<step, size, cfg>> /\ Fresh.step = step /\ Fresh # None
           /\ EntryAt(n, c) # None /\ EntryAt(n, c).step = step => EntryAt(n, c) = Fresh
  <1>1. Call(m) /\ n \in Modules
    BY SameRuntime DEF SafeMap!ForwardInactive, SafeMap!ForwardRefresh, SafeMap!ForwardReuse, InTable,
                       SafeInv, SafeMap!ConfigOK, SafeMap!Modules, Modules
  <1>2. PICK key \in Keys : key = KeyOf(m)
    BY <1>1, CallRuns DEF SafeInv
  <1>3. /\ UNCHANGED <<size, step, cfg>> /\ Sampling /\ Fresh # None
        /\ \A k \in Keys : k # key => entries'[k] = entries[k]
        /\ entries'[key] = IF m \in InTable /\ Recomputes(m, context.branch) THEN Fresh ELSE entries[key]
    BY <1>2, SafeCallEffect
  <1>4. PICK at_n \in Keys : at_n = KeyAt(n, c) /\ at_n = KeyAt(n, c)' /\ at_n[4] = size
    <2>1. KeyAt(n, c) = KeyAt(n, c)'
      BY <1>3 DEF KeyAt
    <2> QED BY <1>1, <2>1, KeysAt DEF SafeInv
  <1>5. key = KeyAt(m, context.branch)
    BY <1>2, SafeCall
  <1>6. at_n = key <=> n = m /\ c = context.branch
    BY <1>4, <1>5 DEF KeyAt
  <1>7. CalledNow(at_n)' <=> CalledNow(at_n) \/ at_n = key
    BY <1>1, <1>2, <1>4, CallsOnce DEF SafeInv
  <1>8. ~CalledNow(key)
    BY <1>1, <1>2, CallsOnce DEF SafeInv
  <1>9. (Called(n, c) <=> CalledNow(at_n)) /\ (Called(n, c)' <=> CalledNow(at_n)')
    BY <1>4 DEF Called, CalledNow, Eval
  <1>10. EntryAt(n, c) = entries[at_n] /\ EntryAt(n, c)' = entries'[at_n]
    BY <1>4 DEF EntryAt
  <1>11. ASSUME EntryAt(n, c)' = EntryAt(n, c) PROVE Recomputes(n, c)' <=> Recomputes(n, c)
    <2>1. PICK e : e = EntryAt(n, c) /\ e = EntryAt(n, c)'
      BY <1>11
    <2>2. SafeRow(c)' = SafeRow(c)
      BY <1>3 DEF SafeRow
    <2>3. SafeReason(n, c, EntryAt(n, c))' = SafeReason(n, c, e)
      BY <1>3, <2>1, <2>2 DEF SafeReason, SafeMap!Lookup
    <2>4. SafeReason(n, c, EntryAt(n, c)) = SafeReason(n, c, e)
      BY <2>1
    <2> QED BY <1>3, <2>3, <2>4 DEF Recomputes, Allows, SafeMap!ManagedIn, SafeMap!FallsBack, SafeMap!Global
  <1>12. Fresh.step = step
    BY DEF Fresh
  <1>13. ASSUME entries[at_n] # None, entries[at_n].step = step PROVE entries[at_n] = Fresh
    <2>1. entries[at_n] = [step |-> entries[at_n].step, t |-> entries[at_n].step, batch |-> batch,
                           signature |-> [batch_size |-> size, session_id |-> session]]
      BY <1>3, <1>13 DEF SafeInv, SafeEntries
    <2> QED BY <1>13, <2>1 DEF Fresh
  <1>14. CASE at_n # key
    BY <1>3, <1>6, <1>7, <1>9, <1>10, <1>11, <1>12, <1>13, <1>14
  <1>15. CASE at_n = key
    BY <1>3, <1>6, <1>7, <1>8, <1>9, <1>10, <1>12, <1>13, <1>15
  <1> QED BY <1>14, <1>15

\* A call keeps the linked outputs together: it does what the others did or will do.
LEMMA GroupedCall ==
    ASSUME SafeInv, NEW p \in Modules,
           SafeMap!ForwardInactive(p) \/ SafeMap!ForwardRefresh(p) \/ SafeMap!ForwardReuse(p)
    PROVE  Grouped'
  <1>1. cfg' = cfg /\ Sampling
    <2>1. Call(p)
      BY SameRuntime DEF SafeMap!ForwardInactive, SafeMap!ForwardRefresh, SafeMap!ForwardReuse
    <2>2. PICK key \in Keys : key = KeyOf(p)
      BY <2>1, CallRuns DEF SafeInv
    <2> QED BY <2>2, SafeCallEffect
  <1>2. InTable' = InTable
    BY <1>1 DEF InTable
  <1>3. \A m, n, b, c : Linked(m, b, n, c)' <=> Linked(m, b, n, c)
    BY <1>1 DEF Linked, SafeMap!OneRow, SafeMap!ManagedIn, SafeMap!FallsBack, SafeMap!Global
  <1>4. SUFFICES ASSUME NEW m \in InTable, NEW n \in InTable, NEW b \in {"cond", "uncond"},
                        NEW c \in {"cond", "uncond"}, Linked(m, b, n, c)
        PROVE  /\ Called(m, b)' /\ ~Called(n, c)' /\ Recomputes(n, c)' =>
                    EntryAt(m, b)' # None /\ EntryAt(m, b)'.step = step'
               /\ ~(Called(m, b)' /\ ~Called(n, c)' /\ Recomputes(n, c)') /\ (Called(m, b)' \/ ~Called(n, c)') =>
                    EntryAt(m, b)' = EntryAt(n, c)'
    BY <1>2, <1>3 DEF Grouped
  <1>5. /\ Called(m, b) /\ ~Called(n, c) /\ Recomputes(n, c) =>
             EntryAt(m, b) # None /\ EntryAt(m, b).step = step
        /\ ~(Called(m, b) /\ ~Called(n, c) /\ Recomputes(n, c)) /\ (Called(m, b) \/ ~Called(n, c)) =>
             EntryAt(m, b) = EntryAt(n, c)
    BY <1>1, <1>4 DEF SafeInv, Grouped
  <1>6. /\ Called(n, c) /\ ~Called(m, b) /\ Recomputes(m, b) =>
             EntryAt(n, c) # None /\ EntryAt(n, c).step = step
        /\ ~(Called(n, c) /\ ~Called(m, b) /\ Recomputes(m, b)) /\ (Called(n, c) \/ ~Called(m, b)) =>
             EntryAt(n, c) = EntryAt(m, b)
    BY <1>1, <1>4, LinkedBack DEF SafeInv, Grouped
  <1>7. EntryAt(m, b) = EntryAt(n, c) => (Recomputes(m, b) <=> Recomputes(n, c))
    BY <1>4, LinkedAlike
  <1>8. CASE m = p /\ b = context.branch /\ n = p /\ c = context.branch
    BY <1>8, CallAt
  <1>9. CASE m = p /\ b = context.branch /\ ~(n = p /\ c = context.branch)
    <2>1. /\ ~Called(m, b) /\ Called(m, b)'
          /\ EntryAt(m, b)' = IF Recomputes(m, b) THEN Fresh ELSE EntryAt(m, b)
          /\ step' = step /\ Fresh.step = step /\ Fresh # None
      BY <1>9, CallAt
    <2>2. /\ Called(n, c)' <=> Called(n, c)
          /\ EntryAt(n, c)' = EntryAt(n, c) /\ (Recomputes(n, c)' <=> Recomputes(n, c))
          /\ EntryAt(n, c) # None /\ EntryAt(n, c).step = step => EntryAt(n, c) = Fresh
      BY <1>9, CallAt
    <2> QED BY <1>5, <1>6, <1>7, <2>1, <2>2
  <1>10. CASE ~(m = p /\ b = context.branch) /\ n = p /\ c = context.branch
    <2>1. /\ ~Called(n, c) /\ Called(n, c)'
          /\ EntryAt(n, c)' = IF Recomputes(n, c) THEN Fresh ELSE EntryAt(n, c)
          /\ step' = step
      BY <1>10, CallAt
    <2>2. /\ Called(m, b)' <=> Called(m, b)
          /\ EntryAt(m, b)' = EntryAt(m, b)
          /\ EntryAt(m, b) # None /\ EntryAt(m, b).step = step => EntryAt(m, b) = Fresh
      BY <1>10, CallAt
    <2> QED BY <1>5, <2>1, <2>2
  <1>11. CASE ~(m = p /\ b = context.branch) /\ ~(n = p /\ c = context.branch)
    <2>1. /\ Called(m, b)' <=> Called(m, b)
          /\ EntryAt(m, b)' = EntryAt(m, b) /\ step' = step
      BY <1>11, CallAt
    <2>2. /\ Called(n, c)' <=> Called(n, c)
          /\ EntryAt(n, c)' = EntryAt(n, c) /\ (Recomputes(n, c)' <=> Recomputes(n, c))
      BY <1>11, CallAt
    <2> QED BY <1>5, <2>1, <2>2
  <1> QED BY <1>8, <1>9, <1>10, <1>11

\* A step that leaves the entries and what has been called of a batch alone.
LEMMA GroupedStill ==
    ASSUME RuntimeTyped, Grouped, Sampling, UNCHANGED <<sampler, size, step, cfg, entries>>,
           \A k \in Keys : CalledNow(k)' <=> CalledNow(k), InTable \subseteq Modules
    PROVE  Grouped'
  <1>1. \A m \in InTable : \A c \in {"cond", "uncond"} :
          /\ Called(m, c)' <=> Called(m, c)
          /\ EntryAt(m, c)' = EntryAt(m, c) /\ (Recomputes(m, c)' <=> Recomputes(m, c))
    <2>1. SUFFICES ASSUME NEW m \in InTable, NEW c \in {"cond", "uncond"}
                   PROVE  /\ Called(m, c)' <=> Called(m, c)
                          /\ EntryAt(m, c)' = EntryAt(m, c) /\ (Recomputes(m, c)' <=> Recomputes(m, c))
      OBVIOUS
    <2>2. PICK k \in Keys : k = KeyAt(m, c) /\ k = KeyAt(m, c)'
      <3>1. KeyAt(m, c)' = KeyAt(m, c)
        BY DEF KeyAt
      <3> QED BY <3>1, KeysAt
    <2>3. Called(m, c)' <=> Called(m, c)
      BY <2>2 DEF Called, CalledNow, Eval
    <2>4. PICK e : e = EntryAt(m, c) /\ e = EntryAt(m, c)'
      BY <2>2 DEF EntryAt
    <2>5. SafeRow(c)' = SafeRow(c)
      BY DEF SafeRow
    <2>6. SafeReason(m, c, EntryAt(m, c))' = SafeReason(m, c, EntryAt(m, c))
      BY <2>4, <2>5 DEF SafeReason, SafeMap!Lookup
    <2> QED BY <2>3, <2>4, <2>6 DEF Recomputes, Allows, SafeMap!ManagedIn, SafeMap!FallsBack, SafeMap!Global
  <1>2. InTable' = InTable
    BY DEF InTable
  <1>3. \A m, n, b, c : Linked(m, b, n, c)' <=> Linked(m, b, n, c)
    BY DEF Linked, SafeMap!OneRow, SafeMap!ManagedIn, SafeMap!FallsBack, SafeMap!Global
  <1>4. SUFFICES ASSUME NEW m \in InTable, NEW n \in InTable, NEW b \in {"cond", "uncond"},
                        NEW c \in {"cond", "uncond"}, Linked(m, b, n, c)
        PROVE  /\ Called(m, b)' /\ ~Called(n, c)' /\ Recomputes(n, c)' =>
                    EntryAt(m, b)' # None /\ EntryAt(m, b)'.step = step'
               /\ ~(Called(m, b)' /\ ~Called(n, c)' /\ Recomputes(n, c)') /\ (Called(m, b)' \/ ~Called(n, c)') =>
                    EntryAt(m, b)' = EntryAt(n, c)'
    BY <1>2, <1>3 DEF Grouped
  <1>5. /\ Called(m, b) /\ ~Called(n, c) /\ Recomputes(n, c) =>
             EntryAt(m, b) # None /\ EntryAt(m, b).step = step
        /\ ~(Called(m, b) /\ ~Called(n, c) /\ Recomputes(n, c)) /\ (Called(m, b) \/ ~Called(n, c)) =>
             EntryAt(m, b) = EntryAt(n, c)
    BY <1>4 DEF Grouped
  <1> QED BY <1>1, <1>5

\* Where nothing has been called of a step, all linked entries agree.
LEMMA GroupedAtStart ==
    ASSUME \A k : ~CalledNow(k),
           \A m, n \in InTable : \A b, c \in {"cond", "uncond"} :
             Linked(m, b, n, c) => EntryAt(m, b) = EntryAt(n, c)
    PROVE  Grouped
  BY DEF Grouped, Called

\* And where all has.
LEMMA GroupedAtEnd ==
    ASSUME RuntimeTyped, sampler = "jit", Grouped, Sampling, pass > Len(Evals), InTable \subseteq Modules
    PROVE  \A m, n \in InTable : \A b, c \in {"cond", "uncond"} :
             Linked(m, b, n, c) => EntryAt(m, b) = EntryAt(n, c)
  <1>1. 1 < pass /\ 2 < pass
    <2>1. Len(Evals) = 2
      BY JitCalls
    <2>2. pass \in 1..3
      BY DEF RuntimeTyped
    <2> QED BY <2>1, <2>2
  <1>2. \A m : CalledNow(CondKey(m)) /\ CalledNow(UncondKey(m))
    BY <1>1, JitCalls
  <1>3. \A m : \A b \in {"cond", "uncond"} : Called(m, b)
    BY <1>2 DEF Called, KeyAt, CondKey, UncondKey
  <1> QED BY <1>3 DEF Grouped

SafeVars == SafeMap!vars

\* Every step under a safe map keeps the invariant.
LEMMA SafeNext ==
    ASSUME SafeInv, [SafeMap!Next]_SafeVars
    PROVE  SafeInv'
  <1> USE SameRuntime
  <1>1. InTable \subseteq Modules
    BY DEF InTable, SafeInv, SafeMap!ConfigOK, SafeMap!Modules, Modules
  <1>2. CASE BeginBatch /\ cfg' = cfg
    <2>1. RuntimeTyped' /\ Control' /\ sampler' = "jit"
      BY <1>2, DriverKeeps DEF SafeInv, BeginBatch
    <2>2. /\ \A k \in Keys : entries'[k] = None
          /\ served' = Nothing /\ pass' = 1 /\ at' = "pass" /\ size' \in BatchSizes
      BY <1>2 DEF BeginBatch, Clear, NoEntries
    <2>3. SafeEntries'
      BY <2>2 DEF SafeEntries
    <2>4. Grouped'
      <3>1. \A k : ~CalledNow(k)'
        BY <2>2 DEF CalledNow
      <3>2. InTable' = InTable
        BY <1>2 DEF InTable
      <3>3. ASSUME NEW m \in InTable, NEW b \in {"cond", "uncond"} PROVE EntryAt(m, b)' = None
        <4>1. KeyAt(m, b)' \in Keys
          BY <1>1, <2>2 DEF KeyAt, Keys, Branches, Stages
        <4> QED BY <2>2, <4>1 DEF EntryAt
      <3>4. \A m, n \in InTable' : \A b, c \in {"cond", "uncond"} :
              Linked(m, b, n, c)' => EntryAt(m, b)' = EntryAt(n, c)'
        BY <3>2, <3>3
      <3> QED BY <3>1, <3>4 DEF Grouped, Called
    <2>5. SafeMap!ReuseIsCalibrated'
      <3>1. served'.how # "reuse"
        BY <2>2 DEF Nothing
      <3> QED BY <3>1 DEF SafeMap!ReuseIsCalibrated
    <2> QED BY <1>2, <2>1, <2>3, <2>4, <2>5 DEF SafeInv, SafeMap!ConfigOK
  <1>3. CASE EndWarmup /\ cfg' = cfg
    <2>1. RuntimeTyped' /\ Control' /\ sampler' = "jit" /\ at' = "batch"
      BY <1>3, DriverKeeps DEF SafeInv, EndWarmup
    <2>2. SafeEntries' /\ Grouped' /\ SafeMap!ReuseIsCalibrated'
      BY <2>1 DEF SafeEntries, Grouped, SafeMap!ReuseIsCalibrated, Sampling
    <2> QED BY <1>3, <2>1, <2>2 DEF SafeInv, SafeMap!ConfigOK
  <1>4. CASE SetContext /\ cfg' = cfg
    <2>1. RuntimeTyped' /\ Control' /\ sampler' = "jit"
      BY <1>4, DriverKeeps DEF SafeInv, SetContext
    <2>2. /\ UNCHANGED <<sampler, batch, size, step, pass, entries, served, session>> /\ Sampling
          /\ at = "pass" /\ module' = 1 /\ Evals' = Evals
      BY <1>4, EvalsKept DEF SetContext, cacheVars, Sampling
    <2>3. \A k \in Keys : CalledNow(k)' <=> CalledNow(k)
      <3>1. \A b, st : Eval(b, st)' = Eval(b, st)
        BY DEF Eval
      <3>2. ASSUME NEW k \in Keys PROVE ~(k[1] < module')
        BY <2>2, SignalTyped, RuntimeAssumption DEF Modules
      <3> QED BY <2>2, <3>1, <3>2 DEF CalledNow
    <2>4. SafeEntries'
      BY <2>2, <2>3 DEF SafeInv, SafeEntries
    <2>5. Grouped'
      BY <1>1, <1>4, <2>2, <2>3, GroupedStill DEF SafeInv
    <2>6. SafeMap!ReuseIsCalibrated'
      BY <1>4, <2>2 DEF SafeInv, SafeMap!ReuseIsCalibrated
    <2> QED BY <1>4, <2>1, <2>4, <2>5, <2>6 DEF SafeInv, SafeMap!ConfigOK
  <1>5. CASE EndStep /\ cfg' = cfg
    <2>1. RuntimeTyped' /\ Control' /\ sampler' = "jit"
      BY <1>5, DriverKeeps DEF SafeInv, EndStep
    <2>2. CASE ~(step < Steps - 1)
      <3>1. at' \in {"reset", "batch"}
        BY <1>5, <2>2 DEF EndStep
      <3>2. SafeEntries' /\ Grouped' /\ SafeMap!ReuseIsCalibrated'
        BY <3>1 DEF SafeEntries, Grouped, SafeMap!ReuseIsCalibrated, Sampling
      <3> QED BY <1>5, <2>1, <3>2 DEF SafeInv, SafeMap!ConfigOK
    <2>3. CASE step < Steps - 1
      <3>1. /\ UNCHANGED <<sampler, batch, size, entries, served, session>> /\ Sampling
            /\ step' = step + 1 /\ pass' = 1 /\ at = "pass" /\ at' = "pass" /\ pass > Len(Evals)
            /\ step \in StepIdx
        BY <1>5, <2>3 DEF EndStep, cacheVars, Sampling, SafeInv, RuntimeTyped
      <3>2. \A k : ~CalledNow(k)'
        BY <3>1 DEF CalledNow
      <3>3. SafeEntries'
        <4>1. SUFFICES ASSUME NEW k \in Keys, entries[k] # None
                       PROVE  entries[k].step <= step' /\ entries[k].step # step'
          BY <3>1 DEF SafeInv, SafeEntries
        <4>2. entries[k] \in Entry
          BY <4>1 DEF SafeInv, RuntimeTyped
        <4>3. entries[k].step <= step
          BY <3>1, <4>1 DEF SafeInv, SafeEntries
        <4> QED BY <3>1, <4>2, <4>3 DEF Entry, StepIdx
      <3>4. Grouped'
        <4>1. InTable' = InTable
          BY <1>5 DEF InTable
        <4>2. \A m, n \in InTable : \A b, c \in {"cond", "uncond"} :
                Linked(m, b, n, c) => EntryAt(m, b) = EntryAt(n, c)
          BY <1>1, <3>1, GroupedAtEnd DEF SafeInv
        <4>3. \A m, n, b, c : Linked(m, b, n, c)' <=> Linked(m, b, n, c)
          BY <1>5 DEF Linked, SafeMap!OneRow, SafeMap!ManagedIn, SafeMap!FallsBack, SafeMap!Global
        <4>4. \A m, b : EntryAt(m, b)' = EntryAt(m, b)
          BY <3>1 DEF EntryAt, KeyAt
        <4> QED BY <3>2, <4>1, <4>2, <4>3, <4>4 DEF Grouped, Called
      <3>5. SafeMap!ReuseIsCalibrated'
        BY <1>5, <3>1 DEF SafeInv, SafeMap!ReuseIsCalibrated
      <3> QED BY <1>5, <2>1, <3>3, <3>4, <3>5 DEF SafeInv, SafeMap!ConfigOK
    <2> QED BY <2>2, <2>3
  <1>6. ASSUME NEW m \in Modules,
               SafeMap!ForwardInactive(m) \/ SafeMap!ForwardRefresh(m) \/ SafeMap!ForwardReuse(m)
        PROVE  SafeInv'
    <2>1. PICK key \in Keys : key = KeyOf(m)
      <3>1. Call(m)
        BY <1>6 DEF SafeMap!ForwardInactive, SafeMap!ForwardRefresh, SafeMap!ForwardReuse
      <3> QED BY <3>1, CallRuns DEF SafeInv
    <2>2. RuntimeTyped' /\ Control' /\ UNCHANGED <<sampler, cfg>>
      BY <1>6, <2>1, SafeCallEffect
    <2>3. SafeEntries' /\ Grouped' /\ SafeMap!ReuseIsCalibrated'
      BY <1>6, SafeEntriesCall, GroupedCall, CalibratedCall
    <2> QED BY <2>2, <2>3 DEF SafeInv, SafeMap!ConfigOK
  <1>7. CASE UNCHANGED SafeVars
    <2>1. UNCHANGED <<sampler, at, batch, size, step, pass, module, context, session, entries, stats,
                      served, cfg>>
      BY <1>7 DEF SafeVars, SafeMap!vars, SafeMap!driverVars, SafeMap!cacheVars
    <2>2. Evals' = Evals
      BY <2>1, EvalsKept
    <2>3. RuntimeTyped' /\ Control'
      <3>1. EvalContext' = EvalContext
        BY <2>1, <2>2 DEF EvalContext, TimeOf
      <3> QED BY <2>1, <2>2, <3>1 DEF SafeInv, RuntimeTyped, Control, Sampling, Runs
    <2>4. \A k : CalledNow(k)' <=> CalledNow(k)
      BY <2>1, <2>2 DEF CalledNow, Eval
    <2>5. SafeEntries'
      BY <2>1, <2>4 DEF SafeInv, SafeEntries, Sampling
    <2>6. Grouped'
      <3>1. CASE Sampling
        BY <1>1, <2>1, <2>4, <3>1, GroupedStill DEF SafeInv
      <3>2. CASE ~Sampling
        BY <2>1, <3>2 DEF Grouped, Sampling
      <3> QED BY <3>1, <3>2
    <2>7. SafeMap!ReuseIsCalibrated'
      BY <2>1 DEF SafeInv, SafeMap!ReuseIsCalibrated
    <2> QED BY <2>1, <2>3, <2>5, <2>6, <2>7 DEF SafeInv, SafeMap!ConfigOK
  <1>8. ASSUME SafeMap!Next PROVE SafeInv'
    <2>1. \/ (BeginBatch \/ EndWarmup \/ SetContext \/ EndStep) /\ cfg' = cfg
          \/ UNCHANGED SafeVars
          \/ \E m \in Modules : \/ SafeMap!ForwardInactive(m) \/ SafeMap!ForwardRefresh(m)
                                \/ SafeMap!ForwardReuse(m)
      BY <1>8 DEF SafeMap!Next, SafeMap!StartBatch, SafeMap!LeaveWarmup, SafeMap!Terminated, SafeVars,
                  SafeMap!Modules, Modules
    <2> QED BY <1>2, <1>3, <1>4, <1>5, <1>6, <1>7, <2>1
  <1> QED BY <1>7, <1>8

-----------------------------------------------------------------------------
(* Both policies *)

DetailInv ==
    /\ EntriesCurrent /\ Decided /\ Stored /\ SumStarts /\ DriftCoversSum
    /\ SignalsAlike /\ PairsInStep

WorkerInv ==
    \/ DynamicRuns /\ FullInv /\ Separated /\ DetailInv
    \/ SafeRuns /\ SafeInv

\* The two invariants where a run starts and over a step, under a signal.
LEMMA DynamicStart == Init /\ (sampler = "pixelgen_exact" => cfg.per_branch) => FullInv /\ Separated /\ DetailInv
  <1> SUFFICES ASSUME Init, sampler = "pixelgen_exact" => cfg.per_branch
               PROVE  FullInv /\ Separated /\ DetailInv
    OBVIOUS
  <1>1. ~Sampling
    BY DEF Init, RuntimeInit, Sampling
  <1>2. ~Steady
    BY <1>1 DEF Steady
  <1>3. DetailInv
    BY <1>1, <1>2 DEF DetailInv, EntriesCurrent, Decided, Stored, SumStarts, DriftCoversSum,
                      SignalsAlike, PairsInStep
  <1> QED BY <1>3, Start DEF Separated

\* All parts of the invariant are preserved together.
LEMMA DynamicNext ==
    ASSUME FullInv, Separated, DetailInv, [Next]_vars
    PROVE  FullInv' /\ Separated' /\ DetailInv'
  <1>1. FullInv'
    BY StartBatchKeeps, StartEvalKeeps, LeaveWarmupKeeps, SkipEvalKeeps, EndStepKeeps,
       ForwardKeeps, StutterKeeps DEF Next, Terminated
  <1>2. UNCHANGED <<sampler, cfg>>
    <2>1. CASE StartBatch \/ LeaveWarmup \/ StartEval
      BY <2>1 DEF StartBatch, BeginBatch, LeaveWarmup, EndWarmup, StartEval, SetContext
    <2>2. CASE (SkipEval \/ EndStep) /\ UNCHANGED <<policyVars, moved, drift>>
      BY <2>2 DEF SkipEval, EndStep, policyVars
    <2>3. ASSUME NEW m \in Modules, Forward(m) PROVE UNCHANGED <<sampler, cfg>>
      BY <2>3 DEF Forward, ForwardInactive, ForwardMiss, ForwardRefresh, ForwardReuse, policyVars, Call, Advance
    <2>4. CASE UNCHANGED vars
      BY <2>4, Still
    <2> QED BY <2>1, <2>2, <2>3, <2>4 DEF Next, Terminated
  <1>3. Separated'
    BY <1>2 DEF Separated
  <1>4. /\ EntriesCurrent' /\ Decided' /\ Stored' /\ SumStarts' /\ DriftCoversSum'
        /\ SignalsAlike' /\ PairsInStep'
    BY EntriesCurrentNext, DecidedNext, StoredNext, SumStartsNext, DriftCoversNext, SignalsAlikeNext,
       PairsNext DEF DetailInv
  <1> QED BY <1>1, <1>3, <1>4 DEF DetailInv

\* And under a safe map.
LEMMA SafeStart == SafeMap!Init => SafeInv
  <1> SUFFICES ASSUME SafeMap!Init PROVE SafeInv
    OBVIOUS
  <1>1. RuntimeInit /\ sampler = "jit" /\ cfg \in SafeConfigs /\ SafeMap!ConfigOK(cfg)
    BY SameRuntime DEF SafeMap!Init
  <1>2. RuntimeTyped /\ Control /\ at = "batch"
    BY <1>1, RuntimeInitTyped DEF RuntimeInit
  <1>3. SafeEntries /\ Grouped /\ SafeMap!ReuseIsCalibrated
    BY <1>2 DEF SafeEntries, Grouped, Sampling, SafeMap!ReuseIsCalibrated
  <1> QED BY <1>1, <1>2, <1>3 DEF SafeInv

\* The policy is chosen before the first batch.
LEMMA WorkerStart == PolicyInit => WorkerInv
  BY DynamicStart, SafeStart DEF PolicyInit, WorkerInv

\* A worker that runs a safe map takes its steps only.
LEMMA SafeStep ==
    ASSUME SafeRuns, [PolicyNext]_allVars
    PROVE  [SafeMap!Next]_SafeVars /\ policy' = policy
  <1>1. CASE UNCHANGED allVars
    <2>1. UNCHANGED vars /\ UNCHANGED <<tally, policy>>
      BY <1>1 DEF allVars
    <2>2. UNCHANGED <<driverVars, cacheVars, cfg, tally>>
      BY <2>1 DEF vars, policyVars
    <2>3. UNCHANGED SafeVars
      BY <2>2 DEF SafeVars, SafeMap!vars, SafeMap!driverVars, SafeMap!cacheVars, driverVars, cacheVars
    <2> QED BY <2>1, <2>3
  <1> QED BY <1>1 DEF PolicyNext, DynamicRuns, SafeRuns

\* The policy stays the one that was built.
LEMMA WorkerNext ==
    ASSUME WorkerInv, [PolicyNext]_allVars
    PROVE  WorkerInv'
  <1>1. CASE DynamicRuns /\ FullInv /\ Separated /\ DetailInv
    <2>1. [Next]_vars /\ policy' = policy
      BY <1>1 DEF PolicyNext, allVars, DynamicRuns, SafeRuns
    <2> QED BY <1>1, <2>1, DynamicNext DEF WorkerInv, DynamicRuns
  <1>2. CASE SafeRuns /\ SafeInv
    <2>1. [SafeMap!Next]_SafeVars /\ policy' = policy
      BY <1>2, SafeStep
    <2> QED BY <1>2, <2>1, SafeNext DEF WorkerInv, SafeRuns
  <1> QED BY <1>1, <1>2 DEF WorkerInv

\* The inductive invariant of a worker, whichever policy it built: under a signal
\* the parts above, under a map that linked modules and branches stay together.
THEOREM WorkerInvariance == PolicySpec => []WorkerInv
  BY WorkerStart, WorkerNext, PTL DEF PolicySpec

\* What CachedModule.forward reuses is warranted under either policy: the signal
\* has moved at most the threshold since the output was computed (update() and
\* should_refresh()), or the table allows that age at that step and boundary
\* (_safe_lookup()).
THEOREM AllReuseWarranted == PolicySpec => []ReuseWarranted
  <1>1. WorkerInv => ReuseWarranted
    BY DEF WorkerInv, ReuseWarranted, DynamicRuns, SafeRuns, SafeInv, FullInv, DriftBounded, ReusedNow
  <1> QED BY <1>1, WorkerInvariance, PTL

\* After both evaluations no module is between its two calls.
LEMMA BranchesAlike == FullInv /\ DetailInv => BranchesInStep
  <1> SUFFICES ASSUME FullInv, DetailInv, sampler = "jit", at = "pass", pass = 3, cfg.cache_cond,
                      cfg.cache_uncond, NEW m \in Modules
               PROVE  SameAge(CondKey(m), UncondKey(m))
    BY DEF BranchesInStep, SameAge, CondKey, UncondKey
  <1>1. Sampling /\ CalledNow(UncondKey(m)) /\ CondKey(m) \in Keys /\ UncondKey(m) \in Keys
    BY JitEvals DEF Sampling
  <1>2. CASE m \in NonTensorModules
    <2>1. CondKey(m)[1] = m /\ UncondKey(m)[1] = m
      BY JitEvals
    <2>2. entries[CondKey(m)] = None /\ entries[UncondKey(m)] = None
      BY <1>1, <1>2, <2>1 DEF DetailInv, EntriesCurrent
    <2> QED BY <2>2 DEF SameAge
  <1>3. CASE m \notin NonTensorModules
    BY <1>1, <1>3 DEF DetailInv, PairsInStep
  <1> QED BY <1>2, <1>3

\* After both evaluations every linked module has been called.
LEMMA BoundariesAlike == SafeInv => SafeMap!BoundariesInStep
  <1> SUFFICES ASSUME SafeInv, SafeMap!Evaluated PROVE SafeMap!BoundariesInStep
    BY DEF SafeMap!BoundariesInStep
  <1>1. SafeMap!Evals = Evals
    BY DEF SafeMap!Evals, Evals, SafeMap!Eval, Eval
  <1>2. at = "pass" /\ pass > Len(Evals)
    BY <1>1 DEF SafeMap!Evaluated
  <1>3. InTable \subseteq Modules
    BY DEF InTable, SafeInv, SafeMap!ConfigOK, SafeMap!Modules, Modules
  <1>4. \A m, n \in InTable : \A b, c \in {"cond", "uncond"} :
          Linked(m, b, n, c) => EntryAt(m, b) = EntryAt(n, c)
    BY <1>2, <1>3, GroupedAtEnd DEF SafeInv, Sampling
  <1> QED BY <1>4 DEF SafeMap!BoundariesInStep, InTable, Linked, EntryAt, KeyAt

\* What the sampler combines is of one age: after both evaluations of a step
\* JiT's cond and uncond outputs of a module come from the same step, with one
\* signal or with two (sample_jit), and under a safe map so do the modules of one
\* boundary, and the branches that one row serves.
THEOREM OutputsOfOneAge == PolicySpec => []OutputsInStep
  <1>1. WorkerInv => OutputsInStep
    BY BranchesAlike, BoundariesAlike DEF WorkerInv, OutputsInStep, DynamicRuns, SafeRuns
  <1> QED BY <1>1, WorkerInvariance, PTL

\* A refresh that nothing forced is owed to the key, whose drift is above the threshold.
LEMMA RefreshEarned ==
    ASSUME FullInv, DetailInv, NEW m \in Modules, ForwardRefresh(m), sampler \in {"jit", "deco"},
           ~DecisionNow.forced
    PROVE  drift[KeyOf(m)] > cfg.threshold
  <1>1. Call(m) /\ EntryOf(m) # None /\ ShouldRefresh /\ cfg' = cfg
    BY DEF ForwardRefresh, policyVars
  <1>2. PICK key \in Keys : key = KeyOf(m)
    BY <1>1, CallFrame
  <1>3. PICK g \in Signals : g = SignalOf(context.branch, context.stage)
    BY <1>1, CallFrame, SignalTyped
  <1>4. /\ SignalOfKey(key) = g /\ key[1] = m /\ key[2] = context.branch /\ key[3] = context.stage
        /\ entries[key] # None
    BY <1>1, <1>2, <1>3 DEF KeyOf, SignalOfKey, EntryOf
  <1>5. decision[g] # None /\ decision[g].step = step /\ decision[g].refresh /\ ~decision[g].forced
    BY <1>1, <1>3, DecidedNow DEF DetailInv, DecisionNow
  <1>6. RefreshOwed(key)
    <2>1. PICK i \in pass..Len(Evals) : i = pass
      BY <1>1, CallFrame
    <2>2. Evals[i] = Eval(key[2], key[3]) /\ module <= key[1]
      BY <1>1, <1>4, <2>1, CallFrame, RuntimeAssumption DEF Modules
    <2> QED BY <1>4, <1>5, <2>2 DEF RefreshOwed
  <1>7. Steady
    BY <1>1, CallFrame DEF Steady
  <1> QED BY <1>2, <1>4, <1>5, <1>6, <1>7 DEF DetailInv, DriftCoversSum

\* Under JiT and DeCo no output is recomputed in vain: over an entry, only where
\* the policy forces it or the output's own drift has passed the threshold,
\* although update() compares the signal's sum and not the output's drift.
THEOREM NoRefreshInVain == PolicySpec => RefreshesEarned
  <1>1. WorkerInv => \A m \in Modules :
          DynamicRuns /\ ForwardRefresh(m) /\ sampler \in {"jit", "deco"} /\ ~DecisionNow.forced
              => drift[KeyOf(m)] > cfg.threshold
    BY RefreshEarned DEF WorkerInv, DynamicRuns, SafeRuns
  <1> QED BY <1>1, WorkerInvariance, PTL DEF RefreshesEarned

-----------------------------------------------------------------------------
(* The refinement of BoundedReuse *)

Limit == IF SafeRuns THEN cfg.max_age + 1 ELSE Steps

\* Nothing is held and nothing was put out.
LEMMA PromiseStart ==
    ASSUME RuntimeInit, Limit \in Nat \ {0}
    PROVE  Promise!Init
  <1>1. ~Sampling /\ batch \in Nat \ {0} /\ step = 0 /\ Output = None
    BY RuntimeAssumption DEF RuntimeInit, Sampling, Output, Nothing
  <1>2. Held = Promise!Nowhere
    <2>1. size \in BatchSizes
      BY RuntimeAssumption DEF RuntimeInit
    <2>2. \A s \in Streams : <<s[1], s[2], s[3], size>> \in Keys
      BY <2>1 DEF Streams, Keys
    <2> QED BY <2>2 DEF RuntimeInit, Held, NoEntries, Promise!Nowhere
  <1> QED BY <1>1, <1>2 DEF Promise!Init, Limit

\* The driver's steps are those of the abstract sampler, or stutters.
LEMMA PromiseDrives ==
    ASSUME RuntimeTyped, BeginBatch \/ SetContext \/ SkipEval \/ EndStep \/ EndWarmup, Limit' = Limit
    PROVE  [Promise!Next]_(Promise!vars)
  <1> USE DEF Promise!vars, Limit
  <1>1. ASSUME UNCHANGED <<entries, size>> PROVE Held' = Held
    BY <1>1 DEF Held, Streams
  <1>2. ASSUME entries' = NoEntries, size' \in BatchSizes PROVE Held' = Promise!Nowhere
    <2>1. \A s \in Streams : <<s[1], s[2], s[3], size'>> \in Keys
      BY <1>2 DEF Streams, Keys
    <2> QED BY <1>2, <2>1 DEF Held, NoEntries, Promise!Nowhere, Streams
  <1>3. ASSUME UNCHANGED served PROVE Output' = Output
    BY <1>3 DEF Output
  <1>4. batch \in Nat /\ size \in BatchSizes /\ step \in StepIdx
    BY RuntimeAssumption DEF RuntimeTyped
  <1>5. CASE BeginBatch
    <2>1. Held' = Promise!Nowhere
      BY <1>2, <1>5 DEF BeginBatch, Clear
    <2>2. Output' = None
      BY <1>5 DEF BeginBatch, Output, Nothing
    <2> QED BY <1>4, <1>5, <2>1, <2>2 DEF BeginBatch, Sampling, Promise!Next, Promise!NewBatch
  <1>6. CASE SetContext \/ SkipEval
    BY <1>1, <1>3, <1>6 DEF SetContext, SkipEval, Sampling, cacheVars
  <1>7. CASE EndStep
    BY <1>1, <1>3, <1>4, <1>7 DEF EndStep, Sampling, cacheVars, Promise!Next, Promise!Tick
  <1>8. CASE EndWarmup
    <2>1. Held' = Promise!Nowhere /\ Output' = Output
      BY <1>2, <1>3, <1>4, <1>8 DEF EndWarmup, Clear
    <2> QED BY <1>8, <2>1 DEF EndWarmup, Sampling, Promise!Next, Promise!Drop
  <1> QED BY <1>5, <1>6, <1>7, <1>8

\* A call puts out a fresh output, or one that is held and recent enough.
LEMMA PromiseCalls ==
    ASSUME RuntimeTyped, Control, NEW m \in Modules, Call(m), Limit' = Limit, NEW key \in Keys, key = KeyOf(m),
           \/ Bypass(m) \/ Compute(m)
           \/ /\ Serve(m) /\ entries[key] # None /\ entries[key].batch = batch
              /\ entries[key].step < step /\ step - entries[key].step < Limit
    PROVE  Promise!Next
  <1> DEFINE s == <<m, context.branch, context.stage>>
  <1>1. /\ Sampling /\ Sampling' /\ context.step = step
        /\ UNCHANGED <<sampler, batch, size, step, context>> /\ s \in Streams
        /\ step \in StepIdx /\ NewEntry \in Entry
    BY CallRuns DEF Streams
  <1>2. s[1] = m /\ s[2] = context.branch /\ s[3] = context.stage
    OBVIOUS
  <1>3. ASSUME NEW how \in {"bypass", "compute"}, served' = Served(m, how, NewEntry)
        PROVE  Output' = Promise!Out(s, step)
    BY <1>1, <1>3 DEF Served, Output, NewEntry, Promise!Out
  <1>4. ASSUME UNCHANGED entries PROVE Held' = Held
    BY <1>1, <1>4 DEF Held, Streams
  <1> USE DEF Limit
  <1>5. CASE Bypass(m)
    BY <1>1, <1>3, <1>4, <1>5 DEF Bypass, Promise!Next, Promise!Fresh
  <1>6. CASE Compute(m)
    <2>1. Held' = Held \/ Held' = [Held EXCEPT ![s] = step]
      <3>1. CASE m \in NonTensorModules
        BY <1>4, <1>6, <3>1 DEF Compute
      <3>2. CASE m \notin NonTensorModules
        <4>1. entries' = [entries EXCEPT ![key] = NewEntry]
          BY <1>6, <3>2 DEF Compute
        <4>2. NewEntry # None /\ NewEntry.step = step
          BY <1>1, NoneAssumption DEF NewEntry
        <4>3. ASSUME NEW r \in Streams
              PROVE  Held'[r] = IF r = s THEN step ELSE Held[r]
          <5>1. <<r[1], r[2], r[3], size>> \in Keys
            BY <1>1 DEF Streams, Keys, RuntimeTyped
          <5>2. r = s <=> <<r[1], r[2], r[3], size>> = key
            BY <1>1, <1>2 DEF Streams, KeyOf
          <5> QED BY <1>1, <4>1, <4>2, <5>1, <5>2 DEF Held, RuntimeTyped
        <4> QED BY <4>3 DEF Held
      <3> QED BY <3>1, <3>2
    <2> QED BY <1>1, <1>3, <1>6, <2>1 DEF Compute, Promise!Next, Promise!Fresh
  <1>7. CASE /\ Serve(m) /\ entries[key] # None /\ entries[key].batch = batch
             /\ entries[key].step < step /\ step - entries[key].step < Limit
    <2>1. Held[s] = entries[key].step /\ EntryOf(m) = entries[key]
      BY <1>1, <1>2, <1>7 DEF Held, EntryOf, KeyOf
    <2>2. entries[key].step \in StepIdx
      BY <1>7 DEF RuntimeTyped, Entry
    <2>3. Held[s] # None
      BY <2>1, <2>2, RuntimeAssumption DEF StepIdx
    <2>4. Output' = Promise!Out(s, Held[s])
      BY <1>1, <1>7, <2>1 DEF Serve, Served, Output, Promise!Out
    <2> QED BY <1>1, <1>4, <1>7, <2>1, <2>3, <2>4 DEF Serve, Promise!Next, Promise!Reuse
  <1> QED BY <1>5, <1>6, <1>7

\* A signal's steps.
LEMMA DynamicRefines ==
    ASSUME DynamicRuns, policy' = policy, FullInv, DetailInv, [Next]_vars
    PROVE  [Promise!Next]_(Promise!vars)
  <1>1. RuntimeTyped /\ Control /\ Limit' = Limit
    BY Typed DEF FullInv, Limit, DynamicRuns, SafeRuns
  <1>2. CASE StartBatch \/ StartEval \/ LeaveWarmup \/ ((SkipEval \/ EndStep) /\ UNCHANGED <<policyVars, moved, drift>>)
    <2>1. BeginBatch \/ SetContext \/ SkipEval \/ EndStep \/ EndWarmup
      BY <1>2 DEF StartBatch, StartEval, LeaveWarmup
    <2> QED BY <1>1, <2>1, PromiseDrives
  <1>3. ASSUME NEW m \in Modules, Forward(m) PROVE Promise!Next
    <2>1. Call(m) /\ cfg' = cfg
      BY <1>3 DEF Forward, ForwardInactive, ForwardMiss, ForwardRefresh, ForwardReuse, policyVars
    <2>2. PICK key \in Keys : key = KeyOf(m)
      BY <2>1, CallFrame
    <2>3. \/ Bypass(m) \/ Compute(m)
          \/ Serve(m) /\ entries[key] # None
      BY <1>3, <2>2 DEF Forward, ForwardInactive, ForwardMiss, ForwardRefresh, ForwardReuse, Computed, EntryOf
    <2>4. ASSUME entries[key] # None
          PROVE  entries[key].batch = batch /\ entries[key].step < step /\ step - entries[key].step < Limit
      <3>1. Sampling /\ step \in StepIdx
        BY <2>1, CallFrame
      <3>2. entries[key].batch = batch
        BY <2>4, <3>1 DEF DetailInv, EntriesCurrent
      <3>3. entries[key].step <= step /\ (entries[key].step = step => CalledNow(key))
        BY <2>4, <3>1 DEF FullInv, EntryOK
      <3>4. ~CalledNow(key)
        BY <1>1, <2>1, <2>2, CallsOnce
      <3>5. entries[key].step \in StepIdx
        BY <1>1, <2>4 DEF RuntimeTyped, Entry
      <3> QED BY <3>1, <3>2, <3>3, <3>4, <3>5, RuntimeAssumption DEF StepIdx, Limit, DynamicRuns, SafeRuns
    <2> QED BY <1>1, <2>1, <2>2, <2>3, <2>4, PromiseCalls
  <1>4. CASE UNCHANGED vars
    <2>1. UNCHANGED <<at, batch, size, step, entries, served, cfg>>
      BY <1>4 DEF vars, driverVars, cacheVars, policyVars
    <2> QED BY <1>1, <2>1 DEF Promise!vars, Held, Output, Sampling, Limit
  <1> QED BY <1>2, <1>3, <1>4 DEF Next, Terminated

\* A safe map's.
LEMMA SafeRefines ==
    ASSUME SafeRuns, policy' = policy, SafeInv, [SafeMap!Next]_SafeVars
    PROVE  [Promise!Next]_(Promise!vars)
  <1> USE SameRuntime
  <1>1. RuntimeTyped /\ Control
    BY DEF SafeInv
  <1>2. CASE (BeginBatch \/ EndWarmup \/ SetContext \/ EndStep) /\ cfg' = cfg
    <2>1. Limit' = Limit
      BY <1>2 DEF Limit, SafeRuns
    <2> QED BY <1>1, <1>2, <2>1, PromiseDrives
  <1>3. ASSUME NEW m \in Modules,
               SafeMap!ForwardInactive(m) \/ SafeMap!ForwardRefresh(m) \/ SafeMap!ForwardReuse(m)
        PROVE  Promise!Next
    <2>1. Call(m)
      BY <1>3 DEF SafeMap!ForwardInactive, SafeMap!ForwardRefresh, SafeMap!ForwardReuse
    <2>2. PICK key \in Keys : key = KeyOf(m)
      BY <1>1, <2>1, CallRuns
    <2>3. /\ cfg' = cfg
          /\ \/ Bypass(m) \/ Compute(m)
             \/ Serve(m) /\ entries[key] # None /\ Allows(m, context.branch, entries[key])
      BY <1>3, <2>2, SafeCall
    <2>4. Limit' = Limit
      BY <2>3 DEF Limit, SafeRuns
    <2>5. ASSUME entries[key] # None, Allows(m, context.branch, entries[key])
          PROVE  entries[key].batch = batch /\ entries[key].step < step /\ step - entries[key].step < Limit
      <3>1. Sampling /\ step \in StepIdx
        BY <1>1, <2>1, CallRuns
      <3>2. entries[key] = [step |-> entries[key].step, t |-> entries[key].step, batch |-> batch,
                            signature |-> [batch_size |-> size, session_id |-> session]]
        BY <2>5, <3>1 DEF SafeInv, SafeEntries
      <3>3. entries[key].batch = batch
        BY <3>2
      <3>4. ~(step - entries[key].step <= 0) /\ ~(step - entries[key].step > cfg.max_age)
        BY <2>5 DEF Allows, SafeReason
      <3>5. entries[key].step \in StepIdx /\ cfg.max_age \in Nat
        BY <1>1, <2>5 DEF RuntimeTyped, Entry, SafeInv, SafeMap!ConfigOK
      <3> QED BY <3>1, <3>3, <3>4, <3>5 DEF StepIdx, Limit
    <2> QED BY <1>1, <2>1, <2>2, <2>3, <2>4, <2>5, PromiseCalls
  <1>4. CASE UNCHANGED SafeVars
    <2>1. UNCHANGED <<at, batch, size, step, entries, served, cfg>>
      BY <1>4 DEF SafeVars, SafeMap!vars, SafeMap!driverVars, SafeMap!cacheVars
    <2> QED BY <2>1 DEF Promise!vars, Held, Output, Sampling, SafeRuns
  <1>5. ASSUME SafeMap!Next
        PROVE  \/ (BeginBatch \/ EndWarmup \/ SetContext \/ EndStep) /\ cfg' = cfg
               \/ UNCHANGED SafeVars
               \/ \E m \in Modules : \/ SafeMap!ForwardInactive(m) \/ SafeMap!ForwardRefresh(m)
                                     \/ SafeMap!ForwardReuse(m)
    BY <1>5 DEF SafeMap!Next, SafeMap!StartBatch, SafeMap!LeaveWarmup, SafeMap!Terminated, SafeVars,
                SafeMap!Modules, Modules
  <1> QED BY <1>2, <1>3, <1>4, <1>5

\* Whatever policy the worker built, its cache implements BoundedReuse: what a
\* call returns was computed now, or earlier in the same batch by the same module,
\* branch and stage, at most max_age steps ago under a safe map.
THEOREM PromiseKept == PolicySpec => KeepsPromise
  <1>1. PolicyInit => Promise!Init
    <2>1. ASSUME PolicyInit PROVE RuntimeInit /\ Limit \in Nat \ {0}
      BY <2>1, SameRuntime, RuntimeAssumption
      DEF PolicyInit, Init, SafeMap!Init, SafeMap!ConfigOK, Limit, DynamicRuns, SafeRuns
    <2> QED BY <2>1, PromiseStart
  <1>2. WorkerInv /\ [PolicyNext]_allVars => [Promise!Next]_(Promise!vars)
    <2>1. SUFFICES ASSUME WorkerInv, [PolicyNext]_allVars PROVE [Promise!Next]_(Promise!vars)
      OBVIOUS
    <2>2. CASE DynamicRuns /\ FullInv /\ DetailInv
      <3>1. [Next]_vars /\ policy' = policy
        BY <2>1, <2>2 DEF PolicyNext, allVars, DynamicRuns, SafeRuns
      <3> QED BY <2>2, <3>1, DynamicRefines
    <2>3. CASE SafeRuns /\ SafeInv
      <3>1. [SafeMap!Next]_SafeVars /\ policy' = policy
        BY <2>1, <2>3, SafeStep
      <3> QED BY <2>3, <3>1, SafeRefines
    <2> QED BY <2>1, <2>2, <2>3 DEF WorkerInv
  <1> QED BY <1>1, <1>2, WorkerInvariance, PTL DEF PolicySpec, KeepsPromise, Promise!Spec
=============================================================================
