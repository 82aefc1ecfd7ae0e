---------------------------- MODULE ReuseWorker ----------------------------
(***************************************************************************)
(* A worker that reuses outputs unchanged: it builds one of two policies,    *)
(* DynamicCache's or SafeMapCache's, over the same cache and samplers.       *)
(***************************************************************************)
EXTENDS DynamicCache

CONSTANT SafeConfigs   \* the policies with a safe map that it may build

VARIABLES policy,  \* the policy of this process
          tally    \* SafeMapCachePolicy._stats

allVars == <<vars, tally, policy>>

SafeMap == INSTANCE SafeMapCache WITH Configs <- SafeConfigs

SafeRuns == policy = "safe_bfc"
DynamicRuns == policy = "teacache_style"

\* Exact Heun with one signal per stage; for the shared one see the README.
PolicyInit ==
    \/ DynamicRuns /\ Init /\ (sampler = "pixelgen_exact" => cfg.per_branch)
       /\ tally = SafeMap!NothingCounted
    \/ SafeRuns /\ SafeMap!Init
       /\ seen = {} /\ accumulated = [g \in Signals |-> 0] /\ decision = [g \in Signals |-> None]
       /\ counters = NoCounts /\ moved = 0 /\ drift = [k \in Keys |-> 0]

PolicyNext ==
    \/ DynamicRuns /\ Next /\ UNCHANGED <<tally, policy>>
    \/ SafeRuns /\ SafeMap!Next /\ UNCHANGED <<observation, drift, policy>>

PolicySpec == PolicyInit /\ [][PolicyNext]_allVars

\* What is reused is still near what would be computed: the signal moved at most
\* `threshold' since, or the map allows that age at that step and boundary.
ReuseWarranted == IF SafeRuns THEN SafeMap!ReuseIsCalibrated ELSE DriftBounded

\* Outputs that are combined have one age: JiT's two branches under a signal,
\* the modules of one boundary under a map.
OutputsInStep == IF SafeRuns THEN SafeMap!BoundariesInStep ELSE BranchesInStep

\* An output is recomputed over an existing one only after its own drift passed
\* the threshold, or when the policy forces it.
RefreshesEarned ==
    [][\A m \in Modules :
          DynamicRuns /\ ForwardRefresh(m) /\ sampler \in {"jit", "deco"} /\ ~DecisionNow.forced
              => drift[KeyOf(m)] > cfg.threshold]_allVars

Promise == INSTANCE BoundedReuse WITH
    limit <- IF SafeRuns THEN cfg.max_age + 1 ELSE Steps,
    now <- step, held <- Held, output <- Output,
    batch <- IF Sampling THEN batch ELSE batch - 1

\* The cache implements BoundedReuse: an output is of the same batch and stream,
\* at most max_age steps old under a map; a signal alone sets no bound but the
\* batch's end.
KeepsPromise == Promise!Spec
=============================================================================
