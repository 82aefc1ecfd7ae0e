--------------------------- MODULE ForecastWorker ---------------------------
(***************************************************************************)
(* A worker that forecasts: it builds one of two policies, SpeCaCache's or  *)
(* TaylorSeerCache's, over the same cache and histories.                    *)
(***************************************************************************)
EXTENDS SpeCaCache

CONSTANT SeerConfigs   \* the TaylorSeer policies it may build

VARIABLE policy   \* cache_method of this process

allVars == <<vars, policy>>

TaylorSeer == INSTANCE TaylorSeerCache WITH Configs <- SeerConfigs

SpeCaRuns == policy = "speca_style"
SeerRuns == policy = "taylorseer_style"

PolicyInit ==
    \/ SpeCaRuns /\ Init
    \/ SeerRuns /\ TaylorSeer!Init
       /\ stream = NewStream /\ speca = NothingCounted /\ measured = NotMeasured

PolicyNext ==
    \/ SpeCaRuns /\ Next /\ UNCHANGED policy
    \/ SeerRuns /\ TaylorSeer!Next /\ UNCHANGED <<specaVars, policy>>

PolicySpec == PolicyInit /\ [][PolicyNext]_allVars

\* Under either policy the histories follow the cache's entries, and under SpeCa
\* no step is partly forecast and partly full (IInv of the two modules).
HistoriesInStep == IF SpeCaRuns THEN IInv ELSE TaylorSeer!IInv

\* The steps TaylorSeer forecasts are a function of its schedule alone, the same
\* in every batch, for every module and in both branches.
SameStepsForecast == SeerRuns => TaylorSeer!SameStepsForecast

\* SpeCa's decisions are carried out, and taken only on errors that were measured:
\* the checks of should_reuse_entry and make_reuse_tensor never fail in the middle
\* of a batch (DecisionsCarriedOut), a verified step is settled (EveryVerificationCounts).
DecisionsSettled == SpeCaRuns => DecisionsCarriedOut /\ EveryVerificationCounts

\* A run of SpeCa's forecasts goes on only as long as its errors earn it.
ForecastsEarned == SpeCaRuns => RunEarned

\* SpeCa reports the steps and runs of the formal batches, each once.
StepsAccounted == SpeCaRuns => RunsAccounted

Promise == INSTANCE BoundedReuse WITH
    limit <- IF SpeCaRuns THEN cfg.max_forecast_steps + 1 ELSE cfg.interval,
    now <- step, held <- Held, output <- Output,
    batch <- IF at \in {"pass", "module"} THEN batch ELSE batch - 1

\* A forecast replaces an output of the same batch and stream, younger than
\* TaylorSeer's interval or at most max_forecast_steps old under SpeCa.
KeepsPromise == Promise!Spec
=============================================================================
