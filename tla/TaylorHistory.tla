--------------------------- MODULE TaylorHistory ---------------------------
(***************************************************************************)
(* The draft predictor TaylorSeerCachePolicy brings to the modules of       *)
(* CacheRuntime and SpeCaCachePolicy inherits: what a module computed at    *)
(* its last few refreshes, and the polynomial through them in place of its  *)
(* output.  When to forecast is decided by the policy that EXTENDS this     *)
(* module.  A tensor of the history is abstracted to the step and batch it  *)
(* was computed in, a forecast to the points it goes through.               *)
(***************************************************************************)
EXTENDS CacheRuntime

CONSTANT Configs   \* the policy configurations a run may start with

VARIABLES
    cfg,      \* the configuration of this process, never reassigned
    history,  \* _history, per key, oldest first
    pending,  \* keys and steps of _pending_forecasts
    seer,     \* _stats and SpeCa's _full_compute_calls
    points    \* ghost: what the last forecast of this batch went through

historyVars == <<history, pending, seer, points>>

\* Only the JiT script offers the policies that forecast.
ASSUME JiTAssumption == Samplers = {"jit"}

Item == [step : StepIdx, batch : BatchIdx]

Fields == {"managed", "decided", "committed", "failures", "appends"}
NoCalls == [f \in Fields |-> 0]
Count(s, fields) == [f \in Fields |-> IF f \in fields THEN s[f] + 1 ELSE s[f]]

HistoryOf(m) == history[KeyOf(m)]
ReadyAboveMinimum(h) == Len(h) > cfg.min_history   \* slip
Ready(h) == Len(h) >= cfg.min_history

-----------------------------------------------------------------------------
(* The history of a key *)

KeptOldest(h) == IF Len(h) > cfg.max_history THEN SubSeq(h, 1, cfg.max_history) ELSE h \* slip
Kept(h) == IF Len(h) > cfg.max_history
           THEN SubSeq(h, Len(h) - cfg.max_history + 1, Len(h)) ELSE h

\* on_refresh_committed: a second output of one step replaces the first.
Remember(h, item) ==
    IF h # <<>> /\ h[Len(h)].step = item.step
    THEN [h EXCEPT ![Len(h)] = item]
    ELSE Kept(Append(h, item))

\* The degree grows with the history, up to max_order.
OrderUncapped(h) == Len(h) - 1   \* slip: all that is kept
Order(h) == IF Len(h) - 1 < cfg.max_order THEN Len(h) - 1 ELSE cfg.max_order
Points(h) == SubSeq(h, Len(h) - Order(h), Len(h))

NoHistory == [k \in Keys |-> <<>>]

ForgetBatch == history' = NoHistory /\ pending' = {}

-----------------------------------------------------------------------------
(* What CachedModule.forward does with the policy's answer. *)

Call(m) == at = "module" /\ module = m /\ Advance

\* The module ran: a tensor enters the cache and the history.
Recompute(m, counted) ==
    /\ Compute(m)
    /\ points' = <<>>
    /\ IF m \in NonTensorModules
       THEN /\ seer' = Count(seer, counted)
            /\ UNCHANGED history
       ELSE /\ seer' = Count(seer, counted \cup {"appends"})
            /\ history' = [history EXCEPT ![KeyOf(m)] =
                             Remember(@, [step |-> context.step, batch |-> batch])]

Refresh(m) == Recompute(m, {"managed"}) /\ UNCHANGED pending

\* should_reuse_entry answered yes.  make_reuse_tensor looks again at the
\* history, and the cache at the entry: if either refuses, the module runs.
Forecast(m) ==
    IF EntryMatches(EntryOf(m)) /\ Ready(HistoryOf(m))
    THEN /\ Serve(m)
         /\ points' = Points(HistoryOf(m))
         /\ seer' = Count(seer, {"managed", "decided", "committed"})
         /\ UNCHANGED <<history, pending>>
    ELSE /\ Recompute(m, {"managed", "decided"} \cup
                         (IF EntryMatches(EntryOf(m)) THEN {"failures"} ELSE {}))
         /\ pending' = pending \cup {<<KeyOf(m), context.step>>}

HistoryInit ==
    /\ history = NoHistory /\ pending = {} /\ seer = NoCalls /\ points = <<>>

HistoryTypeOK ==
    /\ cfg \in Configs
    /\ DOMAIN history = Keys
    /\ \A k \in Keys : history[k] \in Seq(Item) /\ Len(history[k]) <= cfg.max_history
    /\ pending \subseteq Keys \X StepIdx
    /\ seer \in [Fields -> Nat]
    /\ points \in Seq(Item)

-----------------------------------------------------------------------------
(* What is asked of the histories, whatever the schedule. *)

Streams == Modules \X Branches \X Stages

\* Entry and history are kept by different objects, cleared by different calls
\* (clear_entries in the sampler, clear_batch in the script): they never tell
\* different stories about the last refresh of a key.
HistoryMeetsEntry ==
    \A k \in Keys :
      IF entries[k] = None THEN history[k] = <<>>
      ELSE /\ history[k] # <<>>
           /\ history[k][Len(history[k])] = [step |-> entries[k].step, batch |-> entries[k].batch]

\* A forecast goes through outputs of this batch, at least min_history and at
\* most max_order + 1 of them, at distinct earlier steps in ascending order: the
\* Lagrange weights never divide by zero (_lagrange_extrapolate).
PointsSound ==
    points # <<>> /\ at \in {"pass", "module"} =>
      /\ Len(points) >= cfg.min_history \/ Len(points) = cfg.max_order + 1
      /\ Len(points) <= cfg.max_order + 1
      /\ \A i \in DOMAIN points : points[i].batch = batch /\ points[i].step < served.step
      /\ \A i, j \in DOMAIN points : i < j => points[i].step < points[j].step

\* Every decision to forecast is carried out: no history runs short and no entry
\* mismatches between should_reuse_entry and on_reuse_committed.
ForecastsCommitted == pending = {} /\ seer["failures"] = 0 /\ seer["decided"] = seer["committed"]

-----------------------------------------------------------------------------

Held == [s \in Streams |-> LET e == entries[<<s[1], s[2], s[3], size>>]
                           IN IF e = None THEN None ELSE e.step]

Output == IF served.how = "nothing" THEN None
          ELSE [stream |-> <<served.module, served.branch, served.stage>>,
                now |-> served.step, from |-> served.from, batch |-> served.batch]
=============================================================================
