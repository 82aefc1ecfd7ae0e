---------------------------- MODULE SafeMapCache ----------------------------
(***************************************************************************)
(* SafeMapCachePolicy (Safe-BFC): a calibrated table says, per branch,      *)
(* boundary and step, up to which ages an output may be reused.  The        *)
(* modules of CacheRuntime are grouped into boundaries.  Tables are those   *)
(* of the Euler stage, the only one JiT has.                                *)
(***************************************************************************)
EXTENDS CacheRuntime

CONSTANT Configs   \* the policies, each with its safe map

VARIABLES
    cfg,    \* enabled, boundary, branches, fallback, default_safe, max_age, safe
    tally   \* _stats of the formal run

vars == <<driverVars, cacheVars, cfg, tally>>

Global == "global"
TableBranches == {"cond", "uncond", Global}

\* A step's ages are a list, the first for age 1; steps the calibration left
\* out are not in the domain.
ConfigOK(c) ==
    /\ DOMAIN c = {"enabled", "boundary", "branches", "fallback", "default_safe",
                   "max_age", "safe"}
    /\ {c.enabled, c.fallback, c.default_safe} \subseteq BOOLEAN
    /\ DOMAIN c.boundary \subseteq Modules
    /\ c.branches \subseteq TableBranches /\ c.branches # {}
    /\ c.max_age \in Nat \ {0}
    /\ DOMAIN c.safe \subseteq TableBranches
    /\ \A b \in DOMAIN c.safe : \A group \in DOMAIN c.safe[b] :
         /\ DOMAIN c.safe[b][group] \subseteq StepIdx
         /\ \A s \in DOMAIN c.safe[b][group] : c.safe[b][group][s] \in Seq(BOOLEAN)

-----------------------------------------------------------------------------
(* Lookup *)

FallsBack == cfg.fallback /\ Global \in cfg.branches
ManagedIn(branch) == branch \in cfg.branches \/ FallsBack

\* slip: _infer_module_to_boundary keeps one module of a boundary
ManagedLast(m) ==
    /\ cfg.enabled /\ m \in DOMAIN cfg.boundary /\ context.stage = "euler"
    /\ ManagedIn(context.branch)
    /\ \A n \in DOMAIN cfg.boundary : cfg.boundary[n] = cfg.boundary[m] => n <= m
Managed(m) ==
    /\ cfg.enabled /\ m \in DOMAIN cfg.boundary /\ context.stage = "euler"
    /\ ManagedIn(context.branch)

\* _select_branch, then the table's own fallback in _safe_lookup.
Selected == IF context.branch \in cfg.branches THEN context.branch ELSE Global
Row == IF Selected \in DOMAIN cfg.safe THEN Selected
       ELSE IF cfg.fallback /\ Global \in DOMAIN cfg.safe THEN Global ELSE None

Age(m) == context.step - EntryOf(m).step

\* _safe_lookup on the table of a boundary.
Lookup(table, s, age) ==
    IF s \notin DOMAIN table THEN "step_not_found"
    ELSE IF age > Len(table[s]) THEN "age_not_found"
    ELSE IF table[s][age] THEN "safe_reuse" ELSE "unsafe_refresh"

Reason(m) ==
    IF EntryOf(m) = None THEN "missing_entry_refresh"
    ELSE IF Age(m) <= 0 THEN "non_positive_age_refresh"
    ELSE IF Age(m) > cfg.max_age THEN "over_age_refresh"
    ELSE IF Row = None THEN "branch_not_found"
    ELSE IF cfg.boundary[m] \notin DOMAIN cfg.safe[Row] THEN "boundary_not_found"
    ELSE Lookup(cfg.safe[Row][cfg.boundary[m]], context.step, Age(m))

Reuses(m) == \/ Reason(m) = "safe_reuse"
             \/ cfg.default_safe /\ Reason(m) \in {"step_not_found", "age_not_found"}

-----------------------------------------------------------------------------
(* _record_decision and the commits *)

Fields == {"managed", "reuse_decisions", "reuse_committed", "refresh_decisions",
           "refresh_committed", "mismatch"}
NothingCounted == [f \in Fields |-> 0]
Count(fields) == tally' = [f \in Fields |-> IF f \in fields THEN tally[f] + 1 ELSE tally[f]]

\* A reuse counts as one whether the table or default_safe allows it; a table
\* without the branch is no decision of either kind.
Recorded(m) ==
    IF Reuses(m) THEN {"managed", "reuse_decisions"}
    ELSE IF Reason(m) = "branch_not_found" THEN {"managed"}
    ELSE {"managed", "refresh_decisions"}

-----------------------------------------------------------------------------
(* CachedModule.forward under this policy. *)

Call(m) == at = "module" /\ module = m /\ Advance

ForwardInactive(m) ==
    /\ Call(m) /\ ~Managed(m)
    /\ Bypass(m) /\ UNCHANGED <<cfg, tally>>

Recompute(m, counted) ==
    /\ Compute(m)
    /\ Count(Recorded(m) \cup (IF m \in NonTensorModules THEN {}
                               ELSE counted \cup {"refresh_committed"}))
    /\ UNCHANGED cfg

ForwardRefresh(m) ==
    /\ Call(m) /\ Managed(m) /\ ~Reuses(m)
    /\ Recompute(m, {})

\* A reuse the table allows still needs the entry's input signature to match.
ForwardReuse(m) ==
    /\ Call(m) /\ Managed(m) /\ Reuses(m)
    /\ IF EntryMatches(EntryOf(m))
       THEN Serve(m) /\ Count(Recorded(m) \cup {"reuse_committed"}) /\ UNCHANGED cfg
       ELSE Recompute(m, {"mismatch"})

\* Only the JiT script builds this policy.
Init ==
    /\ RuntimeInit /\ sampler = "jit"
    /\ cfg \in {c \in Configs : ConfigOK(c)}
    /\ tally = NothingCounted

\* The policy keeps nothing of a batch.
StartBatch == BeginBatch /\ UNCHANGED <<cfg, tally>>

ResetTally == tally' = NothingCounted
LeaveWarmup == EndWarmup /\ ResetTally /\ UNCHANGED cfg

Terminated == Finished /\ UNCHANGED vars

Next ==
    \/ StartBatch \/ LeaveWarmup
    \/ (SetContext \/ EndStep) /\ UNCHANGED <<cfg, tally>>
    \/ \E m \in Modules : ForwardInactive(m) \/ ForwardRefresh(m) \/ ForwardReuse(m)
    \/ Terminated

Spec == Init /\ [][Next]_vars

-----------------------------------------------------------------------------
(* Properties *)

TypeOK ==
    /\ cfg \in Configs /\ tally \in [Fields -> Nat]
    /\ sampler \in SamplerNames /\ at \in {"batch", "pass", "module", "reset"}
    /\ step \in StepIdx /\ context \in Context /\ session \in Nat
    /\ entries \in [Keys -> Entry \cup {None}] /\ stats \in Stats

Evaluated == at = "pass" /\ pass > Len(Evals)

\* One row, the global one, serves both branches.
OneRow == DOMAIN cfg.safe = {Global} /\ ManagedIn("cond") /\ ManagedIn("uncond")

\* The map was calibrated per boundary: the modules of one boundary are reused
\* and refreshed together, and so are both branches where one row serves them.
BoundariesInStep ==
    Evaluated /\ cfg.enabled =>
      \A m, n \in DOMAIN cfg.boundary \ NonTensorModules :
        \A b, c \in {"cond", "uncond"} :
          cfg.boundary[m] = cfg.boundary[n] /\ (b = c \/ OneRow) =>
            entries[<<m, b, "euler", size>>] = entries[<<n, c, "euler", size>>]

\* What is reused was computed in this batch at most max_age steps ago, and a
\* row that applies to the branch allows that age at that step; nothing outside
\* the table is reused unless default_safe says so.
ReuseIsCalibrated ==
    served.how = "reuse" /\ at \in {"pass", "module"} =>
      LET age == served.step - served.from
          rows == {b \in DOMAIN cfg.safe : b \in {served.branch, Global}}
          allows(b) ==
            /\ cfg.boundary[served.module] \in DOMAIN cfg.safe[b]
            /\ LET table == cfg.safe[b][cfg.boundary[served.module]]
               IN IF served.step \in DOMAIN table /\ age <= Len(table[served.step])
                  THEN table[served.step][age] ELSE cfg.default_safe
      IN /\ served.batch = batch /\ age \in 1 .. cfg.max_age
         /\ \E b \in rows : allows(b)

=============================================================================
