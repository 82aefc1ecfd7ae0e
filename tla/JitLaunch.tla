------------------------------ MODULE JitLaunch ------------------------------
(***************************************************************************)
(* The JiT-only launcher run_jit_parallel_generate.py and its workers: from *)
(* the options of the command line, through the configuration each worker   *)
(* makes of them, to the statistics the workers leave and the merge adds    *)
(* up.  Which files and images there are is the concern of GenerationRun;   *)
(* here an image counts only as part of a batch.                            *)
(***************************************************************************)
EXTENDS ShardMerge

CONSTANTS
    Launches,     \* the command lines
    Batches,      \* bound: batches of a shard
    Outcomes(_)   \* what a batch may leave in the ledger of a policy of that type

VARIABLES
    launch,     \* the command line
    launcher,   \* the launcher process
    worker,     \* the worker processes, per shard
    signalled,  \* workers that were sent SIGTERM
    report,     \* the reports of the shards that exist
    merged      \* the reports the merged one was made of, None before the merge

vars == <<launch, launcher, worker, signalled, report, merged>>

INSTANCE JitOptions

Shards == 0 .. (launch.gpus - 1)
MostShards == Max({l.gpus : l \in Launches})
Type == TypeOf(launch.method)
Args == Parsed(launch.given, LauncherDefaults)
WorkerArgs == Parsed(Forwarded(Args, launch.method), WorkerDefaults)

\* config: what the method's options resolved to; left: batches to generate;
\* skipped: batches an earlier launch has left complete.
Worker(at, rc) == [at |-> at, rc |-> rc, config |-> << >>, left |-> 0, skipped |-> 0,
                   ledger |-> << >>]

Alive == {s \in Shards : worker[s].at \notin {"absent", "ended"}}
SomeFailed == \E s \in Shards : worker[s].at = "ended" /\ worker[s].rc # 0

Init ==
    /\ launch \in Launches
    /\ launcher = [at |-> "starting", rc |-> None, next |-> 0]
    /\ worker = [s \in Shards |-> Worker("absent", None)]
    /\ signalled = {} /\ report = << >> /\ merged = None

-----------------------------------------------------------------------------
(* The launcher *)

BecomesLauncher(at, rc) == launcher' = [launcher EXCEPT !.at = at, !.rc = rc]
OnlyLauncher == UNCHANGED <<launch, worker, signalled, report, merged>>

\* What the launcher refuses: parser.error.
Acceptable ==
    /\ launch.gpus > 0 /\ launch.num_shards \in {None, launch.gpus}
    /\ ~(launch.save_npz /\ launch.gpus > 1)
    /\ LauncherTakes(Args)

\* Without --execute the commands are printed.
Start ==
    /\ launcher.at = "starting"
    /\ CASE ~Acceptable     -> BecomesLauncher("done", 2)
         [] ~launch.execute -> BecomesLauncher("done", 0)
         [] OTHER           -> BecomesLauncher("spawning", None)
    /\ OnlyLauncher

Spawn ==
    /\ launcher.at = "spawning"
    /\ worker' = [worker EXCEPT ![launcher.next] = Worker("parsing", None)]
    /\ launcher' = [launcher EXCEPT !.next = @ + 1,
                                    !.at = IF @ = "spawning" /\ launcher.next + 1 = launch.gpus
                                           THEN "polling" ELSE @]
    /\ UNCHANGED <<launch, signalled, report, merged>>

\* Popen raises: the workers already started are left running.
SpawnFails ==
    /\ launcher.at = "spawning"
    /\ BecomesLauncher("done", 1) /\ OnlyLauncher

\* slip: the failure is noted, the others are not terminated
PollOnly ==
    /\ launcher.at = "polling" /\ (Alive = {} \/ SomeFailed)
    /\ BecomesLauncher("waiting", None) /\ OnlyLauncher

\* The loop ends when no worker is running or one has failed; what still runs
\* is terminated.
Poll ==
    /\ launcher.at = "polling" /\ (Alive = {} \/ SomeFailed)
    /\ signalled' = Alive
    /\ BecomesLauncher("waiting", None)
    /\ UNCHANGED <<launch, worker, report, merged>>

\* process.wait() of all of them, without a time limit; the launcher's meta is
\* written whatever the return codes are.
Wait ==
    /\ launcher.at = "waiting" /\ Alive = {}
    /\ IF SomeFailed THEN BecomesLauncher("done", 1) ELSE BecomesLauncher("merging", None)
    /\ OnlyLauncher

\* KeyboardInterrupt, by SIGINT or SIGTERM; outside the try block nothing
\* handles it.
Interrupt ==
    /\ \/ /\ launcher.at \in {"spawning", "polling", "waiting"}
          /\ signalled' = Alive
          /\ BecomesLauncher("stopping", None)
       \/ /\ launcher.at = "merging"
          /\ BecomesLauncher("done", 1) /\ UNCHANGED signalled
    /\ UNCHANGED <<launch, worker, report, merged>>

\* Every process gets five seconds to end and is killed after that, so the
\* launcher may go before its workers have.
Stopped ==
    /\ launcher.at = "stopping"
    /\ BecomesLauncher("done", 1) /\ OnlyLauncher

-----------------------------------------------------------------------------
(* The strict merge, run as a child of the launcher *)

\* Files of every shard and an image of every index; one shard alone wrote
\* files without a suffix.
MergeAccepts == DOMAIN report = Shards /\ launch.gpus > 1 /\ launch.save_png

Merge ==
    /\ launcher.at = "merging"
    /\ IF MergeAccepts
       THEN merged' = report /\ BecomesLauncher("done", 0)
       ELSE BecomesLauncher("done", 1) /\ UNCHANGED merged
    /\ UNCHANGED <<launch, worker, signalled, report>>

\* What the merge writes of them; the meta is the first shard's, with all of them
\* beside it.
Sum(f) == MapThenSumSet(LAMBDA s : merged[s][f], DOMAIN merged)

MergedReport == [config |-> merged[0].config,
                 generated |-> Sum("generated"), skipped |-> Sum("skipped"),
                 stats |-> Merged(Type, [s \in DOMAIN merged |-> merged[s].stats])]

MergeTimeout ==
    /\ launcher.at = "merging"
    /\ BecomesLauncher("done", 1) /\ OnlyLauncher

-----------------------------------------------------------------------------
(* A worker *)

Becomes(s, w) == worker' = [worker EXCEPT ![s] = w]
Others == UNCHANGED <<launch, launcher, signalled, merged>>

\* A Safe-BFC method needs a map; one whose positions are all unsafe ("empty")
\* has to be allowed, one without any position is taken as it is.
MapUsable ==
    Type = "safe_cache" =>
      \/ launch.safe_map \in {"useful", "without_positions"}
      \/ launch.safe_map = "empty" /\ launch.allow_empty_safe_map

WorkerAccepts(config) ==
    /\ launch.resume => launch.save_png /\ ~launch.save_npz
    /\ WorkerTakes(WorkerArgs, Type, config)
    /\ MapUsable /\ launch.checkpoint

Parse(s) ==
    /\ worker[s].at = "parsing"
    /\ LET known  == launch.method \in Methods
           config == IF known THEN Resolved(WorkerArgs, launch.method) ELSE << >>
       IN IF known /\ WorkerAccepts(config)
          THEN Becomes(s, [worker[s] EXCEPT !.at = "loading", !.config = config])
          ELSE Becomes(s, Worker("ended", 2))
    /\ Others /\ UNCHANGED report

\* The label schedule is reconciled with the images that exist, the model is
\* loaded, the policy built and, after a warm-up, its statistics reset.
Build(s) ==
    /\ worker[s].at = "loading"
    /\ IF Builds(Type, worker[s].config)
       THEN \E left \in IF launch.resume THEN 0 .. Batches ELSE {Batches} :
              Becomes(s, [worker[s] EXCEPT !.at = "running", !.left = left,
                                           !.skipped = Batches - left,
                                           !.ledger = NoLedger(Type)])
       ELSE Becomes(s, Worker("ended", 1))
    /\ Others /\ UNCHANGED report

Batch(s) ==
    /\ worker[s].at = "running" /\ worker[s].left > 0
    /\ \E outcome \in Outcomes(Type) :
         Becomes(s, [worker[s] EXCEPT !.left = @ - 1, !.ledger = Added(Type, @, outcome)])
    /\ Others /\ UNCHANGED report

ShardReport(s) ==
    [config |-> worker[s].config, stats |-> Summary(Type, worker[s].ledger, worker[s].config),
     generated |-> Batches - worker[s].skipped, skipped |-> worker[s].skipped]

Finish(s) ==
    /\ worker[s].at = "running" /\ worker[s].left = 0
    /\ report' = [t \in DOMAIN report \cup {s} |-> IF t = s THEN ShardReport(s) ELSE report[t]]
    /\ Becomes(s, [worker[s] EXCEPT !.at = "ended", !.rc = 0])
    /\ Others

\* An exception, a lost GPU, the OOM killer.
Crash(s) ==
    /\ s \in Alive
    /\ Becomes(s, Worker("ended", 1))
    /\ Others /\ UNCHANGED report

\* SIGTERM has its default action in a worker.
Die(s) ==
    /\ s \in Alive \cap signalled
    /\ Becomes(s, Worker("ended", -15))
    /\ Others /\ UNCHANGED report

-----------------------------------------------------------------------------
LauncherStep == Start \/ Spawn \/ Poll \/ Wait \/ Stopped \/ Merge

Next ==
    \/ LauncherStep \/ SpawnFails \/ Interrupt \/ MergeTimeout
    \/ \E s \in Shards : Parse(s) \/ Build(s) \/ Batch(s) \/ Finish(s) \/ Crash(s) \/ Die(s)

\* The launcher's process is scheduled, and a signal is delivered; a worker may
\* be stuck in a GPU call for as long as nobody signals it.
Fairness ==
    /\ WF_vars(LauncherStep)
    /\ \A s \in 0 .. (MostShards - 1) : WF_vars(s \in Shards /\ Die(s))

Spec == Init /\ [][Next]_vars /\ Fairness

-----------------------------------------------------------------------------
(* Properties *)

\* A worker runs with every option the user has given for its method, and with
\* the preset's value of what the user has left out.
OptionsHonoured ==
    \A s \in Shards : worker[s].at \in {"loading", "running"} =>
      LET config == worker[s].config
          given  == launch.given
          preset == Preset(launch.method)
      IN \A o \in DOMAIN config :
           /\ o \in DOMAIN given => config[o] = given[o]
           /\ o \in DOMAIN preset \ DOMAIN given => config[o] = preset[o]

\* What the workers have counted, as if one of them had done it all.
Everything == MapThenFoldSet(LAMBDA l, m : Added(Type, l, m), NoLedger(Type),
                             LAMBDA s : worker[s].ledger,
                             LAMBDA S : CHOOSE s \in S : TRUE, Shards)

\* Settings stand among TaylorSeer's statistics, and are added up like them.
Settings == {"interval", "max_order"}

\* The merged report is the one a single worker would have left: its rates, means
\* and moments, made of the summaries alone, are those of the counters of all
\* shards, and every batch of the run is accounted for.
MergedAsOne ==
    merged # None =>
      LET whole == Summary(Type, Everything, MergedReport.config)
          stats == MergedReport.stats
      IN /\ DOMAIN stats = DOMAIN whole
         /\ \A f \in DOMAIN whole \ Settings : stats[f] = whole[f]
         /\ MergedReport.generated + MergedReport.skipped = Batches * launch.gpus
         /\ \A s \in Shards : MergedReport.config = worker[s].config

\* Once a worker has failed or all have ended, the launcher comes to its end,
\* however long another worker would go on.
LaunchEnds ==
    (SomeFailed \/ \A s \in Shards : worker[s].at = "ended") ~> launcher.at = "done"
=============================================================================
