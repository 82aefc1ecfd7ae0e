--------------------------- MODULE GenerationRun ---------------------------
(***************************************************************************)
(* One run directory filled by a sharded generation: the launcher           *)
(* run_parallel_generate starts a worker process per shard, a worker        *)
(* generates its images batch by batch, saves PNGs and upserts its shard    *)
(* manifest, and when all have exited with 0 the strict merge of            *)
(* merge_jit_parallel_shards publishes the merged manifest.  Workers may    *)
(* crash at any step; the user then launches again, with --resume or not.   *)
(*                                                                          *)
(* The pixels, labels and timings are left out: an image is its index, a    *)
(* manifest row is the index it holds, a report is the launch it speaks of. *)
(***************************************************************************)
EXTENDS Integers, Sequences, FiniteSets, Sharding

CONSTANTS
    NumImages,       \* --num-images, the same for every launch of a run
    BatchSize,       \* --batch-size
    Launches,        \* [shards, mode, resume]: how a user may launch
    MaxShards,       \* the most shards of a launch
    MaxLaunches,     \* bound: launches of one run directory
    MaxFaults,       \* bound: crashes, interrupts and merge timeouts together
    OrphansPossible  \* the launcher may end and leave workers running

VARIABLES
    png,       \* images/%06d.png: none, torn (opened, not yet complete), whole
    manifest,  \* the manifest files that exist, each the set of its rows
    reports,   \* <<file, kind>> of the reports that exist |-> launch that wrote it
    runs,      \* the launches so far
    launcher,  \* the launcher process
    proc,      \* the worker processes, of the last launch and of earlier ones
    signalled, \* workers the launcher has sent SIGTERM (SIGKILL after 5 s)
    faults     \* faults so far

outputs == <<png, manifest, reports>>
vars == <<outputs, runs, launcher, proc, signalled, faults>>

ASSUME RunAssumption ==
    /\ NumImages \in Nat /\ BatchSize \in Nat \ {0}
    /\ MaxShards \in Nat \ {0} /\ MaxLaunches \in Nat /\ MaxFaults \in Nat /\ OrphansPossible \in BOOLEAN
    /\ \A l \in Launches : /\ DOMAIN l = {"shards", "mode", "resume"}
                           /\ l.shards \in 1 .. MaxShards /\ l.mode \in ShardModes
                           /\ l.resume \in BOOLEAN

-----------------------------------------------------------------------------
(* Files and processes *)

All == Images(NumImages)
Merged == -1                         \* manifest.jsonl and the unsuffixed reports
Files == {Merged} \cup Shards(MaxShards)
Kinds == {"latency", "cache_stats", "generation_meta"}

NoFiles == [f \in {} |-> {}]
Put(files, f, content) ==
    [g \in DOMAIN files \cup {f} |-> IF g = f THEN content ELSE files[g]]

\* load_manifest_index_map: a missing manifest reads as empty.
Rows(f) == IF f \in DOMAIN manifest THEN manifest[f] ELSE {}

\* apply_shard_paths: one shard keeps the unsuffixed names.
FileOf(l, s) == IF l.shards <= 1 THEN Merged ELSE s

IndicesOf(l, s) == ShardIndices(NumImages, l.shards, s, l.mode)

\* A worker process: the launch and the shard it works for.
Workers == (1 .. MaxLaunches) \X Shards(MaxShards)
LaunchOf(w) == runs[w[1]]
FileBy(w) == FileOf(LaunchOf(w), w[2])

Exited == {"absent", "ok", "failed"}
Points == Exited \cup {"start", "next", "save", "write", "read", "replace"} \cup Kinds

\* todo: indices of later batches; batch: records to upsert; saved: those of
\* them whose PNG is closed; rows: the manifest as it was read.
Worker(at) == [at |-> at, todo |-> {}, batch |-> {}, saved |-> {}, rows |-> {}]
WorkerStates == [at : Points, todo : SUBSET All, batch : SUBSET All, saved : SUBSET All,
                 rows : SUBSET All]

Alive == {w \in Workers : proc[w].at \notin Exited}

Current == Len(runs)
This == runs[Current]
Mine == {w \in Workers : w[1] = Current /\ w[2] < This.shards}
Running == Mine \cap Alive

Results == {"none", "merged", "failed", "refused", "interrupted", "died"}
LauncherPoints == {"returned", "spawn", "poll", "stopping", "interrupted", "merge", "publish"}

Init ==
    /\ png = [i \in All |-> "none"]
    /\ manifest = NoFiles /\ reports = NoFiles
    /\ runs = <<>>
    /\ launcher = [at |-> "returned", next |-> 0, result |-> "none", rows |-> {}]
    /\ proc = [w \in Workers |-> Worker("absent")]
    /\ signalled = {}
    /\ faults = 0

-----------------------------------------------------------------------------
(* The worker: run_*_stage4a_generate *)

BecomesWorker(w, r) == proc' = [proc EXCEPT ![w] = r]

Others == UNCHANGED <<runs, launcher, signalled, faults>>

TodoAll(l, mine) == mine                                    \* slip: --resume is ignored
\* What reconcile_resume_state leaves to generate.
Todo(l, mine) == IF l.resume THEN {i \in mine : png[i] = "none"} ELSE mine

\* A resumed worker first upserts a row for each PNG its manifest lacks.
Reconcile(w) ==
    LET mine  == IndicesOf(LaunchOf(w), w[2])
        todo  == Todo(LaunchOf(w), mine)
        found == (mine \ todo) \ Rows(FileBy(w))
    IN
    /\ proc[w].at = "start"
    /\ BecomesWorker(w, [at |-> IF found = {} THEN "next" ELSE "read", todo |-> todo,
                         batch |-> found, saved |-> found, rows |-> {}])
    /\ UNCHANGED outputs /\ Others

\* Sampling a batch writes nothing.
NextBatch(w) ==
    LET batch == FirstOf(proc[w].todo, BatchSize)
    IN
    /\ proc[w].at = "next" /\ proc[w].todo # {}
    /\ BecomesWorker(w, [at |-> "save", todo |-> proc[w].todo \ batch,
                         batch |-> batch, saved |-> {}, rows |-> {}])
    /\ UNCHANGED outputs /\ Others

FinishBatches(w) ==
    /\ proc[w].at = "next" /\ proc[w].todo = {}
    /\ BecomesWorker(w, Worker("latency"))
    /\ UNCHANGED outputs /\ Others

\* save_image_batch_png writes each file in place.
OpenedUnlinked == "none"  \* slip: the old file is removed first
Opened == "torn"

SaveFrom(w) == FirstOf(proc[w].batch \ proc[w].saved, 1)

OpenPng(w) ==
    /\ proc[w].at = "save"
    /\ png' = [i \in All |-> IF i \in SaveFrom(w) THEN Opened ELSE png[i]]
    /\ BecomesWorker(w, [proc[w] EXCEPT !.at = "write"])
    /\ UNCHANGED <<manifest, reports>> /\ Others

AfterRowFirst(saved, batch) == "read"  \* slip: the manifest after the first PNG
AfterPng(saved, batch) == IF saved = batch THEN "read" ELSE "save"

ClosePng(w) ==
    LET saved == proc[w].saved \cup SaveFrom(w)
    IN
    /\ proc[w].at = "write"
    /\ png' = [i \in All |-> IF i \in SaveFrom(w) THEN "whole" ELSE png[i]]
    /\ BecomesWorker(w, [at |-> AfterPng(saved, proc[w].batch), todo |-> proc[w].todo,
                         batch |-> proc[w].batch, saved |-> saved, rows |-> {}])
    /\ UNCHANGED <<manifest, reports>> /\ Others

\* upsert_manifest_records: load, then replace the file by a complete new one.
ReadManifest(w) ==
    /\ proc[w].at = "read"
    /\ BecomesWorker(w, [at |-> "replace", todo |-> proc[w].todo, batch |-> proc[w].batch,
                         saved |-> proc[w].saved, rows |-> Rows(FileBy(w))])
    /\ UNCHANGED outputs /\ Others

UpsertedOnlyNew(w) == proc[w].batch      \* slip: the file is overwritten with the new records
Upserted(w) == proc[w].rows \cup proc[w].batch

ReplaceManifest(w) ==
    /\ proc[w].at = "replace"
    /\ manifest' = Put(manifest, FileBy(w), Upserted(w))
    /\ BecomesWorker(w, [at |-> "next", todo |-> proc[w].todo,
                         batch |-> {}, saved |-> {}, rows |-> {}])
    /\ UNCHANGED <<png, reports>> /\ Others

After == [latency |-> "cache_stats", cache_stats |-> "generation_meta", generation_meta |-> "ok"]

WriteReport(w) ==
    /\ proc[w].at \in Kinds
    /\ reports' = Put(reports, <<FileBy(w), proc[w].at>>, w[1])
    /\ BecomesWorker(w, Worker(After[proc[w].at]))
    /\ UNCHANGED <<png, manifest>> /\ Others

WorkerStep(w) ==
    \/ Reconcile(w) \/ NextBatch(w) \/ FinishBatches(w) \/ OpenPng(w) \/ ClosePng(w)
    \/ ReadManifest(w) \/ ReplaceManifest(w) \/ WriteReport(w)

\* SIGTERM ends the interpreter where it stands.
Die(w) ==
    /\ w \in signalled \cap Alive
    /\ BecomesWorker(w, Worker("failed"))
    /\ UNCHANGED <<outputs, runs, launcher, signalled, faults>>

Fault == faults < MaxFaults /\ faults' = faults + 1

\* An exception, an out-of-memory kill or a lost device ends the worker.
Crash(w) ==
    /\ Fault /\ w \in Alive
    /\ BecomesWorker(w, Worker("failed"))
    /\ UNCHANGED <<outputs, runs, launcher, signalled>>

-----------------------------------------------------------------------------
(* The launcher: run_parallel_generate *)

Launcher(at, result) == [at |-> at, next |-> 0, result |-> result, rows |-> {}]
BecomesLauncher(at, result) == launcher' = Launcher(at, result)

\* The user runs the launcher (again).
LaunchAgain(l) ==
    /\ launcher.at = "returned" /\ Current < MaxLaunches
    /\ runs' = Append(runs, l)
    /\ BecomesLauncher("spawn", "none")
    /\ UNCHANGED <<outputs, proc, signalled, faults>>

\* One Popen per shard.
Spawn ==
    LET s == launcher.next
    IN
    /\ launcher.at = "spawn"
    /\ BecomesWorker(<<Current, s>>, Worker("start"))
    /\ launcher' = [at |-> IF s + 1 = This.shards THEN "poll" ELSE "spawn",
                    next |-> IF s + 1 = This.shards THEN 0 ELSE s + 1,
                    result |-> "none", rows |-> {}]
    /\ UNCHANGED <<outputs, runs, signalled, faults>>

SomeFailed == \E w \in Mine : proc[w].at = "failed"

\* The poll loop sees a failure while others still run: _terminate_running.
PollFailure ==
    /\ launcher.at = "poll" /\ Running # {} /\ SomeFailed
    /\ signalled' = signalled \cup Running
    /\ BecomesLauncher("stopping", "none")
    /\ UNCHANGED <<outputs, runs, proc, faults>>

\* slip: the return codes of the workers that ended last are not looked at
MayMergeUnlessSeen == launcher.at = "poll"
\* failure or any(return_code != 0)
MayMerge == launcher.at = "poll" /\ ~SomeFailed

AllEndedOrStopping == launcher.at = "stopping" \/ Running = {} \* slip: no wait() after a failure
AllEndedWell == \A w \in Mine : proc[w].at = "ok"  \* slip: polls for return code 0
AllEnded == Running = {}

\* wait() for every worker, then write parallel_launcher_meta.json.
Collect ==
    /\ launcher.at \in {"poll", "stopping"} /\ AllEnded
    /\ IF MayMerge THEN BecomesLauncher("merge", "none")
                   ELSE BecomesLauncher("returned", "failed")
    /\ UNCHANGED <<outputs, runs, proc, signalled, faults>>

\* KeyboardInterrupt or SIGTERM while workers run.
Interrupt ==
    /\ Fault /\ launcher.at \in {"spawn", "poll", "stopping"}
    /\ signalled' = signalled \cup Running
    /\ BecomesLauncher("interrupted", "none")
    /\ UNCHANGED <<outputs, runs, proc>>

\* _terminate_running has waited for each worker, or killed it; that it does not
\* wait after kill() is left out.
StopDone ==
    /\ launcher.at = "interrupted" /\ Running = {}
    /\ BecomesLauncher("returned", "interrupted")
    /\ UNCHANGED <<outputs, runs, proc, signalled, faults>>

\* SIGKILL, or an exception other than an interrupt between two Popen calls:
\* nobody stops the workers.
LauncherDies ==
    /\ OrphansPossible /\ Fault /\ launcher.at # "returned"
    /\ BecomesLauncher("returned", "died")
    /\ UNCHANGED <<outputs, runs, proc, signalled>>

-----------------------------------------------------------------------------
(* The strict merge: merge_jit_parallel_shards *)

ShardFiles == Shards(This.shards)
MergedRows == UNION {Rows(f) : f \in ShardFiles}

FilesMissing == \E f \in ShardFiles : \/ f \notin DOMAIN manifest
                                      \/ \E kind \in Kinds : <<f, kind>> \notin DOMAIN reports
Duplicates == \E f, g \in ShardFiles : f # g /\ Rows(f) \cap Rows(g) # {}

NoCheck == TRUE                  \* slip: --strict is not passed on
StrictChecks == /\ ~FilesMissing /\ ~Duplicates
                /\ MergedRows = All
                /\ \A i \in All : png[i] # "none"

MergeAccepts ==
    /\ launcher.at = "merge" /\ StrictChecks
    /\ launcher' = [at |-> "publish", next |-> 0, result |-> "none", rows |-> MergedRows]
    /\ UNCHANGED <<outputs, runs, proc, signalled, faults>>

MergeRefuses ==
    /\ launcher.at = "merge" /\ ~StrictChecks
    /\ BecomesLauncher("returned", "refused")
    /\ UNCHANGED <<outputs, runs, proc, signalled, faults>>

\* The merged manifest, then the merged reports.
Publish ==
    /\ launcher.at = "publish"
    /\ manifest' = Put(manifest, Merged, launcher.rows)
    /\ reports' = [r \in DOMAIN reports \cup ({Merged} \X Kinds) |->
                    IF r[1] = Merged THEN Current ELSE reports[r]]
    /\ BecomesLauncher("returned", "merged")
    /\ UNCHANGED <<png, runs, proc, signalled, faults>>

\* subprocess.run(timeout=300) kills the merge, as an interrupt does.
MergeTimeout ==
    /\ Fault /\ launcher.at \in {"merge", "publish"}
    /\ BecomesLauncher("returned", "failed")
    /\ UNCHANGED <<outputs, runs, proc, signalled>>

LauncherStep == \/ Spawn \/ PollFailure \/ Collect \/ StopDone
                \/ MergeAccepts \/ MergeRefuses \/ Publish

Next ==
    \/ \E w \in Workers : WorkerStep(w) \/ Die(w) \/ Crash(w)
    \/ \E l \in Launches : LaunchAgain(l)
    \/ LauncherStep \/ Interrupt \/ LauncherDies \/ MergeTimeout

Spec == Init /\ [][Next]_vars

\* Processes are scheduled, a signal arrives, a user who wants the run
\* launches again; nothing makes a fault happen.
Fairness ==
    /\ \A w \in Workers : WF_vars(WorkerStep(w)) /\ WF_vars(Die(w))
    /\ WF_vars(LauncherStep)
    /\ WF_vars(\E l \in Launches : LaunchAgain(l))

FairSpec == Spec /\ Fairness

-----------------------------------------------------------------------------
(* Properties *)

TypeOK ==
    /\ png \in [All -> {"none", "torn", "whole"}]
    /\ DOMAIN manifest \subseteq Files /\ \A f \in DOMAIN manifest : manifest[f] \subseteq All
    /\ DOMAIN reports \subseteq Files \X Kinds
    /\ \A r \in DOMAIN reports : reports[r] \in 1 .. MaxLaunches
    /\ runs \in Seq(Launches) /\ Len(runs) <= MaxLaunches
    /\ launcher \in [at : LauncherPoints, next : Shards(MaxShards), result : Results,
                     rows : SUBSET All]
    /\ proc \in [Workers -> WorkerStates]
    /\ signalled \subseteq Workers
    /\ faults \in 0 .. MaxFaults

\* A manifest never runs ahead of the images: whatever crashed, resumed or was
\* left running, the PNG of every row of every manifest exists.
RowsHavePngs == \A f \in DOMAIN manifest : \A i \in manifest[f] : png[i] # "none"

\* No two processes write the same PNG or upsert the same manifest: the workers
\* of a launch share nothing, and the launcher does not return, for the user to
\* launch again, while one of them still writes (wait() in _terminate_running).
SoleWriter ==
    \A v, w \in Alive : v # w =>
      /\ FileBy(v) # FileBy(w)
      /\ IndicesOf(LaunchOf(v), v[2]) \cap IndicesOf(LaunchOf(w), w[2]) = {}

\* When every worker has returned 0 the strict merge accepts what they left,
\* after any number of crashes, interrupts and resumes before.
MergeNeverRefused == launcher.result # "refused"

\* What is published is of one launch: its reports were written by workers of
\* the last launch, all of which ended well, not left over from an earlier one.
MergedIsFresh ==
    launcher.result = "merged" =>
      /\ \A w \in Mine : proc[w].at = "ok"
      /\ \A f \in ShardFiles, kind \in Kinds : reports[<<f, kind>>] = Current

\* Every published image is complete: the PNG and manifest reconciliation of a
\* resume is atomic.
PublishedIsWhole == launcher.result = "merged" => \A i \in All : png[i] = "whole"

\* What the launcher reports as merged is never another run's manifest: it holds
\* every index and each has its PNG, also with orphaned workers writing into the
\* shard manifests and with the images dealt out in another way per launch.
MergedIsExact ==
    launcher.result = "merged" =>
      /\ Rows(Merged) = All
      /\ \A i \in All : png[i] # "none"

\* A launch with --resume writes no image again that is already complete.
WholeKeptStep ==
    \A i \in All : png[i] = "whole" /\ png'[i] # "whole" => ~This.resume
ResumeKeepsWhole == [][WholeKeptStep]_vars

Contract == INSTANCE GenerationContract
              WITH Wanted <- All, made <- {i \in All : png[i] # "none"},
                   published <- (launcher.result = "merged")

\* An image made stays made, one is made at a time, and a launch ends as merged
\* only when all are.
ImplementsContract == Contract!Spec

\* The launcher always returns, however its workers fail.
LauncherReturns == launcher.at # "returned" ~> launcher.at = "returned"

\* With fewer faults than launches, a run that is launched again is published.
RunCompletes == <>(launcher.result = "merged")

-----------------------------------------------------------------------------
(* An invariant of Spec that is inductive and implies RowsHavePngs *)

\* The images of which a file exists; images are never removed.
Exist == {i \in All : png[i] # "none"}

\* A process runs for a launch that was made and for one of its shards.
KnownWorkers ==
    \A w \in Workers : proc[w].at # "absent" =>
      w[1] \in 1 .. Len(runs) /\ w[2] \in Shards(runs[w[1]].shards)

KnownLaunch ==
    /\ launcher.at # "returned" => Len(runs) \in 1 .. MaxLaunches
    /\ launcher.at = "spawn" => launcher.next \in Shards(runs[Len(runs)].shards)

\* What a worker or the merge is about to write exists.
AboutToWrite(p) ==
    /\ p.at \in {"save", "write"} => p.saved \subseteq Exist
    /\ p.at \in {"read", "replace"} => p.batch \subseteq Exist
    /\ p.at = "replace" => p.rows \subseteq Exist

WritesExist == \A w \in Workers : AboutToWrite(proc[w])
PublishExists == launcher.at = "publish" => launcher.rows \subseteq Exist

\* The inductive invariant: what a worker or the merge is about to write names
\* only images that exist, so that no manifest ever gets ahead of them.
IInv == TypeOK /\ KnownWorkers /\ KnownLaunch /\ RowsHavePngs /\ WritesExist /\ PublishExists

=============================================================================
