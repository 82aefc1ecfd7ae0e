--------------------------- MODULE PixarcSamples ---------------------------
(***************************************************************************)
(* The run directory of a PixARC stage-1 measurement.  A launcher starts a  *)
(* worker per shard; a worker measures its samples one by one and commits   *)
(* each through a temporary directory, a rename and a DONE.json marker; the *)
(* merge reads all samples and publishes their records.  Workers and        *)
(* launcher may fail at any step, and the user launches again.              *)
(*                                                                          *)
(* A record file is the configuration it was measured under; what the       *)
(* records hold is PixarcInstrument's subject.  Label schedule, provenance, *)
(* logs, shard_meta.json (only people read it) and final PNGs are left out. *)
(***************************************************************************)
EXTENDS Integers, Sequences, FiniteSets, Sharding

CONSTANTS
    NumImages,       \* --num-images
    Layout,          \* configuration |-> [shards, mode]: both are part of its signature
    None,            \* no configuration
    Launches,        \* [config, resume, merge]: how a user may launch
    MaxShards,       \* the most shards of a configuration
    MaxLaunches,     \* bound: launches of one run directory
    MaxFaults        \* bound: failures and interrupts together

VARIABLES
    runConfig, \* the signature in run_config.json, or None
    dirs,      \* the directories under samples/, each the files it holds
    merged,    \* merged/: the record files and merge_summary.json
    status,    \* parallel_launcher.json
    runs,      \* the launches so far
    launcher,  \* the launcher process
    proc,      \* the worker processes, of the last launch and of earlier ones
    signalled, \* workers the launcher has sent SIGTERM (SIGKILL after 10 s)
    faults     \* failures and interrupts so far

disk == <<runConfig, dirs, merged>>
vars == <<disk, status, runs, launcher, proc, signalled, faults>>

Configs == DOMAIN Layout

ASSUME PixarcAssumption ==
    /\ NumImages \in Nat \ {0} /\ MaxShards \in Nat \ {0}
    /\ MaxLaunches \in Nat /\ MaxFaults \in Nat
    /\ None \notin Configs
    /\ \A c \in Configs : Layout[c].shards \in 1 .. MaxShards /\ Layout[c].mode \in ShardModes
    /\ \A l \in Launches : /\ DOMAIN l = {"config", "resume", "merge"}
                           /\ l.config \in Configs
                           /\ l.resume \in BOOLEAN /\ l.merge \in BOOLEAN

-----------------------------------------------------------------------------
(* Files and processes *)

All == Images(NumImages)
Records == {"risk", "correctness", "summary"}

Workers == (1 .. MaxLaunches) \X Shards(MaxShards)
\* Every argument that enters the signature is passed on to the worker.
LaunchOf(w) == runs[w[1]]
ConfigOf(w) == LaunchOf(w).config
Assigned(w) == ShardIndices(NumImages, Layout[ConfigOf(w)].shards, w[2], Layout[ConfigOf(w)].mode)

\* A directory is named for its sample and its writer; the committed one has none.
NoWriter == <<0, 0>>
Target(i) == <<i, NoWriter>>
Temporary(i, w) == <<i, w>>

NoFiles == [f \in {} |-> None]
Put(files, f, content) ==
    [g \in DOMAIN files \cup {f} |-> IF g = f THEN content ELSE files[g]]

Exists(d) == d \in DOMAIN dirs
Has(d, f) == Exists(d) /\ f \in DOMAIN dirs[d]
Marked(i) == Has(Target(i), "DONE")
Without(gone) == [d \in DOMAIN dirs \ gone |-> dirs[d]]

\* write_jsonl and write_json_atomic: whole files, and mkdir(parents=True)
\* makes a directory that is no longer there.
Written(d, f, c) == Put(dirs, d, Put(IF Exists(d) THEN dirs[d] ELSE NoFiles, f, c))

Exited == {"absent", "ok", "failed"}
Committing == Records \cup {"check", "rename", "DONE"}  \* inside with AtomicSampleWriter
Points == Exited \cup Committing \cup {"start", "config", "next", "clear", "sweep", "instrument"}

\* todo: the samples not yet dealt with; index: the one being worked on.
Worker(at, todo, index) == [at |-> at, todo |-> todo, index |-> index]

Alive == {w \in Workers : proc[w].at \notin Exited}

Current == Len(runs)
This == runs[Current]
Mine == {w \in Workers : w[1] = Current /\ w[2] < Layout[This.config].shards}
Running == Mine \cap Alive

Statuses == {"none", "running", "worker_launch_failed", "worker_failed", "workers_succeeded",
             "complete", "merge_failed", "complete_without_merge"}
LauncherPoints == {"returned", "spawn", "poll", "aborting", "stopping",
                   "merge", "records", "summary"}
NothingMerged == [records |-> {}, summary |-> {}]

Init ==
    /\ runConfig = None /\ dirs = NoFiles /\ merged = NothingMerged
    /\ status = "none" /\ runs = <<>>
    /\ launcher = [at |-> "returned", next |-> 0, read |-> {}]
    /\ proc = [w \in Workers |-> Worker("absent", {}, 0)]
    /\ signalled = {} /\ faults = 0

-----------------------------------------------------------------------------
(* The worker: run_jit_pixarc_stage1_instrument *)

BecomesWorker(w, r) == proc' = [proc EXCEPT ![w] = r]
Goes(w, at) == BecomesWorker(w, Worker(at, proc[w].todo, proc[w].index))
Fails(w) == BecomesWorker(w, Worker("failed", {}, 0))

Others == UNCHANGED <<merged, status, runs, launcher, signalled, faults>>

AnyConfigFits(w) == TRUE                        \* slip: an earlier configuration is ignored
ConfigFits(w) == runConfig = ConfigOf(w)

\* run_config.json of an earlier launch or of another worker must agree.
CheckConfig(w) ==
    /\ proc[w].at = "start"
    /\ \/ runConfig = None /\ Goes(w, "config")
       \/ ConfigFits(w) /\ Goes(w, "next")
       \/ runConfig # None /\ ~ConfigFits(w) /\ Fails(w)
    /\ UNCHANGED <<runConfig, dirs>> /\ Others

WriteConfig(w) ==
    /\ proc[w].at = "config"
    /\ runConfig' = ConfigOf(w)
    /\ Goes(w, "next")
    /\ UNCHANGED dirs /\ Others

\* A marker of this configuration, and --resume.
MaySkip(w, i) == LaunchOf(w).resume /\ dirs[Target(i)]["DONE"] = ConfigOf(w)

\* slip: a sample that may not be skipped is measured again
AtForeignMeasures(w, i) == BecomesWorker(w, Worker("clear", proc[w].todo \ {i}, i))
\* ValueError, or FileExistsError without --resume.
AtForeign(w, i) == Fails(w)

\* reconcile_sample_output, first half: a marked sample is skipped or ends the
\* worker, any other is to be measured.
Reconcile(w) ==
    /\ proc[w].at = "next"
    /\ \E i \in FirstOf(proc[w].todo, 1) :
         \/ Marked(i) /\ MaySkip(w, i) /\ BecomesWorker(w, Worker("next", proc[w].todo \ {i}, 0))
         \/ Marked(i) /\ ~MaySkip(w, i) /\ AtForeign(w, i)
         \/ ~Marked(i) /\ BecomesWorker(w, Worker("clear", proc[w].todo \ {i}, i))
    /\ UNCHANGED <<runConfig, dirs>> /\ Others

Sample(w) == proc[w].index
OwnTemporary(w) == Temporary(Sample(w), w)

\* Its second half: what is there without a marker goes, then every temporary
\* directory of the sample, whoever made it.
ClearedNothing(i) == {}                         \* slip: an unmarked sample is left in place
Cleared(i) == {Target(i)}

Clear(w) ==
    /\ proc[w].at = "clear"
    /\ dirs' = Without(Cleared(Sample(w)))
    /\ Goes(w, "sweep")
    /\ UNCHANGED runConfig /\ Others

SweptNothing(i) == {}                           \* slip: stale temporary directories stay
Swept(i) == {d \in DOMAIN dirs : d[1] = i /\ d # Target(i)}

Sweep(w) ==
    /\ proc[w].at = "sweep"
    /\ dirs' = Without(Swept(Sample(w)))
    /\ Goes(w, "instrument")
    /\ UNCHANGED runConfig /\ Others

\* instrument_sample writes nothing; then AtomicSampleWriter makes its directory.
Instrument(w) ==
    /\ proc[w].at = "instrument"
    /\ dirs' = Put(dirs, OwnTemporary(w), NoFiles)
    /\ Goes(w, "risk")
    /\ UNCHANGED runConfig /\ Others

AfterUnsummed == [risk |-> "correctness", correctness |-> "check", summary |-> "check"] \* slip
After == [risk |-> "correctness", correctness |-> "summary", summary |-> "check"]

WriteRecords(w) ==
    /\ proc[w].at \in Records
    /\ dirs' = Written(OwnTemporary(w), proc[w].at, ConfigOf(w))
    /\ Goes(w, After[proc[w].at])
    /\ UNCHANGED runConfig /\ Others

\* An exception inside the with statement: abort removes the own directory.
Aborted(w) == Without(IF proc[w].at \in Committing THEN {OwnTemporary(w)} ELSE {})

CheckTarget(w) ==
    /\ proc[w].at = "check"
    /\ \/ ~Exists(Target(Sample(w))) /\ Goes(w, "rename") /\ UNCHANGED dirs
       \/ Exists(Target(Sample(w))) /\ Fails(w) /\ dirs' = Aborted(w)
    /\ UNCHANGED runConfig /\ Others

\* os.replace: the source must exist and the target not, or be empty.
CanRename(w) ==
    /\ Exists(OwnTemporary(w))
    /\ Exists(Target(Sample(w))) => dirs[Target(Sample(w))] = NoFiles

Renamed(w) == [d \in (DOMAIN dirs \ {OwnTemporary(w)}) \cup {Target(Sample(w))} |->
                 IF d = Target(Sample(w)) THEN dirs[OwnTemporary(w)] ELSE dirs[d]]

Rename(w) ==
    /\ proc[w].at = "rename"
    /\ \/ CanRename(w) /\ Goes(w, "DONE") /\ dirs' = Renamed(w)
       \/ ~CanRename(w) /\ Fails(w) /\ dirs' = Aborted(w)
    /\ UNCHANGED runConfig /\ Others

Mark(w) ==
    /\ proc[w].at = "DONE"
    /\ dirs' = Written(Target(Sample(w)), "DONE", ConfigOf(w))
    /\ BecomesWorker(w, Worker("next", proc[w].todo, 0))
    /\ UNCHANGED runConfig /\ Others

\* shard_meta.json, and exit code 0.
Finish(w) ==
    /\ proc[w].at = "next" /\ proc[w].todo = {}
    /\ BecomesWorker(w, Worker("ok", {}, 0))
    /\ UNCHANGED <<runConfig, dirs>> /\ Others

WorkerStep(w) ==
    \/ CheckConfig(w) \/ WriteConfig(w) \/ Reconcile(w) \/ Clear(w) \/ Sweep(w) \/ Instrument(w)
    \/ WriteRecords(w) \/ CheckTarget(w) \/ Rename(w) \/ Mark(w) \/ Finish(w)

Fault == faults < MaxFaults /\ faults' = faults + 1

\* An exception: of the device, of a check of --strict-correctness, of a file.
Raise(w) ==
    /\ w \in Alive /\ Fault
    /\ Fails(w) /\ dirs' = Aborted(w)
    /\ UNCHANGED <<runConfig, merged, status, runs, launcher, signalled>>

\* Out of memory, or the machine: nothing is cleaned up.
Kill(w) ==
    /\ w \in Alive /\ Fault
    /\ Fails(w)
    /\ UNCHANGED <<disk, status, runs, launcher, signalled>>

\* SIGTERM ends the interpreter where it stands.
Die(w) ==
    /\ w \in signalled \cap Alive
    /\ Fails(w)
    /\ UNCHANGED <<disk, status, runs, launcher, signalled, faults>>

-----------------------------------------------------------------------------
(* The launcher: run_jit_pixarc_stage1_parallel *)

BecomesLauncher(at) == launcher' = [at |-> at, next |-> 0, read |-> {}]

\* The user runs the launcher (again).
LaunchAgain(l) ==
    /\ launcher.at = "returned" /\ Current < MaxLaunches
    /\ runs' = Append(runs, l)
    /\ BecomesLauncher("spawn") /\ status' = "running"
    /\ UNCHANGED <<disk, proc, signalled, faults>>

\* One Popen per GPU.
Spawn ==
    LET w    == <<Current, launcher.next>>
        last == launcher.next + 1 = Layout[This.config].shards
    IN
    /\ launcher.at = "spawn"
    /\ BecomesWorker(w, Worker("start", Assigned(w), 0))
    /\ launcher' = [at |-> IF last THEN "poll" ELSE "spawn",
                    next |-> IF last THEN 0 ELSE launcher.next + 1, read |-> {}]
    /\ UNCHANGED <<disk, status, runs, signalled, faults>>

\* A Popen raises: the workers started so far are stopped.
PopenFails ==
    /\ launcher.at = "spawn" /\ Fault
    /\ signalled' = signalled \cup Running
    /\ BecomesLauncher("aborting")
    /\ UNCHANGED <<disk, status, runs, proc>>

AbortDone ==
    /\ launcher.at = "aborting" /\ Running = {}
    /\ BecomesLauncher("returned") /\ status' = "worker_launch_failed"
    /\ UNCHANGED <<disk, runs, proc, signalled, faults>>

FirstFailed == proc[<<Current, 0>>].at = "failed"  \* slip: one return code stands for all
SomeFailed == \E w \in Mine : proc[w].at = "failed"

\* The poll loop leaves at the first failure, or when nobody runs any more.
PollFailure ==
    /\ launcher.at = "poll" /\ SomeFailed
    /\ signalled' = signalled \cup Running
    /\ BecomesLauncher("stopping")
    /\ UNCHANGED <<disk, status, runs, proc, faults>>

EndedWell == \A w \in Mine : proc[w].at = "ok"    \* slip: waits for return codes of 0
Ended == Running = {}

\* The return codes decide: failed, merged, or complete without a merge.
Collect ==
    /\ launcher.at \in {"poll", "stopping"} /\ Ended
    /\ \/ SomeFailed /\ launcher.at = "stopping"
          /\ BecomesLauncher("returned") /\ status' = "worker_failed"
       \/ ~SomeFailed /\ This.merge
          /\ BecomesLauncher("merge") /\ status' = "workers_succeeded"
       \/ ~SomeFailed /\ ~This.merge
          /\ BecomesLauncher("returned") /\ status' = "complete_without_merge"
    /\ UNCHANGED <<disk, runs, proc, signalled, faults>>

\* Ctrl-C reaches the whole process group: the launcher stops nobody itself.
Interrupt ==
    /\ launcher.at # "returned" /\ Fault
    /\ proc' = [w \in Workers |-> IF w \in Running THEN Worker("failed", {}, 0) ELSE proc[w]]
    /\ dirs' = Without({OwnTemporary(w) : w \in {v \in Running : proc[v].at \in Committing}})
    /\ BecomesLauncher("returned")
    /\ UNCHANGED <<runConfig, merged, status, runs, signalled>>

-----------------------------------------------------------------------------
(* The merge: merge_jit_pixarc_stage1 *)

\* What collect_stage1_records accepts.  The counts in a marker are those of
\* complete record files, a missing file has no records.
Acceptable(i) ==
    /\ Marked(i) /\ dirs[Target(i)]["DONE"] = runConfig
    /\ \A f \in Records : Has(Target(i), f)

MergeAccepts ==
    /\ runConfig # None
    /\ {i \in All : Exists(Target(i))} = All
    /\ \A i \in All : Acceptable(i)

CollectedFromOne == {<<i, f, dirs[Target(i)][f]>> : i \in All \ {0}, f \in Records} \* slip
Collected == {<<i, f, dirs[Target(i)][f]>> : i \in All, f \in Records}

\* That it refuses, and the launch ends as merge_failed, never comes to pass:
\* MergeNeverRefused.
CollectRecords ==
    /\ launcher.at = "merge" /\ MergeAccepts
    /\ launcher' = [at |-> "records", next |-> 0, read |-> Collected]
    /\ UNCHANGED <<disk, status, runs, proc, signalled, faults>>

\* The record files and tables first, merge_summary.json last.
PublishRecords ==
    /\ launcher.at = "records"
    /\ merged' = [merged EXCEPT !.records = launcher.read]
    /\ launcher' = [launcher EXCEPT !.at = "summary"]
    /\ UNCHANGED <<runConfig, dirs, status, runs, proc, signalled, faults>>

PublishSummary ==
    /\ launcher.at = "summary"
    /\ merged' = [merged EXCEPT !.summary = launcher.read]
    /\ BecomesLauncher("returned") /\ status' = "complete"
    /\ UNCHANGED <<runConfig, dirs, runs, proc, signalled, faults>>

\* The merge process dies: a return code other than 0.
MergeDies ==
    /\ launcher.at \in {"merge", "records", "summary"} /\ Fault
    /\ BecomesLauncher("returned") /\ status' = "merge_failed"
    /\ UNCHANGED <<disk, runs, proc, signalled>>

LauncherStep == \/ Spawn \/ AbortDone \/ PollFailure \/ Collect
                \/ CollectRecords \/ PublishRecords \/ PublishSummary

Next ==
    \/ \E w \in Workers : WorkerStep(w) \/ Die(w) \/ Raise(w) \/ Kill(w)
    \/ \E l \in Launches : LaunchAgain(l)
    \/ LauncherStep \/ PopenFails \/ Interrupt \/ MergeDies

Spec == Init /\ [][Next]_vars

\* Processes are scheduled, a signal arrives, the user launches again.
Fairness ==
    /\ \A w \in Workers : WF_vars(WorkerStep(w)) /\ WF_vars(Die(w))
    /\ WF_vars(LauncherStep)
    /\ WF_vars(\E l \in Launches : LaunchAgain(l))

FairSpec == Spec /\ Fairness

-----------------------------------------------------------------------------
(* Properties *)

DirNames == All \X (Workers \cup {NoWriter})

TypeOK ==
    /\ runConfig \in Configs \cup {None}
    /\ DOMAIN dirs \subseteq DirNames
    /\ \A d \in DOMAIN dirs : /\ DOMAIN dirs[d] \subseteq Records \cup {"DONE"}
                              /\ \A f \in DOMAIN dirs[d] : dirs[d][f] \in Configs
    /\ merged \in [records : SUBSET (All \X Records \X Configs),
                   summary : SUBSET (All \X Records \X Configs)]
    /\ status \in Statuses
    /\ runs \in Seq(Launches) /\ Len(runs) <= MaxLaunches
    /\ launcher \in [at : LauncherPoints, next : Shards(MaxShards),
                     read : SUBSET (All \X Records \X Configs)]
    /\ proc \in [Workers -> [at : Points, todo : SUBSET All, index : All]]
    /\ signalled \subseteq Workers
    /\ faults \in 0 .. MaxFaults

\* A DONE marker is what resume, merge and validation trust: a marked sample is
\* complete and of the one configuration the run directory belongs to, whichever
\* launches, crashes and interrupts came before.
MarkedIsOfTheRun ==
    \A i \in All : Marked(i) => dirs[Target(i)] = [f \in Records \cup {"DONE"} |-> runConfig]

\* A merge is started only over samples it accepts: after workers that returned
\* 0 none is missing, unmarked, incomplete or of another configuration.
MergeNeverRefused == launcher.at = "merge" => MergeAccepts

\* What the launcher reports as complete holds every record of every sample,
\* all measured under the configuration of this launch, and its record files
\* and its summary agree, whatever was left by merges that died.
CompleteIsWhole ==
    status = "complete" =>
      /\ merged.records = All \X Records \X {This.config}
      /\ merged.summary = merged.records

\* A run that has completed leaves no temporary directory behind, whatever its
\* workers left when they were killed.
NothingLeftBehind == status = "complete" => DOMAIN dirs = {Target(i) : i \in All}

Contract == INSTANCE GenerationContract
              WITH Wanted <- All, made <- {i \in All : Marked(i)},
                   published <- (status = "complete")

\* A sample is unmarked or there for good, they are marked one at a time, and a
\* launch is reported as complete only when all are.
ImplementsContract == Contract!Spec

\* Launching again with --resume, under the configuration of the run, completes
\* it: nothing an earlier launch left can make the worker or the merge refuse.
Resumed ==
    /\ launcher.at = "spawn" /\ launcher.next = 0 /\ faults = MaxFaults
    /\ This.resume /\ This.merge /\ runConfig \in {This.config, None}
ResumeCompletes == Resumed ~> status = "complete"

=============================================================================
