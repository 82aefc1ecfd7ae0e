------------------------ MODULE GenerationRun_proofs ------------------------
(***************************************************************************)
(* GenerationRun for every number of images, shards, launches and faults:   *)
(* its types, that no manifest ever holds a row without its PNG, that every *)
(* image is dealt to one worker, and that the run implements its contract.  *)
(* Where the launcher waits for its workers: that no two of them write the  *)
(* same file, that --resume keeps complete images, and what the strict      *)
(* merge accepts and publishes.                                             *)
(***************************************************************************)
EXTENDS ShardingContract, FiniteSetTheorems, TLAPS

-----------------------------------------------------------------------------
(* compute_shard_indices deals every image to exactly one worker. *)

\* Division with remainder.
LEMMA Division ==
    ASSUME NEW a \in Nat, NEW b \in Nat \ {0}
    PROVE  a \div b \in Nat /\ a % b \in 0 .. b - 1 /\ a = b * (a \div b) + (a % b)
  OBVIOUS

\* range(s, n, k) holds the images whose remainder is s.
LEMMA StridedOnce ==
    ASSUME NEW N \in Nat, NEW K \in Nat \ {0}, NEW i \in Images(N)
    PROVE  \E s \in Shards(K) : \A t \in Shards(K) : i \in Strided(N, K, t) <=> t = s
  <1>1. i \in Nat /\ Shards(K) = 0 .. K - 1
    BY DEF Images, Shards
  <1>2. PICK q \in Nat, s \in 0 .. K - 1 : i = K * q + s
    <2>1. i \div K \in Nat /\ i % K \in 0 .. K - 1 /\ i = K * (i \div K) + (i % K)
      BY <1>1, Division
    <2>2. PICK q \in Nat, s \in 0 .. K - 1 : q = i \div K /\ s = i % K
      BY <2>1
    <2> QED BY <2>1, <2>2
  <1>3. i - s = K * q /\ K * q \in Nat /\ (K * q) % K = 0
    <2>1. (K * q) % K = 0 /\ K * q \in Nat
      OBVIOUS
    <2> QED BY <1>2, <2>1
  <1>4. i \in Strided(N, K, s)
    BY <1>1, <1>2, <1>3 DEF Strided
  <1>5. ASSUME NEW t \in 0 .. K - 1, i \in Strided(N, K, t) PROVE t = s
    <2>1. i - t \in Nat /\ (i - t) % K = 0
      BY <1>1, <1>5 DEF Strided
    <2>2. PICK p \in Nat : i - t = K * p
      <3>1. (i - t) \div K \in Nat /\ i - t = K * ((i - t) \div K) + ((i - t) % K)
        BY <2>1, Division
      <3>2. K * ((i - t) \div K) + 0 = K * ((i - t) \div K)
        BY <3>1
      <3> QED BY <2>1, <3>1, <3>2
    <2>3. K * (q - p) = t - s /\ q - p \in Int
      BY <1>1, <1>2, <2>2
    <2>4. (q - p >= 1 => K * (q - p) >= K) /\ (q - p <= -1 => K * (q - p) <= -K)
      BY <2>3
    <2>5. q - p = 0
      BY <1>2, <2>3, <2>4
    <2> QED BY <1>2, <2>3, <2>5
  <1> QED BY <1>1, <1>2, <1>4, <1>5

\* Each contiguous shard starts where the one before it ends, the first at the
\* first image and the last ends at the last.
LEMMA BlocksAdjoin ==
    ASSUME NEW N \in Nat, NEW K \in Nat \ {0}
    PROVE  /\ \A s \in 0 .. K : Start(N, K, s) \in Nat
           /\ \A s \in 0 .. K - 1 : Start(N, K, s) + Length(N, K, s) = Start(N, K, s + 1)
           /\ \A s, t \in 0 .. K : s <= t => Start(N, K, s) <= Start(N, K, t)
           /\ Start(N, K, 0) = 0 /\ Start(N, K, K) = N
  <1> DEFINE B == N \div K
             E == N % K
  <1>1. B \in Nat /\ E \in 0 .. K - 1 /\ N = K * B + E
    BY Division
  <1>2. \A s \in Nat : Start(N, K, s) = s * B + (IF s <= E THEN s ELSE E)
    BY DEF Start
  <1>3. \A s \in Nat : Length(N, K, s) = B + (IF s < E THEN 1 ELSE 0)
    BY DEF Length
  <1> HIDE DEF B, E
  <1>4. \A s \in Nat : s * B \in Nat /\ (s + 1) * B = s * B + B
    BY <1>1
  <1>5. ASSUME NEW s \in Nat, NEW t \in Nat, s <= t PROVE s * B <= t * B
    <2>1. t * B = s * B + (t - s) * B /\ (t - s) * B \in Nat
      BY <1>1, <1>5
    <2> QED BY <1>4, <2>1
  <1>6. \A s \in Nat : Start(N, K, s) \in Nat
    BY <1>1, <1>2, <1>4
  <1>7. \A s \in Nat : Start(N, K, s) + Length(N, K, s) = Start(N, K, s + 1)
    <2> TAKE s \in Nat
    <2>1. /\ Start(N, K, s) = s * B + (IF s <= E THEN s ELSE E)
          /\ Start(N, K, s + 1) = (s * B + B) + (IF s + 1 <= E THEN s + 1 ELSE E)
      BY <1>2, <1>4
    <2> QED BY <1>1, <1>3, <1>4, <2>1
  <1>8. ASSUME NEW s \in Nat, NEW t \in Nat, s <= t PROVE Start(N, K, s) <= Start(N, K, t)
    <2>1. /\ Start(N, K, s) = s * B + (IF s <= E THEN s ELSE E)
          /\ Start(N, K, t) = t * B + (IF t <= E THEN t ELSE E)
          /\ s * B \in Nat /\ t * B \in Nat /\ s * B <= t * B
      BY <1>2, <1>4, <1>5, <1>8
    <2> QED BY <1>1, <1>8, <2>1
  <1>9. Start(N, K, 0) = 0 /\ Start(N, K, K) = N
    BY <1>1, <1>2
  <1> QED BY <1>6, <1>7, <1>8, <1>9

\* A set of shards has a first.
LEMMA Least ==
    ASSUME NEW T \in SUBSET Nat, T # {}
    PROVE  \E x \in T : \A y \in T : x <= y
  <1>1. PICK x \in T : \A y \in T : <<y, x>> \notin OpToRel(<, Nat)
    BY NatLessThanWellFounded, WFMin
  <1>2. \A y \in T : ~(y < x)
    BY <1>1 DEF OpToRel
  <1> QED BY <1>2

\* An image lies in the last shard that starts at or before it.
LEMMA ContiguousOnce ==
    ASSUME NEW N \in Nat, NEW K \in Nat \ {0}, NEW i \in Images(N)
    PROVE  \E s \in Shards(K) : \A t \in Shards(K) : i \in Contiguous(N, K, t) <=> t = s
  <1>1. i \in Nat /\ i < N /\ Shards(K) = 0 .. K - 1
    BY DEF Images, Shards
  <1>2. \A t \in 0 .. K - 1 : i \in Contiguous(N, K, t) <=> Start(N, K, t) <= i /\ i < Start(N, K, t + 1)
    BY BlocksAdjoin DEF Contiguous
  <1>3. PICK e \in {t \in 0 .. K : i < Start(N, K, t)} : \A t \in 0 .. K : i < Start(N, K, t) => e <= t
    <2>1. K \in {t \in 0 .. K : i < Start(N, K, t)}
      BY <1>1, BlocksAdjoin
    <2>2. PICK e \in {t \in 0 .. K : i < Start(N, K, t)} :
            \A t \in {t \in 0 .. K : i < Start(N, K, t)} : e <= t
      <3>1. {t \in 0 .. K : i < Start(N, K, t)} \in SUBSET Nat
        OBVIOUS
      <3> QED BY <2>1, <3>1, Least
    <2> QED BY <2>2
  <1>4. e # 0
    BY <1>1, <1>3, BlocksAdjoin
  <1>5. PICK s \in 0 .. K - 1 : e = s + 1
    BY <1>3, <1>4
  <1>6. Start(N, K, s) <= i /\ i < Start(N, K, s + 1)
    <2>1. Start(N, K, s) \in Nat /\ ~(i < Start(N, K, s))
      <3>1. s \in 0 .. K /\ ~(e <= s)
        BY <1>5
      <3> QED BY <1>3, <3>1, BlocksAdjoin
    <2> QED BY <1>1, <1>3, <1>5, <2>1
  <1>7. ASSUME NEW t \in 0 .. K - 1, Start(N, K, t) <= i, i < Start(N, K, t + 1) PROVE t = s
    <2>1. t < s => Start(N, K, t + 1) <= Start(N, K, s)
      BY BlocksAdjoin
    <2>2. s < t => Start(N, K, s + 1) <= Start(N, K, t)
      BY BlocksAdjoin
    <2>3. /\ Start(N, K, s) \in Nat /\ Start(N, K, t) \in Nat
          /\ Start(N, K, s + 1) \in Nat /\ Start(N, K, t + 1) \in Nat
      <3>1. {s, t, s + 1, t + 1} \subseteq 0 .. K
        OBVIOUS
      <3> QED BY <3>1, BlocksAdjoin
    <2> QED BY <1>1, <1>6, <1>7, <2>1, <2>2, <2>3
  <1> QED BY <1>1, <1>2, <1>5, <1>6, <1>7

\* Every image goes to exactly one of K workers, in both modes.
THEOREM DealtOnce ==
    ASSUME NEW N \in Nat, NEW K \in Nat \ {0}, NEW m \in ShardModes, NEW i \in Images(N)
    PROVE  \E s \in Shards(K) : \A t \in Shards(K) :
             i \in ShardIndices(N, K, t, m) <=> t = s
  BY StridedOnce, ContiguousOnce DEF ShardIndices, ShardModes

-----------------------------------------------------------------------------
(* Facts about the helpers *)

\* A batch, or the PNG to write next, is taken from the set it is cut from.
LEMMA FirstOfSubset == \A S, n : FirstOf(S, n) \subseteq S
  BY DEF FirstOf

\* A worker is given images of the run only.
LEMMA IndicesInAll == \A l, s : IndicesOf(l, s) \subseteq All
  BY DEF IndicesOf, ShardIndices, Strided, Contiguous, All

\* Every file a worker names is one of the files of the run directory.
LEMMA FileTyped ==
    ASSUME NEW l \in Launches, NEW s \in Shards(l.shards)
    PROVE  FileOf(l, s) \in Files /\ s \in Shards(MaxShards)
  <1>1. l.shards \in 1 .. MaxShards
    BY RunAssumption
  <1>2. s \in 0 .. MaxShards - 1
    BY <1>1, RunAssumption DEF Shards
  <1> QED
    BY <1>2 DEF FileOf, Files, Shards

\* An idle process is a well-typed process.
LEMMA WorkerTyped == \A at \in Points : Worker(at) \in WorkerStates
  BY DEF Worker, WorkerStates

\* A process that runs has a launch, a file and images of its own.
LEMMA OwnFile ==
    ASSUME IInv, NEW w \in Workers, proc[w].at # "absent"
    PROVE  /\ LaunchOf(w) \in Launches /\ FileBy(w) \in Files
           /\ w[1] \in 1 .. MaxLaunches
           /\ proc[w] \in WorkerStates
  <1>1. w[1] \in 1 .. Len(runs) /\ w[2] \in Shards(runs[w[1]].shards)
    BY DEF IInv, KnownWorkers
  <1>2. runs \in Seq(Launches) /\ proc[w] \in WorkerStates
    BY DEF IInv, TypeOK
  <1>3. runs[w[1]] \in Launches
    BY <1>1, <1>2
  <1>4. w[1] \in 1 .. MaxLaunches
    BY DEF Workers
  <1> QED
    BY <1>1, <1>2, <1>3, <1>4, FileTyped DEF LaunchOf, FileBy

-----------------------------------------------------------------------------
(* Workers *)

\* What the process p is about to write exists after the step.
ExistsAfter(p) ==
    /\ p.at \in {"save", "write"} => p.saved \subseteq Exist'
    /\ p.at \in {"read", "replace"} => p.batch \subseteq Exist'
    /\ p.at = "replace" => p.rows \subseteq Exist'

\* A step of one process keeps the invariant when what it leaves on disk is
\* well typed, removes no image, and holds no row without its PNG.
LEMMA MovedKeeps ==
    ASSUME IInv, NEW w \in Workers, proc[w].at # "absent",
           NEW r \in WorkerStates, r.at # "absent", BecomesWorker(w, r),
           UNCHANGED <<runs, launcher, signalled>>, faults' \in 0 .. MaxFaults,
           png' \in [All -> {"none", "torn", "whole"}], Exist \subseteq Exist',
           DOMAIN manifest' \subseteq Files,
           \A f \in DOMAIN manifest' : manifest'[f] \subseteq Exist',
           DOMAIN reports' \subseteq Files \X Kinds,
           \A x \in DOMAIN reports' : reports'[x] \in 1 .. MaxLaunches,
           ExistsAfter(r)
    PROVE  IInv'
  <1> USE DEF BecomesWorker
  <1>1. proc' \in [Workers -> WorkerStates] /\ proc'[w] = r
    BY DEF IInv, TypeOK
  <1>2. \A v \in Workers : v # w => proc'[v] = proc[v]
    BY DEF IInv, TypeOK
  <1>3. Exist' \subseteq All
    BY DEF Exist
  <1>4. TypeOK'
    BY <1>1, <1>3 DEF IInv, TypeOK
  <1>5. KnownWorkers'
    BY <1>1, <1>2 DEF IInv, KnownWorkers
  <1>6. KnownLaunch'
    BY DEF IInv, KnownLaunch
  <1>7. RowsHavePngs'
    BY DEF RowsHavePngs, Exist
  <1>8. WritesExist'
    <2> SUFFICES ASSUME NEW v \in Workers PROVE AboutToWrite(proc[v])'
      BY DEF WritesExist
    <2>1. CASE v = w
      BY <2>1, <1>1 DEF AboutToWrite, ExistsAfter
    <2>2. CASE v # w
      <3>1. AboutToWrite(proc[v]) /\ proc'[v] = proc[v]
        BY <1>2, <2>2 DEF IInv, WritesExist
      <3> QED
        BY <3>1 DEF AboutToWrite
    <2> QED
      BY <2>1, <2>2
  <1>9. PublishExists'
    BY DEF IInv, PublishExists
  <1> QED
    BY <1>4, <1>5, <1>6, <1>7, <1>8, <1>9 DEF IInv

\* The same for a step that leaves the files alone.
LEMMA QuietKeeps ==
    ASSUME IInv, NEW w \in Workers, proc[w].at # "absent",
           NEW r \in WorkerStates, r.at # "absent", BecomesWorker(w, r),
           UNCHANGED <<outputs, runs, launcher, signalled>>, faults' \in 0 .. MaxFaults,
           AboutToWrite(r)
    PROVE  IInv'
  <1>1. Exist' = Exist
    BY DEF Exist, outputs
  <1>2. ExistsAfter(r)
    BY <1>1 DEF AboutToWrite, ExistsAfter
  <1>3. /\ png' \in [All -> {"none", "torn", "whole"}]
        /\ DOMAIN manifest' \subseteq Files
        /\ DOMAIN reports' \subseteq Files \X Kinds
        /\ \A x \in DOMAIN reports' : reports'[x] \in 1 .. MaxLaunches
    BY DEF IInv, TypeOK, outputs
  <1>4. \A f \in DOMAIN manifest : manifest[f] \subseteq Exist
    BY DEF IInv, TypeOK, RowsHavePngs, Exist
  <1>5. \A f \in DOMAIN manifest' : manifest'[f] \subseteq Exist'
    BY <1>1, <1>4 DEF outputs
  <1> QED
    BY <1>1, <1>2, <1>3, <1>5, MovedKeeps

\* Each step of a worker keeps the invariant.
LEMMA WorkerStepKeeps ==
    ASSUME IInv, NEW w \in Workers, WorkerStep(w)
    PROVE  IInv'
  <1>1. proc[w].at # "absent"
    BY DEF WorkerStep, Reconcile, NextBatch, FinishBatches, OpenPng, ClosePng, ReadManifest,
           ReplaceManifest, WriteReport, Kinds
  <1>2. /\ LaunchOf(w) \in Launches /\ FileBy(w) \in Files /\ w[1] \in 1 .. MaxLaunches
        /\ proc[w] \in WorkerStates
    BY <1>1, OwnFile
  <1>3. /\ png \in [All -> {"none", "torn", "whole"}]
        /\ DOMAIN manifest \subseteq Files
        /\ \A f \in DOMAIN manifest : manifest[f] \subseteq Exist
        /\ DOMAIN reports \subseteq Files \X Kinds
        /\ \A x \in DOMAIN reports : reports[x] \in 1 .. MaxLaunches
        /\ faults \in 0 .. MaxFaults
    BY DEF IInv, TypeOK, RowsHavePngs, Exist
  <1>4. AboutToWrite(proc[w])
    BY DEF IInv, WritesExist
  <1>5. Rows(FileBy(w)) \subseteq Exist
    BY <1>3 DEF Rows
  <1>6. Exist \subseteq All
    BY DEF Exist
  <1>7. SaveFrom(w) \subseteq proc[w].batch
    BY FirstOfSubset DEF SaveFrom
  <1>8. \A at \in Points \ {"save", "write", "read", "replace"} : AboutToWrite(Worker(at))
    BY DEF AboutToWrite, Worker
  <1>a. CASE Reconcile(w)
    <2> DEFINE mine == IndicesOf(LaunchOf(w), w[2])
               todo == Todo(LaunchOf(w), mine)
               found == (mine \ todo) \ Rows(FileBy(w))
               r == [at |-> IF found = {} THEN "next" ELSE "read", todo |-> todo,
                     batch |-> found, saved |-> found, rows |-> {}]
    <2>1. mine \subseteq All
      BY IndicesInAll
    <2>2. todo \subseteq mine /\ mine \ todo \subseteq Exist
      BY <2>1 DEF Todo, Exist
    <2>3. todo \subseteq All /\ found \subseteq Exist /\ found \subseteq All
      BY <2>1, <2>2
    <2>4. BecomesWorker(w, r) /\ UNCHANGED outputs /\ Others
      BY <1>a DEF Reconcile
    <2> HIDE DEF mine, todo, found
    <2>5. r \in WorkerStates /\ r.at # "absent"
      BY <2>3 DEF WorkerStates, Points
    <2>6. AboutToWrite(r)
      BY <2>3 DEF AboutToWrite
    <2> HIDE DEF r
    <2> QED
      BY <1>1, <1>3, <2>4, <2>5, <2>6, QuietKeeps DEF Others
  <1>b. CASE NextBatch(w)
    <2> DEFINE batch == FirstOf(proc[w].todo, BatchSize)
               r == [at |-> "save", todo |-> proc[w].todo \ batch,
                     batch |-> batch, saved |-> {}, rows |-> {}]
    <2>1. proc[w].todo \subseteq All /\ batch \subseteq All
      BY <1>2, FirstOfSubset DEF WorkerStates
    <2>2. BecomesWorker(w, r) /\ UNCHANGED outputs /\ Others
      BY <1>b DEF NextBatch
    <2> HIDE DEF batch
    <2>3. r \in WorkerStates /\ r.at # "absent" /\ AboutToWrite(r)
      BY <2>1 DEF WorkerStates, Points, AboutToWrite
    <2> HIDE DEF r
    <2> QED
      BY <1>1, <1>3, <2>2, <2>3, QuietKeeps DEF Others
  <1>c. CASE FinishBatches(w)
    <2>1. Worker("latency") \in WorkerStates /\ Worker("latency").at # "absent"
      BY WorkerTyped DEF Points, Kinds, Worker
    <2>2. AboutToWrite(Worker("latency"))
      BY <1>8 DEF Points, Kinds
    <2> QED
      BY <1>1, <1>3, <1>c, <2>1, <2>2, QuietKeeps DEF FinishBatches, Others
  <1>d. CASE OpenPng(w)
    <2> DEFINE r == [proc[w] EXCEPT !.at = "write"]
    <2>1. r \in WorkerStates /\ r.at = "write" /\ r.saved = proc[w].saved
      BY <1>2 DEF WorkerStates, Points
    <2>2. png' \in [All -> {"none", "torn", "whole"}] /\ Exist \subseteq Exist'
      BY <1>3, <1>d DEF OpenPng, Opened, Exist
    <2>3. proc[w].saved \subseteq Exist
      BY <1>4, <1>d DEF OpenPng, AboutToWrite
    <2>4. ExistsAfter(r)
      BY <2>1, <2>2, <2>3 DEF ExistsAfter
    <2>5. BecomesWorker(w, r) /\ UNCHANGED <<manifest, reports>> /\ Others
      BY <1>d DEF OpenPng
    <2> HIDE DEF r
    <2> QED
      BY <1>1, <1>3, <2>1, <2>2, <2>4, <2>5, MovedKeeps DEF Others
  <1>e. CASE ClosePng(w)
    <2> DEFINE saved == proc[w].saved \cup SaveFrom(w)
               r == [at |-> AfterPng(saved, proc[w].batch), todo |-> proc[w].todo,
                     batch |-> proc[w].batch, saved |-> saved, rows |-> {}]
    <2>1. proc[w].todo \subseteq All /\ proc[w].batch \subseteq All /\ saved \subseteq All
      BY <1>2, <1>7 DEF WorkerStates
    <2>2. png' \in [All -> {"none", "torn", "whole"}] /\ Exist \subseteq Exist'
      BY <1>3, <1>e DEF ClosePng, Exist
    <2>3. proc[w].saved \subseteq Exist
      BY <1>4, <1>e DEF ClosePng, AboutToWrite
    <2>4. SaveFrom(w) \subseteq Exist'
      BY <1>7, <2>1, <1>e DEF ClosePng, Exist
    <2>5. saved \subseteq Exist'
      BY <2>2, <2>3, <2>4
    <2>6. BecomesWorker(w, r) /\ UNCHANGED <<manifest, reports>> /\ Others
      BY <1>e DEF ClosePng
    <2> HIDE DEF saved
    <2>7. r \in WorkerStates /\ r.at # "absent"
      BY <2>1 DEF WorkerStates, Points, AfterPng
    <2>8. ExistsAfter(r)
      BY <2>5 DEF ExistsAfter, AfterPng
    <2> HIDE DEF r
    <2> QED
      BY <1>1, <1>3, <2>2, <2>6, <2>7, <2>8, MovedKeeps DEF Others
  <1>f. CASE ReadManifest(w)
    <2> DEFINE r == [at |-> "replace", todo |-> proc[w].todo, batch |-> proc[w].batch,
                     saved |-> proc[w].saved, rows |-> Rows(FileBy(w))]
    <2>1. BecomesWorker(w, r) /\ UNCHANGED outputs /\ Others
      BY <1>f DEF ReadManifest
    <2>2. r \in WorkerStates /\ r.at # "absent"
      BY <1>2, <1>5, <1>6 DEF WorkerStates, Points
    <2>3. proc[w].batch \subseteq Exist
      BY <1>4, <1>f DEF ReadManifest, AboutToWrite
    <2>4. AboutToWrite(r)
      BY <1>5, <2>3 DEF AboutToWrite
    <2> HIDE DEF r
    <2> QED
      BY <1>1, <1>3, <2>1, <2>2, <2>4, QuietKeeps DEF Others
  <1>g. CASE ReplaceManifest(w)
    <2> DEFINE r == [at |-> "next", todo |-> proc[w].todo,
                     batch |-> {}, saved |-> {}, rows |-> {}]
    <2>1. BecomesWorker(w, r) /\ UNCHANGED <<png, reports>> /\ Others
      BY <1>g DEF ReplaceManifest
    <2>2. Upserted(w) \subseteq Exist
      BY <1>4, <1>g DEF ReplaceManifest, AboutToWrite, Upserted
    <2>3. Exist' = Exist
      BY <2>1 DEF Exist
    <2>4. /\ DOMAIN manifest' \subseteq Files
          /\ \A f \in DOMAIN manifest' : manifest'[f] \subseteq Exist'
      BY <1>2, <1>3, <1>g, <2>2, <2>3 DEF ReplaceManifest, Put
    <2>5. r \in WorkerStates /\ r.at # "absent"
      BY <1>2 DEF WorkerStates, Points
    <2>6. ExistsAfter(r)
      BY DEF ExistsAfter
    <2> HIDE DEF r
    <2> QED
      BY <1>1, <1>3, <2>1, <2>3, <2>4, <2>5, <2>6, MovedKeeps DEF Others
  <1>h. CASE WriteReport(w)
    <2> DEFINE r == Worker(After[proc[w].at])
    <2>1. proc[w].at \in Kinds
      BY <1>h DEF WriteReport
    <2>2. After[proc[w].at] \in Points \ {"absent", "save", "write", "read", "replace"}
      BY <2>1 DEF After, Kinds, Points, Exited
    <2>3. r \in WorkerStates /\ r.at # "absent" /\ r.at \notin {"save", "write", "read", "replace"}
      BY <2>2, WorkerTyped DEF Worker
    <2>4. ExistsAfter(r)
      BY <2>3 DEF ExistsAfter
    <2>5. BecomesWorker(w, r) /\ UNCHANGED <<png, manifest>> /\ Others
      BY <1>h DEF WriteReport
    <2>6. Exist' = Exist
      BY <2>5 DEF Exist
    <2>7. <<FileBy(w), proc[w].at>> \in Files \X Kinds
      BY <1>2, <2>1
    <2>8. /\ DOMAIN reports' \subseteq Files \X Kinds
          /\ \A x \in DOMAIN reports' : reports'[x] \in 1 .. MaxLaunches
      BY <1>2, <1>3, <1>h, <2>7 DEF WriteReport, Put
    <2> HIDE DEF r
    <2> QED
      BY <1>1, <1>3, <2>3, <2>4, <2>5, <2>6, <2>8, MovedKeeps DEF Others
  <1> QED
    BY <1>a, <1>b, <1>c, <1>d, <1>e, <1>f, <1>g, <1>h DEF WorkerStep

\* A worker that dies or crashes leaves the files as they are.
LEMMA DeathKeeps ==
    ASSUME IInv, NEW w \in Workers, Die(w) \/ Crash(w)
    PROVE  IInv'
  <1>1. proc[w].at # "absent" /\ BecomesWorker(w, Worker("failed"))
    BY DEF Die, Crash, Alive, Exited
  <1>2. UNCHANGED <<outputs, runs, launcher, signalled>> /\ faults' \in 0 .. MaxFaults
    BY RunAssumption DEF Die, Crash, Fault, IInv, TypeOK
  <1>3. Worker("failed") \in WorkerStates /\ Worker("failed").at = "failed"
    BY WorkerTyped DEF Points, Exited, Worker
  <1>4. AboutToWrite(Worker("failed"))
    BY <1>3 DEF AboutToWrite
  <1> QED
    BY <1>1, <1>2, <1>3, <1>4, QuietKeeps

-----------------------------------------------------------------------------
(* The launcher and the merge *)

\* A step of the launcher that touches neither files nor processes.
LEMMA LauncherQuietKeeps ==
    ASSUME IInv, UNCHANGED <<outputs, runs, proc>>, signalled' \subseteq Workers,
           faults' \in 0 .. MaxFaults,
           launcher' \in [at : LauncherPoints, next : Shards(MaxShards), result : Results,
                          rows : SUBSET All],
           KnownLaunch', PublishExists'
    PROVE  IInv'
  <1> USE DEF outputs
  <1>1. Exist' = Exist
    BY DEF Exist
  <1>2. TypeOK' /\ KnownWorkers' /\ RowsHavePngs'
    BY DEF IInv, TypeOK, KnownWorkers, RowsHavePngs
  <1>3. WritesExist'
    BY <1>1 DEF IInv, WritesExist, AboutToWrite
  <1> QED
    BY <1>2, <1>3 DEF IInv

\* The same for a step to a point where the launcher holds nothing to publish.
LEMMA BecomesKeeps ==
    ASSUME IInv, UNCHANGED <<outputs, runs, proc>>, signalled' \subseteq Workers,
           faults' \in 0 .. MaxFaults,
           NEW at \in LauncherPoints \ {"spawn", "publish"}, NEW result \in Results,
           at # "returned" => launcher.at # "returned", BecomesLauncher(at, result)
    PROVE  IInv'
  <1>1. launcher' \in [at : LauncherPoints, next : Shards(MaxShards), result : Results,
                       rows : SUBSET All]
    BY RunAssumption DEF BecomesLauncher, Launcher, Shards
  <1>2. launcher'.at = at
    BY DEF BecomesLauncher, Launcher
  <1>3. KnownLaunch' /\ PublishExists'
    BY <1>2 DEF IInv, KnownLaunch, PublishExists
  <1> QED
    BY <1>1, <1>3, LauncherQuietKeeps

\* Workers are processes, whatever the launcher signals.
LEMMA RunningTyped == Running \subseteq Workers
  BY DEF Running, Mine

\* Launching again keeps the invariant: earlier processes keep their launch.
LEMMA LaunchAgainKeeps ==
    ASSUME IInv, NEW l \in Launches, LaunchAgain(l)
    PROVE  IInv'
  <1> USE DEF outputs
  <1>1. /\ runs \in Seq(Launches) /\ Len(runs) \in Nat /\ Len(runs) < MaxLaunches
        /\ runs' = Append(runs, l)
    BY DEF LaunchAgain, Current, IInv, TypeOK
  <1>2. /\ runs' \in Seq(Launches) /\ Len(runs') = Len(runs) + 1
        /\ \A n \in 1 .. Len(runs) : runs'[n] = runs[n]
        /\ runs'[Len(runs')] = l
    BY <1>1
  <1>3. Len(runs') \in 1 .. MaxLaunches
    BY <1>1, <1>2, RunAssumption
  <1>4. l.shards \in 1 .. MaxShards
    BY RunAssumption
  <1>5. launcher' = Launcher("spawn", "none")
    BY DEF LaunchAgain, BecomesLauncher
  <1>6. /\ launcher'.at = "spawn" /\ launcher'.next = 0
        /\ launcher' \in [at : LauncherPoints, next : Shards(MaxShards), result : Results,
                          rows : SUBSET All]
    BY <1>5, RunAssumption DEF Launcher, LauncherPoints, Results, Shards
  <1>7. Exist' = Exist
    BY DEF LaunchAgain, Exist
  <1>8. UNCHANGED <<png, manifest, reports, proc, signalled, faults>>
    BY DEF LaunchAgain
  <1>9. TypeOK'
    BY <1>2, <1>3, <1>6, <1>8 DEF IInv, TypeOK
  <1>10. KnownWorkers'
    BY <1>1, <1>2, <1>8 DEF IInv, KnownWorkers
  <1>11. KnownLaunch' /\ PublishExists'
    BY <1>2, <1>3, <1>4, <1>6 DEF KnownLaunch, PublishExists, Shards
  <1>12. RowsHavePngs' /\ WritesExist'
    BY <1>7, <1>8 DEF IInv, RowsHavePngs, WritesExist, AboutToWrite
  <1> QED
    BY <1>9, <1>10, <1>11, <1>12 DEF IInv

\* Starting a worker keeps the invariant.
LEMMA SpawnKeeps ==
    ASSUME IInv, Spawn
    PROVE  IInv'
  <1> USE DEF outputs
  <1> DEFINE v == <<Current, launcher.next>>
             r == Worker("start")
  <1>1. /\ Len(runs) \in 1 .. MaxLaunches /\ runs \in Seq(Launches)
        /\ launcher.next \in Shards(This.shards)
    BY DEF Spawn, IInv, TypeOK, KnownLaunch, This, Current
  <1>2. This \in Launches /\ This.shards \in 1 .. MaxShards
    BY <1>1, RunAssumption DEF This, Current
  <1>3. v \in Workers
    BY <1>1, <1>2, RunAssumption DEF Workers, Shards, Current
  <1>4. r \in WorkerStates /\ r.at = "start"
    BY WorkerTyped DEF Points, Worker
  <1>5. proc' \in [Workers -> WorkerStates] /\ proc'[v] = r
    BY <1>3, <1>4 DEF Spawn, BecomesWorker, IInv, TypeOK
  <1>6. \A w \in Workers : w # v => proc'[w] = proc[w]
    BY DEF Spawn, BecomesWorker, IInv, TypeOK
  <1>7. UNCHANGED <<png, manifest, reports, runs, signalled, faults>>
    BY DEF Spawn
  <1>8. /\ launcher' \in [at : LauncherPoints, next : Shards(MaxShards), result : Results,
                          rows : SUBSET All]
        /\ launcher'.at \in {"poll", "spawn"}
        /\ launcher'.at = "spawn" => launcher'.next \in Shards(This.shards)
    BY <1>1, <1>2, RunAssumption DEF Spawn, LauncherPoints, Results, Shards
  <1>9. Exist' = Exist
    BY <1>7 DEF Exist
  <1>10. TypeOK'
    BY <1>5, <1>7, <1>8 DEF IInv, TypeOK
  <1>11. v[1] = Len(runs) /\ v[2] = launcher.next
    BY DEF Current
  <1>12. KnownWorkers'
    BY <1>1, <1>6, <1>7, <1>11 DEF IInv, KnownWorkers, This, Current
  <1>13. KnownLaunch' /\ PublishExists'
    BY <1>1, <1>7, <1>8 DEF KnownLaunch, PublishExists, This, Current
  <1>14. RowsHavePngs'
    BY <1>7 DEF IInv, RowsHavePngs
  <1>15. WritesExist'
    <2> SUFFICES ASSUME NEW w \in Workers PROVE AboutToWrite(proc[w])'
      BY DEF WritesExist
    <2>1. CASE w = v
      BY <2>1, <1>4, <1>5 DEF AboutToWrite
    <2>2. CASE w # v
      BY <2>2, <1>6, <1>9 DEF IInv, WritesExist, AboutToWrite
    <2> QED
      BY <2>1, <2>2
  <1> QED
    BY <1>10, <1>12, <1>13, <1>14, <1>15 DEF IInv

\* Accepting a merge keeps the invariant: the rows read all have their PNG.
LEMMA MergeAcceptsKeeps ==
    ASSUME IInv, MergeAccepts
    PROVE  IInv'
  <1>1. \A f \in ShardFiles : Rows(f) \subseteq Exist
    BY DEF IInv, TypeOK, RowsHavePngs, Rows, Exist
  <1>2. MergedRows \subseteq Exist /\ Exist \subseteq All
    BY <1>1 DEF MergedRows, Exist
  <1>3. /\ launcher' \in [at : LauncherPoints, next : Shards(MaxShards), result : Results,
                          rows : SUBSET All]
        /\ launcher'.at = "publish" /\ launcher'.rows = MergedRows
    BY <1>2, RunAssumption DEF MergeAccepts, LauncherPoints, Results, Shards
  <1>4. UNCHANGED <<outputs, runs, proc, signalled, faults>>
    BY DEF MergeAccepts
  <1>5. signalled' \subseteq Workers /\ faults' \in 0 .. MaxFaults
    BY <1>4 DEF IInv, TypeOK
  <1>6. launcher.at = "merge"
    BY DEF MergeAccepts
  <1>7. KnownLaunch'
    BY <1>3, <1>4, <1>6 DEF IInv, KnownLaunch
  <1>8. PublishExists'
    BY <1>2, <1>3, <1>4 DEF PublishExists, Exist, outputs
  <1> QED
    BY <1>3, <1>4, <1>5, <1>7, <1>8, LauncherQuietKeeps

\* Publishing keeps the invariant.
LEMMA PublishKeeps ==
    ASSUME IInv, Publish
    PROVE  IInv'
  <1>1. launcher.rows \subseteq Exist /\ Len(runs) \in 1 .. MaxLaunches
    BY DEF IInv, Publish, PublishExists, KnownLaunch
  <1>2. UNCHANGED <<png, runs, proc, signalled, faults>>
    BY DEF Publish
  <1>3. Exist' = Exist /\ Exist \subseteq All
    BY <1>2 DEF Exist
  <1>4. \A f \in DOMAIN manifest : manifest[f] \subseteq Exist
    BY DEF IInv, TypeOK, RowsHavePngs, Exist
  <1>5. /\ DOMAIN manifest' \subseteq Files
        /\ \A f \in DOMAIN manifest' : manifest'[f] \subseteq Exist
    BY <1>1, <1>4 DEF Publish, Put, Files, IInv, TypeOK
  <1>6. /\ DOMAIN reports' \subseteq Files \X Kinds
        /\ \A x \in DOMAIN reports' : reports'[x] \in 1 .. MaxLaunches
    BY <1>1 DEF Publish, Files, Current, IInv, TypeOK
  <1>7. /\ launcher' \in [at : LauncherPoints, next : Shards(MaxShards), result : Results,
                          rows : SUBSET All]
        /\ launcher'.at = "returned"
    BY RunAssumption DEF Publish, BecomesLauncher, Launcher, LauncherPoints, Results, Shards
  <1>8. TypeOK'
    BY <1>2, <1>3, <1>5, <1>6, <1>7 DEF IInv, TypeOK
  <1>9. KnownWorkers' /\ KnownLaunch' /\ PublishExists'
    BY <1>2, <1>7 DEF IInv, KnownWorkers, KnownLaunch, PublishExists
  <1>10. RowsHavePngs'
    BY <1>2, <1>5 DEF RowsHavePngs, Exist
  <1>11. WritesExist'
    BY <1>2, <1>3 DEF IInv, WritesExist, AboutToWrite
  <1> QED
    BY <1>8, <1>9, <1>10, <1>11 DEF IInv

\* The other steps of the launcher only move it and signal workers.
LEMMA LauncherStepKeeps ==
    ASSUME IInv, LauncherStep \/ Interrupt \/ LauncherDies \/ MergeTimeout
    PROVE  IInv'
  <1>1. signalled \subseteq Workers /\ faults \in 0 .. MaxFaults
    BY DEF IInv, TypeOK
  <1>2. Fault => faults' \in 0 .. MaxFaults
    BY <1>1, RunAssumption DEF Fault
  <1>3. {"returned", "poll", "stopping", "interrupted", "merge"}
          \subseteq LauncherPoints \ {"spawn", "publish"}
    BY DEF LauncherPoints
  <1>4. Results = {"none", "merged", "failed", "refused", "interrupted", "died"}
    BY DEF Results
  <1>a. CASE Spawn
    BY <1>a, SpawnKeeps
  <1>b. CASE PollFailure
    BY <1>b, <1>1, <1>3, <1>4, RunningTyped, BecomesKeeps DEF PollFailure
  <1>c. CASE Collect
    BY <1>c, <1>1, <1>3, <1>4, BecomesKeeps DEF Collect
  <1>d. CASE StopDone
    BY <1>d, <1>1, <1>3, <1>4, BecomesKeeps DEF StopDone
  <1>e. CASE MergeAccepts
    BY <1>e, MergeAcceptsKeeps
  <1>f. CASE MergeRefuses
    BY <1>f, <1>1, <1>3, <1>4, BecomesKeeps DEF MergeRefuses
  <1>g. CASE Publish
    BY <1>g, PublishKeeps
  <1>h. CASE Interrupt
    BY <1>h, <1>1, <1>2, <1>3, <1>4, RunningTyped, BecomesKeeps DEF Interrupt
  <1>i. CASE LauncherDies
    BY <1>i, <1>1, <1>2, <1>3, <1>4, BecomesKeeps DEF LauncherDies
  <1>j. CASE MergeTimeout
    BY <1>j, <1>1, <1>2, <1>3, <1>4, BecomesKeeps DEF MergeTimeout
  <1> QED
    BY <1>a, <1>b, <1>c, <1>d, <1>e, <1>f, <1>g, <1>h, <1>i, <1>j DEF LauncherStep

-----------------------------------------------------------------------------
(* Theorems *)

\* The empty run directory satisfies the invariant.
LEMMA InitIInv == Init => IInv
  <1> SUFFICES ASSUME Init PROVE IInv
    OBVIOUS
  <1>1. Worker("absent") \in WorkerStates /\ Worker("absent").at = "absent"
    BY WorkerTyped DEF Points, Exited, Worker
  <1>2. \A w \in Workers : proc[w] = Worker("absent")
    BY DEF Init
  <1>3. DOMAIN manifest = {} /\ DOMAIN reports = {}
    BY DEF Init, NoFiles
  <1>4. TypeOK
    BY <1>1, <1>3, RunAssumption DEF Init, TypeOK, LauncherPoints, Results, Shards
  <1>5. KnownWorkers /\ WritesExist
    BY <1>1, <1>2 DEF KnownWorkers, WritesExist, AboutToWrite
  <1>6. KnownLaunch /\ PublishExists /\ RowsHavePngs
    BY <1>3 DEF Init, KnownLaunch, PublishExists, RowsHavePngs
  <1> QED
    BY <1>4, <1>5, <1>6 DEF IInv

\* The invariant is inductive: it holds in every reachable state.
THEOREM Invariance == Spec => []IInv
  <1>1. IInv /\ [Next]_vars => IInv'
    <2> SUFFICES ASSUME IInv, [Next]_vars PROVE IInv'
      OBVIOUS
    <2>1. CASE \E w \in Workers : WorkerStep(w) \/ Die(w) \/ Crash(w)
      BY <2>1, WorkerStepKeeps, DeathKeeps
    <2>2. CASE \E l \in Launches : LaunchAgain(l)
      BY <2>2, LaunchAgainKeeps
    <2>3. CASE LauncherStep \/ Interrupt \/ LauncherDies \/ MergeTimeout
      BY <2>3, LauncherStepKeeps
    <2>4. CASE UNCHANGED vars
      BY <2>4 DEF vars, outputs, IInv, TypeOK, KnownWorkers, KnownLaunch, RowsHavePngs,
                  WritesExist, PublishExists, AboutToWrite, Exist
    <2> QED
      BY <2>1, <2>2, <2>3, <2>4 DEF Next
  <1> QED
    BY <1>1, InitIInv, PTL DEF Spec

\* Every variable keeps its type, for any number of images, shards, launches
\* and faults.
THEOREM TypeCorrect == Spec => []TypeOK
  <1>1. IInv => TypeOK
    BY DEF IInv
  <1> QED
    BY <1>1, Invariance, PTL

\* No manifest of a run directory, shard or merged, ever holds a row without
\* its PNG: save_image_batch_png and upsert_manifest_records survive every
\* crash, interrupt, orphan and relaunch in this order.
THEOREM ManifestsNeverAhead == Spec => []RowsHavePngs
  <1>1. IInv => RowsHavePngs
    BY DEF IInv
  <1> QED
    BY <1>1, Invariance, PTL

-----------------------------------------------------------------------------
(* The shards of a run *)

\* The run's Partition, for every bound: no image is generated twice or left out.
THEOREM ShardsPartition == Spec => []Partition
  <1>1. Partition
    <2> SUFFICES ASSUME NEW n \in 0 .. MostImages, NEW k \in 1 .. MostShards,
                        NEW mode \in ShardModes
                 PROVE  \A i \in Images(n) : \E s \in Shards(k) : \A t \in Shards(k) :
                          i \in ShardIndices(n, k, t, mode) <=> t = s
      BY DEF Partition
    <2>1. n \in Nat /\ k \in Nat \ {0}
      BY BoundsAssumption
    <2> QED
      BY <2>1, DealtOnce
  <1> QED
    BY <1>1, PTL

-----------------------------------------------------------------------------
(* The contract *)

\* The batch and the image in hand are cut from a finite set.
LEMMA AllFinite == IsFiniteSet(All)
  <1>1. 0 \in Int /\ NumImages - 1 \in Int
    BY RunAssumption
  <1> QED
    BY <1>1, FS_Interval DEF All, Images

\* At most one image is opened at a time.
LEMMA OneAtATime ==
    ASSUME NEW S, S \subseteq All, NEW i \in FirstOf(S, 1), NEW j \in FirstOf(S, 1)
    PROVE  i = j
  <1>1. \A a, b \in FirstOf(S, 1) : ~(a < b)
    <2> SUFFICES ASSUME NEW a \in FirstOf(S, 1), NEW b \in FirstOf(S, 1), a < b PROVE FALSE
      OBVIOUS
    <2> DEFINE T == {k \in S : k < b}
    <2>1. a \in T /\ Cardinality(T) < 1
      BY DEF FirstOf
    <2>2. IsFiniteSet(T)
      BY AllFinite, FS_Subset
    <2>3. Cardinality(T) \in Nat /\ (Cardinality(T) = 0 <=> T = {})
      BY <2>2, FS_CardinalityType, FS_EmptySet
    <2> QED
      BY <2>1, <2>3
  <1>2. i \in Int /\ j \in Int
    BY RunAssumption DEF FirstOf, All, Images
  <1> QED
    BY <1>1, <1>2

\* Workers leave the launcher alone, however they step or end.
LEMMA WorkersQuiet ==
    ASSUME NEW w \in Workers, WorkerStep(w) \/ Die(w) \/ Crash(w)
    PROVE  UNCHANGED <<runs, launcher, signalled>>
  BY DEF WorkerStep, Reconcile, NextBatch, FinishBatches, OpenPng, ClosePng, ReadManifest,
         ReplaceManifest, WriteReport, Others, Die, Crash

\* Where a step of the launcher may leave it.
LEMMA LauncherMoves ==
    ASSUME \/ LauncherStep \/ Interrupt \/ LauncherDies \/ MergeTimeout
           \/ \E l \in Launches : LaunchAgain(l)
    PROVE  /\ UNCHANGED png
           /\ launcher'.at = "publish" => MergeAccepts
           /\ launcher'.result = "merged" => Publish
  <1> USE DEF BecomesLauncher, Launcher, outputs
  <1>1. CASE Interrupt \/ LauncherDies \/ MergeTimeout
    BY <1>1 DEF Interrupt, LauncherDies, MergeTimeout
  <1>2. CASE \E l \in Launches : LaunchAgain(l)
    BY <1>2 DEF LaunchAgain
  <1>3. CASE Spawn
    BY <1>3 DEF Spawn
  <1>4. CASE PollFailure \/ Collect \/ StopDone
    BY <1>4 DEF PollFailure, Collect, StopDone
  <1>5. CASE MergeAccepts
    BY <1>5 DEF MergeAccepts
  <1>6. CASE MergeRefuses \/ Publish
    BY <1>6 DEF MergeRefuses, Publish
  <1> QED
    BY <1>1, <1>2, <1>3, <1>4, <1>5, <1>6 DEF LauncherStep

\* The merge publishes what it has read of all the shards, and it has read
\* every index: StrictChecks.
PublishesAll == launcher.at = "publish" => launcher.rows = All

\* What is about to be published has every index, in every reachable state.
LEMMA PublishesAllInv == Spec => []PublishesAll
  <1>1. Init => PublishesAll
    BY DEF Init, PublishesAll
  <1>2. PublishesAll /\ [Next]_vars => PublishesAll'
    <2> SUFFICES ASSUME PublishesAll, [Next]_vars PROVE PublishesAll'
      OBVIOUS
    <2>1. All' = All
      BY DEF All
    <2>2. CASE UNCHANGED launcher
      BY <2>2, <2>1 DEF PublishesAll
    <2>3. CASE MergeAccepts
      BY <2>3, <2>1 DEF MergeAccepts, StrictChecks, PublishesAll
    <2>4. UNCHANGED launcher \/ MergeAccepts \/ launcher'.at # "publish"
      BY WorkersQuiet, LauncherMoves DEF Next, vars
    <2> QED
      BY <2>2, <2>3, <2>4 DEF PublishesAll
  <1> QED
    BY <1>1, <1>2, PTL DEF Spec

\* A step of the launcher is a step of the contract: it makes no image, and
\* reports the run as merged only when every image exists.
LEMMA LauncherImplements ==
    ASSUME IInv, PublishesAll, UNCHANGED png,
           launcher'.result = "merged" => Publish \/ UNCHANGED launcher
    PROVE  [Contract!Next]_Contract!vars
  <1>1. Exist' = Exist
    BY DEF Exist
  <1>2. CASE launcher'.result # "merged"
    BY <1>1, <1>2 DEF Contract!Next, Contract!Reopen, Exist
  <1>3. CASE Publish
    <2>1. Exist = All
      BY <1>3 DEF IInv, PublishExists, PublishesAll, Publish, Exist
    <2>2. launcher'.result = "merged"
      BY <1>3 DEF Publish, BecomesLauncher, Launcher
    <2> QED
      BY <1>1, <2>1, <2>2 DEF Contract!Next, Contract!Publish, Exist
  <1>4. CASE UNCHANGED launcher
    BY <1>1, <1>4 DEF Contract!vars, Exist
  <1> QED
    BY <1>2, <1>3, <1>4

\* Opening or closing a PNG makes at most one image.
LEMMA WriteImplements ==
    ASSUME IInv, NEW w \in Workers, OpenPng(w) \/ ClosePng(w)
    PROVE  [Contract!Next]_Contract!vars
  <1>1. proc[w].batch \subseteq All
    BY DEF IInv, TypeOK, WorkerStates
  <1>2. SaveFrom(w) \subseteq All /\ \A i, j \in SaveFrom(w) : i = j
    BY <1>1, FirstOfSubset, OneAtATime DEF SaveFrom
  <1>3. Exist' = Exist \cup SaveFrom(w)
    BY <1>2 DEF OpenPng, ClosePng, Opened, Exist
  <1>4. UNCHANGED launcher
    BY DEF OpenPng, ClosePng, Others
  <1>5. CASE SaveFrom(w) \subseteq Exist
    BY <1>3, <1>4, <1>5 DEF Contract!vars, Exist
  <1>6. CASE ~(SaveFrom(w) \subseteq Exist)
    <2>1. PICK i \in SaveFrom(w) : i \notin Exist
      BY <1>6
    <2>2. i \in All \ Exist /\ Exist' = Exist \cup {i}
      BY <1>2, <1>3, <2>1
    <2> QED
      BY <2>2, <1>4 DEF Contract!Next, Contract!Make, Exist
  <1> QED
    BY <1>5, <1>6

\* A sharded generation implements its contract, whatever crashes and however
\* it is launched again: images are made one by one and none is lost, and the
\* run is reported merged only when every image exists.
THEOREM ContractImplemented == Spec => ImplementsContract
  <1>1. Init => Contract!Init
    BY DEF Init, Contract!Init
  <1>2. IInv /\ PublishesAll /\ [Next]_vars => [Contract!Next]_Contract!vars
    <2> SUFFICES ASSUME IInv, PublishesAll, [Next]_vars PROVE [Contract!Next]_Contract!vars
      OBVIOUS
    <2>1. CASE \E w \in Workers : OpenPng(w) \/ ClosePng(w)
      BY <2>1, WriteImplements
    <2>2. CASE \E w \in Workers : ~OpenPng(w) /\ ~ClosePng(w) /\
                                 (WorkerStep(w) \/ Die(w) \/ Crash(w))
      <3>1. UNCHANGED png
        BY <2>2 DEF outputs, WorkerStep, Reconcile, NextBatch, FinishBatches, ReadManifest,
                    ReplaceManifest, WriteReport, Die, Crash
      <3> QED
        BY <2>2, <3>1, WorkersQuiet, LauncherImplements
    <2>3. CASE UNCHANGED vars
      BY <2>3, LauncherImplements DEF vars, outputs
    <2>4. CASE \/ LauncherStep \/ Interrupt \/ LauncherDies \/ MergeTimeout
               \/ \E l \in Launches : LaunchAgain(l)
      BY <2>4, LauncherMoves, LauncherImplements
    <2> QED
      BY <2>1, <2>2, <2>3, <2>4 DEF Next
  <1> QED
    BY <1>1, <1>2, Invariance, PublishesAllInv, PTL DEF Spec, ImplementsContract, Contract!Spec

-----------------------------------------------------------------------------
(* A launcher that waits for its workers *)

\* Workers run only for the last launch, and only while its launcher waits.
Attended ==
    \A w \in Alive : w[1] = Current /\ launcher.at \in {"spawn", "poll", "stopping", "interrupted"}

\* The workers of the last launch are started one after the other.
Started ==
    \A w \in Mine : /\ launcher.at = "spawn" => (proc[w].at = "absent" <=> w[2] >= launcher.next)
                    /\ launcher.at = "poll" => proc[w].at # "absent"

\* The merge starts, and what it publishes stays, when all of them ended well.
Ended ==
    /\ launcher.result # "none" => launcher.at = "returned" /\ Len(runs) \in 1 .. MaxLaunches
    /\ launcher.at \in {"merge", "publish"} \/ launcher.result = "merged" =>
         \A w \in Mine : proc[w].at = "ok"

Orderly == Attended /\ Started /\ Ended

-----------------------------------------------------------------------------
(* What one worker holds *)

MineOf(w) == IndicesOf(LaunchOf(w), w[2])
Generating == {"next", "save", "write", "read", "replace"}

\* A worker holds images of its own shard, each once, and the manifest it is
\* about to replace is as it read it.
HoldsOwn(w) ==
    /\ proc[w].todo \subseteq MineOf(w) /\ proc[w].batch \subseteq MineOf(w)
    /\ proc[w].at \in {"save", "write"} => proc[w].todo \cap proc[w].batch = {}
    /\ proc[w].at = "replace" => proc[w].rows = Rows(FileBy(w))

\* What a resumed worker has still to write does not exist.
SkipsExisting(w) ==
    LaunchOf(w).resume =>
      /\ proc[w].at \in Generating => proc[w].todo \cap Exist = {}
      /\ proc[w].at = "save" => (proc[w].batch \ proc[w].saved) \cap Exist = {}
      /\ proc[w].at = "write" =>
           (proc[w].batch \ (proc[w].saved \cup SaveFrom(w))) \cap Exist = {}

\* An image of a worker's shard is still to do, in hand, or in the manifest.
LosesNone(w) ==
    /\ proc[w].at = "next" => MineOf(w) \subseteq proc[w].todo \cup Rows(FileBy(w))
    /\ proc[w].at \in Generating =>
         MineOf(w) \subseteq proc[w].todo \cup proc[w].batch \cup Rows(FileBy(w))
    /\ proc[w].at \in Kinds \cup {"ok"} => MineOf(w) \subseteq Rows(FileBy(w))

WorkerSound(w) == HoldsOwn(w) /\ SkipsExisting(w) /\ LosesNone(w)
WorkersSound == \A w \in Workers : proc[w].at # "absent" => WorkerSound(w)

\* A worker at this point has written its report of this kind.
Reported(at, kind) ==
    \/ at = "ok"
    \/ at \in {"cache_stats", "generation_meta"} /\ kind = "latency"
    \/ at = "generation_meta" /\ kind = "cache_stats"

\* The reports its workers have written are of the last launch.
ReportsFresh ==
    \A w \in Workers : w[1] = Current =>
      \A kind \in Kinds : Reported(proc[w].at, kind) =>
        <<FileBy(w), kind>> \in DOMAIN reports /\ reports[<<FileBy(w), kind>>] = Current


-----------------------------------------------------------------------------
(* The launcher waits: Orderly is inductive *)

\* Only a worker that runs moves, and it moves alone.
LEMMA MovesAlone ==
    ASSUME IInv, NEW w \in Workers, WorkerStep(w) \/ Die(w) \/ Crash(w)
    PROVE  /\ w \in Alive /\ proc'[w].at # "absent"
           /\ \A v \in Workers : v # w => proc'[v] = proc[v]
           /\ UNCHANGED <<runs, launcher>>
  <1>1. /\ w \in Alive
        /\ \E r : r.at # "absent" /\ BecomesWorker(w, r)
    <2>1. CASE WorkerStep(w)
      <3>1. CASE Reconcile(w)
        BY <3>1 DEF Reconcile, Alive, Exited
      <3>2. CASE NextBatch(w)
        BY <3>2 DEF NextBatch, Alive, Exited
      <3>3. CASE FinishBatches(w)
        BY <3>3 DEF FinishBatches, Alive, Exited, Worker
      <3>4. CASE OpenPng(w)
        <4>1. proc[w] \in WorkerStates
          BY DEF IInv, TypeOK
        <4>2. [proc[w] EXCEPT !.at = "write"].at = "write"
          BY <4>1 DEF WorkerStates
        <4> QED
          BY <3>4, <4>2 DEF OpenPng, Alive, Exited
      <3>5. CASE ClosePng(w)
        BY <3>5 DEF ClosePng, AfterPng, Alive, Exited
      <3>6. CASE ReadManifest(w)
        BY <3>6 DEF ReadManifest, Alive, Exited
      <3>7. CASE ReplaceManifest(w)
        BY <3>7 DEF ReplaceManifest, Alive, Exited
      <3>8. CASE WriteReport(w)
        BY <3>8 DEF WriteReport, Kinds, After, Alive, Exited, Worker
      <3> QED
        BY <2>1, <3>1, <3>2, <3>3, <3>4, <3>5, <3>6, <3>7, <3>8 DEF WorkerStep
    <2>2. CASE Die(w) \/ Crash(w)
      BY <2>2 DEF Die, Crash, Worker
    <2> QED
      BY <2>1, <2>2
  <1>2. proc \in [Workers -> WorkerStates]
    BY DEF IInv, TypeOK
  <1>3. PICK r : r.at # "absent" /\ BecomesWorker(w, r)
    BY <1>1
  <1>4. proc' = [proc EXCEPT ![w] = r]
    BY <1>3 DEF BecomesWorker
  <1> QED
    BY <1>1, <1>2, <1>3, <1>4, WorkersQuiet

\* A worker that steps or ends keeps the order of the run.
LEMMA WorkerKeepsOrder ==
    ASSUME IInv, Orderly, NEW w \in Workers, WorkerStep(w) \/ Die(w) \/ Crash(w)
    PROVE  Orderly'
  <1>1. /\ w \in Alive /\ proc'[w].at # "absent"
        /\ \A v \in Workers : v # w => proc'[v] = proc[v]
        /\ UNCHANGED <<runs, launcher>>
    BY MovesAlone
  <1>2. Mine' = Mine /\ Current' = Current
    BY <1>1 DEF Mine, This, Current
  <1>3. proc[w].at # "absent" /\ launcher.at \in {"spawn", "poll", "stopping", "interrupted"}
    BY <1>1 DEF Orderly, Attended, Alive, Exited
  <1>4. Attended'
    BY <1>1, <1>2 DEF Orderly, Attended, Alive, Exited
  <1>5. Started'
    BY <1>1, <1>2, <1>3 DEF Orderly, Started, Mine
  <1>6. Ended'
    BY <1>1, <1>3 DEF Orderly, Ended
  <1> QED
    BY <1>4, <1>5, <1>6 DEF Orderly

\* While the launcher waits for none, no worker runs.
LEMMA NoneRuns ==
    ASSUME IInv, Orderly, Running = {}
    PROVE  Alive = {}
  <1> SUFFICES ASSUME NEW w \in Alive PROVE FALSE
    OBVIOUS
  <1>1. w \in Workers /\ w[1] = Current /\ proc[w].at # "absent"
    BY DEF Orderly, Attended, Alive, Exited
  <1>2. w[2] \in Shards(This.shards) /\ This.shards \in Int
    BY <1>1, RunAssumption DEF IInv, KnownWorkers, This, Current, TypeOK
  <1> QED
    BY <1>1, <1>2 DEF Running, Mine, Shards

\* Starting the next worker keeps the order of the run.
LEMMA SpawnKeepsOrder ==
    ASSUME IInv, Orderly, Spawn
    PROVE  Orderly'
  <1> DEFINE v == <<Current, launcher.next>>
  <1>1. /\ Len(runs) \in 1 .. MaxLaunches /\ runs \in Seq(Launches)
        /\ launcher.next \in Shards(This.shards) /\ launcher.at = "spawn"
    BY DEF Spawn, IInv, TypeOK, KnownLaunch, This, Current
  <1>2. This.shards \in 1 .. MaxShards
    BY <1>1, RunAssumption DEF This, Current
  <1>3. v \in Workers /\ v[1] = Current /\ v[2] = launcher.next
    BY <1>1, <1>2, RunAssumption DEF Workers, Shards, Current
  <1>4. /\ proc'[v].at = "start"
        /\ \A w \in Workers : w # v => proc'[w] = proc[w]
    BY <1>3 DEF Spawn, BecomesWorker, Worker, IInv, TypeOK
  <1>5. Mine' = Mine /\ Current' = Current /\ This' = This
    BY DEF Spawn, Mine, This, Current
  <1>6. /\ launcher'.at = IF launcher.next + 1 = This.shards THEN "poll" ELSE "spawn"
        /\ launcher'.next = IF launcher.next + 1 = This.shards THEN 0 ELSE launcher.next + 1
        /\ launcher'.result = "none"
    BY DEF Spawn
  <1>7. Attended'
    <2> SUFFICES ASSUME NEW w \in Workers, proc'[w].at \notin Exited PROVE w[1] = Current
      BY <1>5, <1>6 DEF Attended, Alive
    <2>1. CASE w = v
      BY <2>1, <1>3
    <2>2. CASE w # v
      BY <2>2, <1>4 DEF Orderly, Attended, Alive
    <2> QED
      BY <2>1, <2>2
  <1>8. Started'
    <2> SUFFICES ASSUME NEW w \in Mine
                 PROVE  /\ launcher'.at = "spawn" => (proc'[w].at = "absent" <=> w[2] >= launcher'.next)
                        /\ launcher'.at = "poll" => proc'[w].at # "absent"
      BY <1>5 DEF Started
    <2>1. w \in Workers /\ w[1] = Current /\ w[2] \in Nat /\ w[2] < This.shards
      BY RunAssumption DEF Mine, Workers, Shards
    <2>2. launcher.next \in Nat /\ This.shards \in Nat
      BY <1>1, <1>2 DEF Shards
    <2>3. w = v <=> w[2] = launcher.next
      BY <2>1, <1>3 DEF Workers
    <2>4. CASE w = v
      BY <2>4, <2>1, <2>2, <2>3, <1>4, <1>6
    <2>5. CASE w # v
      <3>1. proc'[w] = proc[w] /\ w[2] # launcher.next
        BY <2>1, <2>3, <2>5, <1>4
      <3>2. proc[w].at = "absent" <=> w[2] >= launcher.next
        BY <1>1 DEF Orderly, Started
      <3> QED
        BY <3>1, <3>2, <2>1, <2>2, <1>6
    <2> QED
      BY <2>4, <2>5
  <1>9. Ended'
    BY <1>6 DEF Ended
  <1> QED
    BY <1>7, <1>8, <1>9 DEF Orderly

\* A launch starts when no worker runs, with none of its own started.
LEMMA LaunchAgainKeepsOrder ==
    ASSUME IInv, Orderly, NEW l \in Launches, LaunchAgain(l)
    PROVE  Orderly'
  <1>1. /\ runs \in Seq(Launches) /\ runs' = Append(runs, l) /\ launcher.at = "returned"
        /\ UNCHANGED proc
    BY DEF LaunchAgain, IInv, TypeOK
  <1>2. Current \in Nat /\ Current' = Current + 1
    BY <1>1 DEF Current
  <1>3. launcher'.at = "spawn" /\ launcher'.next = 0 /\ launcher'.result = "none"
    BY DEF LaunchAgain, BecomesLauncher, Launcher
  <1>4. Alive = {}
    BY <1>1 DEF Orderly, Attended
  <1>5. Attended' /\ Ended'
    BY <1>1, <1>3, <1>4 DEF Attended, Alive, Ended
  <1>6. \A w \in Workers : w[1] = Current + 1 => proc[w].at = "absent"
    BY <1>2 DEF IInv, KnownWorkers, Current
  <1>7. \A w \in Workers : w[2] \in Nat
    BY RunAssumption DEF Workers, Shards
  <1>8. Started'
    BY <1>1, <1>2, <1>3, <1>6, <1>7 DEF Started, Mine
  <1> QED
    BY <1>5, <1>8 DEF Orderly

\* The launcher returns, or goes on to the merge, when no worker runs.
LEMMA LauncherKeepsOrder ==
    ASSUME ~OrphansPossible, IInv, Orderly,
           LauncherStep \/ Interrupt \/ LauncherDies \/ MergeTimeout
    PROVE  Orderly'
  <1> USE DEF BecomesLauncher, Launcher
  <1>a. CASE Spawn
    BY <1>a, SpawnKeepsOrder
  <1>b. CASE ~Spawn
    <2>1. Mine' = Mine /\ Current' = Current /\ UNCHANGED <<runs, proc>>
      BY <1>b DEF LauncherStep, PollFailure, Collect, StopDone, MergeAccepts, MergeRefuses, Publish,
                  Interrupt, LauncherDies, MergeTimeout, Mine, This, Current, outputs
    <2>2. Alive' = Alive
      BY <2>1 DEF Alive
    <2>0. launcher.at # "returned" /\ Len(runs') \in 1 .. MaxLaunches
      BY <1>b, <2>1 DEF LauncherStep, PollFailure, Collect, StopDone, MergeAccepts, MergeRefuses,
                  Publish, Interrupt, LauncherDies, MergeTimeout, IInv, KnownLaunch
    <2>3. launcher'.at \notin {"spawn", "poll"}
      BY <1>b DEF LauncherStep, PollFailure, Collect, StopDone, MergeAccepts, MergeRefuses, Publish,
                  Interrupt, LauncherDies, MergeTimeout
    <2>4. Started'
      BY <2>3 DEF Started
    <2>5. CASE PollFailure \/ Interrupt
      BY <2>0, <2>1, <2>2, <2>4, <2>5 DEF PollFailure, Interrupt, Orderly, Attended, Ended
    <2>6. CASE Collect
      <3>1. Alive = {} /\ launcher.at \in {"poll", "stopping"}
        BY <2>6, NoneRuns DEF Collect, AllEnded
      <3>2. MayMerge => \A w \in Mine : proc[w].at = "ok"
        <4> SUFFICES ASSUME MayMerge, NEW w \in Mine PROVE proc[w].at = "ok"
          OBVIOUS
        <4>1. w \in Workers /\ proc[w].at \in Exited
          BY <3>1 DEF Alive, Mine
        <4>2. proc[w].at # "failed" /\ proc[w].at # "absent"
          BY DEF MayMerge, SomeFailed, Orderly, Started
        <4> QED
          BY <4>1, <4>2 DEF Exited
      <3> QED
        BY <2>0, <2>1, <2>2, <2>4, <2>6, <3>1, <3>2 DEF Collect, Orderly, Attended, Ended
    <2>7. CASE StopDone
      <3>1. Alive = {}
        BY <2>7, NoneRuns DEF StopDone
      <3> QED
        BY <2>0, <2>1, <2>2, <2>4, <2>7, <3>1 DEF StopDone, Orderly, Attended, Ended
    <2>8. CASE MergeAccepts \/ MergeRefuses \/ Publish \/ MergeTimeout
      <3>1. launcher.at \in {"merge", "publish"} /\ launcher'.at \in {"publish", "returned"}
        BY <2>8 DEF MergeAccepts, MergeRefuses, Publish, MergeTimeout
      <3>2. Alive = {}
        BY <3>1 DEF Orderly, Attended
      <3>3. launcher'.at = "returned" \/ launcher'.result = "none"
        BY <2>8 DEF MergeAccepts, MergeRefuses, Publish, MergeTimeout
      <3> QED
        BY <2>0, <2>1, <2>2, <2>4, <3>1, <3>2, <3>3 DEF Orderly, Attended, Ended
    <2>9. ~LauncherDies
      BY DEF LauncherDies
    <2> QED
      BY <1>b, <2>5, <2>6, <2>7, <2>8, <2>9 DEF LauncherStep
  <1> QED
    BY <1>a, <1>b

\* A launcher that cannot die unseen waits for its workers, always.
LEMMA OrderlyInv ==
    ASSUME ~OrphansPossible
    PROVE  Spec => []Orderly
  <1>1. Init => Orderly
    <2> SUFFICES ASSUME Init PROVE Orderly
      OBVIOUS
    <2>1. \A w \in Workers : proc[w] = Worker("absent")
      BY DEF Init
    <2>2. Alive = {}
      BY <2>1 DEF Alive, Exited, Worker
    <2> QED
      BY <2>2 DEF Init, Orderly, Attended, Started, Ended
  <1>2. IInv /\ Orderly /\ [Next]_vars => Orderly'
    <2> SUFFICES ASSUME IInv, Orderly, [Next]_vars PROVE Orderly'
      OBVIOUS
    <2>1. CASE \E w \in Workers : WorkerStep(w) \/ Die(w) \/ Crash(w)
      BY <2>1, WorkerKeepsOrder
    <2>2. CASE \E l \in Launches : LaunchAgain(l)
      BY <2>2, LaunchAgainKeepsOrder
    <2>3. CASE LauncherStep \/ Interrupt \/ LauncherDies \/ MergeTimeout
      BY <2>3, LauncherKeepsOrder
    <2>4. CASE UNCHANGED vars
      BY <2>4 DEF vars, Orderly, Attended, Started, Ended, Alive, Mine, This, Current
    <2> QED
      BY <2>1, <2>2, <2>3, <2>4 DEF Next
  <1> QED
    BY <1>1, <1>2, Invariance, PTL DEF Spec

\* Two workers of one launch share no file and no image.
LEMMA Peers ==
    ASSUME IInv, NEW v \in Workers, NEW w \in Workers, v # w, v[1] = w[1],
           proc[v].at # "absent", proc[w].at # "absent"
    PROVE  FileBy(v) # FileBy(w) /\ MineOf(v) \cap MineOf(w) = {}
  <1> DEFINE l == LaunchOf(v)
  <1>1. l = LaunchOf(w) /\ l \in Launches
    BY OwnFile DEF LaunchOf
  <1>2. v[2] \in Shards(l.shards) /\ w[2] \in Shards(l.shards) /\ v[2] # w[2]
    BY <1>1 DEF IInv, KnownWorkers, LaunchOf, Workers
  <1>3. NumImages \in Nat /\ l.shards \in Nat \ {0} /\ l.mode \in ShardModes
    BY <1>1, RunAssumption
  <1>4. FileBy(v) # FileBy(w)
    BY <1>1, <1>2, <1>3 DEF FileBy, FileOf, Shards
  <1>5. ASSUME NEW i \in MineOf(v), i \in MineOf(w) PROVE FALSE
    <2>1. i \in Images(NumImages)
      BY <1>5, IndicesInAll DEF MineOf, All
    <2> HIDE DEF l
    <2>2. PICK s \in Shards(l.shards) : \A t \in Shards(l.shards) :
            i \in ShardIndices(NumImages, l.shards, t, l.mode) <=> t = s
      BY <2>1, <1>3, DealtOnce
    <2> USE DEF l
    <2>3. /\ i \in ShardIndices(NumImages, l.shards, v[2], l.mode)
          /\ i \in ShardIndices(NumImages, l.shards, w[2], l.mode)
      BY <1>1, <1>5 DEF MineOf, IndicesOf
    <2> QED
      BY <1>2, <2>2, <2>3
  <1> QED
    BY <1>4, <1>5

\* No two processes ever write the same PNG or upsert the same manifest, unless
\* a launcher died and left workers running: the launcher returns only when it
\* has waited for all of them.
THEOREM SoleWriters ==
    ASSUME ~OrphansPossible
    PROVE  Spec => []SoleWriter
  <1>1. IInv /\ Orderly => SoleWriter
    <2> SUFFICES ASSUME IInv, Orderly, NEW v \in Alive, NEW w \in Alive, v # w
                 PROVE  /\ FileBy(v) # FileBy(w)
                        /\ IndicesOf(LaunchOf(v), v[2]) \cap IndicesOf(LaunchOf(w), w[2]) = {}
      BY DEF SoleWriter
    <2>1. /\ v \in Workers /\ w \in Workers /\ v[1] = w[1]
          /\ proc[v].at # "absent" /\ proc[w].at # "absent"
      BY DEF Orderly, Attended, Alive, Exited
    <2> QED
      BY <2>1, Peers DEF MineOf
  <1> QED
    BY <1>1, Invariance, OrderlyInv, PTL

-----------------------------------------------------------------------------
(* Each worker on its own shard: WorkersSound is inductive *)

\* A step of a worker adds rows to its own manifest and images of its own.
LEMMA Effects ==
    ASSUME IInv, WorkersSound, NEW w \in Workers, WorkerStep(w) \/ Die(w) \/ Crash(w)
    PROVE  /\ \A f : f # FileBy(w) => Rows(f)' = Rows(f)
           /\ \A f : Rows(f) \subseteq Rows(f)'
           /\ \A i \in Exist' \ Exist : i \in SaveFrom(w)
  <1>1. CASE ReplaceManifest(w)
    <2>1. proc[w].rows = Rows(FileBy(w))
      BY <1>1 DEF WorkersSound, WorkerSound, HoldsOwn, ReplaceManifest
    <2>2. manifest' = Put(manifest, FileBy(w), Upserted(w)) /\ UNCHANGED png
      BY <1>1 DEF ReplaceManifest
    <2>3. Rows(FileBy(w)) \subseteq Upserted(w)
      BY <2>1 DEF Upserted
    <2> QED
      BY <2>2, <2>3 DEF Rows, Put, Exist
  <1>2. CASE OpenPng(w) \/ ClosePng(w)
    BY <1>2 DEF OpenPng, ClosePng, Rows, Exist
  <1>3. CASE ~ReplaceManifest(w) /\ ~OpenPng(w) /\ ~ClosePng(w)
    <2>1. UNCHANGED <<png, manifest>>
      BY <1>3 DEF outputs, WorkerStep, Reconcile, NextBatch, FinishBatches, ReadManifest,
                  WriteReport, Die, Crash
    <2> QED
      BY <2>1 DEF Rows, Exist
  <1> QED
    BY <1>1, <1>2, <1>3

\* The other workers hold what they held.
LEMMA OthersSound ==
    ASSUME IInv, Orderly, WorkersSound, NEW w \in Workers, WorkerStep(w) \/ Die(w) \/ Crash(w),
           NEW v \in Workers, v # w, proc[v].at # "absent"
    PROVE  WorkerSound(v)'
  <1>1. /\ w \in Alive /\ proc'[v] = proc[v] /\ runs' = runs
        /\ WorkerSound(v) /\ WorkerSound(w)
    BY MovesAlone DEF WorkersSound, Alive, Exited
  <1>2. PICK F, M, l : F = FileBy(v) /\ M = MineOf(v) /\ l = LaunchOf(v)
    OBVIOUS
  <1>3. FileBy(v)' = F /\ MineOf(v)' = M /\ LaunchOf(v)' = l /\ SaveFrom(v)' = SaveFrom(v)
    BY <1>1, <1>2 DEF FileBy, MineOf, LaunchOf, SaveFrom
  <1>4. Rows(F) \subseteq Rows(F)' /\ Rows(FileBy(v))' = Rows(F)' /\ Rows(FileBy(v)) = Rows(F)
    BY <1>2, <1>3, Effects DEF Rows
  <1>5. ASSUME proc[v].at \in Generating
        PROVE  /\ Rows(F)' = Rows(F)
               /\ \A i \in Exist' \ Exist : i \notin M
    <2>1. v[1] = w[1] /\ proc[w].at # "absent"
      BY <1>1, <1>5 DEF Generating, Orderly, Attended, Alive, Exited
    <2>2. F # FileBy(w) /\ M \cap MineOf(w) = {}
      BY <1>2, <2>1, Peers
    <2>3. SaveFrom(w) \subseteq MineOf(w)
      BY <1>1, FirstOfSubset DEF SaveFrom, WorkerSound, HoldsOwn
    <2> QED
      BY <2>2, <2>3, Effects
  <1>6. HoldsOwn(v)'
    BY <1>1, <1>2, <1>3, <1>4, <1>5 DEF WorkerSound, HoldsOwn, Generating
  <1>7. SkipsExisting(v)'
    <2>1. proc[v].todo \subseteq M /\ proc[v].batch \subseteq M
      BY <1>1, <1>2 DEF WorkerSound, HoldsOwn
    <2>2. SkipsExisting(v)
      BY <1>1 DEF WorkerSound
    <2>3. "save" \in Generating /\ "write" \in Generating
      BY DEF Generating
    <2>4. proc[v].at \in Generating => \A i \in M : i \in Exist' => i \in Exist
      BY <1>5
    <2> QED
      BY <1>1, <1>2, <1>3, <2>1, <2>2, <2>3, <2>4 DEF SkipsExisting
  <1>8. LosesNone(v)'
    BY <1>1, <1>2, <1>3, <1>4 DEF WorkerSound, LosesNone
  <1> QED
    BY <1>6, <1>7, <1>8 DEF WorkerSound

\* What the worker itself holds after its step.
LEMMA SelfSound ==
    ASSUME IInv, Orderly, WorkersSound, NEW w \in Workers, WorkerStep(w) \/ Die(w) \/ Crash(w)
    PROVE  WorkerSound(w)'
  <1>1. /\ w \in Alive /\ runs' = runs /\ WorkerSound(w)
        /\ proc \in [Workers -> WorkerStates] /\ proc[w] \in WorkerStates
    BY MovesAlone DEF WorkersSound, Alive, Exited, IInv, TypeOK
  <1>2. PICK F, M, l : F = FileBy(w) /\ M = MineOf(w) /\ l = LaunchOf(w)
    OBVIOUS
  <1>3. PICK p : p = proc[w]
    OBVIOUS
  <1>4. PICK r : r = proc'[w]
    OBVIOUS
  <1>5. FileBy(w)' = F /\ MineOf(w)' = M /\ LaunchOf(w)' = l
    BY <1>1, <1>2 DEF FileBy, MineOf, LaunchOf
  <1>6. PICK R, Q : R = Rows(F) /\ Q = Rows(F)'
    OBVIOUS
  <1>7. Rows(FileBy(w))' = Q /\ Rows(FileBy(w)) = R
    BY <1>2, <1>5, <1>6 DEF Rows
  <1>8. PICK E, G : E = Exist /\ G = Exist'
    OBVIOUS
  <1>9. PICK S, T : S = SaveFrom(w) /\ T = FirstOf(r.batch \ r.saved, 1)
    OBVIOUS
  <1>10. /\ p.todo \subseteq M /\ p.batch \subseteq M
         /\ p.at \in {"save", "write"} => p.todo \cap p.batch = {}
         /\ p.at = "replace" => p.rows = R
    BY <1>1, <1>2, <1>3, <1>7 DEF WorkerSound, HoldsOwn
  <1>11. l.resume =>
           /\ p.at \in Generating => p.todo \cap E = {}
           /\ p.at = "save" => (p.batch \ p.saved) \cap E = {}
           /\ p.at = "write" => (p.batch \ (p.saved \cup S)) \cap E = {}
    BY <1>1, <1>2, <1>3, <1>8, <1>9 DEF WorkerSound, SkipsExisting
  <1>12. /\ p.at = "next" => M \subseteq p.todo \cup R
         /\ p.at \in Generating => M \subseteq p.todo \cup p.batch \cup R
         /\ p.at \in Kinds \cup {"ok"} => M \subseteq R
    BY <1>1, <1>2, <1>3, <1>7 DEF WorkerSound, LosesNone
  <1>13. S \subseteq p.batch
    BY <1>3, <1>9, FirstOfSubset DEF SaveFrom
  <1>14. UNCHANGED manifest => Q = R
    BY <1>6 DEF Rows
  <1>15. UNCHANGED png => G = E
    BY <1>8 DEF Exist
  <1>16. \A x : BecomesWorker(w, x) => r = x
    BY <1>1, <1>4 DEF BecomesWorker
  <1>17. SUFFICES
           /\ r.todo \subseteq M /\ r.batch \subseteq M
           /\ r.at \in {"save", "write"} => r.todo \cap r.batch = {}
           /\ r.at = "replace" => r.rows = Q
           /\ l.resume =>
                /\ r.at \in Generating => r.todo \cap G = {}
                /\ r.at = "save" => (r.batch \ r.saved) \cap G = {}
                /\ r.at = "write" => (r.batch \ (r.saved \cup T)) \cap G = {}
           /\ r.at = "next" => M \subseteq r.todo \cup Q
           /\ r.at \in Generating => M \subseteq r.todo \cup r.batch \cup Q
           /\ r.at \in Kinds \cup {"ok"} => M \subseteq Q
    <2>1. SaveFrom(w)' = T
      BY <1>4, <1>9 DEF SaveFrom
    <2> QED
      BY <2>1, <1>4, <1>5, <1>7, <1>8 DEF WorkerSound, HoldsOwn, SkipsExisting, LosesNone
  <1> USE DEF Generating, Kinds
  <1>a. CASE Reconcile(w)
    <2> DEFINE todo == Todo(LaunchOf(w), IndicesOf(LaunchOf(w), w[2]))
               found == (IndicesOf(LaunchOf(w), w[2]) \ todo) \ Rows(FileBy(w))
    <2>1. PICK t, b : t = todo /\ b = found
      OBVIOUS
    <2>2. r = [at |-> IF b = {} THEN "next" ELSE "read", todo |-> t,
               batch |-> b, saved |-> b, rows |-> {}]
      BY <1>a, <1>16, <2>1 DEF Reconcile
    <2>3. t \subseteq M /\ b = (M \ t) \ R /\ (l.resume => t \cap E = {})
      BY <2>1, <1>2, <1>7, <1>8, IndicesInAll DEF Todo, MineOf, Exist
    <2>4. G = E /\ Q = R
      BY <1>a, <1>14, <1>15 DEF Reconcile, outputs
    <2> QED
      BY <2>2, <2>3, <2>4
  <1>b. CASE NextBatch(w)
    <2>1. PICK b : b = FirstOf(p.todo, BatchSize)
      OBVIOUS
    <2>2. r = [at |-> "save", todo |-> p.todo \ b, batch |-> b, saved |-> {}, rows |-> {}]
      BY <1>b, <1>3, <1>16, <2>1 DEF NextBatch
    <2>3. b \subseteq p.todo
      BY <2>1, FirstOfSubset
    <2>4. G = E /\ Q = R /\ p.at = "next"
      BY <1>b, <1>3, <1>14, <1>15 DEF NextBatch, outputs
    <2> QED
      BY <2>2, <2>3, <2>4, <1>10, <1>11, <1>12
  <1>c. CASE FinishBatches(w)
    <2>1. r = [at |-> "latency", todo |-> {}, batch |-> {}, saved |-> {}, rows |-> {}]
      BY <1>c, <1>16 DEF FinishBatches, Worker
    <2>2. Q = R /\ p.at = "next" /\ p.todo = {}
      BY <1>c, <1>3, <1>14 DEF FinishBatches, outputs
    <2> QED
      BY <2>1, <2>2, <1>12
  <1>d. CASE OpenPng(w)
    <2>1. /\ r.at = "write" /\ r.todo = p.todo /\ r.batch = p.batch /\ r.saved = p.saved
      BY <1>d, <1>1, <1>3, <1>16 DEF OpenPng, WorkerStates
    <2>2. p.at = "save" /\ Q = R
      BY <1>d, <1>3, <1>14 DEF OpenPng
    <2>3. G \subseteq E \cup S
      BY <1>d, <1>8, <1>9 DEF OpenPng, Exist
    <2>4. T = S
      BY <2>1, <1>3, <1>9 DEF SaveFrom
    <2> QED
      BY <2>1, <2>2, <2>3, <2>4, <1>10, <1>11, <1>12, <1>13
  <1>e. CASE ClosePng(w)
    <2>1. r = [at |-> AfterPng(p.saved \cup S, p.batch), todo |-> p.todo,
               batch |-> p.batch, saved |-> p.saved \cup S, rows |-> {}]
      BY <1>e, <1>3, <1>9, <1>16 DEF ClosePng
    <2>2. p.at = "write" /\ Q = R
      BY <1>e, <1>3, <1>14 DEF ClosePng
    <2>3. G \subseteq E \cup S
      BY <1>e, <1>8, <1>9 DEF ClosePng, Exist
    <2>4. r.at \in {"read", "save"}
      BY <2>1 DEF AfterPng
    <2> QED
      BY <2>1, <2>2, <2>3, <2>4, <1>10, <1>11, <1>12, <1>13
  <1>f. CASE ReadManifest(w)
    <2>1. r = [at |-> "replace", todo |-> p.todo, batch |-> p.batch, saved |-> p.saved, rows |-> R]
      BY <1>f, <1>3, <1>7, <1>16 DEF ReadManifest
    <2>2. G = E /\ Q = R /\ p.at = "read"
      BY <1>f, <1>3, <1>14, <1>15 DEF ReadManifest, outputs
    <2> QED
      BY <2>1, <2>2, <1>10, <1>11, <1>12
  <1>g. CASE ReplaceManifest(w)
    <2>1. r = [at |-> "next", todo |-> p.todo, batch |-> {}, saved |-> {}, rows |-> {}]
      BY <1>g, <1>3, <1>16 DEF ReplaceManifest
    <2>2. G = E /\ p.at = "replace"
      BY <1>g, <1>3, <1>15 DEF ReplaceManifest
    <2>3. Q = p.rows \cup p.batch
      BY <1>g, <1>2, <1>3, <1>6 DEF ReplaceManifest, Put, Rows, Upserted
    <2> QED
      BY <2>1, <2>2, <2>3, <1>10, <1>11, <1>12
  <1>h. CASE WriteReport(w)
    <2>1. r = [at |-> After[p.at], todo |-> {}, batch |-> {}, saved |-> {}, rows |-> {}]
      BY <1>h, <1>3, <1>16 DEF WriteReport, Worker
    <2>2. Q = R /\ p.at \in Kinds
      BY <1>h, <1>3, <1>14 DEF WriteReport
    <2>3. After[p.at] \in {"cache_stats", "generation_meta", "ok"}
      BY <2>2 DEF After
    <2> QED
      BY <2>1, <2>2, <2>3, <1>12
  <1>i. CASE Die(w) \/ Crash(w)
    <2>1. r = [at |-> "failed", todo |-> {}, batch |-> {}, saved |-> {}, rows |-> {}]
      BY <1>i, <1>16 DEF Die, Crash, Worker
    <2> QED
      BY <2>1
  <1> QED
    BY <1>a, <1>b, <1>c, <1>d, <1>e, <1>f, <1>g, <1>h, <1>i DEF WorkerStep

\* A step of the launcher takes no file away from the workers.
LEMMA LauncherKeepsSound ==
    ASSUME IInv, Orderly, WorkersSound, PublishesAll,
           \/ LauncherStep \/ Interrupt \/ LauncherDies \/ MergeTimeout
           \/ \E l \in Launches : LaunchAgain(l)
    PROVE  WorkersSound'
  <1> SUFFICES ASSUME NEW w \in Workers, proc'[w].at # "absent" PROVE WorkerSound(w)'
    BY DEF WorkersSound
  <1>1. UNCHANGED png
    BY LauncherMoves
  <1>2. Exist' = Exist
    BY <1>1 DEF Exist
  <1>3. CASE proc'[w] = proc[w]
    <2>1. proc[w].at # "absent" /\ WorkerSound(w) /\ w[1] \in 1 .. Len(runs)
      BY <1>3 DEF WorkersSound, IInv, KnownWorkers
    <2>2. runs'[w[1]] = runs[w[1]]
      <3>1. runs \in Seq(Launches)
        BY DEF IInv, TypeOK
      <3>2. runs' = runs \/ \E l \in Launches : runs' = Append(runs, l)
        BY DEF LaunchAgain, LauncherStep, Spawn, PollFailure, Collect, StopDone, MergeAccepts,
               MergeRefuses, Publish, Interrupt, LauncherDies, MergeTimeout
      <3> QED
        BY <2>1, <3>1, <3>2
    <2>3. FileBy(w)' = FileBy(w) /\ MineOf(w)' = MineOf(w) /\ LaunchOf(w)' = LaunchOf(w)
      BY <2>2 DEF FileBy, MineOf, LaunchOf
    <2>4. SaveFrom(w)' = SaveFrom(w)
      BY <1>3 DEF SaveFrom
    <2>5. CASE Publish
      <3>1. manifest' = Put(manifest, Merged, All)
        BY <2>5 DEF Publish, PublishesAll
      <3>2. proc[w].at \in Exited
        BY <2>5 DEF Publish, Orderly, Attended, Alive
      <3>3. MineOf(w) \subseteq Rows(FileBy(w)) => MineOf(w) \subseteq Rows(FileBy(w))'
        BY <2>3, <3>1, IndicesInAll DEF Rows, Put, MineOf
      <3>4. HoldsOwn(w)' /\ SkipsExisting(w)'
        BY <1>3, <2>1, <2>3, <3>2 DEF WorkerSound, HoldsOwn, SkipsExisting, Exited, Generating
      <3>5. LosesNone(w)'
        BY <1>3, <2>1, <2>3, <3>2, <3>3 DEF WorkerSound, LosesNone, Exited, Generating, Kinds
      <3> QED
        BY <3>4, <3>5 DEF WorkerSound
    <2>6. CASE ~Publish
      <3>1. UNCHANGED manifest
        BY <2>6 DEF LaunchAgain, LauncherStep, Spawn, PollFailure, Collect, StopDone, MergeAccepts,
               MergeRefuses, Interrupt, LauncherDies, MergeTimeout, outputs
      <3>2. Rows(FileBy(w))' = Rows(FileBy(w))
        BY <2>3, <3>1 DEF Rows
      <3> QED
        BY <1>2, <1>3, <2>1, <2>3, <2>4, <3>2
        DEF WorkerSound, HoldsOwn, SkipsExisting, LosesNone
    <2> QED
      BY <2>5, <2>6
  <1>4. CASE proc'[w] # proc[w]
    <2>1. Spawn
      BY <1>4 DEF LaunchAgain, LauncherStep, PollFailure, Collect, StopDone, MergeAccepts,
             MergeRefuses, Publish, Interrupt, LauncherDies, MergeTimeout
    <2>2. proc'[w] = Worker("start")
      BY <1>4, <2>1 DEF Spawn, BecomesWorker, IInv, TypeOK
    <2>3. proc'[w] = [at |-> "start", todo |-> {}, batch |-> {}, saved |-> {}, rows |-> {}]
      BY <2>2 DEF Worker
    <2> QED
      BY <2>3 DEF WorkerSound, HoldsOwn, SkipsExisting, LosesNone, Generating, Kinds
  <1> QED
    BY <1>3, <1>4

\* Every worker holds only its own and loses none, always.
LEMMA WorkersSoundInv ==
    ASSUME ~OrphansPossible
    PROVE  Spec => []WorkersSound
  <1>1. Init => WorkersSound
    BY DEF Init, WorkersSound, Worker
  <1>2. IInv /\ Orderly /\ PublishesAll /\ WorkersSound /\ [Next]_vars => WorkersSound'
    <2> SUFFICES ASSUME IInv, Orderly, PublishesAll, WorkersSound, [Next]_vars PROVE WorkersSound'
      OBVIOUS
    <2>1. ASSUME NEW w \in Workers, WorkerStep(w) \/ Die(w) \/ Crash(w)
          PROVE  WorkersSound'
      <3> SUFFICES ASSUME NEW v \in Workers, proc'[v].at # "absent" PROVE WorkerSound(v)'
        BY DEF WorkersSound
      <3>1. CASE v = w
        BY <2>1, <3>1, SelfSound
      <3>2. CASE v # w
        <4>1. proc[v].at # "absent"
          BY <2>1, <3>2, MovesAlone
        <4> QED
          BY <2>1, <3>2, <4>1, OthersSound
      <3> QED
        BY <3>1, <3>2
    <2>2. CASE \/ LauncherStep \/ Interrupt \/ LauncherDies \/ MergeTimeout
               \/ \E l \in Launches : LaunchAgain(l)
      BY <2>2, LauncherKeepsSound
    <2>3. CASE UNCHANGED vars
      BY <2>3 DEF vars, outputs, WorkersSound, WorkerSound, HoldsOwn, SkipsExisting, LosesNone,
                  MineOf, FileBy, LaunchOf, Rows, Exist, SaveFrom
    <2> QED
      BY <2>1, <2>2, <2>3 DEF Next
  <1> QED
    BY <1>1, <1>2, Invariance, OrderlyInv, PublishesAllInv, PTL DEF Spec

\* A launch with --resume never opens a complete image again, whatever was
\* interrupted before, unless a launcher died and left workers running.
THEOREM ResumeNeverRewrites ==
    ASSUME ~OrphansPossible
    PROVE  Spec => ResumeKeepsWhole
  <1>1. IInv /\ Orderly /\ WorkersSound /\ [Next]_vars => [WholeKeptStep]_vars
    <2> SUFFICES ASSUME IInv, Orderly, WorkersSound, [Next]_vars,
                        NEW i \in All, png[i] = "whole", png'[i] # "whole"
                 PROVE  ~This.resume
      BY DEF WholeKeptStep
    <2>1. PICK w \in Workers : OpenPng(w)
      <3>1. png \in [All -> {"none", "torn", "whole"}]
        BY DEF IInv, TypeOK
      <3>2. \A v \in Workers : ~ClosePng(v)
        BY <3>1 DEF ClosePng
      <3>3. png' # png
        OBVIOUS
      <3>4. PICK w \in Workers : WorkerStep(w) \/ Die(w) \/ Crash(w)
        BY <3>3, LauncherMoves DEF Next, vars, outputs
      <3>5. OpenPng(w)
        BY <3>2, <3>3, <3>4 DEF outputs, WorkerStep, Reconcile, NextBatch, FinishBatches,
             ReadManifest, ReplaceManifest, WriteReport, Die, Crash
      <3> QED
        BY <3>5
    <2>2. i \in SaveFrom(w) /\ proc[w].at = "save" /\ i \in Exist
      BY <2>1 DEF OpenPng, Exist
    <2>3. w \in Alive /\ WorkerSound(w) /\ LaunchOf(w) = This
      BY <2>2 DEF Alive, Exited, Orderly, Attended, WorkersSound, LaunchOf, This
    <2>4. i \in proc[w].batch \ proc[w].saved
      BY <2>2, FirstOfSubset DEF SaveFrom
    <2> QED
      BY <2>2, <2>3, <2>4 DEF WorkerSound, SkipsExisting
  <1> QED
    BY <1>1, Invariance, OrderlyInv, WorkersSoundInv, PTL DEF Spec, ResumeKeepsWhole

-----------------------------------------------------------------------------
(* Reports of the last launch *)

\* A worker writes its reports one by one, under its own names.
LEMMA WorkerKeepsReports ==
    ASSUME IInv, Orderly, ReportsFresh, NEW w \in Workers, WorkerStep(w) \/ Die(w) \/ Crash(w)
    PROVE  ReportsFresh'
  <1>1. /\ w \in Alive /\ runs' = runs
        /\ \A v \in Workers : v # w => proc'[v] = proc[v]
    BY MovesAlone
  <1>2. w[1] = Current /\ proc[w].at # "absent"
    BY <1>1 DEF Orderly, Attended, Alive, Exited
  <1>3. Current' = Current /\ \A v \in Workers : FileBy(v)' = FileBy(v)
    BY <1>1 DEF Current, FileBy, LaunchOf
  <1>4. SUFFICES ASSUME NEW v \in Workers, v[1] = Current, NEW kind \in Kinds,
                        Reported(proc'[v].at, kind)
                 PROVE  <<FileBy(v), kind>> \in DOMAIN reports' /\ reports'[<<FileBy(v), kind>>] = Current
    BY <1>3 DEF ReportsFresh
  <1>5. Reported(proc[v].at, kind) =>
          <<FileBy(v), kind>> \in DOMAIN reports /\ reports[<<FileBy(v), kind>>] = Current
    BY <1>4 DEF ReportsFresh
  <1>6. CASE WriteReport(w)
    <2>1. reports' = Put(reports, <<FileBy(w), proc[w].at>>, Current) /\ proc[w].at \in Kinds
      BY <1>2, <1>6 DEF WriteReport
    <2>2. CASE v = w
      <3>1. proc'[w].at = After[proc[w].at]
        BY <1>6 DEF WriteReport, BecomesWorker, Worker, IInv, TypeOK
      <3>2. kind = proc[w].at \/ Reported(proc[w].at, kind)
        BY <1>4, <2>1, <2>2, <3>1 DEF After, Kinds, Reported
      <3> QED
        BY <1>5, <2>1, <2>2, <3>2 DEF Put
    <2>3. CASE v # w
      <3>1. Reported(proc[v].at, kind) /\ proc[v].at # "absent"
        BY <1>1, <1>4, <2>3 DEF Reported
      <3>2. FileBy(v) # FileBy(w)
        BY <1>2, <1>4, <2>3, <3>1, Peers
      <3> QED
        BY <1>5, <2>1, <3>1, <3>2 DEF Put
    <2> QED
      BY <2>2, <2>3
  <1>7. CASE ~WriteReport(w)
    <2>1. UNCHANGED reports
      BY <1>7 DEF outputs, WorkerStep, Reconcile, NextBatch, FinishBatches, OpenPng, ClosePng,
                  ReadManifest, ReplaceManifest, Die, Crash
    <2>2. CASE v = w
      <3>1. proc[w] \in WorkerStates /\ \A x : BecomesWorker(w, x) => proc'[w] = x
        BY DEF BecomesWorker, IInv, TypeOK
      <3>2. CASE OpenPng(w)
        <4>1. proc'[w].at = "write"
          BY <3>1, <3>2 DEF OpenPng, WorkerStates
        <4> QED
          BY <1>4, <2>2, <4>1 DEF Reported
      <3>3. CASE Reconcile(w)
        <4>1. proc'[w].at \in {"next", "read"}
          BY <3>1, <3>3 DEF Reconcile
        <4> QED
          BY <1>4, <2>2, <4>1 DEF Reported
      <3>4. CASE NextBatch(w) \/ ClosePng(w)
        <4>1. proc'[w].at \in {"save", "read"}
          BY <3>1, <3>4 DEF NextBatch, ClosePng, AfterPng
        <4> QED
          BY <1>4, <2>2, <4>1 DEF Reported
      <3>5. CASE ReadManifest(w) \/ ReplaceManifest(w)
        <4>1. proc'[w].at \in {"replace", "next"}
          BY <3>1, <3>5 DEF ReadManifest, ReplaceManifest
        <4> QED
          BY <1>4, <2>2, <4>1 DEF Reported
      <3>6. CASE FinishBatches(w) \/ Die(w) \/ Crash(w)
        <4>1. proc'[w].at \in {"latency", "failed"}
          BY <3>1, <3>6 DEF FinishBatches, Die, Crash, Worker
        <4> QED
          BY <1>4, <2>2, <4>1 DEF Reported
      <3> QED
        BY <1>7, <3>2, <3>3, <3>4, <3>5, <3>6 DEF WorkerStep
    <2>3. CASE v # w
      BY <1>1, <1>4, <1>5, <2>1, <2>3
    <2> QED
      BY <2>2, <2>3
  <1> QED
    BY <1>6, <1>7

\* Publishing and launching again keep the reports of the last launch.
LEMMA LauncherKeepsReports ==
    ASSUME IInv, ReportsFresh,
           \/ LauncherStep \/ Interrupt \/ LauncherDies \/ MergeTimeout
           \/ \E l \in Launches : LaunchAgain(l)
    PROVE  ReportsFresh'
  <1>1. CASE \E l \in Launches : LaunchAgain(l)
    <2>1. PICK l \in Launches : LaunchAgain(l)
      BY <1>1
    <2>2. runs \in Seq(Launches) /\ runs' = Append(runs, l) /\ UNCHANGED proc
      BY <2>1 DEF LaunchAgain, IInv, TypeOK
    <2>3. Current \in Nat /\ Current' = Current + 1
      BY <2>2 DEF Current
    <2>4. \A w \in Workers : w[1] = Current + 1 => proc[w].at = "absent"
      BY <2>3 DEF IInv, KnownWorkers, Current
    <2> QED
      BY <2>2, <2>3, <2>4 DEF ReportsFresh, Reported
  <1>2. CASE \/ LauncherStep \/ Interrupt \/ LauncherDies \/ MergeTimeout
    <2>1. runs' = runs
      BY <1>2 DEF LauncherStep, Spawn, PollFailure, Collect, StopDone, MergeAccepts, MergeRefuses,
                  Publish, Interrupt, LauncherDies, MergeTimeout
    <2>2. Current' = Current /\ \A v \in Workers : FileBy(v)' = FileBy(v)
      BY <2>1 DEF Current, FileBy, LaunchOf
    <2>3. SUFFICES ASSUME NEW v \in Workers, v[1] = Current, NEW kind \in Kinds,
                          Reported(proc'[v].at, kind)
                   PROVE  /\ <<FileBy(v), kind>> \in DOMAIN reports'
                          /\ reports'[<<FileBy(v), kind>>] = Current
      BY <2>2 DEF ReportsFresh
    <2>4. Reported(proc[v].at, kind)
      <3>1. CASE Spawn
        <4>1. proc'[v] = proc[v] \/ proc'[v] = Worker("start")
          BY <3>1 DEF Spawn, BecomesWorker, IInv, TypeOK
        <4> QED
          BY <2>3, <4>1 DEF Worker, Reported
      <3>2. CASE ~Spawn
        <4>1. UNCHANGED proc
          BY <1>2, <3>2 DEF LauncherStep, PollFailure, Collect, StopDone, MergeAccepts, MergeRefuses,
                  Publish, Interrupt, LauncherDies, MergeTimeout
        <4> QED
          BY <2>3, <4>1
      <3> QED
        BY <3>1, <3>2
    <2>5. <<FileBy(v), kind>> \in DOMAIN reports /\ reports[<<FileBy(v), kind>>] = Current
      BY <2>3, <2>4 DEF ReportsFresh
    <2>6. CASE Publish
      BY <2>5, <2>6 DEF Publish
    <2>7. CASE ~Publish
      <3>1. UNCHANGED reports
        BY <1>2, <2>7 DEF LauncherStep, Spawn, PollFailure, Collect, StopDone, MergeAccepts,
                  MergeRefuses, Interrupt, LauncherDies, MergeTimeout, outputs
      <3> QED
        BY <2>5, <3>1
    <2> QED
      BY <2>6, <2>7
  <1> QED
    BY <1>1, <1>2

\* The reports that the last launch has written are its own, always.
LEMMA ReportsFreshInv ==
    ASSUME ~OrphansPossible
    PROVE  Spec => []ReportsFresh
  <1>1. Init => ReportsFresh
    BY DEF Init, ReportsFresh, Reported, Worker
  <1>2. IInv /\ Orderly /\ ReportsFresh /\ [Next]_vars => ReportsFresh'
    <2> SUFFICES ASSUME IInv, Orderly, ReportsFresh, [Next]_vars PROVE ReportsFresh'
      OBVIOUS
    <2>1. CASE \E w \in Workers : WorkerStep(w) \/ Die(w) \/ Crash(w)
      BY <2>1, WorkerKeepsReports
    <2>2. CASE \/ LauncherStep \/ Interrupt \/ LauncherDies \/ MergeTimeout
               \/ \E l \in Launches : LaunchAgain(l)
      BY <2>2, LauncherKeepsReports
    <2>3. CASE UNCHANGED vars
      BY <2>3 DEF vars, outputs, ReportsFresh, Current, FileBy, LaunchOf
    <2> QED
      BY <2>1, <2>2, <2>3 DEF Next
  <1> QED
    BY <1>1, <1>2, Invariance, OrderlyInv, PTL DEF Spec

\* The workers of the last launch, when it has several shards, are one for each
\* shard file.
LEMMA WorkerOfFile ==
    ASSUME IInv, Current \in 1 .. MaxLaunches, This.shards > 1, NEW f \in ShardFiles
    PROVE  <<Current, f>> \in Mine /\ FileBy(<<Current, f>>) = f
  <1>1. runs \in Seq(Launches) /\ This \in Launches
    BY DEF IInv, TypeOK, This, Current
  <1>2. This.shards \in 1 .. MaxShards /\ f \in 0 .. This.shards - 1
    BY <1>1, RunAssumption DEF ShardFiles, Shards
  <1>3. f \in Shards(MaxShards) /\ f < This.shards
    BY <1>2, RunAssumption DEF Shards
  <1> QED
    BY <1>2, <1>3 DEF Mine, Workers, FileBy, FileOf, LaunchOf, This

\* What a launch of several shards publishes is its own: all its workers ended
\* well and wrote the reports that are merged.
THEOREM MergesItsOwn ==
    ASSUME ~OrphansPossible
    PROVE  Spec => [](This.shards > 1 => MergedIsFresh)
  <1>1. IInv /\ Orderly /\ ReportsFresh => (This.shards > 1 => MergedIsFresh)
    <2> SUFFICES ASSUME IInv, Orderly, ReportsFresh, This.shards > 1, launcher.result = "merged"
                 PROVE  /\ \A w \in Mine : proc[w].at = "ok"
                        /\ \A f \in ShardFiles, kind \in Kinds : reports[<<f, kind>>] = Current
      BY DEF MergedIsFresh
    <2>1. \A w \in Mine : proc[w].at = "ok"
      BY DEF Orderly, Ended
    <2>2. ASSUME NEW f \in ShardFiles, NEW kind \in Kinds PROVE reports[<<f, kind>>] = Current
      <3>1. Current \in 1 .. MaxLaunches
        BY DEF Orderly, Ended, Current
      <3>2. <<Current, f>> \in Mine /\ FileBy(<<Current, f>>) = f
        BY <3>1, WorkerOfFile
      <3>3. PICK w \in Mine : w = <<Current, f>>
        BY <3>2
      <3>4. w \in Workers /\ w[1] = Current /\ Reported(proc[w].at, kind) /\ FileBy(w) = f
        BY <2>1, <3>2, <3>3 DEF Mine, Reported
      <3> QED
        BY <3>4 DEF ReportsFresh
    <2> QED
      BY <2>1, <2>2
  <1> QED
    BY <1>1, Invariance, OrderlyInv, ReportsFreshInv, PTL

-----------------------------------------------------------------------------
(* The merged manifest *)

\* Once merged, the manifest is left alone until the next launch.
PublishedStays == launcher.result = "merged" => Rows(Merged) = All

\* A worker writes its own manifest, which is the merged one for a launch of a
\* single shard only, and while it runs a launcher that waits reports nothing.
LEMMA WorkerKeepsMerged ==
    ASSUME IInv, (~OrphansPossible => Orderly), PublishedStays,
           ~OrphansPossible \/ \A l \in Launches : l.shards > 1,
           NEW w \in Workers, WorkerStep(w) \/ Die(w) \/ Crash(w)
    PROVE  PublishedStays'
  <1>1. w \in Alive /\ proc[w].at # "absent" /\ UNCHANGED launcher
    BY MovesAlone DEF Alive, Exited
  <1>2. CASE ReplaceManifest(w)
    <2>1. CASE launcher.result = "merged"
      <3>1. launcher.at = "returned" => ~Orderly
        BY <1>1 DEF Orderly, Attended
      <3>2. Orderly => launcher.at = "returned"
        BY <2>1 DEF Orderly, Ended
      <3>3. LaunchOf(w).shards > 1 /\ LaunchOf(w) \in Launches
        BY <1>1, <3>1, <3>2, OwnFile
      <3>4. w[2] # Merged
        BY RunAssumption DEF Workers, Shards, Merged
      <3>5. FileBy(w) # Merged
        BY <3>3, <3>4, RunAssumption DEF FileBy, FileOf
      <3>6. Rows(Merged)' = Rows(Merged)
        BY <1>2, <3>5 DEF ReplaceManifest, Put, Rows
      <3> QED
        BY <1>1, <3>6 DEF PublishedStays, All
    <2>2. CASE launcher.result # "merged"
      BY <1>1, <2>2 DEF PublishedStays
    <2> QED
      BY <2>1, <2>2
  <1>3. CASE ~ReplaceManifest(w)
    <2>1. UNCHANGED manifest
      BY <1>3 DEF outputs, WorkerStep, Reconcile, NextBatch, FinishBatches, OpenPng, ClosePng,
                  ReadManifest, WriteReport, Die, Crash
    <2> QED
      BY <1>1, <2>1 DEF PublishedStays, Rows, All
  <1> QED
    BY <1>2, <1>3

\* The launcher reports a run as merged only as it publishes it.
LEMMA LauncherKeepsMerged ==
    ASSUME PublishesAll, PublishedStays,
           \/ LauncherStep \/ Interrupt \/ LauncherDies \/ MergeTimeout
           \/ \E l \in Launches : LaunchAgain(l)
    PROVE  PublishedStays'
  <1>1. CASE Publish
    BY <1>1 DEF Publish, PublishesAll, PublishedStays, Put, Rows, All
  <1>2. CASE ~Publish
    BY <1>2, LauncherMoves DEF PublishedStays
  <1> QED
    BY <1>1, <1>2

\* What a run reports as merged is every index, each with its PNG, until it is
\* launched again: no worker writes the merged manifest, unless it is the
\* orphan of a launch of a single shard.
THEOREM MergedHoldsAll ==
    ASSUME ~OrphansPossible \/ \A l \in Launches : l.shards > 1
    PROVE  Spec => []MergedIsExact
  <1>1. Spec => [](~OrphansPossible => Orderly)
    <2>1. CASE ~OrphansPossible
      <3>1. Spec => []Orderly
        BY <2>1, OrderlyInv
      <3>2. Orderly => (~OrphansPossible => Orderly)
        OBVIOUS
      <3> QED
        BY <3>1, <3>2, PTL
    <2>2. CASE OrphansPossible
      <3>1. ~OrphansPossible => Orderly
        BY <2>2
      <3> QED
        BY <3>1, PTL
    <2> QED
      BY <2>1, <2>2
  <1>2. Init => PublishedStays
    BY DEF Init, PublishedStays
  <1>3. IInv /\ (~OrphansPossible => Orderly) /\ PublishesAll /\ PublishedStays /\ [Next]_vars
          => PublishedStays'
    <2> SUFFICES ASSUME IInv, (~OrphansPossible => Orderly), PublishesAll, PublishedStays,
                        [Next]_vars
                 PROVE  PublishedStays'
      OBVIOUS
    <2>1. CASE \E w \in Workers : WorkerStep(w) \/ Die(w) \/ Crash(w)
      BY <2>1, WorkerKeepsMerged
    <2>2. CASE \/ LauncherStep \/ Interrupt \/ LauncherDies \/ MergeTimeout
               \/ \E l \in Launches : LaunchAgain(l)
      BY <2>2, LauncherKeepsMerged
    <2>3. CASE UNCHANGED vars
      BY <2>3 DEF vars, outputs, PublishedStays, Rows, All
    <2> QED
      BY <2>1, <2>2, <2>3 DEF Next
  <1>4. IInv /\ PublishedStays => MergedIsExact
    BY DEF IInv, RowsHavePngs, PublishedStays, MergedIsExact, Rows
  <1> QED
    BY <1>1, <1>2, <1>3, <1>4, Invariance, PublishesAllInv, PTL DEF Spec

-----------------------------------------------------------------------------
(* The merge accepts *)

\* Every launch deals the images out in the same way, to several workers, none
\* of which is left without an image.
DealtAlike ==
    /\ \A l, m \in Launches : l.shards = m.shards /\ l.mode = m.mode
    /\ \A l \in Launches : 1 < l.shards /\ l.shards <= NumImages

\* With no more shards than images no shard is empty.
LEMMA NoEmptyShard ==
    ASSUME NEW N \in Nat, NEW K \in Nat \ {0}, K <= N, NEW s \in Shards(K), NEW m \in ShardModes
    PROVE  ShardIndices(N, K, s, m) # {}
  <1>1. s \in Nat /\ s < K /\ s \in Images(N)
    BY DEF Shards, Images
  <1>2. CASE m = "strided"
    <2>1. 0 % K = 0
      OBVIOUS
    <2>2. s \in Strided(N, K, s)
      BY <1>1, <2>1 DEF Strided
    <2> QED
      BY <1>2, <2>2 DEF ShardIndices
  <1>3. CASE m # "strided"
    <2> DEFINE B == N \div K
               E == N % K
    <2>1. B \in Nat /\ E \in 0 .. K - 1 /\ N = K * B + E
      BY Division
    <2>2. B >= 1
      <3>1. B = 0 => K * B = 0
        OBVIOUS
      <3> QED
        BY <2>1, <3>1
    <2>3. Start(N, K, K) = K * B + E
      BY <2>1 DEF Start
    <2>4. Start(N, K, s) \in Nat /\ Start(N, K, s) + Length(N, K, s) = Start(N, K, s + 1)
      BY <1>1, BlocksAdjoin DEF Shards
    <2>5. Start(N, K, s + 1) <= Start(N, K, K)
      BY <1>1, BlocksAdjoin DEF Shards
    <2>6. Length(N, K, s) \in Nat /\ Length(N, K, s) >= 1
      BY <2>1, <2>2 DEF Length
    <2> HIDE DEF B, E
    <2>7. Start(N, K, s) \in Contiguous(N, K, s)
      BY <2>1, <2>3, <2>4, <2>5, <2>6 DEF Contiguous, Images
    <2> QED
      BY <1>3, <2>7 DEF ShardIndices
  <1> QED
    BY <1>2, <1>3

\* A shard manifest holds indices of its shard only.
OwnRows == \A l \in Launches : \A s \in Shards(l.shards) : Rows(s) \subseteq IndicesOf(l, s)

\* With the images dealt alike no step puts an index into another shard.
LEMMA NextKeepsOwnRows ==
    ASSUME DealtAlike, IInv, Orderly, WorkersSound, OwnRows, [Next]_vars
    PROVE  OwnRows'
  <1> SUFFICES ASSUME NEW l \in Launches, NEW s \in Shards(l.shards)
               PROVE  Rows(s)' \subseteq IndicesOf(l, s)
    BY DEF OwnRows, IndicesOf
  <1>1. Rows(s) \subseteq IndicesOf(l, s) /\ s # Merged
    BY RunAssumption DEF OwnRows, Shards, Merged
  <1>2. CASE \E w \in Workers : ReplaceManifest(w)
    <2>1. PICK w \in Workers : ReplaceManifest(w)
      BY <1>2
    <2>2. proc[w].at # "absent" /\ WorkerSound(w)
      BY <2>1 DEF ReplaceManifest, WorkersSound
    <2>3. LaunchOf(w) \in Launches
      BY <2>2, OwnFile
    <2>4. FileBy(w) = w[2] /\ MineOf(w) = IndicesOf(l, w[2])
      BY <2>3, RunAssumption DEF DealtAlike, FileBy, FileOf, MineOf, IndicesOf
    <2>5. Upserted(w) \subseteq Rows(w[2]) \cup IndicesOf(l, w[2])
      BY <2>1, <2>2, <2>4 DEF ReplaceManifest, Upserted, WorkerSound, HoldsOwn
    <2> QED
      BY <1>1, <2>1, <2>4, <2>5 DEF ReplaceManifest, Put, Rows
  <1>3. CASE Publish
    BY <1>1, <1>3 DEF Publish, Put, Rows
  <1>4. CASE ~Publish /\ ~ \E w \in Workers : ReplaceManifest(w)
    <2>1. UNCHANGED manifest
      BY <1>4 DEF Next, vars, outputs, WorkerStep, Reconcile, NextBatch, FinishBatches, OpenPng,
             ClosePng, ReadManifest, WriteReport, Die, Crash, LaunchAgain, LauncherStep, Spawn,
             PollFailure, Collect, StopDone, MergeAccepts, MergeRefuses, Interrupt,
             LauncherDies, MergeTimeout
    <2> QED
      BY <1>1, <2>1 DEF Rows
  <1> QED
    BY <1>2, <1>3, <1>4

\* When all workers ended well, what they left passes the strict checks.
LEMMA ChecksPass ==
    ASSUME DealtAlike, IInv, Orderly, WorkersSound, ReportsFresh, OwnRows, launcher.at = "merge"
    PROVE  StrictChecks
  <1>1. /\ Current \in 1 .. MaxLaunches /\ This \in Launches
        /\ \A w \in Mine : w \in Workers /\ w[1] = Current /\ proc[w].at = "ok"
    BY DEF IInv, TypeOK, KnownLaunch, Current, This, Orderly, Ended, Mine
  <1>2. PICK K, m : K = This.shards /\ m = This.mode
    OBVIOUS
  <1>3. K \in Nat \ {0} /\ K > 1 /\ K <= NumImages /\ m \in ShardModes /\ NumImages \in Nat
    BY <1>1, <1>2, RunAssumption DEF DealtAlike
  <1>4. ASSUME NEW f \in ShardFiles
        PROVE  /\ Rows(f) = ShardIndices(NumImages, K, f, m)
               /\ \A kind \in Kinds : <<f, kind>> \in DOMAIN reports
    <2>1. <<Current, f>> \in Mine /\ FileBy(<<Current, f>>) = f
      BY <1>1, <1>2, <1>3, WorkerOfFile
    <2>2. PICK w \in Mine : w = <<Current, f>>
      BY <2>1
    <2>3. w \in Workers /\ w[1] = Current /\ w[2] = f /\ proc[w].at = "ok" /\ FileBy(w) = f
      BY <1>1, <2>1, <2>2
    <2>4. LosesNone(w)
      BY <2>3 DEF WorkersSound, WorkerSound
    <2>5. MineOf(w) \subseteq Rows(f)
      BY <2>3, <2>4 DEF LosesNone
    <2>6. MineOf(w) = ShardIndices(NumImages, K, f, m) /\ f \in Shards(This.shards)
      BY <1>2, <2>3 DEF MineOf, IndicesOf, LaunchOf, This, ShardFiles
    <2>7. Rows(f) \subseteq ShardIndices(NumImages, K, f, m)
      BY <1>1, <1>2, <2>6 DEF OwnRows, IndicesOf
    <2>8. \A kind \in Kinds : Reported(proc[w].at, kind)
      BY <2>3 DEF Reported
    <2> QED
      BY <2>3, <2>5, <2>6, <2>7, <2>8 DEF ReportsFresh
  <1>5. ShardFiles = Shards(K)
    BY <1>2 DEF ShardFiles
  <1>6. ~FilesMissing
    <2> SUFFICES ASSUME NEW f \in ShardFiles PROVE f \in DOMAIN manifest
      BY <1>4 DEF FilesMissing
    <2>1. Rows(f) # {}
      BY <1>3, <1>4, <1>5, NoEmptyShard
    <2> QED
      BY <2>1 DEF Rows
  <1>7. ~Duplicates
    <2> SUFFICES ASSUME NEW f \in ShardFiles, NEW g \in ShardFiles, f # g,
                        NEW i \in Rows(f), i \in Rows(g)
                 PROVE  FALSE
      BY DEF Duplicates
    <2>1. i \in ShardIndices(NumImages, K, f, m) /\ i \in ShardIndices(NumImages, K, g, m)
      BY <1>4
    <2>2. i \in Images(NumImages)
      BY <2>1 DEF ShardIndices, Strided, Contiguous
    <2>3. PICK s \in Shards(K) : \A t \in Shards(K) :
            i \in ShardIndices(NumImages, K, t, m) <=> t = s
      BY <1>3, <2>2, DealtOnce
    <2> QED
      BY <1>5, <2>1, <2>3
  <1>8. MergedRows = All
    <2>1. ASSUME NEW i \in All PROVE i \in MergedRows
      <3>1. i \in Images(NumImages)
        BY DEF All
      <3>2. PICK s \in Shards(K) : \A t \in Shards(K) :
              i \in ShardIndices(NumImages, K, t, m) <=> t = s
        BY <1>3, <3>1, DealtOnce
      <3> QED
        BY <1>4, <1>5, <3>2 DEF MergedRows
    <2>2. \A f \in ShardFiles : Rows(f) \subseteq All
      BY <1>4 DEF ShardIndices, Strided, Contiguous, All
    <2> QED
      BY <2>1, <2>2 DEF MergedRows
  <1>9. \A i \in All : png[i] # "none"
    <2> SUFFICES ASSUME NEW i \in All PROVE png[i] # "none"
      OBVIOUS
    <2>1. PICK f \in ShardFiles : i \in Rows(f)
      BY <1>8 DEF MergedRows
    <2> QED
      BY <2>1 DEF IInv, RowsHavePngs, Rows
  <1> QED
    BY <1>6, <1>7, <1>8, <1>9 DEF StrictChecks

\* After any number of crashes, interrupts and relaunches, with --resume or
\* not: when all workers of a launch have returned 0 the strict merge accepts
\* what is on disk, if every launch of the run deals the images out alike.
THEOREM MergeAccepted ==
    ASSUME ~OrphansPossible, DealtAlike
    PROVE  Spec => []MergeNeverRefused
  <1>1. Init => OwnRows /\ MergeNeverRefused
    BY DEF Init, OwnRows, MergeNeverRefused, Rows, NoFiles
  <1>2. IInv /\ Orderly /\ WorkersSound /\ OwnRows /\ [Next]_vars => OwnRows'
    BY NextKeepsOwnRows
  <1>3. IInv /\ Orderly /\ WorkersSound /\ ReportsFresh /\ OwnRows /\ MergeNeverRefused
          /\ [Next]_vars => MergeNeverRefused'
    <2> SUFFICES ASSUME IInv, Orderly, WorkersSound, ReportsFresh, OwnRows, MergeNeverRefused,
                        [Next]_vars
                 PROVE  MergeNeverRefused'
      OBVIOUS
    <2>1. ~MergeRefuses
      BY ChecksPass DEF MergeRefuses
    <2>2. CASE UNCHANGED launcher
      BY <2>2 DEF MergeNeverRefused
    <2>3. CASE \/ LauncherStep \/ Interrupt \/ LauncherDies \/ MergeTimeout
               \/ \E l \in Launches : LaunchAgain(l)
      BY <2>1, <2>3 DEF LauncherStep, Spawn, PollFailure, Collect, StopDone, MergeAccepts, Publish,
             Interrupt, LauncherDies, MergeTimeout, LaunchAgain, BecomesLauncher, Launcher,
             MergeNeverRefused
    <2> QED
      BY <2>2, <2>3, WorkersQuiet DEF Next, vars
  <1> QED
    BY <1>1, <1>2, <1>3, Invariance, OrderlyInv, WorkersSoundInv, ReportsFreshInv, PTL DEF Spec

=============================================================================
