------------------------ MODULE PixarcSamples_proofs ------------------------
(***************************************************************************)
(* The run directory of a PixARC measurement, for every number of images,   *)
(* configurations, workers, launches and faults: a marked sample is whole   *)
(* and of the run, no merge is refused, and what is reported as complete is *)
(* complete.                                                                *)
(***************************************************************************)
EXTENDS PixarcSamples, FiniteSetTheorems, TLAPS

-----------------------------------------------------------------------------
(* Every sample is dealt to exactly one worker, by the shards of a generation  *)
(* run: compute_shard_indices is the same.                                     *)

\* Division with remainder.
LEMMA Division ==
    ASSUME NEW a \in Nat, NEW b \in Nat \ {0}
    PROVE  a \div b \in Nat /\ a % b \in 0 .. b - 1 /\ a = b * (a \div b) + (a % b)
  OBVIOUS

\* range(s, n, k) holds the images whose remainder is s.
LEMMA StridedOnce ==
    ASSUME NEW N \in Nat, NEW K \in Nat \ {0}, NEW i \in Images(N)
    PROVE  \E s \in Shards(K) : \A t \in Shards(K) : i \in Strided(N, K, t) <=> t = s
  <1>1. i \in Nat /\ Shards(K) = 0 .. K - 1
    BY DEF Images, Shards
  <1>2. PICK q \in Nat, s \in 0 .. K - 1 : i = K * q + s
    <2>1. i \div K \in Nat /\ i % K \in 0 .. K - 1 /\ i = K * (i \div K) + (i % K)
      BY <1>1, Division
    <2>2. PICK q \in Nat, s \in 0 .. K - 1 : q = i \div K /\ s = i % K
      BY <2>1
    <2> QED BY <2>1, <2>2
  <1>3. i - s = K * q /\ K * q \in Nat /\ (K * q) % K = 0
    <2>1. (K * q) % K = 0 /\ K * q \in Nat
      OBVIOUS
    <2> QED BY <1>2, <2>1
  <1>4. i \in Strided(N, K, s)
    BY <1>1, <1>2, <1>3 DEF Strided
  <1>5. ASSUME NEW t \in 0 .. K - 1, i \in Strided(N, K, t) PROVE t = s
    <2>1. i - t \in Nat /\ (i - t) % K = 0
      BY <1>1, <1>5 DEF Strided
    <2>2. PICK p \in Nat : i - t = K * p
      <3>1. (i - t) \div K \in Nat /\ i - t = K * ((i - t) \div K) + ((i - t) % K)
        BY <2>1, Division
      <3>2. K * ((i - t) \div K) + 0 = K * ((i - t) \div K)
        BY <3>1
      <3> QED BY <2>1, <3>1, <3>2
    <2>3. K * (q - p) = t - s /\ q - p \in Int
      BY <1>1, <1>2, <2>2
    <2>4. (q - p >= 1 => K * (q - p) >= K) /\ (q - p <= -1 => K * (q - p) <= -K)
      BY <2>3
    <2>5. q - p = 0
      BY <1>2, <2>3, <2>4
    <2> QED BY <1>2, <2>3, <2>5
  <1> QED BY <1>1, <1>2, <1>4, <1>5

\* Each contiguous shard starts where the one before it ends, the first at the
\* first image and the last ends at the last.
LEMMA BlocksAdjoin ==
    ASSUME NEW N \in Nat, NEW K \in Nat \ {0}
    PROVE  /\ \A s \in 0 .. K : Start(N, K, s) \in Nat
           /\ \A s \in 0 .. K - 1 : Start(N, K, s) + Length(N, K, s) = Start(N, K, s + 1)
           /\ \A s, t \in 0 .. K : s <= t => Start(N, K, s) <= Start(N, K, t)
           /\ Start(N, K, 0) = 0 /\ Start(N, K, K) = N
  <1> DEFINE B == N \div K
             E == N % K
  <1>1. B \in Nat /\ E \in 0 .. K - 1 /\ N = K * B + E
    BY Division
  <1>2. \A s \in Nat : Start(N, K, s) = s * B + (IF s <= E THEN s ELSE E)
    BY DEF Start
  <1>3. \A s \in Nat : Length(N, K, s) = B + (IF s < E THEN 1 ELSE 0)
    BY DEF Length
  <1> HIDE DEF B, E
  <1>4. \A s \in Nat : s * B \in Nat /\ (s + 1) * B = s * B + B
    BY <1>1
  <1>5. ASSUME NEW s \in Nat, NEW t \in Nat, s <= t PROVE s * B <= t * B
    <2>1. t * B = s * B + (t - s) * B /\ (t - s) * B \in Nat
      BY <1>1, <1>5
    <2> QED BY <1>4, <2>1
  <1>6. \A s \in Nat : Start(N, K, s) \in Nat
    BY <1>1, <1>2, <1>4
  <1>7. \A s \in Nat : Start(N, K, s) + Length(N, K, s) = Start(N, K, s + 1)
    <2> TAKE s \in Nat
    <2>1. /\ Start(N, K, s) = s * B + (IF s <= E THEN s ELSE E)
          /\ Start(N, K, s + 1) = (s * B + B) + (IF s + 1 <= E THEN s + 1 ELSE E)
      BY <1>2, <1>4
    <2> QED BY <1>1, <1>3, <1>4, <2>1
  <1>8. ASSUME NEW s \in Nat, NEW t \in Nat, s <= t PROVE Start(N, K, s) <= Start(N, K, t)
    <2>1. /\ Start(N, K, s) = s * B + (IF s <= E THEN s ELSE E)
          /\ Start(N, K, t) = t * B + (IF t <= E THEN t ELSE E)
          /\ s * B \in Nat /\ t * B \in Nat /\ s * B <= t * B
      BY <1>2, <1>4, <1>5, <1>8
    <2> QED BY <1>1, <1>8, <2>1
  <1>9. Start(N, K, 0) = 0 /\ Start(N, K, K) = N
    BY <1>1, <1>2
  <1> QED BY <1>6, <1>7, <1>8, <1>9

\* A set of shards has a first.
LEMMA Least ==
    ASSUME NEW T \in SUBSET Nat, T # {}
    PROVE  \E x \in T : \A y \in T : x <= y
  <1>1. PICK x \in T : \A y \in T : <<y, x>> \notin OpToRel(<, Nat)
    BY NatLessThanWellFounded, WFMin
  <1>2. \A y \in T : ~(y < x)
    BY <1>1 DEF OpToRel
  <1> QED BY <1>2

\* An image lies in the last shard that starts at or before it.
LEMMA ContiguousOnce ==
    ASSUME NEW N \in Nat, NEW K \in Nat \ {0}, NEW i \in Images(N)
    PROVE  \E s \in Shards(K) : \A t \in Shards(K) : i \in Contiguous(N, K, t) <=> t = s
  <1>1. i \in Nat /\ i < N /\ Shards(K) = 0 .. K - 1
    BY DEF Images, Shards
  <1>2. \A t \in 0 .. K - 1 : i \in Contiguous(N, K, t) <=> Start(N, K, t) <= i /\ i < Start(N, K, t + 1)
    BY BlocksAdjoin DEF Contiguous
  <1>3. PICK e \in {t \in 0 .. K : i < Start(N, K, t)} : \A t \in 0 .. K : i < Start(N, K, t) => e <= t
    <2>1. K \in {t \in 0 .. K : i < Start(N, K, t)}
      BY <1>1, BlocksAdjoin
    <2>2. PICK e \in {t \in 0 .. K : i < Start(N, K, t)} :
            \A t \in {t \in 0 .. K : i < Start(N, K, t)} : e <= t
      <3>1. {t \in 0 .. K : i < Start(N, K, t)} \in SUBSET Nat
        OBVIOUS
      <3> QED BY <2>1, <3>1, Least
    <2> QED BY <2>2
  <1>4. e # 0
    BY <1>1, <1>3, BlocksAdjoin
  <1>5. PICK s \in 0 .. K - 1 : e = s + 1
    BY <1>3, <1>4
  <1>6. Start(N, K, s) <= i /\ i < Start(N, K, s + 1)
    <2>1. Start(N, K, s) \in Nat /\ ~(i < Start(N, K, s))
      <3>1. s \in 0 .. K /\ ~(e <= s)
        BY <1>5
      <3> QED BY <1>3, <3>1, BlocksAdjoin
    <2> QED BY <1>1, <1>3, <1>5, <2>1
  <1>7. ASSUME NEW t \in 0 .. K - 1, Start(N, K, t) <= i, i < Start(N, K, t + 1) PROVE t = s
    <2>1. t < s => Start(N, K, t + 1) <= Start(N, K, s)
      BY BlocksAdjoin
    <2>2. s < t => Start(N, K, s + 1) <= Start(N, K, t)
      BY BlocksAdjoin
    <2>3. /\ Start(N, K, s) \in Nat /\ Start(N, K, t) \in Nat
          /\ Start(N, K, s + 1) \in Nat /\ Start(N, K, t + 1) \in Nat
      <3>1. {s, t, s + 1, t + 1} \subseteq 0 .. K
        OBVIOUS
      <3> QED BY <3>1, BlocksAdjoin
    <2> QED BY <1>1, <1>6, <1>7, <2>1, <2>2, <2>3
  <1> QED BY <1>1, <1>2, <1>5, <1>6, <1>7

\* Every image goes to exactly one of K workers, in both modes.
LEMMA DealtOnce ==
    ASSUME NEW N \in Nat, NEW K \in Nat \ {0}, NEW m \in ShardModes, NEW i \in Images(N)
    PROVE  \E s \in Shards(K) : \A t \in Shards(K) :
             i \in ShardIndices(N, K, t, m) <=> t = s
  BY StridedOnce, ContiguousOnce DEF ShardIndices, ShardModes

-----------------------------------------------------------------------------
(* What is in the directories of one sample *)

Writers == Workers \cup {NoWriter}

NoTarget(i) == Target(i) \notin DOMAIN dirs
Clean(i) == \A x \in Writers : Temporary(i, x) \notin DOMAIN dirs

\* The only directory of sample i is that of x: these files, measured under c.
Only(i, x, files, c) ==
    /\ Temporary(i, x) \in DOMAIN dirs
    /\ dirs[Temporary(i, x)] = [f \in files |-> c]
    /\ \A y \in Writers : Temporary(i, y) \in DOMAIN dirs => y = x

Whole == Records \cup {"DONE"}
MarkIsSound(i) == Marked(i) => Only(i, NoWriter, Whole, runConfig)

\* A step leaves the directories of sample i alone.
Same(i) ==
    \A x \in Writers :
      /\ Temporary(i, x) \in DOMAIN dirs' <=> Temporary(i, x) \in DOMAIN dirs
      /\ Temporary(i, x) \in DOMAIN dirs => dirs'[Temporary(i, x)] = dirs[Temporary(i, x)]

\* No marker appears, none is lost.
MarksKept == \A i \in All : Marked(i)' <=> Marked(i)

DirsTyped ==
    /\ DOMAIN dirs \subseteq DirNames
    /\ \A d \in DOMAIN dirs : /\ DOMAIN dirs[d] \subseteq Whole
                              /\ \A f \in DOMAIN dirs[d] : dirs[d][f] \in Configs

\* The committed directory is the one without a writer.
LEMMA Names ==
    /\ NoWriter \in Writers /\ NoWriter \notin Workers
    /\ \A w \in Workers : w \in Writers
    /\ \A i : Target(i) = Temporary(i, NoWriter)
    /\ \A i, j, x, y : Temporary(i, x) = Temporary(j, y) <=> i = j /\ x = y
    /\ \A d \in DirNames : d[1] \in All /\ d[2] \in Writers /\ d = Temporary(d[1], d[2])
    /\ \A i \in All, x \in Writers : Temporary(i, x) \in DirNames
    /\ \A i, x : Temporary(i, x)[1] = i
  BY DEF NoWriter, Writers, Workers, Target, Temporary, DirNames

LEMMA SameKeeps ==
    ASSUME NEW i, Same(i)
    PROVE  /\ Marked(i)' <=> Marked(i)
           /\ NoTarget(i) => NoTarget(i)'
           /\ Clean(i) => Clean(i)'
           /\ \A x \in Writers : \A F, c : Only(i, x, F, c) => Only(i, x, F, c)'
  BY Names DEF Same, Marked, Has, Exists, NoTarget, Clean, Only

LEMMA UntouchedSame ==
    ASSUME UNCHANGED dirs
    PROVE  \A i : Same(i)
  BY DEF Same

\* A sample without a committed directory is not marked.
LEMMA UnmarkedWhen ==
    ASSUME NEW i
    PROVE  /\ NoTarget(i) => ~Marked(i)
           /\ Clean(i) => NoTarget(i)
           /\ \A x \in Workers : \A F, c : Only(i, x, F, c) => NoTarget(i)
           /\ \A F, c : Only(i, NoWriter, F, c) /\ "DONE" \notin F => ~Marked(i)
  BY Names DEF NoTarget, Clean, Only, Marked, Has, Exists

-----------------------------------------------------------------------------
(* What the steps do to directories *)

LEMMA WithoutKeeps ==
    ASSUME NEW gone, dirs' = Without(gone), DirsTyped
    PROVE  /\ DOMAIN dirs' = DOMAIN dirs \ gone
           /\ \A d \in DOMAIN dirs' : dirs'[d] = dirs[d]
           /\ DirsTyped'
           /\ \A i : (\A x \in Writers : Temporary(i, x) \notin gone) => Same(i)
  <1>1. /\ DOMAIN dirs' = DOMAIN dirs \ gone
        /\ \A d \in DOMAIN dirs' : dirs'[d] = dirs[d]
    BY DEF Without
  <1>2. DirsTyped'
    BY <1>1 DEF DirsTyped
  <1> QED
    BY <1>1, <1>2 DEF Same

\* One directory of sample s is made or changed.
LEMMA PutKeeps ==
    ASSUME NEW s \in All, NEW x \in Writers, NEW files, DirsTyped,
           dirs' = Put(dirs, Temporary(s, x), files),
           DOMAIN files \subseteq Whole, \A f \in DOMAIN files : files[f] \in Configs
    PROVE  /\ DOMAIN dirs' = DOMAIN dirs \cup {Temporary(s, x)}
           /\ dirs'[Temporary(s, x)] = files
           /\ DirsTyped'
           /\ \A i : i # s => Same(i)
  <1>1. /\ DOMAIN dirs' = DOMAIN dirs \cup {Temporary(s, x)}
        /\ dirs'[Temporary(s, x)] = files
        /\ \A d \in DOMAIN dirs : d # Temporary(s, x) => dirs'[d] = dirs[d]
    BY DEF Put
  <1>2. DirsTyped'
    BY <1>1, Names DEF DirsTyped
  <1> QED
    BY <1>1, <1>2, Names DEF Same

-----------------------------------------------------------------------------
(* The inductive invariant *)

Serving == {"spawn", "poll", "aborting", "stopping"} \* the launcher may have workers
Merging == {"merge", "records", "summary"}
AtSample == Committing \cup {"clear", "sweep", "instrument"}

\* The record files in the temporary directory when a step of the commit is due.
Before == [risk |-> {}, correctness |-> {"risk"}, summary |-> {"risk", "correctness"},
           check |-> Records, rename |-> Records]

\* What a worker finds in the directories of its sample.
SampleAt(w, at, i) ==
    /\ at = "clear" => ~Marked(i)
    /\ at = "sweep" => NoTarget(i)
    /\ at = "instrument" => Clean(i)
    /\ at \in DOMAIN Before => Only(i, w, Before[at], ConfigOf(w))
    /\ at = "DONE" => Only(i, NoWriter, Records, ConfigOf(w))

\* A worker of the current launch that has not failed.
Engaged(w) == w \in Mine /\ proc[w].at \notin {"absent", "failed"}

WorkerOK(w) ==
    /\ proc[w].todo \subseteq Assigned(w)
    /\ proc[w].at = "config" => runConfig \in {None, ConfigOf(w)}
    /\ proc[w].at \notin {"start", "config"} => runConfig = ConfigOf(w)
    /\ proc[w].at \in AtSample => /\ Sample(w) \in Assigned(w)
                                  /\ SampleAt(w, proc[w].at, Sample(w))
    /\ \A i \in Assigned(w) : \/ Marked(i) \/ i \in proc[w].todo
                              \/ proc[w].at \in AtSample /\ i = Sample(w)
    /\ proc[w].at = "ok" => proc[w].todo = {}

\* Only workers of the current launch run, and only while the launcher waits.
ProcessesOK ==
    /\ \A w \in Workers : w[1] > Current => proc[w].at = "absent"
    /\ Alive \subseteq Mine
    /\ launcher.at \notin Serving => Alive = {}
    /\ launcher.at # "returned" => Current > 0
    /\ launcher.at = "spawn" =>
         /\ launcher.next \in Shards(Layout[This.config].shards)
         /\ \A w \in Mine : proc[w].at = "absent" <=> w[2] >= launcher.next
    /\ launcher.at \in {"poll", "stopping"} => \A w \in Mine : proc[w].at # "absent"
    /\ launcher.at \in Merging => \A w \in Mine : proc[w].at = "ok"

Everything == All \X Records \X {This.config}

MergeOK ==
    /\ launcher.at \in {"records", "summary"} => launcher.read = Everything
    /\ launcher.at = "summary" => merged.records = Everything
    /\ status = "complete" =>
         /\ launcher.at = "returned" /\ Current > 0
         /\ \A i \in All : Marked(i)
         /\ merged.records = Everything /\ merged.summary = Everything

IInv ==
    /\ TypeOK
    /\ ProcessesOK
    /\ runConfig = None => DOMAIN dirs = {}
    /\ \A w \in Workers : Engaged(w) => WorkerOK(w)
    /\ \A i \in All : MarkIsSound(i)
    /\ MergeOK

-----------------------------------------------------------------------------
(* The workers of a launch *)

Process == [at : Points, todo : SUBSET All, index : All]

LEMMA MineFacts ==
    ASSUME TypeOK, NEW w \in Mine
    PROVE  /\ w \in Workers /\ w[1] = Current /\ Current \in 1 .. MaxLaunches
           /\ This \in Launches /\ This.config \in Configs
           /\ LaunchOf(w) = This /\ ConfigOf(w) = This.config
           /\ Layout[This.config].shards \in 1 .. MaxShards
           /\ Layout[This.config].mode \in ShardModes
           /\ w[2] \in Shards(Layout[This.config].shards)
           /\ w = <<Current, w[2]>>
  <1>1. /\ w \in Workers /\ w[1] = Current /\ w[2] < Layout[This.config].shards
        /\ w[1] \in 1 .. MaxLaunches /\ w[2] \in Shards(MaxShards) /\ w = <<w[1], w[2]>>
    BY DEF Mine, Workers
  <1>2. runs \in Seq(Launches) /\ Current \in 1 .. Len(runs)
    BY <1>1, PixarcAssumption DEF TypeOK, Current
  <1>3. This \in Launches
    BY <1>2 DEF This
  <1>4. This.config \in Configs
    BY <1>3, PixarcAssumption
  <1>5. /\ Layout[This.config].shards \in 1 .. MaxShards
        /\ Layout[This.config].mode \in ShardModes
    BY <1>4, PixarcAssumption
  <1>6. w[2] \in Shards(Layout[This.config].shards)
    BY <1>1, <1>5, PixarcAssumption DEF Shards
  <1>7. LaunchOf(w) = This /\ ConfigOf(w) = This.config
    BY <1>1 DEF LaunchOf, ConfigOf, This
  <1> QED
    BY <1>1, <1>2, <1>3, <1>4, <1>5, <1>6, <1>7

LEMMA AssignedIsDealt ==
    ASSUME TypeOK, NEW w \in Mine
    PROVE  /\ Assigned(w) = ShardIndices(NumImages, Layout[This.config].shards, w[2],
                                         Layout[This.config].mode)
           /\ Assigned(w) \subseteq All
  BY MineFacts DEF Assigned, ShardIndices, Strided, Contiguous, All

\* No two workers of a launch have a sample in common.
LEMMA AssignedApart ==
    ASSUME TypeOK, NEW v \in Mine, NEW w \in Mine, v # w, NEW i \in Assigned(v)
    PROVE  i \notin Assigned(w)
  <1> DEFINE k == Layout[This.config].shards
             m == Layout[This.config].mode
  <1>1. /\ v[2] \in Shards(k) /\ w[2] \in Shards(k) /\ v[2] # w[2]
        /\ k \in Nat \ {0} /\ m \in ShardModes
    BY MineFacts, PixarcAssumption
  <1>2. i \in Images(NumImages) /\ NumImages \in Nat
    BY AssignedIsDealt, PixarcAssumption DEF All
  <1>3. /\ i \in ShardIndices(NumImages, k, v[2], m)
        /\ Assigned(w) = ShardIndices(NumImages, k, w[2], m)
    BY AssignedIsDealt
  <1> HIDE DEF k, m
  <1> QED
    BY <1>1, <1>2, <1>3, DealtOnce

\* Every sample is some worker's.
LEMMA AssignedAll ==
    ASSUME TypeOK, Current > 0, NEW i \in All
    PROVE  \E w \in Mine : i \in Assigned(w)
  <1> DEFINE k == Layout[This.config].shards
             m == Layout[This.config].mode
  <1>1. runs \in Seq(Launches) /\ Current \in 1 .. Len(runs) /\ Current \in 1 .. MaxLaunches
    BY PixarcAssumption DEF TypeOK, Current
  <1>2. This \in Launches
    BY <1>1 DEF This
  <1>3. This.config \in Configs
    BY <1>2, PixarcAssumption
  <1>4. k \in 1 .. MaxShards /\ m \in ShardModes
    BY <1>3, PixarcAssumption
  <1>5. NumImages \in Nat /\ i \in Images(NumImages) /\ k \in Nat \ {0}
    BY <1>4, PixarcAssumption DEF All
  <1>6. PICK s \in Shards(k) : i \in ShardIndices(NumImages, k, s, m)
    <2> HIDE DEF k, m
    <2> QED
      BY <1>4, <1>5, DealtOnce
  <1>7. <<Current, s>> \in Mine
    BY <1>1, <1>4, <1>6, PixarcAssumption DEF Mine, Workers, Shards
  <1>8. i \in Assigned(<<Current, s>>)
    BY <1>6, <1>7, AssignedIsDealt
  <1> QED
    BY <1>7, <1>8

-----------------------------------------------------------------------------
(* A step of one worker *)

LEMMA AliveMine ==
    ASSUME IInv, NEW w \in Alive
    PROVE  /\ w \in Mine /\ Engaged(w) /\ WorkerOK(w) /\ w \in Workers
           /\ launcher.at \in Serving /\ Current > 0
           /\ proc[w] \in Process /\ proc[w].at \notin Exited
           /\ ConfigOf(w) \in Configs /\ None \notin Configs
  <1>1. w \in Mine /\ w \in Workers /\ proc[w].at \notin Exited
    BY DEF IInv, ProcessesOK, Alive
  <1>2. Engaged(w) /\ WorkerOK(w)
    BY <1>1 DEF IInv, Engaged, Exited
  <1>3. launcher.at \in Serving /\ Current > 0
    BY DEF IInv, ProcessesOK, Serving
  <1>4. proc[w] \in Process
    BY <1>1 DEF IInv, TypeOK, Process
  <1>5. ConfigOf(w) \in Configs
    BY <1>1, MineFacts DEF IInv
  <1> QED
    BY <1>1, <1>2, <1>3, <1>4, <1>5, PixarcAssumption

\* What a worker of another sample knows stays true.
LEMMA BystanderOK ==
    ASSUME NEW v \in Workers, WorkerOK(v), UNCHANGED runs, proc'[v] = proc[v],
           Assigned(v) \subseteq All,
           runConfig' = runConfig \/ runConfig' = ConfigOf(v),
           \A i \in Assigned(v) : Same(i)
    PROVE  WorkerOK(v)'
  <1>1. /\ Assigned(v)' = Assigned(v) /\ ConfigOf(v)' = ConfigOf(v)
        /\ Sample(v)' = Sample(v)
    BY DEF Assigned, ConfigOf, LaunchOf, Sample
  <1>2. \A i \in Assigned(v) : Marked(i)' <=> Marked(i)
    BY SameKeeps
  <1>3. ASSUME proc[v].at \in AtSample
        PROVE  Sample(v) \in Assigned(v) /\ SampleAt(v, proc[v].at, Sample(v))'
    <2>1. PICK i \in Assigned(v) : i = Sample(v)
      BY <1>3 DEF WorkerOK
    <2>2. PICK at : at = proc[v].at
      OBVIOUS
    <2>3. SampleAt(v, at, i) /\ Same(i)
      BY <1>3, <2>1, <2>2 DEF WorkerOK
    <2>4. /\ Marked(i)' <=> Marked(i)
          /\ NoTarget(i) => NoTarget(i)'
          /\ Clean(i) => Clean(i)'
          /\ \A x \in Writers : \A F, c : Only(i, x, F, c) => Only(i, x, F, c)'
      BY <2>3, SameKeeps
    <2>5. SampleAt(v, at, i)'
      BY <1>1, <2>3, <2>4, Names DEF SampleAt
    <2> QED
      BY <1>1, <2>1, <2>2, <2>5
  <1> QED
    BY <1>1, <1>2, <1>3 DEF WorkerOK

\* A worker touches only an unmarked sample of its own.
Touched(w, i) ==
    /\ i \in Assigned(w) /\ ~Marked(i)
    /\ Marked(i)' => Only(i, NoWriter, Whole, runConfig)'

LEMMA WorkerStepKeeps ==
    ASSUME IInv, NEW w \in Alive, NEW r \in Process, r.at # "absent",
           proc' = [proc EXCEPT ![w] = r],
           UNCHANGED <<merged, status, runs, launcher, signalled>>,
           faults' \in 0 .. MaxFaults,
           \/ runConfig' = runConfig
           \/ runConfig' = ConfigOf(w) /\ runConfig \in {None, ConfigOf(w)},
           runConfig' = None => DOMAIN dirs' = {},
           DirsTyped',
           \A i \in All : Same(i) \/ Touched(w, i),
           r.at # "failed" => WorkerOK(w)'
    PROVE  IInv'
  <1>1. /\ w \in Mine /\ w \in Workers /\ launcher.at \in Serving
        /\ ConfigOf(w) \in Configs /\ proc[w].at \notin Exited /\ Current > 0
    BY AliveMine
  <1>2. /\ TypeOK /\ ProcessesOK /\ MergeOK
        /\ runConfig = None => DOMAIN dirs = {}
        /\ \A v \in Workers : Engaged(v) => WorkerOK(v)
        /\ \A i \in All : MarkIsSound(i)
    BY DEF IInv
  <1>3. /\ Current' = Current /\ This' = This /\ Mine' = Mine
    BY DEF Current, This, Mine
  <1>4. /\ \A v \in Workers : v # w => proc'[v] = proc[v]
        /\ proc'[w] = r
        /\ proc' \in [Workers -> Process]
    BY <1>1, <1>2 DEF TypeOK, Process
  <1>5. TypeOK'
    <2>1. runConfig' \in Configs \cup {None}
      BY <1>1, <1>2 DEF TypeOK
    <2> QED
      BY <1>2, <1>4, <2>1 DEF TypeOK, DirsTyped, Whole, Process
  <1>6. ProcessesOK'
    <2>1. \A v \in Workers : v[1] > Current => proc'[v].at = "absent"
      BY <1>1, <1>2, <1>4, MineFacts DEF ProcessesOK
    <2>2. Alive' \subseteq Mine
      BY <1>1, <1>2, <1>4 DEF ProcessesOK, Alive
    <2>3. ASSUME launcher.at = "spawn", NEW v \in Mine
          PROVE  proc'[v].at = "absent" <=> v[2] >= launcher.next
      <3>1. v \in Workers
        BY DEF Mine
      <3>2. proc[w].at # "absent"
        BY <1>1 DEF Exited
      <3> QED
        BY <1>1, <1>2, <1>4, <2>3, <3>1, <3>2 DEF ProcessesOK
    <2>4. ASSUME launcher.at \in {"poll", "stopping"}, NEW v \in Mine
          PROVE  proc'[v].at # "absent"
      <3>1. v \in Workers
        BY DEF Mine
      <3> QED
        BY <1>2, <1>4, <2>4, <3>1 DEF ProcessesOK
    <2> QED
      BY <1>1, <1>2, <1>3, <2>1, <2>2, <2>3, <2>4 DEF ProcessesOK, Serving, Merging
  <1>7. ASSUME NEW v \in Workers, Engaged(v)'
        PROVE  WorkerOK(v)'
    <2>1. CASE v = w
      BY <1>4, <1>7, <2>1 DEF Engaged
    <2>2. CASE v # w
      <3>1. v \in Mine /\ Engaged(v) /\ WorkerOK(v)
        BY <1>2, <1>3, <1>4, <1>7, <2>2 DEF Engaged
      <3>2. ConfigOf(v) = ConfigOf(w)
        BY <1>1, <1>2, <3>1, MineFacts
      <3>3. \A i \in Assigned(v) : i \in All /\ i \notin Assigned(w)
        BY <1>1, <1>2, <2>2, <3>1, AssignedApart, AssignedIsDealt
      <3>4. \A i \in Assigned(v) : Same(i)
        BY <3>3 DEF Touched
      <3>5. runConfig' = runConfig \/ runConfig' = ConfigOf(v)
        BY <3>2
      <3> QED
        BY <1>4, <2>2, <3>1, <3>3, <3>4, <3>5, BystanderOK
    <2> QED
      BY <2>1, <2>2
  <1>8. ASSUME NEW i \in All
        PROVE  MarkIsSound(i)'
    <2>1. CASE Same(i)
      <3> SUFFICES ASSUME Marked(i)' PROVE Only(i, NoWriter, Whole, runConfig)'
        BY DEF MarkIsSound
      <3>1. Marked(i) /\ Only(i, NoWriter, Whole, runConfig)
        BY <1>2, <2>1, SameKeeps DEF MarkIsSound
      <3>2. runConfig # None
        BY <1>2, <3>1 DEF Only
      <3>3. runConfig' = runConfig
        BY <3>2
      <3>4. NoWriter \in Writers
        BY Names
      <3>5. \A c : Only(i, NoWriter, Whole, c) => Only(i, NoWriter, Whole, c)'
        BY <2>1, <3>4, SameKeeps
      <3> QED
        BY <3>1, <3>3, <3>5 DEF Only
    <2>2. CASE Touched(w, i)
      BY <2>2 DEF Touched, MarkIsSound
    <2> QED
      BY <2>1, <2>2
  <1>9. MergeOK'
    BY <1>1, <1>2 DEF MergeOK, Serving
  <1> QED
    BY <1>5, <1>6, <1>7, <1>8, <1>9 DEF IInv

-----------------------------------------------------------------------------
(* The actions of a worker *)

LEMMA Processes ==
    ASSUME NEW at \in Points, NEW todo \in SUBSET All, NEW s \in All
    PROVE  /\ Worker(at, todo, s) \in Process
           /\ Worker(at, todo, s).at = at /\ Worker(at, todo, s).todo = todo
           /\ Worker(at, todo, s).index = s
  BY DEF Worker, Process

LEMMA PointsAre ==
    /\ AtSample \subseteq Points /\ Exited \subseteq Points
    /\ AtSample \cap Exited = {}
    /\ "start" \notin AtSample /\ "config" \notin AtSample /\ "next" \notin AtSample
    /\ {"start", "config", "next"} \subseteq Points \ Exited
    /\ AtSample = {"clear", "sweep", "instrument", "DONE"} \cup DOMAIN Before
    /\ DOMAIN Before = {"risk", "correctness", "summary", "check", "rename"}
    /\ "ok" \in Exited /\ "failed" \in Exited /\ "absent" \in Exited
    /\ 0 \in All
  BY PixarcAssumption DEF AtSample, Points, Exited, Committing, Records, Before, All, Images

\* A sample that is being worked on has no marker.
LEMMA SampleUnmarked ==
    ASSUME NEW w \in Workers, NEW at \in AtSample, NEW s
    PROVE  /\ SampleAt(w, at, s) => ~Marked(s)
           /\ SampleAt(w, at, s)' => ~Marked(s)'
  <1>1. "DONE" \notin Records
    BY DEF Records
  <1>2. /\ NoTarget(s) => ~Marked(s)
        /\ Clean(s) => NoTarget(s)
        /\ \A F, c : Only(s, w, F, c) => NoTarget(s)
        /\ \A c : Only(s, NoWriter, Records, c) => ~Marked(s)
    BY <1>1, Names DEF NoTarget, Clean, Only, Marked, Has, Exists
  <1>3. /\ NoTarget(s)' => ~Marked(s)'
        /\ Clean(s)' => NoTarget(s)'
        /\ \A F, c : Only(s, w, F, c)' => NoTarget(s)'
        /\ \A c : Only(s, NoWriter, Records, c)' => ~Marked(s)'
    BY <1>1, Names DEF NoTarget, Clean, Only, Marked, Has, Exists
  <1> QED
    BY <1>2, <1>3, PointsAre DEF SampleAt

LEMMA AtWork ==
    ASSUME IInv, NEW w \in Alive, proc[w].at \in AtSample
    PROVE  \E s \in Assigned(w) :
             /\ s = Sample(w) /\ s \in All /\ ~Marked(s)
             /\ SampleAt(w, proc[w].at, s) /\ runConfig = ConfigOf(w)
  <1>1. WorkerOK(w) /\ w \in Mine /\ TypeOK /\ w \in Workers
    BY AliveMine DEF IInv
  <1>2. Assigned(w) \subseteq All
    BY <1>1, AssignedIsDealt
  <1>3. /\ Sample(w) \in Assigned(w) /\ SampleAt(w, proc[w].at, Sample(w))
        /\ runConfig = ConfigOf(w)
    BY <1>1, PointsAre DEF WorkerOK
  <1>4. ~Marked(Sample(w))
    BY <1>1, <1>3, SampleUnmarked
  <1> QED
    BY <1>2, <1>3, <1>4

\* What a worker knows after its step.
LEMMA OwnOK ==
    ASSUME NEW w \in Workers, NEW at, NEW todo, NEW s, UNCHANGED runs,
           proc'[w] = Worker(at, todo, s),
           todo \subseteq Assigned(w), at # "start",
           at = "config" => runConfig' \in {None, ConfigOf(w)},
           at # "config" => runConfig' = ConfigOf(w),
           at \in AtSample => s \in Assigned(w) /\ SampleAt(w, at, s)',
           \A i \in Assigned(w) : Marked(i)' \/ i \in todo \/ (at \in AtSample /\ i = s),
           at = "ok" => todo = {}
    PROVE  WorkerOK(w)'
  <1>1. /\ Assigned(w)' = Assigned(w) /\ ConfigOf(w)' = ConfigOf(w)
    BY DEF Assigned, ConfigOf, LaunchOf
  <1>2. proc'[w].at = at /\ proc'[w].todo = todo /\ Sample(w)' = s
    BY DEF Worker, Sample
  <1>3. SampleAt(w, at, s)' <=> SampleAt(w, proc[w].at, Sample(w))'
    BY <1>2
  <1> QED
    BY <1>1, <1>2, <1>3 DEF WorkerOK

\* A failed step, with or without its cleanup.
LEMMA FailKeeps ==
    ASSUME IInv, NEW w \in Alive, Fails(w),
           UNCHANGED <<runConfig, merged, status, runs, launcher, signalled>>,
           faults' \in 0 .. MaxFaults,
           dirs' = dirs \/ dirs' = Aborted(w)
    PROVE  IInv' /\ MarksKept
  <1> DEFINE r == Worker("failed", {}, 0)
  <1>1. r \in Process /\ r.at = "failed" /\ proc' = [proc EXCEPT ![w] = r]
    BY Processes, PointsAre DEF Fails, BecomesWorker
  <1>2. /\ DirsTyped /\ (runConfig = None => DOMAIN dirs = {}) /\ w \in Workers
    BY AliveMine DEF IInv, TypeOK, DirsTyped, Whole
  <1>3. /\ DirsTyped' /\ (runConfig' = None => DOMAIN dirs' = {})
        /\ \A i \in All : Same(i) \/ (Touched(w, i) /\ ~Marked(i)')
    <2>1. CASE dirs' = dirs
      <3>1. DirsTyped'
        BY <1>2, <2>1 DEF DirsTyped
      <3> QED
        BY <1>2, <2>1, <3>1, UntouchedSame
    <2>2. CASE dirs' = Aborted(w) /\ proc[w].at \notin Committing
      <3>1. dirs' = Without({})
        BY <2>2 DEF Aborted
      <3>2. DOMAIN dirs' = DOMAIN dirs \ {} /\ DirsTyped' /\ \A i : Same(i)
        BY <1>2, <3>1, WithoutKeeps
      <3> QED
        BY <1>2, <3>2
    <2>3. CASE dirs' = Aborted(w) /\ proc[w].at \in Committing
      <3>1. PICK s \in Assigned(w) : s = Sample(w) /\ s \in All /\ ~Marked(s)
        BY <2>3, AtWork DEF AtSample
      <3>2. dirs' = Without({Temporary(s, w)})
        BY <2>3, <3>1 DEF Aborted, OwnTemporary
      <3>3. /\ DOMAIN dirs' = DOMAIN dirs \ {Temporary(s, w)} /\ DirsTyped'
            /\ \A d \in DOMAIN dirs' : dirs'[d] = dirs[d]
            /\ \A i : (\A x \in Writers : Temporary(i, x) \notin {Temporary(s, w)}) => Same(i)
        BY <1>2, <3>2, WithoutKeeps
      <3>4. \A i : i # s => Same(i)
        BY <3>3, Names
      <3>5. Touched(w, s) /\ ~Marked(s)'
        BY <3>1, <3>3 DEF Touched, Marked, Has, Exists
      <3> QED
        BY <1>2, <3>3, <3>4, <3>5
    <2> QED
      BY <2>1, <2>2, <2>3
  <1>4. MarksKept
    BY <1>3, SameKeeps DEF MarksKept, Touched
  <1> HIDE DEF r
  <1> QED
    BY <1>1, <1>3, <1>4, WorkerStepKeeps

-----------------------------------------------------------------------------

LEMMA RunsAlive ==
    ASSUME NEW w \in Workers, proc[w].at \in Points \ Exited
    PROVE  w \in Alive
  BY DEF Alive

\* A step that writes nothing under samples/.
LEMMA QuietKeeps ==
    ASSUME IInv, NEW w \in Alive, NEW at \in Points, NEW todo \in SUBSET All, NEW s \in All,
           BecomesWorker(w, Worker(at, todo, s)), at \notin {"absent", "start", "failed"},
           UNCHANGED <<dirs, faults>>, Others,
           \/ runConfig' = runConfig
           \/ runConfig' = ConfigOf(w) /\ runConfig \in {None, ConfigOf(w)},
           at = "config" => runConfig' \in {None, ConfigOf(w)},
           at # "config" => runConfig' = ConfigOf(w),
           todo \subseteq Assigned(w),
           at \in AtSample => s \in Assigned(w) /\ SampleAt(w, at, s)',
           \A i \in Assigned(w) : Marked(i) \/ i \in todo \/ (at \in AtSample /\ i = s),
           at = "ok" => todo = {}
    PROVE  IInv' /\ MarksKept
  <1> DEFINE r == Worker(at, todo, s)
  <1>1. r \in Process /\ r.at = at /\ proc' = [proc EXCEPT ![w] = r]
    BY Processes DEF BecomesWorker
  <1>2. /\ DirsTyped /\ (runConfig = None => DOMAIN dirs = {}) /\ w \in Workers
        /\ faults \in 0 .. MaxFaults /\ proc \in [Workers -> Process]
        /\ ConfigOf(w) # None
    BY AliveMine DEF IInv, TypeOK, DirsTyped, Whole, Process
  <1>3. /\ DirsTyped' /\ (runConfig' = None => DOMAIN dirs' = {})
        /\ \A i : Same(i)
    BY <1>2, UntouchedSame DEF DirsTyped
  <1>4. proc'[w] = r
    BY <1>1, <1>2
  <1>5. \A i \in Assigned(w) : Marked(i)' \/ i \in todo \/ (at \in AtSample /\ i = s)
    BY <1>3, SameKeeps
  <1>6. WorkerOK(w)'
    BY <1>2, <1>4, <1>5, OwnOK DEF Others
  <1>7. MarksKept
    BY <1>3, SameKeeps DEF MarksKept
  <1> HIDE DEF r
  <1> QED
    BY <1>1, <1>2, <1>3, <1>6, <1>7, WorkerStepKeeps DEF Others

\* A step of the work on a sample.
LEMMA SampleStepKeeps ==
    ASSUME IInv, NEW w \in Alive, proc[w].at \in AtSample, NEW at \in AtSample, Goes(w, at),
           UNCHANGED <<runConfig, faults>>, Others,
           NEW s, s = Sample(w), \A i : i # s => Same(i),
           DirsTyped', SampleAt(w, at, s)'
    PROVE  IInv' /\ MarksKept
  <1> DEFINE r == Worker(at, proc[w].todo, proc[w].index)
  <1>1. /\ WorkerOK(w) /\ w \in Workers /\ proc[w] \in Process /\ ConfigOf(w) # None
        /\ faults \in 0 .. MaxFaults /\ proc \in [Workers -> Process]
    BY AliveMine DEF IInv, TypeOK, Process
  <1>2. /\ s \in Assigned(w) /\ s \in All /\ ~Marked(s) /\ runConfig = ConfigOf(w)
        /\ s = proc[w].index
    BY AtWork DEF Sample
  <1>3. /\ r \in Process /\ r.at = at /\ proc' = [proc EXCEPT ![w] = r]
        /\ at \notin {"absent", "failed", "start", "config", "ok"}
    BY <1>1, Processes, PointsAre DEF Goes, BecomesWorker, Process
  <1>4. ~Marked(s)'
    BY <1>1, SampleUnmarked
  <1>5. \A i \in All : Same(i) \/ Touched(w, i)
    BY <1>2, <1>4 DEF Touched
  <1>6. \A i \in Assigned(w) : Marked(i)' \/ i \in proc[w].todo \/ (at \in AtSample /\ i = s)
    BY <1>1, <1>2, SameKeeps DEF WorkerOK
  <1>7. proc'[w] = Worker(at, proc[w].todo, s)
    BY <1>1, <1>2, <1>3
  <1>8. WorkerOK(w)'
    BY <1>1, <1>2, <1>3, <1>6, <1>7, OwnOK DEF Others, WorkerOK
  <1>9. MarksKept
    BY <1>2, <1>4, SameKeeps DEF MarksKept
  <1> HIDE DEF r
  <1> QED
    BY <1>1, <1>2, <1>3, <1>5, <1>8, <1>9, WorkerStepKeeps DEF Others

LEMMA CheckConfigKeeps ==
    ASSUME IInv, NEW w \in Workers, CheckConfig(w)
    PROVE  IInv' /\ MarksKept
  <1>1. w \in Alive /\ proc[w].at = "start"
    BY RunsAlive, PointsAre DEF CheckConfig
  <1>2. WorkerOK(w) /\ proc[w] \in Process /\ ConfigOf(w) # None /\ faults \in 0 .. MaxFaults
    BY <1>1, AliveMine DEF IInv, TypeOK
  <1>3. /\ proc[w].todo \in SUBSET All /\ proc[w].index \in All /\ proc[w].todo \subseteq Assigned(w)
        /\ \A i \in Assigned(w) : Marked(i) \/ i \in proc[w].todo
    BY <1>1, <1>2, PointsAre DEF WorkerOK, Process
  <1>4. CASE runConfig = None /\ Goes(w, "config")
    BY <1>1, <1>2, <1>3, <1>4, QuietKeeps, PointsAre DEF CheckConfig, Goes, Others
  <1>5. CASE ConfigFits(w) /\ Goes(w, "next")
    BY <1>1, <1>2, <1>3, <1>5, QuietKeeps, PointsAre DEF CheckConfig, Goes, ConfigFits, Others
  <1>6. CASE Fails(w)
    BY <1>1, <1>2, <1>6, FailKeeps DEF CheckConfig, Others
  <1> QED
    BY <1>4, <1>5, <1>6 DEF CheckConfig

LEMMA WriteConfigKeeps ==
    ASSUME IInv, NEW w \in Workers, WriteConfig(w)
    PROVE  IInv' /\ MarksKept
  <1>1. w \in Alive /\ proc[w].at = "config"
    BY RunsAlive, PointsAre DEF WriteConfig
  <1>2. WorkerOK(w) /\ proc[w] \in Process
    BY <1>1, AliveMine
  <1>3. /\ proc[w].todo \in SUBSET All /\ proc[w].index \in All /\ proc[w].todo \subseteq Assigned(w)
        /\ \A i \in Assigned(w) : Marked(i) \/ i \in proc[w].todo
        /\ runConfig \in {None, ConfigOf(w)}
    BY <1>1, <1>2, PointsAre DEF WorkerOK, Process
  <1> QED
    BY <1>1, <1>3, QuietKeeps, PointsAre DEF WriteConfig, Goes, Others

LEMMA ReconcileKeeps ==
    ASSUME IInv, NEW w \in Workers, Reconcile(w)
    PROVE  IInv' /\ MarksKept
  <1>1. w \in Alive /\ proc[w].at = "next"
    BY RunsAlive, PointsAre DEF Reconcile
  <1>2. WorkerOK(w) /\ proc[w] \in Process /\ faults \in 0 .. MaxFaults
    BY <1>1, AliveMine DEF IInv, TypeOK
  <1>3. /\ proc[w].todo \in SUBSET All /\ proc[w].todo \subseteq Assigned(w)
        /\ \A i \in Assigned(w) : Marked(i) \/ i \in proc[w].todo
        /\ runConfig = ConfigOf(w)
    BY <1>1, <1>2, PointsAre DEF WorkerOK, Process
  <1>4. PICK i \in proc[w].todo :
          \/ Marked(i) /\ MaySkip(w, i) /\ BecomesWorker(w, Worker("next", proc[w].todo \ {i}, 0))
          \/ Marked(i) /\ ~MaySkip(w, i) /\ AtForeign(w, i)
          \/ ~Marked(i) /\ BecomesWorker(w, Worker("clear", proc[w].todo \ {i}, i))
    BY DEF Reconcile, FirstOf
  <1> DEFINE todo == proc[w].todo \ {i}
  <1>5. /\ todo \in SUBSET All /\ todo \subseteq Assigned(w) /\ i \in All /\ i \in Assigned(w)
        /\ UNCHANGED <<runConfig, dirs, faults>> /\ Others
    BY <1>3 DEF Reconcile, Others
  <1>6. CASE Marked(i) /\ BecomesWorker(w, Worker("next", todo, 0))
    <2>1. \A j \in Assigned(w) : Marked(j) \/ j \in todo
      BY <1>3, <1>6
    <2> HIDE DEF todo
    <2> QED
      BY <1>1, <1>3, <1>5, <1>6, <2>1, QuietKeeps, PointsAre
  <1>7. CASE Fails(w)
    BY <1>1, <1>2, <1>5, <1>7, FailKeeps DEF Others
  <1>8. CASE ~Marked(i) /\ BecomesWorker(w, Worker("clear", todo, i))
    <2>1. \A j \in Assigned(w) : Marked(j) \/ j \in todo \/ j = i
      BY <1>3
    <2>2. Same(i)
      BY <1>5, UntouchedSame
    <2>3. ~Marked(i)'
      BY <1>8, <2>2, SameKeeps
    <2>4. SampleAt(w, "clear", i)'
      BY <2>3, PointsAre DEF SampleAt
    <2> HIDE DEF todo
    <2> QED
      BY <1>1, <1>3, <1>5, <1>8, <2>1, <2>4, QuietKeeps, PointsAre
  <1> QED
    BY <1>4, <1>6, <1>7, <1>8 DEF AtForeign

LEMMA FinishKeeps ==
    ASSUME IInv, NEW w \in Workers, Finish(w)
    PROVE  IInv' /\ MarksKept
  <1>1. w \in Alive /\ proc[w].at = "next" /\ proc[w].todo = {}
    BY RunsAlive, PointsAre DEF Finish
  <1>2. WorkerOK(w)
    BY <1>1, AliveMine
  <1>3. (\A i \in Assigned(w) : Marked(i)) /\ runConfig = ConfigOf(w)
    BY <1>1, <1>2, PointsAre DEF WorkerOK
  <1> QED
    BY <1>1, <1>3, QuietKeeps, PointsAre DEF Finish, Others

-----------------------------------------------------------------------------
(* The actions on a sample *)

\* What is known at such a step.
LEMMA StepFacts ==
    ASSUME IInv, NEW w \in Workers, proc[w].at \in AtSample
    PROVE  /\ w \in Alive /\ DirsTyped /\ ConfigOf(w) \in Configs /\ w \in Writers
           /\ \E s \in Assigned(w) :
                /\ s = Sample(w) /\ s \in All /\ ~Marked(s)
                /\ SampleAt(w, proc[w].at, s) /\ runConfig = ConfigOf(w)
  <1>1. w \in Alive
    BY RunsAlive, PointsAre
  <1>2. DirsTyped /\ ConfigOf(w) \in Configs /\ w \in Writers
    BY <1>1, AliveMine, Names DEF IInv, TypeOK, DirsTyped, Whole
  <1> QED
    BY <1>1, <1>2, AtWork

LEMMA ClearKeeps ==
    ASSUME IInv, NEW w \in Workers, Clear(w)
    PROVE  IInv' /\ MarksKept
  <1>1. proc[w].at = "clear" /\ proc[w].at \in AtSample
    BY PointsAre DEF Clear
  <1>2. w \in Alive /\ DirsTyped
    BY <1>1, StepFacts
  <1>3. PICK s \in All : s = Sample(w)
    BY <1>1, StepFacts
  <1>4. dirs' = Without({Target(s)})
    BY <1>3 DEF Clear, Cleared
  <1>5. /\ DOMAIN dirs' = DOMAIN dirs \ {Target(s)} /\ DirsTyped'
        /\ \A i : (\A x \in Writers : Temporary(i, x) \notin {Target(s)}) => Same(i)
    BY <1>2, <1>4, WithoutKeeps
  <1>6. \A i : i # s => Same(i)
    BY <1>5, Names
  <1>7. NoTarget(s)'
    BY <1>5 DEF NoTarget
  <1>8. SampleAt(w, "sweep", s)'
    BY <1>7, PointsAre DEF SampleAt
  <1> QED
    BY <1>1, <1>2, <1>3, <1>5, <1>6, <1>8, SampleStepKeeps, PointsAre DEF Clear, Others

LEMMA SweepKeeps ==
    ASSUME IInv, NEW w \in Workers, Sweep(w)
    PROVE  IInv' /\ MarksKept
  <1>1. proc[w].at = "sweep" /\ proc[w].at \in AtSample
    BY PointsAre DEF Sweep
  <1>2. w \in Alive /\ DirsTyped
    BY <1>1, StepFacts
  <1>3. PICK s \in All : s = Sample(w) /\ NoTarget(s)
    BY <1>1, StepFacts, PointsAre DEF SampleAt
  <1>4. dirs' = Without(Swept(s))
    BY <1>3 DEF Sweep
  <1>5. /\ DOMAIN dirs' = DOMAIN dirs \ Swept(s) /\ DirsTyped'
        /\ \A i : (\A x \in Writers : Temporary(i, x) \notin Swept(s)) => Same(i)
    BY <1>2, <1>4, WithoutKeeps
  <1>6. \A i : i # s => Same(i)
    BY <1>5, Names DEF Swept
  <1>7. Clean(s)'
    BY <1>3, <1>5, Names DEF Clean, NoTarget, Swept
  <1>8. SampleAt(w, "instrument", s)'
    BY <1>7, PointsAre DEF SampleAt
  <1> QED
    BY <1>1, <1>2, <1>3, <1>5, <1>6, <1>8, SampleStepKeeps, PointsAre DEF Sweep, Others

LEMMA InstrumentKeeps ==
    ASSUME IInv, NEW w \in Workers, Instrument(w)
    PROVE  IInv' /\ MarksKept
  <1>1. proc[w].at = "instrument" /\ proc[w].at \in AtSample
    BY PointsAre DEF Instrument
  <1>2. w \in Alive /\ DirsTyped /\ w \in Writers
    BY <1>1, StepFacts
  <1>3. PICK s \in All : s = Sample(w) /\ Clean(s)
    BY <1>1, StepFacts, PointsAre DEF SampleAt
  <1>4. dirs' = Put(dirs, Temporary(s, w), NoFiles)
    BY <1>3 DEF Instrument, OwnTemporary
  <1>5. /\ DOMAIN dirs' = DOMAIN dirs \cup {Temporary(s, w)}
        /\ dirs'[Temporary(s, w)] = NoFiles
        /\ DirsTyped' /\ \A i : i # s => Same(i)
    <2>1. DOMAIN NoFiles = {}
      BY DEF NoFiles
    <2> QED
      BY <1>2, <1>4, <2>1, PutKeeps
  <1>6. \A c : Only(s, w, {}, c)'
    BY <1>3, <1>5, Names DEF Only, Clean, NoFiles
  <1>7. Before["risk"] = {} /\ ConfigOf(w)' = ConfigOf(w)
    BY DEF Before, ConfigOf, LaunchOf, Instrument, Others
  <1>8. SampleAt(w, "risk", s)'
    BY <1>6, <1>7, PointsAre DEF SampleAt
  <1> QED
    BY <1>1, <1>2, <1>3, <1>5, <1>8, SampleStepKeeps, PointsAre DEF Instrument, Others

LEMMA WriteRecordsKeeps ==
    ASSUME IInv, NEW w \in Workers, WriteRecords(w)
    PROVE  IInv' /\ MarksKept
  <1>1. PICK at \in Records : at = proc[w].at
    BY DEF WriteRecords
  <1>2. at \in AtSample /\ at \in DOMAIN Before /\ at \in Whole
    BY PointsAre DEF Records, Whole
  <1>3. w \in Alive /\ DirsTyped /\ w \in Writers
    BY <1>1, <1>2, StepFacts
  <1>4. PICK c \in Configs : c = ConfigOf(w)
    BY <1>1, <1>2, StepFacts
  <1>5. PICK s \in All : s = Sample(w) /\ Only(s, w, Before[at], c)
    BY <1>1, <1>2, <1>4, StepFacts DEF SampleAt
  <1>6. PICK files : files = Put([f \in Before[at] |-> c], at, c)
    OBVIOUS
  <1>7. files = [f \in Before[at] \cup {at} |-> c]
    BY <1>6 DEF Put
  <1>8. dirs' = Put(dirs, Temporary(s, w), files)
    BY <1>1, <1>4, <1>5, <1>6 DEF WriteRecords, Written, OwnTemporary, Only, Exists
  <1>9. Before[at] \subseteq Records /\ After[at] \in DOMAIN Before
        /\ Before[After[at]] = Before[at] \cup {at}
    BY DEF Before, Records, After
  <1>10. /\ DOMAIN dirs' = DOMAIN dirs \cup {Temporary(s, w)}
         /\ dirs'[Temporary(s, w)] = files
         /\ DirsTyped' /\ \A i : i # s => Same(i)
    <2>1. DOMAIN files \subseteq Whole /\ \A f \in DOMAIN files : files[f] \in Configs
      BY <1>2, <1>7, <1>9 DEF Whole
    <2> QED
      BY <1>3, <1>8, <2>1, PutKeeps
  <1>11. Only(s, w, Before[After[at]], c)'
    BY <1>5, <1>7, <1>9, <1>10, Names DEF Only
  <1>12. ConfigOf(w)' = c
    BY <1>4 DEF ConfigOf, LaunchOf, WriteRecords, Others
  <1>13. SampleAt(w, After[at], s)'
    <2>1. After[at] \notin {"clear", "sweep", "instrument", "DONE"}
      BY <1>9, PointsAre
    <2> QED
      BY <1>11, <1>12, <2>1 DEF SampleAt
  <1>14. After[at] \in AtSample
    BY <1>9, PointsAre
  <1>15. Goes(w, After[at]) /\ UNCHANGED <<runConfig, faults>> /\ Others
    BY <1>1 DEF WriteRecords, Others
  <1> QED
    BY <1>1, <1>2, <1>3, <1>5, <1>10, <1>13, <1>14, <1>15, SampleStepKeeps

LEMMA CheckTargetKeeps ==
    ASSUME IInv, NEW w \in Workers, CheckTarget(w)
    PROVE  IInv' /\ MarksKept
  <1>1. proc[w].at = "check" /\ proc[w].at \in AtSample
    BY PointsAre DEF CheckTarget
  <1>2. w \in Alive /\ DirsTyped /\ w \in Writers
    BY <1>1, StepFacts
  <1>3. PICK c : c = ConfigOf(w)
    OBVIOUS
  <1>4. PICK s \in All : s = Sample(w) /\ Only(s, w, Records, c)
    BY <1>1, <1>3, StepFacts, PointsAre DEF SampleAt, Before
  <1>5. NoTarget(s)
    BY <1>4, UnmarkedWhen
  <1>6. Goes(w, "rename") /\ UNCHANGED dirs
    BY <1>4, <1>5 DEF CheckTarget, Exists, NoTarget
  <1>7. \A i : Same(i)
    BY <1>6, UntouchedSame
  <1>8. Only(s, w, Records, c)'
    BY <1>2, <1>4, <1>7, SameKeeps
  <1>9. ConfigOf(w)' = c /\ Before["rename"] = Records
    BY <1>3 DEF ConfigOf, LaunchOf, CheckTarget, Others, Before
  <1>10. SampleAt(w, "rename", s)'
    BY <1>8, <1>9, PointsAre DEF SampleAt
  <1>11. DirsTyped'
    BY <1>2, <1>6 DEF DirsTyped
  <1> QED
    BY <1>1, <1>2, <1>4, <1>6, <1>7, <1>10, <1>11, SampleStepKeeps, PointsAre DEF CheckTarget, Others

LEMMA RenameKeeps ==
    ASSUME IInv, NEW w \in Workers, Rename(w)
    PROVE  IInv' /\ MarksKept
  <1>1. proc[w].at = "rename" /\ proc[w].at \in AtSample
    BY PointsAre DEF Rename
  <1>2. w \in Alive /\ DirsTyped /\ w \in Writers /\ NoWriter \in Writers /\ NoWriter # w
    BY <1>1, StepFacts, Names
  <1>3. PICK c : c = ConfigOf(w)
    OBVIOUS
  <1>4. PICK s \in All : s = Sample(w) /\ Only(s, w, Records, c)
    BY <1>1, <1>3, StepFacts, PointsAre DEF SampleAt, Before
  <1>5. NoTarget(s)
    BY <1>4, UnmarkedWhen
  <1>6. CanRename(w)
    BY <1>4, <1>5 DEF CanRename, Exists, NoTarget, Only, OwnTemporary
  <1>7. Goes(w, "DONE") /\ dirs' = Renamed(w)
    BY <1>6 DEF Rename
  <1>8. /\ DOMAIN dirs' = (DOMAIN dirs \ {Temporary(s, w)}) \cup {Target(s)}
        /\ dirs'[Target(s)] = dirs[Temporary(s, w)]
        /\ \A d \in DOMAIN dirs' : d # Target(s) => dirs'[d] = dirs[d]
    BY <1>4, <1>7 DEF Renamed, OwnTemporary
  <1>9. DirsTyped'
    BY <1>2, <1>4, <1>8, Names DEF DirsTyped, Only
  <1>10. \A i : i # s => Same(i)
    BY <1>8, Names DEF Same
  <1>11. Only(s, NoWriter, Records, c)'
    BY <1>2, <1>4, <1>8, Names DEF Only
  <1>12. ConfigOf(w)' = c
    BY <1>3 DEF ConfigOf, LaunchOf, Rename, Others
  <1>13. SampleAt(w, "DONE", s)'
    BY <1>11, <1>12, PointsAre DEF SampleAt
  <1> QED
    BY <1>1, <1>2, <1>4, <1>7, <1>9, <1>10, <1>13, SampleStepKeeps, PointsAre DEF Rename, Others

LEMMA MarkKeeps ==
    ASSUME IInv, NEW w \in Workers, Mark(w)
    PROVE  /\ IInv'
           /\ \E s \in All : /\ ~Marked(s) /\ Marked(s)'
                            /\ \A i \in All \ {s} : Marked(i)' <=> Marked(i)
  <1>1. proc[w].at = "DONE" /\ proc[w].at \in AtSample
    BY PointsAre DEF Mark
  <1>2. /\ w \in Alive /\ DirsTyped /\ NoWriter \in Writers
        /\ WorkerOK(w) /\ proc[w] \in Process /\ proc \in [Workers -> Process]
        /\ faults \in 0 .. MaxFaults
    BY <1>1, StepFacts, Names, AliveMine DEF IInv, TypeOK, Process
  <1>3. PICK c \in Configs : c = ConfigOf(w) /\ c # None
    BY <1>1, StepFacts, PixarcAssumption
  <1>4. PICK s \in Assigned(w) :
          /\ s \in All /\ s = Sample(w) /\ ~Marked(s) /\ Only(s, NoWriter, Records, c)
          /\ runConfig = c
    BY <1>1, <1>3, StepFacts, PointsAre DEF SampleAt
  <1>5. PICK files : files = Put([f \in Records |-> c], "DONE", c)
    OBVIOUS
  <1>6. files = [f \in Whole |-> c]
    BY <1>5 DEF Put, Whole
  <1>7. dirs' = Put(dirs, Temporary(s, NoWriter), files)
    BY <1>3, <1>4, <1>5, Names DEF Mark, Written, Only, Exists
  <1>8. /\ DOMAIN dirs' = DOMAIN dirs \cup {Temporary(s, NoWriter)}
        /\ dirs'[Temporary(s, NoWriter)] = files
        /\ DirsTyped' /\ \A i : i # s => Same(i)
    <2>1. DOMAIN files \subseteq Whole /\ \A f \in DOMAIN files : files[f] \in Configs
      BY <1>6
    <2> QED
      BY <1>2, <1>4, <1>7, <2>1, PutKeeps
  <1>9. Only(s, NoWriter, Whole, c)'
    BY <1>4, <1>6, <1>8 DEF Only
  <1>10. Marked(s)'
    BY <1>6, <1>8, Names DEF Marked, Has, Exists, Whole
  <1>11. Only(s, NoWriter, Whole, runConfig)'
    BY <1>4, <1>9 DEF Only, Mark
  <1>12. \A i \in All : Same(i) \/ Touched(w, i)
    BY <1>4, <1>8, <1>11 DEF Touched
  <1> DEFINE r == Worker("next", proc[w].todo, 0)
  <1>13. /\ r \in Process /\ r.at = "next" /\ proc' = [proc EXCEPT ![w] = r] /\ proc'[w] = r
    BY <1>2, Processes, PointsAre DEF Mark, BecomesWorker, Process
  <1>14. \A i \in Assigned(w) : Marked(i)' \/ i \in proc[w].todo
    <2> SUFFICES ASSUME NEW i \in Assigned(w) PROVE Marked(i)' \/ i \in proc[w].todo
      OBVIOUS
    <2>1. Marked(i) \/ i \in proc[w].todo \/ i = s
      BY <1>2, <1>4 DEF WorkerOK
    <2>2. Marked(i) /\ i # s => Marked(i)'
      BY <1>8, SameKeeps
    <2> QED
      BY <1>10, <2>1, <2>2
  <1>15. WorkerOK(w)'
    BY <1>2, <1>3, <1>4, <1>13, <1>14, OwnOK, PointsAre DEF Mark, Others, WorkerOK
  <1> HIDE DEF r
  <1>16. IInv'
    BY <1>2, <1>3, <1>4, <1>8, <1>12, <1>13, <1>15, WorkerStepKeeps DEF Mark, Others
  <1>17. \A i \in All \ {s} : Marked(i)' <=> Marked(i)
    BY <1>8, SameKeeps
  <1> QED
    BY <1>4, <1>10, <1>16, <1>17

\* A worker may end at any point.
LEMMA EndKeeps ==
    ASSUME IInv, NEW w \in Workers, Raise(w) \/ Kill(w) \/ Die(w)
    PROVE  IInv' /\ MarksKept
  <1>1. faults' \in 0 .. MaxFaults
    BY PixarcAssumption DEF IInv, TypeOK, Raise, Kill, Die, Fault
  <1>2. /\ w \in Alive /\ Fails(w)
        /\ UNCHANGED <<runConfig, merged, status, runs, launcher, signalled>>
        /\ dirs' = dirs \/ dirs' = Aborted(w)
    BY DEF Raise, Kill, Die, disk
  <1> QED
    BY <1>1, <1>2, FailKeeps

-----------------------------------------------------------------------------
(* The launcher and the merge *)

LEMMA LaunchFacts ==
    ASSUME IInv, launcher.at # "returned"
    PROVE  /\ Current > 0 /\ Current \in 1 .. MaxLaunches /\ Current \in 1 .. Len(runs)
           /\ This \in Launches /\ This.config \in Configs
           /\ Layout[This.config].shards \in 1 .. MaxShards
           /\ <<Current, 0>> \in Mine
           /\ \A s \in Shards(Layout[This.config].shards) :
                <<Current, s>> \in Mine /\ s \in Shards(MaxShards)
  <1>1. runs \in Seq(Launches) /\ Len(runs) <= MaxLaunches /\ Current > 0
    BY DEF IInv, TypeOK, ProcessesOK
  <1>2. Current \in 1 .. MaxLaunches /\ Current \in 1 .. Len(runs)
    BY <1>1, PixarcAssumption DEF Current
  <1>3. This \in Launches
    BY <1>1, <1>2 DEF This
  <1>4. This.config \in Configs
    BY <1>3, PixarcAssumption
  <1>5. Layout[This.config].shards \in 1 .. MaxShards
    BY <1>4, PixarcAssumption
  <1>6. \A s \in Shards(Layout[This.config].shards) :
          <<Current, s>> \in Mine /\ s \in Shards(MaxShards)
    BY <1>2, <1>5, PixarcAssumption DEF Mine, Workers, Shards
  <1>7. 0 \in Shards(Layout[This.config].shards)
    BY <1>5, PixarcAssumption DEF Shards
  <1> QED
    BY <1>1, <1>2, <1>3, <1>4, <1>5, <1>6, <1>7

\* A step that leaves the workers, the samples and the launches alone.
LEMMA WorkersKeep ==
    ASSUME IInv, UNCHANGED <<runConfig, dirs, runs, proc>>, TypeOK', ProcessesOK', MergeOK'
    PROVE  IInv'
  <1>1. \A i : Same(i)
    BY UntouchedSame
  <1>2. ASSUME NEW v \in Workers, Engaged(v)'
        PROVE  WorkerOK(v)'
    <2>1. v \in Mine /\ Engaged(v)
      BY <1>2 DEF Engaged, Mine, This, Current
    <2>2. WorkerOK(v) /\ Assigned(v) \subseteq All
      BY <2>1, AssignedIsDealt DEF IInv
    <2> QED
      BY <1>1, <2>2, BystanderOK
  <1>3. ASSUME NEW i \in All
        PROVE  MarkIsSound(i)'
    <2>1. MarkIsSound(i) /\ (Marked(i)' <=> Marked(i))
      BY <1>1, SameKeeps DEF IInv
    <2>2. \A c : Only(i, NoWriter, Whole, c) => Only(i, NoWriter, Whole, c)'
      BY <1>1, SameKeeps, Names
    <2> QED
      BY <2>1, <2>2 DEF MarkIsSound, Only
  <1> QED
    BY <1>2, <1>3 DEF IInv

LEMMA CurrentKept ==
    ASSUME UNCHANGED runs
    PROVE  Current' = Current /\ This' = This /\ Mine' = Mine /\ Everything' = Everything
  BY DEF Current, This, Mine, Everything

LEMMA MinesAlive ==
    ASSUME IInv, Running = {}
    PROVE  Alive = {}
  BY DEF IInv, ProcessesOK, Running

\* The launcher goes on to another point, with nothing to spawn or merge there.
LEMMA StopKeeps ==
    ASSUME IInv, UNCHANGED <<runConfig, dirs, runs, proc, merged>>, launcher.at # "returned",
           NEW at \in {"aborting", "stopping", "returned"}, BecomesLauncher(at),
           status' \in Statuses \ {"complete"} \/ (status' = status /\ at # "returned"),
           signalled' \subseteq Workers, faults' \in 0 .. MaxFaults,
           at = "returned" => Alive = {},
           at = "stopping" => launcher.at = "poll"
    PROVE  IInv'
  <1>1. /\ launcher' = [at |-> at, next |-> 0, read |-> {}]
        /\ launcher'.at = at /\ at \in LauncherPoints
    BY DEF BecomesLauncher, LauncherPoints
  <1>2. 0 \in Shards(MaxShards)
    BY PixarcAssumption DEF Shards
  <1>3. TypeOK /\ ProcessesOK /\ MergeOK
    BY DEF IInv
  <1>4. TypeOK'
    BY <1>1, <1>2, <1>3 DEF TypeOK
  <1>5. /\ Current' = Current /\ This' = This /\ Mine' = Mine /\ Alive' = Alive
    BY CurrentKept DEF Alive
  <1>6. ProcessesOK'
    BY <1>1, <1>3, <1>5 DEF ProcessesOK, Serving, Merging
  <1>7. MergeOK'
    BY <1>1, <1>3 DEF MergeOK
  <1> QED
    BY <1>4, <1>6, <1>7, WorkersKeep

LEMMA SignalKeeps ==
    ASSUME IInv, PopenFails \/ AbortDone \/ PollFailure \/ MergeDies
    PROVE  IInv'
  <1>1. /\ TypeOK /\ ProcessesOK
        /\ Running \subseteq Workers
        /\ (faults' = faults \/ Fault => faults' \in 0 .. MaxFaults)
    BY PixarcAssumption DEF IInv, Running, Mine, TypeOK, Fault
  <1>2. CASE PopenFails
    BY <1>1, <1>2, StopKeeps DEF PopenFails, disk, TypeOK
  <1>3. CASE AbortDone
    <2>1. Alive = {}
      BY <1>3, MinesAlive DEF AbortDone
    <2> QED
      BY <1>1, <1>3, <2>1, StopKeeps DEF AbortDone, disk, TypeOK, Statuses
  <1>4. CASE PollFailure
    BY <1>1, <1>4, StopKeeps DEF PollFailure, disk, TypeOK
  <1>5. CASE MergeDies
    <2>1. Alive = {}
      BY <1>1, <1>5 DEF MergeDies, ProcessesOK, Serving
    <2> QED
      BY <1>1, <1>5, <2>1, StopKeeps DEF MergeDies, disk, TypeOK, Statuses
  <1> QED
    BY <1>2, <1>3, <1>4, <1>5

LEMMA CollectKeeps ==
    ASSUME IInv, Collect
    PROVE  IInv'
  <1>1. /\ TypeOK /\ ProcessesOK /\ MergeOK /\ Alive = {}
        /\ launcher.at \in {"poll", "stopping"} /\ faults \in 0 .. MaxFaults
        /\ signalled \subseteq Workers
    BY MinesAlive DEF IInv, Collect, Ended, TypeOK
  <1>2. CASE BecomesLauncher("returned") /\ status' \in {"worker_failed", "complete_without_merge"}
    BY <1>1, <1>2, StopKeeps DEF Collect, disk, Statuses
  <1>3. CASE ~SomeFailed /\ BecomesLauncher("merge") /\ status' = "workers_succeeded"
    <2>1. /\ launcher' = [at |-> "merge", next |-> 0, read |-> {}] /\ launcher'.at = "merge"
          /\ "merge" \in LauncherPoints /\ 0 \in Shards(MaxShards)
      BY <1>3, PixarcAssumption DEF BecomesLauncher, LauncherPoints, Shards
    <2>2. TypeOK'
      BY <1>1, <1>3, <2>1 DEF TypeOK, Collect, disk, Statuses
    <2>3. UNCHANGED <<runConfig, dirs, runs, proc, merged>>
      BY DEF Collect, disk
    <2>4. /\ Current' = Current /\ This' = This /\ Mine' = Mine /\ Alive' = Alive
      BY <2>3, CurrentKept DEF Alive
    <2>5. \A w \in Mine : proc[w].at = "ok"
      <3> SUFFICES ASSUME NEW w \in Mine PROVE proc[w].at = "ok"
        OBVIOUS
      <3>1. w \in Workers /\ w \notin Alive
        BY <1>1 DEF Mine
      <3>2. proc[w].at \in {"absent", "ok", "failed"}
        BY <3>1 DEF Alive, Exited
      <3>3. proc[w].at # "absent" /\ proc[w].at # "failed"
        BY <1>1, <1>3 DEF ProcessesOK, SomeFailed
      <3> QED
        BY <3>2, <3>3
    <2>6. ProcessesOK'
      BY <1>1, <2>1, <2>3, <2>4, <2>5 DEF ProcessesOK
    <2>7. MergeOK'
      BY <1>3, <2>1 DEF MergeOK
    <2> QED
      BY <2>2, <2>3, <2>6, <2>7, WorkersKeep
  <1> QED
    BY <1>2, <1>3 DEF Collect

\* When the merge starts, every sample is marked, under this configuration.
LEMMA AllMarked ==
    ASSUME IInv, launcher.at \in Merging
    PROVE  /\ runConfig = This.config /\ runConfig \in Configs
           /\ \A i \in All : Marked(i) /\ Only(i, NoWriter, Whole, This.config)
  <1>1. launcher.at # "returned"
    BY DEF Merging
  <1>2. TypeOK /\ ProcessesOK /\ \A w \in Mine : proc[w].at = "ok"
    BY DEF IInv, ProcessesOK
  <1>3. \A w \in Mine : WorkerOK(w) /\ ConfigOf(w) = This.config
    BY <1>2, MineFacts DEF IInv, Engaged
  <1>4. \A w \in Mine : runConfig = This.config /\ \A i \in Assigned(w) : Marked(i)
    BY <1>2, <1>3, PointsAre DEF WorkerOK
  <1>5. runConfig = This.config /\ This.config \in Configs
    BY <1>1, <1>4, LaunchFacts
  <1>6. \A i \in All : Marked(i)
    BY <1>1, <1>2, <1>4, LaunchFacts, AssignedAll
  <1> QED
    BY <1>5, <1>6 DEF IInv, MarkIsSound

LEMMA CollectedIsEverything ==
    ASSUME IInv, launcher.at \in Merging
    PROVE  MergeAccepts /\ Collected = Everything
  <1>1. /\ runConfig = This.config /\ runConfig \in Configs /\ runConfig # None
        /\ \A i \in All : Marked(i) /\ Only(i, NoWriter, Whole, This.config)
    BY AllMarked, PixarcAssumption
  <1>2. \A i \in All : /\ Target(i) \in DOMAIN dirs
                       /\ dirs[Target(i)] = [f \in Whole |-> This.config]
    BY <1>1, Names DEF Only
  <1>3. Records \subseteq Whole /\ "DONE" \in Whole
    BY DEF Whole
  <1>4. \A i \in All, f \in Records : dirs[Target(i)][f] = This.config
    BY <1>2, <1>3
  <1>5. MergeAccepts
    BY <1>1, <1>2, <1>3 DEF MergeAccepts, Acceptable, Has, Exists
  <1>6. Collected = {<<i, f, This.config>> : i \in All, f \in Records}
    BY <1>4 DEF Collected
  <1>7. Collected = Everything
    BY <1>6 DEF Everything
  <1> QED
    BY <1>5, <1>7

LEMMA MergeKeeps ==
    ASSUME IInv, CollectRecords \/ PublishRecords \/ PublishSummary
    PROVE  IInv'
  <1>1. /\ TypeOK /\ ProcessesOK /\ MergeOK
        /\ launcher.at \in Merging /\ launcher.at # "returned"
    BY DEF IInv, CollectRecords, PublishRecords, PublishSummary, Merging
  <1>2. UNCHANGED <<runConfig, dirs, runs, proc, signalled, faults>>
    BY DEF CollectRecords, PublishRecords, PublishSummary, disk
  <1>3. /\ Current' = Current /\ This' = This /\ Mine' = Mine /\ Alive' = Alive
        /\ Everything' = Everything
    BY <1>2, CurrentKept DEF Alive
  <1>4. Everything \in SUBSET (All \X Records \X Configs) /\ 0 \in Shards(MaxShards)
    BY <1>1, LaunchFacts, PixarcAssumption DEF Everything, Shards
  <1>5. /\ launcher \in [at : LauncherPoints, next : Shards(MaxShards),
                         read : SUBSET (All \X Records \X Configs)]
        /\ merged \in [records : SUBSET (All \X Records \X Configs),
                       summary : SUBSET (All \X Records \X Configs)]
        /\ status \in Statuses
    BY <1>1 DEF TypeOK
  <1>6. \A i \in All : Marked(i)
    BY <1>1, AllMarked
  <1>7. CASE CollectRecords
    <2>1. Collected = Everything
      BY <1>1, CollectedIsEverything
    <2>2. /\ launcher' = [at |-> "records", next |-> 0, read |-> Everything]
          /\ UNCHANGED <<merged, status>>
      BY <1>7, <2>1 DEF CollectRecords, disk
    <2>3. TypeOK'
      BY <1>1, <1>2, <1>4, <2>2 DEF TypeOK, LauncherPoints
    <2>4. ProcessesOK' /\ MergeOK'
      BY <1>1, <1>2, <1>3, <2>2 DEF ProcessesOK, MergeOK, Serving, Merging
    <2> QED
      BY <1>2, <2>3, <2>4, WorkersKeep
  <1>8. CASE PublishRecords
    <2>1. /\ launcher'.at = "summary" /\ launcher'.next = launcher.next
          /\ launcher'.read = launcher.read
          /\ launcher' \in [at : LauncherPoints, next : Shards(MaxShards),
                            read : SUBSET (All \X Records \X Configs)]
          /\ launcher.at = "records" /\ launcher.read = Everything /\ UNCHANGED status
      BY <1>1, <1>5, <1>8 DEF PublishRecords, MergeOK, LauncherPoints
    <2>2. /\ merged'.records = Everything /\ merged'.summary = merged.summary
          /\ merged' \in [records : SUBSET (All \X Records \X Configs),
                          summary : SUBSET (All \X Records \X Configs)]
      BY <1>4, <1>5, <1>8, <2>1 DEF PublishRecords
    <2>3. TypeOK'
      BY <1>1, <1>2, <2>1, <2>2 DEF TypeOK
    <2>4. ProcessesOK'
      BY <1>1, <1>2, <1>3, <2>1 DEF ProcessesOK, Serving, Merging
    <2>5. MergeOK'
      BY <1>1, <1>3, <2>1, <2>2 DEF MergeOK
    <2> QED
      BY <1>2, <2>3, <2>4, <2>5, WorkersKeep
  <1>9. CASE PublishSummary
    <2>1. /\ launcher' = [at |-> "returned", next |-> 0, read |-> {}]
          /\ launcher.at = "summary" /\ launcher.read = Everything
          /\ merged.records = Everything /\ status' = "complete"
      BY <1>1, <1>9 DEF PublishSummary, MergeOK, BecomesLauncher
    <2>2. /\ merged'.records = Everything /\ merged'.summary = Everything
          /\ merged' \in [records : SUBSET (All \X Records \X Configs),
                          summary : SUBSET (All \X Records \X Configs)]
      BY <1>4, <1>5, <1>9, <2>1 DEF PublishSummary
    <2>3. TypeOK'
      BY <1>1, <1>2, <1>4, <2>1, <2>2 DEF TypeOK, LauncherPoints, Statuses
    <2>4. ProcessesOK'
      BY <1>1, <1>2, <1>3, <2>1 DEF ProcessesOK, Serving, Merging
    <2>5. \A i \in All : Marked(i)'
      BY <1>2, <1>6, UntouchedSame, SameKeeps
    <2>6. MergeOK'
      BY <1>1, <1>3, <2>1, <2>2, <2>5 DEF MergeOK, ProcessesOK
    <2> QED
      BY <1>2, <2>3, <2>4, <2>6, WorkersKeep
  <1> QED
    BY <1>7, <1>8, <1>9

LEMMA SpawnKeeps ==
    ASSUME IInv, Spawn
    PROVE  IInv'
  <1> DEFINE k == Layout[This.config].shards
             w == <<Current, launcher.next>>
             r == Worker("start", Assigned(w), 0)
             last == launcher.next + 1 = k
  <1>1. /\ TypeOK /\ ProcessesOK /\ MergeOK /\ launcher.at = "spawn"
        /\ UNCHANGED <<runConfig, dirs, merged, status, runs, signalled, faults>>
    BY DEF IInv, Spawn, disk
  <1>2. launcher.next \in Shards(k)
    BY <1>1 DEF ProcessesOK
  <1>3. w \in Mine /\ launcher.next \in Shards(MaxShards) /\ k \in 1 .. MaxShards /\ w \in Workers
    BY <1>1, <1>2, LaunchFacts DEF Mine
  <1>4. /\ proc' = [proc EXCEPT ![w] = r]
        /\ launcher' = [at |-> IF last THEN "poll" ELSE "spawn",
                        next |-> IF last THEN 0 ELSE launcher.next + 1, read |-> {}]
    BY DEF Spawn, BecomesWorker
  <1>5. Assigned(w) \subseteq All
    BY <1>1, <1>3, AssignedIsDealt
  <1>6. r \in Process /\ r.at = "start" /\ r.todo = Assigned(w)
    BY <1>5, Processes, PointsAre
  <1>7. /\ proc' \in [Workers -> Process] /\ proc'[w] = r
        /\ \A v \in Workers : v # w => proc'[v] = proc[v]
    BY <1>1, <1>3, <1>4, <1>6 DEF TypeOK, Process
  <1>8. /\ Current' = Current /\ This' = This /\ Mine' = Mine /\ Everything' = Everything
    BY <1>1, CurrentKept
  <1>9. \A i : Same(i)
    BY <1>1, UntouchedSame
  <1>10. /\ w[1] = Current /\ w[2] = launcher.next
         /\ \A v \in Mine : v # w => v[2] # launcher.next
    BY <1>1, MineFacts
  <1>11. ASSUME NEW v \in Workers, Engaged(v)'
         PROVE  WorkerOK(v)'
    <2>1. CASE v = w
      <3>1. Assigned(v)' = Assigned(v) /\ ConfigOf(v)' = ConfigOf(v)
        BY <1>1 DEF Assigned, ConfigOf, LaunchOf
      <3> HIDE DEF r, w
      <3> QED
        BY <1>6, <1>7, <2>1, <3>1, PointsAre DEF WorkerOK
    <2>2. CASE v # w
      <3> HIDE DEF r, w
      <3>1. v \in Mine /\ Engaged(v) /\ WorkerOK(v)
        BY <1>7, <1>8, <1>11, <2>2 DEF Engaged, IInv
      <3>2. Assigned(v) \subseteq All
        BY <1>1, <3>1, AssignedIsDealt
      <3> QED
        BY <1>1, <1>7, <1>9, <2>2, <3>1, <3>2, BystanderOK
    <2> QED
      BY <2>1, <2>2
  <1>12. ASSUME NEW i \in All
         PROVE  MarkIsSound(i)'
    <2>1. MarkIsSound(i) /\ (Marked(i)' <=> Marked(i))
      BY <1>9, SameKeeps DEF IInv
    <2>2. \A c : Only(i, NoWriter, Whole, c) => Only(i, NoWriter, Whole, c)'
      BY <1>9, SameKeeps, Names
    <2> QED
      BY <1>1, <2>1, <2>2 DEF MarkIsSound, Only
  <1>13. /\ launcher'.at \in {"poll", "spawn"} /\ launcher'.next \in Shards(MaxShards)
         /\ launcher'.at = "spawn" => /\ launcher'.next = launcher.next + 1
                                      /\ launcher'.next \in Shards(k)
         /\ launcher'.at = "poll" => launcher.next + 1 = k
         /\ launcher'.read = {}
    <2>1. k \in Nat /\ MaxShards \in Nat /\ k <= MaxShards /\ launcher.next \in 0 .. k - 1
      BY <1>2, <1>3, PixarcAssumption DEF Shards
    <2> HIDE DEF k
    <2> QED
      BY <1>4, <2>1 DEF Shards
  <1>14. TypeOK'
    <2>1. launcher' \in [at : LauncherPoints, next : Shards(MaxShards),
                         read : SUBSET (All \X Records \X Configs)]
      BY <1>4, <1>13 DEF LauncherPoints
    <2> QED
      BY <1>1, <1>7, <2>1 DEF TypeOK, Process
  <1>15. ProcessesOK'
    <2> HIDE DEF r, w
    <2>1. \A v \in Workers : v[1] > Current => proc'[v].at = "absent"
      BY <1>1, <1>3, <1>7, <1>10, LaunchFacts DEF ProcessesOK
    <2>2. Alive' \subseteq Mine
      BY <1>1, <1>3, <1>7 DEF ProcessesOK, Alive
    <2>3. \A v \in Mine : proc'[v].at = "absent" <=> v[2] >= launcher.next + 1
      <3> SUFFICES ASSUME NEW v \in Mine
                   PROVE  proc'[v].at = "absent" <=> v[2] >= launcher.next + 1
        OBVIOUS
      <3>1. v \in Workers /\ v[2] \in Nat /\ launcher.next \in Nat
        BY <1>1, <1>2, MineFacts DEF Shards
      <3>2. proc[v].at = "absent" <=> v[2] >= launcher.next
        BY <1>1 DEF ProcessesOK
      <3> QED
        BY <1>6, <1>7, <1>10, <3>1, <3>2
    <2>4. launcher.next + 1 = k => \A v \in Mine : proc'[v].at # "absent"
      BY <1>1, <1>2, <2>3, MineFacts DEF Shards
    <2>5. Current > 0
      BY <1>1, LaunchFacts
    <2> QED
      BY <1>8, <1>13, <2>1, <2>2, <2>3, <2>4, <2>5 DEF ProcessesOK, Serving, Merging
  <1>16. MergeOK'
    BY <1>1, <1>13 DEF MergeOK
  <1> QED
    BY <1>1, <1>11, <1>12, <1>14, <1>15, <1>16 DEF IInv

\* A launch ends every worker, or starts when none is left: only what is marked
\* carries over.
LEMMA NobodyLeft ==
    ASSUME IInv, TypeOK', ProcessesOK', MergeOK', UNCHANGED runConfig,
           DOMAIN dirs' \subseteq DOMAIN dirs,
           \A i \in All : /\ Marked(i)' => Marked(i)
                          /\ Marked(i) => Same(i),
           \A v \in Workers : Engaged(v)' => WorkerOK(v)'
    PROVE  IInv'
  <1>1. ASSUME NEW i \in All
        PROVE  MarkIsSound(i)'
    <2> SUFFICES ASSUME Marked(i)' PROVE Only(i, NoWriter, Whole, runConfig)'
      BY DEF MarkIsSound
    <2>1. Same(i) /\ Only(i, NoWriter, Whole, runConfig)
      BY DEF IInv, MarkIsSound
    <2>2. \A c : Only(i, NoWriter, Whole, c) => Only(i, NoWriter, Whole, c)'
      BY <2>1, SameKeeps, Names
    <2> QED
      BY <2>1, <2>2 DEF Only
  <1> QED
    BY <1>1 DEF IInv

LEMMA InterruptKeeps ==
    ASSUME IInv, Interrupt
    PROVE  IInv' /\ MarksKept
  <1> DEFINE gone == {OwnTemporary(w) : w \in {v \in Running : proc[v].at \in Committing}}
             r == Worker("failed", {}, 0)
  <1>1. /\ TypeOK /\ ProcessesOK /\ MergeOK /\ launcher.at # "returned" /\ DirsTyped
        /\ UNCHANGED <<runConfig, merged, status, runs, signalled>>
        /\ faults' \in 0 .. MaxFaults
    BY PixarcAssumption DEF IInv, Interrupt, TypeOK, DirsTyped, Whole, Fault
  <1>2. /\ proc' = [w \in Workers |-> IF w \in Running THEN r ELSE proc[w]]
        /\ dirs' = Without(gone)
        /\ launcher' = [at |-> "returned", next |-> 0, read |-> {}]
    BY DEF Interrupt, BecomesLauncher
  <1>3. r \in Process /\ r.at = "failed"
    BY Processes, PointsAre
  <1>4. /\ proc' \in [Workers -> Process]
        /\ \A w \in Workers : w \in Running => proc'[w] = r
        /\ \A w \in Workers : w \notin Running => proc'[w] = proc[w]
        /\ Running \subseteq Workers /\ Alive \subseteq Running
    <2>1. proc \in [Workers -> Process]
      BY <1>1 DEF TypeOK, Process
    <2> HIDE DEF r
    <2> QED
      BY <1>1, <1>2, <1>3, <2>1 DEF Running, Mine, ProcessesOK
  <1>5. \A w \in Workers : proc'[w].at \in Exited /\ (proc'[w].at # "failed" => w \notin Alive)
    <2> HIDE DEF r
    <2> QED
      BY <1>3, <1>4, PointsAre DEF Alive
  <1>6. \A w \in Workers : proc'[w].at = "absent" <=> proc[w].at = "absent"
    <2> HIDE DEF r
    <2> QED
      BY <1>3, <1>4 DEF Running, Alive, Exited
  <1>7. \A d \in gone : \E s, w : w \in Workers /\ d = Temporary(s, w) /\ w \in Running
                                  /\ s = Sample(w) /\ proc[w].at \in Committing
    BY <1>4 DEF OwnTemporary
  <1> HIDE DEF gone, r
  <1>8. /\ DOMAIN dirs' = DOMAIN dirs \ gone /\ DirsTyped'
        /\ \A d \in DOMAIN dirs' : dirs'[d] = dirs[d]
    BY <1>1, <1>2, WithoutKeeps
  <1>9. \A i : Target(i) \notin gone
    BY <1>7, Names
  <1>10. ASSUME NEW i \in All
         PROVE  (Marked(i)' => Marked(i)) /\ (Marked(i) => Same(i))
    <2>1. Marked(i)' => Marked(i)
      BY <1>8 DEF Marked, Has, Exists
    <2>2. ASSUME Marked(i) PROVE Same(i)
      <3>1. \A y \in Writers : Temporary(i, y) \in DOMAIN dirs => y = NoWriter
        BY <2>2 DEF IInv, MarkIsSound, Only
      <3> QED
        BY <1>8, <1>9, <3>1, Names DEF Same
    <2> QED
      BY <2>1, <2>2
  <1>11. /\ Current' = Current /\ This' = This /\ Mine' = Mine
    BY <1>1, CurrentKept
  <1>12. ASSUME NEW v \in Workers, Engaged(v)'
         PROVE  WorkerOK(v)'
    <2>1. v \in Mine /\ v \notin Alive /\ proc'[v].at \notin {"absent", "failed"}
      BY <1>5, <1>11, <1>12 DEF Engaged
    <2>2. v \notin Running /\ proc'[v] = proc[v]
      BY <1>4, <2>1 DEF Running
    <2>3. proc[v].at = "ok" /\ proc[v].at \notin AtSample
      BY <2>1, <2>2, <1>5, PointsAre DEF Exited
    <2>4. WorkerOK(v)
      BY <2>1, <2>2 DEF Engaged, IInv
    <2>5. Assigned(v) \subseteq All
      BY <1>1, <2>1, AssignedIsDealt
    <2>6. /\ Assigned(v)' = Assigned(v) /\ ConfigOf(v)' = ConfigOf(v)
      BY <1>1 DEF Assigned, ConfigOf, LaunchOf
    <2>7. \A i \in Assigned(v) : Marked(i)'
      <3>1. \A i \in Assigned(v) : Marked(i)
        BY <2>3, <2>4 DEF WorkerOK
      <3> QED
        BY <1>10, <2>5, <3>1, SameKeeps
    <2> QED
      BY <1>1, <2>2, <2>3, <2>4, <2>6, <2>7 DEF WorkerOK
  <1>13. TypeOK'
    <2>1. launcher' \in [at : LauncherPoints, next : Shards(MaxShards),
                         read : SUBSET (All \X Records \X Configs)]
      BY <1>2, PixarcAssumption DEF LauncherPoints, Shards
    <2> QED
      BY <1>1, <1>4, <1>8, <2>1 DEF TypeOK, Process, DirsTyped, Whole
  <1>14. ProcessesOK'
    <2>1. Alive' = {}
      BY <1>5 DEF Alive
    <2>2. \A w \in Workers : w[1] > Current => proc'[w].at = "absent"
      BY <1>1, <1>6 DEF ProcessesOK
    <2> QED
      BY <1>2, <1>11, <2>1, <2>2 DEF ProcessesOK, Serving, Merging
  <1>15. MergeOK'
    BY <1>1, <1>2 DEF MergeOK
  <1>16. MarksKept
    BY <1>10, SameKeeps DEF MarksKept
  <1> QED
    BY <1>1, <1>8, <1>10, <1>12, <1>13, <1>14, <1>15, <1>16, NobodyLeft

LEMMA LaunchAgainKeeps ==
    ASSUME IInv, NEW l \in Launches, LaunchAgain(l)
    PROVE  IInv'
  <1>1. /\ TypeOK /\ ProcessesOK /\ Alive = {}
        /\ runs \in Seq(Launches) /\ Len(runs) < MaxLaunches
        /\ UNCHANGED <<runConfig, dirs, merged, proc, signalled, faults>>
    BY DEF IInv, TypeOK, ProcessesOK, LaunchAgain, Serving, disk, Current
  <1>2. /\ runs' = Append(runs, l) /\ status' = "running"
        /\ launcher' = [at |-> "spawn", next |-> 0, read |-> {}]
    BY DEF LaunchAgain, BecomesLauncher
  <1>3. /\ runs' \in Seq(Launches) /\ Len(runs') = Len(runs) + 1 /\ Len(runs) \in Nat
        /\ This' = l
    BY <1>1, <1>2 DEF This, Current
  <1>4. Current \in Nat /\ Current' = Current + 1
    BY <1>3 DEF Current
  <1>5. Layout[l.config].shards \in 1 .. MaxShards
    BY PixarcAssumption
  <1>6. TypeOK'
    <2>1. launcher' \in [at : LauncherPoints, next : Shards(MaxShards),
                         read : SUBSET (All \X Records \X Configs)]
      BY <1>2, PixarcAssumption DEF LauncherPoints, Shards
    <2> QED
      BY <1>1, <1>2, <1>3, <2>1, PixarcAssumption DEF TypeOK, Statuses
  <1>7. \A w \in Workers : w[1] \in Nat /\ w[2] \in Nat
    BY PixarcAssumption DEF Workers, Shards
  <1>8. \A w \in Workers : w[1] > Current => proc[w].at = "absent"
    BY <1>1 DEF ProcessesOK
  <1>9. Mine' \subseteq Workers /\ \A w \in Mine' : w[1] = Current + 1
    BY <1>4 DEF Mine
  <1>10. \A w \in Mine' : proc[w].at = "absent" /\ w[2] >= 0
    BY <1>4, <1>7, <1>8, <1>9
  <1>11. ProcessesOK'
    <2>1. Alive' = {}
      BY <1>1 DEF Alive
    <2>2. \A w \in Workers : w[1] > Current + 1 => proc[w].at = "absent"
      BY <1>4, <1>7, <1>8
    <2>3. 0 \in Shards(Layout[l.config].shards)
      BY <1>5, PixarcAssumption DEF Shards
    <2> QED
      BY <1>1, <1>2, <1>3, <1>4, <1>10, <2>1, <2>2, <2>3 DEF ProcessesOK, Serving, Merging
  <1>12. MergeOK'
    BY <1>2 DEF MergeOK
  <1>13. \A v \in Workers : ~Engaged(v)'
    BY <1>1, <1>10 DEF Engaged
  <1>14. \A i \in All : (Marked(i)' => Marked(i)) /\ Same(i)
    BY <1>1, UntouchedSame, SameKeeps
  <1> QED
    BY <1>1, <1>6, <1>11, <1>12, <1>13, <1>14, NobodyLeft

-----------------------------------------------------------------------------
(* The theorems *)

LEMMA InitIInv == Init => IInv
  <1> SUFFICES ASSUME Init PROVE IInv
    OBVIOUS
  <1>1. /\ DOMAIN dirs = {} /\ runs = <<>> /\ Current = 0
        /\ launcher = [at |-> "returned", next |-> 0, read |-> {}] /\ status = "none"
    BY DEF Init, NoFiles, Current
  <1>2. /\ proc \in [Workers -> Process]
        /\ \A w \in Workers : proc[w].at = "absent"
    <2>1. Worker("absent", {}, 0) \in Process /\ Worker("absent", {}, 0).at = "absent"
      BY Processes, PointsAre
    <2> QED
      BY <2>1 DEF Init
  <1>3. TypeOK
    <2>1. launcher \in [at : LauncherPoints, next : Shards(MaxShards),
                        read : SUBSET (All \X Records \X Configs)]
      BY <1>1, PixarcAssumption DEF LauncherPoints, Shards
    <2>2. merged \in [records : SUBSET (All \X Records \X Configs),
                      summary : SUBSET (All \X Records \X Configs)]
      BY DEF Init, NothingMerged
    <2> QED
      BY <1>1, <1>2, <2>1, <2>2, PixarcAssumption DEF TypeOK, Process, Statuses, Init
  <1>4. Alive = {} /\ \A w \in Workers : ~Engaged(w)
    BY <1>2 DEF Alive, Exited, Engaged
  <1>5. ProcessesOK
    BY <1>1, <1>2, <1>4 DEF ProcessesOK, Serving, Merging
  <1>6. \A i \in All : MarkIsSound(i)
    BY <1>1 DEF MarkIsSound, Marked, Has, Exists
  <1>7. MergeOK
    BY <1>1 DEF MergeOK
  <1> QED
    BY <1>1, <1>3, <1>4, <1>5, <1>6, <1>7 DEF IInv

LEMMA StutterKeeps ==
    ASSUME IInv, UNCHANGED vars
    PROVE  IInv'
  <1>1. UNCHANGED <<runConfig, dirs, merged, status, runs, launcher, proc, signalled, faults>>
    BY DEF vars, disk
  <1>2. TypeOK'
    BY <1>1 DEF IInv, TypeOK
  <1>3. /\ Current' = Current /\ This' = This /\ Mine' = Mine /\ Alive' = Alive
        /\ Everything' = Everything
    BY <1>1, CurrentKept DEF Alive
  <1>4. ProcessesOK'
    BY <1>1, <1>3 DEF IInv, ProcessesOK
  <1>5. \A i \in All : Marked(i) => Marked(i)'
    BY <1>1, UntouchedSame, SameKeeps
  <1>6. MergeOK'
    BY <1>1, <1>3, <1>5 DEF IInv, MergeOK
  <1> QED
    BY <1>1, <1>2, <1>4, <1>6, WorkersKeep

\* The invariant holds in every state of every run.
THEOREM Invariance == Spec => []IInv
  <1>1. IInv /\ [Next]_vars => IInv'
    <2> SUFFICES ASSUME IInv, [Next]_vars PROVE IInv'
      OBVIOUS
    <2>1. CASE UNCHANGED vars
      BY <2>1, StutterKeeps
    <2>2. ASSUME NEW w \in Workers, WorkerStep(w) PROVE IInv'
      BY <2>2, CheckConfigKeeps, WriteConfigKeeps, ReconcileKeeps, ClearKeeps, SweepKeeps,
         InstrumentKeeps, WriteRecordsKeeps, CheckTargetKeeps, RenameKeeps, MarkKeeps,
         FinishKeeps DEF WorkerStep
    <2>3. ASSUME NEW w \in Workers, Die(w) \/ Raise(w) \/ Kill(w) PROVE IInv'
      BY <2>3, EndKeeps
    <2>4. ASSUME NEW l \in Launches, LaunchAgain(l) PROVE IInv'
      BY <2>4, LaunchAgainKeeps
    <2>5. CASE LauncherStep
      BY <2>5, SpawnKeeps, SignalKeeps, CollectKeeps, MergeKeeps DEF LauncherStep
    <2>6. CASE PopenFails \/ Interrupt \/ MergeDies
      BY <2>6, SignalKeeps, InterruptKeeps
    <2> QED
      BY <2>1, <2>2, <2>3, <2>4, <2>5, <2>6 DEF Next
  <1> QED
    BY <1>1, InitIInv, PTL DEF Spec

\* Every variable keeps its type, for any number of samples, workers and faults.
THEOREM TypeCorrect == Spec => []TypeOK
  <1>1. IInv => TypeOK
    BY DEF IInv
  <1> QED
    BY <1>1, Invariance, PTL

\* A sample with a DONE marker is whole and of the run's configuration, after
\* any launches, crashes and interrupts of any number of workers: what
\* reconcile_sample_output, AtomicSampleWriter and mark_complete are for.
THEOREM MarksAreSound == Spec => []MarkedIsOfTheRun
  <1>1. IInv => MarkedIsOfTheRun
    BY Names DEF IInv, MarkIsSound, Only, Whole, MarkedIsOfTheRun
  <1> QED
    BY <1>1, Invariance, PTL

\* The merge a launcher starts finds every sample marked, complete and of one
\* configuration: collect_stage1_records has nothing to refuse.
THEOREM MergeIsAccepted == Spec => []MergeNeverRefused
  <1>1. IInv => MergeNeverRefused
    BY CollectedIsEverything DEF MergeNeverRefused, Merging
  <1> QED
    BY <1>1, Invariance, PTL

\* A launch reported as complete has merged every record of every sample, and
\* its record files and its summary agree.
THEOREM CompleteRunsAreWhole == Spec => []CompleteIsWhole
  <1>1. IInv => CompleteIsWhole
    BY DEF IInv, MergeOK, Everything, CompleteIsWhole
  <1> QED
    BY <1>1, Invariance, PTL

\* A launch reported as complete leaves no temporary directory, of its own
\* workers or of those of earlier launches.
THEOREM CompleteRunsAreClean == Spec => []NothingLeftBehind
  <1>1. IInv => NothingLeftBehind
    <2> SUFFICES ASSUME IInv, status = "complete"
                 PROVE  DOMAIN dirs = {Target(i) : i \in All}
      BY DEF NothingLeftBehind
    <2>1. \A i \in All : Marked(i) /\ Only(i, NoWriter, Whole, runConfig)
      BY DEF IInv, MergeOK, MarkIsSound
    <2>2. \A i \in All : Target(i) \in DOMAIN dirs
      BY <2>1, Names DEF Only
    <2>3. ASSUME NEW d \in DOMAIN dirs
          PROVE  \E i \in All : d = Target(i)
      <3>1. d[1] \in All /\ d[2] \in Writers /\ d = Temporary(d[1], d[2])
        BY <2>3, Names DEF IInv, TypeOK
      <3>2. d[2] = NoWriter
        BY <2>1, <3>1 DEF Only
      <3> QED
        BY <3>1, <3>2, Names
    <2> QED
      BY <2>2, <2>3
  <1> QED
    BY <1>1, Invariance, PTL

-----------------------------------------------------------------------------
(* The refinement *)

Made == {i \in All : Marked(i)}

\* What a step does to the markers: nothing, or one worker sets one.
LEMMA StepEffect ==
    ASSUME IInv, [Next]_vars
    PROVE  \/ MarksKept
           \/ /\ status' = status
              /\ \E s \in All : /\ ~Marked(s) /\ Marked(s)'
                                /\ \A i \in All \ {s} : Marked(i)' <=> Marked(i)
  <1>0. UNCHANGED dirs => MarksKept
    BY UntouchedSame, SameKeeps DEF MarksKept
  <1>1. CASE UNCHANGED vars
    BY <1>0, <1>1 DEF vars, disk
  <1>2. ASSUME NEW w \in Workers, WorkerStep(w), ~Mark(w)
        PROVE  MarksKept
    BY <1>2, CheckConfigKeeps, WriteConfigKeeps, ReconcileKeeps, ClearKeeps, SweepKeeps,
       InstrumentKeeps, WriteRecordsKeeps, CheckTargetKeeps, RenameKeeps, FinishKeeps
       DEF WorkerStep
  <1>3. ASSUME NEW w \in Workers, Mark(w)
        PROVE  /\ status' = status
               /\ \E s \in All : /\ ~Marked(s) /\ Marked(s)'
                                 /\ \A i \in All \ {s} : Marked(i)' <=> Marked(i)
    BY <1>3, MarkKeeps DEF Mark, Others
  <1>4. ASSUME NEW w \in Workers, Die(w) \/ Raise(w) \/ Kill(w)
        PROVE  MarksKept
    BY <1>4, EndKeeps
  <1>5. ASSUME NEW l \in Launches, LaunchAgain(l)
        PROVE  UNCHANGED dirs
    BY <1>5 DEF LaunchAgain, disk
  <1>6. ASSUME LauncherStep \/ PopenFails \/ MergeDies
        PROVE  UNCHANGED dirs
    BY <1>6 DEF LauncherStep, Spawn, AbortDone, PollFailure, Collect, CollectRecords,
                PublishRecords, PublishSummary, PopenFails, MergeDies, disk
  <1>7. ASSUME Interrupt
        PROVE  MarksKept
    BY <1>7, InterruptKeeps
  <1> QED
    BY <1>0, <1>1, <1>2, <1>3, <1>4, <1>5, <1>6, <1>7 DEF Next

LEMMA RefinesStep ==
    ASSUME IInv, IInv', [Next]_vars
    PROVE  [Contract!Next]_(Contract!vars)
  <1>1. CASE MarksKept
    <2>1. Made' = Made
      BY <1>1 DEF Made, MarksKept
    <2>2. CASE status' # "complete"
      <3>1. (status' = "complete") = FALSE
        BY <2>2
      <3> QED
        BY <2>1, <3>1 DEF Contract!Next, Contract!Reopen, Made
    <2>3. CASE status' = "complete"
      <3>1. Made = All
        BY <2>1, <2>3 DEF IInv, MergeOK, Made
      <3>2. (status' = "complete") = TRUE
        BY <2>3
      <3> QED
        BY <2>1, <3>1, <3>2 DEF Contract!Next, Contract!Publish, Made
    <2> QED
      BY <2>2, <2>3
  <1>2. ASSUME status' = status, NEW s \in All, ~Marked(s), Marked(s)',
               \A i \in All \ {s} : Marked(i)' <=> Marked(i)
        PROVE  Contract!Next
    <2>1. s \in All \ Made /\ Made' = Made \cup {s}
      BY <1>2 DEF Made
    <2> QED
      BY <1>2, <2>1 DEF Contract!Next, Contract!Make, Made
  <1> QED
    BY <1>1, <1>2, StepEffect

\* A measurement is a generation with samples for images: marked samples stay,
\* they are marked one at a time, and only a whole run is reported complete.
THEOREM Refinement == Spec => ImplementsContract
  <1>1. Init => Contract!Init
    <2> SUFFICES ASSUME Init PROVE Contract!Init
      OBVIOUS
    <2>1. Made = {}
      BY DEF Init, NoFiles, Made, Marked, Has, Exists
    <2>2. (status = "complete") = FALSE
      BY DEF Init
    <2> QED
      BY <2>1, <2>2 DEF Contract!Init, Made
  <1>2. IInv /\ IInv' /\ [Next]_vars => [Contract!Next]_(Contract!vars)
    BY RefinesStep
  <1> QED
    BY <1>1, <1>2, Invariance, PTL DEF Spec, Contract!Spec, ImplementsContract

=============================================================================
