--------------------------- MODULE DiCache_proofs ---------------------------
(***************************************************************************)
(* For every number of steps, batches and blocks, every set of errors and   *)
(* every configuration: the inductive invariant of DiCache, and that a      *)
(* residual is only reused when the threshold allows.                       *)
(***************************************************************************)
EXTENDS DiCache, SequenceTheorems, TLAPS

-----------------------------------------------------------------------------
(* Sequences *)

\* What deque(maxlen=2) keeps.
LEMMA LastTwoKeeps ==
    ASSUME NEW S, NEW s \in Seq(S)
    PROVE  /\ LastTwo(s) \in Seq(S)
           /\ Len(LastTwo(s)) = IF Len(s) < 2 THEN Len(s) ELSE 2
           /\ \A k \in 1 .. Len(LastTwo(s)) : LastTwo(s)[k] = s[Len(s) - Len(LastTwo(s)) + k]
  <1>1. Len(s) \in Nat
    BY LenProperties
  <1>2. CASE Len(s) <= 2
    <2>1. LastTwo(s) = s
      BY <1>2 DEF LastTwo
    <2>2. \A k \in 1 .. Len(s) : Len(s) - Len(s) + k = k
      BY <1>1
    <2>3. Len(s) < 2 \/ Len(s) = 2
      <3> DEFINE n == Len(s)
      <3>1. n \in Nat /\ n <= 2
        BY <1>1, <1>2
      <3> HIDE DEF n
      <3>2. n < 2 \/ n = 2
        BY <3>1
      <3> QED
        BY <3>2 DEF n
    <2> QED
      BY <2>1, <2>2, <2>3
  <1>3. CASE Len(s) > 2
    <2> DEFINE t == SubSeq(s, Len(s) - 1, Len(s))
    <2>1. LastTwo(s) = t
      BY <1>1, <1>3 DEF LastTwo
    <2>2. /\ t \in Seq(S)
          /\ Len(t) = Len(s) - (Len(s) - 1) + 1
          /\ \A k \in 1 .. Len(s) - (Len(s) - 1) + 1 : t[k] = s[(Len(s) - 1) + k - 1]
      BY <1>1, <1>3, SubSeqProperties
    <2> HIDE DEF t
    <2>3. Len(t) = 2 /\ \A k \in 1 .. 2 : t[k] = s[Len(s) - 2 + k]
      BY <1>1, <1>3, <2>2
    <2> QED
      BY <1>3, <2>1, <2>2, <2>3
  <1> QED
    BY <1>1, <1>2, <1>3

\* A history that mirrors the earlier full steps mirrors them all once the
\* last one is recorded.
LEMMA RecordedMirrors ==
    ASSUME NEW h \in Seq(Refresh), NEW steps \in Seq(Nat), steps # <<>>, NEW of,
           NEW r \in Refresh, r.step = steps[Len(steps)], r.batch = of,
           Mirrors(h, SubSeq(steps, 1, Len(steps) - 1), of)
    PROVE  Mirrors(LastTwo(Append(h, r)), steps, of)
  <1> DEFINE before == SubSeq(steps, 1, Len(steps) - 1)
             all    == Append(h, r)
             kept   == LastTwo(all)
  <1>1. Len(steps) \in Nat \ {0} /\ Len(h) \in Nat
    BY LenProperties, EmptySeq
  <1>2. /\ Len(before) = Len(steps) - 1
        /\ \A k \in 1 .. Len(steps) - 1 : before[k] = steps[k]
    <2>1. \A k \in 1 .. Len(steps) - 1 : steps[k] \in Nat
      BY <1>1, ElementOfSeq
    <2>2. /\ Len(before) = IF 1 <= Len(steps) - 1 THEN Len(steps) - 1 - 1 + 1 ELSE 0
          /\ \A k \in 1 .. Len(steps) - 1 - 1 + 1 : before[k] = steps[1 + k - 1]
      BY <1>1, <2>1, SubSeqProperties
    <2> HIDE DEF before
    <2>3. Len(before) = Len(steps) - 1
      <3> DEFINE n == Len(steps)
      <3>1. n \in Nat \ {0} /\ Len(before) = IF 1 <= n - 1 THEN n - 1 - 1 + 1 ELSE 0
        BY <1>1, <2>2
      <3> HIDE DEF n
      <3>2. Len(before) = n - 1
        BY <3>1
      <3> QED
        BY <3>2 DEF n
    <2>4. ASSUME NEW k \in 1 .. Len(steps) - 1 PROVE before[k] = steps[k]
      <3>1. k \in 1 .. Len(steps) - 1 - 1 + 1 /\ 1 + k - 1 = k
        BY <1>1
      <3>2. before[k] = steps[1 + k - 1]
        BY <2>2, <3>1
      <3> QED
        BY <3>1, <3>2
    <2> QED
      BY <2>3, <2>4
  <1>3. /\ all \in Seq(Refresh) /\ Len(all) = Len(h) + 1
        /\ \A k \in 1 .. Len(h) : all[k] = h[k]
        /\ all[Len(h) + 1] = r
    BY AppendProperties
  <1>4. /\ Len(kept) = IF Len(all) < 2 THEN Len(all) ELSE 2
        /\ \A k \in 1 .. Len(kept) : kept[k] = all[Len(all) - Len(kept) + k]
    BY <1>3, LastTwoKeeps
  <1>5. /\ Len(h) = IF Len(before) < 2 THEN Len(before) ELSE 2
        /\ \A k \in 1 .. Len(h) : /\ h[k].step = before[Len(before) - Len(h) + k]
                                 /\ h[k].batch = of
    BY DEF Mirrors
  <1> HIDE DEF before, all, kept
  <1>6. Len(kept) = IF Len(steps) < 2 THEN Len(steps) ELSE 2
    BY <1>1, <1>2, <1>3, <1>4, <1>5
  <1>7. ASSUME NEW k \in 1 .. Len(kept)
        PROVE  kept[k].step = steps[Len(steps) - Len(kept) + k] /\ kept[k].batch = of
    <2> DEFINE n == Len(steps)
               c == Len(kept)
               j == Len(all) - c + k
    <2>1. n \in Nat \ {0} /\ c \in Nat /\ k \in Nat /\ 1 <= k /\ k <= c /\ c <= n
      BY <1>1, <1>6
    <2>2. Len(all) = IF n - 1 < 2 THEN n ELSE 3
      BY <1>1, <1>2, <1>3, <1>5
    <2>3. kept[k] = all[j]
      BY <1>4
    <2>4. c = IF n < 2 THEN n ELSE 2
      BY <1>6
    <2>5. Len(h) = Len(all) - 1 /\ Len(before) = n - 1
      BY <1>1, <1>2, <1>3
    <2> HIDE DEF n, c
    <2>6. j \in 1 .. Len(h) + 1
      BY <2>1, <2>2, <2>4, <2>5
    <2>7. CASE k = c
      <3>1. j = Len(h) + 1 /\ n - c + k = n
        BY <2>1, <2>2, <2>4, <2>5, <2>7
      <3>2. kept[k] = r
        BY <1>3, <2>3, <3>1
      <3> QED
        BY <3>1, <3>2 DEF n, c
    <2>8. CASE k < c
      <3>1. /\ j \in 1 .. Len(h)
            /\ Len(before) - Len(h) + j = n - c + k
            /\ n - c + k \in 1 .. n - 1
        BY <2>1, <2>2, <2>4, <2>5, <2>8
      <3> HIDE DEF j
      <3>2. kept[k] = h[j]
        BY <1>3, <2>3, <3>1
      <3>3. h[j].step = before[n - c + k] /\ h[j].batch = of
        BY <1>5, <3>1
      <3>4. before[n - c + k] = steps[n - c + k]
        BY <1>2, <3>1 DEF n
      <3> QED
        BY <3>2, <3>3, <3>4 DEF n, c
    <2> QED
      BY <2>1, <2>7, <2>8
  <1> QED
    BY <1>6, <1>7 DEF Mirrors, kept, all

\* The full steps before the last one.
LEMMA SubSeqAppend ==
    ASSUME NEW s \in Seq(Nat), NEW x \in Nat
    PROVE  SubSeq(Append(s, x), 1, Len(Append(s, x)) - 1) = s
  <1> DEFINE a == Append(s, x)
             n == Len(s)
             t == SubSeq(a, 1, Len(a) - 1)
  <1>1. /\ n \in Nat /\ a \in Seq(Nat) /\ Len(a) = n + 1
        /\ \A k \in 1 .. n : a[k] = s[k]
    BY AppendProperties, LenProperties
  <1> HIDE DEF a, n
  <1>2. \A k \in 1 .. Len(a) - 1 : a[k] \in Nat
    BY <1>1, ElementOfSeq
  <1>3. /\ t \in Seq(Nat)
        /\ Len(t) = IF 1 <= Len(a) - 1 THEN Len(a) - 1 - 1 + 1 ELSE 0
        /\ \A k \in 1 .. Len(a) - 1 - 1 + 1 : t[k] = a[1 + k - 1]
    BY <1>1, <1>2, SubSeqProperties
  <1> HIDE DEF t
  <1>4. Len(t) = n
    BY <1>1, <1>3
  <1>5. ASSUME NEW k \in 1 .. n PROVE t[k] = s[k]
    <2>1. k \in 1 .. Len(a) - 1 - 1 + 1 /\ 1 + k - 1 = k
      BY <1>1
    <2>2. t[k] = a[1 + k - 1]
      BY <1>3, <2>1
    <2> QED
      BY <1>1, <2>1, <2>2
  <1>6. t = s
    BY <1>3, <1>4, <1>5, SeqEqual DEF n
  <1> QED
    BY <1>6 DEF t, a

-----------------------------------------------------------------------------
(* Errors *)

\* The larger of two numbers.
LEMMA MaxOfTwo ==
    ASSUME NEW a \in Nat, NEW b \in Nat
    PROVE  Max({a, b}) = IF a >= b THEN a ELSE b
  <1> DEFINE m == IF a >= b THEN a ELSE b
  <1>1. m \in {a, b} /\ \A y \in {a, b} : m >= y
    OBVIOUS
  <1>2. \A x \in {a, b} : (\A y \in {a, b} : x >= y) => x = m
    OBVIOUS
  <1> QED
    BY <1>1, <1>2 DEF Max

\* The aggregate of two branch errors is a number above what a branch has.
LEMMA AggregatedBounds ==
    ASSUME NEW e \in [Branches -> Nat]
    PROVE  /\ Aggregated(e) \in Nat
           /\ conf.aggregation = "mean" => Aggregated(e) = e["cond"] + e["uncond"]
           /\ conf.aggregation # "mean" => \A b \in Branches : 2 * e[b] <= Aggregated(e)
  <1>1. e["cond"] \in Nat /\ e["uncond"] \in Nat
    BY DEF Branches
  <1>2. Max({e["cond"], e["uncond"]}) =
          IF e["cond"] >= e["uncond"] THEN e["cond"] ELSE e["uncond"]
    BY <1>1, MaxOfTwo
  <1> QED
    BY <1>1, <1>2 DEF Aggregated, Branches

\* What two steps moved is at most the sum of what each moved.
LEMMA AggregatedAdds ==
    ASSUME NEW g \in [Branches -> Nat], NEW e \in [Branches -> Nat]
    PROVE  Aggregated([b \in Branches |-> g[b] + e[b]]) <= Aggregated(g) + Aggregated(e)
  <1> DEFINE s == [b \in Branches |-> g[b] + e[b]]
  <1>1. /\ g["cond"] \in Nat /\ g["uncond"] \in Nat
        /\ e["cond"] \in Nat /\ e["uncond"] \in Nat
        /\ s["cond"] = g["cond"] + e["cond"] /\ s["uncond"] = g["uncond"] + e["uncond"]
    BY DEF Branches
  <1> HIDE DEF s
  <1>2. Max({g["cond"], g["uncond"]}) =
          IF g["cond"] >= g["uncond"] THEN g["cond"] ELSE g["uncond"]
    BY <1>1, MaxOfTwo
  <1>3. Max({e["cond"], e["uncond"]}) =
          IF e["cond"] >= e["uncond"] THEN e["cond"] ELSE e["uncond"]
    BY <1>1, MaxOfTwo
  <1>4. Max({s["cond"], s["uncond"]}) =
          IF s["cond"] >= s["uncond"] THEN s["cond"] ELSE s["uncond"]
    BY <1>1, MaxOfTwo
  <1>5. Aggregated(s) <= Aggregated(g) + Aggregated(e)
    BY <1>1, <1>2, <1>3, <1>4 DEF Aggregated
  <1> QED
    BY <1>5 DEF s

-----------------------------------------------------------------------------
(* The inductive invariant *)

\* What the assumption says of the policy that runs.
LEMMA ConfFacts ==
    ASSUME TypeOK
    PROVE  conf.threshold \in Nat \ {0} /\ conf.aggregation \in {"mean", "max"}
  <1>1. ConfigOK(conf)
    BY DiCacheAssumption DEF TypeOK
  <1> QED
    BY <1>1 DEF ConfigOK

\* Which branch a step of the loop computes and which are left.
LEMMA TodoFacts ==
    ASSUME TypeOK, todo # <<>>
    PROVE  \/ /\ todo = Order /\ Head(todo) = "cond" /\ Len(todo) = 2
              /\ Tail(todo) = <<"uncond">> /\ Tail(todo) # <<>>
           \/ /\ todo = <<"uncond">> /\ Head(todo) = "uncond" /\ Len(todo) = 1
              /\ Tail(todo) = <<>>
  <1>1. CASE todo = <<"cond", "uncond">>
    <2>1. /\ todo \in Seq({"cond", "uncond"}) /\ todo # <<>> /\ Len(todo) = 2
          /\ todo[1] = "cond" /\ todo[2] = "uncond"
      BY <1>1
    <2>2. Head(todo) = "cond"
      BY <1>1
    <2>3. /\ Tail(todo) \in Seq({"cond", "uncond"}) /\ Len(Tail(todo)) = 1
          /\ Tail(todo)[1] = "uncond"
      BY <2>1, HeadTailProperties
    <2>4. /\ <<"uncond">> \in Seq({"cond", "uncond"}) /\ Len(<<"uncond">>) = 1
          /\ <<"uncond">>[1] = "uncond" /\ <<"uncond">> # <<>>
      <3>1. <<"uncond">> \in Seq({"cond", "uncond"}) /\ Len(<<"uncond">>) = 1
        OBVIOUS
      <3>2. <<"uncond">>[1] = "uncond"
        OBVIOUS
      <3>3. <<"uncond">> # <<>>
        BY <3>1, EmptySeq
      <3> QED
        BY <3>1, <3>2, <3>3
    <2>5. Tail(todo) = <<"uncond">>
      <3> DEFINE t == Tail(todo)
                 u == <<"uncond">>
      <3>1. ASSUME NEW k \in 1 .. Len(t) PROVE t[k] = u[k]
        <4>1. k = 1
          <5> DEFINE n == Len(t)
          <5>1. n = 1 /\ k \in 1 .. n
            BY <2>3
          <5> HIDE DEF n, t
          <5>2. k = 1
            BY <5>1
          <5> QED
            BY <5>2
        <4>2. t[1] = u[1]
          BY <2>3, <2>4
        <4> QED
          BY <4>1, <4>2
      <3>2. t \in Seq({"cond", "uncond"}) /\ u \in Seq({"cond", "uncond"}) /\ Len(t) = Len(u)
        BY <2>3, <2>4
      <3> HIDE DEF t, u
      <3>3. t = u
        BY <3>1, <3>2, SeqEqual
      <3> QED
        BY <3>3 DEF t, u
    <2> QED
      BY <1>1, <2>1, <2>2, <2>4, <2>5 DEF Order
  <1>2. CASE todo = <<"uncond">>
    <2>1. todo \in Seq({"uncond"}) /\ todo # <<>> /\ Len(todo) = 1
      BY <1>2
    <2>2. Head(todo) = "uncond"
      BY <1>2
    <2>3. Tail(todo) \in Seq({"uncond"}) /\ Len(Tail(todo)) = 0
      BY <2>1, HeadTailProperties
    <2>4. Tail(todo) = <<>>
      BY <2>3, EmptySeq
    <2> QED
      BY <1>2, <2>1, <2>2, <2>4
  <1> QED
    BY <1>1, <1>2 DEF TypeOK, Order

\* A batch starts with nothing: neither history nor movement.
LEMMA NothingMirrored ==
    ASSUME NEW of
    PROVE  Mirrors(<<>>, <<>>, of)
  BY DEF Mirrors

\* Nothing moved.
LEMMA NothingMoved ==
    Aggregated([b \in Branches |-> 0]) = 0
  <1> DEFINE z == [b \in Branches |-> 0]
  <1>1. z["cond"] = 0 /\ z["uncond"] = 0
    BY DEF Branches
  <1> HIDE DEF z
  <1>2. Max({z["cond"], z["uncond"]}) = 0
    BY <1>1, MaxOfTwo
  <1>3. Aggregated(z) = 0
    BY <1>1, <1>2 DEF Aggregated
  <1> QED
    BY <1>3 DEF z

\* What the updates of the statistics make are counts again.
LEMMA CountsTyped ==
    /\ NoCounts \in [Fields -> Nat]
    /\ \A c \in [Fields -> Nat] : \A S : Counted(c, S) \in [Fields -> Nat]
    /\ \A c \in [Fields -> Nat], p \in [Gammas -> Nat] : Flushed(c, p) \in [Fields -> Nat]
  <1>1. NoCounts \in [Fields -> Nat]
    BY DEF NoCounts
  <1>2. ASSUME NEW c \in [Fields -> Nat], NEW S PROVE Counted(c, S) \in [Fields -> Nat]
    BY DEF Counted
  <1>3. ASSUME NEW c \in [Fields -> Nat], NEW p \in [Gammas -> Nat]
        PROVE  Flushed(c, p) \in [Fields -> Nat]
    <2>1. p["low"] \in Nat /\ p["within"] \in Nat /\ p["high"] \in Nat
      BY DEF Gammas
    <2>2. GammasOf(p) \in Nat
      BY <2>1 DEF GammasOf
    <2> QED
      BY <2>1, <2>2 DEF Flushed
  <1> QED
    BY <1>1, <1>2, <1>3

\* The first state satisfies the invariant.
LEMMA InitIInv == Init => IInv
  <1> SUFFICES ASSUME Init PROVE IInv
    OBVIOUS
  <1>1. TypeOK
    <2>1. history \in [Branches -> Seq(Refresh)] /\ \A b \in Branches : Len(history[b]) <= 2
      BY DEF Init, NoHistory
    <2>2. pending \in [Gammas -> Nat] /\ gone \in [Branches -> Nat]
      BY DEF Init, NoGammas
    <2>3. 0 \in 0 .. Steps
      BY DiCacheAssumption
    <2>4. fulls \in Seq(Nat) /\ todo = <<>> /\ work \in Nat
      BY DEF Init
    <2>5. formal \in BOOLEAN /\ {seen, reuse, fellBack} \subseteq BOOLEAN
      BY DEF Init
    <2>6. conf \in Configs /\ at = "between" /\ batch \in Nat /\ step \in 0 .. Steps
      BY <2>3 DEF Init
    <2>7. accumulated \in Nat
      BY DEF Init
    <2>8. counts \in [Fields -> Nat]
      BY CountsTyped DEF Init
    <2> QED
      BY <2>1, <2>2, <2>4, <2>5, <2>6, <2>7, <2>8 DEF TypeOK
  <1>2. Control
    BY DEF Init, Control
  <1>3. HistoryIsTrue
    BY DEF Init, HistoryIsTrue
  <1>4. AccumulatedCovers
    BY DEF Init, AccumulatedCovers
  <1> QED
    BY <1>1, <1>2, <1>3, <1>4 DEF IInv

\* A new batch starts from nothing.
LEMMA StartBatchKeeps == IInv /\ StartBatch => IInv'
  <1> SUFFICES ASSUME IInv, StartBatch PROVE IInv'
    OBVIOUS
  <1> USE DEF StartBatch, ClearBatch
  <1>1. todo = <<>> /\ ~reuse /\ ~fellBack
    BY DEF IInv, Control, TypeOK
  <1>2. TypeOK'
    <2>1. history' \in [Branches -> Seq(Refresh)] /\ \A b \in Branches : Len(history'[b]) <= 2
      BY DEF NoHistory
    <2>2. pending' \in [Gammas -> Nat] /\ gone' \in [Branches -> Nat]
      BY DEF NoGammas
    <2>3. 0 \in 0 .. Steps
      BY DiCacheAssumption
    <2>4. fulls' \in Seq(Nat) /\ accumulated' \in Nat
      OBVIOUS
    <2>5. conf' \in Configs /\ formal' \in BOOLEAN /\ {seen', reuse', fellBack'} \subseteq BOOLEAN
      BY DEF IInv, TypeOK
    <2>6. batch' \in Nat /\ step' \in 0 .. Steps /\ at' = "decide" /\ work' \in Nat
      BY <2>3 DEF IInv, TypeOK
    <2>7. counts' \in [Fields -> Nat]
      BY CountsTyped DEF IInv, TypeOK
    <2> QED
      BY <1>1, <2>1, <2>2, <2>4, <2>5, <2>6, <2>7 DEF TypeOK
  <1>3. Control'
    BY <1>1 DEF Control
  <1>4. HistoryIsTrue'
    <2>1. ASSUME NEW b \in Branches PROVE Mirrors(history'[b], FullsOf(b)', batch')
      <3>1. history'[b] = <<>> /\ FullsOf(b)' = <<>>
        BY <1>1 DEF NoHistory, FullsOf, Waiting
      <3> QED
        BY <3>1, NothingMirrored
    <2> QED
      BY <2>1 DEF HistoryIsTrue
  <1>5. AccumulatedCovers'
    <2>1. Aggregated(gone)' = Aggregated([b \in Branches |-> 0])
      BY DEF Aggregated
    <2> QED
      BY <2>1, NothingMoved DEF AccumulatedCovers
  <1> QED
    BY <1>2, <1>3, <1>4, <1>5 DEF IInv

\* A decision: a full step joins the full steps and its branches wait; a reused
\* one adds its errors to the accumulated error, which stays under the threshold.
LEMMA DecideKeeps ==
    ASSUME IInv, NEW e \in [Branches -> Errors], Decide(e)
    PROVE  IInv'
  <1> DEFINE reused == ReasonNow = "adaptive_threshold" /\ ShouldReuse(e)
  <1>1. /\ at = "decide" /\ at' = "branches" /\ todo' = Order /\ step < Steps
        /\ reuse' = reused
        /\ accumulated' = IF reused THEN Candidate(e) ELSE 0
        /\ fulls' = IF reused THEN fulls ELSE Append(fulls, step)
        /\ gone' = [b \in Branches |-> IF reused THEN gone[b] + e[b] ELSE 0]
        /\ work' = IF formal THEN work + 2 * ProbeDepth ELSE work
        /\ UNCHANGED <<conf, formal, batch, step, seen, history, pending, fellBack>>
    BY DEF Decide
  <1>2. reused \in BOOLEAN
    OBVIOUS
  <1>3. e \in [Branches -> Nat] /\ step \in 0 .. Steps - 1
    <2>1. e \in [Branches -> Nat]
      BY DiCacheAssumption
    <2>2. step \in 0 .. Steps /\ step < Steps /\ Steps \in Nat
      BY <1>1, DiCacheAssumption DEF IInv, TypeOK
    <2>3. step \in 0 .. Steps - 1
      BY <2>2
    <2> QED
      BY <2>1, <2>3
  <1>4. /\ Aggregated(e) \in Nat /\ Aggregated(gone) \in Nat /\ gone \in [Branches -> Nat]
        /\ accumulated \in Nat /\ fulls \in Seq(Nat)
    BY <1>3, AggregatedBounds DEF IInv, TypeOK
  <1>5. ~fellBack /\ \A b \in Branches : Mirrors(history[b], fulls, batch)
    BY <1>1 DEF IInv, Control, HistoryIsTrue, FullsOf, Waiting
  <1>6. reused => seen /\ \A b \in Branches : history[b] # <<>>
    BY DEF ReasonNow, HasFullHistory, ScheduleReason
  <1>7. reused => Candidate(e) < conf.threshold /\ Candidate(e) = accumulated + Aggregated(e)
    BY DEF ShouldReuse, Candidate
  <1> HIDE DEF reused
  <1>8. reused => fulls # <<>>
    <2> SUFFICES ASSUME reused, fulls = <<>> PROVE FALSE
      OBVIOUS
    <2>1. "cond" \in Branches
      BY DEF Branches
    <2>2. history["cond"] \in Seq(Refresh) /\ history["cond"] # <<>>
      BY <1>6, <2>1 DEF IInv, TypeOK
    <2>3. Len(history["cond"]) = 0
      BY <1>5, <2>1 DEF Mirrors
    <2> QED
      BY <2>2, <2>3, EmptySeq
  <1>9. ~reused => /\ fulls' \in Seq(Nat) /\ fulls' # <<>>
                  /\ fulls'[Len(fulls')] = step
                  /\ SubSeq(fulls', 1, Len(fulls') - 1) = fulls
    <2> SUFFICES ASSUME ~reused
                 PROVE  /\ fulls' \in Seq(Nat) /\ fulls' # <<>>
                        /\ fulls'[Len(fulls')] = step
                        /\ SubSeq(fulls', 1, Len(fulls') - 1) = fulls
      OBVIOUS
    <2>1. fulls' = Append(fulls, step)
      BY <1>1
    <2>2. fulls \in Seq(Nat) /\ step \in Nat
      BY <1>3, <1>4, DiCacheAssumption
    <2>3. /\ Append(fulls, step) \in Seq(Nat)
          /\ Len(Append(fulls, step)) = Len(fulls) + 1
          /\ Append(fulls, step)[Len(fulls) + 1] = step
          /\ Append(fulls, step) # <<>>
      BY <2>2, AppendProperties
    <2>4. SubSeq(Append(fulls, step), 1, Len(Append(fulls, step)) - 1) = fulls
      BY <2>2, SubSeqAppend
    <2> QED
      BY <2>1, <2>3, <2>4
  <1>10. TypeOK'
    <2>1. fulls' \in Seq(Nat)
      BY <1>1, <1>4, <1>9
    <2>2. accumulated' \in Nat
      BY <1>1, <1>4, <1>7
    <2>3. gone' \in [Branches -> Nat]
      BY <1>1, <1>3, <1>4
    <2>4. work' \in Nat
      <3>1. work \in Nat /\ ProbeDepth \in Nat
        BY DiCacheAssumption DEF IInv, TypeOK
      <3> QED
        BY <1>1, <3>1
    <2>5. reuse' \in BOOLEAN
      BY <1>1, <1>2
    <2>6. counts' \in [Fields -> Nat]
      BY CountsTyped DEF Decide, IInv, TypeOK
    <2> QED
      BY <1>1, <2>1, <2>2, <2>3, <2>4, <2>5, <2>6 DEF IInv, TypeOK
  <1>11. Control'
    <2>1. Order # <<>>
      BY DEF Order
    <2> QED
      BY <1>1, <1>5, <1>6, <1>8, <1>9, <2>1 DEF Control
  <1>12. HistoryIsTrue'
    <2>1. ASSUME NEW b \in Branches PROVE FullsOf(b)' = fulls
      <3>1. CASE reused
        BY <1>1, <3>1 DEF FullsOf, Waiting
      <3>2. CASE ~reused
        <4>1. /\ 1 \in DOMAIN Order /\ Order[1] = "cond"
              /\ 2 \in DOMAIN Order /\ Order[2] = "uncond"
          BY DEF Order
        <4>2. \E k \in DOMAIN todo' : todo'[k] = b
          BY <1>1, <4>1 DEF Branches
        <4>3. Waiting(b)'
          BY <1>1, <3>2, <4>2 DEF Waiting
        <4> QED
          BY <1>9, <3>2, <4>3 DEF FullsOf
      <3> QED
        BY <3>1, <3>2
    <2> QED
      BY <1>1, <1>5, <2>1 DEF HistoryIsTrue
  <1>13. AccumulatedCovers'
    <2>1. CASE reused
      <3>1. Aggregated(gone)' = Aggregated([b \in Branches |-> gone[b] + e[b]])
        BY <1>1, <2>1 DEF Aggregated
      <3>2. Aggregated([b \in Branches |-> gone[b] + e[b]]) <= Aggregated(gone) + Aggregated(e)
        BY <1>3, <1>4, AggregatedAdds
      <3>3. Aggregated(gone) <= accumulated
        BY <1>1 DEF IInv, AccumulatedCovers
      <3>4. Aggregated([b \in Branches |-> gone[b] + e[b]]) \in Nat
        <4>1. [b \in Branches |-> gone[b] + e[b]] \in [Branches -> Nat]
          BY <1>3, <1>4
        <4> QED
          BY <4>1, AggregatedBounds
      <3>5. Aggregated(gone)' <= accumulated'
        BY <1>1, <1>4, <1>7, <2>1, <3>1, <3>2, <3>3, <3>4
      <3> QED
        BY <1>1, <1>7, <2>1, <3>5 DEF AccumulatedCovers
    <2>2. CASE ~reused
      <3>1. Aggregated(gone)' = Aggregated([b \in Branches |-> 0])
        BY <1>1, <2>2 DEF Aggregated
      <3> QED
        BY <1>1, <2>2, <3>1, NothingMoved DEF AccumulatedCovers
    <2> QED
      BY <2>1, <2>2
  <1> QED
    BY <1>10, <1>11, <1>12, <1>13 DEF IInv

\* What a branch leaves alone, and the point of the loop it moves to.
LEMMA NextBranchKeeps ==
    ASSUME IInv, NextBranch, UNCHANGED <<fulls, gone>>
    PROVE  /\ at = "branches" /\ todo # <<>> /\ Head(todo) \in Branches
           /\ Control'
           /\ AccumulatedCovers'
           /\ todo' \in {<<>>, <<"uncond">>, Order} /\ at' \in {"branches", "finish"}
           /\ \A b \in {Head(todo)} : ~Waiting(b)' /\ (~reuse => Waiting(b))
           /\ \A b \in Branches \ {Head(todo)} : Waiting(b)' <=> Waiting(b)
  <1>1. /\ at = "branches" /\ todo # <<>> /\ todo' = Tail(todo)
        /\ at' = IF Len(todo) = 1 THEN "finish" ELSE "branches"
        /\ UNCHANGED <<conf, formal, batch, step, accumulated, seen, reuse>>
    BY DEF NextBranch, IInv, Control
  <1>2. \/ /\ todo = Order /\ Head(todo) = "cond" /\ Len(todo) = 2
           /\ Tail(todo) = <<"uncond">> /\ Tail(todo) # <<>>
        \/ /\ todo = <<"uncond">> /\ Head(todo) = "uncond" /\ Len(todo) = 1
           /\ Tail(todo) = <<>>
    BY <1>1, TodoFacts DEF IInv
  <1>3. AccumulatedCovers'
    <2>1. Aggregated(gone)' = Aggregated(gone)
      BY <1>1 DEF Aggregated
    <2> QED
      BY <1>1, <2>1 DEF IInv, AccumulatedCovers
  <1>4. Control'
    <2>1. at' = "branches" <=> todo' # <<>>
      BY <1>1, <1>2
    <2>2. at' \in {"branches", "finish"}
      BY <1>1
    <2>3. step < Steps /\ fulls # <<>> /\ IF reuse THEN seen ELSE fulls[Len(fulls)] = step
      BY <1>1 DEF IInv, Control
    <2> QED
      BY <1>1, <2>1, <2>2, <2>3 DEF Control
  <1>5. CASE todo = Order /\ Head(todo) = "cond" /\ Len(todo) = 2 /\ Tail(todo) = <<"uncond">>
    <2>1. /\ DOMAIN Order = {1, 2} /\ Order[1] = "cond" /\ Order[2] = "uncond"
          /\ DOMAIN <<"uncond">> = {1} /\ <<"uncond">>[1] = "uncond"
      BY DEF Order
    <2>2. (Waiting("cond") <=> ~reuse) /\ (Waiting("uncond") <=> ~reuse)
      BY <1>1, <1>5, <2>1 DEF Waiting
    <2>3. ~Waiting("cond")' /\ (Waiting("uncond")' <=> ~reuse)
      BY <1>1, <1>5, <2>1 DEF Waiting
    <2>4. Head(todo) \in Branches /\ Branches \ {Head(todo)} = {"uncond"}
      BY <1>5 DEF Branches
    <2>5. \A b \in Branches \ {Head(todo)} : Waiting(b)' <=> Waiting(b)
      BY <2>2, <2>3, <2>4
    <2>6. \A b \in {Head(todo)} : ~Waiting(b)' /\ (~reuse => Waiting(b))
      BY <1>5, <2>2, <2>3
    <2> QED
      BY <1>1, <1>3, <1>4, <1>5, <2>4, <2>5, <2>6
  <1>6. CASE todo = <<"uncond">> /\ Head(todo) = "uncond" /\ Len(todo) = 1 /\ Tail(todo) = <<>>
    <2>1. DOMAIN <<"uncond">> = {1} /\ <<"uncond">>[1] = "uncond"
      OBVIOUS
    <2>2. ~Waiting("cond") /\ (Waiting("uncond") <=> ~reuse)
      BY <1>1, <1>6, <2>1 DEF Waiting
    <2>3. ~Waiting("cond")' /\ ~Waiting("uncond")'
      BY <1>1, <1>6 DEF Waiting
    <2>4. Head(todo) \in Branches /\ Branches \ {Head(todo)} = {"cond"}
      BY <1>6 DEF Branches
    <2>5. \A b \in Branches \ {Head(todo)} : Waiting(b)' <=> Waiting(b)
      BY <2>2, <2>3, <2>4
    <2>6. \A b \in {Head(todo)} : ~Waiting(b)' /\ (~reuse => Waiting(b))
      BY <1>6, <2>2, <2>3
    <2> QED
      BY <1>1, <1>3, <1>4, <1>6, <2>4, <2>5, <2>6
  <1> QED
    BY <1>2, <1>5, <1>6

\* A refreshed branch has recorded the full step it waited to record.
LEMMA RecordRefreshKeeps ==
    ASSUME IInv, NEW p \in Residuals, RecordRefresh(p)
    PROVE  IInv'
  <1> DEFINE r == [batch |-> batch, step |-> step, p |-> p]
             c == Head(todo)
             h == LastTwo(Append(history[c], r))
  <1>1. /\ NextBranch /\ ~reuse /\ UNCHANGED <<pending, counts, fellBack, fulls, gone>>
        /\ history' = [history EXCEPT ![c] = h]
        /\ work' = IF formal THEN work + TotalBlocks - ProbeDepth ELSE work
    BY DEF RecordRefresh
  <1>2. /\ at = "branches" /\ todo # <<>> /\ c \in Branches
        /\ Control' /\ AccumulatedCovers'
        /\ todo' \in {<<>>, <<"uncond">>, Order} /\ at' \in {"branches", "finish"}
        /\ \A b \in {c} : ~Waiting(b)' /\ Waiting(b)
        /\ \A b \in Branches \ {c} : Waiting(b)' <=> Waiting(b)
    BY <1>1, NextBranchKeeps
  <1>3. UNCHANGED <<conf, formal, batch, step, accumulated, seen, reuse>>
    BY <1>1 DEF NextBranch
  <1>4. r \in Refresh /\ r.step = step /\ r.batch = batch
    <2>1. step \in 0 .. Steps /\ step < Steps /\ Steps \in Nat /\ batch \in Nat
      BY <1>2, DiCacheAssumption DEF IInv, TypeOK, Control
    <2>2. step \in 0 .. Steps - 1
      BY <2>1
    <2> QED
      BY <2>1, <2>2 DEF Refresh
  <1>5. /\ history \in [Branches -> Seq(Refresh)] /\ history[c] \in Seq(Refresh)
        /\ fulls \in Seq(Nat) /\ fulls # <<>> /\ fulls[Len(fulls)] = step
        /\ Mirrors(history[c], SubSeq(fulls, 1, Len(fulls) - 1), batch)
    BY <1>1, <1>2 DEF IInv, TypeOK, Control, HistoryIsTrue, FullsOf
  <1> HIDE DEF r, c
  <1>6. Mirrors(h, fulls, batch)
    BY <1>4, <1>5, RecordedMirrors
  <1>7. h \in Seq(Refresh) /\ Len(h) <= 2
    <2>1. Append(history[c], r) \in Seq(Refresh)
      BY <1>4, <1>5, AppendProperties
    <2>2. h \in Seq(Refresh)
      BY <2>1, LastTwoKeeps
    <2>3. Len(fulls) \in Nat /\ Len(h) = IF Len(fulls) < 2 THEN Len(fulls) ELSE 2
      BY <1>5, <1>6, LenProperties DEF Mirrors
    <2> HIDE DEF h
    <2>4. Len(h) <= 2
      <3> DEFINE n == Len(fulls)
      <3>1. n \in Nat /\ Len(h) = IF n < 2 THEN n ELSE 2
        BY <2>3
      <3> HIDE DEF n
      <3> QED
        BY <3>1
    <2> QED
      BY <2>2, <2>4
  <1> HIDE DEF h
  <1>8. history'[c] = h /\ \A b \in Branches \ {c} : history'[b] = history[b]
    BY <1>1, <1>2, <1>5
  <1>9. TypeOK'
    <2>1. history' \in [Branches -> Seq(Refresh)]
      BY <1>1, <1>2, <1>5, <1>7
    <2>2. \A b \in Branches : Len(history'[b]) <= 2
      BY <1>7, <1>8 DEF IInv, TypeOK
    <2>3. work' \in Nat
      <3>1. work \in Nat /\ TotalBlocks \in Nat /\ ProbeDepth \in 1 .. TotalBlocks - 1
        BY DiCacheAssumption DEF IInv, TypeOK
      <3>2. work + TotalBlocks - ProbeDepth \in Nat
        BY <3>1
      <3> QED
        BY <1>1, <3>1, <3>2
    <2> QED
      BY <1>1, <1>2, <1>3, <2>1, <2>2, <2>3 DEF IInv, TypeOK
  <1>10. HistoryIsTrue'
    <2>1. ASSUME NEW b \in Branches PROVE Mirrors(history'[b], FullsOf(b)', batch)
      <3>1. CASE b = c
        <4>1. FullsOf(b)' = fulls /\ history'[b] = h
          BY <1>1, <1>2, <1>8, <3>1 DEF FullsOf
        <4> QED
          BY <1>6, <4>1
      <3>2. CASE b # c
        <4>1. FullsOf(b)' = FullsOf(b) /\ history'[b] = history[b]
          BY <1>1, <1>2, <1>8, <3>2 DEF FullsOf
        <4> QED
          BY <1>2, <4>1 DEF IInv, HistoryIsTrue
      <3> QED
        BY <3>1, <3>2
    <2> QED
      BY <1>3, <2>1 DEF HistoryIsTrue
  <1> QED
    BY <1>2, <1>9, <1>10 DEF IInv

\* An extrapolated branch records nothing.
LEMMA ApproximateKeeps ==
    ASSUME IInv, NEW gamma \in Gammas, Approximate(gamma)
    PROVE  IInv'
  <1>1. /\ NextBranch /\ reuse /\ UNCHANGED <<history, fulls, gone, work>>
        /\ pending' = pending \/ pending' = [pending EXCEPT ![gamma] = @ + 1]
        /\ fellBack' \in BOOLEAN
    BY DEF Approximate, ghosts
  <1>2. /\ at = "branches" /\ Control' /\ AccumulatedCovers'
        /\ todo' \in {<<>>, <<"uncond">>, Order} /\ at' \in {"branches", "finish"}
    BY <1>1, NextBranchKeeps
  <1>3. UNCHANGED <<conf, formal, batch, step, accumulated, seen, reuse>>
    BY <1>1 DEF NextBranch
  <1>4. TypeOK'
    <2>1. pending \in [Gammas -> Nat]
      BY DEF IInv, TypeOK
    <2>2. pending' \in [Gammas -> Nat]
      BY <1>1, <2>1
    <2>3. counts' \in [Fields -> Nat]
      BY CountsTyped DEF Approximate, IInv, TypeOK
    <2> QED
      BY <1>1, <1>2, <1>3, <2>2, <2>3 DEF IInv, TypeOK
  <1>5. HistoryIsTrue'
    <2>1. \A b \in Branches : FullsOf(b)' = fulls /\ FullsOf(b) = fulls
      BY <1>1, <1>3 DEF FullsOf, Waiting
    <2> QED
      BY <1>1, <1>2, <1>3, <2>1 DEF IInv, HistoryIsTrue
  <1> QED
    BY <1>2, <1>4, <1>5 DEF IInv

\* The end of a step.
LEMMA FinishStepKeeps ==
    ASSUME IInv, FinishStep
    PROVE  IInv'
  <1>1. /\ at = "finish" /\ at' = "decide" /\ step' = step + 1 /\ seen' = TRUE
        /\ reuse' = FALSE /\ fellBack' = FALSE
        /\ UNCHANGED <<conf, formal, batch, accumulated, history, pending, todo, fulls, gone, work>>
    BY DEF FinishStep, ghosts
  <1>2. todo = <<>> /\ step < Steps
    BY <1>1 DEF IInv, Control, TypeOK
  <1>3. TypeOK'
    <2>1. step' \in 0 .. Steps
      <3>1. step \in 0 .. Steps /\ Steps \in Nat
        BY DiCacheAssumption DEF IInv, TypeOK
      <3> QED
        BY <1>1, <1>2, <3>1
    <2>2. counts' \in [Fields -> Nat]
      BY CountsTyped DEF FinishStep, IInv, TypeOK
    <2> QED
      BY <1>1, <2>1, <2>2 DEF IInv, TypeOK
  <1>4. Control'
    BY <1>1, <1>2 DEF Control
  <1>5. HistoryIsTrue'
    <2>1. \A b \in Branches : FullsOf(b)' = fulls /\ FullsOf(b) = fulls
      BY <1>1 DEF FullsOf, Waiting
    <2> QED
      BY <1>1, <2>1 DEF IInv, HistoryIsTrue
  <1>6. AccumulatedCovers'
    <2>1. Aggregated(gone)' = Aggregated(gone)
      BY <1>1 DEF Aggregated
    <2> QED
      BY <1>1, <2>1 DEF IInv, AccumulatedCovers
  <1> QED
    BY <1>3, <1>4, <1>5, <1>6 DEF IInv

\* The end of a batch.
LEMMA EndBatchKeeps ==
    ASSUME IInv, EndBatch
    PROVE  IInv'
  <1>1. /\ at = "decide" /\ at' = "between" /\ pending' = NoGammas
        /\ UNCHANGED <<conf, formal, batch, step, accumulated, seen, history, reuse, todo,
                       fellBack, fulls, gone, work>>
    BY DEF EndBatch, ghosts
  <1>2. TypeOK'
    <2>1. pending' \in [Gammas -> Nat]
      BY <1>1 DEF NoGammas
    <2>2. counts' \in [Fields -> Nat]
      BY CountsTyped DEF EndBatch, IInv, TypeOK
    <2> QED
      BY <1>1, <2>1, <2>2 DEF IInv, TypeOK
  <1>3. Control'
    BY <1>1 DEF IInv, Control
  <1>4. HistoryIsTrue'
    BY <1>1 DEF HistoryIsTrue
  <1>5. AccumulatedCovers'
    BY <1>1 DEF IInv, AccumulatedCovers
  <1> QED
    BY <1>2, <1>3, <1>4, <1>5 DEF IInv

\* The end of the warm-up.
LEMMA EndWarmupKeeps ==
    ASSUME IInv, EndWarmup
    PROVE  IInv'
  <1>1. /\ at = "between" /\ formal' = TRUE /\ batch' = 0
        /\ accumulated' = 0 /\ seen' = FALSE /\ history' = NoHistory /\ pending' = NoGammas
        /\ fulls' = <<>> /\ gone' = [b \in Branches |-> 0]
        /\ UNCHANGED <<conf, at, step, reuse, todo, fellBack, work>>
    BY DEF EndWarmup, ClearBatch
  <1>2. TypeOK'
    <2>1. history' \in [Branches -> Seq(Refresh)] /\ \A b \in Branches : Len(history'[b]) <= 2
      BY <1>1 DEF NoHistory
    <2>2. pending' \in [Gammas -> Nat] /\ gone' \in [Branches -> Nat]
      <3>1. pending' \in [Gammas -> Nat]
        BY <1>1 DEF NoGammas
      <3>2. gone' \in [Branches -> Nat]
        BY <1>1
      <3> QED
        BY <3>1, <3>2
    <2>3. fulls' \in Seq(Nat) /\ accumulated' \in Nat /\ batch' \in Nat
      <3>1. fulls' \in Seq(Nat)
        BY <1>1, EmptySeq
      <3> QED
        BY <1>1, <3>1
    <2>4. conf' \in Configs /\ at' = "between" /\ formal' \in BOOLEAN /\ step' \in 0 .. Steps
      BY <1>1 DEF IInv, TypeOK
    <2>5. {seen', reuse', fellBack'} \subseteq BOOLEAN /\ todo' \in {<<>>, <<"uncond">>, Order}
      BY <1>1 DEF IInv, TypeOK
    <2>6. work' \in Nat
      BY <1>1 DEF IInv, TypeOK
    <2>7. counts' \in [Fields -> Nat]
      BY CountsTyped DEF EndWarmup, ResetStats
    <2> QED
      BY <2>1, <2>2, <2>3, <2>4, <2>5, <2>6, <2>7 DEF TypeOK
  <1>3. Control'
    BY <1>1 DEF IInv, Control
  <1>4. HistoryIsTrue'
    BY <1>1 DEF HistoryIsTrue
  <1>5. AccumulatedCovers'
    BY <1>1 DEF AccumulatedCovers
  <1> QED
    BY <1>2, <1>3, <1>4, <1>5 DEF IInv

\* Every step keeps the invariant.
LEMMA NextIInv == IInv /\ [Next]_vars => IInv'
  <1> SUFFICES ASSUME IInv, [Next]_vars PROVE IInv'
    OBVIOUS
  <1>1. CASE StartBatch
    BY <1>1, StartBatchKeeps
  <1>2. CASE \E e \in [Branches -> Errors] : Decide(e)
    BY <1>2, DecideKeeps
  <1>3. CASE \E p \in Residuals : RecordRefresh(p)
    BY <1>3, RecordRefreshKeeps
  <1>4. CASE \E gamma \in Gammas : Approximate(gamma)
    BY <1>4, ApproximateKeeps
  <1>5. CASE FinishStep
    BY <1>5, FinishStepKeeps
  <1>6. CASE EndBatch
    BY <1>6, EndBatchKeeps
  <1>7. CASE EndWarmup
    BY <1>7, EndWarmupKeeps
  <1>8. CASE Finished \/ UNCHANGED vars
    <2>1. UNCHANGED <<conf, at, formal, batch, step, accumulated, seen, history, pending,
                      counts, reuse, todo, fellBack, fulls, gone, work>>
      BY <1>8 DEF Finished, vars, control, ghosts
    <2>2. TypeOK' /\ Control'
      BY <2>1 DEF IInv, TypeOK, Control
    <2>3. HistoryIsTrue'
      <3>1. \A b \in Branches : FullsOf(b)' = FullsOf(b)
        BY <2>1 DEF FullsOf, Waiting
      <3> QED
        BY <2>1, <3>1 DEF IInv, HistoryIsTrue
    <2>4. AccumulatedCovers'
      BY <2>1 DEF IInv, AccumulatedCovers, Aggregated
    <2> QED
      BY <2>2, <2>3, <2>4 DEF IInv
  <1> QED
    BY <1>1, <1>2, <1>3, <1>4, <1>5, <1>6, <1>7, <1>8 DEF Next

-----------------------------------------------------------------------------
(* The theorems *)

\* At every point of the sampler's loop the histories of both branches hold the
\* last two full steps of this batch, and accumulated_error covers what the
\* branches moved since and is below the threshold.
THEOREM Invariance == Spec => []IInv
  <1> QED
    BY InitIInv, NextIInv, PTL DEF Spec

\* Every variable keeps its type, deques of two included.
THEOREM TypeCorrect == Spec => []TypeOK
  <1>1. IInv => TypeOK
    BY DEF IInv
  <1> QED
    BY <1>1, Invariance, PTL

\* A residual is only reused after a full step of the same batch, while the
\* errors since then stay below the threshold: those of each branch under max,
\* under mean those of both on average, and of neither twice the threshold.
THEOREM ReuseWithinThreshold == Spec => []ReuseEarned
  <1>1. IInv => ReuseEarned
    <2> SUFFICES ASSUME IInv, reuse PROVE ReuseEarned
      BY DEF ReuseEarned
    <2>1. at \in {"branches", "finish"}
      BY DEF IInv, Control, TypeOK
    <2>2. fulls # <<>> /\ seen
      BY <2>1 DEF IInv, Control
    <2>3. /\ gone \in [Branches -> Nat] /\ accumulated \in Nat
          /\ Aggregated(gone) \in Nat /\ Aggregated(gone) <= accumulated
      BY <2>1, AggregatedBounds DEF IInv, TypeOK, AccumulatedCovers
    <2>4. conf.threshold \in Nat \ {0} /\ (accumulated > 0 => accumulated < conf.threshold)
      BY ConfFacts DEF IInv, AccumulatedCovers
    <2>5. Aggregated(gone) < conf.threshold
      BY <2>3, <2>4
    <2>6. conf.aggregation = "mean" => gone["cond"] + gone["uncond"] < conf.threshold
      BY <2>3, <2>5, AggregatedBounds
    <2>7. ASSUME NEW b \in Branches
          PROVE  conf.aggregation = "max" => 2 * gone[b] < conf.threshold
      <3>1. conf.aggregation = "max" => 2 * gone[b] <= Aggregated(gone)
        BY <2>3, AggregatedBounds
      <3>2. gone[b] \in Nat
        BY <2>3
      <3> QED
        BY <2>3, <2>4, <2>5, <3>1, <3>2
    <2>9. ASSUME NEW b \in Branches PROVE gone[b] < conf.threshold
      <3>1. gone["cond"] \in Nat /\ gone["uncond"] \in Nat /\ b \in {"cond", "uncond"}
        BY <2>3 DEF Branches
      <3>2. conf.aggregation \in {"mean", "max"}
        BY ConfFacts DEF IInv
      <3>3. CASE conf.aggregation = "mean"
        BY <2>4, <2>6, <3>1, <3>3
      <3>4. CASE conf.aggregation = "max"
        BY <2>4, <2>7, <3>1, <3>4
      <3> QED
        BY <3>2, <3>3, <3>4
    <2>8. ASSUME NEW b \in Branches
          PROVE  history[b] # <<>> /\ history[b][Len(history[b])].step = fulls[Len(fulls)]
      <3> DEFINE h == history[b]
                 n == Len(fulls)
                 l == Len(h)
      <3>1. h \in Seq(Refresh) /\ n \in Nat \ {0} /\ l \in Nat
        BY <2>2, EmptySeq, LenProperties DEF IInv, TypeOK
      <3>2. Mirrors(h, fulls, batch)
        BY <2>1 DEF IInv, HistoryIsTrue, FullsOf, Waiting
      <3>3. /\ l = IF n < 2 THEN n ELSE 2
            /\ \A k \in 1 .. l : h[k].step = fulls[n - l + k]
        BY <3>2 DEF Mirrors
      <3>4. h = <<>> => l = 0
        BY EmptySeq
      <3> HIDE DEF l, n, h
      <3>5. l \in 1 .. l /\ n - l + l = n /\ l # 0
        BY <3>1, <3>3
      <3>6. h[l].step = fulls[n]
        BY <3>3, <3>5
      <3> QED
        BY <3>4, <3>5, <3>6 DEF h, l, n
    <2> QED
      BY <2>2, <2>6, <2>7, <2>8, <2>9 DEF ReuseEarned
  <1> QED
    BY <1>1, Invariance, PTL

-----------------------------------------------------------------------------
(* The statistics *)

\* Whole batches, and the decisions of the one in progress.
Closed == IF at = "between" THEN batch ELSE batch - 1
InStep == at \in {"branches", "finish"}
Decisions == IF at = "between" THEN 0 ELSE IF InStep THEN step + 1 ELSE step
\* The first decision of a batch has no probes to compare with.
Compared == IF Decisions = 0 THEN 0 ELSE Decisions - 1

\* What the rest of the step will still count: calls of a reused one, deep
\* blocks of a full one.
CallsToCome == IF reuse THEN Len(todo) ELSE 0
BlocksToCome == IF reuse THEN 0 ELSE Len(todo) * (TotalBlocks - ProbeDepth)

\* Every step is decided once, every decision has one reason.
StepsCounted ==
    /\ counts["total"] = Closed * Steps + Decisions
    /\ counts["total"] = counts["reuse"] + FullSteps(counts)
    /\ counts["syncs"] = Closed * (Steps - 1) + Compared
    /\ counts["decided"] = counts["reuse"] + counts["adaptive_threshold"]
    /\ counts["first_step"] + counts["force_full"] >= Closed + (IF Decisions = 0 THEN 0 ELSE 1)

\* Every call of a reused step is a fallback or a gamma.
CallsCounted ==
    /\ counts["calls"] = Fallbacks(counts) + counts["gammas"] + GammasOf(pending)
    /\ counts["calls"] + CallsToCome = 2 * counts["reuse"]
    /\ counts["dcta_steps"] + (IF reuse THEN 1 ELSE 0) = counts["reuse"]
    /\ counts["fallback_steps"] + (IF fellBack THEN 1 ELSE 0) <= Fallbacks(counts)
    /\ Fallbacks(counts) <= 2 * counts["fallback_steps"] + (IF fellBack THEN 2 - Len(todo) ELSE 0)

BlocksCounted == work + BlocksToCome = ActualBlockCalls(counts)

\* The statistics at every point of the sampler's loop.
Accounted ==
    /\ at # "between" => (seen <=> step > 0)
    /\ at = "between" => pending = NoGammas
    /\ ~formal => work = 0
    /\ fellBack => reuse
    /\ formal => StepsCounted /\ CallsCounted /\ BlocksCounted

\* Every count is a number.
LEMMA CountsAreNat ==
    ASSUME NEW c \in [Fields -> Nat]
    PROVE  /\ c["total"] \in Nat /\ c["reuse"] \in Nat /\ c["syncs"] \in Nat /\ c["decided"] \in Nat
           /\ c["calls"] \in Nat /\ c["degenerate"] \in Nat /\ c["short"] \in Nat
           /\ c["disabled"] \in Nat /\ c["gammas"] \in Nat
           /\ c["dcta_steps"] \in Nat /\ c["fallback_steps"] \in Nat
           /\ c["force_full"] \in Nat /\ c["first_step"] \in Nat /\ c["retention_full"] \in Nat
           /\ c["last_step"] \in Nat /\ c["insufficient_history"] \in Nat
           /\ c["adaptive_threshold"] \in Nat
           /\ FullSteps(c) \in Nat /\ Fallbacks(c) \in Nat
  <1>1. \A f \in Fields : c[f] \in Nat
    OBVIOUS
  <1>2. /\ c["total"] \in Nat /\ c["reuse"] \in Nat /\ c["syncs"] \in Nat /\ c["decided"] \in Nat
        /\ c["calls"] \in Nat /\ c["degenerate"] \in Nat /\ c["short"] \in Nat
        /\ c["disabled"] \in Nat /\ c["gammas"] \in Nat
        /\ c["dcta_steps"] \in Nat /\ c["fallback_steps"] \in Nat
        /\ c["force_full"] \in Nat /\ c["first_step"] \in Nat /\ c["retention_full"] \in Nat
        /\ c["last_step"] \in Nat /\ c["insufficient_history"] \in Nat
        /\ c["adaptive_threshold"] \in Nat
    BY <1>1 DEF Fields, Reasons
  <1> QED
    BY <1>2 DEF FullSteps, Fallbacks

\* A count that is named is one more, the others stay.
LEMMA CountedAt ==
    ASSUME NEW c \in [Fields -> Nat], NEW S, NEW f \in Fields
    PROVE  /\ f \in S => Counted(c, S)[f] = c[f] + 1
           /\ f \notin S => Counted(c, S)[f] = c[f]
  BY DEF Counted

\* Pending gammas become counted ones; nothing else changes.
LEMMA FlushedFields ==
    ASSUME NEW c \in [Fields -> Nat], NEW p \in [Gammas -> Nat], NEW d, d = Flushed(c, p)
    PROVE  /\ d["total"] = c["total"] /\ d["reuse"] = c["reuse"] /\ d["syncs"] = c["syncs"]
           /\ d["decided"] = c["decided"] /\ d["calls"] = c["calls"]
           /\ d["dcta_steps"] = c["dcta_steps"] /\ d["fallback_steps"] = c["fallback_steps"]
           /\ d["gammas"] = c["gammas"] + GammasOf(p)
           /\ d["force_full"] = c["force_full"] /\ d["first_step"] = c["first_step"]
           /\ d["adaptive_threshold"] = c["adaptive_threshold"]
           /\ FullSteps(d) = FullSteps(c) /\ Fallbacks(d) = Fallbacks(c)
  <1>1. \A f \in Fields : f \notin {"gammas", "low", "high"} => d[f] = c[f]
    BY DEF Flushed
  <1>2. d["gammas"] = c["gammas"] + GammasOf(p)
    BY DEF Flushed, Fields
  <1>3. /\ d["total"] = c["total"] /\ d["reuse"] = c["reuse"] /\ d["syncs"] = c["syncs"]
        /\ d["decided"] = c["decided"] /\ d["calls"] = c["calls"]
        /\ d["dcta_steps"] = c["dcta_steps"] /\ d["fallback_steps"] = c["fallback_steps"]
        /\ d["degenerate"] = c["degenerate"] /\ d["short"] = c["short"]
        /\ d["disabled"] = c["disabled"]
    BY <1>1 DEF Fields
  <1>4. /\ d["force_full"] = c["force_full"] /\ d["first_step"] = c["first_step"]
        /\ d["retention_full"] = c["retention_full"] /\ d["last_step"] = c["last_step"]
        /\ d["insufficient_history"] = c["insufficient_history"]
        /\ d["adaptive_threshold"] = c["adaptive_threshold"]
    BY <1>1 DEF Fields, Reasons
  <1> QED
    BY <1>2, <1>3, <1>4 DEF FullSteps, Fallbacks

\* The gammas that are pending.
LEMMA GammasCounted ==
    /\ GammasOf(NoGammas) = 0
    /\ \A p \in [Gammas -> Nat] : GammasOf(p) \in Nat
    /\ \A p \in [Gammas -> Nat] : \A g \in Gammas :
         GammasOf([p EXCEPT ![g] = @ + 1]) = GammasOf(p) + 1
  <1>1. GammasOf(NoGammas) = 0
    BY DEF GammasOf, NoGammas, Gammas
  <1>2. ASSUME NEW p \in [Gammas -> Nat]
        PROVE  p["low"] \in Nat /\ p["within"] \in Nat /\ p["high"] \in Nat
    BY DEF Gammas
  <1>3. ASSUME NEW p \in [Gammas -> Nat], NEW g \in Gammas
        PROVE  GammasOf([p EXCEPT ![g] = @ + 1]) = GammasOf(p) + 1
    <2>1. CASE g = "low"
      BY <1>2, <2>1 DEF GammasOf, Gammas
    <2>2. CASE g = "within"
      BY <1>2, <2>2 DEF GammasOf, Gammas
    <2>3. CASE g = "high"
      BY <1>2, <2>3 DEF GammasOf, Gammas
    <2> QED
      BY <2>1, <2>2, <2>3 DEF Gammas
  <1> QED
    BY <1>1, <1>2, <1>3 DEF GammasOf

\* What a decision counts: one step with one reason.
LEMMA DecisionCounted ==
    ASSUME IInv, NEW e \in [Branches -> Errors], Decide(e)
    PROVE  /\ counts'["total"] = counts["total"] + 1
           /\ IF reuse'
              THEN /\ counts'["reuse"] = counts["reuse"] + 1
                   /\ FullSteps(counts') = FullSteps(counts)
              ELSE /\ counts'["reuse"] = counts["reuse"]
                   /\ FullSteps(counts') = FullSteps(counts) + 1
           /\ counts'["syncs"] = IF seen THEN counts["syncs"] + 1 ELSE counts["syncs"]
           /\ counts'["decided"] + counts["reuse"] + counts["adaptive_threshold"]
                = counts["decided"] + counts'["reuse"] + counts'["adaptive_threshold"]
           /\ counts'["first_step"] + counts'["force_full"]
                >= counts["first_step"] + counts["force_full"] + (IF step = 0 THEN 1 ELSE 0)
           /\ counts'["calls"] = counts["calls"] /\ counts'["gammas"] = counts["gammas"]
           /\ Fallbacks(counts') = Fallbacks(counts)
           /\ counts'["dcta_steps"] = counts["dcta_steps"]
           /\ counts'["fallback_steps"] = counts["fallback_steps"]
  <1> DEFINE reused == ReasonNow = "adaptive_threshold" /\ ShouldReuse(e)
             S == {"total", IF reused THEN "reuse" ELSE ReasonNow}
                    \cup {f \in {"syncs"} : seen}
                    \cup {f \in {"decided"} : ReasonNow = "adaptive_threshold"}
  <1>1. reuse' = reused /\ counts' = Counted(counts, S)
    BY DEF Decide
  <1>2. counts \in [Fields -> Nat] /\ seen \in BOOLEAN
    BY DEF IInv, TypeOK
  <1>3. ReasonNow \in Reasons /\ (step = 0 => ReasonNow \in {"force_full", "first_step"})
    BY DEF ReasonNow, ScheduleReason, Reasons
  <1>4. PICK r : r = ReasonNow
    OBVIOUS
  <1>5. reused \in BOOLEAN /\ (reused => r = "adaptive_threshold")
    BY <1>4
  <1>6. /\ "total" \in S
        /\ "reuse" \in S <=> reused
        /\ "syncs" \in S <=> seen
        /\ "decided" \in S <=> r = "adaptive_threshold"
        /\ \A q \in Reasons : q \in S <=> (~reused /\ r = q)
        /\ \A f \in {"calls", "degenerate", "short", "disabled", "gammas", "dcta_steps",
                     "fallback_steps"} : f \notin S
    BY <1>3, <1>4 DEF Reasons
  <1> HIDE DEF S, reused
  <1>7. \A f \in Fields : /\ f \in S => counts'[f] = counts[f] + 1
                          /\ f \notin S => counts'[f] = counts[f]
    BY <1>1, <1>2, CountedAt
  <1>8. /\ counts'["total"] = counts["total"] + 1
        /\ counts'["reuse"] = IF reused THEN counts["reuse"] + 1 ELSE counts["reuse"]
        /\ counts'["syncs"] = IF seen THEN counts["syncs"] + 1 ELSE counts["syncs"]
        /\ counts'["decided"] = IF r = "adaptive_threshold" THEN counts["decided"] + 1
                                ELSE counts["decided"]
    BY <1>6, <1>7 DEF Fields
  <1>9. /\ counts'["calls"] = counts["calls"] /\ counts'["gammas"] = counts["gammas"]
        /\ counts'["dcta_steps"] = counts["dcta_steps"]
        /\ counts'["fallback_steps"] = counts["fallback_steps"]
        /\ counts'["degenerate"] = counts["degenerate"] /\ counts'["short"] = counts["short"]
        /\ counts'["disabled"] = counts["disabled"]
    BY <1>6, <1>7 DEF Fields
  <1>10. \A q \in Reasons : counts'[q] = IF ~reused /\ r = q THEN counts[q] + 1 ELSE counts[q]
    BY <1>6, <1>7 DEF Fields
  <1>11. /\ counts["total"] \in Nat /\ counts["reuse"] \in Nat /\ counts["decided"] \in Nat
         /\ counts["force_full"] \in Nat /\ counts["first_step"] \in Nat
         /\ counts["retention_full"] \in Nat /\ counts["last_step"] \in Nat
         /\ counts["insufficient_history"] \in Nat /\ counts["adaptive_threshold"] \in Nat
         /\ FullSteps(counts) \in Nat
    BY <1>2, CountsAreNat
  <1>12. /\ counts'["force_full"] = IF ~reused /\ r = "force_full" THEN counts["force_full"] + 1
                                    ELSE counts["force_full"]
         /\ counts'["first_step"] = IF ~reused /\ r = "first_step" THEN counts["first_step"] + 1
                                    ELSE counts["first_step"]
         /\ counts'["retention_full"] = IF ~reused /\ r = "retention_full"
                                        THEN counts["retention_full"] + 1
                                        ELSE counts["retention_full"]
         /\ counts'["last_step"] = IF ~reused /\ r = "last_step" THEN counts["last_step"] + 1
                                   ELSE counts["last_step"]
         /\ counts'["insufficient_history"] = IF ~reused /\ r = "insufficient_history"
                                              THEN counts["insufficient_history"] + 1
                                              ELSE counts["insufficient_history"]
         /\ counts'["adaptive_threshold"] = IF ~reused /\ r = "adaptive_threshold"
                                            THEN counts["adaptive_threshold"] + 1
                                            ELSE counts["adaptive_threshold"]
    BY <1>10 DEF Reasons
  <1>13. r \in Reasons /\ (step = 0 => r \in {"force_full", "first_step"})
    BY <1>3, <1>4
  <1>14. IF reused THEN FullSteps(counts') = FullSteps(counts)
         ELSE FullSteps(counts') = FullSteps(counts) + 1
    BY <1>5, <1>11, <1>12, <1>13 DEF FullSteps, Reasons
  <1>15. Fallbacks(counts') = Fallbacks(counts)
    BY <1>9 DEF Fallbacks
  <1>16. counts'["decided"] + counts["reuse"] + counts["adaptive_threshold"]
           = counts["decided"] + counts'["reuse"] + counts'["adaptive_threshold"]
    BY <1>5, <1>8, <1>11, <1>12
  <1>17. counts'["first_step"] + counts'["force_full"]
           >= counts["first_step"] + counts["force_full"] + (IF step = 0 THEN 1 ELSE 0)
    BY <1>5, <1>11, <1>12, <1>13
  <1> QED
    BY <1>1, <1>8, <1>9, <1>14, <1>15, <1>16, <1>17

\* What an approximated branch counts: one call, either a fallback or a gamma.
LEMMA CallCounted ==
    ASSUME IInv, NEW gamma \in Gammas, Approximate(gamma)
    PROVE  /\ counts'["total"] = counts["total"] /\ counts'["reuse"] = counts["reuse"]
           /\ FullSteps(counts') = FullSteps(counts)
           /\ counts'["syncs"] = counts["syncs"] /\ counts'["decided"] = counts["decided"]
           /\ counts'["adaptive_threshold"] = counts["adaptive_threshold"]
           /\ counts'["first_step"] = counts["first_step"]
           /\ counts'["force_full"] = counts["force_full"]
           /\ counts'["calls"] = counts["calls"] + 1 /\ counts'["gammas"] = counts["gammas"]
           /\ counts'["dcta_steps"] = counts["dcta_steps"]
           /\ counts'["fallback_steps"] = counts["fallback_steps"]
           /\ \/ /\ Fallbacks(counts') = Fallbacks(counts)
                 /\ GammasOf(pending') = GammasOf(pending) + 1
                 /\ fellBack' = fellBack
              \/ /\ Fallbacks(counts') = Fallbacks(counts) + 1
                 /\ GammasOf(pending') = GammasOf(pending)
                 /\ fellBack' = TRUE
  <1>1. PICK why : why = Fallback(history[Head(todo)])
    OBVIOUS
  <1>2. /\ counts' = Counted(counts, {"calls", why})
        /\ pending' = IF why = "none" THEN [pending EXCEPT ![gamma] = @ + 1] ELSE pending
        /\ fellBack' = (fellBack \/ why # "none")
    BY <1>1 DEF Approximate
  <1>3. why \in {"none", "disabled", "short", "degenerate"}
    BY <1>1 DEF Fallback
  <1>4. counts \in [Fields -> Nat] /\ pending \in [Gammas -> Nat] /\ fellBack \in BOOLEAN
    BY DEF IInv, TypeOK
  <1>5. \A f \in Fields : /\ f \in {"calls", why} => counts'[f] = counts[f] + 1
                          /\ f \notin {"calls", why} => counts'[f] = counts[f]
    BY <1>2, <1>4, CountedAt
  <1>6. /\ counts'["total"] = counts["total"] /\ counts'["reuse"] = counts["reuse"]
        /\ counts'["syncs"] = counts["syncs"] /\ counts'["decided"] = counts["decided"]
        /\ counts'["calls"] = counts["calls"] + 1 /\ counts'["gammas"] = counts["gammas"]
        /\ counts'["dcta_steps"] = counts["dcta_steps"]
        /\ counts'["fallback_steps"] = counts["fallback_steps"]
    BY <1>3, <1>5 DEF Fields
  <1>7. \A q \in Reasons : counts'[q] = counts[q]
    BY <1>3, <1>5 DEF Fields, Reasons
  <1>8. /\ counts'["force_full"] = counts["force_full"]
        /\ counts'["first_step"] = counts["first_step"]
        /\ counts'["retention_full"] = counts["retention_full"]
        /\ counts'["last_step"] = counts["last_step"]
        /\ counts'["insufficient_history"] = counts["insufficient_history"]
        /\ counts'["adaptive_threshold"] = counts["adaptive_threshold"]
    BY <1>7 DEF Reasons
  <1>9. FullSteps(counts') = FullSteps(counts)
    BY <1>8 DEF FullSteps
  <1>10. /\ counts'["disabled"] = IF why = "disabled" THEN counts["disabled"] + 1
                                  ELSE counts["disabled"]
         /\ counts'["short"] = IF why = "short" THEN counts["short"] + 1 ELSE counts["short"]
         /\ counts'["degenerate"] = IF why = "degenerate" THEN counts["degenerate"] + 1
                                    ELSE counts["degenerate"]
    BY <1>5 DEF Fields
  <1>11. /\ counts["disabled"] \in Nat /\ counts["short"] \in Nat /\ counts["degenerate"] \in Nat
    BY <1>4, CountsAreNat
  <1>12. CASE why = "none"
    <2>1. Fallbacks(counts') = Fallbacks(counts)
      BY <1>10, <1>12 DEF Fallbacks
    <2>2. GammasOf(pending') = GammasOf(pending) + 1
      BY <1>2, <1>4, <1>12, GammasCounted
    <2>3. fellBack' = fellBack
      BY <1>2, <1>4, <1>12
    <2> QED
      BY <1>6, <1>8, <1>9, <2>1, <2>2, <2>3
  <1>13. CASE why # "none"
    <2>1. Fallbacks(counts') = Fallbacks(counts) + 1
      BY <1>3, <1>10, <1>11, <1>13 DEF Fallbacks
    <2>2. pending' = pending /\ fellBack' = TRUE
      BY <1>2, <1>13
    <2> QED
      BY <1>6, <1>8, <1>9, <2>1, <2>2
  <1> QED
    BY <1>12, <1>13

\* What the end of a step counts: whether it was approximated, and by a fallback.
LEMMA StepCounted ==
    ASSUME IInv, FinishStep
    PROVE  /\ counts'["total"] = counts["total"] /\ counts'["reuse"] = counts["reuse"]
           /\ FullSteps(counts') = FullSteps(counts)
           /\ counts'["syncs"] = counts["syncs"] /\ counts'["decided"] = counts["decided"]
           /\ counts'["adaptive_threshold"] = counts["adaptive_threshold"]
           /\ counts'["first_step"] = counts["first_step"]
           /\ counts'["force_full"] = counts["force_full"]
           /\ counts'["calls"] = counts["calls"] /\ counts'["gammas"] = counts["gammas"]
           /\ Fallbacks(counts') = Fallbacks(counts)
           /\ counts'["dcta_steps"] = counts["dcta_steps"] + (IF reuse THEN 1 ELSE 0)
           /\ counts'["fallback_steps"] = counts["fallback_steps"] + (IF fellBack THEN 1 ELSE 0)
  <1> DEFINE S == {f \in {"dcta_steps"} : reuse} \cup {f \in {"fallback_steps"} : fellBack}
  <1>1. counts' = Counted(counts, S)
    BY DEF FinishStep
  <1>2. counts \in [Fields -> Nat] /\ reuse \in BOOLEAN /\ fellBack \in BOOLEAN
    BY DEF IInv, TypeOK
  <1>3. /\ "dcta_steps" \in S <=> reuse
        /\ "fallback_steps" \in S <=> fellBack
        /\ \A f \in Fields : f \notin {"dcta_steps", "fallback_steps"} => f \notin S
    OBVIOUS
  <1> HIDE DEF S
  <1>4. \A f \in Fields : /\ f \in S => counts'[f] = counts[f] + 1
                          /\ f \notin S => counts'[f] = counts[f]
    BY <1>1, <1>2, CountedAt
  <1>5. /\ counts["dcta_steps"] \in Nat /\ counts["fallback_steps"] \in Nat
    BY <1>2, CountsAreNat
  <1>6. "dcta_steps" \in Fields /\ "fallback_steps" \in Fields
    BY DEF Fields
  <1>7. /\ counts'["dcta_steps"] = counts["dcta_steps"] + (IF reuse THEN 1 ELSE 0)
        /\ counts'["fallback_steps"] = counts["fallback_steps"] + (IF fellBack THEN 1 ELSE 0)
    BY <1>3, <1>4, <1>5, <1>6
  <1>8. \A f \in Fields : f \notin {"dcta_steps", "fallback_steps"} => counts'[f] = counts[f]
    BY <1>3, <1>4
  <1>9. /\ counts'["total"] = counts["total"] /\ counts'["reuse"] = counts["reuse"]
        /\ counts'["syncs"] = counts["syncs"] /\ counts'["decided"] = counts["decided"]
        /\ counts'["calls"] = counts["calls"] /\ counts'["gammas"] = counts["gammas"]
        /\ counts'["degenerate"] = counts["degenerate"] /\ counts'["short"] = counts["short"]
        /\ counts'["disabled"] = counts["disabled"]
    BY <1>8 DEF Fields
  <1>10. /\ counts'["force_full"] = counts["force_full"]
         /\ counts'["first_step"] = counts["first_step"]
         /\ counts'["retention_full"] = counts["retention_full"]
         /\ counts'["last_step"] = counts["last_step"]
         /\ counts'["insufficient_history"] = counts["insufficient_history"]
         /\ counts'["adaptive_threshold"] = counts["adaptive_threshold"]
    BY <1>8 DEF Fields, Reasons
  <1> QED
    BY <1>7, <1>9, <1>10 DEF FullSteps, Fallbacks

\* Nothing was counted yet.
LEMMA NothingCounted ==
    /\ NoCounts["total"] = 0 /\ NoCounts["reuse"] = 0 /\ NoCounts["syncs"] = 0
    /\ NoCounts["decided"] = 0 /\ NoCounts["adaptive_threshold"] = 0 /\ NoCounts["calls"] = 0
    /\ NoCounts["gammas"] = 0 /\ NoCounts["first_step"] = 0 /\ NoCounts["force_full"] = 0
    /\ NoCounts["dcta_steps"] = 0 /\ NoCounts["fallback_steps"] = 0
    /\ FullSteps(NoCounts) = 0 /\ Fallbacks(NoCounts) = 0
  <1>1. \A f \in Fields : NoCounts[f] = 0
    BY DEF NoCounts
  <1>2. /\ NoCounts["total"] = 0 /\ NoCounts["reuse"] = 0 /\ NoCounts["syncs"] = 0
        /\ NoCounts["decided"] = 0 /\ NoCounts["calls"] = 0 /\ NoCounts["gammas"] = 0
        /\ NoCounts["dcta_steps"] = 0 /\ NoCounts["fallback_steps"] = 0
        /\ NoCounts["degenerate"] = 0 /\ NoCounts["short"] = 0 /\ NoCounts["disabled"] = 0
    BY <1>1 DEF Fields
  <1>3. /\ NoCounts["first_step"] = 0 /\ NoCounts["force_full"] = 0
        /\ NoCounts["retention_full"] = 0 /\ NoCounts["last_step"] = 0
        /\ NoCounts["insufficient_history"] = 0 /\ NoCounts["adaptive_threshold"] = 0
    BY <1>1 DEF Fields, Reasons
  <1> QED
    BY <1>2, <1>3 DEF FullSteps, Fallbacks

\* Sums distribute over what is counted per step and per full step.
LEMMA Distributes ==
    /\ \A n \in Int, k \in Nat : n * k \in Int /\ (n - 1) * k + k = n * k /\ (n + 1) * k = n * k + k
    /\ \A k \in Nat : 0 * k = 0 /\ 1 * k = k /\ 2 * k = k + k
  OBVIOUS

\* The sizes the statistics speak of.
LEMMA Sizes ==
    ASSUME IInv
    PROVE  /\ Steps \in Nat \ {0} /\ ProbeDepth \in Nat /\ TotalBlocks - ProbeDepth \in Nat
           /\ batch \in Nat /\ step \in Nat /\ step <= Steps /\ work \in Nat
           /\ counts \in [Fields -> Nat] /\ pending \in [Gammas -> Nat]
           /\ seen \in BOOLEAN /\ reuse \in BOOLEAN /\ fellBack \in BOOLEAN /\ formal \in BOOLEAN
           /\ (at # "branches" => todo = <<>> /\ Len(todo) = 0)
           /\ (at \in {"between", "decide"} => ~reuse /\ ~fellBack)
           /\ (at \in {"branches", "finish"} => step < Steps)
  <1>1. /\ Steps \in Nat \ {0} /\ ProbeDepth \in Nat /\ TotalBlocks - ProbeDepth \in Nat
    BY DiCacheAssumption
  <1>2. step \in Nat /\ step <= Steps
    BY <1>1 DEF IInv, TypeOK
  <1>3. at # "branches" => todo = <<>> /\ Len(todo) = 0
    BY DEF IInv, Control, TypeOK
  <1> QED
    BY <1>1, <1>2, <1>3 DEF IInv, TypeOK, Control

\* Nothing has been counted before the first batch.
LEMMA InitAccounts == Init => Accounted
  <1> SUFFICES ASSUME Init PROVE Accounted
    OBVIOUS
  <1>1. /\ at = "between" /\ batch = 0 /\ pending = NoGammas /\ counts = NoCounts /\ work = 0
        /\ reuse = FALSE /\ fellBack = FALSE /\ todo = <<>> /\ Len(todo) = 0
    BY DEF Init
  <1>2. /\ Closed = 0 /\ Decisions = 0 /\ Compared = 0 /\ CallsToCome = 0
    BY <1>1 DEF Closed, Decisions, Compared, CallsToCome
  <1>3. Steps \in Nat /\ Steps - 1 \in Nat /\ ProbeDepth \in Nat /\ TotalBlocks - ProbeDepth \in Nat
    BY DiCacheAssumption
  <1>4. 0 * Steps = 0 /\ 0 * (Steps - 1) = 0 /\ 0 * ProbeDepth = 0
        /\ 0 * (TotalBlocks - ProbeDepth) = 0
    BY <1>3
  <1>5. BlocksToCome = 0
    BY <1>1, <1>4 DEF BlocksToCome
  <1>6. StepsCounted
    BY <1>1, <1>2, <1>4, NothingCounted DEF StepsCounted
  <1>7. CallsCounted
    BY <1>1, <1>2, NothingCounted, GammasCounted DEF CallsCounted
  <1>8. BlocksCounted
    BY <1>1, <1>4, <1>5, NothingCounted DEF BlocksCounted, ActualBlockCalls
  <1> QED
    BY <1>1, <1>6, <1>7, <1>8 DEF Accounted

\* A new batch counts what was pending: nothing.
LEMMA StartBatchAccounts ==
    ASSUME IInv, Accounted, StartBatch
    PROVE  Accounted'
  <1>1. /\ at = "between" /\ at' = "decide" /\ batch' = batch + 1 /\ step' = 0 /\ seen' = FALSE
        /\ pending' = NoGammas /\ counts' = Flushed(counts, pending)
        /\ UNCHANGED <<formal, reuse, todo, fellBack, work>>
    BY DEF StartBatch, ClearBatch
  <1>2. ~reuse /\ ~fellBack /\ Len(todo) = 0 /\ todo = <<>> /\ batch \in Nat
    BY <1>1, Sizes
  <1>3. pending = NoGammas
    BY <1>1 DEF Accounted
  <1>4. /\ Closed' = Closed /\ Decisions' = 0 /\ Decisions = 0 /\ Compared' = 0 /\ Compared = 0
        /\ CallsToCome' = CallsToCome /\ BlocksToCome' = BlocksToCome
    BY <1>1, <1>2 DEF Closed, Decisions, Compared, CallsToCome, BlocksToCome, InStep
  <1>5. counts \in [Fields -> Nat] /\ pending \in [Gammas -> Nat]
    BY Sizes
  <1>6. /\ counts'["total"] = counts["total"] /\ counts'["reuse"] = counts["reuse"]
        /\ counts'["syncs"] = counts["syncs"] /\ counts'["decided"] = counts["decided"]
        /\ counts'["calls"] = counts["calls"] /\ counts'["dcta_steps"] = counts["dcta_steps"]
        /\ counts'["fallback_steps"] = counts["fallback_steps"]
        /\ counts'["gammas"] = counts["gammas"] + GammasOf(pending)
        /\ counts'["force_full"] = counts["force_full"]
        /\ counts'["first_step"] = counts["first_step"]
        /\ counts'["adaptive_threshold"] = counts["adaptive_threshold"]
        /\ FullSteps(counts') = FullSteps(counts) /\ Fallbacks(counts') = Fallbacks(counts)
    BY <1>1, <1>5, FlushedFields
  <1>7. /\ GammasOf(pending) = 0 /\ GammasOf(pending') = 0 /\ counts["gammas"] \in Nat
        /\ counts'["gammas"] = counts["gammas"]
    BY <1>1, <1>3, <1>5, <1>6, GammasCounted, CountsAreNat
  <1>8. StepsCounted => StepsCounted'
    BY <1>4, <1>6 DEF StepsCounted
  <1>9. CallsCounted => CallsCounted'
    BY <1>1, <1>2, <1>4, <1>6, <1>7 DEF CallsCounted
  <1>10. BlocksCounted => BlocksCounted'
    BY <1>1, <1>4, <1>6 DEF BlocksCounted, ActualBlockCalls
  <1>11. seen' <=> step' > 0
    BY <1>1
  <1> QED
    BY <1>1, <1>2, <1>8, <1>9, <1>10, <1>11 DEF Accounted

\* The end of a batch: its decisions are as many as its steps.
LEMMA EndBatchAccounts ==
    ASSUME IInv, Accounted, EndBatch
    PROVE  Accounted'
  <1>1. /\ at = "decide" /\ at' = "between" /\ step = Steps
        /\ pending' = NoGammas /\ counts' = Flushed(counts, pending)
        /\ UNCHANGED <<formal, batch, step, seen, reuse, todo, fellBack, work>>
    BY DEF EndBatch, ghosts
  <1>2. /\ ~reuse /\ ~fellBack /\ Len(todo) = 0 /\ batch \in Nat /\ Steps \in Nat \ {0}
        /\ counts \in [Fields -> Nat] /\ pending \in [Gammas -> Nat]
    BY <1>1, Sizes
  <1>3. /\ Closed' = batch /\ Closed = batch - 1 /\ Decisions' = 0 /\ Decisions = Steps
        /\ Compared' = 0 /\ Compared = Steps - 1
        /\ CallsToCome' = CallsToCome /\ BlocksToCome' = BlocksToCome
    BY <1>1, <1>2 DEF Closed, Decisions, Compared, CallsToCome, BlocksToCome, InStep
  <1>4. /\ (batch - 1) * Steps + Steps = batch * Steps
        /\ (batch - 1) * (Steps - 1) + (Steps - 1) = batch * (Steps - 1)
        /\ batch * Steps \in Int /\ batch * (Steps - 1) \in Int
    <2>1. Steps \in Nat /\ Steps - 1 \in Nat /\ batch \in Int
      BY <1>2
    <2> QED
      BY <2>1, Distributes
  <1>5. /\ counts'["total"] = counts["total"] /\ counts'["reuse"] = counts["reuse"]
        /\ counts'["syncs"] = counts["syncs"] /\ counts'["decided"] = counts["decided"]
        /\ counts'["calls"] = counts["calls"] /\ counts'["dcta_steps"] = counts["dcta_steps"]
        /\ counts'["fallback_steps"] = counts["fallback_steps"]
        /\ counts'["gammas"] = counts["gammas"] + GammasOf(pending)
        /\ counts'["force_full"] = counts["force_full"]
        /\ counts'["first_step"] = counts["first_step"]
        /\ counts'["adaptive_threshold"] = counts["adaptive_threshold"]
        /\ FullSteps(counts') = FullSteps(counts) /\ Fallbacks(counts') = Fallbacks(counts)
    BY <1>1, <1>2, FlushedFields
  <1>6. /\ GammasOf(pending') = 0 /\ GammasOf(pending) \in Nat /\ counts["gammas"] \in Nat
        /\ Fallbacks(counts) \in Nat
    BY <1>1, <1>2, GammasCounted, CountsAreNat
  <1>7. StepsCounted => StepsCounted'
    <2> SUFFICES ASSUME StepsCounted PROVE StepsCounted'
      OBVIOUS
    <2>1. /\ counts["total"] = (batch - 1) * Steps + Steps
          /\ counts["syncs"] = (batch - 1) * (Steps - 1) + (Steps - 1)
          /\ counts["first_step"] + counts["force_full"] >= (batch - 1) + 1
      BY <1>2, <1>3 DEF StepsCounted
    <2>2. /\ counts["total"] = batch * Steps + 0
          /\ counts["syncs"] = batch * (Steps - 1) + 0
          /\ counts["first_step"] + counts["force_full"] >= batch + 0
      BY <1>2, <1>4, <2>1
    <2> QED
      BY <1>3, <1>5, <2>2 DEF StepsCounted
  <1>8. CallsCounted => CallsCounted'
    BY <1>1, <1>2, <1>3, <1>5, <1>6 DEF CallsCounted
  <1>9. BlocksCounted => BlocksCounted'
    BY <1>1, <1>3, <1>5 DEF BlocksCounted, ActualBlockCalls
  <1> QED
    BY <1>1, <1>2, <1>7, <1>8, <1>9 DEF Accounted

\* The formal run starts with nothing counted: reset_stats comes after the flush.
LEMMA EndWarmupAccounts ==
    ASSUME IInv, Accounted, EndWarmup
    PROVE  Accounted'
  <1>1. /\ at = "between" /\ at' = "between" /\ formal' = TRUE /\ batch' = 0 /\ ~formal
        /\ pending' = NoGammas /\ counts' = NoCounts
        /\ UNCHANGED <<step, reuse, todo, fellBack, work>>
    BY DEF EndWarmup, ClearBatch, ResetStats
  <1>2. /\ ~reuse /\ ~fellBack /\ Len(todo) = 0 /\ todo = <<>> /\ work = 0
    BY <1>1, Sizes DEF Accounted
  <1>3. /\ Closed' = 0 /\ Decisions' = 0 /\ Compared' = 0 /\ CallsToCome' = 0
    BY <1>1, <1>2 DEF Closed, Decisions, Compared, CallsToCome
  <1>4. Steps \in Nat /\ Steps - 1 \in Nat /\ ProbeDepth \in Nat /\ TotalBlocks - ProbeDepth \in Nat
    BY DiCacheAssumption
  <1>5. 0 * Steps = 0 /\ 0 * (Steps - 1) = 0 /\ 0 * ProbeDepth = 0
        /\ 0 * (TotalBlocks - ProbeDepth) = 0
    BY <1>4
  <1>6. BlocksToCome' = 0
    BY <1>1, <1>2, <1>5 DEF BlocksToCome
  <1>7. StepsCounted'
    BY <1>1, <1>3, <1>5, NothingCounted DEF StepsCounted
  <1>8. CallsCounted'
    BY <1>1, <1>2, <1>3, NothingCounted, GammasCounted DEF CallsCounted
  <1>9. BlocksCounted'
    BY <1>1, <1>2, <1>5, <1>6, NothingCounted DEF BlocksCounted, ActualBlockCalls
  <1> QED
    BY <1>1, <1>2, <1>7, <1>8, <1>9 DEF Accounted

\* A decision: the step is counted, and what it will cost is still to come.
LEMMA DecideAccounts ==
    ASSUME IInv, Accounted, NEW e \in [Branches -> Errors], Decide(e)
    PROVE  Accounted'
  <1>1. /\ at = "decide" /\ at' = "branches" /\ todo' = Order
        /\ work' = IF formal THEN work + 2 * ProbeDepth ELSE work
        /\ UNCHANGED <<formal, batch, step, seen, pending, fellBack>>
    BY DEF Decide
  <1>2. /\ ~reuse /\ ~fellBack /\ Len(todo) = 0 /\ batch \in Nat /\ step \in Nat
        /\ Steps \in Nat \ {0} /\ counts \in [Fields -> Nat] /\ pending \in [Gammas -> Nat]
        /\ ProbeDepth \in Nat /\ TotalBlocks - ProbeDepth \in Nat /\ work \in Nat
    BY <1>1, Sizes
  <1>3. Len(todo') = 2 /\ (seen <=> step > 0)
    BY <1>1 DEF Order, Accounted
  <1>4. /\ Closed' = Closed /\ Closed = batch - 1
        /\ Decisions' = step + 1 /\ Decisions = step
        /\ Compared' = step /\ Compared = (IF step = 0 THEN 0 ELSE step - 1)
        /\ CallsToCome = 0 /\ CallsToCome' = (IF reuse' THEN 2 ELSE 0)
    BY <1>1, <1>2, <1>3 DEF Closed, Decisions, Compared, CallsToCome, InStep
  <1>5. reuse' \in BOOLEAN
    BY DEF Decide
  <1>6. /\ BlocksToCome = 0
        /\ BlocksToCome' = (IF reuse' THEN 0
                            ELSE (TotalBlocks - ProbeDepth) + (TotalBlocks - ProbeDepth))
    <2>1. 0 * (TotalBlocks - ProbeDepth) = 0
          /\ 2 * (TotalBlocks - ProbeDepth) = (TotalBlocks - ProbeDepth) + (TotalBlocks - ProbeDepth)
      BY <1>2, Distributes
    <2> QED
      BY <1>2, <1>3, <2>1 DEF BlocksToCome
  <1>7. /\ counts["total"] \in Nat /\ counts["reuse"] \in Nat /\ counts["syncs"] \in Nat
        /\ counts["decided"] \in Nat /\ counts["calls"] \in Nat /\ FullSteps(counts) \in Nat
        /\ counts["adaptive_threshold"] \in Nat /\ counts["first_step"] \in Nat
        /\ counts["force_full"] \in Nat /\ counts["dcta_steps"] \in Nat
        /\ counts["gammas"] \in Nat /\ Fallbacks(counts) \in Nat
        /\ counts["fallback_steps"] \in Nat
    BY <1>2, CountsAreNat
  <1>8. counts' \in [Fields -> Nat]
    BY <1>2, CountsTyped DEF Decide
  <1>9. /\ counts'["first_step"] \in Nat /\ counts'["force_full"] \in Nat
        /\ counts'["decided"] \in Nat /\ counts'["reuse"] \in Nat
        /\ counts'["adaptive_threshold"] \in Nat
    BY <1>8, CountsAreNat
  <1>10. StepsCounted => StepsCounted'
    <2> SUFFICES ASSUME StepsCounted PROVE StepsCounted'
      OBVIOUS
    <2>1. PICK x : x = Closed * Steps
      OBVIOUS
    <2>2. PICK y : y = Closed * (Steps - 1)
      OBVIOUS
    <2>3. x \in Int /\ y \in Int
      BY <1>2, <1>4, <2>1, <2>2, Distributes
    <2>4. /\ counts["total"] = x + step /\ counts["total"] = counts["reuse"] + FullSteps(counts)
          /\ counts["syncs"] = y + (IF step = 0 THEN 0 ELSE step - 1)
          /\ counts["decided"] = counts["reuse"] + counts["adaptive_threshold"]
          /\ counts["first_step"] + counts["force_full"]
               >= (batch - 1) + (IF step = 0 THEN 0 ELSE 1)
      BY <1>4, <2>1, <2>2 DEF StepsCounted
    <2>5. counts'["total"] = x + (step + 1)
      BY <1>2, <2>3, <2>4, DecisionCounted
    <2>6. counts'["total"] = counts'["reuse"] + FullSteps(counts')
      BY <1>5, <1>7, <2>4, DecisionCounted
    <2>7. counts'["syncs"] = y + step
      <3>1. counts'["syncs"] = IF seen THEN counts["syncs"] + 1 ELSE counts["syncs"]
        BY DecisionCounted
      <3>2. counts["syncs"] = y + (IF step = 0 THEN 0 ELSE step - 1)
        BY <2>4
      <3>3. step \in Nat /\ y \in Int /\ (seen <=> step > 0)
        BY <1>2, <1>3, <2>3
      <3>4. CASE step = 0
        BY <3>1, <3>2, <3>3, <3>4
      <3>5. CASE step > 0
        BY <3>1, <3>2, <3>3, <3>5
      <3> QED
        BY <3>3, <3>4, <3>5
    <2>8. counts'["decided"] = counts'["reuse"] + counts'["adaptive_threshold"]
      BY <1>7, <1>9, <2>4, DecisionCounted
    <2>9. counts'["first_step"] + counts'["force_full"] >= (batch - 1) + 1
      <3>1. counts'["first_step"] + counts'["force_full"]
              >= counts["first_step"] + counts["force_full"] + (IF step = 0 THEN 1 ELSE 0)
        BY DecisionCounted
      <3>2. counts["first_step"] + counts["force_full"]
              >= (batch - 1) + (IF step = 0 THEN 0 ELSE 1)
        BY <2>4
      <3>3. /\ counts["first_step"] \in Nat /\ counts["force_full"] \in Nat
            /\ counts'["first_step"] \in Nat /\ counts'["force_full"] \in Nat /\ batch \in Nat
        BY <1>2, <1>7, <1>9
      <3> QED
        BY <3>1, <3>2, <3>3
    <2>10. /\ counts'["total"] = Closed' * Steps + Decisions'
           /\ counts'["syncs"] = Closed' * (Steps - 1) + Compared'
      BY <1>4, <2>1, <2>2, <2>5, <2>7
    <2>11. Closed' = batch - 1 /\ Decisions' # 0
      BY <1>2, <1>4
    <2> QED
      BY <2>6, <2>8, <2>9, <2>10, <2>11 DEF StepsCounted
  <1>11. CallsCounted => CallsCounted'
    <2> SUFFICES ASSUME CallsCounted PROVE CallsCounted'
      OBVIOUS
    <2>1. /\ counts["calls"] = Fallbacks(counts) + counts["gammas"] + GammasOf(pending)
          /\ counts["calls"] + 0 = 2 * counts["reuse"]
          /\ counts["dcta_steps"] + 0 = counts["reuse"]
          /\ counts["fallback_steps"] + 0 <= Fallbacks(counts)
          /\ Fallbacks(counts) <= 2 * counts["fallback_steps"] + 0
      BY <1>2, <1>4 DEF CallsCounted
    <2>2. /\ counts'["calls"] = counts["calls"] /\ counts'["gammas"] = counts["gammas"]
          /\ Fallbacks(counts') = Fallbacks(counts)
          /\ counts'["dcta_steps"] = counts["dcta_steps"]
          /\ counts'["fallback_steps"] = counts["fallback_steps"]
          /\ counts'["reuse"] = (IF reuse' THEN counts["reuse"] + 1 ELSE counts["reuse"])
      BY DecisionCounted
    <2>3. counts'["calls"] = Fallbacks(counts') + counts'["gammas"] + GammasOf(pending)'
      BY <1>1, <2>1, <2>2
    <2>4. counts'["calls"] + CallsToCome' = 2 * counts'["reuse"]
      BY <1>4, <1>5, <1>7, <2>1, <2>2
    <2>5. counts'["dcta_steps"] + (IF reuse' THEN 1 ELSE 0) = counts'["reuse"]
      BY <1>5, <1>7, <2>1, <2>2
    <2>6. /\ counts'["fallback_steps"] + (IF fellBack' THEN 1 ELSE 0) <= Fallbacks(counts')
          /\ Fallbacks(counts') <= 2 * counts'["fallback_steps"]
                                     + (IF fellBack' THEN 2 - Len(todo') ELSE 0)
      BY <1>1, <1>2, <2>1, <2>2
    <2> QED
      BY <2>3, <2>4, <2>5, <2>6 DEF CallsCounted
  <1>12. formal /\ BlocksCounted => BlocksCounted'
    <2> SUFFICES ASSUME formal, BlocksCounted PROVE BlocksCounted'
      OBVIOUS
    <2> DEFINE W == TotalBlocks - ProbeDepth
    <2>1. PICK t, f : t = counts["total"] /\ f = FullSteps(counts)
      OBVIOUS
    <2>2. t \in Nat /\ f \in Nat /\ W \in Nat
      BY <1>2, <1>7, <2>1
    <2>3. /\ (t + 1) * ProbeDepth = t * ProbeDepth + ProbeDepth /\ t * ProbeDepth \in Int
          /\ (f + 1) * W = f * W + W /\ f * W \in Int
      <3>1. t \in Int /\ f \in Int /\ ProbeDepth \in Nat
        BY <1>2, <2>2
      <3> QED
        BY <2>2, <3>1, Distributes
    <2>4. work + 0 = 2 * (t * ProbeDepth + f * W)
      BY <1>6, <2>1 DEF BlocksCounted, ActualBlockCalls
    <2>5. work' = work + 2 * ProbeDepth
      BY <1>1
    <2>6. counts'["total"] = t + 1 /\ FullSteps(counts') = (IF reuse' THEN f ELSE f + 1)
      BY <1>5, <2>1, DecisionCounted
    <2>7. BlocksToCome' = (IF reuse' THEN 0 ELSE W + W)
      BY <1>6
    <2> HIDE DEF W
    <2>8. PICK u, v : u = t * ProbeDepth /\ v = f * W
      OBVIOUS
    <2>9. u \in Int /\ v \in Int
      BY <2>3, <2>8
    <2>10. CASE reuse'
      <3>1. work' + BlocksToCome' = 2 * ((u + ProbeDepth) + v)
        BY <1>2, <2>4, <2>5, <2>7, <2>8, <2>9, <2>10
      <3>2. work' + BlocksToCome' = 2 * ((t + 1) * ProbeDepth + f * W)
        BY <2>3, <2>8, <3>1
      <3> QED
        BY <2>6, <2>10, <3>2 DEF BlocksCounted, ActualBlockCalls, W
    <2>11. CASE ~reuse'
      <3>1. work' + BlocksToCome' = 2 * ((u + ProbeDepth) + (v + W))
        BY <1>2, <2>2, <2>4, <2>5, <2>7, <2>8, <2>9, <2>11
      <3>2. work' + BlocksToCome' = 2 * ((t + 1) * ProbeDepth + (f + 1) * W)
        BY <2>3, <2>8, <3>1
      <3> QED
        BY <2>6, <2>11, <3>2 DEF BlocksCounted, ActualBlockCalls, W
    <2> QED
      BY <2>10, <2>11
  <1>13. ~formal => work' = 0
    BY <1>1 DEF Accounted
  <1>14. ~fellBack'
    BY <1>1, <1>2
  <1> QED
    BY <1>1, <1>3, <1>10, <1>11, <1>12, <1>13, <1>14 DEF Accounted

\* A refreshed branch: its deep blocks have run.
LEMMA RecordRefreshAccounts ==
    ASSUME IInv, Accounted, NEW p \in Residuals, RecordRefresh(p)
    PROVE  Accounted'
  <1>1. /\ at = "branches" /\ todo' = Tail(todo) /\ ~reuse
        /\ at' = (IF Len(todo) = 1 THEN "finish" ELSE "branches")
        /\ work' = (IF formal THEN work + TotalBlocks - ProbeDepth ELSE work)
        /\ UNCHANGED <<formal, batch, step, seen, pending, counts, reuse, fellBack>>
    BY DEF RecordRefresh, NextBranch
  <1>2. todo # <<>>
    BY <1>1 DEF IInv, Control
  <1>3. \/ Len(todo) = 2 /\ Len(todo') = 1
        \/ Len(todo) = 1 /\ Len(todo') = 0
    <2>1. TypeOK
      BY DEF IInv
    <2>2. \/ Len(todo) = 2 /\ Tail(todo) = <<"uncond">>
          \/ Len(todo) = 1 /\ Tail(todo) = <<>>
      BY <1>2, <2>1, TodoFacts
    <2>3. Len(<<"uncond">>) = 1 /\ Len(<<>>) = 0
      OBVIOUS
    <2> QED
      BY <1>1, <2>2, <2>3
  <1>4. /\ Closed' = Closed /\ Decisions' = Decisions /\ Compared' = Compared
        /\ CallsToCome' = 0 /\ CallsToCome = 0
    BY <1>1 DEF Closed, Decisions, Compared, CallsToCome, InStep
  <1>5. CallsCounted => CallsCounted'
    <2>1. ~fellBack
      BY <1>1 DEF Accounted
    <2> QED
      BY <1>1, <1>4, <2>1 DEF CallsCounted
  <1>6. StepsCounted => StepsCounted'
    BY <1>1, <1>4 DEF StepsCounted
  <1>7. formal /\ BlocksCounted => BlocksCounted'
    <2> DEFINE W == TotalBlocks - ProbeDepth
    <2>1. /\ TotalBlocks \in Nat /\ ProbeDepth \in Nat /\ W \in Nat /\ work \in Nat
      BY Sizes, DiCacheAssumption
    <2>2. formal => work' = work + W
      BY <1>1, <2>1
    <2>3. BlocksToCome = Len(todo) * W /\ BlocksToCome' = Len(todo') * W
      BY <1>1 DEF BlocksToCome
    <2>4. 0 * W = 0 /\ 1 * W = W /\ 2 * W = W + W
      BY <2>1, Distributes
    <2> HIDE DEF W
    <2>5. BlocksToCome = BlocksToCome' + W /\ BlocksToCome' \in Int
      <3>1. CASE Len(todo) = 2 /\ Len(todo') = 1
        <4>1. BlocksToCome = W + W /\ BlocksToCome' = W
          BY <2>3, <2>4, <3>1
        <4> QED
          BY <2>1, <4>1
      <3>2. CASE Len(todo) = 1 /\ Len(todo') = 0
        <4>1. BlocksToCome = W /\ BlocksToCome' = 0
          BY <2>3, <2>4, <3>2
        <4> QED
          BY <2>1, <4>1
      <3> QED
        BY <1>3, <3>1, <3>2
    <2>7. formal => work' + BlocksToCome' = work + BlocksToCome
      BY <2>1, <2>2, <2>5
    <2> QED
      BY <1>1, <2>7 DEF BlocksCounted
  <1>8. at' # "between" /\ at # "between"
    BY <1>1
  <1> QED
    BY <1>1, <1>5, <1>6, <1>7, <1>8 DEF Accounted

\* An approximated branch: its call is counted.
LEMMA ApproximateAccounts ==
    ASSUME IInv, Accounted, NEW gamma \in Gammas, Approximate(gamma)
    PROVE  Accounted'
  <1>1. /\ at = "branches" /\ todo' = Tail(todo) /\ reuse
        /\ at' = (IF Len(todo) = 1 THEN "finish" ELSE "branches")
        /\ UNCHANGED <<formal, batch, step, seen, reuse, work>>
    BY DEF Approximate, NextBranch, ghosts
  <1>2. todo # <<>>
    BY <1>1 DEF IInv, Control
  <1>3. \/ Len(todo) = 2 /\ Len(todo') = 1
        \/ Len(todo) = 1 /\ Len(todo') = 0
    <2>1. TypeOK
      BY DEF IInv
    <2>2. \/ Len(todo) = 2 /\ Tail(todo) = <<"uncond">>
          \/ Len(todo) = 1 /\ Tail(todo) = <<>>
      BY <1>2, <2>1, TodoFacts
    <2>3. Len(<<"uncond">>) = 1 /\ Len(<<>>) = 0
      OBVIOUS
    <2> QED
      BY <1>1, <2>2, <2>3
  <1>4. /\ Closed' = Closed /\ Decisions' = Decisions /\ Compared' = Compared
        /\ CallsToCome' = Len(todo') /\ CallsToCome = Len(todo)
        /\ BlocksToCome' = BlocksToCome
    BY <1>1 DEF Closed, Decisions, Compared, CallsToCome, BlocksToCome, InStep
  <1>5. StepsCounted => StepsCounted'
    BY <1>1, <1>4, CallCounted DEF StepsCounted
  <1>6. BlocksCounted => BlocksCounted'
    BY <1>1, <1>4, CallCounted DEF BlocksCounted, ActualBlockCalls
  <1>7. CallsCounted => CallsCounted'
    <2> SUFFICES ASSUME CallsCounted PROVE CallsCounted'
      OBVIOUS
    <2>1. PICK c, f, n, g, s, r :
              /\ c = counts["calls"] /\ f = Fallbacks(counts) /\ n = counts["gammas"]
              /\ g = GammasOf(pending) /\ s = counts["fallback_steps"] /\ r = counts["reuse"]
      OBVIOUS
    <2>2. c \in Nat /\ f \in Nat /\ n \in Nat /\ g \in Nat /\ s \in Nat /\ r \in Nat
      BY <2>1, Sizes, CountsAreNat, GammasCounted
    <2>3. /\ c = f + n + g /\ c + Len(todo) = 2 * r
          /\ counts["dcta_steps"] + (IF reuse THEN 1 ELSE 0) = r
          /\ s + (IF fellBack THEN 1 ELSE 0) <= f
          /\ f <= 2 * s + (IF fellBack THEN 2 - Len(todo) ELSE 0)
      BY <1>4, <2>1 DEF CallsCounted
    <2>4. /\ counts'["calls"] = c + 1 /\ counts'["gammas"] = n
          /\ counts'["dcta_steps"] = counts["dcta_steps"]
          /\ counts'["fallback_steps"] = s /\ counts'["reuse"] = r
          /\ \/ Fallbacks(counts') = f /\ GammasOf(pending') = g + 1 /\ fellBack' = fellBack
             \/ Fallbacks(counts') = f + 1 /\ GammasOf(pending') = g /\ fellBack' = TRUE
      BY <2>1, CallCounted
    <2>5. counts'["calls"] = Fallbacks(counts') + counts'["gammas"] + GammasOf(pending')
      BY <2>2, <2>3, <2>4
    <2>10. PICK l, m : l = Len(todo) /\ m = Len(todo')
      OBVIOUS
    <2>11. l \in 1 .. 2 /\ m = l - 1
      <3>1. \/ l = 2 /\ m = 1
            \/ l = 1 /\ m = 0
        BY <1>3, <2>10
      <3> QED
        BY <3>1
    <2>6. counts'["calls"] + CallsToCome' = 2 * counts'["reuse"]
      <3>1. c + l = 2 * r
        BY <2>3, <2>10
      <3>2. c + 1 + m = 2 * r
        BY <2>11, <2>2, <3>1
      <3> QED
        BY <1>4, <2>4, <2>10, <3>2
    <2>7. counts'["dcta_steps"] + (IF reuse' THEN 1 ELSE 0) = counts'["reuse"]
      BY <1>1, <2>3, <2>4
    <2>8. fellBack \in BOOLEAN
      BY Sizes
    <2>9. /\ counts'["fallback_steps"] + (IF fellBack' THEN 1 ELSE 0) <= Fallbacks(counts')
          /\ Fallbacks(counts') <= 2 * counts'["fallback_steps"]
                                     + (IF fellBack' THEN 2 - Len(todo') ELSE 0)
      <3>1. /\ s + (IF fellBack THEN 1 ELSE 0) <= f
            /\ f <= 2 * s + (IF fellBack THEN 2 - l ELSE 0)
        BY <2>3, <2>10
      <3>2. CASE Fallbacks(counts') = f /\ fellBack' = fellBack
        <4>1. /\ s + (IF fellBack THEN 1 ELSE 0) <= f
              /\ f <= 2 * s + (IF fellBack THEN 2 - m ELSE 0)
          BY <2>11, <2>2, <2>8, <3>1
        <4> QED
          BY <2>4, <2>10, <3>2, <4>1
      <3>3. CASE Fallbacks(counts') = f + 1 /\ fellBack' = TRUE
        <4>1. s + 1 <= f + 1 /\ f + 1 <= 2 * s + (2 - m)
          BY <2>11, <2>2, <2>8, <3>1
        <4> QED
          BY <2>4, <2>10, <3>3, <4>1
      <3> QED
        BY <2>4, <3>2, <3>3
    <2> QED
      BY <2>5, <2>6, <2>7, <2>9 DEF CallsCounted
  <1>8. at' # "between" /\ at # "between"
    BY <1>1
  <1> QED
    BY <1>1, <1>5, <1>6, <1>7, <1>8 DEF Accounted

\* The end of a step.
LEMMA FinishStepAccounts ==
    ASSUME IInv, Accounted, FinishStep
    PROVE  Accounted'
  <1>1. /\ at = "finish" /\ at' = "decide" /\ step' = step + 1 /\ seen' = TRUE
        /\ reuse' = FALSE /\ fellBack' = FALSE
        /\ UNCHANGED <<formal, batch, pending, todo, work>>
    BY DEF FinishStep, ghosts
  <1>2. /\ Len(todo) = 0 /\ step \in Nat /\ reuse \in BOOLEAN /\ fellBack \in BOOLEAN
        /\ counts \in [Fields -> Nat] /\ TotalBlocks - ProbeDepth \in Nat
    BY <1>1, Sizes
  <1>3. /\ Closed' = Closed /\ Decisions' = Decisions
        /\ CallsToCome' = 0 /\ CallsToCome = 0
    BY <1>1, <1>2 DEF Closed, Decisions, CallsToCome, InStep
  <1>4. Compared' = Compared
    BY <1>3 DEF Compared
  <1>5. BlocksToCome' = 0 /\ BlocksToCome = 0
    <2>1. 0 * (TotalBlocks - ProbeDepth) = 0
      BY <1>2, Distributes
    <2> QED
      BY <1>1, <1>2, <2>1 DEF BlocksToCome
  <1>6. StepsCounted => StepsCounted'
    BY <1>1, <1>3, <1>4, StepCounted DEF StepsCounted
  <1>7. BlocksCounted => BlocksCounted'
    BY <1>1, <1>5, StepCounted DEF BlocksCounted, ActualBlockCalls
  <1>8. CallsCounted => CallsCounted'
    <2> SUFFICES ASSUME CallsCounted PROVE CallsCounted'
      OBVIOUS
    <2>1. /\ counts["dcta_steps"] \in Nat /\ counts["fallback_steps"] \in Nat
          /\ Fallbacks(counts) \in Nat /\ counts["reuse"] \in Nat
      BY <1>2, CountsAreNat
    <2>2. /\ counts["calls"] = Fallbacks(counts) + counts["gammas"] + GammasOf(pending)
          /\ counts["calls"] + 0 = 2 * counts["reuse"]
          /\ counts["dcta_steps"] + (IF reuse THEN 1 ELSE 0) = counts["reuse"]
          /\ counts["fallback_steps"] + (IF fellBack THEN 1 ELSE 0) <= Fallbacks(counts)
          /\ Fallbacks(counts) <= 2 * counts["fallback_steps"] + (IF fellBack THEN 2 - 0 ELSE 0)
      BY <1>2, <1>3 DEF CallsCounted
    <2>3. /\ counts'["calls"] = counts["calls"] /\ counts'["gammas"] = counts["gammas"]
          /\ Fallbacks(counts') = Fallbacks(counts) /\ counts'["reuse"] = counts["reuse"]
          /\ counts'["dcta_steps"] = counts["dcta_steps"] + (IF reuse THEN 1 ELSE 0)
          /\ counts'["fallback_steps"] = counts["fallback_steps"] + (IF fellBack THEN 1 ELSE 0)
      BY StepCounted
    <2>4. counts'["calls"] = Fallbacks(counts') + counts'["gammas"] + GammasOf(pending)'
      BY <1>1, <2>2, <2>3
    <2>5. counts'["calls"] + CallsToCome' = 2 * counts'["reuse"]
      BY <1>3, <2>2, <2>3
    <2>6. counts'["dcta_steps"] + 0 = counts'["reuse"]
      BY <1>2, <2>1, <2>2, <2>3
    <2>7. /\ counts'["fallback_steps"] + 0 <= Fallbacks(counts')
          /\ Fallbacks(counts') <= 2 * counts'["fallback_steps"] + 0
      BY <1>2, <2>1, <2>2, <2>3
    <2> QED
      BY <1>1, <2>4, <2>5, <2>6, <2>7 DEF CallsCounted
  <1>9. seen' <=> step' > 0
    BY <1>1, <1>2
  <1> QED
    BY <1>1, <1>6, <1>7, <1>8, <1>9 DEF Accounted

\* Every step keeps the statistics accounted for.
LEMMA NextAccounts == IInv /\ Accounted /\ [Next]_vars => Accounted'
  <1> SUFFICES ASSUME IInv, Accounted, [Next]_vars PROVE Accounted'
    OBVIOUS
  <1>1. CASE StartBatch
    BY <1>1, StartBatchAccounts
  <1>2. CASE \E e \in [Branches -> Errors] : Decide(e)
    BY <1>2, DecideAccounts
  <1>3. CASE \E p \in Residuals : RecordRefresh(p)
    BY <1>3, RecordRefreshAccounts
  <1>4. CASE \E gamma \in Gammas : Approximate(gamma)
    BY <1>4, ApproximateAccounts
  <1>5. CASE FinishStep
    BY <1>5, FinishStepAccounts
  <1>6. CASE EndBatch
    BY <1>6, EndBatchAccounts
  <1>7. CASE EndWarmup
    BY <1>7, EndWarmupAccounts
  <1>8. CASE Finished \/ UNCHANGED vars
    <2>1. UNCHANGED <<at, formal, batch, step, seen, pending, counts, reuse, todo, fellBack, work>>
      BY <1>8 DEF Finished, vars, control, ghosts
    <2>2. /\ Closed' = Closed /\ Decisions' = Decisions /\ Compared' = Compared
          /\ CallsToCome' = CallsToCome /\ BlocksToCome' = BlocksToCome
      BY <2>1 DEF Closed, Decisions, Compared, CallsToCome, BlocksToCome, InStep
    <2>3. (StepsCounted' <=> StepsCounted) /\ (CallsCounted' <=> CallsCounted)
          /\ (BlocksCounted' <=> BlocksCounted)
      BY <2>1, <2>2 DEF StepsCounted, CallsCounted, BlocksCounted
    <2> QED
      BY <2>1, <2>3 DEF Accounted
  <1> QED
    BY <1>1, <1>2, <1>3, <1>4, <1>5, <1>6, <1>7, <1>8 DEF Next

\* The summary of a formal run says what happened in it: nothing of the warm-up,
\* one decision a step with one reason, one call a branch of a reused step, and
\* the block calls that were made, which the policy derives and never counts.
THEOREM StatisticsAreTrue == Spec => []StatsOfFormalRun
  <1>1. IInv /\ Accounted => StatsOfFormalRun
    <2> SUFFICES ASSUME IInv, Accounted, formal PROVE StatsOfFormalRun
      BY DEF StatsOfFormalRun
    <2>1. StepsCounted /\ CallsCounted /\ BlocksCounted
      BY DEF Accounted
    <2>2. /\ counts["total"] = counts["reuse"] + FullSteps(counts)
          /\ counts["calls"] = Fallbacks(counts) + counts["gammas"] + GammasOf(pending)
      BY <2>1 DEF StepsCounted, CallsCounted
    <2>3. ASSUME at = "between"
          PROVE  /\ pending = NoGammas
                 /\ counts["total"] = batch * Steps
                 /\ counts["syncs"] = batch * (Steps - 1)
                 /\ counts["calls"] = 2 * counts["reuse"]
                 /\ counts["dcta_steps"] = counts["reuse"]
                 /\ counts["fallback_steps"] <= Fallbacks(counts)
                 /\ Fallbacks(counts) <= 2 * counts["fallback_steps"]
                 /\ counts["decided"] = counts["reuse"] + counts["adaptive_threshold"]
                 /\ counts["first_step"] + counts["force_full"] >= batch
                 /\ ActualBlockCalls(counts) = work
      <3>1. /\ ~reuse /\ ~fellBack /\ Len(todo) = 0 /\ batch \in Nat /\ Steps \in Nat \ {0}
            /\ counts \in [Fields -> Nat] /\ TotalBlocks - ProbeDepth \in Nat /\ work \in Nat
        BY <2>3, Sizes
      <3>2. /\ Closed = batch /\ Decisions = 0 /\ Compared = 0 /\ CallsToCome = 0
        BY <2>3, <3>1 DEF Closed, Decisions, Compared, CallsToCome
      <3>3. BlocksToCome = 0
        <4>1. 0 * (TotalBlocks - ProbeDepth) = 0
          BY <3>1, Distributes
        <4> QED
          BY <3>1, <4>1 DEF BlocksToCome
      <3>4. batch * Steps \in Int /\ batch * (Steps - 1) \in Int
        BY <3>1
      <3>5. /\ counts["calls"] \in Nat /\ counts["dcta_steps"] \in Nat
            /\ counts["fallback_steps"] \in Nat
        BY <3>1, CountsAreNat
      <3>6. /\ counts["total"] = batch * Steps
            /\ counts["syncs"] = batch * (Steps - 1)
            /\ counts["decided"] = counts["reuse"] + counts["adaptive_threshold"]
            /\ counts["first_step"] + counts["force_full"] >= batch
        BY <2>1, <3>1, <3>2, <3>4 DEF StepsCounted
      <3>7. /\ counts["calls"] = 2 * counts["reuse"]
            /\ counts["dcta_steps"] = counts["reuse"]
            /\ counts["fallback_steps"] <= Fallbacks(counts)
            /\ Fallbacks(counts) <= 2 * counts["fallback_steps"]
        BY <2>1, <3>1, <3>2, <3>5, CountsAreNat DEF CallsCounted
      <3>8. ActualBlockCalls(counts) = work
        BY <2>1, <3>1, <3>3 DEF BlocksCounted
      <3>9. pending = NoGammas
        BY <2>3 DEF Accounted
      <3> QED
        BY <3>6, <3>7, <3>8, <3>9
    <2> QED
      BY <2>2, <2>3 DEF StatsOfFormalRun
  <1> QED
    BY <1>1, InitAccounts, NextAccounts, Invariance, PTL DEF Spec
=============================================================================
