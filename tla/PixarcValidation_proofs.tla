---------------------- MODULE PixarcValidation_proofs ----------------------
(***************************************************************************)
(* For networks of every depth, with the in-context tokens inserted         *)
(* anywhere or not at all, every list of plans and actions and every number *)
(* of steps: nothing raises, the trajectory stays fresh, every candidate is *)
(* made of the right blocks and steps, and the records are complete, so that *)
(* the validator blocks a sample only for what was measured.                *)
(***************************************************************************)
EXTENDS PixarcValidation, SequenceTheorems, FiniteSetTheorems, TLAPS

-----------------------------------------------------------------------------
(* Plans and blocks *)

\* Every plan is a range of blocks, none of them empty, as soon as there are
\* three blocks.
LEMMA PlansFit ==
    ASSUME NEW n \in Nat, n >= 3, NEW p \in PlanNames
    PROVE  /\ StartBlock(p, n) \in 0 .. n /\ EndBlock(p, n) \in 1 .. n
           /\ PlanValid(p, n)
  <1> DEFINE a == n \div 3
             c == (2 * n) \div 3
  <1>1. a \in Nat /\ c \in Nat /\ 1 <= a /\ a < c /\ c < n
    BY SMT
  <1>2. SplitA(n) = a
    <2>1. SplitA(n) = Larger(1, a)
      BY DEF SplitA
    <2> HIDE DEF a
    <2> QED
      BY <1>1, <2>1 DEF Larger
  <1>3. SplitB(n) = c
    <2>1. SplitB(n) = Smaller(Larger(a + 1, c), n - 1)
      BY <1>2 DEF SplitB
    <2> HIDE DEF a, c
    <2> QED
      BY <1>1, <2>1 DEF Larger, Smaller
  <1> HIDE DEF a, c
  <1>4. /\ StartBlock(p, n) \in {0, a, c}
        /\ EndBlock(p, n) \in {a, c, n}
        /\ StartBlock(p, n) < EndBlock(p, n)
    BY <1>1, <1>2, <1>3 DEF StartBlock, EndBlock, PlanNames
  <1> QED
    BY <1>1, <1>4 DEF PlanValid

\* The hidden tensor of blocks 0 .. k - 1, run on the states of `steps'.
Prefix(net, b, k, steps) ==
    [branch |-> b,
     ran |-> [i \in 1 .. k |-> [block |-> i - 1, steps |-> steps]],
     context |-> IF net.context /\ net.contextStart < k THEN 1 ELSE 0]

BlockRuns == [block : Nat, steps : SUBSET Int]

LEMMA PrefixRuns ==
    ASSUME NEW k \in Nat, NEW steps \in SUBSET Int
    PROVE  /\ [i \in 1 .. k |-> [block |-> i - 1, steps |-> steps]] \in Seq(BlockRuns)
           /\ Len([i \in 1 .. k |-> [block |-> i - 1, steps |-> steps]]) = k
  <1> DEFINE r == [i \in 1 .. k |-> [block |-> i - 1, steps |-> steps]]
  <1>1. r \in [1 .. k -> BlockRuns]
    BY DEF BlockRuns
  <1>2. DOMAIN r = 1 .. k
    OBVIOUS
  <1> HIDE DEF r
  <1>3. r \in Seq(BlockRuns)
    BY <1>1
  <1>4. Len(r) = k
    BY <1>2, <1>3, LenProperties
  <1> QED
    BY <1>3, <1>4 DEF r

\* What a fresh step computes is such a tensor.
LEMMA FreshIsPrefix ==
    ASSUME NEW net \in Network, NEW b, NEW k \in Nat, NEW s \in Int
    PROVE  FreshHidden(net, b, k, s) = Prefix(net, b, k, {s})
  <1> DEFINE r == [i \in 1 .. k |-> [block |-> i - 1, steps |-> {s}]]
             q == [i \in 1 .. (k - 0) |-> [block |-> 0 + i - 1, steps |-> {s}]]
  <1>1. r \in Seq(BlockRuns)
    BY PrefixRuns
  <1>2. q = r
    OBVIOUS
  <1>3. <<>> \o q = r
    <2> HIDE DEF r, q
    <2> QED
      BY <1>1, <1>2, ConcatEmptySeq
  <1>4. Inserts(net, 0, k) <=> net.context /\ net.contextStart < k
    BY DEF Inserts, Network
  <1>5. FreshHidden(net, b, k, s)
          = [branch |-> b, ran |-> <<>> \o q,
             context |-> IF Inserts(net, 0, k) THEN 0 + 1 ELSE 0]
    BY DEF FreshHidden, RunBlocks, Embedded
  <1>6. Prefix(net, b, k, {s})
          = [branch |-> b, ran |-> r,
             context |-> IF net.context /\ net.contextStart < k THEN 1 ELSE 0]
    BY DEF Prefix
  <1>7. (IF Inserts(net, 0, k) THEN 0 + 1 ELSE 0)
          = (IF net.context /\ net.contextStart < k THEN 1 ELSE 0)
    BY <1>4
  <1> HIDE DEF q, r
  <1> QED
    BY <1>3, <1>5, <1>6, <1>7

\* So is a blend of two of them.
LEMMA BlendIsPrefix ==
    ASSUME NEW net \in Network, NEW b, NEW k \in Nat, NEW S \in SUBSET Int, NEW T \in SUBSET Int
    PROVE  Blend(Prefix(net, b, k, S), Prefix(net, b, k, T)) = Prefix(net, b, k, S \cup T)
  <1> DEFINE x == Prefix(net, b, k, S)
             y == Prefix(net, b, k, T)
             m == [i \in DOMAIN x.ran |->
                     [block |-> x.ran[i].block, steps |-> x.ran[i].steps \cup y.ran[i].steps]]
  <1>1. m = [i \in 1 .. k |-> [block |-> i - 1, steps |-> S \cup T]]
    BY DEF Prefix
  <1>2. x.branch = b
    BY DEF Prefix
  <1>3. Blend(x, y) = [branch |-> x.branch, ran |-> m, context |-> x.context]
    BY DEF Blend
  <1> HIDE DEF m
  <1>4. x.context = IF net.context /\ net.contextStart < k THEN 1 ELSE 0
    BY DEF Prefix
  <1> HIDE DEF x, y
  <1>5. Blend(x, y) = Prefix(net, b, k, S \cup T)
    BY <1>1, <1>2, <1>3, <1>4 DEF Prefix
  <1> QED
    BY <1>5 DEF x, y

\* The in-context tokens are inserted exactly where they are due: the blocks,
\* run one at a time, neither insert them twice nor miss them.
LEMMA CaptureNeverRaises ==
    ASSUME NEW net \in Network, NEW b, NEW s \in Int
    PROVE  ~CaptureRaises(net, b, s)
  <1>1. net.blocks \in Nat /\ net.contextStart \in Nat /\ net.context \in BOOLEAN
    BY DEF Network
  <1>2. ASSUME NEW k \in Nat
        PROVE  FreshHidden(net, b, k, s).context
                 = IF net.context /\ net.contextStart < k THEN 1 ELSE 0
    <2>1. FreshHidden(net, b, k, s) = Prefix(net, b, k, {s})
      BY <1>1, FreshIsPrefix
    <2>2. Prefix(net, b, k, {s}).context = IF net.context /\ net.contextStart < k THEN 1 ELSE 0
      BY DEF Prefix
    <2> QED
      BY <2>1, <2>2
  <1>3. ASSUME NEW k \in 0 .. (net.blocks - 1)
        PROVE  ~ContextError(net, FreshHidden(net, b, k, s), k, k + 1)
    BY <1>1, <1>2 DEF ContextError, Inserts
  <1>4. ASSUME NEW k \in {1, net.blocks}
        PROVE  ~ExtractRaises(net, FreshHidden(net, b, k, s))
    BY <1>1, <1>2 DEF ExtractRaises
  <1> QED
    BY <1>3, <1>4 DEF CaptureRaises

\* A tensor of the plan's blocks fits in behind them, wherever the plan ends.
LEMMA PrefixFits ==
    ASSUME NEW net \in Network, net.blocks >= 3, NEW p \in PlanNames, NEW b, NEW S, NEW s
    PROVE  ~CandidateRaises(net, p, b, Prefix(net, b, EndBlock(p, net.blocks), S), s)
  <1> DEFINE n == net.blocks
             e == EndBlock(p, n)
             f == StartBlock(p, n)
             x == Prefix(net, b, e, S)
  <1>1. n \in Nat /\ net.contextStart \in Nat /\ net.context \in BOOLEAN
    BY DEF Network
  <1>2. f \in 0 .. n /\ e \in 1 .. n /\ PlanValid(p, n)
    BY <1>1, PlansFit
  <1>3. x.context = IF net.context /\ net.contextStart < e THEN 1 ELSE 0
    BY DEF Prefix
  <1>4. Embedded(b).context = 0
    BY DEF Embedded
  <1>5. x.context = ContextExpected(net, p)
    BY <1>1, <1>2, <1>3 DEF ContextExpected
  <1> HIDE DEF n, e, f, x
  <1>6. ~ContextError(net, Embedded(b), 0, f)
    BY <1>1, <1>2, <1>4 DEF ContextError, Inserts
  <1>7. ~ContextError(net, x, e, n)
    BY <1>1, <1>2, <1>3 DEF ContextError, Inserts
  <1>8. ~ExtractRaises(net, RunBlocks(net, x, e, n, s))
    <2>1. RunBlocks(net, x, e, n, s).context
            = IF Inserts(net, e, n) THEN x.context + 1 ELSE x.context
      BY DEF RunBlocks
    <2> QED
      BY <1>1, <1>2, <1>3, <2>1 DEF ExtractRaises, Inserts
  <1> QED
    BY <1>2, <1>5, <1>6, <1>7, <1>8 DEF CandidateRaises, Candidate, n, e, f, x

\* What CandidatesSound asks of one branch.
Sound(net, p, b, S, s, h) ==
    /\ h.branch = b /\ Len(h.ran) = net.blocks
    /\ \A i \in 1 .. net.blocks : Ran(h, i, IF i <= EndBlock(p, net.blocks) THEN S ELSE {s})
    /\ h.context = IF Inserts(net, 0, net.blocks) THEN 1 ELSE 0

\* Completed in the state of step s, it holds every block once and in order, the
\* plan's from the earlier steps, the others from s, and the tokens once.
LEMMA PrefixContinues ==
    ASSUME NEW net \in Network, net.blocks >= 3, NEW p \in PlanNames, NEW b,
           NEW S \in SUBSET Int, NEW s \in Int
    PROVE  Sound(net, p, b, S, s, Candidate(net, p, Prefix(net, b, EndBlock(p, net.blocks), S), s))
  <1> DEFINE n == net.blocks
             e == EndBlock(p, n)
             x == Prefix(net, b, e, S)
             h == Candidate(net, p, x, s)
             u == [i \in 1 .. e |-> [block |-> i - 1, steps |-> S]]
             v == [i \in 1 .. (n - e) |-> [block |-> e + i - 1, steps |-> {s}]]
  <1>1. n \in Nat /\ net.contextStart \in Nat /\ net.context \in BOOLEAN
    BY DEF Network
  <1>2. e \in 1 .. n
    BY <1>1, PlansFit
  <1>3. h = [branch |-> b, ran |-> u \o v,
             context |-> IF Inserts(net, e, n) THEN x.context + 1 ELSE x.context]
    BY DEF Candidate, RunBlocks, Prefix
  <1>4. x.context = IF net.context /\ net.contextStart < e THEN 1 ELSE 0
    BY DEF Prefix
  <1> HIDE DEF n, e, x, h
  <1>5. u \in Seq(BlockRuns) /\ Len(u) = e
    BY <1>2, PrefixRuns
  <1>6. v \in Seq(BlockRuns) /\ Len(v) = n - e
    <2>1. v \in [1 .. (n - e) -> BlockRuns]
      BY <1>1, <1>2 DEF BlockRuns
    <2>2. DOMAIN v = 1 .. (n - e)
      OBVIOUS
    <2> HIDE DEF v
    <2>3. n - e \in Nat
      BY <1>1, <1>2
    <2>4. v \in Seq(BlockRuns)
      BY <2>1, <2>3
    <2> QED
      BY <2>2, <2>3, <2>4, LenProperties
  <1>7. /\ Len(u \o v) = n
        /\ \A i \in 1 .. n : (u \o v)[i] = IF i <= e THEN u[i] ELSE v[i - e]
    <2> HIDE DEF u, v
    <2>1. Len(u) + Len(v) = n
      BY <1>1, <1>2, <1>5, <1>6
    <2>2. /\ Len(u \o v) = Len(u) + Len(v)
          /\ \A i \in 1 .. Len(u) + Len(v) :
               (u \o v)[i] = IF i <= Len(u) THEN u[i] ELSE v[i - Len(u)]
      BY <1>5, <1>6, ConcatProperties
    <2> QED
      BY <1>5, <2>1, <2>2
  <1>8. \A i \in 1 .. n : (u \o v)[i] = [block |-> i - 1, steps |-> IF i <= e THEN S ELSE {s}]
    <2> TAKE i \in 1 .. n
    <2>1. CASE i <= e
      <3>1. u[i] = [block |-> i - 1, steps |-> S]
        BY <1>2, <2>1
      <3> HIDE DEF u, v
      <3> QED
        BY <1>7, <2>1, <3>1
    <2>2. CASE ~(i <= e)
      <3>1. i - e \in 1 .. (n - e) /\ e + (i - e) - 1 = i - 1
        BY <1>1, <1>2, <2>2
      <3>2. v[i - e] = [block |-> i - 1, steps |-> {s}]
        BY <3>1
      <3> HIDE DEF u, v
      <3> QED
        BY <1>7, <2>2, <3>2
    <2> QED
      BY <2>1, <2>2
  <1> HIDE DEF u, v
  <1>9. h.context = IF Inserts(net, 0, n) THEN 1 ELSE 0
    BY <1>1, <1>2, <1>3, <1>4 DEF Inserts
  <1>10. /\ h.branch = b /\ Len(h.ran) = n
         /\ \A i \in 1 .. n : Ran(h, i, IF i <= e THEN S ELSE {s})
    BY <1>3, <1>7, <1>8 DEF Ran
  <1> QED
    BY <1>9, <1>10 DEF n, e, x, h, Sound

-----------------------------------------------------------------------------
(* The inductive invariant *)

Working == {"cond", "uncond", "replay", "action", "append"}

\* What the fresh step s leaves of key k in its history.
Items(k) == {Item(s, Prefix(Net, k[1], EndBlock(k[2], Net.blocks), {s})) : s \in Int}

\* The last steps before this one, without a gap.
Gapless(h) == \A i \in 1 .. Len(h) : h[i].step = step - Len(h) + i - 1

HistoryInv == \A k \in Keys : history[k] \in Seq(Items(k)) /\ Gapless(history[k])

FreshInv ==
    at \in Working =>
      /\ step < cfg.steps
      /\ \A k \in Keys : fresh[k] = Prefix(Net, k[1], EndBlock(k[2], Net.blocks), {step})

StateInv == state.step = step /\ state.by \subseteq {"fresh"}

IInv == TypeOK /\ StateInv /\ FreshInv /\ HistoryInv /\ CandidatesSound

-----------------------------------------------------------------------------
(* What the configuration grants *)

LEMMA ConfigFacts ==
    ASSUME TypeOK
    PROVE  /\ Net \in Network /\ Net.blocks \in Nat /\ Net.blocks >= 3
           /\ cfg.steps \in Nat \ {0} /\ step \in Nat
           /\ Len(cfg.plans) \in Nat \ {0}
           /\ Values(cfg.plans) \subseteq PlanNames
           /\ Plan \in PlanNames /\ Plan \in Values(cfg.plans)
  <1>1. ConfigOK(cfg)
    BY InstrumentAssumption DEF TypeOK
  <1>2. Net \in Network /\ Net.blocks >= 3 /\ cfg.steps \in Nat \ {0}
    BY <1>1 DEF ConfigOK, Net
  <1>3. Net.blocks \in Nat
    BY <1>2 DEF Network
  <1>4. step \in Nat
    BY <1>2 DEF TypeOK
  <1> DEFINE p == cfg.plans
  <1>5. p \in Seq(PlanNames) /\ p # <<>>
    BY <1>1 DEF ConfigOK
  <1>6. plan \in 1 .. Len(p)
    BY DEF TypeOK
  <1> HIDE DEF p
  <1>7. Len(p) \in Nat \ {0} /\ DOMAIN p = 1 .. Len(p)
    BY <1>5, EmptySeq, LenProperties
  <1>8. Values(p) \subseteq PlanNames
    BY <1>5, <1>7, ElementOfSeq DEF Values
  <1>9. p[plan] \in Values(p)
    BY <1>6, <1>7 DEF Values
  <1> QED
    BY <1>2, <1>3, <1>4, <1>7, <1>8, <1>9 DEF Plan, p

LEMMA KeyFacts ==
    ASSUME TypeOK, NEW k \in Keys
    PROVE  k[1] \in GuidedBranches /\ k[2] \in PlanNames /\ EndBlock(k[2], Net.blocks) \in Nat
  <1>1. k[1] \in GuidedBranches /\ k[2] \in Values(cfg.plans)
    BY DEF Keys
  <1>2. k[2] \in PlanNames
    BY <1>1, ConfigFacts
  <1>3. EndBlock(k[2], Net.blocks) \in 1 .. Net.blocks
    BY <1>2, ConfigFacts, PlansFit
  <1> QED
    BY <1>1, <1>2, <1>3

LEMMA PlanKey ==
    ASSUME TypeOK, NEW b \in GuidedBranches
    PROVE  <<b, Plan>> \in Keys /\ <<b, Plan>>[1] = b /\ <<b, Plan>>[2] = Plan
  BY ConfigFacts DEF Keys

-----------------------------------------------------------------------------
(* What takes the place of the plan's blocks *)

Fits(replacement, steps) ==
    \A b \in GuidedBranches :
      replacement[b] = Prefix(Net, b, EndBlock(Plan, Net.blocks), steps)

\* An item of a history is what the fresh step it names computed.
LEMMA ItemsAreFresh ==
    ASSUME IInv, NEW b \in GuidedBranches, NEW i \in 1 .. Len(history[<<b, Plan>>])
    PROVE  LET h == history[<<b, Plan>>]
           IN /\ Len(h) \in Nat /\ DOMAIN h = 1 .. Len(h)
              /\ h[i].step = step - Len(h) + i - 1 /\ h[i].step \in Int
              /\ h[i].output = Prefix(Net, b, EndBlock(Plan, Net.blocks), {h[i].step})
  <1> DEFINE k == <<b, Plan>>
             h == history[k]
  <1>1. k \in Keys /\ k[1] = b /\ k[2] = Plan
    BY PlanKey DEF IInv
  <1> HIDE DEF k
  <1>2. h \in Seq(Items(k)) /\ Gapless(h)
    BY <1>1 DEF IInv, HistoryInv
  <1> HIDE DEF h
  <1>3. Len(h) \in Nat /\ DOMAIN h = 1 .. Len(h)
    BY <1>2, LenProperties
  <1>4. i \in 1 .. Len(h)
    BY DEF h, k
  <1>5. h[i] \in Items(k)
    BY <1>2, <1>4, ElementOfSeq
  <1>6. PICK s \in Int : h[i] = Item(s, Prefix(Net, k[1], EndBlock(k[2], Net.blocks), {s}))
    BY <1>5 DEF Items
  <1>7. h[i].step = s /\ h[i].output = Prefix(Net, b, EndBlock(Plan, Net.blocks), {s})
    BY <1>1, <1>6 DEF Item
  <1>8. h[i].step = step - Len(h) + i - 1
    BY <1>2, <1>4 DEF Gapless
  <1> QED
    BY <1>3, <1>7, <1>8 DEF h, k

LEMMA ReplacementFits ==
    ASSUME IInv, NEW a \in Counterfactual, NEW b \in GuidedBranches, NEW r \in Replacement(b, a)
    PROVE  r = Prefix(Net, b, EndBlock(Plan, Net.blocks), Replaced(a, step))
  <1> DEFINE k == <<b, Plan>>
             h == history[k]
             e == EndBlock(Plan, Net.blocks)
  <1>1. step \in Nat
    BY ConfigFacts DEF IInv
  <1>2. h \in Seq(Items(k))
    BY PlanKey DEF IInv, HistoryInv
  <1>3. Len(h) \in Nat /\ DOMAIN h = 1 .. Len(h)
    <2> HIDE DEF h, k
    <2> QED
      BY <1>2, LenProperties
  <1>4. \A i \in 1 .. Len(h) : /\ h[i].step = step - Len(h) + i - 1
                              /\ h[i].output = Prefix(Net, b, e, {h[i].step})
    BY ItemsAreFresh
  <1>5. CASE a = "taylor_order_1"
    <2>1. PICK pair \in LatestTwo(h, step) : r = Blend(pair[1].output, pair[2].output)
      BY <1>5 DEF Replacement
    <2>2. PICK q \in Past(h, step) \X Past(h, step) :
             /\ q[1] < q[2] /\ \A i \in Past(h, step) : i <= q[1] \/ i = q[2]
             /\ pair = <<h[q[1]], h[q[2]]>>
      BY <2>1 DEF LatestTwo
    <2> DEFINE n == Len(h)
               x == q[1]
               y == q[2]
    <2> HIDE DEF n, x, y
    <2>3. n \in Nat
      BY <1>3 DEF n
    <2>4. Past(h, step) = 1 .. n
      <3>1. \A i \in 1 .. n : h[i].step = step - n + i - 1
        BY <1>4 DEF n
      <3>2. \A i \in 1 .. n : h[i].step < step
        BY <1>1, <2>3, <3>1
      <3>3. DOMAIN h = 1 .. n
        BY <1>3 DEF n
      <3> HIDE DEF h
      <3> QED
        BY <3>2, <3>3 DEF Past
    <2>5. x \in 1 .. n /\ y \in 1 .. n /\ x < y /\ \A i \in 1 .. n : i <= x \/ i = y
      BY <2>2, <2>4 DEF x, y
    <2>6. y = n /\ x = n - 1
      <3>1. n \in 1 .. n /\ (n - 1 \in 1 .. n)
        BY <2>3, <2>5
      <3>2. n <= x \/ n = y
        BY <2>5, <3>1
      <3>3. n - 1 <= x \/ n - 1 = y
        BY <2>5, <3>1
      <3> QED
        BY <2>3, <2>5, <3>2, <3>3
    <2>7. /\ h[x].step = step - n + x - 1 /\ h[y].step = step - n + y - 1
          /\ h[x].output = Prefix(Net, b, e, {h[x].step})
          /\ h[y].output = Prefix(Net, b, e, {h[y].step})
      BY <1>4, <2>5 DEF n
    <2>8. h[x].step = step - 2 /\ h[y].step = step - 1
      BY <1>1, <2>3, <2>6, <2>7
    <2>9. r = Blend(Prefix(Net, b, e, {step - 2}), Prefix(Net, b, e, {step - 1}))
      BY <2>1, <2>2, <2>7, <2>8 DEF x, y
    <2>10. e \in Nat /\ Net \in Network
      BY ConfigFacts, PlansFit DEF IInv
    <2>11. r = Prefix(Net, b, e, {step - 2} \cup {step - 1})
      <3> HIDE DEF e
      <3>1. {step - 2} \in SUBSET Int /\ {step - 1} \in SUBSET Int
        BY <1>1
      <3> QED
        BY <2>9, <2>10, <3>1, BlendIsPrefix
    <2>12. Replaced(a, step) = {step - 2} \cup {step - 1}
      BY <1>5 DEF Replaced
    <2> QED
      BY <2>11, <2>12
  <1>6. CASE a # "taylor_order_1"
    <2> DEFINE g == IF a = "reuse_age_1" THEN 1 ELSE 2
    <2>1. PICK i \in DOMAIN h : h[i].step = step - g /\ r = h[i].output
      BY <1>6 DEF Replacement, SelectAge
    <2>2. r = Prefix(Net, b, e, {step - g})
      BY <1>3, <1>4, <2>1
    <2>3. a \in {"reuse_age_1", "reuse_age_2"}
      BY <1>6 DEF Counterfactual
    <2>4. Replaced(a, step) = {step - g}
      BY <2>3 DEF Replaced
    <2> QED
      BY <2>2, <2>4
  <1> QED
    BY <1>5, <1>6

LEMMA ChosenFits ==
    ASSUME IInv, NEW a \in Counterfactual, Available(a)
    PROVE  Fits(Chosen(a), Replaced(a, step))
  <1> SUFFICES ASSUME NEW b \in GuidedBranches
               PROVE  Chosen(a)[b] = Prefix(Net, b, EndBlock(Plan, Net.blocks), Replaced(a, step))
    BY DEF Fits
  <1>1. Chosen(a)[b] \in Replacement(b, a)
    BY DEF Available, Chosen
  <1> QED
    BY <1>1, ReplacementFits

LEMMA FreshFits ==
    ASSUME IInv, at \in Working
    PROVE  Fits([b \in GuidedBranches |-> fresh[<<b, Plan>>]], {step})
  <1> SUFFICES ASSUME NEW b \in GuidedBranches
               PROVE  fresh[<<b, Plan>>] = Prefix(Net, b, EndBlock(Plan, Net.blocks), {step})
    BY DEF Fits
  <1> DEFINE k == <<b, Plan>>
  <1>1. k \in Keys /\ k[1] = b /\ k[2] = Plan
    BY PlanKey DEF IInv
  <1> HIDE DEF k
  <1>2. fresh[k] = Prefix(Net, k[1], EndBlock(k[2], Net.blocks), {step})
    BY <1>1 DEF IInv, FreshInv
  <1> QED
    BY <1>1, <1>2 DEF k

LEMMA FittingNeverRaises ==
    ASSUME IInv, NEW r, NEW steps, Fits(r, steps)
    PROVE  ~SomeRaises(r)
  <1> SUFFICES ASSUME NEW b \in GuidedBranches
               PROVE  ~CandidateRaises(Net, Plan, b, r[b], step)
    BY DEF SomeRaises
  <1>1. r[b] = Prefix(Net, b, EndBlock(Plan, Net.blocks), steps)
    BY DEF Fits
  <1> QED
    BY <1>1, ConfigFacts, PrefixFits DEF IInv

\* Behind extract_image_tokens every candidate has the form of the fresh output.
LEMMA FormStays ==
    ASSUME NEW a, NEW r
    PROVE  FormOfStep(Tried(a, r)) = "same"
  <1> SUFFICES ASSUME NEW b \in GuidedBranches
               PROVE  FormOf(Tried(a, r).output[b], FreshOutput(b)) = "same"
    BY DEF FormOfStep
  <1>1. ASSUME NEW h, NEW first, NEW last, NEW net
        PROVE  ImageTokens(RunBlocks(net, h, first, last, step)).context = 0
    BY DEF ImageTokens, RunBlocks
  <1>2. ImageTokens(Candidate(Net, Plan, r[b], step)).context = 0
    BY <1>1 DEF Candidate
  <1>3. ImageTokens(FreshOutput(b)).context = 0
    BY <1>1 DEF FreshOutput, FreshHidden
  <1>4. Tried(a, r).output[b] = Candidate(Net, Plan, r[b], step)
    BY DEF Tried
  <1> QED
    BY <1>2, <1>3, <1>4 DEF FormOf

\* A candidate made with a fitting replacement is sound.
LEMMA FittingIsSound ==
    ASSUME IInv, NEW a, NEW r, Fits(r, Replaced(a, step)), Replaced(a, step) \in SUBSET Int,
           candidate' = Tried(a, r), cfg' = cfg
    PROVE  CandidatesSound'
  <1> DEFINE n == Net.blocks
             c == Tried(a, r)
  <1>1. /\ c.action = a /\ c.step = step /\ c.plan = Plan
        /\ \A b \in GuidedBranches : c.output[b] = Candidate(Net, Plan, r[b], step)
    BY DEF Tried
  <1> HIDE DEF c
  <1>2. \A b \in GuidedBranches : Sound(Net, Plan, b, Replaced(a, step), step, c.output[b])
    <2> TAKE b \in GuidedBranches
    <2> DEFINE x == Prefix(Net, b, EndBlock(Plan, Net.blocks), Replaced(a, step))
    <2>1. c.output[b] = Candidate(Net, Plan, x, step)
      BY <1>1 DEF Fits
    <2>2. Sound(Net, Plan, b, Replaced(a, step), step, Candidate(Net, Plan, x, step))
      <3>1. Net \in Network /\ Net.blocks >= 3 /\ Plan \in PlanNames /\ step \in Int
        BY ConfigFacts DEF IInv
      <3> QED
        BY <3>1, PrefixContinues
    <2> QED
      BY <2>1, <2>2
  <1>3. Net' = Net /\ candidate' = c
    BY DEF Net, c
  <1> QED
    BY <1>1, <1>2, <1>3 DEF CandidatesSound, Sound

-----------------------------------------------------------------------------
(* Init and the steps *)

LEMMA InitInv == Init => IInv
  <1> SUFFICES ASSUME Init PROVE IInv
    OBVIOUS
  <1>1. TypeOK
    <2>1. ConfigOK(cfg)
      BY InstrumentAssumption DEF Init
    <2> DEFINE p == cfg.plans
    <2>2. p \in Seq(PlanNames) /\ p # <<>> /\ cfg.steps \in Nat \ {0}
      BY <2>1 DEF ConfigOK
    <2> HIDE DEF p
    <2>3. Len(p) \in Nat \ {0}
      BY <2>2, EmptySeq, LenProperties
    <2>4. plan \in 1 .. Len(cfg.plans) /\ step \in 0 .. cfg.steps
      BY <2>2, <2>3 DEF Init, p
    <2>5. state \in [step : Nat, by : SUBSET DefaultActions]
      BY DEF Init, Start
    <2> QED
      BY <2>4, <2>5, MissesAssumption DEF Init, TypeOK, Points
  <1>2. StateInv
    BY DEF Init, Start, StateInv
  <1>3. FreshInv
    BY DEF Init, FreshInv, Working
  <1>4. HistoryInv
    <2> SUFFICES ASSUME NEW k \in Keys
                 PROVE  history[k] \in Seq(Items(k)) /\ Gapless(history[k])
      BY DEF HistoryInv
    <2>1. history[k] = <<>>
      BY DEF Init, NoItems
    <2> QED
      BY <2>1, EmptySeq DEF Gapless
  <1>5. CandidatesSound
    BY DEF Init, NothingTried, CandidatesSound
  <1> QED
    BY <1>1, <1>2, <1>3, <1>4, <1>5 DEF IInv

LEMMA KeepsState ==
    ASSUME IInv, step' = step, state' = state
    PROVE  StateInv'
  BY DEF IInv, StateInv

LEMMA KeepsFresh ==
    ASSUME IInv, cfg' = cfg, step' = step, fresh' = fresh, at' \in Working => at \in Working
    PROVE  FreshInv'
  BY DEF IInv, FreshInv, Keys, Net

LEMMA KeepsHistory ==
    ASSUME IInv, cfg' = cfg, step' = step, history' = history
    PROVE  HistoryInv'
  <1>1. Keys' = Keys /\ Net' = Net
    BY DEF Keys, Net
  <1>2. ASSUME NEW k \in Keys
        PROVE  (history[k] \in Seq(Items(k)) /\ Gapless(history[k]))'
    <2>1. Items(k)' = Items(k)
      BY <1>1 DEF Items
    <2>2. history[k] \in Seq(Items(k)) /\ Gapless(history[k])
      BY DEF IInv, HistoryInv
    <2> QED
      BY <2>1, <2>2 DEF Gapless
  <1> QED
    BY <1>1, <1>2 DEF HistoryInv

LEMMA KeepsCandidate ==
    ASSUME IInv, cfg' = cfg, candidate' = candidate
    PROVE  CandidatesSound'
  BY DEF IInv, CandidatesSound, Net

LEMMA MissesBounded ==
    ASSUME IInv, NEW o \in Outcomes, Missed(o)
    PROVE  misses' \in 0 .. MaxMisses
  <1>1. misses \in 0 .. MaxMisses /\ MaxMisses \in Nat
    BY MissesAssumption DEF IInv, TypeOK
  <1>2. CASE misses < MaxMisses
    BY <1>1, <1>2 DEF Missed
  <1>3. CASE ~(misses < MaxMisses)
    <2>1. o = Close
      BY <1>3 DEF Outcomes
    <2> QED
      BY <1>1, <2>1 DEF Missed
  <1> QED
    BY <1>2, <1>3

LEMMA CaptureStepInv == ASSUME IInv, CaptureStep PROVE IInv'
  <1>1. step \in Nat /\ step < cfg.steps /\ cfg' = cfg /\ step' = step
    BY ConfigFacts DEF CaptureStep, IInv
  <1>2. TypeOK'
    <2>1. at' \in Points /\ plan' = 1
      BY DEF CaptureStep, Points
    <2>2. 1 \in 1 .. Len(cfg.plans)
      BY ConfigFacts DEF IInv
    <2>3. misses' \in 0 .. MaxMisses
      <3>1. misses' = misses \/ (misses < MaxMisses /\ misses' = misses + 1)
        BY DEF CaptureStep
      <3> QED
        BY <3>1, MissesAssumption DEF IInv, TypeOK
    <2> QED
      BY <2>1, <2>2, <2>3 DEF CaptureStep, IInv, TypeOK
  <1>3. StateInv'
    BY KeepsState DEF CaptureStep
  <1>4. FreshInv'
    <2>1. Keys' = Keys /\ Net' = Net
      BY <1>1 DEF Keys, Net
    <2>2. ASSUME NEW k \in Keys
          PROVE  fresh'[k] = Prefix(Net, k[1], EndBlock(k[2], Net.blocks), {step})
      <3>1. fresh'[k] = FreshHidden(Net, k[1], EndBlock(k[2], Net.blocks), step)
        BY DEF CaptureStep
      <3>2. Net \in Network /\ EndBlock(k[2], Net.blocks) \in Nat /\ step \in Int
        BY <1>1, ConfigFacts, KeyFacts DEF IInv
      <3> QED
        BY <3>1, <3>2, FreshIsPrefix
    <2> QED
      BY <1>1, <2>1, <2>2 DEF FreshInv
  <1>5. HistoryInv'
    BY <1>1, KeepsHistory DEF CaptureStep
  <1>6. CandidatesSound'
    BY <1>1, KeepsCandidate DEF CaptureStep
  <1> QED
    BY <1>2, <1>3, <1>4, <1>5, <1>6 DEF IInv

LEMMA CheckEquivalenceInv == ASSUME IInv, CheckEquivalence PROVE IInv'
  <1>1. TypeOK'
    <2>1. PICK o \in Outcomes :
            /\ at' \in {"failed", "uncond", "replay"}
            /\ Missed(o)
      BY DEF CheckEquivalence, Checked
    <2>2. misses' \in 0 .. MaxMisses
      BY <2>1, MissesBounded
    <2> QED
      BY <2>1, <2>2 DEF CheckEquivalence, IInv, TypeOK, Points
  <1>2. at \in Working
    BY DEF CheckEquivalence, GuidedBranches, Working
  <1>3. StateInv' /\ FreshInv' /\ HistoryInv' /\ CandidatesSound'
    BY <1>2, KeepsState, KeepsFresh, KeepsHistory, KeepsCandidate DEF CheckEquivalence
  <1> QED
    BY <1>1, <1>3 DEF IInv

LEMMA ReplayInv == ASSUME IInv, Replay PROVE IInv'
  <1> DEFINE r == [b \in GuidedBranches |-> fresh[<<b, Plan>>]]
  <1>1. at = "replay" /\ candidate' = Tried("replay_age_0", r)
        /\ cfg' = cfg /\ step' = step /\ state' = state /\ fresh' = fresh /\ history' = history
    BY DEF Replay
  <1>2. TypeOK'
    <2>1. PICK o \in Outcomes : Missed(o) /\ at' \in {"failed", "action"}
      BY DEF Replay, Checked
    <2>2. misses' \in 0 .. MaxMisses
      BY <2>1, MissesBounded
    <2> QED
      BY <2>1, <2>2 DEF Replay, IInv, TypeOK, Points
  <1>3. at \in Working
    BY <1>1 DEF Working
  <1>4. StateInv' /\ FreshInv' /\ HistoryInv'
    BY <1>1, <1>3, KeepsState, KeepsFresh, KeepsHistory
  <1>5. CandidatesSound'
    <2>1. Fits(r, {step})
      BY <1>3, FreshFits
    <2>2. Replaced("replay_age_0", step) = {step} /\ {step} \in SUBSET Int
      BY ConfigFacts DEF Replaced, IInv
    <2> HIDE DEF r
    <2> QED
      BY <1>1, <2>1, <2>2, FittingIsSound
  <1> QED
    BY <1>2, <1>4, <1>5 DEF IInv

LEMMA UnavailableInv == ASSUME IInv, Unavailable PROVE IInv'
  <1>1. PICK j \in Due :
          /\ action' = j
          /\ UNCHANGED <<cfg, at, step, plan, state, fresh, history, candidate, misses>>
    BY DEF Unavailable
  <1>2. j \in Nat
    <2>1. j \in DOMAIN cfg.actions
      BY DEF Due, Left
    <2>2. cfg.actions \in Seq(DefaultActions)
      BY InstrumentAssumption DEF IInv, TypeOK, ConfigOK
    <2> QED
      BY <2>1, <2>2, LenProperties
  <1>3. TypeOK'
    BY <1>1, <1>2 DEF IInv, TypeOK
  <1>4. StateInv' /\ FreshInv' /\ HistoryInv' /\ CandidatesSound'
    BY <1>1, KeepsState, KeepsFresh, KeepsHistory, KeepsCandidate
  <1> QED
    BY <1>3, <1>4 DEF IInv

LEMMA CounterfactInv == ASSUME IInv, Counterfact PROVE IInv'
  <1>1. PICK j \in Due :
          /\ Available(cfg.actions[j])
          /\ candidate' = Tried(cfg.actions[j], Chosen(cfg.actions[j]))
          /\ action' = j
          /\ misses' = misses + 0 \/ (misses < MaxMisses /\ misses' = misses + 1)
          /\ UNCHANGED <<cfg, at, step, plan, state, fresh, history>>
    BY DEF Counterfact
  <1>2. j \in DOMAIN cfg.actions /\ cfg.actions[j] \in Counterfactual
    BY DEF Due, Left
  <1>3. j \in Nat
    <2>1. cfg.actions \in Seq(DefaultActions)
      BY InstrumentAssumption DEF IInv, TypeOK, ConfigOK
    <2> QED
      BY <1>2, <2>1, LenProperties
  <1>4. TypeOK'
    <2>1. misses' \in 0 .. MaxMisses
      BY <1>1, MissesAssumption DEF IInv, TypeOK
    <2> QED
      BY <1>1, <1>3, <2>1 DEF IInv, TypeOK
  <1>5. StateInv' /\ FreshInv' /\ HistoryInv'
    BY <1>1, KeepsState, KeepsFresh, KeepsHistory
  <1>6. CandidatesSound'
    <2> DEFINE a == cfg.actions[j]
    <2>1. a \in Counterfactual /\ Available(a) /\ candidate' = Tried(a, Chosen(a)) /\ cfg' = cfg
      BY <1>1, <1>2
    <2> HIDE DEF a
    <2>2. Fits(Chosen(a), Replaced(a, step))
      BY <2>1, ChosenFits
    <2>3. Replaced(a, step) \in SUBSET Int
      BY ConfigFacts DEF IInv, Replaced
    <2> QED
      BY <2>1, <2>2, <2>3, FittingIsSound
  <1> QED
    BY <1>4, <1>5, <1>6 DEF IInv

LEMMA NextPlanInv == ASSUME IInv, NextPlan PROVE IInv'
  <1>1. at = "action" /\ at' \in {"replay", "append"}
        /\ UNCHANGED <<cfg, step, action, state, fresh, history, candidate, misses>>
    BY DEF NextPlan
  <1>2. TypeOK'
    <2>1. plan \in 1 .. Len(cfg.plans) /\ Len(cfg.plans) \in Nat
      BY ConfigFacts DEF IInv, TypeOK
    <2>2. plan' \in 1 .. Len(cfg.plans)
      <3>1. CASE plan < Len(cfg.plans) /\ plan' = plan + 1
        BY <2>1, <3>1
      <3>2. CASE plan' = plan
        BY <2>1, <3>2
      <3> QED
        BY <3>1, <3>2 DEF NextPlan
    <2> QED
      BY <1>1, <2>2 DEF IInv, TypeOK, Points
  <1>3. StateInv' /\ FreshInv' /\ HistoryInv' /\ CandidatesSound'
    BY <1>1, KeepsState, KeepsFresh, KeepsHistory, KeepsCandidate DEF Working
  <1> QED
    BY <1>2, <1>3 DEF IInv

LEMMA AppendHistoryInv == ASSUME IInv, AppendHistory PROVE IInv'
  <1>1. /\ at = "append" /\ at' = "capture" /\ step' = step + 1 /\ state' = Moved("fresh")
        /\ history' = [k \in Keys |-> Appended(history[k], Item(step, fresh[k]))]
        /\ UNCHANGED <<cfg, plan, action, candidate, misses>>
    BY DEF AppendHistory, Advanced
  <1>2. step \in Nat /\ step < cfg.steps /\ cfg.steps \in Nat
    BY <1>1, ConfigFacts DEF IInv, FreshInv, Working
  <1>3. StateInv' /\ state' \in [step : Nat, by : SUBSET DefaultActions]
    BY <1>1, <1>2 DEF IInv, StateInv, TypeOK, Moved, DefaultActions
  <1>4. TypeOK'
    BY <1>1, <1>2, <1>3 DEF IInv, TypeOK, Points
  <1>5. FreshInv'
    BY <1>1 DEF FreshInv, Working
  <1>6. HistoryInv'
    <2>1. Keys' = Keys /\ Net' = Net
      BY <1>1 DEF Keys, Net
    <2>2. ASSUME NEW k \in Keys
          PROVE  /\ history'[k] \in Seq(Items(k))
                 /\ \A i \in 1 .. Len(history'[k]) :
                      history'[k][i].step = (step + 1) - Len(history'[k]) + i - 1
      <3> DEFINE h == history[k]
                 e == Item(step, fresh[k])
                 all == Append(h, e)
                 n == Len(h)
      <3>1. h \in Seq(Items(k)) /\ \A i \in 1 .. Len(h) : h[i].step = step - Len(h) + i - 1
        BY DEF IInv, HistoryInv, Gapless
      <3>2. e \in Items(k) /\ e.step = step
        <4>1. fresh[k] = Prefix(Net, k[1], EndBlock(k[2], Net.blocks), {step})
          BY <1>1 DEF IInv, FreshInv, Working
        <4>2. e = Item(step, Prefix(Net, k[1], EndBlock(k[2], Net.blocks), {step}))
          BY <4>1
        <4>3. e.step = step
          BY DEF Item
        <4> HIDE DEF e
        <4>4. e \in Items(k)
          BY <1>2, <4>2 DEF Items
        <4> QED
          BY <4>3, <4>4
      <3>3. history'[k] = IF Len(all) > MaxHistory THEN Tail(all) ELSE all
        BY <1>1 DEF Appended
      <3> HIDE DEF h, e
      <3>4. n \in Nat /\ \A i \in 1 .. n : h[i].step = step - n + i - 1
        BY <3>1, LenProperties
      <3>5. /\ all \in Seq(Items(k)) /\ all # <<>> /\ Len(all) = n + 1
            /\ \A i \in 1 .. n : all[i] = h[i]
            /\ all[n + 1] = e
        BY <3>1, <3>2, AppendProperties
      <3> HIDE DEF n, all
      <3>6. \A i \in 1 .. (n + 1) : all[i].step = step - n + i - 1
        <4> TAKE i \in 1 .. (n + 1)
        <4>1. CASE i \in 1 .. n
          BY <3>4, <3>5, <4>1
        <4>2. CASE i = n + 1
          BY <1>2, <3>2, <3>4, <3>5, <4>2
        <4> QED
          BY <3>4, <4>1, <4>2
      <3>7. CASE history'[k] = all
        BY <1>2, <3>4, <3>5, <3>6, <3>7
      <3>8. CASE history'[k] = Tail(all)
        <4> DEFINE t == Tail(all)
        <4>1. t \in Seq(Items(k)) /\ Len(t) = n /\ \A i \in 1 .. n : t[i] = all[i + 1]
          <5>1. /\ t \in Seq(Items(k)) /\ Len(t) = Len(all) - 1
                /\ \A i \in 1 .. Len(t) : t[i] = all[i + 1]
            BY <3>5, HeadTailProperties
          <5> HIDE DEF t
          <5>2. Len(t) = n
            BY <3>4, <3>5, <5>1
          <5> QED
            BY <5>1, <5>2
        <4> HIDE DEF t
        <4>2. \A i \in 1 .. n : t[i].step = (step + 1) - n + i - 1
          <5> TAKE i \in 1 .. n
          <5>1. i + 1 \in 1 .. (n + 1) /\ t[i] = all[i + 1]
            BY <3>4, <4>1
          <5>2. all[i + 1].step = step - n + (i + 1) - 1
            BY <3>6, <5>1
          <5> QED
            BY <1>2, <3>4, <5>1, <5>2
        <4>3. history'[k] = t
          BY <3>8 DEF t
        <4> QED
          BY <4>1, <4>2, <4>3
      <3> QED
        BY <3>3, <3>7, <3>8
    <2>3. ASSUME NEW k \in Keys
          PROVE  (history[k] \in Seq(Items(k)) /\ Gapless(history[k]))'
      <3>1. Items(k)' = Items(k)
        BY <2>1 DEF Items
      <3> QED
        BY <1>1, <2>2, <3>1 DEF Gapless
    <2> QED
      BY <2>1, <2>3 DEF HistoryInv
  <1>7. CandidatesSound'
    BY <1>1, KeepsCandidate
  <1> QED
    BY <1>3, <1>4, <1>5, <1>6, <1>7 DEF IInv

LEMMA FinishInv == ASSUME IInv, Finish PROVE IInv'
  <1>1. /\ at' = "done" /\ history' = NoItems
        /\ UNCHANGED <<cfg, step, plan, action, state, fresh, candidate, misses>>
    BY DEF Finish, Cleared
  <1>2. TypeOK'
    BY <1>1 DEF IInv, TypeOK, Points
  <1>3. HistoryInv'
    <2>1. Keys' = Keys
      BY <1>1 DEF Keys
    <2>2. ASSUME NEW k \in Keys
          PROVE  (history[k] \in Seq(Items(k)) /\ Gapless(history[k]))'
      <3>1. history'[k] = <<>>
        BY <1>1 DEF NoItems
      <3> QED
        BY <3>1, EmptySeq DEF Gapless
    <2> QED
      BY <2>1, <2>2 DEF HistoryInv
  <1>4. StateInv' /\ FreshInv' /\ CandidatesSound'
    BY <1>1, KeepsState, KeepsFresh, KeepsCandidate DEF Working
  <1> QED
    BY <1>2, <1>3, <1>4 DEF IInv

LEMMA StepInv == IInv /\ [Next]_vars => IInv'
  <1> SUFFICES ASSUME IInv, [Next]_vars PROVE IInv'
    OBVIOUS
  <1>1. CASE CaptureStep
    BY <1>1, CaptureStepInv
  <1>2. CASE CheckEquivalence
    BY <1>2, CheckEquivalenceInv
  <1>3. CASE Replay
    BY <1>3, ReplayInv
  <1>4. CASE Unavailable
    BY <1>4, UnavailableInv
  <1>5. CASE Counterfact
    BY <1>5, CounterfactInv
  <1>6. CASE NextPlan
    BY <1>6, NextPlanInv
  <1>7. CASE AppendHistory
    BY <1>7, AppendHistoryInv
  <1>8. CASE Finish
    BY <1>8, FinishInv
  <1>9. CASE UNCHANGED vars
    <2>1. UNCHANGED <<cfg, at, step, plan, action, state, fresh, history, candidate, misses>>
      BY <1>9 DEF vars
    <2>2. TypeOK'
      BY <2>1 DEF IInv, TypeOK
    <2>3. StateInv' /\ FreshInv' /\ HistoryInv' /\ CandidatesSound'
      BY <2>1, KeepsState, KeepsFresh, KeepsHistory, KeepsCandidate
    <2> QED
      BY <2>2, <2>3 DEF IInv
  <1> QED
    BY <1>1, <1>2, <1>3, <1>4, <1>5, <1>6, <1>7, <1>8, <1>9 DEF Next, Terminated

-----------------------------------------------------------------------------
(* The theorems *)

LEMMA InvTrajectory == IInv => TrajectoryFresh
  <1> SUFFICES ASSUME IInv, NEW k \in Keys, NEW i \in DOMAIN history[k]
               PROVE  /\ history[k][i].step = step - Len(history[k]) + i - 1
                      /\ history[k][i].output =
                           FreshHidden(Net, k[1], EndBlock(k[2], Net.blocks), history[k][i].step)
    BY DEF IInv, StateInv, TrajectoryFresh
  <1> DEFINE h == history[k]
  <1>1. h \in Seq(Items(k)) /\ Gapless(h)
    BY DEF IInv, HistoryInv
  <1>2. i \in 1 .. Len(h)
    <2> HIDE DEF h
    <2>1. DOMAIN h = 1 .. Len(h)
      BY <1>1, LenProperties
    <2> QED
      BY <2>1 DEF h
  <1> HIDE DEF h
  <1>3. h[i] \in Items(k)
    BY <1>1, <1>2, ElementOfSeq
  <1>4. PICK s \in Int : h[i] = Item(s, Prefix(Net, k[1], EndBlock(k[2], Net.blocks), {s}))
    BY <1>3 DEF Items
  <1>5. h[i].step = s /\ h[i].output = Prefix(Net, k[1], EndBlock(k[2], Net.blocks), {s})
    BY <1>4 DEF Item
  <1>6. FreshHidden(Net, k[1], EndBlock(k[2], Net.blocks), s)
          = Prefix(Net, k[1], EndBlock(k[2], Net.blocks), {s})
    <2>1. Net \in Network /\ EndBlock(k[2], Net.blocks) \in Nat
      BY ConfigFacts, KeyFacts DEF IInv
    <2> QED
      BY <2>1, FreshIsPrefix
  <1>7. h[i].step = step - Len(h) + i - 1
    BY <1>1, <1>2 DEF Gapless
  <1> QED
    BY <1>5, <1>6, <1>7 DEF h

LEMMA InvNothingRaises == IInv => NothingRaises
  <1> SUFFICES ASSUME IInv, Breaks PROVE FALSE
    BY DEF NothingRaises
  <1>1. CASE \E b \in GuidedBranches : CaptureRaises(Net, b, step)
    BY <1>1, ConfigFacts, CaptureNeverRaises DEF IInv
  <1>2. CASE at = "replay" /\ SomeRaises([b \in GuidedBranches |-> fresh[<<b, Plan>>]])
    <2> DEFINE r == [b \in GuidedBranches |-> fresh[<<b, Plan>>]]
    <2>1. Fits(r, {step})
      BY <1>2, FreshFits DEF Working
    <2> HIDE DEF r
    <2>2. ~SomeRaises(r)
      BY <2>1, FittingNeverRaises
    <2> QED
      BY <1>2, <2>2 DEF r
  <1>3. CASE \E j \in Due : Available(cfg.actions[j]) /\ SomeRaises(Chosen(cfg.actions[j]))
    <2>1. PICK j \in Due : Available(cfg.actions[j]) /\ SomeRaises(Chosen(cfg.actions[j]))
      BY <1>3
    <2>2. cfg.actions[j] \in Counterfactual
      BY DEF Due, Left
    <2>3. Fits(Chosen(cfg.actions[j]), Replaced(cfg.actions[j], step))
      BY <2>1, <2>2, ChosenFits
    <2> QED
      BY <2>1, <2>3, FittingNeverRaises
  <1>4. CASE at = "append" /\ \E k \in Keys : AppendRaises(history[k], step)
    <2>1. PICK k \in Keys : history[k] # <<>> /\ step <= history[k][Len(history[k])].step
      BY <1>4 DEF AppendRaises
    <2> DEFINE h == history[k]
    <2>2. h \in Seq(Items(k)) /\ Gapless(h) /\ h # <<>> /\ step <= h[Len(h)].step
      BY <2>1 DEF IInv, HistoryInv
    <2>3. step \in Nat
      BY ConfigFacts DEF IInv
    <2> HIDE DEF h
    <2>4. Len(h) \in Nat \ {0}
      BY <2>2, EmptySeq, LenProperties
    <2>5. h[Len(h)].step = step - Len(h) + Len(h) - 1
      BY <2>2, <2>4 DEF Gapless
    <2> QED
      BY <2>2, <2>3, <2>4, <2>5
  <1> QED
    BY <1>1, <1>2, <1>3, <1>4 DEF Breaks

THEOREM AlwaysInv == Spec => []IInv
  BY InitInv, StepInv, PTL DEF Spec

\* Candidates never touch the trajectory or the histories, whatever is asked for
\* in whichever order: instrument_sample.
THEOREM TrajectoryStaysFresh == Spec => []TrajectoryFresh
  BY AlwaysInv, InvTrajectory, PTL

\* A candidate holds every block once, those of its plan from exactly the right
\* earlier steps, and the in-context tokens once: evaluate_branch_candidate.
THEOREM CandidatesAreSound == Spec => []CandidatesSound
  <1>1. IInv => CandidatesSound
    BY DEF IInv
  <1> QED
    BY <1>1, AlwaysInv, PTL

\* No ValueError of an executor, a plan or a history ends a sample.
THEOREM NothingEverRaises == Spec => []NothingRaises
  BY AlwaysInv, InvNothingRaises, PTL

-----------------------------------------------------------------------------
(* The records: what the steps done so far owe, and nothing else *)

RiskRecords ==
    [step : Nat, plan : PlanNames \cup {"fresh"}, action : DefaultActions, age : Nat \cup {None},
     ready : BOOLEAN, skip : {None, "insufficient_history"}, risk : {"zero", "positive", None},
     form : {"same", "shape", None}]

CheckRecords ==
    [step : Nat, check : {"fresh_split_equivalence", "replay_age_0"},
     branch : GuidedBranches \cup {"cfg"}, plan : PlanNames \cup {None},
     allclose : BOOLEAN, within : BOOLEAN, form : {"same", "shape", "dtype"}, finite : BOOLEAN]

\* In the step being taken: plan p is behind us, or replayed; action a was tried.
InStep == {"replay", "action", "append"}
Before(p) == \E k \in 1 .. (plan - 1) : cfg.plans[k] = p
ReplayedHere(p) ==
    \/ at = "append"
    \/ at \in {"replay", "action"} /\ Before(p)
    \/ at = "action" /\ p = Plan
TriedHere(p, a) ==
    /\ ReplayedHere(p)
    /\ at = "action" /\ p = Plan => a = "replay_age_0" \/ \E j \in 1 .. action : cfg.actions[j] = a

RiskDone(s, p, a) ==
    /\ p = "fresh" <=> a = "fresh"
    /\ \/ s < step
       \/ s = step /\ p = "fresh" /\ at \in Working
       \/ s = step /\ p # "fresh" /\ TriedHere(p, a)
FreshDone(s, b) ==
    \/ s < step
    \/ s = step /\ (at \in InStep \/ (at = "uncond" /\ b = "cond"))
ReplayDone(s, p) == s < step \/ (s = step /\ ReplayedHere(p))

RiskPlans == PlansOf \cup {"fresh"}
RiskKeys ==
    {k \in StepsOf \X RiskPlans \X Values(cfg.actions) : RiskDone(k[1], k[2], k[3])}
FreshKeys == {k \in cfg.equivalence \X GuidedBranches : FreshDone(k[1], k[2])}
ReplayKeys == {k \in StepsOf \X PlansOf : ReplayDone(k[1], k[2])}

RiskKey(r) == <<r.step, r.plan, r.action>>
RiskLog == [i \in DOMAIN risk |-> RiskKey(risk[i])]
FreshLog ==
    [i \in Correctness("fresh_split_equivalence") |-> <<correctness[i].step, correctness[i].branch>>]
ReplayLog ==
    [i \in Correctness("replay_age_0") |-> <<correctness[i].step, correctness[i].plan>>]

Logged(keys, expected) == OnceEach(keys, expected) /\ \A i \in DOMAIN keys : keys[i] \in expected

\* What the records say.
RiskTrue(r) ==
    /\ r.action = "fresh" => r.risk = "zero"
    /\ r.ready => r.form = "same"
    /\ r.action \in Counterfactual =>
         /\ r.ready <=> r.step >= UnavailableUntil(r.action)
         /\ ~r.ready => r.skip = "insufficient_history"
         /\ misses = 0 /\ r.ready => r.risk = Distance
CheckTrue(r) ==
    /\ misses = 0 => r.allclose /\ r.within
    /\ cfg.strict => r.allclose
    /\ r.finite
    /\ r.form # "same" => r.check = "fresh_split_equivalence" /\ ~r.allclose

RisksTrue == \A i \in DOMAIN risk : RiskTrue(risk[i])
ChecksTrue == \A i \in DOMAIN correctness : CheckTrue(correctness[i])

HistoriesFull ==
    \A k \in Keys : Len(history[k]) = IF step < MaxHistory THEN step ELSE MaxHistory

PlaceInv ==
    /\ at \in GuidedBranches => plan = 1 /\ step \in cfg.equivalence
    /\ at = "done" => step = cfg.steps /\ leftover = 0
    /\ at # "done" => HistoriesFull

RiskInv ==
    /\ risk \in Seq(RiskRecords)
    /\ at # "failed" => Logged(RiskLog, RiskKeys) /\ RisksTrue

CheckInv ==
    /\ correctness \in Seq(CheckRecords)
    /\ at # "failed" => Logged(FreshLog, FreshKeys) /\ Logged(ReplayLog, ReplayKeys) /\ ChecksTrue

LogInv == PlaceInv /\ RiskInv /\ CheckInv

-----------------------------------------------------------------------------
(* Lists without duplicates *)

LEMMA UniqueInjective ==
    ASSUME NEW S, NEW s \in Seq(S), Unique(s)
    PROVE  \A i, j \in DOMAIN s : s[i] = s[j] => i = j
  <1> DEFINE n == Len(s)
  <1>1. n \in Nat /\ DOMAIN s = 1 .. n /\ s \in [1 .. n -> S]
    BY LenProperties
  <1> HIDE DEF n
  <1>2. s \in Surjection(1 .. n, Values(s))
    BY <1>1 DEF Surjection, Values
  <1>3. IsFiniteSet(1 .. n) /\ Cardinality(1 .. n) = n
    <2>1. IsFiniteSet(1 .. n) /\ Cardinality(1 .. n) = IF 1 > n THEN 0 ELSE n - 1 + 1
      BY <1>1, FS_Interval
    <2> QED
      BY <1>1, <2>1
  <1>4. Cardinality(Values(s)) = Cardinality(1 .. n)
    BY <1>3 DEF Unique, n
  <1>5. s \in Injection(1 .. n, Values(s))
    BY <1>2, <1>3, <1>4, FS_Surjection
  <1> QED
    BY <1>1, <1>5 DEF Injection, IsInjective

LEMMA ListFacts ==
    ASSUME TypeOK
    PROVE  /\ DOMAIN cfg.plans = 1 .. Len(cfg.plans)
           /\ \A i, j \in 1 .. Len(cfg.plans) : cfg.plans[i] = cfg.plans[j] => i = j
           /\ Len(cfg.actions) \in Nat /\ DOMAIN cfg.actions = 1 .. Len(cfg.actions)
           /\ \A i \in 1 .. Len(cfg.actions) : cfg.actions[i] \in DefaultActions
           /\ \A i, j \in 1 .. Len(cfg.actions) : cfg.actions[i] = cfg.actions[j] => i = j
           /\ "fresh" \in Values(cfg.actions) /\ "replay_age_0" \in Values(cfg.actions)
           /\ cfg.equivalence \subseteq StepsOf
           /\ "fresh" \notin PlansOf /\ PlansOf \subseteq PlanNames
           /\ Values(cfg.actions) \subseteq DefaultActions
  <1>1. ConfigOK(cfg)
    BY InstrumentAssumption DEF TypeOK
  <1> DEFINE p == cfg.plans
             a == cfg.actions
  <1>2. p \in Seq(PlanNames) /\ Unique(p) /\ a \in Seq(DefaultActions) /\ Unique(a)
        /\ {"fresh", "replay_age_0"} \subseteq Values(a)
        /\ cfg.equivalence \subseteq 0 .. (cfg.steps - 1)
    BY <1>1 DEF ConfigOK
  <1> HIDE DEF p, a
  <1>3. DOMAIN p = 1 .. Len(p) /\ DOMAIN a = 1 .. Len(a) /\ Len(a) \in Nat
        /\ \A i \in 1 .. Len(a) : a[i] \in DefaultActions
    BY <1>2, LenProperties, ElementOfSeq
  <1>4. \A i, j \in DOMAIN p : p[i] = p[j] => i = j
    BY <1>2, UniqueInjective
  <1>5. \A i, j \in DOMAIN a : a[i] = a[j] => i = j
    BY <1>2, UniqueInjective
  <1>6. PlansOf \subseteq PlanNames
    BY ConfigFacts DEF PlansOf
  <1>7. Values(a) \subseteq DefaultActions
    BY <1>3 DEF Values
  <1>8. "fresh" \notin PlanNames
    BY DEF PlanNames
  <1> QED
    BY <1>2, <1>3, <1>4, <1>5, <1>6, <1>7, <1>8 DEF p, a, StepsOf

-----------------------------------------------------------------------------
(* Logs that grow *)

LEMMA LogGrows ==
    ASSUME NEW f, NEW g, NEW n, NEW D, Logged(f, D),
           n \notin DOMAIN f, DOMAIN g = DOMAIN f \cup {n}, \A i \in DOMAIN f : g[i] = f[i],
           g[n] \notin D
    PROVE  Logged(g, D \cup {g[n]})
  BY DEF Logged, OnceEach

LEMMA RiskKeysGrow ==
    ASSUME cfg' = cfg, NEW s \in StepsOf, NEW p \in RiskPlans, NEW a \in Values(cfg.actions),
           \A x \in StepsOf : \A q \in RiskPlans : \A b \in Values(cfg.actions) :
              RiskDone(x, q, b)' <=> RiskDone(x, q, b) \/ (x = s /\ q = p /\ b = a)
    PROVE  RiskKeys' = RiskKeys \cup {<<s, p, a>>}
  <1> DEFINE X == StepsOf \X RiskPlans \X Values(cfg.actions)
  <1>1. RiskKeys' = {k \in X : RiskDone(k[1], k[2], k[3])'}
    BY DEF RiskKeys, StepsOf, RiskPlans, PlansOf
  <1>2. \A k \in X : k[1] \in StepsOf /\ k[2] \in RiskPlans /\ k[3] \in Values(cfg.actions)
                     /\ k = <<k[1], k[2], k[3]>>
    OBVIOUS
  <1>3. <<s, p, a>> \in X
    OBVIOUS
  <1>4. \A k \in X : RiskDone(k[1], k[2], k[3])' <=>
                       RiskDone(k[1], k[2], k[3]) \/ k = <<s, p, a>>
    <2> TAKE k \in X
    <2>1. k = <<s, p, a>> <=> k[1] = s /\ k[2] = p /\ k[3] = a
      BY <1>2
    <2> QED
      BY <1>2, <2>1
  <1>5. RiskKeys = {k \in X : RiskDone(k[1], k[2], k[3])}
    BY DEF RiskKeys
  <1> HIDE DEF X
  <1> QED
    BY <1>1, <1>3, <1>4, <1>5

LEMMA RiskKeysStay ==
    ASSUME cfg' = cfg,
           \A x \in StepsOf : \A q \in RiskPlans : \A b \in Values(cfg.actions) :
              RiskDone(x, q, b)' <=> RiskDone(x, q, b)
    PROVE  RiskKeys' = RiskKeys
  <1> DEFINE X == StepsOf \X RiskPlans \X Values(cfg.actions)
  <1>1. RiskKeys' = {k \in X : RiskDone(k[1], k[2], k[3])'}
    BY DEF RiskKeys, StepsOf, RiskPlans, PlansOf
  <1>2. \A k \in X : RiskDone(k[1], k[2], k[3])' <=> RiskDone(k[1], k[2], k[3])
    OBVIOUS
  <1> QED
    BY <1>1, <1>2 DEF RiskKeys

LEMMA FreshKeysGrow ==
    ASSUME cfg' = cfg, NEW s \in cfg.equivalence, NEW b \in GuidedBranches,
           \A x \in cfg.equivalence : \A c \in GuidedBranches :
              FreshDone(x, c)' <=> FreshDone(x, c) \/ (x = s /\ c = b)
    PROVE  FreshKeys' = FreshKeys \cup {<<s, b>>}
  <1> DEFINE X == cfg.equivalence \X GuidedBranches
  <1>1. FreshKeys' = {k \in X : FreshDone(k[1], k[2])'}
    BY DEF FreshKeys
  <1>2. \A k \in X : k[1] \in cfg.equivalence /\ k[2] \in GuidedBranches /\ k = <<k[1], k[2]>>
    OBVIOUS
  <1>3. <<s, b>> \in X
    OBVIOUS
  <1>4. \A k \in X : FreshDone(k[1], k[2])' <=> FreshDone(k[1], k[2]) \/ k = <<s, b>>
    BY <1>2
  <1>5. FreshKeys = {k \in X : FreshDone(k[1], k[2])}
    BY DEF FreshKeys
  <1> HIDE DEF X
  <1> QED
    BY <1>1, <1>3, <1>4, <1>5

LEMMA FreshKeysStay ==
    ASSUME cfg' = cfg,
           \A x \in cfg.equivalence : \A c \in GuidedBranches : FreshDone(x, c)' <=> FreshDone(x, c)
    PROVE  FreshKeys' = FreshKeys
  <1> DEFINE X == cfg.equivalence \X GuidedBranches
  <1>1. \A k \in X : FreshDone(k[1], k[2])' <=> FreshDone(k[1], k[2])
    OBVIOUS
  <1> QED
    BY <1>1 DEF FreshKeys

LEMMA ReplayKeysGrow ==
    ASSUME cfg' = cfg, NEW s \in StepsOf, NEW p \in PlansOf,
           \A x \in StepsOf : \A q \in PlansOf :
              ReplayDone(x, q)' <=> ReplayDone(x, q) \/ (x = s /\ q = p)
    PROVE  ReplayKeys' = ReplayKeys \cup {<<s, p>>}
  <1> DEFINE X == StepsOf \X PlansOf
  <1>1. ReplayKeys' = {k \in X : ReplayDone(k[1], k[2])'}
    BY DEF ReplayKeys, StepsOf, PlansOf
  <1>2. \A k \in X : k[1] \in StepsOf /\ k[2] \in PlansOf /\ k = <<k[1], k[2]>>
    OBVIOUS
  <1>3. <<s, p>> \in X
    OBVIOUS
  <1>4. \A k \in X : ReplayDone(k[1], k[2])' <=> ReplayDone(k[1], k[2]) \/ k = <<s, p>>
    BY <1>2
  <1>5. ReplayKeys = {k \in X : ReplayDone(k[1], k[2])}
    BY DEF ReplayKeys
  <1> HIDE DEF X
  <1> QED
    BY <1>1, <1>3, <1>4, <1>5

LEMMA ReplayKeysStay ==
    ASSUME cfg' = cfg,
           \A x \in StepsOf : \A q \in PlansOf : ReplayDone(x, q)' <=> ReplayDone(x, q)
    PROVE  ReplayKeys' = ReplayKeys
  <1> DEFINE X == StepsOf \X PlansOf
  <1>1. \A k \in X : ReplayDone(k[1], k[2])' <=> ReplayDone(k[1], k[2])
    OBVIOUS
  <1> QED
    BY <1>1 DEF ReplayKeys, StepsOf, PlansOf

\* One more risk record, of a key that had none.
LEMMA RiskGrows ==
    ASSUME RiskInv, at # "failed", cfg' = cfg, NEW r \in RiskRecords,
           misses' = 0 => misses = 0, RiskTrue(r)',
           risk' = Append(risk, r), RiskKey(r) \notin RiskKeys,
           RiskKeys' = RiskKeys \cup {RiskKey(r)}
    PROVE  RiskInv'
  <1> DEFINE n == Len(risk)
  <1>1. risk \in Seq(RiskRecords) /\ n \in Nat /\ DOMAIN risk = 1 .. n
    BY LenProperties DEF RiskInv
  <1>2. /\ risk' \in Seq(RiskRecords) /\ DOMAIN risk' = 1 .. (n + 1)
        /\ \A i \in 1 .. n : risk'[i] = risk[i]
        /\ risk'[n + 1] = r
    <2>1. /\ risk' \in Seq(RiskRecords) /\ Len(risk') = n + 1
          /\ \A i \in 1 .. n : risk'[i] = risk[i]
          /\ risk'[n + 1] = r
      BY <1>1, AppendProperties
    <2> QED
      BY <2>1, LenProperties
  <1> HIDE DEF n
  <1>3. 1 .. (n + 1) = 1 .. n \cup {n + 1} /\ n + 1 \notin 1 .. n
    BY <1>1
  <1>4. Logged(RiskLog, RiskKeys)'
    <2> DEFINE g == [i \in DOMAIN risk' |-> RiskKey(risk'[i])]
    <2>1. RiskLog' = g
      BY DEF RiskLog, RiskKey
    <2>2. DOMAIN g = DOMAIN RiskLog \cup {n + 1} /\ n + 1 \notin DOMAIN RiskLog
      BY <1>1, <1>2, <1>3 DEF RiskLog
    <2>3. \A i \in DOMAIN RiskLog : g[i] = RiskLog[i]
      BY <1>1, <1>2, <1>3 DEF RiskLog
    <2>4. g[n + 1] = RiskKey(r)
      BY <1>2, <1>3
    <2>5. Logged(RiskLog, RiskKeys)
      BY DEF RiskInv
    <2> HIDE DEF g
    <2>6. Logged(g, RiskKeys \cup {g[n + 1]})
      BY <2>2, <2>3, <2>4, <2>5, LogGrows
    <2>7. Logged(g, RiskKeys')
      BY <2>4, <2>6
    <2> QED
      BY <2>1, <2>7 DEF Logged, OnceEach
  <1>5. RisksTrue'
    <2> SUFFICES ASSUME NEW i \in DOMAIN risk' PROVE RiskTrue(risk[i])'
      BY DEF RisksTrue
    <2>1. CASE i \in 1 .. n
      <3>1. RiskTrue(risk[i]) /\ risk'[i] = risk[i]
        BY <1>1, <1>2, <2>1 DEF RiskInv, RisksTrue
      <3> QED
        BY <3>1 DEF RiskTrue, Distance
    <2>2. CASE i = n + 1
      <3>1. risk'[i] = r
        BY <1>2, <2>2
      <3> QED
        BY <3>1 DEF RiskTrue, Distance
    <2> QED
      BY <1>2, <1>3, <2>1, <2>2
  <1> QED
    BY <1>2, <1>4, <1>5 DEF RiskInv

LEMMA RiskStays ==
    ASSUME RiskInv, at' # "failed" => at # "failed" /\ RiskKeys' = RiskKeys,
           cfg' = cfg, risk' = risk, misses' = 0 => misses = 0
    PROVE  RiskInv'
  <1>1. CASE at' = "failed"
    BY <1>1 DEF RiskInv
  <1>2. CASE at' # "failed"
    <2>1. RiskLog' = RiskLog
      BY DEF RiskLog
    <2>2. Logged(RiskLog, RiskKeys) /\ RisksTrue
      BY <1>2 DEF RiskInv
    <2>3. Logged(RiskLog, RiskKeys)'
      BY <1>2, <2>1, <2>2 DEF Logged, OnceEach
    <2>4. RisksTrue'
      BY <2>2 DEF RisksTrue, RiskTrue, Distance
    <2> QED
      BY <2>3, <2>4 DEF RiskInv
  <1> QED
    BY <1>1, <1>2

\* One more correctness record, of either kind.
LEMMA CheckAppended ==
    ASSUME CheckInv, at # "failed", cfg' = cfg, NEW r \in CheckRecords,
           correctness' = Append(correctness, r),
           misses' = 0 => misses = 0, CheckTrue(r)'
    PROVE  /\ correctness' \in Seq(CheckRecords) /\ ChecksTrue'
           /\ DOMAIN correctness' = DOMAIN correctness \cup {Len(correctness) + 1}
           /\ Len(correctness) + 1 \notin DOMAIN correctness
           /\ \A i \in DOMAIN correctness : correctness'[i] = correctness[i]
           /\ correctness'[Len(correctness) + 1] = r
  <1> DEFINE n == Len(correctness)
  <1>1. correctness \in Seq(CheckRecords) /\ n \in Nat /\ DOMAIN correctness = 1 .. n
    BY LenProperties DEF CheckInv
  <1>2. /\ correctness' \in Seq(CheckRecords) /\ DOMAIN correctness' = 1 .. (n + 1)
        /\ \A i \in 1 .. n : correctness'[i] = correctness[i]
        /\ correctness'[n + 1] = r
    <2>1. /\ correctness' \in Seq(CheckRecords) /\ Len(correctness') = n + 1
          /\ \A i \in 1 .. n : correctness'[i] = correctness[i]
          /\ correctness'[n + 1] = r
      BY <1>1, AppendProperties
    <2> QED
      BY <2>1, LenProperties
  <1> HIDE DEF n
  <1>3. 1 .. (n + 1) = 1 .. n \cup {n + 1} /\ n + 1 \notin 1 .. n
    BY <1>1
  <1>4. ChecksTrue'
    <2> SUFFICES ASSUME NEW i \in DOMAIN correctness'
                 PROVE  CheckTrue(correctness[i])'
      BY DEF ChecksTrue
    <2>1. CASE i \in 1 .. n
      <3>1. CheckTrue(correctness[i])
        BY <1>1, <2>1 DEF CheckInv, ChecksTrue
      <3> QED
        BY <1>2, <2>1, <3>1 DEF CheckTrue
    <2>2. CASE i = n + 1
      BY <1>2, <2>2 DEF CheckTrue
    <2> QED
      BY <1>2, <1>3, <2>1, <2>2
  <1> QED
    BY <1>1, <1>2, <1>3, <1>4 DEF n

LEMMA FreshCheckGrows ==
    ASSUME CheckInv, at # "failed", cfg' = cfg, NEW r \in CheckRecords,
           correctness' = Append(correctness, r), r.check = "fresh_split_equivalence",
           misses' = 0 => misses = 0, CheckTrue(r)',
           <<r.step, r.branch>> \notin FreshKeys,
           FreshKeys' = FreshKeys \cup {<<r.step, r.branch>>}, ReplayKeys' = ReplayKeys
    PROVE  CheckInv'
  <1> DEFINE m == Len(correctness) + 1
  <1>1. /\ correctness' \in Seq(CheckRecords) /\ ChecksTrue'
        /\ DOMAIN correctness' = DOMAIN correctness \cup {m}
        /\ m \notin DOMAIN correctness
        /\ \A i \in DOMAIN correctness : correctness'[i] = correctness[i]
        /\ correctness'[m] = r
    BY CheckAppended
  <1> HIDE DEF m
  <1>2. Correctness("replay_age_0")' = Correctness("replay_age_0")
    BY <1>1 DEF Correctness
  <1>3. Correctness("fresh_split_equivalence")' = Correctness("fresh_split_equivalence") \cup {m}
        /\ m \notin Correctness("fresh_split_equivalence")
    BY <1>1 DEF Correctness
  <1>4. \A c : Correctness(c) \subseteq DOMAIN correctness
    BY DEF Correctness
  <1>5. ReplayLog' = ReplayLog
    BY <1>1, <1>2, <1>4 DEF ReplayLog
  <1>6. Logged(FreshLog, FreshKeys)'
    <2> DEFINE g == FreshLog'
    <2>1. DOMAIN g = DOMAIN FreshLog \cup {m} /\ m \notin DOMAIN FreshLog
      BY <1>3 DEF FreshLog
    <2>2. \A i \in DOMAIN FreshLog : g[i] = FreshLog[i]
      BY <1>1, <1>3, <1>4 DEF FreshLog
    <2>3. g[m] = <<r.step, r.branch>>
      BY <1>1, <1>3 DEF FreshLog
    <2>4. Logged(FreshLog, FreshKeys)
      BY DEF CheckInv
    <2> HIDE DEF g
    <2>5. Logged(g, FreshKeys \cup {g[m]})
      BY <2>1, <2>2, <2>3, <2>4, LogGrows
    <2>6. Logged(g, FreshKeys')
      BY <2>3, <2>5
    <2> QED
      BY <2>6 DEF g, Logged, OnceEach
  <1>7. Logged(ReplayLog, ReplayKeys)'
    <2>1. Logged(ReplayLog, ReplayKeys)
      BY DEF CheckInv
    <2> QED
      BY <1>5, <2>1 DEF Logged, OnceEach
  <1> QED
    BY <1>1, <1>6, <1>7 DEF CheckInv

LEMMA ReplayCheckGrows ==
    ASSUME CheckInv, at # "failed", cfg' = cfg, NEW r \in CheckRecords,
           correctness' = Append(correctness, r), r.check = "replay_age_0",
           misses' = 0 => misses = 0, CheckTrue(r)',
           <<r.step, r.plan>> \notin ReplayKeys,
           ReplayKeys' = ReplayKeys \cup {<<r.step, r.plan>>}, FreshKeys' = FreshKeys
    PROVE  CheckInv'
  <1> DEFINE m == Len(correctness) + 1
  <1>1. /\ correctness' \in Seq(CheckRecords) /\ ChecksTrue'
        /\ DOMAIN correctness' = DOMAIN correctness \cup {m}
        /\ m \notin DOMAIN correctness
        /\ \A i \in DOMAIN correctness : correctness'[i] = correctness[i]
        /\ correctness'[m] = r
    BY CheckAppended
  <1> HIDE DEF m
  <1>2. Correctness("fresh_split_equivalence")' = Correctness("fresh_split_equivalence")
    BY <1>1 DEF Correctness
  <1>3. Correctness("replay_age_0")' = Correctness("replay_age_0") \cup {m}
        /\ m \notin Correctness("replay_age_0")
    BY <1>1 DEF Correctness
  <1>4. \A c : Correctness(c) \subseteq DOMAIN correctness
    BY DEF Correctness
  <1>5. FreshLog' = FreshLog
    BY <1>1, <1>2, <1>4 DEF FreshLog
  <1>6. Logged(ReplayLog, ReplayKeys)'
    <2> DEFINE g == ReplayLog'
    <2>1. DOMAIN g = DOMAIN ReplayLog \cup {m} /\ m \notin DOMAIN ReplayLog
      BY <1>3 DEF ReplayLog
    <2>2. \A i \in DOMAIN ReplayLog : g[i] = ReplayLog[i]
      BY <1>1, <1>3, <1>4 DEF ReplayLog
    <2>3. g[m] = <<r.step, r.plan>>
      BY <1>1, <1>3 DEF ReplayLog
    <2>4. Logged(ReplayLog, ReplayKeys)
      BY DEF CheckInv
    <2> HIDE DEF g
    <2>5. Logged(g, ReplayKeys \cup {g[m]})
      BY <2>1, <2>2, <2>3, <2>4, LogGrows
    <2>6. Logged(g, ReplayKeys')
      BY <2>3, <2>5
    <2> QED
      BY <2>6 DEF g, Logged, OnceEach
  <1>7. Logged(FreshLog, FreshKeys)'
    <2>1. Logged(FreshLog, FreshKeys)
      BY DEF CheckInv
    <2> QED
      BY <1>5, <2>1 DEF Logged, OnceEach
  <1> QED
    BY <1>1, <1>6, <1>7 DEF CheckInv

LEMMA ChecksStay ==
    ASSUME CheckInv, cfg' = cfg, correctness' = correctness, misses' = 0 => misses = 0,
           at' # "failed" => at # "failed" /\ FreshKeys' = FreshKeys /\ ReplayKeys' = ReplayKeys
    PROVE  CheckInv'
  <1>1. CASE at' = "failed"
    BY <1>1 DEF CheckInv
  <1>2. CASE at' # "failed"
    <2>1. FreshLog' = FreshLog /\ ReplayLog' = ReplayLog
      BY DEF FreshLog, ReplayLog, Correctness
    <2>2. Logged(FreshLog, FreshKeys) /\ Logged(ReplayLog, ReplayKeys) /\ ChecksTrue
      BY <1>2 DEF CheckInv
    <2>3. Logged(FreshLog, FreshKeys)' /\ Logged(ReplayLog, ReplayKeys)'
      BY <1>2, <2>1, <2>2 DEF Logged, OnceEach
    <2>4. ChecksTrue'
      BY <2>2 DEF ChecksTrue, CheckTrue
    <2> QED
      BY <2>3, <2>4 DEF CheckInv
  <1> QED
    BY <1>1, <1>2

\* A check that ended the sample leaves records nobody reads.
LEMMA FailedChecks ==
    ASSUME CheckInv, at' = "failed", NEW r \in CheckRecords,
           correctness' = correctness \/ correctness' = Append(correctness, r)
    PROVE  CheckInv'
  BY AppendProperties DEF CheckInv

-----------------------------------------------------------------------------
(* When a replacement is at hand *)

LEMMA AvailableWhen ==
    ASSUME IInv, HistoriesFull, NEW a \in Counterfactual
    PROVE  Available(a) <=> step >= UnavailableUntil(a)
  <1>1. step \in Nat
    BY ConfigFacts DEF IInv
  <1> SUFFICES ASSUME NEW b \in GuidedBranches
               PROVE  Replacement(b, a) # {} <=> step >= UnavailableUntil(a)
    BY DEF Available, GuidedBranches
  <1> DEFINE k == <<b, Plan>>
             h == history[k]
             n == Len(h)
             g == IF a = "reuse_age_1" THEN 1 ELSE 2
  <1>2. n = IF step < 3 THEN step ELSE 3
    BY PlanKey DEF IInv, HistoriesFull, MaxHistory
  <1>3. h \in Seq(Items(k))
    BY PlanKey DEF IInv, HistoryInv
  <1>4. DOMAIN h = 1 .. n
    <2> HIDE DEF h, k
    <2> QED
      BY <1>3, LenProperties
  <1>5. \A i \in 1 .. n : h[i].step = step - n + i - 1
    BY ItemsAreFresh
  <1>6. UnavailableUntil(a) = g
    BY DEF UnavailableUntil
  <1>7. Replacement(b, a) = IF a = "taylor_order_1"
                            THEN {Blend(pair[1].output, pair[2].output) : pair \in LatestTwo(h, step)}
                            ELSE {item.output : item \in SelectAge(h, step, g)}
    BY DEF Replacement
  <1> HIDE DEF h, n, k
  <1>8. n \in Nat /\ n <= step
    BY <1>1, <1>2
  <1>9. CASE a = "taylor_order_1"
    <2>1. Past(h, step) = 1 .. n
      <3>1. \A i \in 1 .. n : h[i].step < step
        BY <1>1, <1>5, <1>8
      <3> QED
        BY <1>4, <3>1 DEF Past
    <2>2. Replacement(b, a) # {} <=> LatestTwo(h, step) # {}
      BY <1>7, <1>9
    <2>3. LatestTwo(h, step) # {} <=>
            \E q \in (1 .. n) \X (1 .. n) : q[1] < q[2] /\ \A i \in 1 .. n : i <= q[1] \/ i = q[2]
      BY <2>1 DEF LatestTwo
    <2>4. CASE step >= 2
      <3>1. n - 1 \in 1 .. n /\ n \in 1 .. n /\ n - 1 < n
        BY <1>1, <1>2, <2>4
      <3>2. \A i \in 1 .. n : i <= n - 1 \/ i = n
        BY <1>8
      <3> DEFINE q == <<n - 1, n>>
      <3>3. q \in (1 .. n) \X (1 .. n) /\ q[1] = n - 1 /\ q[2] = n
        BY <3>1
      <3> HIDE DEF q
      <3>4. LatestTwo(h, step) # {}
        BY <2>3, <3>1, <3>2, <3>3
      <3> QED
        BY <1>6, <1>9, <2>2, <2>4, <3>4
    <2>5. CASE ~(step >= 2)
      <3>1. n <= 1
        BY <1>1, <1>2, <2>5
      <3>2. ~\E q \in (1 .. n) \X (1 .. n) : q[1] < q[2]
        BY <1>8, <3>1
      <3> QED
        BY <1>6, <1>9, <2>2, <2>3, <2>5, <3>2
    <2> QED
      BY <2>4, <2>5
  <1>10. CASE a # "taylor_order_1"
    <2>1. Replacement(b, a) # {} <=> \E i \in 1 .. n : h[i].step = step - g
      BY <1>4, <1>7, <1>10 DEF SelectAge
    <2>2. (\E i \in 1 .. n : h[i].step = step - g) <=> \E i \in 1 .. n : i = n + 1 - g
      BY <1>1, <1>5, <1>8
    <2>3. g \in {1, 2}
      OBVIOUS
    <2> HIDE DEF g
    <2>4. (\E i \in 1 .. n : i = n + 1 - g) <=> n >= g
      BY <1>8, <2>3
    <2>5. n >= g <=> step >= g
      BY <1>1, <1>2, <2>3
    <2> QED
      BY <1>6, <2>1, <2>2, <2>4, <2>5
  <1> QED
    BY <1>9, <1>10

\* Histories fill up to their limit and stay there.
LEMMA HistoriesFill ==
    ASSUME IInv, HistoriesFull, AppendHistory
    PROVE  HistoriesFull'
  <1>1. step \in Nat /\ cfg' = cfg /\ step' = step + 1
        /\ history' = [k \in Keys |-> Appended(history[k], Item(step, fresh[k]))]
    BY ConfigFacts DEF IInv, AppendHistory
  <1>2. Keys' = Keys
    BY <1>1 DEF Keys
  <1> SUFFICES ASSUME NEW k \in Keys
               PROVE  Len(history'[k]) = IF step + 1 < 3 THEN step + 1 ELSE 3
    BY <1>1, <1>2 DEF HistoriesFull, MaxHistory
  <1> DEFINE h == history[k]
             e == Item(step, fresh[k])
             all == Append(h, e)
  <1>3. Len(h) = IF step < 3 THEN step ELSE 3
    BY DEF HistoriesFull, MaxHistory
  <1>4. h \in Seq(Items(k))
    BY DEF IInv, HistoryInv
  <1>5. history'[k] = IF Len(all) > 3 THEN Tail(all) ELSE all
    BY <1>1 DEF Appended, MaxHistory
  <1> HIDE DEF h, e
  <1>6. all \in Seq(Items(k) \cup {e}) /\ Len(all) = Len(h) + 1 /\ all # <<>>
    <2>1. h \in Seq(Items(k) \cup {e})
      <3>1. Len(h) \in Nat /\ DOMAIN h = 1 .. Len(h) /\ h \in [1 .. Len(h) -> Items(k)]
        BY <1>4, LenProperties
      <3>2. h \in [1 .. Len(h) -> Items(k) \cup {e}]
        BY <3>1
      <3> QED
        BY <3>1, <3>2
    <2> QED
      BY <2>1, AppendProperties
  <1>7. Len(all) \in Nat
    BY <1>1, <1>3, <1>6
  <1>8. CASE Len(all) > 3
    <2>1. Len(Tail(all)) = Len(all) - 1
      BY <1>6, HeadTailProperties
    <2>2. step >= 3 /\ Len(all) = 4
      BY <1>1, <1>3, <1>6, <1>8
    <2>3. Len(history'[k]) = 3
      BY <1>5, <1>8, <2>1, <2>2
    <2>4. step \in Nat /\ ~(step + 1 < 3)
      BY <1>1, <2>2
    <2> QED
      BY <2>3, <2>4
  <1>9. CASE ~(Len(all) > 3)
    <2>1. Len(history'[k]) = Len(h) + 1
      BY <1>5, <1>6, <1>9
    <2>2. step < 3 /\ Len(h) = step
      BY <1>1, <1>3, <1>6, <1>9
    <2> QED
      BY <1>1, <2>1, <2>2
  <1> QED
    BY <1>8, <1>9

-----------------------------------------------------------------------------
(* The steps *)

LInv == IInv /\ LogInv

LEMMA NothingReplayed ==
    ASSUME at \in {"capture", "cond", "uncond", "done"} \/ (at = "replay" /\ plan = 1), NEW p
    PROVE  ~ReplayedHere(p)
  BY DEF ReplayedHere, Before

LEMMA NothingReplayedNext ==
    ASSUME at' \in {"capture", "cond", "uncond", "done"} \/ (at' = "replay" /\ plan' = 1), NEW p
    PROVE  ~ReplayedHere(p)'
  BY DEF ReplayedHere, Before

LEMMA StepFacts ==
    ASSUME LInv
    PROVE  /\ TypeOK /\ step \in Nat /\ cfg.steps \in Nat
           /\ \A x \in StepsOf : x \in Nat /\ x < cfg.steps
           /\ plan \in Nat /\ Plan \in PlansOf /\ Plan # "fresh" /\ Plan \in PlanNames
           /\ ~Before(Plan)
  <1>1. TypeOK
    BY DEF LInv, IInv
  <1>2. step \in Nat /\ cfg.steps \in Nat /\ Plan \in PlansOf /\ Plan \in PlanNames
    BY <1>1, ConfigFacts DEF PlansOf
  <1>3. Plan # "fresh"
    BY <1>1, <1>2, ListFacts
  <1>4. plan \in 1 .. Len(cfg.plans) /\ Len(cfg.plans) \in Nat
    BY <1>1, ConfigFacts DEF TypeOK
  <1>5. ~Before(Plan)
    <2> SUFFICES ASSUME NEW k \in 1 .. (plan - 1), cfg.plans[k] = cfg.plans[plan]
                 PROVE  FALSE
      BY DEF Before, Plan
    <2>1. k \in 1 .. Len(cfg.plans) /\ k # plan
      BY <1>4
    <2> QED
      BY <1>1, <1>4, <2>1, ListFacts
  <1>6. \A x \in StepsOf : x \in Nat /\ x < cfg.steps
    BY <1>2 DEF StepsOf
  <1> QED
    BY <1>1, <1>2, <1>3, <1>4, <1>5, <1>6

LEMMA MissesNat == ASSUME LInv PROVE misses \in Nat
  BY MissesAssumption DEF LInv, IInv, TypeOK

LEMMA CaptureFailsLog ==
    ASSUME LInv, CaptureStep, at' = "failed"
    PROVE  LogInv'
  <1>1. /\ at = "capture" /\ cfg' = cfg /\ step' = step /\ history' = history
        /\ risk' = risk /\ correctness' = correctness /\ misses' = misses + 1
    BY DEF CaptureStep
  <1>2. misses' = 0 => misses = 0
    BY <1>1, MissesNat
  <1>3. PlaceInv'
    BY <1>1 DEF LInv, LogInv, PlaceInv, HistoriesFull, Keys, GuidedBranches
  <1>4. RiskInv' /\ CheckInv'
    BY <1>1, <1>2, RiskStays, ChecksStay DEF LInv, LogInv
  <1> QED
    BY <1>3, <1>4 DEF LogInv

LEMMA CaptureStepLog == ASSUME LInv, CaptureStep, at' # "failed" PROVE LogInv'
  <1>1. /\ at = "capture" /\ step < cfg.steps /\ plan' = 1
        /\ risk' = Append(risk, RiskRecord("fresh", "fresh", None, TRUE, "zero", "same"))
        /\ at' = IF step \in cfg.equivalence THEN "cond" ELSE "replay"
        /\ cfg' = cfg /\ step' = step /\ history' = history /\ correctness' = correctness
        /\ misses' = misses
    BY DEF CaptureStep
  <1>2. step \in StepsOf /\ step \in Nat
    BY <1>1, StepFacts DEF StepsOf
  <1>3. at' \in {"cond", "replay"} /\ at' # "done" /\ at' # "failed"
    BY <1>1
  <1>4. \A p : ~ReplayedHere(p) /\ ~ReplayedHere(p)'
    BY <1>1, <1>3, NothingReplayed, NothingReplayedNext
  <1>5. PlaceInv'
    <2>1. HistoriesFull'
      BY <1>1 DEF LInv, LogInv, PlaceInv, HistoriesFull, Keys
    <2>2. at' \in GuidedBranches => plan' = 1 /\ step' \in cfg'.equivalence
      BY <1>1 DEF GuidedBranches
    <2> QED
      BY <1>3, <2>1, <2>2 DEF PlaceInv
  <1>6. RiskInv'
    <2>0. PICK r : r = RiskRecord("fresh", "fresh", None, TRUE, "zero", "same")
      OBVIOUS
    <2>1. /\ r.step = step /\ r.plan = "fresh" /\ r.action = "fresh"
          /\ r.risk = "zero" /\ r.form = "same"
      BY <2>0 DEF RiskRecord
    <2>2. r \in RiskRecords
      BY <1>2, <2>0 DEF RiskRecord, RiskRecords, DefaultActions
    <2>3. risk' = Append(risk, r)
      BY <1>1, <2>0
    <2>4. RiskTrue(r)'
      BY <2>1 DEF RiskTrue, Counterfactual
    <2>5. RiskKey(r) = <<step, "fresh", "fresh">>
      BY <2>1 DEF RiskKey
    <2>6. "fresh" \in RiskPlans /\ "fresh" \in Values(cfg.actions)
      BY StepFacts, ListFacts DEF RiskPlans
    <2>7. RiskKeys' = RiskKeys \cup {<<step, "fresh", "fresh">>}
      <3>1. ASSUME NEW x \in StepsOf, NEW q \in RiskPlans, NEW b \in Values(cfg.actions)
            PROVE  RiskDone(x, q, b)' <=>
                     RiskDone(x, q, b) \/ (x = step /\ q = "fresh" /\ b = "fresh")
        BY <1>1, <1>2, <1>3, <1>4 DEF RiskDone, TriedHere, Working
      <3> QED
        BY <1>1, <1>2, <2>6, <3>1, RiskKeysGrow
    <2>8. <<step, "fresh", "fresh">> \notin RiskKeys
      BY <1>1, <1>2 DEF RiskKeys, RiskDone, Working
    <2> QED
      BY <1>1, <2>2, <2>3, <2>4, <2>5, <2>7, <2>8, RiskGrows DEF LInv, LogInv
  <1>7. CheckInv'
    <2>1. FreshKeys' = FreshKeys
      <3>1. ASSUME NEW x \in cfg.equivalence, NEW c \in GuidedBranches
            PROVE  FreshDone(x, c)' <=> FreshDone(x, c)
        BY <1>1, <1>2 DEF FreshDone, InStep
      <3> QED
        BY <1>1, <3>1, FreshKeysStay
    <2>2. ReplayKeys' = ReplayKeys
      <3>1. \A x \in StepsOf : \A q \in PlansOf : ReplayDone(x, q)' <=> ReplayDone(x, q)
        BY <1>1, <1>4 DEF ReplayDone
      <3> QED
        BY <1>1, <3>1, ReplayKeysStay
    <2> QED
      BY <1>1, <2>1, <2>2, ChecksStay DEF LInv, LogInv
  <1> QED
    BY <1>5, <1>6, <1>7 DEF LogInv

LEMMA OutcomeFacts ==
    ASSUME NEW o \in Outcomes, Missed(o), misses \in Nat
    PROVE  /\ o.allclose \in BOOLEAN /\ o.within \in BOOLEAN
           /\ o.form \in {"same", "shape", "dtype"} /\ o.finite \in BOOLEAN
           /\ o.form = "shape" => o.allclose = FALSE
           /\ misses' = 0 => misses = 0 /\ o.allclose = TRUE /\ o.within = TRUE
  <1>1. o \in Measurable
    <2>1. Close \in Measurable
      BY DEF Outcome, Measurable, Close
    <2> QED
      BY <2>1 DEF Outcomes
  <1>2. /\ o.allclose \in BOOLEAN /\ o.within \in BOOLEAN
        /\ o.form \in {"same", "shape", "dtype"} /\ o.finite \in BOOLEAN
        /\ o.form = "shape" => o.allclose = FALSE
    BY <1>1 DEF Outcome, Measurable
  <1>3. CASE o = Close
    BY <1>2, <1>3 DEF Missed, Close
  <1>4. CASE o # Close
    <2>1. misses' = misses + 1
      BY <1>4 DEF Missed
    <2> QED
      BY <1>2, <2>1
  <1> QED
    BY <1>3, <1>4

LEMMA CheckEquivalenceLog == ASSUME LInv, CheckEquivalence PROVE LogInv'
  <1>1. PICK o \in Outcomes :
          /\ correctness' = IF MetricsRaise(o) THEN correctness
                            ELSE Append(correctness,
                                        CorrectnessRecord("fresh_split_equivalence", at, None, o))
          /\ at' = IF MetricsRaise(o) \/ (cfg.strict /\ ~o.allclose) THEN "failed"
                   ELSE IF at = "cond" THEN "uncond" ELSE "replay"
          /\ Missed(o)
    BY DEF CheckEquivalence, Checked
  <1>2. /\ at \in GuidedBranches /\ cfg' = cfg /\ step' = step /\ plan' = plan
        /\ history' = history /\ risk' = risk /\ at # "failed" /\ at # "done"
    BY DEF CheckEquivalence, GuidedBranches
  <1>3. plan = 1 /\ step \in cfg.equivalence /\ HistoriesFull
    BY <1>2 DEF LInv, LogInv, PlaceInv
  <1>4. step \in Nat /\ step \in StepsOf
    BY <1>3, StepFacts, ListFacts
  <1>5. at' \in {"failed", "uncond", "replay"} /\ at' # "done"
    BY <1>1
  <1>6. PlaceInv'
    <2>1. HistoriesFull'
      BY <1>2, <1>3 DEF HistoriesFull, Keys
    <2> QED
      BY <1>2, <1>3, <1>5, <2>1 DEF PlaceInv
  <1>7. at' # "failed" => \A p : ~ReplayedHere(p) /\ ~ReplayedHere(p)'
    <2>1. at \in {"cond", "uncond"}
      BY <1>2 DEF GuidedBranches
    <2> QED
      BY <1>2, <1>3, <1>5, <2>1, NothingReplayed, NothingReplayedNext
  <1>8. RiskInv'
    <2>1. ASSUME at' # "failed" PROVE RiskKeys' = RiskKeys
      <3>1. ASSUME NEW x \in StepsOf, NEW q \in RiskPlans, NEW b \in Values(cfg.actions)
            PROVE  RiskDone(x, q, b)' <=> RiskDone(x, q, b)
        <4>1. at \in Working /\ at' \in Working
          BY <1>2, <1>5, <2>1 DEF GuidedBranches, Working
        <4> QED
          BY <1>2, <1>7, <2>1, <4>1 DEF RiskDone, TriedHere
      <3> QED
        BY <1>2, <3>1, RiskKeysStay
    <2>2. misses' = 0 => misses = 0
      BY <1>1, MissesNat, OutcomeFacts
    <2> QED
      BY <1>2, <2>1, <2>2, RiskStays DEF LInv, LogInv
  <1>0. PICK r : r = CorrectnessRecord("fresh_split_equivalence", at, None, o)
    OBVIOUS
  <1>9. /\ o.allclose \in BOOLEAN /\ o.within \in BOOLEAN
        /\ o.form \in {"same", "shape", "dtype"} /\ o.finite \in BOOLEAN
        /\ o.form = "shape" => o.allclose = FALSE
        /\ misses' = 0 => misses = 0 /\ o.allclose = TRUE /\ o.within = TRUE
    BY <1>1, MissesNat, OutcomeFacts
  <1>10. r \in CheckRecords
    BY <1>0, <1>2, <1>4, <1>9 DEF CorrectnessRecord, CheckRecords
  <1>11. /\ r.check = "fresh_split_equivalence" /\ r.step = step /\ r.branch = at
         /\ r.allclose = o.allclose /\ r.within = o.within
         /\ r.form = o.form /\ r.finite = o.finite
    BY <1>0 DEF CorrectnessRecord
  <1>12. correctness' = IF MetricsRaise(o) THEN correctness ELSE Append(correctness, r)
    BY <1>0, <1>1
  <1>13. CASE at' = "failed"
    <2>1. CheckInv'
      BY <1>10, <1>12, <1>13, FailedChecks DEF LInv, LogInv
    <2> QED
      BY <1>6, <1>8, <2>1 DEF LogInv
  <1>14. CASE at' # "failed"
    <2>0. ~MetricsRaise(o) /\ correctness' = Append(correctness, r)
      BY <1>1, <1>12, <1>14
    <2>1. cfg.strict => o.allclose
      BY <1>1, <1>14
    <2>2. (misses' = 0 => r.allclose /\ r.within) /\ (cfg.strict => r.allclose)
          /\ r.finite /\ (r.form # "same" => ~r.allclose)
      BY <1>9, <1>11, <2>0, <2>1 DEF MetricsRaise
    <2>3. CheckTrue(r)'
      BY <1>2, <1>11, <2>2 DEF CheckTrue
    <2>4. at \in {"cond", "uncond"} /\ at' = IF at = "cond" THEN "uncond" ELSE "replay"
      BY <1>1, <1>2, <1>14 DEF GuidedBranches
    <2>5. FreshKeys' = FreshKeys \cup {<<step, at>>}
      <3>1. PICK v : v = at
        OBVIOUS
      <3>2. ASSUME NEW x \in cfg.equivalence, NEW c \in GuidedBranches
            PROVE  FreshDone(x, c)' <=> FreshDone(x, c) \/ (x = step /\ c = v)
        <4>1. c \in {"cond", "uncond"}
          BY DEF GuidedBranches
        <4>2. CASE at = "cond"
          BY <1>2, <2>4, <3>1, <4>1, <4>2 DEF FreshDone, InStep
        <4>3. CASE at = "uncond"
          BY <1>2, <2>4, <3>1, <4>1, <4>3 DEF FreshDone, InStep
        <4> QED
          BY <2>4, <4>2, <4>3
      <3>3. v \in GuidedBranches
        BY <1>2, <3>1
      <3>4. FreshKeys' = FreshKeys \cup {<<step, v>>}
        BY <1>2, <1>3, <3>2, <3>3, FreshKeysGrow
      <3> QED
        BY <3>1, <3>4
    <2>6. <<step, at>> \notin FreshKeys
      BY <1>4, <2>4 DEF FreshKeys, FreshDone, InStep
    <2>7. ReplayKeys' = ReplayKeys
      <3>1. \A x \in StepsOf : \A q \in PlansOf : ReplayDone(x, q)' <=> ReplayDone(x, q)
        BY <1>2, <1>7, <1>14 DEF ReplayDone
      <3> QED
        BY <1>2, <3>1, ReplayKeysStay
    <2>8. CheckInv'
      <3>1. CheckInv
        BY DEF LInv, LogInv
      <3>2. <<r.step, r.branch>> \notin FreshKeys
            /\ FreshKeys' = FreshKeys \cup {<<r.step, r.branch>>}
        BY <1>11, <2>5, <2>6
      <3>3. misses' = 0 => misses = 0
        BY <1>9
      <3> QED
        BY <1>2, <1>10, <1>11, <2>0, <2>3, <2>7, <3>1, <3>2, <3>3, FreshCheckGrows
    <2> QED
      BY <1>6, <1>8, <2>8 DEF LogInv
  <1> QED
    BY <1>13, <1>14

LEMMA ReplayStepLog == ASSUME LInv, Replay PROVE LogInv'
  <1>1. PICK o \in Outcomes :
          /\ o.form = "same"
          /\ correctness' = IF MetricsRaise(o) THEN correctness
                            ELSE Append(correctness,
                                        CorrectnessRecord("replay_age_0", "cfg", Plan, o))
          /\ Missed(o)
          /\ at' = IF MetricsRaise(o) \/ (cfg.strict /\ ~o.allclose) THEN "failed" ELSE "action"
          /\ risk' = IF at' = "failed" THEN risk
                     ELSE Append(risk, RiskRecord(Plan, "replay_age_0", 0, TRUE,
                                                  IF o = Close THEN "zero" ELSE "positive", o.form))
    BY FormStays DEF Replay, Checked
  <1>2. /\ at = "replay" /\ action' = 0 /\ cfg' = cfg /\ step' = step /\ plan' = plan
        /\ history' = history
    BY DEF Replay
  <1>3. HistoriesFull /\ CheckInv /\ RiskInv
    BY <1>2 DEF LInv, LogInv, PlaceInv
  <1>4. step \in Nat /\ step \in StepsOf
    <2>1. step < cfg.steps
      BY <1>2 DEF LInv, IInv, FreshInv, Working
    <2> QED
      BY <2>1, StepFacts DEF StepsOf
  <1>5. PlaceInv'
    <2>1. HistoriesFull'
      BY <1>2, <1>3 DEF HistoriesFull, Keys
    <2>2. at' # "done" /\ at' \notin GuidedBranches
      BY <1>1 DEF GuidedBranches
    <2> QED
      BY <2>1, <2>2 DEF PlaceInv
  <1>6. PICK r : r = CorrectnessRecord("replay_age_0", "cfg", Plan, o)
    OBVIOUS
  <1>7. /\ o.allclose \in BOOLEAN /\ o.within \in BOOLEAN
        /\ o.form \in {"same", "shape", "dtype"} /\ o.finite \in BOOLEAN
        /\ o.form = "shape" => o.allclose = FALSE
        /\ misses' = 0 => misses = 0 /\ o.allclose = TRUE /\ o.within = TRUE
    BY <1>1, MissesNat, OutcomeFacts
  <1>8. r \in CheckRecords
    BY <1>4, <1>6, <1>7, StepFacts DEF CorrectnessRecord, CheckRecords
  <1>9. /\ r.check = "replay_age_0" /\ r.step = step /\ r.plan = Plan
        /\ r.allclose = o.allclose /\ r.within = o.within
        /\ r.form = "same" /\ r.finite = o.finite
    BY <1>1, <1>6 DEF CorrectnessRecord
  <1>10. correctness' = IF MetricsRaise(o) THEN correctness ELSE Append(correctness, r)
    BY <1>1, <1>6
  <1>11. CASE at' = "failed"
    <2>1. CheckInv'
      BY <1>3, <1>8, <1>10, <1>11, FailedChecks
    <2>2. RiskInv'
      BY <1>1, <1>2, <1>3, <1>7, <1>11, RiskStays
    <2> QED
      BY <1>5, <2>1, <2>2 DEF LogInv
  <1>12. CASE at' # "failed"
    <2> DEFINE w == IF o = Close THEN "zero" ELSE "positive"
    <2>1. /\ at' = "action" /\ ~MetricsRaise(o) /\ ~(cfg.strict /\ ~o.allclose)
          /\ risk' = Append(risk, RiskRecord(Plan, "replay_age_0", 0, TRUE, w, "same"))
          /\ correctness' = Append(correctness, r)
      BY <1>1, <1>10, <1>12
    <2>2. CheckTrue(r)'
      <3>1. (misses' = 0 => r.allclose /\ r.within) /\ (cfg.strict => r.allclose) /\ r.finite
        BY <1>7, <1>9, <2>1 DEF MetricsRaise
      <3> QED
        BY <1>2, <1>9, <3>1 DEF CheckTrue
    <2>3. PICK v : v = Plan
      OBVIOUS
    <2>4. v \in PlansOf /\ v # "fresh" /\ ~Before(v) /\ Plan' = v
      BY <1>2, <2>3, StepFacts DEF Plan
    <2>5. \A q : Before(q)' <=> Before(q)
      BY <1>2 DEF Before
    <2>6. \A q : /\ ReplayedHere(q) <=> Before(q)
                 /\ ReplayedHere(q)' <=> Before(q) \/ q = v
      BY <1>2, <2>1, <2>4, <2>5 DEF ReplayedHere
    <2>7. \A q, b : /\ TriedHere(q, b) <=> Before(q)
                    /\ TriedHere(q, b)' <=> Before(q) \/ (q = v /\ b = "replay_age_0")
      <3> TAKE q, b
      <3>1. TriedHere(q, b) <=> Before(q)
        BY <1>2, <2>6 DEF TriedHere
      <3>2. TriedHere(q, b)' <=> (Before(q) \/ q = v) /\ (q = v => b = "replay_age_0")
        <4>1. ~\E j \in 1 .. action' : cfg'.actions[j] = b
          BY <1>2
        <4> QED
          BY <2>1, <2>4, <2>6, <4>1 DEF TriedHere
      <3> QED
        BY <2>4, <3>1, <3>2
    <2>8. FreshKeys' = FreshKeys
      <3>1. \A x \in cfg.equivalence : \A c \in GuidedBranches : FreshDone(x, c)' <=> FreshDone(x, c)
        BY <1>2, <2>1 DEF FreshDone, InStep
      <3> QED
        BY <1>2, <3>1, FreshKeysStay
    <2>9. ReplayKeys' = ReplayKeys \cup {<<step, v>>} /\ <<step, v>> \notin ReplayKeys
      <3>1. ASSUME NEW x \in StepsOf, NEW q \in PlansOf
            PROVE  ReplayDone(x, q)' <=> ReplayDone(x, q) \/ (x = step /\ q = v)
        BY <1>2, <2>6 DEF ReplayDone
      <3>2. <<step, v>> \notin ReplayKeys
        BY <1>4, <2>4, <2>6 DEF ReplayKeys, ReplayDone
      <3> QED
        BY <1>2, <1>4, <2>4, <3>1, <3>2, ReplayKeysGrow
    <2>10. CheckInv'
      <3>1. <<r.step, r.plan>> \notin ReplayKeys
            /\ ReplayKeys' = ReplayKeys \cup {<<r.step, r.plan>>}
        BY <1>9, <2>3, <2>9
      <3>2. misses' = 0 => misses = 0
        BY <1>7
      <3> QED
        BY <1>2, <1>3, <1>8, <1>9, <2>1, <2>2, <2>8, <3>1, <3>2, ReplayCheckGrows
    <2>11. RiskInv'
      <3>1. PICK z : z = RiskRecord(Plan, "replay_age_0", 0, TRUE, w, "same")
        OBVIOUS
      <3>2. z.step = step /\ z.plan = v /\ z.action = "replay_age_0" /\ z.form = "same"
        BY <2>3, <3>1 DEF RiskRecord
      <3>3. z \in RiskRecords
        BY <1>4, <3>1, StepFacts DEF RiskRecord, RiskRecords, DefaultActions
      <3>4. RiskTrue(z)'
        BY <3>2 DEF RiskTrue, Counterfactual
      <3>5. RiskKey(z) = <<step, v, "replay_age_0">>
        BY <3>2 DEF RiskKey
      <3>6. v \in RiskPlans /\ "replay_age_0" \in Values(cfg.actions)
        BY <2>4, StepFacts, ListFacts DEF RiskPlans
      <3>7. RiskKeys' = RiskKeys \cup {<<step, v, "replay_age_0">>}
        <4>1. ASSUME NEW x \in StepsOf, NEW q \in RiskPlans, NEW b \in Values(cfg.actions)
              PROVE  RiskDone(x, q, b)' <=>
                       RiskDone(x, q, b) \/ (x = step /\ q = v /\ b = "replay_age_0")
          <5>1. at \in Working /\ at' \in Working
            BY <1>2, <2>1 DEF Working
          <5> QED
            BY <1>2, <2>4, <2>7, <5>1 DEF RiskDone
        <4> QED
          BY <1>2, <1>4, <3>6, <4>1, RiskKeysGrow
      <3>8. <<step, v, "replay_age_0">> \notin RiskKeys
        BY <1>4, <2>4, <2>7 DEF RiskKeys, RiskDone
      <3> QED
        BY <1>2, <1>3, <1>7, <2>1, <3>1, <3>3, <3>4, <3>5, <3>7, <3>8, RiskGrows
    <2> QED
      BY <1>5, <2>10, <2>11 DEF LogInv
  <1> QED
    BY <1>11, <1>12

\* One of the counterfactual actions, available or not.
LEMMA TriedLog ==
    ASSUME LInv, NEW j \in Due, NEW r \in RiskRecords, RiskTrue(r)',
           risk' = Append(risk, r), RiskKey(r) = <<step, Plan, cfg.actions[j]>>,
           action' = j,
           cfg' = cfg, at' = at, step' = step, plan' = plan, history' = history,
           correctness' = correctness, leftover' = leftover, misses' = 0 => misses = 0
    PROVE  LogInv'
  <1>1. /\ at = "action" /\ j \in DOMAIN cfg.actions /\ j > action
        /\ cfg.actions[j] \in Counterfactual
        /\ \A k \in DOMAIN cfg.actions : k > action /\ cfg.actions[k] \in Counterfactual => j <= k
    BY DEF Due, Left
  <1>2. step \in Nat /\ step \in StepsOf
    <2>1. step < cfg.steps
      BY <1>1 DEF LInv, IInv, FreshInv, Working
    <2> QED
      BY <2>1, StepFacts DEF StepsOf
  <1>3. PlaceInv'
    <2>1. HistoriesFull /\ at # "done" /\ at \notin GuidedBranches
      BY <1>1 DEF LInv, LogInv, PlaceInv, GuidedBranches
    <2>2. HistoriesFull'
      BY <2>1 DEF HistoriesFull, Keys
    <2> QED
      BY <2>1, <2>2 DEF PlaceInv
  <1>4. CheckInv'
    <2>1. FreshKeys' = FreshKeys
      BY FreshKeysStay DEF FreshDone
    <2>2. ReplayKeys' = ReplayKeys
      BY ReplayKeysStay DEF ReplayDone, ReplayedHere, Before, Plan
    <2> QED
      BY <1>1, <2>1, <2>2, ChecksStay DEF LInv, LogInv
  <1>5. PICK v : v = Plan
    OBVIOUS
  <1>6. PICK a : a = cfg.actions[j]
    OBVIOUS
  <1>7. /\ v \in PlansOf /\ v # "fresh" /\ Plan' = v /\ ~Before(v)
        /\ a \in Values(cfg.actions) /\ a # "fresh" /\ a # "replay_age_0"
    BY <1>1, <1>5, <1>6, StepFacts DEF Plan, Values, Counterfactual
  <1>8. /\ action \in Nat /\ Len(cfg.actions) \in Nat /\ DOMAIN cfg.actions = 1 .. Len(cfg.actions)
        /\ \A i, k \in 1 .. Len(cfg.actions) : cfg.actions[i] = cfg.actions[k] => i = k
        /\ \A i \in 1 .. Len(cfg.actions) : cfg.actions[i] \in DefaultActions
    BY StepFacts, ListFacts DEF TypeOK
  <1>9. ~\E i \in 1 .. action : cfg.actions[i] = a
    BY <1>1, <1>6, <1>8
  <1>10. ASSUME NEW b \in Values(cfg.actions), b # "fresh"
         PROVE  b = "replay_age_0" \/ (\E i \in 1 .. j : cfg.actions[i] = b)
                 <=> b = "replay_age_0" \/ (\E i \in 1 .. action : cfg.actions[i] = b) \/ b = a
    <2>1. PICK m \in DOMAIN cfg.actions : cfg.actions[m] = b
      BY DEF Values
    <2>2. CASE b \in Counterfactual
      <3>1. m > action => j <= m
        BY <1>1, <2>1, <2>2
      <3>2. \A i \in DOMAIN cfg.actions : cfg.actions[i] = b => i = m
        BY <1>8, <2>1
      <3>3. 1 .. j \subseteq DOMAIN cfg.actions /\ 1 .. action \subseteq 1 .. j /\ m \in Nat /\ j \in Nat
        BY <1>1, <1>8, <2>1
      <3>4. (\E i \in 1 .. j : cfg.actions[i] = b) <=> m \in 1 .. j
        BY <2>1, <3>2, <3>3
      <3>5. (\E i \in 1 .. action : cfg.actions[i] = b) <=> m \in 1 .. action
        BY <2>1, <3>2, <3>3
      <3>6. b = a <=> m = j
        BY <1>1, <1>6, <2>1, <3>2
      <3>7. m \in 1 .. j <=> m \in 1 .. action \/ m = j
        BY <1>1, <1>8, <2>1, <3>1, <3>3
      <3> QED
        BY <3>4, <3>5, <3>6, <3>7
    <2>3. CASE b \notin Counterfactual
      <3>1. b = "replay_age_0"
        BY <1>8, <1>10, <2>1, <2>3 DEF DefaultActions
      <3> QED
        BY <3>1
    <2> QED
      BY <2>2, <2>3
  <1>11. \A q : Before(q)' <=> Before(q)
    BY DEF Before
  <1>12. \A q : ReplayedHere(q) <=> Before(q) \/ q = v
    BY <1>1, <1>5 DEF ReplayedHere
  <1>13. \A q : ReplayedHere(q)' <=> Before(q) \/ q = v
    BY <1>1, <1>7, <1>11 DEF ReplayedHere
  <1>14. ASSUME NEW q, NEW b \in Values(cfg.actions), b # "fresh"
         PROVE  TriedHere(q, b)' <=> TriedHere(q, b) \/ (q = v /\ b = a)
    <2>1. TriedHere(q, b) <=>
            /\ Before(q) \/ q = v
            /\ q = v => b = "replay_age_0" \/ \E i \in 1 .. action : cfg.actions[i] = b
      BY <1>1, <1>5, <1>12 DEF TriedHere
    <2>2. TriedHere(q, b)' <=>
            /\ Before(q) \/ q = v
            /\ q = v => b = "replay_age_0" \/ \E i \in 1 .. j : cfg.actions[i] = b
      BY <1>1, <1>7, <1>13 DEF TriedHere
    <2> QED
      BY <1>10, <1>14, <2>1, <2>2
  <1>15. RiskKeys' = RiskKeys \cup {<<step, v, a>>}
    <2>1. v \in RiskPlans
      BY <1>7 DEF RiskPlans
    <2>2. ASSUME NEW x \in StepsOf, NEW q \in RiskPlans, NEW b \in Values(cfg.actions)
          PROVE  RiskDone(x, q, b)' <=> RiskDone(x, q, b) \/ (x = step /\ q = v /\ b = a)
      <3>1. CASE b = "fresh"
        BY <1>7, <3>1 DEF RiskDone
      <3>2. CASE b # "fresh"
        BY <1>7, <1>14, <3>2 DEF RiskDone
      <3> QED
        BY <3>1, <3>2
    <2> QED
      BY <1>2, <1>7, <2>1, <2>2, RiskKeysGrow
  <1>16. <<step, v, a>> \notin RiskKeys
    <2>1. ~TriedHere(v, a)
      BY <1>1, <1>5, <1>7, <1>9 DEF TriedHere
    <2> QED
      BY <1>2, <1>7, <2>1 DEF RiskKeys, RiskDone
  <1>17. RiskInv'
    BY <1>1, <1>5, <1>6, <1>15, <1>16, RiskGrows DEF LInv, LogInv
  <1> QED
    BY <1>3, <1>4, <1>17 DEF LogInv

LEMMA DueFacts ==
    ASSUME LInv, NEW j \in Due
    PROVE  /\ cfg.actions[j] \in Counterfactual /\ Plan \in PlanNames /\ step \in Nat
           /\ Available(cfg.actions[j]) <=> step >= UnavailableUntil(cfg.actions[j])
           /\ cfg.moves \in BOOLEAN
  <1>1. cfg.actions[j] \in Counterfactual /\ at = "action"
    BY DEF Due, Left
  <1>2. HistoriesFull
    BY <1>1 DEF LInv, LogInv, PlaceInv
  <1>3. cfg.moves \in BOOLEAN
    BY InstrumentAssumption, StepFacts DEF TypeOK, ConfigOK
  <1> QED
    BY <1>1, <1>2, <1>3, StepFacts, AvailableWhen DEF LInv

LEMMA UnavailableLog == ASSUME LInv, Unavailable PROVE LogInv'
  <1>1. PICK j \in Due :
          /\ ~Available(cfg.actions[j])
          /\ risk' = Append(risk, RiskRecord(Plan, cfg.actions[j], Age(cfg.actions[j]), FALSE,
                                             None, None))
          /\ action' = j
          /\ UNCHANGED <<cfg, at, step, plan, state, fresh, history, correctness, candidate,
                         leftover, misses>>
    BY DEF Unavailable
  <1>2. PICK r : r = RiskRecord(Plan, cfg.actions[j], Age(cfg.actions[j]), FALSE, None, None)
    OBVIOUS
  <1>3. /\ r.step = step /\ r.plan = Plan /\ r.action = cfg.actions[j] /\ r.ready = FALSE
        /\ r.skip = "insufficient_history"
    BY <1>2 DEF RiskRecord
  <1>4. r \in RiskRecords
    BY <1>2, DueFacts DEF RiskRecord, RiskRecords, DefaultActions, Age
  <1>5. RiskTrue(r)'
    BY <1>1, <1>3, DueFacts DEF RiskTrue, Counterfactual
  <1>6. RiskKey(r) = <<step, Plan, cfg.actions[j]>>
    BY <1>3 DEF RiskKey
  <1> QED
    BY <1>1, <1>2, <1>4, <1>5, <1>6, TriedLog

LEMMA CounterfactLog == ASSUME LInv, Counterfact PROVE LogInv'
  <1>1. PICK j \in Due, v \in {Distance, "nan", "inf"} :
          /\ Available(cfg.actions[j])
          /\ risk' = Append(risk, RiskRecord(Plan, cfg.actions[j], Age(cfg.actions[j]), TRUE,
                                             NanToNum(v), "same"))
          /\ misses' = misses + (IF v = Distance THEN 0 ELSE 1)
          /\ action' = j
          /\ UNCHANGED <<cfg, at, step, plan, state, fresh, history, correctness, leftover>>
    BY FormStays DEF Counterfact, NotFinite
  <1>2. PICK r : r = RiskRecord(Plan, cfg.actions[j], Age(cfg.actions[j]), TRUE, NanToNum(v), "same")
    OBVIOUS
  <1>3. /\ r.step = step /\ r.plan = Plan /\ r.action = cfg.actions[j] /\ r.ready = TRUE
        /\ r.risk = NanToNum(v) /\ r.form = "same"
    BY <1>2 DEF RiskRecord
  <1>4. NanToNum(v) \in {"zero", "positive"} /\ NanToNum(Distance) = Distance
    BY <1>1 DEF NanToNum, Distance
  <1>5. misses \in Nat
    BY MissesNat
  <1>6. (misses' = 0 => misses = 0) /\ (misses' = 0 => v = Distance)
    BY <1>1, <1>5
  <1>7. r \in RiskRecords
    BY <1>2, <1>4, DueFacts DEF RiskRecord, RiskRecords, DefaultActions, Age
  <1>8. RiskTrue(r)'
    <2>1. Distance' = Distance
      BY <1>1 DEF Distance
    <2>2. misses' = 0 => r.risk = Distance'
      BY <1>3, <1>4, <1>6, <2>1
    <2> QED
      BY <1>1, <1>3, <2>2, DueFacts DEF RiskTrue, Counterfactual
  <1>9. RiskKey(r) = <<step, Plan, cfg.actions[j]>>
    BY <1>3 DEF RiskKey
  <1> QED
    BY <1>1, <1>2, <1>6, <1>7, <1>8, <1>9, TriedLog

LEMMA NextPlanLog == ASSUME LInv, NextPlan PROVE LogInv'
  <1>1. /\ at = "action" /\ Left = {}
        /\ cfg' = cfg /\ step' = step /\ action' = action /\ history' = history /\ risk' = risk
        /\ correctness' = correctness /\ misses' = misses
        /\ \/ plan < Len(cfg.plans) /\ plan' = plan + 1 /\ at' = "replay"
           \/ plan = Len(cfg.plans) /\ at' = "append" /\ plan' = plan
    BY DEF NextPlan
  <1>2. at \in Working /\ at' \in Working /\ at' \in InStep /\ at \in InStep
        /\ at' # "done" /\ at' \notin GuidedBranches /\ at # "failed"
    BY <1>1 DEF Working, InStep, GuidedBranches
  <1>3. PlaceInv'
    <2>1. HistoriesFull
      BY <1>1 DEF LInv, LogInv, PlaceInv
    <2>2. HistoriesFull'
      BY <1>1, <2>1 DEF HistoriesFull, Keys
    <2> QED
      BY <1>2, <2>2 DEF PlaceInv
  <1>4. PICK v : v = Plan
    OBVIOUS
  <1>5. plan \in 1 .. Len(cfg.plans) /\ Len(cfg.plans) \in Nat /\ DOMAIN cfg.plans = 1 .. Len(cfg.plans)
        /\ cfg.plans[plan] = v
    BY <1>4, StepFacts, ConfigFacts, ListFacts DEF TypeOK, Plan
  <1>6. ASSUME NEW q \in PlansOf
        PROVE  /\ ReplayedHere(q) <=> Before(q) \/ q = v
               /\ ReplayedHere(q)' <=> Before(q) \/ q = v
    <2>1. ReplayedHere(q) <=> Before(q) \/ q = v
      BY <1>1, <1>4 DEF ReplayedHere
    <2>2. CASE plan' = plan + 1 /\ at' = "replay"
      <3>1. Before(q)' <=> \E k \in 1 .. plan : cfg.plans[k] = q
        <4>1. (plan + 1) - 1 = plan
          BY <1>5
        <4> QED
          BY <1>1, <2>2, <4>1 DEF Before
      <3>2. 1 .. plan = (1 .. (plan - 1)) \cup {plan}
        BY <1>5
      <3>3. Before(q)' <=> Before(q) \/ q = v
        BY <1>5, <3>1, <3>2 DEF Before
      <3>4. ReplayedHere(q)' <=> Before(q)'
        BY <2>2 DEF ReplayedHere
      <3> QED
        BY <2>1, <3>3, <3>4
    <2>3. CASE plan = Len(cfg.plans) /\ at' = "append"
      <3>1. PICK k \in 1 .. Len(cfg.plans) : cfg.plans[k] = q
        BY <1>5 DEF PlansOf, Values
      <3>2. k \in 1 .. (plan - 1) \/ k = plan
        BY <1>5, <2>3
      <3>3. Before(q) \/ q = v
        BY <1>5, <3>1, <3>2 DEF Before
      <3>4. ReplayedHere(q)'
        BY <2>3 DEF ReplayedHere
      <3> QED
        BY <2>1, <3>3, <3>4
    <2> QED
      BY <1>1, <2>2, <2>3
  <1>7. ASSUME NEW q \in PlansOf, NEW b \in Values(cfg.actions), b # "fresh"
        PROVE  TriedHere(q, b)' <=> TriedHere(q, b)
    <2>1. b = "replay_age_0" \/ \E j \in 1 .. action : cfg.actions[j] = b
      <3>1. PICK m \in DOMAIN cfg.actions : cfg.actions[m] = b
        BY DEF Values
      <3>2. m \in Nat /\ m >= 1 /\ cfg.actions[m] \in DefaultActions /\ action \in Nat
        BY <3>1, StepFacts, ListFacts DEF TypeOK
      <3>3. b = "replay_age_0" \/ b \in Counterfactual
        BY <1>7, <3>1, <3>2 DEF DefaultActions
      <3>4. b \in Counterfactual => ~(m > action)
        BY <1>1, <3>1 DEF Left
      <3> QED
        BY <3>1, <3>2, <3>3, <3>4
    <2>2. TriedHere(q, b) <=> ReplayedHere(q)
      BY <2>1 DEF TriedHere
    <2>3. TriedHere(q, b)' <=> ReplayedHere(q)'
      BY <1>1 DEF TriedHere
    <2> QED
      BY <1>6, <2>2, <2>3
  <1>8. RiskInv'
    <2>1. ASSUME NEW x \in StepsOf, NEW q \in RiskPlans, NEW b \in Values(cfg.actions)
          PROVE  RiskDone(x, q, b)' <=> RiskDone(x, q, b)
      <3>1. CASE q = "fresh"
        BY <1>1, <1>2, <3>1 DEF RiskDone
      <3>2. CASE q # "fresh" /\ b # "fresh"
        <4>1. q \in PlansOf
          BY <3>2 DEF RiskPlans
        <4> QED
          BY <1>1, <1>7, <3>2, <4>1 DEF RiskDone
      <3>3. CASE q # "fresh" /\ b = "fresh"
        BY <3>3 DEF RiskDone
      <3> QED
        BY <3>1, <3>2, <3>3
    <2>2. RiskKeys' = RiskKeys
      BY <1>1, <2>1, RiskKeysStay
    <2> QED
      BY <1>1, <1>2, <2>2, RiskStays DEF LInv, LogInv
  <1>9. CheckInv'
    <2>1. FreshKeys' = FreshKeys
      <3>1. \A x \in cfg.equivalence : \A c \in GuidedBranches : FreshDone(x, c)' <=> FreshDone(x, c)
        BY <1>1, <1>2 DEF FreshDone
      <3> QED
        BY <1>1, <3>1, FreshKeysStay
    <2>2. ReplayKeys' = ReplayKeys
      <3>1. \A x \in StepsOf : \A q \in PlansOf : ReplayDone(x, q)' <=> ReplayDone(x, q)
        BY <1>1, <1>6 DEF ReplayDone
      <3> QED
        BY <1>1, <3>1, ReplayKeysStay
    <2> QED
      BY <1>1, <1>2, <2>1, <2>2, ChecksStay DEF LInv, LogInv
  <1> QED
    BY <1>3, <1>8, <1>9 DEF LogInv

LEMMA AppendHistoryLog == ASSUME LInv, AppendHistory PROVE LogInv'
  <1>1. /\ at = "append" /\ at' = "capture" /\ step' = step + 1
        /\ cfg' = cfg /\ plan' = plan /\ action' = action /\ risk' = risk
        /\ correctness' = correctness /\ misses' = misses
    BY DEF AppendHistory
  <1>2. PlaceInv'
    <2>1. HistoriesFull
      BY <1>1 DEF LInv, LogInv, PlaceInv
    <2>2. HistoriesFull'
      BY <2>1, HistoriesFill DEF LInv
    <2> QED
      BY <1>1, <2>2 DEF PlaceInv, GuidedBranches
  <1>3. \A p : ReplayedHere(p) /\ ~ReplayedHere(p)'
    BY <1>1, NothingReplayedNext DEF ReplayedHere
  <1>4. \A p, a : TriedHere(p, a) /\ ~TriedHere(p, a)'
    BY <1>1, <1>3 DEF TriedHere
  <1>5. \A x \in StepsOf : x < step + 1 <=> x < step \/ x = step
    BY StepFacts
  <1>6. at \in Working /\ at' \notin Working /\ at \in InStep /\ at' \notin InStep
    BY <1>1 DEF Working, InStep
  <1>7. RiskInv'
    <2>1. ASSUME NEW x \in StepsOf, NEW q \in RiskPlans, NEW b \in Values(cfg.actions)
          PROVE  RiskDone(x, q, b)' <=> RiskDone(x, q, b)
      <3>1. RiskDone(x, q, b) <=> (q = "fresh" <=> b = "fresh") /\ (x < step \/ x = step)
        BY <1>4, <1>6 DEF RiskDone
      <3>2. RiskDone(x, q, b)' <=> (q = "fresh" <=> b = "fresh") /\ x < step + 1
        BY <1>1, <1>4, <1>6 DEF RiskDone
      <3> QED
        BY <1>5, <3>1, <3>2
    <2>2. RiskKeys' = RiskKeys
      BY <1>1, <2>1, RiskKeysStay
    <2> QED
      BY <1>1, <2>2, RiskStays DEF LInv, LogInv
  <1>8. CheckInv'
    <2>1. FreshKeys' = FreshKeys
      <3>1. ASSUME NEW x \in cfg.equivalence, NEW c \in GuidedBranches
            PROVE  FreshDone(x, c)' <=> FreshDone(x, c)
        <4>1. x \in StepsOf
          BY StepFacts, ListFacts
        <4>2. FreshDone(x, c) <=> x < step \/ x = step
          BY <1>6 DEF FreshDone
        <4>3. FreshDone(x, c)' <=> x < step + 1
          BY <1>1, <1>6 DEF FreshDone
        <4> QED
          BY <1>5, <4>1, <4>2, <4>3
      <3> QED
        BY <1>1, <3>1, FreshKeysStay
    <2>2. ReplayKeys' = ReplayKeys
      <3>1. ASSUME NEW x \in StepsOf, NEW q \in PlansOf
            PROVE  ReplayDone(x, q)' <=> ReplayDone(x, q)
        <4>1. ReplayDone(x, q) <=> x < step \/ x = step
          BY <1>3 DEF ReplayDone
        <4>2. ReplayDone(x, q)' <=> x < step + 1
          BY <1>1, <1>3 DEF ReplayDone
        <4> QED
          BY <1>5, <4>1, <4>2
      <3> QED
        BY <1>1, <3>1, ReplayKeysStay
    <2> QED
      BY <1>1, <2>1, <2>2, ChecksStay DEF LInv, LogInv
  <1> QED
    BY <1>2, <1>7, <1>8 DEF LogInv

LEMMA FinishLog == ASSUME LInv, Finish PROVE LogInv'
  <1>1. /\ at = "capture" /\ at' = "done" /\ step = cfg.steps /\ step' = step
        /\ leftover' = ItemCount(Cleared)
        /\ cfg' = cfg /\ plan' = plan /\ action' = action /\ risk' = risk
        /\ correctness' = correctness /\ misses' = misses
    BY DEF Finish
  <1>2. ItemCount(Cleared) = 0
    <2>1. \A p \in Keys \X (1 .. MaxHistory) : ~(p[2] <= Len(Cleared[p[1]]))
      <3> TAKE p \in Keys \X (1 .. MaxHistory)
      <3>1. p[1] \in Keys /\ p[2] \in Nat /\ p[2] >= 1
        BY DEF MaxHistory
      <3>2. Cleared[p[1]] = <<>>
        BY <3>1 DEF Cleared, NoItems
      <3>3. Len(<<>>) = 0
        BY EmptySeq
      <3> QED
        BY <3>1, <3>2, <3>3
    <2>2. {p \in Keys \X (1 .. MaxHistory) : p[2] <= Len(Cleared[p[1]])} = {}
      BY <2>1
    <2> QED
      BY <2>2, FS_EmptySet DEF ItemCount
  <1>3. PlaceInv'
    BY <1>1, <1>2 DEF PlaceInv, GuidedBranches
  <1>4. \A x \in StepsOf : x < step
    BY <1>1, StepFacts
  <1>5. RiskInv'
    <2>1. \A x \in StepsOf : \A q \in RiskPlans : \A b \in Values(cfg.actions) :
            RiskDone(x, q, b)' <=> RiskDone(x, q, b)
      BY <1>1, <1>4 DEF RiskDone
    <2>2. RiskKeys' = RiskKeys
      BY <1>1, <2>1, RiskKeysStay
    <2> QED
      BY <1>1, <2>2, RiskStays DEF LInv, LogInv
  <1>6. CheckInv'
    <2>1. FreshKeys' = FreshKeys
      <3>1. \A x \in cfg.equivalence : \A c \in GuidedBranches : FreshDone(x, c)' <=> FreshDone(x, c)
        BY <1>1, <1>4, StepFacts, ListFacts DEF FreshDone
      <3> QED
        BY <1>1, <3>1, FreshKeysStay
    <2>2. ReplayKeys' = ReplayKeys
      <3>1. \A x \in StepsOf : \A q \in PlansOf : ReplayDone(x, q)' <=> ReplayDone(x, q)
        BY <1>1, <1>4 DEF ReplayDone
      <3> QED
        BY <1>1, <3>1, ReplayKeysStay
    <2> QED
      BY <1>1, <2>1, <2>2, ChecksStay DEF LInv, LogInv
  <1> QED
    BY <1>3, <1>5, <1>6 DEF LogInv

LEMMA StutterLog == ASSUME LInv, UNCHANGED vars PROVE LogInv'
  <1>1. /\ cfg' = cfg /\ at' = at /\ step' = step /\ plan' = plan /\ action' = action
        /\ history' = history /\ risk' = risk /\ correctness' = correctness
        /\ leftover' = leftover /\ misses' = misses
    BY DEF vars
  <1>2. PlaceInv'
    BY <1>1 DEF LInv, LogInv, PlaceInv, HistoriesFull, Keys
  <1>3. RiskInv'
    <2>1. RiskKeys' = RiskKeys
      BY <1>1 DEF RiskKeys, StepsOf, RiskPlans, PlansOf, RiskDone, TriedHere, ReplayedHere, Before, Plan
    <2> QED
      BY <1>1, <2>1, RiskStays DEF LInv, LogInv
  <1>4. CheckInv'
    <2>1. FreshKeys' = FreshKeys /\ ReplayKeys' = ReplayKeys
      BY <1>1 DEF FreshKeys, ReplayKeys, StepsOf, PlansOf, FreshDone, ReplayDone, ReplayedHere,
                  Before, Plan
    <2> QED
      BY <1>1, <2>1, ChecksStay DEF LInv, LogInv
  <1> QED
    BY <1>2, <1>3, <1>4 DEF LogInv

LEMMA InitLog == ASSUME Init PROVE LogInv
  <1>1. /\ at = "capture" /\ step = 0 /\ risk = <<>> /\ correctness = <<>> /\ history = NoItems
    BY DEF Init
  <1>2. TypeOK
    BY InitInv DEF IInv
  <1>3. \A x \in StepsOf : x \in Nat
    BY DEF StepsOf
  <1>4. \A p : ~ReplayedHere(p)
    BY <1>1, NothingReplayed
  <1>5. PlaceInv
    <2>1. HistoriesFull
      <3>1. Len(<<>>) = 0
        BY EmptySeq
      <3>2. \A k \in Keys : history[k] = <<>>
        BY <1>1 DEF NoItems
      <3> QED
        BY <1>1, <3>1, <3>2 DEF HistoriesFull, MaxHistory
    <2> QED
      BY <1>1, <2>1 DEF PlaceInv, GuidedBranches
  <1>6. DOMAIN risk = {} /\ DOMAIN correctness = {}
    BY <1>1
  <1>7. RiskInv
    <2>1. RiskKeys = {}
      BY <1>1, <1>3, <1>4 DEF RiskKeys, RiskDone, TriedHere, Working
    <2>2. Logged(RiskLog, RiskKeys)
      BY <1>6, <2>1 DEF Logged, OnceEach, RiskLog
    <2>3. RisksTrue
      BY <1>6 DEF RisksTrue
    <2> QED
      BY <1>1, <2>2, <2>3 DEF RiskInv
  <1>8. CheckInv
    <2>1. FreshKeys = {}
      <3>1. \A x \in cfg.equivalence : x \in Nat
        BY <1>2, <1>3, ListFacts
      <3> QED
        BY <1>1, <3>1 DEF FreshKeys, FreshDone, InStep
    <2>2. ReplayKeys = {}
      BY <1>1, <1>3, <1>4 DEF ReplayKeys, ReplayDone
    <2>3. \A c : Correctness(c) = {}
      BY <1>6 DEF Correctness
    <2>4. Logged(FreshLog, FreshKeys)
      BY <2>1, <2>3 DEF Logged, OnceEach, FreshLog
    <2>5. Logged(ReplayLog, ReplayKeys)
      BY <2>2, <2>3 DEF Logged, OnceEach, ReplayLog
    <2>6. ChecksTrue
      BY <1>6 DEF ChecksTrue
    <2> QED
      BY <1>1, <2>4, <2>5, <2>6 DEF CheckInv
  <1> QED
    BY <1>5, <1>7, <1>8 DEF LogInv

LEMMA LogStep == LInv /\ [Next]_vars => LInv'
  <1> SUFFICES ASSUME LInv, [Next]_vars PROVE LInv'
    OBVIOUS
  <1>1. IInv'
    BY StepInv DEF LInv
  <1>2. LogInv'
    <2>1. CASE CaptureStep
      BY <2>1, CaptureStepLog, CaptureFailsLog
    <2>2. CASE CheckEquivalence
      BY <2>2, CheckEquivalenceLog
    <2>3. CASE Replay
      BY <2>3, ReplayStepLog
    <2>4. CASE Unavailable
      BY <2>4, UnavailableLog
    <2>5. CASE Counterfact
      BY <2>5, CounterfactLog
    <2>6. CASE NextPlan
      BY <2>6, NextPlanLog
    <2>7. CASE AppendHistory
      BY <2>7, AppendHistoryLog
    <2>8. CASE Finish
      BY <2>8, FinishLog
    <2>9. CASE UNCHANGED vars
      BY <2>9, StutterLog
    <2> QED
      BY <2>1, <2>2, <2>3, <2>4, <2>5, <2>6, <2>7, <2>8, <2>9 DEF Next, Terminated
  <1> QED
    BY <1>1, <1>2 DEF LInv

-----------------------------------------------------------------------------
(* The validator *)

\* When a sample is done, every key of every step has its record.
LEMMA KeysWhenDone ==
    ASSUME LInv, at = "done"
    PROVE  /\ FreshKeys = cfg.equivalence \X GuidedBranches
           /\ ReplayKeys = StepsOf \X PlansOf
           /\ \A k : k \in RiskKeys <=>
                       /\ k \in StepsOf \X RiskPlans \X Values(cfg.actions)
                       /\ k[2] = "fresh" <=> k[3] = "fresh"
  <1>1. step = cfg.steps
    BY DEF LInv, LogInv, PlaceInv
  <1>2. \A x \in StepsOf : x < step
    BY <1>1, StepFacts
  <1>3. cfg.equivalence \subseteq StepsOf
    BY StepFacts, ListFacts
  <1>4. FreshKeys = cfg.equivalence \X GuidedBranches
    BY <1>2, <1>3 DEF FreshKeys, FreshDone
  <1>5. ReplayKeys = StepsOf \X PlansOf
    BY <1>2 DEF ReplayKeys, ReplayDone
  <1>6. ASSUME NEW k
        PROVE  k \in RiskKeys <=>
                       /\ k \in StepsOf \X RiskPlans \X Values(cfg.actions)
                       /\ k[2] = "fresh" <=> k[3] = "fresh"
    <2>1. k \in StepsOf \X RiskPlans \X Values(cfg.actions) => k[1] \in StepsOf
      OBVIOUS
    <2> QED
      BY <1>2, <2>1 DEF RiskKeys, RiskDone
  <1> QED
    BY <1>4, <1>5, <1>6

LEMMA LogsWhenDone ==
    ASSUME LInv, at = "done"
    PROVE  /\ Logged(RiskLog, RiskKeys) /\ RisksTrue
           /\ Logged(FreshLog, FreshKeys) /\ Logged(ReplayLog, ReplayKeys) /\ ChecksTrue
           /\ leftover = 0 /\ step = cfg.steps
  BY DEF LInv, LogInv, RiskInv, CheckInv, PlaceInv

LEMMA CompleteWhenDone ==
    ASSUME LInv, at = "done"
    PROVE  FreshChecksComplete /\ ReplaysComplete /\ FreshRecordsComplete /\ ActionsComplete
  <1>1. FreshChecksComplete
    BY KeysWhenDone, LogsWhenDone DEF FreshChecksComplete, Logged, FreshLog
  <1>2. ReplaysComplete
    BY KeysWhenDone, LogsWhenDone DEF ReplaysComplete, Logged, ReplayLog
  <1>3. \A a : Risk(a) \subseteq DOMAIN risk
    BY DEF Risk
  <1>4. DOMAIN RiskLog = DOMAIN risk
        /\ \A i \in DOMAIN risk :
             /\ RiskLog[i] = <<risk[i].step, risk[i].plan, risk[i].action>>
             /\ RiskLog[i] \in RiskKeys
    BY LogsWhenDone DEF Logged, RiskLog, RiskKey
  <1>5. \A i, j \in DOMAIN risk : RiskLog[i] = RiskLog[j] => i = j
    BY <1>4, LogsWhenDone DEF Logged, OnceEach
  <1>6. \A k \in RiskKeys : \E i \in DOMAIN risk : RiskLog[i] = k
    BY <1>4, LogsWhenDone DEF Logged, OnceEach
  <1>7. FreshRecordsComplete
    <2> DEFINE f == [i \in Risk("fresh") |-> risk[i].step]
    <2>1. \A i \in Risk("fresh") : risk[i].risk \in {"zero", None}
      BY <1>3, LogsWhenDone DEF RisksTrue, RiskTrue, Risk
    <2>2. \A i \in Risk("fresh") : risk[i].plan = "fresh" /\ risk[i].action = "fresh"
      <3> TAKE i \in Risk("fresh")
      <3>1. i \in DOMAIN risk /\ risk[i].action = "fresh"
        BY DEF Risk
      <3>2. RiskLog[i][2] = "fresh" <=> RiskLog[i][3] = "fresh"
        BY <1>4, <3>1, KeysWhenDone
      <3> QED
        BY <1>4, <3>1, <3>2
    <2>3. ASSUME NEW s \in StepsOf PROVE \E i \in DOMAIN f : f[i] = s
      <3>1. "fresh" \in RiskPlans /\ "fresh" \in Values(cfg.actions)
        BY StepFacts, ListFacts DEF RiskPlans
      <3>2. <<s, "fresh", "fresh">> \in RiskKeys
        BY <3>1, KeysWhenDone
      <3>3. PICK i \in DOMAIN risk : RiskLog[i] = <<s, "fresh", "fresh">>
        BY <1>6, <3>2
      <3>4. risk[i].step = s /\ risk[i].action = "fresh"
        BY <1>4, <3>3
      <3> QED
        BY <3>4 DEF Risk
    <2>4. \A i, j \in DOMAIN f : f[i] = f[j] => i = j
      <3> SUFFICES ASSUME NEW i \in Risk("fresh"), NEW j \in Risk("fresh"),
                          risk[i].step = risk[j].step
                   PROVE  i = j
        OBVIOUS
      <3>1. RiskLog[i] = RiskLog[j]
        BY <1>3, <1>4, <2>2
      <3> QED
        BY <1>3, <1>5, <3>1
    <2> QED
      BY <2>1, <2>3, <2>4 DEF FreshRecordsComplete, OnceEach
  <1>8. ActionsComplete
    <2> SUFFICES ASSUME NEW a \in Values(cfg.actions) \ {"fresh"}
                 PROVE  OnceEach([i \in Risk(a) |-> <<risk[i].step, risk[i].plan>>],
                                 StepsOf \X PlansOf)
      BY DEF ActionsComplete
    <2> DEFINE f == [i \in Risk(a) |-> <<risk[i].step, risk[i].plan>>]
    <2>1. ASSUME NEW k \in StepsOf \X PlansOf PROVE \E i \in DOMAIN f : f[i] = k
      <3>1. PICK s \in StepsOf, p \in PlansOf : k = <<s, p>>
        OBVIOUS
      <3>2. p \in RiskPlans /\ p # "fresh"
        BY StepFacts, ListFacts DEF RiskPlans
      <3>3. <<s, p, a>> \in RiskKeys
        BY <3>2, KeysWhenDone
      <3>4. PICK i \in DOMAIN risk : RiskLog[i] = <<s, p, a>>
        BY <1>6, <3>3
      <3>5. risk[i].step = s /\ risk[i].plan = p /\ risk[i].action = a
        BY <1>4, <3>4
      <3> QED
        BY <3>1, <3>5 DEF Risk
    <2>2. ASSUME NEW i \in Risk(a), NEW j \in Risk(a), f[i] = f[j] PROVE i = j
      <3>1. risk[i].action = a /\ risk[j].action = a
        BY DEF Risk
      <3>2. risk[i].step = risk[j].step /\ risk[i].plan = risk[j].plan
        BY <2>2
      <3>3. RiskLog[i] = RiskLog[j]
        BY <1>3, <1>4, <3>1, <3>2
      <3> QED
        BY <1>3, <1>5, <3>3
    <2> QED
      BY <2>1, <2>2 DEF OnceEach
  <1> QED
    BY <1>1, <1>2, <1>7, <1>8

LEMMA AvailabilityWhenDone ==
    ASSUME LInv, at = "done"
    PROVE  AvailabilityRight
  <1> SUFFICES ASSUME NEW a \in Counterfactual, NEW i \in Risk(a)
               PROVE  /\ risk[i].ready <=> risk[i].step >= UnavailableUntil(risk[i].action)
                      /\ ~risk[i].ready => risk[i].skip = "insufficient_history"
    BY DEF AvailabilityRight
  <1>1. i \in DOMAIN risk /\ risk[i].action \in Counterfactual
    BY DEF Risk
  <1> QED
    BY <1>1, LogsWhenDone DEF RisksTrue, RiskTrue

LEMMA SanityWhenDone ==
    ASSUME LInv, at = "done"
    PROVE  /\ AskedForReuse /\ cfg.steps <= Youngest => ~ReuseSane
           /\ misses = 0 =>
                (ReuseSane <=> ~AskedForReuse \/ (cfg.moves /\ cfg.steps > Youngest))
  <1> DEFINE A == Values(cfg.actions)
  <1>1. /\ \A i \in DOMAIN risk : RiskLog[i] = <<risk[i].step, risk[i].plan, risk[i].action>>
        /\ \A i \in DOMAIN risk : RiskLog[i] \in RiskKeys
        /\ \A k \in RiskKeys : \E i \in DOMAIN risk : RiskLog[i] = k
    BY LogsWhenDone DEF Logged, OnceEach, RiskLog, RiskKey
  <1>2. ReuseActions \subseteq Counterfactual
    BY DEF ReuseActions, Counterfactual
  <1>3. \A i \in DOMAIN risk : risk[i].action \in ReuseActions =>
          /\ risk[i].ready <=> risk[i].step >= UnavailableUntil(risk[i].action)
          /\ misses = 0 /\ risk[i].ready => (risk[i].risk = "positive" <=> cfg.moves)
    BY <1>2, LogsWhenDone DEF RisksTrue, RiskTrue, Distance
  <1>4. Youngest = IF "reuse_age_1" \in A THEN 1 ELSE 2
    BY DEF Youngest
  <1>5. cfg.steps \in Nat
    BY StepFacts
  <1>6. ASSUME A \cap ReuseActions # {}, misses = 0, cfg.moves, cfg.steps > Youngest
        PROVE  ReuseSane
    <2>1. PICK a : a = IF "reuse_age_1" \in A THEN "reuse_age_1" ELSE "reuse_age_2"
      OBVIOUS
    <2>2. a \in A /\ a \in ReuseActions /\ a # "fresh" /\ UnavailableUntil(a) = Youngest
      BY <1>4, <1>6, <2>1 DEF ReuseActions, UnavailableUntil
    <2>3. Youngest \in StepsOf /\ Youngest \in Nat
      BY <1>4, <1>5, <1>6 DEF StepsOf
    <2>4. Plan \in RiskPlans /\ Plan # "fresh"
      BY StepFacts DEF RiskPlans
    <2>5. <<Youngest, Plan, a>> \in RiskKeys
      <3>1. PICK y \in StepsOf, p \in RiskPlans : y = Youngest /\ p = Plan
        BY <2>3, <2>4
      <3>2. <<y, p, a>> \in RiskKeys
        BY <2>2, <2>4, <3>1, KeysWhenDone
      <3> QED
        BY <3>1, <3>2
    <2>6. PICK i \in DOMAIN risk : RiskLog[i] = <<Youngest, Plan, a>>
      BY <1>1, <2>5
    <2>7. risk[i].step = Youngest /\ risk[i].action = a
      BY <1>1, <2>6
    <2>8. risk[i].ready /\ risk[i].risk = "positive"
      BY <1>3, <1>6, <2>2, <2>3, <2>7
    <2>9. i \in Risk(a)
      BY <2>7 DEF Risk
    <2> QED
      BY <2>2, <2>8, <2>9 DEF ReuseSane
  <1>7. ASSUME A \cap ReuseActions # {}, ReuseSane
        PROVE  (misses = 0 => cfg.moves) /\ cfg.steps > Youngest
    <2>1. PICK i \in DOMAIN risk :
             risk[i].action \in ReuseActions /\ risk[i].ready /\ risk[i].risk = "positive"
      BY <1>7 DEF ReuseSane, AskedForReuse, Risk
    <2>2. PICK a : a = risk[i].action
      OBVIOUS
    <2>3. (misses = 0 => cfg.moves) /\ risk[i].step >= UnavailableUntil(a)
      BY <1>3, <2>1, <2>2
    <2>4. a \in A /\ a \in ReuseActions /\ risk[i].step \in StepsOf
      BY <1>1, <2>1, <2>2, KeysWhenDone
    <2>5. UnavailableUntil(a) \in Nat /\ UnavailableUntil(a) >= Youngest
      BY <1>4, <2>4 DEF UnavailableUntil, ReuseActions
    <2>6. risk[i].step \in Nat /\ risk[i].step < cfg.steps
      BY <2>4, StepFacts
    <2>7. Youngest \in Nat
      BY <1>4
    <2> QED
      BY <1>5, <2>3, <2>5, <2>6, <2>7
  <1>8. AskedForReuse <=> A \cap ReuseActions # {}
    BY DEF AskedForReuse
  <1>9. ~AskedForReuse => ReuseSane
    BY DEF ReuseSane
  <1>10. Youngest \in Nat
    BY <1>4
  <1>11. cfg.steps <= Youngest <=> ~(cfg.steps > Youngest)
    BY <1>5, <1>10
  <1> HIDE DEF A
  <1> QED
    BY <1>6, <1>7, <1>8, <1>9, <1>11

LEMMA MeasuredWhenDone ==
    ASSUME LInv, at = "done"
    PROVE  /\ misses = 0 =>
                \A i \in DOMAIN correctness : correctness[i].allclose /\ correctness[i].within
           /\ cfg.strict => \A i \in DOMAIN correctness : correctness[i].allclose
  BY LogsWhenDone DEF ChecksTrue, CheckTrue

LEMMA FiniteWhenDone == ASSUME LInv, at = "done" PROVE RecordsFinite
  <1>1. risk \in Seq(RiskRecords)
    BY DEF LInv, LogInv, RiskInv
  <1>2. \A i \in DOMAIN risk : risk[i] \in RiskRecords
    BY <1>1, ElementOfSeq, LenProperties
  <1>3. \A i \in DOMAIN risk : risk[i].risk \in {"zero", "positive", None}
    BY <1>2 DEF RiskRecords
  <1>4. \A i \in DOMAIN correctness : correctness[i].finite
    BY LogsWhenDone DEF ChecksTrue, CheckTrue
  <1> QED
    BY <1>3, <1>4, NoneAssumption DEF RecordsFinite, NotFinite

\* What has another form is the model's own output, and not close.
LEMMA FormsWhenDone ==
    ASSUME LInv, at = "done", ~FormsMatch
    PROVE  \E i \in Correctness("fresh_split_equivalence") : ~correctness[i].allclose
  <1>1. \A i \in DOMAIN risk : risk[i].ready => risk[i].form = "same"
    BY LogsWhenDone DEF RisksTrue, RiskTrue
  <1>2. PICK i \in DOMAIN correctness : correctness[i].form # "same"
    BY <1>1 DEF FormsMatch
  <1> QED
    BY <1>2, LogsWhenDone DEF ChecksTrue, CheckTrue, Correctness

LEMMA InvBlocks == LInv => BlocksOnlyMeasured
  <1> SUFFICES ASSUME LInv, at = "done" PROVE BlocksOnlyMeasured
    BY DEF BlocksOnlyMeasured
  <1> DEFINE F == \A i \in Correctness("fresh_split_equivalence") : correctness[i].allclose
             R == \A i \in Correctness("replay_age_0") : correctness[i].allclose /\ correctness[i].within
             Codes == {"fresh_equivalence", "shape_dtype", "replay_age0", "candidate_sanity"}
  <1>1. FreshChecksComplete /\ ReplaysComplete /\ FreshRecordsComplete /\ ActionsComplete
        /\ AvailabilityRight /\ RecordsFinite /\ LeakageCount = 0 /\ leftover = 0
    BY CompleteWhenDone, AvailabilityWhenDone, FiniteWhenDone, LogsWhenDone DEF LeakageCount
  <1>2. DOMAIN Holds = {"nonfinite", "fresh_equivalence_completeness", "fresh_equivalence",
                        "replay_completeness", "replay_age0", "future_leakage",
                        "fresh_record_completeness", "action_completeness", "action_availability",
                        "shape_dtype", "candidate_sanity", "history_cleanup"}
    BY DEF Holds
  <1>3. /\ Holds["nonfinite"] /\ Holds["future_leakage"]
        /\ Holds["fresh_equivalence_completeness"] /\ Holds["replay_completeness"]
        /\ Holds["fresh_record_completeness"] /\ Holds["action_completeness"]
        /\ Holds["action_availability"] /\ Holds["history_cleanup"]
    BY <1>1, Zenon DEF Holds
  <1>4. /\ Holds["fresh_equivalence"] <=> F
        /\ Holds["replay_age0"] <=> R
        /\ Holds["shape_dtype"] <=> FormsMatch
        /\ Holds["candidate_sanity"] <=> ReuseSane
    BY DEF Holds
  <1>5. \A c : Correctness(c) \subseteq DOMAIN correctness
    BY DEF Correctness
  <1>6. (misses = 0 => F /\ R) /\ (cfg.strict => F)
    BY <1>5, MeasuredWhenDone
  <1>7. F => FormsMatch
    BY FormsWhenDone
  <1> HIDE DEF F, R
  <1>8. Issues \subseteq Codes
    BY <1>2, <1>3 DEF Issues
  <1>9. /\ "fresh_equivalence" \in Issues <=> ~F
        /\ "replay_age0" \in Issues <=> ~R
        /\ "shape_dtype" \in Issues <=> ~FormsMatch
        /\ "candidate_sanity" \in Issues <=> ~ReuseSane
    BY <1>2, <1>4 DEF Issues
  <1>10. cfg.strict => Issues \subseteq {"replay_age0", "candidate_sanity"}
    BY <1>6, <1>7, <1>8, <1>9
  <1>11. ASSUME misses = 0
         PROVE  Issues = IF ReuseSane THEN {} ELSE {"candidate_sanity"}
    BY <1>6, <1>7, <1>8, <1>9, <1>11
  <1>12. misses = 0 =>
           Issues = IF AskedForReuse /\ ~(cfg.moves /\ cfg.steps > Youngest)
                    THEN {"candidate_sanity"} ELSE {}
    BY <1>11, SanityWhenDone
  <1> QED
    BY <1>7, <1>8, <1>9, <1>10, <1>12, SanityWhenDone DEF BlocksOnlyMeasured

THEOREM AlwaysLInv == Spec => []LInv
  <1>1. Init => LInv
    BY InitInv, InitLog DEF LInv
  <1> QED
    BY <1>1, LogStep, PTL DEF Spec

\* The validator blocks a finished sample for what was measured and never for
\* how: instrument_sample writes every record validate_stage1 counts, once, no
\* other, finite and in the form that is asked of it, whatever the plans, actions
\* and number of steps.
THEOREM BlocksForMeasurements == Spec => []BlocksOnlyMeasured
  BY AlwaysLInv, InvBlocks, PTL
=============================================================================
