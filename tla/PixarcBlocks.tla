---------------------------- MODULE PixarcBlocks ----------------------------
(***************************************************************************)
(* What PixARC stage 1 computes with JiT's transformer blocks: boundary     *)
(* plans, ranges of blocks, and the hidden tensors that pass through them.  *)
(* A hidden tensor is abstracted to the branch it belongs to, the blocks    *)
(* that made it, each with the sampling steps whose states it was run on,   *)
(* and how many prefixes of in-context tokens it carries.                   *)
(***************************************************************************)
EXTENDS Integers, Sequences

\* JiT's depth and where its blocks add the in-context tokens, if at all.
Network == [blocks : Nat, context : BOOLEAN, contextStart : Nat]

GuidedBranches == {"cond", "uncond"}

-----------------------------------------------------------------------------
(* resolve_jit_boundary_plans *)

Smaller(x, y) == IF x < y THEN x ELSE y
Larger(x, y) == IF x > y THEN x ELSE y

SplitA(n) == Larger(1, n \div 3)
SplitB(n) == Smaller(Larger(SplitA(n) + 1, (2 * n) \div 3), n - 1)

PlanNames == {"early", "middle", "late", "early_middle", "middle_late", "whole"}

StartBlock(p, n) ==
    IF p \in {"early", "early_middle", "whole"} THEN 0
    ELSE IF p \in {"middle", "middle_late"} THEN SplitA(n) ELSE SplitB(n)

EndBlock(p, n) ==
    IF p = "early" THEN SplitA(n)
    ELSE IF p \in {"middle", "early_middle"} THEN SplitB(n) ELSE n

\* JiTBoundaryPlan.validate
PlanValid(p, n) == 0 <= StartBlock(p, n) /\ StartBlock(p, n) < EndBlock(p, n) /\ EndBlock(p, n) <= n

-----------------------------------------------------------------------------
(* JiTDiCacheExecutor *)

\* prepare_common_input: image tokens only.
Embedded(b) == [branch |-> b, ran |-> <<>>, context |-> 0]

\* The range inserts the prefix, before the block at contextStart.
Inserts(net, first, last) ==
    net.context /\ first <= net.contextStart /\ net.contextStart < last

\* run_blocks_range raises: a second prefix, or none where one is needed.
ContextError(net, h, first, last) ==
    \/ h.context > 1
    \/ Inserts(net, first, last) /\ h.context = 1
    \/ net.context /\ net.contextStart < first /\ first < last /\ h.context = 0

\* run_blocks_range(start=first, end=last) in the state of step s.
RunBlocks(net, h, first, last, s) ==
    [branch |-> h.branch,
     ran |-> h.ran \o [i \in 1 .. (last - first) |-> [block |-> first + i - 1, steps |-> {s}]],
     context |-> IF Inserts(net, first, last) THEN h.context + 1 ELSE h.context]

\* What capture_fresh_branch holds after its first k blocks, which it runs one
\* at a time.
FreshHidden(net, b, k, s) == RunBlocks(net, Embedded(b), 0, k, s)

\* extract_image_tokens: drops the prefix, refuses one the network does not have
\* and a second one.
ExtractRaises(net, h) == h.context > (IF net.context THEN 1 ELSE 0)
ImageTokens(h) == [h EXCEPT !.context = 0]

CaptureRaises(net, b, s) ==
    \/ \E k \in 0 .. (net.blocks - 1) : ContextError(net, FreshHidden(net, b, k, s), k, k + 1)
    \/ \E k \in {1, net.blocks} : ExtractRaises(net, FreshHidden(net, b, k, s))

-----------------------------------------------------------------------------
(* evaluate_branch_candidate *)

ExpectedAlways(net, p) == IF net.context /\ EndBlock(p, net.blocks) >= net.contextStart
                          THEN 1 ELSE 0           \* slip: also a plan that ends there
\* _validate_replacement_shape: a prefix where the plan ends behind its insertion.
ContextExpected(net, p) ==
    IF net.context /\ EndBlock(p, net.blocks) > net.contextStart THEN 1 ELSE 0

\* The prefix runs and is dropped, the replacement takes its place, the suffix
\* runs in the state of step s.
Candidate(net, p, replacement, s) ==
    RunBlocks(net, replacement, EndBlock(p, net.blocks), net.blocks, s)

CandidateRaises(net, p, b, replacement, s) ==
    \/ ~PlanValid(p, net.blocks)
    \/ ContextError(net, Embedded(b), 0, StartBlock(p, net.blocks))
    \/ replacement.context # ContextExpected(net, p)
    \/ ContextError(net, replacement, EndBlock(p, net.blocks), net.blocks)
    \/ ExtractRaises(net, Candidate(net, p, replacement, s))

\* candidate_shape_match, candidate_dtype_match: what differs, of two outputs.
FormOf(h, reference) ==
    IF ImageTokens(h).context = ImageTokens(reference).context THEN "same" ELSE "shape"
=============================================================================
