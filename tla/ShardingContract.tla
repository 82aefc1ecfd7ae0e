-------------------------- MODULE ShardingContract --------------------------
(***************************************************************************)
(* What the helpers of Sharding are for, over every combination of          *)
(* arguments up to a bound.  Nothing here depends on the progress of a run: *)
(* the invariants are evaluated once, before its first launch.              *)
(***************************************************************************)
EXTENDS GenerationRun

CONSTANTS
    MostImages,   \* bound: images of a run
    MostShards    \* bound: its shards, and the size of its batches

ASSUME BoundsAssumption == MostImages \in Nat /\ MostShards \in Nat

NotLaunched == runs = <<>>

\* compute_shard_indices deals every image to one worker: none is generated
\* twice, none is left out, whatever the counts and the mode.
Partition == NotLaunched =>
    \A n \in 0 .. MostImages, k \in 1 .. MostShards, mode \in ShardModes :
      \A i \in Images(n) : \E s \in Shards(k) : \A t \in Shards(k) :
        i \in ShardIndices(n, k, t, mode) <=> t = s

=============================================================================
