--------------------------- MODULE MCGenerationRun ---------------------------
(* Values of the constants of GenerationRun for model checking. *)
EXTENDS ShardingContract

Launched(shards, modes, resumes) ==
    [shards : shards, mode : modes, resume : resumes]

\* Two GPUs, interrupted runs resumed or started over.
TwoShards == Launched({2}, {"strided"}, BOOLEAN)
\* A run resumed with the images dealt out in another way.
Redealt == Launched({2}, ShardModes, {TRUE})
OneGpu == Launched({1}, {"strided"}, {FALSE})
=============================================================================
