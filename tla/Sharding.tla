------------------------------ MODULE Sharding ------------------------------
(***************************************************************************)
(* How a generation run of n images is dealt to k workers and cut in        *)
(* batches: compute_shard_indices and _chunked.  Lists of indices are sets  *)
(* here: the code builds them ascending and consumes them in that order.    *)
(***************************************************************************)
EXTENDS Integers, FiniteSets

ShardModes == {"strided", "contiguous"}

Images(n) == 0 .. n - 1
Shards(k) == 0 .. k - 1

\* range(shard_index, num_images, num_shards)
Strided(n, k, s) == {i \in Images(n) : i >= s /\ (i - s) % k = 0}

StartLate(n, k, s) == s * (n \div k) + (IF s <= n % k THEN s ELSE (n % k) + 1) \* slip: min(s, extra + 1)
\* The first n % k shards hold one image more than the others.
Start(n, k, s) == s * (n \div k) + (IF s <= n % k THEN s ELSE n % k)
Length(n, k, s) == (n \div k) + (IF s < n % k THEN 1 ELSE 0)

Contiguous(n, k, s) == {i \in Images(n) : Start(n, k, s) <= i /\ i < Start(n, k, s) + Length(n, k, s)}

ShardIndices(n, k, s, mode) ==
    IF mode = "strided" THEN Strided(n, k, s) ELSE Contiguous(n, k, s)

\* The next batch of a worker: the first size indices it has still to do.
FirstOf(todo, size) == {i \in todo : Cardinality({j \in todo : j < i}) < size}

=============================================================================
