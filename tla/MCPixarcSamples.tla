-------------------------- MODULE MCPixarcSamples --------------------------
(* Values of the constants of PixarcSamples for model checking. *)
EXTENDS PixarcSamples

\* The same measurement on two GPUs, and another one on a single GPU.
TwoAndOne == [two |-> [shards |-> 2, mode |-> "strided"],
              one |-> [shards |-> 1, mode |-> "contiguous"]]

\* Measured and merged, started over without a merge, another configuration.
SomeLaunch == [config : {"two", "one"}, resume : {TRUE}, merge : {TRUE}]
              \cup [config : {"two"}, resume : {FALSE}, merge : {FALSE}]
=============================================================================
