---------------------------- MODULE BoundedReuse ----------------------------
(***************************************************************************)
(* What a feature cache promises the sampler it works for, whatever its     *)
(* policy: every output is either computed now or is what the same stream   *)
(* produced earlier in the same batch, fewer than `limit' steps ago.        *)
(***************************************************************************)
EXTENDS Integers

CONSTANTS Streams,   \* a module, in one branch and solver stage
          None

VARIABLES
    limit,    \* fixed for a run
    batch,    \* the batch being sampled
    now,      \* its step
    held,     \* per stream, the step whose output is kept
    output    \* the last output and where it came from

vars == <<limit, batch, now, held, output>>

Nowhere == [s \in Streams |-> None]

Init ==
    /\ limit \in Nat \ {0} /\ batch \in Nat /\ now = 0
    /\ held = Nowhere /\ output = None

NewBatch ==
    /\ batch' = batch + 1 /\ now' = 0
    /\ held' = Nowhere /\ output' = None
    /\ UNCHANGED limit

Tick ==
    /\ now' = now + 1
    /\ UNCHANGED <<limit, batch, held, output>>

\* What is kept may be dropped at any time.
Drop ==
    /\ held' = Nowhere
    /\ UNCHANGED <<limit, batch, now, output>>

Out(s, from) == [stream |-> s, now |-> now, from |-> from, batch |-> batch]

Fresh(s) ==
    /\ output' = Out(s, now)
    /\ held' \in {held, [held EXCEPT ![s] = now]}
    /\ UNCHANGED <<limit, batch, now>>

Reuse(s) ==
    /\ held[s] # None /\ held[s] < now /\ now - held[s] < limit
    /\ output' = Out(s, held[s])
    /\ UNCHANGED <<limit, batch, now, held>>

Next ==
    \/ NewBatch \/ Tick \/ Drop
    \/ \E s \in Streams : Fresh(s) \/ Reuse(s)

Spec == Init /\ [][Next]_vars
=============================================================================
