------------------------- MODULE GenerationContract -------------------------
(***************************************************************************)
(* What a sharded generation promises to whoever reads its directory: an    *)
(* image that exists stays, and the merged output appears only when every   *)
(* image exists.                                                            *)
(***************************************************************************)
EXTENDS FiniteSets

CONSTANT Wanted     \* the images asked for

VARIABLES made,     \* the images that exist
          published \* the last launch ended with a merged output

vars == <<made, published>>

Init == made = {} /\ published = FALSE

Make == /\ \E i \in Wanted \ made : made' = made \cup {i}
        /\ UNCHANGED published

Publish == /\ made = Wanted
           /\ published' = TRUE /\ UNCHANGED made

\* Another launch, which publishes again.
Reopen == published' = FALSE /\ UNCHANGED made

Next == Make \/ Publish \/ Reopen

Spec == Init /\ [][Next]_vars
=============================================================================
