------------------------------ MODULE MCDiCache ------------------------------
(* Small instances of DiCache for TLC. *)
EXTENDS DiCache

Base == [forced |-> FALSE, retention |-> 0, force_last |-> TRUE, threshold |-> 3,
         aggregation |-> "mean", dcta |-> TRUE]

AllConfigs ==
    { Base,
      [Base EXCEPT !.aggregation = "max", !.retention = 1],
      [Base EXCEPT !.force_last = FALSE, !.threshold = 4],
      [Base EXCEPT !.dcta = FALSE],
      [Base EXCEPT !.forced = TRUE] }
=============================================================================
