------------------------- MODULE MCPixarcInstrument -------------------------
(* Small networks and configurations for model checking PixarcInstrument. *)
EXTENDS PixarcValidation

Nets == [blocks : {4}, context : {TRUE}, contextStart : 0 .. 4]
        \cup [blocks : {3}, context : BOOLEAN, contextStart : {1}]
        \cup [blocks : {6}, context : {TRUE}, contextStart : {2, 4}]

AllActions == <<"fresh", "replay_age_0", "reuse_age_1", "reuse_age_2", "taylor_order_1">>

Base == [net |-> [blocks |-> 6, context |-> TRUE, contextStart |-> 2], steps |-> 4,
         plans |-> <<"early", "middle", "late">>, actions |-> AllActions,
         equivalence |-> {0, 3}, strict |-> FALSE, moves |-> TRUE]

SomeConfigs ==
    {[Base EXCEPT !.net = net] : net \in Nets}
    \cup {[Base EXCEPT !.net = net, !.plans = <<"whole", "early_middle", "middle_late">>] : net \in Nets}
    \cup {[Base EXCEPT !.steps = n, !.equivalence = {0}, !.strict = TRUE, !.plans = <<"middle">>]
            : n \in 1 .. 5}
    \cup {[Base EXCEPT !.moves = FALSE], [Base EXCEPT !.actions = <<"replay_age_0", "fresh">>],
          [Base EXCEPT !.actions = <<"taylor_order_1", "fresh", "reuse_age_2", "replay_age_0">>,
                       !.steps = 2, !.equivalence = {1}]}
=============================================================================
