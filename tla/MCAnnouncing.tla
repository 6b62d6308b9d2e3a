----------------------------- MODULE MCAnnouncing -----------------------------
(* Three nodes, one or two of them core nodes: all of them new, a follower    *)
(* that joins late and moves, or a settled group of which one restarts.       *)
EXTENDS Announcing

CONSTANTS n1, n2, n3

Nobody ==
    [core |-> {n1}, settled |-> {}, movers |-> {}, growers |-> {}, restarters |-> {}, from |-> 0]

MCScenarios ==
    {Nobody,
     [Nobody EXCEPT !.settled = {n1, n2}, !.movers = {n3}, !.growers = {n3}],
     [Nobody EXCEPT !.settled = {n1, n2, n3}, !.restarters = {n2}, !.growers = {n2, n3}],
     [Nobody EXCEPT !.core = {n1, n2}, !.settled = {n1, n2, n3}, !.restarters = {n1}, !.movers = {n2}]}
=============================================================================
