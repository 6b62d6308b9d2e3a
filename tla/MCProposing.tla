----------------------------- MODULE MCProposing -----------------------------
(* Two voters and a follower; a core map from a voter, one from the follower *)
(* about the other voter, an admission, and a node's protocol support.       *)
EXTENDS Proposing

CONSTANTS v1, v2, f1, a1, a2, mapHere, mapThere, admit, support

MCAsks ==
    [c \in {mapHere, mapThere, admit, support} |->
        CASE c = mapHere -> [node |-> v1, kind |-> "core", member |-> v1, addr |-> a2]
          [] c = mapThere -> [node |-> f1, kind |-> "core", member |-> v2, addr |-> a2]
          [] c = admit -> [node |-> v2, kind |-> "add", member |-> f1, addr |-> a1]
          [] c = support -> [node |-> f1, kind |-> "support", member |-> f1, addr |-> a1]]

MCScenarios == {{mapHere, mapThere}, {mapHere, admit}, {support}}
=============================================================================
