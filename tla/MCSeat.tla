------------------------------- MODULE MCSeat -------------------------------
(* Instances of Seat for TLC: what the log decides about this node.        *)
EXTENDS Seat

\* Promoted, demoted before it was made a voter, and promoted again.
MCAgain == <<"other", "in", "out", "removed", "in">>

\* Promoted, made a voter, demoted and promoted again.
MCTwice == <<"in", "voter", "out", "removed", "in">>

\* Promoted through a joint configuration, and demoted for good.
MCLeaves == <<"in", "joint", "voter", "out", "joint", "removed">>

\* Promoted and demoted, and the group decides something else before Raft has
\* removed it.
MCLingers == <<"in", "voter", "out", "other", "removed">>

Scenario(history, crashes, builds) ==
    [history |-> history, crashes |-> crashes, builds |-> builds]

MCScenarios ==
    {Scenario(MCAgain, 0, 0), Scenario(MCTwice, 1, 0), Scenario(MCTwice, 0, 1),
     Scenario(MCLeaves, 1, 0), Scenario(MCLingers, 1, 0)}
=============================================================================
