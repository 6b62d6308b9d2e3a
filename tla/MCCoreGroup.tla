----------------------------- MODULE MCCoreGroup -----------------------------
(* Instances of CoreGroup for TLC: what a group of three decides.          *)
EXTENDS CoreGroup

CONSTANTS a, b, c

Decision(core, members) == [core |-> core, members |-> members]
At(ms, addr) == [m \in ms |-> addr]

\* The core moves wholly to others, in one step.
MCMoves == << Decision(At({a, b}, 1), {a, b, c}), Decision(At({c}, 1), {a, b, c}) >>

\* A voter moves house, leaves the core and comes back at another address.
MCAgain == << Decision(At({a, b}, 1), {a, b, c}), Decision(At({a}, 2), {a, b, c}),
              Decision(At({b}, 2) @@ At({a}, 2), {a, b, c}) >>

\* A voter is added, and another one expelled.
MCExpelled == << Decision(At({a, b}, 1), {a, b, c}), Decision(At({a, b, c}, 1), {a, b, c}),
                 Decision(At({a, c}, 1), {a, c}) >>

\* A voter of three is expelled.
MCDropped == << Decision(At({a, b, c}, 1), {a, b, c}), Decision(At({a, c}, 1), {a, c}) >>

\* A promotion that is taken back, of a newcomer or of a voter dropped before.
MCUndone == << Decision(At({a}, 1), {a, b}), Decision(At({a, b}, 1), {a, b}),
               Decision(At({a}, 1), {a, b}) >>
MCFlips == << Decision(At({a, b}, 1), {a, b}) >> \o MCUndone

Scenario(cores, elections, outages) ==
    [cores |-> cores, elections |-> elections, outages |-> outages]

\* A hand-over during which any node may be cut off once; a voter that goes and
\* comes back; an expulsion after a promotion, the leader's included; one with
\* a leader replaced at any point; and promotions taken back.
MCScenarios ==
    {Scenario(MCMoves, 0, 1), Scenario(MCAgain, 0, 0), Scenario(MCExpelled, 0, 0),
     Scenario(MCDropped, 1, 0), Scenario(MCUndone, 0, 1), Scenario(MCFlips, 1, 0)}
=============================================================================
