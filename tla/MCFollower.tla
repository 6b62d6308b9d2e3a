----------------------------- MODULE MCFollower -----------------------------
(* Instances of Follower for TLC.                                          *)
EXTENDS Follower

CONSTANTS s1, s2, s3, me

Do(op, who) == [op |-> op, who |-> who]
At(seen, c) == [do |-> c, seen |-> seen]

\* Two core nodes, and the follower admitted by them.
MCTwoPrelude == <<At(0, Do("found", {s1, s2}))>>
MCMemberPrelude == MCTwoPrelude \o <<At(1, Do("admit", {me}))>>
MCAdmissions == {Do("blank", {}), Do("admit", {me}), Do("expel", {me})}
MCRaises == {Do("blank", {}), Do("raise", {}), Do("alien", {})}

\* One core node and the follower; the seat moves on twice, to nodes admitted
\* on the way.
MCMovesPrelude ==
    <<At(0, Do("found", {s1})), At(1, Do("admit", {me})),
      At(2, Do("admit", {s2})), At(3, Do("core", {s2})),
      At(4, Do("admit", {s3})), At(5, Do("core", {s3}))>>
MCMovePrelude == SubSeq(MCMovesPrelude, 1, 4)

Scenario(founders, prelude, changes, max_log, outages, fails, crashes) ==
    [founders |-> founders, prelude |-> prelude, changes |-> changes, max_log |-> max_log,
     outages |-> outages, fails |-> fails, crashes |-> crashes]

\* The seat has moved on twice while the follower was away.
MCReturn == Scenario({s1}, MCMovesPrelude, {}, 6, 1, 0, 1)

\* The follower is admitted and expelled on the way; the group raises its
\* protocol past the follower's build, and storage fails; the seat moves once
\* while the follower reads, and the follower may be expelled after that.
MCScenarios ==
    {Scenario({s1, s2}, MCTwoPrelude, MCAdmissions, 3, 0, 0, 1),
     Scenario({s1, s2}, MCMemberPrelude, MCRaises, 4, 0, 0, 1),
     Scenario({s1, s2}, MCMemberPrelude, MCRaises, 3, 0, 1, 1),
     Scenario({s1}, MCMovePrelude, {Do("expel", {me})}, 5, 0, 0, 0),
     MCReturn}

\* A follower that stopped early in the log comes back when the seat has
\* moved on twice: s1 retired at 4, s2 at 6, and s3 is seated.
ReturnInit ==
    /\ LogInit /\ scenario = MCReturn
    /\ seat = [s \in Server |-> s = s3]
    /\ applied \in [Server -> {0, 4, 6}] /\ applied[s1] = 4 /\ applied[s2] = 6
    /\ proj \in [Server -> 0..6] /\ proj[s1] >= 4 /\ proj[s2] = 6 /\ proj[s3] = applied[s3]
    /\ promo = [s \in Server |-> CASE s = s1 -> 0 [] s = s2 -> 4 [] s = s3 -> 6]
    /\ allow = [s \in Server |-> truth[IF s = s1 THEN proj[s1] ELSE 6].members]
    /\ reach = Server
    /\ \E k \in 0..3 :
        /\ mem = [state |-> truth[k], followed_upto |-> k]
        /\ sources = IF truth[k].group THEN truth[k].core ELSE Founders
    /\ disk = mem /\ announced = mem.state
    /\ enforced = Founders
    /\ pc = "waiting" /\ pass = NoPass /\ page = NoPage
    /\ expelled = FALSE /\ upgrade = FALSE
    /\ faults = [outages |-> 0, fails |-> 0, crashes |-> 0]

MCInit == (FollowerInit /\ scenario # MCReturn) \/ ReturnInit

MCSpec == MCInit /\ [][FollowerNext]_systemVars /\ Fairness
=============================================================================
