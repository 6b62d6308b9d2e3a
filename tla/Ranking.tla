------------------------------- MODULE Ranking -------------------------------
(***************************************************************************)
(* Who keeps which item: the ranking of distlib-core custody.rs, computed  *)
(* by every node from the pledges in the membership log alone.             *)
(*                                                                         *)
(* A group is a function from its members to their pledges.  The scores    *)
(* (weighted rendezvous hashing) are kept as the order they put the        *)
(* members in, per item; the rules around them are those of the code.      *)
(***************************************************************************)
EXTENDS Naturals, Sequences, FiniteSets

CONSTANTS
    Node, Item,
    Score,          \* per item, the members from the highest score down
    replicas,
    min_bytes, cap_bytes, step_bytes    \* WeightRule

ASSUME RankingAssumption ==
    /\ replicas \in Nat \ {0}
    /\ {min_bytes, cap_bytes, step_bytes} \subseteq Nat
    /\ \A item \in Item :
        Score[item] \in Seq(Node) /\ {Score[item][k] : k \in DOMAIN Score[item]} = Node

\* WeightRule::weight.
weight(pledge) ==
    LET capped == IF pledge < cap_bytes THEN pledge ELSE cap_bytes IN
    IF pledge < min_bytes THEN 0
    ELSE IF step_bytes = 0 THEN capped
    ELSE capped - (capped % step_bytes)

\* CustodyGroup::new: the only members ranked.
weighted(group) == {member \in DOMAIN group : weight(group[member]) > 0}

\* The creator's own copy is the first replica, while it is a member.
slots(group, stored) ==
    IF stored.creators \cap DOMAIN group # {} THEN replicas - 1 ELSE replicas

candidates(group, stored) == weighted(group) \ stored.creators

Place(item, member) == CHOOSE k \in DOMAIN Score[item] : Score[item][k] = member

\* The candidates that rank above `member`.
Above(group, item, stored, member) ==
    {other \in candidates(group, stored) : Place(item, other) < Place(item, member)}

custodians(group, item, stored) ==
    {member \in candidates(group, stored) :
        Cardinality(Above(group, item, stored, member)) < slots(group, stored)}

\* What `custodians` says, without scoring every member.
is_custodian(group, item, stored, me) ==
    /\ me \in weighted(group) \ stored.creators
    /\ slots(group, stored) > 0
    /\ Cardinality(Above(group, item, stored, me)) < slots(group, stored)

\* The first after the custodians, of those eligible: {} or {it}.
first_after_custodians(group, item, stored, eligible) ==
    LET after == (candidates(group, stored) \ custodians(group, item, stored)) \cap eligible IN
    {member \in after : Above(group, item, stored, member) \cap after = {}}

demand_bytes(group, stored) == stored.size_bytes * slots(group, stored)
=============================================================================
