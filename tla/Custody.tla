------------------------------- MODULE Custody -------------------------------
(***************************************************************************)
(* One node's custody service (distlib-custody service.rs, settling.rs and *)
(* view.rs): it follows the membership until it has settled, computes      *)
(* which items are its own in whole passes, and follows single items       *)
(* between them.  The loop awaits a pass, so the store, the membership and *)
(* the events go on meanwhile.                                             *)
(***************************************************************************)
EXTENDS Ranking

CONSTANTS
    me,
    Groups,         \* the memberships the log may go through
    Stored,         \* what the read model may have of an item
    settle_secs, max_settle_secs,
    MaxTime,        \* bound: the clock
    MaxMemberships, \* bound: changes of the membership
    MaxItemChanges, \* bound: changes of items
    EVENTS_WAITING  \* events that may wait before the oldest are dropped

ASSUME CustodyAssumption ==
    /\ {settle_secs, max_settle_secs, MaxTime, MaxMemberships, MaxItemChanges} \subseteq Nat
    /\ EVENTS_WAITING \in Nat \ {0}
    /\ IsFiniteSet(Item) /\ me \in Node
    /\ \A group \in Groups : DOMAIN group \subseteq Node /\ \A m \in DOMAIN group : group[m] \in Nat
    /\ \A stored \in Stored : stored.creators \subseteq Node /\ stored.size_bytes \in Nat

VARIABLES
    now,
    membership,     \* as the log has it
    unseen,         \* the watch has a membership the loop has not read
    adopted,        \* Settling: the group custody is computed from
    waiting,        \* Settling: {} or {[value, first_change, last_change]}
    store,          \* the read model's items: a function from those it has
    events,         \* items announced as added or changed, in order
    lagged,         \* events were dropped
    replayed,       \* a replay of the read model is not seen yet
    pass,           \* {} or {[group, items]}: a whole pass under way
    view,           \* {} before the first pass, then {CustodyView}
    lost,           \* history: a read of the store failed, and no pass was made since
    memberships, changes

worldVars == <<now, membership, store, memberships, changes>>
loopVars == <<unseen, adopted, waiting, events, lagged, replayed, pass, view, lost>>
vars == <<worldVars, loopVars>>

Parts == UNION {[items -> [stored : Stored, mine : BOOLEAN]] : items \in SUBSET Item}

TypeOK ==
    /\ now \in 0..MaxTime /\ membership \in Groups /\ adopted \in Groups
    /\ waiting \subseteq [value : Groups, first_change : 0..MaxTime, last_change : 0..MaxTime]
    /\ Cardinality(waiting) <= 1 /\ Cardinality(pass) <= 1 /\ Cardinality(view) <= 1
    /\ DOMAIN store \subseteq Item /\ \A item \in DOMAIN store : store[item] \in Stored
    /\ Len(events) <= EVENTS_WAITING
    /\ \A v \in view : v.items \in Parts /\ v.group \in Groups

\* first_group: what the log holds at a start counts as settled, and the first
\* pass is the one after the replay.
Init ==
    /\ now = 0
    /\ membership \in Groups /\ unseen = FALSE
    /\ adopted = membership /\ waiting = {}
    /\ \E items \in SUBSET Item : store \in [items -> Stored] /\ Cardinality(items) <= 1
    /\ events = <<>> /\ lagged = FALSE /\ replayed = TRUE
    /\ pass = {} /\ view = {} /\ lost = FALSE
    /\ memberships = 0 /\ changes = 0

----------------------------------------------------------------------------
(* The log, the read model and the clock.                                  *)

MembershipMoves ==
    /\ memberships < MaxMemberships
    /\ membership' \in Groups \ {membership}
    /\ unseen' = TRUE
    /\ memberships' = memberships + 1
    /\ UNCHANGED <<now, store, changes, adopted, waiting, events, lagged, replayed, pass, view, lost>>

\* An item is added, a file is added to it, or somebody adds the same files.
ItemMoves(item, stored) ==
    /\ changes < MaxItemChanges
    /\ changes' = changes + 1
    /\ store' = [i \in DOMAIN store \cup {item} |-> IF i = item THEN stored ELSE store[i]]
    /\ IF Len(events) < EVENTS_WAITING
       THEN events' = Append(events, item) /\ UNCHANGED lagged
       ELSE events' = Append(Tail(events), item) /\ lagged' = TRUE
    /\ UNCHANGED <<now, membership, memberships, unseen, adopted, waiting, replayed, pass, view, lost>>

\* Settling::deadline.
Deadline(w) ==
    IF w.last_change + settle_secs < w.first_change + max_settle_secs
    THEN w.last_change + settle_secs ELSE w.first_change + max_settle_secs

Idle == pass = {}

\* The clock moves on, in steps longer than a pass takes, and after what is due.
Ticks ==
    /\ now < MaxTime
    /\ Idle /\ ~ unseen /\ \A w \in waiting : Deadline(w) > now
    /\ now' = now + 1
    /\ UNCHANGED <<membership, store, memberships, changes, loopVars>>

----------------------------------------------------------------------------
(* Settling.                                                               *)

\* Settling::change: the same value again changes nothing, a different one
\* restarts the wait but not the limit.
Change(value) ==
    waiting' = IF value = adopted THEN {}
               ELSE IF \E w \in waiting : w.value = value THEN waiting
               ELSE {[value |-> value, last_change |-> now,
                      first_change |-> IF waiting = {} THEN now
                                       ELSE (CHOOSE w \in waiting : TRUE).first_change]}

Follows ==
    /\ Idle /\ unseen
    /\ unseen' = FALSE
    /\ Change(membership)
    /\ UNCHANGED <<worldVars, adopted, events, lagged, replayed, pass, view, lost>>

----------------------------------------------------------------------------
(* The view.                                                               *)

\* CustodyView::compute; the totals are sums over these parts.
Computed(group, items) ==
    [group |-> group,
     items |-> [item \in DOMAIN items |->
                    [stored |-> items[item], mine |-> is_custodian(group, item, items[item], me)]]]

\* What the items weigh together, unit by unit.
Sum(weight_of) == Cardinality(UNION {{item} \X (1..weight_of[item]) : item \in DOMAIN weight_of})

Mine(part) == IF part.mine THEN 1 ELSE 0
MyBytes(part) == IF part.mine THEN part.stored.size_bytes ELSE 0

Weighs(group, part) ==
    [my_items |-> Mine(part), my_bytes |-> MyBytes(part), demand |-> demand_bytes(group, part.stored)]

Nothing == [my_items |-> 0, my_bytes |-> 0, demand |-> 0]

\* add_to_totals of every part of a pass.
Totals(group, items) ==
    [my_items |-> Sum([item \in DOMAIN items |-> Weighs(group, items[item]).my_items]),
     my_bytes |-> Sum([item \in DOMAIN items |-> Weighs(group, items[item]).my_bytes]),
     demand |-> Sum([item \in DOMAIN items |-> Weighs(group, items[item]).demand])]

View(group, items, totals) ==
    [group |-> group, items |-> items, my_items |-> totals.my_items,
     my_bytes |-> totals.my_bytes, demand |-> totals.demand]

Published(v) == {View(v.group, v.items, Totals(v.group, v.items))}

\* Mutant: an item that changed is counted on top of what it was.
Without_mutant(v, item) == Nothing

\* remove_from_totals: what the part an item had weighs.
Without(v, item) ==
    IF item \in DOMAIN v.items THEN Weighs(v.group, v.items[item]) ELSE Nothing

\* CustodyView::update, under the group of the last pass (when it was worked
\* out is left out: only the coverage shown to people reads it).
Updated(v, item, stored) ==
    LET part == [stored |-> stored, mine |-> is_custodian(v.group, item, stored, me)]
        old == Without(v, item)
        new == Weighs(v.group, part) IN
    View(v.group,
         [i \in DOMAIN v.items \cup {item} |-> IF i = item THEN part ELSE v.items[i]],
         [my_items |-> v.my_items + new.my_items - old.my_items,
          my_bytes |-> v.my_bytes + new.my_bytes - old.my_bytes,
          demand |-> v.demand + new.demand - old.demand])

----------------------------------------------------------------------------
(* The loop.                                                               *)

\* whole_pass reads the items, and computes off the loop; or cannot read them.
StartPass(group) ==
    \/ pass' = {[group |-> group, items |-> store]} /\ UNCHANGED lost
    \/ UNCHANGED pass /\ lost' = TRUE

\* Settling::settle, at its deadline.
Settles ==
    /\ Idle
    /\ \E w \in waiting :
          /\ Deadline(w) <= now
          /\ adopted' = w.value
          /\ StartPass(w.value)
    /\ waiting' = {}
    /\ UNCHANGED <<worldVars, unseen, events, lagged, replayed, view>>

Replays ==
    /\ Idle /\ replayed
    /\ replayed' = FALSE
    /\ StartPass(adopted)
    /\ UNCHANGED <<worldVars, unseen, adopted, waiting, events, lagged, view>>

MissedEvents ==
    /\ Idle /\ lagged
    /\ lagged' = FALSE
    /\ StartPass(adopted)
    /\ UNCHANGED <<worldVars, unseen, adopted, waiting, events, replayed, view>>

PassEnds ==
    /\ \E p \in pass : view' = Published(Computed(p.group, p.items))
    /\ pass' = {} /\ lost' = FALSE
    /\ UNCHANGED <<worldVars, unseen, adopted, waiting, events, lagged, replayed>>

\* Mutant: an event heard while there is a view is dropped if its item is known.
follow_item_mutant ==
    /\ Idle /\ ~ lagged /\ events # <<>>
    /\ events' = Tail(events)
    /\ view' = {IF Head(events) \in DOMAIN v.items THEN v
                ELSE Updated(v, Head(events), store[Head(events)]) : v \in view}
    /\ UNCHANGED <<worldVars, unseen, adopted, waiting, lagged, replayed, pass, lost>>

\* One item added or changed: dropped before the first pass, which reads it,
\* and when the store cannot be read.
follow_item ==
    /\ Idle /\ ~ lagged /\ events # <<>>
    /\ events' = Tail(events)
    /\ \/ /\ view' = {Updated(v, Head(events), store[Head(events)]) : v \in view}
          /\ UNCHANGED lost
       \/ /\ lost' = TRUE
          /\ UNCHANGED view
    /\ UNCHANGED <<worldVars, unseen, adopted, waiting, lagged, replayed, pass>>

Loop == Follows \/ Settles \/ Replays \/ MissedEvents \/ PassEnds \/ follow_item

Next ==
    \/ MembershipMoves \/ Ticks \/ Loop
    \/ \E item \in Item, stored \in Stored : ItemMoves(item, stored)

Spec == Init /\ [][Next]_vars

----------------------------------------------------------------------------
(* Properties.                                                             *)

\* With nothing left to read, the view is custody of the items as they are,
\* under the settled group: no change that arrived during a pass is lost
\* (service.rs whole_pass, follow_item), unless a read of the store failed,
\* which is logged and not tried again.
ViewIsCurrent ==
    (Idle /\ ~ replayed /\ ~ lagged /\ events = <<>> /\ ~ lost) =>
        view = Published(Computed(adopted, store))

\* The totals kept as items come and change are those of a whole pass
\* (view.rs insert, add_to_totals, remove_from_totals).
TotalsAddUp == \A v \in view : v \in Published(v)

\* A membership that moves for ever is adopted all the same, at the latest
\* max_settle_secs after it first moved (settling.rs deadline).
AdoptedInTime == \A w \in waiting : now <= w.first_change + max_settle_secs

\* Every item has its replicas: the creators in the group and the custodians
\* make `replicas`, unless too few members have a weight; and no more custodians
\* are named than that takes (custody.rs slots, custodians).
ReplicasAreNamed ==
    \A item \in DOMAIN store :
        LET stored == store[item]
            own == IF stored.creators \cap DOMAIN membership # {} THEN 1 ELSE 0
            named == Cardinality({n \in Node : is_custodian(membership, item, stored, n)}) IN
        \/ own + named = replicas
        \/ own + named < replicas /\ named = Cardinality(candidates(membership, stored))

\* However items and members come and go: the totals are those of a whole pass,
\* a membership is adopted in time, and every item has its replicas (view.rs,
\* settling.rs, custody.rs).
CustodyInv == TypeOK /\ TotalsAddUp /\ AdoptedInTime /\ ReplicasAreNamed

=============================================================================
