-------------------------------- MODULE Pins --------------------------------
(***************************************************************************)
(* The pin manager (distlib-custody pins.rs): one loop that keeps what this*)
(* node is custodian of, fetching it as jobs of Keeping, and lets go of    *)
(* what it no longer is once enough copies are elsewhere.                  *)
(***************************************************************************)
EXTENDS Keeping

CONSTANTS
    max_fetches,
    CHANGES_WAITING     \* custody changes that may wait before the oldest are dropped

ASSUME PinsAssumption == {max_fetches, CHANGES_WAITING} \subseteq Nat \ {0}

VARIABLES
    adopted,        \* {} before custody's first pass, then {the settled group}
    changes,        \* custody changes not heard yet: [kind, items]
    lagged,         \* changes were dropped
    pins,           \* Item -> its Pin, "none" for an item not looked after
    queue,          \* the queued items, by turn
    wanted_again, availability_changed,     \* items being fetched
    losing,         \* items release_if_safe is still to be asked about
    letting_go,     \* {} or {the item whose tags are being moved to the cache}
    look,           \* an availability change waits to be acted on
    upgrade_required,
    crossed,        \* history: items whose answer that there was no room was
                    \* on its way when room was made, or whose fetch panicked
    unheard         \* history: items fetched as they were, or passed as held,
                    \* whose change was told to no avail

pinVars == <<adopted, changes, lagged, pins, queue, wanted_again, availability_changed, losing,
             letting_go, look, upgrade_required, crossed, unheard>>

Pin == {"none", "Queued", "Fetching", "Failed", "WaitingForRoom", "Kept", "Releasing"}

\* Custody of the items this node knows, under the settled group.
keeps(item) == \E group \in adopted : files[item] # {} /\ is_custodian(group, item, Stored(item), me)
my_items == {item \in Item : keeps(item)}

\* The loop takes its next turn once a handler has ended and fetches are started.
CanStart == queue # <<>> /\ Cardinality({item \in Item : pins[item] = "Fetching"}) < max_fetches
Waits == losing = {} /\ letting_go = {} /\ ~ CanStart

----------------------------------------------------------------------------
(* Starting fetches.                                                       *)

live_copies(item) == Cardinality((holders[item] \ {me}) \cap online)

\* The fewest live copies first, and the earliest turn among as many.
next_to_fetch(k) ==
    \A l \in DOMAIN queue :
        /\ live_copies(queue[k]) <= live_copies(queue[l])
        /\ live_copies(queue[k]) = live_copies(queue[l]) => k <= l

Unqueued(item) ==
    IF \E k \in DOMAIN queue : queue[k] = item
    THEN RemoveAt(queue, CHOOSE k \in DOMAIN queue : queue[k] = item)
    ELSE queue

start_fetches ==
    /\ losing = {} /\ letting_go = {} /\ CanStart
    /\ \E k \in DOMAIN queue :
       /\ next_to_fetch(k)
       /\ pins' = [pins EXCEPT ![queue[k]] = "Fetching"]
       /\ queue' = RemoveAt(queue, k)
       /\ wanted_again' = wanted_again \ {queue[k]}
       /\ availability_changed' = availability_changed \ {queue[k]}
       /\ jobs' = jobs \cup {NewJob("custody", queue[k], "start")}
       /\ unheard' = unheard \ {queue[k]}
    /\ UNCHANGED <<worldVars, keepVars, adopted, changes, lagged, losing, letting_go, look,
                   upgrade_required, crossed>>

----------------------------------------------------------------------------
(* Hearing of custody.                                                     *)

\* `wanted`: queued, unless it waits already, or is being fetched.
Wanted(items) ==
    /\ pins' = [item \in Item |->
                    IF item \in items /\ pins[item] # "Fetching" THEN "Queued" ELSE pins[item]]
    /\ \E order \in SetToSeqs({item \in items : pins[item] \notin {"Queued", "Fetching"}}) :
          queue' = queue \o order
    /\ wanted_again' = wanted_again \cup {item \in items : pins[item] = "Fetching"}

\* `lose`: one being fetched is decided once the fetch ends.
Lost(items) == {item \in items : pins[item] \notin {"none", "Fetching"}}

\* Being fetched without the files added to it since.
Outgrown ==
    {item \in Item : \E j \in jobs : j.why = "custody" /\ j.item = item /\ j.step # "start" /\ j.files # files[item]}

\* Every file of it is here, and kept for custody.
KeptWhole(item) == \A f \in files[item] : here[f] = "complete" /\ <<"custody", item, f>> \in tags

\* After each whole pass; nothing before the first.
read_custody_again ==
    IF adopted = {} THEN UNCHANGED <<pins, queue, wanted_again, losing, unheard>>
    ELSE /\ Wanted({item \in my_items :
                      \/ pins[item] \in {"none", "Releasing"}
                      \/ pins[item] = "Kept" /\ item \notin held})
         /\ losing' = Lost(Item \ my_items)
         /\ unheard' = unheard \cup Outgrown
                         \cup {item \in my_items \cap held : pins[item] = "Kept" /\ ~ KeptWhole(item)}

Changed(change) ==
    \/ change.kind = "recomputed" /\ read_custody_again
    \/ change.kind = "mine" /\ Wanted(change.items) /\ UNCHANGED <<losing, unheard>>
    \/ /\ change.kind = "not mine"
       /\ losing' = Lost(change.items)
       /\ unheard' = unheard \cup (Outgrown \cap change.items)
       /\ UNCHANGED <<pins, queue, wanted_again>>

HearsChange ==
    /\ Waits /\ ~ lagged /\ changes # <<>>
    /\ changes' = Tail(changes)
    /\ Changed(Head(changes))
    /\ UNCHANGED <<keepingVars, adopted, lagged, availability_changed, letting_go, look,
                   upgrade_required, crossed>>

HearsLagged ==
    /\ Waits /\ lagged
    /\ lagged' = FALSE
    /\ read_custody_again
    /\ UNCHANGED <<keepingVars, adopted, changes, availability_changed, letting_go, look,
                   upgrade_required, crossed>>

----------------------------------------------------------------------------
(* Fetches that ended.                                                     *)

Next_(item, result) ==
    CASE item \in wanted_again -> "Queued"
      [] item \notin wanted_again /\ result = "ok" -> "Kept"
      [] item \notin wanted_again /\ result = "noroom" -> "WaitingForRoom"
      [] OTHER -> IF item \in availability_changed THEN "Queued" ELSE "Failed"

\* Mutant: a file added meanwhile is not fetched.
fetched_mutant(item, result) ==
    /\ pins' = [pins EXCEPT ![item] = IF result = "ok" THEN "Kept" ELSE Next_(item, result)]
    /\ queue' = IF pins'[item] = "Queued" THEN Append(queue, item) ELSE queue
    /\ UNCHANGED losing

\* Lost while it was being fetched, or what the result makes of it.
fetched(item, result) ==
    IF ~ keeps(item) THEN losing' = {item} /\ UNCHANGED <<pins, queue>>
    ELSE /\ pins' = [pins EXCEPT ![item] = Next_(item, result)]
         /\ queue' = IF Next_(item, result) = "Queued" THEN Append(queue, item) ELSE queue
         /\ UNCHANGED losing

FetchEnds(j) ==
    /\ Waits /\ j.why = "custody" /\ j.step = "done"
    /\ jobs' = jobs \ {j}
    /\ fetched(j.item, j.result)
    /\ UNCHANGED <<worldVars, keepVars, adopted, changes, lagged, wanted_again, availability_changed,
                   letting_go, look, upgrade_required, crossed, unheard>>

\* The task panicked: it failed, whatever happened meanwhile.
fetch_panicked(j) ==
    /\ Waits /\ j.why = "custody" /\ j.step = "fetch"
    /\ jobs' = jobs \ {j}
    /\ pins' = [pins EXCEPT ![j.item] = "Failed"]
    /\ crossed' = crossed \cup {j.item}
    /\ UNCHANGED <<worldVars, keepVars, adopted, changes, lagged, queue, wanted_again,
                   availability_changed, losing, letting_go, look, upgrade_required, unheard>>

----------------------------------------------------------------------------
(* Availability, and letting go.                                           *)

\* Mutant: what failed is not tried again.
LooksAtAvailability_mutant ==
    /\ Waits /\ look
    /\ look' = FALSE
    /\ availability_changed' = availability_changed \cup {item \in Item : pins[item] = "Fetching"}
    /\ losing' = {item \in Item : pins[item] = "Releasing"}
    /\ UNCHANGED <<keepingVars, adopted, changes, lagged, pins, queue, wanted_again, letting_go,
                   upgrade_required, crossed, unheard>>

\* Whatever failed is tried again, what is being fetched will be, and what is
\* being let go of is looked at.
LooksAtAvailability ==
    /\ Waits /\ look
    /\ look' = FALSE
    /\ availability_changed' = availability_changed \cup {item \in Item : pins[item] = "Fetching"}
    /\ LET failed == {item \in Item : pins[item] = "Failed"} IN
       /\ pins' = [item \in Item |-> IF item \in failed THEN "Queued" ELSE pins[item]]
       /\ \E order \in SetToSeqs(failed) : queue' = queue \o order
    /\ losing' = {item \in Item : pins[item] = "Releasing"}
    /\ UNCHANGED <<keepingVars, adopted, changes, lagged, wanted_again, letting_go,
                   upgrade_required, crossed, unheard>>

\* Not while anyone online has not said what it holds.
enough_copies_elsewhere(item) == (unknown \cap online) \ {me} = {} /\ live_copies(item) >= replicas

\* release_if_safe, up to the tags.
ReleaseIfSafe(item) ==
    /\ letting_go = {} /\ item \in losing
    /\ losing' = losing \ {item}
    /\ IF upgrade_required \/ (item \in held /\ ~ enough_copies_elsewhere(item))
       THEN /\ pins' = [pins EXCEPT ![item] = "Releasing"]
            /\ queue' = Unqueued(item)
            /\ UNCHANGED <<letting_go, tags>>
       ELSE /\ letting_go' = {item}
            /\ tags' = tags \cup {<<"cache", item, f>> : f \in kept_for("custody", item)}
            /\ UNCHANGED <<pins, queue>>
    /\ UNCHANGED <<worldVars, here, held, used, making_room, overtaken, evicted, shared, jobs,
                   adopted, changes, lagged, wanted_again, availability_changed, look,
                   upgrade_required, crossed, unheard>>

\* Their fetch was told that there is no room, and has not said so yet.
ToldThereIsNone ==
    {j.item : j \in {k \in jobs : k.why = "custody" /\ (k.short \/ k.result = "noroom")}}

\* Letting go of one is room for those that wait; one whose fetch has been told
\* there is none, and is not heard of yet, is missed.
ask_again_for_room(item) ==
    LET waiting == {other \in Item : pins[other] = "WaitingForRoom"} \ {item} IN
    /\ pins' = [other \in Item |-> IF other = item THEN "none"
                                   ELSE IF other \in waiting THEN "Queued" ELSE pins[other]]
    /\ \E order \in SetToSeqs(waiting) :
          queue' = Unqueued(item) \o order
    /\ crossed' = crossed \cup ToldThereIsNone

\* Keeper::release, once the cache keeps it: the custody tags go, and it counts
\* as used.
Released ==
    /\ \E item \in letting_go :
          /\ tags' = {tag \in tags : ~ (tag[1] = "custody" /\ tag[2] = item)}
          /\ mark_used(item)
          /\ ask_again_for_room(item)
    /\ letting_go' = {}
    /\ UNCHANGED <<worldVars, here, held, making_room, overtaken, evicted, shared, jobs, adopted, changes,
                   lagged, wanted_again, availability_changed, losing, look, upgrade_required, unheard>>

Loop ==
    \/ start_fetches \/ HearsChange \/ HearsLagged \/ LooksAtAvailability \/ Released
    \/ \E j \in jobs : FetchEnds(j)
    \/ \E item \in Item : ReleaseIfSafe(item)

----------------------------------------------------------------------------
(* Properties.                                                             *)

Fetching(item) == pins[item] = "Fetching"

PinsTypeOK ==
    /\ pins \in [Item -> Pin]
    /\ {queue[k] : k \in DOMAIN queue} = {item \in Item : pins[item] = "Queued"}
    /\ Cardinality({queue[k] : k \in DOMAIN queue}) = Len(queue)
    /\ Cardinality({item \in Item : Fetching(item)}) <= max_fetches
    /\ jobs \subseteq Job
    /\ \A item \in Item \ (losing \cup letting_go) : Fetching(item) <=> Busy("custody", item)

Heard(item) == \E k \in DOMAIN changes : item \in changes[k].items

\* An item that counts as kept is whole and tagged, every file of it, those
\* added while it was being fetched included, unless a change of it is still to
\* be heard, it is being let go of, or it is one `unheard` names (pins.rs fetched,
\* wanted, read_custody_again).
KeptIsWhole ==
    \A item \in Item \ (losing \cup letting_go \cup unheard) :
        pins[item] = "Kept" => KeptWhole(item) \/ lagged \/ Heard(item)

\* An item waits for room only while it would not fit with all that can go gone,
\* unless the answer that it does not fit crossed with a release that made room
\* (pins.rs ask_again_for_room).
WaitsForRoomOnly ==
    \A item \in Item \ crossed :
        (pins[item] = "WaitingForRoom" /\ losing = {} /\ letting_go = {}) =>
            LET needed == uncounted_bytes(files[item]) IN
            \A items \in evictions(item, needed) : ~ Fits(items, needed)
=============================================================================
