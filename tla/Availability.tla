----------------------------- MODULE Availability -----------------------------
(***************************************************************************)
(* One member's heartbeat and one node that hears it: which items the      *)
(* member holds (sync availability.rs), how a beat states them against a   *)
(* published list (statement.rs), what the sender does when it stops       *)
(* (heartbeat.rs), and how the listener keeps who is online (online.rs)    *)
(* and who holds what (holders.rs), with what the API answers from both.   *)
(*                                                                         *)
(* Beats are lost, and arrive late and in any order, those of an earlier   *)
(* run of the member too; lists are fetched by tasks of their own; the     *)
(* member may be expelled and admitted again meanwhile.  A list is named   *)
(* by its hash, and stands here for the set it lists.                      *)
(***************************************************************************)
EXTENDS Naturals, Sequences, FiniteSets

CONSTANTS
    ItemId,
    DELTA_MAX,      \* what a beat may state as changed
    MaxEpoch,       \* bound: runs of the member
    MaxSeq,         \* bound: beats of one run, the goodbye included
    MaxUnderWay,    \* bound: beats under way at a time
    MaxChanges,     \* bound: changes to what it holds
    MaxFaults       \* bound: fetches of a list that fail, and expulsions

ASSUME AvailabilityAssumption ==
    /\ IsFiniteSet(ItemId)
    /\ {DELTA_MAX, MaxEpoch, MaxSeq, MaxUnderWay, MaxChanges, MaxFaults} \subseteq Nat

VARIABLES
    held,           \* Holdings: the items whose content is complete and kept
    base,           \* Statement: the list last published, {} or {it}
    epoch, seq,     \* of the run under way, and its last beat
    up,             \* the member's node is running
    beats,          \* under way
    said,           \* history: [epoch, items, holdings] of every beat, in order
    member,         \* the listener's membership admits the sender
    online,         \* Online: [epoch, seq, counts], {} when not heard of
    stated,         \* Holders: where the listener is with the sender's list
    index,          \* Holders: what the map has for the sender
    fetches,        \* the lists being fetched
    standing,       \* history: the place in `said` of the beat it went offline by,
                    \* 0 with none or when the listener has no record of it
    holding_changes, faults

senderVars == <<held, base, epoch, seq, up, said, holding_changes>>
availabilityVars == <<senderVars, beats, member, online, stated, index, fetches, faults, standing>>

Holdings == [count : Nat, base : SUBSET SUBSET ItemId, added : SUBSET ItemId, removed : SUBSET ItemId]
Beat == [at : Nat, epoch : Nat, seq : Nat, leaving : BOOLEAN, holdings : Holdings]
NoStatement == [count |-> 0, base |-> {}, added |-> {}, removed |-> {}]

\* None, Unknown { base, latest, fetching }, Known { base, added, removed }
\* and Broken { base } in one shape.
Unstated == [is |-> "none", latest |-> NoStatement, fetching |-> FALSE]

AvailabilityTypeOK ==
    /\ held \subseteq ItemId /\ base \in SUBSET SUBSET ItemId /\ Cardinality(base) <= 1
    /\ epoch \in 0..MaxEpoch /\ seq \in 0..MaxSeq
    /\ up \in BOOLEAN /\ member \in BOOLEAN
    /\ \A beat \in beats : beat \in Beat /\ beat.at \in DOMAIN said
    /\ Cardinality(online) <= 1
    /\ stated.is \in {"none", "unknown", "known", "broken"}
    /\ stated.latest \in Holdings /\ stated.fetching \in BOOLEAN
    /\ index \subseteq ItemId
    /\ fetches \subseteq SUBSET ItemId
    /\ standing \in 0..Len(said)

AvailabilityInit ==
    /\ held = {} /\ base = {} /\ epoch = 0 /\ seq = 0 /\ up = FALSE
    /\ beats = {} /\ said = <<>>
    /\ member = TRUE /\ online = {} /\ stated = Unstated /\ index = {} /\ fetches = {}
    /\ standing = 0
    /\ holding_changes = 0 /\ faults = 0

----------------------------------------------------------------------------
(* The sender.                                                             *)

\* Availability::start: an epoch no other run has, nothing published or said.
NewRun == epoch' = epoch + 1 /\ seq' = 0 /\ base' = {}

\* join_when_founded: the group is there and its topic joined.
Starts ==
    /\ ~ up /\ epoch < MaxEpoch
    /\ up' = TRUE
    /\ NewRun
    /\ UNCHANGED <<held, said, holding_changes, beats, member, online, stated, index, fetches, faults, standing>>

\* Holdings::recheck finds an item complete and kept, or not; forget is the
\* second of the two.
Rechecks(item) ==
    /\ holding_changes < MaxChanges
    /\ held' = IF item \in held THEN held \ {item} ELSE held \cup {item}
    /\ holding_changes' = holding_changes + 1
    /\ UNCHANGED <<base, epoch, seq, up, said, beats, member, online, stated, index, fetches, faults, standing>>

Listed(list) == IF list = {} THEN {} ELSE CHOOSE items \in list : TRUE

\* Statement::delta, and what a beat then states.
Stating(list) ==
    [count |-> Cardinality(held), base |-> list,
     added |-> held \ Listed(list), removed |-> Listed(list) \ held]

Size(stating) == Cardinality(stating.added) + Cardinality(stating.removed)

\* Statement::holdings: a new list when the change does not fit, or when there
\* is one and the set has been quiet for a while.
Bases == IF Size(Stating(base)) > DELTA_MAX THEN {{held}}
         ELSE IF Size(Stating(base)) > 0 THEN {base, {held}}
         ELSE {base}

\* A beat goes out: it may be lost, but only while another is to come, as in the
\* code one always is.
Sent(items, stating, leaving) ==
    LET beat == [at |-> Len(said) + 1, epoch |-> epoch, seq |-> seq', leaving |-> leaving,
                 holdings |-> stating] IN
    /\ said' = Append(said, [epoch |-> epoch, items |-> items, holdings |-> stating])
    /\ \/ Cardinality(beats) < MaxUnderWay /\ beats' = beats \cup {beat}
       \/ (leaving \/ seq' < MaxSeq - 1) /\ beats' = beats

\* One turn of `beat`: due, moved, a neighbour up or a change.
Beats ==
    /\ up /\ seq < MaxSeq - 1
    /\ seq' = seq + 1
    /\ base' \in Bases
    /\ Sent(held, Stating(base'), FALSE)
    /\ UNCHANGED <<held, epoch, up, holding_changes, member, online, stated, index, fetches, faults, standing>>

\* `leave`: no beat may follow the goodbye, which is the last beat said, one on.
Leaves ==
    /\ up /\ seq > 0
    /\ up' = FALSE
    /\ seq' = seq + 1
    /\ Sent(said[Len(said)].items, said[Len(said)].holdings, TRUE)
    /\ UNCHANGED <<held, base, epoch, holding_changes, member, online, stated, index, fetches, faults, standing>>

\* `shutdown`, or a crash: not a word.
Crashes ==
    /\ up /\ epoch < MaxEpoch
    /\ up' = FALSE
    /\ UNCHANGED <<held, base, epoch, seq, said, holding_changes, beats, member, online, stated, index,
                   fetches, faults, standing>>

----------------------------------------------------------------------------
(* Holders.                                                                *)

\* The previous change taken back: its removed come back, its added go.
Undone(items, latest) == (items \cup latest.removed) \ latest.added

\* restate: the new change applied to a map that has `items` under the change
\* `latest`, and checked against the count.
Restated(items, latest, new) ==
    LET now == (Undone(items, latest) \cup new.added) \ new.removed IN
    IF Cardinality(now) = new.count
    THEN /\ index' = now
         /\ stated' = [is |-> "known", latest |-> new, fetching |-> FALSE]
    ELSE /\ index' = {}
         /\ stated' = [Unstated EXCEPT !.is = "broken", !.latest = [NoStatement EXCEPT !.base = new.base]]

Fetching(list) == fetches' = fetches \cup list

\* Holders::heard.
HeldHeard(new) ==
    IF stated.is # "none" /\ stated.latest.base = new.base
    THEN \/ /\ stated.is = "known"
            /\ Restated(index, stated.latest, new)
            /\ UNCHANGED fetches
         \/ /\ stated.is = "unknown"
            /\ stated' = [stated EXCEPT !.latest = new, !.fetching = TRUE]
            /\ IF stated.fetching THEN UNCHANGED fetches ELSE Fetching(new.base)
            /\ UNCHANGED index
         \/ /\ stated.is = "broken"
            /\ UNCHANGED <<stated, index, fetches>>
    ELSE IF new.base = {}
         THEN Restated({}, NoStatement, new) /\ UNCHANGED fetches
         ELSE /\ stated' = [is |-> "unknown", latest |-> new, fetching |-> TRUE]
              /\ index' = {}
              /\ Fetching(new.base)

----------------------------------------------------------------------------
(* The listener.                                                           *)

\* Mutant: the numbers of two runs are compared.
IsNews_mutant(beat) == \A was \in online : was.seq < beat.seq

\* Online::heard's rule: another epoch always, within one a higher seq.
IsNews(beat) == \A was \in online : ~ (was.epoch = beat.epoch /\ beat.seq <= was.seq)

\* Bound: a member that stays up goes on beating in the code, and here it stops.
\* Its last beat stands for all that would follow: it is not lost, waits for the
\* membership to admit its sender, and nothing of an earlier run comes after it.
Settled == up /\ seq = MaxSeq - 1
InTime(beat) == ~ Settled \/ (beat.epoch = epoch /\ (member \/ beat.seq # seq))

\* What took the member offline is remembered with the newest beat, and goes
\* with it when another run's takes its place.
Remembers(beat) ==
    standing' = IF beat.leaving THEN beat.at
                ELSE IF standing # 0 /\ said[standing].epoch # beat.epoch THEN 0
                ELSE standing

\* Mutant: a beat that is no news still counts the member online for a while.
Hears_mutant(beat) ==
    /\ beat \in beats /\ InTime(beat)
    /\ beats' = beats \ {beat}
    /\ IF member /\ IsNews(beat)
       THEN /\ online' = {[epoch |-> beat.epoch, seq |-> beat.seq, at |-> beat.at, counts |-> ~ beat.leaving]}
            /\ HeldHeard(beat.holdings)
            /\ Remembers(beat)
       ELSE /\ online' = {[was EXCEPT !.counts = ~ beat.leaving] : was \in online}
            /\ UNCHANGED <<stated, index, fetches, standing>>
    /\ UNCHANGED <<senderVars, member, faults>>

\* `hear`: from a member, and news, or dropped.
Hears(beat) ==
    /\ beat \in beats /\ InTime(beat)
    /\ beats' = beats \ {beat}
    /\ IF member /\ IsNews(beat)
       THEN /\ online' = {[epoch |-> beat.epoch, seq |-> beat.seq, at |-> beat.at, counts |-> ~ beat.leaving]}
            /\ HeldHeard(beat.holdings)
            /\ Remembers(beat)
       ELSE UNCHANGED <<online, stated, index, fetches, standing>>
    /\ UNCHANGED <<senderVars, member, faults>>

\* The newest beat runs out: three intervals of the sender have passed without
\* another, which the last of one that stays up is never left without.
Expires ==
    /\ \E was \in online :
        /\ was.counts /\ ~ (Settled /\ was.at = Len(said))
        /\ online' = {[was EXCEPT !.counts = FALSE]}
        /\ standing' = was.at
    /\ UNCHANGED <<senderVars, beats, member, stated, index, fetches, faults>>

\* Every turn ends by publishing who is online.
IsOnline == \E was \in online : was.counts

\* Mutant: only who is online is cleared.
Expelled_mutant ==
    /\ member /\ faults < MaxFaults /\ ~ Settled
    /\ member' = FALSE /\ faults' = faults + 1
    /\ online' = {} /\ standing' = 0
    /\ UNCHANGED <<senderVars, beats, stated, index, fetches>>

\* retain_members of both, at a change of the membership.
Expelled ==
    /\ member /\ faults < MaxFaults /\ ~ Settled
    /\ member' = FALSE /\ faults' = faults + 1
    /\ online' = {} /\ standing' = 0
    /\ stated' = Unstated /\ index' = {}
    /\ UNCHANGED <<senderVars, beats, fetches>>

Readmitted ==
    /\ ~ member
    /\ member' = TRUE
    /\ UNCHANGED <<senderVars, beats, online, stated, index, fetches, faults, standing>>

Wants(list) == stated.is = "unknown" /\ stated.latest.base = {list}

\* take_in and `arrived`: ignored if a newer beat has named another since.
Arrives(list) ==
    /\ list \in fetches
    /\ fetches' = fetches \ {list}
    /\ IF Wants(list)
       THEN Restated(list, [stated.latest EXCEPT !.added = {}, !.removed = {}], stated.latest)
       ELSE UNCHANGED <<stated, index>>
    /\ UNCHANGED <<senderVars, beats, member, online, faults, standing>>

\* `failed`: the member could not be reached, or the sender has published
\* another list since and collected this one; the next beat that names it tries
\* again.  A list too big or unreadable is no honest member's.
FetchFails(list) ==
    /\ list \in fetches /\ faults < MaxFaults /\ ~ Settled
    /\ faults' = faults + 1
    /\ fetches' = fetches \ {list}
    /\ stated' = IF Wants(list) THEN [stated EXCEPT !.fetching = FALSE] ELSE stated
    /\ UNCHANGED <<senderVars, beats, member, online, index, standing>>

----------------------------------------------------------------------------

Listens ==
    \/ \E beat \in beats : Hears(beat)
    \/ Expires
    \/ \E list \in fetches : Arrives(list)

AvailabilityNext ==
    \/ Starts \/ Beats \/ Leaves \/ Crashes \/ (\E item \in ItemId : Rechecks(item))
    \/ Expelled \/ Readmitted
    \/ Listens \/ \E list \in fetches : FetchFails(list)

\* The listener's loop and its fetches run; a member that is up goes on beating.
Fairness == WF_availabilityVars(Listens) /\ WF_availabilityVars(Beats) /\ WF_availabilityVars(Starts) /\ WF_availabilityVars(Readmitted)

AvailabilitySpec == AvailabilityInit /\ [][AvailabilityNext]_availabilityVars /\ Fairness

----------------------------------------------------------------------------
(* What the API says from it (distlib-api availability.rs).                *)

\* Mutant: a member whose list is not here counts as one without the item.
providers_mutant(item) == {IF IsOnline /\ item \in index THEN 1 ELSE 0}

\* Seen::providers, of one other member: {} while it is online and unknown.
providers(item) ==
    IF IsOnline /\ stated.is # "known" THEN {}
    ELSE {IF IsOnline /\ item \in index THEN 1 ELSE 0}

----------------------------------------------------------------------------
(* Properties.                                                             *)

HeardAt == IF online = {} THEN 0 ELSE (CHOOSE was \in online : TRUE).at

\* The listener implements its promise: it says nothing, or exactly what the
\* member held when it sent the beat last accepted, whatever was lost, late or
\* fetched out of order (holders.rs heard, arrived, restate).
Promise == INSTANCE WhatIsHeld WITH
    Item <- ItemId, said <- said, heard <- HeardAt, view <- IF stated.is = "known" THEN {index} ELSE {}

Implements == Promise!Spec

\* An honest member's statement always adds up: it is never dropped for a count
\* that is off (holders.rs restate).
AddsUp == stated.is # "broken"

\* What took a member offline stands, a goodbye or a beat that ran out: no beat
\* sent before it brings the member back, however late it arrives and whatever
\* came in between, until the listener hears another run of the member, or loses
\* its record with the membership (online.rs Heard.until).
GoodbyeStands == \A was \in online : was.counts => was.at > standing

\* Nobody is counted as not having an item it said it has: the count is withheld
\* while the list of a member counted online is not here (Seen::providers).
NotShort ==
    \A item \in ItemId :
        (providers(item) = {0} /\ IsOnline /\ HeardAt # 0) => item \notin said[HeardAt].items

\* A member that stays up is in the end counted online and known to hold what it
\* last said, whatever its earlier runs said late, and one that is gone is not
\* counted online (Online::heard, expire, Holders::heard, failed).
KnownInTheEnd ==
    <>[](IF up THEN /\ said # <<>> /\ IsOnline
                    /\ stated.is = "known" /\ index = said[Len(said)].items
         ELSE ~ IsOnline)

\* What is known of a member adds up and is never short of what it said, in
\* whatever order its beats and lists arrive (holders.rs, Seen::providers).
AvailabilityInv == AvailabilityTypeOK /\ AddsUp /\ NotShort

=============================================================================
