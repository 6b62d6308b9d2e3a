----------------------- MODULE HoldersAndCustodyProofs -----------------------
(***************************************************************************)
(* Who holds what, and who is to hold it: theorems about Availability and  *)
(* about Custody, which share nothing but what proving them takes.         *)
(***************************************************************************)
EXTENDS Availability, Custody, FiniteSetTheorems, TLAPS

(***************************************************************************)
(* Theorems about one member's heartbeat and a node that hears it, for     *)
(* every set of items, however many beats are lost, late or out of order:  *)
(* the listener implements WhatIsHeld, and what took the member offline    *)
(* stands while a record of that run is kept.                              *)
(*                                                                         *)
(* The argument: every statement is Exact for what the member held later,   *)
(* so that taking the previous change back leaves the list both refer to;  *)
(* within one run, positions in `said` and sequence numbers agree, so that *)
(* what Online accepts is later; and what the member went offline by is of *)
(* the run of the record, and no later than it.                            *)
(***************************************************************************)

OneList(list) == list = {} \/ \E items \in SUBSET ItemId : list = {items}

\* What h states, read against its list, is exactly `items`.
Exact(h, items) ==
    /\ OneList(h.base)
    /\ h.added = items \ Listed(h.base)
    /\ h.removed = Listed(h.base) \ items
    /\ h.count = Cardinality(items)

Utterance == [epoch : Nat, items : SUBSET ItemId, holdings : Holdings]
Hearing == [epoch : Nat, seq : Nat, at : Nat, counts : BOOLEAN]

\* The sender: what it has said, and where it is in its run.
SenderOK ==
    /\ held \subseteq ItemId /\ OneList(base)
    /\ epoch \in 0..MaxEpoch /\ seq \in 0..MaxSeq /\ up \in BOOLEAN
    /\ said \in Seq(Utterance)
    /\ \A k \in DOMAIN said : Exact(said[k].holdings, said[k].items)
    /\ seq > 0 => said # <<>>
    /\ up /\ seq > 0 => seq < MaxSeq

\* u, a beat or the record of one, is of the utterance it points at.
Of(u) ==
    /\ u.at \in DOMAIN said /\ u.epoch = said[u.at].epoch
    /\ u.epoch <= epoch /\ (u.epoch = epoch => u.seq <= seq)

BeatsOK == \A b \in beats : b \in Beat /\ Of(b) /\ b.holdings = said[b.at].holdings

OnlineOK ==
    /\ online = {} \/ \E was \in Hearing : online = {was}
    /\ \A was \in online : Of(was)

\* Within a run, the order of the numbers is the order of the utterances.
Ordered ==
    \A u, v \in beats \cup online : (u.epoch = v.epoch /\ u.seq < v.seq) => u.at < v.at

\* What the member went offline by is of the run of its record, and not after it.
Stood ==
    /\ standing \in 0..Len(said)
    /\ standing # 0 => \E was \in online :
          /\ said[standing].epoch = was.epoch /\ standing <= was.at
          /\ was.counts => standing < was.at

\* Holders is where Online is: with the beat last accepted, its list here or not.
HoldersOK ==
    /\ stated \in [is : {"none", "unknown", "known"}, latest : Holdings, fetching : BOOLEAN]
    /\ index \subseteq ItemId /\ fetches \subseteq SUBSET ItemId
    /\ stated.is = "none" <=> online = {}
    /\ \A was \in online :
          /\ stated.latest = said[was.at].holdings
          /\ stated.is = "known" => index = said[was.at].items

AvailabilityIInv ==
    /\ SenderOK /\ member \in BOOLEAN
    /\ BeatsOK /\ OnlineOK /\ Ordered /\ Stood /\ HoldersOK

-----------------------------------------------------------------------------
(* Statements.                                                             *)

LEMMA ListedOne == \A items : Listed({items}) = items
BY DEF Listed

\* Taking back a change that is exact leaves the list it was against.
LEMMA UndoneIsListed ==
    ASSUME NEW items, NEW h, Exact(h, items)
    PROVE  Undone(items, h) = Listed(h.base)
BY DEF Exact, Undone

\* A change that is exact, applied to its list, gives what the member held, and
\* its count is right.
LEMMA RestatedIsExact ==
    ASSUME NEW items, NEW latest, NEW new, NEW later, Exact(new, later),
           Undone(items, latest) = Listed(new.base),
           Restated(items, latest, new)
    PROVE  index' = later /\ stated' = [is |-> "known", latest |-> new, fetching |-> FALSE]
<1>1. (Undone(items, latest) \cup new.added) \ new.removed = later
  BY DEF Exact
<1>2. Cardinality(later) = new.count
  BY DEF Exact
<1> QED
  BY <1>1, <1>2 DEF Restated

\* What a beat states is exact for what is held.
LEMMA StatingIsExact ==
    ASSUME NEW list, OneList(list), held \subseteq ItemId
    PROVE  Stating(list) \in Holdings /\ Exact(Stating(list), held)
<1>1. Cardinality(held) \in Nat
  BY AvailabilityAssumption, FS_Subset, FS_CardinalityType
<1>2. list \in SUBSET SUBSET ItemId /\ Listed(list) \subseteq ItemId
  BY ListedOne DEF OneList, Listed
<1> QED
  BY <1>1, <1>2 DEF Stating, Holdings, Exact

LEMMA BasesType ==
    ASSUME SenderOK, NEW list \in Bases
    PROVE  OneList(list)
BY DEF SenderOK, Bases, OneList

\* Something said more changes nothing of what was said.
LEMMA SaidGrows ==
    ASSUME NEW S, said \in Seq(S), NEW x \in S, said' = Append(said, x)
    PROVE  /\ said' \in Seq(S) /\ Len(said') = Len(said) + 1
           /\ \A k \in DOMAIN said : k \in DOMAIN said' /\ said'[k] = said[k]
           /\ DOMAIN said' = DOMAIN said \cup {Len(said) + 1}
           /\ said'[Len(said) + 1] = x
OBVIOUS

-----------------------------------------------------------------------------
LEMMA InitAvailability == AvailabilityInit => AvailabilityIInv
<1> SUFFICES ASSUME AvailabilityInit PROVE AvailabilityIInv
  OBVIOUS
<1>1. SenderOK
  <2>1. up \in BOOLEAN /\ OneList(base)
    BY Zenon DEF AvailabilityInit, OneList
  <2> QED
    BY <2>1, AvailabilityAssumption DEF AvailabilityInit, SenderOK
<1>2. BeatsOK /\ OnlineOK /\ Ordered /\ Stood
  BY DEF AvailabilityInit, BeatsOK, OnlineOK, Ordered, Stood
<1>3. HoldersOK
  BY DEF AvailabilityInit, HoldersOK, Unstated, NoStatement, Holdings
<1>4. member \in BOOLEAN
  BY Zenon DEF AvailabilityInit
<1> QED
  BY <1>1, <1>2, <1>3, <1>4 DEF AvailabilityIInv

-----------------------------------------------------------------------------
(* The sender's steps.                                                     *)

LEMMA QuietSenderStep ==
    ASSUME AvailabilityIInv, Starts \/ Crashes \/ \E item \in ItemId : Rechecks(item)
    PROVE  AvailabilityIInv'
<1> USE DEF AvailabilityIInv
<1>1. UNCHANGED <<said, beats, member, online, stated, index, fetches, standing>>
  BY DEF Starts, Crashes, Rechecks
<1>2. \/ epoch' = epoch /\ seq' = seq /\ base' = base /\ (up' => up)
      \/ epoch' = epoch + 1 /\ seq' = 0 /\ base' = {}
  BY DEF Starts, Crashes, Rechecks, NewRun
<1>3. SenderOK'
  <2>1. held' \subseteq ItemId
    BY DEF SenderOK, Starts, Crashes, Rechecks
  <2>2. epoch' \in 0..MaxEpoch
    BY <1>2, AvailabilityAssumption DEF SenderOK, Starts, Crashes, Rechecks, NewRun
  <2>3. up' \in BOOLEAN
    BY DEF SenderOK, Starts, Crashes, Rechecks
  <2>4. OneList(base')
    BY <1>2, Zenon DEF SenderOK, OneList
  <2>5. seq' \in 0..MaxSeq /\ (seq' > 0 => said' # <<>>) /\ (up' /\ seq' > 0 => seq' < MaxSeq)
    BY <1>1, <1>2, AvailabilityAssumption DEF SenderOK
  <2>6. said' \in Seq(Utterance) /\ \A k \in DOMAIN said' : Exact(said'[k].holdings, said'[k].items)
    BY <1>1 DEF SenderOK
  <2> QED
    BY <2>1, <2>2, <2>3, <2>4, <2>5, <2>6, Zenon DEF SenderOK
<1>4. epoch \in Nat
  BY DEF SenderOK
<1>5. BeatsOK'
  BY <1>1, <1>2, <1>4 DEF BeatsOK, Of, Beat
<1>6. OnlineOK'
  BY <1>1, <1>2, <1>4 DEF OnlineOK, Of, Hearing
<1>7. Ordered' /\ Stood' /\ HoldersOK' /\ (member \in BOOLEAN)'
  BY <1>1 DEF Ordered, Stood, HoldersOK
<1> QED
  BY <1>3, <1>5, <1>6, <1>7

\* A beat or a goodbye that goes out, whether it is lost or not.
LEMMA SentKeeps ==
    ASSUME AvailabilityIInv, up, NEW items \in SUBSET ItemId, NEW stating \in Holdings,
           Exact(stating, items), NEW leaving \in BOOLEAN,
           Sent(items, stating, leaving), seq' = seq + 1,
           SenderOK', UNCHANGED <<epoch, member, online, stated, index, fetches, standing>>
    PROVE  AvailabilityIInv'
<1> USE DEF AvailabilityIInv
<1> DEFINE more == [epoch |-> epoch, items |-> items, holdings |-> stating]
<1>1. PICK beat : beat = [at |-> Len(said) + 1, epoch |-> epoch, seq |-> seq + 1,
                          leaving |-> leaving, holdings |-> stating]
  OBVIOUS
<1>2. epoch \in Nat /\ seq \in Nat /\ said \in Seq(Utterance) /\ more \in Utterance
  BY DEF SenderOK, Utterance
<1>3. /\ beat \in Beat /\ beat.at = Len(said) + 1 /\ beat.epoch = epoch
      /\ beat.seq = seq + 1 /\ beat.leaving = leaving /\ beat.holdings = stating
  BY <1>1, <1>2 DEF Beat
<1>4. /\ said' = Append(said, more) /\ more.epoch = epoch /\ more.holdings = stating
      /\ beats' = beats \cup {beat} \/ beats' = beats
  BY <1>1 DEF Sent
<1> HIDE DEF more
<1>5. /\ \A k \in DOMAIN said : k \in DOMAIN said' /\ said'[k] = said[k]
      /\ Len(said) + 1 \in DOMAIN said' /\ said'[Len(said) + 1] = more
      /\ DOMAIN said = 1..Len(said) /\ Len(said) \in Nat
  BY <1>2, <1>4, SaidGrows
<1>6. \A u : Of(u) /\ u.seq \in Nat => Of(u)'
  BY <1>2, <1>5 DEF Of
<1>7. Of(beat)'
  BY <1>2, <1>3, <1>4, <1>5 DEF Of
<1>8. \A u \in beats \cup online : Of(u) /\ u.seq \in Nat /\ u.at \in 1..Len(said)
  BY <1>5 DEF BeatsOK, OnlineOK, Beat, Hearing, Of
<1>9. BeatsOK'
  BY <1>3, <1>4, <1>5, <1>6, <1>7, <1>8 DEF BeatsOK, Of
<1>10. OnlineOK'
  BY <1>6, <1>8 DEF OnlineOK
<1>11. Ordered'
  BY <1>2, <1>3, <1>4, <1>5, <1>8 DEF Ordered, Of
<1>12. Stood'
  BY <1>4, <1>5, SaidGrows, <1>2 DEF Stood
<1>13. HoldersOK'
  BY <1>5 DEF HoldersOK, OnlineOK, Of
<1> QED
  BY <1>9, <1>10, <1>11, <1>12, <1>13

LEMMA BeatsStep ==
    ASSUME AvailabilityIInv, Beats
    PROVE  AvailabilityIInv'
<1>1. SenderOK /\ OneList(base') /\ held \subseteq ItemId
  BY BasesType DEF AvailabilityIInv, SenderOK, Beats
<1>2. Stating(base') \in Holdings /\ Exact(Stating(base'), held)
  BY <1>1, StatingIsExact
<1>3. /\ up /\ seq' = seq + 1 /\ seq < MaxSeq - 1
      /\ Sent(held, Stating(base'), FALSE)
      /\ UNCHANGED <<held, epoch, up, member, online, stated, index, fetches, standing>>
  BY DEF Beats
<1> DEFINE stating == Stating(base')
           more == [epoch |-> epoch, items |-> held, holdings |-> stating]
<1>4. said' = Append(said, more)
  BY <1>3 DEF Sent
<1>5. more \in Utterance /\ Exact(more.holdings, more.items)
  BY <1>1, <1>2 DEF SenderOK, Utterance
<1> HIDE DEF more, stating
<1>6. SenderOK'
  BY <1>1, <1>3, <1>4, <1>5, SaidGrows, AvailabilityAssumption, SMTT(40) DEF SenderOK
<1> QED
  BY <1>1, <1>2, <1>3, <1>6, SentKeeps

LEMMA LeavesStep ==
    ASSUME AvailabilityIInv, Leaves
    PROVE  AvailabilityIInv'
<1> DEFINE last == said[Len(said)]
           more == [epoch |-> epoch, items |-> last.items, holdings |-> last.holdings]
<1>1. SenderOK
  BY DEF AvailabilityIInv
<1>2. /\ up /\ seq > 0 /\ ~ up' /\ seq' = seq + 1
      /\ Sent(last.items, last.holdings, TRUE)
      /\ UNCHANGED <<held, base, epoch, member, online, stated, index, fetches, standing>>
  BY DEF Leaves
<1>3. last \in Utterance /\ Exact(last.holdings, last.items)
  <2>1. Len(said) \in DOMAIN said
    BY <1>1, <1>2 DEF SenderOK
  <2> QED
    BY <1>1, <2>1 DEF SenderOK
<1>4. last.items \in SUBSET ItemId /\ last.holdings \in Holdings
  BY <1>3 DEF Utterance
<1>5. said' = Append(said, more)
  BY <1>2 DEF Sent
<1>6. more \in Utterance /\ Exact(more.holdings, more.items)
  BY <1>1, <1>3, <1>4 DEF SenderOK, Utterance
<1>7. up' \in BOOLEAN
  BY DEF Leaves
<1> HIDE DEF more, last
<1>8. SenderOK'
  BY <1>1, <1>2, <1>5, <1>6, <1>7, SaidGrows, AvailabilityAssumption DEF SenderOK
<1> QED
  BY <1>2, <1>3, <1>4, <1>8, SentKeeps

-----------------------------------------------------------------------------
(* The listener's steps.                                                   *)

\* What Holders makes of an accepted beat: the map is exactly what the member
\* held, or waits for a list.
LEMMA HeldHeardIsExact ==
    ASSUME AvailabilityIInv, NEW k \in DOMAIN said, HeldHeard(said[k].holdings)
    PROVE  /\ stated' \in [is : {"unknown", "known"}, latest : Holdings, fetching : BOOLEAN]
           /\ stated'.latest = said[k].holdings
           /\ index' \subseteq ItemId /\ fetches' \subseteq SUBSET ItemId
           /\ stated'.is = "known" => index' = said[k].items
<1> USE DEF AvailabilityIInv
<1> DEFINE new == said[k].holdings
           later == said[k].items
<1>1. new \in Holdings /\ later \in SUBSET ItemId /\ Exact(new, later)
  <2>1. said \in Seq(Utterance) /\ Exact(said[k].holdings, said[k].items)
    BY DEF SenderOK
  <2>2. said[k] \in Utterance
    BY <2>1
  <2> QED
    BY <2>1, <2>2 DEF Utterance
<1>2. new.base \in SUBSET SUBSET ItemId
  BY <1>1 DEF Holdings
<1>3. /\ stated \in [is : {"none", "unknown", "known"}, latest : Holdings, fetching : BOOLEAN]
      /\ index \subseteq ItemId /\ fetches \subseteq SUBSET ItemId
  BY DEF HoldersOK
<1>4. HeldHeard(new)
  OBVIOUS
<1> HIDE DEF new, later
<1>5. ASSUME index' = later, stated' = [is |-> "known", latest |-> new, fetching |-> FALSE],
             fetches' = fetches
      PROVE  /\ stated' \in [is : {"unknown", "known"}, latest : Holdings, fetching : BOOLEAN]
             /\ stated'.latest = new
             /\ index' \subseteq ItemId /\ fetches' \subseteq SUBSET ItemId
             /\ stated'.is = "known" => index' = later
  <2>1. stated' \in [is : {"unknown", "known"}, latest : Holdings, fetching : BOOLEAN]
    BY <1>1, <1>5
  <2>2. stated'.latest = new
    BY <1>5
  <2> QED
    BY <1>1, <1>3, <1>5, <2>1, <2>2, Zenon
<1>6. CASE stated.is # "none" /\ stated.latest.base = new.base /\ stated.is = "known"
  <2>1. PICK was \in online : stated.latest = said[was.at].holdings /\ index = said[was.at].items
                              /\ was.at \in DOMAIN said
    BY <1>6 DEF HoldersOK, OnlineOK, Of
  <2>2. Exact(stated.latest, index)
    BY <2>1 DEF SenderOK
  <2>3. Undone(index, stated.latest) = Listed(new.base)
    BY <1>6, <2>2, UndoneIsListed
  <2>4. Restated(index, stated.latest, new) /\ fetches' = fetches
    BY <1>4, <1>6 DEF HeldHeard
  <2> QED
    BY <1>1, <1>5, <2>3, <2>4, RestatedIsExact DEF new, later
<1>7. CASE stated.is # "none" /\ stated.latest.base = new.base /\ stated.is # "known"
  <2>1. stated.is = "unknown"
    BY <1>3, <1>7
  <2>2. /\ stated' = [stated EXCEPT !.latest = new, !.fetching = TRUE]
        /\ index' = index
        /\ fetches' = fetches \/ fetches' = fetches \cup new.base
    BY <1>4, <1>7, <2>1 DEF HeldHeard, Fetching
  <2>3. stated' = [is |-> "unknown", latest |-> new, fetching |-> TRUE]
    BY <1>3, <2>1, <2>2
  <2>4. stated' \in [is : {"unknown", "known"}, latest : Holdings, fetching : BOOLEAN]
        /\ stated'.latest = new /\ stated'.is # "known"
    BY <1>1, <2>3
  <2> QED
    BY <1>2, <1>3, <2>2, <2>4 DEF new
<1>8. CASE ~ (stated.is # "none" /\ stated.latest.base = new.base) /\ new.base = {}
  <2>1. Restated({}, NoStatement, new) /\ fetches' = fetches
    BY <1>4, <1>8 DEF HeldHeard
  <2>2. Undone({}, NoStatement) = Listed(new.base)
    BY <1>8 DEF Undone, NoStatement, Listed
  <2> QED
    BY <1>1, <1>5, <2>1, <2>2, RestatedIsExact DEF new, later
<1>9. CASE ~ (stated.is # "none" /\ stated.latest.base = new.base) /\ new.base # {}
  <2>1. /\ stated' = [is |-> "unknown", latest |-> new, fetching |-> TRUE]
        /\ index' = {} /\ fetches' = fetches \cup new.base
    BY <1>4, <1>9 DEF HeldHeard, Fetching
  <2>2. stated' \in [is : {"unknown", "known"}, latest : Holdings, fetching : BOOLEAN]
        /\ stated'.latest = new /\ stated'.is # "known"
    BY <1>1, <2>1
  <2> QED
    BY <1>2, <1>3, <2>1, <2>2 DEF new
<1> QED
  BY <1>6, <1>7, <1>8, <1>9 DEF new, later

\* A beat that is heard: news from a member, or dropped.
LEMMA HearsStep ==
    ASSUME AvailabilityIInv, NEW beat \in beats, Hears(beat)
    PROVE  AvailabilityIInv'
<1> USE DEF AvailabilityIInv
<1>1. /\ beats' = beats \ {beat}
      /\ UNCHANGED <<held, base, epoch, seq, up, said, member>>
  BY DEF Hears, senderVars
<1>2. /\ beat \in Beat /\ Of(beat) /\ beat.holdings = said[beat.at].holdings
      /\ beat.at \in DOMAIN said
  BY DEF BeatsOK, Of
<1>3. SenderOK' /\ BeatsOK' /\ (member \in BOOLEAN)'
  BY <1>1 DEF SenderOK, BeatsOK, Of
<1>4. CASE UNCHANGED <<online, stated, index, fetches, standing>>
  BY <1>1, <1>3, <1>4 DEF OnlineOK, Of, Ordered, Stood, HoldersOK
<1>5. CASE member /\ IsNews(beat)
  <2>1. PICK was : was = [epoch |-> beat.epoch, seq |-> beat.seq, at |-> beat.at,
                          counts |-> ~ beat.leaving]
    OBVIOUS
  <2>2. online' = {was} /\ HeldHeard(said[beat.at].holdings)
    BY <1>2, <1>5, <2>1 DEF Hears
  <2>3. /\ was \in Hearing /\ was.epoch = beat.epoch /\ was.seq = beat.seq
        /\ was.at = beat.at /\ was.counts = ~ beat.leaving
    BY <1>2, <2>1 DEF Beat, Hearing, Of
  <2>4. Of(was)
    BY <1>2, <2>3 DEF Of
  <2>5. OnlineOK'
    BY <1>1, <2>2, <2>3, <2>4 DEF OnlineOK, Of
  <2>6. Ordered'
    BY <1>1, <2>2, <2>3 DEF Ordered
  <2>7. Stood'
    <3>1. Remembers(beat) /\ said' = said
      BY <1>1, <1>5 DEF Hears
    <3>2. CASE beat.leaving
      <4>1. standing' = was.at /\ ~ was.counts /\ was \in online'
        BY <2>2, <2>3, <3>1, <3>2 DEF Remembers
      <4>2. was.at \in 1..Len(said) /\ was.epoch = said[was.at].epoch
        BY <2>4 DEF Of, SenderOK
      <4> QED
        BY <3>1, <4>1, <4>2 DEF Stood
    <3>3. CASE ~ beat.leaving /\ standing' = standing /\ standing # 0
                /\ said[standing].epoch = beat.epoch
      <4>1. PICK w \in online : said[standing].epoch = w.epoch /\ standing <= w.at
        BY <3>3 DEF Stood
      <4>2. w \in Hearing /\ w.epoch = beat.epoch /\ w.seq < beat.seq
        BY <1>2, <1>5, <3>3, <4>1 DEF IsNews, OnlineOK, Beat, Hearing
      <4>3. w.at < beat.at
        BY <4>2 DEF Ordered
      <4>4. standing \in Nat /\ standing < beat.at
        BY <1>2, <4>1, <4>2, <4>3 DEF Stood, Hearing, Beat
      <4> QED
        BY <2>2, <2>3, <3>1, <3>3, <4>4, <1>2 DEF Stood, Beat
    <3>4. CASE standing' = 0
      BY <3>1, <3>4 DEF Stood, SenderOK
    <3> QED
      BY <3>1, <3>2, <3>3, <3>4 DEF Remembers
  <2>8. HoldersOK'
    BY <1>1, <1>2, <2>2, <2>3, HeldHeardIsExact DEF HoldersOK
  <2> QED
    BY <1>3, <2>5, <2>6, <2>7, <2>8
<1> QED
  BY <1>4, <1>5 DEF Hears

\* Steps that leave the sender and the beats alone.
LEMMA ListenerStep ==
    ASSUME AvailabilityIInv,
           \/ Expires \/ Expelled \/ Readmitted
           \/ \E list \in fetches : Arrives(list) \/ FetchFails(list)
    PROVE  AvailabilityIInv'
<1> USE DEF AvailabilityIInv
<1>1. UNCHANGED <<held, base, epoch, seq, up, said, beats>>
  BY DEF Expires, Expelled, Readmitted, Arrives, FetchFails, senderVars
<1>2. SenderOK' /\ BeatsOK'
  BY <1>1 DEF SenderOK, BeatsOK, Of
<1>3. ASSUME OnlineOK', Ordered', Stood', HoldersOK', member' \in BOOLEAN
      PROVE  AvailabilityIInv'
  BY <1>2, <1>3
<1>4. CASE Expires
  <2>1. PICK was \in online : was.counts /\ online' = {[was EXCEPT !.counts = FALSE]}
                              /\ standing' = was.at
    BY <1>4 DEF Expires
  <2>2. was \in Hearing /\ Of(was) /\ online = {was}
    BY <2>1 DEF OnlineOK
  <2>3. PICK later : later = [was EXCEPT !.counts = FALSE]
    OBVIOUS
  <2>4. /\ later \in Hearing /\ later.epoch = was.epoch /\ later.seq = was.seq /\ later.at = was.at
        /\ ~ later.counts
    BY <2>2, <2>3 DEF Hearing
  <2>5. online' = {later} /\ UNCHANGED <<member, stated, index, fetches>>
    BY <1>4, <2>1, <2>3 DEF Expires
  <2>6. OnlineOK' /\ Ordered'
    BY <1>1, <2>2, <2>4, <2>5 DEF OnlineOK, Of, Ordered
  <2>7. Stood'
    BY <1>1, <2>1, <2>2, <2>4, <2>5 DEF Stood, Of, Hearing, SenderOK
  <2>8. HoldersOK'
    BY <1>1, <2>2, <2>4, <2>5 DEF HoldersOK
  <2> QED
    BY <1>3, <2>5, <2>6, <2>7, <2>8
<1>5. CASE Expelled
  <2>1. online' = {} /\ stated' = Unstated /\ index' = {} /\ fetches' = fetches /\ standing' = 0
    BY <1>5 DEF Expelled
  <2>2. member' \in BOOLEAN
    BY <1>5, Zenon DEF Expelled
  <2>3. OnlineOK' /\ Ordered' /\ Stood'
    BY <1>1, <2>1 DEF OnlineOK, Ordered, Stood, SenderOK
  <2>4. HoldersOK'
    BY <2>1 DEF HoldersOK, Unstated, NoStatement, Holdings
  <2> QED
    BY <1>3, <2>2, <2>3, <2>4
<1>6. CASE Readmitted
  <2>1. member' \in BOOLEAN
    BY <1>6, Zenon DEF Readmitted
  <2>2. UNCHANGED <<online, stated, index, fetches, standing>>
    BY <1>6 DEF Readmitted
  <2> QED
    BY <1>1, <1>3, <2>1, <2>2 DEF OnlineOK, Of, Ordered, Stood, HoldersOK
<1>7. ASSUME NEW list \in fetches, Arrives(list) \/ FetchFails(list)
      PROVE  AvailabilityIInv'
  <2>1. /\ UNCHANGED <<member, online, standing>>
        /\ fetches' = fetches \ {list}
    BY <1>7 DEF Arrives, FetchFails
  <2>2. OnlineOK' /\ Ordered' /\ Stood'
    BY <1>1, <2>1 DEF OnlineOK, Of, Ordered, Stood
  <2>3. CASE UNCHANGED <<stated, index>>
    BY <1>1, <1>3, <2>1, <2>2, <2>3 DEF HoldersOK
  <2>4. CASE Wants(list) /\ Arrives(list)
    <3>1. PICK was \in online : stated.latest = said[was.at].holdings
                                /\ was.at \in DOMAIN said /\ online = {was}
      BY <2>4 DEF Wants, HoldersOK, OnlineOK, Of
    <3> DEFINE bare == [stated.latest EXCEPT !.added = {}, !.removed = {}]
    <3>2. stated.latest \in Holdings /\ stated.latest.base = {list}
      BY <2>4 DEF Wants, HoldersOK
    <3>3. bare.added = {} /\ bare.removed = {}
      BY <3>2 DEF Holdings
    <3>4. Restated(list, bare, stated.latest)
      BY <2>4 DEF Arrives
    <3>5. Undone(list, bare) = Listed(stated.latest.base)
      BY <3>2, <3>3, ListedOne DEF Undone
    <3>6. said[was.at] \in Utterance /\ Exact(stated.latest, said[was.at].items)
      BY <3>1 DEF SenderOK
    <3> HIDE DEF bare
    <3>7. /\ index' = said[was.at].items
          /\ stated' = [is |-> "known", latest |-> stated.latest, fetching |-> FALSE]
      BY <3>4, <3>5, <3>6, RestatedIsExact
    <3>8. HoldersOK'
      BY <1>1, <2>1, <3>1, <3>2, <3>6, <3>7 DEF HoldersOK, Utterance
    <3> QED
      BY <1>3, <2>1, <2>2, <3>8
  <2>5. CASE Wants(list) /\ FetchFails(list)
    <3>1. stated' = [stated EXCEPT !.fetching = FALSE] /\ index' = index
      BY <2>5 DEF FetchFails
    <3>2. HoldersOK'
      BY <1>1, <2>1, <3>1 DEF HoldersOK
    <3> QED
      BY <1>3, <2>1, <2>2, <3>2
  <2> QED
    BY <1>7, <2>3, <2>4, <2>5 DEF Arrives, FetchFails
<1> QED
  BY <1>4, <1>5, <1>6, <1>7

LEMMA NextAvailability == AvailabilityIInv /\ [AvailabilityNext]_availabilityVars => AvailabilityIInv'
<1> SUFFICES ASSUME AvailabilityIInv, [AvailabilityNext]_availabilityVars PROVE AvailabilityIInv'
  OBVIOUS
<1>1. CASE UNCHANGED availabilityVars
  <2>1. UNCHANGED <<held, base, epoch, seq, up, said, beats, member, online, stated, index, fetches, standing>>
    BY <1>1 DEF availabilityVars, senderVars
  <2> QED
    BY <2>1 DEF AvailabilityIInv, SenderOK, BeatsOK, OnlineOK, Of, Ordered, Stood, HoldersOK
<1> QED
  BY <1>1, QuietSenderStep, BeatsStep, LeavesStep, HearsStep, ListenerStep DEF AvailabilityNext, Listens

LEMMA AvailabilityInvariant == AvailabilitySpec => []AvailabilityIInv
BY InitAvailability, NextAvailability, PTL DEF AvailabilitySpec

-----------------------------------------------------------------------------
(* What is known of the member.                                            *)

LEMMA HeardAtIs ==
    ASSUME OnlineOK, NEW was \in online
    PROVE  HeardAt = was.at /\ online = {was}
<1>1. online = {was}
  BY DEF OnlineOK
<1>2. (CHOOSE w \in online : TRUE) = was
  BY <1>1
<1> QED
  BY <1>1, <1>2 DEF HeardAt

LEMMA AvailabilityIInvSuffices == AvailabilityIInv => AvailabilityInv
<1> SUFFICES ASSUME AvailabilityIInv PROVE AvailabilityInv
  OBVIOUS
<1> USE DEF AvailabilityIInv
<1>1. AvailabilityTypeOK
  <2>1. Cardinality({}) = 0 /\ \A x : Cardinality({x}) = 1
    BY FS_EmptySet, FS_Singleton
  <2>2. base \in SUBSET SUBSET ItemId /\ (base = {} \/ \E x : base = {x})
    BY DEF SenderOK, OneList
  <2>3. Cardinality(base) <= 1
    <3>1. Cardinality(base) = 0 \/ Cardinality(base) = 1
      BY <2>1, <2>2, Zenon
    <3> QED
      BY <3>1
  <2>4. online = {} \/ \E x : online = {x}
    BY DEF OnlineOK
  <2>5. Cardinality(online) <= 1
    <3>1. Cardinality(online) = 0 \/ Cardinality(online) = 1
      BY <2>1, <2>4, Zenon
    <3> QED
      BY <3>1
  <2>6. /\ stated.is \in {"none", "unknown", "known", "broken"}
        /\ stated.latest \in Holdings /\ stated.fetching \in BOOLEAN
    BY DEF HoldersOK
  <2>7. \A b \in beats : b \in Beat /\ b.at \in DOMAIN said
    BY DEF BeatsOK, Of
  <2> QED
    BY <2>2, <2>3, <2>5, <2>6, <2>7, Zenon DEF AvailabilityTypeOK, SenderOK, HoldersOK, Stood
<1>2. AddsUp
  BY DEF AddsUp, HoldersOK
<1>3. NotShort
  <2> SUFFICES ASSUME NEW item \in ItemId, providers(item) = {0}, IsOnline
               PROVE  item \notin said[HeardAt].items
    BY DEF NotShort
  <2>1. PICK was \in online : was.counts
    BY DEF IsOnline
  <2>2. stated.is = "known"
    BY DEF providers
  <2>3. index = said[HeardAt].items
    BY <2>1, <2>2, HeardAtIs DEF HoldersOK
  <2>4. item \notin index
    <3>1. (IF item \in index THEN 1 ELSE 0) \in {0}
      BY <2>2, Zenon DEF providers
    <3> QED
      BY <3>1
  <2> QED
    BY <2>3, <2>4
<1> QED
  BY <1>1, <1>2, <1>3 DEF AvailabilityInv

\* Whatever is lost, late or out of order, an honest member's statements add up
\* and the counts the API answers with are never short of what it said.
THEOREM AvailabilityIsKept == AvailabilitySpec => []AvailabilityInv
BY AvailabilityInvariant, AvailabilityIInvSuffices, PTL

LEMMA StoodSuffices == AvailabilityIInv => GoodbyeStands
<1> SUFFICES ASSUME AvailabilityIInv, NEW was \in online, was.counts PROVE was.at > standing
  BY DEF GoodbyeStands
<1> USE DEF AvailabilityIInv
<1>1. was \in Hearing /\ Of(was) /\ online = {was}
  BY DEF OnlineOK
<1>2. CASE standing = 0
  BY <1>1, <1>2 DEF Of, SenderOK, Hearing
<1>3. CASE standing # 0
  BY <1>1, <1>3 DEF Stood, Hearing
<1> QED
  BY <1>2, <1>3

\* However many beats are late, none sent before what took a member offline, its
\* goodbye or the beat that ran out, brings it back, unless a beat of another run
\* was accepted or its membership was lost in between.
THEOREM GoodbyesStand == AvailabilitySpec => []GoodbyeStands
BY AvailabilityInvariant, StoodSuffices, PTL

-----------------------------------------------------------------------------
(* Refinement of WhatIsHeld.                                               *)

LEMMA PromiseInit == AvailabilityInit => Promise!Init
BY DEF AvailabilityInit, Promise!Init, HeardAt, Unstated

\* A step of the sender is a Says, or nothing.
LEMMA PromiseSays ==
    ASSUME AvailabilityIInv, Beats \/ Leaves
    PROVE  Promise!Says
<1> USE DEF AvailabilityIInv
<1>1. UNCHANGED <<online, stated, index>>
  BY DEF Beats, Leaves
<1>2. PICK items \in SUBSET ItemId, holdings \in Holdings :
            said' = Append(said, [epoch |-> epoch, items |-> items, holdings |-> holdings])
  <2>1. CASE Beats
    <3>1. held \subseteq ItemId /\ Stating(base') \in Holdings
      BY <2>1, BasesType, StatingIsExact DEF Beats, SenderOK
    <3> QED
      BY <2>1, <3>1 DEF Beats, Sent
  <2>2. CASE Leaves
    <3>1. Len(said) \in DOMAIN said /\ said \in Seq(Utterance)
      BY <2>2 DEF Leaves, SenderOK
    <3>2. said[Len(said)] \in Utterance
      BY <3>1
    <3>3. said[Len(said)].items \in SUBSET ItemId /\ said[Len(said)].holdings \in Holdings
      BY <3>2 DEF Utterance
    <3> QED
      BY <2>2, <3>3 DEF Leaves, Sent
  <2> QED
    BY <2>1, <2>2
<1> DEFINE more == [epoch |-> epoch, items |-> items, holdings |-> holdings]
<1>3. more \in Utterance /\ more.items = items /\ said' = Append(said, more)
  BY <1>2 DEF SenderOK, Utterance
<1> HIDE DEF more
<1>4. said \in Seq(Utterance)
  BY DEF SenderOK
<1>5. Len(said') = Len(said) + 1 /\ said'[Len(said')] = more
  BY <1>3, <1>4, SaidGrows
<1>6. UNCHANGED <<HeardAt, IF stated.is = "known" THEN {index} ELSE {}>>
  BY <1>1 DEF HeardAt
<1> QED
  BY <1>3, <1>5, <1>6 DEF Promise!Says

\* An accepted beat is a Hears: it is of another run, or later in the same one.
LEMMA PromiseHears ==
    ASSUME AvailabilityIInv, AvailabilityIInv', NEW beat \in beats, Hears(beat)
    PROVE  Promise!Hears \/ UNCHANGED Promise!vars
<1> USE DEF AvailabilityIInv
<1>1. said' = said
  BY DEF Hears, senderVars
<1>2. CASE UNCHANGED <<online, stated, index>>
  BY <1>1, <1>2 DEF Promise!vars, HeardAt
<1>3. CASE member /\ IsNews(beat)
  <2>1. PICK was : was = [epoch |-> beat.epoch, seq |-> beat.seq, at |-> beat.at,
                          counts |-> ~ beat.leaving]
    OBVIOUS
  <2>2. online' = {was} /\ was.at = beat.at
    BY <1>3, <2>1 DEF Hears
  <2>3. /\ HeardAt' = beat.at
        /\ stated'.is = "known" => index' = said[beat.at].items
    BY <1>1, <2>2, HeardAtIs DEF HoldersOK, HeardAt
  <2>4. beat \in Beat /\ Of(beat)
    BY DEF BeatsOK
  <2>5. ASSUME HeardAt # 0, said[beat.at].epoch = said[HeardAt].epoch
        PROVE  beat.at > HeardAt
    <3>1. PICK w \in online : HeardAt = w.at
      BY <2>5, HeardAtIs DEF HeardAt
    <3>2. w \in Hearing /\ Of(w)
      BY DEF OnlineOK
    <3>3. beat.epoch = w.epoch
      BY <2>4, <2>5, <3>1, <3>2 DEF Of
    <3>4. w.seq < beat.seq
      BY <1>3, <2>4, <3>2, <3>3 DEF IsNews, Beat, Hearing
    <3>5. w.at < beat.at
      BY <3>3, <3>4 DEF Ordered
    <3> QED
      BY <2>4, <3>1, <3>2, <3>5 DEF Beat, Hearing
  <2>6. beat.at \in DOMAIN said
    BY <2>4 DEF Of
  <2>7. (IF stated.is = "known" THEN {index} ELSE {})' \in Promise!Told(beat.at)
    BY <1>1, <2>3 DEF Promise!Told
  <2> QED
    BY <1>1, <2>3, <2>5, <2>6, <2>7 DEF Promise!Hears
<1> QED
  BY <1>2, <1>3 DEF Hears

LEMMA PromiseStep ==
    AvailabilityIInv /\ AvailabilityIInv' /\ [AvailabilityNext]_availabilityVars => [Promise!Next]_Promise!vars
<1> SUFFICES ASSUME AvailabilityIInv, AvailabilityIInv', [AvailabilityNext]_availabilityVars
             PROVE  Promise!Next \/ UNCHANGED Promise!vars
  OBVIOUS
<1> USE DEF AvailabilityIInv
<1>1. CASE UNCHANGED <<said, online, stated, index>>
  BY <1>1 DEF Promise!vars, HeardAt
<1>2. CASE Beats \/ Leaves
  BY <1>2, PromiseSays DEF Promise!Next
<1>3. ASSUME NEW beat \in beats, Hears(beat)
      PROVE  Promise!Next \/ UNCHANGED Promise!vars
  BY <1>3, PromiseHears DEF Promise!Next
<1>4. CASE Expires
  <2>1. PICK was \in online : online' = {[was EXCEPT !.counts = FALSE]}
    BY <1>4 DEF Expires
  <2>2. was \in Hearing /\ HeardAt = was.at
    BY <2>1, HeardAtIs DEF OnlineOK
  <2>3. PICK later : later = [was EXCEPT !.counts = FALSE]
    OBVIOUS
  <2>4. later.at = was.at /\ online' = {later}
    BY <2>1, <2>2, <2>3 DEF Hearing
  <2>5. HeardAt' = HeardAt
    BY <2>2, <2>4 DEF HeardAt
  <2>6. UNCHANGED <<said, stated, index>>
    BY <1>4 DEF Expires, senderVars
  <2> QED
    BY <2>5, <2>6 DEF Promise!vars
<1>5. CASE Expelled
  <2>1. HeardAt' = 0 /\ (IF stated.is = "known" THEN {index} ELSE {})' = {} /\ said' = said
    BY <1>5 DEF Expelled, HeardAt, Unstated, senderVars
  <2> QED
    BY <2>1 DEF Promise!Forgets, Promise!Next
<1>6. ASSUME NEW list \in fetches, Arrives(list) \/ FetchFails(list)
      PROVE  Promise!Next \/ UNCHANGED Promise!vars
  <2>1. said' = said /\ online' = online /\ HeardAt' = HeardAt
    <3>1. said' = said /\ online' = online
      BY <1>6 DEF Arrives, FetchFails, senderVars
    <3> QED
      BY <3>1 DEF HeardAt
  <2>2. CASE online = {}
    <3>1. stated.is = "none" /\ stated'.is = "none"
      BY <2>1, <2>2 DEF HoldersOK
    <3> QED
      BY <2>1, <3>1 DEF Promise!vars
  <2>3. ASSUME NEW was \in online PROVE Promise!Learns
    <3>1. /\ HeardAt = was.at /\ was.at \in DOMAIN said /\ was.at # 0
          /\ stated'.is = "known" => index' = said[was.at].items
      BY <2>1, HeardAtIs DEF OnlineOK, Of, HoldersOK, SenderOK
    <3>2. (IF stated.is = "known" THEN {index} ELSE {})' \in Promise!Told(HeardAt)
      BY <3>1 DEF Promise!Told
    <3> QED
      BY <2>1, <3>1, <3>2 DEF Promise!Learns
  <2> QED
    BY <2>2, <2>3 DEF Promise!Next
<1>7. \/ UNCHANGED <<said, online, stated, index>> \/ Beats \/ Leaves
      \/ (\E beat \in beats : Hears(beat)) \/ Expires \/ Expelled
      \/ \E list \in fetches : Arrives(list) \/ FetchFails(list)
  BY DEF AvailabilityNext, Listens, Starts, Crashes, Rechecks, Readmitted, availabilityVars, senderVars
<1> QED
  BY <1>1, <1>2, <1>3, <1>4, <1>5, <1>6, <1>7

\* The listener keeps its promise: it says nothing of what a member holds, or
\* exactly what the member held when it sent the beat last accepted, and within
\* a run it never goes back to an earlier one.
THEOREM HoldersKeepThePromise == AvailabilitySpec => Implements
BY PromiseInit, PromiseStep, AvailabilityInvariant, PTL DEF AvailabilitySpec, Implements, Promise!Spec

-----------------------------------------------------------------------------
(***************************************************************************)
(* Theorems about one node's custody service, for every group, ranking,    *)
(* number of replicas and set of items, and however memberships, items and *)
(* passes interleave.                                                      *)
(*                                                                         *)
(* The argument: whatever the view, or the pass that will replace it, does *)
(* not have as the store does, an event still to be read is about          *)
(* (ViewFresh, PassFresh), unless events were dropped or a read failed.    *)
(* The totals are numbers of units, so an item taken out or put in changes *)
(* them by its own (SumChanges).  A ranking has a first k for every k, so  *)
(* an item has its custodians (FirstAreCounted).                           *)
(***************************************************************************)
-----------------------------------------------------------------------------
(* Sums: what is counted unit by unit changes with the item that changes.  *)

Units(w) == UNION {{item} \X (1..w[item]) : item \in DOMAIN w}

LEMMA UnitsOfOne ==
    ASSUME NEW item, NEW n \in Nat
    PROVE  IsFiniteSet({item} \X (1..n)) /\ Cardinality({item} \X (1..n)) = n
<1>1. IsFiniteSet({item}) /\ Cardinality({item}) = 1
  BY FS_Singleton
<1>2. IsFiniteSet(1..n) /\ Cardinality(1..n) = n
  BY FS_Interval
<1>3. IsFiniteSet({item} \X (1..n)) /\ Cardinality({item} \X (1..n)) = 1 * n
  <2>1. /\ IsFiniteSet({item} \X (1..n))
        /\ Cardinality({item} \X (1..n)) = Cardinality({item}) * Cardinality(1..n)
    BY <1>1, <1>2, FS_Product
  <2> QED
    BY <1>1, <1>2, <2>1
<1> QED
  BY <1>3

LEMMA UnitsAreFinite ==
    ASSUME NEW D, IsFiniteSet(D), NEW w \in [D -> Nat]
    PROVE  IsFiniteSet(Units(w)) /\ Sum(w) = Cardinality(Units(w)) /\ Sum(w) \in Nat
<1> DEFINE f == [item \in D |-> {item} \X (1..w[item])]
           R == {{item} \X (1..w[item]) : item \in D}
<1>1. f \in Surjection(D, R)
  BY DEF Surjection
<1>2. IsFiniteSet(R)
  BY <1>1, FS_Surjection
<1>3. \A S \in R : IsFiniteSet(S)
  <2> SUFFICES ASSUME NEW item \in D PROVE IsFiniteSet({item} \X (1..w[item]))
    OBVIOUS
  <2> QED
    BY UnitsOfOne
<1>4. IsFiniteSet(UNION R)
  <2> HIDE DEF R
  <2> QED
    BY <1>2, <1>3, FS_UNION
<1>5. UNION R = Units(w)
  BY DEF Units
<1> QED
  BY <1>4, <1>5, FS_CardinalityType DEF Sum, Units

\* v weighs as w does, but for x.
Reweighs(D, w, x, v) ==
    /\ w \in [D -> Nat] /\ v \in [D \cup {x} -> Nat]
    /\ \A i \in D \ {x} : v[i] = w[i]

\* One item comes or changes: the sum loses what it weighed and gains what it
\* weighs.
LEMMA SumChanges ==
    ASSUME NEW D, IsFiniteSet(D), NEW w, NEW x, NEW v, Reweighs(D, w, x, v)
    PROVE  /\ x \in D => Sum(v) = Sum(w) + v[x] - w[x]
           /\ x \notin D => Sum(v) = Sum(w) + v[x]
<1>0. /\ w \in [D -> Nat] /\ v \in [D \cup {x} -> Nat]
      /\ \A i \in D \ {x} : v[i] = w[i]
  BY DEF Reweighs
<1> DEFINE Rest == {u \in Units(w) : u[1] # x}
<1>1. IsFiniteSet(Units(w)) /\ Sum(w) = Cardinality(Units(w)) /\ Sum(w) \in Nat
  BY <1>0, UnitsAreFinite
<1>2. Sum(v) = Cardinality(Units(v))
  BY DEF Sum, Units
<1>3. IsFiniteSet(Rest) /\ Cardinality(Rest) \in Nat
  BY <1>1, FS_Subset, FS_CardinalityType
<1>4. ASSUME NEW n \in Nat
      PROVE  Cardinality(Rest \cup ({x} \X (1..n))) = Cardinality(Rest) + n
  <2>1. PICK X : X = {x} \X (1..n)
    OBVIOUS
  <2>2. IsFiniteSet(X) /\ Cardinality(X) = n
    BY <2>1, UnitsOfOne
  <2>3. Rest \cap X = {} /\ Cardinality({}) = 0
    BY <2>1, FS_EmptySet
  <2> HIDE DEF Rest
  <2>4. Cardinality(Rest \cup X) = Cardinality(Rest) + Cardinality(X) - Cardinality(Rest \cap X)
    BY <1>3, <2>2, FS_Union
  <2>5. Cardinality(Rest \cap X) = 0
    BY <2>3
  <2>6. Cardinality(Rest \cup X) = Cardinality(Rest) + n
    BY <1>3, <2>2, <2>4, <2>5
  <2> QED
    BY <2>1, <2>6, Zenon
<1>5. Units(v) = Rest \cup ({x} \X (1..v[x]))
  BY <1>0 DEF Units
<1>6. CASE x \in D
  <2>1. Units(w) = Rest \cup ({x} \X (1..w[x]))
    BY <1>0, <1>6 DEF Units
  <2>2. w[x] \in Nat /\ v[x] \in Nat
    BY <1>0, <1>6
  <2> HIDE DEF Rest
  <2>3. Sum(w) = Cardinality(Rest) + w[x] /\ Sum(v) = Cardinality(Rest) + v[x]
    BY <1>1, <1>2, <1>4, <1>5, <2>1, <2>2
  <2> QED
    BY <1>3, <1>6, <2>2, <2>3
<1>7. CASE x \notin D
  <2>1. Units(w) = Rest
    BY <1>0, <1>7 DEF Units
  <2>2. v[x] \in Nat
    BY <1>0
  <2> HIDE DEF Rest
  <2>3. Sum(w) = Cardinality(Rest) /\ Sum(v) = Cardinality(Rest) + v[x]
    BY <1>1, <1>2, <1>4, <1>5, <2>1, <2>2
  <2> QED
    BY <1>7, <2>3
<1> QED
  BY <1>6, <1>7

-----------------------------------------------------------------------------
(* Ranks: the first k of a finite set are k, or all of it.                 *)

LEMMA SetInduction ==
    ASSUME NEW T \in SUBSET Nat, 0 \in T, \A n \in T : n + 1 \in T
    PROVE  T = Nat
<1> DEFINE R == OpToRel(<, Nat)
<1>1. IsWellFoundedOn(R, Nat)
  BY NatLessThanWellFounded
<1>2. \A x, y \in Nat : x < y => <<x, y>> \in R
  BY DEF OpToRel
<1> HIDE DEF R
<1>3. SUFFICES ASSUME Nat \ T # {} PROVE FALSE
  OBVIOUS
<1>4. PICK x \in Nat \ T : \A y \in Nat \ T : <<y, x>> \notin R
  BY <1>1, <1>3, WFMin
<1>5. x - 1 \in Nat /\ x - 1 < x /\ x - 1 + 1 = x
  BY <1>4
<1>6. x - 1 \in T
  BY <1>2, <1>4, <1>5
<1> QED
  BY <1>4, <1>5, <1>6

Before(C, r, m) == {o \in C : r[o] < r[m]}
First(C, r, k) == {m \in C : Cardinality(Before(C, r, m)) < k}

Counted(C, r) ==
    \A k \in Nat :
        \/ Cardinality(First(C, r, k)) = k
        \/ Cardinality(First(C, r, k)) < k /\ First(C, r, k) = C

LEMMA LowestExists ==
    ASSUME NEW U, NEW r \in [U -> Nat], NEW C \in SUBSET U, C # {}
    PROVE  \E x \in C : \A y \in C : r[x] <= r[y]
<1> DEFINE R == OpToRel(<, Nat)
<1>1. IsWellFoundedOn(R, Nat)
  BY NatLessThanWellFounded
<1>2. \A x, y \in Nat : x < y => <<x, y>> \in R
  BY DEF OpToRel
<1> HIDE DEF R
<1>3. PICK D \in SUBSET Nat : D # {} /\ \A k : k \in D <=> \E x \in C : k = r[x]
  <2> WITNESS {k \in Nat : \E x \in C : k = r[x]} \in SUBSET Nat
  <2> QED
    OBVIOUS
<1>4. PICK d \in D : \A y \in D : <<y, d>> \notin R
  BY <1>1, <1>3, WFMin
<1>5. PICK x \in C : d = r[x]
  BY <1>3, <1>4
<1>6. ASSUME NEW y \in C, ~ (r[x] <= r[y]) PROVE FALSE
  <2>1. r[y] \in D /\ r[y] \in Nat /\ r[x] \in Nat
    BY <1>3
  <2>2. <<r[y], r[x]>> \in R
    BY <1>2, <1>6, <2>1
  <2> QED
    BY <1>4, <1>5, <2>1, <2>2
<1> QED
  BY <1>6

\* The first of all comes off: everybody else moves up by one.
LEMMA CountedWithFirst ==
    ASSUME NEW U, NEW r \in [U -> Nat], \A x, y \in U : r[x] = r[y] => x = y,
           NEW C \in SUBSET U, IsFiniteSet(C), NEW x \in C, \A y \in C : r[x] <= r[y],
           Counted(C \ {x}, r)
    PROVE  Counted(C, r)
<1> DEFINE E == C \ {x}
<1>1. IsFiniteSet(E)
  BY FS_RemoveElement
<1>2. ASSUME NEW m \in E
      PROVE  /\ IsFiniteSet(Before(E, r, m)) /\ Cardinality(Before(E, r, m)) \in Nat
             /\ Cardinality(Before(C, r, m)) = Cardinality(Before(E, r, m)) + 1
  <2>1. IsFiniteSet(Before(E, r, m))
    BY <1>1, FS_Subset DEF Before
  <2>2. Before(C, r, m) = Before(E, r, m) \cup {x} /\ x \notin Before(E, r, m)
    <3>1. r[x] < r[m]
      <4>1. r[x] \in Nat /\ r[m] \in Nat /\ r[x] <= r[m] /\ r[x] # r[m]
        OBVIOUS
      <4> QED
        BY <4>1
    <3> QED
      BY <3>1 DEF Before
  <2> QED
    BY <2>1, <2>2, FS_AddElement, FS_CardinalityType
<1>3. Cardinality(Before(C, r, x)) = 0
  <2>1. Before(C, r, x) = {}
    BY DEF Before
  <2> QED
    BY <2>1, FS_EmptySet
<1>4. ASSUME NEW k \in Nat, k # 0
      PROVE  First(C, r, k) = First(E, r, k - 1) \cup {x} /\ x \notin First(E, r, k - 1)
  BY <1>2, <1>3, <1>4 DEF First
<1>5. ASSUME NEW k \in Nat
      PROVE  IsFiniteSet(First(E, r, k)) /\ Cardinality(First(E, r, k)) \in Nat
  BY <1>1, FS_Subset, FS_CardinalityType DEF First
<1> SUFFICES ASSUME NEW k \in Nat
             PROVE  \/ Cardinality(First(C, r, k)) = k
                    \/ Cardinality(First(C, r, k)) < k /\ First(C, r, k) = C
  BY DEF Counted
<1>6. CASE k = 0
  <2>1. \A m \in C : Cardinality(Before(C, r, m)) \in Nat
    BY <1>2, <1>3
  <2>2. First(C, r, k) = {}
    BY <1>6, <2>1 DEF First
  <2> QED
    BY <1>6, <2>2, FS_EmptySet
<1>7. CASE k # 0
  <2>1. k - 1 \in Nat
    BY <1>7
  <2>2. Cardinality(First(C, r, k)) = Cardinality(First(E, r, k - 1)) + 1
    BY <1>4, <1>5, <1>7, <2>1, FS_AddElement
  <2>3. \/ Cardinality(First(E, r, k - 1)) = k - 1
        \/ Cardinality(First(E, r, k - 1)) < k - 1 /\ First(E, r, k - 1) = E
    BY <2>1 DEF Counted
  <2>4. Cardinality(First(E, r, k - 1)) \in Nat
    BY <1>5, <2>1
  <2>5. First(E, r, k - 1) = E => First(C, r, k) = C
    <3>1. First(C, r, k) = First(E, r, k - 1) \cup {x}
      BY <1>4, <1>7
    <3>2. E \cup {x} = C
      OBVIOUS
    <3> HIDE DEF E
    <3> QED
      BY <3>1, <3>2
  <2> HIDE DEF E
  <2> QED
    BY <2>1, <2>2, <2>3, <2>4, <2>5
<1> QED
  BY <1>6, <1>7

LEMMA FirstAreCounted ==
    ASSUME NEW U, NEW r \in [U -> Nat], \A x, y \in U : r[x] = r[y] => x = y,
           NEW S \in SUBSET U, IsFiniteSet(S)
    PROVE  Counted(S, r)
<1> DEFINE T == {n \in Nat : \A C \in SUBSET U :
                    IsFiniteSet(C) /\ Cardinality(C) = n => Counted(C, r)}
<1>1. 0 \in T
  <2> SUFFICES ASSUME NEW C \in SUBSET U, IsFiniteSet(C), Cardinality(C) = 0
               PROVE  Counted(C, r)
    OBVIOUS
  <2>1. C = {}
    BY FS_EmptySet
  <2>2. \A k : First(C, r, k) = {}
    BY <2>1 DEF First
  <2> QED
    BY <2>1, <2>2, FS_EmptySet DEF Counted
<1>2. ASSUME NEW n \in T PROVE n + 1 \in T
  <2> SUFFICES ASSUME NEW C \in SUBSET U, IsFiniteSet(C), Cardinality(C) = n + 1
               PROVE  Counted(C, r)
    OBVIOUS
  <2>1. C # {}
    BY FS_EmptySet
  <2>2. PICK x \in C : \A y \in C : r[x] <= r[y]
    BY <2>1, LowestExists
  <2>3. IsFiniteSet(C \ {x}) /\ Cardinality(C \ {x}) = n
    <3>1. IsFiniteSet(C \ {x}) /\ Cardinality(C \ {x}) = Cardinality(C) - 1
      BY <2>2, FS_RemoveElement
    <3>2. n \in Nat
      OBVIOUS
    <3> QED
      BY <3>1, <3>2
  <2>4. Counted(C \ {x}, r)
    BY <2>3
  <2> HIDE DEF T
  <2> QED
    BY <2>2, <2>4, CountedWithFirst
<1>3. T = Nat
  <2>1. T \in SUBSET Nat
    OBVIOUS
  <2> HIDE DEF T
  <2> QED
    BY <1>1, <1>2, <2>1, SetInduction
<1>4. Cardinality(S) \in Nat
  BY FS_CardinalityType
<1> QED
  BY <1>3, <1>4

-----------------------------------------------------------------------------
(* The ranking: as many custodians as there are slots, or every candidate. *)

Custodians(group, item, stored) == {n \in Node : is_custodian(group, item, stored, n)}

LEMMA SlotsType ==
    ASSUME NEW group, NEW stored
    PROVE  /\ slots(group, stored) \in Nat
           /\ slots(group, stored) =
                  replicas - (IF stored.creators \cap DOMAIN group # {} THEN 1 ELSE 0)
<1>1. replicas \in Nat /\ replicas # 0
  BY RankingAssumption
<1> QED
  BY <1>1 DEF slots

LEMMA CustodiansAreFinite ==
    ASSUME NEW group \in Groups, NEW item \in Item, NEW stored \in Stored
    PROVE  IsFiniteSet(Node) /\ IsFiniteSet(Custodians(group, item, stored))
<1>1. Score[item] \in Seq(Node) /\ {Score[item][k] : k \in DOMAIN Score[item]} = Node
  BY RankingAssumption
<1>2. DOMAIN Score[item] = 1..Len(Score[item]) /\ Len(Score[item]) \in Nat
  BY <1>1
<1>3. IsFiniteSet(1..Len(Score[item]))
  BY <1>2, FS_Interval
<1>4. Score[item] \in Surjection(1..Len(Score[item]), Node)
  BY <1>1, <1>2 DEF Surjection
<1>5. IsFiniteSet(Node)
  BY <1>3, <1>4, FS_Surjection
<1>6. Custodians(group, item, stored) \in SUBSET Node
  BY DEF Custodians
<1> QED
  BY <1>5, <1>6, FS_Subset

LEMMA CustodiansFillTheSlots ==
    ASSUME NEW group \in Groups, NEW item \in Item, NEW stored \in Stored
    PROVE  \/ Cardinality(Custodians(group, item, stored)) = slots(group, stored)
           \/ /\ Cardinality(Custodians(group, item, stored)) < slots(group, stored)
              /\ Custodians(group, item, stored) = candidates(group, stored)
<1> DEFINE r == [n \in Node |-> Place(item, n)]
           C == candidates(group, stored)
<1>1. Score[item] \in Seq(Node) /\ {Score[item][k] : k \in DOMAIN Score[item]} = Node
  BY RankingAssumption
<1>2. ASSUME NEW n \in Node
      PROVE  Place(item, n) \in DOMAIN Score[item] /\ Score[item][Place(item, n)] = n
  <2>1. \E k \in DOMAIN Score[item] : Score[item][k] = n
    BY <1>1
  <2> QED
    BY <2>1 DEF Place
<1>3. r \in [Node -> Nat] /\ \A x, y \in Node : r[x] = r[y] => x = y
  <2>1. DOMAIN Score[item] \subseteq Nat
    BY <1>1
  <2> QED
    BY <1>2, <2>1
<1>4. IsFiniteSet(Node)
  BY CustodiansAreFinite
<1>5. C \in SUBSET Node
  BY CustodyAssumption DEF candidates, weighted
<1>6. IsFiniteSet(C)
  BY <1>4, <1>5, FS_Subset
<1>7. Counted(C, r)
  <2> HIDE DEF r, C
  <2> QED
    BY <1>3, <1>5, <1>6, FirstAreCounted
<1>8. slots(group, stored) \in Nat
  BY SlotsType
<1>9. \A n \in C : Above(group, item, stored, n) = Before(C, r, n)
  BY <1>5 DEF Above, Before
<1>10. \A n \in C : Cardinality(Before(C, r, n)) \in Nat
  <2> SUFFICES ASSUME NEW n \in C PROVE Cardinality(Before(C, r, n)) \in Nat
    OBVIOUS
  <2>1. IsFiniteSet(Before(C, r, n))
    BY <1>6, FS_Subset DEF Before
  <2> QED
    BY <2>1, FS_CardinalityType
<1>11. Custodians(group, item, stored) = First(C, r, slots(group, stored))
  <2>1. \A n \in Node : n \in C <=> n \in weighted(group) \ stored.creators
    BY DEF candidates
  <2> HIDE DEF C, r
  <2>2. \A n \in Node : is_custodian(group, item, stored, n) <=>
            n \in C /\ Cardinality(Before(C, r, n)) < slots(group, stored)
    BY <1>8, <1>9, <1>10, <2>1 DEF is_custodian
  <2> QED
    BY <1>5, <2>2 DEF Custodians, First
<1> HIDE DEF r
<1> QED
  BY <1>7, <1>8, <1>11 DEF Counted

-----------------------------------------------------------------------------
(* The inductive invariant.                                                *)

Stores == UNION {[items -> Stored] : items \in SUBSET Item}

\* A view says who keeps what under its group, and its totals are a whole pass's.
ViewOK(v) ==
    /\ v.group \in Groups /\ v.items \in Parts
    /\ \A item \in DOMAIN v.items :
        v.items[item].mine = is_custodian(v.group, item, v.items[item].stored, me)
    /\ v \in Published(v)

WorldOK ==
    /\ now \in 0..MaxTime /\ membership \in Groups /\ adopted \in Groups
    /\ store \in Stores

EventsOK ==
    /\ events \in Seq(Item) /\ Len(events) <= EVENTS_WAITING
    /\ \A k \in 1..Len(events) : events[k] \in DOMAIN store

Waiting == [value : Groups, first_change : 0..MaxTime, last_change : 0..MaxTime]

WaitingOK ==
    \/ waiting = {}
    \/ \E w \in Waiting : waiting = {w} /\ now <= w.first_change + max_settle_secs

PassOK == pass = {} \/ \E p \in [group : Groups, items : Stores] : pass = {p}

OneView == view = {} \/ \E v : view = {v} /\ ViewOK(v)

Pending == {events[k] : k \in 1..Len(events)}

\* A pass under way has read every item whose event is not waiting, unless
\* events were dropped.
PassFresh ==
    \A p \in pass :
        /\ p.group = adopted
        /\ ~ lagged => \A item \in Item \ Pending :
              /\ item \in DOMAIN p.items <=> item \in DOMAIN store
              /\ item \in DOMAIN store => p.items[item] = store[item]

\* So has the view, between passes, unless the pass it waits for failed.
ViewFresh ==
    Idle /\ ~ replayed /\ ~ lost =>
        \E v \in view :
            /\ v.group = adopted
            /\ ~ lagged => \A item \in Item \ Pending :
                  /\ item \in DOMAIN v.items <=> item \in DOMAIN store
                  /\ item \in DOMAIN store => v.items[item].stored = store[item]

CustodyIInv ==
    /\ WorldOK /\ EventsOK /\ WaitingOK /\ PassOK /\ OneView /\ PassFresh /\ ViewFresh

-----------------------------------------------------------------------------
(* Views.                                                                  *)

LEMMA WeighsType ==
    ASSUME NEW group, NEW stored \in Stored, NEW part, part.stored = stored
    PROVE  /\ Weighs(group, part).my_items \in Nat
           /\ Weighs(group, part).my_bytes \in Nat
           /\ Weighs(group, part).demand \in Nat
<1>1. stored.size_bytes \in Nat
  BY CustodyAssumption
<1>2. PICK b \in Nat, s \in Nat : b = stored.size_bytes /\ s = slots(group, stored)
  BY <1>1, SlotsType
<1>3. b * s \in Nat
  OBVIOUS
<1> QED
  BY <1>2, <1>3 DEF Weighs, Mine, MyBytes, demand_bytes

LEMMA ComputedIsOK ==
    ASSUME NEW group \in Groups, NEW items \in Stores,
           NEW v \in Published(Computed(group, items))
    PROVE  /\ ViewOK(v) /\ v.group = group /\ DOMAIN v.items = DOMAIN items
           /\ \A item \in DOMAIN items : v.items[item].stored = items[item]
<1> DEFINE I == [item \in DOMAIN items |->
                    [stored |-> items[item], mine |-> is_custodian(group, item, items[item], me)]]
<1>1. v = View(group, I, Totals(group, I))
  BY DEF Published, Computed
<1>2. v.group = group /\ v.items = I
  BY <1>1 DEF View
<1>3. I \in Parts
  <2>1. PICK D \in SUBSET Item : items \in [D -> Stored]
    BY DEF Stores
  <2>2. \A item \in D : is_custodian(group, item, items[item], me) \in BOOLEAN
    BY DEF is_custodian
  <2>3. I \in [D -> [stored : Stored, mine : BOOLEAN]]
    BY <2>1, <2>2
  <2> QED
    BY <2>1, <2>3 DEF Parts
<1>4. v \in Published(v)
  <2> HIDE DEF I
  <2> QED
    BY <1>1, <1>2 DEF Published
<1>5. \A item \in DOMAIN items :
          v.items[item] = [stored |-> items[item], mine |-> is_custodian(group, item, items[item], me)]
  BY <1>2
<1> QED
  BY <1>2, <1>3, <1>4, <1>5 DEF ViewOK

LEMMA UpdatedIsOK ==
    ASSUME NEW v, ViewOK(v), NEW item \in Item, NEW stored \in Stored,
           NEW u, u = Updated(v, item, stored)
    PROVE  /\ ViewOK(u) /\ u.group = v.group /\ DOMAIN u.items = DOMAIN v.items \cup {item}
           /\ u.items[item].stored = stored
           /\ \A i \in DOMAIN v.items \ {item} : u.items[i] = v.items[i]
<1>0. PICK D \in SUBSET Item : v.items \in [D -> [stored : Stored, mine : BOOLEAN]]
  BY DEF ViewOK, Parts
<1>1. PICK g \in Groups, I \in [D -> [stored : Stored, mine : BOOLEAN]] :
          g = v.group /\ I = v.items
  BY <1>0 DEF ViewOK
<1>2. PICK part \in [stored : Stored, mine : BOOLEAN] :
          part = [stored |-> stored, mine |-> is_custodian(g, item, stored, me)]
  <2>1. is_custodian(g, item, stored, me) \in BOOLEAN
    BY DEF is_custodian
  <2> QED
    BY <2>1
<1>3. PICK J : J = [i \in D \cup {item} |-> IF i = item THEN part ELSE I[i]]
  OBVIOUS
<1>4. /\ J \in [D \cup {item} -> [stored : Stored, mine : BOOLEAN]]
      /\ J[item] = part /\ \A i \in D \ {item} : J[i] = I[i]
  BY <1>1, <1>2, <1>3
<1>5. PICK old : old = Without(v, item)
  OBVIOUS
<1>6. PICK new : new = Weighs(g, part)
  OBVIOUS
<1>7. u = View(g, J, [my_items |-> v.my_items + new.my_items - old.my_items,
                      my_bytes |-> v.my_bytes + new.my_bytes - old.my_bytes,
                      demand |-> v.demand + new.demand - old.demand])
  BY <1>1, <1>2, <1>3, <1>5, <1>6 DEF Updated
<1>8. u.group = g /\ u.items = J
  BY <1>7 DEF View
<1>9. v = View(g, I, Totals(g, I))
  BY <1>1 DEF ViewOK, Published
<1>10. old = IF item \in D THEN Weighs(g, I[item]) ELSE Nothing
  BY <1>1, <1>5 DEF Without
<1> DEFINE WI(i) == Weighs(g, I[i])
           WJ(i) == Weighs(g, J[i])
<1>11. IsFiniteSet(D)
  BY CustodyAssumption, FS_Subset
<1>12. \A i \in D : /\ WI(i).my_items \in Nat /\ WI(i).my_bytes \in Nat /\ WI(i).demand \in Nat
  BY <1>1, WeighsType
<1>13. \A i \in D \cup {item} :
          /\ WJ(i).my_items \in Nat /\ WJ(i).my_bytes \in Nat /\ WJ(i).demand \in Nat
  BY <1>4, WeighsType
<1>14. WJ(item) = new /\ \A i \in D \ {item} : WJ(i) = WI(i)
  BY <1>4, <1>6
<1>15. DOMAIN I = D /\ DOMAIN J = D \cup {item}
  BY <1>1, <1>4
<1>16. Totals(g, J).my_items = v.my_items + new.my_items - old.my_items
  <2>1. PICK w \in [D -> Nat], z \in [D \cup {item} -> Nat] :
            w = [i \in D |-> WI(i).my_items] /\ z = [i \in D \cup {item} |-> WJ(i).my_items]
    BY <1>12, <1>13
  <2>2. z[item] = new.my_items /\ \A i \in D \ {item} : z[i] = w[i]
    BY <1>14, <2>1
  <2>3. /\ item \in D => Sum(z) = Sum(w) + z[item] - w[item]
        /\ item \notin D => Sum(z) = Sum(w) + z[item]
    <3>1. Reweighs(D, w, item, z)
      BY <2>2 DEF Reweighs
    <3> HIDE DEF WI, WJ
    <3> QED
      BY <1>11, <3>1, SumChanges
  <2>4. Totals(g, J).my_items = Sum(z) /\ v.my_items = Sum(w)
    BY <1>9, <1>15, <2>1 DEF Totals, View
  <2>5. old.my_items = IF item \in D THEN w[item] ELSE 0
    BY <1>10, <2>1 DEF Nothing
  <2> QED
    <3>1. Sum(w) \in Nat /\ z[item] \in Nat
      BY <1>11, UnitsAreFinite
    <3> QED
      BY <2>2, <2>3, <2>4, <2>5, <3>1
<1>17. Totals(g, J).my_bytes = v.my_bytes + new.my_bytes - old.my_bytes
  <2>1. PICK w \in [D -> Nat], z \in [D \cup {item} -> Nat] :
            w = [i \in D |-> WI(i).my_bytes] /\ z = [i \in D \cup {item} |-> WJ(i).my_bytes]
    BY <1>12, <1>13
  <2>2. z[item] = new.my_bytes /\ \A i \in D \ {item} : z[i] = w[i]
    BY <1>14, <2>1
  <2>3. /\ item \in D => Sum(z) = Sum(w) + z[item] - w[item]
        /\ item \notin D => Sum(z) = Sum(w) + z[item]
    <3>1. Reweighs(D, w, item, z)
      BY <2>2 DEF Reweighs
    <3> HIDE DEF WI, WJ
    <3> QED
      BY <1>11, <3>1, SumChanges
  <2>4. Totals(g, J).my_bytes = Sum(z) /\ v.my_bytes = Sum(w)
    BY <1>9, <1>15, <2>1 DEF Totals, View
  <2>5. old.my_bytes = IF item \in D THEN w[item] ELSE 0
    BY <1>10, <2>1 DEF Nothing
  <2> QED
    <3>1. Sum(w) \in Nat /\ z[item] \in Nat
      BY <1>11, UnitsAreFinite
    <3> QED
      BY <2>2, <2>3, <2>4, <2>5, <3>1
<1>18. Totals(g, J).demand = v.demand + new.demand - old.demand
  <2>1. PICK w \in [D -> Nat], z \in [D \cup {item} -> Nat] :
            w = [i \in D |-> WI(i).demand] /\ z = [i \in D \cup {item} |-> WJ(i).demand]
    BY <1>12, <1>13
  <2>2. z[item] = new.demand /\ \A i \in D \ {item} : z[i] = w[i]
    BY <1>14, <2>1
  <2>3. /\ item \in D => Sum(z) = Sum(w) + z[item] - w[item]
        /\ item \notin D => Sum(z) = Sum(w) + z[item]
    <3>1. Reweighs(D, w, item, z)
      BY <2>2 DEF Reweighs
    <3> HIDE DEF WI, WJ
    <3> QED
      BY <1>11, <3>1, SumChanges
  <2>4. Totals(g, J).demand = Sum(z) /\ v.demand = Sum(w)
    BY <1>9, <1>15, <2>1 DEF Totals, View
  <2>5. old.demand = IF item \in D THEN w[item] ELSE 0
    BY <1>10, <2>1 DEF Nothing
  <2> QED
    <3>1. Sum(w) \in Nat /\ z[item] \in Nat
      BY <1>11, UnitsAreFinite
    <3> QED
      BY <2>2, <2>3, <2>4, <2>5, <3>1
<1>19. u \in Published(u)
  BY <1>7, <1>8, <1>16, <1>17, <1>18 DEF Published, View
<1>20. J \in Parts
  BY <1>4 DEF Parts
<1>21. \A i \in D \cup {item} : J[i].mine = is_custodian(g, i, J[i].stored, me)
  BY <1>1, <1>2, <1>4 DEF ViewOK
<1> QED
  BY <1>1, <1>2, <1>4, <1>8, <1>15, <1>19, <1>20, <1>21 DEF ViewOK

-----------------------------------------------------------------------------
(* The invariant holds.                                                    *)

LEMMA CustodyInit == Init => CustodyIInv
<1> SUFFICES ASSUME Init PROVE CustodyIInv
  OBVIOUS
<1>1. MaxTime \in Nat /\ EVENTS_WAITING \in Nat
  BY CustodyAssumption
<1>2. WorldOK
  <2>1. store \in Stores
    BY DEF Init, Stores
  <2> QED
    BY <1>1, <2>1 DEF Init, WorldOK
<1>3. EventsOK /\ WaitingOK /\ PassOK /\ OneView /\ PassFresh /\ ViewFresh
  BY <1>1 DEF Init, EventsOK, WaitingOK, PassOK, OneView, PassFresh, ViewFresh
<1> QED
  BY <1>2, <1>3 DEF CustodyIInv

LEMMA ViewOKIsConstant == \A v : ViewOK(v)' <=> ViewOK(v)
BY ZenonT(40) DEF ViewOK, Published, View, Totals, Sum, Weighs, Mine, MyBytes, demand_bytes, slots,
   is_custodian, weighted, weight, Above, candidates, Place, Parts

LEMMA ViewsStay ==
    ASSUME CustodyIInv, UNCHANGED <<store, adopted, events, lagged, replayed, pass, view, lost>>
    PROVE  EventsOK' /\ PassOK' /\ OneView' /\ PassFresh' /\ ViewFresh'
<1>1. OneView'
  BY ViewOKIsConstant DEF CustodyIInv, OneView
<1> QED
  BY <1>1 DEF CustodyIInv, EventsOK, PassOK, PassFresh, ViewFresh, Idle, Pending, Stores

LEMMA MembershipMovesKeeps ==
    ASSUME CustodyIInv, MembershipMoves
    PROVE  CustodyIInv'
<1>1. WorldOK' /\ WaitingOK'
  BY DEF CustodyIInv, MembershipMoves, WorldOK, WaitingOK, Waiting, Stores
<1>2. EventsOK' /\ PassOK' /\ OneView' /\ PassFresh' /\ ViewFresh'
  BY ViewsStay DEF MembershipMoves
<1> QED
  BY <1>1, <1>2 DEF CustodyIInv

LEMMA TicksKeeps ==
    ASSUME CustodyIInv, Ticks
    PROVE  CustodyIInv'
<1>1. WorldOK'
  <2>1. now + 1 \in 0..MaxTime
    BY CustodyAssumption DEF CustodyIInv, WorldOK, Ticks
  <2> QED
    BY <2>1 DEF CustodyIInv, Ticks, WorldOK, Stores, loopVars
<1>2. WaitingOK'
  <2>1. CASE waiting = {}
    BY <2>1 DEF Ticks, WaitingOK, loopVars
  <2>2. CASE waiting # {}
    <3>1. PICK w \in Waiting : waiting = {w}
      BY <2>2 DEF CustodyIInv, WaitingOK
    <3>2. /\ w.first_change \in Nat /\ w.last_change \in Nat /\ settle_secs \in Nat
          /\ max_settle_secs \in Nat /\ now \in Nat
      BY CustodyAssumption DEF Waiting, CustodyIInv, WorldOK
    <3>3. Deadline(w) <= w.first_change + max_settle_secs /\ Deadline(w) \in Nat
      BY <3>2 DEF Deadline
    <3>4. Deadline(w) > now
      BY <3>1 DEF Ticks
    <3>5. now + 1 <= w.first_change + max_settle_secs
      BY <3>2, <3>3, <3>4
    <3> QED
      BY <3>1, <3>5 DEF Ticks, WaitingOK, loopVars, Waiting
  <2> QED
    BY <2>1, <2>2
<1>3. EventsOK' /\ PassOK' /\ OneView' /\ PassFresh' /\ ViewFresh'
  BY ViewsStay DEF Ticks, loopVars
<1> QED
  BY <1>1, <1>2, <1>3 DEF CustodyIInv

LEMMA FollowsKeeps ==
    ASSUME CustodyIInv, Follows
    PROVE  CustodyIInv'
<1>1. WorldOK'
  BY DEF CustodyIInv, Follows, WorldOK, worldVars, Stores
<1>2. WaitingOK'
  <2>1. now \in 0..MaxTime /\ membership \in Groups /\ max_settle_secs \in Nat
    BY CustodyAssumption DEF CustodyIInv, WorldOK
  <2>2. CASE waiting' = {}
    BY <2>2 DEF WaitingOK
  <2>3. CASE waiting' = waiting
    BY <2>3 DEF CustodyIInv, WaitingOK, Follows, worldVars, Waiting
  <2>4. CASE waiting' = {[value |-> membership, last_change |-> now,
                          first_change |-> IF waiting = {} THEN now
                                           ELSE (CHOOSE w \in waiting : TRUE).first_change]}
    <3>1. PICK first \in 0..MaxTime :
              /\ first = IF waiting = {} THEN now ELSE (CHOOSE w \in waiting : TRUE).first_change
              /\ now <= first + max_settle_secs
      <4>1. CASE waiting = {}
        BY <2>1, <4>1
      <4>2. CASE waiting # {}
        <5>1. PICK w \in Waiting : waiting = {w} /\ now <= w.first_change + max_settle_secs
          BY <4>2 DEF CustodyIInv, WaitingOK
        <5>2. (CHOOSE u \in waiting : TRUE) = w
          BY <5>1
        <5> QED
          BY <4>2, <5>1, <5>2 DEF Waiting
      <4> QED
        BY <4>1, <4>2
    <3>2. waiting' = {[value |-> membership, last_change |-> now, first_change |-> first]}
      BY <2>4, <3>1
    <3>3. [value |-> membership, last_change |-> now, first_change |-> first] \in Waiting
      BY <2>1 DEF Waiting
    <3>4. now' = now
      BY DEF Follows, worldVars
    <3> QED
      BY <3>1, <3>2, <3>3, <3>4 DEF WaitingOK, Waiting
  <2> QED
    BY <2>2, <2>3, <2>4 DEF Follows, Change
<1>3. EventsOK' /\ PassOK' /\ OneView' /\ PassFresh' /\ ViewFresh'
  BY ViewsStay DEF Follows, worldVars
<1> QED
  BY <1>1, <1>2, <1>3 DEF CustodyIInv

\* A pass reads the items as they are, or leaves a failure to be seen.
LEMMA StartPassIsFresh ==
    ASSUME CustodyIInv, NEW group \in Groups, Idle, StartPass(group),
           adopted' = group, UNCHANGED <<worldVars, events, view>>
    PROVE  EventsOK' /\ PassOK' /\ OneView' /\ PassFresh' /\ ViewFresh'
<1>1. OneView'
  BY ViewOKIsConstant DEF CustodyIInv, OneView
<1>2. EventsOK'
  BY DEF CustodyIInv, EventsOK, worldVars
<1>3. PassOK' /\ PassFresh' /\ ViewFresh'
  <2>1. CASE pass' = {[group |-> group, items |-> store]}
    <3>1. [group |-> group, items |-> store] \in [group : Groups, items : Stores]
      BY DEF CustodyIInv, WorldOK
    <3>2. PassOK'
      BY <2>1, <3>1 DEF PassOK, Stores
    <3>3. PassFresh'
      BY <2>1 DEF PassFresh, worldVars
    <3>4. ViewFresh'
      BY <2>1 DEF ViewFresh, Idle
    <3> QED
      BY <3>2, <3>3, <3>4
  <2>2. CASE pass' = pass /\ lost' = TRUE
    BY <2>2 DEF PassOK, PassFresh, ViewFresh, Idle
  <2> QED
    BY <2>1, <2>2 DEF StartPass
<1> QED
  BY <1>1, <1>2, <1>3

LEMMA SettlesKeeps ==
    ASSUME CustodyIInv, Settles
    PROVE  CustodyIInv'
<1>1. PICK w \in waiting : adopted' = w.value /\ StartPass(w.value)
  BY DEF Settles
<1>2. w.value \in Groups
  BY DEF CustodyIInv, WaitingOK, Waiting
<1>3. EventsOK' /\ PassOK' /\ OneView' /\ PassFresh' /\ ViewFresh'
  BY <1>1, <1>2, StartPassIsFresh DEF Settles
<1>4. WorldOK' /\ WaitingOK'
  BY <1>1, <1>2 DEF CustodyIInv, Settles, WorldOK, WaitingOK, worldVars, Stores
<1> QED
  BY <1>3, <1>4 DEF CustodyIInv

LEMMA ReadsAgainKeeps ==
    ASSUME CustodyIInv, Replays \/ MissedEvents
    PROVE  CustodyIInv'
<1>1. /\ adopted \in Groups /\ adopted' = adopted /\ Idle /\ StartPass(adopted)
      /\ UNCHANGED <<worldVars, events, view, waiting>>
  BY DEF CustodyIInv, WorldOK, Replays, MissedEvents
<1>2. EventsOK' /\ PassOK' /\ OneView' /\ PassFresh' /\ ViewFresh'
  BY <1>1, StartPassIsFresh
<1>3. WorldOK' /\ WaitingOK'
  BY <1>1 DEF CustodyIInv, WorldOK, WaitingOK, Waiting, worldVars, Stores
<1> QED
  BY <1>2, <1>3 DEF CustodyIInv

LEMMA PassEndsKeeps ==
    ASSUME CustodyIInv, PassEnds
    PROVE  CustodyIInv'
<1>1. WorldOK' /\ WaitingOK' /\ EventsOK'
  BY DEF CustodyIInv, PassEnds, WorldOK, WaitingOK, Waiting, EventsOK, worldVars, Stores
<1>2. PICK p \in pass : view' = Published(Computed(p.group, p.items))
  BY DEF PassEnds
<1>3. p.group \in Groups /\ p.items \in Stores
  BY DEF CustodyIInv, PassOK
<1>4. PICK v : view' = {v} /\ v \in Published(Computed(p.group, p.items))
  BY <1>2 DEF Published
<1>5. /\ ViewOK(v) /\ v.group = p.group /\ DOMAIN v.items = DOMAIN p.items
      /\ \A item \in DOMAIN p.items : v.items[item].stored = p.items[item]
  BY <1>3, <1>4, ComputedIsOK
<1>6. OneView'
  BY <1>4, <1>5, ViewOKIsConstant DEF OneView
<1>7. PassOK' /\ PassFresh'
  BY DEF PassEnds, PassOK, PassFresh
<1>8. ViewFresh'
  <2>1. /\ p.group = adopted
        /\ ~ lagged => \A item \in Item \ Pending :
              /\ item \in DOMAIN p.items <=> item \in DOMAIN store
              /\ item \in DOMAIN store => p.items[item] = store[item]
    BY DEF CustodyIInv, PassFresh
  <2>2. /\ v.group = adopted
        /\ ~ lagged => \A item \in Item \ Pending :
              /\ item \in DOMAIN v.items <=> item \in DOMAIN store
              /\ item \in DOMAIN store => v.items[item].stored = store[item]
    BY <1>5, <2>1
  <2>3. UNCHANGED <<adopted, lagged, store, Pending>>
    BY DEF PassEnds, worldVars, Pending
  <2> QED
    BY <1>4, <2>2, <2>3 DEF ViewFresh
<1> QED
  BY <1>1, <1>6, <1>7, <1>8 DEF CustodyIInv

LEMMA ItemMovesKeeps ==
    ASSUME CustodyIInv, NEW item \in Item, NEW stored \in Stored, ItemMoves(item, stored)
    PROVE  CustodyIInv'
<1>1. PICK D \in SUBSET Item : store \in [D -> Stored] /\ D = DOMAIN store
  BY DEF CustodyIInv, WorldOK, Stores
<1>2. /\ store' \in [D \cup {item} -> Stored] /\ store'[item] = stored
      /\ \A i \in D \ {item} : store'[i] = store[i]
  BY <1>1 DEF ItemMoves
<1>3. WorldOK'
  <2>1. store' \in Stores
    BY <1>2 DEF Stores
  <2> QED
    BY <2>1 DEF CustodyIInv, ItemMoves, WorldOK, Stores
<1>4. WaitingOK'
  BY DEF CustodyIInv, ItemMoves, WaitingOK, Waiting
<1>5. /\ events \in Seq(Item) /\ Len(events) \in Nat /\ Len(events) <= EVENTS_WAITING
      /\ EVENTS_WAITING \in Nat /\ EVENTS_WAITING # 0
      /\ \A k \in 1..Len(events) : events[k] \in D
  BY <1>1, CustodyAssumption DEF CustodyIInv, EventsOK
<1>6. /\ events' \in Seq(Item) /\ Len(events') <= EVENTS_WAITING
      /\ \A k \in 1..Len(events') : events'[k] \in D \cup {item}
      /\ lagged' \/ (lagged' = lagged /\ \A k \in 1..Len(events) : events[k] \in Pending')
      /\ item \in Pending'
  <2>1. CASE Len(events) < EVENTS_WAITING
    <3>1. events' = Append(events, item) /\ lagged' = lagged
      BY <2>1 DEF ItemMoves
    <3>2. /\ Append(events, item) \in Seq(Item) /\ Len(Append(events, item)) = Len(events) + 1
          /\ \A k \in 1..Len(events) : Append(events, item)[k] = events[k]
          /\ Append(events, item)[Len(events) + 1] = item
      BY <1>5
    <3>3. \A k \in 1..Len(events) : k \in 1..Len(events) + 1
      BY <1>5
    <3>4. Len(events) + 1 \in 1..Len(events) + 1
      BY <1>5
    <3> QED
      BY <1>5, <2>1, <3>1, <3>2, <3>3, <3>4 DEF Pending
  <2>2. CASE ~ (Len(events) < EVENTS_WAITING)
    <3>1. events' = Append(Tail(events), item) /\ lagged'
      BY <2>2 DEF ItemMoves
    <3>2. Len(events) = EVENTS_WAITING /\ events # <<>>
      BY <1>5, <2>2
    <3>3. /\ Tail(events) \in Seq(Item) /\ Len(Tail(events)) = Len(events) - 1
          /\ \A k \in 1..Len(events) - 1 : Tail(events)[k] = events[k + 1]
      BY <1>5, <3>2
    <3>4. PICK t \in Seq(Item) :
              /\ t = Tail(events) /\ Len(t) = Len(events) - 1 /\ Len(t) \in Nat
              /\ \A k \in 1..Len(t) : t[k] \in D
      <4>1. Len(Tail(events)) \in Nat
        BY <1>5, <3>2, <3>3
      <4>2. \A k \in 1..Len(events) - 1 : k + 1 \in 1..Len(events)
        BY <1>5
      <4>3. \A k \in 1..Len(Tail(events)) : Tail(events)[k] \in D
        BY <1>5, <3>3, <4>2
      <4> QED
        BY <3>3, <4>1, <4>3
    <3>5. /\ Append(t, item) \in Seq(Item) /\ Len(Append(t, item)) = Len(t) + 1
          /\ \A k \in 1..Len(t) : Append(t, item)[k] = t[k]
          /\ Append(t, item)[Len(t) + 1] = item
      BY <3>4
    <3>6. Len(t) + 1 \in 1..Len(t) + 1
      BY <3>4
    <3> QED
      BY <1>5, <3>1, <3>2, <3>4, <3>5, <3>6 DEF Pending
  <2> QED
    BY <2>1, <2>2
<1>7. EventsOK'
  BY <1>2, <1>6 DEF EventsOK
<1>8. PassOK' /\ OneView'
  BY ViewOKIsConstant DEF CustodyIInv, ItemMoves, PassOK, OneView, Stores
<1>9. ~ lagged' => ~ lagged /\ \A i \in Item \ Pending' :
          i \in Item \ Pending /\ (i \in DOMAIN store' <=> i \in DOMAIN store)
          /\ (i \in DOMAIN store => store'[i] = store[i])
  <2> SUFFICES ASSUME ~ lagged', NEW i \in Item \ Pending'
               PROVE  ~ lagged /\ i \notin Pending /\ i # item
    BY <1>1, <1>2, <1>6
  <2> QED
    BY <1>6 DEF Pending
<1>10. PassFresh'
  BY <1>9 DEF CustodyIInv, PassFresh, ItemMoves
<1>11. ViewFresh'
  BY <1>9 DEF CustodyIInv, ViewFresh, Idle, ItemMoves
<1> QED
  BY <1>3, <1>4, <1>7, <1>8, <1>10, <1>11 DEF CustodyIInv

LEMMA FollowItemKeeps ==
    ASSUME CustodyIInv, follow_item
    PROVE  CustodyIInv'
<1>1. WorldOK' /\ WaitingOK' /\ PassOK' /\ PassFresh'
  BY DEF CustodyIInv, follow_item, WorldOK, WaitingOK, Waiting, PassOK, PassFresh, Idle,
         worldVars, Stores
<1>2. /\ events \in Seq(Item) /\ Len(events) \in Nat /\ Len(events) <= EVENTS_WAITING
      /\ EVENTS_WAITING \in Nat /\ events # <<>> /\ Len(events) # 0
      /\ \A k \in 1..Len(events) : events[k] \in DOMAIN store
  BY CustodyAssumption DEF CustodyIInv, EventsOK, follow_item
<1>3. PICK item \in Item : item = Head(events) /\ item \in DOMAIN store
  <2>1. Head(events) = events[1] /\ 1 \in 1..Len(events)
    BY <1>2
  <2> QED
    BY <1>2, <2>1
<1>4. PICK stored \in Stored : stored = store[item]
  BY <1>3 DEF CustodyIInv, WorldOK, Stores
<1>5. /\ events' \in Seq(Item) /\ Len(events') = Len(events) - 1 /\ Len(events') \in Nat
      /\ \A k \in 1..Len(events') : events'[k] = events[k + 1]
  BY <1>2 DEF follow_item
<1>6. \A k \in 1..Len(events') : k + 1 \in 1..Len(events)
  BY <1>2, <1>5
<1>7. EventsOK'
  <2>1. Len(events') <= EVENTS_WAITING
    BY <1>2, <1>5
  <2> QED
    BY <1>2, <1>5, <1>6, <2>1 DEF EventsOK, follow_item, worldVars
<1>8. \A i \in Pending : i = item \/ i \in Pending'
  <2> SUFFICES ASSUME NEW k \in 1..Len(events), k # 1
               PROVE  k - 1 \in 1..Len(events') /\ events[k] = events'[k - 1]
    BY <1>2, <1>3 DEF Pending
  <2>1. k - 1 \in 1..Len(events') /\ k - 1 + 1 = k
    BY <1>2, <1>5
  <2> QED
    BY <1>5, <2>1
<1>9. CASE lost' = TRUE /\ view' = view
  BY <1>1, <1>7, <1>9, ViewOKIsConstant DEF CustodyIInv, OneView, ViewFresh
<1>10. CASE view = {} /\ view' = {} /\ lost' = lost
  <2>1. ViewFresh'
    <3>1. replayed \/ lost
      BY <1>10 DEF CustodyIInv, ViewFresh, follow_item
    <3> QED
      BY <1>10, <3>1 DEF ViewFresh, follow_item
  <2>2. OneView'
    BY <1>10 DEF OneView
  <2> QED
    BY <1>1, <1>7, <2>1, <2>2 DEF CustodyIInv
<1>11. CASE view # {} /\ lost' = lost /\ view' = {Updated(v, Head(events), store[Head(events)]) : v \in view}
  <2>1. PICK v : view = {v} /\ ViewOK(v)
    BY <1>11 DEF CustodyIInv, OneView
  <2>2. PICK u : u = Updated(v, item, stored)
    OBVIOUS
  <2>3. view' = {u}
    BY <1>3, <1>4, <1>11, <2>1, <2>2
  <2>4. /\ ViewOK(u) /\ u.group = v.group /\ DOMAIN u.items = DOMAIN v.items \cup {item}
        /\ u.items[item].stored = stored
        /\ \A i \in DOMAIN v.items \ {item} : u.items[i] = v.items[i]
    BY <2>1, <2>2, UpdatedIsOK
  <2>5. OneView'
    BY <2>3, <2>4, ViewOKIsConstant DEF OneView
  <2>6. ViewFresh'
    <3>1. UNCHANGED <<store, adopted, lagged, replayed, pass>> /\ Idle
      BY DEF follow_item, worldVars
    <3> SUFFICES ASSUME ~ replayed, ~ lost
                 PROVE  /\ u.group = adopted
                        /\ ~ lagged => \A i \in Item \ Pending' :
                              /\ i \in DOMAIN u.items <=> i \in DOMAIN store
                              /\ i \in DOMAIN store => u.items[i].stored = store[i]
      BY <1>11, <2>3, <3>1 DEF ViewFresh
    <3>2. /\ v.group = adopted
          /\ ~ lagged => \A i \in Item \ Pending :
                /\ i \in DOMAIN v.items <=> i \in DOMAIN store
                /\ i \in DOMAIN store => v.items[i].stored = store[i]
      BY <2>1, <3>1 DEF CustodyIInv, ViewFresh
    <3> QED
      BY <1>3, <1>4, <1>8, <2>4, <3>2
  <2> QED
    BY <1>1, <1>7, <2>5, <2>6 DEF CustodyIInv
<1> QED
  BY <1>9, <1>10, <1>11 DEF follow_item

LEMMA CustodyStep ==
    ASSUME CustodyIInv, [Next]_vars
    PROVE  CustodyIInv'
<1>1. CASE UNCHANGED vars
  <2>1. EventsOK' /\ PassOK' /\ OneView' /\ PassFresh' /\ ViewFresh'
    BY <1>1, ViewsStay DEF vars, worldVars, loopVars
  <2>2. WorldOK' /\ WaitingOK'
    BY <1>1 DEF CustodyIInv, WorldOK, WaitingOK, Waiting, vars, worldVars, loopVars, Stores
  <2> QED
    BY <2>1, <2>2 DEF CustodyIInv
<1>2. CASE MembershipMoves \/ Ticks
  BY <1>2, MembershipMovesKeeps, TicksKeeps
<1>3. CASE Loop
  BY <1>3, FollowsKeeps, SettlesKeeps, ReadsAgainKeeps, PassEndsKeeps, FollowItemKeeps DEF Loop
<1>4. CASE \E item \in Item, stored \in Stored : ItemMoves(item, stored)
  BY <1>4, ItemMovesKeeps
<1> QED
  BY <1>1, <1>2, <1>3, <1>4 DEF Next

LEMMA CustodyInductive == Spec => []CustodyIInv
BY CustodyInit, CustodyStep, PTL DEF Spec

-----------------------------------------------------------------------------
(* The theorems.                                                           *)

LEMMA CustodyIInvIsEnough == CustodyIInv => CustodyInv
<1> SUFFICES ASSUME CustodyIInv PROVE CustodyInv
  OBVIOUS
<1>1. WorldOK /\ EventsOK /\ WaitingOK /\ PassOK /\ OneView
  BY DEF CustodyIInv
<1>2. TypeOK
  <2>1. Cardinality({}) = 0 /\ \A x : Cardinality({x}) = 1
    BY FS_EmptySet, FS_Singleton
  <2>2. waiting \subseteq Waiting /\ Cardinality(waiting) <= 1
    <3>1. waiting = {} \/ \E w \in Waiting : waiting = {w}
      BY <1>1 DEF WaitingOK
    <3> QED
      BY <2>1, <3>1
  <2>3. Cardinality(pass) <= 1
    BY <1>1, <2>1, SMTT(40) DEF PassOK
  <2>4. Cardinality(view) <= 1 /\ \A v \in view : ViewOK(v)
    <3>1. CASE view = {}
      BY <2>1, <3>1
    <3>2. CASE view # {}
      <4>1. PICK v : view = {v} /\ ViewOK(v)
        BY <1>1, <3>2 DEF OneView
      <4>2. Cardinality(view) = 1
        BY <2>1, <4>1
      <4> QED
        BY <4>1, <4>2
    <3> QED
      BY <3>1, <3>2
  <2>5. DOMAIN store \subseteq Item /\ \A item \in DOMAIN store : store[item] \in Stored
    BY <1>1 DEF WorldOK, Stores
  <2> QED
    BY <1>1, <2>2, <2>3, <2>4, <2>5 DEF TypeOK, WorldOK, EventsOK, Waiting, ViewOK
<1>3. TotalsAddUp
  BY <1>1 DEF TotalsAddUp, OneView, ViewOK
<1>4. AdoptedInTime
  BY <1>1 DEF AdoptedInTime, WaitingOK
<1>5. ReplicasAreNamed
  <2> SUFFICES ASSUME NEW item \in DOMAIN store, NEW stored, stored = store[item],
                      NEW own, own = IF stored.creators \cap DOMAIN membership # {} THEN 1 ELSE 0,
                      NEW named, named = Cardinality(Custodians(membership, item, stored))
               PROVE  \/ own + named = replicas
                      \/ own + named < replicas
                         /\ named = Cardinality(candidates(membership, stored))
    BY DEF ReplicasAreNamed, Custodians
  <2>1. item \in Item /\ stored \in Stored /\ membership \in Groups
    BY <1>1 DEF WorldOK, Stores
  <2>2. \/ named = slots(membership, stored)
        \/ /\ named < slots(membership, stored)
           /\ Custodians(membership, item, stored) = candidates(membership, stored)
    BY <2>1, CustodiansFillTheSlots
  <2>3. own \in 0..1 /\ replicas \in Nat /\ slots(membership, stored) = replicas - own
    BY RankingAssumption, SlotsType
  <2>4. named \in Nat
    <3>1. IsFiniteSet(Custodians(membership, item, stored))
      BY <2>1, CustodiansAreFinite
    <3> QED
      BY <3>1, FS_CardinalityType
  <2> QED
    BY <2>2, <2>3, <2>4
<1> QED
  BY <1>2, <1>3, <1>4, <1>5 DEF CustodyInv

\* The totals the view keeps as items come and change are those of a whole
\* pass; a membership that goes on moving is adopted in time; and every item
\* has as many custodians as it has slots, or all who may be one (view.rs
\* update, settling.rs deadline, custody.rs custodians).
THEOREM CustodyIsKept == Spec => []CustodyInv
<1>1. Spec => []CustodyIInv
  BY CustodyInductive
<1>2. CustodyIInv => CustodyInv
  BY CustodyIInvIsEnough
<1> QED
  BY <1>1, <1>2, PTL

\* With nothing left to read, the view is custody of the items as they are,
\* under the settled group: whatever changed during a pass, and whatever events
\* were dropped, unless a read of the store failed (whole_pass, follow_item).
THEOREM CustodyIsCurrent == Spec => []ViewIsCurrent
<1>1. ASSUME CustodyIInv PROVE ViewIsCurrent
  <2> SUFFICES ASSUME Idle, ~ replayed, ~ lagged, events = <<>>, ~ lost
               PROVE  view = Published(Computed(adopted, store))
    BY DEF ViewIsCurrent
  <2>1. Pending = {}
    BY DEF Pending
  <2>2. PICK v : view = {v} /\ ViewOK(v)
    BY <1>1 DEF CustodyIInv, ViewFresh, OneView
  <2>3. /\ v.group = adopted
        /\ \A item \in Item :
              /\ item \in DOMAIN v.items <=> item \in DOMAIN store
              /\ item \in DOMAIN store => v.items[item].stored = store[item]
    BY <1>1, <2>1, <2>2 DEF CustodyIInv, ViewFresh
  <2>4. PICK D \in SUBSET Item : v.items \in [D -> [stored : Stored, mine : BOOLEAN]] /\ D = DOMAIN v.items
    BY <2>2 DEF ViewOK, Parts
  <2>5. DOMAIN store \subseteq Item
    BY <1>1 DEF CustodyIInv, WorldOK, Stores
  <2>6. D = DOMAIN store
    BY <2>3, <2>4, <2>5
  <2>7. \A item \in D : v.items[item] =
            [stored |-> store[item], mine |-> is_custodian(adopted, item, store[item], me)]
    <3> SUFFICES ASSUME NEW item \in D
                 PROVE  v.items[item] =
                            [stored |-> store[item], mine |-> is_custodian(adopted, item, store[item], me)]
      OBVIOUS
    <3>1. v.items[item] \in [stored : Stored, mine : BOOLEAN]
      BY <2>4
    <3>2. v.items[item].stored = store[item]
      BY <2>3, <2>6
    <3>3. v.items[item].mine = is_custodian(adopted, item, store[item], me)
      BY <2>2, <2>3, <2>4, <3>2 DEF ViewOK
    <3> QED
      BY <3>1, <3>2, <3>3
  <2>8. v.items = Computed(adopted, store).items
    BY <2>4, <2>6, <2>7 DEF Computed
  <2>9. adopted = Computed(adopted, store).group
    BY DEF Computed
  <2>10. Published(v) = Published(Computed(adopted, store))
    BY <2>3, <2>8, <2>9, Zenon DEF Published
  <2>11. v \in Published(v)
    BY <2>2 DEF ViewOK
  <2> QED
    BY <2>2, <2>10, <2>11 DEF Published
<1>2. Spec => []CustodyIInv
  BY CustodyInductive
<1> QED
  BY <1>1, <1>2, PTL

=============================================================================
