----------------------------- MODULE LibraryProofs -----------------------------
(***************************************************************************)
(* Theorems about a node's library, for every group, whatever the members  *)
(* write and do, any failures and restarts, and any calls.                 *)
(*                                                                         *)
(* Search and lists agree because each item the rows know is either as the *)
(* index has it, or was skipped, or is still to be read again (Redo), or   *)
(* was lost by a failed commit (Lost); and what the index has and a search *)
(* does not find is still to be committed, or a commit has failed for it   *)
(* (CommitOK).  A restart forgets what the index had not committed and     *)
(* keeps the rows; the replay reads every item the document knows, and an  *)
(* item the rows know is one of them for ever (KnownOK): nobody deletes    *)
(* what an item is, and a merge keeps the newest of the entries under a    *)
(* key.                                                                    *)
(*                                                                         *)
(* What is wished for stays because what is written of a wish has a title  *)
(* exactly if this member's entry has one by then (PlansOK): nobody can    *)
(* answer a wish before it is created (FreshOK), and what this member      *)
(* wrote before is newer than what others hold of it, and here (MineKept,  *)
(* MineHere).                                                              *)
(***************************************************************************)
EXTENDS Library, FiniteSetTheorems, TLAPS

Events == ({"insert"} \X Keys) \cup {<<"content">>} \cup ({"up", "down"} \X Peer) \cup ({"finished"} \X Peer \X BOOLEAN)

\* An entry of an item's own: read, it is an item.
HasOwn(d, i) == \E e \in d : e.key.kind \in OwnKinds /\ e.key.of = i

LeftOK ==
    /\ {"writes", "calls"} \subseteq DOMAIN left
    /\ \A w \in left.writes : w[1] \in Peer /\ w[2] \in Entries
    /\ \A call \in left.calls : CallOK(call)
DocOK == doc = Merged(doc) /\ EntriesOK(doc)
PeersOK == DOMAIN theirs = Peer /\ \A p \in Peer : EntriesOK(theirs[p])
RoundOK(r) == r = None \/ (DOMAIN r = {"brings", "early"} /\ EntriesOK(r.brings) /\ r.early \in BOOLEAN)
RoundsOK == DOMAIN round = Peer /\ \A p \in Peer : RoundOK(round[p])
StreamOK == stream \in Seq(Events)
NewsOK ==
    /\ pending \in [items : SUBSET Item, bookmarks : SUBSET Item, wishes : SUBSET Wish, content_arrived : BOOLEAN]
    /\ woken \in BOOLEAN /\ waking \subseteq {"pump", "sweep"}
OfferOK == offering \in {"waiting", "reaction", "repair"}
UnansweredOK ==
    \A e \in DOMAIN unanswered :
        /\ unanswered[e] \in [left : Nat, waited : Nat]
        /\ unanswered[e].left <= unanswered[e].waited /\ unanswered[e].waited <= ASK_AGAIN
WritingOK == \A w \in writing : "entries" \in DOMAIN w /\ w.entries \in Seq(Puttable) /\ w.entries # <<>>
NodeIInv == LeftOK /\ DocOK /\ PeersOK /\ RoundsOK /\ StreamOK /\ NewsOK /\ OfferOK /\ UnansweredOK /\ WritingOK

WaitingOK == waiting \in [items : SUBSET Item, bookmarks : SUBSET Item, wishes : SUBSET Wish]
Honest(S) == \A e \in S : e.author = e.key.name
ReadOK(r) ==
    \/ r = <<>>
    \/ /\ r = <<r[1], r[2], r[3]>>
       /\ \/ r[1] = "items" /\ r[2] \in Item /\ Honest(r[3].ratings) /\ Honest(r[3].reviews)
          \/ r[1] = "bookmarks" /\ r[2] \in Item /\ Honest(r[3].entries)
          \/ r[1] = "wishes" /\ r[2] \in Wish /\ Honest(r[3].entries) /\ Honest(r[3].comments)
Reading(i) == job.read # <<>> /\ job.read[1] = "items" /\ job.read[2] = i
JobOK ==
    /\ DOMAIN job = {"items", "bookmarks", "wishes", "news", "read", "indexed", "written"}
    /\ job.items \subseteq Item /\ job.bookmarks \subseteq Item /\ job.wishes \subseteq Wish
    /\ job.indexed \in BOOLEAN /\ ReadOK(job.read)
    /\ reader \in {"starting", "replaying", "projecting", "idle", "marked", "waiting"}
    /\ reader # "projecting" => job = NoJob
RowsOK ==
    /\ DOMAIN rows = {"items", "bookmarks", "wishes", "members"}
    /\ DOMAIN rows.items \subseteq Item /\ DOMAIN rows.wishes \subseteq Wish
    /\ \A i \in DOMAIN rows.items : Honest(rows.items[i].ratings) /\ Honest(rows.items[i].reviews)
    /\ \A i \in DOMAIN rows.bookmarks : Honest(rows.bookmarks[i])
    /\ \A w \in DOMAIN rows.wishes : Honest(rows.wishes[w].entries) /\ Honest(rows.wishes[w].comments)
CommitOK ==
    /\ DOMAIN index = {"written", "committed"}
    /\ ~job.indexed => \A i \in Uncommitted : <<"commit", i>> \in skipped
KnownOK == /\ \A i \in DOMAIN rows.items : HasOwn(doc, i)
           /\ \A i \in Item : Reading(i) => HasOwn(doc, i)
Redo(i) == reader \in {"starting", "replaying"} \/ (reader = "projecting" /\ (i \in job.items \/ Reading(i)))
Lost(i) == <<"commit", i>> \in skipped /\ i \notin Uncommitted
IndexOK == \A i \in DOMAIN rows.items :
    \/ <<"items", i>> \in skipped \/ Redo(i) \/ Lost(i)
    \/ i \in DOMAIN index.written /\ index.written[i] = rows.items[i].item
ReaderIInv == WaitingOK /\ JobOK /\ RowsOK /\ CommitOK /\ KnownOK /\ IndexOK
LibraryIInv == NodeIInv /\ ReaderIInv

-----------------------------------------------------------------------------
(* Numbers and finite sets.                                                *)

LEMMA SetInduction ==
    ASSUME NEW T \in SUBSET Nat, 0 \in T, \A n \in T : n + 1 \in T
    PROVE  T = Nat
<1> DEFINE R == OpToRel(<, Nat)
<1>1. IsWellFoundedOn(R, Nat)
  BY NatLessThanWellFounded
<1>2. \A x, y \in Nat : x < y => <<x, y>> \in R
  BY DEF OpToRel
<1> HIDE DEF R
<1>3. SUFFICES ASSUME Nat \ T # {} PROVE FALSE
  OBVIOUS
<1>4. PICK x \in Nat \ T : \A y \in Nat \ T : <<y, x>> \notin R
  BY <1>1, <1>3, WFMin
<1>5. x - 1 \in Nat /\ x - 1 < x /\ x - 1 + 1 = x
  BY <1>4
<1>6. x - 1 \in T
  BY <1>2, <1>4, <1>5
<1> QED
  BY <1>4, <1>5, <1>6

\* A finite set of numbers has a greatest.
LEMMA GreatestExists ==
    ASSUME NEW S \in SUBSET Nat, IsFiniteSet(S), S # {}
    PROVE  \E m \in S : \A n \in S : n <= m
<1> DEFINE HasOne(X) == \E m \in X : \A n \in X : n <= m
           T == {k \in Nat : \A X \in SUBSET Nat : IsFiniteSet(X) /\ Cardinality(X) = k + 1 => HasOne(X)}
<1>1. 0 \in T
  <2> SUFFICES ASSUME NEW X \in SUBSET Nat, IsFiniteSet(X), Cardinality(X) = 1 PROVE HasOne(X)
    OBVIOUS
  <2>1. PICK m : X = {m}
    BY FS_Singleton
  <2> QED
    BY <2>1
<1>2. ASSUME NEW k \in T PROVE k + 1 \in T
  <2> SUFFICES ASSUME NEW X \in SUBSET Nat, IsFiniteSet(X), Cardinality(X) = k + 2 PROVE HasOne(X)
    BY <1>2
  <2>1. PICK x : x \in X
    <3>1. X # {}
      BY FS_EmptySet
    <3> QED
      BY <3>1
  <2>2. IsFiniteSet(X \ {x}) /\ Cardinality(X \ {x}) = k + 1
    BY <2>1, FS_RemoveElement
  <2>3. PICK m \in X \ {x} : \A n \in X \ {x} : n <= m
    BY <1>2, <2>2
  <2>4. CASE x <= m
    BY <2>3, <2>4
  <2>5. CASE ~(x <= m)
    BY <2>1, <2>3, <2>5
  <2> QED
    BY <2>4, <2>5
<1>3. T = Nat
  <2> HIDE DEF HasOne
  <2>1. T \in SUBSET Nat
    OBVIOUS
  <2> HIDE DEF T
  <2> QED
    BY <1>1, <1>2, <2>1, SetInduction
<1>4. Cardinality(S) \in Nat /\ Cardinality(S) # 0
  BY FS_CardinalityType, FS_EmptySet
<1>5. Cardinality(S) - 1 \in Nat /\ Cardinality(S) = Cardinality(S) - 1 + 1
  BY <1>4
<1> QED
  BY <1>3, <1>5

\* One more than any of them, or 0.
LEMMA MaxIsNat ==
    ASSUME NEW S \in SUBSET Nat, IsFiniteSet(S)
    PROVE  /\ Max({0} \cup S) \in Nat
           /\ \A n \in S : n <= Max({0} \cup S)
<1> DEFINE X == {0} \cup S
<1>1. IsFiniteSet(X) /\ X \in SUBSET Nat /\ X # {}
  BY FS_AddElement
<1> HIDE DEF X
<1>2. PICK m \in X : \A n \in X : n <= m
  BY <1>1, GreatestExists
<1>3. Max(X) \in X /\ \A n \in X : Max(X) >= n
  <2>1. m \in X /\ \A n \in X : m >= n
    BY <1>1, <1>2
  <2> QED
    BY <2>1 DEF Max
<1>4. Max(X) \in Nat /\ \A n \in X : n <= Max(X)
  BY <1>1, <1>3
<1> QED
  BY <1>4 DEF X

LEMMA MinOfTwo ==
    ASSUME NEW a \in Nat, NEW b \in Nat
    PROVE  Min({a, b}) = IF a <= b THEN a ELSE b
<1> DEFINE least == IF a <= b THEN a ELSE b
<1>1. least \in {a, b} /\ \A y \in {a, b} : least <= y
  OBVIOUS
<1>2. \A x \in {a, b} : (\A y \in {a, b} : x <= y) => x = least
  OBVIOUS
<1>3. Min({a, b}) \in {a, b} /\ \A y \in {a, b} : Min({a, b}) <= y
  BY <1>1 DEF Min
<1> QED
  BY <1>2, <1>3

\* SetToSeq enumerates a finite set.
LEMMA SetToSeqType ==
    ASSUME NEW S, IsFiniteSet(S)
    PROVE  SetToSeq(S) \in Seq(S)
<1>1. Cardinality(S) \in Nat /\ ExistsBijection(1 .. Cardinality(S), S)
  BY FS_CardinalityType
<1>2. PICK f \in [1 .. Cardinality(S) -> S] : IsInjective(f)
  <2>1. PICK g : g \in Bijection(1 .. Cardinality(S), S)
    BY <1>1 DEF ExistsBijection
  <2> QED
    BY <2>1 DEF Bijection, Injection, IsInjective
<1>3. SetToSeq(S) \in [1 .. Cardinality(S) -> S]
  BY <1>2 DEF SetToSeq
<1> QED
  BY <1>1, <1>3

-----------------------------------------------------------------------------
(* Documents.                                                              *)

\* Of a finite set of entries, one is the newest.
LEMMA NewestExists ==
    ASSUME NEW S, S \subseteq Entries, IsFiniteSet(S), S # {}
    PROVE  \E e \in S : \A f \in S : f.at <= e.at
<1> DEFINE times == {e.at : e \in S}
           at == [e \in S |-> e.at]
<1>1. at \in Surjection(S, times)
  BY DEF Surjection
<1>2. IsFiniteSet(times) /\ times # {} /\ times \in SUBSET Nat
  <2>1. IsFiniteSet(times)
    <3> HIDE DEF times
    <3> QED
      BY <1>1, FS_Surjection
  <2> QED
    BY <2>1 DEF Entries
<1>3. PICK m \in times : \A n \in times : n <= m
  <2> HIDE DEF times
  <2> QED
    BY <1>2, GreatestExists
<1> QED
  BY <1>3

LEMMA UnionIsOK ==
    ASSUME NEW d, NEW x, EntriesOK(d), EntriesOK(x)
    PROVE  EntriesOK(d \cup x)
  BY FS_Union DEF EntriesOK

LEMMA SingletonIsOK == ASSUME NEW e \in Entries PROVE EntriesOK({e})
  BY FS_Singleton DEF EntriesOK

LEMMA MergedIsOK ==
    ASSUME NEW d, EntriesOK(d)
    PROVE  EntriesOK(Merged(d)) /\ Merged(Merged(d)) = Merged(d) /\ Merged(d) \subseteq d
<1>1. Merged(d) \subseteq d
  BY DEF Merged
<1>2. Merged(Merged(d)) = Merged(d)
  BY DEF Merged
<1> QED
  BY <1>1, <1>2, FS_Subset DEF EntriesOK

\* A merge keeps an entry under every key.
LEMMA MergedKeepsKeys ==
    ASSUME NEW d, EntriesOK(d), NEW i, HasOwn(d, i)
    PROVE  HasOwn(Merged(d), i)
<1>1. PICK e \in d : e.key.kind \in OwnKinds /\ e.key.of = i
  BY DEF HasOwn
<1> DEFINE S == {f \in d : f.key = e.key /\ f.author = e.author}
<1>2. IsFiniteSet(S) /\ S \subseteq Entries /\ S # {}
  BY FS_Subset DEF EntriesOK
<1> HIDE DEF S
<1>3. PICK g \in S : \A f \in S : f.at <= g.at
  BY <1>2, NewestExists
<1>4. g \in Merged(d) /\ g.key = e.key
  BY <1>3 DEF Merged, S
<1> QED
  BY <1>1, <1>4 DEF HasOwn

LEMMA MergeGrows ==
    ASSUME NEW d, NEW x, EntriesOK(d), EntriesOK(x)
    PROVE  /\ EntriesOK(Merged(d \cup x)) /\ Merged(Merged(d \cup x)) = Merged(d \cup x)
           /\ \A i : HasOwn(d, i) => HasOwn(Merged(d \cup x), i)
<1>1. EntriesOK(d \cup x)
  BY UnionIsOK
<1>2. \A i : HasOwn(d, i) => HasOwn(d \cup x, i)
  BY DEF HasOwn
<1> QED
  BY <1>1, <1>2, MergedIsOK, MergedKeepsKeys

\* The newest entry of an item's own is read: nobody deletes one.
LEMMA OwnIsRead ==
    ASSUME NEW d, EntriesOK(d), NEW i
    PROVE  /\ HasItem(d, i) <=> HasOwn(d, i)
           /\ i \in item_ids(d) <=> HasOwn(d, i)
<1>1. \A e \in d : e.key.kind \in OwnKinds => ~e.deleted
  BY DEF EntriesOK, Entries, NeverDeleted
<1>2. ASSUME HasOwn(d, i)
      PROVE  \E e \in single_latest_per_key(d) : e.key.kind \in OwnKinds /\ e.key.of = i
  <2>1. PICK e \in d : e.key.kind \in OwnKinds /\ e.key.of = i
    BY <1>2 DEF HasOwn
  <2> DEFINE S == {f \in d : f.key = e.key}
  <2>2. IsFiniteSet(S) /\ S \subseteq Entries /\ S # {}
    BY FS_Subset DEF EntriesOK
  <2> HIDE DEF S
  <2>3. PICK g \in S : \A f \in S : f.at <= g.at
    BY <2>2, NewestExists
  <2>4. g \in d /\ g.key = e.key /\ \A f \in d : f.key = g.key => f.at <= g.at
    BY <2>3 DEF S
  <2> QED
    BY <1>1, <2>1, <2>4 DEF single_latest_per_key, all
<1>3. ASSUME NEW e \in single_latest_per_key(d), e.key.kind \in OwnKinds, e.key.of = i
      PROVE  HasOwn(d, i)
  BY <1>3 DEF single_latest_per_key, all, HasOwn
<1>4. HasItem(d, i) <=> \E e \in single_latest_per_key(d) : e.key.kind \in OwnKinds /\ e.key.of = i
  BY DEF HasItem, Own
<1>5. i \in item_ids(d) <=> \E e \in single_latest_per_key(d) : e.key.kind \in OwnKinds /\ e.key.of = i
  BY DEF item_ids
<1> QED
  BY <1>2, <1>3, <1>4, <1>5

LEMMA KeyTypes ==
    ASSUME NEW k \in Keys
    PROVE  /\ k.kind \in OwnKinds \cup {"rating", "review", "bookmark"} => k.of \in Item
           /\ k.kind \in AboutWish => k.of \in Wish
  BY DEF Keys, ItemKeys, WishKeys, OwnKinds, AboutWish

LEMMA EntryTypes ==
    ASSUME NEW e \in Entries
    PROVE  e.key \in Keys /\ e.author \in Member /\ e.at \in Nat /\ e.value \in Values /\ e.deleted \in BOOLEAN
  BY DEF Entries

\* What is read as a member's words names its author.
LEMMA ReadIsHonest ==
    ASSUME NEW d, NEW c, NEW kind, NEW of
    PROVE  Honest(read_community_entries(d, c, kind, of).entries)
  BY DEF Honest, read_community_entries, member

LEMMA IdsType ==
    ASSUME NEW d, EntriesOK(d)
    PROVE  item_ids(d) \subseteq Item /\ bookmarked_item_ids(d) \subseteq Item /\ wish_ids(d) \subseteq Wish
<1>1. \A e \in single_latest_per_key(d) : e.key \in Keys
  BY EntryTypes DEF EntriesOK, single_latest_per_key, all
<1> QED
  BY <1>1, KeyTypes DEF item_ids, bookmarked_item_ids, wish_ids, AboutWish

-----------------------------------------------------------------------------
(* The catalogue's half of the invariant.                                  *)

LEMMA LibraryInit == Init => LibraryIInv
<1> SUFFICES ASSUME Init PROVE LibraryIInv
  OBVIOUS
<1>1. PICK s \in Scenarios : CatalogueInit(s) /\ ReaderInit
  BY DEF Init
<1>2. ScenarioOK(s)
  BY LibraryAssumption
<1>3. LeftOK /\ DocOK /\ PeersOK
  BY <1>1, <1>2 DEF CatalogueInit, ScenarioOK, LeftOK, DocOK, PeersOK
<1>4. RoundsOK
  BY <1>1 DEF CatalogueInit, RoundsOK, RoundOK
<1>5. NewsOK /\ OfferOK
  BY <1>1 DEF CatalogueInit, NewsOK, NothingPending, OfferOK
<1>9. StreamOK /\ UnansweredOK
  <2>1. stream = <<>> /\ unanswered = <<>>
    BY <1>1 DEF CatalogueInit
  <2>2. DOMAIN unanswered = {}
    BY <2>1
  <2> QED
    BY <2>1, <2>2 DEF StreamOK, UnansweredOK
<1>6. WritingOK /\ WaitingOK
  BY <1>1 DEF ReaderInit, WritingOK, WaitingOK, NothingWaiting
<1>7. JobOK
  BY <1>1 DEF ReaderInit, JobOK, NoJob, Job, ReadOK
<1>8. RowsOK /\ CommitOK /\ KnownOK /\ IndexOK
  BY <1>1 DEF ReaderInit, RowsOK, CommitOK, Uncommitted, KnownOK, IndexOK, NoRows, NoIndex, NoJob, Job, Reading
<1> QED
  BY <1>3, <1>4, <1>5, <1>6, <1>7, <1>8, <1>9 DEF LibraryIInv, NodeIInv, ReaderIInv

\* What a step does not touch stays as it should be.
LEMMA Untouched ==
    ASSUME NodeIInv
    PROVE  /\ left' = left => LeftOK'
           /\ doc' = doc => DocOK'
           /\ theirs' = theirs => PeersOK'
           /\ round' = round => RoundsOK'
           /\ stream' = stream => StreamOK'
           /\ pending' = pending /\ woken' = woken /\ waking' = waking => NewsOK'
           /\ offering' = offering => OfferOK'
           /\ unanswered' = unanswered => UnansweredOK'
           /\ writing' = writing => WritingOK'
<1>1. left' = left => LeftOK'
  BY DEF NodeIInv, LeftOK
<1>2. doc' = doc => DocOK'
  BY DEF NodeIInv, DocOK
<1>3. theirs' = theirs => PeersOK'
  BY DEF NodeIInv, PeersOK
<1>4. round' = round => RoundsOK'
  BY DEF NodeIInv, RoundsOK
<1>5. stream' = stream => StreamOK'
  BY DEF NodeIInv, StreamOK
<1>6. pending' = pending /\ woken' = woken /\ waking' = waking => NewsOK'
  BY DEF NodeIInv, NewsOK
<1>7. offering' = offering => OfferOK'
  BY DEF NodeIInv, OfferOK
<1>8. unanswered' = unanswered => UnansweredOK'
  BY DEF NodeIInv, UnansweredOK
<1>9. writing' = writing => WritingOK'
  BY DEF NodeIInv, WritingOK
<1> QED
  BY <1>1, <1>2, <1>3, <1>4, <1>5, <1>6, <1>7, <1>8, <1>9

\* Of what may still happen, what a step uses up is left out.
LEMMA LessIsLeft ==
    ASSUME NodeIInv, NEW f, f \notin {"writes", "calls"}, NEW x, left' = [left EXCEPT ![f] = x]
    PROVE  LeftOK'
  BY DEF NodeIInv, LeftOK

LEMMA FailsKeeps == ASSUME NodeIInv, NEW step, Fails(step) PROVE LeftOK'
<1>1. \E x : left' = [left EXCEPT !["fails"] = x]
  BY DEF Fails
<1> QED
  BY <1>1, LessIsLeft

\* What an item is, once known, stays known.
DocGrows == \A i : HasOwn(doc, i) => HasOwn(doc', i)

LEMMA DocStays == ASSUME doc' = doc PROVE DocGrows
  BY DEF DocGrows

LEMMA DocMerges ==
    ASSUME NodeIInv, NEW x, EntriesOK(x), doc' = Merged(doc \cup x)
    PROVE  DocOK' /\ DocGrows
<1>1. EntriesOK(doc)
  BY DEF NodeIInv, DocOK
<1> QED
  BY <1>1, MergeGrows DEF DocOK, DocGrows

\* Rounds bring what the other side's document holds.
LEMMA StartedKeeps ==
    ASSUME NodeIInv, NEW peers, round' = Started(peers)
    PROVE  RoundsOK'
<1> SUFFICES ASSUME NEW p \in Peer PROVE RoundOK(Started(peers)[p])
  BY DEF RoundsOK, Started, RoundOK, EntriesOK
<1>1. RoundOK(round[p]) /\ EntriesOK(theirs[p])
  BY DEF NodeIInv, RoundsOK, PeersOK
<1>2. Started(peers)[p] = IF p \in peers /\ round[p] = None
                          THEN [brings |-> theirs[p], early |-> FALSE] ELSE round[p]
  BY DEF Started
<1>3. RoundOK([brings |-> theirs[p], early |-> FALSE])
  <2> DEFINE r == [brings |-> theirs[p], early |-> FALSE]
  <2>1. DOMAIN r = {"brings", "early"} /\ r.brings = theirs[p] /\ r.early = FALSE
    OBVIOUS
  <2> HIDE DEF r
  <2> QED
    BY <1>1, <2>1 DEF RoundOK
<1> QED
  BY <1>1, <1>2, <1>3

LEMMA EventTypes ==
    /\ \A p \in Peer : <<"up", p>> \in Events /\ <<"down", p>> \in Events
    /\ \A p \in Peer, early \in BOOLEAN : <<"finished", p, early>> \in Events
    /\ <<"content">> \in Events
    /\ \A k \in Keys : <<"insert", k>> \in Events
  BY DEF Events

\* What an insert says to the pump.
LEMMA InsertsType ==
    ASSUME NodeIInv, NEW x, EntriesOK(x)
    PROVE  Inserts(x) \in Seq(Events)
<1> DEFINE new == Merged(doc \cup x) \ doc
           said == {<<"insert", e.key>> : e \in new}
           says == [e \in new |-> <<"insert", e.key>>]
<1>1. EntriesOK(Merged(doc \cup x))
  BY MergeGrows DEF NodeIInv, DocOK
<1>2. IsFiniteSet(new) /\ new \subseteq Entries
  <2>1. new \subseteq Merged(doc \cup x)
    OBVIOUS
  <2> HIDE DEF new
  <2> QED
    BY <1>1, <2>1, FS_Subset DEF EntriesOK
<1>3. said \subseteq Events
  <2>1. \A e \in new : e.key \in Keys
    BY <1>2, EntryTypes
  <2> QED
    BY <2>1, EventTypes
<1>4. IsFiniteSet(said)
  <2> HIDE DEF new
  <2>1. says \in Surjection(new, said)
    BY DEF Surjection
  <2> HIDE DEF says, said
  <2> QED
    BY <1>2, <2>1, FS_Surjection
<1>5. Inserts(x) = SetToSeq(said)
  BY DEF Inserts
<1> HIDE DEF said
<1>6. SetToSeq(said) \in Seq(said)
  BY <1>4, SetToSeqType
<1> QED
  BY <1>3, <1>5, <1>6

LEMMA SaysMore ==
    ASSUME NodeIInv, NEW e \in Events, stream' = Append(stream, e)
    PROVE  StreamOK'
  BY DEF NodeIInv, StreamOK

\* A step of the catalogue: the rest is as it was.
CatalogueKept ==
    /\ LeftOK' /\ DocOK' /\ PeersOK' /\ RoundsOK' /\ StreamOK' /\ NewsOK' /\ OfferOK' /\ UnansweredOK'
    /\ DocGrows

LEMMA RoundEndsKeeps ==
    ASSUME NodeIInv, NEW p \in Peer, RoundEnds(p)
    PROVE  CatalogueKept
<1> USE DEF groupVars, newsVars, offerVars, sweepVars
<1>1. PeersOK' /\ NewsOK' /\ OfferOK' /\ UnansweredOK'
  BY Untouched DEF RoundEnds
<1>2. round[p] # None /\ EntriesOK(round[p].brings) /\ round[p].early \in BOOLEAN /\ stream \in Seq(Events)
  BY DEF RoundEnds, NodeIInv, RoundsOK, RoundOK, StreamOK
<1>3. RoundsOK'
  <2>1. round' = [round EXCEPT ![p] = None]
    BY DEF RoundEnds
  <2> QED
    BY <2>1 DEF NodeIInv, RoundsOK, RoundOK
<1>4. <<"finished", p, round[p].early>> \in Events /\ <<"content">> \in Events
  BY <1>2, EventTypes
<1>5. ASSUME doc' = Merged(doc \cup round[p].brings), UNCHANGED left,
             stream' = stream \o Inserts(round[p].brings)
                              \o << <<"finished", p, round[p].early>>, <<"content">> >>
      PROVE  LeftOK' /\ DocOK' /\ StreamOK' /\ DocGrows
  <2>1. Inserts(round[p].brings) \in Seq(Events)
    BY <1>2, InsertsType
  <2>2. StreamOK'
    BY <1>2, <1>4, <1>5, <2>1 DEF StreamOK
  <2> QED
    BY <1>2, <1>5, <2>2, DocMerges, Untouched
<1>6. ASSUME Fails("round"), stream' = Append(stream, <<"finished", p, round[p].early>>), UNCHANGED doc
      PROVE  LeftOK' /\ DocOK' /\ StreamOK' /\ DocGrows
  BY <1>4, <1>6, FailsKeeps, SaysMore, DocStays, Untouched
<1>7. LeftOK' /\ DocOK' /\ StreamOK' /\ DocGrows
  BY <1>5, <1>6 DEF RoundEnds
<1> QED
  BY <1>1, <1>3, <1>7 DEF CatalogueKept

LEMMA NeighborUpKeeps ==
    ASSUME NodeIInv, NEW p \in Peer, NeighborUp(p)
    PROVE  CatalogueKept
<1> USE DEF documentVars, groupVars, newsVars, offerVars, sweepVars
<1>1. DocOK' /\ PeersOK' /\ NewsOK' /\ OfferOK' /\ UnansweredOK' /\ DocGrows
  BY Untouched, DocStays DEF NeighborUp
<1>2. LeftOK'
  BY LessIsLeft DEF NeighborUp
<1>3. StreamOK' /\ RoundsOK'
  BY EventTypes, SaysMore, StartedKeeps DEF NeighborUp
<1> QED
  BY <1>1, <1>2, <1>3 DEF CatalogueKept

LEMMA NeighborDownKeeps ==
    ASSUME NodeIInv, NEW p \in Peer, NeighborDown(p)
    PROVE  CatalogueKept
<1> USE DEF documentVars, groupVars, newsVars, offerVars, sweepVars
<1>1. DocOK' /\ PeersOK' /\ RoundsOK' /\ NewsOK' /\ OfferOK' /\ UnansweredOK' /\ DocGrows
  BY Untouched, DocStays DEF NeighborDown
<1>2. LeftOK'
  BY LessIsLeft DEF NeighborDown
<1>3. StreamOK'
  BY EventTypes, SaysMore DEF NeighborDown
<1> QED
  BY <1>1, <1>2, <1>3 DEF CatalogueKept

LEMMA PeerWritesKeeps ==
    ASSUME NodeIInv, NEW p, NEW e, <<p, e>> \in left.writes, PeerWrites(p, e)
    PROVE  CatalogueKept
<1> USE DEF newsVars, offerVars, sweepVars
<1>1. RoundsOK' /\ NewsOK' /\ OfferOK' /\ UnansweredOK'
  BY Untouched DEF PeerWrites
<1>2. p \in Peer /\ e \in Entries /\ EntriesOK({e}) /\ stream \in Seq(Events)
  <2>1. <<p, e>>[1] \in Peer /\ <<p, e>>[2] \in Entries
    BY DEF NodeIInv, LeftOK
  <2> QED
    BY <2>1, SingletonIsOK DEF NodeIInv, StreamOK
<1>3. LeftOK'
  <2>1. left' = [left EXCEPT !.writes = @ \ {<<p, e>>}]
    BY DEF PeerWrites
  <2> QED
    BY <2>1 DEF NodeIInv, LeftOK
<1>4. PeersOK'
  <2>1. theirs' = [theirs EXCEPT ![p] = Merged(@ \cup {e})]
    BY DEF PeerWrites
  <2>2. EntriesOK(theirs[p])
    BY <1>2 DEF NodeIInv, PeersOK
  <2>3. EntriesOK(Merged(theirs[p] \cup {e}))
    BY <1>2, <2>2, MergeGrows
  <2> QED
    BY <2>1, <2>3 DEF NodeIInv, PeersOK
<1>5. ASSUME doc' = Merged(doc \cup {e}), stream' = stream \o Inserts({e})
      PROVE  DocOK' /\ StreamOK' /\ DocGrows
  <2>1. Inserts({e}) \in Seq(Events)
    BY <1>2, InsertsType
  <2>2. StreamOK'
    BY <1>2, <1>5, <2>1 DEF StreamOK
  <2> QED
    BY <1>2, <1>5, <2>2, DocMerges
<1>6. ASSUME UNCHANGED <<doc, stream>>
      PROVE  DocOK' /\ StreamOK' /\ DocGrows
  BY <1>6, Untouched, DocStays
<1>7. DocOK' /\ StreamOK' /\ DocGrows
  BY <1>5, <1>6 DEF PeerWrites
<1> QED
  BY <1>1, <1>3, <1>4, <1>7 DEF CatalogueKept

LEMMA ContentKeeps ==
    ASSUME NodeIInv, NEW e, ContentReady(e) \/ ContentLost(e)
    PROVE  CatalogueKept
<1> USE DEF documentVars, groupVars, newsVars, offerVars, sweepVars
<1>1. DocOK' /\ PeersOK' /\ RoundsOK' /\ NewsOK' /\ OfferOK' /\ UnansweredOK' /\ DocGrows
  BY Untouched, DocStays DEF ContentReady, ContentLost
<1>2. ASSUME ContentReady(e) PROVE LeftOK' /\ StreamOK'
  BY <1>2, Untouched, EventTypes, SaysMore DEF ContentReady
<1>3. ASSUME ContentLost(e) PROVE LeftOK' /\ StreamOK'
  BY <1>3, Untouched, FailsKeeps DEF ContentLost
<1> QED
  BY <1>1, <1>2, <1>3 DEF CatalogueKept

LEMMA SwarmKeeps == ASSUME NodeIInv, Swarm PROVE CatalogueKept
<1>1. ASSUME NEW w \in left.writes, PeerWrites(w[1], w[2]) PROVE CatalogueKept
  <2>1. <<w[1], w[2]>> \in left.writes
    BY <1>1 DEF PeerWrites
  <2> QED
    BY <1>1, <2>1, PeerWritesKeeps
<1> QED
  BY <1>1, RoundEndsKeeps, NeighborUpKeeps, NeighborDownKeeps, ContentKeeps DEF Swarm

-----------------------------------------------------------------------------
(* The loops beside it.                                                    *)

LEMMA OpensKeeps == ASSUME NodeIInv, Opens PROVE CatalogueKept
<1> USE DEF documentVars, groupVars, newsVars, pumpVars, sweepVars
<1>1. LeftOK' /\ DocOK' /\ PeersOK' /\ StreamOK' /\ NewsOK' /\ OfferOK' /\ UnansweredOK' /\ DocGrows
  BY Untouched, DocStays DEF Opens
<1>2. RoundsOK'
  BY StartedKeeps DEF Opens
<1> QED
  BY <1>1, <1>2 DEF CatalogueKept

Batches == [items : SUBSET Item, bookmarks : SUBSET Item, wishes : SUBSET Wish, content_arrived : BOOLEAN]

LEMMA NotedType ==
    ASSUME NEW batch \in Batches, NEW key \in Keys
    PROVE  Noted(batch, key) \in Batches
<1>1. CASE key.kind \in OwnKinds \cup {"rating", "review"}
  BY <1>1, KeyTypes DEF Noted, Batches
<1>2. CASE key.kind = "bookmark"
  BY <1>2, KeyTypes DEF Noted, Batches, OwnKinds
<1>3. CASE key.kind \in AboutWish
  BY <1>3, KeyTypes DEF Noted, Batches, OwnKinds, AboutWish
<1> QED
  BY <1>1, <1>2, <1>3 DEF Noted

LEMMA DatedType ==
    ASSUME NEW events \in Seq(Events), NEW p \in Peer
    PROVE  Dated(events, p) \in Seq(Events)
<1>1. PICK n \in Nat : events \in [1 .. n -> Events]
  BY Len(events) \in Nat
<1>2. Dated(events, p) \in [1 .. n -> Events]
  BY <1>1, EventTypes DEF Dated
<1> QED
  BY <1>1, <1>2

LEMMA PumpNotesKeeps == ASSUME NodeIInv, PumpNotes PROVE CatalogueKept
<1> USE DEF documentVars, groupVars, offerVars, sweepVars
<1> DEFINE event == Head(stream)
           batch == CASE event[1] = "insert" -> Noted(pending, event[2])
                      [] event[1] = "content" -> [pending EXCEPT !.content_arrived = TRUE]
                      [] OTHER -> pending
<1>1. LeftOK' /\ DocOK' /\ PeersOK' /\ OfferOK' /\ UnansweredOK' /\ DocGrows
  BY Untouched, DocStays DEF PumpNotes
<1>2. event \in Events /\ Tail(stream) \in Seq(Events)
  BY DEF NodeIInv, StreamOK, PumpNotes
<1>3. pending \in Batches /\ waking \subseteq {"pump", "sweep"} /\ woken \in BOOLEAN
  BY DEF NodeIInv, NewsOK, Batches
<1>4. NewsOK'
  <2>1. pending' = batch /\ waking' \subseteq waking \cup {"pump"} /\ woken' = woken
    BY DEF PumpNotes
  <2>2. event[1] = "insert" => event[2] \in Keys
    BY <1>2 DEF Events
  <2> HIDE DEF event
  <2>3. [pending EXCEPT !.content_arrived = TRUE] \in Batches
    BY <1>3 DEF Batches
  <2>4. batch \in Batches
    BY <1>3, <2>2, <2>3, NotedType
  <2> QED
    BY <1>3, <2>1, <2>4 DEF NewsOK, Batches
<1>5. event[1] = "up" => event[2] \in Peer
  BY <1>2 DEF Events
<1>6. StreamOK'
  <2>1. stream' = IF event[1] = "up" THEN Dated(Tail(stream), event[2]) ELSE Tail(stream)
    BY DEF PumpNotes
  <2> HIDE DEF event
  <2> QED
    BY <1>2, <1>5, <2>1, DatedType DEF StreamOK
<1>7. RoundsOK'
  <2>1. \/ round' = round
        \/ /\ event[1] = "up" /\ round[event[2]] # None
           /\ round' = [round EXCEPT ![event[2]].early = TRUE]
    BY DEF PumpNotes
  <2> HIDE DEF event
  <2>2. ASSUME NEW p \in Peer, round[p] # None, round' = [round EXCEPT ![p].early = TRUE]
        PROVE  RoundsOK'
    <3>1. RoundOK(round[p]) /\ DOMAIN round = Peer /\ \A q \in Peer : RoundOK(round[q])
      BY DEF NodeIInv, RoundsOK
    <3> DEFINE r == [round[p] EXCEPT !.early = TRUE]
    <3>2. DOMAIN r = {"brings", "early"} /\ r.brings = round[p].brings /\ r.early = TRUE
      BY <2>2, <3>1 DEF RoundOK
    <3>3. EntriesOK(round[p].brings)
      BY <2>2, <3>1 DEF RoundOK
    <3>4. round' = [round EXCEPT ![p] = r]
      BY <2>2
    <3> HIDE DEF r
    <3>5. RoundOK(r)
      BY <3>2, <3>3 DEF RoundOK
    <3>6. DOMAIN round' = Peer /\ \A q \in Peer : RoundOK(round'[q])
      BY <3>1, <3>4, <3>5
    <3> QED
      BY <3>6 DEF RoundsOK, RoundOK, EntriesOK
  <2> QED
    BY <1>5, <2>1, <2>2, Untouched
<1> QED
  BY <1>1, <1>4, <1>6, <1>7 DEF CatalogueKept

LEMMA WakesKeeps == ASSUME NodeIInv, NEW who, Wakes(who) PROVE CatalogueKept
<1> USE DEF documentVars, groupVars, swarmVars, offerVars, sweepVars
<1>1. LeftOK' /\ DocOK' /\ PeersOK' /\ RoundsOK' /\ StreamOK' /\ OfferOK' /\ UnansweredOK' /\ DocGrows
  BY Untouched, DocStays DEF Wakes
<1>2. NewsOK'
  BY DEF NodeIInv, NewsOK, Wakes
<1> QED
  BY <1>1, <1>2 DEF CatalogueKept

LEMMA SyncsAgainKeeps == ASSUME NodeIInv, SyncsAgain PROVE CatalogueKept
<1> USE DEF documentVars, groupVars, newsVars, offerVars, sweepVars
<1>1. LeftOK' /\ DocOK' /\ PeersOK' /\ StreamOK' /\ NewsOK' /\ OfferOK' /\ UnansweredOK' /\ DocGrows
  BY Untouched, DocStays DEF SyncsAgain
<1>2. RoundsOK'
  BY StartedKeeps DEF SyncsAgain
<1> QED
  BY <1>1, <1>2 DEF CatalogueKept

LEMMA OfferWakesKeeps == ASSUME NodeIInv, OfferWakes PROVE CatalogueKept
<1> USE DEF documentVars, groupVars, swarmVars, newsVars, sweepVars
<1>1. LeftOK' /\ DocOK' /\ PeersOK' /\ RoundsOK' /\ StreamOK' /\ NewsOK' /\ UnansweredOK' /\ DocGrows
  BY Untouched, DocStays DEF OfferWakes
<1>2. OfferOK'
  BY DEF OfferWakes, OfferOK
<1> QED
  BY <1>1, <1>2 DEF CatalogueKept

LEMMA OfferLooksKeeps == ASSUME NodeIInv, OfferLooks PROVE CatalogueKept
<1> USE DEF documentVars, groupVars, newsVars, sweepVars
<1>1. DocOK' /\ PeersOK' /\ StreamOK' /\ NewsOK' /\ UnansweredOK' /\ DocGrows
  BY Untouched, DocStays DEF OfferLooks
<1>2. OfferOK'
  BY DEF OfferLooks, OfferOK
<1>3. LeftOK' /\ RoundsOK'
  <2>1. \/ left' = left /\ \E peers : round' = Started(peers)
        \/ Fails("offer") /\ round' = round
    BY DEF OfferLooks
  <2> QED
    BY <2>1, Untouched, StartedKeeps, FailsKeeps
<1> QED
  BY <1>1, <1>2, <1>3 DEF CatalogueKept

LEMMA SweepForgetsKeeps == ASSUME NodeIInv, SweepForgets PROVE CatalogueKept
<1> USE DEF documentVars, groupVars, swarmVars, newsVars, offerVars
<1>1. LeftOK' /\ DocOK' /\ PeersOK' /\ RoundsOK' /\ StreamOK' /\ NewsOK' /\ OfferOK' /\ DocGrows
  BY Untouched, DocStays DEF SweepForgets
<1>2. UnansweredOK'
  <2>1. unanswered' = <<>>
    BY DEF SweepForgets
  <2>2. DOMAIN unanswered' = {}
    BY <2>1
  <2> QED
    BY <2>2 DEF UnansweredOK
<1> QED
  BY <1>1, <1>2 DEF CatalogueKept

\* How long a hash waits, and how long it waited.
Waits(u) == u \in [left : Nat, waited : Nat] /\ u.left <= u.waited /\ u.waited <= ASK_AGAIN

LEMMA WaitsAre == UnansweredOK <=> \A e \in DOMAIN unanswered : Waits(unanswered[e])
  BY DEF UnansweredOK, Waits

LEMMA WaitsWere == UnansweredOK' <=> \A e \in DOMAIN unanswered' : Waits(unanswered'[e])
  BY DEF UnansweredOK, Waits

LEMMA SweepLooksKeeps == ASSUME NodeIInv, SweepLooks PROVE CatalogueKept
<1> USE DEF documentVars, groupVars, swarmVars, newsVars, offerVars
<1>1. LeftOK' /\ DocOK' /\ PeersOK' /\ RoundsOK' /\ StreamOK' /\ NewsOK' /\ OfferOK' /\ DocGrows
  BY Untouched, DocStays DEF SweepLooks
<1>2. UnansweredOK'
  <2>1. unanswered' = [e \in DOMAIN unanswered \cap content_not_here |->
                        [unanswered[e] EXCEPT !.left = IF @ = 0 THEN 0 ELSE @ - 1]]
    BY DEF SweepLooks
  <2>2. ASSUME NEW e \in DOMAIN unanswered
        PROVE  Waits([unanswered[e] EXCEPT !.left = IF @ = 0 THEN 0 ELSE @ - 1])
    <3>1. Waits(unanswered[e])
      BY WaitsAre DEF NodeIInv
    <3> QED
      BY <3>1, CatalogueAssumption DEF Waits
  <2> QED
    BY <2>1, <2>2, WaitsWere
<1> QED
  BY <1>1, <1>2 DEF CatalogueKept

LEMMA SweepFetchesKeeps == ASSUME NodeIInv, NEW e, SweepFetches(e) PROVE CatalogueKept
<1> USE DEF groupVars, swarmVars, offerVars
<1>1. DocOK' /\ PeersOK' /\ RoundsOK' /\ StreamOK' /\ OfferOK' /\ DocGrows
  BY Untouched, DocStays DEF SweepFetches
<1>2. ASSUME unanswered' = [f \in DOMAIN unanswered \ {e} |-> unanswered[f]],
             pending' = content_landed(pending), woken' = woken,
             waking' = IF pending' # pending THEN waking \cup {"sweep"} ELSE waking,
             UNCHANGED left
      PROVE  LeftOK' /\ NewsOK' /\ UnansweredOK'
  <2>1. UnansweredOK'
    BY <1>2, WaitsAre, WaitsWere DEF NodeIInv
  <2>2. NewsOK'
    <3>1. waking' \subseteq waking \cup {"sweep"}
      BY <1>2
    <3> QED
      BY <1>2, <3>1 DEF NodeIInv, NewsOK, content_landed
  <2> QED
    BY <1>2, <2>1, <2>2, Untouched
<1>3. ASSUME left' = left \/ Fails("sweep"), unanswered' = failed(e), UNCHANGED <<pending, waking, woken>>
      PROVE  LeftOK' /\ NewsOK' /\ UnansweredOK'
  <2> DEFINE waited == IF e \in DOMAIN unanswered THEN Min({2 * unanswered[e].waited, ASK_AGAIN}) ELSE 1
             u == [left |-> waited, waited |-> waited]
  <2>1. waited \in Nat /\ waited <= ASK_AGAIN
    <3>1. ASSUME e \in DOMAIN unanswered PROVE waited \in Nat /\ waited <= ASK_AGAIN
      <4>1. 2 * unanswered[e].waited \in Nat
        BY <3>1, WaitsAre DEF NodeIInv, Waits
      <4>2. waited = IF 2 * unanswered[e].waited <= ASK_AGAIN THEN 2 * unanswered[e].waited ELSE ASK_AGAIN
        BY <3>1, <4>1, MinOfTwo, CatalogueAssumption
      <4> HIDE DEF waited
      <4> QED
        BY <4>1, <4>2, CatalogueAssumption
    <3> QED
      BY <3>1, CatalogueAssumption
  <2>2. unanswered' = [f \in DOMAIN unanswered \cup {e} |-> IF f = e THEN u ELSE unanswered[f]]
    BY <1>3 DEF failed
  <2> HIDE DEF waited
  <2>3. Waits(u)
    BY <2>1 DEF Waits
  <2> HIDE DEF u
  <2>4. UnansweredOK'
    BY <2>2, <2>3, WaitsAre, WaitsWere DEF NodeIInv
  <2> QED
    BY <1>3, <2>4, Untouched, FailsKeeps
<1>4. LeftOK' /\ NewsOK' /\ UnansweredOK'
  BY <1>2, <1>3 DEF SweepFetches
<1> QED
  BY <1>1, <1>4 DEF CatalogueKept

LEMMA LoopsKeeps == ASSUME NodeIInv, Loops PROVE CatalogueKept
  BY OpensKeeps, PumpNotesKeeps, WakesKeeps, SyncsAgainKeeps, OfferWakesKeeps, OfferLooksKeeps,
     SweepForgetsKeeps, SweepLooksKeeps, SweepFetchesKeeps DEF Loops

LEMMA GroupKeeps == ASSUME NodeIInv, Group PROVE CatalogueKept
<1> USE DEF documentVars, swarmVars, newsVars, offerVars, sweepVars
<1>1. ASSUME MembershipChanges PROVE CatalogueKept
  <2>1. LeftOK'
    BY <1>1, LessIsLeft DEF MembershipChanges
  <2> QED
    BY <1>1, <2>1, Untouched, DocStays DEF MembershipChanges, CatalogueKept
<1>2. ASSUME NEW p, NEW addr, Learns(p, addr) PROVE CatalogueKept
  <2>1. LeftOK'
    BY <1>2, LessIsLeft DEF Learns
  <2> QED
    BY <1>2, <2>1, Untouched, DocStays DEF Learns, CatalogueKept
<1> QED
  BY <1>1, <1>2 DEF Group

-----------------------------------------------------------------------------
(* The read model's half.                                                  *)

\* What the catalogue does leaves the read model as it was.
LEMMA ReaderStays ==
    ASSUME ReaderIInv, DocGrows, UNCHANGED readerVars
    PROVE  ReaderIInv'
<1> USE DEF readerVars
<1>1. WaitingOK' /\ JobOK' /\ RowsOK' /\ CommitOK' /\ IndexOK'
  BY DEF ReaderIInv, WaitingOK, JobOK, RowsOK, CommitOK, Uncommitted, IndexOK, Lost, Redo, Reading
<1>2. KnownOK'
  BY DEF ReaderIInv, KnownOK, Reading, DocGrows
<1> QED
  BY <1>1, <1>2 DEF ReaderIInv

\* The reader's steps leave the document, and what goes on around it.
LEMMA ReaderBeside ==
    ASSUME NodeIInv, UNCHANGED <<doc, theirs, round, stream, offering, unanswered, writing>>,
           LeftOK', NewsOK'
    PROVE  NodeIInv'
  BY Untouched DEF NodeIInv

\* What is left out of the index, or of what a search finds, is still left out.
MarksStay == \A i : /\ <<"items", i>> \in skipped => <<"items", i>> \in skipped'
                    /\ <<"commit", i>> \in skipped => <<"commit", i>> \in skipped'

\* What the table of members holds is not what was said.
LEMMA MembersAreBeside ==
    ASSUME ReaderIInv, NEW group, set_members(group)
    PROVE  RowsOK' /\ rows'.items = rows.items /\ MarksStay
<1>1. DOMAIN rows' = DOMAIN rows /\ rows'.items = rows.items /\ rows'.bookmarks = rows.bookmarks
      /\ rows'.wishes = rows.wishes
  BY DEF set_members, ReaderIInv, RowsOK
<1>2. MarksStay
  BY DEF set_members, MembersRow, MarksStay
<1> QED
  BY <1>1, <1>2 DEF ReaderIInv, RowsOK

\* Steps between jobs.
LEMMA BetweenJobs ==
    ASSUME ReaderIInv, RowsOK', rows'.items = rows.items,
           UNCHANGED <<doc, job, waiting, index>>, MarksStay,
           reader' \in {"starting", "replaying", "idle", "marked", "waiting"},
           reader # "projecting", reader \in {"starting", "replaying"} => reader' \in {"starting", "replaying"}
    PROVE  ReaderIInv'
<1>1. WaitingOK' /\ CommitOK'
  BY DEF ReaderIInv, WaitingOK, CommitOK, Uncommitted, MarksStay
<1>2. JobOK'
  BY DEF ReaderIInv, JobOK
<1>3. KnownOK'
  BY DEF ReaderIInv, KnownOK, Reading, HasOwn
<1>4. IndexOK'
  BY DEF ReaderIInv, IndexOK, Lost, Uncommitted, Redo, MarksStay
<1> QED
  BY <1>1, <1>2, <1>3, <1>4 DEF ReaderIInv

LEMMA BetweenJobsKeeps ==
    ASSUME LibraryIInv, AnswersEarly \/ Begins \/ TakeMarks \/ TakeWoken \/ MembersMoved \/ Reindexes
    PROVE  LibraryIInv'
<1> USE DEF catalogueVars, documentVars, groupVars, swarmVars, newsVars, pumpVars, offerVars, sweepVars
<1>1. NodeIInv /\ ReaderIInv
  BY DEF LibraryIInv
<1>2. UNCHANGED <<doc, theirs, round, stream, offering, unanswered, writing, job, waiting, index>>
  BY DEF AnswersEarly, Begins, TakeMarks, TakeWoken, MembersMoved, Reindexes
<1>3. LeftOK'
  <2>1. left' = left \/ Fails("members")
    BY DEF AnswersEarly, Begins, TakeMarks, TakeWoken, MembersMoved, Reindexes, project_members, set_members
  <2> QED
    BY <1>1, <2>1, Untouched, FailsKeeps
<1>4. NewsOK'
  <2>1. ASSUME TakeMarks PROVE NewsOK'
    BY <1>1, <2>1 DEF TakeMarks, NodeIInv, NewsOK
  <2> QED
    BY <1>1, <2>1, Untouched DEF AnswersEarly, Begins, TakeWoken, MembersMoved, Reindexes
<1>5. NodeIInv'
  BY <1>1, <1>2, <1>3, <1>4, ReaderBeside
<1>6. RowsOK' /\ rows'.items = rows.items /\ MarksStay
  <2>1. (rows' = rows /\ skipped' = skipped) \/ \E group : set_members(group)
    BY DEF AnswersEarly, Begins, TakeMarks, TakeWoken, MembersMoved, Reindexes, project_members
  <2>2. ASSUME rows' = rows, skipped' = skipped PROVE RowsOK' /\ rows'.items = rows.items /\ MarksStay
    BY <1>1, <2>2 DEF ReaderIInv, RowsOK, MarksStay
  <2> QED
    BY <1>1, <2>1, <2>2, MembersAreBeside
<1>7. /\ reader # "projecting"
      /\ reader' \in {"starting", "replaying", "idle", "marked", "waiting"}
      /\ reader \in {"starting", "replaying"} => reader' \in {"starting", "replaying"}
  BY DEF AnswersEarly, Begins, TakeMarks, TakeWoken, MembersMoved, Reindexes
<1>8. ReaderIInv'
  BY <1>1, <1>2, <1>6, <1>7, BetweenJobs
<1> QED
  BY <1>5, <1>8 DEF LibraryIInv

LEMMA JobsAre ==
    ASSUME NEW items \in SUBSET Item, NEW marks \in SUBSET Item, NEW wishes \in SUBSET Wish, NEW news,
           job' = Job(items, marks, wishes, news), reader' = "projecting",
           ReaderIInv, reader # "projecting", UNCHANGED <<doc, waiting, rows, index, skipped>>,
           \A i \in DOMAIN rows.items : reader \in {"starting", "replaying"} => i \in items
    PROVE  ReaderIInv'
<1>1. /\ DOMAIN job' = {"items", "bookmarks", "wishes", "news", "read", "indexed", "written"}
      /\ job'.items = items /\ job'.bookmarks = marks /\ job'.wishes = wishes
      /\ job'.indexed = FALSE /\ job'.read = <<>>
  BY DEF Job
<1>2. job = NoJob
  BY DEF ReaderIInv, JobOK
<1>3. WaitingOK' /\ RowsOK'
  BY DEF ReaderIInv, WaitingOK, RowsOK
<1>4. JobOK'
  BY <1>1 DEF JobOK, ReadOK
<1>5. CommitOK'
  BY <1>1, <1>2 DEF ReaderIInv, CommitOK, Uncommitted, NoJob, Job
<1>6. KnownOK'
  BY <1>1 DEF ReaderIInv, KnownOK, Reading, HasOwn
<1>7. IndexOK'
  BY <1>1 DEF ReaderIInv, IndexOK, Lost, Uncommitted, Redo
<1> QED
  BY <1>3, <1>4, <1>5, <1>6, <1>7 DEF ReaderIInv

\* A replay that cannot list what there is leaves out all of it.
LEMMA NothingListed ==
    ASSUME ReaderIInv, reader # "projecting", job' = NoJob, reader' = "idle",
           UNCHANGED <<doc, waiting, rows, index>>, MarksStay,
           \A i \in DOMAIN rows.items : <<"items", i>> \in skipped'
    PROVE  ReaderIInv'
<1>1. job = NoJob /\ job' = job
  BY DEF ReaderIInv, JobOK
<1>2. WaitingOK' /\ RowsOK' /\ JobOK'
  BY <1>1 DEF ReaderIInv, WaitingOK, RowsOK, JobOK
<1>3. CommitOK'
  BY <1>1 DEF ReaderIInv, CommitOK, Uncommitted, MarksStay
<1>4. KnownOK' /\ IndexOK'
  BY <1>1 DEF ReaderIInv, KnownOK, IndexOK, Reading, HasOwn
<1> QED
  BY <1>2, <1>3, <1>4 DEF ReaderIInv

LEMMA ReplaysKeeps == ASSUME LibraryIInv, Replays PROVE LibraryIInv'
<1> USE DEF catalogueVars, documentVars, groupVars, swarmVars, newsVars, pumpVars, offerVars, sweepVars
<1>1. NodeIInv /\ ReaderIInv
  BY DEF LibraryIInv
<1>2. NodeIInv'
  <2>1. LeftOK'
    BY <1>1, Untouched, FailsKeeps DEF Replays
  <2> QED
    BY <1>1, <2>1, Untouched, ReaderBeside DEF Replays
<1>3. EntriesOK(doc)
  BY <1>1 DEF NodeIInv, DocOK
<1>4. \A i \in DOMAIN rows.items : i \in item_ids(doc)
  BY <1>1, <1>3, OwnIsRead DEF ReaderIInv, KnownOK
<1>5. ReaderIInv'
  <2>1. reader = "replaying" /\ UNCHANGED <<doc, waiting, rows, index>>
    BY DEF Replays
  <2>2. CASE /\ reader' = "projecting" /\ skipped' = skipped
             /\ job' = Job(item_ids(doc), bookmarked_item_ids(doc), wish_ids(doc), FALSE)
    BY <1>1, <1>3, <1>4, <2>1, <2>2, IdsType, JobsAre
  <2>3. CASE /\ reader' = "idle" /\ job' = NoJob /\ skipped \subseteq skipped'
             /\ \A i \in item_ids(doc) : <<"items", i>> \in skipped'
    <3>1. MarksStay
      BY <2>3 DEF MarksStay
    <3> QED
      BY <1>1, <1>4, <2>1, <2>3, <3>1, NothingListed
  <2> QED
    BY <2>2, <2>3 DEF Replays, Ends
<1> QED
  BY <1>2, <1>5 DEF LibraryIInv

LEMMA TakeLooksKeeps == ASSUME LibraryIInv, TakeLooks PROVE LibraryIInv'
<1> USE DEF documentVars, groupVars, swarmVars, pumpVars, offerVars, sweepVars
<1>1. NodeIInv /\ ReaderIInv
  BY DEF LibraryIInv
<1>2. NodeIInv'
  <2>1. NewsOK'
    BY <1>1 DEF TakeLooks, NodeIInv, NewsOK, NothingPending
  <2> QED
    BY <1>1, <2>1, Untouched, ReaderBeside DEF TakeLooks
<1>3. ReaderIInv'
  <2>1. ASSUME reader' = "waiting", UNCHANGED job PROVE ReaderIInv'
    <3>1. RowsOK' /\ rows'.items = rows.items /\ MarksStay
      BY <1>1 DEF TakeLooks, ReaderIInv, RowsOK, MarksStay
    <3> QED
      BY <1>1, <2>1, <3>1, BetweenJobs DEF TakeLooks
  <2>2. ASSUME reader' = "projecting", job' = Asked(pending) PROVE ReaderIInv'
    <3> DEFINE also(set) == IF pending.content_arrived THEN set ELSE {}
    <3>1. /\ pending.items \cup also(waiting.items) \subseteq Item
          /\ pending.bookmarks \cup also(waiting.bookmarks) \subseteq Item
          /\ pending.wishes \cup also(waiting.wishes) \subseteq Wish
      BY <1>1 DEF NodeIInv, NewsOK, ReaderIInv, WaitingOK
    <3>2. job' = Job(pending.items \cup also(waiting.items), pending.bookmarks \cup also(waiting.bookmarks),
                     pending.wishes \cup also(waiting.wishes), TRUE)
      BY <2>2 DEF Asked
    <3> HIDE DEF also
    <3> QED
      BY <1>1, <2>2, <3>1, <3>2, JobsAre DEF TakeLooks
  <2> QED
    BY <2>1, <2>2 DEF TakeLooks
<1> QED
  BY <1>2, <1>3 DEF LibraryIInv

-----------------------------------------------------------------------------
(* Projecting.                                                             *)

Kinds == {"items", "bookmarks", "wishes"}
IdsOf(kind) == IF kind = "wishes" THEN Wish ELSE Item

LEMMA JobOfKind ==
    ASSUME JobOK, NEW kind \in Kinds
    PROVE  job[kind] \subseteq IdsOf(kind)
  BY DEF JobOK, Kinds, IdsOf

\* A failure is noted, and nothing else.
LEMMA FailingNotes ==
    ASSUME NodeIInv, NEW kind, NEW id, Failing(kind, id)
    PROVE  LeftOK' /\ skipped' = skipped \cup {<<kind, id>>}
  BY FailsKeeps DEF Failing

\* What reading gives.
LEMMA ReadIsOK ==
    ASSUME NodeIInv, NEW kind \in Kinds, NEW id \in IdsOf(kind), NEW read, read = Read(kind, id)
    PROVE  /\ ReadOK(read)
           /\ read # <<>> => read[1] = kind /\ read[2] = id
           /\ kind = "items" => (read # <<>> <=> HasOwn(doc, id))
<1>1. EntriesOK(doc)
  BY DEF NodeIInv, DocOK
<1>2. CASE kind = "items"
  <2> DEFINE x == read_item(doc, content, id)
  <2>1. Honest(x.ratings) /\ Honest(x.reviews)
    BY ReadIsHonest DEF read_item
  <2> HIDE DEF x
  <2>2. read = IF HasItem(doc, id) THEN <<"items", id, x>> ELSE <<>>
    BY <1>2 DEF Read, x
  <2>3. id \in Item
    BY <1>2 DEF IdsOf
  <2> QED
    BY <1>1, <1>2, <2>1, <2>2, <2>3, OwnIsRead DEF ReadOK
<1>3. CASE kind = "bookmarks"
  <2> DEFINE x == read_bookmarks(doc, content, id)
  <2>1. Honest(x.entries)
    BY ReadIsHonest DEF read_bookmarks
  <2> HIDE DEF x
  <2>2. read = <<"bookmarks", id, x>>
    BY <1>3 DEF Read, x
  <2>3. id \in Item
    BY <1>3 DEF IdsOf
  <2> QED
    BY <1>3, <2>1, <2>2, <2>3 DEF ReadOK
<1>4. CASE kind = "wishes"
  <2> DEFINE x == read_wish(doc, content, id)
  <2>1. Honest(x.entries) /\ Honest(x.comments)
    BY ReadIsHonest DEF read_wish
  <2> HIDE DEF x
  <2>2. read = <<"wishes", id, x>>
    BY <1>4 DEF Read, x
  <2>3. id \in Wish
    BY <1>4 DEF IdsOf
  <2> QED
    BY <1>4, <2>1, <2>2, <2>3 DEF ReadOK
<1> QED
  BY <1>2, <1>3, <1>4 DEF Kinds

LEMMA ReadingStep ==
    ASSUME NodeIInv, ReaderIInv, reader = "projecting", job.read = <<>>,
           NEW kind \in Kinds, NEW id \in job[kind],
           UNCHANGED <<doc, rows, index, reader>>,
           \/ /\ job' = [job EXCEPT ![kind] = @ \ {id}, !.read = Read(kind, id)]
              /\ skipped' = skipped
           \/ /\ job' = [job EXCEPT ![kind] = @ \ {id}]
              /\ skipped' = skipped \cup {<<kind, id>>},
           \/ waiting' = waiting
           \/ waiting' = [waiting EXCEPT ![kind] = @ \cup {id}]
           \/ waiting' = [waiting EXCEPT ![kind] = @ \ {id}]
    PROVE  ReaderIInv'
<1>1. JobOK /\ WaitingOK /\ RowsOK /\ CommitOK /\ KnownOK /\ IndexOK
  BY DEF ReaderIInv
<1>2. id \in IdsOf(kind)
  BY <1>1, JobOfKind
<1>3. WaitingOK'
  <2>1. ASSUME NEW set, waiting' = [waiting EXCEPT ![kind] = set], set \subseteq IdsOf(kind)
        PROVE  WaitingOK'
    <3>1. CASE kind = "items"
      BY <1>1, <2>1, <3>1 DEF WaitingOK, IdsOf
    <3>2. CASE kind = "bookmarks"
      BY <1>1, <2>1, <3>2 DEF WaitingOK, IdsOf
    <3>3. CASE kind = "wishes"
      BY <1>1, <2>1, <3>3 DEF WaitingOK, IdsOf
    <3> QED
      BY <3>1, <3>2, <3>3 DEF Kinds
  <2>2. waiting[kind] \subseteq IdsOf(kind)
    BY <1>1 DEF WaitingOK, Kinds, IdsOf
  <2>3. waiting' = waiting => WaitingOK'
    BY <1>1 DEF WaitingOK
  <2>4. /\ waiting[kind] \cup {id} \subseteq IdsOf(kind)
        /\ waiting[kind] \ {id} \subseteq IdsOf(kind)
    BY <1>2, <2>2
  <2>5. \/ waiting' = waiting
        \/ waiting' = [waiting EXCEPT ![kind] = waiting[kind] \cup {id}]
        \/ waiting' = [waiting EXCEPT ![kind] = waiting[kind] \ {id}]
    OBVIOUS
  <2> QED
    BY <2>1, <2>3, <2>4, <2>5
<1> DEFINE read == Read(kind, id)
<1>4. /\ ReadOK(read)
      /\ read # <<>> => read[1] = kind /\ read[2] = id
      /\ kind = "items" => (read # <<>> <=> HasOwn(doc, id))
  BY <1>2, ReadIsOK
<1> HIDE DEF read
<1>5. /\ DOMAIN job' = DOMAIN job
      /\ job'.items = IF kind = "items" THEN job.items \ {id} ELSE job.items
      /\ job'.bookmarks \subseteq job.bookmarks /\ job'.wishes \subseteq job.wishes
      /\ job'.indexed = job.indexed
      /\ \/ job'.read = read /\ skipped' = skipped
         \/ job'.read = <<>> /\ skipped' = skipped \cup {<<kind, id>>}
  <2>1. /\ DOMAIN job = {"items", "bookmarks", "wishes", "news", "read", "indexed", "written"}
        /\ kind # "read" /\ kind # "indexed" /\ kind \in {"items", "bookmarks", "wishes"}
    BY <1>1 DEF JobOK, Kinds
  <2>2. CASE job' = [job EXCEPT ![kind] = @ \ {id}, !.read = read] /\ skipped' = skipped
    <3> DEFINE j == [job EXCEPT ![kind] = @ \ {id}]
    <3>1. /\ DOMAIN j = DOMAIN job
          /\ j.items = IF kind = "items" THEN job.items \ {id} ELSE job.items
          /\ j.bookmarks \subseteq job.bookmarks /\ j.wishes \subseteq job.wishes
          /\ j.indexed = job.indexed
      BY <2>1
    <3>2. job' = [j EXCEPT !.read = read]
      BY <2>2
    <3> HIDE DEF j
    <3> QED
      BY <2>1, <2>2, <3>1, <3>2
  <2>3. CASE job' = [job EXCEPT ![kind] = @ \ {id}] /\ skipped' = skipped \cup {<<kind, id>>}
    BY <2>1, <2>3
  <2> QED
    BY <2>2, <2>3 DEF read
<1>6. JobOK'
  <2>1. ReadOK(job'.read)
    BY <1>4, <1>5 DEF ReadOK
  <2>2. /\ job'.items \subseteq Item /\ job'.bookmarks \subseteq Item /\ job'.wishes \subseteq Wish
        /\ job'.indexed \in BOOLEAN
    BY <1>1, <1>5 DEF JobOK
  <2>3. ReadOK(job.read)'
    BY <2>1 DEF ReadOK, Honest
  <2> QED
    BY <1>1, <1>5, <2>2, <2>3 DEF JobOK
<1>7. RowsOK' /\ CommitOK'
  BY <1>1, <1>5 DEF RowsOK, CommitOK, Uncommitted
<1>8. KnownOK'
  <2>1. ASSUME NEW i, (Reading(i))' PROVE HasOwn(doc, i)
    <3>1. job'.read = read /\ read # <<>> /\ read[1] = "items" /\ read[2] = i
      BY <1>5, <2>1 DEF Reading
    <3> QED
      BY <1>4, <3>1
  <2> QED
    BY <1>1, <2>1 DEF KnownOK, HasOwn
<1>9. IndexOK'
  <2> SUFFICES ASSUME NEW i \in DOMAIN rows.items
               PROVE  \/ <<"items", i>> \in skipped' \/ Redo(i)' \/ Lost(i)'
                      \/ i \in DOMAIN index.written /\ index.written[i] = rows.items[i].item
    BY DEF IndexOK
  <2>1. \/ <<"items", i>> \in skipped \/ i \in job.items \/ Lost(i)
        \/ i \in DOMAIN index.written /\ index.written[i] = rows.items[i].item
    BY <1>1 DEF IndexOK, Redo, Reading
  <2>2. skipped \subseteq skipped' /\ (Lost(i) => Lost(i)')
    BY <1>5 DEF Lost, Uncommitted
  <2>3. ASSUME i \in job.items PROVE <<"items", i>> \in skipped' \/ Redo(i)'
    <3>1. CASE kind = "items" /\ id = i
      <4>1. HasOwn(doc, i)
        BY <1>1 DEF KnownOK
      <4>2. read # <<>> /\ read[1] = "items" /\ read[2] = i
        BY <1>4, <3>1, <4>1
      <4>3. job'.read = read \/ <<"items", i>> \in skipped'
        BY <1>5, <3>1
      <4> QED
        BY <4>2, <4>3 DEF Redo, Reading
    <3>2. CASE ~(kind = "items" /\ id = i)
      <4>1. i \in job'.items
        BY <1>5, <2>3, <3>2
      <4> QED
        BY <4>1 DEF Redo
    <3> QED
      BY <3>1, <3>2
  <2> QED
    BY <2>1, <2>2, <2>3
<1> QED
  BY <1>3, <1>6, <1>7, <1>8, <1>9 DEF ReaderIInv

LEMMA ProjectReadsKeeps == ASSUME LibraryIInv, ProjectReads PROVE LibraryIInv'
<1> USE DEF documentVars, groupVars, swarmVars, newsVars, pumpVars, offerVars, sweepVars
<1>1. NodeIInv /\ ReaderIInv
  BY DEF LibraryIInv
<1>2. PICK id \in IF Stage \in DOMAIN NothingWaiting THEN job[Stage] ELSE {} :
        \/ /\ job' = [job EXCEPT ![Stage] = @ \ {id}, !.read = Read(Stage, id)]
           /\ \/ waiting' = waiting
              \/ waiting' = [waiting EXCEPT ![Stage] = @ \cup {id}]
              \/ waiting' = [waiting EXCEPT ![Stage] = @ \ {id}]
           /\ UNCHANGED <<left, skipped>>
        \/ /\ Failing(Stage, id)
           /\ job' = [job EXCEPT ![Stage] = @ \ {id}]
           /\ UNCHANGED waiting
  BY DEF ProjectReads
<1>3. Stage \in Kinds /\ id \in job[Stage] /\ job.read = <<>>
  <2>1. Stage \in {"items", "bookmarks", "wishes"}
    BY <1>2 DEF NothingWaiting
  <2>2. job.read # <<>> => Stage = "write"
    BY DEF Stage
  <2> QED
    BY <1>2, <2>1, <2>2 DEF Kinds, NothingWaiting
<1> DEFINE kind == Stage
<1> HIDE DEF kind
<1>4. LeftOK'
  BY <1>1, <1>2, Untouched, FailingNotes
<1>5. NodeIInv'
  BY <1>1, <1>4, Untouched, ReaderBeside DEF ProjectReads
<1>6. ReaderIInv'
  <2>1. reader = "projecting" /\ UNCHANGED <<doc, rows, index, reader>>
    BY DEF ProjectReads
  <2>2. \/ /\ job' = [job EXCEPT ![Stage] = @ \ {id}, !.read = Read(Stage, id)]
           /\ skipped' = skipped
        \/ /\ job' = [job EXCEPT ![Stage] = @ \ {id}]
           /\ skipped' = skipped \cup {<<Stage, id>>}
    BY <1>1, <1>2, FailingNotes
  <2>3. \/ waiting' = waiting
        \/ waiting' = [waiting EXCEPT ![Stage] = @ \cup {id}]
        \/ waiting' = [waiting EXCEPT ![Stage] = @ \ {id}]
    BY <1>2
  <2> QED
    BY <1>1, <1>3, <2>1, <2>2, <2>3, ReadingStep
<1> QED
  BY <1>5, <1>6 DEF LibraryIInv

\* Of the job, writing changes what was read, and whether the index is to be committed.
LEMMA JobWritten ==
    ASSUME JobOK, NEW indexed \in BOOLEAN, NEW written,
           job' = [job EXCEPT !.read = <<>>, !.indexed = @ \/ indexed, !.written = @ \cup written],
           reader = "projecting", reader' = reader
    PROVE  /\ JobOK' /\ job'.items = job.items /\ job'.read = <<>>
           /\ job'.indexed = (job.indexed \/ indexed)
<1> DEFINE j == [job EXCEPT !.read = <<>>]
           k == [j EXCEPT !.indexed = @ \/ indexed]
<1>1. /\ DOMAIN j = DOMAIN job /\ j.read = <<>> /\ j.indexed = job.indexed /\ j.items = job.items
      /\ j.bookmarks = job.bookmarks /\ j.wishes = job.wishes
  BY DEF JobOK
<1>2. job' = [k EXCEPT !.written = @ \cup written]
  OBVIOUS
<1> HIDE DEF j
<1>3. /\ DOMAIN k = DOMAIN job /\ k.read = <<>> /\ k.indexed = (job.indexed \/ indexed)
      /\ k.items = job.items /\ k.bookmarks = job.bookmarks /\ k.wishes = job.wishes
  BY <1>1 DEF JobOK
<1> HIDE DEF k
<1>4. /\ DOMAIN job' = DOMAIN job /\ job'.read = <<>> /\ job'.indexed = (job.indexed \/ indexed)
      /\ job'.items = job.items /\ job'.bookmarks = job.bookmarks /\ job'.wishes = job.wishes
  BY <1>2, <1>3 DEF JobOK
<1>5. ReadOK(job.read)'
  BY <1>4 DEF ReadOK
<1>6. job'.indexed \in BOOLEAN
  BY <1>4 DEF JobOK
<1> QED
  BY <1>4, <1>5, <1>6 DEF JobOK

LEMMA CurrentIsHonest == ASSUME NEW S, Honest(S) PROVE Honest(Current(S))
  BY DEF Honest, Current

\* An item written to the rows.
LEMMA ItemIsWritten ==
    ASSUME RowsOK, NEW i \in Item, NEW read, Honest(read.ratings), Honest(read.reviews),
           rows' = upsert_item(i, read)
    PROVE  /\ RowsOK' /\ DOMAIN rows'.items = DOMAIN rows.items \cup {i}
           /\ rows'.items[i].item = read.item
           /\ \A x \in DOMAIN rows.items : x # i => rows'.items[x] = rows.items[x]
<1> DEFINE p == project_items(read)
           new == With(rows.items, i, p)
<1>1. p.item = read.item /\ Honest(p.ratings) /\ Honest(p.reviews)
  BY CurrentIsHonest DEF project_items
<1>2. rows' = [rows EXCEPT !.items = new]
  BY DEF upsert_item
<1> HIDE DEF p
<1>3. /\ DOMAIN new = DOMAIN rows.items \cup {i} /\ new[i] = p
      /\ \A x \in DOMAIN rows.items : x # i => new[x] = rows.items[x]
  BY DEF With
<1> HIDE DEF new
<1>4. /\ DOMAIN rows' = DOMAIN rows /\ rows'.items = new /\ rows'.bookmarks = rows.bookmarks
      /\ rows'.wishes = rows.wishes
  BY <1>2 DEF RowsOK
<1>5. RowsOK'
  BY <1>1, <1>3, <1>4 DEF RowsOK, Honest
<1> QED
  BY <1>1, <1>3, <1>4, <1>5

LEMMA MarksAreWritten ==
    ASSUME RowsOK, NEW i, NEW read, Honest(read.entries), rows' = replace_bookmarks(i, read)
    PROVE  RowsOK' /\ rows'.items = rows.items
<1> DEFINE p == project_bookmarks(read)
           new == With(rows.bookmarks, i, p)
<1>1. Honest(p)
  BY CurrentIsHonest DEF project_bookmarks
<1>2. rows' = [rows EXCEPT !.bookmarks = new]
  BY DEF replace_bookmarks
<1> HIDE DEF p
<1>3. /\ DOMAIN new = DOMAIN rows.bookmarks \cup {i} /\ new[i] = p
      /\ \A x \in DOMAIN rows.bookmarks : x # i => new[x] = rows.bookmarks[x]
  BY DEF With
<1> HIDE DEF new
<1>4. /\ DOMAIN rows' = DOMAIN rows /\ rows'.bookmarks = new /\ rows'.items = rows.items
      /\ rows'.wishes = rows.wishes
  BY <1>2 DEF RowsOK
<1>5. RowsOK'
  BY <1>1, <1>3, <1>4 DEF RowsOK, Honest
<1> QED
  BY <1>4, <1>5

LEMMA WishIsWritten ==
    ASSUME RowsOK, NEW w \in Wish, NEW read, Honest(read.entries), Honest(read.comments),
           rows' = replace_wish(w, read)
    PROVE  RowsOK' /\ rows'.items = rows.items
<1> DEFINE p == project_wishes(read)
           new == With(rows.wishes, w, p)
<1>1. Honest(p.entries) /\ Honest(p.comments)
  <2>1. Honest({})
    BY DEF Honest
  <2> QED
    BY <2>1, CurrentIsHonest DEF project_wishes
<1>2. rows' = [rows EXCEPT !.wishes = new]
  BY DEF replace_wish
<1> HIDE DEF p
<1>3. /\ DOMAIN new = DOMAIN rows.wishes \cup {w} /\ new[w] = p
      /\ \A x \in DOMAIN rows.wishes : x # w => new[x] = rows.wishes[x]
  BY DEF With
<1> HIDE DEF new
<1>4. /\ DOMAIN rows' = DOMAIN rows /\ rows'.wishes = new /\ rows'.items = rows.items
      /\ rows'.bookmarks = rows.bookmarks
  BY <1>2 DEF RowsOK
<1>5. RowsOK'
  BY <1>1, <1>3, <1>4 DEF RowsOK, Honest
<1> QED
  BY <1>4, <1>5

\* An item is written to the index, to the rows or to both, and skipped unless to both.
LEMMA ItemWritesStep ==
    ASSUME ReaderIInv, reader = "projecting", NEW i, NEW read, Reading(i),
           Honest(read.ratings), Honest(read.reviews), UNCHANGED <<doc, waiting, reader>>,
           NEW inIndex \in BOOLEAN, NEW inRows \in BOOLEAN, NEW written,
           index' = IF inIndex THEN index_item(i, read.item) ELSE index,
           rows' = IF inRows THEN upsert_item(i, read) ELSE rows,
           job' = [job EXCEPT !.read = <<>>, !.indexed = @ \/ inIndex, !.written = @ \cup written],
           skipped' = IF inIndex /\ inRows THEN skipped \ {<<"items", i>>} ELSE skipped \cup {<<"items", i>>}
    PROVE  ReaderIInv'
<1>1. WaitingOK /\ JobOK /\ RowsOK /\ CommitOK /\ KnownOK /\ IndexOK
  BY DEF ReaderIInv
<1>2. i \in Item
  BY <1>1 DEF JobOK, ReadOK, Reading
<1>3. JobOK' /\ job'.items = job.items /\ job'.read = <<>> /\ job'.indexed = (job.indexed \/ inIndex)
  BY <1>1, JobWritten
<1>4. WaitingOK'
  BY <1>1 DEF WaitingOK
<1>5. /\ RowsOK'
      /\ DOMAIN rows'.items = DOMAIN rows.items \cup (IF inRows THEN {i} ELSE {})
      /\ inRows => rows'.items[i].item = read.item
      /\ \A x \in DOMAIN rows.items : x # i => rows'.items[x] = rows.items[x]
  <2>1. CASE inRows
    BY <1>1, <1>2, <2>1, ItemIsWritten
  <2>2. CASE ~inRows
    BY <1>1, <2>2 DEF RowsOK
  <2> QED
    BY <2>1, <2>2
<1>6. /\ DOMAIN index' = DOMAIN index /\ index'.committed = index.committed
      /\ inIndex => index'.written = With(index.written, i, read.item)
      /\ ~inIndex => index'.written = index.written
  BY <1>1 DEF CommitOK, index_item
<1>7. CommitOK'
  <2>1. CASE inIndex
    BY <1>1, <1>3, <1>6, <2>1 DEF CommitOK, JobOK
  <2>2. CASE ~inIndex
    BY <1>1, <1>3, <1>6, <2>2 DEF CommitOK, Uncommitted, JobOK
  <2> QED
    BY <2>1, <2>2
<1>8. KnownOK'
  <2>1. HasOwn(doc, i)
    BY <1>1, <1>2 DEF KnownOK
  <2> QED
    BY <1>1, <1>3, <1>5, <2>1 DEF KnownOK, Reading, HasOwn
<1>9. IndexOK'
  <2> SUFFICES ASSUME NEW x \in DOMAIN rows'.items
               PROVE  \/ <<"items", x>> \in skipped' \/ Redo(x)' \/ Lost(x)'
                      \/ x \in DOMAIN index'.written /\ index'.written[x] = rows'.items[x].item
    BY DEF IndexOK
  <2>1. CASE x = i
    <3>1. CASE inIndex /\ inRows
      <4>1. index'.written = With(index.written, i, read.item)
        BY <1>6, <3>1
      <4>2. i \in DOMAIN index'.written /\ index'.written[i] = read.item
        BY <4>1 DEF With
      <4> QED
        BY <1>5, <2>1, <3>1, <4>2
    <3>2. CASE ~(inIndex /\ inRows)
      BY <2>1, <3>2
    <3> QED
      BY <3>1, <3>2
  <2>2. CASE x # i
    <3>1. x \in DOMAIN rows.items /\ rows'.items[x] = rows.items[x]
      BY <1>5, <2>2
    <3>2. \/ <<"items", x>> \in skipped \/ x \in job.items \/ Lost(x)
          \/ x \in DOMAIN index.written /\ index.written[x] = rows.items[x].item
      BY <1>1, <2>2, <3>1 DEF IndexOK, Redo, Reading
    <3>3. <<"items", x>> \in skipped => <<"items", x>> \in skipped'
      BY <2>2
    <3>4. x \in job.items => Redo(x)'
      BY <1>3 DEF Redo
    <3>5. /\ x \in DOMAIN index.written <=> x \in DOMAIN index'.written
          /\ x \in DOMAIN index.written => index'.written[x] = index.written[x]
      <4>1. CASE inIndex
        <5>1. index'.written = With(index.written, i, read.item)
          BY <1>6, <4>1
        <5> QED
          BY <2>2, <5>1 DEF With
      <4>2. CASE ~inIndex
        BY <1>6, <4>2
      <4> QED
        BY <4>1, <4>2
    <3>6. Lost(x) => Lost(x)'
      BY <1>6, <3>5 DEF Lost, Uncommitted
    <3> QED
      BY <3>1, <3>2, <3>3, <3>4, <3>5, <3>6
  <2> QED
    BY <2>1, <2>2
<1> QED
  BY <1>3, <1>4, <1>5, <1>7, <1>8, <1>9 DEF ReaderIInv

\* Bookmarks and wishes are no matter of the index.
LEMMA WordsWriteStep ==
    ASSUME ReaderIInv, reader = "projecting", NEW kind, NEW id,
           job.read # <<>>, job.read[1] = kind, kind \in {"bookmarks", "wishes"},
           UNCHANGED <<doc, waiting, reader, index>>, RowsOK', rows'.items = rows.items, NEW written,
           job' = [job EXCEPT !.read = <<>>, !.indexed = @ \/ FALSE, !.written = @ \cup written],
           skipped' \in {skipped \ {<<kind, id>>}, skipped \cup {<<kind, id>>}}
    PROVE  ReaderIInv'
<1>1. WaitingOK /\ JobOK /\ RowsOK /\ CommitOK /\ KnownOK /\ IndexOK
  BY DEF ReaderIInv
<1>2. JobOK' /\ job'.items = job.items /\ job'.read = <<>> /\ job'.indexed = (job.indexed \/ FALSE)
  BY <1>1, JobWritten
<1>3. WaitingOK' /\ CommitOK'
  <2>1. \A x : <<"commit", x>> \in skipped => <<"commit", x>> \in skipped'
    OBVIOUS
  <2> QED
    BY <1>1, <1>2, <2>1 DEF WaitingOK, CommitOK, Uncommitted, JobOK
<1>4. KnownOK'
  BY <1>1, <1>2 DEF KnownOK, Reading, HasOwn
<1>5. IndexOK'
  <2>1. \A i : /\ <<"items", i>> \in skipped => <<"items", i>> \in skipped'
               /\ Lost(i) => Lost(i)'
    BY DEF Lost, Uncommitted
  <2>2. \A i \in DOMAIN rows.items : Redo(i) => Redo(i)'
    BY <1>2 DEF Redo, Reading
  <2> QED
    BY <1>1, <2>1, <2>2 DEF IndexOK
<1> QED
  BY <1>2, <1>3, <1>4, <1>5 DEF ReaderIInv

LEMMA ProjectWritesKeeps == ASSUME LibraryIInv, ProjectWrites PROVE LibraryIInv'
<1> USE DEF documentVars, groupVars, swarmVars, newsVars, pumpVars, offerVars, sweepVars
<1>1. NodeIInv /\ ReaderIInv
  BY DEF LibraryIInv
<1> DEFINE kind == job.read[1]
           id == job.read[2]
           read == job.read[3]
           indexes == index' = IF kind = "items" THEN index_item(id, read.item) ELSE index
           upserts == rows' = CASE kind = "items" -> upsert_item(id, read)
                                [] kind = "bookmarks" -> replace_bookmarks(id, read)
                                [] kind = "wishes" -> replace_wish(id, read)
           done(indexed, written) ==
                job' = [job EXCEPT !.read = <<>>, !.indexed = @ \/ indexed, !.written = @ \cup written]
<1>2. /\ reader = "projecting" /\ job.read # <<>>
      /\ UNCHANGED <<doc, theirs, round, stream, pending, woken, waking, offering, unanswered, writing, reader, waiting>>
  BY DEF ProjectWrites
<1>3. \/ /\ indexes /\ upserts
         /\ done(kind = "items", {<<kind, id>>})
         /\ skipped' = skipped \ {<<kind, id>>}
         /\ UNCHANGED left
      \/ /\ indexes /\ rows' = rows
         /\ done(kind = "items", {})
         /\ Failing(kind, id)
      \/ /\ kind = "items"
         /\ index' = index /\ upserts
         /\ done(FALSE, {<<kind, id>>})
         /\ Failing(kind, id)
  BY DEF ProjectWrites, Projects
<1>4. LeftOK'
  BY <1>1, <1>3, Untouched, FailingNotes
<1>5. NodeIInv'
  BY <1>1, <1>2, <1>4, Untouched, ReaderBeside
<1>6. ReadOK(job.read) /\ RowsOK
  BY <1>1 DEF ReaderIInv, JobOK
<1>7. Failing(kind, id) => skipped' = skipped \cup {<<kind, id>>}
  BY DEF Failing
<1>8. CASE kind = "items"
  <2>1. Honest(read.ratings) /\ Honest(read.reviews) /\ Reading(id)
    BY <1>2, <1>6, <1>8 DEF ReadOK, Reading
  <2>2. PICK inIndex \in BOOLEAN, inRows \in BOOLEAN, written \in {{}, {<<kind, id>>}} :
          /\ index' = IF inIndex THEN index_item(id, read.item) ELSE index
          /\ rows' = IF inRows THEN upsert_item(id, read) ELSE rows
          /\ done(inIndex, written)
          /\ skipped' = IF inIndex /\ inRows THEN skipped \ {<<"items", id>>} ELSE skipped \cup {<<"items", id>>}
    <3>1. CASE indexes /\ upserts /\ done(kind = "items", {<<kind, id>>}) /\ skipped' = skipped \ {<<kind, id>>}
      <4>1. /\ index' = IF TRUE THEN index_item(id, read.item) ELSE index
            /\ rows' = IF TRUE THEN upsert_item(id, read) ELSE rows
            /\ done(TRUE, {<<kind, id>>})
            /\ skipped' = IF TRUE /\ TRUE THEN skipped \ {<<"items", id>>} ELSE skipped \cup {<<"items", id>>}
        BY <1>8, <3>1
      <4> QED
        BY <4>1
    <3>2. CASE indexes /\ rows' = rows /\ done(kind = "items", {}) /\ Failing(kind, id)
      <4>1. /\ index' = IF TRUE THEN index_item(id, read.item) ELSE index
            /\ rows' = IF FALSE THEN upsert_item(id, read) ELSE rows
            /\ done(TRUE, {})
            /\ skipped' = IF TRUE /\ FALSE THEN skipped \ {<<"items", id>>} ELSE skipped \cup {<<"items", id>>}
        BY <1>7, <1>8, <3>2
      <4> QED
        BY <4>1
    <3>3. CASE index' = index /\ upserts /\ done(FALSE, {<<kind, id>>}) /\ Failing(kind, id)
      <4>1. /\ index' = IF FALSE THEN index_item(id, read.item) ELSE index
            /\ rows' = IF TRUE THEN upsert_item(id, read) ELSE rows
            /\ done(FALSE, {<<kind, id>>})
            /\ skipped' = IF FALSE /\ TRUE THEN skipped \ {<<"items", id>>} ELSE skipped \cup {<<"items", id>>}
        BY <1>7, <1>8, <3>3
      <4> QED
        BY <4>1
    <3> QED
      BY <1>3, <3>1, <3>2, <3>3
  <2> HIDE DEF read, id
  <2>3. ReaderIInv'
    BY <1>1, <1>2, <2>1, <2>2, ItemWritesStep
  <2> QED
    BY <1>5, <2>3 DEF LibraryIInv
<1>9. CASE kind # "items"
  <2>1. /\ kind \in {"bookmarks", "wishes"}
        /\ kind = "bookmarks" => Honest(read.entries)
        /\ kind = "wishes" => id \in Wish /\ Honest(read.entries) /\ Honest(read.comments)
    BY <1>2, <1>6, <1>9 DEF ReadOK
  <2>2. RowsOK' /\ rows'.items = rows.items
    <3>1. CASE upserts /\ kind = "bookmarks"
      <4>1. rows' = replace_bookmarks(id, read)
        BY <3>1
      <4> HIDE DEF read, id
      <4> QED
        BY <1>6, <2>1, <3>1, <4>1, MarksAreWritten
    <3>2. CASE upserts /\ kind = "wishes"
      <4>1. rows' = replace_wish(id, read)
        BY <3>2
      <4> HIDE DEF read, id
      <4> QED
        BY <1>6, <2>1, <3>2, <4>1, WishIsWritten
    <3>3. CASE rows' = rows
      BY <1>6, <3>3 DEF RowsOK
    <3> QED
      BY <1>3, <1>9, <2>1, <3>1, <3>2, <3>3
  <2>3. /\ index' = index
        /\ \E written : job' = [job EXCEPT !.read = <<>>, !.indexed = @ \/ FALSE, !.written = @ \cup written]
        /\ skipped' \in {skipped \ {<<kind, id>>}, skipped \cup {<<kind, id>>}}
    BY <1>3, <1>7, <1>9
  <2> HIDE DEF read, id
  <2>4. ReaderIInv'
    BY <1>1, <1>2, <2>1, <2>2, <2>3, WordsWriteStep
  <2> QED
    BY <1>5, <2>4 DEF LibraryIInv
<1> QED
  BY <1>8, <1>9

LEMMA CommitsKeeps == ASSUME LibraryIInv, Commits PROVE LibraryIInv'
<1> USE DEF catalogueVars, documentVars, groupVars, swarmVars, newsVars, pumpVars, offerVars, sweepVars
<1>1. NodeIInv /\ ReaderIInv
  BY DEF LibraryIInv
<1>2. NodeIInv'
  <2>1. LeftOK'
    BY <1>1, Untouched, FailsKeeps DEF Commits
  <2> QED
    BY <1>1, <2>1, Untouched, ReaderBeside DEF Commits
<1>3. /\ DOMAIN job' = DOMAIN job /\ job'.items = job.items /\ job'.bookmarks = job.bookmarks
      /\ job'.wishes = job.wishes /\ job'.read = job.read /\ job'.indexed = FALSE
      /\ reader = "projecting" /\ reader' = reader
  BY <1>1 DEF Commits, ReaderIInv, JobOK
<1>4. JobOK'
  <2>1. ReadOK(job'.read)
    BY <1>1, <1>3 DEF ReaderIInv, JobOK
  <2>2. ReadOK(job.read)'
    BY <2>1 DEF ReadOK, Honest
  <2> QED
    BY <1>1, <1>3, <2>2 DEF ReaderIInv, JobOK
<1>5. ASSUME index' = [index EXCEPT !.committed = index.written] /\ skipped' = skipped \ CommitMarks
      PROVE  IndexOK' /\ CommitOK'
  <2>1. /\ DOMAIN index' = DOMAIN index
        /\ index'.written = index.written /\ index'.committed = index.written
    BY <1>1, <1>5 DEF ReaderIInv, CommitOK
  <2>2. Uncommitted' = {}
    BY <2>1 DEF Uncommitted
  <2>3. CommitOK'
    BY <1>1, <2>1, <2>2 DEF ReaderIInv, CommitOK
  <2>4. \A i : /\ <<"items", i>> \in skipped => <<"items", i>> \in skipped'
               /\ Lost(i) => Lost(i)'
    BY <1>5, <2>2 DEF Lost, CommitMarks
  <2>5. IndexOK'
    BY <1>1, <1>3, <2>1, <2>4 DEF Commits, ReaderIInv, IndexOK, Redo, Reading
  <2> QED
    BY <2>3, <2>5
<1>8. ASSUME /\ index' \in {index, [index EXCEPT !.written = index.committed]}
             /\ skipped' = skipped \cup CommitMarks
      PROVE  IndexOK' /\ CommitOK'
  <2>1. /\ DOMAIN index' = DOMAIN index /\ index'.committed = index.committed
        /\ index'.written = index.written \/ index'.written = index.committed
    BY <1>1, <1>8 DEF ReaderIInv, CommitOK
  <2>2. Uncommitted' \subseteq Uncommitted
    BY <2>1 DEF Uncommitted
  <2>3. \A i \in Uncommitted : <<"commit", i>> \in skipped'
    BY <1>8 DEF CommitMarks
  <2>4. CommitOK'
    BY <1>1, <2>1, <2>2, <2>3 DEF ReaderIInv, CommitOK
  <2>5. \A i : /\ <<"items", i>> \in skipped => <<"items", i>> \in skipped'
               /\ Lost(i) => Lost(i)'
    BY <1>8, <2>2 DEF Lost
  <2>6. ASSUME NEW i \in DOMAIN index.written
        PROVE  Lost(i)' \/ (i \in DOMAIN index'.written /\ index'.written[i] = index.written[i])
    <3>1. CASE index'.written = index.written
      BY <3>1
    <3>2. CASE index'.written = index.committed /\ i \in Uncommitted
      BY <2>1, <2>3, <3>2 DEF Lost, Uncommitted
    <3>3. CASE index'.written = index.committed /\ i \notin Uncommitted
      BY <3>3 DEF Uncommitted
    <3> QED
      BY <2>1, <3>1, <3>2, <3>3
  <2>7. IndexOK'
    BY <1>1, <1>3, <2>5, <2>6 DEF Commits, ReaderIInv, IndexOK, Redo, Reading
  <2> QED
    BY <2>4, <2>7
<1>6. WaitingOK' /\ RowsOK'
  BY <1>1 DEF Commits, ReaderIInv, WaitingOK, RowsOK
<1>7. KnownOK'
  BY <1>1, <1>3 DEF Commits, ReaderIInv, KnownOK, Reading, HasOwn
<1>9. IndexOK' /\ CommitOK'
  BY <1>5, <1>8 DEF Commits
<1> QED
  BY <1>2, <1>4, <1>6, <1>7, <1>9 DEF LibraryIInv, ReaderIInv

LEMMA FinishesKeeps == ASSUME LibraryIInv, Finishes PROVE LibraryIInv'
<1> USE DEF catalogueVars, documentVars, groupVars, swarmVars, newsVars, pumpVars, offerVars, sweepVars
<1>1. NodeIInv /\ ReaderIInv
  BY DEF LibraryIInv
<1>2. NodeIInv'
  BY <1>1, Untouched, ReaderBeside DEF Finishes
<1>3. job.read = <<>> /\ job.items = {} /\ ~job.indexed /\ reader = "projecting"
  BY DEF Finishes, Stage
<1>4. /\ job' = NoJob /\ reader' = "idle"
      /\ UNCHANGED <<doc, waiting, rows, index, skipped>>
  BY DEF Finishes, Ends
<1>5. NoJob.read = <<>> /\ NoJob.indexed = FALSE
  BY DEF NoJob, Job
<1>6. JobOK'
  BY <1>4 DEF JobOK, NoJob, Job, ReadOK
<1>7. WaitingOK' /\ RowsOK' /\ CommitOK'
  BY <1>1, <1>3, <1>4 DEF ReaderIInv, WaitingOK, RowsOK, CommitOK, Uncommitted
<1>8. KnownOK'
  BY <1>1, <1>4, <1>5 DEF ReaderIInv, KnownOK, Reading, HasOwn
<1>9. IndexOK'
  BY <1>1, <1>3, <1>4 DEF ReaderIInv, IndexOK, Lost, Uncommitted, Redo, Reading
<1> QED
  BY <1>2, <1>6, <1>7, <1>8, <1>9 DEF LibraryIInv, ReaderIInv

-----------------------------------------------------------------------------
(* Restarts and calls.                                                     *)

LEMMA CrashesKeeps == ASSUME LibraryIInv, Crashes PROVE LibraryIInv'
<1> USE DEF documentVars, groupVars
<1>1. NodeIInv /\ ReaderIInv
  BY DEF LibraryIInv
<1>2. LeftOK' /\ DocOK' /\ PeersOK'
  BY <1>1, LessIsLeft, Untouched DEF Crashes, CatalogueCrash
<1>3. RoundsOK' /\ NewsOK' /\ OfferOK'
  BY DEF Crashes, CatalogueCrash, RoundsOK, RoundOK, NewsOK, NothingPending, OfferOK
<1>4. StreamOK' /\ UnansweredOK'
  <2>1. stream' = <<>> /\ unanswered' = <<>>
    BY DEF Crashes, CatalogueCrash
  <2>2. DOMAIN unanswered' = {}
    BY <2>1
  <2> QED
    BY <2>1, <2>2 DEF StreamOK, UnansweredOK
<1>5. WritingOK' /\ WaitingOK'
  BY DEF Crashes, WritingOK, WaitingOK, NothingWaiting
<1>6. reader' = "starting" /\ job' = NoJob
  BY DEF Crashes
<1>7. JobOK'
  BY <1>6 DEF JobOK, NoJob, Job, ReadOK
<1>8. \/ rows' = NoRows
      \/ rows' = rows
  BY DEF Crashes, OpenedStore
<1>9. RowsOK' /\ DOMAIN rows'.items \subseteq DOMAIN rows.items
  <2>1. CASE rows' = NoRows
    <3>1. /\ DOMAIN rows' = {"items", "bookmarks", "wishes", "members"}
          /\ DOMAIN rows'.items = {} /\ DOMAIN rows'.bookmarks = {} /\ DOMAIN rows'.wishes = {}
      BY <2>1 DEF NoRows
    <3> QED
      BY <3>1 DEF RowsOK
  <2>2. CASE rows' = rows
    BY <1>1, <2>2 DEF ReaderIInv, RowsOK
  <2> QED
    BY <1>8, <2>1, <2>2
<1>10. CommitOK'
  <2>1. index' = NoIndex \/ index' = [index EXCEPT !.written = index.committed]
    BY DEF Crashes, OpenedIndex
  <2>2. DOMAIN index' = {"written", "committed"} /\ index'.written = index'.committed
    BY <1>1, <2>1 DEF ReaderIInv, CommitOK, NoIndex
  <2> QED
    BY <2>2 DEF CommitOK, Uncommitted
<1>11. KnownOK'
  <2>1. doc' = doc
    BY DEF Crashes, CatalogueCrash
  <2>2. \A i : ~(Reading(i))'
    BY <1>6 DEF Reading, NoJob, Job
  <2> QED
    BY <1>1, <1>9, <2>1, <2>2 DEF ReaderIInv, KnownOK, HasOwn
<1>12. IndexOK'
  BY <1>6 DEF IndexOK, Redo
<1> QED
  BY <1>2, <1>3, <1>4, <1>5, <1>7, <1>9, <1>10, <1>11, <1>12 DEF LibraryIInv, NodeIInv, ReaderIInv

LEMMA AsksReindexKeeps == ASSUME LibraryIInv, AsksReindex PROVE LibraryIInv'
<1> USE DEF documentVars, groupVars, swarmVars, newsVars, pumpVars, offerVars, sweepVars
<1>1. NodeIInv /\ ReaderIInv
  BY DEF LibraryIInv
<1>2. LeftOK'
  BY <1>1, LessIsLeft DEF AsksReindex
<1>3. NodeIInv'
  BY <1>1, <1>2, Untouched, ReaderBeside DEF AsksReindex
<1>4. UNCHANGED <<doc, reader, job, waiting, rows, index, skipped>>
  BY DEF AsksReindex
<1>5. WaitingOK' /\ JobOK' /\ RowsOK' /\ CommitOK' /\ IndexOK' /\ KnownOK'
  BY <1>1, <1>4 DEF ReaderIInv, WaitingOK, JobOK, RowsOK, CommitOK, Uncommitted, IndexOK, Lost, Redo, Reading, KnownOK
<1> QED
  BY <1>3, <1>5 DEF LibraryIInv, ReaderIInv

\* What calls write.
LEMMA PlainIsValue == Plain \in Values
  BY DEF Plain, Values

LEMMA MyKeys ==
    /\ \A i \in Item : Key("field", i, "title", 0) \in Keys
    /\ \A i \in Item, f \in File : Key("file", i, f, 0) \in Keys
    /\ \A i \in Item, id \in Nat, kind \in {"rating", "review", "bookmark"} : CommunityKey(kind, i, me, id) \in Keys
    /\ \A w \in Wish, kind \in AboutWish : CommunityKey(kind, w, me, 0) \in Keys
  BY CatalogueAssumption DEF Keys, ItemKeys, WishKeys, Key, CommunityKey, OwnKinds

LEMMA SaysType ==
    ASSUME NEW key \in Keys, NEW value \in Values \cup {None}, key.kind \in NeverDeleted => value # None
    PROVE  Says(key, value) \in Seq(Puttable)
<1> DEFINE x == [key |-> key, value |-> IF value = None THEN Plain ELSE value, deleted |-> value = None]
<1>1. x \in [key : Keys, value : Values, deleted : BOOLEAN]
  BY PlainIsValue
<1>2. x \in Puttable
  BY <1>1 DEF Puttable
<1>3. Says(key, value) = <<x>>
  BY DEF Says
<1> HIDE DEF x
<1> QED
  BY <1>2, <1>3

LEMMA FilesType ==
    ASSUME NEW i \in Item, NEW files \in SUBSET File, IsFiniteSet(files)
    PROVE  WriteFiles(i, files) \in Seq(Puttable)
<1> DEFINE order == SetToSeq(files)
           x(f) == [key |-> Key("file", i, f, 0), value |-> Plain, deleted |-> FALSE]
<1>1. order \in Seq(files)
  BY SetToSeqType
<1> HIDE DEF order
<1>2. ASSUME NEW f \in File PROVE x(f) \in Puttable
  <2>1. Key("file", i, f, 0) \in Keys
    BY MyKeys
  <2> QED
    BY <2>1, PlainIsValue DEF Puttable
<1>3. WriteFiles(i, files) = [k \in DOMAIN order |-> x(order[k])]
  BY DEF WriteFiles, order
<1>4. Len(order) \in Nat /\ order \in [1 .. Len(order) -> File]
  BY <1>1
<1> HIDE DEF x
<1>5. WriteFiles(i, files) \in [1 .. Len(order) -> Puttable]
  BY <1>2, <1>3, <1>4
<1> QED
  BY <1>4, <1>5

\* The next time, and a bookmark's number, are past what is known.
LEMMA NowType == ASSUME EntriesOK(doc) PROVE Now \in Nat
<1> DEFINE times == {e.at : e \in doc}
           at == [e \in doc |-> e.at]
<1>1. at \in Surjection(doc, times)
  BY DEF Surjection
<1>2. times \in SUBSET Nat
  BY EntryTypes DEF EntriesOK
<1>3. Now = 1 + Max({0} \cup times)
  BY DEF Now
<1> HIDE DEF times
<1>4. IsFiniteSet(times)
  BY <1>1, FS_Surjection DEF EntriesOK
<1> QED
  BY <1>2, <1>3, <1>4, MaxIsNat

LEMMA UnusedType == ASSUME EntriesOK(doc), NEW i PROVE Unused(i) \in Nat
<1> DEFINE marks == {f \in doc : f.key = CommunityKey("bookmark", i, me, f.key.id)}
           next == {1 + e.key.id : e \in marks}
           id == [e \in marks |-> 1 + e.key.id]
<1>1. IsFiniteSet(marks) /\ marks \subseteq Entries
  BY FS_Subset DEF EntriesOK
<1>2. next \in SUBSET Nat
  <2>1. \A e \in marks : e.key \in Keys
    BY <1>1, EntryTypes
  <2>2. \A k \in Keys : k.id \in Nat
    BY DEF Keys, ItemKeys, WishKeys
  <2> QED
    BY <2>1, <2>2
<1>3. Unused(i) = Max({0} \cup next)
  BY DEF Unused
<1> HIDE DEF marks
<1>4. id \in Surjection(marks, next)
  BY DEF Surjection
<1> HIDE DEF next, id
<1>5. IsFiniteSet(next)
  BY <1>1, <1>4, FS_Surjection
<1> QED
  BY <1>2, <1>3, <1>5, MaxIsNat

\* What this member wishes is written with what its entry said.
LEMMA WishFieldsType ==
    ASSUME NodeIInv, NEW w \in Wish, NEW i \in Item
    PROVE  wish_fulfill(w, i) \in Seq(Puttable)
<1> DEFINE mine == {e.value : e \in {f \in EntriesFor(w) : f.author = me}}
           fields == IF mine = {} THEN [Plain EXCEPT !.created_at = Now] ELSE CHOOSE v \in mine : TRUE
<1>1. EntriesOK(doc)
  BY DEF NodeIInv, DocOK
<1>2. mine \subseteq Values
  <2>1. EntriesFor(w) \subseteq doc
    BY DEF EntriesFor, read_wish, read_community_entries, all
  <2> QED
    BY <1>1, <2>1, EntryTypes DEF EntriesOK
<1>3. Now \in Nat
  BY <1>1, NowType
<1>4. fields \in Values
  BY <1>2, <1>3, PlainIsValue DEF Values, Plain
<1>5. wish_fulfill(w, i) = IF KnownWish(w) /\ Known(i)
                           THEN Says(Mine("wish", w), [fields EXCEPT !.fulfilled = i]) ELSE refused
  BY DEF wish_fulfill
<1> HIDE DEF fields
<1>6. [fields EXCEPT !.fulfilled = i] \in Values
  BY <1>4 DEF Values
<1>7. Mine("wish", w) \in Keys
  BY MyKeys DEF Mine, AboutWish
<1>8. Says(Mine("wish", w), [fields EXCEPT !.fulfilled = i]) \in Seq(Puttable)
  BY <1>6, <1>7, SaysType, LibraryAssumption
<1> QED
  BY <1>5, <1>8 DEF refused

LEMMA WritesType ==
    ASSUME NodeIInv, NEW call, CallOK(call)
    PROVE  Writes(call) \in Seq(Puttable)
<1>1. EntriesOK(doc)
  BY DEF NodeIInv, DocOK
<1>2. refused \in Seq(Puttable)
  BY DEF refused
<1>3. ASSUME NEW kind \in {"rating", "review"}, NEW i \in Item, NEW value \in Values \cup {None}
      PROVE  Says(Mine(kind, i), value) \in Seq(Puttable)
  <2>1. Mine(kind, i) \in Keys /\ Mine(kind, i).kind \notin NeverDeleted
    BY MyKeys DEF Mine, CommunityKey, Key, OwnKinds, NeverDeleted
  <2> QED
    BY <2>1, SaysType
<1>4. ASSUME NEW kind \in AboutWish, NEW w \in Wish, NEW value \in Values \cup {None}, kind = "wish" => value # None
      PROVE  Says(Mine(kind, w), value) \in Seq(Puttable)
  <2>1. Mine(kind, w) \in Keys /\ (Mine(kind, w).kind \in NeverDeleted => kind = "wish")
    BY MyKeys DEF Mine, CommunityKey, Key, OwnKinds, NeverDeleted, AboutWish
  <2> QED
    BY <1>4, <2>1, SaysType
<1>5. ASSUME NEW i \in Item PROVE Says(Key("field", i, "title", 0), Plain) \in Seq(Puttable)
  BY MyKeys, PlainIsValue, SaysType, LibraryAssumption
<1>6. ASSUME NEW i \in Item, NEW id \in Nat, NEW value \in {None, Plain}
      PROVE  Says(CommunityKey("bookmark", i, me, id), value) \in Seq(Puttable)
  <2>1. CommunityKey("bookmark", i, me, id) \in Keys /\ CommunityKey("bookmark", i, me, id).kind \notin NeverDeleted
    BY MyKeys DEF CommunityKey, Key, OwnKinds, NeverDeleted
  <2> QED
    BY <2>1, PlainIsValue, SaysType
<1>7. ASSUME NEW i, NEW id, own_bookmark(i, id) PROVE id \in Nat
  <2>1. PICK e \in doc : e.key.kind = "bookmark" /\ e.key.id = id
    BY <1>7 DEF own_bookmark, read_bookmarks, read_community_entries, all
  <2>2. e.key \in Keys
    BY <1>1, <2>1, EntryTypes DEF EntriesOK
  <2> QED
    BY <2>1, <2>2 DEF Keys, ItemKeys, WishKeys
<1>8. CASE call.op = "add"
  <2> DEFINE lacks == call.with \ {e.key.name : e \in Own(doc, call.of) \cap content}
  <2>1. call.of \in Item /\ call.with \in SUBSET File /\ IsFiniteSet(call.with)
    BY <1>8 DEF CallOK, ItemCalls
  <2>2. lacks \in SUBSET File /\ IsFiniteSet(lacks)
    BY <2>1, FS_Subset
  <2>3. Writes(call) = add(call.of, call.with)
    BY <1>8 DEF Writes
  <2>4. add_missing_files(call.of, call.with) = WriteFiles(call.of, lacks)
    BY DEF add_missing_files
  <2> HIDE DEF lacks
  <2>5. WriteFiles(call.of, lacks) \in Seq(Puttable) /\ WriteFiles(call.of, call.with) \in Seq(Puttable)
    BY <2>1, <2>2, FilesType
  <2>6. write_new_item(call.of, call.with) \in Seq(Puttable)
    BY <1>5, <2>1, <2>5 DEF write_new_item
  <2> QED
    BY <2>3, <2>4, <2>5, <2>6 DEF add
<1>9. CASE call.op = "edit_metadata"
  BY <1>2, <1>5, <1>9 DEF Writes, edit_metadata, CallOK, ItemCalls
<1>10. CASE call.op = "rate"
  BY <1>2, <1>3, <1>10 DEF Writes, rate, CallOK, ItemCalls
<1>11. CASE call.op = "review"
  BY <1>2, <1>3, <1>11 DEF Writes, review, CallOK, ItemCalls
<1>12. CASE call.op = "bookmark"
  <2>1. call.of \in Item /\ Writes(call) = bookmark(call.of, call.with)
    BY <1>12 DEF Writes, CallOK, ItemCalls
  <2>2. Unused(call.of) \in Nat
    BY <1>1, UnusedType
  <2> QED
    BY <1>2, <1>6, <1>7, <2>1, <2>2 DEF bookmark
<1>13. CASE call.op = "bookmark_delete"
  <2>1. call.of \in Item /\ Writes(call) = bookmark_delete(call.of, call.with)
    BY <1>13 DEF Writes, CallOK, ItemCalls
  <2> QED
    BY <1>2, <1>6, <1>7, <2>1 DEF bookmark_delete
<1>14. CASE call.op = "wish_create"
  <2>1. [title |-> TRUE, created_at |-> Now, fulfilled |-> None] \in Values
    BY <1>1, NowType DEF Values
  <2>2. call.of \in Wish
    BY <1>14 DEF CallOK, ItemCalls
  <2>3. Writes(call) = Says(Mine("wish", call.of), [title |-> TRUE, created_at |-> Now, fulfilled |-> None])
    BY <1>14 DEF Writes, wish_create
  <2> QED
    BY <1>4, <2>1, <2>2, <2>3, LibraryAssumption DEF AboutWish
<1>15. CASE call.op = "wish_comment"
  <2>1. call.of \in Wish /\ call.with \in Values \cup {None} /\ Writes(call) = wish_comment(call.of, call.with)
    BY <1>15 DEF Writes, CallOK, ItemCalls
  <2> QED
    BY <1>2, <1>4, <2>1 DEF wish_comment, AboutWish
<1>16. CASE call.op = "wish_fulfill"
  <2>1. call.of \in Wish /\ call.with \in Item /\ Writes(call) = wish_fulfill(call.of, call.with)
    BY <1>16 DEF Writes, CallOK, ItemCalls
  <2> QED
    BY <2>1, WishFieldsType
<1> QED
  BY <1>8, <1>9, <1>10, <1>11, <1>12, <1>13, <1>14, <1>15, <1>16 DEF CallOK, ItemCalls, WishCalls

\* What is left of two or more is something.
LEMMA TailOfTwo ==
    ASSUME NEW S, NEW s \in Seq(S), Len(s) > 1
    PROVE  Tail(s) \in Seq(S) /\ Tail(s) # <<>>
<1>1. Len(s) \in Nat /\ Tail(s) \in Seq(S)
  <2>1. s # <<>>
    OBVIOUS
  <2> QED
    BY <2>1
<1>2. Len(Tail(s)) = Len(s) - 1
  <2>1. s # <<>>
    OBVIOUS
  <2> QED
    BY <2>1
<1>3. Tail(s) = <<>> => Len(Tail(s)) = 0
  <2>1. Len(<<>>) = 0
    OBVIOUS
  <2> QED
    BY <2>1
<1> QED
  BY <1>1, <1>2, <1>3

LEMMA CallsKeeps == ASSUME LibraryIInv, NEW call \in left.calls, Calls(call) PROVE LibraryIInv'
<1> USE DEF documentVars, groupVars, swarmVars, newsVars, pumpVars, offerVars, sweepVars
<1>1. NodeIInv /\ ReaderIInv
  BY DEF LibraryIInv
<1>2. CatalogueKept
  <2>1. LeftOK'
    <3>1. left' = [left EXCEPT !.calls = @ \ {call}]
      BY DEF Calls
    <3> QED
      BY <1>1, <3>1 DEF NodeIInv, LeftOK
  <2> QED
    BY <1>1, <2>1, Untouched, DocStays DEF Calls, CatalogueKept
<1>3. WritingOK'
  <2> DEFINE w == [call |-> call, entries |-> Writes(call)]
  <2>1. writing' = (writing \cup {w}) \ {[call |-> call, entries |-> <<>>]}
    BY DEF Calls
  <2>2. Writes(call) \in Seq(Puttable)
    BY <1>1, WritesType DEF NodeIInv, LeftOK
  <2>3. ASSUME NEW x \in writing' PROVE "entries" \in DOMAIN x /\ x.entries \in Seq(Puttable) /\ x.entries # <<>>
    <3>1. CASE x \in writing
      BY <1>1, <3>1 DEF NodeIInv, WritingOK
    <3>2. CASE x = w
      <4>1. w # [call |-> call, entries |-> <<>>]
        BY <2>1, <3>2
      <4> QED
        BY <2>2, <3>2, <4>1
    <3> QED
      BY <2>1, <3>1, <3>2
  <2> QED
    BY <2>3 DEF WritingOK
<1>4. ReaderIInv'
  BY <1>1, <1>2, ReaderStays DEF Calls, CatalogueKept
<1> QED
  BY <1>2, <1>3, <1>4 DEF LibraryIInv, NodeIInv, CatalogueKept

LEMMA PutsKeeps == ASSUME LibraryIInv, NEW w \in writing, Puts(w) PROVE LibraryIInv'
<1> USE DEF groupVars, newsVars, pumpVars, offerVars, sweepVars
<1>1. NodeIInv /\ ReaderIInv
  BY DEF LibraryIInv
<1> DEFINE next == Head(w.entries)
           at == 1 + Max({0} \cup {e.at : e \in doc})
           entry == IF next.deleted THEN Deletion(next.key, me, at) ELSE Entry(next.key, me, at, next.value)
<1>2. "entries" \in DOMAIN w /\ w.entries \in Seq(Puttable) /\ w.entries # <<>> /\ next \in Puttable
  BY <1>1 DEF NodeIInv, WritingOK
<1>3. EntriesOK(doc)
  BY <1>1 DEF NodeIInv, DocOK
<1>4. /\ doc' = Merged(doc \cup {entry}) /\ stream' = Append(stream, <<"insert", next.key>>)
      /\ UNCHANGED <<left, theirs, round, pending, woken, waking, offering, unanswered>>
      /\ UNCHANGED readerVars
      /\ writing' = (writing \ {w}) \cup {[w EXCEPT !.entries = Tail(@)] : x \in {y \in {w} : Len(w.entries) > 1}}
  BY DEF Puts, put
<1>5. entry \in Entries
  <2>1. at \in Nat
    BY <1>3, NowType DEF Now
  <2> HIDE DEF at, next
  <2> QED
    BY <1>2, <2>1, CatalogueAssumption, PlainIsValue DEF Entries, Puttable, Deletion, Entry
<1>6. next.key \in Keys
  BY <1>2 DEF Puttable
<1> HIDE DEF entry, next
<1>7. DocOK' /\ DocGrows
  BY <1>1, <1>4, <1>5, SingletonIsOK, DocMerges
<1>8. StreamOK'
  BY <1>1, <1>4, <1>6, EventTypes, SaysMore
<1>9. WritingOK'
  <2>1. ASSUME NEW x \in writing' PROVE "entries" \in DOMAIN x /\ x.entries \in Seq(Puttable) /\ x.entries # <<>>
    <3>1. CASE x \in writing
      BY <1>1, <3>1 DEF NodeIInv, WritingOK
    <3>2. CASE x = [w EXCEPT !.entries = Tail(@)] /\ Len(w.entries) > 1
      <4>1. Tail(w.entries) \in Seq(Puttable) /\ Tail(w.entries) # <<>>
        BY <1>2, <3>2, TailOfTwo
      <4>2. "entries" \in DOMAIN x /\ x.entries = Tail(w.entries)
        BY <1>2, <3>2
      <4> QED
        BY <4>1, <4>2
    <3> QED
      BY <1>4, <3>1, <3>2
  <2> QED
    BY <2>1 DEF WritingOK
<1>10. ReaderIInv'
  BY <1>1, <1>4, <1>7, ReaderStays
<1> QED
  BY <1>1, <1>4, <1>7, <1>8, <1>9, <1>10, Untouched DEF LibraryIInv, NodeIInv

-----------------------------------------------------------------------------

LEMMA LibraryStep == LibraryIInv /\ [Next]_vars => LibraryIInv'
<1> SUFFICES ASSUME LibraryIInv, [Next]_vars PROVE LibraryIInv'
  OBVIOUS
<1>1. NodeIInv /\ ReaderIInv
  BY DEF LibraryIInv
<1>2. ASSUME Swarm \/ Loops \/ Group, UNCHANGED <<readerVars, writing>> PROVE LibraryIInv'
  <2>1. CatalogueKept
    BY <1>1, <1>2, SwarmKeeps, LoopsKeeps, GroupKeeps
  <2>2. WritingOK'
    BY <1>1, <1>2, Untouched
  <2>3. ReaderIInv'
    BY <1>1, <1>2, <2>1, ReaderStays DEF CatalogueKept
  <2> QED
    BY <2>1, <2>2, <2>3 DEF LibraryIInv, NodeIInv, CatalogueKept
<1>3. ASSUME Reader PROVE LibraryIInv'
  BY <1>3, BetweenJobsKeeps, ReplaysKeeps, TakeLooksKeeps, ProjectReadsKeeps, ProjectWritesKeeps,
     CommitsKeeps, FinishesKeeps DEF Reader
<1>4. ASSUME UNCHANGED vars PROVE LibraryIInv'
  <2> USE <1>4 DEF vars, catalogueVars, documentVars, groupVars, swarmVars, newsVars, offerVars, sweepVars
  <2>1. CatalogueKept /\ WritingOK'
    BY <1>1, Untouched, DocStays DEF CatalogueKept
  <2>2. ReaderIInv'
    BY <1>1, DocStays, ReaderStays
  <2> QED
    BY <2>1, <2>2 DEF LibraryIInv, NodeIInv, CatalogueKept
<1> QED
  BY <1>2, <1>3, <1>4, CrashesKeeps, AsksReindexKeeps, CallsKeeps, PutsKeeps DEF Next

LEMMA LibraryInductive == Spec => []LibraryIInv
<1>1. Init => LibraryIInv
  BY LibraryInit
<1>2. LibraryIInv /\ [Next]_vars => LibraryIInv'
  BY LibraryStep
<1> QED
  BY <1>1, <1>2, PTL DEF Spec

\* Search and lists agree whenever the projection is between jobs, whatever was
\* committed before a restart, of every item that is not named as left out by a
\* failed projection, listing or commit; and nobody is quoted with somebody
\* else's words, whoever writes under its keys (index.rs commit, catalogue.rs
\* read_community_entries).
THEOREM LibraryIsHonest == Spec => []LibraryInv
<1>1. ASSUME LibraryIInv PROVE TypeOK
  <2>1. /\ NodeIInv /\ WaitingOK /\ JobOK /\ RowsOK
    BY <1>1 DEF LibraryIInv, ReaderIInv
  <2>2. \A e \in DOMAIN unanswered : unanswered[e].left <= unanswered[e].waited /\ unanswered[e].waited <= ASK_AGAIN
    BY <2>1 DEF NodeIInv, UnansweredOK
  <2> QED
    BY <2>1, <2>2 DEF TypeOK, NodeIInv, DocOK, NewsOK, OfferOK, JobOK, RowsOK
<1>2. ASSUME LibraryIInv PROVE SearchAgrees
  <2> SUFFICES ASSUME Between, NEW i \in DOMAIN rows.items, <<"items", i>> \notin skipped, <<"commit", i>> \notin skipped
               PROVE  i \in DOMAIN index.committed /\ index.committed[i] = rows.items[i].item
    BY DEF SearchAgrees, Unindexed, list, page, search, search_page, shown, item
  <2>1. job = NoJob /\ CommitOK /\ IndexOK
    BY <1>2 DEF LibraryIInv, ReaderIInv, JobOK, Between
  <2>2. i \notin Uncommitted
    BY <2>1 DEF CommitOK, NoJob, Job
  <2>3. i \in DOMAIN index.written /\ index.written[i] = rows.items[i].item
    BY <2>1 DEF IndexOK, Redo, Lost, Between
  <2> QED
    BY <2>2, <2>3 DEF Uncommitted
<1>3. ASSUME LibraryIInv PROVE OnlyTheirOwnWords
  <2>1. RowsOK
    BY <1>3 DEF LibraryIInv, ReaderIInv
  <2>2. \A i \in list : \A e \in item(i).ratings \cup item(i).reviews : e.author = e.key.name
    BY <2>1 DEF RowsOK, Honest, list, page, item
  <2>3. ASSUME NEW m \in Member, NEW b \in bookmarks(m) PROVE m = b[2].key.name
    <3>1. PICK i \in DOMAIN rows.bookmarks : \E e \in rows.bookmarks[i] : e.author = m /\ b = <<i, e>>
      BY DEF bookmarks, find_bookmarks, bookmarks_of
    <3> QED
      BY <2>1, <3>1 DEF RowsOK, Honest
  <2>4. ASSUME NEW w \in all_wishes, NEW e \in wish(w).entries \cup wish(w).comments PROVE e.author = e.key.name
    <3>1. w \in DOMAIN rows.wishes /\ wish(w) = rows.wishes[w]
      BY DEF all_wishes, wish
    <3> QED
      BY <2>1, <3>1 DEF RowsOK, Honest
  <2> QED
    BY <2>2, <2>3, <2>4 DEF OnlyTheirOwnWords
<1>4. LibraryIInv => LibraryInv
  BY <1>1, <1>2, <1>3 DEF LibraryInv
<1> QED
  BY <1>4, LibraryInductive, PTL

-----------------------------------------------------------------------------
(* Wishes.                                                                 *)

\* What may still reach this node's document from the other members'.
Others == (UNION {theirs[p] : p \in Peer}) \cup {w[2] : w \in left.writes}
              \cup UNION {round[p].brings : p \in {q \in Peer : round[q] # None}}

Creation(w) == [op |-> "wish_create", of |-> w, with |-> None]
Creating(w) == Creation(w) \in left.calls \/ \E x \in writing : x.call = Creation(w)

\* This member's entry says what is wished for.
MineTitled(w) == \E e \in doc : e.key = Mine("wish", w) /\ e.author = me /\ e.value.title

TitlesOK == \A e, f \in Wished(doc \cup Others) : Same(e, f) /\ e.at <= f.at /\ e.value.title => f.value.title
MineKept == \A e \in Wished(Others) : e.author = me => \E f \in doc : e = f \/ Newer(e, f)
MineHere == \A e \in Wished(doc) : e.author = me => e \in content
FreshOK == \A w \in Wish : Creating(w) => \A e \in Wished(doc \cup Others) : e.key.of = w => ~e.value.title /\ e.author # me
OnceOK == \A x \in writing, w \in Wish : x.call = Creation(w) =>
    /\ Creation(w) \notin left.calls
    /\ \A y \in writing : y.call = Creation(w) => y = x

\* What is about to be written of a wish is one entry, with a title exactly if
\* this member's has one or it creates the wish.
OneEntry(x) == /\ Len(x.entries) = 1
               /\ x.entries[1].key = Mine("wish", x.call.of) /\ ~x.entries[1].deleted
PlanOK(x) ==
    /\ DOMAIN x = {"call", "entries"} /\ CallOK(x.call)
    /\ x.call.op = "wish_create" => OneEntry(x) /\ x.entries[1].value.title
    /\ x.call.op = "wish_fulfill" =>
           /\ OneEntry(x) /\ x.entries[1].value.title = MineTitled(x.call.of)
           /\ \E e \in Wished(doc) : e.key.of = x.call.of /\ e.value.title
    /\ x.call.op \notin {"wish_create", "wish_fulfill"} => \A k \in DOMAIN x.entries : x.entries[k].key.kind # "wish"
PlansOK == \A x \in writing : PlanOK(x)
WishIInv == TitlesOK /\ MineKept /\ MineHere /\ FreshOK /\ OnceOK /\ PlansOK

WishStep == \A w \in Wish : TitledBy(doc, w) \subseteq TitledBy(doc', w)

\* A step that writes nothing of this member's: the document takes in, if
\* anything, what others hold.
WishKept ==
    /\ doc' = doc \/ \E B \in SUBSET Others : EntriesOK(B) /\ doc' = Merged(doc \cup B)
    /\ content \subseteq content'
    /\ left'.calls = left.calls
    /\ Others' \subseteq Others

\* A merge keeps each entry, or one that is newer.
LEMMA MergeKeepsNewer ==
    ASSUME NEW d, EntriesOK(d), NEW e \in d
    PROVE  \E g \in Merged(d) : g = e \/ Newer(e, g)
<1> DEFINE S == {f \in d : Same(e, f)}
<1>1. IsFiniteSet(S) /\ S \subseteq Entries /\ e \in S
  BY FS_Subset DEF EntriesOK, Same
<1>2. PICK g \in S : \A f \in S : f.at <= g.at
  <2> HIDE DEF S
  <2> QED
    BY <1>1, NewestExists
<1>3. g \in Merged(d)
  BY <1>2 DEF Merged, Same
<1>4. e.at <= g.at /\ e.at \in Nat /\ g.at \in Nat
  BY <1>1, <1>2, EntryTypes
<1>5. CASE e.at = g.at
  <2>1. e \in Merged(d)
    BY <1>2, <1>5 DEF Merged, Same
  <2> QED
    BY <2>1
<1> QED
  BY <1>3, <1>4, <1>5 DEF Newer

\* An entry they hold, are about to write, or that a round is bringing.
LEMMA InOthers ==
    ASSUME NEW e
    PROVE  e \in Others <=> \/ \E p \in Peer : e \in theirs[p]
                            \/ \E w \in left.writes : e = w[2]
                            \/ \E p \in Peer : round[p] # None /\ e \in round[p].brings
<1> DEFINE have == UNION {theirs[p] : p \in Peer}
           write == {w[2] : w \in left.writes}
           bring == UNION {round[p].brings : p \in {q \in Peer : round[q] # None}}
<1>1. e \in have <=> \E p \in Peer : e \in theirs[p]
  OBVIOUS
<1>2. e \in write <=> \E w \in left.writes : e = w[2]
  OBVIOUS
<1>3. e \in bring <=> \E p \in Peer : round[p] # None /\ e \in round[p].brings
  OBVIOUS
<1>4. Others = have \cup write \cup bring
  BY DEF Others
<1> HIDE DEF have, write, bring
<1> QED
  BY <1>1, <1>2, <1>3, <1>4

LEMMA InOthersThen ==
    ASSUME NEW e
    PROVE  e \in Others' <=> \/ \E p \in Peer : e \in theirs'[p]
                             \/ \E w \in left'.writes : e = w[2]
                             \/ \E p \in Peer : round'[p] # None /\ e \in round'[p].brings
<1> DEFINE have == UNION {theirs'[p] : p \in Peer}
           write == {w[2] : w \in left'.writes}
           bring == UNION {round'[p].brings : p \in {q \in Peer : round'[q] # None}}
<1>1. e \in have <=> \E p \in Peer : e \in theirs'[p]
  OBVIOUS
<1>2. e \in write <=> \E w \in left'.writes : e = w[2]
  OBVIOUS
<1>3. e \in bring <=> \E p \in Peer : round'[p] # None /\ e \in round'[p].brings
  OBVIOUS
<1>4. Others' = have \cup write \cup bring
  BY DEF Others
<1> HIDE DEF have, write, bring
<1> QED
  BY <1>1, <1>2, <1>3, <1>4

LEMMA OthersAreEntries == ASSUME NodeIInv PROVE Others \subseteq Entries
<1>1. \A p \in Peer : theirs[p] \subseteq Entries
  BY DEF NodeIInv, PeersOK, EntriesOK
<1>2. \A w \in left.writes : w[2] \in Entries
  BY DEF NodeIInv, LeftOK
<1>3. \A p \in Peer : round[p] # None => round[p].brings \subseteq Entries
  BY DEF NodeIInv, RoundsOK, RoundOK, EntriesOK
<1> QED
  BY <1>1, <1>2, <1>3, InOthers

\* What others hold takes the place of no entry that says what is wished for,
\* but with one that says it too; and of nothing this member wrote.
LEMMA WishesMerge ==
    ASSUME NodeIInv, WishIInv, WishKept, writing' \subseteq writing
    PROVE  WishIInv' /\ WishStep
<1>1. EntriesOK(doc) /\ doc = Merged(doc)
  BY DEF NodeIInv, DocOK
<1>2. PICK B \in SUBSET Others : EntriesOK(B) /\ (doc' = doc \/ doc' = Merged(doc \cup B))
  <2>1. EntriesOK({})
    BY FS_EmptySet DEF EntriesOK
  <2> QED
    BY <2>1 DEF WishKept
<1>3. doc' \subseteq doc \cup B /\ doc' \subseteq Entries
  BY <1>1, <1>2, UnionIsOK, MergedIsOK DEF EntriesOK
<1>4. \A e \in doc : \E g \in doc' : g = e \/ Newer(e, g)
  <2>1. \A e \in doc \cup B : \E g \in Merged(doc \cup B) : g = e \/ Newer(e, g)
    BY <1>1, <1>2, UnionIsOK, MergeKeepsNewer
  <2> QED
    BY <1>2, <2>1
<1>5. Wished((doc \cup Others)') \subseteq Wished(doc \cup Others) /\ Wished(Others') \subseteq Wished(Others)
  BY <1>2, <1>3 DEF Wished, WishKept
<1>6. \A e \in doc \cup Others : e \in Wished(doc \cup Others) <=> e.key.kind = "wish"
  BY DEF Wished
<1>7. TitlesOK'
  BY <1>5 DEF WishIInv, TitlesOK
<1>8. ASSUME NEW e \in Wished(doc), e.value.title
      PROVE  \E g \in Wished(doc') : Same(e, g) /\ g.value.title /\ ~g.deleted
  <2>1. PICK g \in doc' : g = e \/ Newer(e, g)
    BY <1>4 DEF Wished
  <2>2. Same(e, g) /\ e.at <= g.at
    BY <1>1, <1>3, <2>1, EntryTypes DEF Same, Newer, Wished, EntriesOK
  <2>3. g \in Wished(doc \cup Others) /\ e \in Wished(doc \cup Others) /\ g \in Wished(doc')
    BY <1>2, <1>3, <2>2 DEF Wished, Same
  <2>4. g.value.title
    BY <1>8, <2>2, <2>3 DEF WishIInv, TitlesOK
  <2>5. ~g.deleted
    BY <1>3, <2>3 DEF Wished, Entries, NeverDeleted
  <2> QED
    BY <2>2, <2>3, <2>4, <2>5
<1>9. WishStep
  <2> SUFFICES ASSUME NEW w \in Wish, NEW m \in TitledBy(doc, w) PROVE m \in TitledBy(doc', w)
    BY DEF WishStep
  <2>1. PICK e \in Wished(doc) : e.key.of = w /\ e.value.title /\ e.author = m
    BY DEF TitledBy, all, Wished
  <2>2. PICK g \in Wished(doc') : Same(e, g) /\ g.value.title /\ ~g.deleted
    BY <1>8, <2>1
  <2> QED
    BY <2>1, <2>2 DEF TitledBy, all, Wished, Same
<1>10. MineKept'
  <2> SUFFICES ASSUME NEW e \in Wished(Others), e.author = me PROVE \E f \in doc' : e = f \/ Newer(e, f)
    BY <1>5 DEF MineKept
  <2>1. PICK f \in doc : e = f \/ Newer(e, f)
    BY DEF WishIInv, MineKept
  <2>2. PICK g \in doc' : g = f \/ Newer(f, g)
    BY <1>4
  <2>3. e \in Entries /\ f \in Entries /\ g \in Entries
    BY <1>1, <1>3, OthersAreEntries DEF EntriesOK, Wished
  <2>4. e.at \in Nat /\ f.at \in Nat /\ g.at \in Nat
    BY <2>3, EntryTypes
  <2> QED
    BY <2>1, <2>2, <2>4 DEF Newer, Same
<1>11. MineHere'
  <2> SUFFICES ASSUME NEW e \in Wished(doc'), e.author = me PROVE e \in content
    BY DEF MineHere, WishKept
  <2>1. CASE e \in doc
    BY <2>1 DEF WishIInv, MineHere, Wished
  <2>2. CASE e \notin doc
    <3>1. e \in B /\ doc' = Merged(doc \cup B) /\ e \in Wished(Others)
      BY <1>2, <1>3, <2>2 DEF Wished
    <3>2. PICK f \in doc : e = f \/ Newer(e, f)
      BY <3>1 DEF WishIInv, MineKept
    <3>3. Newer(e, f)
      BY <2>2, <3>2
    <3>4. e \in Merged(doc \cup B) /\ f \in doc \cup B
      BY <3>1, <3>2 DEF Wished
    <3>5. f.at <= e.at
      BY <3>3, <3>4 DEF Merged, Newer, Same
    <3>6. e.at \in Nat /\ f.at \in Nat
      BY <1>1, <1>3, EntryTypes DEF Wished, EntriesOK
    <3> QED
      BY <3>3, <3>5, <3>6 DEF Newer
  <2> QED
    BY <2>1, <2>2
<1>12. \A w : Creating(w)' => Creating(w)
  BY DEF Creating, Creation, WishKept
<1>13. FreshOK'
  BY <1>5, <1>12 DEF WishIInv, FreshOK
<1>14. OnceOK'
  BY DEF WishIInv, OnceOK, WishKept
<1>15. \A w : MineTitled(w)' <=> MineTitled(w)
  <2>1. ASSUME NEW w, NEW e \in doc, e.key = Mine("wish", w), e.author = me, e.value.title PROVE MineTitled(w)'
    <3>1. e \in Wished(doc)
      BY <2>1 DEF Wished, Mine, CommunityKey, Key
    <3>2. PICK g \in Wished(doc') : Same(e, g) /\ g.value.title
      BY <1>8, <2>1, <3>1
    <3> QED
      BY <2>1, <3>2 DEF MineTitled, Wished, Same
  <2>2. ASSUME NEW w, NEW e \in doc', e.key = Mine("wish", w), e.author = me, e.value.title PROVE MineTitled(w)
    <3>1. CASE e \in doc
      BY <2>2, <3>1 DEF MineTitled
    <3>2. CASE e \notin doc
      <4>1. e \in Wished(Others)
        BY <1>2, <1>3, <2>2, <3>2 DEF Wished, Mine, CommunityKey, Key
      <4>2. PICK f \in doc : Newer(e, f)
        BY <2>2, <3>2, <4>1 DEF WishIInv, MineKept
      <4>3. f \in Wished(doc \cup Others) /\ e \in Wished(doc \cup Others)
        BY <4>1, <4>2 DEF Wished, Newer, Same
      <4>4. e.at <= f.at
        <5>1. e.at \in Nat /\ f.at \in Nat
          BY <1>1, <1>3, EntryTypes DEF EntriesOK
        <5> QED
          BY <4>2, <5>1 DEF Newer
      <4>5. f.value.title
        BY <2>2, <4>2, <4>3, <4>4 DEF WishIInv, TitlesOK, Newer
      <4> QED
        BY <2>2, <4>2, <4>5 DEF MineTitled, Newer, Same
    <3> QED
      BY <3>1, <3>2
  <2> QED
    BY <2>1, <2>2 DEF MineTitled
<1>16. PlansOK'
  <2> SUFFICES ASSUME NEW x \in writing PROVE PlanOK(x)'
    BY DEF PlansOK
  <2>1. PlanOK(x)
    BY DEF WishIInv, PlansOK
  <2>2. x.call.op = "wish_fulfill" => \E e \in Wished(doc') : e.key.of = x.call.of /\ e.value.title
    BY <1>8, <2>1 DEF PlanOK, Same
  <2>3. MineTitled(x.call.of)' = MineTitled(x.call.of)
    BY <1>15 DEF MineTitled
  <2> QED
    BY <2>1, <2>2, <2>3 DEF PlanOK, OneEntry
<1> QED
  BY <1>7, <1>9, <1>10, <1>11, <1>13, <1>14, <1>16 DEF WishIInv

-----------------------------------------------------------------------------
(* Which steps write nothing of this member's.                             *)

LEMMA WhatOthersHold ==
    /\ \A p \in Peer : theirs[p] \subseteq Others
    /\ \A w \in left.writes : w[2] \in Others
    /\ \A p \in Peer : round[p] # None => round[p].brings \subseteq Others
  BY InOthers

\* Nobody holds more than before but what was written.
LEMMA OthersStay ==
    ASSUME \A p \in Peer : theirs'[p] \subseteq Others,
           left'.writes \subseteq left.writes,
           \A p \in Peer : round'[p] # None => round'[p].brings \subseteq Others
    PROVE  Others' \subseteq Others
<1> SUFFICES ASSUME NEW e \in Others' PROVE e \in Others
  OBVIOUS
<1> QED
  BY InOthersThen, WhatOthersHold

LEMMA OthersAsTheyWere ==
    ASSUME theirs' = theirs, left'.writes = left.writes, round' = round
    PROVE  Others' = Others
  BY DEF Others

\* A round brings what the other member holds.
LEMMA StartedBrings ==
    ASSUME NodeIInv, NEW peers, round' = Started(peers), theirs' = theirs, left'.writes = left.writes
    PROVE  Others' \subseteq Others
<1>1. \A p \in Peer : round'[p] = IF p \in peers /\ round[p] = None
                                  THEN [brings |-> theirs[p], early |-> FALSE] ELSE round[p]
  BY DEF Started
<1>2. ASSUME NEW p \in Peer, round'[p] # None PROVE round'[p].brings \subseteq Others
  <2>1. CASE p \in peers /\ round[p] = None
    <3>1. round'[p] = [brings |-> theirs[p], early |-> FALSE]
      BY <1>1, <1>2, <2>1
    <3>2. round'[p].brings = theirs[p]
      BY <3>1
    <3> QED
      BY <3>2, WhatOthersHold
  <2>2. CASE ~(p \in peers /\ round[p] = None)
    <3>1. round'[p] = round[p]
      BY <1>1, <1>2, <2>2
    <3> QED
      BY <1>2, <3>1, WhatOthersHold
  <2> QED
    BY <2>1, <2>2
<1>3. \A p \in Peer : theirs'[p] \subseteq Others
  BY WhatOthersHold
<1> QED
  BY <1>2, <1>3, OthersStay

\* A step that leaves the document as it is.
LEMMA NothingComes ==
    ASSUME doc' = doc, content \subseteq content', left'.calls = left.calls, Others' \subseteq Others
    PROVE  WishKept
  BY DEF WishKept

LEMMA FailsCalls ==
    ASSUME NodeIInv, NEW step, Fails(step)
    PROVE  left'.calls = left.calls /\ left'.writes = left.writes
  BY DEF Fails, NodeIInv, LeftOK

LEMMA RoundEndsWishes == ASSUME NodeIInv, NEW p \in Peer, RoundEnds(p) PROVE WishKept
<1> USE DEF groupVars
<1>1. UNCHANGED <<content, theirs>> /\ round[p] # None /\ round' = [round EXCEPT ![p] = None]
  BY DEF RoundEnds
<1>2. left'.calls = left.calls /\ left'.writes = left.writes
  BY FailsCalls DEF RoundEnds
<1>3. ASSUME NEW q \in Peer, round'[q] # None PROVE round'[q].brings \subseteq Others
  <2>1. round'[q] = round[q]
    BY <1>1, <1>3 DEF NodeIInv, RoundsOK
  <2> QED
    BY <1>3, <2>1, WhatOthersHold
<1>4. Others' \subseteq Others
  BY <1>1, <1>2, <1>3, WhatOthersHold, OthersStay
<1>5. round[p].brings \subseteq Others /\ EntriesOK(round[p].brings)
  BY <1>1, WhatOthersHold DEF NodeIInv, RoundsOK, RoundOK
<1>6. doc' = doc \/ doc' = Merged(doc \cup round[p].brings)
  BY DEF RoundEnds
<1> QED
  BY <1>1, <1>2, <1>4, <1>5, <1>6 DEF WishKept

LEMMA PeerWritesWishes ==
    ASSUME NodeIInv, NEW p, NEW e, <<p, e>> \in left.writes, PeerWrites(p, e)
    PROVE  WishKept
<1>1. UNCHANGED <<content, round>> /\ theirs' = [theirs EXCEPT ![p] = Merged(@ \cup {e})]
      /\ left' = [left EXCEPT !.writes = @ \ {<<p, e>>}]
  BY DEF PeerWrites
<1>2. left'.calls = left.calls /\ left'.writes \subseteq left.writes
  BY <1>1 DEF NodeIInv, LeftOK
<1>3. e \in Others /\ EntriesOK({e})
  <2>1. <<p, e>>[2] \in Others /\ <<p, e>>[2] \in Entries
    BY WhatOthersHold DEF NodeIInv, LeftOK
  <2> QED
    BY <2>1, SingletonIsOK
<1>4. ASSUME NEW q \in Peer PROVE theirs'[q] \subseteq Others
  <2>1. theirs'[q] \subseteq theirs[q] \cup {e}
    BY <1>1 DEF NodeIInv, PeersOK, Merged
  <2> QED
    BY <1>3, <2>1, WhatOthersHold
<1>5. Others' \subseteq Others
  BY <1>1, <1>2, <1>4, WhatOthersHold, OthersStay
<1>6. doc' = doc \/ doc' = Merged(doc \cup {e})
  BY DEF PeerWrites
<1> QED
  BY <1>1, <1>2, <1>3, <1>5, <1>6 DEF WishKept

LEMMA SwarmWishes == ASSUME NodeIInv, Swarm PROVE WishKept
<1> USE DEF documentVars, groupVars
<1>1. ASSUME NEW w \in left.writes, PeerWrites(w[1], w[2]) PROVE WishKept
  <2>1. <<w[1], w[2]>> \in left.writes
    BY <1>1 DEF PeerWrites
  <2> QED
    BY <1>1, <2>1, PeerWritesWishes
<1>2. ASSUME NEW p \in Peer, NeighborUp(p) PROVE WishKept
  <2>1. UNCHANGED <<doc, content, theirs>> /\ round' = Started({p}) /\ left' = [left EXCEPT !.ups = @ - 1]
    BY <1>2 DEF NeighborUp
  <2>2. left'.calls = left.calls /\ left'.writes = left.writes
    BY <2>1 DEF NodeIInv, LeftOK
  <2> QED
    BY <2>1, <2>2, StartedBrings, NothingComes
<1>3. ASSUME NEW p \in Peer, NeighborDown(p) PROVE WishKept
  <2>1. UNCHANGED <<doc, content, theirs, round>> /\ left' = [left EXCEPT !.downs = @ - 1]
    BY <1>3 DEF NeighborDown
  <2>2. left'.calls = left.calls /\ left'.writes = left.writes
    BY <2>1 DEF NodeIInv, LeftOK
  <2> QED
    BY <2>1, <2>2, OthersAsTheyWere, NothingComes
<1>4. ASSUME NEW e, ContentReady(e) \/ ContentLost(e) PROVE WishKept
  <2>1. UNCHANGED <<doc, theirs, round>> /\ content \subseteq content'
    BY <1>4 DEF ContentReady, ContentLost
  <2>2. left'.calls = left.calls /\ left'.writes = left.writes
    BY <1>4, FailsCalls DEF ContentReady, ContentLost
  <2> QED
    BY <2>1, <2>2, OthersAsTheyWere, NothingComes
<1> QED
  BY <1>1, <1>2, <1>3, <1>4, RoundEndsWishes DEF Swarm

LEMMA LoopsWishes == ASSUME NodeIInv, Loops PROVE WishKept
<1> USE DEF documentVars, groupVars, swarmVars
<1>1. ASSUME Opens PROVE WishKept
  <2>1. UNCHANGED <<doc, content, theirs, left>> /\ round' = Started(sync_with)
    BY <1>1 DEF Opens
  <2> QED
    BY <2>1, StartedBrings, NothingComes
<1>2. ASSUME PumpNotes PROVE WishKept
  <2>1. UNCHANGED <<doc, content, theirs, left>>
    BY <1>2 DEF PumpNotes
  <2>2. round' = round \/ \E p : round[p] # None /\ round' = [round EXCEPT ![p].early = TRUE]
    BY <1>2 DEF PumpNotes
  <2>3. ASSUME NEW q \in Peer, round'[q] # None PROVE round'[q].brings \subseteq Others
    <3>1. round'[q].brings = round[q].brings /\ round[q] # None
      BY <2>2, <2>3 DEF NodeIInv, RoundsOK, RoundOK
    <3> QED
      BY <3>1, WhatOthersHold
  <2> QED
    BY <2>1, <2>3, WhatOthersHold, OthersStay, NothingComes
<1>3. ASSUME SyncsAgain PROVE WishKept
  <2>1. UNCHANGED <<doc, content, theirs, left>> /\ round' = Started({Head(asked)})
    BY <1>3 DEF SyncsAgain
  <2> QED
    BY <2>1, StartedBrings, NothingComes
<1>4. ASSUME OfferWakes \/ SweepForgets \/ SweepLooks \/ \E who \in waking : Wakes(who) PROVE WishKept
  <2>1. UNCHANGED <<doc, content, theirs, round, left>>
    BY <1>4 DEF OfferWakes, SweepForgets, SweepLooks, Wakes
  <2> QED
    BY <2>1, OthersAsTheyWere, NothingComes
<1>5. ASSUME OfferLooks PROVE WishKept
  <2>1. UNCHANGED <<doc, content, theirs>> /\ (round' = round \/ round' = Started(Offers(offering)))
    BY <1>5 DEF OfferLooks
  <2>2. left'.calls = left.calls /\ left'.writes = left.writes
    BY <1>5, FailsCalls DEF OfferLooks
  <2> QED
    BY <2>1, <2>2, StartedBrings, OthersAsTheyWere, NothingComes
<1>6. ASSUME NEW e, SweepFetches(e) PROVE WishKept
  <2>1. UNCHANGED <<doc, theirs, round>> /\ content \subseteq content'
    BY <1>6 DEF SweepFetches
  <2>2. left'.calls = left.calls /\ left'.writes = left.writes
    BY <1>6, FailsCalls DEF SweepFetches
  <2> QED
    BY <2>1, <2>2, OthersAsTheyWere, NothingComes
<1> QED
  BY <1>1, <1>2, <1>3, <1>4, <1>5, <1>6 DEF Loops

LEMMA GroupWishes == ASSUME NodeIInv, Group PROVE WishKept
<1> USE DEF documentVars, swarmVars
<1>1. UNCHANGED <<doc, content, theirs, round>>
  BY DEF Group, MembershipChanges, Learns
<1>2. left'.calls = left.calls /\ left'.writes = left.writes
  BY DEF Group, MembershipChanges, Learns, NodeIInv, LeftOK
<1> QED
  BY <1>1, <1>2, OthersAsTheyWere, NothingComes

LEMMA ReaderWishes == ASSUME NodeIInv, Reader PROVE WishKept /\ writing' = writing
<1> USE DEF catalogueVars, documentVars, groupVars, swarmVars
<1>1. UNCHANGED <<doc, content, theirs, round, writing>>
  BY DEF Reader, AnswersEarly, Begins, Replays, TakeMarks, TakeLooks, TakeWoken, MembersMoved, Reindexes,
         ProjectReads, ProjectWrites, Commits, Finishes
<1>2. left'.calls = left.calls /\ left'.writes = left.writes
  <2>1. ASSUME ProjectReads PROVE left' = left \/ Fails("project")
    BY <2>1 DEF ProjectReads, Failing
  <2>2. ASSUME ProjectWrites PROVE left' = left \/ Fails("project")
    BY <2>2 DEF ProjectWrites, Projects, Failing
  <2>3. left' = left \/ \E step : Fails(step)
    BY <2>1, <2>2 DEF Reader, AnswersEarly, Begins, Replays, TakeMarks, TakeLooks, TakeWoken, MembersMoved,
                      Reindexes, Commits, Finishes, project_members, set_members
  <2> QED
    BY <2>3, FailsCalls
<1> QED
  BY <1>1, <1>2, OthersAsTheyWere, NothingComes

LEMMA OutsideWishes == ASSUME NodeIInv, Crashes \/ AsksReindex PROVE WishKept /\ writing' \subseteq writing
<1> USE DEF documentVars, groupVars, swarmVars
<1>1. UNCHANGED <<doc, content, theirs>> /\ writing' \subseteq writing
  BY DEF Crashes, CatalogueCrash, AsksReindex
<1>2. left'.calls = left.calls /\ left'.writes = left.writes
  BY DEF Crashes, AsksReindex, NodeIInv, LeftOK
<1>3. \A p \in Peer : round'[p] # None => round'[p] = round[p]
  BY DEF Crashes, CatalogueCrash, AsksReindex
<1> QED
  BY <1>1, <1>2, <1>3, WhatOthersHold, OthersStay, NothingComes

-----------------------------------------------------------------------------
(* What calls write of wishes.                                             *)

LEMMA WishInit == Init => WishIInv
<1> SUFFICES ASSUME Init PROVE WishIInv
  OBVIOUS
<1>1. PICK s \in Scenarios : CatalogueInit(s) /\ ReaderInit
  BY DEF Init
<1>2. WishesOK(s)
  BY LibraryAssumption DEF ScenarioOK
<1> DEFINE others == (UNION {s.theirs[p] : p \in Peer}) \cup {w[2] : w \in s.left.writes}
<1>3. theirs = s.theirs /\ left = s.left /\ doc = s.doc /\ content = s.content /\ writing = {}
  BY <1>1 DEF CatalogueInit, ReaderInit
<1>4. Others = others
  <2>1. \A p \in Peer : round[p] = None
    BY <1>1 DEF CatalogueInit
  <2>2. UNION {round[p].brings : p \in {q \in Peer : round[q] # None}} = {}
    BY <2>1
  <2> QED
    BY <1>3, <2>2 DEF Others
<1> HIDE DEF others
<1>5. /\ \A e, f \in Wished(doc \cup others) : Same(e, f) /\ e.at <= f.at /\ e.value.title => f.value.title
      /\ \A e \in Wished(others) : e.author = me => \E f \in doc : e = f \/ Newer(e, f)
      /\ \A e \in Wished(doc) : e.author = me => e \in content
      /\ \A call \in left.calls : call.op = "wish_create" =>
             \A e \in Wished(doc \cup others) : e.key.of = call.of => ~e.value.title /\ e.author # me
  BY <1>2, <1>3 DEF WishesOK, others
<1>6. FreshOK
  <2>1. \A w : Creation(w).op = "wish_create" /\ Creation(w).of = w
    BY DEF Creation
  <2> QED
    BY <1>3, <1>4, <1>5, <2>1 DEF FreshOK, Creating
<1>7. TitlesOK /\ MineKept /\ MineHere /\ OnceOK /\ PlansOK
  BY <1>3, <1>4, <1>5 DEF TitlesOK, MineKept, MineHere, OnceOK, PlansOK
<1> QED
  BY <1>6, <1>7 DEF WishIInv

\* This member's entry of a wish is the only one it has under its key there.
LEMMA MyEntry ==
    ASSUME NodeIInv, WishIInv, NEW w \in Wish
    PROVE  \A e \in EntriesFor(w) : e.author = me => e.value.title = MineTitled(w)
<1> SUFFICES ASSUME NEW e \in EntriesFor(w), e.author = me PROVE e.value.title = MineTitled(w)
  OBVIOUS
<1>1. doc = Merged(doc) /\ doc \subseteq Entries
  BY DEF NodeIInv, DocOK, EntriesOK
<1>2. e \in doc /\ e.key.kind = "wish" /\ e.key.of = w /\ e.author = e.key.name
  BY DEF EntriesFor, read_wish, read_community_entries, all, member
<1>3. e.key = Mine("wish", w)
  <2>1. e.key \in Keys
    BY <1>1, <1>2, EntryTypes
  <2>2. e.key \in WishKeys
    BY <1>2, <2>1 DEF Keys, ItemKeys, OwnKinds
  <2> QED
    BY <1>2, <2>2 DEF WishKeys, Mine, CommunityKey, Key
<1>4. e.value.title \in BOOLEAN
  BY <1>1, <1>2, EntryTypes DEF Values
<1>5. ASSUME NEW f \in doc, f.key = Mine("wish", w), f.author = me PROVE f.value.title => e.value.title
  <2>1. f.at <= e.at
    BY <1>1, <1>2, <1>3, <1>5 DEF Merged
  <2>2. f \in Wished(doc \cup Others) /\ e \in Wished(doc \cup Others)
    BY <1>2, <1>3, <1>5 DEF Wished
  <2> QED
    BY <1>3, <1>5, <2>1, <2>2 DEF WishIInv, TitlesOK, Same
<1> QED
  BY <1>2, <1>3, <1>4, <1>5 DEF MineTitled

\* Nor is one without it: what this member wrote is here to be read.
LEMMA MyEntryIsRead ==
    ASSUME NodeIInv, WishIInv, NEW w \in Wish, MineTitled(w)
    PROVE  \E e \in EntriesFor(w) : e.author = me
<1>1. PICK e \in doc : e.key = Mine("wish", w) /\ e.author = me
  BY DEF MineTitled
<1>2. e.key.kind = "wish" /\ e.key.of = w /\ e.key.name = me
  BY <1>1 DEF Mine, CommunityKey, Key
<1>3. e \in content
  BY <1>1, <1>2 DEF WishIInv, MineHere, Wished
<1>4. ~e.deleted
  BY <1>2 DEF NodeIInv, DocOK, EntriesOK, Entries, NeverDeleted
<1> QED
  BY <1>1, <1>2, <1>3, <1>4 DEF EntriesFor, read_wish, read_community_entries, all, member

LEMMA SaysOne ==
    ASSUME NEW key, NEW value, value # None
    PROVE  /\ Len(Says(key, value)) = 1
           /\ Says(key, value)[1].key = key /\ Says(key, value)[1].value = value
           /\ ~Says(key, value)[1].deleted
  BY DEF Says

\* A fulfilment says what this member's entry said.
LEMMA FulfilPlan ==
    ASSUME NodeIInv, WishIInv, NEW call, CallOK(call), call.op = "wish_fulfill", Writes(call) # <<>>
    PROVE  PlanOK([call |-> call, entries |-> Writes(call)])
<1> DEFINE x == [call |-> call, entries |-> Writes(call)]
           w == call.of
           mine == {e.value : e \in {f \in EntriesFor(w) : f.author = me}}
           fields == IF mine = {} THEN [Plain EXCEPT !.created_at = Now] ELSE CHOOSE v \in mine : TRUE
           value == [fields EXCEPT !.fulfilled = call.with]
<1>1. w \in Wish /\ call.with \in Item
  BY DEF CallOK, ItemCalls
<1>2. Writes(call) = wish_fulfill(w, call.with)
  BY DEF Writes
<1>3. KnownWish(w) /\ Writes(call) = Says(Mine("wish", w), value)
  BY <1>2 DEF wish_fulfill, refused
<1>4. fields \in Values
  <2>1. EntriesFor(w) \subseteq doc
    BY DEF EntriesFor, read_wish, read_community_entries, all
  <2>2. mine \subseteq Values
    BY <2>1, EntryTypes DEF NodeIInv, DocOK, EntriesOK
  <2>3. Now \in Nat
    BY NowType DEF NodeIInv, DocOK
  <2> QED
    BY <2>2, <2>3, PlainIsValue DEF Values, Plain
<1>5. value \in Values /\ value.title = fields.title
  <2> HIDE DEF fields
  <2> QED
    BY <1>1, <1>4 DEF Values
<1>6. fields.title = MineTitled(w)
  <2>1. CASE mine = {}
    <3>1. ~MineTitled(w)
      BY <1>1, <2>1, MyEntryIsRead
    <3>2. fields.title = FALSE
      BY <2>1 DEF Plain
    <3> QED
      BY <3>1, <3>2 DEF MineTitled
  <2>2. CASE mine # {}
    <3>1. fields \in mine
      BY <2>2
    <3>2. PICK e \in EntriesFor(w) : e.author = me /\ fields = e.value
      <4> HIDE DEF fields
      <4> QED
        BY <3>1
    <3> QED
      BY <1>1, <3>2, MyEntry
  <2> QED
    BY <2>1, <2>2
<1> HIDE DEF fields, value
<1>7. value # None
  BY <1>5, LibraryAssumption
<1>8. OneEntry(x) /\ x.entries[1].value = value
  BY <1>3, <1>7, SaysOne DEF OneEntry
<1>9. \E e \in Wished(doc) : e.key.of = w /\ e.value.title
  BY <1>3 DEF KnownWish, Resolves, Creators, EntriesFor, read_wish, read_community_entries, all, Wished
<1> QED
  BY <1>5, <1>6, <1>8, <1>9 DEF PlanOK

LEMMA CreatePlan ==
    ASSUME NodeIInv, NEW call, CallOK(call), call.op = "wish_create"
    PROVE  PlanOK([call |-> call, entries |-> Writes(call)])
<1> DEFINE x == [call |-> call, entries |-> Writes(call)]
           value == [title |-> TRUE, created_at |-> Now, fulfilled |-> None]
<1>1. Writes(call) = Says(Mine("wish", call.of), value)
  BY DEF Writes, wish_create
<1>2. value \in Values
  BY NowType DEF Values, NodeIInv, DocOK
<1>3. value.title
  OBVIOUS
<1> HIDE DEF value
<1>4. OneEntry(x) /\ x.entries[1].value = value
  BY <1>1, <1>2, SaysOne, LibraryAssumption DEF OneEntry
<1> QED
  BY <1>3, <1>4 DEF PlanOK

\* The other calls write nothing of a wish but comments.
LEMMA OtherPlan ==
    ASSUME NEW call, CallOK(call), call.op \notin {"wish_create", "wish_fulfill"}
    PROVE  PlanOK([call |-> call, entries |-> Writes(call)])
<1> DEFINE Quiet(s) == \A k \in DOMAIN s : s[k].key.kind # "wish"
<1>1. ASSUME NEW key, NEW value, key.kind # "wish" PROVE Quiet(Says(key, value))
  BY <1>1 DEF Says
<1>2. ASSUME NEW i, NEW files PROVE Quiet(WriteFiles(i, files))
  BY DEF WriteFiles, Key
<1>3. Quiet(refused)
  BY DEF refused
<1>4. \A kind, of, by, id : Key(kind, of, by, id).kind = kind /\ CommunityKey(kind, of, by, id).kind = kind
                            /\ Mine(kind, of).kind = kind
  BY DEF Key, CommunityKey, Mine
<1>5. CASE call.op = "add"
  <2>1. call.of \in Item /\ call.with \in SUBSET File /\ IsFiniteSet(call.with)
    BY <1>5 DEF CallOK, ItemCalls
  <2> DEFINE fields == Says(Key("field", call.of, "title", 0), Plain)
  <2>2. fields \in Seq(Puttable) /\ WriteFiles(call.of, call.with) \in Seq(Puttable)
    BY <2>1, FilesType, MyKeys, PlainIsValue, SaysType, LibraryAssumption
  <2>3. Quiet(fields)
    BY <1>1, <1>4
  <2>4. Quiet(WriteFiles(call.of, call.with))
    BY <1>2
  <2> HIDE DEF fields
  <2>5. Quiet(fields \o WriteFiles(call.of, call.with))
    BY <2>2, <2>3, <2>4
  <2>6. write_new_item(call.of, call.with) = fields \o WriteFiles(call.of, call.with)
    BY DEF write_new_item, fields
  <2>7. Quiet(add_missing_files(call.of, call.with))
    BY <1>2 DEF add_missing_files
  <2>8. Writes(call) = write_new_item(call.of, call.with) \/ Writes(call) = add_missing_files(call.of, call.with)
    BY <1>5 DEF Writes, add
  <2> QED
    BY <2>5, <2>6, <2>7, <2>8 DEF PlanOK
<1>6. CASE call.op # "add"
  <2>1. \/ Writes(call) = refused
        \/ \E key, value : key.kind # "wish" /\ Writes(call) = Says(key, value)
    <3>1. call.op \in {"edit_metadata", "rate", "review", "bookmark", "bookmark_delete", "wish_comment"}
      BY <1>6 DEF CallOK, ItemCalls, WishCalls
    <3>2. CASE call.op = "edit_metadata"
      BY <1>4, <3>2 DEF Writes, edit_metadata
    <3>3. CASE call.op = "rate"
      BY <1>4, <3>3 DEF Writes, rate
    <3>4. CASE call.op = "review"
      BY <1>4, <3>4 DEF Writes, review
    <3>5. CASE call.op = "bookmark"
      BY <1>4, <3>5 DEF Writes, bookmark
    <3>6. CASE call.op = "bookmark_delete"
      BY <1>4, <3>6 DEF Writes, bookmark_delete
    <3>7. CASE call.op = "wish_comment"
      BY <1>4, <3>7 DEF Writes, wish_comment
    <3> QED
      BY <3>1, <3>2, <3>3, <3>4, <3>5, <3>6, <3>7
  <2>2. Quiet(Writes(call))
    BY <1>1, <1>3, <2>1
  <2> QED
    BY <2>2 DEF PlanOK
<1> QED
  BY <1>5, <1>6

LEMMA CallsWishes ==
    ASSUME NodeIInv, WishIInv, NEW call \in left.calls, Calls(call)
    PROVE  WishIInv' /\ WishStep
<1> USE DEF documentVars, groupVars, swarmVars
<1> DEFINE x == [call |-> call, entries |-> Writes(call)]
<1>1. UNCHANGED <<doc, content, theirs, round>> /\ left' = [left EXCEPT !.calls = @ \ {call}]
      /\ writing' = (writing \cup {x}) \ {[call |-> call, entries |-> <<>>]}
  BY DEF Calls
<1>2. left'.calls = left.calls \ {call} /\ left'.writes = left.writes /\ CallOK(call)
  BY <1>1 DEF NodeIInv, LeftOK
<1>3. Others' = Others
  BY <1>1, <1>2, OthersAsTheyWere
<1>4. x \in writing' \ writing => PlanOK(x)
  <2>1. ASSUME x \in writing' PROVE Writes(call) # <<>>
    BY <1>1, <2>1
  <2> QED
    BY <1>2, <2>1, FulfilPlan, CreatePlan, OtherPlan
<1> HIDE DEF x
<1>5. writing' \subseteq writing \cup {x} /\ x.call = call
  BY <1>1 DEF x
<1>6. \A w : Creating(w)' => Creating(w)
  BY <1>2, <1>5 DEF Creating, Creation
<1>7. TitlesOK' /\ MineKept' /\ MineHere'
  BY <1>1, <1>3 DEF WishIInv, TitlesOK, MineKept, MineHere
<1>8. FreshOK'
  BY <1>1, <1>3, <1>6 DEF WishIInv, FreshOK
<1>9. OnceOK'
  <2> SUFFICES ASSUME NEW y \in writing', NEW w \in Wish, y.call = Creation(w)
               PROVE  /\ Creation(w) \notin left'.calls
                      /\ \A z \in writing' : z.call = Creation(w) => z = y
    BY DEF OnceOK, Creation
  <2>1. CASE call = Creation(w)
    <3>1. \A z \in writing : z.call # Creation(w)
      BY <2>1 DEF WishIInv, OnceOK
    <3> QED
      BY <1>2, <1>5, <2>1, <3>1
  <2>2. CASE call # Creation(w)
    <3>1. y \in writing /\ \A z \in writing' : z.call = Creation(w) => z \in writing
      BY <1>5, <2>2
    <3> QED
      BY <1>2, <3>1 DEF WishIInv, OnceOK
  <2> QED
    BY <2>1, <2>2
<1>10. PlansOK'
  <2> SUFFICES ASSUME NEW y \in writing' PROVE PlanOK(y)'
    BY DEF PlansOK
  <2>1. PlanOK(y)
    BY <1>4, <1>5 DEF WishIInv, PlansOK
  <2> QED
    BY <1>1, <2>1 DEF PlanOK, MineTitled
<1>11. WishStep
  BY <1>1 DEF WishStep
<1> QED
  BY <1>7, <1>8, <1>9, <1>10, <1>11 DEF WishIInv

\* What this member writes is newer than all it has, and takes the place of
\* nothing but its own entry under the same key.
Written(n) ==
    /\ n \in doc' /\ doc' \subseteq doc \cup {n} /\ n.author = me
    /\ \A e \in doc : e.at < n.at /\ (e \in doc' \/ Newer(e, n))

LEMMA PutIsNewest ==
    ASSUME NodeIInv, NEW n \in Entries, n.at = Now, n.author = me, doc' = Merged(doc \cup {n})
    PROVE  Written(n)
<1>1. EntriesOK(doc) /\ doc = Merged(doc) /\ EntriesOK(doc \cup {n})
  BY SingletonIsOK, UnionIsOK DEF NodeIInv, DocOK
<1>2. \A e \in doc : e.at \in Nat /\ e.at < n.at
  <2> DEFINE times == {e.at : e \in doc}
             at == [e \in doc |-> e.at]
             last == Max({0} \cup times)
  <2>1. at \in Surjection(doc, times) /\ Now = 1 + last
    BY DEF Surjection, Now
  <2>2. times \in SUBSET Nat /\ \A e \in doc : e.at \in times
    BY <1>1, EntryTypes DEF EntriesOK
  <2> HIDE DEF times
  <2>3. IsFiniteSet(times)
    BY <1>1, <2>1, FS_Surjection DEF EntriesOK
  <2> HIDE DEF at
  <2>4. last \in Nat /\ \A t \in times : t <= last
    BY <2>2, <2>3, MaxIsNat
  <2> HIDE DEF last
  <2>5. SUFFICES ASSUME NEW e \in doc PROVE e.at \in Nat /\ e.at < n.at
    OBVIOUS
  <2>6. e.at \in times /\ e.at \in Nat /\ e.at <= last
    BY <2>2, <2>4
  <2> QED
    BY <2>1, <2>4, <2>6
<1>3. n.at \in Nat
  BY EntryTypes
<1>4. n \in doc'
  BY <1>2, <1>3 DEF Merged
<1>5. ASSUME NEW e \in doc PROVE e \in doc' \/ Newer(e, n)
  <2>1. PICK g \in Merged(doc \cup {n}) : g = e \/ Newer(e, g)
    BY <1>1, MergeKeepsNewer
  <2>2. CASE g \in doc /\ g # e
    <3>1. g.at <= e.at
      BY <1>1, <2>1, <2>2 DEF Merged, Newer, Same
    <3> QED
      BY <1>2, <2>1, <2>2, <3>1 DEF Newer
  <2>3. CASE g = e \/ g = n
    BY <2>1, <2>3
  <2> QED
    BY <2>1, <2>2, <2>3 DEF Merged
<1>6. doc' \subseteq doc \cup {n}
  BY DEF Merged
<1> QED
  BY <1>2, <1>4, <1>5, <1>6 DEF Written

\* Something else than a wish is written.
LEMMA OtherPutWishes ==
    ASSUME NodeIInv, WishIInv, NEW n, Written(n), n.key.kind # "wish",
           content \subseteq content', left' = left, Others' = Others,
           NEW x \in writing, x.call.op \notin {"wish_create", "wish_fulfill"},
           writing' \subseteq writing \cup {[x EXCEPT !.entries = Tail(@)]},
           x.entries \in Seq(Puttable), x.entries # <<>>
    PROVE  WishIInv' /\ WishStep
<1> DEFINE rest == [x EXCEPT !.entries = Tail(@)]
<1>1. Wished(doc') = Wished(doc) /\ Wished((doc \cup Others)') = Wished(doc \cup Others)
  <2>1. \A e \in doc : e.key.kind = "wish" => e \in doc'
    BY DEF Written, Newer, Same
  <2>2. \A e \in doc' : e.key.kind = "wish" => e \in doc
    BY DEF Written
  <2> QED
    BY <2>1, <2>2 DEF Wished
<1>2. \A w : MineTitled(w)' <=> \E e \in Wished(doc') : e.key = Mine("wish", w) /\ e.author = me /\ e.value.title
  BY DEF MineTitled, Wished, Mine, CommunityKey, Key
<1>3. \A w : MineTitled(w) <=> \E e \in Wished(doc) : e.key = Mine("wish", w) /\ e.author = me /\ e.value.title
  BY DEF MineTitled, Wished, Mine, CommunityKey, Key
<1>4. \A w : MineTitled(w)' = MineTitled(w)
  BY <1>1, <1>2, <1>3 DEF MineTitled
<1>5. PlanOK(x) /\ "call" \in DOMAIN x /\ "entries" \in DOMAIN x
  BY DEF WishIInv, PlansOK, PlanOK
<1>6. DOMAIN rest = DOMAIN x /\ rest.call = x.call /\ rest.entries = Tail(x.entries)
  BY <1>5
<1>7. \A k \in DOMAIN Tail(x.entries) : Tail(x.entries)[k].key.kind # "wish"
  <2>1. \A k \in DOMAIN x.entries : x.entries[k].key.kind # "wish"
    BY <1>5 DEF PlanOK
  <2> QED
    BY <2>1
<1>8. PlanOK(rest)
  BY <1>5, <1>6, <1>7 DEF PlanOK
<1> HIDE DEF rest
<1>9. \A y \in writing' : PlanOK(y)
  BY <1>8 DEF WishIInv, PlansOK, rest
<1>10. PlansOK'
  BY <1>1, <1>4, <1>9 DEF PlansOK, PlanOK, OneEntry
<1>11. TitlesOK' /\ MineHere'
  BY <1>1 DEF WishIInv, TitlesOK, MineHere
<1>12. MineKept'
  <2> SUFFICES ASSUME NEW e \in Wished(Others), e.author = me PROVE \E f \in doc' : e = f \/ Newer(e, f)
    BY DEF MineKept
  <2>1. PICK f \in doc : e = f \/ Newer(e, f)
    BY DEF WishIInv, MineKept
  <2>2. f \in doc'
    BY <1>1, <2>1 DEF Wished, Newer, Same
  <2> QED
    BY <2>1, <2>2
<1>13. \A y \in writing', w \in Wish : y.call = Creation(w) => y \in writing
  <2>1. \A w : Creation(w).op = "wish_create"
    BY DEF Creation
  <2> QED
    BY <1>6, <2>1 DEF rest
<1>14. FreshOK'
  BY <1>1, <1>13 DEF WishIInv, FreshOK, Creating, Creation
<1>15. OnceOK'
  BY <1>13 DEF WishIInv, OnceOK, Creation
<1>16. WishStep
  <2>1. \A d, w : TitledBy(d, w) = {e.author : e \in {f \in Wished(d) : ~f.deleted /\ f.key.of = w /\ f.value.title}}
    BY DEF TitledBy, all, Wished
  <2> QED
    BY <1>1, <2>1 DEF WishStep
<1> QED
  BY <1>10, <1>11, <1>12, <1>14, <1>15, <1>16 DEF WishIInv

\* This member's entry of a wish is written: with the title it had.
LEMMA WishPutWishes ==
    ASSUME NodeIInv, WishIInv, NEW n \in Entries, Written(n),
           content \subseteq content', n \in content', left' = left, Others' = Others,
           NEW x \in writing, writing' = writing \ {x}, CallOK(x.call),
           x.call.op \in {"wish_create", "wish_fulfill"},
           n.key = Mine("wish", x.call.of), n.value = x.entries[1].value
    PROVE  WishIInv' /\ WishStep
<1> DEFINE w == x.call.of
<1>1. w \in Wish /\ n.key.kind = "wish" /\ n.key.of = w /\ n.author = me /\ ~n.deleted
  BY DEF CallOK, WishCalls, ItemCalls, Mine, CommunityKey, Key, Written, Entries, NeverDeleted
<1>2. PlanOK(x)
  BY DEF WishIInv, PlansOK
<1>3. x.call.op = "wish_create" => x.call = Creation(w)
  BY DEF CallOK, Creation
<1>4. x.call.op = "wish_create" => \A e \in Wished(doc \cup Others) : e.key.of = w => ~e.value.title /\ e.author # me
  BY <1>1, <1>3 DEF WishIInv, FreshOK, Creating
<1>5. x.call.op = "wish_fulfill" =>
          n.value.title = MineTitled(w) /\ \E e \in Wished(doc) : e.key.of = w /\ e.value.title
  BY <1>2 DEF PlanOK
<1>6. x.call.op = "wish_create" => n.value.title
  BY <1>2 DEF PlanOK
<1>7. \A e \in doc : Same(e, n) => e \in Wished(doc) /\ e \in Wished(doc \cup Others)
  BY <1>1 DEF Same, Wished
\* What it takes the place of had no title it does not have.
<1>8. ASSUME NEW e \in doc, Same(e, n), e.value.title PROVE n.value.title
  <2>1. MineTitled(w)
    BY <1>1, <1>8 DEF MineTitled, Same
  <2> QED
    BY <1>5, <1>6, <2>1
<1>9. doc \subseteq Entries /\ Others \subseteq Entries
  BY OthersAreEntries DEF NodeIInv, DocOK, EntriesOK
<1>10. ASSUME NEW e \in Wished(Others), Same(e, n)
       PROVE  /\ e.at < n.at
              /\ e.value.title => n.value.title
  <2>1. PICK f \in doc : e = f \/ Newer(e, f)
    BY <1>1, <1>10 DEF WishIInv, MineKept, Same
  <2>2. Same(e, f) /\ Same(f, n) /\ f.at < n.at
    BY <1>10, <2>1 DEF Newer, Same, Written
  <2>3. e.at \in Nat /\ f.at \in Nat /\ n.at \in Nat
    BY <1>9, <1>10, EntryTypes DEF Wished
  <2>4. e.at <= f.at
    BY <2>1, <2>3 DEF Newer
  <2>5. e.value.title => f.value.title
    <3>1. e \in Wished(doc \cup Others) /\ f \in Wished(doc \cup Others)
      BY <1>7, <1>10, <2>2 DEF Wished
    <3> QED
      BY <2>2, <2>4, <3>1 DEF WishIInv, TitlesOK
  <2> QED
    BY <1>8, <2>2, <2>3, <2>4, <2>5
<1>11. /\ Wished((doc \cup Others)') \subseteq Wished(doc \cup Others) \cup {n}
       /\ Wished(doc \cup Others) = Wished(doc) \cup Wished(Others)
  BY DEF Wished, Written
<1>12. ASSUME NEW e \in Wished(doc \cup Others), Same(e, n)
       PROVE  /\ e.at < n.at
              /\ e.value.title => n.value.title
  <2>1. CASE e \in Wished(doc)
    BY <1>8, <1>12, <2>1 DEF Wished, Written
  <2> QED
    BY <1>10, <1>11, <1>12, <2>1
<1>13. \A e \in doc : e \in doc' \/ Newer(e, n)
  BY DEF Written
<1>14. TitlesOK'
  <2> SUFFICES ASSUME NEW e \in Wished(doc \cup Others) \cup {n}, NEW f \in Wished(doc \cup Others) \cup {n},
                      Same(e, f), e.at <= f.at, e.value.title
               PROVE  f.value.title
    BY <1>11 DEF TitlesOK, Same
  <2>1. CASE e # n /\ f # n
    BY <2>1 DEF WishIInv, TitlesOK
  <2>2. CASE e # n /\ f = n
    BY <1>12, <2>2
  <2>3. CASE e = n /\ f # n
    <3>1. f.at < n.at /\ n.at <= f.at
      BY <1>12, <2>3 DEF Same
    <3>2. f \in Entries
      BY <1>9, <2>3 DEF Wished
    <3>3. f.at \in Nat /\ n.at \in Nat
      BY <3>2, EntryTypes
    <3> QED
      BY <3>1, <3>3
  <2> QED
    BY <2>1, <2>2, <2>3
<1>15. MineKept'
  <2> SUFFICES ASSUME NEW e \in Wished(Others), e.author = me PROVE \E f \in doc' : e = f \/ Newer(e, f)
    BY DEF MineKept, Newer, Same
  <2>1. PICK f \in doc : e = f \/ Newer(e, f)
    BY DEF WishIInv, MineKept
  <2>2. CASE f \in doc'
    BY <2>1, <2>2
  <2>3. CASE Newer(f, n)
    <3>1. Same(e, n)
      BY <2>1, <2>3 DEF Newer, Same
    <3>2. Newer(e, n) /\ n \in doc'
      BY <1>10, <3>1 DEF Newer, Written
    <3> QED
      BY <3>2
  <2> QED
    BY <1>13, <2>2, <2>3
<1>16. MineHere'
  <2>1. \A e \in Wished(doc') : e \in Wished(doc) \/ e = n
    BY DEF Wished, Written
  <2> QED
    BY <2>1 DEF WishIInv, MineHere
<1>17. \A v : Creating(v)' => Creating(v)
  BY DEF Creating, Creation
<1>18. ~Creating(w)'
  <2>1. CASE x.call.op = "wish_create"
    <3>1. Creation(w) \notin left.calls /\ \A y \in writing : y.call = Creation(w) => y = x
      BY <1>1, <1>3, <2>1 DEF WishIInv, OnceOK
    <3> QED
      BY <3>1 DEF Creating, Creation
  <2>2. CASE x.call.op = "wish_fulfill"
    <3>1. PICK e \in Wished(doc) : e.key.of = w /\ e.value.title
      BY <1>5, <2>2
    <3>2. ~Creating(w)
      BY <1>1, <1>11, <3>1 DEF WishIInv, FreshOK
    <3> QED
      BY <1>17, <3>2
  <2> QED
    BY <2>1, <2>2
<1>19. FreshOK'
  <2> SUFFICES ASSUME NEW v \in Wish, Creating(v)', NEW e \in Wished(doc \cup Others) \cup {n}, e.key.of = v
               PROVE  ~e.value.title /\ e.author # me
    BY <1>11 DEF FreshOK
  <2>1. Creating(v) /\ v # w
    BY <1>17, <1>18
  <2>2. e # n
    BY <1>1, <2>1
  <2> QED
    BY <2>1, <2>2 DEF WishIInv, FreshOK
<1>20. OnceOK'
  BY DEF WishIInv, OnceOK, Creation
<1>21. \A e \in Wished(doc) : e.value.title => \E g \in Wished(doc') : Same(e, g) /\ g.value.title /\ ~g.deleted
  <2> SUFFICES ASSUME NEW e \in Wished(doc), e.value.title
               PROVE  \E g \in Wished(doc') : Same(e, g) /\ g.value.title /\ ~g.deleted
    OBVIOUS
  <2>1. CASE e \in doc'
    <3>1. ~e.deleted
      BY <1>9 DEF Wished, Entries, NeverDeleted
    <3>2. e \in Wished(doc') /\ Same(e, e)
      BY <2>1 DEF Wished, Same
    <3> QED
      BY <3>1, <3>2
  <2>2. CASE Newer(e, n)
    <3>1. n \in Wished(doc') /\ Same(e, n)
      BY <1>1, <2>2 DEF Wished, Written, Newer
    <3>2. n.value.title
      BY <1>8, <3>1 DEF Wished
    <3> QED
      BY <1>1, <3>1, <3>2
  <2> QED
    BY <1>13, <2>1, <2>2 DEF Wished
<1>22. WishStep
  <2> SUFFICES ASSUME NEW v \in Wish, NEW m \in TitledBy(doc, v) PROVE m \in TitledBy(doc', v)
    BY DEF WishStep
  <2>1. PICK e \in Wished(doc) : e.key.of = v /\ e.value.title /\ e.author = m
    BY DEF TitledBy, all, Wished
  <2>2. PICK g \in Wished(doc') : Same(e, g) /\ g.value.title /\ ~g.deleted
    BY <1>21, <2>1
  <2> QED
    BY <2>1, <2>2 DEF TitledBy, all, Wished, Same
<1>23. ASSUME NEW v, MineTitled(v) PROVE MineTitled(v)'
  <2>1. PICK e \in Wished(doc) : e.key = Mine("wish", v) /\ e.author = me /\ e.value.title
    BY <1>23 DEF MineTitled, Wished, Mine, CommunityKey, Key
  <2>2. PICK g \in Wished(doc') : Same(e, g) /\ g.value.title
    BY <1>21, <2>1
  <2> QED
    BY <2>1, <2>2 DEF MineTitled, Wished, Same
<1>24. ASSUME NEW v, MineTitled(v)' PROVE MineTitled(v) \/ (v = w /\ n.value.title)
  <2>1. PICK e \in doc' : e.key = Mine("wish", v) /\ e.author = me /\ e.value.title
    BY <1>24 DEF MineTitled
  <2>2. CASE e \in doc
    BY <2>1, <2>2 DEF MineTitled
  <2>3. CASE e = n
    <3>1. v = w
      BY <2>1, <2>3 DEF Mine, CommunityKey, Key
    <3> QED
      BY <2>1, <2>3, <3>1
  <2> QED
    BY <2>2, <2>3 DEF Written
<1>25. PlansOK'
  <2> SUFFICES ASSUME NEW y \in writing PROVE PlanOK(y)'
    BY DEF PlansOK
  <2>1. PlanOK(y)
    BY DEF WishIInv, PlansOK
  <2>2. CASE y.call.op = "wish_fulfill"
    <3>1. PICK e \in Wished(doc) : e.key.of = y.call.of /\ e.value.title
      BY <2>1, <2>2 DEF PlanOK
    <3>2. \E g \in Wished(doc') : g.key.of = y.call.of /\ g.value.title
      BY <1>21, <3>1 DEF Same
    <3>3. MineTitled(y.call.of)' => MineTitled(y.call.of)
      <4>1. ASSUME y.call.of = w, n.value.title PROVE MineTitled(w)
        <5>1. x.call.op # "wish_create"
          BY <1>4, <1>11, <3>1, <4>1
        <5> QED
          BY <1>5, <4>1, <5>1
      <4> QED
        BY <1>24, <4>1
    <3>4. MineTitled(y.call.of)' = MineTitled(y.call.of)
      BY <1>23, <3>3 DEF MineTitled
    <3> QED
      BY <2>1, <2>2, <3>2, <3>4 DEF PlanOK, OneEntry
  <2>3. CASE y.call.op # "wish_fulfill"
    BY <2>1, <2>3 DEF PlanOK, OneEntry
  <2> QED
    BY <2>2, <2>3
<1> QED
  BY <1>14, <1>15, <1>16, <1>19, <1>20, <1>22, <1>25 DEF WishIInv

LEMMA PutsWishes ==
    ASSUME NodeIInv, WishIInv, NEW x \in writing, Puts(x)
    PROVE  WishIInv' /\ WishStep
<1> USE DEF groupVars
<1> DEFINE next == Head(x.entries)
           n == IF next.deleted THEN Deletion(next.key, me, Now) ELSE Entry(next.key, me, Now, next.value)
<1>1. /\ doc' = Merged(doc \cup {n}) /\ content' = content \cup {e \in {n} : ~next.deleted}
      /\ UNCHANGED <<left, theirs, round>>
      /\ writing' = (writing \ {x}) \cup {[x EXCEPT !.entries = Tail(@)] : y \in {z \in {x} : Len(x.entries) > 1}}
  BY DEF Puts, put, Now
<1>2. x.entries \in Seq(Puttable) /\ x.entries # <<>> /\ PlanOK(x)
  BY DEF NodeIInv, WritingOK, WishIInv, PlansOK
<1>3. next = x.entries[1] /\ 1 \in DOMAIN x.entries /\ next \in Puttable
  BY <1>2
<1>4. Now \in Nat
  BY NowType DEF NodeIInv, DocOK
<1> HIDE DEF next
<1>5. /\ n.key = next.key /\ n.author = me /\ n.at = Now /\ n \in Entries
      /\ ~next.deleted => n.value = next.value
  BY <1>3, <1>4, CatalogueAssumption, PlainIsValue DEF Entries, Puttable, Deletion, Entry
<1>6. content \subseteq content' /\ (~next.deleted => n \in content')
  BY <1>1
<1> HIDE DEF n
<1>7. Written(n)
  BY <1>1, <1>5, PutIsNewest
<1>8. Others' = Others
  BY <1>1, OthersAsTheyWere
<1>9. CASE x.call.op \in {"wish_create", "wish_fulfill"}
  <2>1. OneEntry(x) /\ CallOK(x.call)
    BY <1>2, <1>9 DEF PlanOK
  <2>2. n.key = Mine("wish", x.call.of) /\ ~next.deleted /\ n.value = x.entries[1].value
    BY <1>3, <1>5, <2>1 DEF OneEntry
  <2>3. writing' = writing \ {x}
    BY <1>1, <2>1 DEF OneEntry
  <2> QED
    BY <1>1, <1>5, <1>6, <1>7, <1>8, <1>9, <2>1, <2>2, <2>3, WishPutWishes
<1>10. CASE x.call.op \notin {"wish_create", "wish_fulfill"}
  <2>1. n.key.kind # "wish"
    BY <1>2, <1>3, <1>5, <1>10 DEF PlanOK
  <2>2. writing' \subseteq writing \cup {[x EXCEPT !.entries = Tail(@)]}
    BY <1>1
  <2> QED
    BY <1>1, <1>2, <1>6, <1>7, <1>8, <1>10, <2>1, <2>2, OtherPutWishes
<1> QED
  BY <1>9, <1>10

LEMMA WishesStep == LibraryIInv /\ WishIInv /\ [Next]_vars => WishIInv' /\ WishStep
<1> SUFFICES ASSUME LibraryIInv, WishIInv, [Next]_vars PROVE WishIInv' /\ WishStep
  OBVIOUS
<1>1. NodeIInv
  BY DEF LibraryIInv
<1>2. ASSUME WishKept, writing' \subseteq writing PROVE WishIInv' /\ WishStep
  BY <1>1, <1>2, WishesMerge
<1>3. ASSUME Swarm \/ Loops \/ Group, UNCHANGED <<readerVars, writing>> PROVE WishIInv' /\ WishStep
  BY <1>1, <1>2, <1>3, SwarmWishes, LoopsWishes, GroupWishes
<1>4. ASSUME UNCHANGED vars PROVE WishIInv' /\ WishStep
  <2> USE <1>4 DEF vars, catalogueVars, documentVars, groupVars, swarmVars
  <2>1. UNCHANGED <<doc, content, theirs, round, left, writing>>
    OBVIOUS
  <2>2. WishKept
    BY <2>1, OthersAsTheyWere, NothingComes
  <2> QED
    BY <1>2, <2>1, <2>2
<1> QED
  BY <1>1, <1>2, <1>3, <1>4, ReaderWishes, OutsideWishes, CallsWishes, PutsWishes DEF Next

\* What is wished for stays in the document, whatever this member answers and
\* says and whatever others wrote that reaches it: a creator's own fulfilment
\* is written into the entry that says it (methods.rs wish_fulfill), two calls
\* under way at once included.
THEOREM WishesAreKept == Spec => WishesStand
<1>1. Init => WishIInv
  BY WishInit
<1>2. LibraryIInv /\ WishIInv /\ [Next]_vars => WishIInv' /\ WishStep
  BY WishesStep
<1>3. Spec => []LibraryIInv
  BY LibraryInductive
<1>4. WishStep => [\A w \in Wish : TitledBy(doc, w) \subseteq TitledBy(doc', w)]_vars
  BY DEF WishStep
<1> QED
  BY <1>1, <1>2, <1>3, <1>4, PTL DEF Spec, WishesStand

=============================================================================
