------------------------------- MODULE Library -------------------------------
(* A node's library: its catalogue, its read model and the API calls that    *)
(* write to the one and read from the other.  A call checks what it is about *)
(* against the document, and writes one entry after another later.           *)
EXTENDS ReadModel

\* Catalogue::rate, review, bookmark, wish, wish_comment: one entry under a
\* key that names this member; the value None clears it.
Says(key, value) ==
    << [key |-> key, value |-> IF value = None THEN Plain ELSE value, deleted |-> value = None] >>

Mine(kind, of) == CommunityKey(kind, of, me, 0)

\* What a method that is refused writes.
refused == <<>>

\* Catalogue::item: refuse_unknown_item asks the document, not the rows.
Known(i) == HasItem(doc, i)

\* known_wish_entries: somebody's entry says what is wished for.
EntriesFor(w) == read_wish(doc, content, w).entries
KnownWish(w) == Resolves(EntriesFor(w))

own_bookmark(i, id) ==
    \E e \in read_bookmarks(doc, content, i).entries : e.author = me /\ e.key.id = id

Now == 1 + Max({0} \cup {e.at : e \in doc})

edit_metadata(i) == IF Known(i) THEN Says(Key("field", i, "title", 0), Plain) ELSE refused

\* A rating, a review or a comment that is None is cleared.
rate(i, rating) == IF Known(i) THEN Says(Mine("rating", i), rating) ELSE refused
review(i, text) == IF Known(i) THEN Says(Mine("review", i), text) ELSE refused
wish_comment(w, text) == IF KnownWish(w) THEN Says(Mine("wish_comment", w), text) ELSE refused

\* BookmarkId::random: one this member has not used on the item.
Unused(i) == Max({0} \cup {1 + e.key.id : e \in {f \in doc : f.key = CommunityKey("bookmark", i, me, f.key.id)}})

\* A new bookmark, or an edit of one of this member's own.
bookmark(i, id) ==
    IF Known(i) /\ (id = None \/ own_bookmark(i, id))
    THEN Says(CommunityKey("bookmark", i, me, IF id = None THEN Unused(i) ELSE id), Plain)
    ELSE refused

bookmark_delete(i, id) == IF own_bookmark(i, id) THEN Says(CommunityKey("bookmark", i, me, id), None) ELSE refused

\* This member is its creator.
wish_create(w) == Says(Mine("wish", w), [title |-> TRUE, created_at |-> Now, fulfilled |-> None])

wish_fulfill_mutant(w, i) ==
    IF KnownWish(w) /\ Known(i)
    THEN Says(Mine("wish", w), [Plain EXCEPT !.created_at = Now, !.fulfilled = i])
    ELSE refused

\* Written into this member's own entry, if it has one.
wish_fulfill(w, i) ==
    LET mine == {e.value : e \in {f \in EntriesFor(w) : f.author = me}}
        fields == IF mine = {} THEN [Plain EXCEPT !.created_at = Now] ELSE CHOOSE v \in mine : TRUE
    IN  IF KnownWish(w) /\ Known(i)
        THEN Says(Mine("wish", w), [fields EXCEPT !.fulfilled = i])
        ELSE refused

WriteFiles(i, files) ==
    LET order == SetToSeq(files)
    IN  [k \in DOMAIN order |-> [key |-> Key("file", i, order[k], 0), value |-> Plain, deleted |-> FALSE]]

\* library.add: a new item's fields and then its files, or only the files an
\* item at the same id lacks.
write_new_item(i, files) == Says(Key("field", i, "title", 0), Plain) \o WriteFiles(i, files)
add_missing_files(i, files) == WriteFiles(i, files \ {e.key.name : e \in Own(doc, i) \cap content})
add(i, files) == IF Known(i) THEN add_missing_files(i, files) ELSE write_new_item(i, files)

\* Api::call, of the methods that write.
Writes(call) ==
    CASE call.op = "add" -> add(call.of, call.with)
      [] call.op = "edit_metadata" -> edit_metadata(call.of)
      [] call.op = "rate" -> rate(call.of, call.with)
      [] call.op = "review" -> review(call.of, call.with)
      [] call.op = "bookmark" -> bookmark(call.of, call.with)
      [] call.op = "bookmark_delete" -> bookmark_delete(call.of, call.with)
      [] call.op = "wish_create" -> wish_create(call.of)
      [] call.op = "wish_comment" -> wish_comment(call.of, call.with)
      [] call.op = "wish_fulfill" -> wish_fulfill(call.of, call.with)

\* A method's checks, made before it writes anything.
Calls(call) ==
    /\ open /\ call \in left.calls
    /\ left' = [left EXCEPT !.calls = @ \ {call}]
    /\ writing' = (writing \cup {[call |-> call, entries |-> Writes(call)]}) \ {[call |-> call, entries |-> <<>>]}
    /\ UNCHANGED <<open, documentVars, groupVars, swarmVars, newsVars, pumpVars, offerVars, sweepVars, news_of, readerVars>>

\* Catalogue::put and Catalogue::delete.
Puts(w) ==
    /\ w \in writing
    /\ LET next == Head(w.entries)
       IN  put(next.key, next.value, next.deleted)
    /\ writing' = (writing \ {w}) \cup {[w EXCEPT !.entries = Tail(@)] : x \in {y \in {w} : Len(w.entries) > 1}}
    /\ UNCHANGED <<open, groupVars, neighbours, round, fetching, newsVars, pumpVars, offerVars, sweepVars,
                   news_of, left, readerVars>>

\* admin.reindex
AsksReindex ==
    /\ left.reindexes > 0 /\ reindex = "none"
    /\ left' = [left EXCEPT !.reindexes = @ - 1]
    /\ reindex' = "asked"
    /\ UNCHANGED <<open, documentVars, groupVars, swarmVars, newsVars, pumpVars, offerVars, sweepVars, news_of,
                   writing, reader, job, known, waiting, rows, index, told, skipped, stale>>

-----------------------------------------------------------------------------
(* What a caller is shown                                                    *)

\* library.search: ranked by the index, shown from the rows.
search == {i \in search_page : i \in page}

\* library.list, library.item
list == page
shown(i) == [record |-> item(i), bookmarks |-> bookmarks_of(i)]

\* community.bookmarks, of one member
bookmarks(m) == find_bookmarks(m)

\* community.wish_list, of the open ones or of the fulfilled ones
wish_list(fulfilled) ==
    {w \in all_wishes : Resolves(wish(w).entries) /\ is_fulfilled(wish(w).entries) = fulfilled}

-----------------------------------------------------------------------------

(* Where a scenario may start, and what may happen in it                     *)

ItemKeys == [kind : OwnKinds \cup {"rating", "review", "bookmark"}, of : Item, name : Member \cup File \cup {"title"}, id : Nat]
WishKeys == [kind : AboutWish, of : Wish, name : Member, id : {0}]
Keys == ItemKeys \cup WishKeys
Values == [title : BOOLEAN, created_at : Nat, fulfilled : Item \cup {None}]

\* Catalogue::delete is called for a member's own words and its failed probes
\* only: nobody deletes an item's fields or files, or a wish.
NeverDeleted == OwnKinds \cup {"wish"}
Puttable ==
    {x \in [key : Keys, value : Values, deleted : BOOLEAN] : x.key.kind \in NeverDeleted => ~x.deleted}
Entries ==
    {e \in [key : Keys, author : Member, at : Nat, deleted : BOOLEAN, value : Values] :
        e.key.kind \in NeverDeleted => ~e.deleted}
EntriesOK(d) == IsFiniteSet(d) /\ d \subseteq Entries

ItemCalls == {"add", "edit_metadata", "rate", "review", "bookmark", "bookmark_delete"}
WishCalls == {"wish_create", "wish_comment", "wish_fulfill"}
CallOK(call) ==
    /\ call.op \in ItemCalls \cup WishCalls
    /\ call.of \in IF call.op \in ItemCalls THEN Item ELSE Wish
    /\ call.op = "add" => call.with \subseteq File /\ IsFiniteSet(call.with)
    /\ call.op \in {"rate", "review", "wish_comment"} => call.with \in Values \cup {None}
    /\ call.op = "wish_fulfill" => call.with \in Item
    /\ call.op = "wish_create" => call = [op |-> "wish_create", of |-> call.of, with |-> None]

\* Two entries of one author under one key, and that the other is the newer.
Same(e, f) == e.key = f.key /\ e.author = f.author
Newer(e, f) == Same(e, f) /\ e.at < f.at

\* What the other members hold and write of a wish is what nodes like this one
\* wrote: whoever said what is wished for goes on saying it, what this member
\* wrote is on this node with its content, and of a wish that is still to be
\* created, whose id is drawn then (WishId::random), nobody says what it is.
Wished(d) == {e \in d : e.key.kind = "wish"}
WishesOK(s) ==
    LET others == (UNION {s.theirs[p] : p \in Peer}) \cup {w[2] : w \in s.left.writes}
        wishes == Wished(s.doc \cup others)
    IN  /\ \A e, f \in wishes : Same(e, f) /\ e.at <= f.at /\ e.value.title => f.value.title
        /\ \A e \in Wished(others) : e.author = me => \E f \in s.doc : e = f \/ Newer(e, f)
        /\ \A e \in Wished(s.doc) : e.author = me => e \in s.content
        /\ \A call \in s.left.calls :
              call.op = "wish_create" => \A e \in wishes : e.key.of = call.of => ~e.value.title /\ e.author # me

ScenarioOK(s) ==
    /\ EntriesOK(s.doc) /\ s.doc = Merged(s.doc)
    /\ DOMAIN s.theirs = Peer /\ \A p \in Peer : EntriesOK(s.theirs[p])
    /\ {"writes", "calls"} \subseteq DOMAIN s.left
    /\ \A w \in s.left.writes : w[1] \in Peer /\ w[2] \in Entries
    /\ \A call \in s.left.calls : CallOK(call)
    /\ WishesOK(s)

ASSUME LibraryAssumption == None \notin Values /\ \A s \in Scenarios : ScenarioOK(s)

-----------------------------------------------------------------------------

ReaderInit ==
    /\ reader = "starting" /\ job = NoJob /\ known = {} /\ waiting = NothingWaiting
    /\ rows = NoRows /\ index = NoIndex /\ told = {} /\ reindex = "none"
    /\ skipped = {} /\ stale = {} /\ writing = {}

Init == \E s \in Scenarios : CatalogueInit(s) /\ ReaderInit

Reader ==
    \/ AnswersEarly \/ Begins \/ Replays \/ TakeMarks \/ TakeLooks \/ TakeWoken \/ MembersMoved \/ Reindexes
    \/ ProjectReads \/ ProjectWrites \/ Commits \/ Finishes

Next ==
    \/ (Swarm \/ Loops \/ Group) /\ UNCHANGED <<readerVars, writing>>
    \/ Reader
    \/ Crashes
    \/ AsksReindex
    \/ \E call \in left.calls : Calls(call)
    \/ \E w \in writing : Puts(w)

Steps(A) == A /\ UNCHANGED <<readerVars, writing>>

\* Every loop goes on, a round that has begun ends, and a download that can
\* complete does; that neighbours come up, that members write and that calls
\* are made is nobody's promise.  The projection picks among the arms that are
\* ready at random, so that batches do not keep it from a change of members.
Fairness ==
    /\ \A p \in Peer : WF_vars(Steps(RoundEnds(p)))
    /\ WF_vars(Steps(\E e \in fetching : ContentReady(e)))
    /\ WF_vars(Steps(Opens \/ PumpNotes))
    /\ WF_vars(Steps(\E who \in waking : Wakes(who)))
    /\ WF_vars(Steps(SyncsAgain))
    /\ WF_vars(Steps(OfferWakes \/ OfferLooks))
    /\ WF_vars(Steps(SweepForgets \/ SweepLooks \/ \E e \in sweep.wanted : SweepFetches(e)))
    /\ WF_vars(Reader) /\ SF_vars(MembersMoved)
    /\ WF_vars(\E w \in writing : Puts(w))

Spec == Init /\ [][Next]_vars /\ Fairness

-----------------------------------------------------------------------------
(* Properties                                                                *)

\* The shape of every task's state; the document keeps one entry for each key
\* and author, and no content waits longer than ASK_AGAIN to be asked for.
TypeOK ==
    /\ doc = Merged(doc)
    /\ pending \in [items : SUBSET Item, bookmarks : SUBSET Item, wishes : SUBSET Wish, content_arrived : BOOLEAN]
    /\ woken \in BOOLEAN /\ waking \subseteq {"pump", "sweep"}
    /\ offering \in {"waiting", "reaction", "repair"}
    /\ reader \in {"starting", "replaying", "projecting", "idle", "marked", "waiting"}
    /\ DOMAIN rows.items \subseteq Item /\ DOMAIN rows.wishes \subseteq Wish
    /\ \A e \in DOMAIN unanswered : unanswered[e].left <= unanswered[e].waited /\ unanswered[e].waited <= ASK_AGAIN

\* library.search, library.list and library.item agree whenever the projection is between
\* jobs, which is when watchers are told of what it wrote, whatever was
\* committed before a restart.  Left out: an item whose last projection failed or
\* was not come to, and one that a commit of the index failed for and none has
\* found since.
Between == reader \in {"idle", "marked", "waiting"}
Unindexed(i) == skipped \cap {<<"items", i>>, <<"commit", i>>} # {}
SearchAgrees ==
    Between => \A i \in list : Unindexed(i) \/ (i \in search /\ index.committed[i] = shown(i).record.item)

\* A row attributes to a member only what that member wrote, whoever writes
\* under its keys.
OnlyTheirOwnWords ==
    /\ \A i \in list : \A e \in item(i).ratings \cup item(i).reviews : e.author = e.key.name
    /\ \A m \in Member : \A b \in bookmarks(m) : m = b[2].key.name
    /\ \A w \in all_wishes : \A e \in wish(w).entries \cup wish(w).comments : e.author = e.key.name

\* What is wished for stays in the document through fulfilments and comments,
\* a creator's own fulfilment included.
TitledBy(d, w) == {e.author : e \in {f \in all(d) : f.key.kind = "wish" /\ f.key.of = w /\ f.value.title}}
WishesStand == [][\A w \in Wish : TitledBy(doc, w) \subseteq TitledBy(doc', w)]_vars

\* What members said under keys of a kind, and is here to be read.
Words(kind, of) ==
    {e \in doc \cap content : /\ e.key.kind = kind /\ e.key.of = of
                             /\ e.author = e.key.name /\ e.author \in members}

\* The rows an item should have: its newest entries and current members' words.
Newest(i) ==
    {e \in doc \cap content : /\ e.key.kind \in OwnKinds /\ e.key.of = i
                             /\ \A f \in doc : f.key = e.key => f.at <= e.at}
FileKeys(i) == {e \in doc : e.key.kind = "file" /\ e.key.of = i}
FilesHere(i) == {e.key.name : e \in Newest(i) \cap FileKeys(i)}
ItemShown(i) ==
    \/ <<"items", i>> \in skipped
    \/ ~Known(i) /\ i \notin DOMAIN rows.items
    \/ /\ i \in DOMAIN rows.items
       /\ item(i).item = Newest(i)
       /\ [item |-> i, creators |-> {e.author : e \in FileKeys(i)},
           size_bytes |-> MapThenSumSet(LAMBDA f : size[f], FilesHere(i))] \in custody_items
       /\ item(i).ratings = Words("rating", i)
       /\ item(i).reviews = Words("review", i)
WishShown(w) ==
    \/ <<"wishes", w>> \in skipped
    \/ /\ wish(w).entries = Words("wish", w)
       /\ wish(w).comments = IF Words("wish", w) = {} THEN {} ELSE Words("wish_comment", w)
       /\ w \in wish_list(TRUE) \cup wish_list(FALSE) <=> \E e \in Words("wish", w) : e.value.title
       /\ w \in wish_list(TRUE) => \E e \in Words("wish", w) : e.value.fulfilled # None
BookmarksShown(i) ==
    <<"bookmarks", i>> \in skipped \/ (\A m \in Member : {b \in bookmarks(m) : b[1] = i} = {<<i, e>> : e \in {f \in Words("bookmark", i) : f.author = m}})

\* What each member added, by which the pledge it must make is reckoned.
AddedShown(m) ==
    \/ \E i \in Item : <<"items", i>> \in skipped
    \/ added_bytes(m) =
         MapThenSumSet(LAMBDA a : size[a[2]],
                       UNION {{<<i, e.key.name>> : e \in {f \in FileKeys(i) : f.author = m /\ f.key.name \in FilesHere(i) \cap ContentFile}}
                                 : i \in Item})

\* In the end the rows are what the document and the membership say, through
\* content that arrives late, members that come and go, and restarts.  Left
\* out: what could not be projected, listed or written when it last changed, and
\* bookmarks that no replay comes to, unless they change again: those deleted and
\* not yet projected when the node stopped, and those whose key somebody else's
\* newer deletion hides.
ShownInTheEnd ==
    <>[](/\ \A i \in Item : ItemShown(i) /\ (i \in stale \/ BookmarksShown(i))
         /\ \A w \in Wish : WishShown(w)
         /\ MembersRow \in skipped \/ rows.members = members
         /\ \A m \in Member : AddedShown(m))

\* A neighbour's document and this node's come to say the same, without
\* another offer of the peers, although the round that would have brought a
\* change was under way when the neighbour came up.
CaughtUp == <>[](\A p \in neighbours : Merged(doc \cup theirs[p]) = doc)

\* Content somebody reachable has arrives, whoever failed to offer it.
ContentInTheEnd ==
    <>[](\A e \in all(doc) : (\E p \in sync_with : e \in held[p]) => e \in content)

\* Every member this node can reach is handed to iroh-docs at the address it
\* was last heard at.
OfferedInTheEnd == <>[](\A p \in sync_with : handed[p] = directory[p])

\* What clients are shown is consistent and honest at every moment: search and
\* lists agree, and nobody is quoted with somebody else's words (index.rs,
\* catalogue.rs read_community_entries).
LibraryInv == TypeOK /\ SearchAgrees /\ OnlyTheirOwnWords

\* Documents and content reach this node, and this node offers itself, in the
\* end: after rounds that missed something, content nobody offered and dials
\* that failed (catalogue.rs, changes.rs).
SyncedInTheEnd == CaughtUp /\ ContentInTheEnd /\ OfferedInTheEnd

=============================================================================
