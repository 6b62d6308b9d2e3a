------------------------------- MODULE Keeping -------------------------------
(***************************************************************************)
(* What one node keeps and why: the tags on its blobs, the storage limit   *)
(* (distlib-custody storage.rs, distlib-core keeping.rs), what the node    *)
(* says it holds (Holdings), and the work that brings content in: custody  *)
(* fetches, emergency copies, downloads and adds.  Each piece of work is a *)
(* task of its own and gives way at every await, so all of them and the    *)
(* garbage collection interleave.                                          *)
(*                                                                         *)
(* Every file is a content file of the items that have it.                 *)
(***************************************************************************)
EXTENDS Ranking, SequencesExt

CONSTANTS
    me,
    File,
    size,           \* File -> bytes
    limit,          \* the storage limit
    Groups          \* the memberships there may be: members and pledges

ASSUME KeepingAssumption ==
    /\ IsFiniteSet(File)
    /\ limit \in Nat /\ \A f \in File : size[f] \in Nat \ {0}
    /\ me \in Node

VARIABLES
    catalogue,      \* the document: Item -> the files it has and who added them
    unread,         \* items whose entries changed since the projection read them
    files,          \* the read model: Item -> the files it has
    creators,       \* ... and -> who added them
    membership,     \* as the log has it
    online,         \* who this node sees online
    holders,        \* Item -> the other members known to hold a real copy
    unknown,        \* who is online and has not said what it holds
    tags,           \* <<reason, item, file>>: what keeps a blob
    here,           \* File -> "absent", "partial" or "complete"
    held,           \* Holdings: the items this node says it holds
    used,           \* cached items, the one used longest ago first
    jobs,           \* the work under way
    making_room,    \* the lock: {} or {the job that has it}
    overtaken,      \* history: items whose recheck was overtaken by a change
    evicted,        \* history: items evicted
    shared          \* history: room was promised twice, gone past on purpose,
                    \* taken by what was being let go of and kept again, or left
                    \* to an add that did not make it

worldVars == <<catalogue, unread, files, creators, membership, online, holders, unknown>>
keepVars == <<tags, here, held, used, making_room, overtaken, evicted, shared>>
keepingVars == <<worldVars, keepVars, jobs>>

Reason == {"own", "custody", "cache"}
Why == {"custody", "emergency", "download", "add", "projection"}
ReasonOf(why) == CASE why = "custody" -> "custody" [] why = "add" -> "own" [] OTHER -> "cache"

Job == [why : Why, item : Item, task : Nat, files : SUBSET File, left : SUBSET File, evict : SUBSET Item,
        step : {"start", "write", "own", "room", "evict", "register", "tag", "fetch", "export", "recheck",
                "set", "row", "done"},
        creators : SUBSET Node, short : BOOLEAN, seen : BOOLEAN, spent : BOOLEAN,
        result : {"ok", "noroom", "failed"}]

NewJobOf(why, item, step, fs, authors) ==
    [why |-> why, item |-> item, task |-> 0, files |-> fs, left |-> {}, evict |-> {}, step |-> step,
     creators |-> authors, short |-> FALSE, seen |-> FALSE, spent |-> FALSE, result |-> "ok"]
NewJob(why, item, step) == NewJobOf(why, item, step, {}, {})

Busy(why, item) == \E j \in jobs : j.why = why /\ j.item = item

Goes(j, next) == jobs' = (jobs \ {j}) \cup {next}
Ends(j, result) == Goes(j, [j EXCEPT !.step = "done", !.result = result, !.left = {}, !.evict = {}])

Stored(item) == [creators |-> creators[item], size_bytes |-> 0]

----------------------------------------------------------------------------
(* Tags and what they keep.                                                *)

kept_for(reason, item) == {f \in File : <<reason, item, f>> \in tags}

\* Blobs::kept_blobs: a blob counts at its whole size once any of it is here.
KeptBy(some) == {f \in File : \E reason \in Reason, item \in Item : <<reason, item, f>> \in some}
SizeOf(fs) == Cardinality(UNION {{f} \X (1 .. size[f]) : f \in fs})
Bytes(some) == SizeOf({f \in KeptBy(some) : here[f] # "absent"})

MandatoryTags == {tag \in tags : tag[1] # "cache"}

\* What keeping them as own adds to what stays when space is short.
mandatory_growth(fs) == SizeOf(fs \ KeptBy(MandatoryTags))

\* Not kept, or kept before any of their bytes arrived.
Uncounted(fs) == {f \in fs : f \notin KeptBy(tags) \/ here[f] = "absent"}
uncounted_bytes(fs) == SizeOf(Uncounted(fs))

CacheTags(items) == {tag \in tags : tag[1] = "cache" /\ tag[2] \in items}

\* A blob two items share is freed only with the last of them.
BytesWithout(items) == Bytes(tags \ CacheTags(items))

\* KeptBlobs::evictions: cached items that nothing else keeps, least recently
\* used first, and no more than it takes; all of them when they are not enough.
\* Items used equally long ago may go in any order.
Evictable(keeping) ==
    {item \in Item \ {keeping} : CacheTags({item}) # {} /\ ~ \E tag \in MandatoryTags : tag[2] = item}

Age(item) == IF Contains(used, item) THEN CHOOSE k \in DOMAIN used : used[k] = item ELSE 0

Fits(items, needed) == BytesWithout(items) + needed <= limit

evictions(keeping, needed) ==
    LET all == Evictable(keeping)
        OldestFirst(items) == \A one \in items, other \in all \ items : Age(one) <= Age(other)
        Enough(items) == OldestFirst(items) /\ (Fits(items, needed) \/ items = all)
    IN {items \in SUBSET all : Enough(items) /\ \A fewer \in SUBSET items \ {items} : ~ Enough(fewer)}

mark_used(item) == used' = Append(SelectSeq(used, LAMBDA other : other # item), item)

----------------------------------------------------------------------------
(* What the node says it holds.                                            *)

\* Held: every content file complete here and kept for the item.
Whole(item, fs) ==
    /\ fs # {}
    /\ \A f \in fs : here[f] = "complete" /\ \E reason \in Reason : <<reason, item, f>> \in tags

\* The document is read again after a download or an add; custody rechecks the
\* item as it was, and the projection what it has just read.
Rechecked(j) == IF j.why \in {"download", "add"} THEN catalogue[j.item].files ELSE j.files

\* Holdings::recheck reads tags and files ...
RechecksRead(j) ==
    /\ j.step = "recheck"
    /\ Goes(j, [j EXCEPT !.step = "set", !.seen = Whole(j.item, Rechecked(j))])
    /\ UNCHANGED <<worldVars, keepVars>>

\* ... and then records the answer.
RechecksSet(j) ==
    /\ j.step = "set"
    /\ held' = IF j.seen THEN held \cup {j.item} ELSE held \ {j.item}
    /\ overtaken' = IF j.seen = Whole(j.item, catalogue[j.item].files) THEN overtaken \ {j.item}
                    ELSE overtaken \cup {j.item}
    /\ \/ j.why = "add" /\ Goes(j, [j EXCEPT !.step = "room"])
       \/ j.why = "projection" /\ Goes(j, [j EXCEPT !.step = "row"])
       \/ j.why \notin {"add", "projection"} /\ Ends(j, "ok")
    /\ UNCHANGED <<worldVars, tags, here, used, making_room, evicted, shared>>

----------------------------------------------------------------------------
(* Storage: room is counted, and made, under one lock.                     *)

\* Room promised and not yet filled, or being filled.
Promised(j) == \E other \in jobs \ {j} : other.step \in {"register", "tag", "fetch", "export", "evict", "write", "own"}

\* What of it is here, counted, and goes with these items all the same.
FreedYetWanted(j, items) ==
    \E f \in j.files : f \in KeptBy(tags) \ KeptBy(tags \ CacheTags(items)) /\ here[f] # "absent"

\* About to be evicted.
Going == CacheTags(UNION {j.evict : j \in jobs})

\* Storage::evict_for, up to the first eviction: custody that would not fit
\* evicts nothing.
Plans(j) ==
    /\ j.step = "room" /\ making_room = {}
    /\ making_room' = {<<j.why, j.item>>}
    /\ \E needed \in {uncounted_bytes(j.files)} : \E items \in evictions(j.item, needed) :
       \E short \in {~ Fits(items, needed)} :
          /\ Goes(j, [j EXCEPT !.step = "evict", !.short = short,
                               !.evict = IF short /\ j.why = "custody" THEN {} ELSE items])
          /\ shared' = \/ shared \/ Promised(j) \/ FreedYetWanted(j, items)
                       \/ short /\ j.why \in {"emergency", "add"}
    /\ UNCHANGED <<worldVars, tags, here, held, used, overtaken, evicted>>

\* Storage::evict lets go of what the cache keeps, and forgets the item.
evict(items) ==
    /\ tags' = tags \ CacheTags(items)
    /\ held' = held \ items
    /\ overtaken' = overtaken \ items

\* Custody waits for room and a download is refused without it; an emergency
\* copy goes past the limit.
AfterRoom(j) ==
    \/ j.why = "add" /\ Ends(j, "ok")
    \/ j.why = "download" /\ ~ j.short /\ Goes(j, [j EXCEPT !.step = "register", !.evict = {}])
    \/ j.why = "download" /\ j.short /\ Ends(j, "failed")
    \/ j.why = "custody" /\ j.short /\ Ends(j, "noroom")
    \/ /\ j.why = "emergency" \/ (j.why = "custody" /\ ~ j.short)
       /\ Goes(j, [j EXCEPT !.step = "fetch", !.evict = {}, !.short = FALSE])

Evicts(j) ==
    /\ j.step = "evict"
    /\ evict(j.evict)
    /\ making_room' = {}
    /\ evicted' = evicted \cup j.evict
    /\ AfterRoom(j)
    /\ UNCHANGED <<worldVars, here, used, shared>>

----------------------------------------------------------------------------
(* Keeper::keep, for custody and for an emergency copy.                    *)

\* Tagged before room is made, so a cached copy is kept before anything goes;
\* an emergency copy counts as used first.
KeepStarts(j) ==
    /\ j.why \in {"custody", "emergency"} /\ j.step = "start"
    /\ tags' = tags \cup {<<ReasonOf(j.why), j.item, f>> : f \in files[j.item]}
    /\ Goes(j, [j EXCEPT !.step = "room", !.files = files[j.item], !.left = files[j.item]])
    /\ shared' = (shared \/ \E f \in files[j.item] \ KeptBy(tags \ Going) : here[f] # "absent")
    /\ IF j.why = "emergency" THEN mark_used(j.item) ELSE UNCHANGED used
    /\ UNCHANGED <<worldVars, here, held, making_room, overtaken, evicted>>

Serves(item) == holders[item] \cap online # {}

\* The files not here, one after the other: some provider serves it, or none
\* does (fetch_until_stalled).
KeepFetches(j) ==
    /\ j.why \in {"custody", "emergency"} /\ j.step = "fetch"
    /\ IF j.left = {}
       THEN Goes(j, [j EXCEPT !.step = "recheck"]) /\ UNCHANGED here
       ELSE \E f \in j.left :
            \/ /\ here[f] = "complete" \/ Serves(j.item)
               /\ here' = [here EXCEPT ![f] = "complete"]
               /\ Goes(j, [j EXCEPT !.left = @ \ {f}])
            \/ /\ here[f] # "complete" /\ ~ Serves(j.item)
               /\ here' \in {here, [here EXCEPT ![f] = "partial"]}
               /\ Ends(j, "failed")
    /\ UNCHANGED <<worldVars, tags, held, used, making_room, overtaken, evicted, shared>>

----------------------------------------------------------------------------
(* library.download and library.add.                                       *)

\* files_to_download: the one named, or all.
files_to_download(item) == {files[item]} \cup {{f} : f \in files[item]}

\* targets_in: those of them not at their destination already.
targets_in(wanted) == {wanted, wanted \ {CHOOSE f \in wanted : TRUE}}

\* Whoever downloads counts it as used, and has room made before any tag.
DownloadStarts(j) ==
    /\ j.why = "download" /\ j.step = "start"
    /\ mark_used(j.item)
    /\ \E wanted \in files_to_download(j.item) : \E missing \in targets_in(wanted) :
          Goes(j, [j EXCEPT !.step = "room", !.files = missing, !.left = missing])
    /\ UNCHANGED <<worldVars, tags, here, held, making_room, overtaken, evicted, shared>>

\* fetch_all, file by file: each is tagged before it is fetched.
DownloadTags(j) ==
    /\ j.why = "download" /\ j.step = "tag"
    /\ IF j.left = {}
       THEN Goes(j, [j EXCEPT !.step = "recheck"]) /\ UNCHANGED tags
       ELSE LET f == CHOOSE g \in j.left : TRUE IN
            /\ tags' = tags \cup {<<"cache", j.item, f>>}
            /\ Goes(j, [j EXCEPT !.step = "fetch"])
    /\ UNCHANGED <<worldVars, here, held, used, making_room, overtaken, evicted, shared>>

\* OneRefresh::spend: one question to a core node in the whole download, and one
\* more attempt if it answers.
Refreshes(j) ==
    \/ ~ j.spent /\ Goes(j, [j EXCEPT !.spent = TRUE])
    \/ Ends(j, "failed")

DownloadFetches(j) ==
    /\ j.why = "download" /\ j.step = "fetch"
    /\ LET f == CHOOSE g \in j.left : TRUE IN
       \/ /\ here[f] = "complete" \/ Serves(j.item)
          /\ here' = [here EXCEPT ![f] = "complete"]
          /\ Goes(j, [j EXCEPT !.step = "export"])
       \/ /\ here[f] # "complete" /\ ~ Serves(j.item)
          /\ Refreshes(j)
          /\ UNCHANGED here
    /\ UNCHANGED <<worldVars, tags, held, used, making_room, overtaken, evicted, shared>>

\* Blobs::export: only what is here in full.
DownloadExports(j) ==
    /\ j.why = "download" /\ j.step = "export"
    /\ LET f == CHOOSE g \in j.left : TRUE IN
       IF here[f] = "complete"
       THEN Goes(j, [j EXCEPT !.step = "tag", !.left = @ \ {f}])
       ELSE Ends(j, "failed")
    /\ UNCHANGED <<worldVars, keepVars>>

\* check_room_for: refused when own and custody would grow past the limit.
check_room_for(fs) ==
    LET growth == mandatory_growth(fs) IN growth = 0 \/ Bytes(MandatoryTags) + growth <= limit

\* The files are imported, and the add refused without room for them or, when
\* the item lacks some, with far too small a pledge.
AddChecks(j) ==
    /\ j.why = "add" /\ j.step = "start"
    /\ here' = [f \in File |-> IF f \in j.files THEN "complete" ELSE here[f]]
    /\ \/ check_room_for(j.files) /\ Goes(j, [j EXCEPT !.step = "write"])
       \/ ~ check_room_for(j.files) /\ Ends(j, "failed")
       \/ ~ (j.files \subseteq catalogue[j.item].files) /\ Ends(j, "failed")
    /\ shared' = \/ shared \/ Promised(j)
                 \/ \E f \in j.files : f \in KeptBy(tags) /\ here[f] = "absent"
    /\ UNCHANGED <<worldVars, tags, held, used, making_room, overtaken, evicted>>

\* An item's entries in the document change.
Enters(item, fs, author) ==
    /\ catalogue' = [catalogue EXCEPT ![item].files = @ \cup fs, ![item].creators = @ \cup {author}]
    /\ unread' = unread \cup {item}

\* write_new_item, or add_missing_files, which writes nothing when none are.
AddWrites(j) ==
    /\ j.why = "add" /\ j.step = "write"
    /\ IF j.files \subseteq catalogue[j.item].files THEN UNCHANGED <<catalogue, unread>>
       ELSE Enters(j.item, j.files, me)
    /\ Goes(j, [j EXCEPT !.step = "own"])
    /\ UNCHANGED <<files, creators, membership, online, holders, unknown, keepVars>>

\* After the write, so a refused add leaves nothing kept.
AddKeeps(j) ==
    /\ j.why = "add" /\ j.step = "own"
    /\ tags' = tags \cup {<<"own", j.item, f>> : f \in j.files}
    /\ Goes(j, [j EXCEPT !.step = "recheck"])
    /\ UNCHANGED <<worldVars, here, held, used, making_room, overtaken, evicted, shared>>

\* What no tag keeps is deleted, except what an add has just brought in.
Collects ==
    LET importing == UNION {j.files : j \in {k \in jobs : k.step \in {"write", "own"}}}
        gone == {f \in File : here[f] # "absent"} \ (KeptBy(tags) \cup importing) IN
    /\ gone # {}
    /\ here' = [f \in File |-> IF f \in gone THEN "absent" ELSE here[f]]
    /\ UNCHANGED <<worldVars, tags, held, used, making_room, overtaken, evicted, shared, jobs>>

Works(j) ==
    \/ RechecksRead(j) \/ RechecksSet(j) \/ Plans(j) \/ Evicts(j)
    \/ KeepStarts(j) \/ KeepFetches(j)
    \/ DownloadStarts(j) \/ DownloadTags(j) \/ DownloadFetches(j) \/ DownloadExports(j)
    \/ AddChecks(j) \/ AddWrites(j) \/ AddKeeps(j)

----------------------------------------------------------------------------
(* Properties.                                                             *)

\* The node says it holds an item only while every file of it that the read
\* model has is whole here and kept, so that nothing collects it: an eviction, a
\* release and a new file are all told before they show, unless a recheck was
\* overtaken between its reading and its recording (Holdings::recheck,
\* Storage::evict, Keeper::release, ReadModelWriter::project_items).
HeldIsKept ==
    \A item \in held \ overtaken :
        /\ catalogue[item].files # {}
        /\ \A f \in files[item] : here[f] = "complete" /\ \E reason \in Reason : <<reason, item, f>> \in tags

\* An add that tagged its files and has not made room for them yet.
AddedOverTheLimit == \E j \in jobs : j.why = "add" /\ j.step \in {"recheck", "set", "room", "evict"}

\* What is kept stays within the storage limit while work, collection and
\* restarts interleave, but for an add about to make room and for what `shared`
\* names (storage.rs evict_for, keeping.rs evictions).
WithinLimit == shared \/ AddedOverTheLimit \/ Bytes(tags) <= limit
=============================================================================
