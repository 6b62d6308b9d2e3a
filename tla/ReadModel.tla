------------------------------ MODULE ReadModel ------------------------------
(* The read model (distlib-store): the task that re-reads what the catalogue *)
(* says has changed and writes it over its rows, the rows (SQLite) and the   *)
(* search index, and what the API reads from them.  Beside it, the API's     *)
(* writes to the document.                                                   *)
EXTENDS Catalogue

VARIABLES
    reader,         \* what the projection task is doing
    job,            \* the batch or replay it is writing
    known,          \* ReadModelWriter::members: whose words it projects
    waiting,        \* what it last projected with content missing
    rows,           \* the tables
    index,          \* the search index: what is in it, and what a search finds
    told,           \* the events published by the last batch
    reindex,        \* admin.reindex: "none", "asked", or "running"
    skipped,        \* history: what a failed read or write left as it was
    stale,          \* history: the items whose bookmarks the last replay did not come to
    writing         \* API calls past their checks: the entries each has still to write

readerVars == <<reader, job, known, waiting, rows, index, told, reindex, skipped, stale>>
vars == <<catalogueVars, readerVars, writing>>

NothingWaiting == [items |-> {}, bookmarks |-> {}, wishes |-> {}]
NoRows == [items |-> <<>>, bookmarks |-> <<>>, wishes |-> <<>>, members |-> {}]
NoIndex == [written |-> <<>>, committed |-> <<>>]

\* A batch is news; a replay is not.  `read`: what was read and is not yet written.
Job(items, bookmarks, wishes, news) ==
    [items |-> items, bookmarks |-> bookmarks, wishes |-> wishes, news |-> news,
     read |-> <<>>, indexed |-> FALSE, written |-> {}]
NoJob == Job({}, {}, {}, FALSE)

\* A batch or a replay is over: its events go out, and who asked for it is answered.
Ends(events) ==
    /\ reader' = "idle"
    /\ job' = NoJob
    /\ told' = events
    /\ reindex' = IF reindex = "running" THEN "none" ELSE reindex

With(f, key, value) == [x \in DOMAIN f \cup {key} |-> IF x = key THEN value ELSE f[x]]

-----------------------------------------------------------------------------
(* Starting, and the three things it waits for                               *)

\* What `skipped` has for the table of members.
MembersRow == <<"members", me>>

\* Over whatever the table held; one that fails is not tried again until the
\* membership changes.
set_members(all_members) ==
    \/ /\ rows' = [rows EXCEPT !.members = all_members]
       /\ skipped' = skipped \ {MembersRow}
       /\ UNCHANGED left
    \/ /\ Fails("members")
       /\ skipped' = skipped \cup {MembersRow}
       /\ UNCHANGED rows

\* The table and the filter from one look at the log, whether or not the table
\* could be written.
project_members ==
    /\ news_of' = news_of \ {"reader"}
    /\ known' = members
    /\ set_members(members)

\* A reindex asked for before there is a document is answered at once.
AnswersEarly ==
    /\ ~open /\ reader = "starting" /\ reindex = "asked"
    /\ reindex' = "none"
    /\ UNCHANGED <<catalogueVars, writing, reader, job, known, waiting, rows, index, told, skipped, stale>>

\* The document is open: watches it, then reads the members, then replays.
Begins ==
    /\ open /\ reader = "starting"
    /\ reader' = "replaying"
    /\ project_members
    /\ UNCHANGED <<open, documentVars, groupVars, swarmVars, newsVars, pumpVars, offerVars, sweepVars,
                   writing, job, waiting, index, told, reindex, stale>>

\* Bookmarks no replay comes to: deleted, or under keys that somebody else's
\* deletion is the newest entry of.
Unlisted ==
    {i \in Item \ bookmarked_item_ids(doc) :
        \/ i \in DOMAIN rows.bookmarks /\ rows.bookmarks[i] # {}
        \/ \E e \in all(doc) : e.key.kind = "bookmark" /\ e.key.of = i /\ e.author = member(e.key)}

\* replay: every item, every bookmarked item and every wish, or none of them
\* when they cannot be listed.
Replays ==
    /\ reader = "replaying"
    /\ stale' = Unlisted
    /\ \/ /\ reader' = "projecting"
          /\ job' = Job(item_ids(doc), bookmarked_item_ids(doc), wish_ids(doc), FALSE)
          /\ UNCHANGED <<left, told, reindex, skipped>>
       \/ /\ Fails("replay")
          /\ Ends({})
          /\ skipped' = skipped \cup ({"items"} \X item_ids(doc)) \cup ({"bookmarks"} \X bookmarked_item_ids(doc))
                               \cup ({"wishes"} \X wish_ids(doc))
    /\ UNCHANGED <<open, documentVars, groupVars, swarmVars, newsVars, pumpVars, offerVars, sweepVars, news_of,
                   writing, known, waiting, rows, index>>

\* Changes::take: marked as seen before the batch is looked at.
TakeMarks ==
    /\ reader = "idle"
    /\ reader' = "marked"
    /\ woken' = FALSE
    /\ UNCHANGED <<open, documentVars, groupVars, swarmVars, pending, waking, pumpVars, offerVars, sweepVars,
                   news_of, left, writing, job, known, waiting, rows, index, told, reindex, skipped, stale>>

\* What a batch asks for; content arriving asks for everything left incomplete.
Asked(batch) ==
    LET also(set) == IF batch.content_arrived THEN set ELSE {}
    IN  Job(batch.items \cup also(waiting.items),
            batch.bookmarks \cup also(waiting.bookmarks),
            batch.wishes \cup also(waiting.wishes), TRUE)

TakeLooks ==
    /\ reader = "marked"
    /\ pending' = NothingPending
    /\ IF pending = NothingPending
       THEN reader' = "waiting" /\ UNCHANGED job
       ELSE reader' = "projecting" /\ job' = Asked(pending)
    /\ UNCHANGED <<open, documentVars, groupVars, swarmVars, woken, waking, pumpVars, offerVars, sweepVars,
                   news_of, left, writing, known, waiting, rows, index, told, reindex, skipped, stale>>

TakeWoken ==
    /\ reader = "waiting" /\ woken
    /\ reader' = "idle"
    /\ UNCHANGED <<catalogueVars, writing, job, known, waiting, rows, index, told, reindex, skipped, stale>>

\* Replays only if who is a member has changed.
MembersMoved ==
    /\ reader \in {"idle", "waiting"} /\ "reader" \in news_of
    /\ project_members
    /\ reader' = IF members # known THEN "replaying" ELSE "idle"
    /\ UNCHANGED <<open, documentVars, groupVars, swarmVars, newsVars, pumpVars, offerVars, sweepVars,
                   writing, job, waiting, index, told, reindex, stale>>

Reindexes ==
    /\ reader \in {"idle", "waiting"} /\ reindex = "asked"
    /\ reindex' = "running"
    /\ reader' = "replaying"
    /\ UNCHANGED <<catalogueVars, writing, job, known, waiting, rows, index, told, skipped, stale>>

-----------------------------------------------------------------------------
(* Projecting: items, then bookmarks, then wishes, each re-read and written  *)
(* over whatever the tables held, current members' words only.               *)

Current(entries) == {e \in entries : member(e.key) \in known}

\* The kind of thing to project next, the commit of the index included.
Stage ==
    IF job.read # <<>> THEN "write"
    ELSE IF job.items # {} THEN "items"
    ELSE IF job.indexed THEN "commit"
    ELSE IF job.bookmarks # {} THEN "bookmarks"
    ELSE IF job.wishes # {} THEN "wishes"
    ELSE "done"

\* What reading one of them gives; nothing for an item with no entry of its own.
Read(kind, id) ==
    CASE kind = "items" -> IF HasItem(doc, id) THEN <<kind, id, read_item(doc, content, id)>> ELSE <<>>
      [] kind = "bookmarks" -> <<kind, id, read_bookmarks(doc, content, id)>>
      [] kind = "wishes" -> <<kind, id, read_wish(doc, content, id)>>

Failing(kind, id) ==
    /\ Fails("project")
    /\ skipped' = skipped \cup {<<kind, id>>}

\* One that cannot be read is left for the next change to it, or the next start.
ProjectReads ==
    /\ reader = "projecting"
    /\ \E kind \in {Stage} : \E id \in IF kind \in DOMAIN NothingWaiting THEN job[kind] ELSE {} :
        \/ /\ \E read \in {Read(kind, id)} :
               /\ job' = [job EXCEPT ![kind] = @ \ {id}, !.read = read]
               /\ IF read = <<>> THEN UNCHANGED waiting
                  ELSE waiting' = [waiting EXCEPT ![kind] =
                                     IF read[3].waiting_for_content THEN @ \cup {id} ELSE @ \ {id}]
           /\ UNCHANGED <<left, skipped>>
        \/ /\ Failing(kind, id)
           /\ job' = [job EXCEPT ![kind] = @ \ {id}]
           /\ UNCHANGED waiting
    /\ UNCHANGED <<open, documentVars, groupVars, swarmVars, newsVars, pumpVars, offerVars, sweepVars, news_of,
                   writing, reader, known, rows, index, told, reindex, stale>>

\* What is written of what was read, current members' words only.
project_items(read) ==
    [item |-> read.item, file_authors |-> read.file_authors, last_modified |-> read.last_modified,
     ratings |-> Current(read.ratings), reviews |-> Current(read.reviews)]

project_bookmarks(read) == Current(read.entries)

\* Comments alone are not a wish.
project_wishes(read) ==
    LET entries == Current(read.entries)
    IN  [entries |-> entries, comments |-> IF entries = {} THEN {} ELSE Current(read.comments)]

\* One transaction each, over whatever the tables held.
upsert_item(i, read) == [rows EXCEPT !.items = With(@, i, project_items(read))]
replace_bookmarks(i, read) == [rows EXCEPT !.bookmarks = With(@, i, project_bookmarks(read))]
replace_wish(w, read) == [rows EXCEPT !.wishes = With(@, w, project_wishes(read))]

\* index_item: not found by a search until it is committed.
index_item(id, item) == [index EXCEPT !.written = With(@, id, item)]

\* An item goes to the index before it goes to the rows; either may fail
\* without the other.
Projects(kind, id, read) ==
    LET indexes == index' = IF kind = "items" THEN index_item(id, read.item) ELSE index
        upserts == /\ rows' = CASE kind = "items" -> upsert_item(id, read)
                                [] kind = "bookmarks" -> replace_bookmarks(id, read)
                                [] kind = "wishes" -> replace_wish(id, read)
                   /\ stale' = IF kind = "bookmarks" THEN stale \ {id} ELSE stale
        done(indexed, written) ==
            job' = [job EXCEPT !.read = <<>>, !.indexed = @ \/ indexed, !.written = @ \cup written]
    IN  \/ /\ indexes /\ upserts
           /\ done(kind = "items", {<<kind, id>>})
           /\ skipped' = skipped \ {<<kind, id>>}
           /\ UNCHANGED left
        \/ /\ indexes /\ UNCHANGED <<rows, stale>>
           /\ done(kind = "items", {})
           /\ Failing(kind, id)
        \/ /\ kind = "items"
           /\ UNCHANGED index /\ upserts
           /\ done(FALSE, {<<kind, id>>})
           /\ Failing(kind, id)

ProjectWrites ==
    /\ reader = "projecting" /\ job.read # <<>>
    /\ Projects(job.read[1], job.read[2], job.read[3])
    /\ UNCHANGED <<open, documentVars, groupVars, swarmVars, newsVars, pumpVars, offerVars, sweepVars, news_of,
                   writing, reader, known, waiting, told, reindex>>

\* What a commit would make a search find.
Uncommitted ==
    {i \in DOMAIN index.written : i \notin DOMAIN index.committed \/ index.committed[i] # index.written[i]}
CommitMarks == {"commit"} \X Uncommitted

Commits_mutant ==
    /\ reader = "projecting" /\ Stage = "commit"
    /\ job' = [job EXCEPT !.indexed = FALSE]
    /\ index' = IF job.news THEN [index EXCEPT !.committed = index.written] ELSE index
    /\ UNCHANGED <<catalogueVars, writing, reader, known, waiting, rows, told, reindex, skipped, stale>>

\* SearchIndex::commit: once for the batch, and only if something reached the
\* index.  One that fails is logged and the batch goes on; what it should have
\* committed is left for a later one, or lost.
Commits ==
    /\ reader = "projecting" /\ Stage = "commit"
    /\ job' = [job EXCEPT !.indexed = FALSE]
    /\ \/ /\ index' = [index EXCEPT !.committed = index.written]
          /\ skipped' = skipped \ CommitMarks
          /\ UNCHANGED left
       \/ /\ Fails("commit")
          /\ index' \in {index, [index EXCEPT !.written = index.committed]}
          /\ skipped' = skipped \cup CommitMarks
    /\ UNCHANGED <<open, documentVars, groupVars, swarmVars, newsVars, pumpVars, offerVars, sweepVars, news_of,
                   writing, reader, known, waiting, rows, told, reindex, stale>>

\* The events of a batch: nothing is told before the commit, whether or not it
\* failed, and nothing by a replay.
Published(j) == IF j.news THEN j.written ELSE {}

Finishes ==
    /\ reader = "projecting" /\ Stage = "done"
    /\ Ends(Published(job))
    /\ UNCHANGED <<catalogueVars, writing, known, waiting, rows, index, skipped, stale>>

-----------------------------------------------------------------------------
(* The process stops and starts again: the rows and what the index committed *)
(* are on disk.  A build with another READ_MODEL_VERSION throws both away.   *)

\* Store::open: the tables of another version are discarded.
OpenedStore(upgraded) == rows' = IF upgraded THEN NoRows ELSE rows

\* SearchIndex::open: what was not committed is gone.
OpenedIndex(upgraded) ==
    index' = IF upgraded THEN NoIndex ELSE [index EXCEPT !.written = index.committed]

Crashes ==
    /\ left.crashes > 0
    /\ left' = [left EXCEPT !.crashes = @ - 1]
    /\ \E upgraded \in BOOLEAN : OpenedStore(upgraded) /\ OpenedIndex(upgraded)
    /\ CatalogueCrash
    /\ reader' = "starting" /\ job' = NoJob /\ known' = {} /\ waiting' = NothingWaiting
    /\ told' = {} /\ reindex' = "none" /\ writing' = {}
    /\ UNCHANGED <<skipped, stale>>

-----------------------------------------------------------------------------
(* What is read back, by the API and by custody                              *)

item(i) == rows.items[i]

\* SearchIndex::search_page, for a query every item matches.
search_page == DOMAIN index.committed

\* Store::page
page == DOMAIN rows.items

FilesOf(i) == {e.key.name : e \in {f \in item(i).item : f.key.kind = "file"}}
creators(i) == {a[2] : a \in item(i).file_authors}

custody_items ==
    {[item |-> i, creators |-> creators(i), size_bytes |-> MapThenSumSet(LAMBDA f : size[f], FilesOf(i))]
        : i \in DOMAIN rows.items}

\* The content files whose key a member wrote, once for each item they are in.
added_bytes(m) ==
    MapThenSumSet(LAMBDA a : size[a[2]],
                  UNION {{<<i, f>> : f \in {g \in FilesOf(i) \cap ContentFile : <<g, m>> \in item(i).file_authors}}
                            : i \in DOMAIN rows.items})

bookmarks_of(i) == IF i \in DOMAIN rows.bookmarks THEN rows.bookmarks[i] ELSE {}

wish(w) == IF w \in DOMAIN rows.wishes THEN rows.wishes[w] ELSE [entries |-> {}, comments |-> {}]

all_wishes == {w \in DOMAIN rows.wishes : wish(w).entries # {}}
find_bookmarks(m) == UNION {{<<i, e>> : e \in {f \in bookmarks_of(i) : f.author = m}} : i \in DOMAIN rows.bookmarks}
=============================================================================
