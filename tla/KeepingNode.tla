----------------------------- MODULE KeepingNode -----------------------------
(***************************************************************************)
(* One node's keeping, composed: the pin manager, the emergency copies,    *)
(* the downloads, uploads and adds of its API and the collection, over the *)
(* blobs, tags and holdings they share, in a group whose members come and  *)
(* go, and with the node's own restarts.                                   *)
(***************************************************************************)
EXTENDS Pins, Emergency, Tasks, Uploads

CONSTANTS Scenarios     \* where a node may start, and what may still happen

ASSUME KeepingNodeAssumption ==
    /\ IsFiniteSet(Item) /\ FileOf \in [Upload -> File]
    /\ \A s \in Scenarios :
        /\ s.files \in [Item -> SUBSET File] /\ s.creators \in [Item -> SUBSET Node]
        /\ s.tags \subseteq Reason \X Item \X File /\ \A tag \in s.tags : tag[3] \in s.files[tag[2]]
        /\ s.here \in [File -> {"absent", "partial", "complete"}]
        /\ SizeOf({f \in KeptBy(s.tags) : s.here[f] # "absent"}) <= limit
        /\ "calls" \in DOMAIN s.left /\ s.left.calls \in Seq([item : Item, uploads : Seq(Upload)])

VARIABLE left           \* bound: how often each thing may still happen

apiVars == <<taskVars, uploadVars>>
allVars == <<keepingVars, pinVars, emergencyVars, apiVars, left>>

Init ==
    /\ \E s \in Scenarios :
          /\ files = s.files /\ creators = s.creators /\ tags = s.tags
          /\ catalogue = [item \in Item |-> [files |-> s.files[item], creators |-> s.creators[item]]]
          /\ here = s.here
          /\ membership = s.membership /\ online = s.online /\ holders = s.holders
          /\ unknown = s.unknown /\ used = s.used /\ left = s.left
          /\ adopted = {s.membership}
          /\ held = {item \in Item : Whole(item, files[item])}
          /\ pins = [item \in Item |-> IF kept_for("custody", item) # {} THEN "Kept" ELSE "none"]
    /\ changes = <<[kind |-> "recomputed", items |-> Item]>>
    /\ jobs = {} /\ making_room = {} /\ overtaken = {} /\ evicted = {}
    /\ shared = FALSE /\ unread = {}
    /\ lagged = FALSE /\ queue = <<>> /\ wanted_again = {} /\ availability_changed = {}
    /\ losing = {} /\ letting_go = {} /\ look = FALSE /\ upgrade_required = FALSE /\ crossed = {}
    /\ unheard = {}
    /\ alone = [item \in Item |-> "none"] /\ ripe = {} /\ look_alone = TRUE /\ stuck = {}
    /\ looked_at = membership
    /\ registered = <<>> /\ next_task = 0 /\ telling = <<>> /\ told = <<>>
    /\ UploadInit

Spends(what) == left[what] > 0 /\ left' = [left EXCEPT ![what] = @ - 1]

----------------------------------------------------------------------------
(* The group, the read model and custody.                                  *)

\* A member comes, goes, or says what it holds: both loops are told.
AvailabilityMoves ==
    /\ Spends("moves")
    /\ \/ \E n \in Node \ {me} :
             online' = (online \ {n}) \cup ({n} \ online) /\ UNCHANGED <<holders, unknown>>
       \/ \E n \in Node \ {me}, item \in Item :
             /\ n \notin holders[item] /\ files[item] # {}
             /\ holders' = [holders EXCEPT ![item] = @ \cup {n}]
             /\ UNCHANGED <<online, unknown>>
       \/ \E n \in unknown : unknown' = unknown \ {n} /\ UNCHANGED <<online, holders>>
    /\ look' = TRUE /\ look_alone' = TRUE
    /\ UNCHANGED <<catalogue, unread, files, creators, membership, keepVars, jobs, adopted, changes, lagged, pins, queue,
                   wanted_again, availability_changed, losing, letting_go, upgrade_required,
                   crossed, unheard, alone, ripe, stuck, looked_at, apiVars>>

\* A custody change is broadcast; the oldest is dropped when too many wait.
Tell(change) ==
    IF Len(changes) < CHANGES_WAITING
    THEN changes' = Append(changes, change) /\ UNCHANGED lagged
    ELSE changes' = Append(Tail(changes), change) /\ lagged' = TRUE

\* The membership moves, settles, and custody is computed anew.
Recomputes ==
    /\ Spends("members")
    /\ membership' \in Groups \ {membership}
    /\ adopted' = {membership'}
    /\ Tell([kind |-> "recomputed", items |-> Item])
    /\ UNCHANGED <<catalogue, unread, files, creators, online, holders, unknown, keepVars, jobs, pins, queue, wanted_again,
                   availability_changed, losing, letting_go, look, upgrade_required, crossed, unheard,
                   emergencyVars, apiVars>>

\* Somebody adds a file to an item, and the entry arrives.
FileAdded(item, f) ==
    /\ Spends("files")
    /\ f \notin catalogue[item].files /\ catalogue[item].files # {}
    /\ catalogue' = [catalogue EXCEPT ![item].files = @ \cup {f}]
    /\ unread' = unread \cup {item}
    /\ UNCHANGED <<files, creators, membership, online, holders, unknown, keepVars, jobs, pinVars,
                   emergencyVars, apiVars>>

\* The projection reads an item that changed, whoever changed it, rechecks it
\* as a job of Keeping ...
Projects(item) ==
    /\ item \in unread /\ ~ Busy("projection", item)
    /\ unread' = unread \ {item}
    /\ jobs' = jobs \cup {NewJobOf("projection", item, "recheck", catalogue[item].files, catalogue[item].creators)}
    /\ UNCHANGED <<catalogue, files, creators, membership, online, holders, unknown, keepVars, pinVars,
                   emergencyVars, apiVars, left>>

\* ... and then writes its row, so that no row is newer than what is held;
\* custody follows the row.
Projected(j) ==
    /\ j.why = "projection" /\ j.step = "row"
    /\ files' = [files EXCEPT ![j.item] = j.files]
    /\ creators' = [creators EXCEPT ![j.item] = j.creators]
    /\ jobs' = jobs \ {j}
    /\ LET mine == \E group \in adopted : is_custodian(group, j.item, [creators |-> j.creators, size_bytes |-> 0], me) IN
       Tell([kind |-> IF mine THEN "mine" ELSE "not mine", items |-> {j.item}])
    /\ UNCHANGED <<catalogue, unread, membership, online, holders, unknown, keepVars, adopted, pins, queue,
                   wanted_again, availability_changed, losing, letting_go, look, upgrade_required, crossed,
                   unheard, emergencyVars, apiVars, left>>

NeedsUpgrade ==
    /\ Spends("upgrades") /\ ~ upgrade_required
    /\ upgrade_required' = TRUE
    /\ UNCHANGED <<keepingVars, adopted, changes, lagged, pins, queue, wanted_again,
                   availability_changed, losing, letting_go, look, crossed, unheard, emergencyVars, apiVars>>

----------------------------------------------------------------------------
(* The API.                                                                *)

\* library.download, up to its answer: only of a member that pledges enough.
Downloads(item) ==
    /\ Spends("downloads")
    /\ me \in DOMAIN membership /\ membership[me] >= min_bytes
    /\ files[item] # {} /\ ~ Busy("download", item)
    /\ jobs' = jobs \cup {NewJob("download", item, "start")}
    /\ UNCHANGED <<worldVars, keepVars, pinVars, emergencyVars, apiVars>>

\* With room for it, it is registered, and goes on in the background.
Registers(j) ==
    /\ j.why = "download" /\ j.step = "register"
    /\ Goes(j, [j EXCEPT !.step = "tag", !.task = next_task + 1])
    /\ start_download
    /\ UNCHANGED <<worldVars, keepVars, pinVars, emergencyVars, uploadVars, left>>

\* finish_download_in_background: finished or failed, once.  One refused for want
\* of room was never registered.
DownloadEnds(j) ==
    /\ j.why = "download" /\ j.step = "done"
    /\ jobs' = jobs \ {j}
    /\ IF j.task = 0 THEN UNCHANGED taskVars
       ELSE end(j.task, IF j.result = "ok" THEN "Finished" ELSE "Failed")
    /\ UNCHANGED <<worldVars, keepVars, pinVars, emergencyVars, uploadVars, left>>

Adds(item, fs) ==
    /\ Spends("adds")
    /\ fs # {} /\ catalogue[item].files \in {{}, fs} /\ ~ Busy("add", item)
    /\ jobs' = jobs \cup {NewJobOf("add", item, "start", fs, {})}
    /\ UNCHANGED <<worldVars, keepVars, pinVars, emergencyVars, apiVars>>

AddEnds(j) ==
    /\ j.why = "add" /\ j.step = "done"
    /\ jobs' = jobs \ {j}
    /\ add_returns(j)
    /\ UNCHANGED <<worldVars, keepVars, pinVars, emergencyVars, taskVars, left>>

\* POST /upload, and library.add given uploads, the scenario's once each.
Uploading ==
    /\ \/ \E u \in Upload : Spends("uploads") /\ receive(u)
       \/ /\ left.calls # <<>>
          /\ AddsUploads(Len(left.calls), Head(left.calls).item, Head(left.calls).uploads)
          /\ left' = [left EXCEPT !.calls = Tail(@)]
    /\ UNCHANGED <<keepingVars, pinVars, emergencyVars, taskVars>>

Receiving ==
    /\ \/ \E u \in Upload : ReceiveEnds(u) /\ UNCHANGED jobs
       \/ \E c \in calls : (take(c) \/ Imports(c)) /\ UNCHANGED jobs
       \/ \E c \in calls : Begins(c)
    /\ UNCHANGED <<worldVars, keepVars, pinVars, emergencyVars, taskVars, left>>

Leaves ==
    /\ Spends("leaves")
    /\ \E c \in calls : Abandons(c)
    /\ shared' = (shared \/ AddedOverTheLimit)
    /\ UNCHANGED <<worldVars, tags, here, held, used, overtaken, evicted, pinVars, emergencyVars, taskVars>>

----------------------------------------------------------------------------
(* Failures.                                                               *)

\* The node stops and starts: what was under way is gone, downloads with it;
\* the replay reads the document again and says what is held, and custody's
\* first pass comes after it; the tags say what is kept.
Restarts ==
    /\ Spends("restarts")
    /\ jobs' = {} /\ making_room' = {}
    /\ files' = [item \in Item |-> catalogue[item].files] /\ unread' = {}
    /\ creators' = [item \in Item |-> catalogue[item].creators]
    /\ held' = {item \in Item : Whole(item, catalogue[item].files)} /\ overtaken' = {}
    /\ shared' = (shared \/ AddedOverTheLimit)
    /\ pins' = [item \in Item |-> IF kept_for("custody", item) # {} THEN "Kept" ELSE "none"]
    /\ changes' = <<[kind |-> "recomputed", items |-> Item]>> /\ lagged' = FALSE
    /\ queue' = <<>> /\ wanted_again' = {} /\ availability_changed' = {}
    /\ losing' = {} /\ letting_go' = {} /\ look' = FALSE /\ crossed' = {}
    /\ unheard' = {}
    /\ alone' = [item \in Item |-> "none"] /\ ripe' = {} /\ look_alone' = TRUE /\ stuck' = {}
    /\ looked_at' = membership
    /\ registered' = <<>> /\ next_task' = 0 /\ telling' = <<>> /\ told' = <<>>
    /\ opens
    /\ UNCHANGED <<catalogue, membership, online, holders, unknown, tags, here, used, evicted, adopted,
                   upgrade_required>>

Panics(j) ==
    /\ Spends("panics")
    /\ \/ fetch_panicked(j) /\ UNCHANGED <<emergencyVars, apiVars>>
       \/ CopyPanics(j) /\ UNCHANGED <<pinVars, apiVars>>
       \/ /\ j.why = "download" /\ j.step = "fetch"
          /\ jobs' = jobs \ {j}
          /\ end(j.task, "Failed")
          /\ UNCHANGED <<worldVars, keepVars, pinVars, emergencyVars, uploadVars>>

----------------------------------------------------------------------------

Working ==
    /\ \E j \in jobs : Works(j)
    /\ UNCHANGED <<pinVars, emergencyVars, apiVars, left>>

Pinning == Loop /\ UNCHANGED <<emergencyVars, apiVars, left>>

Emergencies ==
    /\ EmergencyLoop \/ \E item \in Item : DelayPasses(item)
    /\ UNCHANGED <<pinVars, apiVars, left>>

Answering ==
    \/ \E j \in jobs : Registers(j) \/ DownloadEnds(j) \/ AddEnds(j)
    \/ \E id \in DOMAIN telling : Publishes(id) /\ UNCHANGED <<keepingVars, pinVars, emergencyVars, uploadVars, left>>
    \/ Receiving

Projecting == (\E item \in Item : Projects(item)) \/ (\E j \in jobs : Projected(j))

Collecting == Collects /\ UNCHANGED <<pinVars, emergencyVars, apiVars, left>>

Happens ==
    \/ AvailabilityMoves \/ Recomputes \/ NeedsUpgrade \/ Restarts \/ Uploading \/ Leaves
    \/ \E item \in Item : Downloads(item) \/ \E f \in File : FileAdded(item, f)
    \/ \E item \in Item, fs \in SUBSET File : Adds(item, fs)
    \/ \E j \in jobs : Panics(j)

Next == Working \/ Pinning \/ Emergencies \/ Answering \/ Projecting \/ Collecting \/ Happens

\* Every task goes on for as long as it can: tokio runs what is ready.
Fairness == WF_allVars(Working) /\ WF_allVars(Pinning) /\ WF_allVars(Emergencies) /\ WF_allVars(Answering \/ Projecting)

Spec == Init /\ [][Next]_allVars /\ Fairness

----------------------------------------------------------------------------
(* Properties.                                                             *)

TypeOK == PinsTypeOK /\ EmergencyTypeOK /\ Cardinality(making_room) <= 1

\* In the end whatever this node is custodian of and somebody can serve is kept
\* whole, or there is no room for it; whatever it is not is let go of once
\* enough copies are elsewhere.  Not promised: what a panic, an overtaken
\* recheck or a crossed release left behind (pins.rs run).
CustodyInTheEnd ==
    <>[](\A item \in Item :
            \/ item \in crossed \cup overtaken
            \/ /\ (item \in my_items /\ Serves(item)) =>
                      pins[item] \in {"Kept", "WaitingForRoom"}
               /\ (item \notin my_items /\ ~ upgrade_required /\ enough_copies_elsewhere(item)) =>
                      kept_for("custody", item) = {})

\* In the end no item is left with one live copy that is this node's to copy,
\* unless its copy panicked or failed with no look to come, it was evicted here,
\* or the membership changed after the last look: none of those brings about
\* another (emergency.rs look, copied).
CopiedInTheEnd ==
    <>[](\A item \in Item :
            (item \in AloneNow /\ is_mine_to_copy(item)) =>
                item \in stuck \cup evicted \cup overtaken \/ looked_at # membership)

\* Every download ends, and is told of (tasks.rs Download, Drop).
DownloadsEnd == <>[](\A id \in DOMAIN registered : registered[id] # "Running" /\ id \in DOMAIN told)

\* What the node says of itself is so, while fetches, evictions, releases,
\* rechecks and downloads interleave: what it holds is kept, what is kept is
\* whole and within the limit, who waits has a reason, and a task told as ended
\* has ended (storage.rs, pins.rs, tasks.rs).
KeepingInv ==
    TypeOK /\ HeldIsKept /\ WithinLimit /\ KeptIsWhole /\ WaitsForRoomOnly /\ ToldIsStored

\* What clients began ends: their downloads are told of and their uploads are
\* used up or removed, whatever failed or went away (tasks.rs, uploads.rs).
RequestsEnd == DownloadsEnd /\ UploadsGoInTheEnd

=============================================================================
