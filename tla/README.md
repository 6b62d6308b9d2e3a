# distlib in TLA+

TLA+ models of [distlib](../src/README.md), a media library shared by a closed
group with no central server, the TLC configurations that check them on small
instances, and theorems about them checked by TLAPS.

The models follow the system from its bottom to its top: who is in the group
and how every node comes to agree on it (`distlib-consensus`), how the endpoint
enforces it (`distlib-net`), what the members say and write to each other
(`distlib-sync`), who keeps which copy (`distlib-custody`), and what a client
reads and asks for (`distlib-store`, `distlib-api`).

## The system

A group is a log. Members sign events (admit, expel, pledge, change the core
group, raise the protocol, approve, withdraw); Raft, run by the few *core*
nodes, orders them; every node folds the same log into the same
`MembershipState`, and derives from it whom it talks to. Everything else -
catalogue, availability, custody - takes its idea of "the members" from that
fold.

| Component | State | Operations | Depends on |
|---|---|---|---|
| membership projection (`state.rs`, `event.rs`) | members, core map, pending proposals, `changed_at`, settings, protocol | `apply`: found, submit, approve, withdraw, enact, supersede, sweep | nothing: a pure fold |
| member log service (`raft/memberlog.rs`) | the committed log, the server's seat | serve a page from a cursor, redirect, relay a proposal, answer with the directory | projection, seat |
| follow loop (`raft/follower.rs`) | projection and cursor in memory and on disk, sources | ask core nodes in turn, fold a page, store, announce, stop | member log, allowlists of both ends |
| role and seat (`node.rs`, `raft/seat.rs`, `raft/state_machine.rs`) | seat, promotion, generation, watches, snapshot | take the seat, stand down, abort and restart tasks, build snapshots, publish the allowlist | follow loop, Raft's worker |
| core group (`raft/core_group.rs`, `raft/network.rs`) | Raft's configuration, learners | compare and submit one change, finish an inherited change, retire learners, forget | projection, every node's seat, Raft |
| proposing (`node.rs`, `methods.rs`) | nothing kept | read, sign against `changed_at`, send, retry once, wait until applied | member log, Raft |
| connection gate (`hooks.rs`, `allowlist.rs`, `connections.rs`) | allowlist, Raft exception, open and cached connections | check, record, evict, let go of the moved | role and seat |
| announcements (`gossip.rs`, `directory.rs`) | what each member said of its address | announce, learn, ask a core node | gate |
| availability (`distlib-sync/availability`) | who is online, who holds what | beat, state, publish a list, hear, expire, fetch a list, forget | gate, members |
| catalogue (`catalogue.rs`, `changes.rs`) | a replicated document; what is offered, missing, pending | write, merge, offer peers, sync again, sweep for content, batch changes | members, directory |
| read model (`distlib-store`) | SQL rows and search index | replay, project, commit, rebuild | catalogue, members |
| custody (`service.rs`, `settling.rs`, `view.rs`, core `custody.rs`) | the settled group, the items that are one's own | settle, whole pass, follow an item | members, read model |
| pins, storage, emergency (`pins.rs`, `storage.rs`, `emergency.rs`) | pins, tags, cache order, items alone | queue, make room, fetch, release, evict, copy | custody, availability, blobs |
| probes (`probes.rs`, `failed_copies.rs`, `suspects.rs`, `coverage.rs`) | one's own failures, failed copies, who is red, who is low | probe, record, clear, age, judge | document, availability, members |
| API (`tasks.rs`, `uploads.rs`, `methods.rs`) | tasks, uploads | download, upload, add, rate, wish, check | all of the above |
| CLI, runtime, UI | nothing over time | start, stop, translate calls | all of the above |

How they interact: the follow task or Raft's worker writes the state machine
and sends on two *watches* (membership, Raft membership); `serve_role`,
`follow_membership` and `core_group::enact` each wait on those watches and act;
the allowlist they publish gates every connection, including the ones the log
itself arrives on. On top of it, members beat and announce over gossip, keep one
document in step, and each runs loops that turn document, membership and beats
into rows, pins, copies and probes. All of these loops meet in shared state -
tags, blobs, the document - and give way at every await. The hard behaviours:

* *a closed loop*: a node that enforces the wrong membership may cut itself off
  from the log that would correct it;
* *interleaving*: five tasks of one node share the state machine, and aborting
  one does not stop a write it has already handed to a blocking thread; four
  kinds of work share the blobs and the room for them;
* *replay*: a promoted node blanks its projection and folds its whole past
  again; a restarted read model reads the whole document again;
* *crashes* between the steps of a promotion, of a commit to two stores, of an
  add;
* *different speeds*: servers, followers, leaders and custodians act on
  different prefixes of one log;
* *two configurations*: what the log says the core group is, and what Raft's
  configuration is on the way there;
* *unreliable delivery*: beats, announcements and lists arrive late, twice, out
  of order or not at all; answers to proposals are lost after the commit;
* *no timer*: announcements, waits for room, emergency looks and offers happen
  on events, and an event missed is a thing that never happens;
* *failure detection by refusal*: a refused connection is the only way to learn
  of one's own expulsion.

`PROJECT.json` lists the hazards with their lines and the properties that cover
them.

## Modules

| Module | Models | EXTENDS |
|---|---|---|
| `MembershipState` | `MembershipState::apply` and all it calls | |
| `MembershipHistory` | the same with a history variable: when each seat last moved | `MembershipState` |
| `MemberLog` | the committed log and the servers that answer `Request::From` | |
| `Follower` | one follower's loop over several servers | `MemberLog` |
| `Seat` | one node's tasks across promotions, demotions and crashes | |
| `CoreGroup` | the leader's reconciliation with every node's half of it, over Raft | |
| `Proposing` | calls that propose, the core node that relays, Raft's commit | |
| `Gate` | `follow_membership`, the hooks, the evictor, handshakes, cached connections | |
| `Announcing` | the gossip topic, every node's directory | |
| `WhatIsHeld` | what a node promises about another's holdings (abstract) | |
| `Availability` | one member's heartbeat and one listener; implements `WhatIsHeld` | |
| `Ranking` | who keeps which item (pure) | |
| `Custody` | one node's custody service | `Ranking` |
| `Keeping` | blobs, tags, limit, holdings, and the jobs that bring content in | `Ranking` |
| `Pins`, `Emergency`, `Uploads` | three loops over them | `Keeping` |
| `Tasks` | the registry of downloads | |
| `KeepingNode` | composition: one node's keeping, with its API and its restarts | the four above |
| `Document` | keys, entries, merge, and what is read from them | |
| `Catalogue` | the document kept in step, and the loops beside it | `Document` |
| `ReadModel` | the projection loop, rows and search index | `Catalogue` |
| `Library` | composition: catalogue, read model, calls, restarts | `ReadModel` |
| `Probes` | probes and what is made of them | `Document`, instance of `Ranking` |
| `MC*` | instances for TLC | |
| `LogProofs` | theorems about the log: the fold and a follower | `MembershipHistory`, `Follower` |
| `CoreGroupProofs`, `ProposingProofs`, `ProbesProofs`, `LibraryProofs` | theorems about the module of that name | that module |
| `SeatAndGateProofs` | theorems about one node's seat and its gate | `Seat`, `Gate` |
| `HoldersAndCustodyProofs` | theorems about availability and custody | `Availability`, `Custody` |
| `KeepingProofs` | theorems about one node's keeping | `KeepingNode` |

Definitions keep the names of the code; `PROJECT.json` maps each to its lines.
`x_mutant` beside `x` is `x` with a plausible mistake, for `PROJECT.json`'s
mutants; no specification uses it. Where two modules are proved about together,
one of them carries its own name in what both have: `GateInit`, `GateSpec`,
`AvailabilityTypeOK`, `FollowerSpec`. Several modules take a set of *scenarios* as
a constant: an initial state and a budget of what may happen (`left`, `may`,
`scenario`). TLC explores all interleavings of each; scenarios keep apart
combinations whose product would only be larger.

### MembershipState

The variables are the fields of the struct, plus `log_index`, the entry handed
over last. An entry is one step. It either applies - `Found`, `SubmitDecided`,
`SubmitWaiting`, `ApproveWaiting`, `ApproveDecided`, `Withdraw` - or leaves the
state alone (`NoEffect`: a blank or configuration entry, or one a rule
refused). Enacting, superseding other proposals and the trailing sweep of
expired ones are part of the step that causes them. An entry carries the
`changed_at` it was signed against, and is refused unless that is current.
Display names, reasons and signature bytes are abstracted.

### MemberLog and Follower

A server, seated or retired, has applied some prefix, enforces an allowlist of
its own pace, and answers a cursor with a page, a redirect, or nothing. A page
holds at most `EVENTS_PER_FETCH` events and may end after blank entries; pages
are non-deterministic in how far they reach. The follower's pass is
one exchange per step, since the loop awaits one at a time; a page is folded
event by event, then stored and announced, and the process may stop between
any two of these steps. The fold in `MemberLog` is a coarser one: found, admit,
expel, change of core, raise, blank, and an event this build cannot decode
("alien"), with the staleness check of the real one.

### Seat

Every prefix of the log folds to one state, so a projection is represented by
its `changed_at`, and the log by what it says about this node: promoted
("in"), demoted ("out"), made a voter, removed, joint, other. Each task is a
small program counter split where the code awaits or takes a lock: follow
(fetch, fold, store), Raft's worker (apply, store, announce twice), snapshot
builder (capture, store), `serve_role` (see, prepare, reset, sit down, vacate,
resume) and `follow_membership` (read, publish).
The log is wholly committed from the start; the node reads it at its own pace,
in steps of any length, which covers every way it could have grown.

* `SitDown` waits until an aborted follow task has left its fold: between its
  last await and the write it has only a lock to take, while the promotion goes
  through a transaction and `Raft::new`.
* `Vacate` waits for the worker, as `Raft::shutdown` joins it.
* `bound.resets` and `disk.resets` are history variables, for
  `SnapshotIsOfThisProjection` only.
* `RetiredByALaterDemotion` asks for a demotion that no promotion followed up to
  the position the seat was taken at. That position may be past the demotion:
  after a crash it is the `changed_at` of the stored membership, to which other
  decisions may have been added since (scenario `MCLingers`).

### CoreGroup

Raft is external (openraft 0.9.25): one log of which each node holds a prefix;
only what is not committed can be dropped by a new leader; a majority of every
voter set in force commits. `change_membership` is modelled by its two rounds -
the joint configuration, then the flat one - and by the requests it refuses;
it answers once its entry is applied on the leader, so `task` waits for that
(`Answered`) before the second round (`Flatten`) or the next pass (`Returned`).
The code's part is `pass` (compare, and pick one change by `next_change`),
`Submit`, `retire_learners`, `forget_retired`, and on each node
`take_the_seat`, `may_retire`, `stand_down`, `may_speak_raft`. An entry carries
the core group and the configuration in force after it.

* `Prompt` says that nobody is elected before it has applied what it knew to be
  committed; convergence is checked with it (see [Observations](#observations)).
* A leader that its own uncommitted entry drops may lead again: openraft
  allows it.
* A promotion may be taken back before the leader has added the node, while it
  does, or after. Four exceptions come of it, each its own definition:
  `TakenBack`, `VoterIsGone`, `MadeVoterTooLate`, and, where a node is promoted
  once more, `PromotedAgain` (see [Observations](#observations)).
* A learner is reachable by id even at an old address (iroh resolves ids), so
  `Readdress` is about the configuration, not about reachability.

### Proposing

A call is a program counter: read the membership, build the event, sign it
against the `changed_at` of now, send it to the leader or through a core node,
wait for an answer, try another, wait until the index is applied here. The
answer may be lost after the write, the write may be lost after a deposition,
and a write outlives its caller. The log keeps with each entry whose it is, what
it was signed against, what its caller had read, and whether it took effect.
`announce_protocol_support` is a call that looks again until its record says
what the build speaks.

### Gate

`follow_membership` is split as it runs: read, let go of the moved, replace the
list, tell. `EvictOnce` closes what the lists no longer admit. A
handshake is checked (`Dial`, `Incoming`) and recorded (`Remember`) in two steps, as
`after_handshake` does. `missed` is a history variable: connections checked
before, and recorded after, the pass that should have closed them.

### Announcing

Every node has a directory (member, address, the log position it was said at).
`Announces` is said to everybody on the topic; deliveries are in any order. A
node that joins asks one core node for its directory once. A core node's own
address is in the log and needs no announcement.

### Availability and WhatIsHeld

`WhatIsHeld` is the promise: a node says nothing about a member or exactly what
that member said in the beat last accepted, and within one run accepts no
earlier beat. `Availability` is the code: epochs and sequence numbers, a
published base list and a difference on top of it, lists fetched by tasks of
their own, expiry, goodbyes, expulsion. The refinement mapping is in
`Availability`:

    Promise == INSTANCE WhatIsHeld WITH
        said <- said, heard <- HeardAt,
        view <- IF stated.is = "known" THEN {index} ELSE {}

`said` is a history variable, `HeardAt` the place in it of the beat last
accepted. Every step of the listener is a `Hears`, a `Learns`, a `Forgets` or a
stutter; beats are only ever known by what their sender held when it sent them.

`standing` is a history variable: the place in `said` of the beat the member
went offline by, a goodbye or one that ran out, for as long as the listener
remembers it. A beat of another run makes the listener forget it, and so does
losing the record with the membership. `GoodbyeStands` says that until then
nothing older brings the member back. The comment (`online.rs:51-53`) makes no
such exception (see [Observations](#observations)).

`KnownInTheEnd` compares with what the member *said* last, not with what was
heard last. A member that stays up goes on beating in the code, and in the model
stops (`Settled`); so its last beat stands for all that would follow: it is not
lost, waits for the membership to admit its sender, and beats of earlier runs
arrive before it (`InTime`).

### Ranking and Custody

`Ranking` is a set of pure operators: weight of a pledge, the order of the
weighted members for an item, how many custodians an item has. Rendezvous
scores are data (an order per item). `Custody` runs settling, the whole pass
with its read of the store before and its publication after the await, and the
events in between, over a channel that lags.

### Keeping, Pins, Emergency, Tasks, Uploads, KeepingNode

A *job* in `Keeping` is one piece of work on one item and the step it is at:
room, evict, register, fetch, tag, export, recheck, set and, for an add, write
and own. Room is planned under a lock
and taken after it. `Pins` is the manager's loop (wanted, queued, fetching,
kept, waiting for room, failed, releasing), `Emergency` the loop that watches
for items with one live copy, `Uploads` and `Tasks` the API's state.
`KeepingNode` composes them with the world: members, files and holders move,
the node restarts, jobs panic.

The document (`catalogue`) and the read model's rows (`files`, `creators`) are
two things: an entry makes its item `unread`, the projection reads it, rechecks
what is held (a job like the others, which gives way between reading and
recording), and only then writes the row and tells custody (`Projected`). The
row and the telling are one step: custody reads the row when it is told.

History variables name what the code does not promise: `shared` (the limit gone
past: room promised twice, and the other ways listed under
[Observations](#observations)), `overtaken` (a recheck overtaken by a change),
`crossed` (an answer "no room" that crossed with a release), `unheard` (a change
heard to no avail), `stuck`, `evicted`, `passed_over`. `WithinLimit` ends with
the first step that sets `shared`; the other exceptions are of single items and
end when the item is rechecked, fetched or asked about again.

### Document, Catalogue, ReadModel, Library

A document is a set of entries (key, author, time, value); merging keeps the
last per key and author. iroh-docs is external: rounds, neighbours, content
that arrives later than its entry. `Catalogue` has the pump (`changes.rs`), the
offers, the rounds asked for once more and the content sweep with its waits.
`ReadModel` has the projection: mark, replay or take a batch, read, write rows,
commit the index. `Library` adds the API's writes, each a check followed by one
entry after another, and crashes.

Each step of the projection may fail as in the code, where a failure is logged
and the work goes on: an item, a bookmark or a wish is not read or written, the
table of members is not, the replay cannot list what it should go over and is
dropped, a commit of the index fails (what was written to it is then committed
by a later one, or lost). `skipped` is a history variable of what a failure kept
from rows or search, until something comes to it again: `<<kind, id>>`,
`MembersRow`, `<<"commit", item>>`. `stale` is another: bookmarks that the last
replay did not come to (`Unlisted`), as they are deleted, or hidden under their
key by a newer deletion of another member. Nobody's deletion is under a wish's
key in the scenarios, where it would hide the wish from a replay the same way;
no node writes such an entry.

### Probes

The probe loop (choose a suspect or at random, probe one chunk, record or clear
in the document), the follower of failed copies, `suspects`, coverage; other
members write honest and forged failures. Time is a counter with a window.

`record` gives way between memory and the document, and is two steps: a pass is
forgiven in memory (`PassIsForgiven`) and then cleared in the document
(`FailureIsCleared`); a failure is written (`FailureIsWritten`) and then kept in
memory (`FailureIsKept`). Either write may fail, and a check is made in the
request of its caller, who may leave at any point of it (`Abandoned`). `apart`
is a history variable: the custodians of whom a probe was recorded halfway.

## Runs

Bounds are constants of the `.cfg` files and are named in the modules. Times
are for two workers. A property that is a conjunction lists its parts; the type
invariant of the module is one of them.

| Run | Checks | Bounds, and why they are enough |
|---|---|---|
| `membership` | `FoldInv` (`TypeOK`, `CoreAreMembers`, `CoreNeverEmpty`, `CoreSpeaksProtocol`, `OneProposalPerSubject`, `PendingIsFresh`, `TargetHasNoSay`, `PledgeKeepsTheMinimum`), `WaitingMapsAgree`, `VotersMoveByMajority`, `ProtocolClimbs` | three people, founded alone or by three, five log entries, expiry three, two addresses: a proposal can gather approvals, lose them to an expulsion, expire and be proposed again; a map waits while another is enacted. Longer logs: the theorems. ~1 min |
| `follow` | `FollowerInv` (`FollowsAPrefix`, `StopsAtARaise`, `UpgradeIsReal`), `CatchesUp`, `ExpulsionEndsTheLoop` | two servers at different speeds, pages of two, any events up to four entries, a failed write, a crash; a seat that moves to nodes admitted on the way, read as it moves or found two moves later. ~3 min |
| `seat` | `SeatInv` (`SnapshotIsOfThisProjection`), `RetiredByALaterDemotion`, `NodeSettles` (`RoleSettles`, `AllowlistSettles`) | promoted, demoted before or after it was made a voter, promoted again, demoted for good, or demoted with another decision before Raft has removed it; a crash anywhere, or a snapshot. ~2 min |
| `core` | `CoreGroupInv` (`VotersAreSeated`), `JointTargetIsReached`, `GroupSettles` (`Converges`, `SeatsSettle`) | two voters replaced by a third with an outage anywhere; a voter that goes and comes back at another address; one added and another expelled; one expelled with a leader replaced anywhere; a promotion taken back, of a newcomer with an outage or of a former voter with a leader replaced. ~2 min |
| `propose` | `ProposingInv` (`OnePerMembership`, `ToldIsApplied`, `SupportSaidOnce`), `MapsUndoNothingDecidedSince`, `ProposalsEnd` (`CallsEnd`, `SupportIsSaid`) | two voters and a follower; two maps, a map and an admission, or a support announcement; one lost answer or write, one deposition: two concurrent calls are what the staleness rule is about. ~2 min |
| `gate` | `GateInv` (`OpenIsTracked`, `EvictedUnlessMissed`), `Enforces` (`AdmittedIsEnforced`, `LogIsEnforced`), `ClosesWhatItShould` (`MovedIsLetGo`, `RaftKeepsItsPeers`) | one peer, two connections, two changes of membership and of configuration, two addresses: connections to different peers do not meet. ~1 min |
| `announce` | `EverybodyIsFound`, `FallsSilent` | three nodes: all new, one joining a settled pair and moving, or one restarting. ~30 s |
| `availability` | `AvailabilityInv` (`AddsUp`, `NotShort`), `Implements`, `GoodbyeStands`, `KnownInTheEnd` | two items, differences of one, two runs of the member, three beats of which two may be under way, one fetch that fails: a beat of the old run can arrive after one of the new, its goodbye included, and a list after its successor. ~50 s |
| `custody` | `CustodyInv` (`TotalsAddUp`, `AdoptedInTime`, `ReplicasAreNamed`), `ViewIsCurrent` | three memberships, two items, a channel of one event, a settling time of two and at most three. ~35 s |
| `keeping` | `KeepingInv` (`HeldIsKept`, `WithinLimit`, `KeptIsWhole`, `WaitsForRoomOnly`, `ToldIsStored`), `CopiesOnlyTheAlone`, `CustodyInTheEnd`, `CopiedInTheEnd`, `RequestsEnd` (`DownloadsEnd`, `UploadsGoInTheEnd`) | three items of which two do not fit together, ten scenarios, two fetches at a time. ~1 min |
| `library` | `LibraryInv` (`SearchAgrees`, `OnlyTheirOwnWords`), `WishesStand`, `ShownInTheEnd`, `SyncedInTheEnd` (`CaughtUp`, `ContentInTheEnd`, `OfferedInTheEnd`) | up to three members, two items, one wish, twenty scenarios: each kind of failure, and bookmarks hidden before a start, before an expulsion and before a restart, are in one of their own. ~3 min |
| `probes` | `ProbesInv` (`CacheIsTheDocument`, `RedByTwo`), `ClearedInTheEnd`, `FoundInTheEnd` (`LostIsFound`, `FailedCopiesInTheEnd`), `LowInTheEnd` | two others of which one may lie, two items, a window of two, thirteen scenarios, of which in two a check is abandoned. ~4 min |

Every property has a mutant in `PROJECT.json`: an operator next to the one it
mutates, with the plausible mistake its comment names, that makes TLC report
the property violated.

Deadlock is not checked: logs, beats and budgets are bounded, so every model
stops when they are spent, and a follower that was expelled or must be upgraded
really does stop.

### Observations

What the code does and a comment beside it does not say, met while modelling.
Where a property would fail because of one, the property names it as an
exception, and nothing else is excepted.

Consensus:

* A member that can reach only a core node that has not applied its admission
  yet concludes it was expelled, and stops for good (`follower.rs:231-233`: "So
  it was in the group and is not now"). `TakenForExpelled` in `CatchesUp`.
* A page whose write failed is not fetched again: memory, and with it the
  cursor, has already moved (`state_machine.rs:314`); `follower.rs:214-216` says
  "try the same thing again shortly". `PageNotStored` in `CatchesUp`.
* A follow task aborted by a promotion may fold its page into the blanked
  projection and its write may land: a stored cursor ahead of the projection
  (`state_machine.rs:81-84`, `node.rs:484-488`). After a crash the node may stay
  behind. `~ CursorIsFolded` in `NodeSettles`.
* A leader elected while its state machine still replays reads an old core
  group, and asks for voters back that have just retired (`core_group.rs:359`).
  With `Prompt = FALSE` `Converges` fails.
* A leader that is expelled while a node promoted before has not taken its seat:
  the promoted node keeps only members when it prepares its promotion, does not
  listen to that leader, never catches up, and `next_change` removes nobody
  before it has. The group stays so until the leader is replaced.
  `ExpelledLeads` in `GroupSettles`.
* A promotion taken back before the leader has added the node leaves it seated
  and hearing nothing, as `plan-deltas.md` says (C46). "A retained learner
  normally receives replication and recovers", it says further; one that is
  promoted and demoted again with no configuration change in between does not:
  every configuration it can apply is older than its seat, and `may_retire`
  (`node.rs:1502`) wants a newer one. `TakenBack` in `GroupSettles`.
* A promotion taken back while the leader acts on it: `next_change` compares
  with what the leader has applied (`core_group.rs:354`), and the node may have
  stood down by then. It is made a voter all the same, does not come back, and a
  joint configuration that needs it is never committed. `VoterIsGone` in
  `GroupSettles`, `MadeVoterTooLate` in `VotersAreSeated`.
* While a newcomer is away, `next_change` waits for it before it removes
  anybody, so an expelled voter keeps its vote for as long.
* `propose_core` reads the map, and `propose` signs against `changed_at` read
  again (`methods.rs:518`, `:536`, `node.rs:1101`): what was applied in between
  is undone. That is all that is undone: `MapsUndoNothingDecidedSince`.
* `state.rs:416` says a waiting proposal always has fewer approvals than it
  needs. When the core group shrinks, the threshold shrinks under it, and a
  proposal may wait with enough approvals until somebody approves it again.
* `group_settings.rs:33-35` describes the expiry in changes; `state.rs:289`
  counts log indexes, of which refused entries and Raft's own entries use some.
* `node.rs:1808-1809` says a replayed projection must not replace the
  allowlist. `follow_membership` reads the membership before it asks whether a
  replay is on, so an old membership may be enforced for a moment;
  `AllowlistSettles` shows it does not last.
* `core_group.rs:196-203` guards against expulsions that empty the core group.
  `CoreIsNeverEmpty` proves there are none.

Endpoint and gossip:

* A handshake checked before an expulsion is published and recorded after the
  eviction's pass stays open until the next eviction (`hooks.rs:341`, `:121`).
  `missed` in `EvictedUnlessMissed`.
* `gossip.rs:10-12` says a node "keeps the highest it has seen" of the hints;
  the watch keeps the last. A hint is only a reason to look.
* A beat of an earlier epoch that arrives late brings a member back until it
  runs out, as any other epoch counts as a new run (`online.rs:91`), and what
  took the member offline is forgotten with the record it replaces: a beat sent
  before that brings the member back too, against `online.rs:51-53`. The
  exception in `GoodbyeStands`.

Keeping:

* `ask_again_for_room` misses an item whose answer "no room" is on its way
  (`crossed`).
* The limit may be gone past in more ways than an emergency copy and an add
  that found too little to evict. What was evicted and not collected yet, or is
  about to be, and is tagged again, counts at once. A file that is wanted and
  here costs nothing in `uncounted_bytes`, also when only the items to be evicted
  keep it, and is fetched again after them. An add imports before it asks for
  room, and a file that was tagged and absent counts from then. An add that
  tagged its files and stops before it made room, because its client or the
  whole node goes away, leaves that to whoever asks next. All are `shared` in
  `WithinLimit`.
* `read_custody_again` does not ask again for an item being fetched
  (`pins.rs:313-323`). One that got a file since its fetch began, and whose own
  event was dropped by a lag or said that it is not this node's, counts as kept
  without the file until it changes once more. The same holds of a kept item
  whose new file is here for another reason, as `holds` asks for any reason.
  `unheard` in `KeptIsWhole`.
* `Holdings::recheck` overtaken by an eviction, a release or a new file says the
  node holds what it does not, until the next recheck (`overtaken`).
* The emergency loop is not woken by a change of membership, by the eviction of
  its own copy, nor after a copy that failed with no look to come. A copy that
  panics stays `Copying` for ever, although the log message says it is looked at
  again (`emergency.rs:148`).
* `uploads.rs:14-22` says `library.add` "removes every upload it was given
  whether it succeeds or fails"; `take_uploads` (`methods.rs:1107-1125`) stops
  at the first unknown one and leaves the later ones until a restart
  (`passed_over`).
* An add abandoned between the write to the catalogue and the tags leaves an
  item announced with nothing kept (`methods.rs:1053`).

Library and probes:

* The replay after a restart goes over the items that have bookmarks now
  (`catalogue.rs:895`), so an item whose only bookmark was deleted just before
  the crash keeps its row, against `projection.rs:232-235`. `stale` in `ShownInTheEnd`.
* `bookmarked_item_ids` takes the newest entry under a key, whoever wrote it
  (`catalogue.rs:897`), and `read_bookmarks` the newest of its member. A newer
  deletion of another member under the key hides a bookmark from every replay:
  a fresh read model does not show it, one that saw it come does, and one of a
  member expelled stays. `stale` again.
* A commit of the search index that fails is logged and not tried again
  (`projection.rs:393`); the events of the batch go out all the same, against
  `projection.rs:51-52`. Search and rows differ until something else is
  committed, or, if what was written is lost, until the item changes.
  `<<"commit", i>>` in `SearchAgrees`.
* A replay that cannot list what it should go over is dropped
  (`projection.rs:490`), and the table of members, when it cannot be written,
  waits for the next change of the membership (`projection.rs:537`). `skipped`
  in `ShownInTheEnd`.
* `record` on a pass forgets the failure before the write that clears it, and
  remembers one only after it is written (`probes.rs:487-501`). A write that
  fails is not tried again, and a check whose caller leaves between the two ends
  there: the failure stays in the document, this node goes by a memory that has
  none, and no pass clears it until a restart or another failure, although the
  header says the next pass does. `apart` in `ProbesInv` and
  `ClearedInTheEnd`.
* A failed read in `failed_copies::follow` leaves no timer
  (`follows.stage = "failed"` in `FoundInTheEnd`).
* A pass at any chunk clears a failure recorded at another; a prober that has
  just raised its pledge is refused by a custodian behind on the log, and
  records a failure; a slow answer is a failure; others' failures are checked
  again only while this node has none of its own announced.

### Fairness

Weak fairness, of what the code's runtime keeps running: the follow loop
(it wakes on a timer), each server's apply and allowlist tasks, Raft's worker,
`serve_role`, `follow_membership`, the evictor, `enact` (it polls), replication
and commit by a leader with a majority, an election while there is no leader,
the steps of a call (each has a timeout), beats (a timer), jobs, loops and
spawned tasks once they are runnable, deliveries that gossip accepted.
Nodes that were cut off come back.
Strong fairness in two places. In `Probes`, of the choice of each custodian:
`probe` picks at random, and who can be picked again and again is picked. In
`Library`, of the arm of `select!` that hears of new members: the others may be
ready for ever, and `select!` picks among the ready ones at random.
A crash, a panic, a failed write, an outage and a new decision
are never required to happen, except that the decisions of a `CoreGroup`
scenario are all made. `Custody`'s properties are all safety; `AdoptedInTime`
states its deadline in the model's own time.

## Theorems

The `*Proofs` modules prove every safety property of the runs (`announce` has
only liveness) for every value of the constants: any number of members, servers,
items, files, calls, entries, crashes, lost messages and elections.
Each theorem is `Spec => []Inv`, or an action property from the same invariant,
and there is one inductive invariant for each model, named `...IInv`, with a
lemma per action; `LibraryProofs` has a second one for wishes. TLC checks those
invariants on the runs' instances too, when the definitions are copied into a
module for it.

| Module | Theorem | Property |
|---|---|---|
| `LogProofs` | `FoldInvariant` | `FoldInv` |
| | `TypeCorrect`, `CoreIsNeverEmpty`, `VotersAreMembers`, `VotersSpeakTheProtocol`, `SubjectsAreDistinct`, `TargetsAreSilent`, `PendingStaysFresh`, `PledgesKeepTheMinimum` | its parts |
| | `VotersNeedAMajority` | `VotersMoveByMajority` |
| | `ProtocolNeedsAMajority` | `ProtocolClimbs` |
| | `MapsRevertNothing` | `WaitingMapsAgree` |
| | `FollowsTheLog` | `FollowerInv` |
| `SeatAndGateProofs` | `NoResetIsUndone` | `SeatInv` |
| | `OnlyALaterDemotionRetires` | `RetiredByALaterDemotion` |
| | `GateIsKept` | `GateInv` |
| | `EnforcedIsEnforced` | `AdmittedIsEnforced`, the safety part of `Enforces` |
| | `ClosesRightly` | `ClosesWhatItShould` |
| `CoreGroupProofs` | `TheGroupCanDecide` | `CoreGroupInv` |
| | `TheTargetIsReached` | `JointTargetIsReached` |
| | `CommittedEntriesStay` | no committed entry is ever dropped |
| `ProposingProofs` | `ProposalsAreKept` | `ProposingInv` |
| | `MapsUndoOnlyTheSeen` | `MapsUndoNothingDecidedSince` |
| `HoldersAndCustodyProofs` | `AvailabilityIsKept` | `AvailabilityInv` |
| | `GoodbyesStand` | `GoodbyeStands` |
| | `HoldersKeepThePromise` | `Implements`: `Availability` refines `WhatIsHeld` |
| | `CustodyIsKept` | `CustodyInv` |
| | `CustodyIsCurrent` | `ViewIsCurrent` |
| `ProbesProofs` | `ProbesAreKept` | `ProbesInv` |
| `LibraryProofs` | `LibraryIsHonest` | `LibraryInv` |
| | `WishesAreKept` | `WishesStand` |
| `KeepingProofs` | `WhatIsKeptIsKept` | `KeepingInv` |
| | `CopiesAreNeeded` | `CopiesOnlyTheAlone` |

Why each needs more than itself:

* **The fold.** The inductive invariant is `FoldInv`. `CoreNeverEmpty` needs
  `TargetHasNoSay`: an expulsion that takes effect was approved by a voter other
  than its target, who still votes after it (`EnactLeavesAVoter`).
  `CoreSpeaksProtocol` needs `CoreAreMembers`: an expelled voter leaves the core
  in the same step. `OneProposalPerSubject` needs `PendingIsFresh`, because an
  expired proposal no longer holds its subject and must be swept by the entry
  that takes its place (`SweepKeeps`). The action properties need a lemma on how
  many members a duplicate-free list names (`NamedCardinality`).
  `WaitingMapsAgree` is about `MembershipHistory`, whose history variable tells
  when each seat last moved; it is inductive with `FoldInv` beside it.
* **The follower.** That memory is the fold of a prefix is not kept by folding
  one event unless the page in hand is exactly what comes next (`PageIsNext`),
  and pages skip blank entries, so what lies between two events must fold into
  nothing. That `FoldOf`, a recursive function, is the fold entry by entry is
  proved by induction over the log (`FoldOfIsFold`).
* **The seat.** `HeldOK` says that every projection, in memory, on disk or in a
  write under way, folded every change up to what Raft applied; `BuilderOK` that
  a builder with a projection since reset has an older generation; `NamedOK` and
  `AheadOK` tie the seat and what is announced to the log. Only together do they
  exclude that an old demotion, replayed, empties a new seat.
* **The core group.** Two configurations past the commit share a voter set
  (`ConfsMeet`), because a change is taken only once the last is committed
  (`ConfsAreDated`) and goes through what `next_coherent` allows (`ChangeIs`).
  So majorities meet (`MajoritiesMeet`), and whoever is elected has all that is
  committed (`TheElectedHoldTheCommit`). Then what a node read before it stood
  down stays in the log (`RetiredOK`), and whoever is a voter without a seat
  became one after that (`BeginsSomewhere`, `VotersSit`).
* **Proposing.** `changed_at` names the entry that left the membership as it is
  (`FoldedOK`), what a call built it built from the membership at `read`
  (`Built`), and this is carried through writes to the entries they become
  (`SignedOK`): a map undoes only what lies between `read` and its signature.
* **The gate.** `EvictedUnlessMissed` speaks of a quiet moment; `NotAdmitted`
  carries it through the work and covers connections checked but not recorded.
  `Follows` and `Excepts` say what the steps of `follow_membership` have done.
* **Availability.** Every statement is `Exact` for what the member held then, so
  that taking the last change back leaves the list it was against; positions in
  `said` and sequence numbers agree within a run (`Ordered`), so that what is
  accepted is later. A goodbye or silence stands because the record held, while
  it is remembered, is of that run and no older than it (`Stood`): what is news
  to it is later still.
  The refinement is proved action by action: each step of `Availability` is a
  hearing, a learning or a forgetting of `WhatIsHeld`, or a stutter.
* **Custody.** Whatever the view, or the pass that will replace it, does not
  have as the store does, an event still to be read is about (`ViewFresh`,
  `PassFresh`). The totals are numbers of units, so that one item changes them
  by its own weight (`SumChanges`); a ranking has a first *k* for every *k*
  (`FirstAreCounted`), so that an item has its replicas.
* **Probes.** `CacheOK` ties what the node remembers to its own entries that
  are not deleted, through writes that fail, checks that are abandoned and
  restarts that read them again; `HalfOK` says what is true between the two
  steps of a recording: what is to be cleared is forgotten, and what is to be
  kept is what was written.
  Two failures of one member count as two because an entry counts only under
  the name of its author, and one author has one entry about a member.
* **The library.** What a batch is about to read and what is marked for the next
  one must cover every difference between document, rows and index (`RowsOK`,
  `KnownOK`); after a crash between the two commits, the replay that is under
  way covers it (`Redo`, `Reading`). What the index has and has not committed is
  still to be committed, or a commit failed for it (`CommitOK`), and what a
  failed commit lost is marked as such (`Lost`). Words are their author's because
  rows hold only what was read of a document whose keys name their author.
* **Wishes.** A fulfilment is prepared in one step and written in a later one,
  over what the entry has become. That it never takes a title away needs that
  what is prepared has a title exactly if this member's entry has one when it is
  written (`PlansOK`). It is read from an entry that is here (`MineHere`), of a
  wish that somebody has created (`FreshOK`), which this member does not create
  a second time (`OnceOK`). A merge brings nothing of this member's that is
  newer than what it has (`MineKept`), and of the others' only what says what
  they said (`TitlesOK`).
* **Keeping.** Which step a job is at, and which steps its kind goes through,
  comes first (`JobsOK`, `LockOK`, `PinsOK`, `ChangesOK`, `TasksOK`). Then one
  part for each promise, each of which speaks of work half done:
  - *held is whole* (`HeldOK`) is kept by a new row only because the recheck
    before it looked at the files the row will have (`AtRow`), and by a release
    only because the cache has the tags before custody gives them up
    (`CacheKeeps`); what is planned for eviction may be wanted by custody again
    only as long as that job is still to ask for room (`NoneWanted`);
  - *kept is whole* (`WholeOK`): what a custody job has yet to fetch is all that
    is missing of what it was given (`CustodyJobOK`), and if the item has grown
    since, something still to be heard, or that was heard, says so (`Known`);
  - *waiting has a reason* (`WaitsOK`): an item that does not fit does not fit
    even with everything evictable and planned gone (`Wanting`), which no other
    work makes smaller, and a release asks again;
  - *the limit* (`LimitOK`): at most one job has room promised (`HasRoom`), and
    what is counted with its files added, less what it has planned to evict,
    fits (`MakesRoom`).
  Sizes are of finite sets of units, so that a subset is never larger
  (`SizeGrows`, `Less`). `CopiesAreNeeded` needs that nothing but a look adds an
  emergency job (`BegunByALook`).

Assumptions on constants are named and say what the code guarantees: finite
sets, types and ranges of numbers; in `MemberLog`, that an event this build
cannot decode comes only after a raise past its protocol; in `Seat`, that Raft
makes a voter only of a node the log promoted; in `CoreGroup`, that a decided
core is never empty and is among the members (`CoreIsNeverEmpty` and
`VotersAreMembers` prove it of the fold); in `Ranking`, that a score orders all
nodes; in `Gate`, that the bootstrap list is among the peers; in `Probes`,
`Library` and `KeepingNode`, that scenarios are states the program can be in
(`ScenarioOK`, `KeepingNodeAssumption`: the tags are of files their items have,
and what they keep is within the limit).
Two of these say something of the code. In `Library`, nobody deletes an entry
that is an item's own, because the code deletes only ratings, reviews,
bookmarks, comments and probe failures (`catalogue.rs`, calls of
`Catalogue::delete`). Without it `SearchAgrees` fails: the replay after a crash
between the rows and the commit of the index goes over the items the document
has. And of wishes (`WishesOK`): nobody deletes one either; the id of a new one
is random (`methods.rs:878`), so that whatever others say about it, none of them
says what it is; what others wrote of a wish keeps its title, which is what
`WishesAreKept` says of the node of each of them; and what this member wrote
is on its node, which writes the content before the entry and keeps both through
a restart. A member that starts again with its identity and an empty document
is outside this. TLC evaluates all of them on the runs.

Only model-checked: every liveness property, as liveness under fairness and
`ENABLED` are beyond the proof system's reach; and, in `follow`, the behaviours
that start in the middle of a follower's life, which `MCFollower` adds to `Init`.

Proving changed the models where they could not be reasoned about or were
wrong: `RetiredByALaterDemotion` and `VotersAreSeated` failed for logs longer
than the runs had (the scenarios `MCLingers`, `MCUndone` and `MCFlips` show
where), and `change_membership` in `CoreGroup` returned before its entry was
applied. `ReadModel`'s `Stage` and `Proposing`'s `Verdict` were `CASE`s with
overlapping guards, which have no order in TLA+. `Keeping` had one set of files
for the document and for the rows, said nothing of the order of recheck and row,
and its invariants held only because no run had the cases `unheard` and most of
`shared` name; `next_to_fetch` and `evictions` chose among equals with `CHOOSE`.

## Plan

What is left, in order:

1. A node's own expulsion (`finish_expulsion`, `forget_me`) in `Seat`.
2. Several nodes' `Pins` over `Availability`: whether two former custodians may
   each count the other's copy and both let go (`pins.rs:661`).

## Not modelled, and why

* openraft, iroh, iroh-docs, iroh-blobs, redb, SQLite, tantivy: libraries,
  modelled only as the code uses them. A power loss under SQLite's
  `synchronous=NORMAL` is theirs too.
* Raft's log store: the storage contract of openraft, one transaction per call.
* A node's own expulsion, `TrustedCore` and `install_snapshot` (in `Seat`); the
  founding window and framing of the Raft protocol; the pacing of dials.
* In `Library`: the peers remembered from an earlier run, the entries of this
  node reaching others, a subscription that fails, order and paging of answers.
  Two wishes created at one instant are avoided by the data. In `Probes`,
  online and reachable are one thing.
* Encodings, signatures, tickets, tokens, configuration and key files: parsed
  or verified once, with no behaviour over time.
* The CLI, the JSON-RPC layer and the web interface: they translate calls.
* SQL, ranking of search results and rendezvous weights: data, not control.
