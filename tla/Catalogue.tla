------------------------------ MODULE Catalogue ------------------------------
(* One node's catalogue: its document, kept in step with the other members'  *)
(* by iroh-docs (external: rounds, gossip, downloads and the events they     *)
(* cause), the pump that turns the events into what the read model re-reads  *)
(* (sync/changes.rs), and the three loops beside it (sync/catalogue.rs): the *)
(* peers offered as they are learned, the rounds asked for once more, and    *)
(* the sweep for content nobody offered.                                     *)
EXTENDS Document, Sequences, SequencesExt

CONSTANTS
    me,
    ASK_AGAIN,      \* the longest a hash waits to be asked about again, in FETCH_AGAINs
    SUBSCRIPTION,   \* how many events the document's subscription holds
    Scenarios       \* where the node starts, and what may happen to it

Peer == Member \ {me}

ASSUME CatalogueAssumption ==
    me \in Member /\ ASK_AGAIN \in Nat \ {0} /\ SUBSCRIPTION \in Nat \ {0}

VARIABLES
    open,           \* Inner::open: is there a document yet
    doc,            \* the entries this node holds
    content,        \* the entries whose content its blob store holds
    members,        \* who the membership log says is in the group
    directory,      \* [Peer -> addresses], None where a member's is not known
    theirs,         \* [Peer -> the entries its document holds]
    held,           \* [Peer -> the entries whose content it has]
    neighbours,     \* the peers this node is a gossip neighbour of
    round,          \* [Peer -> the sync round running with it, or None]
    fetching,       \* the entries whose content iroh-docs is downloading
    stream,         \* the document's events the pump has not read
    pending,        \* News::pending: the batch the read model has not taken
    woken,          \* has `woke` moved since the read model looked at it
    waking,         \* who has added to the batch and not yet woken the read model
    up_since,       \* Pump::up_since: the neighbours the pump has heard come up
    asked,          \* the peers to sync with once more
    offering,       \* "waiting", or the kind of round the offering loop woke up for
    offered,        \* [Peer -> the address it was last offered at]
    handed,         \* [Peer -> the address iroh-docs last took for it]
    news_of,        \* the watches that have changed unseen
    sweep,          \* the entries the sweep is asking for, and whom
    unanswered,     \* Unanswered::hashes: how many rounds each still waits
    left            \* what may still happen

documentVars == <<doc, content>>
groupVars == <<members, directory, theirs, held>>
swarmVars == <<neighbours, round, fetching, stream>>
newsVars == <<pending, woken, waking>>
pumpVars == <<up_since, asked>>
offerVars == <<offering, offered, handed>>
sweepVars == <<sweep, unanswered>>
catalogueVars == <<open, documentVars, groupVars, swarmVars, newsVars, pumpVars, offerVars,
                   sweepVars, news_of, left>>

-----------------------------------------------------------------------------

\* Each kind of step that can fail does so at most once.
Fails(step) ==
    /\ step \in left.fails
    /\ left' = [left EXCEPT !.fails = @ \ {step}]

(* The peers a document can be offered to                                    *)

\* consensus's `reachable`: every other member there is an address for.
sync_with == {p \in Peer \cap members : directory[p] # None}

\* Watchers of the membership: the offering loop, the sweep and the read model.
MembershipWatchers == {"offers", "sweep", "reader"}

-----------------------------------------------------------------------------
(* iroh-docs                                                                 *)

\* A pump that is slow loses no event: it stalls the document's own actor.
Heard == Len(stream) < SUBSCRIPTION

\* A round that is running is not started again, and what it brings is what
\* the two sides compared when it began.
Started(peers) ==
    [p \in Peer |-> IF p \in peers /\ round[p] = None
                    THEN [brings |-> theirs[p], early |-> FALSE]
                    ELSE round[p]]

\* What inserting `entries` does to the document, the events included.
Inserts(entries) ==
    SetToSeq({<<"insert", e.key>> : e \in Merged(doc \cup entries) \ doc})

RoundEnds(p) ==
    /\ round[p] # None /\ Heard
    /\ round' = [round EXCEPT ![p] = None]
    /\ \/ /\ doc' = Merged(doc \cup round[p].brings)
          /\ stream' = stream \o Inserts(round[p].brings)
                              \o << <<"finished", p, round[p].early>>, <<"content">> >>
          /\ fetching' = fetching \cup {e \in doc' \ doc : ~Here(e, content) /\ e \in held[p]}
          /\ UNCHANGED left
       \/ /\ Fails("round")
          /\ stream' = Append(stream, <<"finished", p, round[p].early>>)
          /\ UNCHANGED <<doc, fetching>>
    /\ UNCHANGED <<open, content, groupVars, neighbours, newsVars, pumpVars, offerVars, sweepVars, news_of>>

\* iroh-docs syncs with every new neighbour, but not while a round with it runs.
NeighborUp(p) ==
    /\ open /\ Heard /\ p \in sync_with \ neighbours /\ left.ups > 0
    /\ left' = [left EXCEPT !.ups = @ - 1]
    /\ neighbours' = neighbours \cup {p}
    /\ stream' = Append(stream, <<"up", p>>)
    /\ round' = Started({p})
    /\ UNCHANGED <<open, documentVars, groupVars, fetching, newsVars, pumpVars, offerVars, sweepVars, news_of>>

NeighborDown(p) ==
    /\ p \in neighbours /\ Heard /\ left.downs > 0
    /\ left' = [left EXCEPT !.downs = @ - 1]
    /\ neighbours' = neighbours \ {p}
    /\ stream' = Append(stream, <<"down", p>>)
    /\ UNCHANGED <<open, documentVars, groupVars, round, fetching, newsVars, pumpVars, offerVars, sweepVars, news_of>>

\* Another member writes.  Its neighbours hear of it at once; whether they
\* learn where the content is, nothing promises.
PeerWrites(p, e) ==
    /\ <<p, e>> \in left.writes /\ Heard
    /\ left' = [left EXCEPT !.writes = @ \ {<<p, e>>}]
    /\ theirs' = [theirs EXCEPT ![p] = Merged(@ \cup {e})]
    /\ held' = [held EXCEPT ![p] = @ \cup {e}]
    /\ IF open /\ p \in neighbours
       THEN /\ doc' = Merged(doc \cup {e})
            /\ stream' = stream \o Inserts({e})
            /\ \/ fetching' = fetching \cup {f \in {e} \cap doc' : ~Here(f, content)}
               \/ UNCHANGED fetching
       ELSE UNCHANGED <<doc, stream, fetching>>
    /\ UNCHANGED <<open, content, members, directory, neighbours, round, newsVars, pumpVars,
                   offerVars, sweepVars, news_of>>

ContentReady(e) ==
    /\ e \in fetching /\ Heard
    /\ fetching' = fetching \ {e}
    /\ content' = content \cup {e}
    /\ stream' = Append(stream, <<"content">>)
    /\ UNCHANGED <<open, doc, groupVars, neighbours, round, newsVars, pumpVars, offerVars, sweepVars, news_of, left>>

\* The content an earlier run of this node, or another member, was to give
\* does not come: iroh-docs gives up on it.
ContentLost(e) ==
    /\ e \in fetching /\ Fails("download")
    /\ fetching' = fetching \ {e}
    /\ UNCHANGED <<open, documentVars, groupVars, neighbours, round, stream, newsVars, pumpVars,
                   offerVars, sweepVars, news_of>>

-----------------------------------------------------------------------------
(* Opening                                                                   *)

NothingPending == [items |-> {}, bookmarks |-> {}, wishes |-> {}, content_arrived |-> FALSE]

\* open_when_founded: subscribes before it starts syncing with everyone it can reach.
Opens ==
    /\ ~open /\ members # {}
    /\ open' = TRUE
    /\ round' = Started(sync_with)
    /\ handed' = [p \in Peer |-> IF p \in sync_with THEN directory[p] ELSE handed[p]]
    /\ news_of' = news_of \ {"offers", "sweep"}
    /\ UNCHANGED <<documentVars, groupVars, neighbours, fetching, stream, newsVars, pumpVars,
                   offering, offered, sweepVars, left>>

\* A key this node's member writes: newer than everything it has seen.
put(key, value, deleted) ==
    LET at == 1 + Max({0} \cup {e.at : e \in doc})
        entry == IF deleted THEN Deletion(key, me, at) ELSE Entry(key, me, at, value)
    IN  /\ open /\ Heard
        /\ doc' = Merged(doc \cup {entry})
        /\ content' = content \cup {e \in {entry} : ~deleted}
        /\ stream' = Append(stream, <<"insert", key>>)

-----------------------------------------------------------------------------
(* The pump                                                                  *)

\* note: what an entry under `key` asks the read model to re-read.
Noted(batch, key) ==
    CASE key.kind \in OwnKinds \cup {"rating", "review"} -> [batch EXCEPT !.items = @ \cup {key.of}]
      [] key.kind = "bookmark" -> [batch EXCEPT !.bookmarks = @ \cup {key.of}]
      [] key.kind \in AboutWish -> [batch EXCEPT !.wishes = @ \cup {key.of}]
      [] OTHER -> batch

began_before_neighbour_mutant(p, early) == FALSE

\* Did a round with a neighbour begin before the pump heard it was one: what
\* was written in between reached this node by neither.
began_before_neighbour(p, early) == p \in up_since /\ early

\* Hearing that p is up dates it after every round with p that has begun,
\* whether it is still running or over and behind this event.
Dated(events, p) ==
    [k \in DOMAIN events |->
        IF events[k][1] = "finished" /\ events[k][2] = p THEN <<"finished", p, TRUE>> ELSE events[k]]

\* Pump::run: one event, and the read model is woken if it is news.
PumpNotes ==
    /\ stream # <<>> /\ "pump" \notin waking
    /\ LET event == Head(stream)
           rest == Tail(stream)
           batch == CASE event[1] = "insert" -> Noted(pending, event[2])
                      [] event[1] = "content" -> [pending EXCEPT !.content_arrived = TRUE]
                      [] OTHER -> pending
           p == IF event[1] \in {"up", "down", "finished"} THEN event[2] ELSE None
       IN  /\ pending' = batch
           /\ waking' = IF batch # pending THEN waking \cup {"pump"} ELSE waking
           /\ stream' = IF event[1] = "up" THEN Dated(rest, p) ELSE rest
           /\ round' = IF event[1] = "up" /\ round[p] # None
                       THEN [round EXCEPT ![p].early = TRUE] ELSE round
           /\ up_since' = CASE event[1] = "up" -> up_since \cup {p}
                            [] event[1] = "down" -> up_since \ {p}
                            [] OTHER -> up_since
           /\ asked' = IF event[1] = "finished" /\ began_before_neighbour(p, event[3])
                       THEN Append(asked, p) ELSE asked
    /\ UNCHANGED <<open, documentVars, groupVars, neighbours, fetching, woken, offerVars, sweepVars, news_of, left>>

\* News::wake, by the pump or by the sweep.
Wakes(who) ==
    /\ who \in waking
    /\ waking' = waking \ {who}
    /\ woken' = TRUE
    /\ UNCHANGED <<open, documentVars, groupVars, swarmVars, pending, pumpVars, offerVars, sweepVars, news_of, left>>

\* sync_again_when_asked: one round more, after SETTLE.
SyncsAgain ==
    /\ asked # <<>>
    /\ asked' = Tail(asked)
    /\ round' = Started({Head(asked)})
    /\ UNCHANGED <<open, documentVars, groupVars, neighbours, fetching, stream, newsVars, up_since,
                   offerVars, sweepVars, news_of, left>>

-----------------------------------------------------------------------------
(* offer_peers_as_they_are_learned                                           *)

\* Woken by an address, by a change of the membership, or by the BACKSTOP.
OfferWakes ==
    /\ open /\ offering = "waiting"
    /\ \/ /\ "learned" \in news_of
          /\ news_of' = news_of \ {"learned"}
          /\ offering' = "reaction"
       \/ /\ "offers" \in news_of
          /\ news_of' = news_of \ {"offers"}
          /\ offering' = "repair"
       \/ /\ left.backstop
          /\ offering' = "repair"
          /\ UNCHANGED news_of
    /\ UNCHANGED <<open, documentVars, groupVars, swarmVars, newsVars, pumpVars, offered, handed, sweepVars, left>>

\* Whom a round offers: a repair everyone, a reaction whoever was not offered there.
Offers(kind) ==
    {p \in sync_with : kind = "repair" \/ offered[p] # directory[p]}

\* Looks at the membership as it is now, whatever woke it; what could not be
\* handed over is written down as offered all the same.
OfferLooks ==
    /\ offering # "waiting"
    /\ offering' = "waiting"
    /\ news_of' = news_of \ {"offers"}
    /\ \E peers \in {Offers(offering)} :
        /\ offered' = [p \in Peer |->
                         CASE p \in peers -> directory[p]
                           [] p \notin peers /\ offering = "repair" -> None
                           [] OTHER -> offered[p]]
        /\ \/ /\ round' = Started(peers)
              /\ handed' = [p \in Peer |-> IF p \in peers THEN directory[p] ELSE handed[p]]
              /\ UNCHANGED left
           \/ /\ peers # {} /\ Fails("offer")
              /\ UNCHANGED <<round, handed>>
    /\ UNCHANGED <<open, documentVars, groupVars, neighbours, fetching, stream, newsVars, pumpVars, sweepVars>>

-----------------------------------------------------------------------------
(* fetch_content_nobody_offered                                              *)

Sweeping == sweep.wanted # {}

\* A hash never asked about, or whose wait is over.
due(waits, e) == e \notin DOMAIN waits \/ waits[e].left = 0

\* failed: FETCH_AGAIN the first time, then twice as long, up to ASK_AGAIN.
failed(e) ==
    LET waited == IF e \in DOMAIN unanswered
                  THEN Min({2 * unanswered[e].waited, ASK_AGAIN}) ELSE 1
    IN  [f \in DOMAIN unanswered \cup {e} |->
            IF f = e THEN [left |-> waited, waited |-> waited] ELSE unanswered[f]]

\* content_not_here: read from the document every time, deletions skipped.
content_not_here == {e \in all(doc) : e \notin content}

\* wait_for_the_next_round: a change of the membership asks about everything at once.
SweepForgets ==
    /\ open /\ ~Sweeping /\ "sweep" \in news_of
    /\ news_of' = news_of \ {"sweep"}
    /\ unanswered' = <<>>
    /\ UNCHANGED <<open, documentVars, groupVars, swarmVars, newsVars, pumpVars, offerVars, sweep, left>>

\* FETCH_AGAIN has passed.  A change seen here is looked at, and forgets nothing.
SweepLooks ==
    /\ open /\ ~Sweeping /\ "sweep" \notin waking
    /\ sync_with # {} /\ content_not_here # {}
    /\ news_of' = news_of \ {"sweep"}
    /\ unanswered' = [e \in DOMAIN unanswered \cap content_not_here |->
                        [unanswered[e] EXCEPT !.left = IF @ = 0 THEN 0 ELSE @ - 1]]
    /\ sweep' = [wanted |-> {e \in content_not_here : due(unanswered', e)},
                 providers |-> sync_with]
    /\ UNCHANGED <<open, documentVars, groupVars, swarmVars, newsVars, pumpVars, offerVars, left>>

content_landed_mutant(batch) == batch

\* News::content_landed: no ContentReady follows what the sweep fetches.
content_landed(batch) == [batch EXCEPT !.content_arrived = TRUE]

\* fetch_one: asked of everyone in turn, and only of them.
SweepFetches(e) ==
    /\ e \in sweep.wanted /\ "sweep" \notin waking
    /\ sweep' = [sweep EXCEPT !.wanted = @ \ {e}]
    /\ \/ /\ \E p \in sweep.providers : e \in held[p]
          /\ content' = content \cup {e}
          /\ unanswered' = [f \in DOMAIN unanswered \ {e} |-> unanswered[f]]
          /\ pending' = content_landed(pending)
          /\ waking' = IF pending' # pending THEN waking \cup {"sweep"} ELSE waking
          /\ UNCHANGED left
       \/ /\ \/ (\A p \in sweep.providers : e \notin held[p]) /\ UNCHANGED left
             \/ Fails("sweep")
          /\ unanswered' = failed(e)
          /\ UNCHANGED <<content, pending, waking>>
    /\ UNCHANGED <<open, doc, groupVars, swarmVars, woken, pumpVars, offerVars, news_of>>

-----------------------------------------------------------------------------
(* What the group does                                                       *)

Learns(p, addr) ==
    /\ left.moves > 0 /\ directory[p] # addr
    /\ left' = [left EXCEPT !.moves = @ - 1]
    /\ directory' = [directory EXCEPT ![p] = addr]
    /\ news_of' = news_of \cup {"learned"}
    /\ UNCHANGED <<open, documentVars, members, theirs, held, swarmVars, newsVars, pumpVars, offerVars, sweepVars>>

MembershipChanges ==
    /\ left.groups # <<>>
    /\ members' = Head(left.groups)
    /\ left' = [left EXCEPT !.groups = Tail(@)]
    /\ news_of' = news_of \cup MembershipWatchers
    /\ UNCHANGED <<open, documentVars, directory, theirs, held, swarmVars, newsVars, pumpVars, offerVars, sweepVars>>

-----------------------------------------------------------------------------

CatalogueInit(s) ==
    /\ open = FALSE
    /\ doc = s.doc /\ content = s.content
    /\ members = s.members /\ directory = s.directory /\ theirs = s.theirs /\ held = s.held
    /\ neighbours = {} /\ round = [p \in Peer |-> None] /\ fetching = {} /\ stream = <<>>
    /\ pending = NothingPending /\ woken = FALSE /\ waking = {}
    /\ up_since = {} /\ asked = <<>>
    /\ offering = "waiting" /\ offered = [p \in Peer |-> None] /\ handed = [p \in Peer |-> None]
    /\ news_of = MembershipWatchers
    /\ sweep = [wanted |-> {}, providers |-> {}] /\ unanswered = <<>>
    /\ left = s.left

\* The process ends: only the document, the contents and the log are left.
CatalogueCrash ==
    /\ open' = FALSE
    /\ neighbours' = {} /\ round' = [p \in Peer |-> None] /\ fetching' = {} /\ stream' = <<>>
    /\ pending' = NothingPending /\ woken' = FALSE /\ waking' = {}
    /\ up_since' = {} /\ asked' = <<>>
    /\ offering' = "waiting" /\ offered' = [p \in Peer |-> None] /\ handed' = [p \in Peer |-> None]
    /\ news_of' = MembershipWatchers
    /\ sweep' = [wanted |-> {}, providers |-> {}] /\ unanswered' = <<>>
    /\ UNCHANGED <<documentVars, groupVars>>

Swarm ==
    \/ \E p \in Peer : RoundEnds(p) \/ NeighborUp(p) \/ NeighborDown(p)
    \/ \E w \in left.writes : PeerWrites(w[1], w[2])
    \/ \E e \in fetching : ContentReady(e) \/ ContentLost(e)
Loops ==
    \/ Opens \/ PumpNotes \/ SyncsAgain \/ OfferWakes \/ OfferLooks
    \/ \E who \in waking : Wakes(who)
    \/ SweepForgets \/ SweepLooks
    \/ \E e \in sweep.wanted : SweepFetches(e)
Group ==
    \/ MembershipChanges
    \/ \E p \in Peer, addr \in left.addresses : Learns(p, addr)
=============================================================================
