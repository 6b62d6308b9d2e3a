--------------------------------- MODULE Gate ---------------------------------
(***************************************************************************)
(* Membership enforced at the endpoint: the task that carries the log to   *)
(* the allowlist (consensus node.rs follow_membership), the hooks every    *)
(* connection passes (net hooks.rs), the task that closes what an          *)
(* expulsion invalidates, and the connections cached for reuse             *)
(* (net connections.rs).                                                   *)
(*                                                                         *)
(* Four threads meet here: the state machine publishes memberships, the    *)
(* follower of memberships enforces them step by step, the evictor waits   *)
(* for a notification and makes a pass, and each handshake is checked and  *)
(* then recorded.  A promotion's replay, which holds the allowlist, is in  *)
(* Seat.                                                                   *)
(***************************************************************************)
EXTENDS Naturals, FiniteSets

CONSTANTS
    Peer,           \* the other nodes
    Conn,           \* connections there may ever be
    Bootstrap,      \* the allowlist before there is a log
    MaxChanges,     \* bound: memberships and Raft configurations published
    MaxAddr         \* bound: addresses a peer moves through

ASSUME GateAssumption ==
    /\ Peer # {} /\ Bootstrap \subseteq Peer
    /\ MaxChanges \in Nat /\ MaxAddr \in Nat \ {0}

Alpn == {"raft", "app"}

VARIABLES
    state,      \* the membership last published: [index, members, core]
    raft,       \* the Raft configuration last published, promotion included
    changes,    \* how many of either were published
    pc,         \* where follow_membership is
    got,        \* the membership it read this time round
    published,  \* where it last said each core node is (0: nowhere)
    allowlist,  \* the set being enforced
    raft_peers, \* the Raft-only exception
    enforced,   \* the membership said to be enforced
    news,       \* the watches with something published and not yet read
    stirred,    \* the allowlist or the exception changed, evictor not awake
    conn,       \* conn[c] = [pc, peer, alpn]; one that has ended is free again
    tracked,    \* connections in the table of the hooks
    cache,      \* Connections: the dialled ones, kept for reuse
    missed      \* history: checked before, and recorded after, a closing pass

logVars == <<state, raft, changes>>
taskVars == <<pc, got, published, allowlist, raft_peers, enforced>>
connVars == <<conn, tracked, cache, missed>>
gateVars == <<logVars, taskVars, news, stirred, connVars>>

Membership == [index : Nat, members : SUBSET Peer, core : [Peer -> 0..MaxAddr]]
Read == [index : Nat, members : SUBSET Peer]
NoConn == [pc |-> "none", peer |-> CHOOSE p \in Peer : TRUE, alpn |-> "app"]

GateTypeOK ==
    /\ state \in Membership /\ got \in Read /\ enforced \in Read
    /\ raft \subseteq Peer /\ raft_peers \subseteq Peer /\ allowlist \subseteq Peer
    /\ changes \in 0..MaxChanges
    /\ pc \in {"waiting", "moving", "replacing", "telling"}
    /\ published \in [Peer -> 0..MaxAddr]
    /\ news \subseteq {"membership", "raft"} /\ stirred \in BOOLEAN
    /\ conn \in [Conn -> [pc : {"none", "admitted", "open"}, peer : Peer, alpn : Alpn]]
    /\ tracked \subseteq Conn /\ cache \subseteq Conn /\ missed \subseteq Conn

\* What a log names first, and a projection with nothing folded.
Genesis ==
    {[index |-> 1, members |-> Peer, core |-> [p \in Peer |-> IF p \in voters THEN 1 ELSE 0]] :
        voters \in SUBSET Peer}
Blank == [index |-> 0, members |-> {}, core |-> [p \in Peer |-> 0]]

\* A node that starts, with its configured members and with or without a log.
GateInit ==
    /\ state \in {Blank} \cup Genesis
    /\ raft = {p \in Peer : state.core[p] # 0} /\ changes = 0
    /\ pc = "waiting" /\ got = [index |-> state.index, members |-> state.members]
    /\ published = [p \in Peer |-> 0]
    /\ allowlist = Bootstrap /\ raft_peers = {} /\ enforced = got
    /\ news = {"membership"} /\ stirred = FALSE
    /\ conn = [c \in Conn |-> NoConn]
    /\ tracked = {} /\ cache = {} /\ missed = {}

----------------------------------------------------------------------------
(* What the log and the network do (external).                             *)

\* An entry applied: the first names the group, each later one admits or expels
\* a member (out of the core group too) or changes its place in the core map.
Changed(p) ==
    LET next == [state EXCEPT !.index = @ + 1] IN
    IF p \in state.members
    THEN {[next EXCEPT !.members = @ \ {p}, !.core[p] = 0],
          [next EXCEPT !.core[p] = 0]} \cup {[next EXCEPT !.core[p] = a] : a \in 1..MaxAddr}
    ELSE {[next EXCEPT !.members = @ \cup {p}]}

Publish ==
    /\ changes < MaxChanges
    /\ state' \in IF state.index = 0 THEN Genesis ELSE UNION {Changed(p) : p \in Peer}
    /\ changes' = changes + 1
    /\ news' = news \cup {"membership"}
    /\ UNCHANGED <<raft, taskVars, stirred, connVars>>

\* A Raft configuration applied, or a promotion taken up or expired.
Reconfigure ==
    /\ changes < MaxChanges
    /\ raft' \in SUBSET Peer \ {raft}
    /\ changes' = changes + 1
    /\ news' = news \cup {"raft"}
    /\ UNCHANGED <<state, taskVars, stirred, connVars>>

----------------------------------------------------------------------------
(* Closing.                                                                *)

Live(c) == conn[c].pc = "open"
Checked == {c \in Conn : conn[c].pc = "admitted"}

\* The weak handles and the cached ones that are left of a connection are
\* dropped when next looked at, and until then answer that it is not live: they
\* go with it here.
Ended(gone) ==
    /\ conn' = [c \in Conn |-> IF c \in gone THEN NoConn ELSE conn[c]]
    /\ cache' = cache \ gone
    /\ missed' = missed \ gone

\* Allowlist::is_allowed, or the Raft ALPN and a peer of the configuration.
admits(peer, alpn) == peer \in allowlist \/ (alpn = "raft" /\ peer \in raft_peers)

----------------------------------------------------------------------------
(* follow_membership, one step at a time.                                  *)

Excepting(peers) ==
    /\ pc = "waiting" /\ news # {}
    /\ got' = [index |-> state.index, members |-> state.members]
    /\ news' = {}
    /\ raft_peers' = peers
    /\ stirred' = (stirred \/ raft_peers' # raft_peers)
    /\ pc' = IF state.index > 0 THEN "moving" ELSE "telling"
    /\ UNCHANGED <<logVars, published, allowlist, enforced, connVars>>

\* Mutant: the exception follows the members, not the Raft configuration.
ReadMembership_mutant == Excepting(raft \cap state.members)

\* Woken by either watch, or at the start: both are read, and set_raft_peers
\* comes before access is revoked, notifying only when the set changes.
ReadMembership == Excepting(raft)

\* What core_addresses answers now, which may be newer than `got`.
Moved == {p \in Peer : published[p] # 0 /\ state.core[p] \notin {0, published[p]}}

\* learn_all, then close_connections_to every core node that has moved, under
\* the lock of the table, and the table forgets them.
LetGoOfTheMoved ==
    /\ pc = "moving"
    /\ LET held == {c \in tracked : conn[c].peer \in Moved} IN
          /\ Ended(held)
          /\ tracked' = tracked \ held
    /\ published' = state.core
    /\ pc' = "replacing"
    /\ UNCHANGED <<logVars, got, allowlist, raft_peers, enforced, news, stirred>>

\* AllowlistWriter::replace: the set is there, and the evictor is notified.
Replace ==
    /\ pc = "replacing"
    /\ allowlist' = got.members
    /\ stirred' = TRUE
    /\ pc' = "telling"
    /\ UNCHANGED <<logVars, got, published, raft_peers, enforced, news, connVars>>

\* Mutant: told before the allowlist is replaced.
TellEnforced_mutant ==
    /\ pc \in {"replacing", "telling"}
    /\ enforced' = got
    /\ pc' = IF pc = "telling" THEN "waiting" ELSE pc
    /\ UNCHANGED <<logVars, got, published, allowlist, raft_peers, news, stirred, connVars>>

\* enforced.send_replace, then the wait for either watch.
TellEnforced ==
    /\ pc = "telling"
    /\ enforced' = got
    /\ pc' = "waiting"
    /\ UNCHANGED <<logVars, got, published, allowlist, raft_peers, news, stirred, connVars>>

FollowMembership ==
    ReadMembership \/ LetGoOfTheMoved \/ Replace \/ TellEnforced

----------------------------------------------------------------------------
(* evict_expelled.                                                         *)

EvictPass(out) ==
    /\ stirred
    /\ stirred' = FALSE
    /\ conn' = [c \in Conn |-> IF c \in out THEN NoConn ELSE conn[c]]
    /\ cache' = cache \ out
    /\ missed' = (missed \ out) \cup Checked
    /\ tracked' = tracked \ out
    /\ UNCHANGED <<logVars, taskVars, news>>

\* Mutant: a peer outside the allowlist loses its application connections only.
EvictOnce_mutant == EvictPass({c \in tracked : conn[c].peer \notin allowlist /\ conn[c].alpn = "app"})

\* One pass under the lock: what is not admitted any more is closed and
\* forgotten.
EvictOnce == EvictPass({c \in tracked : ~ admits(conn[c].peer, conn[c].alpn)})

----------------------------------------------------------------------------
(* Connections.                                                            *)

\* A handshake that completes is checked by after_handshake, whoever began it,
\* and refused without a trace; before_connect asked the same of a dial before.
Admitted(c, peer, alpn) ==
    /\ conn[c].pc = "none"
    /\ admits(peer, alpn)
    /\ conn' = [conn EXCEPT ![c] = [pc |-> "admitted", peer |-> peer, alpn |-> alpn]]
    /\ UNCHANGED <<logVars, taskVars, news, stirred, tracked, missed>>

Cached(peer, alpn) == {d \in cache : conn[d].peer = peer /\ conn[d].alpn = alpn}

\* get_or_connect: the cached connection if it is live, else a dial whose result
\* is cached, in the place of one that raced it.
Dial(c, peer, alpn) ==
    /\ \A d \in Cached(peer, alpn) : ~ Live(d)
    /\ Admitted(c, peer, alpn)
    /\ cache' = (cache \ Cached(peer, alpn)) \cup {c}

\* A peer dials.
Incoming(c, peer, alpn) == Admitted(c, peer, alpn) /\ UNCHANGED cache

Remembered(c, others) ==
    /\ conn[c].pc = "admitted"
    /\ conn' = [conn EXCEPT ![c].pc = "open"]
    /\ tracked' = others \cup {c}
    /\ UNCHANGED <<logVars, taskVars, news, stirred, cache, missed>>

\* `remember` takes the lock to record what after_handshake has admitted.
Remember(c) == Remembered(c, tracked)

\* Either end closes it.
Ends(c) ==
    /\ Live(c)
    /\ Ended({c})
    /\ tracked' = tracked \ {c}
    /\ UNCHANGED <<logVars, taskVars, news, stirred>>

\* Connections::forget and forget_peer, after a failed exchange.
Forget(c) ==
    /\ c \in cache
    /\ cache' = cache \ {c}
    /\ UNCHANGED <<logVars, taskVars, news, stirred, conn, tracked, missed>>

----------------------------------------------------------------------------

GateNext ==
    \/ Publish \/ Reconfigure \/ FollowMembership \/ EvictOnce
    \/ \E c \in Conn :
          \/ \E peer \in Peer, alpn \in Alpn : Dial(c, peer, alpn) \/ Incoming(c, peer, alpn)
          \/ Remember(c) \/ Ends(c) \/ Forget(c)

\* The two tasks run, and what a handshake began its thread finishes.
GateFairness ==
    /\ WF_gateVars(FollowMembership) /\ WF_gateVars(EvictOnce)
    /\ WF_gateVars(\E c \in Conn : Remember(c))

GateSpec == GateInit /\ [][GateNext]_gateVars /\ GateFairness

----------------------------------------------------------------------------
(* Properties.                                                             *)

\* Whoever reads that a membership is enforced can rely on it: no peer is let
\* into an application protocol whom neither that membership nor a later one
\* admits (follow_membership's "Only now").
AdmittedIsEnforced ==
    [][enforced.index > 0 =>
          \A c \in Conn :
             (conn[c].pc = "none" /\ conn'[c].pc = "admitted" /\ conn'[c].alpn = "app")
                 => conn'[c].peer \in enforced.members \cup got.members]_gateVars

\* Every connection in use is one that an expulsion can find: recorded in the
\* table of the hooks, whoever opened it (hooks.rs remember, evict_once).
OpenIsTracked == \A c \in Conn : Live(c) => c \in tracked

\* When the tasks have nothing to do, a connection to a peer the gate does not
\* admit is one that was checked before, and recorded after, the pass that
\* should have closed it (hooks.rs evict_once; after_handshake is not atomic).
Quiet == ~ stirred /\ news = {} /\ pc = "waiting"

EvictedUnlessMissed ==
    Quiet => \A c \in Conn : (Live(c) /\ ~ admits(conn[c].peer, conn[c].alpn)) => c \in missed

\* When the log moves a core node from where this node dialled it, everything
\* open to it is let go of, whoever opened it: one connection left pins the
\* path to where it was (let_go_of_the_moved, remember).
MovedIsLetGo ==
    [][\A c \in Conn :
          LET p == conn[c].peer IN
          (Live(c) /\ published[p] # 0 /\ published'[p] \notin {0, published[p]})
              => conn'[c].pc = "none"]_gateVars

\* A peer that the Raft configuration still needs loses no Raft connection to
\* its own expulsion: an eviction closes none of a peer that was in the
\* configuration when the allowlist dropped it (follow_membership sets the
\* exception before it revokes access).
RaftKeepsItsPeers ==
    [][EvictOnce => \A c \in Conn :
          (Live(c) /\ conn[c].alpn = "raft" /\ conn[c].peer \in raft /\ "raft" \notin news)
              => Live(c)']_gateVars

\* Every membership the log publishes is enforced in the end, or a later one.
LogIsEnforced == \A i \in 1..MaxChanges : (state.index = i) ~> (enforced.index >= i)

\* Every live connection is in the table of the hooks, and an eviction leaves
\* none of a peer the gate does not admit but those its pass could not see
\* (hooks.rs remember, after_handshake, evict_once).
GateInv == GateTypeOK /\ OpenIsTracked /\ EvictedUnlessMissed

\* A membership told as enforced is enforced by then, and every membership is
\* told in the end (follow_membership).
Enforces == AdmittedIsEnforced /\ LogIsEnforced

\* What is closed is what should be: everything open to a core node that has
\* moved, nothing of an expelled one that Raft still needs
\* (let_go_of_the_moved, evict_once).
ClosesWhatItShould == MovedIsLetGo /\ RaftKeepsItsPeers

=============================================================================
