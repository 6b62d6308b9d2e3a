------------------------------ MODULE Proposing ------------------------------
(***************************************************************************)
(* How a change gets into the log: the calls of the group API that propose *)
(* one (distlib-api methods.rs), MembershipNode::propose with its retries  *)
(* (consensus node.rs), and the core node that commits or hands on what a  *)
(* member sends it (raft/memberlog.rs).                                    *)
(*                                                                         *)
(* A call reads the membership, signs against the membership held when it  *)
(* signs, and sends the same signed event until somebody answers.  An      *)
(* answer may be lost after the entry was written, and a write may be      *)
(* committed long after its sender has given up on it.  Raft itself is     *)
(* external: it commits what was written, in some order, or loses it.      *)
(*                                                                         *)
(* The core map is modelled by the address each voter is listed at, so     *)
(* that a map can be changed without changing who votes.                   *)
(***************************************************************************)
EXTENDS Naturals, Sequences, FiniteSets

CONSTANTS
    Voter,              \* the core nodes
    Follower,           \* members without a seat
    FirstLeader,        \* who leads when the calls start
    Addr,               \* addresses a core map gives
    OldAddr,            \* where every voter is listed at first
    Call,               \* the calls there may be
    Scenarios,          \* sets of calls made in one behaviour
    Asks,               \* Asks[c] = [node, kind, member, addr]
    PROPOSE_ATTEMPTS,   \* sends of one signed event by a core node
    MaxFaults,          \* bound: lost answers, unreachable peers, lost writes
    MaxTerms,           \* bound: changes of leader
    None

Node == Voter \cup Follower

ASSUME ProposingAssumption ==
    /\ Voter # {} /\ Voter \cap Follower = {}
    /\ FirstLeader \in Voter /\ OldAddr \in Addr
    /\ Scenarios \subseteq SUBSET Call
    /\ Asks \in [Call -> [node : Node, kind : {"core", "add", "support"}, member : Node, addr : Addr]]
    /\ PROPOSE_ATTEMPTS \in Nat \ {0} /\ MaxFaults \in Nat /\ MaxTerms \in Nat
    /\ None \notin Node

VARIABLES
    log,        \* the committed entries: [call, copy, read, first, view, ev, ok]
    truth,      \* truth[i]: the fold of the first i entries
    upto,       \* how many entries each node has applied
    leader,     \* the Raft leader
    former,     \* the leader before, which a node may still name
    writes,     \* written to a leader's log, neither committed nor lost
    call,       \* the calls: see CallState
    faults,     \* faults spent
    terms       \* changes of leader so far

raftVars == <<log, truth, writes, leader, former, terms>>
vars == <<raftVars, upto, call, faults>>

----------------------------------------------------------------------------
(* The fold, as far as these calls can tell.                               *)

NoEvent == [kind |-> "none", core |-> [v \in Voter |-> OldAddr], member |-> None]
Event == [kind : {"none", "core", "add", "support"}, core : [Voter -> Addr], member : Node \cup {None}]
Membership == [core : [Voter -> Addr], added : SUBSET Node, supports : SUBSET Node, changed_at : Nat]

\* MembershipState::apply's verdict on the write w.
Verdict(st, w) ==
    CASE w.view # st.changed_at -> "StaleProposal"
      [] w.view = st.changed_at /\ w.ev.kind = "add" /\ w.ev.member \in st.added -> "AlreadyMember"
      [] OTHER -> "ok"

Folded(st, w, index) ==
    IF Verdict(st, w) # "ok" THEN st
    ELSE [core |-> IF w.ev.kind = "core" THEN w.ev.core ELSE st.core,
          added |-> IF w.ev.kind = "add" THEN st.added \cup {w.ev.member} ELSE st.added,
          supports |-> IF w.ev.kind = "support" THEN st.supports \cup {w.ev.member} ELSE st.supports,
          changed_at |-> index]

\* MembershipNode::membership: what node n has applied.
membership(n) == truth[upto[n]]

----------------------------------------------------------------------------
(* A call in progress.                                                     *)

\* pc: "start", "signing" (holds an event), "sending" (holds a signed one),
\*     "waiting" (for the verdict on its write), "behind" (told it was
\*     stale, catching up), "settling" (committed, catching up), and how a
\*     call ends.
Ended == {"never", "applied", "unapplied", "refused", "failed", "invalid"}

CallState ==
    [pc : {"start", "signing", "sending", "waiting", "behind", "settling"} \cup Ended,
     read : Nat,        \* changed_at when the event was built
     ev : Event,
     again : BOOLEAN,   \* propose_and_retry is at its second propose_once
     first : Nat,       \* changed_at its first signature was made against
     view : Nat,        \* changed_at signed against
     tries : 0..(PROPOSE_ATTEMPTS - 1),  \* sends of this signature by a core node
     todo : SUBSET Voter,   \* core nodes a follower has yet to ask
     own : BOOLEAN,     \* waiting on its own Raft, not on a peer's answer
     copy : Nat,        \* writes made of this call's events
     index : Nat]       \* the index waited for, or answered

NotMade == [pc |-> "start", read |-> 0, ev |-> NoEvent, again |-> FALSE, first |-> 0, view |-> 0, tries |-> 0,
            todo |-> {}, own |-> FALSE, copy |-> 0, index |-> 0]

TypeOK ==
    /\ log \in Seq([call : Call, copy : Nat, view : Nat, read : Nat, first : Nat, ev : Event, ok : BOOLEAN])
    /\ truth \in [0..Len(log) -> Membership]
    /\ upto \in [Node -> 0..Len(log)]
    /\ leader \in Voter \cup {None} /\ former \in Voter \cup {None}
    /\ \A w \in writes : w.call \in Call
    /\ call \in [Call -> CallState]
    /\ faults \in 0..MaxFaults /\ terms \in 0..MaxTerms

Init ==
    /\ log = << >>
    /\ truth = [i \in {0} |-> [core |-> [v \in Voter |-> OldAddr], added |-> {}, supports |-> {}, changed_at |-> 0]]
    /\ upto = [n \in Node |-> 0]
    /\ leader = FirstLeader /\ former = None
    /\ writes = {}
    /\ \E made \in Scenarios :
          call = [c \in Call |-> IF c \in made THEN NotMade ELSE [NotMade EXCEPT !.pc = "never"]]
    /\ faults = 0 /\ terms = 0

\* What the Raft of voter n names as the leader: who leads, and after a
\* change, until everyone has heard, who led or nobody.
Names(n) == (IF former = None THEN {leader} ELSE {leader, former, None}) \ {n}

NodeOf(c) == Asks[c].node
IsCore(n) == n \in Voter
At(c, where) == call[c].pc = where

\* A call that has ended keeps how it ended and the index it was told.
Moved(c, where) ==
    IF where \in Ended
    THEN [NotMade EXCEPT !.pc = where, !.index = call[c].index, !.copy = call[c].copy,
                         !.view = IF where = "refused" THEN call[c].view ELSE 0]
    ELSE [call[c] EXCEPT !.pc = where]
Put(c, state) == call' = [call EXCEPT ![c] = state]
To(c, where) == Put(c, Moved(c, where))

----------------------------------------------------------------------------
(* The API builds an event out of what the node holds now.                 *)

\* propose_core: the whole core map with one entry replaced; asking for what
\* is already so is refused before anything is proposed.
ProposeCore(c) ==
    LET held == membership(NodeOf(c))
        map == [held.core EXCEPT ![Asks[c].member] = Asks[c].addr]
    IN
    /\ Asks[c].kind = "core" /\ At(c, "start")
    /\ Put(c, IF map = held.core THEN [call[c] EXCEPT !.pc = "invalid"]
              ELSE [call[c] EXCEPT !.pc = "signing", !.read = held.changed_at,
                                   !.ev = [NoEvent EXCEPT !.kind = "core", !.core = map]])
    /\ UNCHANGED <<raftVars, upto, faults>>

\* propose_add names the member and reads nothing.
ProposeAdd(c) ==
    /\ Asks[c].kind = "add" /\ At(c, "start")
    /\ Put(c, [call[c] EXCEPT !.pc = "signing", !.read = membership(NodeOf(c)).changed_at,
                              !.ev = [NoEvent EXCEPT !.kind = "add", !.member = Asks[c].member]])
    /\ UNCHANGED <<raftVars, upto, faults>>

\* announce_protocol_support: proposes while this node's record says less.
AnnounceSupport(c) ==
    /\ Asks[c].kind = "support" /\ At(c, "start")
    /\ NodeOf(c) \notin membership(NodeOf(c)).supports
    /\ Put(c, [call[c] EXCEPT !.pc = "signing", !.read = membership(NodeOf(c)).changed_at, !.again = FALSE,
                              !.ev = [NoEvent EXCEPT !.kind = "support", !.member = NodeOf(c)]])
    /\ UNCHANGED <<raftVars, upto, faults>>

\* It looks again: at once after Ok, after ANNOUNCE_RETRY when the group was
\* not reached, and when the membership changes after a refusal.
LookAgain(c) ==
    /\ Asks[c].kind = "support"
    /\ \/ call[c].pc \in {"applied", "failed", "unapplied"}
       \/ At(c, "refused") /\ membership(NodeOf(c)).changed_at > call[c].view
    /\ To(c, "start")
    /\ UNCHANGED <<raftVars, upto, faults>>

----------------------------------------------------------------------------
(* MembershipNode::propose.                                                *)

\* propose_once signs against the membership of this moment, and a follower
\* takes the core nodes it knows of as candidates.
ProposeOnce(c) ==
    /\ At(c, "signing")
    /\ Put(c, [call[c] EXCEPT !.pc = "sending", !.tries = 0,
                              !.view = membership(NodeOf(c)).changed_at,
                              !.first = IF call[c].again THEN @ ELSE membership(NodeOf(c)).changed_at,
                              !.todo = IF IsCore(NodeOf(c)) THEN {} ELSE Voter])
    /\ UNCHANGED <<raftVars, upto, faults>>

\* The write of call c's signed event that Raft takes.
Written(c) ==
    [call |-> c, copy |-> call[c].copy + 1, view |-> call[c].view,
     read |-> call[c].read, first |-> call[c].first, ev |-> call[c].ev]

\* client_write on the leader: the caller waits for the state machine's word.
Write(c) ==
    /\ writes' = writes \cup {Written(c)}
    /\ Put(c, [call[c] EXCEPT !.pc = "waiting", !.own = (NodeOf(c) = leader), !.copy = @ + 1])

\* One more try, or the end: Forward or NoLeader.
Tried(c) ==
    IF call[c].tries + 1 < PROPOSE_ATTEMPTS
    THEN Put(c, [call[c] EXCEPT !.tries = @ + 1, !.pc = "sending"])
    ELSE To(c, "failed")

\* commit_as_core on the leader itself.
CommitHere(c) ==
    /\ At(c, "sending") /\ NodeOf(c) = leader
    /\ Write(c)
    /\ UNCHANGED <<log, truth, leader, former, terms, upto, faults>>

\* commit_as_core elsewhere: it hands the event to the node its Raft names.
\* A node that does not lead answers a core sender NotCommitted.
ForwardToLeader(c) ==
    \E named \in Names(NodeOf(c)) \ {None} :
        /\ At(c, "sending") /\ IsCore(NodeOf(c)) /\ NodeOf(c) # leader
        /\ IF named = leader THEN Write(c) ELSE writes' = writes /\ Tried(c)
        /\ UNCHANGED <<log, truth, leader, former, terms, upto, faults>>

\* Nobody is named: it waits for a leader, and asks again.
WaitForALeader(c) ==
    /\ At(c, "sending") /\ IsCore(NodeOf(c)) /\ NodeOf(c) # leader
    /\ None \in Names(NodeOf(c)) /\ leader # None
    /\ Tried(c)
    /\ UNCHANGED <<raftVars, upto, faults>>

\* Still nobody at LEADERSHIP_TIMEOUT.
NobodyLeads(c) ==
    /\ At(c, "sending") /\ IsCore(NodeOf(c)) /\ leader = None
    /\ To(c, "failed")
    /\ UNCHANGED <<raftVars, upto, faults>>

\* commit_as_follower: the next core node s; commit_or_forward there writes
\* it, or hands it on once to the node s names.
AskCore(c, s) ==
    /\ At(c, "sending") /\ s \in call[c].todo
    /\ \E named \in Names(s) \cup (IF s = leader THEN {s} ELSE {}) :
          IF leader # None /\ named = leader
          THEN /\ writes' = writes \cup {Written(c)}
               /\ Put(c, [call[c] EXCEPT !.pc = "waiting", !.copy = @ + 1, !.todo = @ \ {s}])
          ELSE /\ writes' = writes
               /\ Put(c, [call[c] EXCEPT !.todo = @ \ {s}])
    /\ UNCHANGED <<log, truth, leader, former, terms, upto, faults>>

\* Mutant: a follower starts over with the candidates it has asked.
AskedThemAll_mutant(c) ==
    /\ At(c, "sending") /\ ~ IsCore(NodeOf(c)) /\ call[c].todo = {}
    /\ Put(c, [call[c] EXCEPT !.todo = {}])
    /\ UNCHANGED <<raftVars, upto, faults>>

\* Every core node was asked and none committed it.
AskedThemAll(c) ==
    /\ At(c, "sending") /\ ~ IsCore(NodeOf(c)) /\ call[c].todo = {}
    /\ To(c, "failed")
    /\ UNCHANGED <<raftVars, upto, faults>>

\* The peer is not reached, has no seat, or answers something else.
Unreachable(c) ==
    /\ At(c, "sending") /\ faults < MaxFaults
    /\ faults' = faults + 1
    /\ \/ /\ IsCore(NodeOf(c)) /\ NodeOf(c) # leader /\ Tried(c)
       \/ \E s \in call[c].todo : Put(c, [call[c] EXCEPT !.todo = @ \ {s}])
    /\ UNCHANGED <<raftVars, upto>>

\* The call stops waiting for its write.  Its own Raft says ForwardToLeader,
\* and the same attempt goes on with the leader named.
StopWaiting(c) ==
    IF IsCore(NodeOf(c)) /\ ~ call[c].own THEN Tried(c) ELSE To(c, "sending")

\* COMMIT_TIMEOUT, EXCHANGE_TIMEOUT, a connection lost, or this node deposed
\* with the write in its log: the call stops waiting, the write does not.
AnswerLost(c) ==
    /\ At(c, "waiting") /\ faults < MaxFaults
    /\ call[c].own => leader # NodeOf(c)
    /\ faults' = faults + 1
    /\ StopWaiting(c)
    /\ UNCHANGED <<raftVars, upto>>

\* The entry of the write that call c is waiting for.
Landed(c) == {i \in 1..Len(log) : log[i].call = c /\ log[i].copy = call[c].copy}

\* The write is gone, and so is every answer to it.
WriteLost(c) ==
    /\ At(c, "waiting")
    /\ Landed(c) = {} /\ \A w \in writes : w.call # c \/ w.copy # call[c].copy
    /\ StopWaiting(c)
    /\ UNCHANGED <<raftVars, upto, faults>>

\* Mutant: a stale core map is sent again like any other event.
sent_again_when_stale_mutant(ev) == ev.kind # "support"

sent_again_when_stale(ev) == ev.kind \notin {"core", "support"}

\* The verdict arrives: propose_and_retry catches up and proposes once more
\* when it was stale and the event may be sent again.
Answered(c) ==
    \E i \in Landed(c) :
        LET stale == ~ log[i].ok /\ log[i].view # truth[i - 1].changed_at
            second == stale /\ sent_again_when_stale(call[c].ev) /\ ~ call[c].again
        IN
        /\ At(c, "waiting")
        /\ IF log[i].ok
           THEN Put(c, [call[c] EXCEPT !.pc = "settling", !.index = i])
           ELSE IF second
           THEN Put(c, [call[c] EXCEPT !.pc = "behind", !.again = TRUE,
                                       !.index = truth[i - 1].changed_at])
           ELSE To(c, "refused")
        /\ UNCHANGED <<raftVars, upto, faults>>

\* Mutant: a committed proposal is reported at once, applied here or not.
CatchUpTo_mutant(c) ==
    /\ call[c].pc \in {"behind", "settling"}
    /\ To(c, IF At(c, "behind") THEN "signing" ELSE "applied")
    /\ UNCHANGED <<raftVars, upto, faults>>

\* catch_up_to: until the membership held here has reached the index.
CatchUpTo(c) ==
    /\ call[c].pc \in {"behind", "settling"}
    /\ membership(NodeOf(c)).changed_at >= call[c].index
    /\ To(c, IF At(c, "behind") THEN "signing" ELSE "applied")
    /\ UNCHANGED <<raftVars, upto, faults>>

\* LEADERSHIP_TIMEOUT first: BehindTheGroup, or NotYetApplied.
CatchUpTimesOut(c) ==
    /\ call[c].pc \in {"behind", "settling"} /\ faults < MaxFaults
    /\ faults' = faults + 1
    /\ To(c, IF At(c, "behind") THEN "failed" ELSE "unapplied")
    /\ UNCHANGED <<raftVars, upto>>

----------------------------------------------------------------------------
(* Raft and replication, as far as the calls see them (external).          *)

RaftCommits ==
    \E w \in writes :
        LET st == truth[Len(log)]
            index == Len(log) + 1
        IN
        /\ leader # None
        /\ writes' = writes \ {w}
        /\ log' = Append(log, [call |-> w.call, copy |-> w.copy, view |-> w.view,
                               read |-> w.read, first |-> w.first, ev |-> w.ev, ok |-> Verdict(st, w) = "ok"])
        /\ truth' = [i \in 0..index |-> IF i = index THEN Folded(st, w, index) ELSE truth[i]]
        /\ UNCHANGED <<leader, former, terms, upto, call, faults>>

RaftLoses ==
    \E w \in writes :
        /\ faults < MaxFaults /\ faults' = faults + 1
        /\ writes' = writes \ {w}
        /\ UNCHANGED <<log, truth, leader, former, terms, upto, call>>

LeaderFalls ==
    /\ leader # None /\ terms < MaxTerms
    /\ leader' = None /\ former' = leader /\ terms' = terms + 1
    /\ UNCHANGED <<log, truth, writes, upto, call, faults>>

Elected ==
    /\ leader = None
    /\ leader' \in Voter
    /\ UNCHANGED <<log, truth, writes, former, terms, upto, call, faults>>

LeaderIsKnown ==
    /\ leader # None /\ former # None
    /\ former' = None
    /\ UNCHANGED <<log, truth, writes, leader, terms, upto, call, faults>>

\* Watched only while a call on n is under way: nothing else reads upto[n].
Applies(n) ==
    /\ \E c \in Call : NodeOf(c) = n /\ (call[c].pc \in Ended => Asks[c].kind = "support" /\ ~ At(c, "never"))
    /\ upto[n] < Len(log)
    /\ upto' = [upto EXCEPT ![n] = @ + 1]
    /\ UNCHANGED <<raftVars, call, faults>>

----------------------------------------------------------------------------

Step(c) ==
    \/ ProposeCore(c) \/ ProposeAdd(c) \/ AnnounceSupport(c) \/ LookAgain(c)
    \/ ProposeOnce(c)
    \/ CommitHere(c) \/ ForwardToLeader(c) \/ WaitForALeader(c) \/ NobodyLeads(c)
    \/ (\E s \in Voter : AskCore(c, s)) \/ AskedThemAll(c)
    \/ Answered(c) \/ WriteLost(c) \/ CatchUpTo(c)

Fault(c) == Unreachable(c) \/ AnswerLost(c) \/ CatchUpTimesOut(c)

Raft == RaftCommits \/ Elected \/ LeaderIsKnown \/ \E n \in Node : Applies(n)

Next ==
    \/ \E c \in Call : Step(c) \/ Fault(c)
    \/ Raft \/ RaftLoses \/ LeaderFalls

\* A call runs on; Raft commits what is written while somebody leads, elects
\* somebody when nobody does, and replicates to every node.
Fairness == (\A c \in Call : WF_vars(Step(c))) /\ WF_vars(Raft)

Spec == Init /\ [][Next]_vars /\ Fairness

----------------------------------------------------------------------------
(* Properties.                                                             *)

\* Of all that was signed against one membership, by anyone and sent however
\* often after answers were lost, one entry takes effect: its commit moves
\* changed_at away from what the others were signed against (state.rs apply).
OnePerMembership ==
    \A i, j \in 1..Len(log) : (i < j /\ log[i].ok /\ log[j].ok) => i <= log[j].view

\* A call that was told its index reads its own change from then on: the
\* entry there is its own, took effect, and is applied on the node it asked
\* (node.rs propose: "committed and applied here").
ToldIsApplied ==
    \A c \in Call :
        At(c, "applied") =>
            /\ call[c].index \in 1..upto[NodeOf(c)]
            /\ log[call[c].index].call = c /\ log[call[c].index].ok

\* A core map undoes only what the node that proposed it applied between
\* building the map and signing it: whatever was decided after the signature
\* makes the map stale, and a stale map is not sent again (#154).
MapsUndoNothingDecidedSince ==
    \A i \in 1..Len(log) :
        (log[i].ok /\ log[i].ev.kind = "core") =>
            \A v \in Voter :
                (v # Asks[log[i].call].member /\ truth[i].core[v] # truth[i - 1].core[v]) =>
                    \E j \in (log[i].read + 1)..log[i].first : truth[j].core[v] # truth[j - 1].core[v]

\* A member's protocol support is written into the log once per upgrade, lost
\* answers and retries included, unless the record was applied between the
\* look at it and the signature (announce_protocol_support).
SupportSaidOnce ==
    \A i, j \in 1..Len(log) :
        (i < j /\ log[i].ok /\ log[j].ok /\ log[i].ev.kind = "support" /\ log[j].ev = log[i].ev)
            => i \in (log[j].read + 1)..log[j].first

\* Every call ends, and says how: no loss, timeout or election leaves a
\* caller waiting for good (PROPOSE_ATTEMPTS and the timeouts).
CallsEnd ==
    <>(\A c \in Call : Asks[c].kind # "support" => call[c].pc \in Ended)

\* A member whose build speaks more than its record says gets it recorded in
\* the end (announce_protocol_support runs until it is).
SupportIsSaid ==
    <>(\A c \in Call :
          (Asks[c].kind = "support" /\ ~ At(c, "never")) => NodeOf(c) \in truth[Len(log)].supports)

\* What is in the log and what callers were told agree, however often answers
\* were lost and calls repeated (node.rs propose, state.rs apply).
ProposingInv == TypeOK /\ OnePerMembership /\ ToldIsApplied /\ SupportSaidOnce

\* Every call ends, and what a node announces of itself by its own is said in
\* the end (propose, announce_protocol_support).
ProposalsEnd == CallsEnd /\ SupportIsSaid

=============================================================================
