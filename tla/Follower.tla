------------------------------- MODULE Follower -------------------------------
(***************************************************************************)
(* One follower's loop (raft/follower.rs) over StateMachineStore's         *)
(* follower half (raft/state_machine.rs): a pass asks core nodes for what  *)
(* is committed after its cursor, folds the page it gets, stores the fold  *)
(* with the cursor, announces it, and waits.                               *)
(*                                                                         *)
(* The loop awaits one exchange at a time, and nothing else writes the     *)
(* follower's state, so an exchange is one step; the servers move between  *)
(* exchanges.  A page is folded event by event under the lock of the state. *)
(***************************************************************************)
EXTENDS MemberLog

CONSTANT MaxVisited     \* 32 in the code: referrals followed in one pass

ASSUME FollowerAssumption == MaxVisited \in Nat

VARIABLES
    reach,      \* the servers the network lets the follower reach
    mem,        \* the applied state in memory: [state, followed_upto]
    disk,       \* the same, as last stored
    announced,  \* the membership last sent on the watch channel
    enforced,   \* the follower's own allowlist
    sources,    \* Sources.core
    pc,         \* "waiting", "asking", "folding", "storing" or "stopped"
    pass,       \* the pass: [todo, visited, refused, other, unread]
    page,       \* the page being folded: [events left, up_to, last one folded]
    expelled,   \* the loop stopped, saying this node was expelled
    upgrade,    \* the loop stopped until this node is upgraded
    faults      \* bounds spent: [outages, fails, crashes]

stateVars == <<mem, disk, announced>>
loopVars == <<pc, pass, page, sources>>
verdicts == <<expelled, upgrade>>
followerVars == <<stateVars, enforced, loopVars, verdicts>>
systemVars == <<logVars, serverVars, reach, followerVars, faults>>

Stored == [state : Membership, followed_upto : Nat]

NoPass == [todo |-> {}, visited |-> {}, refused |-> {}, other |-> {}, unread |-> {}]
NoPage == [events |-> {}, up_to |-> 0, last |-> 0]

Pass == [todo : SUBSET Node, visited : SUBSET Server, refused : SUBSET Server,
         other : SUBSET Server, unread : SUBSET Server]

FollowerTypeOK ==
    /\ log \in Seq(Entry)
    /\ truth \in [0..Len(log) -> Membership]
    /\ seat \in [Server -> BOOLEAN]
    /\ applied \in [Server -> 0..Len(log)]
    /\ proj \in [Server -> 0..Len(log)]
    /\ promo \in [Server -> 0..Len(log)]
    /\ allow \in [Server -> SUBSET Node]
    /\ reach \subseteq Server
    /\ mem \in Stored /\ disk \in Stored
    /\ announced \in Membership
    /\ enforced \subseteq Node
    /\ sources \subseteq Node
    /\ pc \in {"waiting", "asking", "folding", "storing", "stopped"}
    /\ pass \in Pass
    /\ page \in [events : SUBSET Nat, up_to : Nat, last : Nat]
    /\ expelled \in BOOLEAN /\ upgrade \in BOOLEAN
    /\ faults \in [outages : Nat, fails : Nat, crashes : Nat]

Blank == [state |-> NewMembership, followed_upto |-> 0]

FollowerInit ==
    /\ LogInit /\ ServerInit
    /\ reach = Server
    /\ mem = Blank /\ disk = Blank
    /\ announced = NewMembership
    /\ enforced = Founders
    /\ sources = Founders
    /\ pc = "waiting" /\ pass = NoPass /\ page = NoPage
    /\ expelled = FALSE /\ upgrade = FALSE
    /\ faults = [outages |-> 0, fails |-> 0, crashes |-> 0]

-----------------------------------------------------------------------------
(* The end of a pass.                                                      *)

BehindTheGroup(st) == st.protocol > PROTOCOL_MAX

\* stopped_behind_the_group, then what the loop does with `progress`: stop
\* for good on Undecodable, and on Refused once this node has held the log;
\* otherwise wait, and ask again.
EndPass(progress) ==
    LET behind == BehindTheGroup(mem.state)
        refused == progress = "Refused" /\ mem.state.group
    IN
    /\ pc' = IF behind \/ refused \/ progress = "Undecodable" THEN "stopped" ELSE "waiting"
    /\ upgrade' = (behind \/ progress = "Undecodable")
    /\ expelled' = (~ behind /\ refused)
    /\ pass' = NoPass /\ page' = NoPage

-----------------------------------------------------------------------------
(* fetch_log_from_core_nodes.                                              *)

Candidates == (sources \cup mem.state.core) \ {Me}

\* wait_for_a_reason returns, at its deadline or at a hint, and a pass starts.
StartPass ==
    /\ pc = "waiting"
    /\ Candidates # {}
    /\ pc' = "asking"
    /\ pass' = [NoPass EXCEPT !.todo = Candidates]
    /\ UNCHANGED <<logVars, serverVars, reach, stateVars, enforced, page, sources, verdicts, faults>>

\* The next candidate s is taken: not this node, not asked before.
TakesUp(s) ==
    /\ pc = "asking"
    /\ s \in pass.todo \ pass.visited
    /\ Cardinality(pass.visited) < MaxVisited

Visit(s) == [pass EXCEPT !.visited = @ \cup {s}, !.todo = @ \ {s}]

\* AllowlistHooks refuses on both sides: this node does not dial a stranger.
Connects(s) == s \in reach /\ s \in enforced

AskUnreachable(s) ==
    /\ TakesUp(s) /\ ~ Connects(s)
    /\ pass' = Visit(s)
    /\ UNCHANGED <<logVars, serverVars, reach, stateVars, enforced, pc, page, sources, verdicts, faults>>

AskRefused(s) ==
    /\ TakesUp(s) /\ Connects(s) /\ Me \notin allow[s]
    /\ pass' = [Visit(s) EXCEPT !.refused = @ \cup {s}]
    /\ UNCHANGED <<logVars, serverVars, reach, stateVars, enforced, pc, page, sources, verdicts, faults>>

\* Mutant: the server lets anybody in who dials it.
Talks_mutant(s) == TakesUp(s) /\ Connects(s)

\* after_handshake: the server admits who is on its allowlist.
Talks(s) == TakesUp(s) /\ Connects(s) /\ Me \in allow[s]

AskNoGroup(s) ==
    /\ Talks(s) /\ AnswersNoGroup(s, mem.followed_upto)
    /\ pass' = [Visit(s) EXCEPT !.other = @ \cup {s}]
    /\ UNCHANGED <<logVars, serverVars, reach, stateVars, enforced, pc, page, sources, verdicts, faults>>

AskRedirect(s) ==
    /\ Talks(s) /\ AnswersRedirect(s, mem.followed_upto)
    /\ sources' = truth[proj[s]].core
    /\ pass' = [Visit(s) EXCEPT !.other = @ \cup {s},
                                !.todo = @ \cup (truth[proj[s]].core \ {Me})]
    /\ UNCHANGED <<logVars, serverVars, reach, stateVars, enforced, pc, page, verdicts, faults>>

AskUndecodable(s) ==
    /\ Talks(s) /\ AnswersEntries(s, mem.followed_upto)
    /\ \E p \in fetch(mem.followed_upto, applied[s]) : Unreadable(p)
    /\ pass' = [Visit(s) EXCEPT !.other = @ \cup {s}, !.unread = @ \cup {s}]
    /\ UNCHANGED <<logVars, serverVars, reach, stateVars, enforced, pc, page, sources, verdicts, faults>>

\* A page: the new sources are taken first, and then the page is folded,
\* unless it reaches no further than the cursor.
AskEntries(s, p, core) ==
    /\ Talks(s) /\ AnswersEntries(s, mem.followed_upto)
    /\ p \in fetch(mem.followed_upto, applied[s])
    /\ ~ Unreadable(p)
    /\ core \in Sources(s)
    /\ sources' = core
    /\ \/ /\ p.up_to <= mem.followed_upto
          /\ EndPass("UpToDate")
       \/ /\ p.up_to > mem.followed_upto
          /\ pc' = "folding"
          /\ page' = [events |-> p.events, up_to |-> p.up_to, last |-> mem.followed_upto]
          /\ pass' = NoPass
          /\ UNCHANGED verdicts
    /\ UNCHANGED <<logVars, serverVars, reach, stateVars, enforced, faults>>

\* Answers::progress: refused when everybody who answered refused.
Refused(p) == p.refused # {} /\ p.other = {}

Undecodable(p) == p.unread # {} /\ p.unread = p.other

\* Every candidate was tried, or as many as a pass may visit.
NobodyServed ==
    /\ pc = "asking"
    /\ pass.todo \subseteq pass.visited \/ Cardinality(pass.visited) >= MaxVisited
    /\ EndPass(IF Refused(pass) THEN "Refused"
               ELSE IF Undecodable(pass) THEN "Undecodable" ELSE "Unreachable")
    /\ UNCHANGED <<logVars, serverVars, reach, stateVars, enforced, sources, faults>>

-----------------------------------------------------------------------------
(* StateMachineStore::apply_followed.                                      *)

\* What is left of the page is under rules this build does not know.
PastARaise == mem.state.protocol > PROTOCOL_MAX

FoldEvent(i) ==
    /\ pc = "folding" /\ ~ PastARaise
    /\ i \in page.events /\ \A k \in page.events : i <= k
    /\ mem' = [mem EXCEPT !.state = Fold(@, i, log[i])]
    /\ page' = [page EXCEPT !.events = @ \ {i}, !.last = i]
    /\ UNCHANGED <<logVars, serverVars, reach, disk, announced, enforced, pc, pass, sources, verdicts, faults>>

\* The cursor: what the page reached, or the raise it stopped at.
FoldDone ==
    /\ pc = "folding" /\ (page.events = {} \/ PastARaise)
    /\ mem' = [mem EXCEPT !.followed_upto = IF page.events = {} THEN page.up_to ELSE page.last]
    /\ pc' = "storing"
    /\ UNCHANGED <<logVars, serverVars, reach, disk, announced, enforced, pass, page, sources, verdicts, faults>>

\* The state and its cursor are written together, and announced after that.
Store ==
    /\ pc = "storing"
    /\ disk' = mem
    /\ announced' = mem.state
    /\ EndPass("Fetched")
    /\ UNCHANGED <<logVars, serverVars, reach, mem, enforced, sources, faults>>

\* The write fails: memory keeps what was folded, and nothing is announced.
StoreFails ==
    /\ pc = "storing"
    /\ faults.fails < scenario.fails
    /\ faults' = [faults EXCEPT !.fails = @ + 1]
    /\ EndPass("NotStored")
    /\ UNCHANGED <<logVars, serverVars, reach, stateVars, enforced, sources>>

-----------------------------------------------------------------------------
\* follow_membership, on the follower.
Enforce ==
    /\ announced.group /\ enforced # announced.members
    /\ enforced' = announced.members
    /\ UNCHANGED <<logVars, serverVars, reach, stateVars, loopVars, verdicts, faults>>

\* The process stops, in any state of the loop, and starts again from what
\* was stored: the sources are the stored core, or configuration.
Restart ==
    /\ faults.crashes < scenario.crashes
    /\ faults' = [faults EXCEPT !.crashes = @ + 1]
    /\ mem' = disk
    /\ announced' = disk.state
    /\ enforced' = Founders
    /\ sources' = IF disk.state.group THEN disk.state.core ELSE Founders
    /\ pc' = "waiting" /\ pass' = NoPass /\ page' = NoPage
    /\ expelled' = FALSE /\ upgrade' = FALSE
    /\ UNCHANGED <<logVars, serverVars, reach, disk>>

Lose(s) ==
    /\ s \in reach /\ faults.outages < scenario.outages
    /\ reach' = reach \ {s}
    /\ faults' = [faults EXCEPT !.outages = @ + 1]
    /\ UNCHANGED <<logVars, serverVars, followerVars>>

Recover(s) ==
    /\ s \notin reach
    /\ reach' = reach \cup {s}
    /\ UNCHANGED <<logVars, serverVars, followerVars, faults>>

-----------------------------------------------------------------------------
Ask(s) ==
    \/ AskUnreachable(s) \/ AskRefused(s) \/ AskNoGroup(s)
    \/ AskRedirect(s) \/ AskUndecodable(s)
    \/ \E p \in fetch(mem.followed_upto, applied[s]), core \in Sources(s) : AskEntries(s, p, core)

Loop ==
    \/ StartPass \/ NobodyServed \/ FoldDone \/ Store
    \/ \E i \in page.events : FoldEvent(i)
    \/ \E s \in Server : Ask(s)

RaftCommits == \E c \in scenario.changes, seen \in {0, Now.changed_at} :
    Commit(c, seen) /\ UNCHANGED <<reach, followerVars, faults>>

ServerStep(s) == ServerNext(s) /\ UNCHANGED <<reach, followerVars, faults>>

FollowerNext ==
    \/ Loop \/ StoreFails \/ Enforce \/ Restart \/ RaftCommits
    \/ \E s \in Server : ServerStep(s) \/ Lose(s) \/ Recover(s)

FollowerSpec == FollowerInit /\ [][FollowerNext]_systemVars

\* The loop, the allowlist task and each server keep running, and a server
\* that was lost comes back.
Fairness ==
    /\ WF_systemVars(Loop) /\ WF_systemVars(Enforce)
    /\ \A s \in Server : WF_systemVars(ServerStep(s)) /\ WF_systemVars(Recover(s))

FairSpec == FollowerSpec /\ Fairness

-----------------------------------------------------------------------------
(* Properties.                                                             *)

\* What a follower holds, in memory and on disk, is the fold of exactly the
\* prefix its cursor claims, however the log was paged, whichever servers
\* served it, and whatever failed on the way: no change is skipped or folded
\* twice (state_machine.rs apply_followed, memberlog.rs fetch).
FollowsAPrefix ==
    /\ mem.followed_upto <= Len(log) /\ disk.followed_upto <= Len(log)
    /\ page.last <= Len(log)
    /\ mem.state = truth[IF pc = "folding" THEN page.last ELSE mem.followed_upto]
    /\ disk.state = truth[disk.followed_upto]

\* A follower never folds an event committed after the raise past what its
\* build speaks (apply_followed), across pages and restarts.
StopsAtARaise ==
    mem.state.protocol > PROTOCOL_MAX =>
        /\ log[mem.state.changed_at].do.op = "raise"
        /\ mem.state.protocol = PROTOCOL_MAX + 1

\* A follower only stops to be upgraded when the group speaks what its build
\* does not, however many servers answered what (follow, Answers::progress).
UpgradeIsReal == upgrade => Now.protocol > PROTOCOL_MAX

MemberForGood == <>[](Me \in Now.members)
Current == mem.followed_upto = Len(log) /\ enforced = Now.members

\* The two ways the loop comes to rest behind the log.  The refusal of a server
\* that is itself behind is taken for an expulsion; and a page whose write
\* failed is neither stored nor announced before another change arrives, since
\* the retry starts after it (follow, apply_followed).
TakenForExpelled == expelled
PageNotStored == disk # mem /\ faults.fails > 0

\* A member's follower catches up with the group and enforces what the group
\* decided, through outages, seats that move to nodes it has never heard of,
\* and crashes - or stops to be upgraded, or rests in one of those two ways
\* (follow; the timer of wait_for_a_reason).
CatchesUp ==
    MemberForGood => <>[](Current \/ upgrade \/ TakenForExpelled \/ PageNotStored)

\* A follower that held the log and is expelled for good stops asking
\* (Progress::Refused in follow).
ExpelledForGood == <>[](Me \notin Now.members /\ mem.state.group)
ExpulsionEndsTheLoop == ExpelledForGood => <>[](pc = "stopped")

\* What a follower holds at every moment: the fold of the prefix it claims and
\* nothing past a raise it cannot speak, stopping only for a real one (follow,
\* apply_followed).
FollowerInv == FollowerTypeOK /\ FollowsAPrefix /\ StopsAtARaise /\ UpgradeIsReal

=============================================================================
