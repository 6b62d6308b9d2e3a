------------------------------ MODULE MemberLog ------------------------------
(***************************************************************************)
(* The committed membership log as the nodes that serve it hold it         *)
(* (raft/memberlog.rs, raft/log_store.rs, the serving half of              *)
(* raft/state_machine.rs, and the role changes of node.rs that decide      *)
(* whether a server answers from a Raft or from what it kept).             *)
(*                                                                         *)
(* `log` is what Raft has committed: Raft itself is external, so an entry  *)
(* appears in it once and never changes.  truth[i] is the fold of its      *)
(* first i entries: MembershipState reduced to what a reader of the log    *)
(* depends on (module MembershipState has the rules in full).              *)
(***************************************************************************)
EXTENDS Integers, Sequences, FiniteSets

CONSTANTS
    Server,         \* the nodes that hold, or come to hold, a seat
    Me,             \* the follower: a member that never votes here
    Scenarios,      \* [founders, prelude, changes, max_log, outages, fails, crashes]
    PROTOCOL_MAX,   \* the newest protocol the follower's build speaks
    EVENTS_PER_FETCH

Node == Server \cup {Me}

\* A scenario: the configured core group, who found the group; the log already
\* committed and the changes Raft may commit after it, up to a length; and the
\* bounds on the follower's faults.

\* A change: what it does and to whom.  "blank" is an entry that carries no
\* event; "alien" is an event of a later protocol, which the follower's build
\* cannot decode.
Change == [op : {"blank", "found", "admit", "expel", "core", "raise", "alien"},
           who : SUBSET Node]

\* An entry: a change and the changed_at its proposer signed it against.
Entry == [do : Change, seen : Nat]

VARIABLES
    scenario,
    log,        \* the committed entries
    truth,      \* truth[i]: the fold of the first i entries
    seat,       \* seat[s]: s holds a Raft
    applied,    \* applied[s]: how far s's Raft has applied the log
    proj,       \* proj[s]: the prefix s's projection is the fold of
    promo,      \* promo[s]: changed_at of the membership that seated s
    allow       \* allow[s]: the allowlist s enforces

logVars == <<scenario, log, truth>>

Founders == scenario.founders
serverVars == <<seat, applied, proj, promo, allow>>

-----------------------------------------------------------------------------
(* The fold.                                                               *)

Membership == [group : BOOLEAN, changed_at : Nat, members : SUBSET Node,
               core : SUBSET Node, protocol : Nat]

NewMembership == [group |-> FALSE, changed_at |-> 0, members |-> {},
                  core |-> {}, protocol |-> 0]

IsEvent(e) == e.do.op # "blank"

Accepted(st, e) ==
    /\ IsEvent(e)
    /\ e.seen = st.changed_at
    /\ (e.do.op = "found") = ~ st.group
    /\ e.do.op \in {"expel", "core"} => e.do.who # {} /\ e.do.who \subseteq st.members
    /\ e.do.op = "expel" => ~ st.core \subseteq e.do.who

FoldedMembers(st, c) ==
    CASE c.op \in {"found", "admit"} -> st.members \cup c.who
      [] c.op = "expel" -> st.members \ c.who
      [] OTHER -> st.members

FoldedCore(st, c) ==
    CASE c.op \in {"found", "core"} -> c.who
      [] c.op = "expel" -> st.core \ c.who
      [] OTHER -> st.core

Fold(st, i, e) ==
    IF ~ Accepted(st, e) THEN st
    ELSE [group      |-> TRUE,
          changed_at |-> i,
          members    |-> FoldedMembers(st, e.do),
          core       |-> FoldedCore(st, e.do),
          protocol   |-> IF e.do.op = "found" THEN 1
                         ELSE IF e.do.op = "raise" THEN st.protocol + 1
                         ELSE st.protocol]

FoldOf(entries) ==
    LET f[i \in 0..Len(entries)] ==
            IF i = 0 THEN NewMembership ELSE Fold(f[i - 1], i, entries[i])
    IN  f

\* Every build speaks the first protocol, and what is already committed holds,
\* like what is committed later, nothing a build of the group's protocol could
\* not have proposed.
ASSUME MemberLogAssumption ==
    /\ IsFiniteSet(Server) /\ Me \notin Server
    /\ PROTOCOL_MAX \in Nat \ {0}
    /\ EVENTS_PER_FETCH \in Nat \ {0}
    /\ \A sc \in Scenarios :
        /\ sc.founders \subseteq Server /\ sc.founders # {}
        /\ sc.prelude \in Seq(Entry)
        /\ \A i \in DOMAIN sc.prelude :
              sc.prelude[i].do.op = "alien" => FoldOf(sc.prelude)[i - 1].protocol > PROTOCOL_MAX
        /\ sc.changes \subseteq Change
        /\ {sc.max_log, sc.outages, sc.fails, sc.crashes} \subseteq Nat

Now == truth[Len(log)]

-----------------------------------------------------------------------------
LogInit ==
    /\ scenario \in Scenarios
    /\ log = scenario.prelude /\ truth = FoldOf(scenario.prelude)

ServerInit ==
    /\ seat = [s \in Server |-> s \in Founders]
    /\ applied = [s \in Server |-> 0]
    /\ proj = [s \in Server |-> 0]
    /\ promo = [s \in Server |-> 0]
    /\ allow = [s \in Server |-> Founders]

\* Raft commits an entry: signed against the membership as it is, or against
\* one that has moved on.  A newer build proposes what the follower cannot
\* read only once the group speaks the newer protocol.
Commit(c, seen) ==
    /\ Len(log) < scenario.max_log
    /\ c.op = "alien" => Now.protocol > PROTOCOL_MAX
    /\ log' = Append(log, [do |-> c, seen |-> seen])
    /\ truth' = [i \in 0..Len(log) + 1 |->
                    IF i <= Len(log) THEN truth[i]
                    ELSE Fold(Now, i, [do |-> c, seen |-> seen])]
    /\ UNCHANGED <<scenario, serverVars>>

\* RaftStateMachine::apply of one entry on a seated server: the projection
\* and last_applied move together, in one transaction.
ServerApplies(s) ==
    /\ seat[s] /\ applied[s] < Len(log)
    /\ applied' = [applied EXCEPT ![s] = @ + 1]
    /\ proj' = [proj EXCEPT ![s] = applied[s] + 1]
    /\ UNCHANGED <<logVars, seat, promo, allow>>

\* A server with no seat follows the log like everybody else: its own follow
\* loop, in one step, since module Follower shows what that loop does.
ServerFollows(s) ==
    /\ ~ seat[s] /\ proj[s] < Len(log)
    /\ s \in Now.members
    /\ proj' = [proj EXCEPT ![s] = @ + 1]
    /\ UNCHANGED <<logVars, seat, applied, promo, allow>>

\* follow_membership: the allowlist is rewritten from a founded projection
\* that is not the replay of an older one.
ServerEnforces(s) ==
    LET st == truth[proj[s]] IN
    /\ st.group /\ st.changed_at >= promo[s]
    /\ allow[s] # st.members
    /\ allow' = [allow EXCEPT ![s] = st.members]
    /\ UNCHANGED <<logVars, seat, applied, proj, promo>>

\* take_the_seat: the log names s a voter, so s blanks its projection,
\* keeping the allowlist, and replays the log through Raft.
TakeSeat(s) ==
    /\ ~ seat[s] /\ s \in truth[proj[s]].core
    /\ seat' = [seat EXCEPT ![s] = TRUE]
    /\ promo' = [promo EXCEPT ![s] = truth[proj[s]].changed_at]
    /\ applied' = [applied EXCEPT ![s] = 0]
    /\ proj' = [proj EXCEPT ![s] = 0]
    /\ UNCHANGED <<logVars, allow>>

\* stand_down: a membership at least as new as the one that seated s does not
\* name it, and Raft has removed it.
StandDown(s) ==
    LET st == truth[proj[s]] IN
    /\ seat[s] /\ st.group /\ st.changed_at >= promo[s] /\ s \notin st.core
    /\ seat' = [seat EXCEPT ![s] = FALSE]
    /\ UNCHANGED <<logVars, applied, proj, promo, allow>>

ServerNext(s) ==
    ServerApplies(s) \/ ServerFollows(s) \/ ServerEnforces(s) \/ TakeSeat(s) \/ StandDown(s)

-----------------------------------------------------------------------------
(* What a server answers to Request::From { cursor }.                      *)

EventsIn(from, to) == {i \in from + 1 .. to : IsEvent(log[i])}

\* Mutant: a page cut short claims everything applied.
fetch_mutant(cursor, upper) ==
    LET evs == EventsIn(cursor, upper) IN
    {[events |-> EventsIn(cursor, i), up_to |-> upper] :
        i \in {k \in evs : Cardinality(EventsIn(cursor, k)) <= EVENTS_PER_FETCH}}
    \cup (IF evs = {} THEN {[events |-> {}, up_to |-> upper]} ELSE {})

\* LogStore::events_after and MemberlogProtocol::fetch: the pages a server may
\* answer.  A page is cut at a count of events or, after at least one, at a
\* count of bytes, and then reaches its last event; a whole page reaches what
\* is applied.
fetch(cursor, upper) ==
    LET evs == EventsIn(cursor, upper)
        cuts == {i \in evs : /\ Cardinality(EventsIn(cursor, i)) <= EVENTS_PER_FETCH
                             /\ EventsIn(i, upper) # {}}
    IN  {[events |-> EventsIn(cursor, i), up_to |-> i] : i \in cuts}
        \cup (IF Cardinality(evs) <= EVENTS_PER_FETCH
              THEN {[events |-> evs, up_to |-> upper]} ELSE {})

\* Mutant: a node without a seat only ever redirects.
Serves_mutant(s, cursor) == seat[s]

\* MemberlogProtocol::accept: a seated server answers from its Raft; one
\* without a seat serves the prefix it kept and redirects past it.
Serves(s, cursor) == seat[s] \/ cursor < applied[s]

AnswersNoGroup(s, cursor) == Serves(s, cursor) /\ ~ truth[proj[s]].group

AnswersEntries(s, cursor) == Serves(s, cursor) /\ truth[proj[s]].group

AnswersRedirect(s, cursor) == ~ Serves(s, cursor)

\* Whether a page holds an event the follower's build cannot decode.
Unreadable(p) == \E i \in p.events : log[i].do.op = "alien"

\* source(): the voters of the Raft configuration the server holds.  The
\* leader enacts each core group the log names, in the log's order, so it is
\* the core group of some prefix the server has applied.
Sources(s) == {truth[j].core : j \in {k \in 1..applied[s] : truth[k].group}}
=============================================================================
