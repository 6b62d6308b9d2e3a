------------------------------ MODULE CoreGroup ------------------------------
(***************************************************************************)
(* Making Raft's voters the ones the log names (raft/core_group.rs), with  *)
(* the other half of every promotion and demotion on the node it concerns  *)
(* (node.rs take_the_seat, stand_down; raft/network.rs may_speak_raft,     *)
(* forget_retired).  Module Seat looks inside one node's half.             *)
(*                                                                         *)
(* Raft is external: one log, of which each node holds a prefix; a leader  *)
(* extends it, a majority of every voter set in force commits it, and a    *)
(* new leader may drop what was not committed.  An entry carries the core  *)
(* group and the configuration in force once it is applied, and where each *)
(* was written.                                                            *)
(***************************************************************************)
EXTENDS Integers, Sequences, FiniteSets, FiniteSetsExt, SequencesExt, TLC

CONSTANTS
    Members, Nobody,
    Scenarios,      \* what may happen: [cores, elections, outages]
    Prompt          \* nobody is elected before applying what it knew committed

\* A scenario: what the group decides, in order, the founding first; and the
\* bounds on leaders replaced while they run and on times a node is cut off.

ASSUME CoreGroupAssumption ==
    /\ IsFiniteSet(Members) /\ Nobody \notin Members
    /\ Prompt \in BOOLEAN
    /\ \A s \in Scenarios :
        /\ s = [cores |-> s.cores, elections |-> s.elections, outages |-> s.outages]
        /\ s.elections \in Nat /\ s.outages \in Nat
        /\ s.cores \in Seq(Range(s.cores)) /\ s.cores # <<>>
        /\ \A k \in DOMAIN s.cores :
              /\ DOMAIN s.cores[k].core # {}
              /\ DOMAIN s.cores[k].core \subseteq s.cores[k].members
              /\ s.cores[k].members \subseteq Members

VARIABLES
    log, commit, leader,
    node,       \* [seat, seated_at, matched, known, applied, up]; known: committed, as it was told
    task,       \* enact on the leader: [pc, change, at]; at: the entry it waits for
    scenario    \* what the group decides, and the bounds as far as they are not spent

vars == <<log, commit, leader, node, task, scenario>>

Cores == scenario.cores

-----------------------------------------------------------------------------
(* Configurations: openraft's Membership.                                  *)

Voters(conf) == UNION Range(conf.joint)
Uniform(conf) == Len(conf.joint) = 1
Learners(conf) == DOMAIN conf.nodes \ Voters(conf)
Effective == Last(log).conf

Change(kind, ids, addrs) == [kind |-> kind, ids |-> ids, addrs |-> addrs]
NoChange == Change("none", {}, <<>>)

\* next_coherent: one step to a voter set the configuration already holds,
\* through a joint configuration to any other.
Coherent(conf, goal) ==
    [conf EXCEPT !.joint = IF goal \in Range(@) THEN <<goal>> ELSE <<Last(@), goal>>]

ChangeMembers(conf, c) ==
    LET last == Last(conf.joint) IN
    CASE c.kind = "AddVoterIds" -> Coherent(conf, last \cup c.ids)
      [] c.kind = "RemoveVoters" -> Coherent(conf, last \ c.ids)
      [] c.kind = "ReplaceAllVoters" -> Coherent(conf, c.ids)
      [] c.kind = "AddNodes" -> [conf EXCEPT !.nodes = @ @@ c.addrs]
      [] c.kind = "SetNodes" -> [conf EXCEPT !.nodes = c.addrs @@ @]
      [] c.kind = "RemoveNodes" ->
            [conf EXCEPT !.nodes = [m \in DOMAIN @ \ c.ids |-> @[m]]]

Valid(conf) == {} \notin Range(conf.joint) /\ Voters(conf) \subseteq DOMAIN conf.nodes

Majority(acks, voters) == 2 * Cardinality(acks \cap voters) > Cardinality(voters)
Quorum(acks, conf) == \A voters \in Range(conf.joint) : Majority(acks, voters)

\* The engine takes a change only once it knows the last one committed.
Accepted(c) ==
    /\ leader # Nobody /\ Last(log).conf_at <= node[leader].known
    /\ Valid(ChangeMembers(Effective, c))

-----------------------------------------------------------------------------
(* What a prefix of the log says, and who a node listens to.               *)

CoreAt(i) == IF i = 0 THEN <<>> ELSE Cores[log[i].core].core
MembersAt(i) == IF i = 0 THEN {} ELSE Cores[log[i].core].members
VotersAt(i) == IF i = 0 THEN {} ELSE Voters(log[i].conf)
ConfAt(i) == IF i = 0 THEN 0 ELSE log[i].conf_at

\* The core before the one that made m a voter: apply_followed's predecessors.
Predecessors(m, k) ==
    LET before == {j \in 1..k : m \notin DOMAIN Cores[j].core} IN
    IF before = {} THEN {} ELSE DOMAIN Cores[Max(before)].core

\* prepare_promotion: whom a promoted node hears until it is caught up.
PromotionVoters(m) ==
    LET k == log[node[m].seated_at].core IN
    (DOMAIN Cores[k].core \cup Predecessors(m, k)) \cap Cores[k].members

Replaying(m) == ConfAt(node[m].applied) < node[m].seated_at

may_speak_raft(m, peer) ==
    \/ Replaying(m) /\ peer \in PromotionVoters(m)
    \/ peer \in VotersAt(node[m].applied)
    \/ peer \in VotersAt(node[m].matched)

\* The leader reaches m, counts it among its nodes, and m listens.
Reached(m) ==
    /\ leader \notin {Nobody, m} /\ node[m].up /\ node[m].seat
    /\ m \in DOMAIN Effective.nodes
    /\ may_speak_raft(m, leader)

-----------------------------------------------------------------------------
TypeOK ==
    /\ 1 <= commit /\ commit <= Len(log)
    /\ \A i \in 1..Len(log) :
        /\ log[i].core \in 1..Len(Cores) /\ log[i].core_at \in 1..i
        /\ log[i].conf_at \in 1..i /\ Valid(log[i].conf)
    /\ leader \in Members \cup {Nobody}
    /\ \A m \in Members :
        /\ node[m].matched \in 0..Len(log) /\ node[m].applied \in 0..commit
        /\ node[m].known \in 0..commit
        /\ node[m].seated_at \in 0..commit /\ (node[m].seat => node[m].seated_at > 0)
    /\ task.pc \in {"idle", "planned", "sent"} /\ task.at \in 0..Len(log)

Init ==
    /\ scenario \in Scenarios
    /\ LET founders == DOMAIN Cores[1].core
           founding == [core |-> 1, core_at |-> 1, conf_at |-> 1,
                        conf |-> [joint |-> <<founders>>, nodes |-> Cores[1].core]]
       IN
       /\ log = <<founding>> /\ commit = 1
       /\ leader \in founders
       /\ node = [m \in Members |->
                    [seat |-> m \in founders, seated_at |-> IF m \in founders THEN 1 ELSE 0,
                     matched |-> IF m \in founders THEN 1 ELSE 0,
                     known |-> IF m \in founders THEN 1 ELSE 0, applied |-> 1,
                     up |-> TRUE]]
       /\ task = [pc |-> "idle", change |-> NoChange, at |-> 0]

-----------------------------------------------------------------------------
(* Raft.                                                                   *)

\* The leader writes an entry.
Write(entry) ==
    /\ log' = Append(log, entry)
    /\ node' = [node EXCEPT ![leader].matched = Len(log) + 1]

WriteConf(c) ==
    Write([Last(log) EXCEPT !.conf = ChangeMembers(@, c), !.conf_at = Len(log) + 1])

Idle == task' = [pc |-> "idle", change |-> NoChange, at |-> 0]

\* The group decides the next core group.
Decide ==
    /\ leader # Nobody /\ Last(log).core < Len(Cores)
    /\ Write([Last(log) EXCEPT !.core = @ + 1, !.core_at = Len(log) + 1])
    /\ UNCHANGED <<commit, leader, task, scenario>>

\* Entries, and a heartbeat, tell a node what is committed.
Replicate(m) ==
    /\ Reached(m) /\ (node[m].matched < Len(log) \/ node[m].known < commit)
    /\ node' = [node EXCEPT ![m].matched = Len(log), ![m].known = commit]
    /\ UNCHANGED <<log, commit, leader, task, scenario>>

\* A new leader learns what is committed by committing an entry of its own,
\* left out here; one its own configuration dropped leads until that is
\* committed.
Commit ==
    /\ leader # Nobody /\ node[leader].known < Len(log)
    /\ Quorum({m \in Members : node[m].matched = Len(log)}, Effective)
    /\ commit' = Len(log)
    /\ node' = [node EXCEPT ![leader].known = Len(log)]
    /\ IF leader \in Voters(Effective)
       THEN UNCHANGED <<leader, task>>
       ELSE leader' = Nobody /\ Idle
    /\ UNCHANGED <<log, scenario>>

\* A seated node applies what it was told is committed.
Apply(m) ==
    /\ node[m].seat /\ node[m].up
    /\ node[m].applied < Min({node[m].matched, node[m].known})
    /\ node' = [node EXCEPT ![m].applied = @ + 1]
    /\ UNCHANGED <<log, commit, leader, task, scenario>>

\* A voter is elected by a quorum that listens to it and is not ahead of it;
\* so is one its own uncommitted entry dropped, as a leader that comes back.
Elect(m) ==
    LET own == node[m].matched
        votes == {v \in Members : /\ node[v].up /\ node[v].seat /\ node[v].matched <= own
                                  /\ v = m \/ may_speak_raft(v, m)}
    IN
    /\ m # leader /\ node[m].up /\ node[m].seat
    /\ leader # Nobody => scenario.elections > 0
    /\ m \in VotersAt(own) \cup VotersAt(commit) /\ Quorum(votes, log[own].conf)
    /\ Prompt => node[m].applied = Min({own, node[m].known})
    /\ scenario' = [scenario EXCEPT !.elections = IF leader = Nobody THEN @ ELSE @ - 1]
    /\ leader' = m
    /\ log' = SubSeq(log, 1, own)
    /\ node' = [v \in Members |-> [node[v] EXCEPT !.matched = Min({@, own})]]
    /\ Idle
    /\ UNCHANGED commit

\* A node crashes or is cut off, and is back.
Lose(m) ==
    /\ node[m].up /\ scenario.outages > 0
    /\ scenario' = [scenario EXCEPT !.outages = @ - 1]
    /\ node' = [node EXCEPT ![m].up = FALSE]
    /\ IF leader = m THEN leader' = Nobody /\ Idle ELSE UNCHANGED <<leader, task>>
    /\ UNCHANGED <<log, commit>>

Recover(m) ==
    /\ ~ node[m].up
    /\ node' = [node EXCEPT ![m].up = TRUE]
    /\ UNCHANGED <<log, commit, leader, task, scenario>>

-----------------------------------------------------------------------------
(* The node's half.                                                        *)

\* A member without a seat follows the log.
Follow(m) ==
    /\ ~ node[m].seat /\ node[m].up
    /\ node[m].applied < commit /\ m \in MembersAt(commit)
    /\ node' = [node EXCEPT ![m].applied = @ + 1]
    /\ UNCHANGED <<log, commit, leader, task, scenario>>

take_the_seat(m) ==
    /\ ~ node[m].seat /\ m \in DOMAIN CoreAt(node[m].applied)
    /\ node' = [node EXCEPT ![m].seat = TRUE, ![m].applied = 0,
                            ![m].seated_at = log[node[m].applied].core_at]
    /\ UNCHANGED <<log, commit, leader, task, scenario>>

\* Mutant: the log's demotion is enough.
may_retire_mutant(m) ==
    LET i == node[m].applied IN
    /\ i # 0 /\ log[i].core_at >= node[m].seated_at /\ m \notin DOMAIN CoreAt(i)

may_retire(m) ==
    LET i == node[m].applied IN
    /\ i # 0 /\ log[i].core_at >= node[m].seated_at /\ m \notin DOMAIN CoreAt(i)
    /\ log[i].conf_at >= node[m].seated_at /\ Uniform(log[i].conf) /\ m \notin VotersAt(i)

stand_down(m) ==
    /\ node[m].seat /\ may_retire(m)
    /\ node' = [node EXCEPT ![m].seat = FALSE]
    /\ IF leader = m THEN leader' = Nobody /\ Idle ELSE UNCHANGED <<leader, task>>
    /\ UNCHANGED <<log, commit, scenario>>

-----------------------------------------------------------------------------
(* The leader's half.                                                      *)

\* learner_progress: level with what the leader has applied.
CaughtUp(m) == node[m].matched >= node[leader].applied

\* Mutant: whoever the log dropped goes before their successors are in.
next_change_mutant(wanted) ==
    LET departed == Voters(Effective) \ DOMAIN wanted
        joining == DOMAIN wanted \ Voters(Effective)
        unknown == joining \ DOMAIN Effective.nodes
    IN
    CASE wanted = <<>> -> NoChange
      [] wanted # <<>> /\ departed # {} -> Change("RemoveVoters", departed, <<>>)
      [] wanted # <<>> /\ departed = {} /\ unknown # {} ->
            Change("AddNodes", {}, [m \in unknown |-> wanted[m]])
      [] OTHER -> IF joining # {} THEN Change("AddVoterIds", joining, <<>>) ELSE NoChange

\* The one change to submit next, the first of these there is a need for.
next_change(wanted) ==
    LET voters == Voters(Effective)
        moved == {m \in DOMAIN wanted \cap voters : Effective.nodes[m] # wanted[m]}
        joining == DOMAIN wanted \ voters
        unknown == joining \ DOMAIN Effective.nodes
        ready == {m \in joining : CaughtUp(m)}
        departed == voters \ DOMAIN wanted
    IN
    CASE wanted = <<>> -> NoChange
      [] wanted # <<>> /\ moved # {} -> Change("SetNodes", {}, [m \in moved |-> wanted[m]])
      [] moved = {} /\ unknown # {} -> Change("AddNodes", {}, [m \in unknown |-> wanted[m]])
      [] moved = {} /\ unknown = {} /\ ready # {} -> Change("AddVoterIds", ready, <<>>)
      [] wanted # <<>> /\ moved = {} /\ joining = {} /\ departed # {} ->
            Change("RemoveVoters", departed, <<>>)
      [] OTHER -> NoChange    \* agreed, or waiting for somebody to catch up

\* retire_learners: those the log does not want who say their seat is empty.
Retirable(wanted) ==
    {m \in Learners(Effective) \ DOMAIN wanted : node[m].up /\ ~ node[m].seat}

Agreed(wanted) ==
    /\ wanted # <<>> /\ DOMAIN wanted = Voters(Effective)
    /\ \A m \in DOMAIN wanted : Effective.nodes[m] = wanted[m]

Plan(c) == task' = [pc |-> "planned", change |-> c, at |-> 0]

\* Mutant: an inherited joint configuration is read as its voters.
Inherited_mutant == FALSE

Inherited == ~ Uniform(Effective)

Sent == task' = [pc |-> "sent", change |-> NoChange, at |-> Len(log')]

\* pass reads, and decides what to submit: an inherited joint configuration
\* is finished before anything newer is looked at.
Pass ==
    /\ leader # Nobody /\ task.pc = "idle"
    /\ LET wanted == CoreAt(node[leader].applied) IN
       IF Inherited THEN Plan(Change("ReplaceAllVoters", Last(Effective.joint), <<>>))
       ELSE \/ next_change(wanted) # NoChange /\ Plan(next_change(wanted))
            \/ /\ Agreed(wanted)
               /\ \E ids \in SUBSET Retirable(wanted) \ {{}} :
                    Plan(Change("RemoveNodes", ids, <<>>))
    /\ UNCHANGED <<log, commit, leader, node, scenario>>

\* change_membership with what pass read, whatever happened since.
Submit ==
    /\ task.pc = "planned" /\ Accepted(task.change)
    /\ WriteConf(task.change)
    /\ Sent
    /\ UNCHANGED <<commit, leader, scenario>>

\* The engine refuses; enact looks again later.
SubmitRefused ==
    /\ task.pc = "planned" /\ ~ Accepted(task.change)
    /\ Idle
    /\ UNCHANGED <<log, commit, leader, node, scenario>>

\* change_membership hears of an entry once it is applied here.
Answered == task.pc = "sent" /\ leader # Nobody /\ node[leader].applied >= task.at

SecondRound == Change("AddVoterIds", {}, <<>>)

\* Its second round: the joint configuration holds, and is left for its target.
Flatten ==
    /\ Answered /\ ~ Uniform(log[task.at].conf) /\ Accepted(SecondRound)
    /\ WriteConf(SecondRound)
    /\ Sent
    /\ UNCHANGED <<commit, leader, scenario>>

\* It returns: there was one round, or the second is done, or was refused.
Returned ==
    /\ Answered /\ (Uniform(log[task.at].conf) \/ ~ Accepted(SecondRound))
    /\ Idle
    /\ UNCHANGED <<log, commit, leader, node, scenario>>

\* An expelled node that stood down asks to be forgotten.
forget_retired(m) ==
    LET i == IF leader = Nobody THEN 0 ELSE node[leader].applied IN
    /\ leader # Nobody /\ i # 0
    /\ node[m].up /\ ~ node[m].seat /\ m \notin MembersAt(node[m].applied)
    /\ m \notin MembersAt(i) /\ Uniform(log[i].conf) /\ m \notin VotersAt(i)
    /\ m \in DOMAIN Effective.nodes
    /\ Accepted(Change("RemoveNodes", {m}, <<>>))
    /\ WriteConf(Change("RemoveNodes", {m}, <<>>))
    /\ UNCHANGED <<commit, leader, task, scenario>>

Enact == Pass \/ Submit \/ SubmitRefused \/ Flatten \/ Returned
Node(m) == Follow(m) \/ take_the_seat(m) \/ stand_down(m)

Next ==
    \/ Decide \/ Commit \/ Enact
    \/ \E m \in Members :
        \/ Replicate(m) \/ Apply(m) \/ Elect(m) \/ Lose(m) \/ Recover(m)
        \/ Node(m) \/ forget_retired(m)

Spec == Init /\ [][Next]_vars

\* The group goes on deciding; a group without a leader elects one; messages
\* arrive; every task that can run does.
FairSpec ==
    /\ Spec
    /\ WF_vars(Decide) /\ WF_vars(Commit) /\ WF_vars(Enact)
    /\ WF_vars(leader = Nobody /\ \E m \in Members : Elect(m))
    /\ \A m \in Members :
        /\ WF_vars(Replicate(m)) /\ WF_vars(Apply(m))
        /\ WF_vars(Recover(m)) /\ WF_vars(Node(m))

-----------------------------------------------------------------------------
(* Properties.                                                             *)

\* A joint configuration is followed by its own target, whoever leads by then
\* and whatever the log asks for meanwhile (pass).
JointTargetIsReached ==
    [][Len(log') > Len(log) /\ Last(log').conf # Effective /\ ~ Uniform(Effective)
        => Last(log').conf.joint \in {Effective.joint, <<Last(Effective.joint)>>}]_vars

\* A leader the group expelled before a node it promoted took its seat: that
\* node does not listen to it (prepare_promotion keeps only members), so it
\* never catches up, and nobody is removed before it has (next_change).
ExpelledLeads ==
    /\ leader # Nobody /\ leader \notin MembersAt(commit)
    /\ \E m \in Members : node[m].seat /\ Replaying(m) /\ ~ may_speak_raft(m, leader)

\* A promotion taken back before the leader acted on it: a node it never added
\* hears nothing (plan-deltas.md C46), and one it had kept as a learner waits
\* for a configuration newer than its seat (may_retire).
TakenBack ==
    \E m \in Members :
        /\ node[m].seat /\ m \notin DOMAIN CoreAt(commit)
        /\ m \in DOMAIN Effective.nodes => Last(log).conf_at < node[m].seated_at

\* A promotion taken back while the leader acted on it: the node stood down
\* before it was made a voter, and does not come back.
VoterIsGone ==
    \E m \in Voters(Effective) : ~ node[m].seat /\ m \notin DOMAIN CoreAt(commit)

\* Once the group has decided, Raft's voters and their addresses become the
\* ones the log names, across lost leaders and outages - unless one of these
\* is in the way (enact).
Converges ==
    LET core == Cores[Len(Cores)].core IN
    <>[](\/ Effective.joint = <<DOMAIN core>> /\ \A m \in DOMAIN core : Effective.nodes[m] = core[m]
         \/ ExpelledLeads \/ VoterIsGone)

\* Every node hears how its own part ended: it holds a seat exactly when the
\* log names it, with the same exceptions (retire_learners, stand_down).
SeatsSettle ==
    <>[](\/ \A m \in Members : node[m].seat <=> m \in DOMAIN Cores[Len(Cores)].core
         \/ ExpelledLeads \/ VoterIsGone \/ TakenBack)

\* A node the log promoted again since it sat down, whether it read that yet or
\* not.
PromotedAgain(m) ==
    \E i, j \in 1..Len(log) :
        /\ i < j /\ node[m].seated_at <= log[i].core_at
        /\ m \notin DOMAIN CoreAt(i) /\ m \in DOMAIN CoreAt(j)

\* A node made a voter after the log had taken that back, by a leader that had
\* not applied so much.
MadeVoterTooLate(m) ==
    \E i \in 2..Len(log) :
        m \in VotersAt(i) \ VotersAt(i - 1) /\ m \notin DOMAIN CoreAt(i)

\* At every moment of a reconfiguration the nodes a decision needs are there to
\* be asked: a voter, of a joint configuration too, holds its seat or was
\* promoted to it again, unless it was made a voter too late (core_group.rs
\* pass, node.rs may_retire).
VotersAreSeated ==
    \A m \in Voters(Effective) : node[m].seat \/ PromotedAgain(m) \/ MadeVoterTooLate(m)

CoreGroupInv == TypeOK /\ VotersAreSeated

\* Once the group has decided, Raft's configuration and every node's seat come
\* to agree with the log (enact, serve_role).
GroupSettles == Converges /\ SeatsSettle

=============================================================================
