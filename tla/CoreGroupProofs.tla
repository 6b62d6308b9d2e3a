---------------------------- MODULE CoreGroupProofs ----------------------------
(***************************************************************************)
(* Theorems about the reconciliation of the core group, for every group,   *)
(* list of decisions, and any number of elections and outages.             *)
(*                                                                         *)
(* The argument: a change is accepted only once the last one is committed  *)
(* (ConfsAreDated), and keeps a voter set in common with it, so past the   *)
(* commit no two configurations have disjoint quorums (ConfsMeet), and     *)
(* nobody is elected without what is committed (CommitIsHeld).  A voter    *)
(* was heard from before it was one (VotersOK), so it has sat; if it sits  *)
(* no more it had read a committed entry that neither names it nor has it  *)
(* as a voter (RetiredOK), and became a voter after that one.              *)
(***************************************************************************)
EXTENDS CoreGroup, FiniteSetTheorems, WellFoundedInduction, TLAPS

-----------------------------------------------------------------------------
(* Configurations.                                                         *)

\* One voter set, or two on the way from the first to the second.
ConfOK(conf) ==
    /\ conf = [joint |-> conf.joint, nodes |-> conf.nodes]
    /\ \E v, w \in SUBSET Members : conf.joint \in {<<v>>, <<v, w>>}
    /\ Valid(conf)

\* Two configurations that share a voter set have no disjoint quorums.
Meet(c, d) == Range(c.joint) \cap Range(d.joint) # {}

LEMMA JointOfOne ==
    ASSUME NEW v
    PROVE  /\ Range(<<v>>) = {v} /\ Last(<<v>>) = v /\ Len(<<v>>) = 1
BY DEF Range, Last

LEMMA JointOfTwo ==
    ASSUME NEW v, NEW w
    PROVE  /\ Range(<<v, w>>) = {v, w} /\ Last(<<v, w>>) = w /\ Len(<<v, w>>) = 2
<1>1. DOMAIN <<v, w>> = {1, 2} /\ Len(<<v, w>>) = 2
  OBVIOUS
<1>2. Range(<<v, w>>) = {<<v, w>>[x] : x \in {1, 2}}
  BY <1>1 DEF Range
<1> QED
  BY <1>1, <1>2 DEF Last

LEMMA JointFacts ==
    ASSUME NEW conf, ConfOK(conf)
    PROVE  /\ Last(conf.joint) \in Range(conf.joint)
           /\ Range(conf.joint) \subseteq SUBSET Members
           /\ Voters(conf) \subseteq Members
           /\ \A V \in Range(conf.joint) : V \subseteq Voters(conf) /\ V # {}
<1>1. PICK v, w \in SUBSET Members : conf.joint \in {<<v>>, <<v, w>>}
  BY DEF ConfOK
<1>2. /\ Last(conf.joint) \in Range(conf.joint)
      /\ Range(conf.joint) \subseteq SUBSET Members
  BY <1>1, JointOfOne, JointOfTwo
<1> QED
  BY <1>2 DEF ConfOK, Valid, Voters

\* Any change through the engine leads to a voter set it had, or through one.
LEMMA CoherentIs ==
    ASSUME NEW conf, ConfOK(conf), NEW goal \in SUBSET Members
    PROVE  LET next == Coherent(conf, goal) IN
           /\ next = [joint |-> next.joint, nodes |-> conf.nodes]
           /\ \E v, w \in SUBSET Members : next.joint \in {<<v>>, <<v, w>>}
           /\ goal \in Range(conf.joint) => next.joint = <<goal>>
           /\ Meet(conf, next)
           /\ Range(next.joint) \subseteq Range(conf.joint) \cup {goal}
<1> DEFINE joint == IF goal \in Range(conf.joint) THEN <<goal>> ELSE <<Last(conf.joint), goal>>
<1>1. Coherent(conf, goal) = [joint |-> joint, nodes |-> conf.nodes]
  BY DEF ConfOK, Coherent
<1>2. Last(conf.joint) \in Range(conf.joint) /\ Range(conf.joint) \subseteq SUBSET Members
  BY JointFacts
<1>3. CASE goal \in Range(conf.joint)
  <2>1. joint = <<goal>> /\ Range(joint) = {goal}
    BY <1>3, JointOfOne
  <2> QED
    BY <1>1, <1>2, <1>3, <2>1 DEF Meet
<1>4. CASE goal \notin Range(conf.joint)
  <2>1. joint = <<Last(conf.joint), goal>> /\ Range(joint) = {Last(conf.joint), goal}
    BY <1>4, JointOfTwo
  <2> QED
    BY <1>1, <1>2, <1>4, <2>1 DEF Meet
<1> QED
  BY <1>3, <1>4

Kinds == {"AddVoterIds", "RemoveVoters", "ReplaceAllVoters", "AddNodes", "SetNodes", "RemoveNodes"}

ChangeOK(c) ==
    /\ c.kind \in Kinds
    /\ c.kind \in {"AddVoterIds", "ReplaceAllVoters"} => c.ids \in SUBSET Members

\* What a change the engine takes makes of a configuration.
LEMMA ChangeIs ==
    ASSUME NEW conf, ConfOK(conf), NEW c, ChangeOK(c), Valid(ChangeMembers(conf, c))
    PROVE  LET next == ChangeMembers(conf, c)
               target == Last(conf.joint)
           IN
           /\ ConfOK(next) /\ Meet(conf, next)
           /\ Voters(next) \subseteq Voters(conf) \cup
                 (IF c.kind \in {"AddVoterIds", "ReplaceAllVoters"} THEN c.ids ELSE {})
           /\ c.kind \in {"AddNodes", "SetNodes", "RemoveNodes"} => next.joint = conf.joint
           /\ c.kind = "ReplaceAllVoters" /\ c.ids = target => next.joint = <<target>>
           /\ c.kind = "AddVoterIds" /\ c.ids = {} => next.joint = <<target>>
<1> DEFINE next == ChangeMembers(conf, c)
           target == Last(conf.joint)
<1>1. /\ target \in Range(conf.joint) /\ Range(conf.joint) \subseteq SUBSET Members
      /\ target \in SUBSET Members /\ target \subseteq Voters(conf)
  BY JointFacts
<1>2. ASSUME NEW goal \in SUBSET Members, next = Coherent(conf, goal)
      PROVE  /\ ConfOK(next) /\ Meet(conf, next)
             /\ Voters(next) \subseteq Voters(conf) \cup goal
             /\ goal = target => next.joint = <<target>>
  <2>1. /\ next = [joint |-> next.joint, nodes |-> conf.nodes]
        /\ \E v, w \in SUBSET Members : next.joint \in {<<v>>, <<v, w>>}
        /\ goal \in Range(conf.joint) => next.joint = <<goal>>
        /\ Meet(conf, next)
        /\ Range(next.joint) \subseteq Range(conf.joint) \cup {goal}
    BY <1>2, CoherentIs
  <2> HIDE DEF next
  <2>2. Voters(next) \subseteq Voters(conf) \cup goal
    BY <2>1 DEF Voters
  <2>3. ConfOK(next)
    BY <2>1 DEF ConfOK, next
  <2> QED
    BY <1>1, <2>1, <2>2, <2>3
<1>3. CASE c.kind = "AddVoterIds"
  <2>1. next = Coherent(conf, target \cup c.ids) /\ target \cup c.ids \in SUBSET Members
    BY <1>1, <1>3 DEF ChangeMembers, ChangeOK
  <2> HIDE DEF next
  <2> QED
    BY <1>1, <1>2, <1>3, <2>1 DEF next
<1>4. CASE c.kind = "RemoveVoters"
  <2>1. next = Coherent(conf, target \ c.ids) /\ target \ c.ids \in SUBSET Members
    BY <1>1, <1>4 DEF ChangeMembers
  <2> HIDE DEF next
  <2> QED
    BY <1>1, <1>2, <1>4, <2>1 DEF next
<1>5. CASE c.kind = "ReplaceAllVoters"
  <2>1. next = Coherent(conf, c.ids) /\ c.ids \in SUBSET Members
    BY <1>5 DEF ChangeMembers, ChangeOK
  <2> HIDE DEF next
  <2> QED
    BY <1>1, <1>2, <1>5, <2>1 DEF next
<1>6. CASE c.kind \in {"AddNodes", "SetNodes", "RemoveNodes"}
  <2>1. next.joint = conf.joint /\ next = [joint |-> next.joint, nodes |-> next.nodes]
    <3>1. CASE c.kind = "AddNodes"
      <4>1. next = [conf EXCEPT !.nodes = conf.nodes @@ c.addrs]
        BY <3>1 DEF ChangeMembers
      <4> HIDE DEF next
      <4> QED
        BY <4>1 DEF ConfOK
    <3>2. CASE c.kind = "SetNodes"
      <4>1. next = [conf EXCEPT !.nodes = c.addrs @@ conf.nodes]
        BY <3>2 DEF ChangeMembers
      <4> HIDE DEF next
      <4> QED
        BY <4>1 DEF ConfOK
    <3>3. CASE c.kind = "RemoveNodes"
      <4> DEFINE left == [m \in DOMAIN conf.nodes \ c.ids |-> conf.nodes[m]]
      <4>1. next = [conf EXCEPT !.nodes = left]
        BY <3>3 DEF ChangeMembers
      <4> HIDE DEF next, left
      <4> QED
        BY <4>1 DEF ConfOK
    <3> QED
      BY <1>6, <3>1, <3>2, <3>3
  <2> HIDE DEF next
  <2>2. ConfOK(next)
    BY <2>1 DEF ConfOK, next
  <2>3. Meet(conf, next) /\ Voters(next) = Voters(conf)
    BY <1>1, <2>1 DEF Meet, Voters
  <2> QED
    BY <1>6, <2>1, <2>2, <2>3 DEF next
<1> QED
  BY <1>3, <1>4, <1>5, <1>6 DEF ChangeOK, Kinds

-----------------------------------------------------------------------------
(* Majorities.                                                             *)

LEMMA VotersAreFinite ==
    ASSUME NEW V \in SUBSET Members
    PROVE  /\ IsFiniteSet(V) /\ Cardinality(V) \in Nat
           /\ \A A : IsFiniteSet(A \cap V) /\ Cardinality(A \cap V) \in Nat
<1>1. IsFiniteSet(V) /\ \A A : IsFiniteSet(A \cap V)
  BY CoreGroupAssumption, FS_Subset
<1> QED
  BY <1>1, FS_CardinalityType

LEMMA MajorityGrows ==
    ASSUME NEW V \in SUBSET Members, NEW A, NEW B, A \cap V \subseteq B, Majority(A, V)
    PROVE  Majority(B, V)
<1>1. IsFiniteSet(B \cap V) /\ A \cap V \subseteq B \cap V
  BY VotersAreFinite
<1>2. Cardinality(A \cap V) <= Cardinality(B \cap V)
  BY <1>1, FS_Subset
<1>3. /\ Cardinality(V) \in Nat /\ Cardinality(A \cap V) \in Nat
      /\ Cardinality(B \cap V) \in Nat
  BY VotersAreFinite
<1> QED
  BY <1>2, <1>3 DEF Majority

LEMMA MajoritiesMeet ==
    ASSUME NEW V \in SUBSET Members, NEW A, NEW B, Majority(A, V), Majority(B, V)
    PROVE  A \cap B # {}
<1> SUFFICES ASSUME A \cap B = {} PROVE FALSE
  OBVIOUS
<1> DEFINE P == A \cap V
           Q == B \cap V
<1>1. IsFiniteSet(P) /\ IsFiniteSet(Q) /\ IsFiniteSet(V) /\ P \cap Q = {} /\ P \cup Q \subseteq V
  BY VotersAreFinite
<1> HIDE DEF P, Q
<1>2. Cardinality(P \cup Q) = Cardinality(P) + Cardinality(Q) - Cardinality(P \cap Q)
  BY <1>1, FS_Union
<1>3. Cardinality(P \cap Q) = 0
  BY <1>1, FS_EmptySet
<1>4. Cardinality(P \cup Q) <= Cardinality(V)
  BY <1>1, FS_Subset
<1>5. Cardinality(P) \in Nat /\ Cardinality(Q) \in Nat /\ Cardinality(V) \in Nat
  BY <1>1, FS_CardinalityType
<1>6. 2 * Cardinality(P) > Cardinality(V) /\ 2 * Cardinality(Q) > Cardinality(V)
  BY DEF Majority, P, Q
<1> QED
  BY <1>2, <1>3, <1>4, <1>5, <1>6

-----------------------------------------------------------------------------
(* The inductive invariant.                                                *)

ScenarioOK ==
    /\ scenario = [cores |-> Cores, elections |-> scenario.elections,
                   outages |-> scenario.outages]
    /\ Cores \in Seq(Range(Cores)) /\ Cores # <<>>
    /\ \A k \in DOMAIN Cores :
          /\ DOMAIN Cores[k].core # {}
          /\ DOMAIN Cores[k].core \subseteq Members

EntryOK(i) ==
    /\ log[i] = [core |-> log[i].core, core_at |-> log[i].core_at,
                 conf_at |-> log[i].conf_at, conf |-> log[i].conf]
    /\ log[i].core \in 1..Len(Cores)
    /\ log[i].core_at \in 1..i /\ log[i].conf_at \in 1..i
    /\ ConfOK(log[i].conf)

LogOK ==
    /\ log \in Seq(Range(log)) /\ commit \in 1..Len(log)
    /\ \A i \in 1..Len(log) : EntryOK(i)

\* An entry says how long its configuration has been in force.
ConfsAreDated ==
    \A i, j \in 1..Len(log) : i <= j /\ log[j].conf_at <= i => log[i].conf = log[j].conf

\* Past the commit the configurations have voter sets in common: no quorum of
\* one is disjoint from every quorum of another.
ConfsMeet ==
    \A i, j \in commit..Len(log) : i <= j => Meet(log[i].conf, log[j].conf)

NodeType ==
    [seat : BOOLEAN, seated_at : Nat, matched : Nat, known : Nat, applied : Nat, up : BOOLEAN]

NodesOK ==
    /\ node \in [Members -> NodeType]
    /\ \A m \in Members :
        /\ node[m].matched <= Len(log)
        /\ node[m].applied <= commit /\ node[m].known <= commit /\ node[m].seated_at <= commit
        /\ node[m].seat \/ node[m].matched >= 1 => node[m].seated_at >= 1

LeaderOK == leader \in Members \cup {Nobody} /\ (leader # Nobody => node[leader].seat)

\* What is committed is held by a majority of a voter set that was in force at
\* every earlier entry, so that nobody with less is elected.
AheadAt(i) ==
    \E V \in Range(log[i].conf.joint) : Majority({m \in Members : node[m].matched > i}, V)

CommitIsHeld == \A i \in 1..(commit - 1) : AheadAt(i)

\* Only a node that was heard from is ever a voter.
VotersOK == \A i \in 1..Len(log) : \A m \in Voters(log[i].conf) : node[m].matched >= 1

\* What pass read holds until it is submitted, as far as the voters go.
PlanOK ==
    /\ ChangeOK(task.change)
    /\ task.change.kind = "AddVoterIds" => \A m \in task.change.ids : node[m].matched >= 1
    /\ task.change.kind = "ReplaceAllVoters" => task.change.ids = Last(Effective.joint)
    /\ ~ Uniform(Effective) => task.change.kind = "ReplaceAllVoters"

TaskOK ==
    /\ task = [pc |-> task.pc, change |-> task.change, at |-> task.at]
    /\ task.pc \in {"idle", "planned", "sent"} /\ task.at \in 0..Len(log)
    /\ task.pc = "planned" => PlanOK

\* A node that stood down had read, committed, that it was neither named nor a
\* voter any more.
RetiredOK ==
    \A m \in Members : ~ node[m].seat /\ node[m].seated_at >= 1 =>
        \E i \in 1..commit :
            /\ node[m].seated_at <= log[i].core_at
            /\ m \notin DOMAIN CoreAt(i) /\ m \notin VotersAt(i)

CoreGroupIInv ==
    /\ ScenarioOK /\ LogOK /\ ConfsAreDated /\ ConfsMeet
    /\ NodesOK /\ LeaderOK /\ CommitIsHeld /\ VotersOK /\ TaskOK /\ RetiredOK
-----------------------------------------------------------------------------
(* What the kinds of step leave as it was.                                 *)

LEMMA MinOfTwo ==
    ASSUME NEW x \in Nat, NEW y \in Nat
    PROVE  Min({x, y}) = IF x <= y THEN x ELSE y
<1> DEFINE least == IF x <= y THEN x ELSE y
<1>1. least \in {x, y} /\ \A z \in {x, y} : least <= z
  OBVIOUS
<1>2. \A z \in {x, y} : (\A w \in {x, y} : z <= w) => z = least
  OBVIOUS
<1> QED
  BY <1>1, <1>2 DEF Min

LEMMA LastIs ==
    ASSUME LogOK
    PROVE  Last(log) = log[Len(log)] /\ Len(log) \in Nat /\ Len(log) >= 1
BY DEF LogOK, Last

\* The log and the commit are as they were.
LEMMA QuietKeeps ==
    ASSUME CoreGroupIInv, UNCHANGED <<log, commit>>, Cores' = Cores,
           ScenarioOK', NodesOK', LeaderOK', TaskOK', RetiredOK',
           \A m \in Members : node'[m].matched >= node[m].matched
    PROVE  CoreGroupIInv'
<1>1. LogOK'
  BY DEF CoreGroupIInv, LogOK, EntryOK
<1>2. ConfsAreDated' /\ ConfsMeet'
  BY DEF CoreGroupIInv, ConfsAreDated, ConfsMeet
<1>3. \A m \in Members : node[m].matched \in Nat /\ node'[m].matched \in Nat
  BY DEF CoreGroupIInv, NodesOK, NodeType
<1>4. ASSUME NEW i \in 1..(commit' - 1)
      PROVE  AheadAt(i)'
  <2>0. commit \in 1..Len(log) /\ i \in 1..(commit - 1) /\ i \in 1..Len(log) /\ i \in Nat
    BY <1>4 DEF CoreGroupIInv, LogOK
  <2>1. AheadAt(i)
    BY <2>0 DEF CoreGroupIInv, CommitIsHeld
  <2>2. PICK V \in Range(log[i].conf.joint) : Majority({m \in Members : node[m].matched > i}, V)
    BY <2>1 DEF AheadAt
  <2>3. V \in SUBSET Members
    BY <2>0, <2>2, JointFacts DEF CoreGroupIInv, LogOK, EntryOK
  <2>4. {m \in Members : node[m].matched > i} \cap V \subseteq {m \in Members : node'[m].matched > i}
    BY <1>3, <2>0
  <2>5. Majority({m \in Members : node'[m].matched > i}, V)
    BY <2>2, <2>3, <2>4, MajorityGrows
  <2>6. log'[i] = log[i]
    OBVIOUS
  <2> QED
    BY <2>2, <2>5, <2>6 DEF AheadAt
<1>5. CommitIsHeld'
  BY <1>4 DEF CommitIsHeld
<1>6. VotersOK'
  <2> SUFFICES ASSUME NEW i \in 1..Len(log), NEW m \in Voters(log[i].conf)
               PROVE  node'[m].matched >= 1
    BY DEF VotersOK
  <2>1. m \in Members
    BY JointFacts DEF CoreGroupIInv, LogOK, EntryOK
  <2>2. node[m].matched >= 1
    BY DEF CoreGroupIInv, VotersOK
  <2> QED
    BY <1>3, <2>1, <2>2
<1> QED
  BY <1>1, <1>2, <1>5, <1>6 DEF CoreGroupIInv

LEMMA TaskKept ==
    ASSUME CoreGroupIInv, log' = log, task' = task \/ Idle,
           \A m \in Members : node[m].matched \in Nat /\ node'[m].matched \in Nat
                              /\ node'[m].matched >= node[m].matched
    PROVE  TaskOK'
<1>1. CASE Idle
  <2>1. Len(log) \in Nat
    BY LastIs DEF CoreGroupIInv
  <2> QED
    BY <1>1, <2>1 DEF Idle, TaskOK
<1>2. CASE task' = task
  <2>1. ASSUME PlanOK PROVE PlanOK'
    <3>1. ASSUME task.change.kind = "AddVoterIds", NEW m \in task.change.ids
          PROVE  node'[m].matched >= 1
      <4>1. m \in Members /\ node[m].matched >= 1
        BY <2>1, <3>1 DEF PlanOK, ChangeOK
      <4> QED
        BY <4>1
    <3> QED
      BY <1>2, <2>1, <3>1 DEF PlanOK, ChangeOK, Uniform, Effective, Last
  <2> QED
    BY <1>2, <2>1 DEF CoreGroupIInv, TaskOK
<1> QED
  BY <1>1, <1>2

LEMMA RetiredKept ==
    ASSUME CoreGroupIInv, UNCHANGED <<log, commit>>, Cores' = Cores,
           \A m \in Members : \/ node'[m].seat
                              \/ /\ node'[m].seat = node[m].seat
                                 /\ node'[m].seated_at = node[m].seated_at
    PROVE  RetiredOK'
BY DEF CoreGroupIInv, RetiredOK, CoreAt, VotersAt
-----------------------------------------------------------------------------
(* The steps that leave the log as it is.                                  *)

LEMMA StartsRight == Init => CoreGroupIInv
<1> SUFFICES ASSUME Init PROVE CoreGroupIInv
  OBVIOUS
<1> DEFINE founders == DOMAIN Cores[1].core
           conf == [joint |-> <<founders>>, nodes |-> Cores[1].core]
           founding == [core |-> 1, core_at |-> 1, conf_at |-> 1, conf |-> conf]
<1>1. ScenarioOK
  <2>1. scenario \in Scenarios
    BY DEF Init
  <2> QED
    BY <2>1, CoreGroupAssumption DEF ScenarioOK, Cores
<1>2. 1 \in DOMAIN Cores /\ 1 \in 1..Len(Cores) /\ founders # {} /\ founders \subseteq Members
  <2>1. DOMAIN Cores = 1..Len(Cores) /\ Len(Cores) \in Nat /\ Len(Cores) # 0
    BY <1>1 DEF ScenarioOK
  <2> QED
    BY <1>1, <2>1 DEF ScenarioOK
<1>3. log = <<founding>> /\ commit = 1 /\ leader \in founders
  BY DEF Init
<1>4. Len(log) = 1 /\ log[1] = founding /\ 1..Len(log) = {1} /\ log \in Seq(Range(log))
  <2>1. Range(log) = {founding}
    BY <1>3, JointOfOne
  <2> QED
    BY <1>3, <2>1
<1>5. ConfOK(conf) /\ Range(conf.joint) = {founders} /\ Voters(conf) = founders
  <2>1. Range(<<founders>>) = {founders} /\ UNION {founders} = founders
    BY JointOfOne
  <2>2. conf.joint = <<founders>> /\ conf.nodes = Cores[1].core
    OBVIOUS
  <2> QED
    BY <1>2, <2>1, <2>2 DEF ConfOK, Valid, Voters
<1> HIDE DEF conf
<1>6. LogOK
  BY <1>2, <1>3, <1>4, <1>5 DEF LogOK, EntryOK
<1>7. ConfsAreDated /\ ConfsMeet /\ CommitIsHeld
  BY <1>2, <1>3, <1>4, <1>5, SMTT(40) DEF ConfsAreDated, ConfsMeet, CommitIsHeld, Meet
<1>8. ASSUME NEW m \in Members
      PROVE  /\ node[m] \in NodeType
             /\ node[m].applied = 1 /\ (node[m].seat <=> m \in founders)
             /\ m \in founders => /\ node[m].seated_at = 1
                                 /\ node[m].matched = 1 /\ node[m].known = 1
             /\ m \notin founders => /\ node[m].seated_at = 0
                                    /\ node[m].matched = 0 /\ node[m].known = 0
  <2> DEFINE one == IF m \in founders THEN 1 ELSE 0
             sits == m \in founders
  <2>1. node[m] = [seat |-> sits, seated_at |-> one, matched |-> one, known |-> one,
                   applied |-> 1, up |-> TRUE]
    BY DEF Init
  <2>2. one \in Nat /\ sits \in BOOLEAN
    OBVIOUS
  <2> HIDE DEF one, sits
  <2>3. /\ node[m] \in NodeType /\ node[m].applied = 1 /\ node[m].seat = sits
        /\ node[m].seated_at = one /\ node[m].matched = one /\ node[m].known = one
    BY <2>1, <2>2 DEF NodeType
  <2> QED
    BY <2>3 DEF one, sits
<1> HIDE DEF founders
<1>9. NodesOK
  <2>1. \A m \in Members : node[m] \in NodeType
    BY <1>8 DEF NodeType
  <2>2. DOMAIN node = Members /\ node = [m \in Members |-> node[m]]
    BY DEF Init
  <2>3. node \in [Members -> NodeType]
    BY <2>1, <2>2
  <2>4. ASSUME NEW m \in Members
        PROVE  /\ node[m].matched <= 1 /\ node[m].applied <= 1 /\ node[m].known <= 1
               /\ node[m].seated_at <= 1
               /\ node[m].seat \/ node[m].matched >= 1 => node[m].seated_at >= 1
    BY <1>8 DEF NodeType
  <2> QED
    BY <1>3, <1>4, <2>3, <2>4 DEF NodesOK
<1>10. LeaderOK
  BY <1>2, <1>3, <1>8 DEF LeaderOK
<1>11. VotersOK
  BY <1>2, <1>3, <1>4, <1>5, <1>8 DEF VotersOK
<1>12. TaskOK
  BY <1>4 DEF Init, TaskOK
<1>13. RetiredOK
  BY <1>8 DEF RetiredOK
<1> QED
  BY <1>1, <1>6, <1>7, <1>9, <1>10, <1>11, <1>12, <1>13 DEF CoreGroupIInv

\* One node's part of the state moves on.
LEMMA NodeStepKeeps ==
    ASSUME CoreGroupIInv, NEW m \in Members, NEW n \in NodeType,
           node' = [node EXCEPT ![m] = n], UNCHANGED <<log, commit>>,
           Cores' = Cores, ScenarioOK',
           n.matched \in node[m].matched..Len(log),
           n.applied <= commit, n.known <= commit, n.seated_at <= commit,
           n.seat \/ n.matched >= 1 => n.seated_at >= 1,
           \/ n.seat
           \/ n.seat = node[m].seat /\ n.seated_at = node[m].seated_at
           \/ \E i \in 1..commit : /\ n.seated_at <= log[i].core_at
                                   /\ m \notin DOMAIN CoreAt(i) /\ m \notin VotersAt(i),
           \/ UNCHANGED <<leader, task>> /\ (leader = m => n.seat)
           \/ leader' = Nobody /\ Idle
    PROVE  CoreGroupIInv'
<1>1. node \in [Members -> NodeType] /\ Nobody \notin Members
  BY CoreGroupAssumption DEF CoreGroupIInv, NodesOK
<1>2. node'[m] = n /\ \A v \in Members \ {m} : node'[v] = node[v]
  BY <1>1
<1>3. \A v \in Members : node[v].matched \in Nat /\ node'[v].matched \in Nat
  BY <1>1, <1>2 DEF NodeType
<1>4. \A v \in Members : node'[v].matched >= node[v].matched
  <2>1. n.matched >= node[m].matched
    BY <1>3, LastIs DEF CoreGroupIInv
  <2> QED
    BY <1>2, <1>3, <2>1
<1>5. NodesOK'
  <2>1. node' \in [Members -> NodeType]
    BY <1>1
  <2>2. n.matched <= Len(log)
    BY <1>3, LastIs DEF CoreGroupIInv
  <2> QED
    BY <1>2, <2>1, <2>2 DEF CoreGroupIInv, NodesOK
<1>6. LeaderOK'
  BY <1>1, <1>2 DEF CoreGroupIInv, LeaderOK
<1>7. TaskOK'
  BY <1>3, <1>4, TaskKept
<1>8. RetiredOK'
  <2>1. \A i : CoreAt(i)' = CoreAt(i) /\ VotersAt(i)' = VotersAt(i)
    BY DEF CoreAt, VotersAt
  <2>2. ASSUME NEW v \in Members \ {m}, ~ node'[v].seat, node'[v].seated_at >= 1
        PROVE  \E i \in 1..commit : /\ node'[v].seated_at <= log[i].core_at
                                    /\ v \notin DOMAIN CoreAt(i) /\ v \notin VotersAt(i)
    BY <1>2, <2>2 DEF CoreGroupIInv, RetiredOK
  <2>3. ASSUME ~ n.seat, n.seated_at >= 1
        PROVE  \E i \in 1..commit : /\ n.seated_at <= log[i].core_at
                                    /\ m \notin DOMAIN CoreAt(i) /\ m \notin VotersAt(i)
    BY <2>3 DEF CoreGroupIInv, RetiredOK
  <2> QED
    BY <1>2, <2>1, <2>2, <2>3 DEF RetiredOK
<1> QED
  BY <1>4, <1>5, <1>6, <1>7, <1>8, QuietKeeps

LEMMA ScenarioKept ==
    ASSUME ScenarioOK, scenario' = scenario
    PROVE  ScenarioOK' /\ Cores' = Cores
BY DEF ScenarioOK, Cores

\* What is known of a node before it moves.
LEMMA NodeIs ==
    ASSUME CoreGroupIInv, NEW m \in Members
    PROVE  /\ node[m] \in NodeType
           /\ node[m].matched \in Nat /\ node[m].applied \in Nat
           /\ node[m].known \in Nat /\ node[m].seated_at \in Nat
           /\ node[m].matched <= Len(log)
           /\ node[m].applied <= commit /\ node[m].known <= commit /\ node[m].seated_at <= commit
           /\ node[m].seat \/ node[m].matched >= 1 => node[m].seated_at >= 1
           /\ commit \in Nat /\ Len(log) \in Nat /\ commit >= 1 /\ commit <= Len(log)
           /\ leader = m => node[m].seat
           /\ m # Nobody
BY CoreGroupAssumption DEF CoreGroupIInv, NodesOK, NodeType, LogOK, LeaderOK

LEMMA ReplicateKeeps ==
    ASSUME CoreGroupIInv, NEW m \in Members, Replicate(m)
    PROVE  CoreGroupIInv'
<1> DEFINE n == [node[m] EXCEPT !.matched = Len(log), !.known = commit]
<1>1. node[m].seat
  BY DEF Replicate, Reached
<1>2. n \in NodeType /\ n.seat = node[m].seat /\ n.matched = Len(log) /\ n.known = commit
      /\ n.applied = node[m].applied /\ n.seated_at = node[m].seated_at
  BY NodeIs DEF NodeType
<1>3. node' = [node EXCEPT ![m] = n] /\ UNCHANGED <<log, commit, leader, task, scenario>>
  BY DEF Replicate
<1>4. ScenarioOK' /\ Cores' = Cores
  BY <1>3, ScenarioKept DEF CoreGroupIInv
<1>5. n.matched \in node[m].matched..Len(log) /\ n.known <= commit
  BY <1>2, NodeIs
<1> HIDE DEF n
<1> QED
  BY <1>1, <1>2, <1>3, <1>4, <1>5, NodeIs, NodeStepKeeps

LEMMA ApplyKeeps ==
    ASSUME CoreGroupIInv, NEW m \in Members, Apply(m) \/ Follow(m)
    PROVE  CoreGroupIInv'
<1> DEFINE n == [node[m] EXCEPT !.applied = @ + 1]
<1>1. node[m].applied < commit
  <2>1. CASE Follow(m)
    BY <2>1 DEF Follow
  <2>2. CASE Apply(m)
    <3>1. node[m].applied < Min({node[m].matched, node[m].known})
      BY <2>2 DEF Apply
    <3> QED
      BY <3>1, NodeIs, MinOfTwo
  <2> QED
    BY <2>1, <2>2
<1>2. n \in NodeType /\ n.seat = node[m].seat /\ n.matched = node[m].matched
      /\ n.known = node[m].known /\ n.applied = node[m].applied + 1
      /\ n.seated_at = node[m].seated_at
  BY NodeIs DEF NodeType
<1>3. node' = [node EXCEPT ![m] = n] /\ UNCHANGED <<log, commit, leader, task, scenario>>
  BY DEF Apply, Follow
<1>4. ScenarioOK' /\ Cores' = Cores
  BY <1>3, ScenarioKept DEF CoreGroupIInv
<1>5. n.applied <= commit /\ n.matched \in node[m].matched..Len(log)
  BY <1>1, <1>2, NodeIs
<1> HIDE DEF n
<1> QED
  BY <1>2, <1>3, <1>4, <1>5, NodeIs, NodeStepKeeps

LEMMA OutageKeeps ==
    ASSUME CoreGroupIInv, NEW m \in Members, Lose(m) \/ Recover(m)
    PROVE  CoreGroupIInv'
<1>1. PICK b \in BOOLEAN : node' = [node EXCEPT ![m].up = b]
  BY DEF Lose, Recover
<1> DEFINE n == [node[m] EXCEPT !.up = b]
<1>2. n \in NodeType /\ n.seat = node[m].seat /\ n.matched = node[m].matched
      /\ n.known = node[m].known /\ n.applied = node[m].applied
      /\ n.seated_at = node[m].seated_at
  BY NodeIs DEF NodeType
<1>3. node' = [node EXCEPT ![m] = n] /\ UNCHANGED <<log, commit>>
  BY <1>1 DEF Lose, Recover
<1>4. ScenarioOK' /\ Cores' = Cores
  BY DEF CoreGroupIInv, ScenarioOK, Cores, Lose, Recover
<1>5. UNCHANGED <<leader, task>> \/ (leader' = Nobody /\ Idle)
  BY DEF Lose, Recover
<1>6. n.matched \in node[m].matched..Len(log)
  BY <1>2, NodeIs
<1> HIDE DEF n
<1> QED
  BY <1>2, <1>3, <1>4, <1>5, <1>6, NodeIs, NodeStepKeeps

LEMMA TakeTheSeatKeeps ==
    ASSUME CoreGroupIInv, NEW m \in Members, take_the_seat(m)
    PROVE  CoreGroupIInv'
<1>1. PICK at : at = log[node[m].applied].core_at
  OBVIOUS
<1>2. at \in Nat /\ at >= 1 /\ at <= commit
  <2>1. node[m].applied # 0
    BY DEF take_the_seat, CoreAt
  <2>2. node[m].applied \in 1..Len(log)
    BY <2>1, NodeIs
  <2>3. at \in 1..node[m].applied
    BY <1>1, <2>2 DEF CoreGroupIInv, LogOK, EntryOK
  <2> QED
    BY <2>3, NodeIs
<1> DEFINE n == [node[m] EXCEPT !.seat = TRUE, !.applied = 0, !.seated_at = at]
<1>3. n \in NodeType /\ n.seat /\ n.matched = node[m].matched /\ n.known = node[m].known
      /\ n.applied = 0 /\ n.seated_at = at
  BY <1>2, NodeIs DEF NodeType
<1>4. node' = [node EXCEPT ![m] = n] /\ UNCHANGED <<log, commit, leader, task, scenario>>
  BY <1>1 DEF take_the_seat
<1>5. ScenarioOK' /\ Cores' = Cores
  BY <1>4, ScenarioKept DEF CoreGroupIInv
<1>6. n.matched \in node[m].matched..Len(log) /\ n.applied <= commit
  BY <1>3, NodeIs
<1> HIDE DEF n
<1> QED
  BY <1>2, <1>3, <1>4, <1>5, <1>6, NodeIs, NodeStepKeeps

LEMMA StandDownKeeps ==
    ASSUME CoreGroupIInv, NEW m \in Members, stand_down(m)
    PROVE  CoreGroupIInv'
<1> DEFINE n == [node[m] EXCEPT !.seat = FALSE]
<1>1. n \in NodeType /\ ~ n.seat /\ n.matched = node[m].matched /\ n.known = node[m].known
      /\ n.applied = node[m].applied /\ n.seated_at = node[m].seated_at
  BY NodeIs DEF NodeType
<1>2. node' = [node EXCEPT ![m] = n] /\ UNCHANGED <<log, commit, scenario>>
  BY DEF stand_down
<1>3. ScenarioOK' /\ Cores' = Cores
  BY <1>2, ScenarioKept DEF CoreGroupIInv
<1>4. PICK i : i = node[m].applied
  OBVIOUS
<1>5. i \in 1..commit /\ i \in 1..Len(log)
  BY <1>4, NodeIs DEF stand_down, may_retire
<1>6. n.seated_at <= log[i].core_at
  <2>1. log[i].core_at >= node[m].seated_at
    BY <1>4 DEF stand_down, may_retire
  <2>2. log[i].core_at \in 1..i
    BY <1>5 DEF CoreGroupIInv, LogOK, EntryOK
  <2> QED
    BY <1>1, <1>5, <2>1, <2>2, NodeIs
<1>7. m \notin DOMAIN CoreAt(i) /\ m \notin VotersAt(i)
  BY <1>4 DEF stand_down, may_retire
<1>8. (UNCHANGED <<leader, task>> /\ leader # m) \/ (leader' = Nobody /\ Idle)
  BY DEF stand_down
<1>9. n.matched \in node[m].matched..Len(log)
  BY <1>1, NodeIs
<1> HIDE DEF n
<1> QED
  BY <1>1, <1>2, <1>3, <1>5, <1>6, <1>7, <1>8, <1>9, NodeIs, NodeStepKeeps
LEMMA CommitKeeps ==
    ASSUME CoreGroupIInv, Commit
    PROVE  CoreGroupIInv'
<1>1. leader \in Members
  BY DEF Commit, CoreGroupIInv, LeaderOK
<1>2. PICK top \in Nat : top = Len(log)
  BY LastIs DEF CoreGroupIInv
<1> DEFINE n == [node[leader] EXCEPT !.known = top]
           all == {m \in Members : node[m].matched = top}
<1>3. n \in NodeType /\ n.seat = node[leader].seat /\ n.matched = node[leader].matched
      /\ n.known = top /\ n.applied = node[leader].applied
      /\ n.seated_at = node[leader].seated_at
  BY <1>1, <1>2, NodeIs DEF NodeType
<1>4. node' = [node EXCEPT ![leader] = n] /\ commit' = top /\ log' = log /\ scenario' = scenario
  BY <1>2 DEF Commit
<1>5. /\ node'[leader] = n /\ node' \in [Members -> NodeType]
      /\ \A m \in Members \ {leader} : node'[m] = node[m]
  BY <1>1, <1>3, <1>4 DEF CoreGroupIInv, NodesOK
<1>6. \A m \in Members : /\ node'[m].matched = node[m].matched
                         /\ node'[m].seat = node[m].seat
                         /\ node'[m].seated_at = node[m].seated_at
                         /\ node'[m].applied = node[m].applied
                         /\ node'[m].known \in {node[m].known, top}
  BY <1>3, <1>5
<1>7. commit \in Nat /\ commit >= 1 /\ commit <= top
  BY <1>1, <1>2, NodeIs
<1> HIDE DEF n
<1>8. ScenarioOK' /\ Cores' = Cores
  BY <1>4, ScenarioKept DEF CoreGroupIInv
<1>9. LogOK' /\ ConfsAreDated'
  BY <1>2, <1>4, <1>7, <1>8 DEF CoreGroupIInv, LogOK, EntryOK, ConfsAreDated
<1>10. ConfsMeet'
  BY <1>2, <1>4, <1>7 DEF CoreGroupIInv, ConfsMeet
<1>11. NodesOK'
  <2>1. ASSUME NEW m \in Members
        PROVE  /\ node'[m].matched <= Len(log')
               /\ node'[m].applied <= commit' /\ node'[m].known <= commit'
               /\ node'[m].seated_at <= commit'
               /\ node'[m].seat \/ node'[m].matched >= 1 => node'[m].seated_at >= 1
    <3>1. /\ node[m].applied <= top /\ node[m].known <= top /\ node[m].seated_at <= top
          /\ node[m].matched <= top
          /\ node[m].seat \/ node[m].matched >= 1 => node[m].seated_at >= 1
      BY <1>2, <1>7, NodeIs
    <3> QED
      BY <1>2, <1>4, <1>6, <3>1
  <2> QED
    BY <1>5, <2>1 DEF NodesOK
<1>12. LeaderOK'
  <2>1. leader' \in {leader, Nobody}
    BY DEF Commit
  <2> QED
    BY <1>1, <1>6, <2>1 DEF CoreGroupIInv, LeaderOK
<1>13. ASSUME NEW i \in 1..(top - 1)
       PROVE  \E V \in Range(log[i].conf.joint) : Majority({m \in Members : node[m].matched > i}, V)
  <2>1. CASE i < commit
    <3>1. i \in 1..(commit - 1)
      BY <1>7, <2>1
    <3> QED
      BY <3>1 DEF CoreGroupIInv, CommitIsHeld, AheadAt
  <2>2. CASE ~ (i < commit)
    <3>1. Effective = log[top].conf /\ i \in commit..Len(log) /\ top \in commit..Len(log)
          /\ i <= top /\ i \in 1..Len(log) /\ i < top
      BY <1>2, <1>7, <2>2, LastIs DEF Effective, CoreGroupIInv
    <3>2. Meet(log[i].conf, Effective)
      BY <3>1 DEF CoreGroupIInv, ConfsMeet
    <3>3. PICK V : V \in Range(log[i].conf.joint) /\ V \in Range(Effective.joint)
      BY <3>2 DEF Meet
    <3>4. Majority(all, V)
      BY <1>2, <3>3 DEF Commit, Quorum
    <3>5. V \in SUBSET Members
      BY <3>1, <3>3, JointFacts DEF CoreGroupIInv, LogOK, EntryOK
    <3>6. all \cap V \subseteq {m \in Members : node[m].matched > i}
      BY <3>1
    <3>7. Majority({m \in Members : node[m].matched > i}, V)
      BY <3>4, <3>5, <3>6, MajorityGrows
    <3> QED
      BY <3>3, <3>7
  <2> QED
    BY <2>1, <2>2
<1>14. CommitIsHeld'
  <2>1. \A i : {m \in Members : node'[m].matched > i} = {m \in Members : node[m].matched > i}
    BY <1>6
  <2> QED
    BY <1>4, <1>13, <2>1 DEF CommitIsHeld, AheadAt
<1>15. VotersOK'
  <2>1. \A i \in 1..Len(log) : Voters(log[i].conf) \subseteq Members
    BY JointFacts DEF CoreGroupIInv, LogOK, EntryOK
  <2> QED
    BY <1>4, <1>6, <2>1 DEF CoreGroupIInv, VotersOK
<1>16. TaskOK'
  <2>1. task' = task \/ Idle
    BY DEF Commit
  <2>2. \A m \in Members : node[m].matched \in Nat
    BY NodeIs
  <2> QED
    BY <1>4, <1>6, <2>1, <2>2, TaskKept
<1>17. RetiredOK'
  <2>1. \A i : CoreAt(i)' = CoreAt(i) /\ VotersAt(i)' = VotersAt(i)
    BY <1>4, <1>8 DEF CoreAt, VotersAt
  <2>2. 1..commit \subseteq 1..top
    BY <1>7
  <2> QED
    BY <1>4, <1>6, <2>1, <2>2 DEF CoreGroupIInv, RetiredOK
<1> QED
  BY <1>8, <1>9, <1>10, <1>11, <1>12, <1>14, <1>15, <1>16, <1>17 DEF CoreGroupIInv

\* What pass decides to submit: a promotion only of a node it has heard from.
LEMMA PassKeeps ==
    ASSUME CoreGroupIInv, Pass
    PROVE  CoreGroupIInv'
<1> DEFINE wanted == CoreAt(node[leader].applied)
           target == Last(Effective.joint)
<1>1. leader \in Members /\ UNCHANGED <<log, commit, leader, node, scenario>>
  BY DEF Pass, CoreGroupIInv, LeaderOK
<1>2. ConfOK(Effective)
  <2>1. Len(log) \in 1..Len(log) /\ Effective = log[Len(log)].conf
    BY LastIs DEF CoreGroupIInv, Effective
  <2> QED
    BY <2>1 DEF CoreGroupIInv, LogOK, EntryOK
<1>3. PICK c : Plan(c) /\ \/ Inherited /\ c = Change("ReplaceAllVoters", target, <<>>)
                          \/ ~ Inherited /\ c = next_change(wanted) /\ c # NoChange
                          \/ ~ Inherited /\ c.kind = "RemoveNodes"
  <2>1. CASE Inherited
    BY <2>1 DEF Pass
  <2>2. CASE ~ Inherited /\ next_change(wanted) # NoChange /\ Plan(next_change(wanted))
    BY <2>2
  <2>3. CASE ~ Inherited /\ \E ids : Plan(Change("RemoveNodes", ids, <<>>))
    <3>1. PICK ids : Plan(Change("RemoveNodes", ids, <<>>))
      BY <2>3
    <3>2. Change("RemoveNodes", ids, <<>>).kind = "RemoveNodes"
      BY DEF Change
    <3> QED
      BY <2>3, <3>1, <3>2
  <2> QED
    BY <2>1, <2>2, <2>3 DEF Pass
<1>4. /\ ChangeOK(c)
      /\ c.kind = "AddVoterIds" => \A m \in c.ids : node[m].matched >= 1
      /\ c.kind = "ReplaceAllVoters" => c.ids = target
      /\ Inherited => c.kind = "ReplaceAllVoters"
  <2>1. CASE Inherited /\ c = Change("ReplaceAllVoters", target, <<>>)
    <3>1. target \in SUBSET Members
      BY <1>2, JointFacts
    <3> QED
      BY <2>1, <3>1 DEF Change, ChangeOK, Kinds
  <2>2. CASE ~ Inherited /\ c = next_change(wanted) /\ c # NoChange
    <3> DEFINE voters == Voters(Effective)
               moved == {m \in DOMAIN wanted \cap voters : Effective.nodes[m] # wanted[m]}
               joining == DOMAIN wanted \ voters
               unknown == joining \ DOMAIN Effective.nodes
               ready == {m \in joining : CaughtUp(m)}
               departed == voters \ DOMAIN wanted
               addrs == [m \in moved |-> wanted[m]]
               news == [m \in unknown |-> wanted[m]]
    <3>0. \/ c = Change("SetNodes", {}, addrs) \/ c = Change("AddNodes", {}, news)
          \/ c = Change("AddVoterIds", ready, <<>>) \/ c = Change("RemoveVoters", departed, <<>>)
      <4>1. c =
              CASE wanted = <<>> -> NoChange
                [] wanted # <<>> /\ moved # {} -> Change("SetNodes", {}, addrs)
                [] moved = {} /\ unknown # {} -> Change("AddNodes", {}, news)
                [] moved = {} /\ unknown = {} /\ ready # {} -> Change("AddVoterIds", ready, <<>>)
                [] wanted # <<>> /\ moved = {} /\ joining = {} /\ departed # {} ->
                      Change("RemoveVoters", departed, <<>>)
                [] OTHER -> NoChange
        BY <2>2 DEF next_change
      <4> HIDE DEF moved, joining, unknown, ready, departed, addrs, news
      <4> QED
        BY <2>2, <4>1
    <3>1. c.kind \in {"SetNodes", "AddNodes", "AddVoterIds", "RemoveVoters"}
          /\ (c.kind = "AddVoterIds" => c.ids = ready)
      <4> HIDE DEF moved, joining, unknown, ready, departed, addrs, news
      <4> QED
        BY <3>0 DEF Change
    <3>2. ASSUME NEW m \in ready
          PROVE  m \in Members /\ node[m].matched >= 1
      <4>1. node[leader].applied # 0 /\ m \in DOMAIN wanted
        BY DEF CoreAt
      <4>2. node[leader].applied \in 1..Len(log) /\ node[leader].applied \in Nat
        BY <1>1, <4>1, NodeIs
      <4>3. wanted = Cores[log[node[leader].applied].core].core
        BY <4>1 DEF CoreAt
      <4>4. DOMAIN wanted \subseteq Members
        <5>1. log[node[leader].applied].core \in 1..Len(Cores)
          BY <4>2 DEF CoreGroupIInv, LogOK, EntryOK
        <5> QED
          BY <4>3, <5>1 DEF CoreGroupIInv, ScenarioOK
      <4>5. node[m].matched >= node[leader].applied /\ node[m].matched \in Nat
        BY <4>1, <4>4, NodeIs DEF CaughtUp
      <4> QED
        BY <4>1, <4>2, <4>4, <4>5
    <3> QED
      BY <2>2, <3>1, <3>2 DEF ChangeOK, Kinds
  <2>3. CASE ~ Inherited /\ c.kind = "RemoveNodes"
    BY <2>3 DEF ChangeOK, Kinds
  <2> QED
    BY <1>3, <2>1, <2>2, <2>3
<1>5. TaskOK'
  <2>1. PlanOK'
    BY <1>1, <1>3, <1>4 DEF PlanOK, Plan, Inherited, Uniform, Effective
  <2> QED
    BY <1>1, <1>3, <2>1, LastIs DEF TaskOK, Plan, CoreGroupIInv
<1>6. ScenarioOK' /\ Cores' = Cores /\ NodesOK' /\ LeaderOK'
  BY <1>1, ScenarioKept DEF CoreGroupIInv, NodesOK, LeaderOK
<1>7. RetiredOK'
  BY <1>1, <1>6, RetiredKept
<1> QED
  BY <1>1, <1>5, <1>6, <1>7, NodeIs, QuietKeeps

LEMMA IdleKeeps ==
    ASSUME CoreGroupIInv, SubmitRefused \/ Returned
    PROVE  CoreGroupIInv'
<1>1. Idle /\ UNCHANGED <<log, commit, leader, node, scenario>>
  BY DEF SubmitRefused, Returned
<1>2. ScenarioOK' /\ Cores' = Cores /\ NodesOK' /\ LeaderOK'
  BY <1>1, ScenarioKept DEF CoreGroupIInv, NodesOK, LeaderOK
<1>3. \A m \in Members : node[m].matched \in Nat /\ node'[m].matched >= node[m].matched
  BY <1>1, NodeIs
<1>4. TaskOK' /\ RetiredOK'
  BY <1>1, <1>2, <1>3, TaskKept, RetiredKept
<1> QED
  BY <1>1, <1>2, <1>3, <1>4, QuietKeeps
-----------------------------------------------------------------------------
(* The steps that write.                                                   *)

LEMMA OfItsOwn ==
    ASSUME NEW S, NEW q \in Seq(S)
    PROVE  q \in Seq(Range(q))
<1>1. Len(q) \in Nat /\ DOMAIN q = 1..Len(q) /\ q = [i \in 1..Len(q) |-> q[i]]
  OBVIOUS
<1>2. \A i \in 1..Len(q) : q[i] \in Range(q)
  BY <1>1 DEF Range
<1> QED
  BY <1>1, <1>2

LEMMA WrittenIs ==
    ASSUME CoreGroupIInv, leader \in Members, NEW entry, Write(entry)
    PROVE  /\ Len(log) \in Nat /\ Len(log') = Len(log) + 1
           /\ log' \in Seq(Range(log'))
           /\ log'[Len(log) + 1] = entry /\ Last(log') = entry
           /\ \A i \in 1..Len(log) : log'[i] = log[i]
           /\ node' \in [Members -> NodeType]
           /\ node'[leader].matched = Len(log) + 1
           /\ \A m \in Members :
                /\ m # leader => node'[m].matched = node[m].matched
                /\ node'[m].matched \in Nat /\ node'[m].matched >= node[m].matched
                /\ node'[m].seat = node[m].seat /\ node'[m].seated_at = node[m].seated_at
                /\ node'[m].known = node[m].known /\ node'[m].applied = node[m].applied
<1>1. log \in Seq(Range(log)) /\ Len(log) \in Nat /\ log' = Append(log, entry)
  BY LastIs DEF CoreGroupIInv, LogOK, Write
<1>2. /\ Len(log') = Len(log) + 1 /\ log'[Len(log) + 1] = entry
      /\ \A i \in 1..Len(log) : log'[i] = log[i]
      /\ log' \in Seq(Range(log) \cup {entry})
  BY <1>1
<1>3. log' \in Seq(Range(log')) /\ Last(log') = entry
  BY <1>1, <1>2, OfItsOwn DEF Last
<1>4. PICK top \in Nat : top = Len(log) + 1
  BY <1>1
<1> DEFINE n == [node[leader] EXCEPT !.matched = top]
<1>5. n \in NodeType /\ n.seat = node[leader].seat /\ n.matched = top
      /\ n.known = node[leader].known /\ n.applied = node[leader].applied
      /\ n.seated_at = node[leader].seated_at
  BY NodeIs DEF NodeType
<1>6. node' = [node EXCEPT ![leader] = n]
  BY <1>4 DEF Write
<1> HIDE DEF n
<1>7. node'[leader] = n /\ \A m \in Members \ {leader} : node'[m] = node[m]
  BY <1>6 DEF CoreGroupIInv, NodesOK
<1>8. node' \in [Members -> NodeType]
  BY <1>5, <1>6 DEF CoreGroupIInv, NodesOK
<1>9. \A m \in Members : node[m].matched \in Nat /\ node[m].matched <= Len(log)
  BY NodeIs
<1> QED
  BY <1>1, <1>2, <1>3, <1>4, <1>5, <1>7, <1>8, <1>9

\* The configuration stays, or changes once the last change is committed.
LEMMA WriteKeeps ==
    ASSUME CoreGroupIInv, leader \in Members, NEW entry, Write(entry),
           UNCHANGED <<commit, leader, scenario>>, TaskOK',
           entry = [core |-> entry.core, core_at |-> entry.core_at,
                    conf_at |-> entry.conf_at, conf |-> entry.conf],
           entry.core \in 1..Len(Cores), ConfOK(entry.conf),
           entry.core_at \in 1..(Len(log) + 1), entry.conf_at \in 1..(Len(log) + 1),
           \/ entry.conf = Effective /\ entry.conf_at = Last(log).conf_at
           \/ /\ entry.conf_at = Len(log) + 1 /\ Last(log).conf_at <= commit
              /\ Meet(Effective, entry.conf),
           \A m \in Voters(entry.conf) : node[m].matched >= 1
    PROVE  CoreGroupIInv'
<1>1. PICK top \in Nat : top = Len(log)
  BY LastIs DEF CoreGroupIInv
<1>2. /\ Len(log') = top + 1 /\ log' \in Seq(Range(log'))
      /\ log'[top + 1] = entry /\ \A i \in 1..top : log'[i] = log[i]
      /\ node' \in [Members -> NodeType]
      /\ \A m \in Members :
           /\ node'[m].matched \in Nat /\ node'[m].matched <= top + 1
           /\ node'[m].matched >= node[m].matched /\ node[m].matched \in Nat
           /\ node'[m].seat = node[m].seat /\ node'[m].seated_at = node[m].seated_at
           /\ node'[m].known = node[m].known /\ node'[m].applied = node[m].applied
  <2>1. \A m \in Members : node[m].matched \in Nat /\ node[m].matched <= top
    BY <1>1, NodeIs
  <2> QED
    BY <1>1, <2>1, WrittenIs
<1>3. /\ commit \in Nat /\ commit >= 1 /\ commit <= top
      /\ Effective = log[top].conf /\ Last(log) = log[top]
  BY <1>1, NodeIs, LastIs DEF CoreGroupIInv, Effective
<1>4. ScenarioOK' /\ Cores' = Cores
  BY ScenarioKept DEF CoreGroupIInv
<1>5. LogOK'
  <2>1. ASSUME NEW i \in 1..(top + 1)
        PROVE  EntryOK(i)'
    <3>1. CASE i = top + 1
      BY <1>1, <1>2, <1>4, <3>1 DEF EntryOK
    <3>2. CASE i # top + 1
      <4>1. i \in 1..top
        BY <3>2
      <4> QED
        BY <1>1, <1>2, <1>4, <4>1 DEF CoreGroupIInv, LogOK, EntryOK
    <3> QED
      BY <3>1, <3>2
  <2>2. commit' \in 1..Len(log')
    BY <1>2, <1>3
  <2> QED
    BY <1>2, <2>1, <2>2 DEF LogOK
<1>6. \A i \in 1..(top + 1) : i \in 1..top \/ i = top + 1
  OBVIOUS
<1>7. \A i, j \in 1..top : i <= j /\ log[j].conf_at <= i => log[i].conf = log[j].conf
  BY <1>1 DEF CoreGroupIInv, ConfsAreDated
<1>8. ConfsAreDated'
  <2>1. ASSUME NEW i \in 1..(top + 1), NEW j \in 1..(top + 1), i <= j, log'[j].conf_at <= i
        PROVE  log'[i].conf = log'[j].conf
    <3>1. CASE j \in 1..top
      <4>1. i \in 1..top
        BY <3>1, <2>1
      <4> QED
        BY <1>2, <1>7, <2>1, <3>1, <4>1
    <3>2. CASE j = top + 1 /\ i \in 1..top
      <4>1. entry.conf = log[top].conf /\ entry.conf_at = log[top].conf_at
        BY <1>1, <1>2, <1>3, <2>1, <3>2
      <4>2. i <= top /\ top \in 1..top /\ log[top].conf_at <= i
        BY <1>2, <2>1, <3>2, <4>1
      <4>3. log[i].conf = log[top].conf
        BY <1>7, <3>2, <4>2
      <4> QED
        BY <1>2, <3>2, <4>1, <4>3
    <3>3. CASE j = top + 1 /\ i = top + 1
      BY <3>3
    <3> QED
      BY <1>6, <3>1, <3>2, <3>3
  <2> QED
    BY <1>2, <2>1 DEF ConfsAreDated
<1>9. \A i, j \in commit..top : i <= j => Meet(log[i].conf, log[j].conf)
  BY <1>1 DEF CoreGroupIInv, ConfsMeet
<1>10. ConfsMeet'
  <2>1. ASSUME NEW i \in commit..(top + 1), NEW j \in commit..(top + 1), i <= j
        PROVE  Meet(log'[i].conf, log'[j].conf)
    <3>1. CASE j # top + 1
      <4>1. i \in commit..top /\ j \in commit..top /\ i \in 1..top /\ j \in 1..top
        BY <1>3, <2>1, <3>1
      <4> QED
        BY <1>2, <1>9, <2>1, <4>1
    <3>2. CASE j = top + 1 /\ i # top + 1
      <4>1. i \in commit..top /\ i \in 1..top /\ top \in commit..top /\ top \in 1..top /\ i <= top
        BY <1>3, <2>1, <3>2
      <4>2. CASE entry.conf = Effective
        BY <1>2, <1>3, <1>9, <3>2, <4>1, <4>2
      <4>3. CASE Last(log).conf_at <= commit /\ Meet(Effective, entry.conf)
        <5>1. log[top].conf_at \in Nat
          <6>1. EntryOK(top)
            BY <1>1, <4>1 DEF CoreGroupIInv, LogOK
          <6> QED
            BY <6>1 DEF EntryOK
        <5>2. log[top].conf_at <= i
          BY <1>3, <4>1, <4>3, <5>1
        <5>3. log[i].conf = log[top].conf
          BY <1>7, <4>1, <5>2
        <5> QED
          BY <1>2, <1>3, <3>2, <4>1, <4>3, <5>3
      <4> QED
        BY <4>2, <4>3
    <3>3. CASE j = top + 1 /\ i = top + 1
      <4>1. Last(entry.conf.joint) \in Range(entry.conf.joint)
        BY JointFacts
      <4> QED
        BY <1>2, <3>3, <4>1 DEF Meet
    <3> QED
      BY <3>1, <3>2, <3>3
  <2> QED
    BY <1>2, <2>1 DEF ConfsMeet
<1>11. NodesOK'
  <2>1. ASSUME NEW m \in Members
        PROVE  /\ node'[m].matched <= Len(log')
               /\ node'[m].applied <= commit' /\ node'[m].known <= commit'
               /\ node'[m].seated_at <= commit'
               /\ node'[m].seat \/ node'[m].matched >= 1 => node'[m].seated_at >= 1
    <3>1. /\ node[m].applied <= commit /\ node[m].known <= commit /\ node[m].seated_at <= commit
          /\ node[m].seat \/ node[m].matched >= 1 => node[m].seated_at >= 1
          /\ leader = m => node[m].seat
      BY NodeIs
    <3>2. m # leader => node'[m].matched = node[m].matched
      BY WrittenIs
    <3> QED
      BY <1>2, <3>1, <3>2
  <2> QED
    BY <1>2, <2>1 DEF NodesOK
<1>12. LeaderOK'
  BY <1>2 DEF CoreGroupIInv, LeaderOK
<1>13. CommitIsHeld'
  <2> SUFFICES ASSUME NEW i \in 1..(commit - 1)
               PROVE  \E V \in Range(log[i].conf.joint) :
                         Majority({m \in Members : node'[m].matched > i}, V)
    <3>1. \A i \in 1..(commit - 1) : log'[i] = log[i]
      BY <1>2, <1>3
    <3> QED
      BY <3>1 DEF CommitIsHeld, AheadAt
  <2>1. i \in 1..Len(log)
    BY <1>1, <1>3
  <2>2. PICK V \in Range(log[i].conf.joint) : Majority({m \in Members : node[m].matched > i}, V)
    BY DEF CoreGroupIInv, CommitIsHeld, AheadAt
  <2>3. V \in SUBSET Members
    BY <2>1, <2>2, JointFacts DEF CoreGroupIInv, LogOK, EntryOK
  <2>4. {m \in Members : node[m].matched > i} \cap V \subseteq {m \in Members : node'[m].matched > i}
    BY <1>2
  <2> QED
    BY <2>2, <2>3, <2>4, MajorityGrows
<1>14. VotersOK'
  <2>1. ASSUME NEW i \in 1..(top + 1), NEW m \in Voters(log'[i].conf)
        PROVE  node'[m].matched >= 1
    <3>1. m \in Members /\ node[m].matched >= 1
      <4>1. CASE i = top + 1
        BY <1>2, <4>1, JointFacts
      <4>2. CASE i # top + 1
        <5>1. i \in 1..Len(log) /\ m \in Voters(log[i].conf)
          BY <1>1, <1>2, <4>2
        <5>2. ConfOK(log[i].conf)
          BY <5>1 DEF CoreGroupIInv, LogOK, EntryOK
        <5> QED
          BY <5>1, <5>2, JointFacts DEF CoreGroupIInv, VotersOK
      <4> QED
        BY <4>1, <4>2
    <3> QED
      BY <1>2, <3>1
  <2> QED
    BY <1>2, <2>1 DEF VotersOK
<1>15. RetiredOK'
  <2>1. \A i \in 1..commit : CoreAt(i)' = CoreAt(i) /\ VotersAt(i)' = VotersAt(i) /\ log'[i] = log[i]
    BY <1>2, <1>3, <1>4 DEF CoreAt, VotersAt
  <2> QED
    BY <1>2, <2>1 DEF CoreGroupIInv, RetiredOK
<1> QED
  BY <1>4, <1>5, <1>8, <1>10, <1>11, <1>12, <1>13, <1>14, <1>15 DEF CoreGroupIInv
LEMMA LastEntry ==
    ASSUME CoreGroupIInv
    PROVE  LET last == Last(log) IN
           /\ last = [core |-> last.core, core_at |-> last.core_at,
                      conf_at |-> last.conf_at, conf |-> last.conf]
           /\ last.core \in 1..Len(Cores) /\ Len(Cores) \in Nat
           /\ last.core_at \in 1..Len(log) /\ last.conf_at \in 1..Len(log)
           /\ Len(log) \in Nat /\ Effective = last.conf /\ ConfOK(Effective)
           /\ \A m \in Voters(Effective) : m \in Members /\ node[m].matched >= 1
<1>1. Len(log) \in 1..Len(log) /\ Last(log) = log[Len(log)] /\ Len(log) \in Nat
  BY LastIs DEF CoreGroupIInv
<1>2. EntryOK(Len(log))
  BY <1>1 DEF CoreGroupIInv, LogOK
<1>3. ConfOK(Effective) /\ \A m \in Voters(Effective) : node[m].matched >= 1
  BY <1>1, <1>2 DEF CoreGroupIInv, VotersOK, Effective, EntryOK
<1>4. Len(Cores) \in Nat
  BY DEF CoreGroupIInv, ScenarioOK
<1> QED
  BY <1>1, <1>2, <1>3, <1>4, JointFacts DEF Effective, EntryOK

LEMMA DecideKeeps ==
    ASSUME CoreGroupIInv, Decide
    PROVE  CoreGroupIInv'
<1>1. leader \in Members /\ UNCHANGED <<commit, leader, task, scenario>>
  BY DEF Decide, CoreGroupIInv, LeaderOK
<1>2. PICK last : last = Last(log)
  OBVIOUS
<1>3. PICK top \in Nat : top = Len(log)
  BY LastEntry
<1> DEFINE entry == [last EXCEPT !.core = @ + 1, !.core_at = top + 1]
<1>4. Write(entry) /\ last.core < Len(Cores)
  BY <1>2, <1>3 DEF Decide
<1>5. entry = [core |-> last.core + 1, core_at |-> top + 1,
               conf_at |-> last.conf_at, conf |-> last.conf]
  <2>1. last = [core |-> last.core, core_at |-> last.core_at,
                conf_at |-> last.conf_at, conf |-> last.conf]
    BY <1>2, LastEntry
  <2> DEFINE one == [last EXCEPT !.core = last.core + 1]
  <2>2. one = [core |-> last.core + 1, core_at |-> last.core_at,
               conf_at |-> last.conf_at, conf |-> last.conf]
    BY <2>1
  <2>3. entry = [one EXCEPT !.core_at = top + 1]
    OBVIOUS
  <2> HIDE DEF one, entry
  <2> QED
    BY <2>2, <2>3
<1> HIDE DEF entry
<1>6. /\ entry = [core |-> entry.core, core_at |-> entry.core_at,
                  conf_at |-> entry.conf_at, conf |-> entry.conf]
      /\ entry.core \in 1..Len(Cores)
      /\ entry.core_at \in 1..(Len(log) + 1) /\ entry.conf_at \in 1..(Len(log) + 1)
      /\ entry.conf = Effective /\ entry.conf_at = Last(log).conf_at
  BY <1>2, <1>3, <1>4, <1>5, LastEntry
<1>7. Effective' = Effective /\ Len(log') = Len(log) + 1
  BY <1>1, <1>4, <1>6, WrittenIs DEF Effective
<1>8. TaskOK'
  <2>1. \A m \in Members : node[m].matched \in Nat /\ node'[m].matched >= node[m].matched
                           /\ node'[m].matched \in Nat
    BY <1>1, <1>4, NodeIs, WrittenIs
  <2>2. ASSUME PlanOK PROVE PlanOK'
    <3>1. ASSUME task.change.kind = "AddVoterIds", NEW m \in task.change.ids
          PROVE  node'[m].matched >= 1
      <4>1. m \in Members /\ node[m].matched >= 1
        BY <2>2, <3>1 DEF PlanOK, ChangeOK
      <4> QED
        BY <2>1, <4>1
    <3> QED
      BY <1>1, <1>7, <2>2, <3>1 DEF PlanOK, ChangeOK, Uniform
  <2> QED
    BY <1>1, <1>3, <1>7, <2>2 DEF CoreGroupIInv, TaskOK
<1> QED
  BY <1>1, <1>4, <1>6, <1>8, LastEntry, WriteKeeps

\* A change the engine takes, whatever becomes of the task.
LEMMA ConfWriteKeeps ==
    ASSUME CoreGroupIInv, NEW c, ChangeOK(c), Accepted(c), WriteConf(c),
           c.kind \in {"AddVoterIds", "ReplaceAllVoters"}
              => \A m \in c.ids : node[m].matched >= 1,
           UNCHANGED <<commit, leader, scenario>>
    PROVE  /\ Len(log') = Len(log) + 1 /\ Len(log) \in Nat
           /\ Effective' = ChangeMembers(Effective, c)
           /\ \A m \in Members : node[m].matched \in Nat /\ node'[m].matched \in Nat
                                 /\ node'[m].matched >= node[m].matched
           /\ TaskOK' => CoreGroupIInv'
<1>1. leader \in Members /\ Last(log).conf_at <= node[leader].known
  BY DEF Accepted, CoreGroupIInv, LeaderOK
<1>2. PICK last : last = Last(log)
  OBVIOUS
<1>3. PICK top \in Nat : top = Len(log)
  BY LastEntry
<1>4. PICK next : next = ChangeMembers(Effective, c)
  OBVIOUS
<1> DEFINE entry == [last EXCEPT !.conf = next, !.conf_at = top + 1]
<1>5. Write(entry)
  BY <1>2, <1>3, <1>4, LastEntry DEF WriteConf
<1>6. entry = [core |-> last.core, core_at |-> last.core_at, conf_at |-> top + 1, conf |-> next]
  <2>1. last = [core |-> last.core, core_at |-> last.core_at,
                conf_at |-> last.conf_at, conf |-> last.conf]
    BY <1>2, LastEntry
  <2> DEFINE one == [last EXCEPT !.conf = next]
  <2>2. one = [core |-> last.core, core_at |-> last.core_at,
               conf_at |-> last.conf_at, conf |-> next]
    BY <2>1
  <2>3. entry = [one EXCEPT !.conf_at = top + 1]
    OBVIOUS
  <2> HIDE DEF one, entry
  <2> QED
    BY <2>2, <2>3
<1> HIDE DEF entry
<1>7. /\ entry = [core |-> entry.core, core_at |-> entry.core_at,
                  conf_at |-> entry.conf_at, conf |-> entry.conf]
      /\ entry.core \in 1..Len(Cores)
      /\ entry.core_at \in 1..(Len(log) + 1) /\ entry.conf_at \in 1..(Len(log) + 1)
      /\ entry.conf_at = Len(log) + 1 /\ entry.conf = next
  BY <1>2, <1>3, <1>6, LastEntry
<1>8. ConfOK(Effective) /\ Valid(ChangeMembers(Effective, c))
  BY LastEntry DEF Accepted
<1>9. /\ ConfOK(next) /\ Meet(Effective, next)
      /\ Voters(next) \subseteq Voters(Effective) \cup
            (IF c.kind \in {"AddVoterIds", "ReplaceAllVoters"} THEN c.ids ELSE {})
  BY <1>4, <1>8, ChangeIs
<1>10. \A m \in Voters(next) : node[m].matched >= 1
  BY <1>9, LastEntry
<1>11. Last(log).conf_at <= commit
  BY <1>1, LastEntry, NodeIs
<1>12. Len(log') = Len(log) + 1 /\ Last(log') = entry
  BY <1>1, <1>5, WrittenIs
<1>13. \A m \in Members : node[m].matched \in Nat /\ node'[m].matched \in Nat
                          /\ node'[m].matched >= node[m].matched
  BY <1>1, <1>5, NodeIs, WrittenIs
<1>14. TaskOK' => CoreGroupIInv'
  BY <1>1, <1>5, <1>7, <1>9, <1>10, <1>11, WriteKeeps
<1> QED
  BY <1>3, <1>4, <1>7, <1>12, <1>13, <1>14 DEF Effective

LEMMA SubmitKeeps ==
    ASSUME CoreGroupIInv, Submit
    PROVE  CoreGroupIInv'
<1>1. PICK c : c = task.change
  OBVIOUS
<1>2. Accepted(c) /\ WriteConf(c) /\ Sent /\ UNCHANGED <<commit, leader, scenario>>
  BY <1>1 DEF Submit
<1>3. PlanOK
  BY DEF Submit, CoreGroupIInv, TaskOK
<1>4. ChangeOK(c)
  BY <1>1, <1>3 DEF PlanOK
<1>5. c.kind \in {"AddVoterIds", "ReplaceAllVoters"} => \A m \in c.ids : node[m].matched >= 1
  <2>1. ConfOK(Effective) /\ \A m \in Voters(Effective) : node[m].matched >= 1
    BY LastEntry
  <2>2. Last(Effective.joint) \subseteq Voters(Effective)
    BY <2>1, JointFacts
  <2> QED
    BY <1>1, <1>3, <2>1, <2>2 DEF PlanOK
<1>6. Len(log') = Len(log) + 1 /\ Len(log) \in Nat /\ (TaskOK' => CoreGroupIInv')
  BY <1>2, <1>4, <1>5, ConfWriteKeeps
<1>7. TaskOK'
  BY <1>2, <1>6 DEF TaskOK, Sent
<1> QED
  BY <1>6, <1>7

LEMMA FlattenKeeps ==
    ASSUME CoreGroupIInv, Flatten
    PROVE  CoreGroupIInv'
<1>1. Accepted(SecondRound) /\ WriteConf(SecondRound) /\ Sent /\ UNCHANGED <<commit, leader, scenario>>
  BY DEF Flatten
<1>2. ChangeOK(SecondRound) /\ SecondRound.ids = {}
  BY DEF SecondRound, Change, ChangeOK, Kinds
<1>3. Len(log') = Len(log) + 1 /\ Len(log) \in Nat /\ (TaskOK' => CoreGroupIInv')
  BY <1>1, <1>2, ConfWriteKeeps
<1>4. TaskOK'
  BY <1>1, <1>3 DEF TaskOK, Sent
<1> QED
  BY <1>3, <1>4

\* The voters stay, so what pass read of them does.
LEMMA ForgetKeeps ==
    ASSUME CoreGroupIInv, NEW m \in Members, forget_retired(m)
    PROVE  CoreGroupIInv' /\ Effective'.joint = Effective.joint
<1>1. PICK c : c = Change("RemoveNodes", {m}, <<>>)
  OBVIOUS
<1>2. Accepted(c) /\ WriteConf(c) /\ UNCHANGED <<commit, leader, task, scenario>>
  BY <1>1 DEF forget_retired
<1>3. c.kind = "RemoveNodes" /\ ChangeOK(c)
  BY <1>1 DEF Change, ChangeOK, Kinds
<1>4. /\ Len(log') = Len(log) + 1 /\ Len(log) \in Nat /\ (TaskOK' => CoreGroupIInv')
      /\ Effective' = ChangeMembers(Effective, c)
      /\ \A v \in Members : node[v].matched \in Nat /\ node'[v].matched \in Nat
                            /\ node'[v].matched >= node[v].matched
  BY <1>2, <1>3, ConfWriteKeeps
<1>5. Effective'.joint = Effective.joint
  BY <1>2, <1>3, <1>4, LastEntry, ChangeIs DEF Accepted
<1>6. TaskOK'
  <2>1. ASSUME PlanOK PROVE PlanOK'
    <3>1. ASSUME task.change.kind = "AddVoterIds", NEW v \in task.change.ids
          PROVE  node'[v].matched >= 1
      <4>1. v \in Members /\ node[v].matched >= 1
        BY <2>1, <3>1 DEF PlanOK, ChangeOK
      <4> QED
        BY <1>4, <4>1
    <3> QED
      BY <1>2, <1>5, <2>1, <3>1 DEF PlanOK, ChangeOK, Uniform
  <2> QED
    BY <1>2, <1>4, <2>1 DEF CoreGroupIInv, TaskOK
<1> QED
  BY <1>4, <1>5, <1>6
-----------------------------------------------------------------------------
(* Elections.                                                              *)

\* Whoever is elected holds all that is committed: the quorum that is not
\* ahead of it meets the majority that holds the entry after its last.
LEMMA TheElectedHoldTheCommit ==
    ASSUME CoreGroupIInv, NEW m \in Members, Elect(m)
    PROVE  node[m].matched >= commit
<1>1. PICK own \in Nat : own = node[m].matched
  BY NodeIs
<1> DEFINE votes == {v \in Members : /\ node[v].up /\ node[v].seat /\ node[v].matched <= own
                                     /\ v = m \/ may_speak_raft(v, m)}
<1>2. m \in VotersAt(own) \cup VotersAt(commit) /\ Quorum(votes, log[own].conf)
  BY <1>1 DEF Elect
<1>3. own >= 1
  <2>1. CASE m \in VotersAt(own)
    BY <1>1, <2>1 DEF VotersAt
  <2>2. CASE m \in VotersAt(commit)
    <3>1. commit \in 1..Len(log) /\ commit # 0
      BY DEF CoreGroupIInv, LogOK
    <3>2. m \in Voters(log[commit].conf)
      BY <2>2, <3>1 DEF VotersAt
    <3> QED
      BY <1>1, <3>1, <3>2 DEF CoreGroupIInv, VotersOK
  <2> QED
    BY <1>2, <2>1, <2>2
<1> SUFFICES ASSUME own < commit PROVE FALSE
  BY <1>1, NodeIs
<1>4. own \in 1..(commit - 1) /\ own \in 1..Len(log)
  BY <1>3, NodeIs
<1>5. PICK V \in Range(log[own].conf.joint) : Majority({v \in Members : node[v].matched > own}, V)
  BY <1>4 DEF CoreGroupIInv, CommitIsHeld, AheadAt
<1>6. V \in SUBSET Members
  BY <1>4, <1>5, JointFacts DEF CoreGroupIInv, LogOK, EntryOK
<1>7. Majority(votes, V)
  BY <1>2, <1>5 DEF Quorum
<1>8. votes \cap {v \in Members : node[v].matched > own} = {}
  BY NodeIs
<1> HIDE DEF votes
<1> QED
  BY <1>5, <1>6, <1>7, <1>8, MajoritiesMeet

LEMMA ElectKeeps ==
    ASSUME CoreGroupIInv, NEW m \in Members, Elect(m)
    PROVE  CoreGroupIInv'
<1>1. PICK own \in Nat : own = node[m].matched
  BY NodeIs
<1>2. /\ node[m].seat /\ leader' = m /\ log' = SubSeq(log, 1, own)
      /\ node' = [v \in Members |-> [node[v] EXCEPT !.matched = Min({node[v].matched, own})]]
      /\ Idle /\ commit' = commit
  BY <1>1 DEF Elect
<1>3. commit \in Nat /\ commit >= 1 /\ commit <= own /\ own <= Len(log) /\ Len(log) \in Nat
  BY <1>1, NodeIs, TheElectedHoldTheCommit
<1>4. /\ Len(log') = own /\ log' \in Seq(Range(log'))
      /\ \A i \in 1..own : log'[i] = log[i]
  <2>1. log \in Seq(Range(log))
    BY DEF CoreGroupIInv, LogOK
  <2>2. log' \in Seq(Range(log)) /\ Len(log') = own /\ \A i \in 1..own : log'[i] = log[i]
    BY <1>2, <1>3, <2>1
  <2> QED
    BY <2>2, OfItsOwn
<1>5. \A i : i \in 1..own => i \in 1..Len(log) /\ i \in Nat
  BY <1>3
<1>6. ASSUME NEW v \in Members
      PROVE  /\ node'[v] \in NodeType
             /\ node'[v].matched = IF node[v].matched <= own THEN node[v].matched ELSE own
             /\ node'[v].seat = node[v].seat /\ node'[v].seated_at = node[v].seated_at
             /\ node'[v].known = node[v].known /\ node'[v].applied = node[v].applied
  <2>1. PICK least \in Nat : /\ least = Min({node[v].matched, own})
                             /\ least = IF node[v].matched <= own THEN node[v].matched ELSE own
    BY NodeIs, MinOfTwo
  <2>2. node'[v] = [node[v] EXCEPT !.matched = least]
    BY <1>2, <2>1
  <2> QED
    BY <2>1, <2>2, NodeIs DEF NodeType
<1>7. ScenarioOK' /\ Cores' = Cores
  <2>1. \E n : scenario' = [scenario EXCEPT !.elections = n]
    BY DEF Elect
  <2> QED
    BY <2>1 DEF CoreGroupIInv, ScenarioOK, Cores
<1>8. LogOK'
  <2>1. ASSUME NEW i \in 1..own
        PROVE  EntryOK(i)'
    <3>1. EntryOK(i)
      BY <1>5 DEF CoreGroupIInv, LogOK
    <3> QED
      BY <1>4, <1>7, <3>1 DEF EntryOK
  <2> QED
    BY <1>2, <1>3, <1>4, <2>1 DEF LogOK
<1>9. ConfsAreDated'
  BY <1>4, <1>5 DEF CoreGroupIInv, ConfsAreDated
<1>10. ConfsMeet'
  <2>1. \A i \in commit..own : i \in commit..Len(log) /\ i \in 1..own
    BY <1>3
  <2> QED
    BY <1>2, <1>4, <2>1 DEF CoreGroupIInv, ConfsMeet
<1>11. NodesOK'
  <2>1. node' \in [Members -> NodeType]
    <3>1. DOMAIN node' = Members /\ node' = [v \in Members |-> node'[v]]
      BY <1>2
    <3> QED
      BY <1>6, <3>1
  <2>2. ASSUME NEW v \in Members
        PROVE  /\ node'[v].matched <= own
               /\ node'[v].applied <= commit /\ node'[v].known <= commit
               /\ node'[v].seated_at <= commit
               /\ node'[v].seat \/ node'[v].matched >= 1 => node'[v].seated_at >= 1
    <3>1. /\ node[v].applied <= commit /\ node[v].known <= commit /\ node[v].seated_at <= commit
          /\ node[v].seat \/ node[v].matched >= 1 => node[v].seated_at >= 1
          /\ node[v].matched \in Nat
      BY NodeIs
    <3> QED
      BY <1>6, <3>1
  <2> QED
    BY <1>2, <1>4, <2>1, <2>2 DEF NodesOK
<1>12. LeaderOK'
  BY <1>2, <1>6 DEF LeaderOK
<1>13. CommitIsHeld'
  <2> SUFFICES ASSUME NEW i \in 1..(commit - 1)
               PROVE  \E V \in Range(log[i].conf.joint) :
                         Majority({v \in Members : node'[v].matched > i}, V)
    <3>1. \A i \in 1..(commit - 1) : log'[i] = log[i]
      BY <1>3, <1>4
    <3> QED
      BY <1>2, <3>1 DEF CommitIsHeld, AheadAt
  <2>1. i \in 1..Len(log) /\ i < own /\ i \in Nat
    BY <1>3
  <2>2. PICK V \in Range(log[i].conf.joint) : Majority({v \in Members : node[v].matched > i}, V)
    BY DEF CoreGroupIInv, CommitIsHeld, AheadAt
  <2>3. V \in SUBSET Members
    BY <2>1, <2>2, JointFacts DEF CoreGroupIInv, LogOK, EntryOK
  <2>4. {v \in Members : node[v].matched > i} \cap V \subseteq {v \in Members : node'[v].matched > i}
    BY <1>6, <2>1
  <2> QED
    BY <2>2, <2>3, <2>4, MajorityGrows
<1>14. VotersOK'
  <2> SUFFICES ASSUME NEW i \in 1..own, NEW v \in Voters(log[i].conf)
               PROVE  node'[v].matched >= 1
    BY <1>4 DEF VotersOK
  <2>1. EntryOK(i) /\ node[v].matched >= 1
    BY <1>5 DEF CoreGroupIInv, LogOK, VotersOK
  <2>2. v \in Members
    BY <2>1, JointFacts DEF EntryOK
  <2> QED
    BY <1>3, <1>6, <2>1, <2>2
<1>15. TaskOK'
  BY <1>2, <1>4 DEF TaskOK, Idle
<1>16. RetiredOK'
  <2>1. \A i \in 1..commit : CoreAt(i)' = CoreAt(i) /\ VotersAt(i)' = VotersAt(i) /\ log'[i] = log[i]
    BY <1>3, <1>4, <1>7 DEF CoreAt, VotersAt
  <2>2. ASSUME NEW v \in Members, ~ node'[v].seat, node'[v].seated_at >= 1
        PROVE  \E i \in 1..commit : /\ node'[v].seated_at <= log[i].core_at
                                    /\ v \notin DOMAIN CoreAt(i) /\ v \notin VotersAt(i)
    BY <1>6, <2>2 DEF CoreGroupIInv, RetiredOK
  <2> QED
    BY <1>2, <2>1, <2>2 DEF RetiredOK
<1> QED
  BY <1>7, <1>8, <1>9, <1>10, <1>11, <1>12, <1>13, <1>14, <1>15, <1>16 DEF CoreGroupIInv

-----------------------------------------------------------------------------
(* The theorems.                                                           *)

LEMMA StepKeeps == CoreGroupIInv /\ [Next]_vars => CoreGroupIInv'
<1> SUFFICES ASSUME CoreGroupIInv, [Next]_vars
             PROVE  CoreGroupIInv'
  OBVIOUS
<1>1. CASE Decide
  BY <1>1, DecideKeeps
<1>2. CASE Commit
  BY <1>2, CommitKeeps
<1>3. CASE Enact
  BY <1>3, PassKeeps, SubmitKeeps, IdleKeeps, FlattenKeeps DEF Enact
<1>4. ASSUME NEW m \in Members,
             \/ Replicate(m) \/ Apply(m) \/ Elect(m) \/ Lose(m) \/ Recover(m)
             \/ Node(m) \/ forget_retired(m)
      PROVE  CoreGroupIInv'
  BY <1>4, ReplicateKeeps, ApplyKeeps, ElectKeeps, OutageKeeps, TakeTheSeatKeeps,
     StandDownKeeps, ForgetKeeps DEF Node
<1>5. CASE UNCHANGED vars
  <2>1. UNCHANGED <<log, commit, leader, node, task, scenario>>
    BY <1>5 DEF vars
  <2>2. ScenarioOK' /\ Cores' = Cores /\ NodesOK' /\ LeaderOK'
    BY <2>1, ScenarioKept DEF CoreGroupIInv, NodesOK, LeaderOK
  <2>3. \A m \in Members : node[m].matched \in Nat /\ node'[m].matched >= node[m].matched
    BY <2>1, NodeIs
  <2>4. TaskOK' /\ RetiredOK'
    BY <2>1, <2>2, <2>3, TaskKept, RetiredKept
  <2> QED
    BY <2>1, <2>2, <2>3, <2>4, QuietKeeps
<1> QED
  BY <1>1, <1>2, <1>3, <1>4, <1>5 DEF Next

\* Between two indices of which only the later has it, a predicate begins to
\* hold somewhere.
LEMMA BeginsSomewhere ==
    ASSUME NEW T \in SUBSET Nat, NEW i \in Nat, NEW k \in T, i < k, i \notin T
    PROVE  \E j \in T : i < j /\ j <= k /\ j - 1 \notin T
<1> DEFINE S == {j \in T : i < j}
<1>1. IsWellFoundedOn(OpToRel(<, Nat), Nat)
  BY NatLessThanWellFounded
<1>2. S \subseteq Nat /\ k \in S
  OBVIOUS
<1>3. PICK j \in S : \A n \in S : ~ (<<n, j>> \in OpToRel(<, Nat))
  BY <1>1, <1>2, WFMin
<1>4. \A n \in S : ~ (n < j)
  BY <1>2, <1>3 DEF OpToRel
<1>5. j \in Nat /\ i < j /\ j \in T /\ j <= k
  BY <1>2, <1>4
<1>6. j - 1 \notin T
  BY <1>4, <1>5
<1> QED
  BY <1>5, <1>6

\* Every voter sits, but for the two exceptions VotersAreSeated names.
LEMMA VotersSit ==
    ASSUME CoreGroupIInv, NEW m \in Voters(Effective)
    PROVE  m \in Members /\ (node[m].seat \/ PromotedAgain(m) \/ MadeVoterTooLate(m))
<1>1. m \in Members /\ node[m].matched >= 1
  BY LastEntry
<1>2. SUFFICES ASSUME ~ node[m].seat
               PROVE  PromotedAgain(m) \/ MadeVoterTooLate(m)
  BY <1>1
<1>3. PICK i \in 1..commit : /\ node[m].seated_at <= log[i].core_at
                             /\ m \notin DOMAIN CoreAt(i) /\ m \notin VotersAt(i)
  BY <1>1, <1>2, NodeIs DEF CoreGroupIInv, RetiredOK
<1>4. PICK top \in Nat : top = Len(log)
  BY LastEntry
<1>5. i \in 1..top /\ i \in Nat /\ m \in VotersAt(top) /\ top # 0
  <2>1. Effective = log[top].conf /\ top >= 1
    BY <1>4, LastIs DEF Effective, CoreGroupIInv
  <2> QED
    BY <1>1, <1>3, <1>4, <2>1, NodeIs DEF VotersAt
<1> DEFINE T == {j \in Nat : j <= top /\ m \in VotersAt(j)}
<1>6. i < top /\ top \in T /\ i \notin T /\ T \in SUBSET Nat
  BY <1>3, <1>5
<1>7. PICK j \in T : i < j /\ j <= top /\ j - 1 \notin T
  BY <1>5, <1>6, BeginsSomewhere
<1>8. /\ j \in 2..top /\ j \in 1..top /\ i < j
      /\ m \in VotersAt(j) /\ m \notin VotersAt(j - 1)
  BY <1>5, <1>7
<1>9. CASE m \in DOMAIN CoreAt(j)
  BY <1>3, <1>4, <1>5, <1>8, <1>9 DEF PromotedAgain
<1>10. CASE m \notin DOMAIN CoreAt(j)
  BY <1>4, <1>8, <1>10 DEF MadeVoterTooLate
<1> QED
  BY <1>9, <1>10

LEMMA IInvIsEnough == CoreGroupIInv => CoreGroupInv
<1> SUFFICES ASSUME CoreGroupIInv PROVE CoreGroupInv
  OBVIOUS
<1>1. TypeOK
  <2>1. 1 <= commit /\ commit <= Len(log)
    BY DEF CoreGroupIInv, LogOK
  <2>2. ASSUME NEW i \in 1..Len(log)
        PROVE  /\ log[i].core \in 1..Len(Cores) /\ log[i].core_at \in 1..i
               /\ log[i].conf_at \in 1..i /\ Valid(log[i].conf)
    BY DEF CoreGroupIInv, LogOK, EntryOK, ConfOK
  <2>3. ASSUME NEW m \in Members
        PROVE  /\ node[m].matched \in 0..Len(log) /\ node[m].applied \in 0..commit
               /\ node[m].known \in 0..commit
               /\ node[m].seated_at \in 0..commit /\ (node[m].seat => node[m].seated_at > 0)
    BY NodeIs
  <2> QED
    BY <2>1, <2>2, <2>3 DEF CoreGroupIInv, TypeOK, LeaderOK, TaskOK
<1>2. VotersAreSeated
  BY VotersSit DEF VotersAreSeated
<1> QED
  BY <1>1, <1>2 DEF CoreGroupInv

\* At every moment of a reconfiguration those a decision needs are there to be
\* asked: a voter of either side of a joint configuration has its seat, or gets
\* it back, whoever crashes, leads or is expelled meanwhile (core_group.rs pass,
\* node.rs may_retire).
THEOREM TheGroupCanDecide == Spec => []CoreGroupInv
<1>1. Init => CoreGroupIInv
  BY StartsRight
<1>2. CoreGroupIInv /\ [Next]_vars => CoreGroupIInv'
  BY StepKeeps
<1>3. CoreGroupIInv => CoreGroupInv
  BY IInvIsEnough
<1> QED
  BY <1>1, <1>2, <1>3, PTL DEF Spec

\* What is committed is never lost, through every change of the voters enact
\* submits: whoever is elected holds all of it (core_group.rs enact, openraft's
\* vote and its check that a change follows a committed one).
THEOREM CommittedEntriesStay ==
    Spec => [][\A i \in 1..commit : i \in 1..Len(log') /\ log'[i] = log[i]]_vars
<1> DEFINE Stays == \A i \in 1..commit : i \in 1..Len(log') /\ log'[i] = log[i]
<1>1. CoreGroupIInv /\ Next => Stays
  <2> SUFFICES ASSUME CoreGroupIInv, Next PROVE Stays
    OBVIOUS
  <2>0. commit \in 1..Len(log) /\ Len(log) \in Nat /\ log \in Seq(Range(log))
    BY LastIs DEF CoreGroupIInv, LogOK
  <2>1. CASE log' = log
    BY <2>0, <2>1
  <2>2. CASE \E entry : leader \in Members /\ Write(entry)
    <3>1. PICK entry : leader \in Members /\ Write(entry)
      BY <2>2
    <3>2. Len(log') = Len(log) + 1 /\ \A i \in 1..Len(log) : log'[i] = log[i]
      BY <3>1, WrittenIs
    <3> QED
      BY <2>0, <3>2
  <2>3. ASSUME NEW m \in Members, Elect(m) PROVE Stays
    <3>1. PICK own \in Nat : own = node[m].matched
      BY NodeIs
    <3>2. log' = SubSeq(log, 1, own) /\ own >= commit /\ own <= Len(log)
      BY <2>3, <3>1, TheElectedHoldTheCommit, NodeIs DEF Elect
    <3> QED
      BY <2>0, <3>2
  <2>4. leader # Nobody => leader \in Members
    BY DEF CoreGroupIInv, LeaderOK
  <2> QED
    BY <2>1, <2>2, <2>3, <2>4
    DEF Next, Decide, Commit, Enact, Pass, Submit, SubmitRefused, Flatten, Returned, Replicate,
        Apply, Lose, Recover, Node, Follow, take_the_seat, stand_down, forget_retired, WriteConf,
        Accepted
<1>2. CoreGroupIInv /\ [Next]_vars => [Stays]_vars
  BY <1>1
<1> QED
  BY <1>2, StartsRight, StepKeeps, PTL DEF Spec

\* A joint configuration is followed by its own target, whoever leads by then
\* and whatever the log asks for meanwhile (pass).
THEOREM TheTargetIsReached == Spec => JointTargetIsReached
<1> DEFINE Reaches ==
        Len(log') > Len(log) /\ Last(log').conf # Effective /\ ~ Uniform(Effective)
        => Last(log').conf.joint \in {Effective.joint, <<Last(Effective.joint)>>}
<1>1. CoreGroupIInv /\ Next => Reaches
  <2> SUFFICES ASSUME CoreGroupIInv, Next, Len(log') > Len(log), Last(log').conf # Effective,
                      ~ Uniform(Effective)
               PROVE  Effective'.joint \in {Effective.joint, <<Last(Effective.joint)>>}
    BY DEF Effective
  <2>0. ConfOK(Effective) /\ Len(log) \in Nat
    BY LastEntry
  <2>1. CASE log' = log
    BY <2>0, <2>1
  <2>2. CASE Decide
    <3>1. PICK entry : entry = [Last(log) EXCEPT !.core = @ + 1, !.core_at = Len(log) + 1]
      OBVIOUS
    <3>2. Write(entry) /\ leader \in Members
      BY <2>2, <3>1 DEF Decide, CoreGroupIInv, LeaderOK
    <3>3. Last(log') = entry
      BY <3>2, WrittenIs
    <3>4. entry.conf = Last(log).conf
      BY <3>1, LastEntry
    <3> QED
      BY <3>3, <3>4 DEF Effective
  <2>3. CASE Submit
    <3>1. PICK c : c = task.change
      OBVIOUS
    <3>2. PlanOK /\ Accepted(c) /\ WriteConf(c) /\ UNCHANGED <<commit, leader, scenario>>
      BY <2>3, <3>1 DEF Submit, CoreGroupIInv, TaskOK
    <3>3. ChangeOK(c) /\ c.kind = "ReplaceAllVoters" /\ c.ids = Last(Effective.joint)
      BY <3>1, <3>2 DEF PlanOK
    <3>4. \A m \in c.ids : node[m].matched >= 1
      BY <2>0, <3>3, JointFacts, LastEntry
    <3>5. Effective' = ChangeMembers(Effective, c)
      BY <3>2, <3>3, <3>4, ConfWriteKeeps
    <3> QED
      BY <2>0, <3>2, <3>3, <3>5, ChangeIs DEF Accepted
  <2>4. CASE Flatten
    <3>1. PICK c : c = SecondRound
      OBVIOUS
    <3>2. Accepted(c) /\ WriteConf(c) /\ UNCHANGED <<commit, leader, scenario>>
      BY <2>4, <3>1 DEF Flatten
    <3>3. ChangeOK(c) /\ c.kind = "AddVoterIds" /\ c.ids = {}
      BY <3>1 DEF SecondRound, Change, ChangeOK, Kinds
    <3>4. Effective' = ChangeMembers(Effective, c)
      BY <3>2, <3>3, ConfWriteKeeps
    <3> QED
      BY <2>0, <3>2, <3>3, <3>4, ChangeIs DEF Accepted
  <2>5. ASSUME NEW m \in Members, forget_retired(m)
        PROVE  Effective'.joint = Effective.joint
    BY <2>5, ForgetKeeps
  <2>6. ASSUME NEW m \in Members, Elect(m) PROVE FALSE
    <3>1. PICK own \in Nat : own = node[m].matched
      BY NodeIs
    <3>2. log' = SubSeq(log, 1, own) /\ own <= Len(log) /\ log \in Seq(Range(log))
      BY <2>6, <3>1, NodeIs DEF Elect, CoreGroupIInv, LogOK
    <3>3. Len(log') = own
      BY <3>2
    <3> QED
      BY <2>0, <3>2, <3>3
  <2> QED
    BY <2>1, <2>2, <2>3, <2>4, <2>5, <2>6
    DEF Next, Commit, Enact, Pass, SubmitRefused, Returned, Replicate, Apply, Lose, Recover,
        Node, Follow, take_the_seat, stand_down
<1>2. CoreGroupIInv /\ [Next]_vars => [Reaches]_vars
  BY <1>1
<1> QED
  BY <1>2, StartsRight, StepKeeps, PTL DEF Spec, JointTargetIsReached
=============================================================================
