------------------------------ MODULE Announcing ------------------------------
(***************************************************************************)
(* Where the members are: each says it on the group's gossip topic         *)
(* (consensus gossip.rs), each keeps what the others said (net             *)
(* directory.rs), and a node that missed it asks a core node (memberlog's  *)
(* Directory request).                                                     *)
(*                                                                         *)
(* Nothing announces on a timer: a node speaks when it joins, when its own *)
(* address changes and when it learns something new, so the group must     *)
(* both find everybody and fall silent.  Hints about the log, carried on   *)
(* the same topic, are in Follower.                                        *)
(***************************************************************************)
EXTENDS Naturals, FiniteSets

CONSTANTS
    Node,
    Scenarios,      \* each: the core nodes, who has settled, and what may happen
    MaxAddr,        \* bound: addresses a node moves through
    MaxPosition     \* bound: how far the log grows

ASSUME AnnouncingAssumption ==
    /\ MaxAddr \in Nat /\ MaxPosition \in Nat
    /\ \A s \in Scenarios : s.movers \subseteq Node /\ s.restarters \subseteq Node /\ s.growers \subseteq Node
                            /\ s.settled \subseteq Node /\ s.core \subseteq Node
                            /\ s.from \in 0..MaxPosition

VARIABLES
    may,            \* the scenario: who votes, and who may still do what
    addr,           \* what iroh says of each node's own address
    position,       \* how far each node is through the log
    on,             \* the nodes on the topic
    reason,         \* the nodes whose announce_address loop has a reason to speak
    directory,      \* directory[n][m]: the statement n holds for m
    asked,          \* the nodes done with asking for the directory
    said,           \* the last statement each node signed
    topic           \* announcements under way: [to, member, stated]

vars == <<may, addr, position, on, reason, directory, asked, said, topic>>

Unheard == [addr |-> 0, applied |-> 0]
Nothing == [m \in Node |-> Unheard]

\* A group some of whose nodes have settled, the others not yet started.
Init ==
    /\ may \in Scenarios
    /\ addr = [n \in Node |-> 1]
    /\ position = [n \in Node |-> may.from]
    /\ on = may.settled /\ asked = may.settled /\ reason = {} /\ topic = {}
    /\ said = [n \in Node |-> IF n \in may.settled THEN [addr |-> 1, applied |-> may.from] ELSE Unheard]
    /\ directory = [n \in Node |-> [m \in Node |->
                       IF n \in may.settled /\ m # n THEN said[m] ELSE Unheard]]

----------------------------------------------------------------------------
(* The world: the log grows, a node's machine moves or stops (external).   *)

Advances(n) ==
    /\ n \in may.growers /\ position[n] < MaxPosition
    /\ position' = [position EXCEPT ![n] = @ + 1]
    /\ UNCHANGED <<may, addr, on, reason, directory, asked, said, topic>>

\* watch_addr reports a change.
Moves(n) ==
    /\ n \in may.movers /\ addr[n] < MaxAddr
    /\ addr' = [addr EXCEPT ![n] = @ + 1]
    /\ reason' = reason \cup ({n} \cap on)
    /\ UNCHANGED <<may, position, on, directory, asked, said, topic>>

\* A node of a group that has settled stops and starts again, with its log and
\* nothing it has heard.
Settled == topic = {} /\ reason = {} /\ on = Node /\ asked = Node

Restarts(n) ==
    /\ n \in may.restarters /\ Settled
    /\ may' = [may EXCEPT !.restarters = @ \ {n}]
    /\ on' = on \ {n} /\ asked' = asked \ {n}
    /\ directory' = [directory EXCEPT ![n] = Nothing]
    /\ UNCHANGED <<addr, position, reason, said, topic>>

----------------------------------------------------------------------------
(* Directory::learn: what a node holds after a statement, and whether that *)
(* is news.                                                                *)

\* Only an older position loses: an equal one ties, and the later arrival wins.
Superseded(held, stated) == held # Unheard /\ stated.applied < held.applied

\* Mutant: a statement that is accepted is news.
IsNews_mutant(held, stated) == ~ Superseded(held, stated)

\* An address already held is no news, whatever its position.
IsNews(held, stated) == ~ Superseded(held, stated) /\ held.addr # stated.addr

Learnt(held, stated) == IF Superseded(held, stated) THEN held ELSE stated

\* learn_all: each statement of an answer, the asker's own left aside.
LearnAll(n, answer) ==
    /\ directory' = [directory EXCEPT ![n] =
          [m \in Node |-> IF answer[m] = Unheard THEN @[m] ELSE Learnt(@[m], answer[m])]]
    /\ reason' = reason \cup
          {k \in {n} : \E m \in Node : answer[m] # Unheard /\ IsNews(directory[n][m], answer[m])}

----------------------------------------------------------------------------
(* The topic.                                                              *)

\* join_topic, once there is a group: the loop begins by speaking.
Joins(n) ==
    /\ n \notin on
    /\ on' = on \cup {n}
    /\ reason' = reason \cup {n}
    /\ UNCHANGED <<may, addr, position, directory, asked, said, topic>>

\* announce_address, one turn: sign where this node is as of where it is in the
\* log, and broadcast it to whoever is on the topic.
Announces(n) ==
    /\ n \in reason
    /\ LET stated == [addr |-> addr[n], applied |-> position[n]] IN
          /\ said' = [said EXCEPT ![n] = stated]
          /\ topic' = topic \cup {[to |-> m, member |-> n, stated |-> stated] : m \in on \ {n}}
    /\ reason' = reason \ {n}
    /\ UNCHANGED <<may, addr, position, on, directory, asked>>

\* listen: one announcement read from the topic.
Hears(a) ==
    /\ topic' = topic \ {a}
    /\ directory' = [directory EXCEPT ![a.to][a.member] = Learnt(@, a.stated)]
    /\ reason' = reason \cup {n \in {a.to} : IsNews(directory[n][a.member], a.stated)}
    /\ UNCHANGED <<may, addr, position, on, asked, said>>

----------------------------------------------------------------------------
(* The ask.                                                                *)

CanAnswer(n) == (may.core \cap on) \ {n}

\* Mutant: only a fetch that brings entries is followed by the ask.
AsksForTheDirectory_mutant(n) ==
    /\ n \in on \ asked
    /\ asked' = asked \cup {n}
    /\ UNCHANGED <<may, addr, position, on, reason, directory, said, topic>>

\* serve_directory and the client's `directory`: one answer is enough, and what
\* was learnt so is as good a reason to speak as what was heard.
AsksForTheDirectory(n) ==
    /\ n \in on \ asked
    /\ \E c \in CanAnswer(n) : LearnAll(n, [directory[c] EXCEPT ![n] = Unheard])
    /\ asked' = asked \cup {n}
    /\ UNCHANGED <<may, addr, position, on, said, topic>>

\* ask_once_for_the_directory: a core node asks at its start and nowhere else; a
\* follower asks after every fetch until somebody answers.
GivesUpAsking(n) ==
    /\ n \in (on \cap may.core) \ asked /\ CanAnswer(n) = {}
    /\ asked' = asked \cup {n}
    /\ UNCHANGED <<may, addr, position, on, reason, directory, said, topic>>

----------------------------------------------------------------------------

Speaks == \E n \in Node : Joins(n) \/ Announces(n) \/ AsksForTheDirectory(n) \/ GivesUpAsking(n)
Delivers == \E a \in topic : Hears(a)

Next ==
    \/ Speaks \/ Delivers
    \/ \E n \in Node : Advances(n) \/ Moves(n) \/ Restarts(n)

\* Every node gets to run its loops, and what is under way arrives: the swarm is
\* taken to be connected.
Fairness ==
    /\ WF_vars(Delivers)
    /\ \A n \in Node : WF_vars(Joins(n)) /\ WF_vars(Announces(n))
                       /\ WF_vars(AsksForTheDirectory(n) \/ GivesUpAsking(n))

Spec == Init /\ [][Next]_vars /\ Fairness

----------------------------------------------------------------------------
(* Properties.                                                             *)

\* In the end every node can reach every other: a core node's address is in the
\* log, and for any other member it holds a statement as of the position that
\* member last spoke at.  A tie at one position may leave it the earlier of two
\* addresses (gossip.rs reachable, SignedAddress::applied).
EverybodyIsFound ==
    <>[](\A n, m \in Node : (n # m /\ m \notin may.core) =>
            directory[n][m] # Unheard /\ directory[n][m].applied = said[m].applied)

\* The group falls silent: a restatement is news to nobody, so hearing others
\* stops being a reason to speak (announce_address's termination argument).
FallsSilent == <>[](topic = {} /\ reason = {})

=============================================================================
