---------------------------- MODULE ProposingProofs ----------------------------
(***************************************************************************)
(* Theorems about proposing a change, for every set of calls, any number   *)
(* of lost answers, lost writes and elections, and any delay between a     *)
(* write and its commit.                                                   *)
(*                                                                         *)
(* The argument: the log is folded one entry at a time, so changed_at only *)
(* grows and names an entry whose fold is the present membership           *)
(* (FoldedOK).  What a call builds it builds from the fold at `read`, and  *)
(* that stays true of every write made of it and of every entry those      *)
(* become (Built, SignedOK).  An entry takes effect only if nothing was    *)
(* decided since its signature, so whatever separates `read` from the      *)
(* signature is all it can undo or repeat.                                 *)
(***************************************************************************)
EXTENDS Proposing, WellFoundedInduction, TLAPS

-----------------------------------------------------------------------------
(* The inductive invariant.                                                *)

Signed == [call : Call, copy : Nat, view : Nat, read : Nat, first : Nat, ev : Event]
Entry == [call : Call, copy : Nat, view : Nat, read : Nat, first : Nat, ev : Event, ok : BOOLEAN]

\* Every entry is folded into what the ones before it left.
LogOK ==
    /\ log \in Seq(Entry)
    /\ truth \in [0..Len(log) -> Membership]
    /\ \A i \in 1..Len(log) :
        /\ log[i].ok <=> Verdict(truth[i - 1], log[i]) = "ok"
        /\ truth[i] = Folded(truth[i - 1], log[i], i)

\* changed_at names the entry that left the membership as it is, and neither
\* it nor what members said they support ever goes back.
FoldedOK ==
    /\ \A i \in 0..Len(log) :
        truth[i].changed_at <= i /\ truth[truth[i].changed_at] = truth[i]
    /\ \A j \in 0..Len(log) : \A i \in 0..j :
        truth[i].changed_at <= truth[j].changed_at /\ truth[i].supports \subseteq truth[j].supports

\* An event is built from the membership at `read`: a core map is that one's
\* with one entry replaced, and support is said where it was not recorded.
Built(c, ev, read) ==
    /\ read <= Len(log)
    /\ ev.kind = "core" => \A v \in Voter \ {Asks[c].member} : ev.core[v] = truth[read].core[v]
    /\ ev.kind = "support" => ev.member \notin truth[read].supports
    /\ ev.kind \in {"add", "support"} => ev.member \in Node

\* What is not sent again carries its first signature.
SignedOnce(ev, first, view) == ~ sent_again_when_stale(ev) => first = view

SignedOK(w) ==
    /\ Built(w.call, w.ev, w.read)
    /\ w.read <= w.view
    /\ SignedOnce(w.ev, w.first, w.view)

InFlight == {"signing", "sending", "waiting", "behind", "settling"}

\* A call in the state r.
CallOK(c, r) ==
    /\ r.pc \in {"start"} \cup Ended => ~ r.again
    /\ r.pc \in InFlight =>
        /\ Built(c, r.ev, r.read)
        /\ r.read <= membership(NodeOf(c)).changed_at
        /\ r.again => sent_again_when_stale(r.ev)
    /\ r.pc \in {"sending", "waiting"} => r.read <= r.view /\ SignedOnce(r.ev, r.first, r.view)
    /\ r.pc \in {"settling", "applied"} =>
        /\ r.index \in 1..Len(log)
        /\ log[r.index].call = c /\ log[r.index].ok
    /\ r.pc = "applied" => r.index <= upto[NodeOf(c)]

NodesOK ==
    /\ upto \in [Node -> 0..Len(log)]
    /\ leader \in Voter \cup {None} /\ former \in Voter \cup {None}
    /\ faults \in 0..MaxFaults /\ terms \in 0..MaxTerms

WritesOK ==
    /\ writes \subseteq Signed /\ \A w \in writes : SignedOK(w)
    /\ \A i \in 1..Len(log), e \in Entry : e = log[i] => SignedOK(e)

CallsOK ==
    /\ call \in [Call -> CallState]
    /\ \A c \in Call, r \in CallState : r = call[c] => CallOK(c, r)

ProposingIInv == LogOK /\ FoldedOK /\ NodesOK /\ WritesOK /\ CallsOK

-----------------------------------------------------------------------------
(* Induction over the naturals, on a set.                                  *)

LEMMA SetInduction ==
    ASSUME NEW T \in SUBSET Nat, 0 \in T, \A n \in T : n + 1 \in T
    PROVE  T = Nat
<1> DEFINE R == OpToRel(<, Nat)
<1>1. IsWellFoundedOn(R, Nat)
  BY NatLessThanWellFounded
<1>2. \A x, y \in Nat : x < y => <<x, y>> \in R
  BY DEF OpToRel
<1> HIDE DEF R
<1>3. SUFFICES ASSUME Nat \ T # {} PROVE FALSE
  OBVIOUS
<1>4. PICK x \in Nat \ T : \A y \in Nat \ T : <<y, x>> \notin R
  BY <1>1, <1>3, WFMin
<1>5. x - 1 \in Nat /\ x - 1 < x /\ x - 1 + 1 = x
  BY <1>4
<1>6. <<x - 1, x>> \in R
  BY <1>2, <1>5
<1>7. x - 1 \in T
  BY <1>4, <1>5, <1>6
<1> QED
  BY <1>4, <1>5, <1>7

\* What differs at two ends differs somewhere between neighbours.
LEMMA DiffersBetween ==
    ASSUME NEW from \in Nat, NEW to \in Nat, from <= to, NEW f, f[from] # f[to]
    PROVE  \E j \in (from + 1)..to : f[j] # f[j - 1]
<1> SUFFICES ASSUME \A j \in (from + 1)..to : f[j] = f[j - 1] PROVE FALSE
  OBVIOUS
<1> DEFINE T == {k \in Nat : from + k <= to => f[from + k] = f[from]}
<1>1. 0 \in T
  OBVIOUS
<1>2. ASSUME NEW k \in T PROVE k + 1 \in T
  <2> SUFFICES ASSUME from + (k + 1) <= to PROVE f[from + (k + 1)] = f[from]
    OBVIOUS
  <2>1. k \in Nat /\ from + (k + 1) \in (from + 1)..to /\ from + (k + 1) - 1 = from + k
    OBVIOUS
  <2>2. f[from + k] = f[from]
    BY <2>1
  <2> QED
    BY <2>1, <2>2
<1>3. T = Nat
  <2> HIDE DEF T
  <2>1. T \in SUBSET Nat
    BY DEF T
  <2> QED
    BY <1>1, <1>2, <2>1, SetInduction
<1>4. to - from \in T /\ from + (to - from) = to
  BY <1>3, SMTT(40)
<1> QED
  BY <1>4

-----------------------------------------------------------------------------
(* What the invariant says.                                                *)

\* Only what was signed against the membership as it is takes effect.
LEMMA VerdictOk ==
    ASSUME NEW st, NEW w, Verdict(st, w) = "ok"
    PROVE  w.view = st.changed_at
BY DEF Verdict

LEMMA FoldedType ==
    ASSUME NEW st \in Membership, NEW w, w.ev \in Event, NEW index \in Nat,
           w.ev.kind \in {"add", "support"} => w.ev.member \in Node
    PROVE  Folded(st, w, index) \in Membership
<1>1. w.ev.core \in [Voter -> Addr]
  BY DEF Event
<1> QED
  BY <1>1 DEF Folded, Membership

LEMMA LogStep ==
    ASSUME LogOK, NEW i \in 1..Len(log)
    PROVE  /\ truth[i] = Folded(truth[i - 1], log[i], i)
           /\ log[i].ok => Verdict(truth[i - 1], log[i]) = "ok"
           /\ ~ log[i].ok => truth[i] = truth[i - 1]
<1>1. truth[i] = Folded(truth[i - 1], log[i], i)
  BY Zenon DEF LogOK
<1>2. log[i].ok <=> Verdict(truth[i - 1], log[i]) = "ok"
  BY Zenon DEF LogOK
<1> QED
  BY <1>1, <1>2, Zenon DEF Folded

\* Two entries that took effect: the later one was signed after the earlier.
LEMMA SignedAfter ==
    ASSUME LogOK, FoldedOK, NEW i \in 1..Len(log), NEW j \in 1..Len(log), i < j,
           log[i].ok, log[j].ok
    PROVE  i <= log[j].view
<1>1. Len(log) \in Nat /\ i \in 0..Len(log) /\ j - 1 \in 0..Len(log) /\ i \in 0..(j - 1)
  BY DEF LogOK
<1>2. Verdict(truth[i - 1], log[i]) = "ok" /\ Verdict(truth[j - 1], log[j]) = "ok"
  BY LogStep, Zenon
<1>3. truth[i].changed_at = i
  <2>1. truth[i] = Folded(truth[i - 1], log[i], i)
    BY LogStep, Zenon
  <2> QED
    BY <1>2, <2>1 DEF Folded
<1>4. log[j].view = truth[j - 1].changed_at
  BY <1>2, VerdictOk
<1> QED
  BY <1>1, <1>3, <1>4 DEF FoldedOK

LEMMA ProposingIInvSuffices == ProposingIInv => ProposingInv
<1> SUFFICES ASSUME ProposingIInv PROVE ProposingInv
  OBVIOUS
<1> USE DEF ProposingIInv
<1>1. TypeOK
  <2>1. \A w \in writes : w.call \in Call
    BY DEF WritesOK, Signed
  <2> QED
    BY <2>1, Zenon DEF TypeOK, LogOK, Entry, NodesOK, CallsOK
<1>2. OnePerMembership
  BY SignedAfter DEF OnePerMembership
<1>3. ToldIsApplied
  <2> SUFFICES ASSUME NEW c \in Call, At(c, "applied")
               PROVE  /\ call[c].index \in 1..upto[NodeOf(c)]
                      /\ log[call[c].index].call = c /\ log[call[c].index].ok
    BY DEF ToldIsApplied
  <2>1. CallOK(c, call[c]) /\ call[c].pc = "applied"
    BY DEF CallsOK, At
  <2>2. upto[NodeOf(c)] \in Nat
    BY ProposingAssumption DEF NodesOK, NodeOf, LogOK
  <2>3. call[c].index \in 1..Len(log) /\ log[call[c].index].call = c /\ log[call[c].index].ok
        /\ call[c].index <= upto[NodeOf(c)]
    BY <2>1, Zenon DEF CallOK
  <2> QED
    BY <2>2, <2>3 DEF LogOK
<1>4. SupportSaidOnce
  <2> SUFFICES ASSUME NEW i \in 1..Len(log), NEW j \in 1..Len(log), i < j, log[i].ok, log[j].ok,
                      log[i].ev.kind = "support", log[j].ev = log[i].ev
               PROVE  i \in (log[j].read + 1)..log[j].first
    BY DEF SupportSaidOnce
  <2>1. i <= log[j].view
    BY SignedAfter
  <2>2. SignedOK(log[j]) /\ log[j] \in Entry /\ Len(log) \in Nat
    BY DEF WritesOK, LogOK
  <2>3. log[j].first = log[j].view
    BY <2>2 DEF SignedOK, SignedOnce, sent_again_when_stale
  <2>4. ~ i <= log[j].read
    <3> SUFFICES ASSUME i <= log[j].read PROVE FALSE
      OBVIOUS
    <3>1. log[j].read \in 0..Len(log) /\ i \in 0..log[j].read /\ i - 1 \in 0..Len(log)
      BY <2>2 DEF SignedOK, Built, Entry
    <3>2. log[i].ev.member \in truth[i].supports
      <4>1. truth[i] = Folded(truth[i - 1], log[i], i) /\ Verdict(truth[i - 1], log[i]) = "ok"
        BY LogStep, Zenon
      <4> QED
        BY <4>1 DEF Folded
    <3>3. truth[i].supports \subseteq truth[log[j].read].supports
      BY <3>1, Zenon DEF FoldedOK
    <3> QED
      BY <2>2, <3>2, <3>3 DEF SignedOK, Built
  <2> QED
    BY <2>1, <2>2, <2>3, <2>4 DEF Entry
<1> QED
  BY <1>1, <1>2, <1>3, <1>4 DEF ProposingInv

\* A map that takes effect is the one at `read` but for one entry, and was
\* signed against the one it replaces.
LEMMA MapsAreRight == ProposingIInv => MapsUndoNothingDecidedSince
<1> SUFFICES ASSUME ProposingIInv, NEW i \in 1..Len(log), log[i].ok, log[i].ev.kind = "core",
                    NEW v \in Voter, v # Asks[log[i].call].member,
                    truth[i].core[v] # truth[i - 1].core[v]
             PROVE  \E j \in (log[i].read + 1)..log[i].first : truth[j].core[v] # truth[j - 1].core[v]
  BY DEF MapsUndoNothingDecidedSince
<1> USE DEF ProposingIInv
<1>1. SignedOK(log[i]) /\ log[i] \in Entry /\ Len(log) \in Nat /\ i - 1 \in 0..Len(log)
  BY DEF WritesOK, LogOK
<1>2. truth[i] = Folded(truth[i - 1], log[i], i) /\ Verdict(truth[i - 1], log[i]) = "ok"
  BY LogStep, Zenon
<1>3. truth[i].core = log[i].ev.core
  BY <1>2 DEF Folded
<1>4. log[i].view = truth[i - 1].changed_at /\ log[i].first = log[i].view
  <2>1. log[i].view = truth[i - 1].changed_at
    BY <1>2, VerdictOk
  <2> QED
    BY <1>1, <2>1 DEF SignedOK, SignedOnce, sent_again_when_stale
<1>5. truth[log[i].first] = truth[i - 1]
  BY <1>1, <1>4 DEF FoldedOK
<1>6. log[i].ev.core[v] = truth[log[i].read].core[v]
  BY <1>1 DEF SignedOK, Built
<1>7. log[i].read \in Nat /\ log[i].first \in Nat /\ log[i].read <= log[i].first
  BY <1>1, <1>4 DEF SignedOK, Entry
<1>8. PICK from \in Nat, to \in Nat : from = log[i].read /\ to = log[i].first
  BY <1>7
<1>9. PICK f : f = [j \in Nat |-> truth[j].core[v]]
  OBVIOUS
<1>10. f[from] # f[to] /\ from <= to
  BY <1>3, <1>5, <1>6, <1>7, <1>8, <1>9
<1>11. PICK j \in (from + 1)..to : f[j] # f[j - 1]
  BY <1>10, DiffersBetween
<1>12. j \in Nat /\ j - 1 \in Nat
  OBVIOUS
<1> QED
  BY <1>8, <1>9, <1>11, <1>12

-----------------------------------------------------------------------------
(* The start.                                                              *)

LEMMA NoEventType == NoEvent \in Event
BY ProposingAssumption DEF NoEvent, Event

LEMMA NotMadeType ==
    ASSUME NEW where \in {"start"} \cup Ended
    PROVE  [NotMade EXCEPT !.pc = where] \in CallState /\ NotMade \in CallState
<1>1. FALSE \in BOOLEAN /\ 0 \in 0..(PROPOSE_ATTEMPTS - 1) /\ {} \in SUBSET Voter
  BY ProposingAssumption
<1>2. NotMade \in CallState
  BY <1>1, NoEventType DEF NotMade, CallState
<1> HIDE DEF NotMade
<1> QED
  BY <1>2 DEF CallState

LEMMA InitProposing == Init => ProposingIInv
<1> SUFFICES ASSUME Init PROVE ProposingIInv
  OBVIOUS
<1>1. log = << >> /\ Len(log) = 0 /\ 0..Len(log) = {0} /\ 1..Len(log) = {}
  BY DEF Init
<1>2. truth \in [{0} -> Membership] /\ truth[0].changed_at = 0
  BY ProposingAssumption DEF Init, Membership
<1>3. LogOK
  BY <1>1, <1>2 DEF LogOK
<1>4. FoldedOK
  BY <1>1, <1>2 DEF FoldedOK
<1>5. NodesOK
  BY <1>1, ProposingAssumption DEF Init, NodesOK
<1>6. WritesOK
  BY <1>1 DEF Init, WritesOK
<1>7. CallsOK
  <2>1. PICK made \in Scenarios :
           call = [c \in Call |-> IF c \in made THEN NotMade ELSE [NotMade EXCEPT !.pc = "never"]]
    BY DEF Init
  <2>2. ASSUME NEW c \in Call
        PROVE  /\ call[c] \in CallState /\ call[c].pc \in {"start", "never"}
               /\ call[c].again = FALSE
    <3>1. call[c] = NotMade \/ call[c] = [NotMade EXCEPT !.pc = "never"]
      BY <2>1
    <3>2. /\ NotMade.pc = "start" /\ NotMade.again = FALSE
          /\ [NotMade EXCEPT !.pc = "never"].pc = "never"
          /\ [NotMade EXCEPT !.pc = "never"].again = FALSE
      BY DEF NotMade
    <3>3. "never" \in {"start"} \cup Ended
      BY DEF Ended
    <3> QED
      BY <3>1, <3>2, <3>3, NotMadeType
  <2>3. ASSUME NEW c \in Call PROVE CallOK(c, call[c])
    <3>1. ~ call[c].again /\ call[c].pc \in {"start", "never"}
      BY <2>2
    <3> QED
      BY <3>1 DEF CallOK, InFlight
  <2>4. call \in [Call -> CallState]
    BY <2>1, <2>2
  <2> QED
    BY <2>3, <2>4 DEF CallsOK
<1> QED
  BY <1>3, <1>4, <1>5, <1>6, <1>7 DEF ProposingIInv

-----------------------------------------------------------------------------
(* A call moves.                                                           *)

\* Only one call, and perhaps the writes, are different after a call's step.
LEMMA CallMoves ==
    ASSUME ProposingIInv, NEW c \in Call, NEW r \in CallState, CallOK(c, r), Put(c, r),
           \/ writes' = writes
           \/ call[c].pc = "sending" /\ writes' = writes \cup {Written(c)},
           UNCHANGED <<log, truth, leader, former, terms, upto>>, faults' \in 0..MaxFaults
    PROVE  ProposingIInv'
<1> USE DEF ProposingIInv
<1>1. LogOK' /\ FoldedOK' /\ NodesOK'
  BY DEF LogOK, FoldedOK, NodesOK
<1>2. \A ev, first, view : SignedOnce(ev, first, view)' <=> SignedOnce(ev, first, view)
  BY Zenon DEF SignedOnce, sent_again_when_stale
<1>3. \A d, ev, read : Built(d, ev, read)' <=> Built(d, ev, read)
  BY Zenon DEF Built
<1>4. WritesOK'
  <2>1. \A w : SignedOK(w)' <=> SignedOK(w)
    BY Zenon DEF SignedOK, SignedOnce, sent_again_when_stale, Built
  <2>2. CASE writes' = writes
    BY <2>1, <2>2 DEF WritesOK
  <2>3. CASE call[c].pc = "sending" /\ writes' = writes \cup {Written(c)}
    <3>1. call[c] \in CallState /\ CallOK(c, call[c])
      BY DEF CallsOK
    <3>2. Written(c) \in Signed
      BY <3>1 DEF Written, Signed, CallState
    <3>3. /\ Built(c, call[c].ev, call[c].read) /\ call[c].read <= call[c].view
          /\ SignedOnce(call[c].ev, call[c].first, call[c].view)
      BY <2>3, <3>1 DEF CallOK, InFlight
    <3>4. /\ Written(c).call = c /\ Written(c).ev = call[c].ev /\ Written(c).read = call[c].read
          /\ Written(c).view = call[c].view /\ Written(c).first = call[c].first
      BY DEF Written
    <3>5. SignedOK(Written(c))
      BY <3>3, <3>4, Zenon DEF SignedOK
    <3>6. PICK w : w = Written(c)
      OBVIOUS
    <3>7. SignedOK(w)' /\ w \in Signed
      BY <2>1, <3>2, <3>5, <3>6
    <3> QED
      BY <2>1, <2>3, <3>6, <3>7 DEF WritesOK
  <2> QED
    BY <2>2, <2>3
<1>5. CallsOK'
  <2>1. \A d, q : CallOK(d, q)' <=> CallOK(d, q)
    <3> SUFFICES ASSUME NEW d, NEW q PROVE CallOK(d, q)' <=> CallOK(d, q)
      OBVIOUS
    <3>1. Built(d, q.ev, q.read)' <=> Built(d, q.ev, q.read)
      BY <1>3, Zenon
    <3>2. SignedOnce(q.ev, q.first, q.view)' <=> SignedOnce(q.ev, q.first, q.view)
      BY <1>2, Zenon
    <3>3. membership(NodeOf(d))' = membership(NodeOf(d)) /\ upto[NodeOf(d)]' = upto[NodeOf(d)]
      BY DEF membership, NodeOf
    <3>4. sent_again_when_stale(q.ev)' <=> sent_again_when_stale(q.ev)
      BY DEF sent_again_when_stale
    <3> QED
      BY <3>1, <3>2, <3>3, <3>4 DEF CallOK, Ended, InFlight
  <2>2. call' \in [Call -> CallState] /\ call'[c] = r /\ \A d \in Call : d # c => call'[d] = call[d]
    BY DEF Put, CallsOK
  <2>3. ASSUME NEW d \in Call, NEW q \in CallState, q = call'[d] PROVE CallOK(d, q)'
    <3>1. CallOK(d, q)
      BY <2>2, <2>3, Zenon DEF CallsOK
    <3> QED
      BY <2>1, <3>1, Zenon
  <2> QED
    BY <2>2, <2>3 DEF CallsOK
<1> QED
  BY <1>1, <1>4, <1>5

\* What a call reads.
LEMMA CallReads ==
    ASSUME ProposingIInv, NEW c \in Call
    PROVE  /\ call[c] \in CallState /\ CallOK(c, call[c])
           /\ NodeOf(c) \in Node /\ upto[NodeOf(c)] \in 0..Len(log) /\ Len(log) \in Nat
           /\ membership(NodeOf(c)) \in Membership
           /\ membership(NodeOf(c)).changed_at \in Nat
           /\ membership(NodeOf(c)).changed_at <= upto[NodeOf(c)]
           /\ membership(NodeOf(c)).changed_at <= Len(log)
           /\ truth[membership(NodeOf(c)).changed_at] = membership(NodeOf(c))
<1>1. call[c] \in CallState /\ CallOK(c, call[c])
  BY DEF ProposingIInv, CallsOK
<1>2. NodeOf(c) \in Node /\ upto[NodeOf(c)] \in 0..Len(log) /\ Len(log) \in Nat
  BY ProposingAssumption DEF NodeOf, ProposingIInv, NodesOK, LogOK
<1>3. membership(NodeOf(c)) \in Membership
  BY <1>2 DEF membership, ProposingIInv, LogOK
<1>4. /\ truth[upto[NodeOf(c)]].changed_at <= upto[NodeOf(c)]
      /\ truth[truth[upto[NodeOf(c)]].changed_at] = truth[upto[NodeOf(c)]]
  BY <1>2, Zenon DEF ProposingIInv, FoldedOK
<1>5. membership(NodeOf(c)).changed_at \in Nat
  BY <1>3 DEF Membership
<1> QED
  BY <1>1, <1>2, <1>3, <1>4, <1>5 DEF membership

\* A call that starts: the event it builds is right for what it read.
LEMMA BuildStep ==
    ASSUME ProposingIInv, NEW c \in Call, NEW ev \in Event, NEW r,
           Built(c, ev, membership(NodeOf(c)).changed_at), call[c].pc = "start",
           r = [call[c] EXCEPT !.pc = "signing", !.read = membership(NodeOf(c)).changed_at, !.ev = ev],
           Put(c, r), UNCHANGED <<raftVars, upto, faults>>
    PROVE  ProposingIInv'
<1>1. call[c] \in CallState /\ CallOK(c, call[c]) /\ membership(NodeOf(c)).changed_at \in Nat
  BY CallReads
<1>2. ~ call[c].again
  BY <1>1 DEF CallOK
<1>3. /\ r \in CallState /\ r.pc = "signing" /\ r.ev = ev /\ r.again = call[c].again
      /\ r.read = membership(NodeOf(c)).changed_at
  BY <1>1 DEF CallState
<1>4. CallOK(c, r)
  BY <1>1, <1>2, <1>3 DEF CallOK, InFlight, Ended
<1>5. UNCHANGED <<log, truth, leader, former, terms, upto, writes>> /\ faults' \in 0..MaxFaults
  BY DEF raftVars, ProposingIInv, NodesOK
<1> QED
  BY <1>3, <1>4, <1>5, CallMoves

LEMMA EventType ==
    ASSUME NEW kind \in {"core", "add", "support"}, NEW core \in [Voter -> Addr], NEW member \in Node
    PROVE  /\ [NoEvent EXCEPT !.kind = kind, !.core = core] \in Event
           /\ [NoEvent EXCEPT !.kind = kind, !.member = member] \in Event
           /\ [NoEvent EXCEPT !.kind = kind, !.core = core].kind = kind
           /\ [NoEvent EXCEPT !.kind = kind, !.core = core].core = core
           /\ [NoEvent EXCEPT !.kind = kind, !.member = member].kind = kind
           /\ [NoEvent EXCEPT !.kind = kind, !.member = member].member = member
<1>1. NoEvent \in Event
  BY NoEventType
<1> QED
  BY <1>1 DEF Event

LEMMA ProposeCoreStep ==
    ASSUME ProposingIInv, NEW c \in Call, ProposeCore(c)
    PROVE  ProposingIInv'
<1>1. /\ call[c] \in CallState /\ CallOK(c, call[c])
      /\ membership(NodeOf(c)) \in Membership
      /\ membership(NodeOf(c)).changed_at <= Len(log)
      /\ truth[membership(NodeOf(c)).changed_at] = membership(NodeOf(c))
  BY CallReads
<1>2. PICK held : held = membership(NodeOf(c))
  OBVIOUS
<1>3. held.core \in [Voter -> Addr] /\ Asks[c].addr \in Addr
  BY <1>1, <1>2, ProposingAssumption DEF Membership
<1>4. PICK map \in [Voter -> Addr] : map = [held.core EXCEPT ![Asks[c].member] = Asks[c].addr]
  BY <1>3
<1>5. /\ call[c].pc = "start" /\ UNCHANGED <<raftVars, upto, faults>>
      /\ Put(c, IF map = held.core THEN [call[c] EXCEPT !.pc = "invalid"]
                ELSE [call[c] EXCEPT !.pc = "signing", !.read = held.changed_at,
                                     !.ev = [NoEvent EXCEPT !.kind = "core", !.core = map]])
  BY <1>2, <1>4, Zenon DEF ProposeCore, At
<1>6. CASE map = held.core
  <2>1. PICK r : r = [call[c] EXCEPT !.pc = "invalid"]
    OBVIOUS
  <2>2. r \in CallState /\ r.pc = "invalid" /\ r.again = call[c].again
    BY <1>1, <2>1 DEF CallState, Ended
  <2>3. CallOK(c, r)
    BY <1>1, <1>5, <2>2 DEF CallOK, Ended, InFlight
  <2>4. Put(c, r)
    BY <1>5, <1>6, <2>1
  <2>5. UNCHANGED <<log, truth, leader, former, terms, upto, writes>> /\ faults' \in 0..MaxFaults
    BY <1>5 DEF raftVars, ProposingIInv, NodesOK
  <2> QED
    BY <2>2, <2>3, <2>4, <2>5, CallMoves
<1>7. CASE map # held.core
  <2>1. PICK ev : ev = [NoEvent EXCEPT !.kind = "core", !.core = map]
    OBVIOUS
  <2>2. ev \in Event /\ ev.kind = "core" /\ ev.core = map
    BY <2>1, EventType, NoEventType DEF Event
  <2>3. \A v \in Voter \ {Asks[c].member} : ev.core[v] = held.core[v]
    BY <1>3, <1>4, <2>2
  <2>4. Built(c, ev, held.changed_at)
    BY <1>1, <1>2, <2>2, <2>3 DEF Built
  <2>5. PICK r : r = [call[c] EXCEPT !.pc = "signing", !.read = held.changed_at, !.ev = ev]
    OBVIOUS
  <2>6. Put(c, r)
    BY <1>5, <1>7, <2>1, <2>5
  <2> QED
    BY <1>2, <1>5, <2>2, <2>4, <2>5, <2>6, BuildStep
<1> QED
  BY <1>6, <1>7

LEMMA ProposeAddStep ==
    ASSUME ProposingIInv, NEW c \in Call, ProposeAdd(c)
    PROVE  ProposingIInv'
<1>1. membership(NodeOf(c)).changed_at <= Len(log)
  BY CallReads
<1>2. PICK ev : ev = [NoEvent EXCEPT !.kind = "add", !.member = Asks[c].member]
  OBVIOUS
<1>3. ev \in Event /\ ev.kind = "add" /\ ev.member \in Node
  BY <1>2, NoEventType, ProposingAssumption DEF Event
<1>4. Built(c, ev, membership(NodeOf(c)).changed_at)
  BY <1>1, <1>3 DEF Built
<1>5. /\ call[c].pc = "start" /\ UNCHANGED <<raftVars, upto, faults>>
      /\ Put(c, [call[c] EXCEPT !.pc = "signing", !.read = membership(NodeOf(c)).changed_at, !.ev = ev])
  BY <1>2, Zenon DEF ProposeAdd, At
<1> QED
  BY <1>3, <1>4, <1>5, BuildStep

\* A node that looked at its record, and found it says less.
LEMMA AnnounceSupportStep ==
    ASSUME ProposingIInv, NEW c \in Call, AnnounceSupport(c)
    PROVE  ProposingIInv'
<1>1. /\ call[c] \in CallState /\ CallOK(c, call[c])
      /\ membership(NodeOf(c)).changed_at <= Len(log) /\ NodeOf(c) \in Node
      /\ truth[membership(NodeOf(c)).changed_at] = membership(NodeOf(c))
  BY CallReads
<1>2. PICK ev : ev = [NoEvent EXCEPT !.kind = "support", !.member = NodeOf(c)]
  OBVIOUS
<1>3. ev \in Event /\ ev.kind = "support" /\ ev.member = NodeOf(c)
  BY <1>1, <1>2, NoEventType DEF Event
<1>4. NodeOf(c) \notin membership(NodeOf(c)).supports
  BY DEF AnnounceSupport
<1>5. Built(c, ev, membership(NodeOf(c)).changed_at)
  BY <1>1, <1>3, <1>4 DEF Built
<1>6. /\ call[c].pc = "start" /\ UNCHANGED <<raftVars, upto, faults>>
      /\ Put(c, [call[c] EXCEPT !.pc = "signing", !.read = membership(NodeOf(c)).changed_at,
                                !.again = FALSE, !.ev = ev])
  BY <1>2, Zenon DEF AnnounceSupport, At
<1>7. call[c].again = FALSE
  <2>1. call[c].again \in BOOLEAN
    BY <1>1 DEF CallState
  <2> QED
    BY <1>1, <1>6, <2>1 DEF CallOK
<1>8. [call[c] EXCEPT !.pc = "signing", !.read = membership(NodeOf(c)).changed_at, !.again = FALSE, !.ev = ev]
      = [call[c] EXCEPT !.pc = "signing", !.read = membership(NodeOf(c)).changed_at, !.ev = ev]
  BY <1>1, <1>7 DEF CallState
<1> QED
  BY <1>3, <1>5, <1>6, <1>8, BuildStep

\* A call ends: of what it knew it keeps the index it was told.
LEMMA EndsStep ==
    ASSUME ProposingIInv, NEW c \in Call, NEW where \in Ended, To(c, where),
           where = "applied" => call[c].pc = "settling" /\ call[c].index <= upto[NodeOf(c)],
           UNCHANGED <<raftVars, upto>>, faults' \in 0..MaxFaults
    PROVE  ProposingIInv'
<1>1. call[c] \in CallState /\ CallOK(c, call[c])
  BY CallReads
<1>2. PICK r : r = [NotMade EXCEPT !.pc = where, !.index = call[c].index, !.copy = call[c].copy,
                                   !.view = IF where = "refused" THEN call[c].view ELSE 0]
  OBVIOUS
<1>3. Put(c, r)
  BY <1>2, Zenon DEF To, Moved
<1>4. NotMade \in CallState /\ NotMade.again = FALSE
  <2>1. NotMade \in CallState
    BY NotMadeType, Zenon
  <2> QED
    BY <2>1 DEF NotMade
<1>5. r \in CallState /\ r.pc = where /\ r.index = call[c].index /\ r.again = FALSE
  BY <1>1, <1>2, <1>4 DEF CallState
<1>6. CallOK(c, r)
  BY <1>1, <1>5 DEF CallOK, InFlight, Ended
<1>7. UNCHANGED <<log, truth, leader, former, terms, upto, writes>>
  BY DEF raftVars
<1> QED
  BY <1>3, <1>5, <1>6, <1>7, CallMoves

\* A call goes on, knowing what it knew.
LEMMA GoesOnStep ==
    ASSUME ProposingIInv, NEW c \in Call, NEW where \in {"start", "signing", "sending"}, To(c, where),
           where = "start" => call[c].pc \in Ended,
           where = "signing" => call[c].pc = "behind",
           where = "sending" => call[c].pc = "waiting",
           UNCHANGED <<raftVars, upto>>, faults' \in 0..MaxFaults
    PROVE  ProposingIInv'
<1>1. call[c] \in CallState /\ CallOK(c, call[c])
  BY CallReads
<1>2. PICK r : r = [call[c] EXCEPT !.pc = where]
  OBVIOUS
<1>3. Put(c, r)
  BY <1>2 DEF To, Moved, Ended
<1>4. /\ r \in CallState /\ r.pc = where /\ r.again = call[c].again /\ r.ev = call[c].ev
      /\ r.read = call[c].read /\ r.first = call[c].first /\ r.view = call[c].view
  BY <1>1, <1>2 DEF CallState
<1>5. CallOK(c, r)
  BY <1>1, <1>4 DEF CallOK, InFlight, Ended
<1>6. UNCHANGED <<log, truth, leader, former, terms, upto, writes>>
  BY DEF raftVars
<1> QED
  BY <1>3, <1>4, <1>5, <1>6, CallMoves

\* One more try, or the end.
LEMMA TriedStep ==
    ASSUME ProposingIInv, NEW c \in Call, call[c].pc \in {"sending", "waiting"}, Tried(c),
           UNCHANGED <<raftVars, upto>>, faults' \in 0..MaxFaults
    PROVE  ProposingIInv'
<1>1. CASE call[c].tries + 1 < PROPOSE_ATTEMPTS
  <2>1. call[c] \in CallState /\ CallOK(c, call[c])
    BY CallReads
  <2>2. PICK r : r = [call[c] EXCEPT !.tries = @ + 1, !.pc = "sending"]
    OBVIOUS
  <2>3. Put(c, r)
    BY <1>1, <2>2 DEF Tried
  <2>4. call[c].tries + 1 \in 0..(PROPOSE_ATTEMPTS - 1)
    BY <1>1, <2>1, ProposingAssumption DEF CallState
  <2>5. /\ r \in CallState /\ r.pc = "sending" /\ r.again = call[c].again /\ r.ev = call[c].ev
        /\ r.read = call[c].read /\ r.first = call[c].first /\ r.view = call[c].view
    BY <2>1, <2>2, <2>4 DEF CallState
  <2>6. CallOK(c, r)
    BY <2>1, <2>5 DEF CallOK, InFlight, Ended
  <2>7. UNCHANGED <<log, truth, leader, former, terms, upto, writes>>
    BY DEF raftVars
  <2> QED
    BY <2>3, <2>5, <2>6, <2>7, CallMoves
<1>2. CASE ~ call[c].tries + 1 < PROPOSE_ATTEMPTS
  <2>1. To(c, "failed") /\ "failed" \in Ended
    BY <1>2 DEF Tried, Ended
  <2> QED
    BY <2>1, EndsStep
<1> QED
  BY <1>1, <1>2

LEMMA FaultsType ==
    ASSUME ProposingIInv, UNCHANGED faults \/ (faults < MaxFaults /\ faults' = faults + 1)
    PROVE  faults' \in 0..MaxFaults
BY ProposingAssumption DEF ProposingIInv, NodesOK

LEMMA LookAgainStep ==
    ASSUME ProposingIInv, NEW c \in Call, LookAgain(c)
    PROVE  ProposingIInv'
<1>1. /\ To(c, "start") /\ UNCHANGED <<raftVars, upto>> /\ faults' \in 0..MaxFaults
      /\ call[c].pc \in Ended
  BY FaultsType DEF LookAgain, At, Ended
<1> QED
  BY <1>1, GoesOnStep

\* The signature is made against the membership of the moment.
LEMMA ProposeOnceStep ==
    ASSUME ProposingIInv, NEW c \in Call, ProposeOnce(c)
    PROVE  ProposingIInv'
<1>1. /\ call[c] \in CallState /\ CallOK(c, call[c]) /\ call[c].pc = "signing"
      /\ membership(NodeOf(c)).changed_at \in Nat
  BY CallReads DEF ProposeOnce, At
<1>2. PICK at \in Nat : at = membership(NodeOf(c)).changed_at
  BY <1>1
<1>3. PICK r : r = [call[c] EXCEPT !.pc = "sending", !.tries = 0, !.view = at,
                                   !.first = IF call[c].again THEN @ ELSE at,
                                   !.todo = IF IsCore(NodeOf(c)) THEN {} ELSE Voter]
  OBVIOUS
<1>4. Put(c, r)
  BY <1>2, <1>3, Zenon DEF ProposeOnce
<1>5. 0 \in 0..(PROPOSE_ATTEMPTS - 1)
  BY ProposingAssumption
<1>6. /\ r \in CallState /\ r.pc = "sending" /\ r.again = call[c].again /\ r.ev = call[c].ev
      /\ r.read = call[c].read /\ r.view = at /\ (~ call[c].again => r.first = at)
  BY <1>1, <1>3, <1>5 DEF CallState
<1>7. CallOK(c, r)
  BY <1>1, <1>2, <1>6 DEF CallOK, InFlight, Ended, SignedOnce
<1>8. UNCHANGED <<log, truth, leader, former, terms, upto, writes>> /\ faults' \in 0..MaxFaults
  BY DEF ProposeOnce, raftVars, ProposingIInv, NodesOK
<1> QED
  BY <1>4, <1>6, <1>7, <1>8, CallMoves

\* The leader takes the write: this call's to wait for.
LEMMA WriteStep ==
    ASSUME ProposingIInv, NEW c \in Call, call[c].pc = "sending", NEW own \in BOOLEAN,
           NEW todo \in SUBSET Voter,
           Put(c, [call[c] EXCEPT !.pc = "waiting", !.own = own, !.copy = @ + 1, !.todo = todo]),
           writes' = writes \cup {Written(c)},
           UNCHANGED <<log, truth, leader, former, terms, upto, faults>>
    PROVE  ProposingIInv'
<1>1. call[c] \in CallState /\ CallOK(c, call[c])
  BY CallReads
<1>2. PICK r : r = [call[c] EXCEPT !.pc = "waiting", !.own = own, !.copy = @ + 1, !.todo = todo]
  OBVIOUS
<1>3. /\ r \in CallState /\ r.pc = "waiting" /\ r.again = call[c].again /\ r.ev = call[c].ev
      /\ r.read = call[c].read /\ r.first = call[c].first /\ r.view = call[c].view
  <2>1. call[c].copy + 1 \in Nat /\ own \in BOOLEAN
    BY <1>1 DEF CallState
  <2> QED
    BY <1>1, <1>2, <2>1 DEF CallState
<1>4. CallOK(c, r)
  BY <1>1, <1>3 DEF CallOK, InFlight, Ended
<1>5. Put(c, r) /\ faults' \in 0..MaxFaults
  BY <1>2, FaultsType
<1> QED
  BY <1>3, <1>4, <1>5, CallMoves

LEMMA WriteHere ==
    ASSUME ProposingIInv, NEW c \in Call, call[c].pc = "sending", Write(c),
           UNCHANGED <<log, truth, leader, former, terms, upto, faults>>
    PROVE  ProposingIInv'
<1>1. call[c] \in CallState /\ call[c].todo \in SUBSET Voter
  BY CallReads DEF CallState
<1>2. PICK own \in BOOLEAN : own = (NodeOf(c) = leader)
  BY Zenon
<1>3. [call[c] EXCEPT !.pc = "waiting", !.own = own, !.copy = @ + 1]
      = [call[c] EXCEPT !.pc = "waiting", !.own = own, !.copy = @ + 1, !.todo = call[c].todo]
  BY <1>1 DEF CallState
<1>4. /\ Put(c, [call[c] EXCEPT !.pc = "waiting", !.own = own, !.copy = @ + 1])
      /\ writes' = writes \cup {Written(c)}
  BY <1>2, Zenon DEF Write
<1> QED
  BY <1>1, <1>3, <1>4, WriteStep

\* A core node sends: to itself, to whom it takes for the leader, or to nobody.
LEMMA SendAsCoreStep ==
    ASSUME ProposingIInv, NEW c \in Call,
           CommitHere(c) \/ ForwardToLeader(c) \/ WaitForALeader(c) \/ NobodyLeads(c)
    PROVE  ProposingIInv'
<1>1. CASE CommitHere(c)
  BY <1>1, WriteHere DEF CommitHere, At
<1>2. CASE ForwardToLeader(c)
  <2>1. /\ call[c].pc = "sending" /\ (Write(c) \/ (writes' = writes /\ Tried(c)))
        /\ UNCHANGED <<log, truth, leader, former, terms, upto, faults>>
    BY <1>2 DEF ForwardToLeader, At
  <2>2. CASE Write(c)
    BY <2>1, <2>2, WriteHere
  <2>3. CASE writes' = writes /\ Tried(c)
    <3>1. UNCHANGED <<raftVars, upto>> /\ faults' \in 0..MaxFaults
      BY <2>1, <2>3, FaultsType DEF raftVars
    <3> QED
      BY <2>1, <2>3, <3>1, TriedStep
  <2> QED
    BY <2>1, <2>2, <2>3
<1>3. CASE WaitForALeader(c)
  BY <1>3, TriedStep, FaultsType DEF WaitForALeader, At
<1>4. CASE NobodyLeads(c)
  <2>1. To(c, "failed") /\ "failed" \in Ended
    BY <1>4 DEF NobodyLeads, Ended
  <2> QED
    BY <1>4, <2>1, EndsStep, FaultsType DEF NobodyLeads
<1> QED
  BY <1>1, <1>2, <1>3, <1>4

\* One core node fewer to ask.
LEMMA AskedStep ==
    ASSUME ProposingIInv, NEW c \in Call, NEW s, Put(c, [call[c] EXCEPT !.todo = @ \ {s}]),
           UNCHANGED <<raftVars, upto>>, faults' \in 0..MaxFaults
    PROVE  ProposingIInv'
<1>1. call[c] \in CallState /\ CallOK(c, call[c])
  BY CallReads
<1>2. PICK r : r = [call[c] EXCEPT !.todo = @ \ {s}]
  OBVIOUS
<1>3. /\ r \in CallState /\ r.pc = call[c].pc /\ r.again = call[c].again /\ r.ev = call[c].ev
      /\ r.read = call[c].read /\ r.first = call[c].first /\ r.view = call[c].view
      /\ r.index = call[c].index
  <2>1. call[c].todo \ {s} \in SUBSET Voter
    BY <1>1 DEF CallState
  <2> QED
    BY <1>1, <1>2, <2>1 DEF CallState
<1>4. CallOK(c, r)
  BY <1>1, <1>3, Zenon DEF CallOK
<1>5. UNCHANGED <<log, truth, leader, former, terms, upto, writes>> /\ Put(c, r)
  BY <1>2 DEF raftVars
<1> QED
  BY <1>3, <1>4, <1>5, CallMoves

\* A follower sends: to the next core node, until it has asked them all.
LEMMA SendAsFollowerStep ==
    ASSUME ProposingIInv, NEW c \in Call, (\E s \in Voter : AskCore(c, s)) \/ AskedThemAll(c)
    PROVE  ProposingIInv'
<1>1. ASSUME NEW s \in Voter, AskCore(c, s) PROVE ProposingIInv'
  <2>1. call[c] \in CallState
    BY CallReads
  <2>2. /\ call[c].pc = "sending"
        /\ UNCHANGED <<log, truth, leader, former, terms, upto, faults>>
        /\ \/ /\ writes' = writes \cup {Written(c)}
              /\ Put(c, [call[c] EXCEPT !.pc = "waiting", !.copy = @ + 1, !.todo = @ \ {s}])
           \/ writes' = writes /\ Put(c, [call[c] EXCEPT !.todo = @ \ {s}])
    BY <1>1, Zenon DEF AskCore, At
  <2>3. CASE /\ writes' = writes \cup {Written(c)}
             /\ Put(c, [call[c] EXCEPT !.pc = "waiting", !.copy = @ + 1, !.todo = @ \ {s}])
    <3>1. call[c].todo \ {s} \in SUBSET Voter /\ call[c].own \in BOOLEAN
      BY <2>1 DEF CallState
    <3>2. [call[c] EXCEPT !.pc = "waiting", !.copy = @ + 1, !.todo = @ \ {s}]
          = [call[c] EXCEPT !.pc = "waiting", !.own = call[c].own, !.copy = @ + 1, !.todo = call[c].todo \ {s}]
      BY <2>1 DEF CallState
    <3> QED
      BY <2>2, <2>3, <3>1, <3>2, WriteStep
  <2>4. CASE writes' = writes /\ Put(c, [call[c] EXCEPT !.todo = @ \ {s}])
    <3>1. UNCHANGED <<raftVars, upto>> /\ faults' \in 0..MaxFaults
      BY <2>2, <2>4, FaultsType DEF raftVars
    <3> QED
      BY <2>4, <3>1, AskedStep
  <2> QED
    BY <2>2, <2>3, <2>4
<1>2. CASE AskedThemAll(c)
  <2>1. To(c, "failed") /\ "failed" \in Ended
    BY <1>2 DEF AskedThemAll, Ended
  <2> QED
    BY <1>2, <2>1, EndsStep, FaultsType DEF AskedThemAll
<1> QED
  BY <1>1, <1>2

LEMMA UnreachableStep ==
    ASSUME ProposingIInv, NEW c \in Call, Unreachable(c)
    PROVE  ProposingIInv'
<1>1. UNCHANGED <<raftVars, upto>> /\ faults' \in 0..MaxFaults /\ call[c].pc = "sending"
  BY FaultsType DEF Unreachable, At
<1>2. CASE Tried(c)
  BY <1>1, <1>2, TriedStep
<1>3. ASSUME NEW s \in call[c].todo, Put(c, [call[c] EXCEPT !.todo = @ \ {s}]) PROVE ProposingIInv'
  BY <1>1, <1>3, AskedStep
<1> QED
  BY <1>2, <1>3 DEF Unreachable

\* The call stops waiting for its write, wherever that is.
LEMMA StopWaitingStep ==
    ASSUME ProposingIInv, NEW c \in Call, AnswerLost(c) \/ WriteLost(c)
    PROVE  ProposingIInv'
<1>1. /\ UNCHANGED <<raftVars, upto>> /\ faults' \in 0..MaxFaults /\ call[c].pc = "waiting"
      /\ StopWaiting(c)
  BY FaultsType DEF AnswerLost, WriteLost, At
<1>2. CASE Tried(c)
  BY <1>1, <1>2, TriedStep
<1>3. CASE To(c, "sending")
  BY <1>1, <1>3, GoesOnStep
<1> QED
  BY <1>1, <1>2, <1>3 DEF StopWaiting

\* The verdict arrives.
LEMMA AnsweredStep ==
    ASSUME ProposingIInv, NEW c \in Call, Answered(c)
    PROVE  ProposingIInv'
<1>1. /\ call[c] \in CallState /\ CallOK(c, call[c]) /\ call[c].pc = "waiting" /\ Len(log) \in Nat
  BY CallReads DEF Answered, At
<1>2. /\ UNCHANGED <<raftVars, upto, faults>> /\ faults' \in 0..MaxFaults
      /\ UNCHANGED <<log, truth, leader, former, terms, upto, writes>>
  BY FaultsType DEF Answered, raftVars
<1>3. PICK i \in Landed(c) :
         \/ log[i].ok /\ Put(c, [call[c] EXCEPT !.pc = "settling", !.index = i])
         \/ /\ sent_again_when_stale(call[c].ev)
            /\ Put(c, [call[c] EXCEPT !.pc = "behind", !.again = TRUE, !.index = truth[i - 1].changed_at])
         \/ To(c, "refused")
  BY Zenon DEF Answered
<1>4. i \in 1..Len(log) /\ log[i].call = c
  BY <1>3 DEF Landed
<1>5. CASE log[i].ok /\ Put(c, [call[c] EXCEPT !.pc = "settling", !.index = i])
  <2>1. PICK r : r = [call[c] EXCEPT !.pc = "settling", !.index = i]
    OBVIOUS
  <2>2. /\ r \in CallState /\ r.pc = "settling" /\ r.again = call[c].again /\ r.ev = call[c].ev
        /\ r.read = call[c].read /\ r.index = i
    <3>1. i \in Nat
      BY <1>1, <1>4
    <3> QED
      BY <1>1, <2>1, <3>1 DEF CallState
  <2>3. CallOK(c, r)
    BY <1>1, <1>4, <1>5, <2>2 DEF CallOK, InFlight, Ended
  <2> QED
    BY <1>2, <1>5, <2>1, <2>2, <2>3, CallMoves
<1>6. CASE /\ sent_again_when_stale(call[c].ev)
           /\ Put(c, [call[c] EXCEPT !.pc = "behind", !.again = TRUE, !.index = truth[i - 1].changed_at])
  <2>1. PICK r : r = [call[c] EXCEPT !.pc = "behind", !.again = TRUE, !.index = truth[i - 1].changed_at]
    OBVIOUS
  <2>2. truth[i - 1].changed_at \in Nat /\ TRUE \in BOOLEAN
    <3>1. i - 1 \in 0..Len(log)
      BY <1>1, <1>4
    <3> QED
      BY <3>1 DEF ProposingIInv, LogOK, Membership
  <2>3. /\ r \in CallState /\ r.pc = "behind" /\ r.ev = call[c].ev /\ r.read = call[c].read
    BY <1>1, <2>1, <2>2 DEF CallState
  <2>4. CallOK(c, r)
    BY <1>1, <1>6, <2>3 DEF CallOK, InFlight, Ended
  <2> QED
    BY <1>2, <1>6, <2>1, <2>3, <2>4, CallMoves
<1>7. CASE To(c, "refused")
  <2>1. "refused" \in Ended
    BY DEF Ended
  <2> QED
    BY <1>2, <1>7, <2>1, EndsStep
<1> QED
  BY <1>3, <1>5, <1>6, <1>7

\* A call reports its index once its node has applied it, or gives up.
LEMMA CatchUpStep ==
    ASSUME ProposingIInv, NEW c \in Call, CatchUpTo(c) \/ CatchUpTimesOut(c)
    PROVE  ProposingIInv'
<1>1. /\ UNCHANGED <<raftVars, upto>> /\ faults' \in 0..MaxFaults
      /\ call[c].pc \in {"behind", "settling"}
  BY FaultsType DEF CatchUpTo, CatchUpTimesOut
<1>2. {"applied", "failed", "unapplied"} \subseteq Ended
  BY DEF Ended
<1>3. CASE CatchUpTo(c)
  <2>1. CASE call[c].pc = "behind"
    <3>1. To(c, "signing")
      BY <1>3, <2>1, Zenon DEF CatchUpTo, At
    <3> QED
      BY <1>1, <2>1, <3>1, GoesOnStep
  <2>2. CASE call[c].pc = "settling"
    <3>1. To(c, "applied")
      BY <1>3, <2>2 DEF CatchUpTo, At
    <3>2. call[c].index <= upto[NodeOf(c)]
      <4>1. /\ membership(NodeOf(c)).changed_at \in Nat /\ upto[NodeOf(c)] \in Nat
            /\ membership(NodeOf(c)).changed_at <= upto[NodeOf(c)] /\ call[c].index \in Nat
        BY CallReads DEF CallState
      <4>2. membership(NodeOf(c)).changed_at >= call[c].index
        BY <1>3 DEF CatchUpTo
      <4> QED
        BY <4>1, <4>2
    <3> QED
      BY <1>1, <1>2, <2>2, <3>1, <3>2, EndsStep
  <2> QED
    BY <1>1, <2>1, <2>2
<1>4. CASE CatchUpTimesOut(c)
  <2>1. PICK where \in {"failed", "unapplied"} : To(c, where)
    BY <1>4 DEF CatchUpTimesOut
  <2> QED
    BY <1>1, <1>2, <2>1, EndsStep
<1> QED
  BY <1>3, <1>4

-----------------------------------------------------------------------------
(* Raft.                                                                   *)

\* What a write becomes.
EntryOf(w, st) ==
    [call |-> w.call, copy |-> w.copy, view |-> w.view,
     read |-> w.read, first |-> w.first, ev |-> w.ev, ok |-> Verdict(st, w) = "ok"]

LEMMA EntryOfWrite ==
    ASSUME NEW w \in Signed, NEW st \in Membership, NEW index
    PROVE  /\ EntryOf(w, st) \in Entry
           /\ EntryOf(w, st).ok <=> Verdict(st, EntryOf(w, st)) = "ok"
           /\ Folded(st, EntryOf(w, st), index) = Folded(st, w, index)
           /\ SignedOK(w) => SignedOK(EntryOf(w, st))
<1>1. (Verdict(st, w) = "ok") \in BOOLEAN
  BY Zenon
<1>2. PICK ok \in BOOLEAN : ok = (Verdict(st, w) = "ok")
  BY <1>1, Zenon
<1>3. PICK e : e = [call |-> w.call, copy |-> w.copy, view |-> w.view,
                    read |-> w.read, first |-> w.first, ev |-> w.ev, ok |-> ok]
  OBVIOUS
<1>4. EntryOf(w, st) = e
  BY <1>2, <1>3, Zenon DEF EntryOf
<1>5. /\ e \in Entry /\ e.view = w.view /\ e.ev = w.ev /\ e.ok = ok
      /\ e.call = w.call /\ e.read = w.read /\ e.first = w.first
  BY <1>3 DEF Entry, Signed
<1>6. Verdict(st, e) = Verdict(st, w)
  BY <1>5, Zenon DEF Verdict
<1>7. Folded(st, e, index) = Folded(st, w, index)
  BY <1>5, <1>6, Zenon DEF Folded
<1>8. SignedOK(w) => SignedOK(e)
  BY <1>5, Zenon DEF SignedOK
<1> QED
  BY <1>2, <1>4, <1>5, <1>6, <1>7, <1>8, Zenon

\* The log grows by the entry of one write.
LEMMA CommitStep ==
    ASSUME ProposingIInv, RaftCommits
    PROVE  ProposingIInv'
<1> USE DEF ProposingIInv
<1>1. PICK w \in writes :
         /\ writes' = writes \ {w}
         /\ log' = Append(log, EntryOf(w, truth[Len(log)]))
         /\ truth' = [i \in 0..(Len(log) + 1) |->
                         IF i = Len(log) + 1 THEN Folded(truth[Len(log)], w, Len(log) + 1) ELSE truth[i]]
         /\ UNCHANGED <<leader, former, terms, upto, call, faults>>
  BY Zenon DEF RaftCommits, EntryOf
<1>2. /\ log \in Seq(Entry) /\ Len(log) \in Nat /\ truth \in [0..Len(log) -> Membership]
      /\ w \in Signed /\ SignedOK(w) /\ truth[Len(log)] \in Membership
  BY <1>1 DEF LogOK, WritesOK
<1>3. PICK n \in Nat, st \in Membership, e \in {EntryOf(w, truth[Len(log)])} :
         n = Len(log) /\ st = truth[n] /\ e = EntryOf(w, st)
  BY <1>2
<1>4. /\ e \in Entry /\ (e.ok <=> Verdict(st, e) = "ok")
      /\ Folded(st, e, n + 1) = Folded(st, w, n + 1) /\ SignedOK(e)
  BY <1>2, <1>3, EntryOfWrite, Zenon
<1>5. PICK now : now = Folded(st, e, n + 1)
  OBVIOUS
<1>6. now \in Membership
  <2>1. w.ev \in Event /\ (w.ev.kind \in {"add", "support"} => w.ev.member \in Node)
    BY <1>2 DEF Signed, SignedOK, Built
  <2> QED
    BY <1>2, <1>4, <1>5, <2>1, FoldedType
<1>7. /\ log' \in Seq(Entry) /\ Len(log') = n + 1 /\ log'[n + 1] = e
      /\ \A i \in 1..n : log'[i] = log[i]
  BY <1>1, <1>2, <1>3, <1>4
<1>8. truth' = [i \in 0..(n + 1) |-> IF i = n + 1 THEN now ELSE truth[i]]
  BY <1>1, <1>3, <1>4, <1>5, Zenon
<1>9. /\ truth' \in [0..(n + 1) -> Membership] /\ truth'[n + 1] = now
      /\ \A i \in 0..n : truth'[i] = truth[i]
  BY <1>2, <1>3, <1>6, <1>8
<1>10. LogOK'
  <2>1. ASSUME NEW i \in 1..(n + 1)
        PROVE  /\ log'[i].ok <=> Verdict(truth'[i - 1], log'[i]) = "ok"
               /\ truth'[i] = Folded(truth'[i - 1], log'[i], i)
    <3>1. CASE i = n + 1
      <4>1. i - 1 = n /\ truth'[i - 1] = st
        BY <1>3, <1>9, <3>1
      <4> QED
        BY <1>4, <1>5, <1>7, <1>9, <3>1, <4>1, Zenon
    <3>2. CASE i # n + 1
      <4>1. i \in 1..n /\ i - 1 \in 0..n /\ i \in 0..n
        BY <3>2
      <4>2. truth'[i - 1] = truth[i - 1] /\ truth'[i] = truth[i] /\ log'[i] = log[i]
        BY <1>7, <1>9, <4>1
      <4>3. /\ log[i].ok <=> Verdict(truth[i - 1], log[i]) = "ok"
            /\ truth[i] = Folded(truth[i - 1], log[i], i)
        BY <1>3, <4>1, Zenon DEF LogOK
      <4> QED
        BY <4>2, <4>3, Zenon
    <3> QED
      BY <3>1, <3>2
  <2> QED
    BY <1>7, <1>9, <2>1 DEF LogOK, Verdict, Folded
<1>11. FoldedOK'
  <2>1. /\ \A i \in 0..n : truth[i].changed_at <= i /\ truth[truth[i].changed_at] = truth[i]
        /\ \A j \in 0..n : \A i \in 0..j :
              truth[i].changed_at <= truth[j].changed_at /\ truth[i].supports \subseteq truth[j].supports
        /\ \A i \in 0..n : truth[i].changed_at \in Nat
    BY <1>2, <1>3, Zenon DEF FoldedOK, Membership
  <2>2. \/ now = st
        \/ now.changed_at = n + 1 /\ st.supports \subseteq now.supports
    BY <1>5 DEF Folded
  <2>3. st.changed_at \in Nat /\ st.changed_at <= n /\ truth[st.changed_at] = st
    BY <1>3, <2>1
  <2>4. \A i \in 0..(n + 1) : truth'[i].changed_at <= i /\ truth'[truth'[i].changed_at] = truth'[i]
    BY <1>9, <2>1, <2>2, <2>3
  <2>5. ASSUME NEW i \in 0..n
        PROVE  truth[i].changed_at <= now.changed_at /\ truth[i].supports \subseteq now.supports
    <3>1. truth[i].changed_at <= st.changed_at /\ truth[i].supports \subseteq st.supports
      BY <1>3, <2>1
    <3> QED
      BY <2>1, <2>2, <2>3, <3>1
  <2>6. now.changed_at \in Nat
    BY <1>6 DEF Membership
  <2>7. ASSUME NEW j \in 0..(n + 1), NEW i \in 0..j
        PROVE  /\ truth'[i].changed_at <= truth'[j].changed_at
               /\ truth'[i].supports \subseteq truth'[j].supports
    <3>1. CASE j = n + 1 /\ i = n + 1
      BY <1>9, <2>6, <3>1
    <3>2. CASE j = n + 1 /\ i # n + 1
      BY <1>9, <2>5, <3>2
    <3>3. CASE j # n + 1
      <4>1. j \in 0..n /\ i \in 0..n
        BY <3>3
      <4> QED
        BY <1>9, <2>1, <4>1
    <3> QED
      BY <3>1, <3>2, <3>3
  <2> QED
    BY <1>7, <2>4, <2>7 DEF FoldedOK
<1>12. NodesOK'
  <2>1. 0..n \subseteq 0..(n + 1)
    OBVIOUS
  <2> QED
    BY <1>1, <1>3, <1>7, <2>1 DEF NodesOK
<1>13. \A c, ev : \A read \in Nat : Built(c, ev, read) => Built(c, ev, read)'
  <2> SUFFICES ASSUME NEW c, NEW ev, NEW read \in Nat, Built(c, ev, read) PROVE Built(c, ev, read)'
    OBVIOUS
  <2>1. read \in 0..n /\ truth'[read] = truth[read] /\ read <= Len(log')
    BY <1>3, <1>7, <1>9 DEF Built
  <2> QED
    BY <2>1, Zenon DEF Built
<1>14. \A ev, first, view : SignedOnce(ev, first, view)' <=> SignedOnce(ev, first, view)
  BY Zenon DEF SignedOnce, sent_again_when_stale
<1>15. WritesOK'
  <2>1. ASSUME NEW x, x.read \in Nat, SignedOK(x) PROVE SignedOK(x)'
    BY <1>13, <1>14, <2>1, Zenon DEF SignedOK
  <2>2. \A x \in Signed : x.read \in Nat
    BY DEF Signed
  <2>3. \A x \in Entry : x.read \in Nat
    BY DEF Entry
  <2>4. ASSUME NEW i \in 1..(n + 1), NEW x \in Entry, x = log'[i] PROVE SignedOK(x)'
    <3>1. CASE i = n + 1
      BY <1>4, <1>7, <2>1, <2>3, <2>4, <3>1
    <3>2. CASE i # n + 1
      <4>1. i \in 1..n /\ x = log[i]
        BY <1>7, <2>4, <3>2
      <4>2. SignedOK(x)
        BY <1>3, <4>1, Zenon DEF WritesOK
      <4> QED
        BY <2>1, <2>3, <4>2
    <3> QED
      BY <3>1, <3>2
  <2>5. writes' \subseteq Signed /\ \A x \in writes' : SignedOK(x)'
    BY <1>1, <2>1, <2>2 DEF WritesOK
  <2> QED
    BY <1>7, <2>4, <2>5 DEF WritesOK
<1>16. CallsOK'
  <2> SUFFICES ASSUME NEW c \in Call, NEW r \in CallState, r = call[c] PROVE CallOK(c, r)'
    BY <1>1 DEF CallsOK
  <2>1. /\ CallOK(c, r) /\ NodeOf(c) \in Node /\ upto[NodeOf(c)] \in 0..n
    BY <1>3, CallReads
  <2>2. membership(NodeOf(c))' = membership(NodeOf(c)) /\ upto[NodeOf(c)]' = upto[NodeOf(c)]
    BY <1>1, <1>9, <2>1 DEF membership, NodeOf
  <2>3. r.read \in Nat
    BY DEF CallState
  <2>4. Built(c, r.ev, r.read) => Built(c, r.ev, r.read)'
    BY <1>13, <2>3
  <2>5. SignedOnce(r.ev, r.first, r.view)' <=> SignedOnce(r.ev, r.first, r.view)
    BY <1>14
  <2>6. sent_again_when_stale(r.ev)' <=> sent_again_when_stale(r.ev)
    BY DEF sent_again_when_stale
  <2>7. r.index \in 1..Len(log) => r.index \in 1..Len(log') /\ log'[r.index] = log[r.index]
    BY <1>3, <1>7
  <2> QED
    BY <2>1, <2>2, <2>4, <2>5, <2>6, <2>7 DEF CallOK, Ended, InFlight
<1> QED
  BY <1>10, <1>11, <1>12, <1>15, <1>16

\* Writes are lost, and leaders come and go.
LEMMA LeaderStep ==
    ASSUME ProposingIInv, UNCHANGED <<log, truth, upto, call>>, writes' \subseteq writes,
           leader' \in Voter \cup {None}, former' \in Voter \cup {None},
           faults' \in 0..MaxFaults, terms' \in 0..MaxTerms
    PROVE  ProposingIInv'
<1> USE DEF ProposingIInv
<1>1. LogOK' /\ FoldedOK' /\ NodesOK'
  BY DEF LogOK, FoldedOK, NodesOK
<1>2. \A ev, first, view : SignedOnce(ev, first, view)' <=> SignedOnce(ev, first, view)
  BY Zenon DEF SignedOnce, sent_again_when_stale
<1>3. \A d, ev, read : Built(d, ev, read)' <=> Built(d, ev, read)
  BY Zenon DEF Built
<1>4. WritesOK'
  <2>1. \A w : SignedOK(w)' <=> SignedOK(w)
    BY <1>2, <1>3, Zenon DEF SignedOK
  <2> QED
    BY <2>1, Zenon DEF WritesOK
<1>5. CallsOK'
  <2> SUFFICES ASSUME NEW c \in Call, NEW r \in CallState, r = call[c] PROVE CallOK(c, r)'
    BY DEF CallsOK
  <2>1. CallOK(c, r)
    BY CallReads
  <2>2. membership(NodeOf(c))' = membership(NodeOf(c)) /\ upto[NodeOf(c)]' = upto[NodeOf(c)]
    BY DEF membership, NodeOf
  <2>3. Built(c, r.ev, r.read)' <=> Built(c, r.ev, r.read)
    BY <1>3
  <2>4. SignedOnce(r.ev, r.first, r.view)' <=> SignedOnce(r.ev, r.first, r.view)
    BY <1>2
  <2>5. sent_again_when_stale(r.ev)' <=> sent_again_when_stale(r.ev)
    BY DEF sent_again_when_stale
  <2> QED
    BY <2>1, <2>2, <2>3, <2>4, <2>5 DEF CallOK, Ended, InFlight
<1> QED
  BY <1>1, <1>4, <1>5

\* A node applies one more entry: its membership is only ever later.
LEMMA AppliesStep ==
    ASSUME ProposingIInv, NEW n \in Node, Applies(n)
    PROVE  ProposingIInv'
<1> USE DEF ProposingIInv
<1>1. /\ UNCHANGED <<log, truth, leader, former, terms, writes, call, faults>>
      /\ upto' = [upto EXCEPT ![n] = @ + 1] /\ upto[n] < Len(log)
  BY DEF Applies, raftVars
<1>2. Len(log) \in Nat /\ upto \in [Node -> 0..Len(log)]
  BY DEF LogOK, NodesOK
<1>3. /\ upto' \in [Node -> 0..Len(log)]
      /\ \A m \in Node : upto[m] <= upto'[m]
  BY <1>1, <1>2
<1>4. LogOK' /\ FoldedOK' /\ NodesOK'
  BY <1>1, <1>3 DEF LogOK, FoldedOK, NodesOK
<1>5. \A ev, first, view : SignedOnce(ev, first, view)' <=> SignedOnce(ev, first, view)
  BY Zenon DEF SignedOnce, sent_again_when_stale
<1>6. \A d, ev, read : Built(d, ev, read)' <=> Built(d, ev, read)
  BY <1>1, Zenon DEF Built
<1>7. WritesOK'
  <2>1. \A w : SignedOK(w)' <=> SignedOK(w)
    BY <1>5, <1>6, Zenon DEF SignedOK
  <2> QED
    BY <1>1, <2>1, Zenon DEF WritesOK
<1>8. CallsOK'
  <2> SUFFICES ASSUME NEW c \in Call, NEW r \in CallState, r = call[c] PROVE CallOK(c, r)'
    BY <1>1 DEF CallsOK
  <2>1. CallOK(c, r) /\ NodeOf(c) \in Node
    BY CallReads
  <2>2. PICK m \in Node : m = NodeOf(c)
    BY <2>1
  <2>3. upto[NodeOf(c)]' = upto'[m] /\ upto[m] \in 0..upto'[m] /\ upto'[m] \in 0..Len(log)
    BY <1>2, <1>3, <2>2 DEF NodeOf
  <2>4. membership(NodeOf(c)).changed_at <= membership(NodeOf(c))'.changed_at
    BY <1>1, <2>2, <2>3 DEF FoldedOK, membership
  <2>5. r.read <= membership(NodeOf(c)).changed_at => r.read <= membership(NodeOf(c))'.changed_at
    <3>1. membership(NodeOf(c)).changed_at \in Nat /\ r.read \in Nat
      BY CallReads DEF CallState
    <3>2. truth[upto'[m]].changed_at \in Nat
      BY <2>3 DEF LogOK, Membership
    <3>3. membership(NodeOf(c))' = truth[upto'[m]]
      BY <1>1, <2>3 DEF membership
    <3> QED
      BY <2>4, <3>1, <3>2, <3>3
  <2>6. Built(c, r.ev, r.read)' <=> Built(c, r.ev, r.read)
    BY <1>6
  <2>7. SignedOnce(r.ev, r.first, r.view)' <=> SignedOnce(r.ev, r.first, r.view)
    BY <1>5
  <2>8. sent_again_when_stale(r.ev)' <=> sent_again_when_stale(r.ev)
    BY DEF sent_again_when_stale
  <2>9. r.index \in Nat /\ r.index <= upto[NodeOf(c)] => r.index <= upto[NodeOf(c)]'
    BY <1>2, <2>2, <2>3
  <2>10. r.index \in Nat
    BY DEF CallState
  <2> QED
    BY <1>1, <2>1, <2>5, <2>6, <2>7, <2>8, <2>9, <2>10 DEF CallOK, Ended, InFlight
<1> QED
  BY <1>4, <1>7, <1>8

LEMMA NextProposing == ProposingIInv /\ [Next]_vars => ProposingIInv'
<1> SUFFICES ASSUME ProposingIInv, [Next]_vars PROVE ProposingIInv'
  OBVIOUS
<1>1. ASSUME NEW c \in Call, Step(c) PROVE ProposingIInv'
  BY <1>1, ProposeCoreStep, ProposeAddStep, AnnounceSupportStep, LookAgainStep, ProposeOnceStep,
     SendAsCoreStep, SendAsFollowerStep, AnsweredStep, StopWaitingStep, CatchUpStep DEF Step
<1>2. ASSUME NEW c \in Call, Fault(c) PROVE ProposingIInv'
  BY <1>2, UnreachableStep, StopWaitingStep, CatchUpStep DEF Fault
<1>3. CASE RaftCommits
  BY <1>3, CommitStep
<1>4. ASSUME NEW n \in Node, Applies(n) PROVE ProposingIInv'
  BY <1>4, AppliesStep
<1>5. CASE Elected \/ LeaderIsKnown \/ LeaderFalls \/ RaftLoses \/ UNCHANGED vars
  <2>1. UNCHANGED <<log, truth, upto, call>> /\ writes' \subseteq writes
    BY <1>5 DEF Elected, LeaderIsKnown, LeaderFalls, RaftLoses, vars, raftVars
  <2>2. leader' \in Voter \cup {None} /\ former' \in Voter \cup {None}
    BY <1>5 DEF Elected, LeaderIsKnown, LeaderFalls, RaftLoses, vars, raftVars, ProposingIInv, NodesOK
  <2>3. faults' \in 0..MaxFaults
    BY <1>5, FaultsType DEF Elected, LeaderIsKnown, LeaderFalls, RaftLoses, vars, raftVars
  <2>4. terms' \in 0..MaxTerms
    BY <1>5, ProposingAssumption DEF Elected, LeaderIsKnown, LeaderFalls, RaftLoses, vars, raftVars,
       ProposingIInv, NodesOK
  <2> QED
    BY <2>1, <2>2, <2>3, <2>4, LeaderStep
<1> QED
  BY <1>1, <1>2, <1>3, <1>4, <1>5 DEF Next, Raft

-----------------------------------------------------------------------------
\* Of all that was signed against one membership one entry takes effect; a
\* caller told its index reads its own change from then on; and protocol
\* support is said once: whatever is lost, delayed, repeated or re-elected on
\* the way (propose, commit_as_core, commit_as_follower, apply).
THEOREM ProposalsAreKept == Spec => []ProposingInv
<1>1. Init => ProposingIInv
  BY InitProposing
<1>2. ProposingIInv /\ [Next]_vars => ProposingIInv'
  BY NextProposing
<1>3. ProposingIInv => ProposingInv
  BY ProposingIInvSuffices
<1> QED
  BY <1>1, <1>2, <1>3, PTL DEF Spec

\* A core map undoes only what its own proposer applied between building it
\* and signing it (propose_core, sent_again_when_stale).
THEOREM MapsUndoOnlyTheSeen == Spec => []MapsUndoNothingDecidedSince
<1>1. Init => ProposingIInv
  BY InitProposing
<1>2. ProposingIInv /\ [Next]_vars => ProposingIInv'
  BY NextProposing
<1>3. ProposingIInv => MapsUndoNothingDecidedSince
  BY MapsAreRight
<1> QED
  BY <1>1, <1>2, <1>3, PTL DEF Spec

=============================================================================
