----------------------------- MODULE ProbesProofs -----------------------------
(***************************************************************************)
(* Theorems about one node's probes, for every group and pledges, whatever *)
(* others write in the document, any failures of writes and reads, any     *)
(* checks abandoned by their callers, and any number of restarts.          *)
(*                                                                         *)
(* Only this node writes as this node, one entry for each custodian, whose *)
(* content is here from the start (DocOK): what MyFailures reads are these *)
(* entries (Live), whatever arrives under the same keys. So the failures   *)
(* in memory, once they are read, change with the document and only with   *)
(* what this node writes there (CacheOK), in two steps (HalfOK).           *)
(***************************************************************************)
EXTENDS Probes, FiniteSetTheorems, TLAPS

Targets == [custodian : Other, item : Item, chunk : Chunk]

\* What may still arrive is of others, and no entry has two versions of one time.
LeftOK ==
    /\ DOMAIN left = {"fails", "checks", "arrives", "groups", "loses", "evicts", "bases", "offline", "restarts"}
    /\ left.bases \subseteq Other /\ left.offline \subseteq Other
    /\ left.arrives \subseteq FailureEntries
    /\ \A e \in left.arrives : e.author # me
    /\ \A e \in left.arrives, f \in doc \cup left.arrives :
            (e.key = f.key /\ e.author = f.author /\ e.at = f.at) => e = f

\* One entry for each key and author; this node's are of others, and here.
DocOK ==
    /\ IsFiniteSet(doc) /\ doc \subseteq FailureEntries /\ content \subseteq doc
    /\ \A e, f \in doc : (e.key = f.key /\ e.author = f.author) => e = f
    /\ \A e \in doc : e.author = me =>
            e.key.name = me /\ e.key.of \in Other /\ (~e.deleted => e \in content)

ProbingOK ==
    \/ probing = None
    \/ \E stage \in {"admitted", "choosing"}, only \in Other \cup {None} :
            probing = [stage |-> stage, only |-> only]
    \/ \E stage \in {"asked", "passed", "failed", "unreachable", "clearing", "written"},
          only \in Other \cup {None}, t \in Targets :
            probing = [stage |-> stage, only |-> only, target |-> t]

FollowsOK ==
    /\ DOMAIN follows = {"stage", "failures", "next_out"}
    /\ \A e \in follows.failures : e.key.of \in Member /\ e.value.item \in Item

AtMostOne(set) == set = {} \/ \E x \in set : set = {x}

\* This node's failures that it has not taken back.
Live == {e \in doc : e.author = me /\ ~e.deleted}

\* Unless a probe of it is or was recorded halfway, a custodian is remembered
\* with the failure the document has of it, or not at all.
CacheOK ==
    \A own \in mine :
        \A m \in Other \ (apart \cup HalfRecorded) :
            /\ m \in DOMAIN own <=> \E e \in Live : e.key.of = m
            /\ \A e \in Live : e.key.of = m => own[m] = e.value

\* What is about to be cleared is forgotten; what is about to be kept is written.
HalfOK ==
    \A own \in mine :
        probing # None =>
            /\ probing.stage = "clearing" => probing.target.custodian \notin DOMAIN own
            /\ probing.stage = "written" =>
                    /\ \E e \in Live : e.key.of = probing.target.custodian
                    /\ \A e \in Live : e.key.of = probing.target.custodian
                                        => e.value = NextFailure(own, probing.target)

ProbesIInv ==
    /\ TypeOK /\ AtMostOne(mine) /\ AtMostOne(counting)
    /\ \A read \in counting : read.judged \subseteq Other
    /\ LeftOK /\ DocOK /\ ProbingOK /\ FollowsOK /\ CacheOK /\ HalfOK

-----------------------------------------------------------------------------
(* Sets and entries.                                                       *)

LEMMA AtMostOneCounts == ASSUME NEW S, AtMostOne(S) PROVE Cardinality(S) <= 1
<1>1. CASE S = {}
  BY <1>1, FS_EmptySet
<1>2. CASE \E x \in S : S = {x}
  <2>1. PICK x \in S : S = {x}
    BY <1>2
  <2>2. Cardinality({x}) = 1
    BY FS_Singleton
  <2> QED
    BY <2>1, <2>2
<1> QED
  BY <1>1, <1>2 DEF AtMostOne

LEMMA TwoAreDistinct ==
    ASSUME NEW S, IsFiniteSet(S), Cardinality(S) >= 2
    PROVE  \E x, y \in S : x # y
<1> SUFFICES ASSUME \A x, y \in S : x = y PROVE FALSE
  OBVIOUS
<1>1. AtMostOne(S)
  BY DEF AtMostOne
<1>2. Cardinality(S) <= 1 /\ Cardinality(S) \in Nat
  BY <1>1, AtMostOneCounts, FS_CardinalityType
<1> QED
  BY <1>2

LEMMA TwoAtLeast ==
    ASSUME NEW S, IsFiniteSet(S), NEW x \in S, NEW y \in S, x # y
    PROVE  Cardinality(S) >= 2
<1>1. IsFiniteSet({x}) /\ Cardinality({x}) = 1
  BY FS_Singleton
<1>2. Cardinality({x} \cup {y}) = 2
  <2>1. y \notin {x}
    OBVIOUS
  <2>2. Cardinality({x} \cup {y}) = Cardinality({x}) + 1
    BY <1>1, <2>1, FS_AddElement, SMTT(30)
  <2> QED
    BY <1>1, <2>2
<1>3. Cardinality({x} \cup {y}) <= Cardinality(S)
  BY FS_Subset
<1> QED
  BY <1>2, <1>3, FS_CardinalityType

\* The lesser of two numbers.
LEMMA MinOfTwo ==
    ASSUME NEW a \in Nat, NEW b \in Nat
    PROVE  Min({a, b}) = IF a <= b THEN a ELSE b
<1> DEFINE least == IF a <= b THEN a ELSE b
<1>1. least \in {a, b} /\ \A y \in {a, b} : least <= y
  OBVIOUS
<1>2. \A x \in {a, b} : (\A y \in {a, b} : x <= y) => x = least
  OBVIOUS
<1>3. Min({a, b}) \in {a, b} /\ \A y \in {a, b} : Min({a, b}) <= y
  BY <1>1 DEF Min
<1> QED
  BY <1>2, <1>3

LEMMA OtherIs == \A m : m \in Other <=> m \in Member /\ m # me
  BY DEF Other

\* What the document counts as a failure.
LEMMA ProbeFailuresAre ==
    ASSUME DocOK
    PROVE  probe_failures = {e \in doc \cap content : ~e.deleted /\ e.author = e.key.name}
<1>1. \A e \in doc : e.key.kind = "probe" /\ e.key.of \in Member
  BY DEF DocOK, FailureEntries
<1> QED
  BY <1>1 DEF probe_failures, read_community_entries, all, member

LEMMA CountedAreWellFormed ==
    ASSUME DocOK
    PROVE  /\ probe_failures \subseteq doc
           /\ \A e \in probe_failures : e.key.of \in Member /\ e.value \in Failure
  BY ProbeFailuresAre DEF DocOK, FailureEntries

\* my_failures reads this node's own entries, whoever else writes under their keys.
LEMMA MyFailuresAre ==
    ASSUME DocOK
    PROVE  /\ DOMAIN MyFailures = {e.key.of : e \in Live}
           /\ \A e \in Live : MyFailures[e.key.of] = e.value
           /\ DOMAIN MyFailures \subseteq Other
           /\ \A m \in DOMAIN MyFailures : MyFailures[m] \in Failure
<1> DEFINE own == {e \in probe_failures : e.key.name = me}
<1>1. own = Live
  BY ProbeFailuresAre DEF Live, DocOK
<1>2. MyFailures = [m \in {e.key.of : e \in own} |-> (CHOOSE e \in own : e.key.of = m).value]
  BY DEF MyFailures
<1>3. ASSUME NEW e \in Live PROVE (CHOOSE f \in own : f.key.of = e.key.of) = e
  <2>1. \A f \in Live : f.key.of = e.key.of => f = e
    <3> SUFFICES ASSUME NEW f \in Live, f.key.of = e.key.of PROVE f = e
      OBVIOUS
    <3>1. e.key \in [kind : {"probe"}, of : Member, name : Member, id : {0}]
          /\ f.key \in [kind : {"probe"}, of : Member, name : Member, id : {0}]
      BY DEF DocOK, Live, FailureEntries
    <3>2. e.key.name = f.key.name
      BY DEF DocOK, Live
    <3>3. e.key = f.key
      BY <3>1, <3>2
    <3> QED
      BY <3>3 DEF DocOK, Live
  <2> QED
    BY <1>1, <2>1
<1> HIDE DEF own
<1>4. \A e \in Live : MyFailures[e.key.of] = e.value
  BY <1>1, <1>2, <1>3
<1>5. \A e \in Live : e.key.of \in Other /\ e.value \in Failure
  BY DEF DocOK, Live, FailureEntries
<1> QED
  BY <1>1, <1>2, <1>4, <1>5

-----------------------------------------------------------------------------
(* Initially.                                                              *)

LEMMA ProbesInit == Init => ProbesIInv
<1> SUFFICES ASSUME Init PROVE ProbesIInv
  OBVIOUS
<1>1. PICK s \in Scenarios :
        /\ ScenarioOK(s)
        /\ now = 0 /\ held = s.held
        /\ has = [m \in Other |-> s.claims[m] \X Chunk]
        /\ claims = s.claims /\ announced = s.claims
        /\ unknown = s.unknown /\ reachable = Other
        /\ doc = s.doc /\ content = s.doc
        /\ left = s.left
  BY ScenariosAssumption DEF Init
<1>2. /\ mine = {} /\ probing = None /\ apart = {}
      /\ follows = [stage |-> "reading", failures |-> {}, next_out |-> None]
      /\ changed = FALSE
      /\ failed_copies = {} /\ counting = {} /\ counted = {}
  BY DEF Init
<1>3. TypeOK
  <2>1. claims \in [Other -> SUBSET Item] /\ held \subseteq Item /\ unknown \subseteq Other
    BY <1>1 DEF ScenarioOK
  <2>2. has \in [Other -> SUBSET Everything]
    BY <1>1, <2>1 DEF Everything
  <2>3. Cardinality(mine) <= 1 /\ Cardinality(counting) <= 1
    BY <1>2, AtMostOneCounts DEF AtMostOne
  <2>4. now \in 0 .. MaxTime
    BY <1>1, ProbesAssumption
  <2>5. {claims, announced} \subseteq [Other -> SUBSET Item] /\ unknown \cup reachable \subseteq Other
    BY <1>1, <2>1
  <2> QED
    BY <1>1, <1>2, <2>1, <2>2, <2>3, <2>4, <2>5, Zenon DEF TypeOK
<1>4. LeftOK
  BY <1>1 DEF LeftOK, ScenarioOK
<1>5. DocOK
  <2>1. ASSUME NEW e \in doc, NEW f \in doc, e.key = f.key, e.author = f.author PROVE e = f
    <3>1. e.at <= f.at /\ f.at <= e.at
      BY <1>1, <2>1 DEF ScenarioOK, Merged
    <3>2. e.at = f.at
      BY <1>1, <3>1 DEF ScenarioOK, FailureEntries
    <3> QED
      BY <1>1, <2>1, <3>2 DEF ScenarioOK
  <2>2. ASSUME NEW e \in doc, e.author = me PROVE e.key.name = me /\ e.key.of \in Other
    BY <1>1, <2>2 DEF ScenarioOK, FailureEntries, Other
  <2> QED
    BY <1>1, <2>1, <2>2 DEF DocOK, ScenarioOK
<1> QED
  BY <1>2, <1>3, <1>4, <1>5 DEF ProbesIInv, AtMostOne, ProbingOK, FollowsOK, CacheOK, HalfOK

-----------------------------------------------------------------------------
(* What is written in the document.                                        *)

\* An entry of this node's replaces the one it had under that key.
LEMMA PutKeeps ==
    ASSUME DocOK, LeftOK, now \in Nat, NEW m \in Other, NEW entry \in FailureEntries,
           entry.key = FailureKey(m, me), entry.author = me,
           Put(entry), left'.arrives = left.arrives, DOMAIN left' = DOMAIN left,
           left'.bases = left.bases, left'.offline = left.offline
    PROVE  /\ DocOK' /\ LeftOK'
           /\ Live' = {e \in Live : e.key.of # m} \cup {e \in {entry} : ~e.deleted}
<1>1. /\ doc' = {e \in doc : e.key # entry.key \/ e.author # me} \cup {entry}
      /\ content' = {e \in content : e.key # entry.key \/ e.author # me} \cup {e \in {entry} : ~entry.deleted}
  BY DEF Put
<1>2. entry.key.name = me /\ entry.key.of = m
  BY DEF FailureKey, CommunityKey, Key
<1>3. \A e \in doc : e.author = me => (e.key # entry.key <=> e.key.of # m)
  <2> SUFFICES ASSUME NEW e \in doc, e.author = me PROVE e.key # entry.key <=> e.key.of # m
    OBVIOUS
  <2>1. e.key \in [kind : {"probe"}, of : Member, name : Member, id : {0}] /\ e.key.name = me
    BY DEF DocOK, FailureEntries
  <2>2. entry.key \in [kind : {"probe"}, of : Member, name : Member, id : {0}]
    BY DEF FailureEntries
  <2> QED
    BY <1>2, <2>1, <2>2
<1>4. IsFiniteSet(doc')
  <2>1. IsFiniteSet({e \in doc : e.key # entry.key \/ e.author # me})
    BY FS_Subset DEF DocOK
  <2> QED
    BY <1>1, <2>1, FS_AddElement
<1>5. DocOK'
  BY <1>1, <1>2, <1>4 DEF DocOK
<1>6. LeftOK'
  BY <1>1 DEF LeftOK
<1>7. Live' = {e \in Live : e.key.of # m} \cup {e \in {entry} : ~e.deleted}
  BY <1>1, <1>3 DEF Live
<1> QED
  BY <1>5, <1>6, <1>7

\* What others write takes the place of nothing of this node's.
LEMMA ArrivesKeeps ==
    ASSUME ProbesIInv, Arrives
    PROVE  DocOK' /\ LeftOK' /\ Live' = Live
<1>1. PICK e \in left.arrives :
        /\ doc' = Merged(doc \cup {e})
        /\ left' = [left EXCEPT !.arrives = @ \ {e}]
        /\ content' = content \cap doc'
  BY DEF Arrives
<1> USE DEF ProbesIInv
<1>2. e \in FailureEntries /\ e.author # me /\ doc \subseteq FailureEntries
  BY DEF LeftOK, DocOK
<1>3. doc' \subseteq doc \cup {e}
  BY <1>1 DEF Merged
<1>4. \A f \in doc : f.author = me => f \in doc'
  <2> SUFFICES ASSUME NEW f \in doc, f.author = me PROVE f \in doc'
    OBVIOUS
  <2>1. \A g \in doc \cup {e} : (g.key = f.key /\ g.author = f.author) => g.at <= f.at
    BY <1>2 DEF DocOK, FailureEntries
  <2> QED
    BY <1>1, <2>1 DEF Merged
<1>5. ASSUME NEW f \in doc', NEW g \in doc', f.key = g.key, f.author = g.author PROVE f = g
  <2>1. f.at <= g.at /\ g.at <= f.at
    BY <1>1, <1>5 DEF Merged
  <2>2. f.at = g.at
    BY <1>2, <1>3, <2>1 DEF FailureEntries
  <2> QED
    BY <1>3, <1>5, <2>2 DEF DocOK, LeftOK
<1>6. IsFiniteSet(doc')
  <2>1. IsFiniteSet(doc \cup {e})
    BY FS_AddElement DEF DocOK
  <2> QED
    BY <1>3, <2>1, FS_Subset
<1>7. DocOK'
  <2>1. doc' \subseteq FailureEntries /\ content' \subseteq doc'
    BY <1>1, <1>2, <1>3
  <2>2. \A f \in doc' : f.author = me =>
            f.key.name = me /\ f.key.of \in Other /\ (~f.deleted => f \in content')
    BY <1>1, <1>2, <1>3 DEF DocOK
  <2> QED
    BY <1>5, <1>6, <2>1, <2>2 DEF DocOK
<1>8. LeftOK'
  <2>1. left'.arrives \subseteq left.arrives /\ left'.bases = left.bases /\ left'.offline = left.offline
        /\ DOMAIN left' = DOMAIN left
    BY <1>1 DEF LeftOK
  <2>2. doc' \cup left'.arrives \subseteq doc \cup left.arrives
    BY <1>3, <2>1
  <2> QED
    BY <2>1, <2>2 DEF LeftOK
<1>9. Live' = Live
  BY <1>2, <1>3, <1>4 DEF Live
<1> QED
  BY <1>7, <1>8, <1>9

-----------------------------------------------------------------------------
(* One lemma per group of actions.                                         *)

\* What no action of a task of this node touches but the probe's own.
LEMMA SameDocument ==
    ASSUME ProbesIInv, UNCHANGED <<doc, content>>, DOMAIN left' = DOMAIN left,
           left'.arrives \subseteq left.arrives, left'.bases \subseteq left.bases,
           left'.offline \subseteq left.offline
    PROVE  DocOK' /\ LeftOK' /\ Live' = Live
BY DEF ProbesIInv, DocOK, LeftOK, Live

LEMMA FailsKeeps ==
    ASSUME ProbesIInv, NEW step, Fails(step)
    PROVE  /\ DOMAIN left' = DOMAIN left /\ left'.arrives = left.arrives
           /\ left'.bases = left.bases /\ left'.offline = left.offline
BY DEF ProbesIInv, LeftOK, Fails

\* What leaves memory and the recording alone.
LEMMA SameCache ==
    ASSUME ProbesIInv, UNCHANGED <<mine, apart, probing>>, Live' = Live
    PROVE  CacheOK' /\ HalfOK'
<1>1. HalfRecorded' = HalfRecorded
  BY DEF HalfRecorded
<1>2. \A own : NextFailure(own, probing.target)' = NextFailure(own, probing.target)
  BY DEF NextFailure, ProbeFailure
<1> QED
  BY <1>1, <1>2 DEF ProbesIInv, CacheOK, HalfOK

\* A probe not yet recorded.
LEMMA NotRecorded ==
    ASSUME ProbesIInv, UNCHANGED <<mine, apart>>, Live' = Live,
           probing # None => probing.stage \notin {"clearing", "written"},
           probing' # None => probing'.stage \notin {"clearing", "written"}
    PROVE  CacheOK' /\ HalfOK'
<1>1. HalfRecorded = {} /\ HalfRecorded' = {}
  BY DEF HalfRecorded
<1> QED
  BY <1>1 DEF ProbesIInv, CacheOK, HalfOK

\* Whom a probe may be of.
LEMMA TargetsAre ==
    ASSUME ProbesIInv
    PROVE  /\ \A only : random_target(only) \subseteq Targets
           /\ \A m : latest_evidence(m) \subseteq Targets
           /\ \A own \in mine : suspect_target(own) \subseteq Targets
<1>1. held \subseteq Item
  BY DEF ProbesIInv, TypeOK
<1>2. \A item : holders(item) \subseteq Other
  BY DEF holders
<1>3. \A only : random_target(only) \subseteq Targets
  BY <1>1, <1>2 DEF random_target, TargetsOf, may_pick, may_probe, Target, Targets
<1>4. ASSUME NEW m, NEW failure \in Failure, Announces(Recorded(m, failure))
      PROVE  Recorded(m, failure) \in Targets
  BY <1>2, <1>4 DEF Announces, Recorded, Target, Targets, Failure
<1>5. \A e \in probe_failures : e.value \in Failure
  BY CountedAreWellFormed DEF ProbesIInv
<1>6. \A m : latest_evidence(m) \subseteq Targets
  BY <1>4, <1>5 DEF latest_evidence
<1>7. ASSUME NEW own \in mine PROVE suspect_target(own) \subseteq Targets
  <2>1. \A m \in DOMAIN own : own[m] \in Failure
    BY DEF ProbesIInv, TypeOK
  <2>2. {t \in {Recorded(m, own[m]) : m \in DOMAIN own} : Announces(t)} \subseteq Targets
    BY <1>4, <2>1
  <2>3. {t \in others_failures : Announces(t)} \subseteq Targets
    BY <1>4, <1>5 DEF others_failures
  <2>4. UNION {random_target(m) : m \in low} \subseteq Targets
    BY <1>3
  <2> QED
    BY <2>2, <2>3, <2>4 DEF suspect_target
<1> QED
  BY <1>3, <1>6, <1>7

\* Starting a probe and choosing whom it is of.
LEMMA ChoosingKeeps ==
    ASSUME ProbesIInv,
           \/ ProbeStarts \/ ChoosesChecked \/ ChoosesNobody
           \/ \E m \in Other : CheckStarts(m) \/ ChoosesSuspect(m) \/ ChoosesRandom(m)
    PROVE  ProbesIInv'
<1>1. UNCHANGED <<now, logVars, heldVars, docVars, mine, apart, followVars, countVars>>
  BY DEF ProbeStarts, CheckStarts, ChoosesSuspect, ChoosesRandom, ChoosesChecked, ChoosesNobody, Asks
<1>2. /\ DOMAIN left' = DOMAIN left /\ left'.arrives = left.arrives
      /\ left'.bases = left.bases /\ left'.offline = left.offline
  BY DEF ProbeStarts, CheckStarts, ChoosesSuspect, ChoosesRandom, ChoosesChecked, ChoosesNobody, Asks,
         ProbesIInv, LeftOK
<1>3. TypeOK' /\ FollowsOK'
  BY <1>1 DEF ProbesIInv, TypeOK, FollowsOK, heldVars, docVars, followVars, countVars
<1>4. DocOK' /\ LeftOK' /\ Live' = Live
  BY <1>1, <1>2, SameDocument DEF docVars
<1>5. CacheOK' /\ HalfOK'
  <2>1. /\ probing # None => probing.stage \notin {"clearing", "written"}
        /\ probing' # None => probing'.stage \notin {"clearing", "written"}
    BY DEF ProbeStarts, CheckStarts, ChoosesSuspect, ChoosesRandom, ChoosesChecked, ChoosesNobody, Choosing, Asks
  <2> QED
    BY <1>1, <1>4, <2>1, NotRecorded
<1>6. ProbingOK'
  <2>1. ASSUME NEW t \in Targets, Choosing, Asks(t) PROVE ProbingOK'
    <3>1. probing.only \in Other \cup {None}
      BY <2>1 DEF Choosing, ProbesIInv, ProbingOK
    <3> QED
      BY <2>1, <3>1 DEF Asks, ProbingOK
  <2>2. CASE ProbeStarts
    BY <2>2 DEF ProbeStarts, ProbingOK
  <2>3. CASE \E m \in Other : CheckStarts(m)
    BY <2>3 DEF CheckStarts, ProbingOK
  <2>4. CASE \E m \in Other : ChoosesSuspect(m) \/ ChoosesRandom(m)
    BY <2>1, <2>4, TargetsAre DEF ChoosesSuspect, ChoosesRandom
  <2>5. CASE ChoosesChecked
    BY <2>1, <2>5, TargetsAre DEF ChoosesChecked
  <2>6. CASE ChoosesNobody
    BY <2>6 DEF ChoosesNobody, ProbingOK
  <2> QED
    BY <2>2, <2>3, <2>4, <2>5, <2>6
<1> QED
  BY <1>1, <1>3, <1>4, <1>5, <1>6 DEF ProbesIInv, countVars

\* The first probe reads what is in the document; an answer decides the stage.
LEMMA LoadsKeeps ==
    ASSUME ProbesIInv, Loads
    PROVE  ProbesIInv'
<1>1. /\ mine' = IF mine = {} THEN {MyFailures} ELSE mine
      /\ probing # None /\ probing.stage = "admitted" /\ probing' = [probing EXCEPT !.stage = "choosing"]
      /\ UNCHANGED <<now, logVars, heldVars, docVars, apart, followVars, countVars, left>>
  BY DEF Loads
<1>2. DocOK' /\ LeftOK' /\ Live' = Live
  BY <1>1, SameDocument DEF docVars
<1>3. AtMostOne(mine)' /\ Cardinality(mine') <= 1
  <2>1. AtMostOne(mine')
    BY <1>1 DEF ProbesIInv, AtMostOne
  <2> QED
    BY <2>1, AtMostOneCounts DEF AtMostOne
<1>4. \A own \in mine' : DOMAIN own \subseteq Other /\ \A m \in DOMAIN own : own[m] \in Failure
  BY <1>1, MyFailuresAre DEF ProbesIInv, TypeOK
<1>5. TypeOK'
  BY <1>1, <1>3, <1>4 DEF ProbesIInv, TypeOK, heldVars, docVars, followVars, countVars
<1>6. CacheOK'
  <2>1. CASE mine = {}
    BY <1>1, <1>2, <2>1, MyFailuresAre DEF ProbesIInv, CacheOK
  <2>2. CASE mine # {}
    <3>1. HalfRecorded = {}
      BY <1>1 DEF HalfRecorded
    <3> QED
      BY <1>1, <1>2, <2>2, <3>1 DEF ProbesIInv, CacheOK
  <2> QED
    BY <2>1, <2>2
<1>7. ProbingOK' /\ probing'.stage = "choosing"
  <2>1. PICK stage \in {"admitted", "choosing"}, only \in Other \cup {None} :
            probing = [stage |-> stage, only |-> only]
    BY <1>1 DEF ProbesIInv, ProbingOK
  <2>2. probing' = [stage |-> "choosing", only |-> only]
    BY <1>1, <2>1
  <2> QED
    BY <2>2 DEF ProbingOK
<1>8. HalfOK'
  <2>1. probing'.stage = "choosing"
    BY <1>7
  <2> QED
    BY <2>1 DEF HalfOK
<1> QED
  BY <1>1, <1>2, <1>3, <1>5, <1>6, <1>7, <1>8 DEF ProbesIInv, FollowsOK, followVars, countVars

LEMMA AnswersKeeps ==
    ASSUME ProbesIInv, Answers
    PROVE  ProbesIInv'
<1>1. /\ probing # None /\ probing.stage = "asked"
      /\ UNCHANGED <<now, logVars, heldVars, docVars, mine, apart, followVars, countVars>>
      /\ \E stage \in {"passed", "failed", "unreachable"} : probing' = [probing EXCEPT !.stage = stage]
      /\ UNCHANGED left \/ Fails("timeout")
  <2>1. \A t : probe(t) \in {"passed", "failed", "unreachable"}
    BY DEF probe
  <2> QED
    BY <2>1 DEF Answers
<1>2. DocOK' /\ LeftOK' /\ Live' = Live
  BY <1>1, SameDocument, FailsKeeps DEF docVars
<1>3. TypeOK' /\ FollowsOK'
  BY <1>1 DEF ProbesIInv, TypeOK, FollowsOK, heldVars, docVars, followVars, countVars
<1>6. PICK stage \in {"passed", "failed", "unreachable"} : probing' = [probing EXCEPT !.stage = stage]
  BY <1>1
<1>5. ProbingOK' /\ probing'.stage = stage
  BY <1>1, <1>6 DEF ProbesIInv, ProbingOK
<1>4. CacheOK' /\ HalfOK'
  BY <1>1, <1>2, <1>5, NotRecorded
<1> QED
  BY <1>1, <1>2, <1>3, <1>4, <1>5 DEF ProbesIInv, countVars

\* A failure of a custodian's probe counts on from the last one.
LEMMA NextFailureType ==
    ASSUME ProbesIInv, NEW own \in mine, NEW t \in Targets
    PROVE  NextFailure(own, t) \in Failure
<1> DEFINE before == own[t.custodian].in_a_row
<1>1. CASE t.custodian \in DOMAIN own
  <2>1. before \in 1 .. MaxInARow
    BY <1>1 DEF ProbesIInv, TypeOK, Failure
  <2>2. Min({before + 1, MaxInARow}) \in 1 .. MaxInARow
    <3> HIDE DEF before
    <3> QED
      BY <2>1, MinOfTwo, ProbesAssumption
  <2> QED
    BY <1>1, <2>2 DEF NextFailure, ProbeFailure, Failure, Targets
<1>2. CASE t.custodian \notin DOMAIN own
  BY <1>2, ProbesAssumption DEF NextFailure, ProbeFailure, Failure, Targets
<1> QED
  BY <1>1, <1>2

\* This node's own entries are ones a member may write.
LEMMA OwnEntryType ==
    ASSUME ProbesIInv, NEW m \in Other
    PROVE  /\ Deletion(FailureKey(m, me), me, now) \in FailureEntries
           /\ \A f \in Failure : Entry(FailureKey(m, me), me, now, f) \in FailureEntries
<1>1. m \in Member /\ me \in Member /\ now \in Nat
  BY ProbesAssumption DEF Other, ProbesIInv, TypeOK
<1>2. FailureKey(m, me) \in [kind : {"probe"}, of : Member, name : Member, id : {0}]
  BY <1>1 DEF FailureKey, CommunityKey, Key
<1> QED
  BY <1>1, <1>2 DEF Deletion, Entry, FailureEntries

\* What recording a probe may change, and must keep.
Recording ==
    /\ UNCHANGED <<now, logVars, heldVars, followVars, countVars>>
    /\ DocOK' /\ LeftOK'
    /\ AtMostOne(mine') /\ \A o \in mine' : DOMAIN o \subseteq Other /\ \A n \in DOMAIN o : o[n] \in Failure
    /\ apart' \subseteq Other /\ changed' \in BOOLEAN
    /\ ProbingOK' /\ CacheOK' /\ HalfOK'

LEMMA RecordingKeeps == ASSUME ProbesIInv, Recording PROVE ProbesIInv'
<1> USE DEF ProbesIInv, Recording
<1>1. TypeOK'
  <2>1. /\ now' = now /\ held' = held /\ has' = has /\ claims' = claims /\ announced' = announced
        /\ unknown' = unknown /\ reachable' = reachable /\ failed_copies' = failed_copies
        /\ counting' = counting /\ counted' = counted
    BY DEF heldVars, followVars, countVars
  <2>2. Cardinality(mine') <= 1
    BY AtMostOneCounts
  <2>3. content' \subseteq doc' /\ counted' \cup apart' \subseteq Other
    BY <2>1 DEF DocOK, TypeOK
  <2> QED
    BY <2>1, <2>2, <2>3 DEF TypeOK
<1>2. FollowsOK' /\ counting' = counting
  BY DEF FollowsOK, followVars, countVars
<1> QED
  BY <1>1, <1>2 DEF AtMostOne

\* The probe being recorded, and what is remembered.
LEMMA BeingRecorded ==
    ASSUME ProbesIInv, probing # None, probing.stage \notin {"admitted", "choosing"}
    PROVE  /\ probing.target \in Targets /\ probing.target.custodian \in Other
           /\ \A stage \in {"asked", "passed", "failed", "unreachable", "clearing", "written"} :
                  probing' = [probing EXCEPT !.stage = stage] =>
                     /\ ProbingOK' /\ probing'.stage = stage /\ probing'.target = probing.target
                     /\ stage \in {"clearing", "written"} => probing' # None
           /\ HalfRecorded = IF probing.stage \in {"clearing", "written"} THEN {probing.target.custodian} ELSE {}
<1>1. PICK stage \in {"asked", "passed", "failed", "unreachable", "clearing", "written"},
           only \in Other \cup {None}, t \in Targets : probing = [stage |-> stage, only |-> only, target |-> t]
  BY DEF ProbesIInv, ProbingOK
<1>2. probing.target = t /\ t.custodian \in Other
  BY <1>1 DEF Targets
<1>3. ASSUME NEW s \in {"asked", "passed", "failed", "unreachable", "clearing", "written"},
             probing' = [probing EXCEPT !.stage = s]
      PROVE  /\ ProbingOK' /\ probing'.stage = s /\ probing'.target = probing.target
             /\ s \in {"clearing", "written"} => probing' # None
  <2>1. probing' = [stage |-> s, only |-> only, target |-> t]
    BY <1>1, <1>3
  <2>2. s \in {"clearing", "written"} => probing' # None
    BY <2>1, ProbesAssumption DEF HalfProbe, Targets
  <2> QED
    BY <1>2, <2>1, <2>2 DEF ProbingOK
<1>4. HalfRecorded = IF probing.stage \in {"clearing", "written"} THEN {probing.target.custodian} ELSE {}
  BY <1>2 DEF HalfRecorded
<1> QED
  BY <1>2, <1>3, <1>4

\* A pass is forgotten and then cleared; a failure is written and then kept; a
\* write may fail.
LEMMA RecordsKeeps ==
    ASSUME ProbesIInv, Records
    PROVE  ProbesIInv'
<1>1. PICK own \in mine : \/ NothingToRecord(own)
                         \/ PassIsForgiven(own) \/ FailureIsCleared
                         \/ FailureIsWritten(own) \/ FailureIsKept(own)
  BY DEF Records
<1>2. /\ probing # None /\ probing.stage \notin {"admitted", "choosing"}
      /\ UNCHANGED <<now, logVars, heldVars, followVars, countVars>>
  BY <1>1 DEF Records, NothingToRecord, PassIsForgiven, FailureIsCleared, FailureIsWritten, FailureIsKept
<1>3. mine = {own}
  BY DEF ProbesIInv, AtMostOne
<1> DEFINE t == probing.target
           m == t.custodian
           f == NextFailure(own, t)
<1>4. t \in Targets /\ m \in Other
  BY <1>2, BeingRecorded
<1>5. /\ DocOK /\ LeftOK /\ now \in Nat /\ apart \subseteq Other /\ changed \in BOOLEAN
      /\ AtMostOne(mine)
      /\ DOMAIN own \subseteq Other /\ \A n \in DOMAIN own : own[n] \in Failure
  BY DEF ProbesIInv, TypeOK
<1>6. /\ \A n \in Other \ (apart \cup HalfRecorded) :
              /\ n \in DOMAIN own <=> \E e \in Live : e.key.of = n
              /\ \A e \in Live : e.key.of = n => own[n] = e.value
      /\ probing.stage = "clearing" => m \notin DOMAIN own
      /\ probing.stage = "written" => /\ \E e \in Live : e.key.of = m
                                      /\ \A e \in Live : e.key.of = m => e.value = f
  BY <1>2 DEF ProbesIInv, CacheOK, HalfOK
<1>7. HalfRecorded = IF probing.stage \in {"clearing", "written"} THEN {m} ELSE {}
  BY <1>2, BeingRecorded
<1>8. f \in Failure
  BY <1>4, NextFailureType
<1>9. ASSUME UNCHANGED docVars, UNCHANGED left \/ Fails("put")
      PROVE  DocOK' /\ LeftOK' /\ Live' = Live /\ changed' \in BOOLEAN
  BY <1>5, <1>9, SameDocument, FailsKeeps DEF docVars
<1>10. ASSUME probing' = None PROVE ProbingOK' /\ HalfOK' /\ HalfRecorded' = {}
  BY <1>10 DEF ProbingOK, HalfOK, HalfRecorded
<1>11. ASSUME NEW o, mine' = {o}, DOMAIN o \subseteq Other, \A n \in DOMAIN o : o[n] \in Failure
       PROVE  AtMostOne(mine') /\ \A p \in mine' : DOMAIN p \subseteq Other /\ \A n \in DOMAIN p : p[n] \in Failure
  BY <1>11 DEF AtMostOne
<1>12. CASE NothingToRecord(own)
  <2>1. UNCHANGED <<docVars, mine, apart, left>> /\ probing' = None /\ probing.stage \notin {"clearing", "written"}
    BY <1>12 DEF NothingToRecord
  <2>2. CacheOK'
    BY <1>2, <1>9, <2>1, NotRecorded
  <2>3. Recording
    BY <1>2, <1>3, <1>5, <1>9, <1>10, <1>11, <2>1, <2>2 DEF Recording
  <2> QED
    BY <2>3, RecordingKeeps
<1>13. CASE PassIsForgiven(own)
  <2>1. /\ mine' = {Without(own, m)} /\ probing' = [probing EXCEPT !.stage = "clearing"]
        /\ UNCHANGED <<docVars, apart, left>> /\ probing.stage = "passed"
    BY <1>13 DEF PassIsForgiven
  <2>2. ProbingOK' /\ probing' # None /\ probing'.stage = "clearing" /\ probing'.target = t
    BY <1>2, <2>1, BeingRecorded
  <2>3. /\ DOMAIN Without(own, m) = DOMAIN own \ {m}
        /\ \A n \in DOMAIN own \ {m} : Without(own, m)[n] = own[n]
    BY DEF Without
  <2>4. HalfRecorded' = {m}
    BY <1>4, <2>2 DEF HalfRecorded
  <2>5. CacheOK'
    BY <1>6, <1>7, <1>9, <2>1, <2>3, <2>4 DEF CacheOK
  <2>6. HalfOK'
    BY <2>1, <2>2, <2>3 DEF HalfOK
  <2>7. Recording
    BY <1>2, <1>5, <1>9, <1>11, <2>1, <2>2, <2>3, <2>5, <2>6 DEF Recording
  <2> QED
    BY <2>7, RecordingKeeps
<1>14. CASE FailureIsCleared
  <2>1. mine' = {own} /\ probing' = None /\ m \notin DOMAIN own /\ HalfRecorded = {m}
    BY <1>3, <1>6, <1>7, <1>14 DEF FailureIsCleared
  <2>2. CASE clear_probe_failure(m) /\ apart' = apart \ {m} /\ UNCHANGED left
    <3> DEFINE entry == Deletion(FailureKey(m, me), me, now)
    <3>1. entry \in FailureEntries /\ entry.key = FailureKey(m, me) /\ entry.author = me /\ entry.deleted
      BY <1>4, OwnEntryType DEF Deletion, Entry
    <3>2. Put(entry) /\ changed' \in BOOLEAN
      BY <2>2 DEF clear_probe_failure, Put
    <3> HIDE DEF entry
    <3>3. DocOK' /\ LeftOK' /\ Live' = {e \in Live : e.key.of # m} \cup {e \in {entry} : ~e.deleted}
      BY <1>4, <1>5, <2>2, <3>1, <3>2, PutKeeps
    <3>4. Live' = {e \in Live : e.key.of # m}
      BY <3>1, <3>3
    <3>5. CacheOK'
      BY <1>6, <1>10, <2>1, <2>2, <3>4 DEF CacheOK
    <3>6. Recording
      BY <1>2, <1>5, <1>10, <1>11, <2>1, <2>2, <3>2, <3>3, <3>5 DEF Recording
    <3> QED
      BY <3>6, RecordingKeeps
  <2>3. CASE Fails("put") /\ apart' = apart \cup {m} /\ UNCHANGED docVars
    <3>1. CacheOK'
      BY <1>6, <1>9, <1>10, <2>1, <2>3 DEF CacheOK
    <3>2. Recording
      BY <1>2, <1>4, <1>5, <1>9, <1>10, <1>11, <2>1, <2>3, <3>1 DEF Recording
    <3> QED
      BY <3>2, RecordingKeeps
  <2> QED
    BY <1>14, <2>2, <2>3 DEF FailureIsCleared
<1>15. CASE FailureIsWritten(own)
  <2>1. mine' = {own} /\ apart' = apart /\ probing.stage = "failed" /\ HalfRecorded = {}
    BY <1>3, <1>7, <1>15 DEF FailureIsWritten
  <2>2. CASE record_probe_failure(m, f) /\ probing' = [probing EXCEPT !.stage = "written"] /\ UNCHANGED left
    <3> DEFINE entry == Entry(FailureKey(m, me), me, now, f)
    <3>1. /\ entry \in FailureEntries /\ entry.key = FailureKey(m, me) /\ entry.author = me
          /\ ~entry.deleted /\ entry.value = f /\ entry.key.of = m
      BY <1>4, <1>8, OwnEntryType DEF Entry, FailureKey, CommunityKey, Key
    <3>2. Put(entry) /\ changed' \in BOOLEAN
      BY <2>2 DEF record_probe_failure, Put
    <3>3. ProbingOK' /\ probing' # None /\ probing'.stage = "written" /\ probing'.target = t
      BY <1>2, <2>2, BeingRecorded
    <3>4. NextFailure(own, probing.target)' = f
      BY <3>3 DEF NextFailure, ProbeFailure
    <3> HIDE DEF f, entry
    <3>5. DocOK' /\ LeftOK' /\ Live' = {e \in Live : e.key.of # m} \cup {e \in {entry} : ~e.deleted}
      BY <1>4, <1>5, <2>2, <3>1, <3>2, PutKeeps
    <3>6. HalfRecorded' = {m}
      BY <1>4, <3>3 DEF HalfRecorded
    <3>7. CacheOK'
      BY <1>6, <2>1, <3>1, <3>5, <3>6 DEF CacheOK
    <3>8. HalfOK'
      BY <2>1, <3>1, <3>3, <3>4, <3>5 DEF HalfOK
    <3>9. Recording
      BY <1>2, <1>5, <1>11, <2>1, <3>2, <3>3, <3>5, <3>7, <3>8 DEF Recording
    <3> QED
      BY <3>9, RecordingKeeps
  <2>3. CASE Fails("put") /\ probing' = None /\ UNCHANGED docVars
    <3>1. CacheOK'
      BY <1>6, <1>9, <1>10, <2>1, <2>3 DEF CacheOK
    <3>2. Recording
      BY <1>2, <1>5, <1>9, <1>10, <1>11, <2>1, <2>3, <3>1 DEF Recording
    <3> QED
      BY <3>2, RecordingKeeps
  <2> QED
    BY <1>15, <2>2, <2>3 DEF FailureIsWritten
<1>16. CASE FailureIsKept(own)
  <2>1. /\ mine' = {With(own, m, f)} /\ apart' = apart \ {m} /\ probing' = None
        /\ UNCHANGED <<docVars, left>> /\ probing.stage = "written"
    BY <1>16 DEF FailureIsKept
  <2> HIDE DEF f
  <2>2. /\ DOMAIN With(own, m, f) = DOMAIN own \cup {m}
        /\ \A n \in DOMAIN own \cup {m} : With(own, m, f)[n] = IF n = m THEN f ELSE own[n]
    BY DEF With
  <2>3. CacheOK'
    BY <1>4, <1>6, <1>7, <1>9, <1>10, <2>1, <2>2 DEF CacheOK
  <2>4. Recording
    BY <1>2, <1>4, <1>5, <1>8, <1>9, <1>10, <1>11, <2>1, <2>2, <2>3 DEF Recording
  <2> QED
    BY <2>4, RecordingKeeps
<1> QED
  BY <1>1, <1>12, <1>13, <1>14, <1>15, <1>16

\* A check its caller leaves is over; what it recorded halfway is apart from then on.
LEMMA AbandonedKeeps ==
    ASSUME ProbesIInv, Abandoned
    PROVE  ProbesIInv'
<1>1. /\ probing' = None /\ apart' = apart \cup HalfRecorded /\ Fails("client")
      /\ UNCHANGED <<now, logVars, heldVars, docVars, mine, followVars, countVars>>
  BY DEF Abandoned
<1>2. DocOK' /\ LeftOK' /\ Live' = Live
  BY <1>1, SameDocument, FailsKeeps DEF docVars
<1>3. ProbingOK' /\ HalfOK' /\ HalfRecorded' = {} /\ HalfRecorded \subseteq Other
  BY <1>1 DEF ProbingOK, HalfOK, HalfRecorded
<1>4. CacheOK'
  BY <1>1, <1>2, <1>3 DEF ProbesIInv, CacheOK
<1>5. AtMostOne(mine') /\ apart' \subseteq Other /\ changed' \in BOOLEAN
      /\ \A o \in mine' : DOMAIN o \subseteq Other /\ \A n \in DOMAIN o : o[n] \in Failure
  BY <1>1, <1>3 DEF ProbesIInv, TypeOK, AtMostOne, docVars
<1> QED
  BY <1>1, <1>2, <1>3, <1>4, <1>5, RecordingKeeps DEF Recording

\* The task that follows the failures counts copies of what was read.
LEMMA FollowingKeeps ==
    ASSUME ProbesIInv, Following
    PROVE  ProbesIInv'
<1> USE DEF ProbesIInv
<1>1. UNCHANGED <<now, logVars, heldVars, doc, content, probeVars, countVars>>
  BY DEF Following, FollowReads, FollowSets, FollowWakes, docVars
<1>2. UNCHANGED left \/ Fails("read")
  BY DEF Following, FollowReads, FollowSets, FollowWakes
<1>3. DocOK' /\ LeftOK' /\ Live' = Live
  BY <1>1, <1>2, SameDocument, FailsKeeps
<1>4. CacheOK' /\ HalfOK' /\ ProbingOK'
  BY <1>1, <1>3, SameCache DEF ProbingOK, probeVars
<1>5. \A e \in probe_failures : e.key.of \in Member /\ e.value.item \in Item
  BY CountedAreWellFormed DEF Failure
<1>6. FollowsOK' /\ failed_copies' \subseteq Member \X Item /\ changed' \in BOOLEAN
  <2>1. CASE FollowReads
    <3>1. \/ follows' = [follows EXCEPT !.stage = "read", !.failures = probe_failures]
          \/ follows' = [stage |-> "failed", failures |-> {}, next_out |-> None]
      BY <2>1 DEF FollowReads
    <3>2. ASSUME follows' = [follows EXCEPT !.stage = "read", !.failures = probe_failures] PROVE FollowsOK'
      <4>1. DOMAIN follows' = DOMAIN follows /\ follows'.failures = probe_failures
        BY <3>2 DEF FollowsOK
      <4> QED
        BY <1>5, <4>1 DEF FollowsOK
    <3>3. ASSUME follows' = [stage |-> "failed", failures |-> {}, next_out |-> None] PROVE FollowsOK'
      BY <3>3 DEF FollowsOK
    <3> QED
      BY <2>1, <3>1, <3>2, <3>3 DEF FollowReads, TypeOK, docVars
  <2>2. CASE FollowSets
    <3>1. failed_copies' = failed_within(follows.failures).copies
      BY <2>2 DEF FollowSets
    <3>2. failed_within(follows.failures).copies \subseteq Member \X Item
      BY DEF failed_within, FollowsOK
    <3>3. \E n : follows' = [stage |-> "waiting", failures |-> {}, next_out |-> n]
      BY <2>2 DEF FollowSets
    <3> QED
      BY <2>2, <3>1, <3>2, <3>3 DEF FollowSets, FollowsOK, TypeOK, docVars
  <2>3. CASE FollowWakes
    <3>1. follows' = [follows EXCEPT !.stage = "reading"] /\ failed_copies' = failed_copies
      BY <2>3 DEF FollowWakes
    <3>2. changed' = FALSE \/ changed' = changed
      BY <2>3 DEF FollowWakes
    <3> QED
      BY <3>1, <3>2 DEF FollowsOK, TypeOK
  <2> QED
    BY <2>1, <2>2, <2>3 DEF Following
<1>7. TypeOK'
  BY <1>1, <1>6 DEF TypeOK, heldVars, probeVars, countVars
<1> QED
  BY <1>1, <1>3, <1>4, <1>6, <1>7 DEF AtMostOne, probeVars, countVars

\* A count judges only others.
LEMMA CountingKeeps ==
    ASSUME ProbesIInv, Counting
    PROVE  ProbesIInv'
<1> USE DEF ProbesIInv
<1>1. UNCHANGED <<now, logVars, heldVars, docVars, probeVars, followVars>>
  BY DEF Counting, CountStarts, CountEnds
<1>2. UNCHANGED left \/ Fails("count")
  BY DEF Counting, CountStarts, CountEnds
<1>3. DocOK' /\ LeftOK' /\ Live' = Live
  BY <1>1, <1>2, SameDocument, FailsKeeps DEF docVars
<1>4. CacheOK' /\ HalfOK' /\ ProbingOK' /\ FollowsOK'
  BY <1>1, <1>3, SameCache DEF ProbingOK, FollowsOK, probeVars, followVars
<1>5. AtMostOne(counting') /\ (\A read \in counting' : read.judged \subseteq Other) /\ counted' \subseteq Other
  <2>1. CASE CountStarts
    <3>1. counted' = counted /\ \E group, since : counting' = {[group |-> group, since |-> since, judged |-> to_judge]}
      BY <2>1 DEF CountStarts
    <3>2. to_judge \subseteq Other
      BY DEF to_judge
    <3> QED
      BY <3>1, <3>2 DEF AtMostOne, TypeOK
  <2>2. CASE CountEnds
    <3>1. counting' = {}
      BY <2>2 DEF CountEnds
    <3>2. PICK read \in counting : counted' = LowOf(read) \/ counted' = counted
      BY <2>2 DEF CountEnds
    <3>3. LowOf(read) \subseteq Other
      BY DEF LowOf
    <3> QED
      BY <3>1, <3>2, <3>3 DEF AtMostOne, TypeOK
  <2> QED
    BY <2>1, <2>2 DEF Counting
<1>6. TypeOK'
  <2>1. Cardinality(counting') <= 1
    BY <1>5, AtMostOneCounts
  <2> QED
    BY <1>1, <1>5, <2>1 DEF TypeOK, heldVars, docVars, probeVars, followVars
<1> QED
  BY <1>1, <1>3, <1>4, <1>5, <1>6 DEF AtMostOne, probeVars

\* The clock, the log and the other members.
LEMMA AroundKeeps ==
    ASSUME ProbesIInv,
           \/ Passes \/ MembershipMoves \/ LosesChunks \/ Evicts \/ NamesABase \/ BaseArrives \/ GoesOrComes
    PROVE  ProbesIInv'
<1> USE DEF ProbesIInv
<1>1. UNCHANGED <<held, docVars, probeVars, followVars, countVars>>
  BY DEF Passes, Ticks, CustodyMoves, CatchesUp, Beats, MembershipMoves, LosesChunks, Evicts, NamesABase,
         BaseArrives, GoesOrComes, heldVars
<1>2. /\ DOMAIN left' = DOMAIN left /\ left'.arrives = left.arrives
      /\ left'.bases \subseteq left.bases /\ left'.offline \subseteq left.offline
  <2>1. CASE UNCHANGED left
    BY <2>1
  <2>2. CASE MembershipMoves \/ LosesChunks \/ Evicts \/ NamesABase \/ GoesOrComes
    BY <2>2 DEF MembershipMoves, LosesChunks, Evicts, NamesABase, GoesOrComes, LeftOK
  <2> QED
    BY <2>1, <2>2 DEF Passes, Ticks, CustodyMoves, CatchesUp, Beats, BaseArrives
<1>3. DocOK' /\ LeftOK' /\ Live' = Live
  BY <1>1, <1>2, SameDocument DEF docVars
<1>4. CacheOK' /\ HalfOK' /\ ProbingOK' /\ FollowsOK'
  BY <1>1, <1>3, SameCache DEF ProbingOK, FollowsOK, probeVars, followVars
<1>5. now' \in 0 .. MaxTime
  BY ProbesAssumption DEF Passes, Ticks, CustodyMoves, CatchesUp, Beats, MembershipMoves, LosesChunks, Evicts,
         NamesABase, BaseArrives, GoesOrComes, TypeOK
<1>6. has' \in [Other -> SUBSET Everything]
  BY DEF Passes, Ticks, CustodyMoves, CatchesUp, Beats, MembershipMoves, LosesChunks, Evicts, NamesABase,
         BaseArrives, GoesOrComes, heldVars, TypeOK
<1>7. claims' \in [Other -> SUBSET Item] /\ announced' \in [Other -> SUBSET Item]
  <2>1. claims \in [Other -> SUBSET Item] /\ announced \in [Other -> SUBSET Item]
    BY DEF TypeOK
  <2>2. CASE \E m \in Other : Beats(m)
    BY <2>1, <2>2 DEF Beats
  <2>3. CASE Evicts
    <3>1. PICK m, i : claims' = [claims EXCEPT ![m] = @ \ {i}]
      BY <2>3 DEF Evicts
    <3>2. announced' = announced
      BY <2>3 DEF Evicts
    <3> QED
      BY <2>1, <3>1, <3>2
  <2> QED
    BY <2>1, <2>2, <2>3 DEF Passes, Ticks, CustodyMoves, CatchesUp, MembershipMoves, LosesChunks,
         NamesABase, BaseArrives, GoesOrComes, heldVars
<1>8. unknown' \cup reachable' \subseteq Other
  BY DEF Passes, Ticks, CustodyMoves, CatchesUp, Beats, MembershipMoves, LosesChunks, Evicts, NamesABase,
         BaseArrives, GoesOrComes, heldVars, TypeOK, LeftOK
<1>9. TypeOK'
  BY <1>1, <1>5, <1>6, <1>7, <1>8 DEF TypeOK, docVars, probeVars, followVars, countVars
<1> QED
  BY <1>1, <1>3, <1>4, <1>9 DEF AtMostOne, probeVars, countVars

\* What others write, and the content of it, whenever that arrives.
LEMMA EntriesKeep ==
    ASSUME ProbesIInv, Arrives \/ ContentArrives
    PROVE  ProbesIInv'
<1> USE DEF ProbesIInv
<1>1. /\ changed' = TRUE
      /\ UNCHANGED <<now, logVars, heldVars, probeVars, followVars, countVars>>
  BY DEF Arrives, ContentArrives
<1>2. DocOK' /\ LeftOK' /\ Live' = Live
  <2>1. CASE ContentArrives
    <3>1. doc' = doc /\ left' = left /\ content \subseteq content' /\ content' \subseteq doc
      BY <2>1 DEF ContentArrives, all, DocOK
    <3> QED
      BY <3>1 DEF DocOK, LeftOK, Live
  <2> QED
    BY <2>1, ArrivesKeeps
<1>3. CacheOK' /\ HalfOK' /\ ProbingOK' /\ FollowsOK'
  BY <1>1, <1>2, SameCache DEF ProbingOK, FollowsOK, probeVars, followVars
<1>4. TypeOK'
  BY <1>1, <1>2 DEF TypeOK, DocOK, heldVars, probeVars, followVars, countVars
<1> QED
  BY <1>1, <1>2, <1>3, <1>4 DEF AtMostOne, probeVars, countVars

\* A restart forgets what was read and decided, and keeps the document.
LEMMA RestartsKeeps ==
    ASSUME ProbesIInv, Restarts
    PROVE  ProbesIInv'
<1> USE DEF ProbesIInv
<1>1. /\ mine' = {} /\ probing' = None /\ apart' = {}
      /\ follows' = [stage |-> "reading", failures |-> {}, next_out |-> None]
      /\ changed' = FALSE
      /\ failed_copies' = {} /\ counting' = {} /\ counted' = {}
      /\ UNCHANGED <<now, heldVars, doc, content>>
      /\ left' = [left EXCEPT !.restarts = @ - 1]
  BY DEF Restarts
<1>2. DocOK' /\ LeftOK' /\ Live' = Live
  <2>1. /\ DOMAIN left' = DOMAIN left /\ left'.arrives = left.arrives
        /\ left'.bases = left.bases /\ left'.offline = left.offline
    BY <1>1 DEF LeftOK
  <2> QED
    BY <1>1, <2>1, SameDocument
<1>3. AtMostOne(mine') /\ AtMostOne(counting')
  BY <1>1 DEF AtMostOne
<1>4. TypeOK'
  <2>1. Cardinality(mine') <= 1 /\ Cardinality(counting') <= 1
    BY <1>3, AtMostOneCounts
  <2> QED
    BY <1>1, <2>1 DEF TypeOK, heldVars
<1>5. CacheOK' /\ HalfOK' /\ ProbingOK' /\ FollowsOK'
  BY <1>1 DEF CacheOK, HalfOK, ProbingOK, FollowsOK
<1> QED
  BY <1>1, <1>2, <1>3, <1>4, <1>5

LEMMA ProbesStep == ProbesIInv /\ [Next]_vars => ProbesIInv'
<1> SUFFICES ASSUME ProbesIInv, [Next]_vars PROVE ProbesIInv'
  OBVIOUS
<1>1. CASE UNCHANGED vars
  <2>1. DocOK' /\ LeftOK' /\ Live' = Live
    BY <1>1, SameDocument DEF vars, docVars
  <2>2. CacheOK' /\ HalfOK' /\ ProbingOK' /\ FollowsOK'
    BY <1>1, <2>1, SameCache DEF vars, ProbesIInv, ProbingOK, FollowsOK, probeVars, followVars
  <2>3. TypeOK'
    BY <1>1 DEF vars, ProbesIInv, TypeOK, heldVars, docVars, probeVars, followVars, countVars
  <2> QED
    BY <1>1, <2>1, <2>2, <2>3 DEF vars, ProbesIInv, AtMostOne, probeVars, countVars
<1>2. CASE Next
  BY <1>2, ChoosingKeeps, LoadsKeeps, AnswersKeeps, RecordsKeeps, FollowingKeeps, CountingKeeps,
     AroundKeeps, EntriesKeep, AbandonedKeeps, RestartsKeeps DEF Next, Probing, Around
<1> QED
  BY <1>1, <1>2

LEMMA ProbesInductive == Spec => []ProbesIInv
BY ProbesInit, ProbesStep, PTL DEF Spec

-----------------------------------------------------------------------------
(* Theorems.                                                               *)

\* What this node remembers of its probes is what the document says of it, and
\* two different members wrote what makes one red: no member makes another a
\* candidate for expulsion alone (probes.rs record, suspects.rs is_red).
THEOREM ProbesAreKept == Spec => []ProbesInv
<1>1. ASSUME ProbesIInv PROVE CacheIsTheDocument
  <2>1. DocOK /\ CacheOK
    BY <1>1 DEF ProbesIInv
  <2> QED
    BY <2>1, MyFailuresAre DEF CacheOK, CacheIsTheDocument
<1>2. ASSUME ProbesIInv PROVE RedByTwo
  <2> SUFFICES ASSUME NEW m \in Member, is_red(m)
               PROVE  Cardinality({e.author : e \in {f \in all(doc) : f.key.kind = "probe" /\ f.key.of = m}}) >= 2
    BY DEF RedByTwo
  <2> DEFINE of == {x \in all(doc) : x.key.kind = "probe" /\ x.key.of = m}
             authors == {x.author : x \in of}
  <2>1. DocOK
    BY <1>2 DEF ProbesIInv
  <2>2. suspects_among(m) \subseteq of
    BY <2>1, ProbeFailuresAre DEF suspects_among, all, DocOK, FailureEntries
  <2>3. IsFiniteSet(of) /\ IsFiniteSet(suspects_among(m))
    <3>1. IsFiniteSet(of)
      BY <2>1, FS_Subset DEF all, DocOK
    <3> QED
      BY <2>2, <3>1, FS_Subset
  <2>4. PICK e, f \in suspects_among(m) : e # f
    BY <2>3, TwoAreDistinct DEF is_red, RED_FROM_PROBERS
  <2>5. e.author # f.author
    <3>1. e \in doc /\ f \in doc /\ e.author = e.key.name /\ f.author = f.key.name /\ e.key.of = f.key.of
      BY <2>1, ProbeFailuresAre DEF suspects_among
    <3>2. /\ e.key \in [kind : {"probe"}, of : Member, name : Member, id : {0}]
          /\ f.key \in [kind : {"probe"}, of : Member, name : Member, id : {0}]
      BY <2>1, <3>1 DEF DocOK, FailureEntries
    <3>3. ASSUME e.author = f.author PROVE FALSE
      <4>1. e.key.name = f.key.name
        BY <3>1, <3>3
      <4>2. e.key = f.key
        BY <3>1, <3>2, <4>1
      <4> QED
        BY <2>1, <2>4, <3>1, <3>3, <4>2 DEF DocOK
    <3> QED
      BY <3>3
  <2>6. IsFiniteSet(authors)
    <3> DEFINE author == [x \in of |-> x.author]
    <3> HIDE DEF of
    <3>1. author \in Surjection(of, authors)
      BY DEF Surjection
    <3> QED
      BY <2>3, <3>1, FS_Surjection
  <2>7. e.author \in authors /\ f.author \in authors
    BY <2>2
  <2> HIDE DEF authors
  <2> QED
    BY <2>5, <2>6, <2>7, TwoAtLeast DEF authors
<1>3. ProbesIInv => ProbesInv
  BY <1>1, <1>2 DEF ProbesIInv, ProbesInv
<1> QED
  BY <1>3, ProbesInductive, PTL

=============================================================================
