------------------------------- MODULE Probes -------------------------------
(* One node's probes of the other custodians (distlib-custody probes.rs) and *)
(* what is made of failures: the copies no longer counted (failed_copies.rs),*)
(* the suspects (suspects.rs) and the coverage of what it holds              *)
(* (coverage.rs).  Failures are entries of the catalogue's document, which   *)
(* other members write too.                                                  *)
EXTENDS Document

CONSTANTS
    me,
    Chunk,
    stored,         \* [Item -> what custody knows of it]
    Score, replicas, min_bytes, cap_bytes, step_bytes,      \* see Ranking
    window,         \* failure_window_secs
    max_settle_secs,
    MaxTime,        \* bound: the clock
    MaxInARow,      \* bound: failures in a row are counted no further
    Scenarios

Other == Member \ {me}

\* A probe of which memory or document has been written, and the other is not.
HalfProbe == [stage : {"clearing", "written"}, only : Other \cup {None},
              target : [custodian : Other, item : Item, chunk : Chunk]]

ASSUME ProbesAssumption ==
    /\ None \notin HalfProbe
    /\ me \in Member
    /\ {window, max_settle_secs, MaxTime, MaxInARow} \subseteq Nat
    /\ MaxInARow >= 1

INSTANCE Ranking WITH Node <- Member

VARIABLES
    now,
    membership,     \* the pledges, as this node has applied the log
    applied,        \* [Other -> the pledges, as that member has]
    assigned,       \* custody: the settled group, and since when each item is assigned
    held,           \* the items this node holds
    has,            \* [Other -> the chunks it can send]
    claims,         \* [Other -> the items it believes it holds]
    announced,      \* [Other -> the items its beats say it holds]
    unknown,        \* the members whose base list has not arrived
    reachable,      \* the members that are online and can be connected to
    doc, content,   \* the catalogue's probe failures, and those whose content is here
    mine,           \* Inner::mine: {} before the first probe, then {this node's own failures}
    probing,        \* the probe being made, `only` of a member if it is a check, or None
    follows,        \* what the task that follows the failures is doing
    changed,        \* has probe_failures_changed moved since it looked
    failed_copies,  \* Holders::failed_copies
    counting,       \* {} or what a count of the coverage has read
    counted,        \* Coverage: the members judged low
    apart,          \* history: the custodians of whom a probe was recorded halfway only
    left            \* what may still happen

logVars == <<membership, applied, assigned>>
heldVars == <<held, has, claims, announced, unknown, reachable>>
docVars == <<doc, content, changed>>
probeVars == <<mine, probing, apart>>
followVars == <<follows, failed_copies>>
countVars == <<counting, counted>>
vars == <<now, logVars, heldVars, docVars, probeVars, followVars, countVars, left>>

-----------------------------------------------------------------------------
(* Failures, as the document has them                                        *)

ProbeFailure(item, chunk, in_a_row) == [item |-> item, chunk |-> chunk, in_a_row |-> in_a_row]
Failure == [item : Item, chunk : Chunk, in_a_row : 1 .. MaxInARow]

\* CommunityKey::ProbeFailure
FailureKey(custodian, prober) == CommunityKey("probe", custodian, prober, 0)

\* What any member may write under any such key.
FailureEntries ==
    {e \in [key : [kind : {"probe"}, of : Member, name : Member, id : {0}], author : Member,
            at : Nat, deleted : BOOLEAN, value : Failure \cup {Plain}] :
        ~e.deleted => e.value \in Failure}

\* A document is a merged one: of two entries under a key by one author it has
\* the newer.  Only this node writes as this node, and of others.
ScenarioOK(s) ==
    LET entries == s.doc \cup s.left.arrives
    IN  /\ s.held \subseteq Item /\ s.claims \in [Other -> SUBSET Item] /\ s.unknown \subseteq Other
        /\ DOMAIN s.left = {"fails", "checks", "arrives", "groups", "loses", "evicts", "bases", "offline", "restarts"}
        /\ s.left.arrives \subseteq FailureEntries
        /\ s.left.bases \subseteq Other /\ s.left.offline \subseteq Other
        /\ IsFiniteSet(s.doc) /\ s.doc \subseteq FailureEntries /\ s.doc = Merged(s.doc)
        /\ \A e, f \in entries : (e.key = f.key /\ e.author = f.author /\ e.at = f.at) => e = f
        /\ \A e \in s.left.arrives : e.author # me
        /\ \A e \in s.doc : e.author = me => e.key.name = me /\ e.key.of # me

ASSUME ScenariosAssumption == \A s \in Scenarios : ScenarioOK(s)

\* Everybody's, each counted only if that prober wrote it.
probe_failures == UNION {read_community_entries(doc, content, "probe", m).entries : m \in Member}

\* One written by a clock ahead of this node's has no age.
left_in_window(recorded) ==
    LET age == IF recorded.at > now THEN 0 ELSE now - recorded.at
    IN  IF age < window THEN window - age ELSE 0

Counts(recorded) == left_in_window(recorded) > 0

\* This node's entry under its own key of a custodian, if the write succeeds.
Put(entry) ==
    /\ doc' = {e \in doc : e.key # entry.key \/ e.author # me} \cup {entry}
    /\ content' = {e \in content : e.key # entry.key \/ e.author # me} \cup {e \in {entry} : ~entry.deleted}
    /\ changed' = TRUE

record_probe_failure(custodian, failure) == Put(Entry(FailureKey(custodian, me), me, now, failure))
clear_probe_failure(custodian) == Put(Deletion(FailureKey(custodian, me), me, now))

\* my_failures
MyFailures ==
    LET own == {e \in probe_failures : e.key.name = me}
    IN  [m \in {e.key.of : e \in own} |-> (CHOOSE e \in own : e.key.of = m).value]

Fails(step) ==
    /\ step \in left.fails
    /\ left' = [left EXCEPT !.fails = @ \ {step}]

-----------------------------------------------------------------------------
(* Choosing whom to probe                                                    *)

pledges_the_minimum(group, m) == m \in DOMAIN group /\ group[m] >= min_bytes

\* A node below the minimum is refused content, which would read as failures.
refusal == ~pledges_the_minimum(membership, me)

\* Availability::holders: the members known to hold an item, online or not.
holders(item) == {m \in Other \ unknown : item \in announced[m]}

Target(custodian, item, chunk) == [custodian |-> custodian, item |-> item, chunk |-> chunk]

\* Target::recorded
Recorded(custodian, failure) == Target(custodian, failure.item, failure.chunk)

Announces(target) == target.custodian \in holders(target.item)

\* Not itself, one that announces it, and `only`, if given.
may_probe(custodian, item, only) ==
    /\ custodian # me
    /\ custodian \in holders(item)
    /\ only \in {None, custodian}

\* The items a random probe picks one of.
may_pick(only) == {i \in held : only = None \/ only \in holders(i)}

TargetsOf(item, only) ==
    {Target(m, item, c) : m \in {n \in custodians(assigned.group, item, stored[item]) : may_probe(n, item, only)},
                          c \in Chunk}

\* A chunk of an item this node holds, of another of its custodians.
random_target(only) == UNION {TargetsOf(i, only) : i \in may_pick(only)}

\* The failures others recorded of custodians other than this node.
others_failures ==
    {Recorded(e.key.of, e.value) : e \in {f \in probe_failures : f.key.name # me /\ f.key.of # me /\ Counts(f)}}

\* Coverage::low
low == counted

suspect_target_mutant(own) ==
    LET recorded == {t \in others_failures : Announces(t)}
    IN  IF recorded # {} THEN recorded ELSE UNION {random_target(m) : m \in low}

\* This node's own failures first, then those of others, then low coverage.
suspect_target(own) ==
    LET announced_of(targets) == {t \in targets : Announces(t)}
        mine_first == announced_of({Recorded(m, own[m]) : m \in DOMAIN own})
        others == announced_of(others_failures)
    IN  CASE mine_first # {} -> mine_first
          [] mine_first = {} /\ others # {} -> others
          [] OTHER -> UNION {random_target(m) : m \in low}

\* A member's latest failure that counts, at its chunk.
latest_evidence(m) ==
    LET of == {e \in probe_failures : e.key.of = m /\ Counts(e)}
        latest == {e \in of : \A f \in of : f.at <= e.at}
    IN  {t \in {Recorded(m, e.value) : e \in latest} : Announces(t)}

-----------------------------------------------------------------------------
(* A probe: admitted, chosen, made and recorded, one at a time               *)

\* run: every probe_every_secs.
ProbeStarts ==
    /\ probing = None /\ ~refusal
    /\ probing' = [stage |-> "admitted", only |-> None]
    /\ UNCHANGED <<now, logVars, heldVars, docVars, mine, apart, followVars, countVars, left>>

\* group.check, which waits for its turn.
CheckStarts(m) ==
    /\ m \in left.checks /\ m # me /\ probing = None
    /\ left' = [left EXCEPT !.checks = @ \ {m}]
    /\ probing' = IF refusal THEN None ELSE [stage |-> "admitted", only |-> m]
    /\ UNCHANGED <<now, logVars, heldVars, docVars, mine, apart, followVars, countVars>>

\* loaded: read from the document at the first probe.
Loads ==
    /\ probing # None /\ probing.stage = "admitted"
    /\ mine' = IF mine = {} THEN {MyFailures} ELSE mine
    /\ probing' = [probing EXCEPT !.stage = "choosing"]
    /\ UNCHANGED <<now, logVars, heldVars, docVars, apart, followVars, countVars, left>>

Choosing == probing # None /\ probing.stage = "choosing"

Asks(target) ==
    /\ probing' = [stage |-> "asked", only |-> probing.only, target |-> target]
    /\ UNCHANGED <<now, logVars, heldVars, docVars, mine, apart, followVars, countVars, left>>

\* One in four re-checks a suspect; otherwise, or with none, at random.
ChoosesSuspect(m) ==
    /\ Choosing /\ probing.only = None
    /\ \E own \in mine : \E targets \in {suspect_target(own)} :
           \E t \in targets : t.custodian = m /\ Asks(t)

ChoosesRandom(m) ==
    /\ Choosing /\ probing.only = None
    /\ \E targets \in {random_target(None)} : \E t \in targets : t.custodian = m /\ Asks(t)

ChoosesChecked ==
    /\ Choosing /\ probing.only # None
    /\ \E t \in IF latest_evidence(probing.only) # {} THEN latest_evidence(probing.only)
                ELSE random_target(probing.only) : Asks(t)

\* The item picked has no custodian to probe: none is made this time.
ChoosesNobody ==
    /\ Choosing
    /\ probing.only # None => latest_evidence(probing.only) = {}
    /\ \/ may_pick(probing.only) = {}
       \/ \E i \in may_pick(probing.only) : TargetsOf(i, probing.only) = {}
    /\ probing' = None
    /\ UNCHANGED <<now, logVars, heldVars, docVars, mine, apart, followVars, countVars, left>>

\* PledgedOnly::may_serve, as the custodian has applied the log; what is
\* probed is content.
may_serve(custodian) == pledges_the_minimum(applied[custodian], me)

probe_mutant(t) ==
    LET sent == may_serve(t.custodian) /\ <<t.item, t.chunk>> \in has[t.custodian]
    IN  IF t.custodian \in reachable /\ sent THEN "passed" ELSE "unreachable"

\* Blobs::probe: not connected is skipped; connected and not sent the chunk,
\* for whatever reason, is a failure.
probe(t) ==
    LET sent == may_serve(t.custodian) /\ <<t.item, t.chunk>> \in has[t.custodian]
    IN  CASE t.custodian \notin reachable -> "unreachable"
          [] t.custodian \in reachable /\ sent -> "passed"
          [] t.custodian \in reachable /\ ~sent -> "failed"

\* A chunk that comes too late is a failure as well.
Answers ==
    /\ probing # None /\ probing.stage = "asked"
    /\ \/ /\ probing' = [probing EXCEPT !.stage = probe(probing.target)]
          /\ UNCHANGED left
       \/ /\ probe(probing.target) = "passed" /\ Fails("timeout")
          /\ probing' = [probing EXCEPT !.stage = "failed"]
    /\ UNCHANGED <<now, logVars, heldVars, docVars, mine, apart, followVars, countVars>>

Without(own, m) == [n \in DOMAIN own \ {m} |-> own[n]]
With(own, m, failure) == [n \in DOMAIN own \cup {m} |-> IF n = m THEN failure ELSE own[n]]

\* Failures in a row, over what this node last recorded.
NextFailure(own, t) ==
    ProbeFailure(t.item, t.chunk,
                 IF t.custodian \in DOMAIN own THEN Min({own[t.custodian].in_a_row + 1, MaxInARow}) ELSE 1)

\* Kept, and then written: what a write that fails leaves in memory alone.
FailureIsWritten_mutant(own) ==
    /\ probing.stage = "failed"
    /\ mine' = {With(own, probing.target.custodian, NextFailure(own, probing.target))}
    /\ probing' = None
    /\ \/ record_probe_failure(probing.target.custodian, NextFailure(own, probing.target)) /\ UNCHANGED left
       \/ Fails("put") /\ UNCHANGED docVars
    /\ UNCHANGED apart

\* A pass of one that has not failed, or nobody reached: nothing to record.
NothingToRecord(own) ==
    /\ \/ probing.stage = "passed" /\ probing.target.custodian \notin DOMAIN own
       \/ probing.stage = "unreachable"
    /\ probing' = None
    /\ UNCHANGED <<docVars, mine, apart, left>>

\* A pass forgets this node's failure of the custodian, and then clears it in
\* the document, which may fail.
PassIsForgiven(own) ==
    /\ probing.stage = "passed" /\ probing.target.custodian \in DOMAIN own
    /\ mine' = {Without(own, probing.target.custodian)}
    /\ probing' = [probing EXCEPT !.stage = "clearing"]
    /\ UNCHANGED <<docVars, apart, left>>

FailureIsCleared ==
    /\ probing.stage = "clearing"
    /\ \/ /\ clear_probe_failure(probing.target.custodian)
          /\ apart' = apart \ {probing.target.custodian}
          /\ UNCHANGED left
       \/ /\ Fails("put")
          /\ apart' = apart \cup {probing.target.custodian}
          /\ UNCHANGED docVars
    /\ probing' = None
    /\ UNCHANGED mine

\* A failure is written in the document, unless that fails, and then remembered.
FailureIsWritten(own) ==
    /\ probing.stage = "failed"
    /\ \/ /\ record_probe_failure(probing.target.custodian, NextFailure(own, probing.target))
          /\ probing' = [probing EXCEPT !.stage = "written"]
          /\ UNCHANGED left
       \/ /\ Fails("put")
          /\ probing' = None
          /\ UNCHANGED docVars
    /\ UNCHANGED <<mine, apart>>

FailureIsKept(own) ==
    /\ probing.stage = "written"
    /\ mine' = {With(own, probing.target.custodian, NextFailure(own, probing.target))}
    /\ apart' = apart \ {probing.target.custodian}
    /\ probing' = None
    /\ UNCHANGED <<docVars, left>>

\* record
Records ==
    /\ probing # None
    /\ \E own \in mine : \/ NothingToRecord(own)
                        \/ PassIsForgiven(own) \/ FailureIsCleared
                        \/ FailureIsWritten(own) \/ FailureIsKept(own)
    /\ UNCHANGED <<now, logVars, heldVars, followVars, countVars>>

\* Of whom the one of memory and document is written, and the other is not yet.
HalfRecorded ==
    {m \in Other : /\ probing # None /\ probing.stage \in {"clearing", "written"}
                  /\ probing.target.custodian = m}

\* A check is made in its caller's request, and ends where it is when the
\* caller leaves.
Abandoned ==
    /\ probing # None /\ probing.only # None
    /\ Fails("client")
    /\ probing' = None
    /\ apart' = apart \cup HalfRecorded
    /\ UNCHANGED <<now, logVars, heldVars, docVars, mine, followVars, countVars>>

-----------------------------------------------------------------------------
(* failed_copies::follow                                                     *)

\* The copies said to be missing, and when the first of them stops counting.
failed_within(failures) ==
    LET within == {e \in failures : Counts(e)}
    IN  [copies |-> {<<e.key.of, e.value.item>> : e \in within},
         next_out |-> IF within = {} THEN None ELSE now + Min({left_in_window(e) : e \in within})]

FollowReads ==
    /\ follows.stage = "reading"
    /\ \/ /\ follows' = [follows EXCEPT !.stage = "read", !.failures = probe_failures]
          /\ UNCHANGED left
       \/ /\ Fails("read")
          /\ follows' = [stage |-> "failed", failures |-> {}, next_out |-> None]
    /\ UNCHANGED <<now, logVars, heldVars, docVars, probeVars, failed_copies, countVars>>

FollowSets ==
    /\ follows.stage = "read"
    /\ \E within \in {failed_within(follows.failures)} :
        /\ failed_copies' = within.copies
        /\ follows' = [stage |-> "waiting", failures |-> {}, next_out |-> within.next_out]
    /\ UNCHANGED <<now, logVars, heldVars, docVars, probeVars, countVars, left>>

\* Read again at the next change, or when the first failure stops counting.
FollowWakes ==
    /\ follows.stage \in {"waiting", "failed"}
    /\ \/ changed /\ changed' = FALSE
       \/ follows.next_out # None /\ follows.next_out <= now /\ UNCHANGED changed
    /\ follows' = [follows EXCEPT !.stage = "reading"]
    /\ UNCHANGED <<now, logVars, heldVars, doc, content, probeVars, failed_copies, countVars, left>>

\* Holders::real_holders
real_holders(item) == {m \in holders(item) : <<m, item>> \notin failed_copies}

-----------------------------------------------------------------------------
(* Coverage                                                                  *)

to_judge_mutant == Other \cap reachable

\* Online, and what they hold is known.
to_judge == (Other \cap reachable) \ unknown

\* count: those that do not announce an item they were assigned long enough ago.
LowOf(read) ==
    {m \in read.judged :
        \E i \in DOMAIN read.since :
            /\ now - read.since[i] >= max_settle_secs
            /\ m \in custodians(read.group, i, stored[i])
            /\ m \notin holders(i)}

\* count_now reads the assignments and whom to judge, and then each item.
CountStarts ==
    /\ counting = {}
    /\ counting' = {[group |-> assigned.group, since |-> [i \in held |-> assigned.since[i]], judged |-> to_judge]}
    /\ UNCHANGED <<now, logVars, heldVars, docVars, probeVars, followVars, counted, left>>

CountEnds ==
    /\ \E read \in counting :
        \/ counted' = LowOf(read) /\ UNCHANGED left
        \/ Fails("count") /\ UNCHANGED counted
    /\ counting' = {}
    /\ UNCHANGED <<now, logVars, heldVars, docVars, probeVars, followVars>>

-----------------------------------------------------------------------------
(* suspects.rs                                                               *)

RED_FROM_PROBERS == 2

\* A member's failures that count, between members.
suspects_among(m) ==
    {e \in probe_failures : /\ e.key.of = m
                            /\ {m, e.key.name} \subseteq DOMAIN membership
                            /\ Counts(e)}

is_red(m) == Cardinality(suspects_among(m)) >= RED_FROM_PROBERS

-----------------------------------------------------------------------------
(* What happens around it                                                    *)

\* Another member's entry, and later its content: each is told on the watch.
Arrives ==
    /\ \E e \in left.arrives :
        /\ doc' = Merged(doc \cup {e})
        /\ left' = [left EXCEPT !.arrives = @ \ {e}]
    /\ content' = content \cap doc'
    /\ changed' = TRUE
    /\ UNCHANGED <<now, logVars, heldVars, probeVars, followVars, countVars>>

ContentArrives ==
    /\ \E e \in all(doc) \ content : content' = content \cup {e}
    /\ changed' = TRUE
    /\ UNCHANGED <<now, logVars, heldVars, doc, probeVars, followVars, countVars, left>>

\* The log is applied here, and by each other member when it hears of it.
MembershipMoves ==
    /\ left.groups # <<>>
    /\ membership' = Head(left.groups)
    /\ left' = [left EXCEPT !.groups = Tail(@)]
    /\ UNCHANGED <<now, applied, assigned, heldVars, docVars, probeVars, followVars, countVars>>

CatchesUp(m) ==
    /\ applied[m] # membership
    /\ applied' = [applied EXCEPT ![m] = membership]
    /\ UNCHANGED <<now, membership, assigned, heldVars, docVars, probeVars, followVars, countVars, left>>

\* Custody settles on the group as it is (see Custody): everything is assigned anew.
Assigned(group) == [group |-> group, since |-> [i \in Item |-> now]]

CustodyMoves ==
    /\ assigned.group # membership
    /\ assigned' = Assigned(membership)
    /\ UNCHANGED <<now, membership, applied, heldVars, docVars, probeVars, followVars, countVars, left>>

\* A member's disk fails it, which its own records do not show.
LosesChunks ==
    /\ \E lost \in left.loses :
        /\ has' = [has EXCEPT ![lost[1]] = @ \ ({lost[2]} \X Chunk)]
        /\ left' = [left EXCEPT !.loses = @ \ {lost}]
    /\ UNCHANGED <<now, logVars, held, claims, announced, unknown, reachable, docVars, probeVars, followVars, countVars>>

\* A member lets go of an item, and its next beat says so.
Evicts ==
    /\ \E evicted \in left.evicts :
        /\ has' = [has EXCEPT ![evicted[1]] = @ \ ({evicted[2]} \X Chunk)]
        /\ claims' = [claims EXCEPT ![evicted[1]] = @ \ {evicted[2]}]
        /\ left' = [left EXCEPT !.evicts = @ \ {evicted}]
    /\ UNCHANGED <<now, logVars, held, announced, unknown, reachable, docVars, probeVars, followVars, countVars>>

Beats(m) ==
    /\ m \in reachable /\ announced[m] # claims[m]
    /\ announced' = [announced EXCEPT ![m] = claims[m]]
    /\ UNCHANGED <<now, logVars, held, has, claims, unknown, reachable, docVars, probeVars, followVars, countVars, left>>

\* A beat names a base list this node has not got: what the member holds is
\* unknown until it is fetched.
NamesABase ==
    /\ \E m \in left.bases :
        /\ unknown' = unknown \cup {m}
        /\ left' = [left EXCEPT !.bases = @ \ {m}]
    /\ UNCHANGED <<now, logVars, held, has, claims, announced, reachable, docVars, probeVars, followVars, countVars>>

BaseArrives ==
    /\ \E m \in unknown \cap reachable : unknown' = unknown \ {m}
    /\ UNCHANGED <<now, logVars, held, has, claims, announced, reachable, docVars, probeVars, followVars, countVars, left>>

GoesOrComes ==
    /\ \E m \in left.offline :
        /\ reachable' = IF m \in reachable THEN reachable \ {m} ELSE reachable \cup {m}
        /\ left' = [left EXCEPT !.offline = IF m \in reachable THEN @ ELSE @ \ {m}]
    /\ UNCHANGED <<now, logVars, held, has, claims, announced, unknown, docVars, probeVars, followVars, countVars>>

Ticks ==
    /\ now < MaxTime
    /\ now' = now + 1
    /\ UNCHANGED <<logVars, heldVars, docVars, probeVars, followVars, countVars, left>>

\* What is not in the document is gone, and custody makes its pass again.
Restarts ==
    /\ left.restarts > 0
    /\ left' = [left EXCEPT !.restarts = @ - 1]
    /\ assigned' = Assigned(membership)
    /\ mine' = {} /\ probing' = None /\ apart' = {}
    /\ follows' = [stage |-> "reading", failures |-> {}, next_out |-> None]
    /\ changed' = FALSE
    /\ failed_copies' = {} /\ counting' = {} /\ counted' = {}
    /\ UNCHANGED <<now, membership, applied, heldVars, doc, content>>

-----------------------------------------------------------------------------

Everything == Item \X Chunk

Init ==
    \E s \in Scenarios :
        /\ now = 0
        /\ membership = s.group /\ applied = s.applied
        /\ assigned = Assigned(s.group)
        /\ held = s.held
        /\ has = [m \in Other |-> s.claims[m] \X Chunk]
        /\ claims = s.claims /\ announced = s.claims
        /\ unknown = s.unknown /\ reachable = Other
        /\ doc = s.doc /\ content = s.doc
        /\ mine = {} /\ probing = None /\ apart = {}
        /\ follows = [stage |-> "reading", failures |-> {}, next_out |-> None]
        /\ changed = FALSE
        /\ failed_copies = {} /\ counting = {} /\ counted = {}
        /\ left = s.left

Probing ==
    \/ ProbeStarts \/ Loads \/ Answers \/ Records
    \/ \E m \in Other : CheckStarts(m) \/ ChoosesSuspect(m) \/ ChoosesRandom(m)
    \/ ChoosesChecked \/ ChoosesNobody

Following == FollowReads \/ FollowSets \/ FollowWakes

Counting == CountStarts \/ CountEnds

Around ==
    \/ Arrives \/ ContentArrives
    \/ MembershipMoves
    \/ LosesChunks \/ Evicts \/ NamesABase \/ BaseArrives \/ GoesOrComes
    \/ Abandoned \/ Restarts

Passes == Ticks \/ CustodyMoves \/ \E m \in Other : CatchesUp(m) \/ Beats(m)

Next == Probing \/ Following \/ Counting \/ Passes \/ Around

\* The tasks run.  Time passes, beats come, the log is applied and custody
\* settles: these come to an end, so none is kept waiting by the others.  Whom
\* a probe is of is drawn at random, of a suspect one time in four: whoever may
\* be drawn again and again is.
Fairness ==
    /\ WF_vars(Probing) /\ WF_vars(Following) /\ WF_vars(Counting) /\ WF_vars(Passes)
    /\ \A m \in Other : SF_vars(ChoosesSuspect(m)) /\ SF_vars(ChoosesRandom(m))

Spec == Init /\ [][Next]_vars /\ Fairness

-----------------------------------------------------------------------------
(* Properties                                                                *)

TypeOK ==
    /\ now \in 0 .. MaxTime
    /\ held \subseteq Item /\ has \in [Other -> SUBSET Everything]
    /\ {claims, announced} \subseteq [Other -> SUBSET Item]
    /\ unknown \cup reachable \subseteq Other
    /\ content \subseteq doc
    /\ \A own \in mine : DOMAIN own \subseteq Other /\ \A m \in DOMAIN own : own[m] \in Failure
    /\ Cardinality(mine) <= 1 /\ Cardinality(counting) <= 1
    /\ changed \in BOOLEAN
    /\ failed_copies \subseteq Member \X Item
    /\ counted \cup apart \subseteq Other

\* probes.rs keeps this node's own failures in memory once it has read them,
\* and decides from them what to clear and how many came in a row.  They stay
\* what the document says of this node, whoever else writes there, except of a
\* custodian whose probe is being recorded, and of one whose probe was recorded
\* halfway: the write that clears it failed, or the check was abandoned between
\* the document and memory.
CacheIsTheDocument ==
    \A own \in mine :
        \A m \in Other \ (apart \cup HalfRecorded) :
            /\ m \in DOMAIN own <=> m \in DOMAIN MyFailures
            /\ m \in DOMAIN own => own[m] = MyFailures[m]

\* suspects.rs: "A member is red once at least two probers have one": two
\* members wrote it themselves, and neither has taken it back, so that nobody
\* makes a member a candidate for expulsion alone.
RedByTwo ==
    \A m \in Member :
        is_red(m) => Cardinality({e.author : e \in {f \in all(doc) : f.key.kind = "probe" /\ f.key.of = m}}) >= 2

\* failed_copies.rs: the copies not counted are those of the failures within
\* the window, read again when one is written and when one leaves the window,
\* unless a read failed and nothing has changed since.
FailedNow(copy) == \E e \in probe_failures : Counts(e) /\ copy = <<e.key.of, e.value.item>>

FailedCopiesInTheEnd ==
    \A m \in Other, i \in Item :
        /\ <>[]FailedNow(<<m, i>>) => <>[](<<m, i>> \in failed_copies \/ follows.stage = "failed")
        /\ <>[]~FailedNow(<<m, i>>) => <>[](<<m, i>> \notin failed_copies \/ follows.stage = "failed")

\* probes.rs: "this node's next pass of that custodian clears it": a custodian
\* that is reached, has what it announces and sends it is asked again, though
\* this node holds nothing of the item itself any longer, unless a probe of it
\* was recorded halfway.
Serves(m) ==
    /\ ~refusal /\ m \in reachable \ unknown /\ may_serve(m)
    /\ announced[m] \X Chunk \subseteq has[m]

ClearedInTheEnd ==
    \A m \in Other :
        (m \in DOMAIN MyFailures) ~>
            \/ m \notin DOMAIN MyFailures \/ m \in apart
            \/ ~Serves(m) \/ MyFailures[m].item \notin announced[m]

\* A custodian that says it holds what it has lost all of is found out: its
\* copy of something is not counted (Holders::real_holders), by this node's own
\* probes alone.
Pretends(m) ==
    /\ ~refusal /\ m \in reachable \ unknown /\ announced[m] # {} /\ has[m] = {}
    /\ \A i \in held : m \in custodians(assigned.group, i, stored[i])
    /\ held \cap announced[m] # {}

LostIsFound ==
    \A m \in Other :
        <>[]Pretends(m) => <>[](\/ \E i \in announced[m] : m \notin real_holders(i)
                               \/ follows.stage = "failed")

\* coverage.rs: a member online, whose list is known, is low for as long as it
\* does not announce what it has had time to fetch, and only then; what is
\* counted follows what is announced.
ShouldBeLow(m) ==
    /\ m \in reachable \ unknown
    /\ \E i \in held : /\ is_custodian(assigned.group, i, stored[i], m)
                       /\ now >= assigned.since[i] + max_settle_secs
                       /\ i \notin announced[m]

LowInTheEnd ==
    \A m \in Other : /\ <>[]ShouldBeLow(m) => <>[](m \in counted)
                     /\ <>[]~ShouldBeLow(m) => <>[](m \notin counted)

\* What this node remembers of its probes is what the document says, and nobody
\* is a candidate for expulsion on one member's word (probes.rs record,
\* suspects.rs).
ProbesInv == TypeOK /\ CacheIsTheDocument /\ RedByTwo

\* A lost copy is found, and a copy counts as failed exactly while somebody's
\* failure of it is within the window (probes.rs probe, failed_copies.rs).
FoundInTheEnd == LostIsFound /\ FailedCopiesInTheEnd

=============================================================================
