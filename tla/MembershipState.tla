-------------------------- MODULE MembershipState --------------------------
(***************************************************************************)
(* The projection of distlib-consensus: committed log entries folded into  *)
(* who the group is (crates/distlib-consensus/src/state.rs).               *)
(*                                                                         *)
(* The log hands the fold one entry per index.  An entry either applies -  *)
(* one of the actions Found, SubmitDecided, SubmitWaiting, ApproveWaiting, *)
(* ApproveDecided, Withdraw below - or leaves the state alone (NoEffect: a *)
(* Raft blank or configuration entry, or an entry some rule refused).      *)
(* Display names, reasons and signatures are abstracted: a signature that  *)
(* does not verify is one more refused entry.                              *)
(***************************************************************************)
EXTENDS Integers, Sequences, FiniteSets

CONSTANTS
    Member,        \* ids of people who are, were or may become members
    Addr,          \* node addresses
    CoreList,      \* the (id, addr) lists a CoreGroupChanged may carry
    FounderList,   \* the (id, addr) lists a GroupFounded may carry
    Settings,      \* the settings a GroupFounded may carry that agree with each other
    DefaultSettings, \* GroupSettings::default()
    Pledge,        \* the byte counts a PledgeChanged may carry
    Protocol,      \* the protocol numbers an event may carry
    MaxIndex       \* bound: how many log entries a behaviour has

AllSettings == [pending_expiry : Nat \ {0}, min_pledge_bytes : Nat]

ASSUME MemberFinite == IsFiniteSet(Member)
ASSUME CoreListType == CoreList \subseteq Seq(Member \X Addr)
ASSUME FounderListType == FounderList \subseteq Seq(Member \X Addr)
ASSUME SettingsType == Settings \subseteq AllSettings /\ DefaultSettings \in AllSettings
ASSUME NumbersType == Pledge \subseteq Nat /\ Protocol \subseteq Nat /\ MaxIndex \in Nat

VARIABLES
    log_index,  \* index of the last entry handed to the fold
    group,      \* whether the group has been founded
    members,    \* id |-> [pledge_bytes, protocol_max], for the current members
    core,       \* id |-> address, for the current Raft voters
    pending,    \* log index |-> proposal waiting for approvals
    changed_at, \* index of the last entry that changed this state
    settings,   \* what the group decided at founding
    protocol    \* the group protocol, 0 before founding

vars == <<log_index, group, members, core, pending, changed_at, settings, protocol>>

FIRST_PROTOCOL == 1

-----------------------------------------------------------------------------
(* Events: the vocabulary of MembershipEvent a proposal can be made of.    *)

MemberAdded == [kind : {"MemberAdded"}, member : Member]
MemberExpelled == [kind : {"MemberExpelled"}, member : Member]
PledgeChanged == [kind : {"PledgeChanged"}, member : Member, pledge_bytes : Pledge]
CoreGroupChanged == [kind : {"CoreGroupChanged"}, core : CoreList]
ProtocolSupported == [kind : {"ProtocolSupported"}, member : Member, max : Protocol]
ProtocolRaised == [kind : {"ProtocolRaised"}, to : Protocol]

Event == MemberAdded \cup MemberExpelled \cup PledgeChanged
            \cup CoreGroupChanged \cup ProtocolSupported \cup ProtocolRaised

Proposal == [event : Event, proposer : Member, approvals : SUBSET Member]

MemberRecord == [pledge_bytes : Nat, protocol_max : Nat]

\* The member whose own approval must not count: the one being expelled.
target(e) == IF e.kind = "MemberExpelled" THEN {e.member} ELSE {}

\* What a proposal is about; "none" for what never waits.
subject(e) ==
    CASE e.kind \in {"MemberAdded", "MemberExpelled"} -> <<"Member", e.member>>
      [] e.kind = "CoreGroupChanged" -> <<"CoreGroup">>
      [] e.kind = "ProtocolRaised" -> <<"Protocol">>
      [] OTHER -> <<>>

-----------------------------------------------------------------------------
(* (id, addr) lists.                                                       *)

Named(list) == {list[k][1] : k \in DOMAIN list}

\* Collecting a list into a map: the last pair that names an id wins.
AddrIn(list, m) ==
    list[CHOOSE k \in DOMAIN list :
            /\ list[k][1] = m
            /\ \A l \in DOMAIN list : list[l][1] = m => l <= k][2]

Folded(list) == [m \in Named(list) |-> AddrIn(list, m)]

NoDuplicates(list) ==
    \A k, l \in DOMAIN list : list[k][1] = list[l][1] => k = l

\* Whether a change of the core group from `before` to `now` moved m.
Moved(m, before, now) ==
    \/ m \in (DOMAIN before \ DOMAIN now) \cup (DOMAIN now \ DOMAIN before)
    \/ m \in DOMAIN before \cap DOMAIN now /\ before[m] # now[m]

\* Mutant: only the members the change added or moved count, not those it took.
superseded_by_mutant(list, before, now) ==
    \E m \in Named(list) \cap DOMAIN now :
        Moved(m, before, now) /\ now[m] # AddrIn(list, m)

superseded_by(list, before, now) ==
    \E m \in Named(list) :
        /\ Moved(m, before, now)
        /\ ~ (m \in DOMAIN now /\ now[m] = AddrIn(list, m))

-----------------------------------------------------------------------------
(* The rules of the fold, against the state as it stands.                  *)

is_core(m) == m \in DOMAIN core
is_member(m) == m \in DOMAIN members
speaks(m, p) == is_member(m) /\ members[m].protocol_max >= p
core_supports(ms, p) == \A m \in ms : speaks(m, p)

check_pledge(bytes) == bytes >= settings.min_pledge_bytes

authorise(proposer, e) ==
    /\ e.kind = "PledgeChanged" => e.member = proposer /\ check_pledge(e.pledge_bytes)
    /\ e.kind = "CoreGroupChanged" => is_core(proposer)
    /\ e.kind = "ProtocolSupported" => e.member = proposer /\ e.max >= protocol
    /\ e.kind = "ProtocolRaised" => e.to = protocol + 1 /\ core_supports(DOMAIN core, e.to)

Majority == Cardinality(DOMAIN core) \div 2 + 1

changes_the_voters(e) ==
    \/ e.kind = "MemberExpelled" /\ is_core(e.member)
    \/ /\ e.kind = "CoreGroupChanged"
       /\ \/ Len(e.core) # Cardinality(DOMAIN core)
          \/ ~ (Named(e.core) \subseteq DOMAIN core)

\* Mutant: a raise is one more change that takes a single approval.
approvals_needed_mutant(e) ==
    CASE e.kind \in {"PledgeChanged", "ProtocolSupported"} -> 0
      [] changes_the_voters(e) -> Majority
      [] OTHER -> 1

approvals_needed(e) ==
    CASE e.kind \in {"PledgeChanged", "ProtocolSupported"} -> 0
      [] e.kind = "ProtocolRaised" \/ changes_the_voters(e) -> Majority
      [] OTHER -> 1

\* Mutant: approvals of people who left the core group still count.
counting_mutant(approvals) == approvals

counting(approvals) == approvals \cap DOMAIN core
decided(e, approvals) == Cardinality(counting(approvals)) >= approvals_needed(e)

expired(p, index) == index - p > settings.pending_expiry

still_allowed(index, p, approver) ==
    /\ ~ expired(p, index)
    /\ approver \notin target(pending[p].event)
    /\ is_member(pending[p].proposer)
    /\ authorise(pending[p].proposer, pending[p].event)

-----------------------------------------------------------------------------
(* What a decided change does: apply_to_founded_group and enact.           *)

Enactable(e) ==
    /\ e.kind \in {"MemberExpelled", "PledgeChanged", "ProtocolSupported"}
            => is_member(e.member)
    /\ e.kind = "CoreGroupChanged" =>
            /\ Named(e.core) # {}
            /\ Named(e.core) \subseteq DOMAIN members
            /\ NoDuplicates(e.core)
            /\ core_supports(Named(e.core), protocol)

NewRecord == [pledge_bytes |-> 0, protocol_max |-> FIRST_PROTOCOL]

MembersAfter(e) ==
    CASE e.kind = "MemberAdded" ->
            [m \in DOMAIN members \cup {e.member} |->
                IF is_member(m) THEN members[m] ELSE NewRecord]
      [] e.kind = "MemberExpelled" ->
            [m \in DOMAIN members \ {e.member} |-> members[m]]
      [] e.kind = "PledgeChanged" ->
            [members EXCEPT ![e.member].pledge_bytes = e.pledge_bytes]
      [] e.kind = "ProtocolSupported" ->
            [members EXCEPT ![e.member].protocol_max = e.max]
      [] OTHER -> members

CoreAfter(e) ==
    CASE e.kind = "MemberExpelled" -> [m \in DOMAIN core \ {e.member} |-> core[m]]
      [] e.kind = "CoreGroupChanged" -> Folded(e.core)
      [] OTHER -> core

ProtocolAfter(e) == IF e.kind = "ProtocolRaised" THEN e.to ELSE protocol

\* The waiting proposals that enacting e leaves in force.
Unanswered(e, waiting) ==
    {p \in waiting :
        IF pending[p].event.kind = "CoreGroupChanged"
        THEN ~ superseded_by(pending[p].event.core, core, CoreAfter(e))
        ELSE subject(pending[p].event) # subject(e)}

\* The proposals the sweep after a successful entry leaves in force.
Unswept(index, ps, s) == {p \in ps : index - p < s.pending_expiry}

Enact(index, e, waiting) ==
    /\ Enactable(e)
    /\ members' = MembersAfter(e)
    /\ core' = CoreAfter(e)
    /\ protocol' = ProtocolAfter(e)
    /\ pending' = [p \in Unswept(index, Unanswered(e, waiting), settings) |-> pending[p]]

-----------------------------------------------------------------------------
Init ==
    /\ log_index = 0
    /\ group = FALSE
    /\ members = [m \in {} |-> NewRecord]
    /\ core = [m \in {} |-> NewRecord]
    /\ pending = [p \in {} |-> NewRecord]
    /\ changed_at = 0
    /\ settings = DefaultSettings
    /\ protocol = 0

\* The next entry lands at the next index.
Landing == log_index + 1

\* What MembershipState::apply does around every entry that applies: the
\* entry was signed against the membership as it is, and becomes the last
\* entry that changed it.
Applied(signed_at) ==
    /\ log_index < MaxIndex
    /\ signed_at = changed_at
    /\ log_index' = Landing
    /\ changed_at' = Landing

ByMember(proposer) == group /\ is_member(proposer)

Found(signed_at, proposer, founders, chosen) ==
    /\ Applied(signed_at)
    /\ ~ group
    /\ founders # <<>> /\ NoDuplicates(founders)
    /\ proposer \in Named(founders)
    /\ group' = TRUE
    /\ settings' = chosen
    /\ protocol' = FIRST_PROTOCOL
    /\ members' = [m \in Named(founders) |-> NewRecord]
    /\ core' = Folded(founders)
    /\ pending' = [p \in Unswept(Landing, DOMAIN pending, chosen) |-> pending[p]]

\* Mutant: a core proposer's own approval counts whoever the target is.
OwnApproval_mutant(proposer, e) == {proposer} \cap DOMAIN core

\* The approvals a submission arrives with.
OwnApproval(proposer, e) == ({proposer} \cap DOMAIN core) \ target(e)

\* submit, enacting at once.
SubmitDecided(signed_at, proposer, e) ==
    /\ Applied(signed_at)
    /\ ByMember(proposer)
    /\ authorise(proposer, e)
    /\ decided(e, OwnApproval(proposer, e))
    /\ Enact(Landing, e, DOMAIN pending)
    /\ UNCHANGED <<group, settings>>

\* submit, waiting for more approvals.
SubmitWaiting(signed_at, proposer, e) ==
    /\ Applied(signed_at)
    /\ ByMember(proposer)
    /\ authorise(proposer, e)
    /\ ~ decided(e, OwnApproval(proposer, e))
    /\ \A p \in DOMAIN pending :
            expired(p, Landing) \/ subject(pending[p].event) # subject(e)
    /\ pending' = [p \in Unswept(Landing, DOMAIN pending \cup {Landing}, settings) |->
                    IF p = Landing
                    THEN [event |-> e, proposer |-> proposer,
                          approvals |-> OwnApproval(proposer, e)]
                    ELSE pending[p]]
    /\ UNCHANGED <<group, members, core, settings, protocol>>

\* approve, leaving the proposal short of its threshold.
ApproveWaiting(signed_at, approver, p) ==
    /\ Applied(signed_at)
    /\ ByMember(approver) /\ is_core(approver)
    /\ p \in DOMAIN pending
    /\ still_allowed(Landing, p, approver)
    /\ ~ decided(pending[p].event, pending[p].approvals \cup {approver})
    /\ pending' = [q \in Unswept(Landing, DOMAIN pending, settings) |->
                    IF q = p
                    THEN [pending[q] EXCEPT !.approvals = @ \cup {approver}]
                    ELSE pending[q]]
    /\ UNCHANGED <<group, members, core, settings, protocol>>

\* approve, reaching the threshold.
ApproveDecided(signed_at, approver, p) ==
    /\ Applied(signed_at)
    /\ ByMember(approver) /\ is_core(approver)
    /\ p \in DOMAIN pending
    /\ still_allowed(Landing, p, approver)
    /\ decided(pending[p].event, pending[p].approvals \cup {approver})
    /\ Enact(Landing, pending[p].event, DOMAIN pending \ {p})
    /\ UNCHANGED <<group, settings>>

Withdraw(signed_at, proposer, p) ==
    /\ Applied(signed_at)
    /\ ByMember(proposer)
    /\ p \in DOMAIN pending
    /\ pending[p].proposer = proposer
    /\ pending' = [q \in Unswept(Landing, DOMAIN pending \ {p}, settings) |-> pending[q]]
    /\ UNCHANGED <<group, members, core, settings, protocol>>

\* A Raft blank or configuration entry, or a refused one: only the log grows.
NoEffect ==
    /\ log_index < MaxIndex
    /\ log_index' = Landing
    /\ UNCHANGED <<group, members, core, pending, changed_at, settings, protocol>>

Next ==
    \/ NoEffect
    \/ \E signed_at \in 0..MaxIndex, m \in Member :
        \/ \E founders \in FounderList, chosen \in Settings :
                Found(signed_at, m, founders, chosen)
        \/ \E e \in Event : SubmitDecided(signed_at, m, e)
        \/ \E e \in Event : SubmitWaiting(signed_at, m, e)
        \/ \E p \in DOMAIN pending : ApproveWaiting(signed_at, m, p)
        \/ \E p \in DOMAIN pending : ApproveDecided(signed_at, m, p)
        \/ \E p \in DOMAIN pending : Withdraw(signed_at, m, p)

Spec == Init /\ [][Next]_vars

-----------------------------------------------------------------------------
(* Properties.                                                             *)

PartialMap(f, D, R) == DOMAIN f \subseteq D /\ \A x \in DOMAIN f : f[x] \in R

\* The state has the shape of the struct, and `changed_at` and the keys of
\* `pending` are indexes of entries the log has already handed over.
TypeOK ==
    /\ log_index \in Nat
    /\ group \in BOOLEAN
    /\ PartialMap(members, Member, MemberRecord)
    /\ PartialMap(core, Member, Addr)
    /\ PartialMap(pending, 1..log_index, Proposal)
    /\ changed_at \in 0..log_index
    /\ settings \in AllSettings
    /\ protocol \in Nat

\* Raft never expects a vote from somebody the allowlist refuses: every core
\* node is a member, through every expulsion, re-admission and map change.
CoreAreMembers == DOMAIN core \subseteq DOMAIN members

\* A founded group always has a voter, so it can always commit something: no
\* sequence of expulsions and core changes empties the core group.
CoreNeverEmpty == group => DOMAIN core # {}

\* Whoever votes can follow the log it votes on: a raise in flight, a
\* promotion and a re-admission never leave a core node below the group
\* protocol.
CoreSpeaksProtocol == core_supports(DOMAIN core, protocol)

\* Approvals are never split: two waiting proposals never share a subject,
\* although an expired one stops holding its slot before it is swept.
OneProposalPerSubject ==
    \A p, q \in DOMAIN pending :
        subject(pending[p].event) = subject(pending[q].event) => p = q

\* A proposal that is still listed has not outlived `pending_expiry`, counted
\* from the last change: a fresh list after every successful entry.
PendingIsFresh ==
    \A p \in DOMAIN pending :
        p <= changed_at /\ changed_at - p < settings.pending_expiry

\* The member an expulsion is about is never among those who approved it,
\* neither as its proposer nor by a later approval.
TargetHasNoSay ==
    \A p \in DOMAIN pending :
        pending[p].approvals \cap target(pending[p].event) = {}

\* A member pledges nothing or at least the group's minimum, whatever is
\* added, corrected, expelled and re-admitted in between.
PledgeKeepsTheMinimum ==
    \A m \in DOMAIN members :
        members[m].pledge_bytes # 0
            => members[m].pledge_bytes >= settings.min_pledge_bytes

\* A step in which a majority of the current voters is heard: a current voter's
\* approval brings a waiting proposal to a majority of current voters -
\* approvals of people since demoted or expelled not counted - or the group has
\* a single voter.
ByMajority ==
    \/ Cardinality(DOMAIN core) = 1
    \/ \E p \in DOMAIN pending \ DOMAIN pending', voter \in DOMAIN core :
            Cardinality((pending[p].approvals \cup {voter}) \cap DOMAIN core)
                > Cardinality(DOMAIN core) \div 2

\* Who votes changes only by a majority of those who vote now, whether by a
\* core map or by the expulsion of a voter.
VotersMoveByMajority ==
    [][group /\ DOMAIN core' # DOMAIN core => ByMajority]_vars

\* The group protocol never goes down and never skips a number, and only a
\* majority of the voters raises it.
ProtocolClimbs ==
    [][group /\ protocol' # protocol => protocol' = protocol + 1 /\ ByMajority]_vars

\* What holds of the projection after every entry, whatever the log holds
\* (MembershipState::apply): the voters are members who speak the protocol and
\* are never none, waiting proposals are fresh, distinct and not approved by
\* their target, and pledges keep the minimum.  None of the parts that matter
\* is inductive alone; together they are.
FoldInv ==
    /\ TypeOK
    /\ CoreAreMembers
    /\ CoreNeverEmpty
    /\ CoreSpeaksProtocol
    /\ OneProposalPerSubject
    /\ PendingIsFresh
    /\ TargetHasNoSay
    /\ PledgeKeepsTheMinimum

=============================================================================
