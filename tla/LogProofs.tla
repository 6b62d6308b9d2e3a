-------------------------------- MODULE LogProofs --------------------------------
(***************************************************************************)
(* Theorems about the membership log: the fold, for every set of members,  *)
(* addresses, lists, settings and protocols and for logs of every length,  *)
(* and a follower, for every log, every set of servers and any number of   *)
(* outages, failed writes and restarts.                                    *)
(*                                                                         *)
(* The fold.  The invariants of MembershipState are proved together:       *)
(* FoldInv is their conjunction and is inductive.  Two of them carry the   *)
(* others: the target of an expulsion has no say (TargetHasNoSay), so      *)
(* whoever approved one is still core after it (CoreNeverEmpty); and a     *)
(* submission is refused while an unexpired proposal holds its subject,    *)
(* while the sweep that follows removes the expired ones                   *)
(* (OneProposalPerSubject).                                                *)
(*                                                                         *)
(* A follower.  Truth is the fold of the log, one entry at a time (LogOK). *)
(* A page being folded is exactly the events between the last one folded   *)
(* and where the page ends (PageIsNext), and what lies between two events  *)
(* folds into nothing, so memory is always the fold of a prefix (StatesOK),*)
(* whose protocol the group has at least (ProtocolGrows).                  *)
(***************************************************************************)
EXTENDS MembershipHistory, Follower, FiniteSetTheorems, FunctionTheorems, WellFoundedInduction, TLAPS

-----------------------------------------------------------------------------
(* (id, addr) lists.                                                       *)

\* The ids a list names are member ids, and a duplicate-free list folds into
\* a map from them to addresses.
LEMMA FoldedType ==
    ASSUME NEW list \in Seq(Member \X Addr), NoDuplicates(list)
    PROVE  /\ DOMAIN Folded(list) = Named(list)
           /\ PartialMap(Folded(list), Member, Addr)
<1>1. Named(list) \subseteq Member
  BY DEF Named
<1>2. ASSUME NEW m \in Named(list)
      PROVE  AddrIn(list, m) \in Addr
  <2>1. PICK k \in DOMAIN list : list[k][1] = m
    BY DEF Named
  <2>2. \A l \in DOMAIN list : list[l][1] = m => l <= k
    BY <2>1 DEF NoDuplicates
  <2> DEFINE last == CHOOSE i \in DOMAIN list :
                        /\ list[i][1] = m
                        /\ \A l \in DOMAIN list : list[l][1] = m => l <= i
  <2>3. last \in DOMAIN list
    BY <2>1, <2>2
  <2>4. list[last] \in Member \X Addr
    BY <2>3
  <2> QED
    BY <2>4 DEF AddrIn
<1> QED
  BY <1>1, <1>2 DEF Folded, PartialMap

\* A non-empty list names somebody.
LEMMA NamedNonEmpty ==
    ASSUME NEW list \in Seq(Member \X Addr), list # <<>>
    PROVE  Named(list) # {}
<1>1. 1 \in DOMAIN list
  OBVIOUS
<1> QED
  BY <1>1 DEF Named

-----------------------------------------------------------------------------
(* One decided change.                                                     *)

\* Putting an authorised change into force keeps what the fold says of the
\* members, the core group and the protocol.
LEMMA EnactKeeps ==
    ASSUME TypeOK, CoreAreMembers, CoreSpeaksProtocol, PledgeKeepsTheMinimum,
           NEW e \in Event, NEW proposer \in Member, NEW index, NEW waiting,
           authorise(proposer, e), Enact(index, e, waiting),
           settings' = settings
    PROVE  /\ PartialMap(members', Member, MemberRecord)
           /\ PartialMap(core', Member, Addr)
           /\ protocol' \in Nat
           /\ CoreAreMembers'
           /\ CoreSpeaksProtocol'
           /\ PledgeKeepsTheMinimum'
<1> USE NumbersType, CoreListType
<1>0. /\ members' = MembersAfter(e)
      /\ core' = CoreAfter(e)
      /\ protocol' = ProtocolAfter(e)
      /\ Enactable(e)
  BY DEF Enact
<1>a. /\ PartialMap(members, Member, MemberRecord)
      /\ PartialMap(core, Member, Addr)
      /\ protocol \in Nat
      /\ settings \in AllSettings
  BY DEF TypeOK
<1> USE DEF PartialMap, MemberRecord, CoreAreMembers, CoreSpeaksProtocol,
            PledgeKeepsTheMinimum, core_supports, speaks, is_member, check_pledge
<1>1. CASE e \in MemberAdded
  BY <1>0, <1>a, <1>1
     DEF MemberAdded, MembersAfter, CoreAfter, ProtocolAfter, NewRecord, FIRST_PROTOCOL
<1>2. CASE e \in MemberExpelled
  BY <1>0, <1>a, <1>2 DEF MemberExpelled, MembersAfter, CoreAfter, ProtocolAfter
<1>3. CASE e \in PledgeChanged
  BY <1>0, <1>a, <1>3
     DEF PledgeChanged, MembersAfter, CoreAfter, ProtocolAfter, Enactable, authorise
<1>4. CASE e \in CoreGroupChanged
  <2>1. e.core \in Seq(Member \X Addr) /\ NoDuplicates(e.core)
    BY <1>0, <1>4 DEF CoreGroupChanged, Enactable
  <2>2. core' = Folded(e.core) /\ members' = members /\ protocol' = protocol
    BY <1>0, <1>4 DEF CoreGroupChanged, MembersAfter, CoreAfter, ProtocolAfter
  <2>3. DOMAIN core' = Named(e.core) /\ PartialMap(core', Member, Addr)
    BY <2>1, <2>2, FoldedType DEF Folded
  <2>4. /\ Named(e.core) \subseteq DOMAIN members
        /\ core_supports(Named(e.core), protocol)
    BY <1>0, <1>4 DEF CoreGroupChanged, Enactable
  <2> QED
    BY <1>a, <2>2, <2>3, <2>4
<1>5. CASE e \in ProtocolSupported
  BY <1>0, <1>a, <1>5
     DEF ProtocolSupported, MembersAfter, CoreAfter, ProtocolAfter, Enactable, authorise
<1>6. CASE e \in ProtocolRaised
  BY <1>0, <1>a, <1>6
     DEF ProtocolRaised, MembersAfter, CoreAfter, ProtocolAfter, authorise
<1> QED
  BY <1>1, <1>2, <1>3, <1>4, <1>5, <1>6 DEF Event

\* Whoever approves an expulsion of a core member outlasts it, and a core map
\* that is put into force names somebody: a voter is always left.
LEMMA EnactLeavesAVoter ==
    ASSUME TypeOK, DOMAIN core # {},
           NEW e \in Event, NEW index, NEW waiting,
           NEW approvals \in SUBSET Member, approvals \cap target(e) = {},
           decided(e, approvals), Enact(index, e, waiting)
    PROVE  DOMAIN core' # {}
<1> USE CoreListType
<1>0. core' = CoreAfter(e) /\ Enactable(e)
  BY DEF Enact
<1>1. CASE e \in MemberExpelled /\ e.member \in DOMAIN core
  <2>1. IsFiniteSet(DOMAIN core) /\ IsFiniteSet(approvals \cap DOMAIN core)
    BY MemberFinite, FS_Subset DEF TypeOK, PartialMap
  <2>2. Cardinality(DOMAIN core) \in Nat
    BY <2>1, FS_CardinalityType
  <2>3. approvals_needed(e) = Cardinality(DOMAIN core) \div 2 + 1
    BY <1>1 DEF MemberExpelled, approvals_needed, changes_the_voters, is_core, Majority
  <2>4. Cardinality(approvals \cap DOMAIN core) >= 1
    BY <2>2, <2>3, <2>1, FS_CardinalityType DEF decided, counting
  <2>e. approvals \cap DOMAIN core # {}
    <3>1. Cardinality(approvals \cap DOMAIN core) # 0
      BY <2>4
    <3> QED
      BY <2>1, <3>1, FS_EmptySet, Zenon
  <2>5. PICK m \in DOMAIN core : m \in approvals
    BY <2>e
  <2>6. m # e.member
    BY <1>1, <2>5 DEF MemberExpelled, target
  <2> QED
    BY <1>0, <1>1, <2>5, <2>6 DEF MemberExpelled, CoreAfter
<1>2. CASE e \in MemberExpelled /\ e.member \notin DOMAIN core
  BY <1>0, <1>2 DEF MemberExpelled, CoreAfter
<1>3. CASE e \in CoreGroupChanged
  BY <1>0, <1>3 DEF CoreGroupChanged, CoreAfter, Enactable, Folded
<1>4. CASE e \in MemberAdded \cup PledgeChanged \cup ProtocolSupported \cup ProtocolRaised
  BY <1>0, <1>4
     DEF MemberAdded, PledgeChanged, ProtocolSupported, ProtocolRaised, CoreAfter
<1> QED
  BY <1>1, <1>2, <1>3, <1>4 DEF Event

-----------------------------------------------------------------------------
(* The waiting proposals.                                                  *)

\* What the fold promises about a map of waiting proposals `ps` whose sweep
\* ran at `at` under the settings `s`.
WaitingOK(ps, at, s) ==
    /\ PartialMap(ps, 1..at, Proposal)
    /\ \A p \in DOMAIN ps : p <= at /\ at - p < s.pending_expiry
    /\ \A p, q \in DOMAIN ps : subject(ps[p].event) = subject(ps[q].event) => p = q
    /\ \A p \in DOMAIN ps : ps[p].approvals \cap target(ps[p].event) = {}

\* A sweep keeps it, whatever else was dropped before it.
LEMMA SweepKeeps ==
    ASSUME TypeOK, OneProposalPerSubject, TargetHasNoSay,
           NEW s \in AllSettings, NEW ps \in SUBSET DOMAIN pending
    PROVE  WaitingOK([p \in Unswept(log_index + 1, ps, s) |-> pending[p]],
                     log_index + 1, s)
<1>2. /\ log_index \in Nat
      /\ DOMAIN pending \subseteq 1..log_index
      /\ \A p \in DOMAIN pending : pending[p] \in Proposal
  BY DEF TypeOK, PartialMap
<1>1. /\ Unswept(log_index + 1, ps, s) \subseteq DOMAIN pending
      /\ \A p \in Unswept(log_index + 1, ps, s) : log_index + 1 - p < s.pending_expiry
  BY <1>2, SMT DEF Unswept, AllSettings
<1> QED
  BY <1>1, <1>2 DEF WaitingOK, PartialMap, OneProposalPerSubject, TargetHasNoSay

\* What the list of waiting proposals owes to a successful entry.
LEMMA WaitingCarries ==
    ASSUME WaitingOK(pending', log_index', settings'), changed_at' = log_index'
    PROVE  /\ PartialMap(pending', 1..log_index', Proposal)
           /\ OneProposalPerSubject'
           /\ PendingIsFresh'
           /\ TargetHasNoSay'
BY DEF WaitingOK, OneProposalPerSubject, PendingIsFresh, TargetHasNoSay

-----------------------------------------------------------------------------
(* The steps.                                                              *)

LEMMA FoundStep ==
    ASSUME FoldInv, NEW signed_at, NEW m \in Member,
           NEW founders \in FounderList, NEW chosen \in Settings,
           Found(signed_at, m, founders, chosen)
    PROVE  FoldInv'
<1>1. founders \in Seq(Member \X Addr) /\ NoDuplicates(founders) /\ chosen \in AllSettings
  BY FounderListType, SettingsType DEF Found
<1>2. /\ Named(founders) # {}
      /\ DOMAIN Folded(founders) = Named(founders)
      /\ PartialMap(Folded(founders), Member, Addr)
  BY <1>1, FoldedType, NamedNonEmpty DEF Found
<1>3. /\ members' = [i \in Named(founders) |-> NewRecord]
      /\ core' = Folded(founders)
      /\ settings' = chosen /\ protocol' = FIRST_PROTOCOL /\ group' = TRUE
      /\ log_index' = log_index + 1 /\ changed_at' = log_index + 1
      /\ pending' = [p \in Unswept(log_index + 1, DOMAIN pending, chosen) |-> pending[p]]
  BY DEF Found, Applied, Landing
<1>4. WaitingOK(pending', log_index', settings')
  BY <1>1, <1>3, SweepKeeps DEF FoldInv
<1>5. /\ PartialMap(members', Member, MemberRecord)
      /\ CoreAreMembers' /\ CoreNeverEmpty' /\ CoreSpeaksProtocol' /\ PledgeKeepsTheMinimum'
  BY <1>2, <1>3 DEF PartialMap, MemberRecord, NewRecord, FIRST_PROTOCOL, CoreAreMembers,
     CoreNeverEmpty, CoreSpeaksProtocol, PledgeKeepsTheMinimum, core_supports, speaks,
     is_member, check_pledge
<1>6. TypeOK'
  BY <1>1, <1>2, <1>3, <1>4, <1>5, WaitingCarries DEF FoldInv, TypeOK, FIRST_PROTOCOL
<1> QED
  BY <1>3, <1>4, <1>5, <1>6, WaitingCarries DEF FoldInv

\* Both ways a change is enacted: at submission and by the last approval.
LEMMA EnactStep ==
    ASSUME FoldInv, group, NEW signed_at, NEW e \in Event, NEW proposer \in Member,
           NEW approvals \in SUBSET Member, approvals \cap target(e) = {},
           NEW waiting \in SUBSET DOMAIN pending,
           Applied(signed_at), authorise(proposer, e), decided(e, approvals),
           Enact(Landing, e, waiting), UNCHANGED <<group, settings>>
    PROVE  FoldInv'
<1>1. /\ log_index' = log_index + 1 /\ changed_at' = log_index + 1
      /\ group' = group /\ settings' = settings
  BY DEF Applied, Landing
<1>2. WaitingOK(pending', log_index', settings')
  <2>1. Unanswered(e, waiting) \in SUBSET DOMAIN pending
    BY DEF Unanswered
  <2>2. pending' = [p \in Unswept(log_index + 1, Unanswered(e, waiting), settings)
                        |-> pending[p]]
    BY DEF Enact, Landing
  <2>3. settings \in AllSettings
    BY DEF FoldInv, TypeOK
  <2> QED
    BY <1>1, <2>1, <2>2, <2>3, SweepKeeps DEF FoldInv
<1>3. /\ PartialMap(members', Member, MemberRecord)
      /\ PartialMap(core', Member, Addr)
      /\ protocol' \in Nat
      /\ CoreAreMembers' /\ CoreSpeaksProtocol' /\ PledgeKeepsTheMinimum'
  BY <1>1, EnactKeeps DEF FoldInv
<1>4. CoreNeverEmpty'
  <2>1. DOMAIN core # {}
    BY DEF FoldInv, CoreNeverEmpty
  <2> QED
    BY <2>1, EnactLeavesAVoter DEF FoldInv, CoreNeverEmpty
<1>5. TypeOK'
  BY <1>1, <1>2, <1>3, WaitingCarries DEF FoldInv, TypeOK
<1> QED
  BY <1>1, <1>2, <1>3, <1>4, <1>5, WaitingCarries DEF FoldInv

\* Steps that only touch the waiting proposals.
LEMMA WaitingStep ==
    ASSUME FoldInv, NEW signed_at, Applied(signed_at),
           WaitingOK(pending', log_index + 1, settings),
           UNCHANGED <<group, members, core, settings, protocol>>
    PROVE  FoldInv'
<1>1. log_index' = log_index + 1 /\ changed_at' = log_index + 1
  BY DEF Applied, Landing
<1>2. /\ PartialMap(pending', 1..log_index', Proposal)
      /\ OneProposalPerSubject' /\ PendingIsFresh' /\ TargetHasNoSay'
  BY <1>1, WaitingCarries
<1>3. TypeOK'
  BY <1>1, <1>2 DEF FoldInv, TypeOK, PartialMap
<1>4. CoreAreMembers' /\ CoreNeverEmpty' /\ CoreSpeaksProtocol' /\ PledgeKeepsTheMinimum'
  BY DEF FoldInv, CoreAreMembers, CoreNeverEmpty, CoreSpeaksProtocol, PledgeKeepsTheMinimum,
     core_supports, speaks, is_member, check_pledge
<1> QED
  BY <1>2, <1>3, <1>4 DEF FoldInv

LEMMA SubmitWaitingStep ==
    ASSUME FoldInv, NEW signed_at, NEW m \in Member, NEW e \in Event,
           SubmitWaiting(signed_at, m, e)
    PROVE  FoldInv'
<1> DEFINE entry == [event |-> e, proposer |-> m, approvals |-> OwnApproval(m, e)]
           kept == Unswept(log_index + 1, DOMAIN pending \cup {log_index + 1}, settings)
<1>1. /\ Applied(signed_at)
      /\ UNCHANGED <<group, members, core, settings, protocol>>
      /\ \A p \in DOMAIN pending :
            expired(p, log_index + 1) \/ subject(pending[p].event) # subject(e)
      /\ pending' = [p \in kept |-> IF p = log_index + 1 THEN entry ELSE pending[p]]
  BY DEF SubmitWaiting, Landing
<1>2. /\ log_index \in Nat /\ settings.pending_expiry \in Nat
      /\ DOMAIN pending \subseteq 1..log_index
      /\ \A p \in DOMAIN pending : pending[p] \in Proposal
  BY DEF FoldInv, TypeOK, PartialMap, AllSettings
<1>3. entry \in Proposal /\ entry.approvals \cap target(e) = {}
  BY DEF Proposal, OwnApproval
<1>4. \A p \in kept : p \in 1..(log_index + 1) /\ log_index + 1 - p < settings.pending_expiry
  BY <1>2 DEF Unswept
<1>5. \A p \in kept \ {log_index + 1} :
            p \in DOMAIN pending /\ subject(pending[p].event) # subject(e)
  BY <1>1, <1>2, <1>4 DEF Unswept, expired
<1>6. WaitingOK(pending', log_index + 1, settings)
  <2>1. PartialMap(pending', 1..(log_index + 1), Proposal)
    BY <1>1, <1>2, <1>3, <1>4, <1>5 DEF PartialMap
  <2>2. \A p \in DOMAIN pending' :
            p <= log_index + 1 /\ log_index + 1 - p < settings.pending_expiry
    <3> HIDE DEF entry, kept
    <3> QED
      BY <1>1, <1>2, <1>4
  <2>3. \A p, q \in DOMAIN pending' :
            subject(pending'[p].event) = subject(pending'[q].event) => p = q
    <3>1. OneProposalPerSubject /\ entry.event = e
      BY DEF FoldInv
    <3> HIDE DEF entry, kept
    <3> QED
      BY <1>1, <1>5, <3>1 DEF OneProposalPerSubject
  <2>4. \A p \in DOMAIN pending' :
            pending'[p].approvals \cap target(pending'[p].event) = {}
    <3>1. TargetHasNoSay /\ entry.event = e
      BY DEF FoldInv
    <3> HIDE DEF entry, kept
    <3> QED
      BY <1>1, <1>3, <1>5, <3>1 DEF TargetHasNoSay
  <2> HIDE DEF entry, kept
  <2> QED
    BY <1>2, <2>1, <2>2, <2>3, <2>4 DEF WaitingOK, PartialMap
<1> QED
  BY <1>1, <1>6, WaitingStep

LEMMA ApproveWaitingStep ==
    ASSUME FoldInv, NEW signed_at, NEW m \in Member, NEW p \in DOMAIN pending,
           ApproveWaiting(signed_at, m, p)
    PROVE  FoldInv'
<1> DEFINE kept == Unswept(log_index + 1, DOMAIN pending, settings)
           entry == [pending[p] EXCEPT !.approvals = pending[p].approvals \cup {m}]
<1>1. /\ Applied(signed_at)
      /\ UNCHANGED <<group, members, core, settings, protocol>>
      /\ m \notin target(pending[p].event)
      /\ pending' = [q \in kept |-> IF q = p THEN entry ELSE pending[q]]
  BY DEF ApproveWaiting, Landing, still_allowed
<1>2. /\ log_index \in Nat
      /\ DOMAIN pending \subseteq 1..log_index
      /\ \A q \in DOMAIN pending : pending[q] \in Proposal
  BY DEF FoldInv, TypeOK, PartialMap
<1>3. /\ entry \in Proposal
      /\ entry.event = pending[p].event
      /\ entry.approvals = pending[p].approvals \cup {m}
  BY <1>2 DEF Proposal
<1>4. kept \subseteq DOMAIN pending
      /\ \A q \in kept : log_index + 1 - q < settings.pending_expiry
  BY <1>2 DEF Unswept
<1>5. OneProposalPerSubject /\ TargetHasNoSay
  BY DEF FoldInv
<1>6. WaitingOK(pending', log_index + 1, settings)
  <2> HIDE DEF entry, kept
  <2>1. PartialMap(pending', 1..(log_index + 1), Proposal)
    BY <1>1, <1>2, <1>3, <1>4 DEF PartialMap
  <2>2. \A q \in DOMAIN pending' :
            q <= log_index + 1 /\ log_index + 1 - q < settings.pending_expiry
    BY <1>1, <1>2, <1>4
  <2>3. \A q \in DOMAIN pending' : q \in DOMAIN pending
                                    /\ pending'[q].event = pending[q].event
    BY <1>1, <1>3, <1>4
  <2>4. \A q \in DOMAIN pending' :
            pending'[q].approvals \cap target(pending'[q].event) = {}
    BY <1>1, <1>3, <1>4, <1>5 DEF TargetHasNoSay
  <2> QED
    <3>1. \A p1, q1 \in DOMAIN pending' :
            subject(pending'[p1].event) = subject(pending'[q1].event) => p1 = q1
      BY <1>5, <2>3 DEF OneProposalPerSubject
    <3> QED
      BY <1>2, <2>1, <2>2, <2>4, <3>1 DEF WaitingOK, PartialMap
<1> QED
  BY <1>1, <1>6, WaitingStep

-----------------------------------------------------------------------------
(* The theorems.                                                           *)

LEMMA InitFoldInv == Init => FoldInv
<1> SUFFICES ASSUME Init PROVE FoldInv
  OBVIOUS
<1>1. DOMAIN members = {} /\ DOMAIN core = {} /\ DOMAIN pending = {}
  BY DEF Init
<1>2. TypeOK
  <2>1. /\ PartialMap(members, Member, MemberRecord)
        /\ PartialMap(core, Member, Addr)
        /\ PartialMap(pending, 1..log_index, Proposal)
    BY <1>1, Zenon DEF PartialMap
  <2>2. group \in BOOLEAN /\ settings \in AllSettings
    BY SettingsType, Zenon DEF Init
  <2>3. log_index \in Nat /\ changed_at \in 0..log_index /\ protocol \in Nat
    BY DEF Init
  <2> QED
    BY <2>1, <2>2, <2>3, Zenon DEF TypeOK
<1>3. CoreAreMembers /\ CoreNeverEmpty /\ CoreSpeaksProtocol /\ PledgeKeepsTheMinimum
  BY <1>1 DEF Init, CoreAreMembers, CoreNeverEmpty, CoreSpeaksProtocol, core_supports,
     PledgeKeepsTheMinimum
<1>4. OneProposalPerSubject /\ PendingIsFresh /\ TargetHasNoSay
  BY <1>1 DEF OneProposalPerSubject, PendingIsFresh, TargetHasNoSay
<1> QED
  BY <1>2, <1>3, <1>4 DEF FoldInv

LEMMA NextFoldInv == FoldInv /\ [Next]_vars => FoldInv'
<1> SUFFICES ASSUME FoldInv, [Next]_vars PROVE FoldInv'
  OBVIOUS
<1>t. /\ \A p \in DOMAIN pending : pending[p] \in Proposal
      /\ settings \in AllSettings
  BY DEF FoldInv, TypeOK, PartialMap
<1>1. CASE NoEffect
  <2>1. /\ log_index' = log_index + 1
        /\ UNCHANGED <<group, members, core, pending, changed_at, settings, protocol>>
    BY <1>1 DEF NoEffect, Landing
  <2>2. TypeOK'
    BY <2>1 DEF FoldInv, TypeOK, PartialMap
  <2> QED
    BY <2>1, <2>2 DEF FoldInv, CoreAreMembers, CoreNeverEmpty, CoreSpeaksProtocol,
       OneProposalPerSubject, PendingIsFresh, TargetHasNoSay, PledgeKeepsTheMinimum,
       core_supports, speaks, is_member, check_pledge
<1>2. ASSUME NEW signed_at \in 0..MaxIndex, NEW m \in Member,
             NEW founders \in FounderList, NEW chosen \in Settings,
             Found(signed_at, m, founders, chosen)
      PROVE  FoldInv'
  BY <1>2, FoundStep
<1>3. ASSUME NEW signed_at \in 0..MaxIndex, NEW m \in Member, NEW e \in Event,
             SubmitDecided(signed_at, m, e)
      PROVE  FoldInv'
  <2>1. /\ OwnApproval(m, e) \in SUBSET Member
        /\ OwnApproval(m, e) \cap target(e) = {}
    BY DEF OwnApproval
  <2> QED
    BY <1>3, <2>1, EnactStep DEF SubmitDecided, ByMember
<1>4. ASSUME NEW signed_at \in 0..MaxIndex, NEW m \in Member, NEW e \in Event,
             SubmitWaiting(signed_at, m, e)
      PROVE  FoldInv'
  BY <1>4, SubmitWaitingStep
<1>5. ASSUME NEW signed_at \in 0..MaxIndex, NEW m \in Member, NEW p \in DOMAIN pending,
             ApproveWaiting(signed_at, m, p)
      PROVE  FoldInv'
  BY <1>5, ApproveWaitingStep
<1>6. ASSUME NEW signed_at \in 0..MaxIndex, NEW m \in Member, NEW p \in DOMAIN pending,
             ApproveDecided(signed_at, m, p)
      PROVE  FoldInv'
  <2> DEFINE e == pending[p].event
             approvals == pending[p].approvals \cup {m}
  <2>1. /\ e \in Event /\ pending[p].proposer \in Member
        /\ approvals \in SUBSET Member
    BY <1>t DEF Proposal
  <2>2. /\ Applied(signed_at) /\ group
        /\ authorise(pending[p].proposer, e)
        /\ m \notin target(e)
        /\ decided(e, approvals)
        /\ Enact(Landing, e, DOMAIN pending \ {p})
        /\ UNCHANGED <<group, settings>>
    BY <1>6 DEF ApproveDecided, ByMember, still_allowed
  <2>3. approvals \cap target(e) = {}
    BY <2>2 DEF FoldInv, TargetHasNoSay
  <2>4. DOMAIN pending \ {p} \in SUBSET DOMAIN pending
    OBVIOUS
  <2> HIDE DEF e, approvals
  <2> QED
    BY <2>1, <2>2, <2>3, <2>4, EnactStep
<1>7. ASSUME NEW signed_at \in 0..MaxIndex, NEW m \in Member, NEW p \in DOMAIN pending,
             Withdraw(signed_at, m, p)
      PROVE  FoldInv'
  <2>1. WaitingOK([q \in Unswept(log_index + 1, DOMAIN pending \ {p}, settings)
                        |-> pending[q]], log_index + 1, settings)
    <3>1. DOMAIN pending \ {p} \in SUBSET DOMAIN pending
      OBVIOUS
    <3> QED
      BY <1>t, <3>1, SweepKeeps DEF FoldInv
  <2> QED
    BY <1>7, <2>1, WaitingStep DEF Withdraw, Landing
<1>8. CASE UNCHANGED vars
  BY <1>8 DEF vars, FoldInv, TypeOK, PartialMap, CoreAreMembers, CoreNeverEmpty,
     CoreSpeaksProtocol, OneProposalPerSubject, PendingIsFresh, TargetHasNoSay,
     PledgeKeepsTheMinimum, core_supports, speaks, is_member, check_pledge
<1> QED
  BY <1>1, <1>2, <1>3, <1>4, <1>5, <1>6, <1>7, <1>8 DEF Next

\* The invariants of the fold hold in every state of every log.
THEOREM FoldInvariant == Spec => []FoldInv
BY InitFoldInv, NextFoldInv, PTL DEF Spec

\* The projection keeps its shape, and its indexes point into the log.
THEOREM TypeCorrect == Spec => []TypeOK
BY FoldInvariant, PTL DEF FoldInv

\* No log empties the core group of a founded group.
THEOREM CoreIsNeverEmpty == Spec => []CoreNeverEmpty
BY FoldInvariant, PTL DEF FoldInv

\* Raft's voters are always members: nobody the allowlist refuses votes.
THEOREM VotersAreMembers == Spec => []CoreAreMembers
BY FoldInvariant, PTL DEF FoldInv

\* No log leaves a voter below the group protocol.
THEOREM VotersSpeakTheProtocol == Spec => []CoreSpeaksProtocol
BY FoldInvariant, PTL DEF FoldInv

\* Two waiting proposals never compete for one subject.
THEOREM SubjectsAreDistinct == Spec => []OneProposalPerSubject
BY FoldInvariant, PTL DEF FoldInv

\* The target of an expulsion never has a say in it.
THEOREM TargetsAreSilent == Spec => []TargetHasNoSay
BY FoldInvariant, PTL DEF FoldInv

\* A listed proposal is within its expiry as of the last change.
THEOREM PendingStaysFresh == Spec => []PendingIsFresh
BY FoldInvariant, PTL DEF FoldInv

\* A pledge in force is never below the group's minimum.
THEOREM PledgesKeepTheMinimum == Spec => []PledgeKeepsTheMinimum
BY FoldInvariant, PTL DEF FoldInv

-----------------------------------------------------------------------------
(* Majorities.                                                             *)

\* A duplicate-free list names as many members as it is long.
LEMMA NamedCardinality ==
    ASSUME NEW list \in Seq(Member \X Addr), NoDuplicates(list)
    PROVE  IsFiniteSet(Named(list)) /\ Cardinality(Named(list)) = Len(list)
<1> DEFINE S == 1..Len(list)
           F == [k \in S |-> list[k][1]]
<1>1. DOMAIN list = S /\ Len(list) \in Nat
  OBVIOUS
<1>2. /\ F \in [S -> Named(list)]
      /\ \A k, l \in S : F[k] = F[l] => k = l
      /\ \A m \in Named(list) : \E k \in S : F[k] = m
  BY <1>1 DEF Named, NoDuplicates
<1>3. F \in Bijection(S, Named(list))
  BY <1>2, Fun_IsBij
<1>4. ExistsBijection(S, Named(list))
  BY <1>3, Fun_ExistsBij
<1>5. IsFiniteSet(S)
  BY <1>1, FS_Interval
<1> QED
  BY <1>1, <1>4, <1>5, FS_Bijection, FS_CountingElements

\* A change that moves the voter set, once it can be put into force, is one
\* that needs a majority: a map of the same length that names no stranger
\* names exactly the voters.
LEMMA MovingVotersTakesAMajority ==
    ASSUME TypeOK, NEW e \in Event, Enactable(e), DOMAIN CoreAfter(e) # DOMAIN core
    PROVE  approvals_needed(e) = Cardinality(DOMAIN core) \div 2 + 1
<1> USE CoreListType
<1>1. CASE e \in MemberExpelled
  BY <1>1 DEF MemberExpelled, CoreAfter, approvals_needed, changes_the_voters, is_core, Majority
<1>2. CASE e \in CoreGroupChanged
  <2>1. e.core \in Seq(Member \X Addr) /\ NoDuplicates(e.core) /\ e.kind = "CoreGroupChanged"
    BY <1>2 DEF CoreGroupChanged, Enactable
  <2>2. DOMAIN CoreAfter(e) = Named(e.core)
    BY <2>1 DEF CoreAfter, Folded
  <2>3. IsFiniteSet(DOMAIN core)
    BY MemberFinite, FS_Subset DEF TypeOK, PartialMap
  <2>4. Cardinality(Named(e.core)) = Len(e.core)
    BY <2>1, NamedCardinality
  <2>5. ASSUME Named(e.core) \subseteq DOMAIN core, Len(e.core) = Cardinality(DOMAIN core)
        PROVE  FALSE
    <3>1. Named(e.core) = DOMAIN core
      BY <2>3, <2>4, <2>5, FS_Subset
    <3> QED
      BY <2>2, <3>1
  <2>6. changes_the_voters(e)
    BY <2>1, <2>5 DEF changes_the_voters
  <2> QED
    BY <2>1, <2>6 DEF approvals_needed, Majority
<1>3. CASE e \in MemberAdded \cup PledgeChanged \cup ProtocolSupported \cup ProtocolRaised
  BY <1>3 DEF MemberAdded, PledgeChanged, ProtocolSupported, ProtocolRaised, CoreAfter
<1> QED
  BY <1>1, <1>2, <1>3 DEF Event

\* A change that takes a majority and is enacted at submission is the decision
\* of a group's only voter: one approval is all a submission can bring.
LEMMA SoleVoterDecides ==
    ASSUME TypeOK, NEW m \in Member, NEW e \in Event,
           approvals_needed(e) = Cardinality(DOMAIN core) \div 2 + 1,
           decided(e, OwnApproval(m, e))
    PROVE  Cardinality(DOMAIN core) = 1
<1> DEFINE own == OwnApproval(m, e) \cap DOMAIN core
<1>1. IsFiniteSet(DOMAIN core) /\ Cardinality(DOMAIN core) \in Nat
  BY MemberFinite, FS_Subset, FS_CardinalityType DEF TypeOK, PartialMap
<1>2. own \in SUBSET {m} /\ own \in SUBSET DOMAIN core
  BY DEF OwnApproval
<1>3. IsFiniteSet({m}) /\ Cardinality({m}) = 1
  BY FS_Singleton
<1>4. /\ Cardinality(own) <= 1 /\ Cardinality(own) \in Nat
      /\ Cardinality(own) <= Cardinality(DOMAIN core)
  BY <1>1, <1>2, <1>3, FS_Subset, FS_CardinalityType
<1>5. Cardinality(own) >= Cardinality(DOMAIN core) \div 2 + 1
  BY DEF decided, counting
<1> QED
  BY <1>1, <1>4, <1>5

\* Every step that enacts a change which takes a majority hears one.
LEMMA MajorityHeard ==
    ASSUME FoldInv, NEW signed_at, NEW m \in Member, NEW e \in Event,
           approvals_needed(e) = Cardinality(DOMAIN core) \div 2 + 1,
           \/ SubmitDecided(signed_at, m, e)
           \/ \E p \in DOMAIN pending :
                e = pending[p].event /\ ApproveDecided(signed_at, m, p)
    PROVE  ByMajority
<1>1. CASE SubmitDecided(signed_at, m, e)
  BY <1>1, SoleVoterDecides DEF SubmitDecided, FoldInv, ByMajority
<1>2. ASSUME NEW p \in DOMAIN pending,
             e = pending[p].event, ApproveDecided(signed_at, m, p)
      PROVE  ByMajority
  <2>1. m \in DOMAIN core /\ p \notin DOMAIN pending'
    BY <1>2 DEF ApproveDecided, is_core, Enact, Unswept, Unanswered
  <2>2. Cardinality((pending[p].approvals \cup {m}) \cap DOMAIN core)
            >= Cardinality(DOMAIN core) \div 2 + 1
    BY <1>2 DEF ApproveDecided, decided, counting
  <2>3. /\ Cardinality(DOMAIN core) \in Nat
        /\ Cardinality((pending[p].approvals \cup {m}) \cap DOMAIN core) \in Nat
    <3>1. IsFiniteSet(DOMAIN core)
      BY MemberFinite, FS_Subset DEF FoldInv, TypeOK, PartialMap
    <3>2. IsFiniteSet((pending[p].approvals \cup {m}) \cap DOMAIN core)
      BY <3>1, FS_Subset
    <3> QED
      BY <3>1, <3>2, FS_CardinalityType
  <2>4. Cardinality((pending[p].approvals \cup {m}) \cap DOMAIN core)
            > Cardinality(DOMAIN core) \div 2
    BY <2>2, <2>3
  <2> QED
    BY <2>1, <2>4 DEF ByMajority
<1> QED
  BY <1>1, <1>2

LEMMA StepHearsAMajority ==
    ASSUME FoldInv, [Next]_vars
    PROVE  /\ group /\ DOMAIN core' # DOMAIN core => ByMajority
           /\ group /\ protocol' # protocol => protocol' = protocol + 1 /\ ByMajority
<1>1. CASE UNCHANGED <<core, protocol>>
  BY <1>1
<1>2. ASSUME NEW signed_at \in 0..MaxIndex, NEW m \in Member, NEW e \in Event, NEW proposer,
             \/ SubmitDecided(signed_at, m, e)
             \/ \E p \in DOMAIN pending :
                    e = pending[p].event /\ ApproveDecided(signed_at, m, p),
             Enactable(e), authorise(proposer, e),
             core' = CoreAfter(e), protocol' = ProtocolAfter(e)
      PROVE  /\ DOMAIN core' # DOMAIN core => ByMajority
             /\ protocol' # protocol => protocol' = protocol + 1 /\ ByMajority
  <2>1. ASSUME DOMAIN core' # DOMAIN core PROVE ByMajority
    BY <1>2, <2>1, MovingVotersTakesAMajority, MajorityHeard DEF FoldInv
  <2>2. ASSUME protocol' # protocol PROVE protocol' = protocol + 1 /\ ByMajority
    <3>1. e.kind = "ProtocolRaised"
      BY <1>2, <2>2 DEF ProtocolAfter
    <3>2. protocol' = protocol + 1
      BY <1>2, <3>1 DEF ProtocolAfter, authorise
    <3>3. approvals_needed(e) = Cardinality(DOMAIN core) \div 2 + 1
      BY <3>1 DEF approvals_needed, Majority
    <3> QED
      BY <1>2, <3>2, <3>3, MajorityHeard
  <2> QED
    BY <2>1, <2>2
<1>3. ASSUME NEW signed_at \in 0..MaxIndex, NEW m \in Member, NEW e \in Event,
             SubmitDecided(signed_at, m, e)
      PROVE  /\ DOMAIN core' # DOMAIN core => ByMajority
             /\ protocol' # protocol => protocol' = protocol + 1 /\ ByMajority
  BY <1>2, <1>3 DEF SubmitDecided, Enact
<1>4. ASSUME NEW signed_at \in 0..MaxIndex, NEW m \in Member, NEW p \in DOMAIN pending,
             ApproveDecided(signed_at, m, p)
      PROVE  /\ DOMAIN core' # DOMAIN core => ByMajority
             /\ protocol' # protocol => protocol' = protocol + 1 /\ ByMajority
  <2>1. pending[p].event \in Event
    BY DEF FoldInv, TypeOK, PartialMap, Proposal
  <2> QED
    BY <1>2, <1>4, <2>1 DEF ApproveDecided, Enact, still_allowed
<1>5. CASE \E signed_at \in 0..MaxIndex, m \in Member, founders \in FounderList,
             chosen \in Settings : Found(signed_at, m, founders, chosen)
  BY <1>5 DEF Found
<1>6. CASE \/ NoEffect
           \/ \E signed_at \in 0..MaxIndex, m \in Member :
                \/ \E e \in Event : SubmitWaiting(signed_at, m, e)
                \/ \E p \in DOMAIN pending : ApproveWaiting(signed_at, m, p)
                \/ \E p \in DOMAIN pending : Withdraw(signed_at, m, p)
  BY <1>1, <1>6 DEF NoEffect, SubmitWaiting, ApproveWaiting, Withdraw
<1> QED
  BY <1>1, <1>3, <1>4, <1>5, <1>6 DEF Next, vars

\* In every log, who votes changes only by a majority of those who vote.
THEOREM VotersNeedAMajority == Spec => VotersMoveByMajority
<1>1. FoldInv /\ [Next]_vars => [group /\ DOMAIN core' # DOMAIN core => ByMajority]_vars
  BY StepHearsAMajority
<1> QED
  BY <1>1, FoldInvariant, PTL DEF Spec, VotersMoveByMajority

\* In every log, the protocol is raised one number at a time and by a majority.
THEOREM ProtocolNeedsAMajority == Spec => ProtocolClimbs
<1>1. FoldInv /\ [Next]_vars
        => [group /\ protocol' # protocol => protocol' = protocol + 1 /\ ByMajority]_vars
  BY StepHearsAMajority
<1> QED
  BY <1>1, FoldInvariant, PTL DEF Spec, ProtocolClimbs

-----------------------------------------------------------------------------
(* Waiting core maps.                                                      *)

\* What WaitingMapsAgree needs to be inductive: no seat has moved later than
\* the log reaches, so a map that is proposed starts out agreeing, and before
\* the founding nothing waits.
HistoryIInv ==
    /\ FoldInv
    /\ moved_at \in [Member -> Nat]
    /\ \A m \in Member : moved_at[m] <= log_index
    /\ ~ group => DOMAIN pending = {}
    /\ WaitingMapsAgree

\* A core map that outlives an enacted change says of everybody the change
\* moved what the group says now.
LEMMA UnansweredAgrees ==
    ASSUME NEW e, NEW waiting, NEW p \in Unanswered(e, waiting),
           pending[p].event.kind = "CoreGroupChanged",
           NEW m \in Named(pending[p].event.core), Moved(m, core, CoreAfter(e))
    PROVE  m \in DOMAIN CoreAfter(e) /\ CoreAfter(e)[m] = AddrIn(pending[p].event.core, m)
BY DEF Unanswered, superseded_by

\* Proposal p, if a core map, says of everybody this step moves what the group
\* says after it.
SaysWhatMoved(p) ==
    pending[p].event.kind = "CoreGroupChanged" =>
        \A m \in Named(pending[p].event.core) :
            Moved(m, core, core') =>
                m \in DOMAIN core' /\ core'[m] = AddrIn(pending[p].event.core, m)

\* What a step does to a proposal that was waiting, and where a new one lands.
KeepsMaps ==
    /\ log_index' = log_index + 1
    /\ ~ group' => DOMAIN pending' = {}
    /\ \A p \in DOMAIN pending' :
            \/ p = log_index + 1 /\ core' = core
            \/ /\ p \in DOMAIN pending /\ pending'[p].event = pending[p].event
               /\ core' = core \/ SaysWhatMoved(p)

LEMMA WaitingMapsStep ==
    ASSUME FoldInv, ~ group => DOMAIN pending = {}, Next
    PROVE  KeepsMaps
<1>2. ASSUME NEW signed_at \in 0..MaxIndex, NEW m \in Member,
             NEW founders \in FounderList, NEW chosen \in Settings,
             Found(signed_at, m, founders, chosen)
      PROVE  log_index' = log_index + 1 /\ group' /\ DOMAIN pending' = {}
  BY <1>2 DEF Found, Applied, Landing, Unswept
<1>3. ASSUME NEW signed_at, NEW e, NEW waiting \in SUBSET DOMAIN pending,
             Applied(signed_at), group, group' = group, Enact(Landing, e, waiting)
      PROVE  KeepsMaps
  <2>1. core' = CoreAfter(e) /\ DOMAIN pending' = Unswept(Landing, Unanswered(e, waiting), settings)
    BY <1>3 DEF Enact
  <2>2. \A p \in DOMAIN pending' : p \in Unanswered(e, waiting) /\ pending'[p] = pending[p]
    BY <1>3, <2>1 DEF Enact, Unswept
  <2>3. \A p \in Unanswered(e, waiting) : p \in DOMAIN pending
    BY <1>3 DEF Unanswered
  <2>4. \A p \in DOMAIN pending' : SaysWhatMoved(p)
    BY <2>1, <2>2, UnansweredAgrees DEF SaysWhatMoved
  <2> QED
    BY <1>3, <2>2, <2>3, <2>4 DEF Applied, Landing, KeepsMaps
<1>4. ASSUME NEW signed_at \in 0..MaxIndex, NEW m \in Member, NEW e \in Event,
             SubmitDecided(signed_at, m, e)
      PROVE  Applied(signed_at) /\ group /\ group' = group /\ Enact(Landing, e, DOMAIN pending)
  BY <1>4 DEF SubmitDecided, ByMember
<1>5. ASSUME NEW signed_at \in 0..MaxIndex, NEW m \in Member, NEW p \in DOMAIN pending,
             ApproveDecided(signed_at, m, p)
      PROVE  /\ Applied(signed_at) /\ group /\ group' = group
             /\ Enact(Landing, pending[p].event, DOMAIN pending \ {p})
  BY <1>5 DEF ApproveDecided, ByMember
<1>6. ASSUME NEW signed_at \in 0..MaxIndex, NEW m \in Member, NEW e \in Event,
             SubmitWaiting(signed_at, m, e)
      PROVE  /\ log_index' = log_index + 1 /\ group' /\ core' = core
             /\ \A p \in DOMAIN pending' :
                  \/ p = log_index + 1
                  \/ p \in DOMAIN pending /\ pending'[p] = pending[p]
  BY <1>6 DEF SubmitWaiting, ByMember, Applied, Landing, Unswept
<1>7. ASSUME NEW signed_at \in 0..MaxIndex, NEW m \in Member, NEW p \in DOMAIN pending,
             ApproveWaiting(signed_at, m, p)
      PROVE  /\ log_index' = log_index + 1 /\ group' /\ core' = core
             /\ \A q \in DOMAIN pending' :
                    q \in DOMAIN pending /\ pending'[q].event = pending[q].event
  <2>1. \A q \in DOMAIN pending : pending[q] \in Proposal
    BY DEF FoldInv, TypeOK, PartialMap
  <2> QED
    BY <1>7, <2>1 DEF ApproveWaiting, ByMember, Applied, Landing, Unswept, Proposal
<1>8. ASSUME NEW signed_at \in 0..MaxIndex, NEW m \in Member, NEW p \in DOMAIN pending,
             Withdraw(signed_at, m, p)
      PROVE  /\ log_index' = log_index + 1 /\ group' /\ core' = core
             /\ \A q \in DOMAIN pending' :
                    q \in DOMAIN pending /\ pending'[q] = pending[q]
  BY <1>8 DEF Withdraw, ByMember, Applied, Landing, Unswept
<1>9. ASSUME log_index' = log_index + 1, group', core' = core,
             \A p \in DOMAIN pending' :
                 \/ p = log_index + 1
                 \/ p \in DOMAIN pending /\ pending'[p].event = pending[p].event
      PROVE  KeepsMaps
  BY <1>9 DEF KeepsMaps
<1>10. CASE NoEffect
  BY <1>10 DEF NoEffect, Landing, KeepsMaps
<1>11. ASSUME NEW signed_at \in 0..MaxIndex, NEW m \in Member PROVE
        /\ \A founders \in FounderList, chosen \in Settings :
                Found(signed_at, m, founders, chosen) => KeepsMaps
        /\ \A e \in Event : SubmitDecided(signed_at, m, e) => KeepsMaps
        /\ \A e \in Event : SubmitWaiting(signed_at, m, e) => KeepsMaps
        /\ \A p \in DOMAIN pending : ApproveWaiting(signed_at, m, p) => KeepsMaps
        /\ \A p \in DOMAIN pending : ApproveDecided(signed_at, m, p) => KeepsMaps
        /\ \A p \in DOMAIN pending : Withdraw(signed_at, m, p) => KeepsMaps
  <2>1. ASSUME NEW founders \in FounderList, NEW chosen \in Settings,
               Found(signed_at, m, founders, chosen)
        PROVE  KeepsMaps
    BY <1>2, <2>1 DEF KeepsMaps
  <2>2. ASSUME NEW e \in Event, SubmitDecided(signed_at, m, e) PROVE KeepsMaps
    BY <1>4, <1>3, <2>2
  <2>3. ASSUME NEW e \in Event, SubmitWaiting(signed_at, m, e) PROVE KeepsMaps
    BY <1>6, <1>9, <2>3
  <2>4. ASSUME NEW p \in DOMAIN pending, ApproveWaiting(signed_at, m, p) PROVE KeepsMaps
    BY <1>7, <1>9, <2>4
  <2>5. ASSUME NEW p \in DOMAIN pending, ApproveDecided(signed_at, m, p) PROVE KeepsMaps
    <3>1. DOMAIN pending \ {p} \in SUBSET DOMAIN pending
      OBVIOUS
    <3> QED
      BY <1>5, <1>3, <2>5, <3>1
  <2>6. ASSUME NEW p \in DOMAIN pending, Withdraw(signed_at, m, p) PROVE KeepsMaps
    BY <1>8, <1>9, <2>6
  <2> QED
    BY <2>1, <2>2, <2>3, <2>4, <2>5, <2>6
<1> QED
  BY <1>10, <1>11, Zenon DEF Next

LEMMA HistoryStep == HistoryIInv /\ [HistoryNext]_historyVars => HistoryIInv'
<1> SUFFICES ASSUME HistoryIInv, [HistoryNext]_historyVars PROVE HistoryIInv'
  OBVIOUS
<1>1. FoldInv'
  BY NextFoldInv DEF HistoryIInv, HistoryNext, historyVars
<1>2. CASE UNCHANGED historyVars
  <2>1. UNCHANGED vars /\ UNCHANGED moved_at
    BY <1>2 DEF historyVars
  <2> QED
    BY <1>1, <2>1 DEF vars, HistoryIInv, WaitingMapsAgree
<1>3. CASE HistoryNext
  <2>1. /\ log_index \in Nat /\ moved_at \in [Member -> Nat]
        /\ \A m \in Member : moved_at[m] <= log_index
        /\ \A p \in DOMAIN pending : p <= log_index /\ p \in Nat
    BY DEF HistoryIInv, FoldInv, TypeOK, PartialMap
  <2>2. /\ log_index' = log_index + 1
        /\ ~ group' => DOMAIN pending' = {}
    BY <1>3, WaitingMapsStep DEF HistoryNext, HistoryIInv, KeepsMaps
  <2>3. moved_at' = [m \in Member |->
                        IF Moved(m, core, core') THEN log_index' ELSE moved_at[m]]
    BY <1>3 DEF HistoryNext
  <2>4. moved_at' \in [Member -> Nat] /\ \A m \in Member : moved_at'[m] <= log_index'
    BY <2>1, <2>2, <2>3
  <2>5. WaitingMapsAgree'
    <3> SUFFICES ASSUME NEW p \in DOMAIN pending',
                        pending'[p].event.kind = "CoreGroupChanged",
                        NEW m \in Named(pending'[p].event.core), moved_at'[m] > p
                 PROVE  m \in DOMAIN core' /\ core'[m] = AddrIn(pending'[p].event.core, m)
      BY DEF WaitingMapsAgree
    <3>1. m \in Member
      <4>1. pending'[p].event \in Event
        BY <1>1 DEF FoldInv, TypeOK, PartialMap, Proposal
      <4>2. pending'[p].event.core \in Seq(Member \X Addr)
        BY <4>1, CoreListType DEF Event, MemberAdded, MemberExpelled, PledgeChanged,
           CoreGroupChanged, ProtocolSupported, ProtocolRaised
      <4> QED
        BY <4>2 DEF Named
    <3>2. CASE p = log_index + 1 /\ core' = core
      <4>1. ~ Moved(m, core, core')
        BY <3>2 DEF Moved
      <4> QED
        BY <2>1, <2>3, <3>1, <3>2, <4>1
    <3>3. ASSUME p \in DOMAIN pending, pending'[p].event = pending[p].event,
                 ~ Moved(m, core, core')
          PROVE  m \in DOMAIN core' /\ core'[m] = AddrIn(pending'[p].event.core, m)
      <4>1. moved_at[m] > p
        BY <2>3, <3>1, <3>3
      <4>2. m \in DOMAIN core /\ core[m] = AddrIn(pending[p].event.core, m)
        BY <3>3, <4>1 DEF HistoryIInv, WaitingMapsAgree
      <4> QED
        BY <3>3, <4>2 DEF Moved
    <3>4. core' = core => ~ Moved(m, core, core')
      BY DEF Moved
    <3> QED
      BY <1>3, <3>2, <3>3, <3>4, WaitingMapsStep DEF HistoryNext, HistoryIInv, KeepsMaps, SaysWhatMoved
  <2> QED
    BY <1>1, <2>2, <2>4, <2>5 DEF HistoryIInv
<1> QED
  BY <1>2, <1>3

\* In every log, approving a waiting core map reverts no later move of a seat.
THEOREM MapsRevertNothing == HistorySpec => []WaitingMapsAgree
<1>1. ASSUME HistoryInit PROVE HistoryIInv
  <2>1. FoldInv /\ DOMAIN pending = {} /\ log_index = 0
    BY <1>1, InitFoldInv DEF HistoryInit, Init
  <2>2. moved_at = [m \in Member |-> 0]
    BY <1>1 DEF HistoryInit
  <2> QED
    BY <2>1, <2>2 DEF HistoryIInv, WaitingMapsAgree
<1> QED
  BY <1>1, HistoryStep, PTL DEF HistorySpec, HistoryIInv

-----------------------------------------------------------------------------
(* Induction over the naturals, on a set.                                  *)

LEMMA SetInduction ==
    ASSUME NEW T \in SUBSET Nat, 0 \in T, \A n \in T : n + 1 \in T
    PROVE  T = Nat
<1> DEFINE R == OpToRel(<, Nat)
<1>1. IsWellFoundedOn(R, Nat)
  BY NatLessThanWellFounded
<1>2. \A x, y \in Nat : x < y => <<x, y>> \in R
  BY DEF OpToRel
<1> HIDE DEF R
<1>3. SUFFICES ASSUME Nat \ T # {} PROVE FALSE
  OBVIOUS
<1>4. PICK x \in Nat \ T : \A y \in Nat \ T : <<y, x>> \notin R
  BY <1>1, <1>3, WFMin
<1>5. x - 1 \in Nat /\ x - 1 < x /\ x - 1 + 1 = x
  BY <1>4
<1>6. <<x - 1, x>> \in R
  BY <1>2, <1>5
<1>7. x - 1 \in T
  BY <1>4, <1>5, <1>6
<1> QED
  BY <1>4, <1>5, <1>7

-----------------------------------------------------------------------------
(* The fold.                                                               *)

LEMMA FoldType ==
    ASSUME NEW st \in Membership, NEW i \in Nat, NEW e \in Entry
    PROVE  Fold(st, i, e) \in Membership
<1>1. e.do \in Change /\ e.do.who \in SUBSET Node
  BY DEF Entry, Change
<1>2. FoldedMembers(st, e.do) \in SUBSET Node /\ FoldedCore(st, e.do) \in SUBSET Node
  BY <1>1 DEF FoldedMembers, FoldedCore, Membership
<1>3. CASE Accepted(st, e)
  <2>1. st.protocol + 1 \in Nat /\ st.protocol \in Nat
    BY DEF Membership
  <2> QED
    BY <1>2, <1>3, <2>1 DEF Fold, Membership
<1> QED
  BY <1>3 DEF Fold

LEMMA NewMembershipType == NewMembership \in Membership
BY DEF NewMembership, Membership

\* f is the fold of the first n of some entries, prefix by prefix.
IsFold(f, n, entries) ==
    /\ f \in [0..n -> Membership]
    /\ f[0] = NewMembership
    /\ \A i \in 1..n : f[i] = Fold(f[i - 1], i, entries[i])

\* The recursion of FoldOf has a solution, and so FoldOf is one.
LEMMA FoldOfIsFold ==
    ASSUME NEW entries \in Seq(Entry)
    PROVE  IsFold(FoldOf(entries), Len(entries), entries)
<1> DEFINE n == Len(entries)
           T == {k \in Nat : k <= n => \E g : IsFold(g, k, entries)}
<1>1. 0 \in T
  <2> DEFINE g == [i \in 0..0 |-> NewMembership]
  <2>1. IsFold(g, 0, entries)
    BY NewMembershipType DEF IsFold
  <2> QED
    BY <2>1
<1>2. ASSUME NEW k \in T PROVE k + 1 \in T
  <2>1. SUFFICES ASSUME k + 1 <= n PROVE \E g : IsFold(g, k + 1, entries)
    OBVIOUS
  <2>2. PICK g : IsFold(g, k, entries)
    BY <2>1
  <2> DEFINE h == [i \in 0..(k + 1) |-> IF i = k + 1 THEN Fold(g[k], k + 1, entries[k + 1]) ELSE g[i]]
  <2>3. k \in Nat /\ entries[k + 1] \in Entry
    BY <2>1
  <2>4. Fold(g[k], k + 1, entries[k + 1]) \in Membership
    BY <2>2, <2>3, FoldType DEF IsFold
  <2>5. h \in [0..(k + 1) -> Membership]
    BY <2>2, <2>3, <2>4 DEF IsFold
  <2>6. h[0] = NewMembership
    BY <2>2, <2>3 DEF IsFold
  <2>7. \A i \in 1..(k + 1) : h[i] = Fold(h[i - 1], i, entries[i])
    <3> SUFFICES ASSUME NEW i \in 1..(k + 1) PROVE h[i] = Fold(h[i - 1], i, entries[i])
      OBVIOUS
    <3>1. i - 1 \in 0..k /\ h[i - 1] = g[i - 1]
      BY <2>3
    <3>2. CASE i = k + 1
      <4>1. i - 1 = k /\ h[i] = Fold(g[k], k + 1, entries[k + 1])
        BY <2>3, <3>2
      <4> QED
        BY <3>1, <3>2, <4>1
    <3>3. CASE i # k + 1
      <4>1. i \in 1..k /\ h[i] = g[i]
        BY <2>3, <3>3
      <4> QED
        BY <2>2, <3>1, <4>1 DEF IsFold
    <3> QED
      BY <3>2, <3>3
  <2> HIDE DEF h
  <2> QED
    BY <2>5, <2>6, <2>7 DEF IsFold
<1>3. n \in Nat /\ T = Nat
  <2> HIDE DEF T
  <2>1. T \in SUBSET Nat
    BY DEF T
  <2> QED
    BY <1>1, <1>2, <2>1, SetInduction
<1>4. PICK g : IsFold(g, n, entries)
  BY <1>3
<1>5. g = [i \in 0..n |-> IF i = 0 THEN NewMembership ELSE Fold(g[i - 1], i, entries[i])]
  BY <1>3, <1>4 DEF IsFold
<1> DEFINE f == FoldOf(entries)
<1>6. f = [i \in 0..n |-> IF i = 0 THEN NewMembership ELSE Fold(f[i - 1], i, entries[i])]
  BY <1>5, Zenon DEF FoldOf
<1> DEFINE U == {k \in Nat : k <= n => f[k] \in Membership}
<1> HIDE DEF f
<1>7. 0 \in U
  BY <1>3, <1>6, NewMembershipType
<1>8. ASSUME NEW k \in U PROVE k + 1 \in U
  <2> SUFFICES ASSUME k + 1 <= n PROVE f[k + 1] \in Membership
    OBVIOUS
  <2>1. k \in Nat /\ k + 1 \in 0..n /\ f[k] \in Membership /\ entries[k + 1] \in Entry
    BY <1>3
  <2>2. f[k + 1] = Fold(f[k], k + 1, entries[k + 1])
    BY <1>6, <2>1
  <2> QED
    BY <2>1, <2>2, FoldType
<1>9. U = Nat
  <2> HIDE DEF U
  <2>1. U \in SUBSET Nat
    BY DEF U
  <2> QED
    BY <1>7, <1>8, <2>1, SetInduction
<1>10. f \in [0..n -> Membership]
  <2>1. \A k \in 0..n : f[k] \in Membership
    <3>1. \A k \in 0..n : k \in Nat /\ k <= n
      BY <1>3
    <3> QED
      BY <1>9, <3>1, Zenon
  <2>2. DOMAIN f = 0..n /\ f = [k \in DOMAIN f |-> f[k]]
    <3>1. DOMAIN f = 0..n
      BY <1>6, Zenon
    <3>2. f = [k \in 0..n |-> f[k]]
      BY <1>6
    <3> QED
      BY <3>1, <3>2, Zenon
  <2> QED
    BY <2>1, <2>2, Zenon
<1>11. f[0] = NewMembership
  BY <1>3, <1>6
<1>12. ASSUME NEW i \in 1..n PROVE f[i] = Fold(f[i - 1], i, entries[i])
  <2>1. i \in 0..n /\ i # 0
    BY <1>3
  <2> QED
    BY <1>6, <2>1
<1> QED
  BY <1>10, <1>11, <1>12, Zenon DEF IsFold, f

\* What a prefix folds to was last changed inside it, and before the founding
\* there is no protocol.
LEMMA FoldSound ==
    ASSUME NEW n \in Nat, NEW entries \in Seq(Entry), n <= Len(entries),
           NEW f, IsFold(f, n, entries)
    PROVE  \A i \in 0..n : /\ f[i].changed_at <= i
                           /\ ~ f[i].group => f[i].protocol = 0
                           /\ f[i].protocol > 0 => f[i].changed_at >= 1
<1> DEFINE Good(i) == /\ f[i].changed_at <= i
                      /\ ~ f[i].group => f[i].protocol = 0
                      /\ f[i].protocol > 0 => f[i].changed_at >= 1
           T == {k \in Nat : k <= n => Good(k)}
<1>1. 0 \in T
  BY DEF IsFold, NewMembership
<1>2. ASSUME NEW k \in T PROVE k + 1 \in T
  <2> SUFFICES ASSUME k + 1 <= n PROVE Good(k + 1)
    OBVIOUS
  <2>1. k \in Nat /\ k \in 0..n /\ k + 1 \in 1..n /\ Good(k)
    OBVIOUS
  <2>2. f[k] \in Membership /\ f[k + 1] = Fold(f[k], k + 1, entries[k + 1])
    BY <2>1 DEF IsFold
  <2>3. CASE ~ Accepted(f[k], entries[k + 1])
    BY <2>1, <2>2, <2>3 DEF Fold, Membership
  <2>4. CASE Accepted(f[k], entries[k + 1])
    <3>1. f[k + 1].changed_at = k + 1 /\ f[k + 1].group
      BY <2>2, <2>4 DEF Fold
    <3> QED
      BY <2>1, <3>1
  <2> QED
    BY <2>3, <2>4
<1>3. T = Nat
  <2> HIDE DEF T
  <2>1. T \in SUBSET Nat
    BY DEF T
  <2> QED
    BY <1>1, <1>2, <2>1, SetInduction
<1> QED
  BY <1>3

\* One more entry, and the protocol is what it was, or one higher by a raise,
\* or the first.
LEMMA FoldClimbs ==
    ASSUME NEW st \in Membership, NEW i \in Nat, NEW e \in Entry,
           ~ st.group => st.protocol = 0
    PROVE  LET now == Fold(st, i, e) IN
           \/ now = st
           \/ now.changed_at = i /\ now.protocol = st.protocol
           \/ now.changed_at = i /\ now.protocol = 1 /\ st.protocol = 0
           \/ now.changed_at = i /\ now.protocol = st.protocol + 1 /\ e.do.op = "raise"
<1>1. CASE ~ Accepted(st, e)
  BY <1>1 DEF Fold
<1>2. CASE Accepted(st, e)
  <2> DEFINE now == Fold(st, i, e)
  <2>1. /\ now.changed_at = i
        /\ now.protocol = IF e.do.op = "found" THEN 1
                          ELSE IF e.do.op = "raise" THEN st.protocol + 1 ELSE st.protocol
    BY <1>2 DEF Fold
  <2>2. e.do.op = "found" => st.protocol = 0
    BY <1>2 DEF Accepted
  <2> HIDE DEF now
  <2>3. \/ now.changed_at = i /\ now.protocol = st.protocol
        \/ now.changed_at = i /\ now.protocol = 1 /\ st.protocol = 0
        \/ now.changed_at = i /\ now.protocol = st.protocol + 1 /\ e.do.op = "raise"
    BY <2>1, <2>2
  <2> QED
    BY <2>3 DEF now
<1> QED
  BY <1>1, <1>2

\* The protocol of a longer prefix is no lower.
LEMMA ProtocolGrows ==
    ASSUME NEW n \in Nat, NEW entries \in Seq(Entry), n <= Len(entries),
           NEW f, IsFold(f, n, entries), NEW i \in 0..n
    PROVE  \A j \in i..n : f[i].protocol <= f[j].protocol
<1> DEFINE T == {k \in Nat : i + k <= n => f[i].protocol <= f[i + k].protocol}
<1>0. \A k \in 0..n : f[k] \in Membership /\ f[k].protocol \in Nat
  BY DEF IsFold, Membership
<1>1. 0 \in T
  BY <1>0
<1>2. ASSUME NEW k \in T PROVE k + 1 \in T
  <2> SUFFICES ASSUME i + k + 1 <= n PROVE f[i].protocol <= f[i + k + 1].protocol
    OBVIOUS
  <2>1. k \in Nat /\ i + k \in 0..n /\ i + k + 1 \in 1..n /\ f[i].protocol <= f[i + k].protocol
    OBVIOUS
  <2>2. f[i + k + 1] = Fold(f[i + k], i + k + 1, entries[i + k + 1])
    BY <2>1 DEF IsFold
  <2>3. ~ f[i + k].group => f[i + k].protocol = 0
    BY <2>1, FoldSound
  <2>4. f[i + k].protocol <= f[i + k + 1].protocol
    <3>1. entries[i + k + 1] \in Entry /\ f[i + k] \in Membership /\ i + k + 1 \in Nat
      BY <1>0, <2>1
    <3> QED
      <4>1. LET now == f[i + k + 1] IN
               \/ now = f[i + k]
               \/ now.protocol = f[i + k].protocol
               \/ now.protocol = 1 /\ f[i + k].protocol = 0
               \/ now.protocol = f[i + k].protocol + 1
        BY <2>2, <2>3, <3>1, FoldClimbs, SMTT(40)
      <4>2. f[i + k].protocol \in Nat
        BY <1>0, <2>1
      <4> QED
        BY <4>1, <4>2
  <2> QED
    BY <1>0, <2>1, <2>4, SMTT(40)
<1>3. T = Nat
  <2> HIDE DEF T
  <2>1. T \in SUBSET Nat
    BY DEF T
  <2> QED
    BY <1>1, <1>2, <2>1, SetInduction
<1> SUFFICES ASSUME NEW j \in i..n PROVE f[i].protocol <= f[j].protocol
  OBVIOUS
<1>4. j - i \in Nat /\ i + (j - i) = j /\ j <= n
  OBVIOUS
<1>5. j - i \in T
  BY <1>3, <1>4
<1> QED
  BY <1>4, <1>5

\* Entries that carry no event fold into nothing.
LEMMA NoEventNoChange ==
    ASSUME NEW n \in Nat, NEW entries \in Seq(Entry), n <= Len(entries),
           NEW f, IsFold(f, n, entries), NEW i \in 0..n, NEW j \in i..n,
           \A k \in i + 1 .. j : ~ IsEvent(entries[k])
    PROVE  f[j] = f[i]
<1> DEFINE T == {k \in Nat : i + k <= j => f[i + k] = f[i]}
<1>1. 0 \in T
  OBVIOUS
<1>2. ASSUME NEW k \in T PROVE k + 1 \in T
  <2> SUFFICES ASSUME i + k + 1 <= j PROVE f[i + k + 1] = f[i]
    OBVIOUS
  <2>1. k \in Nat /\ i + k + 1 \in 1..n /\ i + k + 1 \in i + 1 .. j /\ f[i + k] = f[i]
        /\ i + k + 1 - 1 = i + k
    OBVIOUS
  <2>2. f[i + k + 1] = Fold(f[i + k], i + k + 1, entries[i + k + 1])
    BY <2>1 DEF IsFold
  <2>3. ~ Accepted(f[i + k], entries[i + k + 1])
    BY <2>1 DEF Accepted
  <2> QED
    BY <2>1, <2>2, <2>3 DEF Fold
<1>3. T = Nat
  <2> HIDE DEF T
  <2>1. T \in SUBSET Nat
    BY DEF T
  <2> QED
    BY <1>1, <1>2, <2>1, SetInduction
<1>4. j - i \in Nat /\ i + (j - i) = j /\ i + (j - i) <= j
  OBVIOUS
<1> QED
  BY <1>3, <1>4

-----------------------------------------------------------------------------
(* The inductive invariant.                                                *)

\* truth is the fold of the log, prefix by prefix, and an event the follower's
\* build cannot decode comes only after the protocol that allows it.
LogOK ==
    /\ scenario \in Scenarios
    /\ log \in Seq(Entry)
    /\ IsFold(truth, Len(log), log)
    /\ \A i \in 1..Len(log) : log[i].do.op = "alien" => truth[i - 1].protocol > PROTOCOL_MAX

ServersOK ==
    /\ seat \in [Server -> BOOLEAN]
    /\ applied \in [Server -> 0..Len(log)]
    /\ proj \in [Server -> 0..Len(log)]
    /\ promo \in [Server -> 0..Len(log)]
    /\ allow \in [Server -> SUBSET Node]
    /\ reach \subseteq Server

LoopOK ==
    /\ enforced \subseteq Node /\ sources \subseteq Node
    /\ pc \in {"waiting", "asking", "folding", "storing", "stopped"}
    /\ pass \in Pass
    /\ expelled \in BOOLEAN
    /\ faults \in [outages : Nat, fails : Nat, crashes : Nat]

\* What is left of a page is what the log holds between its last event folded
\* and where the page ends.
PageIsNext ==
    /\ page \in [events : SUBSET Nat, up_to : Nat, last : Nat]
    /\ page.last <= Len(log)
    /\ pc = "folding" =>
        /\ page.last <= page.up_to /\ page.up_to <= Len(log)
        /\ page.events = EventsIn(page.last, page.up_to)

\* A state past what this build speaks is past it by one raise, its last change.
AtTheRaise(st) ==
    st.protocol > PROTOCOL_MAX =>
        log[st.changed_at].do.op = "raise" /\ st.protocol = PROTOCOL_MAX + 1

\* What is in memory and on disk is the fold of a prefix.
StatesOK ==
    /\ mem \in Stored /\ disk \in Stored /\ announced \in Membership
    /\ mem.followed_upto <= Len(log) /\ disk.followed_upto <= Len(log)
    /\ mem.state = truth[IF pc = "folding" THEN page.last ELSE mem.followed_upto]
    /\ disk.state = truth[disk.followed_upto]
    /\ AtTheRaise(mem.state) /\ AtTheRaise(disk.state)

\* A server's page that could not be read, and a stop to be upgraded, are both
\* because of a raise.
VerdictOK ==
    /\ upgrade \in BOOLEAN
    /\ upgrade \/ pass.unread # {} => Now.protocol > PROTOCOL_MAX

FollowerIInv == LogOK /\ ServersOK /\ LoopOK /\ PageIsNext /\ StatesOK /\ VerdictOK

LEMMA FollowerIInvSuffices == FollowerIInv => FollowerInv
<1> SUFFICES ASSUME FollowerIInv PROVE FollowerInv
  OBVIOUS
<1> USE DEF FollowerIInv
<1>1. FollowerTypeOK
  BY Zenon DEF FollowerTypeOK, LogOK, IsFold, ServersOK, LoopOK, PageIsNext, StatesOK, VerdictOK
<1>2. FollowsAPrefix
  BY DEF FollowsAPrefix, PageIsNext, StatesOK
<1>3. StopsAtARaise
  BY DEF StopsAtARaise, StatesOK, AtTheRaise
<1>4. UpgradeIsReal
  BY DEF UpgradeIsReal, VerdictOK
<1> QED
  BY <1>1, <1>2, <1>3, <1>4 DEF FollowerInv

LEMMA InitFollower == FollowerInit => FollowerIInv
<1> SUFFICES ASSUME FollowerInit PROVE FollowerIInv
  OBVIOUS
<1>1. scenario \in Scenarios /\ log = scenario.prelude /\ truth = FoldOf(scenario.prelude)
  BY DEF FollowerInit, LogInit
<1>2. log \in Seq(Entry) /\ Len(log) \in Nat /\ DOMAIN log = 1..Len(log)
  BY <1>1, MemberLogAssumption
<1>3. LogOK
  <2>1. IsFold(truth, Len(log), log)
    BY <1>1, <1>2, FoldOfIsFold
  <2> QED
    BY <1>1, <1>2, <2>1, MemberLogAssumption DEF LogOK
<1>4. Founders \subseteq Server /\ Founders \subseteq Node
  BY <1>1, MemberLogAssumption DEF Founders, Node
<1>5. ServersOK
  <2>1. seat \in [Server -> BOOLEAN]
    <3>1. seat = [s \in Server |-> s \in Founders]
      BY DEF FollowerInit, ServerInit
    <3> QED
      BY <3>1
  <2> QED
    BY <1>2, <1>4, <2>1 DEF FollowerInit, ServerInit, ServersOK
<1>6. LoopOK
  <2>1. expelled \in BOOLEAN
    BY Zenon DEF FollowerInit
  <2> QED
    BY <1>4, <2>1 DEF FollowerInit, LoopOK, NoPass, Pass
<1>7. PageIsNext
  BY <1>2 DEF FollowerInit, PageIsNext, NoPage
<1>8. StatesOK
  <2>1. truth[0] = NewMembership
    BY <1>3 DEF LogOK, IsFold
  <2>2. Blank \in Stored /\ Blank.state = NewMembership /\ Blank.followed_upto = 0
    BY NewMembershipType DEF Blank, Stored
  <2>3. AtTheRaise(NewMembership)
    BY MemberLogAssumption DEF AtTheRaise, NewMembership
  <2> QED
    BY <1>2, <2>1, <2>2, <2>3, NewMembershipType DEF FollowerInit, StatesOK
<1>9. VerdictOK
  <2>1. upgrade = FALSE /\ pass.unread = {}
    BY DEF FollowerInit, NoPass
  <2> QED
    BY <2>1, Zenon DEF VerdictOK
<1> QED
  BY <1>3, <1>5, <1>6, <1>7, <1>8, <1>9 DEF FollowerIInv

-----------------------------------------------------------------------------
(* Raft commits an entry.                                                  *)

LEMMA RaftCommitsStep ==
    ASSUME FollowerIInv, RaftCommits
    PROVE  FollowerIInv'
<1> USE DEF FollowerIInv
<1>1. PICK c \in scenario.changes, seen \in {0, Now.changed_at} :
            Commit(c, seen) /\ UNCHANGED <<reach, followerVars, faults>>
  BY DEF RaftCommits
<1>2. PICK e : e = [do |-> c, seen |-> seen]
  OBVIOUS
<1>3. /\ UNCHANGED <<mem, disk, announced, enforced, pc, pass, page, sources, expelled, upgrade>>
      /\ UNCHANGED <<scenario, seat, applied, proj, promo, allow, reach, faults>>
  BY <1>1 DEF Commit, followerVars, stateVars, loopVars, verdicts, serverVars
<1>4. /\ log \in Seq(Entry) /\ Len(log) \in Nat /\ truth \in [0..Len(log) -> Membership]
      /\ Now \in Membership /\ Now.changed_at \in Nat
  BY DEF LogOK, IsFold, Now, Membership
<1>5. e \in Entry /\ e.do = c
  <2>1. c \in Change
    BY MemberLogAssumption DEF LogOK
  <2> QED
    BY <1>2, <1>4, <2>1 DEF Entry
<1>7. truth' = [i \in 0..Len(log) + 1 |->
                    IF i <= Len(log) THEN truth[i] ELSE Fold(Now, i, e)]
  BY <1>1, <1>2 DEF Commit
<1>8. log' = Append(log, e)
  BY <1>1, <1>2 DEF Commit
<1>9. /\ log' \in Seq(Entry) /\ Len(log') = Len(log) + 1
      /\ \A i \in 1..Len(log) : log'[i] = log[i]
      /\ log'[Len(log) + 1] = e
  BY <1>4, <1>5, <1>8
<1>10. \A i \in 0..Len(log) : truth'[i] = truth[i]
  BY <1>4, <1>7
<1>11. truth'[Len(log) + 1] = Fold(Now, Len(log) + 1, e)
  BY <1>4, <1>7
<1>12. IsFold(truth', Len(log'), log')
  <2>1. Fold(Now, Len(log) + 1, e) \in Membership
    BY <1>4, <1>5, FoldType
  <2>2. truth' \in [0..Len(log') -> Membership]
    BY <1>4, <1>7, <1>9, <2>1
  <2>3. truth'[0] = NewMembership
    BY <1>4, <1>10 DEF LogOK, IsFold
  <2>4. ASSUME NEW i \in 1..Len(log') PROVE truth'[i] = Fold(truth'[i - 1], i, log'[i])
    <3>1. CASE i = Len(log) + 1
      <4>1. i - 1 = Len(log) /\ truth'[i - 1] = Now
        BY <1>4, <1>10, <3>1 DEF Now
      <4> QED
        BY <1>9, <1>11, <3>1, <4>1
    <3>2. CASE i # Len(log) + 1
      <4>1. i \in 1..Len(log) /\ i \in 0..Len(log) /\ i - 1 \in 0..Len(log)
        BY <1>4, <1>9, <3>2
      <4>2. truth[i] = Fold(truth[i - 1], i, log[i])
        BY <4>1 DEF LogOK, IsFold
      <4> QED
        BY <1>9, <1>10, <4>1, <4>2
    <3> QED
      BY <3>1, <3>2
  <2> QED
    BY <2>2, <2>3, <2>4 DEF IsFold
<1>13. LogOK'
  <2>1. ASSUME NEW i \in 1..Len(log'), log'[i].do.op = "alien"
        PROVE  truth'[i - 1].protocol > PROTOCOL_MAX
    <3>1. CASE i = Len(log) + 1
      <4>1. i - 1 = Len(log) /\ truth'[i - 1] = Now /\ c.op = "alien"
        BY <1>4, <1>5, <1>9, <1>10, <2>1, <3>1 DEF Now
      <4> QED
        BY <1>1, <4>1 DEF Commit
    <3>2. CASE i # Len(log) + 1
      <4>1. i \in 1..Len(log) /\ i - 1 \in 0..Len(log)
        BY <1>4, <1>9, <3>2
      <4> QED
        BY <1>9, <1>10, <2>1, <4>1 DEF LogOK
    <3> QED
      BY <3>1, <3>2
  <2> QED
    BY <1>3, <1>9, <1>12, <2>1 DEF LogOK
<1>14. ServersOK'
  <2>1. 0..Len(log) \subseteq 0..Len(log')
    BY <1>4, <1>9
  <2> QED
    BY <1>3, <2>1 DEF ServersOK
<1>15. LoopOK'
  BY <1>3 DEF LoopOK
<1>16. PageIsNext'
  <2>1. ASSUME pc = "folding" PROVE EventsIn(page.last, page.up_to)' = page.events
    <3>1. /\ page.last \in Nat /\ page.up_to \in Nat /\ page.up_to <= Len(log)
          /\ page.events = EventsIn(page.last, page.up_to)
      BY <2>1 DEF PageIsNext
    <3>2. \A i \in page.last + 1 .. page.up_to : i \in 1..Len(log)
      BY <1>4, <3>1
    <3> QED
      BY <1>3, <1>9, <3>1, <3>2 DEF EventsIn
  <2> QED
    BY <1>3, <1>4, <1>9, <2>1 DEF PageIsNext
<1>17. StatesOK'
  <2>1. /\ mem \in Stored /\ disk \in Stored
        /\ mem.followed_upto \in 0..Len(log) /\ disk.followed_upto \in 0..Len(log)
        /\ page.last \in 0..Len(log)
    BY <1>4 DEF StatesOK, Stored, PageIsNext
  <2>2. \A k \in 0..Len(log) : AtTheRaise(truth[k]) => AtTheRaise(truth[k])'
    <3> SUFFICES ASSUME NEW k \in 0..Len(log), AtTheRaise(truth[k]),
                        truth'[k].protocol > PROTOCOL_MAX
                 PROVE  /\ log'[truth'[k].changed_at].do.op = "raise"
                        /\ truth'[k].protocol = PROTOCOL_MAX + 1
      BY DEF AtTheRaise
    <3>1. truth'[k] = truth[k] /\ truth[k] \in Membership
      BY <1>4, <1>10
    <3>2. truth[k].changed_at \in 1..Len(log)
      <4>1. truth[k].changed_at <= k /\ (truth[k].protocol > 0 => truth[k].changed_at >= 1)
        BY <1>4, FoldSound DEF LogOK
      <4> QED
        BY <1>4, <3>1, <4>1, MemberLogAssumption DEF Membership
    <3> QED
      BY <1>9, <3>1, <3>2 DEF AtTheRaise
  <2>3. mem.state' = mem.state /\ disk.state' = disk.state
    BY <1>3
  <2>4. AtTheRaise(mem.state)' /\ AtTheRaise(disk.state)'
    <3>1. PICK k \in 0..Len(log), l \in 0..Len(log) : mem.state = truth[k] /\ disk.state = truth[l]
      BY <2>1 DEF StatesOK
    <3>2. AtTheRaise(truth[k]) /\ AtTheRaise(truth[l])
      BY <3>1 DEF StatesOK
    <3>3. AtTheRaise(truth[k])' /\ AtTheRaise(truth[l])'
      BY <2>2, <3>2
    <3>4. truth'[k] = mem'.state /\ truth'[l] = disk'.state
      BY <1>3, <1>10, <3>1
    <3> QED
      BY <3>3, <3>4 DEF AtTheRaise
  <2> QED
    BY <1>3, <1>4, <1>9, <1>10, <2>1, <2>4 DEF StatesOK
<1>18. VerdictOK'
  <2>1. Now' = truth'[Len(log) + 1]
    BY <1>9 DEF Now
  <2>2. Now.protocol <= Now'.protocol
    <3>1. Len(log) \in 0..Len(log') /\ Len(log) + 1 \in Len(log)..Len(log')
      BY <1>4, <1>9
    <3>2. truth'[Len(log)].protocol <= truth'[Len(log) + 1].protocol
      BY <1>9, <1>12, <3>1, ProtocolGrows
    <3> QED
      BY <1>4, <1>10, <2>1, <3>1, <3>2 DEF Now
  <2>3. Now'.protocol \in Nat
    <3>1. Len(log) + 1 \in 0..Len(log') /\ truth' \in [0..Len(log') -> Membership]
      BY <1>4, <1>9, <1>12 DEF IsFold
    <3> QED
      BY <2>1, <3>1 DEF Membership
  <2> QED
    BY <1>3, <1>4, <2>2, <2>3, MemberLogAssumption DEF VerdictOK, Membership
<1> QED
  BY <1>13, <1>14, <1>15, <1>16, <1>17, <1>18

-----------------------------------------------------------------------------
(* The servers and the network.                                            *)

LEMMA ServersStep ==
    ASSUME FollowerIInv, NEW s \in Server, ServerStep(s) \/ Lose(s) \/ Recover(s)
    PROVE  FollowerIInv'
<1> USE DEF FollowerIInv
<1>1. UNCHANGED <<scenario, log, truth, mem, disk, announced, enforced, pc, pass, page, sources,
                  expelled, upgrade>>
  <2>1. CASE ServerStep(s)
    BY <2>1 DEF ServerStep, ServerNext, ServerApplies, ServerFollows, ServerEnforces, TakeSeat,
       StandDown, logVars, followerVars, stateVars, loopVars, verdicts
  <2>2. CASE Lose(s) \/ Recover(s)
    BY <2>2 DEF Lose, Recover, logVars, followerVars, stateVars, loopVars, verdicts
  <2> QED
    BY <2>1, <2>2
<1>2. LogOK' /\ PageIsNext' /\ StatesOK' /\ VerdictOK'
  BY <1>1 DEF LogOK, PageIsNext, StatesOK, VerdictOK, EventsIn, AtTheRaise, Now
<1>3. /\ log \in Seq(Entry) /\ Len(log) \in Nat
      /\ truth \in [0..Len(log) -> Membership] /\ proj[s] \in 0..Len(log)
      /\ truth[proj[s]] \in Membership
  BY DEF LogOK, IsFold, ServersOK
<1>4. truth[proj[s]].changed_at \in 0..Len(log)
  <2>1. truth[proj[s]].changed_at <= proj[s]
    BY <1>3, FoldSound DEF LogOK
  <2> QED
    BY <1>3, <2>1 DEF Membership
<1>5. CASE ServerStep(s)
  <2>1. UNCHANGED <<reach, faults>> /\ ServerNext(s)
    BY <1>5 DEF ServerStep
  <2>2. ServersOK'
    <3>1. CASE ServerApplies(s)
      BY <1>1, <1>3, <2>1, <3>1 DEF ServerApplies, ServersOK
    <3>2. CASE ServerFollows(s)
      BY <1>1, <1>3, <2>1, <3>2 DEF ServerFollows, ServersOK
    <3>3. CASE ServerEnforces(s)
      <4>1. truth[proj[s]].members \subseteq Node
        BY <1>3 DEF Membership
      <4> QED
        BY <1>1, <2>1, <3>3, <4>1 DEF ServerEnforces, ServersOK
    <3>4. CASE TakeSeat(s)
      BY <1>1, <1>3, <1>4, <2>1, <3>4 DEF TakeSeat, ServersOK
    <3>5. CASE StandDown(s)
      BY <1>1, <2>1, <3>5 DEF StandDown, ServersOK
    <3> QED
      BY <2>1, <3>1, <3>2, <3>3, <3>4, <3>5 DEF ServerNext
  <2>3. LoopOK'
    BY <1>1, <2>1 DEF LoopOK
  <2> QED
    BY <1>2, <2>2, <2>3
<1>6. CASE Lose(s) \/ Recover(s)
  <2>1. UNCHANGED <<seat, applied, proj, promo, allow>> /\ reach' \subseteq Server
    BY <1>6 DEF Lose, Recover, serverVars, ServersOK
  <2>2. ServersOK'
    BY <1>1, <2>1 DEF ServersOK
  <2>3. faults' \in [outages : Nat, fails : Nat, crashes : Nat]
    BY <1>6 DEF Lose, Recover, LoopOK
  <2>4. LoopOK'
    BY <1>1, <2>3 DEF LoopOK
  <2> QED
    BY <1>2, <2>2, <2>4
<1> QED
  BY <1>5, <1>6

-----------------------------------------------------------------------------
(* The follower's own steps.                                               *)

\* A step of the follower touches neither the log nor the servers: what is left
\* to show is about the follower.
LEMMA OwnStep ==
    ASSUME FollowerIInv, UNCHANGED <<logVars, serverVars, reach>>,
           LoopOK', PageIsNext', StatesOK', VerdictOK'
    PROVE  FollowerIInv'
BY DEF FollowerIInv, LogOK, ServersOK, logVars, serverVars

\* The fold of a prefix is no further than the group is.
LEMMA BehindIsReal ==
    ASSUME FollowerIInv, pc # "folding", BehindTheGroup(mem.state)
    PROVE  Now.protocol > PROTOCOL_MAX
<1>1. mem.followed_upto \in 0..Len(log) /\ mem.state = truth[mem.followed_upto]
  BY DEF FollowerIInv, StatesOK, Stored, LogOK
<1>2. truth[mem.followed_upto].protocol <= Now.protocol
  <2>1. Len(log) \in mem.followed_upto..Len(log)
    BY <1>1 DEF FollowerIInv, LogOK
  <2>2. IsFold(truth, Len(log), log) /\ log \in Seq(Entry)
    BY DEF FollowerIInv, LogOK
  <2> QED
    BY <1>1, <2>1, <2>2, ProtocolGrows DEF Now
<1>3. truth[mem.followed_upto] \in Membership /\ Now \in Membership
  BY <1>1 DEF FollowerIInv, LogOK, IsFold, Now
<1> QED
  BY <1>1, <1>2, <1>3, MemberLogAssumption DEF BehindTheGroup, Membership

\* What EndPass says is right, and leaves no page behind.
LEMMA EndPassKeeps ==
    ASSUME FollowerIInv, pc # "folding", NEW progress, EndPass(progress),
           progress = "Undecodable" => Now.protocol > PROTOCOL_MAX,
           UNCHANGED <<logVars, mem>>,
           enforced' \subseteq Node, sources' \subseteq Node,
           disk' \in {disk, mem}, announced' \in {announced, mem.state},
           faults' \in [outages : Nat, fails : Nat, crashes : Nat]
    PROVE  LoopOK' /\ PageIsNext' /\ StatesOK' /\ VerdictOK'
<1> USE DEF FollowerIInv
<1>1. UNCHANGED <<log, truth, mem>> /\ Len(log) \in Nat
  BY DEF logVars, LogOK
<1>2. /\ pc' \in {"stopped", "waiting"} /\ pass' = NoPass /\ page' = NoPage
      /\ pass'.unread = {} /\ page'.last = 0
  BY DEF EndPass, NoPass, NoPage
<1>3. expelled' \in BOOLEAN /\ upgrade' \in BOOLEAN
  BY Zenon DEF EndPass, BehindTheGroup
<1>4. upgrade' => Now.protocol > PROTOCOL_MAX
  <2>1. upgrade' => BehindTheGroup(mem.state) \/ progress = "Undecodable"
    BY Zenon DEF EndPass
  <2> QED
    BY <2>1, BehindIsReal
<1>5. LoopOK'
  <2>1. NoPass \in Pass
    BY DEF NoPass, Pass
  <2> QED
    BY <1>2, <1>3, <2>1 DEF LoopOK
<1>6. PageIsNext'
  BY <1>1, <1>2 DEF PageIsNext, NoPage
<1>7. VerdictOK'
  BY <1>1, <1>2, <1>3, <1>4 DEF VerdictOK, Now
<1>8. StatesOK'
  <2>1. mem.state \in Membership
    BY DEF StatesOK, Stored
  <2> QED
    BY <1>1, <1>2, <2>1 DEF StatesOK, AtTheRaise
<1> QED
  BY <1>5, <1>6, <1>7, <1>8

LEMMA VisitType ==
    ASSUME pass \in Pass, NEW s \in Server
    PROVE  Visit(s) \in Pass /\ Visit(s).unread = pass.unread
BY DEF Visit, Pass, Node

\* A page is what the log holds after the cursor, as far as the page reaches.
LEMMA FetchedPage ==
    ASSUME NEW cursor \in Nat, NEW upper \in Nat, NEW p \in fetch(cursor, upper)
    PROVE  p.up_to \in Nat /\ p.up_to <= upper /\ p.events = EventsIn(cursor, p.up_to)
<1>1. \/ \E i \in EventsIn(cursor, upper) : p = [events |-> EventsIn(cursor, i), up_to |-> i]
      \/ p = [events |-> EventsIn(cursor, upper), up_to |-> upper]
  BY DEF fetch
<1>2. \A i \in EventsIn(cursor, upper) : i \in Nat /\ i <= upper
  BY DEF EventsIn
<1> QED
  BY <1>1, <1>2

\* One exchange with a server.
LEMMA AskStep ==
    ASSUME FollowerIInv, NEW s \in Server, Ask(s)
    PROVE  FollowerIInv'
<1> USE DEF FollowerIInv
<1>0. /\ log \in Seq(Entry) /\ Len(log) \in Nat /\ truth \in [0..Len(log) -> Membership]
      /\ mem \in Stored /\ mem.followed_upto \in Nat /\ mem.followed_upto <= Len(log)
      /\ pass \in Pass /\ applied[s] \in 0..Len(log) /\ proj[s] \in 0..Len(log)
  BY DEF LogOK, IsFold, StatesOK, Stored, LoopOK, ServersOK
<1>1. Visit(s) \in Pass /\ Visit(s).unread = pass.unread
  BY <1>0, VisitType
<1>2. ASSUME pc = "asking", NEW visited \in Pass, pass' = visited, sources' \subseteq Node,
             visited.unread # {} => Now.protocol > PROTOCOL_MAX,
             UNCHANGED <<logVars, serverVars, reach, stateVars, enforced, pc, page, verdicts, faults>>
      PROVE  FollowerIInv'
  <2>1. UNCHANGED <<log, truth, mem, disk, announced, expelled, upgrade>>
    BY <1>2 DEF logVars, stateVars, verdicts
  <2>2. LoopOK' /\ PageIsNext' /\ StatesOK'
    BY <1>2, <2>1 DEF LoopOK, PageIsNext, StatesOK, AtTheRaise, EventsIn
  <2>3. VerdictOK'
    BY <1>2, <2>1 DEF VerdictOK, Now
  <2> QED
    BY <1>2, <2>2, <2>3, OwnStep
<1>3. pass.unread # {} => Now.protocol > PROTOCOL_MAX
  BY DEF VerdictOK
<1>4. CASE AskUnreachable(s)
  BY <1>1, <1>2, <1>3, <1>4 DEF AskUnreachable, TakesUp, LoopOK
<1>5. CASE AskRefused(s)
  <2> DEFINE v == [Visit(s) EXCEPT !.refused = @ \cup {s}]
  <2>1. v \in Pass /\ v.unread = pass.unread
    BY <1>1 DEF Pass
  <2> HIDE DEF v
  <2> QED
    BY <1>2, <1>3, <1>5, <2>1 DEF AskRefused, TakesUp, LoopOK, v
<1>6. CASE AskNoGroup(s)
  <2> DEFINE v == [Visit(s) EXCEPT !.other = @ \cup {s}]
  <2>1. v \in Pass /\ v.unread = pass.unread
    BY <1>1 DEF Pass
  <2> HIDE DEF v
  <2> QED
    BY <1>2, <1>3, <1>6, <2>1 DEF AskNoGroup, Talks, TakesUp, LoopOK, v
<1>7. CASE AskRedirect(s)
  <2> DEFINE v == [Visit(s) EXCEPT !.other = @ \cup {s},
                                   !.todo = @ \cup (truth[proj[s]].core \ {Me})]
  <2>1. truth[proj[s]].core \subseteq Node
    BY <1>0 DEF Membership
  <2>2. v \in Pass /\ v.unread = pass.unread
    BY <1>1, <2>1 DEF Pass
  <2> HIDE DEF v
  <2> QED
    BY <1>2, <1>3, <1>7, <2>1, <2>2 DEF AskRedirect, Talks, TakesUp, v
<1>8. CASE AskUndecodable(s)
  <2> DEFINE v == [Visit(s) EXCEPT !.other = @ \cup {s}, !.unread = @ \cup {s}]
  <2>1. v \in Pass
    BY <1>1 DEF Pass
  <2> HIDE DEF v
  <2>2. PICK p \in fetch(mem.followed_upto, applied[s]) : Unreadable(p)
    BY <1>8 DEF AskUndecodable
  <2>3. PICK i \in p.events : log[i].do.op = "alien"
    BY <2>2 DEF Unreadable
  <2>4. i \in 1..Len(log) /\ i - 1 \in 0..Len(log) /\ Len(log) \in (i - 1)..Len(log)
    <3>1. applied[s] \in Nat /\ applied[s] <= Len(log)
      BY <1>0
    <3>2. i \in EventsIn(mem.followed_upto, p.up_to) /\ p.up_to \in Nat /\ p.up_to <= applied[s]
      BY <1>0, <2>2, <2>3, <3>1, FetchedPage
    <3> QED
      BY <1>0, <3>1, <3>2 DEF EventsIn
  <2>5. truth[i - 1].protocol > PROTOCOL_MAX
    BY <2>3, <2>4 DEF LogOK
  <2>6. truth[i - 1].protocol <= Now.protocol
    BY <1>0, <2>4, ProtocolGrows, SMTT(40) DEF LogOK, Now
  <2>7. Now.protocol > PROTOCOL_MAX
    <3>1. truth[i - 1] \in Membership /\ Now \in Membership
      BY <1>0, <2>4 DEF Now
    <3> QED
      BY <2>5, <2>6, <3>1, MemberLogAssumption DEF Membership
  <2> QED
    BY <1>2, <1>8, <2>1, <2>7 DEF AskUndecodable, Talks, TakesUp, LoopOK, v
<1>9. ASSUME NEW p \in fetch(mem.followed_upto, applied[s]), NEW asked \in Sources(s),
             AskEntries(s, p, asked)
      PROVE  FollowerIInv'
  <2>1. pc = "asking" /\ sources' = asked
        /\ UNCHANGED <<logVars, serverVars, reach, stateVars, enforced, faults>>
    BY <1>9 DEF AskEntries, Talks, TakesUp
  <2>2. asked \subseteq Node
    <3>1. PICK j \in 1..applied[s] : asked = truth[j].core
      BY DEF Sources
    <3>2. j \in 0..Len(log)
      BY <1>0, <3>1
    <3>3. truth[j] \in Membership
      BY <1>0, <3>2
    <3> QED
      BY <3>1, <3>3 DEF Membership
  <2>3. UNCHANGED <<log, truth, mem, disk, announced>>
    BY <2>1 DEF logVars, stateVars
  <2>4. CASE EndPass("UpToDate")
    <3>1. LoopOK' /\ PageIsNext' /\ StatesOK' /\ VerdictOK'
      BY <2>1, <2>2, <2>3, <2>4, EndPassKeeps DEF LoopOK
    <3> QED
      BY <2>1, <3>1, OwnStep
  <2>5. CASE /\ p.up_to > mem.followed_upto
             /\ pc' = "folding"
             /\ page' = [events |-> p.events, up_to |-> p.up_to, last |-> mem.followed_upto]
             /\ pass' = NoPass
             /\ UNCHANGED verdicts
    <3>1. /\ p.up_to \in Nat /\ p.up_to <= Len(log)
          /\ p.events = EventsIn(mem.followed_upto, p.up_to)
      <4>1. applied[s] \in Nat /\ applied[s] <= Len(log)
        BY <1>0
      <4> QED
        BY <1>0, <4>1, FetchedPage
    <3>2. p.events \in SUBSET Nat
      BY <1>0, <3>1 DEF EventsIn
    <3>3. page'.last = mem.followed_upto /\ page'.up_to = p.up_to /\ page'.events = p.events
      BY <2>5
    <3>4. PageIsNext'
      <4>1. EventsIn(page.last, page.up_to)' = EventsIn(mem.followed_upto, p.up_to)
        BY <2>3, <3>3 DEF EventsIn
      <4> QED
        BY <1>0, <2>3, <2>5, <3>1, <3>2, <3>3, <4>1 DEF PageIsNext
    <3>5. StatesOK'
      BY <2>1, <2>3, <2>5, <3>3 DEF StatesOK, AtTheRaise
    <3>6. LoopOK' /\ VerdictOK'
      <4>1. NoPass \in Pass /\ NoPass.unread = {}
        BY DEF NoPass, Pass
      <4> QED
        BY <2>1, <2>2, <2>3, <2>5, <4>1 DEF LoopOK, VerdictOK, verdicts, Now
    <3> QED
      BY <2>1, <3>4, <3>5, <3>6, OwnStep
  <2> QED
    BY <1>9, <2>4, <2>5 DEF AskEntries
<1> QED
  BY <1>4, <1>5, <1>6, <1>7, <1>8, <1>9 DEF Ask

\* A pass starts, or ends with nobody having served it.
LEMMA PassStep ==
    ASSUME FollowerIInv, StartPass \/ NobodyServed
    PROVE  FollowerIInv'
<1> USE DEF FollowerIInv
<1>1. CASE StartPass
  <2>1. UNCHANGED <<log, truth, mem, disk, announced, enforced, page, sources, expelled, upgrade, faults>>
    BY <1>1 DEF StartPass, logVars, stateVars, verdicts
  <2>2. Candidates \in SUBSET Node
    BY DEF Candidates, LoopOK, StatesOK, Stored, Membership
  <2>3. pass' \in Pass /\ pass'.unread = {}
    BY <1>1, <2>2 DEF StartPass, NoPass, Pass
  <2>4. pc = "waiting" /\ pc' = "asking"
    BY <1>1 DEF StartPass
  <2>5. LoopOK' /\ PageIsNext' /\ StatesOK'
    BY <2>1, <2>3, <2>4 DEF LoopOK, PageIsNext, StatesOK, AtTheRaise
  <2>6. VerdictOK'
    BY <2>1, <2>3 DEF VerdictOK, Now
  <2>7. UNCHANGED <<logVars, serverVars, reach>>
    BY <1>1 DEF StartPass
  <2> QED
    BY <2>5, <2>6, <2>7, OwnStep
<1>2. CASE NobodyServed
  <2> DEFINE progress == IF Refused(pass) THEN "Refused"
                         ELSE IF Undecodable(pass) THEN "Undecodable" ELSE "Unreachable"
  <2>1. /\ pc = "asking" /\ EndPass(progress)
        /\ UNCHANGED <<logVars, serverVars, reach, stateVars, enforced, sources, faults>>
    BY <1>2 DEF NobodyServed
  <2>2. progress = "Undecodable" => Now.protocol > PROTOCOL_MAX
    BY DEF Undecodable, VerdictOK
  <2> HIDE DEF progress
  <2>3. UNCHANGED <<mem, disk, announced>>
    BY <2>1 DEF stateVars
  <2>4. LoopOK' /\ PageIsNext' /\ StatesOK' /\ VerdictOK'
    BY <2>1, <2>2, <2>3, EndPassKeeps DEF LoopOK
  <2> QED
    BY <2>1, <2>4, OwnStep
<1> QED
  BY <1>1, <1>2

\* An event of the page is folded: it is the next one of the log.
LEMMA FoldEventStep ==
    ASSUME FollowerIInv, NEW i \in page.events, FoldEvent(i)
    PROVE  FollowerIInv'
<1> USE DEF FollowerIInv
<1>1. /\ UNCHANGED <<scenario, log, truth, disk, announced, enforced, pc, pass, sources, expelled,
                     upgrade, faults>>
      /\ UNCHANGED <<logVars, serverVars, reach>>
      /\ pc = "folding"
  BY DEF FoldEvent, logVars, verdicts
<1>2. /\ log \in Seq(Entry) /\ Len(log) \in Nat /\ IsFold(truth, Len(log), log)
      /\ page.last \in Nat /\ page.up_to \in Nat
      /\ page.last <= page.up_to /\ page.up_to <= Len(log)
      /\ page.events = EventsIn(page.last, page.up_to)
  BY <1>1 DEF LogOK, PageIsNext
<1>3. i \in page.last + 1 .. page.up_to
  BY <1>2 DEF EventsIn
<1>4. \A k \in page.last + 1 .. i - 1 : ~ IsEvent(log[k])
  <2> SUFFICES ASSUME NEW k \in page.last + 1 .. i - 1, IsEvent(log[k]) PROVE FALSE
    OBVIOUS
  <2>1. k \in page.events /\ k < i
    BY <1>2, <1>3 DEF EventsIn
  <2> QED
    BY <1>2, <1>3, <2>1 DEF FoldEvent
<1>5. truth[i - 1] = truth[page.last]
  <2>1. page.last \in 0..Len(log) /\ i - 1 \in page.last..Len(log)
    BY <1>2, <1>3
  <2>2. Len(log) <= Len(log)
    BY <1>2
  <2> QED
    BY <1>2, <1>4, <2>1, <2>2, NoEventNoChange, ZenonT(40)
<1>6. mem.state = truth[i - 1] /\ truth[i] = Fold(mem.state, i, log[i])
  <2>1. i \in 1..Len(log)
    BY <1>2, <1>3
  <2> QED
    BY <1>1, <1>2, <1>5, <2>1 DEF StatesOK, IsFold
<1>7. i \in 0..Len(log) /\ truth[i] \in Membership /\ log[i] \in Entry
  BY <1>2, <1>3 DEF IsFold
<1>8. mem' \in Stored /\ mem'.state = truth[i] /\ mem'.followed_upto = mem.followed_upto
  BY <1>6, <1>7 DEF FoldEvent, StatesOK, Stored
<1>9. page'.last = i /\ page'.up_to = page.up_to /\ page'.events = page.events \ {i}
      /\ page' \in [events : SUBSET Nat, up_to : Nat, last : Nat]
  BY <1>3, <1>2 DEF FoldEvent, PageIsNext
<1>10. PageIsNext'
  <2>1. page.events \ {i} = EventsIn(i, page.up_to)
    BY <1>2, <1>3, <1>4 DEF EventsIn
  <2>2. EventsIn(page.last, page.up_to)' = EventsIn(i, page.up_to)
    BY <1>1, <1>9 DEF EventsIn
  <2> QED
    BY <1>1, <1>2, <1>3, <1>9, <2>1, <2>2 DEF PageIsNext
<1>11. AtTheRaise(mem.state)'
  <2>0. i \in Nat
    BY <1>2, <1>3
  <2>1. ~ mem.state.group => mem.state.protocol = 0
    <3>1. i - 1 \in 0..Len(log)
      BY <1>2, <1>3
    <3> QED
      BY <1>2, <1>6, <3>1, FoldSound
  <2>2. mem.state \in Membership /\ ~ mem.state.protocol > PROTOCOL_MAX
    BY DEF FoldEvent, PastARaise, StatesOK, Stored
  <2>3. \/ truth[i] = mem.state
        \/ truth[i].changed_at = i /\ truth[i].protocol = mem.state.protocol
        \/ truth[i].changed_at = i /\ truth[i].protocol = 1 /\ mem.state.protocol = 0
        \/ truth[i].changed_at = i /\ truth[i].protocol = mem.state.protocol + 1
           /\ log[i].do.op = "raise"
    <3>1. LET now == Fold(mem.state, i, log[i]) IN
             \/ now = mem.state
             \/ now.changed_at = i /\ now.protocol = mem.state.protocol
             \/ now.changed_at = i /\ now.protocol = 1 /\ mem.state.protocol = 0
             \/ now.changed_at = i /\ now.protocol = mem.state.protocol + 1 /\ log[i].do.op = "raise"
      <4>1. mem.state \in Membership /\ i \in Nat /\ log[i] \in Entry
        BY <1>7, <2>0, <2>2
      <4> HIDE DEF FollowerIInv
      <4> QED
        BY <2>1, <4>1, FoldClimbs, SMTT(40)
    <3> QED
      BY <1>6, <3>1, Zenon
  <2>4. mem.state.protocol \in Nat /\ truth[i].protocol \in Nat
    BY <1>7, <2>2 DEF Membership
  <2>5. truth[i].protocol > PROTOCOL_MAX =>
           log[truth[i].changed_at].do.op = "raise" /\ truth[i].protocol = PROTOCOL_MAX + 1
    BY <2>2, <2>3, <2>4, MemberLogAssumption
  <2> QED
    BY <1>1, <1>8, <2>5 DEF AtTheRaise
<1>12. StatesOK'
  BY <1>1, <1>8, <1>9, <1>11 DEF StatesOK, AtTheRaise
<1>13. LoopOK' /\ VerdictOK'
  BY <1>1 DEF LoopOK, VerdictOK, Now
<1> QED
  BY <1>1, <1>10, <1>12, <1>13, OwnStep

\* The cursor moves to where the page ends, or to the raise it stopped at.
LEMMA FoldDoneStep ==
    ASSUME FollowerIInv, FoldDone
    PROVE  FollowerIInv'
<1> USE DEF FollowerIInv
<1>1. /\ UNCHANGED <<scenario, log, truth, disk, announced, enforced, pass, page, sources, expelled,
                     upgrade, faults>>
      /\ UNCHANGED <<logVars, serverVars, reach>>
      /\ pc = "folding" /\ pc' = "storing"
  BY DEF FoldDone, logVars, verdicts
<1>2. /\ log \in Seq(Entry) /\ Len(log) \in Nat /\ IsFold(truth, Len(log), log)
      /\ page.last \in Nat /\ page.up_to \in Nat
      /\ page.last <= page.up_to /\ page.up_to <= Len(log)
      /\ page.events = EventsIn(page.last, page.up_to)
      /\ mem.state = truth[page.last]
  BY <1>1 DEF LogOK, PageIsNext, StatesOK
<1>3. page.events = {} => truth[page.up_to] = truth[page.last]
  <2> SUFFICES ASSUME page.events = {} PROVE truth[page.up_to] = truth[page.last]
    OBVIOUS
  <2>1. page.last \in 0..Len(log) /\ page.up_to \in page.last..Len(log)
    BY <1>2
  <2>2. \A k \in page.last + 1 .. page.up_to : ~ IsEvent(log[k])
    BY <1>2 DEF EventsIn
  <2>3. Len(log) <= Len(log) /\ Len(log) \in Nat /\ log \in Seq(Entry) /\ IsFold(truth, Len(log), log)
    BY <1>2
  <2>4. PICK from \in 0..Len(log), to \in Nat : from = page.last /\ to = page.up_to
    BY <1>2, <2>1
  <2>5. to \in from..Len(log) /\ \A k \in from + 1 .. to : ~ IsEvent(log[k])
    BY <2>1, <2>2, <2>4
  <2>6. truth[to] = truth[from]
    <3> HIDE DEF FollowerIInv
    <3> QED
      BY <2>3, <2>5, NoEventNoChange
  <2> QED
    BY <2>4, <2>6
<1>4. /\ mem' \in Stored /\ mem'.state = mem.state
      /\ mem'.followed_upto = IF page.events = {} THEN page.up_to ELSE page.last
  BY <1>2 DEF FoldDone, StatesOK, Stored
<1>5. PageIsNext'
  BY <1>1 DEF PageIsNext
<1>6. StatesOK'
  BY <1>1, <1>2, <1>3, <1>4 DEF StatesOK, AtTheRaise
<1>7. LoopOK' /\ VerdictOK'
  BY <1>1 DEF LoopOK, VerdictOK, Now
<1> QED
  BY <1>1, <1>5, <1>6, <1>7, OwnStep

\* The fold is stored and announced, or the write fails.
LEMMA StoreStep ==
    ASSUME FollowerIInv, Store \/ StoreFails
    PROVE  FollowerIInv'
<1> USE DEF FollowerIInv
<1>1. PICK progress \in {"Fetched", "NotStored"} :
         /\ pc = "storing" /\ EndPass(progress)
         /\ UNCHANGED <<logVars, serverVars, reach, mem, enforced, sources>>
         /\ disk' \in {disk, mem} /\ announced' \in {announced, mem.state}
  BY DEF Store, StoreFails, stateVars
<1>2. faults' \in [outages : Nat, fails : Nat, crashes : Nat]
  BY DEF Store, StoreFails, LoopOK
<1>3. LoopOK' /\ PageIsNext' /\ StatesOK' /\ VerdictOK'
  BY <1>1, <1>2, EndPassKeeps DEF LoopOK
<1> QED
  BY <1>1, <1>3, OwnStep

\* The allowlist task, and a restart from what was stored.
LEMMA OutsideStep ==
    ASSUME FollowerIInv, Enforce \/ Restart
    PROVE  FollowerIInv'
<1> USE DEF FollowerIInv
<1>1. UNCHANGED <<logVars, serverVars, reach>> /\ UNCHANGED <<scenario, log, truth>>
  BY DEF Enforce, Restart, logVars
<1>2. CASE Enforce
  <2>1. UNCHANGED <<mem, disk, announced, pc, pass, page, sources, expelled, upgrade, faults>>
    BY <1>2 DEF Enforce, stateVars, loopVars, verdicts
  <2>2. enforced' \subseteq Node
    BY <1>2 DEF Enforce, StatesOK, Membership
  <2>3. LoopOK' /\ PageIsNext' /\ StatesOK' /\ VerdictOK'
    BY <1>1, <2>1, <2>2 DEF LoopOK, PageIsNext, StatesOK, VerdictOK, AtTheRaise, EventsIn, Now
  <2> QED
    BY <1>1, <2>3, OwnStep
<1>3. CASE Restart
  <2>1. /\ mem' = disk /\ disk' = disk /\ announced' = disk.state
        /\ pc' = "waiting" /\ pass' = NoPass /\ page' = NoPage
        /\ expelled' = FALSE /\ upgrade' = FALSE /\ enforced' = Founders
        /\ sources' \in {disk.state.core, Founders}
    BY <1>3 DEF Restart
  <2>2. Founders \subseteq Node /\ disk.state \in Membership /\ disk.state.core \subseteq Node
    BY MemberLogAssumption DEF LogOK, Founders, Node, StatesOK, Stored, Membership
  <2>3. faults' \in [outages : Nat, fails : Nat, crashes : Nat]
    BY <1>3 DEF Restart, LoopOK
  <2>4. NoPass \in Pass /\ NoPass.unread = {} /\ NoPage.last = 0
        /\ NoPage \in [events : SUBSET Nat, up_to : Nat, last : Nat]
    BY DEF NoPass, Pass, NoPage
  <2>5. expelled' \in BOOLEAN /\ upgrade' \in BOOLEAN
    BY <2>1, Zenon
  <2>6. LoopOK'
    BY <2>1, <2>2, <2>3, <2>4, <2>5 DEF LoopOK
  <2>7. PageIsNext'
    BY <1>1, <2>1, <2>4 DEF PageIsNext, LogOK
  <2>8. StatesOK'
    BY <1>1, <2>1, <2>2 DEF StatesOK, AtTheRaise
  <2>9. VerdictOK'
    BY <2>1, <2>4, <2>5 DEF VerdictOK
  <2> QED
    BY <1>1, <2>6, <2>7, <2>8, <2>9, OwnStep
<1> QED
  BY <1>2, <1>3

LEMMA NextFollower == FollowerIInv /\ [FollowerNext]_systemVars => FollowerIInv'
<1> SUFFICES ASSUME FollowerIInv, [FollowerNext]_systemVars PROVE FollowerIInv'
  OBVIOUS
<1>1. CASE Loop
  BY <1>1, PassStep, FoldDoneStep, StoreStep, FoldEventStep, AskStep DEF Loop
<1>2. CASE StoreFails \/ Enforce \/ Restart
  BY <1>2, StoreStep, OutsideStep
<1>3. CASE RaftCommits
  BY <1>3, RaftCommitsStep
<1>4. CASE \E s \in Server : ServerStep(s) \/ Lose(s) \/ Recover(s)
  BY <1>4, ServersStep
<1>5. CASE UNCHANGED systemVars
  <2>1. /\ UNCHANGED <<scenario, log, truth, seat, applied, proj, promo, allow, reach, mem, disk>>
        /\ UNCHANGED <<announced, enforced, pc, pass, page, sources, expelled, upgrade, faults>>
    BY <1>5 DEF systemVars, logVars, serverVars, followerVars, stateVars, loopVars, verdicts
  <2> QED
    BY <2>1 DEF FollowerIInv, LogOK, ServersOK, LoopOK, PageIsNext, StatesOK, VerdictOK,
       AtTheRaise, EventsIn, Now
<1> QED
  BY <1>1, <1>2, <1>3, <1>4, <1>5 DEF FollowerNext

-----------------------------------------------------------------------------
\* A follower holds, in memory and on disk, the fold of exactly the prefix its
\* cursor claims, stops at a raise its build does not speak, and stops for
\* nothing else to be upgraded: however the log is paged, whichever servers
\* answer, and whatever fails on the way (follow, apply_followed, fetch).
THEOREM FollowsTheLog == FollowerSpec => []FollowerInv
<1>1. FollowerInit => FollowerIInv
  BY InitFollower
<1>2. FollowerIInv /\ [FollowerNext]_systemVars => FollowerIInv'
  BY NextFollower
<1>3. FollowerIInv => FollowerInv
  BY FollowerIInvSuffices
<1> QED
  BY <1>1, <1>2, <1>3, PTL DEF FollowerSpec

=============================================================================
