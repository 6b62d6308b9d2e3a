--------------------------------- MODULE Seat ---------------------------------
(***************************************************************************)
(* One node's role over its life (node.rs serve_role, take_the_seat,       *)
(* stand_down, follow_membership, start; raft/seat.rs; the state machine   *)
(* both roles write, raft/state_machine.rs): the log promotes and demotes  *)
(* it while its tasks run side by side, and it may crash between any two   *)
(* steps.                                                                  *)
(*                                                                         *)
(* Every prefix of the log folds to the state its last change left         *)
(* (module MembershipState; FollowsAPrefix in module Follower), so a       *)
(* projection is represented by the changed_at it reached: an event at i   *)
(* applies to the projection whose changed_at is the one it was signed     *)
(* against, and to no other.                                               *)
(***************************************************************************)
EXTENDS Integers, Sequences, FiniteSets, FiniteSetsExt

CONSTANT Scenarios  \* [history, crashes, builds]

\* A scenario: what Raft has committed, which this node reads at its own pace,
\* and the bounds on its restarts and on the snapshots it builds.

(* An entry is "blank"; a change of the membership: "other", or "in" and    *)
(* "out", which give this node a seat and take it; or a configuration of    *)
(* Raft: "joint", or uniform with this node a voter, "voter", or without    *)
(* it, "removed".                                                           *)
Events == {"other", "in", "out"}
Configs == {"joint", "voter", "removed"}

\* The leader makes a voter only of whom the log named one (core_group.rs pass).
ASSUME SeatAssumption ==
    \A s \in Scenarios :
        /\ s.history \in Seq(Events \cup Configs \cup {"blank"})
        /\ \A i \in 1..Len(s.history) : s.history[i] \in {"joint", "voter"} =>
              \E k \in 1..i : s.history[k] = "in"
        /\ s.crashes \in Nat /\ s.builds \in Nat

VARIABLES
    mem,        \* Applied, in memory: [last_applied, changed_at, followed_upto]
    disk,       \* as stored, with the promotion and the snapshot
    promotion,  \* Promotion.at in memory, 0 for none
    generation, \* Inner.generation
    watched,    \* the membership watch: a changed_at
    raftWatched,\* the Raft membership watch: the index of a configuration
    seat,       \* whether this node has a Raft
    worker,     \* openraft's state machine worker: [pc, write]
    follow,     \* the follow task: [pc, from, upto, write]
    orphans,    \* writes of an aborted follow task still in flight
    role,       \* serve_role: [pc, seated_at, at]
    enforcer,   \* follow_membership: [pc, read, seen]
    allow,      \* the changed_at of the membership the allowlist enforces
    builder,    \* a snapshot being built: [last, generation, resets]
    bound       \* the scenario, its bounds as far as they are not spent, and the resets so far

appliedVars == <<mem, disk, promotion, generation>>
watches == <<watched, raftWatched>>
tasks == <<worker, follow, orphans, role>>
vars == <<appliedVars, watches, seat, tasks, enforcer, allow, builder, bound>>

-----------------------------------------------------------------------------
(* What a prefix of the log says.                                          *)

History == bound.history

LastOf(kinds, i) == Max({j \in 1..i : History[j] \in kinds} \cup {0})

ChangedAt(i) == LastOf(Events, i)
ConfigAt(i) == LastOf(Configs, i)

\* is_core of the projection whose last change is c.
IsCore(c) == LET j == LastOf({"in", "out"}, c) IN j # 0 /\ History[j] = "in"

\* A configuration counts this node among its voters: the joint ones around
\* its own promotion and removal do.
Votes(i) == i # 0 /\ History[i] \in {"joint", "voter"}
Uniform(i) == i # 0 /\ History[i] # "joint"

\* Folding the entries after `from`, up to `to`, into the projection c.  An
\* event already folded is refused, and so is one after an event that was not.
FoldFrom(c, from, to) == IF c >= ChangedAt(from) THEN Max({c, ChangedAt(to)}) ELSE c

Applied == [last_applied : Nat, changed_at : Nat, followed_upto : Nat]
NothingApplied == [last_applied |-> 0, changed_at |-> 0, followed_upto |-> 0]

\* StateMachineStore::promotion: expired once Raft's own configuration has
\* reached its boundary.
Promotion == promotion # 0 /\ raftWatched < promotion

TypeOK ==
    /\ mem \in Applied
    /\ disk.applied \in Applied /\ disk.promotion \in Nat /\ disk.snapshot \in Nat
    /\ promotion \in Nat /\ generation \in Nat
    /\ watched \in 0..Len(History) /\ raftWatched \in 0..Len(History)
    /\ seat \in BOOLEAN
    /\ worker.pc \in {"idle", "storing", "announcing_raft", "announcing"}
    /\ follow.pc \in {"off", "idle", "fetched", "storing", "aborted"}
    /\ follow.from \in 0..Len(History) /\ follow.upto \in 0..Len(History)
    /\ orphans \subseteq Applied
    /\ role.pc \in {"following", "preparing", "resetting", "seating", "seated", "resuming"}
    /\ enforcer.pc \in {"waiting", "publishing"}
    /\ allow \in 0..Len(History)

NotFollowing == [pc |-> "off", from |-> 0, upto |-> 0, write |-> NothingApplied]
Asking == [NotFollowing EXCEPT !.pc = "idle"]
IdleWorker == [pc |-> "idle", write |-> NothingApplied]

Init ==
    /\ mem = NothingApplied
    /\ disk = [applied |-> NothingApplied, promotion |-> 0, snapshot |-> 0, resets |-> 0]
    /\ promotion = 0 /\ generation = 0
    /\ watched = 0 /\ raftWatched = 0
    /\ seat = FALSE
    /\ worker = IdleWorker
    /\ follow = Asking
    /\ orphans = {}
    /\ role = [pc |-> "following", seated_at |-> 0, at |-> 0]
    /\ enforcer = [pc |-> "waiting", read |-> 0, seen |-> <<>>]
    /\ allow = 0
    /\ builder = <<>>
    /\ \E s \in Scenarios :
        bound = [history |-> s.history, crashes |-> s.crashes, builds |-> s.builds, resets |-> 0]

-----------------------------------------------------------------------------
(* The follow task.                                                        *)

\* A page arrives, up to wherever the server's reaches.
FollowFetch ==
    /\ follow.pc = "idle"
    /\ \E upto \in mem.followed_upto + 1 .. Len(History) :
            follow' = [follow EXCEPT !.pc = "fetched", !.from = mem.followed_upto, !.upto = upto]
    /\ UNCHANGED <<appliedVars, watches, seat, worker, orphans, role, enforcer, allow, builder, bound>>

\* apply_followed under the lock: the fold, the cursor and their encoding.
Followed ==
    [mem EXCEPT !.changed_at = FoldFrom(@, follow.from, follow.upto),
                !.followed_upto = follow.upto]

FollowFold ==
    /\ follow.pc = "fetched"
    /\ mem' = Followed
    /\ follow' = [follow EXCEPT !.pc = "storing", !.write = mem']
    /\ UNCHANGED <<disk, promotion, generation, watches, seat, worker, orphans, role, enforcer, allow, builder, bound>>

\* The write commits, and the membership is announced.
FollowStore ==
    /\ follow.pc = "storing"
    /\ disk' = [disk EXCEPT !.applied = follow.write]
    /\ watched' = follow.write.changed_at
    /\ follow' = Asking
    /\ UNCHANGED <<mem, promotion, generation, raftWatched, seat, worker, orphans, role, enforcer, allow, builder, bound>>

\* stop(follow): an abort takes effect where the task next waits.  A task
\* between waits runs on; a write already handed to a blocking thread lands.
Aborted ==
    IF follow.pc = "fetched" THEN [follow EXCEPT !.pc = "aborted"] ELSE NotFollowing

\* A task aborted while it ran folds its page, and is dropped at its write.
AbortedFold ==
    /\ follow.pc = "aborted"
    /\ mem' = Followed
    /\ orphans' = orphans \cup {mem'}
    /\ follow' = NotFollowing
    /\ UNCHANGED <<disk, promotion, generation, watches, seat, worker, role, enforcer, allow, builder, bound>>

\* A task aborted while it waited for its page is dropped there.
AbortedDrop ==
    /\ follow.pc = "aborted"
    /\ follow' = NotFollowing
    /\ UNCHANGED <<appliedVars, watches, seat, worker, orphans, role, enforcer, allow, builder, bound>>

OrphanLands(w) ==
    /\ w \in orphans
    /\ orphans' = orphans \ {w}
    /\ disk' = [disk EXCEPT !.applied = w]
    /\ UNCHANGED <<mem, promotion, generation, watches, seat, worker, follow, role, enforcer, allow, builder, bound>>

-----------------------------------------------------------------------------
(* The state machine under openraft: apply, store, announce, in that order. *)

WorkerApply ==
    /\ seat /\ worker.pc = "idle"
    /\ \E k \in mem.last_applied + 1 .. Len(History) :
            mem' = [mem EXCEPT !.last_applied = k,
                               !.changed_at = FoldFrom(@, mem.last_applied, k)]
    /\ worker' = [pc |-> "storing", write |-> mem']
    /\ UNCHANGED <<disk, promotion, generation, watches, seat, follow, orphans, role, enforcer, allow, builder, bound>>

WorkerStore ==
    /\ worker.pc = "storing"
    /\ disk' = [disk EXCEPT !.applied = worker.write]
    /\ worker' = [worker EXCEPT !.pc = "announcing_raft"]
    /\ UNCHANGED <<mem, promotion, generation, watches, seat, follow, orphans, role, enforcer, allow, builder, bound>>

WorkerAnnounceRaft ==
    /\ worker.pc = "announcing_raft"
    /\ raftWatched' = ConfigAt(worker.write.last_applied)
    /\ worker' = [worker EXCEPT !.pc = "announcing"]
    /\ UNCHANGED <<appliedVars, watched, seat, follow, orphans, role, enforcer, allow, builder, bound>>

WorkerAnnounce ==
    /\ worker.pc = "announcing"
    /\ watched' = worker.write.changed_at
    /\ worker' = IdleWorker
    /\ UNCHANGED <<appliedVars, raftWatched, seat, follow, orphans, role, enforcer, allow, builder, bound>>

\* get_snapshot_builder: a copy of the state, with the generation.
StartBuild ==
    /\ seat /\ worker.pc = "idle" /\ builder = <<>>
    /\ mem.last_applied > 0 /\ bound.builds > 0
    /\ bound' = [bound EXCEPT !.builds = @ - 1]
    /\ builder' = <<[last |-> mem.last_applied, generation |-> generation, resets |-> bound.resets]>>
    /\ UNCHANGED <<appliedVars, watches, seat, tasks, enforcer, allow>>

\* Mutant: a builder does not look whether the projection was reset.
MayStore_mutant(b) == disk.snapshot <= b.last

\* build_snapshot's transaction: not over a newer snapshot, nor after a reset.
MayStore(b) == disk.snapshot <= b.last /\ b.generation = generation

FinishBuild ==
    /\ builder # <<>>
    /\ builder' = <<>>
    /\ disk' = IF MayStore(builder[1])
               THEN [disk EXCEPT !.snapshot = builder[1].last, !.resets = builder[1].resets]
               ELSE disk
    /\ UNCHANGED <<mem, promotion, generation, watches, seat, tasks, enforcer, allow, bound>>

-----------------------------------------------------------------------------
(* serve_role.                                                             *)

\* take_the_seat: the watch names this node a voter, so it stops following...
TakeTheSeat ==
    /\ role.pc = "following" /\ IsCore(watched)
    /\ role' = [role EXCEPT !.pc = "preparing", !.seated_at = watched]
    /\ orphans' = orphans \cup (IF follow.pc = "storing" THEN {follow.write} ELSE {})
    /\ follow' = Aborted
    /\ UNCHANGED <<appliedVars, watches, seat, worker, enforcer, allow, builder, bound>>

\* ...prepare_promotion notes the boundary of the replay and blanks the state
\* in memory...
PreparePromotion ==
    /\ role.pc = "preparing"
    /\ role' = [role EXCEPT !.pc = "resetting", !.at = mem.changed_at]
    /\ mem' = NothingApplied
    /\ generation' = generation + 1
    /\ UNCHANGED <<disk, promotion, watches, seat, worker, follow, orphans, enforcer, allow, builder, bound>>

\* ...and on disk, with the snapshot, in one transaction...
ResetProjection ==
    /\ role.pc = "resetting"
    /\ role' = [role EXCEPT !.pc = "seating"]
    /\ bound' = [bound EXCEPT !.resets = @ + 1]
    /\ disk' = [applied |-> NothingApplied, promotion |-> role.at, snapshot |-> 0, resets |-> 0]
    /\ UNCHANGED <<mem, promotion, generation, watches, seat, worker, follow, orphans, enforcer, allow, builder>>

\* ...announces the blank state, builds a Raft and sits down.  An aborted task
\* has only the lock to wait for before its write, so its fold is over by the
\* time the transaction is and the Raft is built.
SitDown ==
    /\ role.pc = "seating" /\ follow.pc # "aborted"
    /\ role' = [role EXCEPT !.pc = "seated", !.at = 0]
    /\ promotion' = role.at
    /\ raftWatched' = 0 /\ watched' = 0
    /\ seat' = TRUE
    /\ UNCHANGED <<mem, disk, generation, worker, follow, orphans, enforcer, allow, builder, bound>>

\* Mutant: any membership and any configuration may retire a seat.
may_retire_mutant(wanted, config) ==
    wanted # 0 /\ ~ IsCore(wanted) /\ Uniform(config) /\ ~ Votes(config)

may_retire(wanted, config) ==
    /\ wanted # 0 /\ wanted >= role.seated_at /\ ~ IsCore(wanted)
    /\ config >= role.seated_at /\ Uniform(config) /\ ~ Votes(config)

\* stand_down: the seat is emptied, and the Raft shut down once its worker is
\* done...
Vacate ==
    /\ role.pc = "seated" /\ may_retire(watched, raftWatched)
    /\ worker.pc = "idle"
    /\ role' = [role EXCEPT !.pc = "resuming", !.seated_at = 0]
    /\ seat' = FALSE
    /\ mem' = [mem EXCEPT !.followed_upto = mem.last_applied]
    /\ UNCHANGED <<disk, promotion, generation, watches, worker, follow, orphans, enforcer, allow, builder, bound>>

\* Mutant: the demoted node does not follow.
ResumeFollowing_mutant ==
    /\ role.pc = "resuming"
    /\ role' = [role EXCEPT !.pc = "following"]
    /\ disk' \in {disk, [disk EXCEPT !.applied = mem]}
    /\ UNCHANGED <<mem, promotion, generation, watches, seat, worker, follow, orphans, enforcer, allow, builder, bound>>

\* ...then resume_following stores the cursor, or fails to, and the node
\* follows.
ResumeFollowing ==
    /\ role.pc = "resuming"
    /\ role' = [role EXCEPT !.pc = "following"]
    /\ disk' \in {disk, [disk EXCEPT !.applied = mem]}
    /\ follow' = Asking
    /\ UNCHANGED <<mem, promotion, generation, watches, seat, worker, orphans, enforcer, allow, builder, bound>>

-----------------------------------------------------------------------------
(* follow_membership, which reads the membership and then the promotion.   *)

EnforcerRead ==
    /\ enforcer.pc = "waiting" /\ enforcer.seen # watches
    /\ enforcer' = [pc |-> "publishing", read |-> watched, seen |-> watches]
    /\ UNCHANGED <<appliedVars, watches, seat, tasks, allow, builder, bound>>

Replaying(read) == Promotion /\ read < promotion

EnforcerPublish ==
    /\ enforcer.pc = "publishing"
    /\ enforcer' = [enforcer EXCEPT !.pc = "waiting", !.read = 0]
    /\ allow' = IF enforcer.read # 0 /\ ~ Replaying(enforcer.read) THEN enforcer.read ELSE allow
    /\ UNCHANGED <<appliedVars, watches, seat, tasks, builder, bound>>

-----------------------------------------------------------------------------
\* starts_as_core, for a node configuration does not name.
StartsAsCore(d) ==
    LET config == ConfigAt(d.applied.last_applied) IN
    \/ d.promotion # 0 /\ config < d.promotion
    \/ d.applied.changed_at # 0 /\ (IsCore(d.applied.changed_at) \/ Votes(config))

\* The process stops at any point and starts from what was stored.
Restart ==
    LET config == ConfigAt(disk.applied.last_applied)
        core == StartsAsCore(disk)
        replay == disk.promotion # 0 /\ config < disk.promotion
    IN
    /\ bound.crashes > 0
    /\ bound' = [bound EXCEPT !.crashes = @ - 1]
    /\ mem' = disk.applied
    /\ promotion' = disk.promotion /\ generation' = 0
    /\ watched' = disk.applied.changed_at /\ raftWatched' = config
    /\ seat' = core
    /\ worker' = IdleWorker
    /\ follow' = IF core THEN NotFollowing ELSE Asking
    /\ orphans' = {}
    /\ role' = [pc |-> IF core THEN "seated" ELSE "following",
                seated_at |-> IF replay THEN disk.promotion ELSE disk.applied.changed_at,
                at |-> 0]
    /\ enforcer' = [pc |-> "waiting", read |-> 0, seen |-> <<>>]
    /\ allow' = 0
    /\ builder' = <<>>
    /\ UNCHANGED disk

Follow == FollowFetch \/ FollowFold \/ FollowStore \/ AbortedFold \/ AbortedDrop
Worker == WorkerApply \/ WorkerStore \/ WorkerAnnounceRaft \/ WorkerAnnounce
Role == TakeTheSeat \/ PreparePromotion \/ ResetProjection \/ SitDown \/ Vacate \/ ResumeFollowing
Enforcer == EnforcerRead \/ EnforcerPublish
Orphans == \E w \in orphans : OrphanLands(w)

Next ==
    \/ Follow \/ Orphans \/ Worker \/ StartBuild \/ FinishBuild
    \/ Role \/ Enforcer \/ Restart

Spec == Init /\ [][Next]_vars

\* Every task that can run does.
FairSpec ==
    /\ Spec
    /\ WF_vars(Follow) /\ WF_vars(Orphans)
    /\ WF_vars(Worker) /\ WF_vars(Role) /\ WF_vars(Enforcer) /\ WF_vars(FinishBuild)

-----------------------------------------------------------------------------
(* Properties.                                                             *)

\* No snapshot of a projection outlives its reset, whenever its builder
\* finishes and wherever the node crashes (reset_projection, build_snapshot).
SnapshotIsOfThisProjection == disk.snapshot # 0 => disk.resets = bound.resets

\* A seat is emptied only by a demotion that no promotion followed, as far as
\* the membership that filled it reached: replaying an older one never stands a
\* node down (may_retire).
RetiredByALaterDemotion ==
    [][seat /\ ~ seat' /\ bound' = bound =>
        \E j \in 1..Len(History) :
            History[j] = "out" /\ \A k \in j..role.seated_at : History[k] # "in"]_vars

\* The stored cursor claims no entry the projection stored with it never
\* folded.  A follow task aborted by a promotion breaks this: it may fold its
\* page into the blanked projection, and its write still lands (stop, db.rs).
CursorIsFolded == ChangedAt(disk.applied.followed_upto) <= disk.applied.changed_at

\* Once the log is quiet this node holds a seat exactly when the log says so,
\* wherever it crashed - unless it came back from such a cursor (serve_role).
RoleSettles == <>[]((seat <=> IsCore(Len(History))) \/ ~ CursorIsFolded)

\* Once the log is quiet the allowlist is the one the log decided, with the
\* same exception (follow_membership).
AllowlistSettles == <>[](allow = ChangedAt(Len(History)) \/ ~ CursorIsFolded)

\* What a promotion, a demotion or a crash leaves behind never restores a
\* projection that was reset, whichever task was in the middle of what
\* (node.rs take_the_seat, state_machine.rs).
SeatInv == TypeOK /\ SnapshotIsOfThisProjection

\* Once the log is quiet the node is what the log says and lets in whom it says
\* (serve_role and follow_membership, whichever ran first).
NodeSettles == RoleSettles /\ AllowlistSettles

=============================================================================
