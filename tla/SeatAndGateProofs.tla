-------------------------- MODULE SeatAndGateProofs --------------------------
(***************************************************************************)
(* Theorems about the two tasks of one node that act on the log it has     *)
(* applied: the one that keeps its role (Seat), for every history of the   *)
(* log, any number of restarts and snapshots and every interleaving, and   *)
(* the one that enforces the membership on its connections (Gate), for     *)
(* every set of peers and connections and any number of memberships and    *)
(* configurations.                                                         *)
(*                                                                         *)
(* The seat.  Every projection, in memory, on disk or in a write on its    *)
(* way, is Whole: it folded every change up to what Raft applied (HeldOK). *)
(* A snapshot of a projection that was reset has an earlier generation     *)
(* (BuilderOK).  A seat follows from a decision about this node (NamedOK), *)
(* and what is announced is no newer than memory (AheadOK), so what leaves *)
(* the node out once it has replayed that far is a demotion that no        *)
(* promotion up to there follows.                                          *)
(*                                                                         *)
(* The gate.  What holds when nothing is left to do (EvictedUnlessMissed)  *)
(* is carried through the work by NotAdmitted, which also covers           *)
(* connections checked and not yet recorded.  The two action properties    *)
(* need to know what the steps of follow_membership have done so far:      *)
(* Follows and Excepts.                                                    *)
(***************************************************************************)
EXTENDS Seat, Gate, WellFoundedInduction, TLAPS

-----------------------------------------------------------------------------
(* The last entry of some kind.                                            *)

\* The community modules' Max chooses the greatest element of a bounded set.
LEMMA MaxOfBounded ==
    ASSUME NEW n \in Nat, NEW S \in SUBSET (0..n), S # {}
    PROVE  Max(S) \in S /\ \A y \in S : Max(S) >= y
<1> DEFINE R == OpToRel(<, Nat)
<1>1. IsWellFoundedOn(R, Nat)
  BY NatLessThanWellFounded
<1>2. \A x, y \in Nat : x < y => <<x, y>> \in R
  BY DEF OpToRel
<1> HIDE DEF R
<1>3. PICK D \in SUBSET Nat : D # {} /\ \A k : k \in D <=> k \in Nat /\ n - k \in S
  <2> WITNESS {k \in Nat : n - k \in S} \in SUBSET Nat
  <2>1. PICK x \in S : TRUE
    OBVIOUS
  <2>2. n - x \in Nat /\ n - (n - x) = x
    BY <2>1
  <2> QED
    BY <2>1, <2>2
<1>4. PICK d \in D : \A y \in D : <<y, d>> \notin R
  BY <1>1, <1>3, WFMin
<1>5. \A y \in D : y >= d
  <2> SUFFICES ASSUME NEW y \in D, y < d PROVE FALSE
    BY <1>3
  <2>1. y \in Nat /\ d \in Nat
    BY <1>3
  <2>2. <<y, d>> \in R
    BY <1>2, <2>1
  <2> QED
    BY <1>4, <2>2
<1>6. PICK x \in S : d = n - x
  <2>1. n - d \in S /\ d = n - (n - d)
    BY <1>3, <1>4
  <2> QED
    BY <2>1
<1>7. \A y \in S : x >= y
  <2> SUFFICES ASSUME NEW y \in S PROVE x >= y
    OBVIOUS
  <2>1. n - y \in Nat /\ n - (n - y) = y
    OBVIOUS
  <2>2. n - y \in D
    BY <1>3, <2>1
  <2>3. n - y >= d
    BY <1>5, <2>2
  <2> QED
    BY <1>3, <1>6, <2>3
<1> QED
  BY <1>7, Zenon DEF Max

LEMMA MaxOfTwo ==
    ASSUME NEW a \in Nat, NEW b \in Nat
    PROVE  Max({a, b}) \in {a, b} /\ Max({a, b}) >= a /\ Max({a, b}) >= b
<1>1. {a, b} \in SUBSET (0..(a + b)) /\ {a, b} # {} /\ a + b \in Nat
  OBVIOUS
<1>2. Max({a, b}) \in {a, b} /\ \A y \in {a, b} : Max({a, b}) >= y
  BY <1>1, MaxOfBounded
<1> QED
  BY <1>2

LEMMA LastOfIsLast ==
    ASSUME NEW kinds, NEW i \in Nat
    PROVE  /\ LastOf(kinds, i) \in 0..i
           /\ LastOf(kinds, i) # 0 => History[LastOf(kinds, i)] \in kinds
           /\ \A j \in 1..i : History[j] \in kinds => j <= LastOf(kinds, i)
<1> DEFINE S == {j \in 1..i : History[j] \in kinds} \cup {0}
<1>1. S \in SUBSET (0..i) /\ S # {}
  OBVIOUS
<1>2. Max(S) \in S /\ \A y \in S : Max(S) >= y
  <2> HIDE DEF S
  <2> QED
    BY <1>1, MaxOfBounded
<1>3. LastOf(kinds, i) = Max(S)
  BY DEF LastOf
<1>4. \A y \in S : y \in Nat
  OBVIOUS
<1> QED
  BY <1>2, <1>3, <1>4

LEMMA LastOfGrows ==
    ASSUME NEW kinds, NEW i \in Nat, NEW j \in Nat, i <= j
    PROVE  LastOf(kinds, i) <= LastOf(kinds, j)
<1>1. /\ LastOf(kinds, i) \in 0..i /\ LastOf(kinds, j) \in 0..j
      /\ LastOf(kinds, i) # 0 => History[LastOf(kinds, i)] \in kinds
      /\ \A k \in 1..j : History[k] \in kinds => k <= LastOf(kinds, j)
  BY LastOfIsLast
<1> QED
  BY <1>1

\* A fold goes no further than what it folded, and never back; what was whole
\* up to `from` is whole up to `to`.
LEMMA FoldFromGrows ==
    ASSUME NEW n \in Nat, NEW c \in 0..n, NEW from \in 0..n, NEW to \in 0..n
    PROVE  /\ FoldFrom(c, from, to) \in 0..n
           /\ FoldFrom(c, from, to) >= c
           /\ c >= ChangedAt(from) => FoldFrom(c, from, to) >= ChangedAt(to)
<1>1. ChangedAt(to) \in 0..n /\ ChangedAt(from) \in 0..n
  <2>1. LastOf(Events, to) \in 0..to /\ LastOf(Events, from) \in 0..from
    BY LastOfIsLast
  <2> QED
    BY <2>1 DEF ChangedAt
<1>2. PICK x \in 0..n, y \in 0..n : x = ChangedAt(to) /\ y = ChangedAt(from)
  BY <1>1
<1>3. Max({c, x}) \in {c, x} /\ Max({c, x}) >= c /\ Max({c, x}) >= x
  <2>1. c \in Nat /\ x \in Nat
    OBVIOUS
  <2> QED
    BY <2>1, MaxOfTwo
<1>4. FoldFrom(c, from, to) = IF c >= y THEN Max({c, x}) ELSE c
  BY <1>2 DEF FoldFrom
<1> QED
  BY <1>2, <1>3, <1>4

-----------------------------------------------------------------------------
(* The inductive invariant.                                                *)

Named(c) == \E k \in 1..c : History[k] \in {"in", "out"}

Within(x) == x \in 0..Len(History)

\* A projection, in memory, stored or on its way to the disk, reaches no
\* further than the log, and folded every change up to what Raft applied.
Whole(a) ==
    /\ a \in Applied
    /\ Within(a.last_applied) /\ Within(a.changed_at) /\ Within(a.followed_upto)
    /\ a.changed_at >= ChangedAt(a.last_applied)

Held == {mem, disk.applied, worker.write, follow.write} \cup orphans

HeldOK == \A a \in Held : Whole(a)

BoundOK ==
    /\ bound \in [history : Seq(Events \cup Configs \cup {"blank"}), crashes : Nat,
                  builds : Nat, resets : Nat]
    /\ \A i \in 1..Len(History) : History[i] \in {"joint", "voter"} =>
          \E k \in 1..i : History[k] = "in"

DataOK ==
    /\ disk \in [applied : Applied, promotion : Nat, snapshot : Nat, resets : Nat]
    /\ promotion \in Nat /\ generation \in Nat
    /\ seat \in BOOLEAN
    /\ worker \in [pc : {"idle", "storing", "announcing_raft", "announcing"}, write : Applied]
    /\ follow \in [pc : {"off", "idle", "fetched", "storing", "aborted"},
                   from : Nat, upto : Nat, write : Applied]
    /\ role \in [pc : {"following", "preparing", "resetting", "seating", "seated", "resuming"},
                 seated_at : Nat, at : Nat]
    /\ enforcer \in [pc : {"waiting", "publishing"}, read : Nat, seen : {<<>>} \cup (Nat \X Nat)]

\* What is read off the log is of the log.
RangesOK ==
    /\ Within(watched) /\ Within(raftWatched)
    /\ Within(follow.from) /\ Within(follow.upto)
    /\ Within(enforcer.read) /\ Within(allow)

\* A snapshot in the making is of this projection, or of an earlier generation.
BuilderOK ==
    builder # <<>> =>
        /\ builder[1] \in [last : Nat, generation : Nat, resets : Nat]
        /\ builder[1].generation <= generation
        /\ builder[1].generation = generation =>
              builder[1].resets = bound.resets /\ role.pc # "resetting"

\* Who runs when.
RoleOK ==
    /\ seat <=> role.pc = "seated"
    /\ worker.pc # "idle" => seat
    /\ follow.pc \in {"idle", "fetched", "storing"} => role.pc = "following"

\* A seat, and the boundary of the replay that fills it, follow from a decision
\* about this node.
NamedOK ==
    /\ role.pc \in {"preparing", "resetting", "seating", "seated"} => Named(role.seated_at)
    /\ role.pc \in {"resetting", "seating"} => Named(role.at)
    /\ disk.promotion # 0 => Named(disk.promotion)

\* The projection in memory is ahead of whatever was announced of it, until it
\* is blanked.
AheadOK ==
    /\ role.pc = "preparing" => role.seated_at <= mem.changed_at
    /\ role.pc \notin {"resetting", "seating"} => watched <= mem.changed_at
    /\ follow.pc = "storing" => follow.write.changed_at <= mem.changed_at
    /\ worker.pc # "idle" => worker.write.changed_at <= mem.changed_at

SeatIInv ==
    /\ BoundOK /\ DataOK /\ RangesOK /\ HeldOK /\ BuilderOK
    /\ SnapshotIsOfThisProjection /\ RoleOK /\ NamedOK /\ AheadOK

-----------------------------------------------------------------------------
(* Lemmas about the steps.                                                 *)

\* What is said of the log is said of it after a step, too.
LEMMA SameHistory ==
    ASSUME bound'.history = bound.history
    PROVE  /\ \A a : Whole(a)' <=> Whole(a)
           /\ \A c : Named(c)' <=> Named(c)
           /\ \A x : Within(x)' <=> Within(x)
<1>1. \A kinds, i : LastOf(kinds, i)' = LastOf(kinds, i)
  BY DEF LastOf, History
<1>2. \A i : ChangedAt(i)' = ChangedAt(i)
  BY <1>1 DEF ChangedAt, Events
<1>3. \A x : Within(x)' <=> Within(x)
  BY DEF Within, History
<1>4. \A c : Named(c)' <=> Named(c)
  BY DEF Named, History
<1>5. \A a : Whole(a)' <=> Whole(a)
  BY <1>2, <1>3, Zenon DEF Whole, Applied
<1> QED
  BY <1>3, <1>4, <1>5

\* A step that adds only whole projections leaves all of them whole.
LEMMA HeldStep ==
    ASSUME HeldOK, bound'.history = bound.history, \A a \in Held' : a \in Held \/ Whole(a)
    PROVE  HeldOK'
<1>1. \A a : Whole(a)' <=> Whole(a)
  BY SameHistory
<1>2. \A a \in Held' : Whole(a)
  BY Zenon DEF HeldOK
<1>3. \A a \in Held' : Whole(a)'
  BY <1>1, <1>2
<1> QED
  BY <1>3, Zenon DEF HeldOK

\* The log is finite, and the blank projection is whole whatever it holds.
LEMMA LogLength ==
    ASSUME BoundOK
    PROVE  Len(History) \in Nat /\ Whole(NothingApplied)
<1>1. Len(History) \in Nat
  BY DEF BoundOK, History
<1>2. LastOf(Events, 0) \in 0..0
  BY LastOfIsLast
<1> QED
  BY <1>1, <1>2 DEF Whole, Within, NothingApplied, Applied, ChangedAt

LEMMA NamedGrows ==
    ASSUME NEW c \in Nat, NEW d \in Nat, c <= d, Named(c)
    PROVE  Named(d)
BY DEF Named

\* A fold of a page, or of what Raft applies, leaves a whole projection.
LEMMA FollowedIsWhole ==
    ASSUME BoundOK, RangesOK, Whole(mem)
    PROVE  Whole(Followed) /\ Followed.changed_at >= mem.changed_at
<1>1. PICK n \in Nat : n = Len(History)
  BY LogLength
<1>2. PICK c \in 0..n, from \in 0..n, to \in 0..n :
          c = mem.changed_at /\ from = follow.from /\ to = follow.upto
  BY <1>1 DEF RangesOK, Whole, Within
<1>3. FoldFrom(c, from, to) \in 0..n /\ FoldFrom(c, from, to) >= c
  BY FoldFromGrows
<1>4. PICK f \in 0..n : f = FoldFrom(c, from, to) /\ f >= c
  BY <1>3
<1>5. mem \in Applied /\ mem.last_applied \in 0..n /\ mem.changed_at >= ChangedAt(mem.last_applied)
  BY <1>1 DEF Whole, Within
<1>6. Followed = [mem EXCEPT !.changed_at = f, !.followed_upto = to]
  BY <1>2, <1>4, <1>5, Zenon DEF Followed
<1>7. /\ Followed \in Applied /\ Followed.last_applied = mem.last_applied
      /\ Followed.changed_at = f /\ Followed.followed_upto = to
  <2>1. f \in Nat /\ to \in Nat /\ mem \in Applied
    BY <1>5
  <2> QED
    BY <1>6, <2>1 DEF Applied
<1>8. ChangedAt(mem.last_applied) \in 0..n
  <2>1. LastOf(Events, mem.last_applied) \in 0..mem.last_applied
    BY <1>5, LastOfIsLast
  <2> QED
    BY <1>5, <2>1 DEF ChangedAt
<1> QED
  BY <1>1, <1>2, <1>4, <1>5, <1>7, <1>8 DEF Whole, Within

LEMMA AppliedIsWhole ==
    ASSUME BoundOK, Whole(mem), NEW k \in mem.last_applied + 1 .. Len(History),
           NEW w, w = [mem EXCEPT !.last_applied = k,
                                  !.changed_at = FoldFrom(mem.changed_at, mem.last_applied, k)]
    PROVE  Whole(w) /\ w.changed_at >= mem.changed_at
<1>1. PICK n \in Nat : n = Len(History)
  BY LogLength
<1>2. PICK c \in 0..n, from \in 0..n : c = mem.changed_at /\ from = mem.last_applied
  BY <1>1 DEF Whole, Within
<1>3. k \in 0..n
  BY <1>1, <1>2
<1>4. /\ FoldFrom(c, from, k) \in 0..n /\ FoldFrom(c, from, k) >= c
      /\ c >= ChangedAt(from) => FoldFrom(c, from, k) >= ChangedAt(k)
  BY <1>3, FoldFromGrows
<1>5. PICK f \in 0..n : f = FoldFrom(c, from, k) /\ f >= c /\ f >= ChangedAt(k)
  BY <1>2, <1>4 DEF Whole
<1>6. mem \in Applied /\ mem.followed_upto \in 0..n
  BY <1>1 DEF Whole, Within
<1>7. w = [mem EXCEPT !.last_applied = k, !.changed_at = f]
  BY <1>2, <1>5
<1>8. /\ w \in Applied /\ w.last_applied = k /\ w.changed_at = f
      /\ w.followed_upto = mem.followed_upto
  <2>1. f \in Nat /\ k \in Nat /\ mem \in Applied
    BY <1>3, <1>6
  <2> QED
    BY <1>7, <2>1 DEF Applied
<1> QED
  BY <1>1, <1>2, <1>3, <1>5, <1>6, <1>8 DEF Whole, Within

-----------------------------------------------------------------------------
(* The invariant holds.                                                    *)

\* The start: nothing is applied, and the node follows.
LEMMA SeatInit == Init => SeatIInv
<1> SUFFICES ASSUME Init PROVE SeatIInv
  OBVIOUS
<1>1. BoundOK
  <2>1. PICK s \in Scenarios :
            bound = [history |-> s.history, crashes |-> s.crashes, builds |-> s.builds, resets |-> 0]
    BY DEF Init
  <2> QED
    BY <2>1, SeatAssumption DEF BoundOK, History
<1>2. Len(History) \in Nat /\ Whole(NothingApplied)
  BY <1>1, LogLength
<1>3. NothingApplied \in Applied
  BY DEF NothingApplied, Applied
<1>4. DataOK
  BY <1>3 DEF Init, DataOK, IdleWorker, Asking, NotFollowing
<1>5. RangesOK
  BY <1>2 DEF Init, RangesOK, Within, Asking, NotFollowing
<1>6. HeldOK
  BY <1>2 DEF Init, HeldOK, Held, IdleWorker, Asking, NotFollowing
<1>7. BuilderOK /\ SnapshotIsOfThisProjection /\ RoleOK /\ NamedOK
  BY
     DEF Init, BuilderOK, SnapshotIsOfThisProjection, RoleOK, NamedOK, IdleWorker, Asking, NotFollowing
<1>8. AheadOK
  BY DEF Init, AheadOK, IdleWorker, Asking, NotFollowing, NothingApplied
<1> QED
  BY <1>1, <1>4, <1>5, <1>6, <1>7, <1>8 DEF SeatIInv

\* What no step changes: the history.
LEMMA BoundStep ==
    ASSUME BoundOK, Next
    PROVE  /\ bound'.history = bound.history /\ BoundOK'
           /\ Len(History)' = Len(History) /\ Len(History) \in Nat
<1>1. \/ bound' = bound
      \/ bound.builds > 0 /\ bound' = [bound EXCEPT !.builds = @ - 1]
      \/ bound' = [bound EXCEPT !.resets = @ + 1]
      \/ bound.crashes > 0 /\ bound' = [bound EXCEPT !.crashes = @ - 1]
  BY DEF Next, Follow, Orphans, Worker, Role, Enforcer, FollowFetch, FollowFold, FollowStore,
         AbortedFold, AbortedDrop, OrphanLands, WorkerApply, WorkerStore, WorkerAnnounceRaft,
         WorkerAnnounce, StartBuild, FinishBuild, TakeTheSeat, PreparePromotion,
         ResetProjection, SitDown, Vacate, ResumeFollowing, EnforcerRead, EnforcerPublish, Restart
<1>2. bound' \in [history : Seq(Events \cup Configs \cup {"blank"}), crashes : Nat,
                  builds : Nat, resets : Nat] /\ bound'.history = bound.history
  <2>1. bound.crashes \in Nat /\ bound.builds \in Nat /\ bound.resets \in Nat
    BY DEF BoundOK
  <2>2. /\ bound.builds > 0 => bound.builds - 1 \in Nat
        /\ bound.crashes > 0 => bound.crashes - 1 \in Nat
        /\ bound.resets + 1 \in Nat
    BY <2>1
  <2> QED
    BY <1>1, <2>2 DEF BoundOK
<1>3. Len(History) \in Nat
  BY LogLength
<1> QED
  BY <1>2, <1>3 DEF BoundOK, History

-----------------------------------------------------------------------------
(* The follow task, step by step.                                          *)

LEMMA FollowFetchKeeps ==
    ASSUME SeatIInv, BoundOK', bound'.history = bound.history, NEW n \in Nat,
           Len(History) = n, Len(History)' = n, FollowFetch
    PROVE  SeatIInv'
<1>1. /\ BoundOK /\ DataOK /\ RangesOK /\ HeldOK /\ BuilderOK
      /\ SnapshotIsOfThisProjection /\ RoleOK /\ NamedOK /\ AheadOK
  BY DEF SeatIInv
<1>2. PICK from \in 0..n, upto \in 0..n :
          follow' = [follow EXCEPT !.pc = "fetched", !.from = from, !.upto = upto]
  <2>1. PICK from \in 0..n : from = mem.followed_upto
    BY <1>1 DEF HeldOK, Held, Whole, Within
  <2>2. PICK upto \in from + 1 .. n :
            follow' = [follow EXCEPT !.pc = "fetched", !.from = from, !.upto = upto]
    BY <2>1, Zenon DEF FollowFetch
  <2>3. upto \in 0..n
    OBVIOUS
  <2> QED
    BY <2>2, <2>3
<1>3. /\ from \in Nat /\ upto \in Nat
      /\ follow'.pc = "fetched" /\ follow'.from = from /\ follow'.upto = upto
      /\ follow'.write = follow.write
      /\ follow' \in [pc : {"off", "idle", "fetched", "storing", "aborted"},
                      from : Nat, upto : Nat, write : Applied]
  <2>1. from \in Nat /\ upto \in Nat
    OBVIOUS
  <2> QED
    BY <1>1, <1>2, <2>1 DEF DataOK
<1>4. HeldOK'
  <2>1. \A a \in Held' : a \in Held \/ Whole(a)
    BY <1>1, <1>3 DEF FollowFetch, appliedVars, Held, DataOK
  <2> QED
    BY <1>1, <2>1, HeldStep
<1>5. DataOK'
  BY <1>1, <1>3 DEF FollowFetch, appliedVars, watches, DataOK
<1>6. RangesOK'
  BY <1>1, <1>3 DEF FollowFetch, appliedVars, watches, RangesOK, Within
<1>7. BuilderOK'
  BY <1>1, <1>3 DEF FollowFetch, appliedVars, watches, BuilderOK, DataOK
<1>8. SnapshotIsOfThisProjection'
  BY <1>1, <1>3 DEF FollowFetch, appliedVars, watches, SnapshotIsOfThisProjection, DataOK
<1>9. RoleOK'
  BY <1>1, <1>3 DEF FollowFetch, appliedVars, watches, RoleOK, DataOK
<1>10. NamedOK'
  BY <1>1, <1>3 DEF FollowFetch, appliedVars, watches, NamedOK, Named, History, DataOK
<1>11. AheadOK'
  BY <1>1, <1>3 DEF FollowFetch, appliedVars, watches, AheadOK, RoleOK, DataOK, RangesOK, Within
<1> QED
  BY <1>4, <1>5, <1>6, <1>7, <1>8, <1>9, <1>10, <1>11 DEF SeatIInv

LEMMA FollowFoldKeeps ==
    ASSUME SeatIInv, BoundOK', bound'.history = bound.history, NEW n \in Nat,
           Len(History) = n, Len(History)' = n, FollowFold
    PROVE  SeatIInv'
<1>1. /\ BoundOK /\ DataOK /\ RangesOK /\ HeldOK /\ BuilderOK
      /\ SnapshotIsOfThisProjection /\ RoleOK /\ NamedOK /\ AheadOK
  BY DEF SeatIInv
<1>2. PICK w \in Applied : w = Followed /\ Whole(w) /\ w.changed_at >= mem.changed_at
  <2>1. Whole(mem)
    BY <1>1, Zenon DEF HeldOK, Held
  <2>2. Whole(Followed) /\ Followed.changed_at >= mem.changed_at
    BY <1>1, <2>1, FollowedIsWhole
  <2> QED
    BY <2>2 DEF Whole
<1>3. /\ mem.changed_at \in 0..n /\ w.changed_at \in 0..n
      /\ worker.write.changed_at \in 0..n /\ follow.write.changed_at \in 0..n
  BY <1>1, <1>2 DEF HeldOK, Held, Whole, Within
<1>4. /\ mem' = w /\ follow.pc = "fetched"
      /\ follow'.pc = "storing" /\ follow'.from = follow.from /\ follow'.upto = follow.upto
      /\ follow'.write = w
      /\ follow' \in [pc : {"off", "idle", "fetched", "storing", "aborted"},
                      from : Nat, upto : Nat, write : Applied]
  <2>1. mem' = w /\ follow' = [follow EXCEPT !.pc = "storing", !.write = w]
    BY <1>2, Zenon DEF FollowFold
  <2> QED
    BY <1>1, <2>1 DEF DataOK, FollowFold
<1>5. role.pc = "following" /\ role' = role /\ worker.pc = "idle" /\ worker' = worker /\ watched' = watched
  <2>1. role.pc = "following" /\ worker.pc = "idle"
    BY <1>1, <1>4 DEF RoleOK
  <2> QED
    BY <2>1 DEF FollowFold, watches
<1>6. HeldOK'
  <2>1. \A a \in Held' : a \in Held \/ Whole(a)
    BY <1>1, <1>2, <1>3, <1>4 DEF FollowFold, Held, DataOK
  <2> QED
    BY <1>1, <2>1, HeldStep
<1>7. DataOK'
  BY <1>1, <1>2, <1>3, <1>4 DEF FollowFold, watches, DataOK
<1>8. RangesOK'
  BY <1>1, <1>2, <1>3, <1>4 DEF FollowFold, watches, RangesOK, Within
<1>9. BuilderOK'
  BY <1>1, <1>2, <1>3, <1>4 DEF FollowFold, watches, BuilderOK, DataOK
<1>10. SnapshotIsOfThisProjection'
  BY <1>1, <1>2, <1>3, <1>4 DEF FollowFold, watches, SnapshotIsOfThisProjection, DataOK
<1>11. RoleOK'
  BY <1>1, <1>2, <1>3, <1>4 DEF FollowFold, watches, RoleOK, DataOK
<1>12. NamedOK'
  BY <1>1, <1>2, <1>3, <1>4 DEF FollowFold, watches, NamedOK, Named, History, DataOK
<1>13. AheadOK'
  BY <1>1, <1>2, <1>3, <1>4, <1>5 DEF AheadOK, RangesOK, Within
<1> QED
  BY <1>6, <1>7, <1>8, <1>9, <1>10, <1>11, <1>12, <1>13 DEF SeatIInv

LEMMA FollowStoreKeeps ==
    ASSUME SeatIInv, BoundOK', bound'.history = bound.history, NEW n \in Nat,
           Len(History) = n, Len(History)' = n, FollowStore
    PROVE  SeatIInv'
<1>1. /\ BoundOK /\ DataOK /\ RangesOK /\ HeldOK /\ BuilderOK
      /\ SnapshotIsOfThisProjection /\ RoleOK /\ NamedOK /\ AheadOK
  BY DEF SeatIInv
<1>2. mem.changed_at \in 0..n /\ follow.write.changed_at \in 0..n /\ worker.write.changed_at \in 0..n
  BY <1>1 DEF HeldOK, Held, Whole, Within
<1>3. /\ follow'.pc = "idle" /\ follow'.from = 0 /\ follow'.upto = 0 /\ follow'.write = NothingApplied
      /\ follow' \in [pc : {"off", "idle", "fetched", "storing", "aborted"},
                      from : Nat, upto : Nat, write : Applied]
      /\ Whole(NothingApplied)
  <2>1. NothingApplied \in Applied /\ Whole(NothingApplied)
    BY <1>1, LogLength DEF Whole
  <2> QED
    BY <2>1 DEF FollowStore, Asking, NotFollowing
<1>4. HeldOK'
  <2>1. \A a \in Held' : a \in Held \/ Whole(a)
    BY <1>1, <1>2, <1>3 DEF FollowStore, Held, DataOK
  <2> QED
    BY <1>1, <2>1, HeldStep
<1>5. DataOK'
  BY <1>1, <1>2, <1>3 DEF FollowStore, DataOK
<1>6. RangesOK'
  BY <1>1, <1>2, <1>3 DEF FollowStore, RangesOK, Within
<1>7. BuilderOK'
  BY <1>1, <1>2, <1>3 DEF FollowStore, BuilderOK, DataOK
<1>8. SnapshotIsOfThisProjection'
  BY <1>1, <1>2, <1>3 DEF FollowStore, SnapshotIsOfThisProjection, DataOK
<1>9. RoleOK'
  BY <1>1, <1>2, <1>3 DEF FollowStore, RoleOK, DataOK
<1>10. NamedOK'
  BY <1>1, <1>2, <1>3 DEF FollowStore, NamedOK, Named, History, DataOK
<1>11. AheadOK'
  BY <1>1, <1>2, <1>3 DEF FollowStore, AheadOK, RoleOK, DataOK, RangesOK, Within
<1> QED
  BY <1>4, <1>5, <1>6, <1>7, <1>8, <1>9, <1>10, <1>11 DEF SeatIInv

LEMMA AbortedFoldKeeps ==
    ASSUME SeatIInv, BoundOK', bound'.history = bound.history, NEW n \in Nat,
           Len(History) = n, Len(History)' = n, AbortedFold
    PROVE  SeatIInv'
<1>1. /\ BoundOK /\ DataOK /\ RangesOK /\ HeldOK /\ BuilderOK
      /\ SnapshotIsOfThisProjection /\ RoleOK /\ NamedOK /\ AheadOK
  BY DEF SeatIInv
<1>2. PICK w \in Applied : w = Followed /\ Whole(w) /\ w.changed_at >= mem.changed_at
  <2>1. Whole(mem)
    BY <1>1, Zenon DEF HeldOK, Held
  <2>2. Whole(Followed) /\ Followed.changed_at >= mem.changed_at
    BY <1>1, <2>1, FollowedIsWhole
  <2> QED
    BY <2>2 DEF Whole
<1>3. /\ mem.changed_at \in 0..n /\ w.changed_at \in 0..n
      /\ worker.write.changed_at \in 0..n /\ follow.write.changed_at \in 0..n
  BY <1>1, <1>2 DEF HeldOK, Held, Whole, Within
<1>4. /\ follow'.pc = "off" /\ follow'.from = 0 /\ follow'.upto = 0 /\ follow'.write = NothingApplied
      /\ follow' \in [pc : {"off", "off", "fetched", "storing", "aborted"},
                      from : Nat, upto : Nat, write : Applied]
      /\ Whole(NothingApplied) /\ mem' = w /\ orphans' = orphans \cup {w}
  <2>1. NothingApplied \in Applied /\ Whole(NothingApplied)
    BY <1>1, LogLength DEF Whole
  <2> QED
    BY <1>2, <2>1 DEF AbortedFold, NotFollowing
<1>5. HeldOK'
  <2>1. \A a \in Held' : a \in Held \/ Whole(a)
    BY <1>1, <1>2, <1>3, <1>4 DEF AbortedFold, Held, DataOK
  <2> QED
    BY <1>1, <2>1, HeldStep
<1>6. DataOK'
  BY <1>1, <1>2, <1>3, <1>4 DEF AbortedFold, watches, DataOK
<1>7. RangesOK'
  BY <1>1, <1>2, <1>3, <1>4 DEF AbortedFold, watches, RangesOK, Within
<1>8. BuilderOK'
  BY <1>1, <1>2, <1>3, <1>4 DEF AbortedFold, watches, BuilderOK, DataOK
<1>9. SnapshotIsOfThisProjection'
  BY <1>1, <1>2, <1>3, <1>4 DEF AbortedFold, watches, SnapshotIsOfThisProjection, DataOK
<1>10. RoleOK'
  BY <1>1, <1>2, <1>3, <1>4 DEF AbortedFold, watches, RoleOK, DataOK
<1>11. NamedOK'
  BY <1>1, <1>2, <1>3, <1>4 DEF AbortedFold, watches, NamedOK, Named, History, DataOK
<1>12. AheadOK'
  BY <1>1, <1>2, <1>3, <1>4, SMTT(40) DEF AbortedFold, watches, AheadOK, RoleOK, DataOK, RangesOK, Within
<1> QED
  BY <1>5, <1>6, <1>7, <1>8, <1>9, <1>10, <1>11, <1>12 DEF SeatIInv

LEMMA AbortedDropKeeps ==
    ASSUME SeatIInv, BoundOK', bound'.history = bound.history, NEW n \in Nat,
           Len(History) = n, Len(History)' = n, AbortedDrop
    PROVE  SeatIInv'
<1>1. /\ BoundOK /\ DataOK /\ RangesOK /\ HeldOK /\ BuilderOK
      /\ SnapshotIsOfThisProjection /\ RoleOK /\ NamedOK /\ AheadOK
  BY DEF SeatIInv
<1>2. /\ follow'.pc = "off" /\ follow'.from = 0 /\ follow'.upto = 0 /\ follow'.write = NothingApplied
      /\ follow' \in [pc : {"off", "off", "fetched", "storing", "aborted"},
                      from : Nat, upto : Nat, write : Applied]
      /\ Whole(NothingApplied)
  <2>1. NothingApplied \in Applied /\ Whole(NothingApplied)
    BY <1>1, LogLength DEF Whole
  <2> QED
    BY <2>1 DEF AbortedDrop, NotFollowing
<1>3. HeldOK'
  <2>1. \A a \in Held' : a \in Held \/ Whole(a)
    BY <1>1, <1>2 DEF AbortedDrop, appliedVars, Held, DataOK
  <2> QED
    BY <1>1, <2>1, HeldStep
<1>4. DataOK'
  BY <1>1, <1>2 DEF AbortedDrop, appliedVars, watches, DataOK
<1>5. RangesOK'
  BY <1>1, <1>2 DEF AbortedDrop, appliedVars, watches, RangesOK, Within
<1>6. BuilderOK'
  BY <1>1, <1>2 DEF AbortedDrop, appliedVars, watches, BuilderOK, DataOK
<1>7. SnapshotIsOfThisProjection'
  BY <1>1, <1>2 DEF AbortedDrop, appliedVars, watches, SnapshotIsOfThisProjection, DataOK
<1>8. RoleOK'
  BY <1>1, <1>2 DEF AbortedDrop, appliedVars, watches, RoleOK, DataOK
<1>9. NamedOK'
  BY <1>1, <1>2 DEF AbortedDrop, appliedVars, watches, NamedOK, Named, History, DataOK
<1>10. AheadOK'
  BY <1>1, <1>2 DEF AbortedDrop, appliedVars, watches, AheadOK, RoleOK, DataOK, RangesOK, Within
<1> QED
  BY <1>3, <1>4, <1>5, <1>6, <1>7, <1>8, <1>9, <1>10 DEF SeatIInv

LEMMA OrphanLandsKeeps ==
    ASSUME SeatIInv, BoundOK', bound'.history = bound.history, NEW n \in Nat,
           Len(History) = n, Len(History)' = n, NEW w \in orphans, OrphanLands(w)
    PROVE  SeatIInv'
<1>1. /\ BoundOK /\ DataOK /\ RangesOK /\ HeldOK /\ BuilderOK
      /\ SnapshotIsOfThisProjection /\ RoleOK /\ NamedOK /\ AheadOK
  BY DEF SeatIInv
<1>2. w \in Applied
  BY <1>1, Zenon DEF HeldOK, Held, Whole
<1>3. HeldOK'
  <2>1. \A a \in Held' : a \in Held \/ Whole(a)
    BY <1>1, <1>2 DEF OrphanLands, Held, DataOK
  <2> QED
    BY <1>1, <2>1, HeldStep
<1>4. DataOK'
  BY <1>1, <1>2 DEF OrphanLands, watches, DataOK
<1>5. RangesOK'
  BY <1>1, <1>2 DEF OrphanLands, watches, RangesOK, Within
<1>6. BuilderOK'
  BY <1>1, <1>2 DEF OrphanLands, watches, BuilderOK, DataOK
<1>7. SnapshotIsOfThisProjection'
  BY <1>1, <1>2 DEF OrphanLands, watches, SnapshotIsOfThisProjection, DataOK
<1>8. RoleOK'
  BY <1>1, <1>2 DEF OrphanLands, watches, RoleOK, DataOK
<1>9. NamedOK'
  BY <1>1, <1>2 DEF OrphanLands, watches, NamedOK, Named, History, DataOK
<1>10. AheadOK'
  BY <1>1, <1>2 DEF OrphanLands, watches, AheadOK, RoleOK, DataOK, RangesOK, Within
<1> QED
  BY <1>3, <1>4, <1>5, <1>6, <1>7, <1>8, <1>9, <1>10 DEF SeatIInv

-----------------------------------------------------------------------------
(* The state machine and the snapshots, step by step.                      *)

LEMMA WorkerApplyKeeps ==
    ASSUME SeatIInv, BoundOK', bound'.history = bound.history, NEW n \in Nat,
           Len(History) = n, Len(History)' = n, WorkerApply
    PROVE  SeatIInv'
<1>1. /\ BoundOK /\ DataOK /\ RangesOK /\ HeldOK /\ BuilderOK
      /\ SnapshotIsOfThisProjection /\ RoleOK /\ NamedOK /\ AheadOK
  BY DEF SeatIInv
<1>2. Whole(mem) /\ worker.write \in Applied
  BY <1>1, Zenon DEF HeldOK, Held, Whole
<1>3. PICK w \in Applied : mem' = w /\ Whole(w) /\ w.changed_at >= mem.changed_at
  <2>1. PICK k \in mem.last_applied + 1 .. Len(History) :
            mem' = [mem EXCEPT !.last_applied = k,
                               !.changed_at = FoldFrom(mem.changed_at, mem.last_applied, k)]
    BY Zenon DEF WorkerApply
  <2>2. Whole(mem') /\ mem'.changed_at >= mem.changed_at
    BY <1>1, <1>2, <2>1, AppliedIsWhole
  <2> QED
    BY <2>2 DEF Whole
<1>4. /\ worker'.pc = "storing" /\ worker'.write = w
      /\ worker' \in [pc : {"idle", "storing", "announcing_raft", "announcing"}, write : Applied]
  BY <1>3 DEF WorkerApply
<1>5. /\ mem.changed_at \in 0..n /\ w.changed_at \in 0..n
      /\ worker.write.changed_at \in 0..n /\ follow.write.changed_at \in 0..n
  BY <1>1, <1>3 DEF HeldOK, Held, Whole, Within
<1>6. role.pc = "seated" /\ role' = role /\ follow' = follow /\ follow.pc # "storing" /\ watched' = watched
  BY <1>1 DEF RoleOK, WorkerApply, watches
<1>7. HeldOK'
  <2>1. \A a \in Held' : a \in Held \/ Whole(a)
    BY <1>1, <1>3, <1>4, <1>5 DEF WorkerApply, Held, DataOK
  <2> QED
    BY <1>1, <2>1, HeldStep
<1>8. DataOK'
  BY <1>1, <1>3, <1>4, <1>5 DEF WorkerApply, watches, DataOK
<1>9. RangesOK'
  BY <1>1, <1>3, <1>4, <1>5 DEF WorkerApply, watches, RangesOK, Within
<1>10. BuilderOK'
  BY <1>1, <1>3, <1>4, <1>5 DEF WorkerApply, watches, BuilderOK, DataOK
<1>11. SnapshotIsOfThisProjection'
  BY <1>1, <1>3, <1>4, <1>5 DEF WorkerApply, watches, SnapshotIsOfThisProjection, DataOK
<1>12. RoleOK'
  BY <1>1, <1>3, <1>4, <1>5 DEF WorkerApply, watches, RoleOK, DataOK
<1>13. NamedOK'
  BY <1>1, <1>3, <1>4, <1>5 DEF WorkerApply, watches, NamedOK, Named, History, DataOK
<1>14. AheadOK'
  BY <1>1, <1>3, <1>4, <1>5, <1>6 DEF AheadOK, RangesOK, Within
<1> QED
  BY <1>7, <1>8, <1>9, <1>10, <1>11, <1>12, <1>13, <1>14 DEF SeatIInv

LEMMA WorkerStoreKeeps ==
    ASSUME SeatIInv, BoundOK', bound'.history = bound.history, NEW n \in Nat,
           Len(History) = n, Len(History)' = n, WorkerStore
    PROVE  SeatIInv'
<1>1. /\ BoundOK /\ DataOK /\ RangesOK /\ HeldOK /\ BuilderOK
      /\ SnapshotIsOfThisProjection /\ RoleOK /\ NamedOK /\ AheadOK
  BY DEF SeatIInv
<1>2. /\ worker.pc = "storing" /\ worker'.pc = "announcing_raft" /\ worker'.write = worker.write
      /\ worker' \in [pc : {"idle", "storing", "announcing_raft", "announcing"}, write : Applied]
  BY <1>1 DEF DataOK, WorkerStore
<1>3. HeldOK'
  <2>1. \A a \in Held' : a \in Held \/ Whole(a)
    BY <1>1, <1>2 DEF WorkerStore, Held, DataOK
  <2> QED
    BY <1>1, <2>1, HeldStep
<1>4. DataOK'
  BY <1>1, <1>2 DEF WorkerStore, watches, DataOK
<1>5. RangesOK'
  BY <1>1, <1>2 DEF WorkerStore, watches, RangesOK, Within
<1>6. BuilderOK'
  BY <1>1, <1>2 DEF WorkerStore, watches, BuilderOK, DataOK
<1>7. SnapshotIsOfThisProjection'
  BY <1>1, <1>2 DEF WorkerStore, watches, SnapshotIsOfThisProjection, DataOK
<1>8. RoleOK'
  BY <1>1, <1>2 DEF WorkerStore, watches, RoleOK, DataOK
<1>9. NamedOK'
  BY <1>1, <1>2 DEF WorkerStore, watches, NamedOK, Named, History, DataOK
<1>10. AheadOK'
  BY <1>1, <1>2 DEF WorkerStore, watches, AheadOK, RoleOK, DataOK, RangesOK, Within
<1> QED
  BY <1>3, <1>4, <1>5, <1>6, <1>7, <1>8, <1>9, <1>10 DEF SeatIInv

LEMMA WorkerAnnounceRaftKeeps ==
    ASSUME SeatIInv, BoundOK', bound'.history = bound.history, NEW n \in Nat,
           Len(History) = n, Len(History)' = n, WorkerAnnounceRaft
    PROVE  SeatIInv'
<1>1. /\ BoundOK /\ DataOK /\ RangesOK /\ HeldOK /\ BuilderOK
      /\ SnapshotIsOfThisProjection /\ RoleOK /\ NamedOK /\ AheadOK
  BY DEF SeatIInv
<1>2. /\ worker.pc = "announcing_raft" /\ worker'.pc = "announcing" /\ worker'.write = worker.write
      /\ worker' \in [pc : {"idle", "storing", "announcing_raft", "announcing"}, write : Applied]
  BY <1>1 DEF DataOK, WorkerAnnounceRaft
<1>3. raftWatched' \in 0..n
  <2>1. worker.write.last_applied \in 0..n
    BY <1>1 DEF HeldOK, Held, Whole, Within
  <2>2. LastOf(Configs, worker.write.last_applied) \in 0..worker.write.last_applied
    BY <2>1, LastOfIsLast
  <2>3. raftWatched' = LastOf(Configs, worker.write.last_applied)
    BY Zenon DEF WorkerAnnounceRaft, ConfigAt
  <2> QED
    BY <2>1, <2>2, <2>3
<1>4. HeldOK'
  <2>1. \A a \in Held' : a \in Held \/ Whole(a)
    BY <1>1, <1>2, <1>3 DEF WorkerAnnounceRaft, appliedVars, Held, DataOK
  <2> QED
    BY <1>1, <2>1, HeldStep
<1>5. DataOK'
  BY <1>1, <1>2, <1>3 DEF WorkerAnnounceRaft, appliedVars, DataOK
<1>6. RangesOK'
  BY <1>1, <1>2, <1>3 DEF WorkerAnnounceRaft, appliedVars, RangesOK, Within
<1>7. BuilderOK'
  BY <1>1, <1>2, <1>3 DEF WorkerAnnounceRaft, appliedVars, BuilderOK, DataOK
<1>8. SnapshotIsOfThisProjection'
  BY <1>1, <1>2, <1>3 DEF WorkerAnnounceRaft, appliedVars, SnapshotIsOfThisProjection, DataOK
<1>9. RoleOK'
  BY <1>1, <1>2, <1>3 DEF WorkerAnnounceRaft, appliedVars, RoleOK, DataOK
<1>10. NamedOK'
  BY <1>1, <1>2, <1>3 DEF WorkerAnnounceRaft, appliedVars, NamedOK, Named, History, DataOK
<1>11. AheadOK'
  BY <1>1, <1>2, <1>3 DEF WorkerAnnounceRaft, appliedVars, AheadOK, RoleOK, DataOK, RangesOK, Within
<1> QED
  BY <1>4, <1>5, <1>6, <1>7, <1>8, <1>9, <1>10, <1>11 DEF SeatIInv

LEMMA WorkerAnnounceKeeps ==
    ASSUME SeatIInv, BoundOK', bound'.history = bound.history, NEW n \in Nat,
           Len(History) = n, Len(History)' = n, WorkerAnnounce
    PROVE  SeatIInv'
<1>1. /\ BoundOK /\ DataOK /\ RangesOK /\ HeldOK /\ BuilderOK
      /\ SnapshotIsOfThisProjection /\ RoleOK /\ NamedOK /\ AheadOK
  BY DEF SeatIInv
<1>2. /\ worker.pc = "announcing" /\ worker'.pc = "idle" /\ worker'.write = NothingApplied
      /\ worker' \in [pc : {"idle", "storing", "announcing_raft", "announcing"}, write : Applied]
      /\ Whole(NothingApplied)
  <2>1. NothingApplied \in Applied /\ Whole(NothingApplied)
    BY <1>1, LogLength DEF Whole
  <2> QED
    BY <2>1 DEF WorkerAnnounce, IdleWorker
<1>3. mem.changed_at \in 0..n /\ follow.write.changed_at \in 0..n /\ worker.write.changed_at \in 0..n
  BY <1>1 DEF HeldOK, Held, Whole, Within
<1>4. HeldOK'
  <2>1. \A a \in Held' : a \in Held \/ Whole(a)
    BY <1>1, <1>2, <1>3 DEF WorkerAnnounce, appliedVars, Held, DataOK
  <2> QED
    BY <1>1, <2>1, HeldStep
<1>5. DataOK'
  BY <1>1, <1>2, <1>3 DEF WorkerAnnounce, appliedVars, DataOK
<1>6. RangesOK'
  BY <1>1, <1>2, <1>3 DEF WorkerAnnounce, appliedVars, RangesOK, Within
<1>7. BuilderOK'
  BY <1>1, <1>2, <1>3 DEF WorkerAnnounce, appliedVars, BuilderOK, DataOK
<1>8. SnapshotIsOfThisProjection'
  BY <1>1, <1>2, <1>3 DEF WorkerAnnounce, appliedVars, SnapshotIsOfThisProjection, DataOK
<1>9. RoleOK'
  BY <1>1, <1>2, <1>3 DEF WorkerAnnounce, appliedVars, RoleOK, DataOK
<1>10. NamedOK'
  BY <1>1, <1>2, <1>3 DEF WorkerAnnounce, appliedVars, NamedOK, Named, History, DataOK
<1>11. AheadOK'
  BY <1>1, <1>2, <1>3 DEF WorkerAnnounce, appliedVars, AheadOK, RoleOK, DataOK, RangesOK, Within
<1> QED
  BY <1>4, <1>5, <1>6, <1>7, <1>8, <1>9, <1>10, <1>11 DEF SeatIInv

LEMMA StartBuildKeeps ==
    ASSUME SeatIInv, BoundOK', bound'.history = bound.history, NEW n \in Nat,
           Len(History) = n, Len(History)' = n, StartBuild
    PROVE  SeatIInv'
<1>1. /\ BoundOK /\ DataOK /\ RangesOK /\ HeldOK /\ BuilderOK
      /\ SnapshotIsOfThisProjection /\ RoleOK /\ NamedOK /\ AheadOK
  BY DEF SeatIInv
<1>2. /\ builder'[1].generation = generation /\ builder'[1].resets = bound.resets
      /\ builder'[1] \in [last : Nat, generation : Nat, resets : Nat]
      /\ bound'.resets = bound.resets
  <2>1. mem.last_applied \in Nat /\ generation \in Nat /\ bound.resets \in Nat
    BY <1>1 DEF HeldOK, Held, Whole, Applied, DataOK, BoundOK
  <2>2. bound'.resets = bound.resets
    BY <1>1 DEF StartBuild, BoundOK
  <2> QED
    BY <2>1, <2>2 DEF StartBuild
<1>3. HeldOK'
  <2>1. \A a \in Held' : a \in Held \/ Whole(a)
    BY <1>1, <1>2 DEF StartBuild, appliedVars, tasks, Held, DataOK
  <2> QED
    BY <1>1, <2>1, HeldStep
<1>4. DataOK'
  BY <1>1, <1>2 DEF StartBuild, appliedVars, watches, tasks, DataOK
<1>5. RangesOK'
  BY <1>1, <1>2 DEF StartBuild, appliedVars, watches, tasks, RangesOK, Within
<1>6. BuilderOK'
  BY <1>1, <1>2 DEF StartBuild, appliedVars, watches, tasks, BuilderOK, DataOK, RoleOK
<1>7. SnapshotIsOfThisProjection'
  BY <1>1, <1>2 DEF StartBuild, appliedVars, watches, tasks, SnapshotIsOfThisProjection, DataOK
<1>8. RoleOK'
  BY <1>1, <1>2 DEF StartBuild, appliedVars, watches, tasks, RoleOK, DataOK
<1>9. NamedOK'
  BY <1>1, <1>2 DEF StartBuild, appliedVars, watches, tasks, NamedOK, Named, History, DataOK
<1>10. AheadOK'
  BY <1>1, <1>2
     DEF StartBuild, appliedVars, watches, tasks, AheadOK, RoleOK, DataOK, RangesOK, Within
<1> QED
  BY <1>3, <1>4, <1>5, <1>6, <1>7, <1>8, <1>9, <1>10 DEF SeatIInv

LEMMA FinishBuildKeeps ==
    ASSUME SeatIInv, BoundOK', bound'.history = bound.history, NEW n \in Nat,
           Len(History) = n, Len(History)' = n, FinishBuild
    PROVE  SeatIInv'
<1>1. /\ BoundOK /\ DataOK /\ RangesOK /\ HeldOK /\ BuilderOK
      /\ SnapshotIsOfThisProjection /\ RoleOK /\ NamedOK /\ AheadOK
  BY DEF SeatIInv
<1>2. PICK b \in [last : Nat, generation : Nat, resets : Nat] :
          b = builder[1] /\ (b.generation = generation => b.resets = bound.resets)
  BY <1>1 DEF FinishBuild, BuilderOK
<1>3. \/ disk' = disk
      \/ /\ b.generation = generation
         /\ disk' \in [applied : Applied, promotion : Nat, snapshot : Nat, resets : Nat]
         /\ disk'.applied = disk.applied /\ disk'.promotion = disk.promotion
         /\ disk'.snapshot = b.last /\ disk'.resets = b.resets
  <2>1. \/ disk' = disk
        \/ b.generation = generation /\ disk' = [disk EXCEPT !.snapshot = b.last, !.resets = b.resets]
    BY <1>2 DEF FinishBuild, MayStore
  <2>2. b.last \in Nat /\ b.resets \in Nat
    BY <1>2
  <2> QED
    <3>1. disk \in [applied : Applied, promotion : Nat, snapshot : Nat, resets : Nat]
      BY <1>1 DEF DataOK
    <3> QED
      BY <2>1, <2>2, <3>1
<1>4. builder' = <<>> /\ generation' = generation /\ bound' = bound /\ role' = role
  BY DEF FinishBuild, tasks
<1>5. HeldOK'
  <2>1. \A a \in Held' : a \in Held \/ Whole(a)
    BY <1>1, <1>2, <1>3, <1>4 DEF FinishBuild, tasks, Held, DataOK
  <2> QED
    BY <1>1, <2>1, HeldStep
<1>6. DataOK'
  BY <1>1, <1>2, <1>3, <1>4 DEF FinishBuild, appliedVars, watches, tasks, DataOK
<1>7. RangesOK'
  BY <1>1, <1>2, <1>3, <1>4 DEF FinishBuild, appliedVars, watches, tasks, RangesOK, Within
<1>8. BuilderOK'
  BY <1>1, <1>2, <1>3, <1>4 DEF FinishBuild, appliedVars, watches, tasks, BuilderOK, DataOK
<1>9. SnapshotIsOfThisProjection'
  BY <1>1, <1>2, <1>3, <1>4
     DEF FinishBuild, appliedVars, watches, tasks, SnapshotIsOfThisProjection, DataOK
<1>10. RoleOK'
  BY <1>1, <1>2, <1>3, <1>4 DEF FinishBuild, appliedVars, watches, tasks, RoleOK, DataOK
<1>11. NamedOK'
  BY <1>1, <1>2, <1>3, <1>4
     DEF FinishBuild, appliedVars, watches, tasks, NamedOK, Named, History, DataOK
<1>12. AheadOK'
  BY <1>1, <1>2, <1>3, <1>4
     DEF FinishBuild, appliedVars, watches, tasks, AheadOK, RoleOK, DataOK, RangesOK, Within
<1> QED
  BY <1>5, <1>6, <1>7, <1>8, <1>9, <1>10, <1>11, <1>12 DEF SeatIInv

-----------------------------------------------------------------------------
(* The role, step by step.                                                 *)

\* Who holds a seat in a projection was named by it.
LEMMA CoreIsNamed ==
    ASSUME NEW c \in Nat
    PROVE  IsCore(c) => Named(c)
<1>1. LastOf({"in", "out"}, c) \in 0..c
  BY LastOfIsLast
<1> QED
  BY <1>1 DEF IsCore, Named

LEMMA TakeTheSeatKeeps ==
    ASSUME SeatIInv, BoundOK', bound'.history = bound.history, NEW n \in Nat,
           Len(History) = n, Len(History)' = n, TakeTheSeat
    PROVE  SeatIInv'
<1>1. /\ BoundOK /\ DataOK /\ RangesOK /\ HeldOK /\ BuilderOK
      /\ SnapshotIsOfThisProjection /\ RoleOK /\ NamedOK /\ AheadOK
  BY DEF SeatIInv
<1>2. Whole(NothingApplied) /\ NothingApplied \in Applied
  BY <1>1, LogLength DEF Whole
<1>3. watched \in Nat /\ watched \in 0..n /\ Named(watched)
  BY <1>1, CoreIsNamed DEF RangesOK, Within, TakeTheSeat
<1>4. /\ role'.pc = "preparing" /\ role'.seated_at = watched /\ role'.at = role.at
      /\ role' \in [pc : {"following", "preparing", "resetting", "seating", "seated", "resuming"},
                    seated_at : Nat, at : Nat]
      /\ role.pc = "following"
  BY <1>1, <1>3 DEF DataOK, TakeTheSeat
<1>5. /\ follow'.pc \in {"aborted", "off"}
      /\ follow'.write = follow.write \/ follow'.write = NothingApplied
      /\ follow'.from = follow.from \/ follow'.from = 0
      /\ follow'.upto = follow.upto \/ follow'.upto = 0
      /\ follow' \in [pc : {"off", "idle", "fetched", "storing", "aborted"},
                      from : Nat, upto : Nat, write : Applied]
  BY <1>1, <1>2 DEF DataOK, TakeTheSeat, Aborted, NotFollowing
<1>6. worker.pc = "idle"
  BY <1>1, <1>4 DEF RoleOK
<1>7. \A a \in orphans' : a \in orphans \/ a = follow.write
  BY DEF TakeTheSeat
<1>8. HeldOK'
  <2>1. \A a \in Held' : a \in Held \/ Whole(a)
    BY <1>1, <1>2, <1>3, <1>4, <1>5, <1>6, <1>7 DEF TakeTheSeat, appliedVars, Held, DataOK
  <2> QED
    BY <1>1, <2>1, HeldStep
<1>9. DataOK'
  BY <1>1, <1>2, <1>3, <1>4, <1>5, <1>6, <1>7 DEF TakeTheSeat, appliedVars, watches, DataOK
<1>10. RangesOK'
  BY <1>1, <1>2, <1>3, <1>4, <1>5, <1>6, <1>7
     DEF TakeTheSeat, appliedVars, watches, RangesOK, Within
<1>11. BuilderOK'
  BY <1>1, <1>2, <1>3, <1>4, <1>5, <1>6, <1>7
     DEF TakeTheSeat, appliedVars, watches, BuilderOK, DataOK
<1>12. SnapshotIsOfThisProjection'
  BY <1>1, <1>2, <1>3, <1>4, <1>5, <1>6, <1>7
     DEF TakeTheSeat, appliedVars, watches, SnapshotIsOfThisProjection, DataOK
<1>13. RoleOK'
  BY <1>1, <1>2, <1>3, <1>4, <1>5, <1>6, <1>7 DEF TakeTheSeat, appliedVars, watches, RoleOK, DataOK
<1>14. NamedOK'
  BY <1>1, <1>2, <1>3, <1>4, <1>5, <1>6, <1>7
     DEF TakeTheSeat, appliedVars, watches, NamedOK, Named, History, DataOK
<1>15. AheadOK'
  BY <1>1, <1>2, <1>3, <1>4, <1>5, <1>6, <1>7
     DEF TakeTheSeat, appliedVars, watches, AheadOK, RoleOK, DataOK, RangesOK, Within
<1> QED
  BY <1>8, <1>9, <1>10, <1>11, <1>12, <1>13, <1>14, <1>15 DEF SeatIInv

LEMMA PreparePromotionKeeps ==
    ASSUME SeatIInv, BoundOK', bound'.history = bound.history, NEW n \in Nat,
           Len(History) = n, Len(History)' = n, PreparePromotion
    PROVE  SeatIInv'
<1>1. /\ BoundOK /\ DataOK /\ RangesOK /\ HeldOK /\ BuilderOK
      /\ SnapshotIsOfThisProjection /\ RoleOK /\ NamedOK /\ AheadOK
  BY DEF SeatIInv
<1>2. Whole(NothingApplied) /\ NothingApplied \in Applied
  BY <1>1, LogLength DEF Whole
<1>3. mem.changed_at \in Nat /\ role.seated_at \in Nat /\ generation \in Nat /\ generation + 1 \in Nat
  BY <1>1 DEF HeldOK, Held, Whole, Applied, DataOK
<1>4. /\ role'.pc = "resetting" /\ role'.seated_at = role.seated_at /\ role'.at = mem.changed_at
      /\ role' \in [pc : {"following", "preparing", "resetting", "seating", "seated", "resuming"},
                    seated_at : Nat, at : Nat]
      /\ role.pc = "preparing"
  BY <1>1, <1>3 DEF DataOK, PreparePromotion
<1>5. Named(role.seated_at) /\ Named(mem.changed_at)
  <2>1. Named(role.seated_at) /\ role.seated_at <= mem.changed_at
    BY <1>1, <1>4 DEF NamedOK, AheadOK
  <2> QED
    BY <1>3, <2>1, NamedGrows
<1>6. worker.pc = "idle" /\ follow.pc # "storing"
  BY <1>1, <1>4 DEF RoleOK
<1>7. builder' = builder /\ generation' = generation + 1
  BY DEF PreparePromotion
<1>8. HeldOK'
  <2>1. \A a \in Held' : a \in Held \/ Whole(a)
    BY <1>1, <1>2, <1>3, <1>4, <1>5, <1>6 DEF PreparePromotion, Held, DataOK
  <2> QED
    BY <1>1, <2>1, HeldStep
<1>9. DataOK'
  BY <1>1, <1>2, <1>3, <1>4, <1>5, <1>6 DEF PreparePromotion, watches, DataOK
<1>10. RangesOK'
  BY <1>1, <1>2, <1>3, <1>4, <1>5, <1>6 DEF PreparePromotion, watches, RangesOK, Within
<1>11. BuilderOK'
  BY <1>1, <1>3, <1>7 DEF BuilderOK
<1>12. SnapshotIsOfThisProjection'
  BY <1>1, <1>2, <1>3, <1>4, <1>5, <1>6
     DEF PreparePromotion, watches, SnapshotIsOfThisProjection, DataOK
<1>13. RoleOK'
  BY <1>1, <1>2, <1>3, <1>4, <1>5, <1>6 DEF PreparePromotion, watches, RoleOK, DataOK
<1>14. NamedOK'
  BY <1>1, <1>2, <1>3, <1>4, <1>5, <1>6
     DEF PreparePromotion, watches, NamedOK, Named, History, DataOK
<1>15. AheadOK'
  BY <1>1, <1>2, <1>3, <1>4, <1>5, <1>6
     DEF PreparePromotion, watches, AheadOK, RoleOK, DataOK, RangesOK, Within
<1> QED
  BY <1>8, <1>9, <1>10, <1>11, <1>12, <1>13, <1>14, <1>15 DEF SeatIInv

LEMMA ResetProjectionKeeps ==
    ASSUME SeatIInv, BoundOK', bound'.history = bound.history, NEW n \in Nat,
           Len(History) = n, Len(History)' = n, ResetProjection
    PROVE  SeatIInv'
<1>1. /\ BoundOK /\ DataOK /\ RangesOK /\ HeldOK /\ BuilderOK
      /\ SnapshotIsOfThisProjection /\ RoleOK /\ NamedOK /\ AheadOK
  BY DEF SeatIInv
<1>2. Whole(NothingApplied) /\ NothingApplied \in Applied
  BY <1>1, LogLength DEF Whole
<1>3. /\ role'.pc = "seating" /\ role'.seated_at = role.seated_at /\ role'.at = role.at
      /\ role' \in [pc : {"following", "preparing", "resetting", "seating", "seated", "resuming"},
                    seated_at : Nat, at : Nat]
      /\ role.pc = "resetting" /\ role.at \in Nat
  BY <1>1 DEF DataOK, ResetProjection
<1>4. /\ disk' \in [applied : Applied, promotion : Nat, snapshot : Nat, resets : Nat]
      /\ disk'.applied = NothingApplied /\ disk'.promotion = role.at /\ disk'.snapshot = 0
  BY <1>2, <1>3 DEF ResetProjection
<1>5. worker.pc = "idle" /\ follow.pc # "storing"
  BY <1>1, <1>3 DEF RoleOK
<1>6. HeldOK'
  <2>1. \A a \in Held' : a \in Held \/ Whole(a)
    BY <1>1, <1>2, <1>3, <1>4, <1>5 DEF ResetProjection, Held, DataOK
  <2> QED
    BY <1>1, <2>1, HeldStep
<1>7. DataOK'
  BY <1>1, <1>2, <1>3, <1>4, <1>5 DEF ResetProjection, watches, DataOK
<1>8. RangesOK'
  BY <1>1, <1>2, <1>3, <1>4, <1>5 DEF ResetProjection, watches, RangesOK, Within
<1>9. BuilderOK'
  BY <1>1, <1>2, <1>3, <1>4, <1>5 DEF ResetProjection, watches, BuilderOK, DataOK
<1>10. SnapshotIsOfThisProjection'
  BY <1>1, <1>2, <1>3, <1>4, <1>5 DEF ResetProjection, watches, SnapshotIsOfThisProjection, DataOK
<1>11. RoleOK'
  BY <1>1, <1>2, <1>3, <1>4, <1>5 DEF ResetProjection, watches, RoleOK, DataOK
<1>12. NamedOK'
  BY <1>1, <1>2, <1>3, <1>4, <1>5 DEF ResetProjection, watches, NamedOK, Named, History, DataOK
<1>13. AheadOK'
  BY <1>1, <1>2, <1>3, <1>4, <1>5
     DEF ResetProjection, watches, AheadOK, RoleOK, DataOK, RangesOK, Within
<1> QED
  BY <1>6, <1>7, <1>8, <1>9, <1>10, <1>11, <1>12, <1>13 DEF SeatIInv

LEMMA SitDownKeeps ==
    ASSUME SeatIInv, BoundOK', bound'.history = bound.history, NEW n \in Nat,
           Len(History) = n, Len(History)' = n, SitDown
    PROVE  SeatIInv'
<1>1. /\ BoundOK /\ DataOK /\ RangesOK /\ HeldOK /\ BuilderOK
      /\ SnapshotIsOfThisProjection /\ RoleOK /\ NamedOK /\ AheadOK
  BY DEF SeatIInv
<1>2. /\ role'.pc = "seated" /\ role'.seated_at = role.seated_at
      /\ role' \in [pc : {"following", "preparing", "resetting", "seating", "seated", "resuming"},
                    seated_at : Nat, at : Nat]
      /\ role.pc = "seating" /\ role.at \in Nat
  BY <1>1 DEF DataOK, SitDown
<1>3. mem.changed_at \in 0..n
  BY <1>1 DEF HeldOK, Held, Whole, Within
<1>4. worker.pc = "idle" /\ follow.pc # "storing"
  BY <1>1, <1>2 DEF RoleOK
<1>5. HeldOK'
  <2>1. \A a \in Held' : a \in Held \/ Whole(a)
    BY <1>1, <1>2, <1>3, <1>4 DEF SitDown, Held, DataOK
  <2> QED
    BY <1>1, <2>1, HeldStep
<1>6. DataOK'
  BY <1>1, <1>2, <1>3, <1>4 DEF SitDown, DataOK
<1>7. RangesOK'
  BY <1>1, <1>2, <1>3, <1>4 DEF SitDown, RangesOK, Within
<1>8. BuilderOK'
  BY <1>1, <1>2, <1>3, <1>4 DEF SitDown, BuilderOK, DataOK
<1>9. SnapshotIsOfThisProjection'
  BY <1>1, <1>2, <1>3, <1>4 DEF SitDown, SnapshotIsOfThisProjection, DataOK
<1>10. RoleOK'
  BY <1>1, <1>2, <1>3, <1>4 DEF SitDown, RoleOK, DataOK
<1>11. NamedOK'
  BY <1>1, <1>2, <1>3, <1>4 DEF SitDown, NamedOK, Named, History, DataOK
<1>12. AheadOK'
  BY <1>1, <1>2, <1>3, <1>4, SMTT(40) DEF SitDown, AheadOK, RoleOK, DataOK, RangesOK, Within
<1> QED
  BY <1>5, <1>6, <1>7, <1>8, <1>9, <1>10, <1>11, <1>12 DEF SeatIInv

LEMMA VacateKeeps ==
    ASSUME SeatIInv, BoundOK', bound'.history = bound.history, NEW n \in Nat,
           Len(History) = n, Len(History)' = n, Vacate
    PROVE  SeatIInv'
<1>1. /\ BoundOK /\ DataOK /\ RangesOK /\ HeldOK /\ BuilderOK
      /\ SnapshotIsOfThisProjection /\ RoleOK /\ NamedOK /\ AheadOK
  BY DEF SeatIInv
<1>2. /\ role'.pc = "resuming" /\ role'.seated_at = 0 /\ role'.at = role.at
      /\ role' \in [pc : {"following", "preparing", "resetting", "seating", "seated", "resuming"},
                    seated_at : Nat, at : Nat]
      /\ role.pc = "seated"
  BY <1>1 DEF DataOK, Vacate
<1>3. /\ mem'.changed_at = mem.changed_at /\ Whole(mem')
      /\ mem.changed_at \in 0..n
  <2>1. Whole(mem)
    BY <1>1, Zenon DEF HeldOK, Held
  <2>2. mem.last_applied \in Nat /\ mem' = [mem EXCEPT !.followed_upto = mem.last_applied]
    BY <2>1 DEF Whole, Applied, Vacate
  <2>3. /\ mem' \in Applied /\ mem'.last_applied = mem.last_applied
        /\ mem'.changed_at = mem.changed_at /\ mem'.followed_upto = mem.last_applied
    BY <2>1, <2>2 DEF Whole, Applied
  <2> QED
    BY <2>1, <2>3 DEF Whole, Within
<1>4. worker.pc = "idle" /\ follow.pc # "storing"
  BY <1>1, <1>2 DEF RoleOK, Vacate
<1>5. HeldOK'
  <2>1. \A a \in Held' : a \in Held \/ Whole(a)
    BY <1>1, <1>2, <1>3, <1>4 DEF Vacate, Held, DataOK
  <2> QED
    BY <1>1, <2>1, HeldStep
<1>6. DataOK'
  BY <1>1, <1>2, <1>3, <1>4 DEF Vacate, watches, DataOK
<1>7. RangesOK'
  BY <1>1, <1>2, <1>3, <1>4 DEF Vacate, watches, RangesOK, Within
<1>8. BuilderOK'
  BY <1>1, <1>2, <1>3, <1>4 DEF Vacate, watches, BuilderOK, DataOK
<1>9. SnapshotIsOfThisProjection'
  BY <1>1, <1>2, <1>3, <1>4 DEF Vacate, watches, SnapshotIsOfThisProjection, DataOK
<1>10. RoleOK'
  BY <1>1, <1>2, <1>3, <1>4 DEF Vacate, watches, RoleOK, DataOK
<1>11. NamedOK'
  BY <1>1, <1>2, <1>3, <1>4 DEF Vacate, watches, NamedOK, Named, History, DataOK
<1>12. AheadOK'
  BY <1>1, <1>2, <1>3, <1>4 DEF Vacate, watches, AheadOK, RoleOK, DataOK, RangesOK, Within
<1> QED
  BY <1>5, <1>6, <1>7, <1>8, <1>9, <1>10, <1>11, <1>12 DEF SeatIInv

LEMMA ResumeFollowingKeeps ==
    ASSUME SeatIInv, BoundOK', bound'.history = bound.history, NEW n \in Nat,
           Len(History) = n, Len(History)' = n, ResumeFollowing
    PROVE  SeatIInv'
<1>1. /\ BoundOK /\ DataOK /\ RangesOK /\ HeldOK /\ BuilderOK
      /\ SnapshotIsOfThisProjection /\ RoleOK /\ NamedOK /\ AheadOK
  BY DEF SeatIInv
<1>2. /\ follow'.pc = "idle" /\ follow'.from = 0 /\ follow'.upto = 0 /\ follow'.write = NothingApplied
      /\ follow' \in [pc : {"off", "idle", "fetched", "storing", "aborted"},
                      from : Nat, upto : Nat, write : Applied]
      /\ Whole(NothingApplied)
  <2>1. NothingApplied \in Applied /\ Whole(NothingApplied)
    BY <1>1, LogLength DEF Whole
  <2> QED
    BY <2>1 DEF ResumeFollowing, Asking, NotFollowing
<1>3. /\ role'.pc = "following" /\ role'.seated_at = role.seated_at /\ role'.at = role.at
      /\ role' \in [pc : {"following", "preparing", "resetting", "seating", "seated", "resuming"},
                    seated_at : Nat, at : Nat]
      /\ role.pc = "resuming"
  BY <1>1 DEF DataOK, ResumeFollowing
<1>4. /\ disk' \in [applied : Applied, promotion : Nat, snapshot : Nat, resets : Nat]
      /\ disk'.applied \in {disk.applied, mem} /\ disk'.promotion = disk.promotion
      /\ disk'.snapshot = disk.snapshot /\ disk'.resets = disk.resets
  <2>1. mem \in Applied
    BY <1>1, Zenon DEF HeldOK, Held, Whole
  <2> QED
    BY <1>1, <2>1 DEF DataOK, ResumeFollowing
<1>5. worker.pc = "idle"
  BY <1>1, <1>3 DEF RoleOK
<1>6. HeldOK'
  <2>1. \A a \in Held' : a \in Held \/ Whole(a)
    BY <1>1, <1>2, <1>3, <1>4, <1>5 DEF ResumeFollowing, Held, DataOK
  <2> QED
    BY <1>1, <2>1, HeldStep
<1>7. DataOK'
  BY <1>1, <1>2, <1>3, <1>4, <1>5 DEF ResumeFollowing, watches, DataOK
<1>8. RangesOK'
  BY <1>1, <1>2, <1>3, <1>4, <1>5 DEF ResumeFollowing, watches, RangesOK, Within
<1>9. BuilderOK'
  BY <1>1, <1>2, <1>3, <1>4, <1>5 DEF ResumeFollowing, watches, BuilderOK, DataOK
<1>10. SnapshotIsOfThisProjection'
  BY <1>1, <1>2, <1>3, <1>4, <1>5 DEF ResumeFollowing, watches, SnapshotIsOfThisProjection, DataOK
<1>11. RoleOK'
  BY <1>1, <1>2, <1>3, <1>4, <1>5 DEF ResumeFollowing, watches, RoleOK, DataOK
<1>12. NamedOK'
  BY <1>1, <1>2, <1>3, <1>4, <1>5 DEF ResumeFollowing, watches, NamedOK, Named, History, DataOK
<1>13. AheadOK'
  BY <1>1, <1>2, <1>3, <1>4, <1>5
     DEF ResumeFollowing, watches, AheadOK, RoleOK, DataOK, RangesOK, Within
<1> QED
  BY <1>6, <1>7, <1>8, <1>9, <1>10, <1>11, <1>12, <1>13 DEF SeatIInv

-----------------------------------------------------------------------------
(* The allowlist and the restart.                                          *)

LEMMA EnforcerReadKeeps ==
    ASSUME SeatIInv, BoundOK', bound'.history = bound.history, NEW n \in Nat,
           Len(History) = n, Len(History)' = n, EnforcerRead
    PROVE  SeatIInv'
<1>1. /\ BoundOK /\ DataOK /\ RangesOK /\ HeldOK /\ BuilderOK
      /\ SnapshotIsOfThisProjection /\ RoleOK /\ NamedOK /\ AheadOK
  BY DEF SeatIInv
<1>2. /\ enforcer'.read = watched
      /\ enforcer' \in [pc : {"waiting", "publishing"}, read : Nat, seen : {<<>>} \cup (Nat \X Nat)]
  <2>1. watched \in Nat /\ raftWatched \in Nat
    BY <1>1 DEF RangesOK, Within
  <2>2. watches \in Nat \X Nat
    BY <2>1 DEF watches
  <2> QED
    BY <2>1, <2>2, Zenon DEF EnforcerRead
<1>3. UNCHANGED <<appliedVars, watches, seat, tasks, allow, builder, bound>>
  BY DEF EnforcerRead
<1>4. HeldOK'
  <2>1. \A a \in Held' : a \in Held \/ Whole(a)
    BY <1>1, <1>2, <1>3 DEF appliedVars, tasks, Held, DataOK
  <2> QED
    BY <1>1, <2>1, HeldStep
<1>5. DataOK'
  BY <1>1, <1>2, <1>3 DEF appliedVars, watches, tasks, DataOK
<1>6. RangesOK'
  BY <1>1, <1>2, <1>3 DEF appliedVars, watches, tasks, RangesOK, Within
<1>7. BuilderOK'
  BY <1>1, <1>2, <1>3 DEF appliedVars, watches, tasks, BuilderOK, DataOK
<1>8. SnapshotIsOfThisProjection'
  BY <1>1, <1>2, <1>3 DEF appliedVars, watches, tasks, SnapshotIsOfThisProjection, DataOK
<1>9. RoleOK'
  BY <1>1, <1>2, <1>3 DEF appliedVars, watches, tasks, RoleOK, DataOK
<1>10. NamedOK'
  BY <1>1, <1>2, <1>3 DEF appliedVars, watches, tasks, NamedOK, Named, History, DataOK
<1>11. AheadOK'
  BY <1>1, <1>2, <1>3 DEF appliedVars, watches, tasks, AheadOK, RoleOK, DataOK, RangesOK, Within
<1> QED
  BY <1>4, <1>5, <1>6, <1>7, <1>8, <1>9, <1>10, <1>11 DEF SeatIInv

LEMMA EnforcerPublishKeeps ==
    ASSUME SeatIInv, BoundOK', bound'.history = bound.history, NEW n \in Nat,
           Len(History) = n, Len(History)' = n, EnforcerPublish
    PROVE  SeatIInv'
<1>1. /\ BoundOK /\ DataOK /\ RangesOK /\ HeldOK /\ BuilderOK
      /\ SnapshotIsOfThisProjection /\ RoleOK /\ NamedOK /\ AheadOK
  BY DEF SeatIInv
<1>2. /\ enforcer'.read = 0
      /\ enforcer' \in [pc : {"waiting", "publishing"}, read : Nat, seen : {<<>>} \cup (Nat \X Nat)]
  <2>1. enforcer' = [enforcer EXCEPT !.pc = "waiting", !.read = 0]
    BY DEF EnforcerPublish
  <2> QED
    BY <1>1, <2>1 DEF DataOK
<1>3. allow' \in {allow, enforcer.read}
  BY DEF EnforcerPublish
<1>4. HeldOK'
  <2>1. \A a \in Held' : a \in Held \/ Whole(a)
    BY <1>1, <1>2, <1>3 DEF EnforcerPublish, appliedVars, tasks, Held, DataOK
  <2> QED
    BY <1>1, <2>1, HeldStep
<1>5. DataOK'
  BY <1>1, <1>2, <1>3 DEF EnforcerPublish, appliedVars, watches, tasks, DataOK
<1>6. RangesOK'
  BY <1>1, <1>2, <1>3 DEF EnforcerPublish, appliedVars, watches, tasks, RangesOK, Within
<1>7. BuilderOK'
  BY <1>1, <1>2, <1>3 DEF EnforcerPublish, appliedVars, watches, tasks, BuilderOK, DataOK
<1>8. SnapshotIsOfThisProjection'
  BY <1>1, <1>2, <1>3
     DEF EnforcerPublish, appliedVars, watches, tasks, SnapshotIsOfThisProjection, DataOK
<1>9. RoleOK'
  BY <1>1, <1>2, <1>3 DEF EnforcerPublish, appliedVars, watches, tasks, RoleOK, DataOK
<1>10. NamedOK'
  BY <1>1, <1>2, <1>3
     DEF EnforcerPublish, appliedVars, watches, tasks, NamedOK, Named, History, DataOK
<1>11. AheadOK'
  BY <1>1, <1>2, <1>3
     DEF EnforcerPublish, appliedVars, watches, tasks, AheadOK, RoleOK, DataOK, RangesOK, Within
<1> QED
  BY <1>4, <1>5, <1>6, <1>7, <1>8, <1>9, <1>10, <1>11 DEF SeatIInv

\* A stored projection whose configuration counts this node a voter names it.
LEMMA VoterIsNamed ==
    ASSUME BoundOK, NEW a, Whole(a)
    PROVE  Votes(ConfigAt(a.last_applied)) => Named(a.changed_at)
<1>1. PICK n \in Nat : n = Len(History)
  BY LogLength
<1>2. PICK i \in 0..n, c \in 0..n : i = a.last_applied /\ c = a.changed_at
  BY <1>1 DEF Whole, Within
<1>3. LastOf(Configs, i) \in 0..i
  BY LastOfIsLast
<1>4. PICK j \in 0..i : j = LastOf(Configs, i)
  BY <1>3
<1>5. LastOf(Events, i) \in 0..i /\ \A k \in 1..i : History[k] \in Events => k <= LastOf(Events, i)
  BY LastOfIsLast
<1>6. PICK e \in 0..i : e = LastOf(Events, i) /\ \A k \in 1..i : History[k] \in Events => k <= e
  BY <1>5
<1>7. c >= e
  BY <1>2, <1>6 DEF Whole, ChangedAt
<1>8. SUFFICES ASSUME Votes(j) PROVE Named(c)
  BY <1>2, <1>4 DEF ConfigAt
<1>9. j \in 1..n /\ History[j] \in {"joint", "voter"}
  BY <1>2, <1>8 DEF Votes
<1>10. PICK k \in 1..j : History[k] = "in"
  BY <1>1, <1>9 DEF BoundOK
<1>11. k \in 1..i /\ k <= e
  BY <1>6, <1>10 DEF Events
<1> QED
  BY <1>7, <1>10, <1>11 DEF Named

LEMMA RestartKeeps ==
    ASSUME SeatIInv, BoundOK', bound'.history = bound.history, NEW n \in Nat,
           Len(History) = n, Len(History)' = n, Restart
    PROVE  SeatIInv'
<1>1. /\ BoundOK /\ DataOK /\ RangesOK /\ HeldOK /\ BuilderOK
      /\ SnapshotIsOfThisProjection /\ RoleOK /\ NamedOK /\ AheadOK
  BY DEF SeatIInv
<1>2. Whole(NothingApplied) /\ NothingApplied \in Applied
  BY <1>1, LogLength DEF Whole
<1>3. /\ disk' = disk /\ mem' = disk.applied /\ promotion' = disk.promotion /\ generation' = 0
      /\ watched' = disk.applied.changed_at
      /\ raftWatched' = ConfigAt(disk.applied.last_applied)
      /\ seat' = StartsAsCore(disk)
      /\ worker' = IdleWorker /\ orphans' = {}
      /\ follow' = IF StartsAsCore(disk) THEN NotFollowing ELSE Asking
      /\ enforcer' = [pc |-> "waiting", read |-> 0, seen |-> <<>>]
      /\ allow' = 0 /\ builder' = <<>>
  BY Zenon DEF Restart
<1>4. bound'.resets = bound.resets
  BY <1>1 DEF Restart, BoundOK
<1>5. /\ Whole(disk.applied) /\ disk.applied \in Applied /\ disk.applied.changed_at \in 0..n
      /\ ConfigAt(disk.applied.last_applied) \in 0..n
  <2>1. Whole(disk.applied)
    BY <1>1, Zenon DEF HeldOK, Held
  <2>2. disk.applied.last_applied \in 0..n
    BY <2>1 DEF Whole, Within
  <2>3. LastOf(Configs, disk.applied.last_applied) \in 0..disk.applied.last_applied
    BY <2>2, LastOfIsLast
  <2> QED
    BY <2>1, <2>2, <2>3 DEF ConfigAt, Whole, Within
<1>6. /\ worker'.pc = "idle" /\ worker'.write = NothingApplied
      /\ worker' \in [pc : {"idle", "storing", "announcing_raft", "announcing"}, write : Applied]
      /\ follow'.pc \in {"off", "idle"} /\ follow'.from = 0 /\ follow'.upto = 0
      /\ follow'.write = NothingApplied
      /\ follow' \in [pc : {"off", "idle", "fetched", "storing", "aborted"},
                      from : Nat, upto : Nat, write : Applied]
      /\ StartsAsCore(disk) => follow'.pc = "off"
  BY <1>2, <1>3 DEF IdleWorker, NotFollowing, Asking
<1>7. /\ role' \in [pc : {"following", "preparing", "resetting", "seating", "seated", "resuming"},
                    seated_at : Nat, at : Nat]
      /\ role'.pc = IF StartsAsCore(disk) THEN "seated" ELSE "following"
      /\ StartsAsCore(disk) => Named(role'.seated_at)
  <2>1. PICK config \in 0..n : config = ConfigAt(disk.applied.last_applied)
    BY <1>5
  <2>2. PICK replay \in BOOLEAN : replay <=> disk.promotion # 0 /\ config < disk.promotion
    OBVIOUS
  <2>3. PICK at \in Nat : at = IF replay THEN disk.promotion ELSE disk.applied.changed_at
    BY <1>1, <1>5 DEF DataOK
  <2>4. role' = [pc |-> IF StartsAsCore(disk) THEN "seated" ELSE "following",
                 seated_at |-> at, at |-> 0]
    BY <2>1, <2>2, <2>3, Zenon DEF Restart
  <2>5. /\ StartsAsCore(disk) /\ ~ replay =>
              IsCore(disk.applied.changed_at) \/ Votes(ConfigAt(disk.applied.last_applied))
        /\ replay => disk.promotion # 0
    BY <2>1, <2>2, Zenon DEF StartsAsCore
  <2>6. StartsAsCore(disk) => Named(at)
    <3>1. replay => Named(at)
      BY <1>1, <2>3, <2>5 DEF NamedOK
    <3>2. ~ replay => at = disk.applied.changed_at
      BY <2>3
    <3>3. IsCore(at) => Named(at)
      BY CoreIsNamed
    <3>4. Votes(ConfigAt(disk.applied.last_applied)) => Named(disk.applied.changed_at)
      BY <1>1, <1>5, VoterIsNamed
    <3> QED
      BY <2>5, <3>1, <3>2, <3>3, <3>4
  <2> QED
    BY <2>4, <2>6
<1>8. /\ disk' \in [applied : Applied, promotion : Nat, snapshot : Nat, resets : Nat]
      /\ promotion' \in Nat /\ generation' \in Nat
      /\ enforcer'.read = 0
      /\ enforcer' \in [pc : {"waiting", "publishing"}, read : Nat, seen : {<<>>} \cup (Nat \X Nat)]
      /\ seat' \in BOOLEAN
  BY <1>1, <1>3, Zenon DEF DataOK, StartsAsCore
<1>9. HeldOK'
  <2>1. \A a \in Held' : a \in Held \/ Whole(a)
    BY <1>1, <1>2, <1>3, <1>4, <1>5, <1>6, <1>7, <1>8 DEF Held, DataOK
  <2> QED
    BY <1>1, <2>1, HeldStep
<1>10. DataOK'
  BY <1>1, <1>2, <1>3, <1>4, <1>5, <1>6, <1>7, <1>8 DEF DataOK
<1>11. RangesOK'
  BY <1>1, <1>2, <1>3, <1>4, <1>5, <1>6, <1>7, <1>8 DEF RangesOK, Within
<1>12. BuilderOK'
  BY <1>1, <1>2, <1>3, <1>4, <1>5, <1>6, <1>7, <1>8 DEF BuilderOK, DataOK
<1>13. SnapshotIsOfThisProjection'
  BY <1>1, <1>2, <1>3, <1>4, <1>5, <1>6, <1>7, <1>8 DEF SnapshotIsOfThisProjection, DataOK
<1>14. RoleOK'
  BY <1>1, <1>2, <1>3, <1>4, <1>5, <1>6, <1>7, <1>8 DEF RoleOK, DataOK
<1>15. NamedOK'
  BY <1>1, <1>2, <1>3, <1>4, <1>5, <1>6, <1>7, <1>8 DEF NamedOK, Named, History, DataOK
<1>16. AheadOK'
  BY <1>1, <1>2, <1>3, <1>4, <1>5, <1>6, <1>7, <1>8 DEF AheadOK, RoleOK, DataOK, RangesOK, Within
<1> QED
  BY <1>9, <1>10, <1>11, <1>12, <1>13, <1>14, <1>15, <1>16 DEF SeatIInv

-----------------------------------------------------------------------------
(* The theorems.                                                           *)

LEMMA SeatStep ==
    ASSUME SeatIInv, [Next]_vars
    PROVE  SeatIInv'
<1>1. CASE UNCHANGED vars
  <2>1. bound' = bound
    BY <1>1 DEF vars
  <2>2. HeldOK'
    BY <1>1, HeldStep DEF SeatIInv, Held, vars, appliedVars, tasks
  <2> QED
    BY <1>1, <2>2 DEF SeatIInv, BoundOK, DataOK, RangesOK, BuilderOK, SnapshotIsOfThisProjection,
                      RoleOK, NamedOK, AheadOK, Within, Named, History, vars, appliedVars, watches, tasks
<1>2. CASE Next
  <2>1. /\ bound'.history = bound.history /\ BoundOK'
        /\ Len(History)' = Len(History) /\ Len(History) \in Nat
    BY <1>2, BoundStep DEF SeatIInv
  <2>2. PICK n \in Nat : Len(History) = n /\ Len(History)' = n
    BY <2>1
  <2>3. CASE Follow
    BY <2>1, <2>2, <2>3, FollowFetchKeeps, FollowFoldKeeps, FollowStoreKeeps, AbortedFoldKeeps,
       AbortedDropKeeps DEF Follow
  <2>4. CASE Orphans
    <3>1. PICK w \in orphans : OrphanLands(w)
      BY <2>4 DEF Orphans
    <3> QED
      BY <2>1, <2>2, <3>1, OrphanLandsKeeps
  <2>5. CASE Worker
    BY <2>1, <2>2, <2>5, WorkerApplyKeeps, WorkerStoreKeeps, WorkerAnnounceRaftKeeps,
       WorkerAnnounceKeeps DEF Worker
  <2>6. CASE StartBuild \/ FinishBuild
    BY <2>1, <2>2, <2>6, StartBuildKeeps, FinishBuildKeeps
  <2>7. CASE Role
    BY <2>1, <2>2, <2>7, TakeTheSeatKeeps, PreparePromotionKeeps, ResetProjectionKeeps,
       SitDownKeeps, VacateKeeps, ResumeFollowingKeeps DEF Role
  <2>8. CASE Enforcer
    BY <2>1, <2>2, <2>8, EnforcerReadKeeps, EnforcerPublishKeeps DEF Enforcer
  <2>9. CASE Restart
    BY <2>1, <2>2, <2>9, RestartKeeps
  <2> QED
    BY <1>2, <2>3, <2>4, <2>5, <2>6, <2>7, <2>8, <2>9 DEF Next
<1> QED
  BY <1>1, <1>2

LEMMA SeatInductive == Spec => []SeatIInv
BY SeatInit, SeatStep, PTL DEF Spec

LEMMA SeatIInvIsEnough == SeatIInv => SeatInv
<1> SUFFICES ASSUME SeatIInv PROVE SeatInv
  OBVIOUS
<1>1. DataOK /\ RangesOK /\ HeldOK /\ SnapshotIsOfThisProjection
  BY DEF SeatIInv
<1>2. mem \in Applied
  BY <1>1, Zenon DEF HeldOK, Held, Whole
<1>3. orphans \subseteq Applied
  BY <1>1, Zenon DEF HeldOK, Held, Whole
<1> QED
  BY <1>1, <1>2, <1>3 DEF SeatInv, TypeOK, DataOK, RangesOK, Within

\* The types hold, and no snapshot of a projection outlives its reset: whichever
\* task a promotion, a demotion or a crash finds in the middle of its work, a
\* snapshot that was being built of the projection before the reset is not
\* stored over the one after it (reset_projection, build_snapshot).
THEOREM NoResetIsUndone == Spec => []SeatInv
<1>1. Spec => []SeatIInv
  BY SeatInductive
<1>2. SeatIInv => SeatInv
  BY SeatIInvIsEnough
<1> QED
  BY <1>1, <1>2, PTL

\* A seat is emptied only by a demotion that no promotion followed, as far as
\* the membership that filled it reached: a node that replays its log, or
\* learns of its promotion late, never stands down over an older demotion
\* (may_retire, stand_down).
THEOREM OnlyALaterDemotionRetires == Spec => RetiredByALaterDemotion
<1> DEFINE Retires ==
        seat /\ ~ seat' /\ bound' = bound =>
            \E j \in 1..Len(History) :
                History[j] = "out" /\ \A k \in j..role.seated_at : History[k] # "in"
<1>1. ASSUME SeatIInv, [Next]_vars PROVE [Retires]_vars
  <2>1. SUFFICES ASSUME seat, ~ seat', bound' = bound
                 PROVE  \E j \in 1..Len(History) :
                            History[j] = "out" /\ \A k \in j..role.seated_at : History[k] # "in"
    OBVIOUS
  <2>2. BoundOK /\ RangesOK /\ RoleOK /\ NamedOK /\ DataOK
    BY <1>1 DEF SeatIInv
  <2>3. ~ Restart
    <3>1. bound.crashes \in Nat
      BY <2>2 DEF BoundOK
    <3>2. [bound EXCEPT !.crashes = @ - 1].crashes # bound.crashes
      BY <2>2, <3>1 DEF BoundOK
    <3> QED
      BY <2>1, <3>2 DEF Restart
  <2>4. Vacate
    BY <1>1, <2>1, <2>3 DEF Next, vars, Follow, Orphans, Worker, Role, Enforcer, FollowFetch,
         FollowFold, FollowStore, AbortedFold, AbortedDrop, OrphanLands, WorkerApply, WorkerStore,
         WorkerAnnounceRaft, WorkerAnnounce, StartBuild, FinishBuild, TakeTheSeat,
         PreparePromotion, ResetProjection, SitDown, ResumeFollowing, EnforcerRead, EnforcerPublish
  <2>5. PICK c \in Nat, s \in Nat : c = watched /\ s = role.seated_at
    <3>1. watched \in Nat
      BY <2>2 DEF RangesOK, Within
    <3>2. role.seated_at \in Nat
      BY <2>2 DEF DataOK
    <3> QED
      BY <3>1, <3>2
  <2>6. c <= Len(History) /\ Len(History) \in Nat
    BY <2>2, <2>5, LogLength DEF RangesOK, Within
  <2>7. s <= c /\ ~ IsCore(c) /\ Named(s)
    BY <2>2, <2>4, <2>5 DEF Vacate, may_retire, NamedOK
  <2>8. /\ LastOf({"in", "out"}, c) \in 0..c
        /\ LastOf({"in", "out"}, c) # 0 => History[LastOf({"in", "out"}, c)] \in {"in", "out"}
        /\ \A k \in 1..c : History[k] \in {"in", "out"} => k <= LastOf({"in", "out"}, c)
    BY LastOfIsLast
  <2>9. PICK j \in 0..c : j = LastOf({"in", "out"}, c)
    BY <2>8
  <2>10. PICK k \in 1..s : History[k] \in {"in", "out"}
    BY <2>7 DEF Named
  <2>11. j # 0
    BY <2>7, <2>8, <2>9, <2>10
  <2>12. History[j] = "out"
    BY <2>7, <2>8, <2>9, <2>11 DEF IsCore
  <2>13. ASSUME NEW i \in j..s PROVE History[i] # "in"
    BY <2>7, <2>8, <2>9, <2>11, <2>12
  <2> QED
    BY <2>5, <2>6, <2>9, <2>11, <2>12, <2>13
<1>2. Spec => []SeatIInv
  BY SeatInductive
<1> QED
  BY <1>1, <1>2, PTL DEF Spec, RetiredByALaterDemotion

-----------------------------------------------------------------------------
(* The gate.                                                               *)

\* While the evictor has nothing to do, what the gate would not admit was
\* checked before the last pass, recorded since or not.
NotAdmitted ==
    ~ stirred =>
        \A c \in Conn :
            (conn[c].pc # "none" /\ ~ admits(conn[c].peer, conn[c].alpn)) => c \in missed

\* The allowlist is what is said to be enforced until it is replaced, and then
\* what is about to be said.
Follows ==
    /\ enforced.index <= got.index /\ got.index <= state.index
    /\ (pc # "telling" /\ enforced.index > 0) => allowlist \subseteq enforced.members
    /\ (pc = "telling" /\ got.index > 0) => allowlist = got.members

\* From its first round on the task has read the configuration, or will.
Excepts == (stirred \/ pc # "waiting") => ("raft" \in news \/ raft_peers = raft)

GateIInv == GateTypeOK /\ OpenIsTracked /\ NotAdmitted /\ Follows /\ Excepts

-----------------------------------------------------------------------------
(* Types.                                                                  *)

Conns == [pc : {"none", "admitted", "open"}, peer : Peer, alpn : Alpn]

LEMMA NoConnType == NoConn \in Conns /\ NoConn.pc = "none"
<1>1. (CHOOSE p \in Peer : TRUE) \in Peer
  BY GateAssumption
<1> QED
  BY <1>1 DEF NoConn, Conns, Alpn

LEMMA GenesisType ==
    /\ Genesis \subseteq Membership
    /\ \A m \in Genesis : m.index = 1 /\ m.members = Peer
    /\ Blank \in Membership
  BY GateAssumption DEF Genesis, Membership, Blank

\* What an entry makes of a membership is one, a position later.
LEMMA ChangedType ==
    ASSUME state \in Membership, NEW p \in Peer, NEW m \in Changed(p)
    PROVE  m \in Membership /\ m.index = state.index + 1
<1> DEFINE next == [state EXCEPT !.index = @ + 1]
           without == [next EXCEPT !.members = @ \ {p}]
<1>1. next \in Membership /\ next.index = state.index + 1
  BY DEF Membership
<1>2. without \in Membership /\ without.index = state.index + 1
  BY <1>1 DEF Membership
<1>3. ASSUME NEW r \in Membership, NEW a \in 0..MaxAddr
      PROVE  [r EXCEPT !.core[p] = a] \in Membership /\ [r EXCEPT !.core[p] = a].index = r.index
  <2>1. [r.core EXCEPT ![p] = a] \in [Peer -> 0..MaxAddr]
    BY DEF Membership
  <2>2. [r EXCEPT !.core = [r.core EXCEPT ![p] = a]] \in Membership
    BY <2>1 DEF Membership
  <2>3. [r EXCEPT !.core = [r.core EXCEPT ![p] = a]].index = r.index
    BY DEF Membership
  <2> QED
    BY <2>2, <2>3
<1>4. 0 \in 0..MaxAddr /\ 1..MaxAddr \subseteq 0..MaxAddr
  BY GateAssumption
<1>5. \/ m = [next EXCEPT !.members = @ \cup {p}]
      \/ m = [next EXCEPT !.members = @ \ {p}, !.core[p] = 0]
      \/ \E a \in 0..MaxAddr : m = [next EXCEPT !.core[p] = a]
  BY <1>4, Zenon DEF Changed
<1>6. CASE m = [next EXCEPT !.members = @ \cup {p}]
  <2> HIDE DEF next
  <2> QED
    BY <1>1, <1>6 DEF Membership
<1>7. CASE m = [next EXCEPT !.members = @ \ {p}, !.core[p] = 0]
  <2>1. m = [without EXCEPT !.core[p] = 0]
    <3> HIDE DEF next
    <3> QED
      BY <1>1, <1>7 DEF Membership
  <2> HIDE DEF without
  <2> QED
    BY <1>2, <1>3, <1>4, <2>1
<1>8. CASE \E a \in 0..MaxAddr : m = [next EXCEPT !.core[p] = a]
  <2> HIDE DEF next
  <2> QED
    BY <1>1, <1>3, <1>8
<1> QED
  BY <1>5, <1>6, <1>7, <1>8

-----------------------------------------------------------------------------
LEMMA InitGateIInv == GateInit => GateIInv
<1> SUFFICES ASSUME GateInit PROVE GateIInv
  OBVIOUS
<1> USE DEF GateInit
<1>1. state \in Membership
  BY GenesisType
<1>2. GateTypeOK
  <2>1. conn \in [Conn -> Conns]
    BY NoConnType
  <2>2. published \in [Peer -> 0..MaxAddr]
    BY GateAssumption
  <2>3. got \in Read /\ enforced \in Read
    BY <1>1 DEF Read, Membership
  <2>4. changes \in 0..MaxChanges
    BY GateAssumption
  <2>5. raft \subseteq Peer /\ raft_peers \subseteq Peer /\ allowlist \subseteq Peer
    BY GateAssumption
  <2> QED
    BY <1>1, <2>1, <2>2, <2>3, <2>4, <2>5, Zenon DEF GateTypeOK, Conns
<1>3. OpenIsTracked /\ NotAdmitted
  BY NoConnType DEF OpenIsTracked, NotAdmitted, Live
<1>4. Follows
  <2>1. state.index \in Nat
    BY <1>1 DEF Membership
  <2>2. state.index > 0 => state.members = Peer
    BY GenesisType DEF Blank
  <2> QED
    BY <2>1, <2>2, GateAssumption DEF Follows
<1>5. Excepts
  BY DEF Excepts
<1> QED
  BY <1>2, <1>3, <1>4, <1>5 DEF GateIInv
-----------------------------------------------------------------------------
(* One lemma per group of actions.                                         *)

\* What the log publishes disturbs only what is said of state, raft and news.
LEMMA PublishKeeps ==
    ASSUME GateIInv, Publish \/ Reconfigure
    PROVE  GateIInv'
<1>1. CASE Publish
  <2>1. state' \in Membership /\ state'.index >= state.index
    <3>1. state \in Membership /\ state.index \in Nat
      BY DEF GateIInv, GateTypeOK, Membership
    <3>2. CASE state.index = 0
      BY <1>1, <3>1, <3>2, GenesisType DEF Publish, Membership
    <3>3. CASE state.index # 0
      <4>1. PICK p \in Peer : state' \in Changed(p)
        BY <1>1, <3>3 DEF Publish
      <4> QED
        BY <3>1, <4>1, ChangedType
    <3> QED
      BY <3>2, <3>3
  <2>2. changes' \in 0..MaxChanges
    BY <1>1, GateAssumption DEF Publish, GateIInv, GateTypeOK
  <2>3. /\ news' = news \cup {"membership"}
        /\ UNCHANGED <<raft, taskVars, stirred, connVars>>
    BY <1>1 DEF Publish
  <2>4. GateTypeOK'
    BY <2>1, <2>2, <2>3 DEF GateIInv, GateTypeOK, taskVars, connVars
  <2>5. OpenIsTracked' /\ NotAdmitted' /\ Excepts'
    BY <2>3 DEF GateIInv, OpenIsTracked, NotAdmitted, Excepts, Live, admits, taskVars, connVars
  <2>6. Follows'
    BY <2>1, <2>3 DEF GateIInv, GateTypeOK, Follows, Membership, Read, taskVars
  <2> QED
    BY <2>4, <2>5, <2>6 DEF GateIInv
<1>2. CASE Reconfigure
  <2>1. /\ raft' \subseteq Peer /\ news' = news \cup {"raft"}
        /\ UNCHANGED <<state, taskVars, stirred, connVars>>
    BY <1>2 DEF Reconfigure
  <2>2. changes' \in 0..MaxChanges
    BY <1>2, GateAssumption DEF Reconfigure, GateIInv, GateTypeOK
  <2>3. GateTypeOK'
    BY <2>1, <2>2 DEF GateIInv, GateTypeOK, taskVars, connVars
  <2>4. OpenIsTracked' /\ NotAdmitted' /\ Excepts' /\ Follows'
    BY <2>1 DEF GateIInv, OpenIsTracked, NotAdmitted, Excepts, Follows, Live, admits, taskVars, connVars
  <2> QED
    BY <2>3, <2>4 DEF GateIInv
<1> QED
  BY <1>1, <1>2

\* follow_membership: only the steps that change what is admitted matter to the
\* connections, and each of them stirs the evictor.
LEMMA ReadKeeps ==
    ASSUME GateIInv, ReadMembership
    PROVE  GateIInv'
<1> USE DEF ReadMembership, Excepting
<1>1. UNCHANGED <<logVars, published, allowlist, enforced, connVars>>
  OBVIOUS
<1>2. GateTypeOK'
  BY <1>1 DEF GateIInv, GateTypeOK, Membership, Read, logVars, connVars
<1>3. OpenIsTracked'
  BY <1>1 DEF GateIInv, OpenIsTracked, Live, connVars
<1>4. NotAdmitted'
  BY <1>1 DEF GateIInv, GateTypeOK, NotAdmitted, admits, connVars
<1>5. Follows'
  BY <1>1 DEF GateIInv, GateTypeOK, Follows, Membership, Read, logVars
<1>6. Excepts'
  BY <1>1 DEF Excepts, logVars
<1> QED
  BY <1>2, <1>3, <1>4, <1>5, <1>6 DEF GateIInv

LEMMA LetGoKeeps ==
    ASSUME GateIInv, LetGoOfTheMoved
    PROVE  GateIInv'
<1> DEFINE held == {c \in tracked : conn[c].peer \in Moved}
<1>1. /\ pc = "moving" /\ pc' = "replacing"
      /\ conn' = [c \in Conn |-> IF c \in held THEN NoConn ELSE conn[c]]
      /\ cache' = cache \ held /\ missed' = missed \ held /\ tracked' = tracked \ held
      /\ published' = state.core
      /\ UNCHANGED <<logVars, got, allowlist, raft_peers, enforced, news, stirred>>
  BY DEF LetGoOfTheMoved, Ended
<1> HIDE DEF held
<1>2. conn' \in [Conn -> Conns]
  BY <1>1, NoConnType DEF GateIInv, GateTypeOK, Conns
<1>3. GateTypeOK'
  BY <1>1, <1>2 DEF GateIInv, GateTypeOK, Conns, Membership, logVars
<1>4. OpenIsTracked'
  BY <1>1, NoConnType DEF GateIInv, OpenIsTracked, Live
<1>5. NotAdmitted'
  BY <1>1, NoConnType DEF GateIInv, NotAdmitted, admits
<1>6. Follows' /\ Excepts'
  BY <1>1 DEF GateIInv, Follows, Excepts, logVars
<1> QED
  BY <1>3, <1>4, <1>5, <1>6 DEF GateIInv

LEMMA ReplaceAndTellKeep ==
    ASSUME GateIInv, Replace \/ TellEnforced
    PROVE  GateIInv'
<1>1. CASE Replace
  <2> USE <1>1 DEF Replace
  <2>1. GateTypeOK'
    BY DEF GateIInv, GateTypeOK, Read, logVars, connVars
  <2>2. OpenIsTracked' /\ NotAdmitted' /\ Follows' /\ Excepts'
    BY DEF GateIInv, OpenIsTracked, NotAdmitted, Follows, Excepts, Live, logVars, connVars
  <2> QED
    BY <2>1, <2>2 DEF GateIInv
<1>2. CASE TellEnforced
  <2> USE <1>2 DEF TellEnforced
  <2>1. GateTypeOK'
    BY DEF GateIInv, GateTypeOK, logVars, connVars
  <2>2. OpenIsTracked' /\ NotAdmitted'
    BY DEF GateIInv, OpenIsTracked, NotAdmitted, Live, admits, logVars, connVars
  <2>3. Follows' /\ Excepts'
    BY DEF GateIInv, GateTypeOK, Read, Membership, Follows, Excepts, logVars, connVars
  <2> QED
    BY <2>1, <2>2, <2>3 DEF GateIInv
<1> QED
  BY <1>1, <1>2

\* A pass leaves what is admitted, and what it could not see yet.
LEMMA EvictKeeps ==
    ASSUME GateIInv, EvictOnce
    PROVE  GateIInv'
<1> DEFINE out == {c \in tracked : ~ admits(conn[c].peer, conn[c].alpn)}
<1>1. /\ stirred /\ stirred' = FALSE
      /\ conn' = [c \in Conn |-> IF c \in out THEN NoConn ELSE conn[c]]
      /\ cache' = cache \ out /\ missed' = (missed \ out) \cup Checked /\ tracked' = tracked \ out
      /\ UNCHANGED <<logVars, taskVars, news>>
  BY DEF EvictOnce, EvictPass
<1>2. conn' \in [Conn -> Conns]
  BY <1>1, NoConnType DEF GateIInv, GateTypeOK, Conns
<1>3. GateTypeOK'
  BY <1>1, <1>2 DEF GateIInv, GateTypeOK, Conns, Checked, logVars, taskVars
<1>4. OpenIsTracked'
  BY <1>1, NoConnType DEF GateIInv, OpenIsTracked, Live
<1>5. NotAdmitted'
  <2> SUFFICES ASSUME NEW c \in Conn, conn'[c].pc # "none", ~ admits(conn[c].peer, conn[c].alpn)', c \notin Checked
               PROVE  FALSE
    BY <1>1 DEF NotAdmitted
  <2>1. c \notin out /\ conn'[c] = conn[c]
    BY <1>1, NoConnType
  <2>2. conn[c].pc = "open" /\ c \in tracked
    BY <2>1 DEF GateIInv, GateTypeOK, OpenIsTracked, Live, Checked
  <2>3. ~ admits(conn[c].peer, conn[c].alpn)
    BY <1>1, <2>1 DEF admits, taskVars
  <2> QED
    BY <2>1, <2>2, <2>3
<1>6. Follows' /\ Excepts'
  BY <1>1 DEF GateIInv, Follows, Excepts, logVars, taskVars
<1> QED
  BY <1>3, <1>4, <1>5, <1>6 DEF GateIInv

\* A handshake is checked against what is admitted now, recorded later; either
\* end may close it.
LEMMA ConnectionKeeps ==
    ASSUME GateIInv, NEW c \in Conn,
           \/ \E peer \in Peer, alpn \in Alpn : Dial(c, peer, alpn) \/ Incoming(c, peer, alpn)
           \/ Remember(c) \/ Ends(c) \/ Forget(c)
    PROVE  GateIInv'
<1>1. /\ Follows' /\ Excepts'
      /\ UNCHANGED <<logVars, taskVars, news, stirred>>
  <2>1. UNCHANGED <<logVars, taskVars, news, stirred>>
    BY DEF Dial, Incoming, Admitted, Remember, Remembered, Ends, Forget
  <2> QED
    BY <2>1 DEF GateIInv, Follows, Excepts, logVars, taskVars
<1>2. ASSUME NEW peer \in Peer, NEW alpn \in Alpn, Dial(c, peer, alpn) \/ Incoming(c, peer, alpn)
      PROVE  GateTypeOK' /\ OpenIsTracked' /\ NotAdmitted'
  <2>1. /\ admits(peer, alpn)
        /\ conn' = [conn EXCEPT ![c] = [pc |-> "admitted", peer |-> peer, alpn |-> alpn]]
        /\ cache' \subseteq cache \cup {c}
        /\ UNCHANGED <<tracked, missed>>
    BY <1>2 DEF Dial, Incoming, Admitted
  <2>2. GateTypeOK'
    BY <1>1, <2>1 DEF GateIInv, GateTypeOK, logVars, taskVars
  <2>3. OpenIsTracked'
    BY <2>1 DEF GateIInv, GateTypeOK, OpenIsTracked, Live
  <2>4. NotAdmitted'
    BY <1>1, <2>1 DEF GateIInv, GateTypeOK, NotAdmitted, admits, taskVars
  <2> QED
    BY <2>2, <2>3, <2>4
<1>3. CASE Remember(c)
  <2>1. /\ conn[c].pc = "admitted" /\ conn' = [conn EXCEPT ![c].pc = "open"]
        /\ tracked' = tracked \cup {c}
        /\ UNCHANGED <<cache, missed>>
    BY <1>3 DEF Remember, Remembered
  <2>2. \A d \in Conn : /\ conn'[d].peer = conn[d].peer /\ conn'[d].alpn = conn[d].alpn
                        /\ conn'[d].pc = IF d = c THEN "open" ELSE conn[d].pc
    BY <2>1 DEF GateIInv, GateTypeOK
  <2>3. GateTypeOK'
    BY <1>1, <2>1 DEF GateIInv, GateTypeOK, logVars, taskVars
  <2>4. OpenIsTracked'
    BY <2>1, <2>2 DEF GateIInv, OpenIsTracked, Live
  <2>5. NotAdmitted'
    BY <1>1, <2>1, <2>2 DEF GateIInv, NotAdmitted, admits, taskVars
  <2> QED
    BY <1>1, <2>3, <2>4, <2>5 DEF GateIInv
<1>4. CASE Ends(c)
  <2>1. /\ conn' = [d \in Conn |-> IF d \in {c} THEN NoConn ELSE conn[d]]
        /\ cache' = cache \ {c} /\ missed' = missed \ {c} /\ tracked' = tracked \ {c}
    BY <1>4 DEF Ends, Ended
  <2>2. conn' \in [Conn -> Conns]
    BY <2>1, NoConnType DEF GateIInv, GateTypeOK, Conns
  <2>3. GateTypeOK'
    BY <1>1, <2>1, <2>2 DEF GateIInv, GateTypeOK, Conns, logVars, taskVars
  <2>4. OpenIsTracked' /\ NotAdmitted'
    BY <1>1, <2>1, NoConnType DEF GateIInv, OpenIsTracked, NotAdmitted, Live, admits, taskVars
  <2> QED
    BY <1>1, <2>3, <2>4 DEF GateIInv
<1>5. CASE Forget(c)
  <2>1. cache' = cache \ {c} /\ UNCHANGED <<conn, tracked, missed>>
    BY <1>5 DEF Forget
  <2> QED
    BY <1>1, <2>1 DEF GateIInv, GateTypeOK, OpenIsTracked, NotAdmitted, Live, admits, logVars, taskVars
<1> QED
  BY <1>1, <1>2, <1>3, <1>4, <1>5 DEF GateIInv

LEMMA NextGateIInv == GateIInv /\ [GateNext]_gateVars => GateIInv'
<1> SUFFICES ASSUME GateIInv, [GateNext]_gateVars PROVE GateIInv'
  OBVIOUS
<1>1. CASE UNCHANGED gateVars
  BY <1>1 DEF GateIInv, GateTypeOK, OpenIsTracked, NotAdmitted, Follows, Excepts, Live, admits,
              gateVars, logVars, taskVars, connVars
<1>2. CASE GateNext
  BY <1>2, PublishKeeps, ReadKeeps, LetGoKeeps, ReplaceAndTellKeep, EvictKeeps, ConnectionKeeps
     DEF GateNext, FollowMembership
<1> QED
  BY <1>1, <1>2

LEMMA GateIInvariant == GateSpec => []GateIInv
BY InitGateIInv, NextGateIInv, PTL DEF GateSpec

-----------------------------------------------------------------------------
(* Theorems.                                                               *)

\* Every live connection is one an expulsion can find, and once the tasks are
\* done only a handshake that fell into the gap of after_handshake outlives the
\* expulsion of its peer - for any number of peers and connections.
THEOREM GateIsKept == GateSpec => []GateInv
<1>1. GateIInv => GateInv
  BY DEF GateIInv, GateInv, NotAdmitted, EvictedUnlessMissed, Quiet, Live
<1> QED
  BY <1>1, GateIInvariant, PTL

\* Whoever reads that a membership is enforced can rely on it
\* (follow_membership's "Only now").
THEOREM EnforcedIsEnforced == GateSpec => AdmittedIsEnforced
<1>1. GateIInv /\ [GateNext]_gateVars =>
        [enforced.index > 0 =>
          \A c \in Conn :
             (conn[c].pc = "none" /\ conn'[c].pc = "admitted" /\ conn'[c].alpn = "app")
                 => conn'[c].peer \in enforced.members \cup got.members]_gateVars
  <2> SUFFICES ASSUME GateIInv, GateNext, enforced.index > 0, NEW c \in Conn,
                      conn[c].pc = "none", conn'[c].pc = "admitted", conn'[c].alpn = "app"
               PROVE  conn'[c].peer \in enforced.members \cup got.members
    OBVIOUS
  <2>1. allowlist \subseteq enforced.members \cup got.members
    BY DEF GateIInv, GateTypeOK, Follows, Read, Membership
  <2>2. PICK d \in Conn, peer \in Peer, alpn \in Alpn : Dial(d, peer, alpn) \/ Incoming(d, peer, alpn)
    BY NoConnType DEF GateNext, Publish, Reconfigure, FollowMembership, ReadMembership, Excepting, LetGoOfTheMoved,
           Replace, TellEnforced, EvictOnce, EvictPass, Ended, Remember, Remembered, Ends, Forget, connVars,
           GateIInv, GateTypeOK
  <2>3. /\ admits(peer, alpn)
        /\ conn' = [conn EXCEPT ![d] = [pc |-> "admitted", peer |-> peer, alpn |-> alpn]]
    BY <2>2 DEF Dial, Incoming, Admitted
  <2>4. c = d /\ conn'[c].peer = peer /\ alpn = "app"
    BY <2>3 DEF GateIInv, GateTypeOK
  <2> QED
    BY <2>1, <2>3, <2>4 DEF admits
<1> QED
  BY <1>1, GateIInvariant, PTL DEF GateSpec, AdmittedIsEnforced

\* Everything open to a core node that moved is let go of, and nothing of a
\* peer Raft still needs is closed by an eviction.
THEOREM ClosesRightly == GateSpec => ClosesWhatItShould
<1>1. GateIInv /\ [GateNext]_gateVars =>
        [\A c \in Conn :
          LET p == conn[c].peer IN
          (Live(c) /\ published[p] # 0 /\ published'[p] \notin {0, published[p]})
              => conn'[c].pc = "none"]_gateVars
  <2> SUFFICES ASSUME GateIInv, GateNext, NEW c \in Conn, Live(c),
                      published[conn[c].peer] # 0,
                      published'[conn[c].peer] \notin {0, published[conn[c].peer]}
               PROVE  conn'[c].pc = "none"
    OBVIOUS
  <2>1. LetGoOfTheMoved
    BY DEF GateNext, Publish, Reconfigure, FollowMembership, ReadMembership, Excepting, Replace, TellEnforced,
           EvictOnce, EvictPass, Dial, Incoming, Admitted, Remember, Remembered, Ends, Forget, taskVars
  <2>2. c \in tracked /\ conn[c].peer \in Moved
    BY <2>1 DEF GateIInv, GateTypeOK, OpenIsTracked, LetGoOfTheMoved, Moved
  <2> QED
    BY <2>1, <2>2, NoConnType DEF LetGoOfTheMoved, Ended
<1>2. GateIInv /\ [GateNext]_gateVars =>
        [EvictOnce => \A c \in Conn :
          (Live(c) /\ conn[c].alpn = "raft" /\ conn[c].peer \in raft /\ "raft" \notin news)
              => Live(c)']_gateVars
  <2> SUFFICES ASSUME GateIInv, EvictOnce, NEW c \in Conn, Live(c),
                      conn[c].alpn = "raft", conn[c].peer \in raft, "raft" \notin news
               PROVE  Live(c)'
    OBVIOUS
  <2>1. raft_peers = raft
    BY DEF GateIInv, Excepts, EvictOnce, EvictPass
  <2> QED
    BY <2>1 DEF EvictOnce, EvictPass, admits, Live
<1> QED
  BY <1>1, <1>2, GateIInvariant, PTL DEF GateSpec, ClosesWhatItShould, MovedIsLetGo, RaftKeepsItsPeers
=============================================================================
