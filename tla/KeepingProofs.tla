----------------------------- MODULE KeepingProofs -----------------------------
(***************************************************************************)
(* Theorems about one node's keeping, for every set of items, files,       *)
(* members and memberships, any sizes and limit, and any interleaving of   *)
(* its work with restarts.                                                 *)
(***************************************************************************)
EXTENDS KeepingNode, FiniteSetTheorems, FunctionTheorems, SequenceTheorems, TLAPS

JobSteps ==
    ({"custody", "emergency"} \X {"start", "room", "evict", "fetch", "recheck", "set", "done"})
    \cup ({"download"} \X {"start", "room", "evict", "register", "tag", "fetch", "export", "recheck", "set", "done"})
    \cup ({"add"} \X {"start", "write", "own", "recheck", "set", "room", "evict", "done"})
    \cup ({"projection"} \X {"recheck", "set", "row"})

JobOK(j) ==
    /\ j \in Job /\ <<j.why, j.step>> \in JobSteps
    /\ j.left \subseteq j.files
    /\ j.step # "evict" => j.evict = {}
    /\ j.short => j.step \in {"evict", "done"}
    /\ j.result # "ok" => j.step = "done"
    /\ j.result = "noroom" => j.why = "custody" /\ j.short
    /\ j.why = "download" /\ j.step \in {"fetch", "export"} => j.left # {}
JobsOK ==
    /\ \A j \in jobs : JobOK(j)
    /\ \A j, k \in jobs : j.why = k.why /\ j.item = k.item => j = k
LockOK ==
    /\ making_room = {<<j.why, j.item>> : j \in {k \in jobs : k.step = "evict"}}
    /\ \A j, k \in jobs : j.step = "evict" /\ k.step = "evict" => j = k
CatalogueOK ==
    /\ catalogue \in [Item -> [files : SUBSET File, creators : SUBSET Node]]
    /\ unread \subseteq Item
    /\ files \in [Item -> SUBSET File] /\ creators \in [Item -> SUBSET Node]
    /\ \A item \in Item : files[item] \subseteq catalogue[item].files
    /\ \A item \in unread : catalogue[item].files # {}
    /\ \A j \in jobs : j.why = "projection" =>
          j.files # {} /\ files[j.item] \subseteq j.files /\ j.files \subseteq catalogue[j.item].files
KeepsOK ==
    /\ tags \subseteq Reason \X Item \X File
    /\ here \in [File -> {"absent", "partial", "complete"}]
    /\ held \subseteq Item
    /\ \A item \in Item : kept_for("custody", item) \subseteq files[item]
\* The members of a set, each once.
Lists(seq, S) ==
    /\ seq \in Seq(S)
    /\ \A x \in S : \E k \in DOMAIN seq : seq[k] = x
    /\ \A k, l \in DOMAIN seq : seq[k] = seq[l] => k = l
PinsOK ==
    /\ adopted # {}
    /\ pins \in [Item -> Pin]
    /\ losing \subseteq Item /\ letting_go \subseteq Item /\ wanted_again \subseteq Item /\ availability_changed \subseteq Item
    /\ \A one, other \in letting_go : one = other
    /\ losing \cap letting_go = {} /\ \A item \in losing \cup letting_go : pins[item] # "none"
    /\ Lists(queue, {item \in Item : pins[item] = "Queued"})
    /\ \A item \in Item : Busy("custody", item) => Fetching(item) /\ item \notin losing \cup letting_go
    /\ \A item \in Item \ (losing \cup letting_go) : Fetching(item) => Busy("custody", item)
    /\ Cardinality({item \in Item : Fetching(item)}) <= max_fetches
Change == [kind : {"recomputed", "mine", "not mine"}, items : SUBSET Item]
ChangesOK ==
    /\ changes \in Seq(Change)
    /\ \A k \in DOMAIN changes :
          /\ changes[k].kind = "recomputed" => changes[k].items = Item
          /\ \A item \in changes[k].items : changes[k].kind = "mine" => files[item] # {}
    /\ \A item \in Item : pins[item] # "none" => files[item] # {}
CopiesOK == EmergencyTypeOK
Call == [id : Nat, item : Item, to_take : Seq(Upload), guards : SUBSET Upload, step : {"take", "imported", "adding"}]
Request == [item : Item, uploads : Seq(Upload)]
CallsOK ==
    /\ calls \subseteq Call
    /\ "calls" \in DOMAIN left
    /\ left.calls \in Seq(Request)
ShapeIInv == JobsOK /\ LockOK /\ CatalogueOK /\ KeepsOK /\ PinsOK /\ ChangesOK /\ CopiesOK /\ CallsOK

\* Downloads and their tasks.
TasksOK ==
    /\ next_task \in Nat
    /\ DOMAIN registered \subseteq 1 .. next_task
    /\ DOMAIN told \subseteq 1 .. next_task /\ DOMAIN telling \subseteq 1 .. next_task
    /\ \A id \in DOMAIN registered :
          /\ id \in DOMAIN telling => registered[id] = telling[id]
          /\ id \in DOMAIN told => registered[id] = told[id]
    /\ \A id \in DOMAIN telling : telling[id] # "Running" /\ id \notin DOMAIN told
    /\ \A id \in DOMAIN told : told[id] # "Running"
    /\ \A id \in 1 .. next_task :
          id \in DOMAIN telling \cup DOMAIN told \/ (id \in DOMAIN registered /\ registered[id] = "Running")
    /\ \A j \in jobs : j.task # 0 =>
          j.why = "download" /\ j.task \in DOMAIN registered /\ registered[j.task] = "Running"
    /\ \A j \in jobs : j.why = "download" /\ j.step \in {"tag", "fetch", "export"} => j.task # 0
    /\ \A j, k \in jobs : j.task # 0 /\ j.task = k.task => j = k

Kept(item, f) == \E reason \in Reason : <<reason, item, f>> \in tags
AtRow(item, f) == \E j \in jobs : j.why = "projection" /\ j.step = "row" /\ j.item = item /\ f \in j.files
HeldWhole ==
    \A item \in held \ overtaken :
        /\ catalogue[item].files # {}
        /\ \A f \in File : f \in files[item] \/ AtRow(item, f) => here[f] = "complete" /\ Kept(item, f)
CacheKeeps ==
    \A item \in letting_go, f \in File : <<"custody", item, f>> \in tags => <<"cache", item, f>> \in tags
NoneWanted ==
    \A j \in jobs, item \in Item : item \in j.evict /\ kept_for("custody", item) # {} =>
        \E k \in jobs : k.why = "custody" /\ k.item = item /\ k.step = "room"
HeldOK == HeldWhole /\ CacheKeeps /\ NoneWanted

HasChanged(item) == lagged \/ Heard(item)
Known(item) == item \in wanted_again \cup unheard \/ HasChanged(item)
CustodyJobOK(j) ==
    /\ j.files # {}
    /\ \A f \in j.files : <<"custody", j.item, f>> \in tags
    /\ j.files # files[j.item] => Known(j.item)
    /\ (j.step # "done" \/ j.result = "ok") => \A f \in j.files : f \in j.left \/ here[f] = "complete"
    /\ (j.step \in {"recheck", "set"} \/ (j.step = "done" /\ j.result = "ok")) => j.left = {}
WholeOK ==
    /\ \A j \in jobs : j.why = "custody" /\ j.step # "start" => CustodyJobOK(j)
    /\ \A item \in Item \ (losing \cup letting_go \cup unheard) :
          pins[item] = "Kept" => KeptWhole(item) \/ HasChanged(item)

Planned == UNION {j.evict : j \in jobs}
Wanting(item) ==
    {f \in KeptBy(tags \ CacheTags(Evictable(item) \cup Planned)) :
        here[f] # "absent" \/ <<"custody", item, f>> \in tags}
NoRoomFor(item) == kept_for("custody", item) # {} /\ SizeOf(Wanting(item)) > limit
WaitsOK ==
    /\ \A item \in Item \ crossed : pins[item] = "WaitingForRoom" => NoRoomFor(item)
    /\ \A j \in jobs : j.why = "custody" /\ j.short /\ j.item \notin crossed => NoRoomFor(j.item)

HasRoom(j) == j.step \in {"register", "tag", "fetch", "export", "evict", "write", "own"}
Counted(some) == {f \in KeptBy(some) : here[f] # "absent"}
MakesRoom(j) ==
    /\ j.step = "evict" /\ ~ j.short => SizeOf(Counted(tags \ CacheTags(j.evict)) \cup j.files) <= limit
    /\ j.step \in {"register", "tag", "fetch", "export"} => SizeOf(Counted(tags) \cup j.files) <= limit
LimitOK ==
    \/ shared
    \/ /\ AddedOverTheLimit \/ Bytes(tags) <= limit
       /\ \A j, k \in jobs : HasRoom(j) /\ HasRoom(k) => j = k
       /\ \A j \in jobs : MakesRoom(j)
       /\ \A j \in jobs : j.step = "evict" /\ j.why \in {"add", "emergency"} => ~ j.short

KeepingIInv == ShapeIInv /\ TasksOK /\ HeldOK /\ WholeOK /\ WaitsOK /\ LimitOK

-----------------------------------------------------------------------------
(* Bytes.                                                                  *)

BytesIn(fs) == UNION {{f} \X (1 .. size[f]) : f \in fs}

LEMMA BytesInFinite ==
    ASSUME NEW fs \in SUBSET File
    PROVE  IsFiniteSet(BytesIn(fs))
<1> DEFINE T == {{f} \X (1 .. size[f]) : f \in fs}
           g == [f \in fs |-> {f} \X (1 .. size[f])]
<1>1. IsFiniteSet(fs)
  BY KeepingAssumption, FS_Subset
<1>2. g \in Surjection(fs, T)
  BY DEF Surjection
<1>3. IsFiniteSet(T)
  <2> HIDE DEF g, T
  <2> QED
    BY <1>1, <1>2, FS_Surjection
<1>4. \A X \in T : IsFiniteSet(X)
  <2> SUFFICES ASSUME NEW f \in fs PROVE IsFiniteSet({f} \X (1 .. size[f]))
    OBVIOUS
  <2>1. size[f] \in Nat
    BY KeepingAssumption
  <2>2. IsFiniteSet(1 .. size[f])
    BY <2>1, FS_Interval
  <2>3. IsFiniteSet({f})
    BY FS_Singleton
  <2> QED
    BY <2>2, <2>3, FS_Product
<1> HIDE DEF T
<1>5. IsFiniteSet(UNION T)
  BY <1>3, <1>4, FS_UNION
<1> QED
  BY <1>5 DEF T, BytesIn

LEMMA SizeIs ==
    ASSUME NEW fs \in SUBSET File
    PROVE  SizeOf(fs) = Cardinality(BytesIn(fs)) /\ SizeOf(fs) \in Nat
BY BytesInFinite, FS_CardinalityType DEF SizeOf, BytesIn

LEMMA SizeGrows ==
    ASSUME NEW few \in SUBSET File, NEW many \in SUBSET File, few \subseteq many
    PROVE  SizeOf(few) <= SizeOf(many)
<1>1. BytesIn(few) \in SUBSET BytesIn(many)
  BY DEF BytesIn
<1> QED
  BY <1>1, BytesInFinite, SizeIs, FS_Subset

LEMMA SizeAdds ==
    ASSUME NEW one \in SUBSET File, NEW other \in SUBSET File
    PROVE  /\ SizeOf(one \cup other) <= SizeOf(one) + SizeOf(other)
           /\ one \cap other = {} => SizeOf(one \cup other) = SizeOf(one) + SizeOf(other)
<1>1. BytesIn(one \cup other) = BytesIn(one) \cup BytesIn(other)
  BY DEF BytesIn
<1>2. IsFiniteSet(BytesIn(one) \cap BytesIn(other)) /\ Cardinality(BytesIn(one) \cap BytesIn(other)) \in Nat
  BY BytesInFinite, FS_Intersection, FS_CardinalityType
<1>3. Cardinality(BytesIn(one) \cup BytesIn(other)) =
        Cardinality(BytesIn(one)) + Cardinality(BytesIn(other)) - Cardinality(BytesIn(one) \cap BytesIn(other))
  BY BytesInFinite, FS_Union
<1>4. one \cap other = {} => BytesIn(one) \cap BytesIn(other) = {}
  BY DEF BytesIn
<1>5. Cardinality({}) = 0
  BY FS_EmptySet
<1>6. /\ SizeOf(one) = Cardinality(BytesIn(one)) /\ SizeOf(one) \in Nat
      /\ SizeOf(other) = Cardinality(BytesIn(other)) /\ SizeOf(other) \in Nat
  BY SizeIs
<1>7. SizeOf(one \cup other) = Cardinality(BytesIn(one \cup other))
  <2>1. one \cup other \in SUBSET File
    OBVIOUS
  <2> QED
    BY <2>1, SizeIs
<1>8. Cardinality(BytesIn(one) \cup BytesIn(other)) <= SizeOf(one) + SizeOf(other)
  BY <1>2, <1>3, <1>6
<1>9. ASSUME one \cap other = {} PROVE Cardinality(BytesIn(one) \cup BytesIn(other)) = SizeOf(one) + SizeOf(other)
  <2>1. Cardinality(BytesIn(one) \cap BytesIn(other)) = 0
    BY <1>4, <1>5, <1>9
  <2> QED
    BY <1>3, <1>6, <2>1
<1> QED
  BY <1>1, <1>7, <1>8, <1>9

-----------------------------------------------------------------------------
(* The queue.                                                              *)

LEMMA ListsHave ==
    ASSUME NEW S, NEW seq, Lists(seq, S)
    PROVE  {seq[k] : k \in DOMAIN seq} = S /\ Cardinality(S) = Len(seq)
<1>1. seq \in Bijection(1 .. Len(seq), S)
  <2>1. seq \in [1 .. Len(seq) -> S]
    BY DEF Lists
  <2>2. DOMAIN seq = 1 .. Len(seq)
    BY DEF Lists
  <2> QED
    BY <2>1, <2>2, Fun_IsBij DEF Lists
<1>2. IsFiniteSet(1 .. Len(seq)) /\ Cardinality(1 .. Len(seq)) = Len(seq)
  <2>1. Len(seq) \in Nat
    BY DEF Lists
  <2>2. 1 \in Int /\ Len(seq) \in Int
    BY <2>1
  <2>3. IsFiniteSet(1 .. Len(seq)) /\ Cardinality(1 .. Len(seq)) = IF 1 > Len(seq) THEN 0 ELSE Len(seq) - 1 + 1
    BY <2>2, FS_Interval
  <2> QED
    BY <2>1, <2>3
<1>3. Cardinality(S) = Len(seq)
  BY <1>1, <1>2, FS_Bijection DEF ExistsBijection
<1> QED
  BY <1>3 DEF Lists

LEMMA ListsNone == Lists(<<>>, {})
BY DEF Lists

LEMMA ListsWithout ==
    ASSUME NEW S, NEW seq, Lists(seq, S), NEW k \in DOMAIN seq
    PROVE  Lists(RemoveAt(seq, k), S \ {seq[k]})
<1> DEFINE n == Len(seq)
           rest == RemoveAt(seq, k)
<1>1. n \in Nat /\ DOMAIN seq = 1 .. n /\ k \in 1 .. n /\ \A l \in 1 .. n : seq[l] \in S
  BY DEF Lists
<1> DEFINE before == SubSeq(seq, 1, k - 1)
           after == SubSeq(seq, k + 1, n)
<1>2. before \in Seq(S) /\ Len(before) = k - 1 /\ \A l \in 1 .. k - 1 : before[l] = seq[l]
  <2>1. 1 \in Int /\ k - 1 \in Int /\ \A i \in 1 .. k - 1 : seq[i] \in S
    BY <1>1
  <2>2. /\ before \in Seq(S) /\ Len(before) = IF 1 <= k - 1 THEN k - 1 - 1 + 1 ELSE 0
        /\ \A i \in 1 .. k - 1 - 1 + 1 : before[i] = seq[1 + i - 1]
    BY <2>1, SubSeqProperties
  <2> QED
    BY <1>1, <2>2
<1>3. after \in Seq(S) /\ Len(after) = n - k /\ \A l \in 1 .. n - k : after[l] = seq[k + l]
  <2>1. k + 1 \in Int /\ n \in Int /\ \A i \in k + 1 .. n : seq[i] \in S
    BY <1>1
  <2> DEFINE first == k + 1
  <2> HIDE DEF first
  <2>2. /\ after \in Seq(S) /\ Len(after) = IF k + 1 <= n THEN n - (k + 1) + 1 ELSE 0
        /\ \A i \in 1 .. n - (k + 1) + 1 : after[i] = seq[k + 1 + i - 1]
    <3>1. /\ SubSeq(seq, first, n) \in Seq(S)
          /\ Len(SubSeq(seq, first, n)) = IF first <= n THEN n - first + 1 ELSE 0
          /\ \A i \in 1 .. n - first + 1 : SubSeq(seq, first, n)[i] = seq[first + i - 1]
      <4>1. first \in Int /\ n \in Int /\ \A i \in first .. n : seq[i] \in S
        BY <2>1 DEF first
      <4> HIDE DEF n
      <4> QED
        BY <4>1, SubSeqProperties
    <3> QED
      BY <3>1 DEF first
  <2>3. n - (k + 1) + 1 = n - k
    BY <1>1
  <2>4. \A l \in 1 .. n - k : k + 1 + l - 1 = k + l
    BY <1>1
  <2> QED
    BY <1>1, <2>2, <2>3, <2>4
<1>4. rest \in Seq(S) /\ Len(rest) = n - 1 /\ \A l \in 1 .. n - 1 : rest[l] = IF l < k THEN seq[l] ELSE seq[l + 1]
  <2>1. rest = before \o after
    BY DEF RemoveAt
  <2> HIDE DEF before, after, rest
  <2>2. /\ rest \in Seq(S) /\ Len(rest) = Len(before) + Len(after)
        /\ \A l \in 1 .. Len(before) + Len(after) :
              rest[l] = IF l <= Len(before) THEN before[l] ELSE after[l - Len(before)]
    BY <1>2, <1>3, <2>1, ConcatProperties
  <2>3. Len(before) + Len(after) = n - 1
    BY <1>1, <1>2, <1>3
  <2>4. ASSUME NEW l \in 1 .. n - 1 PROVE rest[l] = IF l < k THEN seq[l] ELSE seq[l + 1]
    <3>1. CASE l < k
      BY <1>1, <1>2, <2>2, <2>3, <3>1
    <3>2. CASE ~(l < k)
      <4>1. l - (k - 1) \in 1 .. n - k /\ k + (l - (k - 1)) = l + 1 /\ ~(l <= k - 1)
        BY <1>1, <3>2
      <4>2. rest[l] = after[l - (k - 1)]
        BY <1>2, <2>2, <2>3, <4>1
      <4> QED
        BY <1>3, <3>2, <4>1, <4>2
    <3> QED
      BY <3>1, <3>2
  <2> QED
    BY <2>2, <2>3, <2>4
<1> HIDE DEF rest
<1>5. ASSUME NEW l \in 1 .. n - 1 PROVE rest[l] \in S \ {seq[k]}
  <2>1. PICK m \in 1 .. n : rest[l] = seq[m] /\ m # k
    <3>1. CASE l < k
      BY <1>1, <1>4, <3>1
    <3>2. CASE ~(l < k)
      BY <1>1, <1>4, <3>2
    <3> QED
      BY <3>1, <3>2
  <2> QED
    BY <1>1, <2>1 DEF Lists
<1>6. DOMAIN rest = 1 .. n - 1 /\ rest \in Seq(S \ {seq[k]})
  BY <1>1, <1>4, <1>5
<1>7. ASSUME NEW x \in S \ {seq[k]} PROVE \E l \in DOMAIN rest : rest[l] = x
  <2>1. PICK l \in 1 .. n : seq[l] = x
    BY <1>1, <1>7 DEF Lists
  <2>2. CASE l < k
    <3>1. l \in 1 .. n - 1 /\ rest[l] = x
      BY <1>1, <1>4, <2>1, <2>2
    <3> QED
      BY <1>6, <3>1
  <2>3. CASE ~(l < k)
    <3>1. l - 1 \in 1 .. n - 1 /\ ~(l - 1 < k) /\ l - 1 + 1 = l
      BY <1>1, <1>7, <2>1, <2>3
    <3>2. rest[l - 1] = x
      BY <1>4, <2>1, <3>1
    <3> QED
      BY <1>6, <3>1, <3>2
  <2> QED
    BY <2>2, <2>3
<1>8. \A l, m \in DOMAIN rest : rest[l] = rest[m] => l = m
  <2> SUFFICES ASSUME NEW l \in 1 .. n - 1, NEW m \in 1 .. n - 1, rest[l] = rest[m] PROVE l = m
    BY <1>6
  <2> DEFINE at(i) == IF i < k THEN i ELSE i + 1
  <2>1. at(l) \in 1 .. n /\ at(m) \in 1 .. n /\ rest[l] = seq[at(l)] /\ rest[m] = seq[at(m)]
    BY <1>1, <1>4
  <2>2. at(l) = at(m)
    BY <1>1, <2>1 DEF Lists
  <2> QED
    BY <1>1, <2>2
<1> QED
  BY <1>6, <1>7, <1>8 DEF Lists, rest

LEMMA ListsMore ==
    ASSUME NEW S, NEW seq, Lists(seq, S), NEW T, NEW more, Lists(more, T), S \cap T = {}
    PROVE  Lists(seq \o more, S \cup T)
<1> DEFINE n == Len(seq)
           m == Len(more)
           all == seq \o more
<1>1. /\ n \in Nat /\ m \in Nat /\ DOMAIN seq = 1 .. n /\ DOMAIN more = 1 .. m
      /\ \A k \in 1 .. n : seq[k] \in S
      /\ \A k \in 1 .. m : more[k] \in T
  BY DEF Lists
<1>2. seq \in Seq(S \cup T) /\ more \in Seq(S \cup T)
  BY DEF Lists
<1>3. /\ all \in Seq(S \cup T) /\ DOMAIN all = 1 .. n + m
      /\ \A k \in 1 .. n + m : all[k] = IF k <= n THEN seq[k] ELSE more[k - n]
  BY <1>1, <1>2
<1>4. \A x \in S : \E k \in 1 .. n + m : all[k] = x
  <2> SUFFICES ASSUME NEW x \in S PROVE \E k \in 1 .. n + m : all[k] = x
    OBVIOUS
  <2>1. PICK k \in 1 .. n : seq[k] = x
    BY <1>1 DEF Lists
  <2>2. k \in 1 .. n + m /\ k <= n
    BY <1>1, <2>1
  <2> QED
    BY <1>3, <2>1, <2>2
<1>5. \A x \in T : \E k \in 1 .. n + m : all[k] = x
  <2> SUFFICES ASSUME NEW x \in T PROVE \E k \in 1 .. n + m : all[k] = x
    OBVIOUS
  <2>1. PICK k \in 1 .. m : more[k] = x
    BY <1>1 DEF Lists
  <2>2. k + n \in 1 .. n + m /\ ~(k + n <= n) /\ k + n - n = k
    BY <1>1, <2>1
  <2> QED
    BY <1>3, <2>1, <2>2
<1>6. \A k, l \in 1 .. n + m : all[k] = all[l] => k = l
  <2> SUFFICES ASSUME NEW k \in 1 .. n + m, NEW l \in 1 .. n + m, all[k] = all[l] PROVE k = l
    OBVIOUS
  <2>1. CASE k <= n /\ l <= n
    <3>1. k \in 1 .. n /\ l \in 1 .. n /\ seq[k] = seq[l]
      BY <1>1, <1>3, <2>1
    <3> QED
      BY <1>1, <3>1 DEF Lists
  <2>2. CASE ~(k <= n) /\ ~(l <= n)
    <3>1. k - n \in 1 .. m /\ l - n \in 1 .. m /\ more[k - n] = more[l - n]
      BY <1>1, <1>3, <2>2
    <3>2. k - n = l - n
      BY <1>1, <3>1 DEF Lists
    <3> QED
      BY <1>1, <3>2
  <2>3. CASE k <= n /\ ~(l <= n)
    <3>1. l - n \in 1 .. m
      BY <1>1, <2>3
    <3> QED
      BY <1>1, <1>3, <2>3, <3>1
  <2>4. CASE ~(k <= n) /\ l <= n
    <3>1. k - n \in 1 .. m
      BY <1>1, <2>4
    <3> QED
      BY <1>1, <1>3, <2>4, <3>1
  <2> QED
    BY <2>1, <2>2, <2>3, <2>4
<1> QED
  BY <1>3, <1>4, <1>5, <1>6 DEF Lists

LEMMA ListsOne == ASSUME NEW x PROVE Lists(<<x>>, {x})
BY DEF Lists

LEMMA ListsLast ==
    ASSUME NEW S, NEW seq, Lists(seq, S), NEW x, x \notin S
    PROVE  Lists(Append(seq, x), S \cup {x})
<1>1. Append(seq, x) = seq \o <<x>>
  BY DEF Lists
<1>2. Lists(<<x>>, {x}) /\ S \cap {x} = {}
  BY ListsOne
<1>3. Lists(seq \o <<x>>, S \cup {x})
  BY <1>2, ListsMore
<1> QED
  BY <1>1, <1>3

LEMMA ListsOrdered ==
    ASSUME NEW T, IsFiniteSet(T), NEW order \in SetToSeqs(T)
    PROVE  Lists(order, T)
<1> DEFINE D == 1 .. Cardinality(T)
<1>1. Cardinality(T) \in Nat
  BY FS_CardinalityType
<1>2. order \in [D -> T] /\ \A i, j \in D : i # j => order[i] # order[j]
  BY DEF SetToSeqs
<1>3. order \in Injection(D, T)
  BY <1>2, Fun_IsInj
<1>4. IsFiniteSet(D) /\ Cardinality(D) = Cardinality(T)
  BY <1>1, FS_Interval
<1>5. order \in Surjection(D, T)
  BY <1>3, <1>4, FS_Injection
<1>6. \A x \in T : \E k \in D : order[k] = x
  BY <1>5 DEF Surjection
<1>7. order \in Seq(T) /\ DOMAIN order = D
  BY <1>1, <1>2
<1> QED
  BY <1>2, <1>6, <1>7 DEF Lists

-----------------------------------------------------------------------------
(* A job goes on to its next step.                                         *)

\* What comes next, but for making room.
Leads(why, step, to) ==
    \/ step = "start" /\ to = "room" /\ why \in {"custody", "emergency", "download"}
    \/ step = "start" /\ to \in {"write", "done"} /\ why = "add"
    \/ step = "write" /\ to = "own" /\ why = "add"
    \/ step = "own" /\ to = "recheck" /\ why = "add"
    \/ step = "recheck" /\ to = "set"
    \/ step = "set" /\ to = IF why = "add" THEN "room" ELSE IF why = "projection" THEN "row" ELSE "done"
    \/ step = "fetch" /\ to \in {"fetch", "recheck", "done"} /\ why \in {"custody", "emergency"}
    \/ step = "fetch" /\ to \in {"fetch", "export", "done"} /\ why = "download"
    \/ step = "tag" /\ to \in {"fetch", "recheck"} /\ why = "download"
    \/ step = "export" /\ to \in {"tag", "done"} /\ why = "download"
Follows(j, next) ==
    Leads(j.why, j.step, next.step) /\ ~ next.short /\ (j.step # "start" => next.files = j.files)

Background == {"tag", "fetch", "export"}
Turns(j, next) ==
    /\ Goes(j, next) /\ JobOK(next)
    /\ next.why = j.why /\ next.item = j.item /\ next.task = j.task
    /\ j.why = "projection" => next.files = j.files
    /\ next.why = "download" /\ next.step \in Background => j.step \in Background

LEMMA TurnJobs ==
    ASSUME JobsOK, NEW j \in jobs, NEW next, Turns(j, next)
    PROVE  /\ JobsOK'
           /\ \A why, item : Busy(why, item)' <=> Busy(why, item)
<1>1. jobs' = (jobs \ {j}) \cup {next} /\ JobOK(next) /\ next.why = j.why /\ next.item = j.item
  BY DEF Turns, Goes
<1>2. \A k \in jobs' : JobOK(k)
  BY <1>1 DEF JobsOK
<1>3. \A k, l \in jobs' : k.why = l.why /\ k.item = l.item => k = l
  BY <1>1 DEF JobsOK
<1>4. \A why, item : (\E k \in jobs' : k.why = why /\ k.item = item) <=> (\E k \in jobs : k.why = why /\ k.item = item)
  BY <1>1
<1> QED
  BY <1>2, <1>3, <1>4 DEF JobsOK, JobOK, Busy

LEMMA TurnShape ==
    ASSUME JobsOK, PinsOK, ChangesOK, CopiesOK, CallsOK, NEW j \in jobs, NEW next, Turns(j, next),
           UNCHANGED <<files, pinVars, emergencyVars, uploadVars, left>>
    PROVE  JobsOK' /\ PinsOK' /\ ChangesOK' /\ CopiesOK' /\ CallsOK'
<1>1. JobsOK' /\ \A why, item : Busy(why, item)' <=> Busy(why, item)
  BY TurnJobs
<1>2. PinsOK'
  BY <1>1 DEF PinsOK, pinVars, Fetching
<1>3. ChangesOK'
  <2>1. changes' = changes /\ pins' = pins /\ files' = files
    BY DEF pinVars
  <2> QED
    BY <2>1, Zenon DEF ChangesOK
<1>5. CallsOK'
  BY DEF CallsOK, uploadVars
<1>4. CopiesOK'
  BY <1>1 DEF CopiesOK, EmergencyTypeOK, emergencyVars
<1> QED
  BY <1>1, <1>2, <1>3, <1>4, <1>5

LEMMA TurnCatalogue ==
    ASSUME CatalogueOK, NEW j \in jobs, NEW next, Turns(j, next), UNCHANGED <<catalogue, unread, files, creators>>
    PROVE  CatalogueOK'
BY DEF CatalogueOK, Turns, Goes

LEMMA TurnTasks ==
    ASSUME TasksOK, NEW j \in jobs, NEW next, Turns(j, next), UNCHANGED taskVars
    PROVE  TasksOK'
<1>1. jobs' = (jobs \ {j}) \cup {next} /\ next.why = j.why /\ next.task = j.task
      /\ (next.why = "download" /\ next.step \in Background => j.step \in Background)
  BY DEF Turns, Goes
<1> QED
  BY <1>1 DEF TasksOK, taskVars, Background

LEMMA TurnLock ==
    ASSUME LockOK, NEW j \in jobs, NEW next, Turns(j, next), j.step # "evict", next.step # "evict",
           making_room' = making_room
    PROVE  LockOK'
<1>1. jobs' = (jobs \ {j}) \cup {next}
  BY DEF Turns, Goes
<1>2. {k \in jobs' : k.step = "evict"} = {k \in jobs : k.step = "evict"}
  BY <1>1
<1> QED
  BY <1>1, <1>2 DEF LockOK

LEMMA EndTurns ==
    ASSUME JobsOK, NEW j \in jobs, NEW result \in {"ok", "noroom", "failed"}, Ends(j, result),
           j.why # "projection", result = "noroom" => j.why = "custody" /\ j.short
    PROVE  \E next : /\ Turns(j, next) /\ next.step = "done" /\ next.files = j.files
                     /\ next.short = j.short /\ next.result = result /\ next.left = {}
<1> DEFINE next == [j EXCEPT !.step = "done", !.result = result, !.left = {}, !.evict = {}]
<1>1. JobOK(j)
  BY DEF JobsOK
<1>2. next \in Job
  BY <1>1 DEF JobOK, Job
<1>3. /\ next.why = j.why /\ next.item = j.item /\ next.task = j.task /\ next.files = j.files /\ next.step = "done"
      /\ next.left = {} /\ next.evict = {} /\ next.result = result /\ next.short = j.short
  BY <1>1 DEF JobOK, Job
<1>4. <<j.why, "done">> \in JobSteps
  BY <1>1 DEF JobOK, Job, Why, JobSteps
<1>5. Goes(j, next)
  BY DEF Ends
<1> HIDE DEF next
<1>6. JobOK(next)
  BY <1>2, <1>3, <1>4 DEF JobOK
<1>7. Turns(j, next)
  BY <1>3, <1>5, <1>6 DEF Turns, Background
<1> QED
  BY <1>3, <1>7

LEMMA WorkTurns ==
    ASSUME JobsOK, CatalogueOK, NEW j \in jobs, Works(j), j.step \notin {"room", "evict"}
    PROVE  \E next : Turns(j, next) /\ next.step # "evict" /\ Follows(j, next)
<1> DEFINE Goal == \E next : Turns(j, next) /\ next.step # "evict" /\ Follows(j, next)
<1>1. JobOK(j) /\ j \in Job /\ j.item \in Item
  BY DEF JobsOK, JobOK, Job
<1>0. ~ j.short
  <2>1. j.step # "done"
    BY Zenon DEF Works, RechecksRead, RechecksSet, Plans, Evicts, KeepStarts, KeepFetches, DownloadStarts, DownloadTags,
       DownloadFetches, DownloadExports, AddChecks, AddWrites, AddKeeps
  <2> QED
    BY <1>1, <2>1 DEF JobOK
<1> SUFFICES Goal
  OBVIOUS
<1> HIDE DEF Goal
<1>2. ASSUME NEW result \in {"ok", "failed"}, Ends(j, result), j.why # "projection",
             Leads(j.why, j.step, "done")
      PROVE  Goal
  <2>1. PICK next : Turns(j, next) /\ next.step = "done" /\ next.files = j.files /\ next.short = j.short
    BY <1>2, EndTurns
  <2> QED
    BY <1>0, <1>2, <2>1 DEF Goal, Follows
<1>3. ASSUME NEW next, Goes(j, next), JobOK(next), next.why = j.why, next.item = j.item, next.task = j.task,
             j.why = "projection" => next.files = j.files, next.step # "evict",
             next.why = "download" /\ next.step \in Background => j.step \in Background,
             j.step # "start" => next.files = j.files, next.short = j.short, Leads(j.why, j.step, next.step)
      PROVE  Goal
  BY <1>0, <1>3 DEF Goal, Turns, Follows
<1>4. CASE RechecksRead(j)
  <2> DEFINE next == [j EXCEPT !.step = "set", !.seen = Whole(j.item, Rechecked(j))]
  <2>1. Goes(j, next)
    BY <1>4 DEF RechecksRead
  <2>2. Whole(j.item, Rechecked(j)) \in BOOLEAN
    BY DEF Whole
  <2>3. JobOK(next) /\ next.why = j.why /\ next.item = j.item /\ next.task = j.task /\ next.short = j.short /\ next.files = j.files /\ next.step = "set"
    BY <1>1, <1>4, <2>2 DEF RechecksRead, JobOK, Job, JobSteps
  <2> QED
    BY <1>3, <1>4, <2>1, <2>3 DEF Background, Leads, RechecksRead
<1>5. CASE RechecksSet(j)
  <2>1. CASE j.why = "add"
    <3> DEFINE next == [j EXCEPT !.step = "room"]
    <3>1. Goes(j, next)
      BY <1>5, <2>1 DEF RechecksSet
    <3>2. JobOK(next) /\ next.why = j.why /\ next.item = j.item /\ next.task = j.task /\ next.short = j.short /\ next.files = j.files /\ next.step = "room"
      BY <1>1, <1>5, <2>1 DEF RechecksSet, JobOK, Job, JobSteps
    <3> QED
      BY <1>3, <1>5, <2>1, <3>1, <3>2 DEF Background, Leads, RechecksSet
  <2>2. CASE j.why = "projection"
    <3> DEFINE next == [j EXCEPT !.step = "row"]
    <3>1. Goes(j, next)
      BY <1>5, <2>2 DEF RechecksSet
    <3>2. JobOK(next) /\ next.why = j.why /\ next.item = j.item /\ next.task = j.task /\ next.short = j.short /\ next.files = j.files /\ next.step = "row"
      BY <1>1, <1>5, <2>2 DEF RechecksSet, JobOK, Job, JobSteps
    <3> QED
      BY <1>3, <1>5, <2>2, <3>1, <3>2 DEF Background, Leads, RechecksSet
  <2>3. CASE j.why \notin {"add", "projection"}
    BY <1>2, <1>5, <2>3 DEF RechecksSet, Leads
  <2> QED
    BY <2>1, <2>2, <2>3
<1>6. CASE KeepStarts(j)
  <2> DEFINE next == [j EXCEPT !.step = "room", !.files = files[j.item], !.left = files[j.item]]
  <2>1. Goes(j, next)
    BY <1>6 DEF KeepStarts
  <2>2. files[j.item] \in SUBSET File
    BY <1>1 DEF CatalogueOK
  <2>3. /\ JobOK(next) /\ next.why = j.why /\ next.item = j.item /\ next.task = j.task /\ next.short = j.short /\ next.step = "room"
        /\ j.why # "projection"
    BY <1>1, <1>6, <2>2 DEF KeepStarts, JobOK, Job, JobSteps
  <2> QED
    BY <1>3, <1>6, <2>1, <2>3 DEF Background, Leads, KeepStarts
<1>7. CASE KeepFetches(j)
  <2>0. j.why \in {"custody", "emergency"} /\ j.step = "fetch"
    BY <1>7 DEF KeepFetches
  <2>1. CASE j.left = {}
    <3> DEFINE next == [j EXCEPT !.step = "recheck"]
    <3>1. Goes(j, next)
      BY <1>7, <2>1 DEF KeepFetches
    <3>2. JobOK(next) /\ next.why = j.why /\ next.item = j.item /\ next.task = j.task /\ next.files = j.files /\ next.short = j.short /\ next.step = "recheck"
      BY <1>1, <2>0 DEF JobOK, Job, JobSteps
    <3> QED
      BY <1>3, <2>0, <3>1, <3>2 DEF Background, Leads
  <2>2. ASSUME NEW f \in j.left, Goes(j, [j EXCEPT !.left = @ \ {f}]) PROVE Goal
    <3> DEFINE next == [j EXCEPT !.left = @ \ {f}]
    <3>1. JobOK(next) /\ next.why = j.why /\ next.item = j.item /\ next.task = j.task /\ next.files = j.files /\ next.short = j.short /\ next.step = "fetch"
      BY <1>1, <2>0 DEF JobOK, Job, JobSteps
    <3> QED
      BY <1>3, <2>0, <2>2, <3>1 DEF Background, Leads
  <2>3. CASE Ends(j, "failed")
    BY <1>2, <2>0, <2>3 DEF Leads
  <2> QED
    BY <1>7, <2>1, <2>2, <2>3 DEF KeepFetches
<1>8. CASE DownloadStarts(j)
  <2>0. j.why = "download" /\ j.step = "start"
    BY <1>8 DEF DownloadStarts
  <2>a. PICK wanted \in files_to_download(j.item) : \E missing \in targets_in(wanted) :
          Goes(j, [j EXCEPT !.step = "room", !.files = missing, !.left = missing])
    BY <1>8, Zenon DEF DownloadStarts
  <2>1. PICK missing \in targets_in(wanted) : Goes(j, [j EXCEPT !.step = "room", !.files = missing, !.left = missing])
    BY <2>a, Zenon
  <2>2. missing \in SUBSET File
    BY <1>1, <2>a, <2>1 DEF files_to_download, targets_in, CatalogueOK
  <2> DEFINE next == [j EXCEPT !.step = "room", !.files = missing, !.left = missing]
  <2>3. JobOK(next) /\ next.why = j.why /\ next.item = j.item /\ next.task = j.task /\ next.short = j.short /\ next.step = "room"
    BY <1>1, <2>0, <2>2 DEF JobOK, Job, JobSteps
  <2> QED
    BY <1>3, <2>0, <2>1, <2>3 DEF Background, Leads
<1>9. CASE DownloadTags(j)
  <2>0. j.why = "download" /\ j.step = "tag"
    BY <1>9 DEF DownloadTags
  <2>1. ASSUME NEW to \in {"recheck", "fetch"}, Goes(j, [j EXCEPT !.step = to]), to = "fetch" => j.left # {} PROVE Goal
    <3> DEFINE next == [j EXCEPT !.step = to]
    <3>1. JobOK(next) /\ next.why = j.why /\ next.item = j.item /\ next.task = j.task /\ next.files = j.files /\ next.short = j.short /\ next.step = to
      BY <1>1, <2>0, <2>1 DEF JobOK, Job, JobSteps
    <3> QED
      BY <1>3, <2>0, <2>1, <3>1 DEF Background, Leads
  <2> QED
    BY <1>9, <2>1 DEF DownloadTags
<1>10. CASE DownloadFetches(j)
  <2>0. j.why = "download" /\ j.step = "fetch"
    BY <1>10 DEF DownloadFetches
  <2>1. CASE Goes(j, [j EXCEPT !.step = "export"])
    <3> DEFINE next == [j EXCEPT !.step = "export"]
    <3>1. JobOK(next) /\ next.why = j.why /\ next.item = j.item /\ next.task = j.task /\ next.files = j.files /\ next.short = j.short /\ next.step = "export"
      BY <1>1, <2>0 DEF JobOK, Job, JobSteps
    <3> QED
      BY <1>3, <2>0, <2>1, <3>1 DEF Background, Leads
  <2>2. CASE Goes(j, [j EXCEPT !.spent = TRUE])
    <3> DEFINE next == [j EXCEPT !.spent = TRUE]
    <3>1. JobOK(next) /\ next.why = j.why /\ next.item = j.item /\ next.task = j.task /\ next.files = j.files /\ next.short = j.short /\ next.step = "fetch"
      BY <1>1, <2>0 DEF JobOK, Job, JobSteps
    <3> QED
      BY <1>3, <2>0, <2>2, <3>1 DEF Background, Leads
  <2>3. CASE Ends(j, "failed")
    BY <1>2, <2>0, <2>3 DEF Leads
  <2> QED
    BY <1>10, <2>1, <2>2, <2>3 DEF DownloadFetches, Refreshes
<1>11. CASE DownloadExports(j)
  <2>0. j.why = "download" /\ j.step = "export"
    BY <1>11 DEF DownloadExports
  <2>1. ASSUME NEW f, Goes(j, [j EXCEPT !.step = "tag", !.left = @ \ {f}]) PROVE Goal
    <3> DEFINE next == [j EXCEPT !.step = "tag", !.left = @ \ {f}]
    <3>1. JobOK(next) /\ next.why = j.why /\ next.item = j.item /\ next.task = j.task /\ next.files = j.files /\ next.short = j.short /\ next.step = "tag"
      BY <1>1, <2>0 DEF JobOK, Job, JobSteps
    <3> QED
      BY <1>3, <2>0, <2>1, <3>1 DEF Background, Leads
  <2>2. CASE Ends(j, "failed")
    BY <1>2, <2>0, <2>2 DEF Leads
  <2>3. (\E f : Goes(j, [j EXCEPT !.step = "tag", !.left = @ \ {f}])) \/ Ends(j, "failed")
    BY <1>11, Zenon DEF DownloadExports
  <2> QED
    BY <2>1, <2>2, <2>3, Zenon
<1>12. CASE AddChecks(j)
  <2>0. j.why = "add" /\ j.step = "start"
    BY <1>12 DEF AddChecks
  <2>1. CASE Goes(j, [j EXCEPT !.step = "write"])
    <3> DEFINE next == [j EXCEPT !.step = "write"]
    <3>1. JobOK(next) /\ next.why = j.why /\ next.item = j.item /\ next.task = j.task /\ next.files = j.files /\ next.short = j.short /\ next.step = "write"
      BY <1>1, <2>0 DEF JobOK, Job, JobSteps
    <3> QED
      BY <1>3, <2>0, <2>1, <3>1 DEF Background, Leads
  <2>2. CASE Ends(j, "failed")
    BY <1>2, <2>0, <2>2 DEF Leads
  <2> QED
    BY <1>12, <2>1, <2>2 DEF AddChecks
<1>13. CASE AddWrites(j) \/ AddKeeps(j)
  <2>0. j.why = "add" /\ j.step \in {"write", "own"}
    BY <1>13 DEF AddWrites, AddKeeps
  <2>1. PICK to \in {"own", "recheck"} : Goes(j, [j EXCEPT !.step = to]) /\ Leads(j.why, j.step, to)
    BY <1>13 DEF AddWrites, AddKeeps, Leads
  <2> DEFINE next == [j EXCEPT !.step = to]
  <2>2. JobOK(next) /\ next.why = j.why /\ next.item = j.item /\ next.task = j.task /\ next.files = j.files /\ next.short = j.short /\ next.step = to
    BY <1>1, <2>0 DEF JobOK, Job, JobSteps
  <2> QED
    BY <1>3, <2>0, <2>1, <2>2 DEF Background, Leads
<1>14. ~ Plans(j) /\ ~ Evicts(j)
  BY Zenon DEF Plans, Evicts
<1> QED
  BY <1>4, <1>5, <1>6, <1>7, <1>8, <1>9, <1>10, <1>11, <1>12, <1>13, <1>14 DEF Works, Goal

\* What a plan is.
PlansAs(j, next, items) ==
    /\ Turns(j, next) /\ next.step = "evict"
    /\ next.files = j.files /\ next.left = j.left /\ next.result = j.result
    /\ items \in evictions(j.item, uncounted_bytes(j.files)) /\ items \subseteq Evictable(j.item)
    /\ next.short = ~ Fits(items, uncounted_bytes(j.files))
    /\ next.evict = (IF next.short /\ j.why = "custody" THEN {} ELSE items)
    /\ shared' = (shared \/ Promised(j) \/ FreedYetWanted(j, items) \/ (next.short /\ j.why \in {"emergency", "add"}))

LEMMA PlanTurns ==
    ASSUME JobsOK, NEW j \in jobs, Plans(j)
    PROVE  \E next, items : PlansAs(j, next, items)
<1>1. JobOK(j) /\ j \in Job /\ j.item \in Item /\ j.step = "room"
  BY Zenon DEF JobsOK, JobOK, Job, Plans
<1>2. PICK items \in evictions(j.item, uncounted_bytes(j.files)) :
        \E short \in {~ Fits(items, uncounted_bytes(j.files))} :
          /\ Goes(j, [j EXCEPT !.step = "evict", !.short = short,
                               !.evict = IF short /\ j.why = "custody" THEN {} ELSE items])
          /\ shared' = \/ shared \/ Promised(j) \/ FreedYetWanted(j, items)
                       \/ short /\ j.why \in {"emergency", "add"}
  BY Zenon DEF Plans
<1> DEFINE short == ~ Fits(items, uncounted_bytes(j.files))
           next == [j EXCEPT !.step = "evict", !.short = short,
                               !.evict = IF short /\ j.why = "custody" THEN {} ELSE items]
<1>3. /\ Goes(j, next)
      /\ shared' = (shared \/ Promised(j) \/ FreedYetWanted(j, items) \/ (short /\ j.why \in {"emergency", "add"}))
  BY <1>2, Zenon
<1>4. items \subseteq Evictable(j.item) /\ items \subseteq Item
  BY <1>2 DEF evictions, Evictable
<1>5. short \in BOOLEAN
  OBVIOUS
<1> HIDE DEF short
<1>6. /\ next \in Job /\ next.why = j.why /\ next.item = j.item /\ next.task = j.task /\ next.files = j.files
      /\ next.step = "evict" /\ next.short = short /\ next.left = j.left /\ next.result = j.result
      /\ next.evict = IF short /\ j.why = "custody" THEN {} ELSE items
  BY <1>1, <1>4, <1>5 DEF Job
<1> HIDE DEF next
<1>7. j.why # "projection" /\ <<j.why, "evict">> \in JobSteps /\ j.result = "ok"
  BY <1>1 DEF JobOK, JobSteps
<1>8. JobOK(next)
  BY <1>1, <1>6, <1>7 DEF JobOK
<1>9. Turns(j, next)
  BY <1>3, <1>6, <1>7, <1>8 DEF Turns, Background
<1> QED
  BY <1>2, <1>3, <1>4, <1>6, <1>9, Zenon DEF PlansAs, short

\* Where a job goes once room is made, or is not.
LEMMA RoomTurns ==
    ASSUME JobsOK, NEW j \in jobs, Evicts(j)
    PROVE  \E next : /\ Turns(j, next) /\ next.files = j.files
                     /\ \/ next.step = "done" /\ next.result \in {"ok", "failed", "noroom"}
                           /\ (j.why = "custody" => next.result = "noroom")
                        \/ next.step = "register" /\ j.why = "download" /\ ~ j.short
                        \/ /\ next.step = "fetch" /\ next.left = j.left
                           /\ j.why = "emergency" \/ (j.why = "custody" /\ ~ j.short)
                     /\ next.short => j.short
<1>1. JobOK(j) /\ j \in Job /\ j.step = "evict" /\ AfterRoom(j)
  BY Zenon DEF JobsOK, JobOK, Evicts
<1>2. <<j.why, "evict">> \in JobSteps /\ j.why # "projection" /\ j.why \in Why
  BY <1>1 DEF JobOK, JobSteps, Why
<1>3. CASE \E result \in {"ok", "failed", "noroom"} :
              /\ Ends(j, result)
              /\ result = "noroom" => j.why = "custody" /\ j.short
              /\ j.why = "custody" => result = "noroom"
  <2>1. PICK result \in {"ok", "failed", "noroom"} :
              /\ Ends(j, result)
              /\ result = "noroom" => j.why = "custody" /\ j.short
              /\ j.why = "custody" => result = "noroom"
    BY <1>3
  <2> DEFINE next == [j EXCEPT !.step = "done", !.result = result, !.left = {}, !.evict = {}]
  <2>2. /\ next \in Job /\ next.why = j.why /\ next.item = j.item /\ next.task = j.task /\ next.files = j.files
        /\ next.step = "done" /\ next.left = {} /\ next.evict = {} /\ next.result = result /\ next.short = j.short
    BY <1>1, <2>1 DEF Job
  <2>3. Goes(j, next)
    BY <2>1 DEF Ends
  <2> HIDE DEF next
  <2>4. <<j.why, "done">> \in JobSteps
    BY <1>2 DEF JobSteps, Why
  <2>5. JobOK(next)
    BY <2>1, <2>2, <2>4 DEF JobOK
  <2> QED
    BY <1>2, <2>1, <2>2, <2>3, <2>5 DEF Turns, Background
<1>4. CASE j.why = "download" /\ ~ j.short /\ Goes(j, [j EXCEPT !.step = "register", !.evict = {}])
  <2> DEFINE next == [j EXCEPT !.step = "register", !.evict = {}]
  <2>1. /\ next \in Job /\ next.why = j.why /\ next.item = j.item /\ next.task = j.task /\ next.files = j.files
        /\ next.step = "register" /\ next.left = j.left /\ next.evict = {} /\ next.result = j.result /\ next.short = j.short
    BY <1>1 DEF Job
  <2>2. Goes(j, next)
    BY <1>4
  <2> HIDE DEF next
  <2>3. <<"download", "register">> \in JobSteps
    BY DEF JobSteps
  <2>4. JobOK(next)
    BY <1>1, <1>4, <2>1, <2>3 DEF JobOK
  <2> QED
    BY <1>2, <1>4, <2>1, <2>2, <2>4 DEF Turns, Background
<1>5. CASE /\ j.why = "emergency" \/ (j.why = "custody" /\ ~ j.short)
           /\ Goes(j, [j EXCEPT !.step = "fetch", !.evict = {}, !.short = FALSE])
  <2> DEFINE next == [j EXCEPT !.step = "fetch", !.evict = {}, !.short = FALSE]
  <2>1. /\ next \in Job /\ next.why = j.why /\ next.item = j.item /\ next.task = j.task /\ next.files = j.files
        /\ next.step = "fetch" /\ next.left = j.left /\ next.evict = {} /\ next.result = j.result /\ next.short = FALSE
    BY <1>1 DEF Job
  <2>2. Goes(j, next)
    BY <1>5
  <2> HIDE DEF next
  <2>3. {<<"custody", "fetch">>, <<"emergency", "fetch">>} \subseteq JobSteps
    BY DEF JobSteps
  <2>4. JobOK(next)
    BY <1>1, <1>5, <2>1, <2>3 DEF JobOK
  <2> QED
    BY <1>2, <1>5, <2>1, <2>2, <2>4 DEF Turns, Background
<1>6. CASE \/ j.why = "add" /\ Ends(j, "ok")
           \/ j.why = "download" /\ j.short /\ Ends(j, "failed")
           \/ j.why = "custody" /\ j.short /\ Ends(j, "noroom")
  <2>1. \E result \in {"ok", "failed", "noroom"} :
              /\ Ends(j, result)
              /\ result = "noroom" => j.why = "custody" /\ j.short
              /\ j.why = "custody" => result = "noroom"
    BY <1>6
  <2> QED
    BY <1>3, <2>1
<1> QED
  BY <1>1, <1>4, <1>5, <1>6, Zenon DEF AfterRoom

LEMMA PlanLock ==
    ASSUME LockOK, NEW j \in jobs, NEW next, Turns(j, next), next.step = "evict",
           making_room = {}, making_room' = {<<j.why, j.item>>}
    PROVE  LockOK'
<1>1. jobs' = (jobs \ {j}) \cup {next} /\ next.why = j.why /\ next.item = j.item
  BY DEF Turns, Goes
<1>2. \A k \in jobs : k.step # "evict"
  BY DEF LockOK
<1>3. {k \in jobs' : k.step = "evict"} = {next}
  BY <1>1, <1>2
<1> QED
  BY <1>1, <1>2, <1>3 DEF LockOK

LEMMA EvictLock ==
    ASSUME LockOK, NEW j \in jobs, NEW next, Turns(j, next), j.step = "evict", next.step # "evict", making_room' = {}
    PROVE  LockOK'
<1>1. jobs' = (jobs \ {j}) \cup {next}
  BY DEF Turns, Goes
<1>2. {k \in jobs' : k.step = "evict"} = {}
  BY <1>1 DEF LockOK
<1> QED
  BY <1>1, <1>2 DEF LockOK

LEMMA KeepsSame ==
    ASSUME KeepsOK, UNCHANGED <<tags, here, held, files>>
    PROVE  KeepsOK'
BY Zenon DEF KeepsOK, kept_for

LEMMA WorkKeeps ==
    ASSUME JobsOK, CatalogueOK, KeepsOK, NEW j \in jobs, Works(j), UNCHANGED <<files>>
    PROVE  KeepsOK'
<1>1. JobOK(j) /\ j \in Job /\ j.item \in Item /\ j.files \in SUBSET File /\ j.left \in SUBSET j.files
  BY DEF JobsOK, JobOK, Job
<1>2. ASSUME UNCHANGED <<tags, here, held>> PROVE KeepsOK'
  BY <1>2, KeepsSame
<1>3. ASSUME tags' \subseteq tags, UNCHANGED here, held' \subseteq held PROVE KeepsOK'
  BY <1>3 DEF KeepsOK, kept_for
<1>4. ASSUME NEW reason \in Reason, NEW fs \in SUBSET File, tags' = tags \cup {<<reason, j.item, f>> : f \in fs},
             reason = "custody" => fs \subseteq files[j.item], UNCHANGED <<here, held>>
      PROVE  KeepsOK'
  <2>1. tags' \subseteq Reason \X Item \X File
    BY <1>1, <1>4 DEF KeepsOK
  <2>2. \A item \in Item, f \in File : <<"custody", item, f>> \in tags' => f \in files[item]
    BY <1>1, <1>4 DEF KeepsOK, kept_for
  <2> QED
    BY <1>4, <2>1, <2>2 DEF KeepsOK, kept_for
<1>5. ASSUME here' \in [File -> {"absent", "partial", "complete"}], UNCHANGED <<tags, held>> PROVE KeepsOK'
  BY <1>5 DEF KeepsOK, kept_for
<1>6. CASE RechecksRead(j) \/ Plans(j) \/ DownloadStarts(j) \/ DownloadExports(j) \/ AddWrites(j)
  BY <1>2, <1>6, Zenon DEF RechecksRead, Plans, DownloadStarts, DownloadExports, AddWrites, keepVars
<1>7. CASE RechecksSet(j)
  <2>1. held' \subseteq Item
    BY <1>1, <1>7 DEF RechecksSet, KeepsOK
  <2> QED
    BY <1>7, <2>1 DEF RechecksSet, KeepsOK, kept_for
<1>8. CASE Evicts(j)
  <2>1. tags' \subseteq tags /\ held' \subseteq held /\ here' = here
    BY <1>8 DEF Evicts, evict
  <2> QED
    BY <1>3, <2>1
<1>9. CASE KeepStarts(j)
  <2>1. files[j.item] \in SUBSET File
    BY <1>1 DEF CatalogueOK
  <2>2. ReasonOf(j.why) \in Reason
    BY <1>1 DEF ReasonOf, Reason, Job, Why
  <2>3. tags' = tags \cup {<<ReasonOf(j.why), j.item, f>> : f \in files[j.item]} /\ here' = here /\ held' = held
    BY <1>9 DEF KeepStarts
  <2> QED
    BY <1>4, <2>1, <2>2, <2>3
<1>10. CASE KeepFetches(j)
  <2>1. here' = here \/ \E f \in j.left : here' = [here EXCEPT ![f] = "complete"] \/ here' = [here EXCEPT ![f] = "partial"]
    BY <1>10 DEF KeepFetches
  <2>2. here' \in [File -> {"absent", "partial", "complete"}]
    BY <1>1, <2>1 DEF KeepsOK
  <2> QED
    BY <1>5, <1>10, <2>2 DEF KeepFetches
<1>11. CASE DownloadTags(j)
  <2>1. CASE j.left = {}
    BY <1>2, <1>11, <2>1 DEF DownloadTags
  <2>2. CASE j.left # {}
    <3> DEFINE f == CHOOSE g \in j.left : TRUE
    <3>1. f \in j.left
      BY <2>2
    <3>2. tags' = tags \cup {<<"cache", j.item, f>>} /\ here' = here /\ held' = held
      BY <1>11, <2>2, Zenon DEF DownloadTags
    <3> HIDE DEF f
    <3>3. tags' = tags \cup {<<"cache", j.item, g>> : g \in {f}}
      BY <3>2
    <3>4. {f} \in SUBSET File /\ "cache" \in Reason
      BY <1>1, <3>1 DEF Reason
    <3> QED
      BY <1>4, <3>2, <3>3, <3>4
  <2> QED
    BY <2>1, <2>2
<1>12. CASE DownloadFetches(j)
  <2>1. here' = here \/ \E f : here' = [here EXCEPT ![f] = "complete"]
    BY <1>12, Zenon DEF DownloadFetches
  <2>2. here' \in [File -> {"absent", "partial", "complete"}]
    BY <2>1 DEF KeepsOK
  <2> QED
    BY <1>5, <1>12, <2>2 DEF DownloadFetches
<1>13. CASE AddChecks(j)
  <2>1. here' \in [File -> {"absent", "partial", "complete"}]
    BY <1>13 DEF AddChecks, KeepsOK
  <2> QED
    BY <1>5, <1>13, <2>1 DEF AddChecks
<1>14. CASE AddKeeps(j)
  <2>1. tags' = tags \cup {<<"own", j.item, f>> : f \in j.files} /\ here' = here /\ held' = held
    BY <1>14 DEF AddKeeps
  <2>2. "own" \in Reason
    BY DEF Reason
  <2> QED
    BY <1>1, <1>4, <2>1, <2>2
<1> QED
  BY <1>6, <1>7, <1>8, <1>9, <1>10, <1>11, <1>12, <1>13, <1>14, Zenon DEF Works

LEMMA WorkingShape ==
    ASSUME ShapeIInv, TasksOK, NEW j \in jobs, Works(j), UNCHANGED <<pinVars, emergencyVars, apiVars, left>>
    PROVE  ShapeIInv' /\ TasksOK'
<1> USE DEF ShapeIInv
<1>1. files' = files /\ creators' = creators
  BY Zenon DEF Works, RechecksRead, RechecksSet, Plans, Evicts, KeepStarts, KeepFetches, DownloadStarts, DownloadTags,
     DownloadFetches, DownloadExports, AddChecks, AddWrites, AddKeeps, worldVars
<1>2. KeepsOK'
  BY <1>1, WorkKeeps
<1>3. PICK next : Turns(j, next) /\ LockOK'
  <2>1. CASE Plans(j)
    <3>1. PICK next, items : PlansAs(j, next, items)
      BY <2>1, PlanTurns
    <3>2. making_room = {} /\ making_room' = {<<j.why, j.item>>}
      BY <2>1, Zenon DEF Plans
    <3> QED
      BY <3>1, <3>2, PlanLock DEF PlansAs
  <2>2. CASE Evicts(j)
    <3>1. PICK next : Turns(j, next) /\ next.step # "evict"
      BY <2>2, RoomTurns
    <3>2. making_room' = {} /\ j.step = "evict"
      BY <2>2, Zenon DEF Evicts
    <3> QED
      BY <3>1, <3>2, EvictLock
  <2>3. CASE ~ Plans(j) /\ ~ Evicts(j)
    <3>1. j.step \notin {"room", "evict"} /\ making_room' = making_room
      BY <2>3, Zenon DEF Works, RechecksRead, RechecksSet, KeepStarts, KeepFetches, DownloadStarts, DownloadTags,
         DownloadFetches, DownloadExports, AddChecks, AddWrites, AddKeeps, keepVars
    <3>2. PICK next : Turns(j, next) /\ next.step # "evict"
      BY <3>1, WorkTurns
    <3> QED
      BY <3>1, <3>2, TurnLock
  <2> QED
    BY <2>1, <2>2, <2>3
<1>4. JobsOK' /\ PinsOK' /\ ChangesOK' /\ CopiesOK' /\ CallsOK'
  <2>1. UNCHANGED <<files, pinVars, emergencyVars, uploadVars, left>>
    BY <1>1 DEF apiVars
  <2> QED
    BY <1>3, <2>1, TurnShape
<1>5. TasksOK'
  <2>1. UNCHANGED taskVars
    BY DEF apiVars
  <2> QED
    BY <1>3, <2>1, TurnTasks
<1>6. CatalogueOK'
  <2>1. CASE UNCHANGED <<catalogue, unread>>
    BY <1>1, <1>3, <2>1, TurnCatalogue
  <2>2. CASE ~ UNCHANGED <<catalogue, unread>>
    <3>1. AddWrites(j)
      BY <2>2, Zenon DEF Works, RechecksRead, RechecksSet, Plans, Evicts, KeepStarts, KeepFetches, DownloadStarts, DownloadTags,
         DownloadFetches, DownloadExports, AddChecks, AddKeeps, worldVars
    <3>2. Enters(j.item, j.files, me)
      BY <2>2, <3>1 DEF AddWrites
    <3>3. j.item \in Item /\ j.files \in SUBSET File /\ me \in Node /\ j.files # {}
      <4>1. j.item \in Item /\ j.files \in SUBSET File
        BY DEF JobsOK, JobOK, Job
      <4>2. ~(j.files \subseteq catalogue[j.item].files)
        BY <2>2, <3>1 DEF AddWrites
      <4> QED
        BY <4>1, <4>2, KeepingAssumption
    <3>4. /\ catalogue' \in [Item -> [files : SUBSET File, creators : SUBSET Node]]
          /\ \A item \in Item : catalogue[item].files \subseteq catalogue'[item].files
          /\ catalogue'[j.item].files # {}
          /\ unread' = unread \cup {j.item}
      BY <3>2, <3>3 DEF Enters, CatalogueOK
    <3>5. jobs' = (jobs \ {j}) \cup {next} /\ next.why = j.why /\ j.why = "add"
      BY <1>3, <3>1 DEF Turns, Goes, AddWrites
    <3>6. \A item \in Item : files[item] \subseteq catalogue'[item].files
      BY <3>4 DEF CatalogueOK
    <3>7. unread' \subseteq Item /\ \A item \in unread' : catalogue'[item].files # {}
      BY <3>3, <3>4 DEF CatalogueOK
    <3>8. ASSUME NEW k \in jobs', k.why = "projection"
          PROVE  k.files # {} /\ files[k.item] \subseteq k.files /\ k.files \subseteq catalogue'[k.item].files
      <4>1. k \in jobs /\ k.item \in Item
        BY <3>5, <3>8 DEF JobsOK, JobOK, Job
      <4> QED
        BY <3>4, <3>8, <4>1 DEF CatalogueOK
    <3> QED
      BY <1>1, <3>4, <3>6, <3>7, <3>8 DEF CatalogueOK
  <2> QED
    BY <2>1, <2>2
<1> QED
  BY <1>2, <1>3, <1>4, <1>5, <1>6

-----------------------------------------------------------------------------
(* Jobs begun, and jobs over.                                              *)

LEMMA BegunJobs ==
    ASSUME JobsOK, LockOK, NEW new, JobOK(new), new.step # "evict", ~ Busy(new.why, new.item),
           jobs' = jobs \cup {new}, making_room' = making_room
    PROVE  /\ JobsOK' /\ LockOK'
           /\ \A why, item : Busy(why, item)' <=> (Busy(why, item) \/ (why = new.why /\ item = new.item))
<1>1. JobsOK'
  BY DEF JobsOK, Busy, JobOK
<1>2. {k \in jobs' : k.step = "evict"} = {k \in jobs : k.step = "evict"}
  OBVIOUS
<1>3. LockOK'
  BY <1>2 DEF LockOK
<1> QED
  BY <1>1, <1>3 DEF Busy

LEMMA OverJobs ==
    ASSUME JobsOK, LockOK, NEW j \in jobs, j.step # "evict", jobs' = jobs \ {j}, making_room' = making_room
    PROVE  /\ JobsOK' /\ LockOK'
           /\ \A why, item : Busy(why, item)' <=> (Busy(why, item) /\ ~(why = j.why /\ item = j.item))
<1>1. JobsOK'
  BY DEF JobsOK, JobOK
<1>2. {k \in jobs' : k.step = "evict"} = {k \in jobs : k.step = "evict"}
  OBVIOUS
<1>3. LockOK'
  BY <1>2 DEF LockOK
<1> QED
  BY <1>1, <1>3 DEF Busy, JobsOK

IsNew(new, why, item, step, fs) ==
    /\ JobOK(new) /\ new.why = why /\ new.item = item /\ new.files = fs /\ new.step = step
    /\ new.task = 0 /\ new.evict = {} /\ ~ new.short /\ new.result = "ok" /\ new.left = {}

LEMMA NewJobs ==
    ASSUME NEW why \in Why, NEW item \in Item, NEW step, NEW fs \in SUBSET File, NEW authors \in SUBSET Node,
           <<why, step>> \in JobSteps, step \in {"start", "recheck"}
    PROVE  IsNew(NewJobOf(why, item, step, fs, authors), why, item, step, fs)
<1> DEFINE new == NewJobOf(why, item, step, fs, authors)
<1>1. new = [why |-> why, item |-> item, task |-> 0, files |-> fs, left |-> {}, evict |-> {}, step |-> step,
             creators |-> authors, short |-> FALSE, seen |-> FALSE, spent |-> FALSE, result |-> "ok"]
  BY DEF NewJobOf
<1>2. step \in {"start", "write", "own", "room", "evict", "register", "tag", "fetch", "export", "recheck",
                "set", "row", "done"}
  BY DEF JobSteps
<1> HIDE DEF new
<1>3. new \in Job
  BY <1>1, <1>2, SMTT(30) DEF Job
<1>4. /\ new.why = why /\ new.item = item /\ new.files = fs /\ new.step = step
      /\ new.task = 0 /\ new.evict = {} /\ new.short = FALSE /\ new.result = "ok" /\ new.left = {}
  BY <1>1
<1>5. JobOK(new) /\ ~ new.short
  BY <1>3, <1>4 DEF JobOK
<1> QED
  BY <1>4, <1>5 DEF new, IsNew

LEMMA TasksLess ==
    ASSUME TasksOK, jobs' \subseteq jobs, UNCHANGED taskVars
    PROVE  TasksOK'
BY DEF TasksOK, taskVars

LEMMA TasksMore ==
    ASSUME TasksOK, NEW S, jobs' = jobs \cup S, \A new \in S : new.task = 0 /\ ~(new.why = "download" /\ new.step \in Background),
           UNCHANGED taskVars
    PROVE  TasksOK'
BY DEF TasksOK, taskVars, Background

LEMMA CatalogueLess ==
    ASSUME CatalogueOK, jobs' \subseteq jobs, UNCHANGED <<catalogue, unread, files, creators>>
    PROVE  CatalogueOK'
BY DEF CatalogueOK

LEMMA CatalogueMore ==
    ASSUME CatalogueOK, NEW S, jobs' = jobs \cup S, \A new \in S : new.why # "projection",
           UNCHANGED <<catalogue, unread, files, creators>>
    PROVE  CatalogueOK'
BY DEF CatalogueOK

-----------------------------------------------------------------------------
(* The pin manager's steps keep the shape.                                 *)

LEMMA FrameShape ==
    ASSUME ShapeIInv, TasksOK,
           UNCHANGED <<catalogue, unread, files, creators, tags, here, held, making_room, jobs, alone, ripe, taskVars>>
    PROVE  JobsOK' /\ LockOK' /\ CatalogueOK' /\ KeepsOK' /\ CopiesOK' /\ TasksOK'
<1> USE DEF ShapeIInv
<1>1. JobsOK' /\ LockOK'
  BY DEF JobsOK, JobOK, LockOK
<1>2. CatalogueOK'
  BY DEF CatalogueOK
<1>3. KeepsOK'
  BY KeepsSame
<1>4. CopiesOK'
  BY DEF CopiesOK, EmergencyTypeOK, Busy
<1>5. TasksOK'
  BY DEF TasksOK, taskVars
<1> QED
  BY <1>1, <1>2, <1>3, <1>4, <1>5

LEMMA CallsSame ==
    ASSUME CallsOK, calls' = calls, left' = left \/ \E what : what # "calls" /\ left' = [left EXCEPT ![what] = @ - 1]
    PROVE  CallsOK'
BY DEF CallsOK

LEMMA BegunShape ==
    ASSUME ShapeIInv, TasksOK, NEW new, JobOK(new), new.step # "evict", new.task = 0, new.why # "projection",
           ~ Busy(new.why, new.item), new.step \notin Background, jobs' = jobs \cup {new},
           UNCHANGED <<catalogue, unread, files, creators, tags, here, held, making_room, taskVars>>
    PROVE  /\ JobsOK' /\ LockOK' /\ CatalogueOK' /\ KeepsOK' /\ TasksOK'
           /\ \A why, item : Busy(why, item)' <=> (Busy(why, item) \/ (why = new.why /\ item = new.item))
<1> USE DEF ShapeIInv
<1>1. /\ JobsOK' /\ LockOK'
      /\ \A why, item : Busy(why, item)' <=> (Busy(why, item) \/ (why = new.why /\ item = new.item))
  BY BegunJobs
<1>2. CatalogueOK'
  <2> DEFINE S == {new}
  <2>1. jobs' = jobs \cup S /\ \A k \in S : k.why # "projection"
    OBVIOUS
  <2> HIDE DEF S
  <2> QED
    BY <2>1, CatalogueMore
<1>3. KeepsOK'
  BY KeepsSame
<1>4. TasksOK'
  <2> DEFINE S == {new}
  <2>1. jobs' = jobs \cup S /\ \A k \in S : k.task = 0 /\ ~(k.why = "download" /\ k.step \in Background)
    OBVIOUS
  <2> HIDE DEF S
  <2> QED
    BY <2>1, TasksMore
<1> QED
  BY <1>1, <1>2, <1>3, <1>4

LEMMA OverShape ==
    ASSUME ShapeIInv, NEW j \in jobs, j.step # "evict", jobs' = jobs \ {j},
           UNCHANGED <<catalogue, unread, files, creators, tags, here, held, making_room>>
    PROVE  /\ JobsOK' /\ LockOK' /\ CatalogueOK' /\ KeepsOK'
           /\ \A why, item : Busy(why, item)' <=> (Busy(why, item) /\ ~(why = j.why /\ item = j.item))
<1> USE DEF ShapeIInv
<1>1. /\ JobsOK' /\ LockOK'
      /\ \A why, item : Busy(why, item)' <=> (Busy(why, item) /\ ~(why = j.why /\ item = j.item))
  BY OverJobs
<1>2. CatalogueOK'
  BY CatalogueLess
<1>3. KeepsOK'
  BY KeepsSame
<1> QED
  BY <1>1, <1>2, <1>3

FetchingItems == {item \in Item : pins[item] = "Fetching"}
QueuedItems == {item \in Item : pins[item] = "Queued"}

\* No more are fetched when none is begun.
LEMMA FetchingFewer ==
    ASSUME PinsOK, FetchingItems' \subseteq FetchingItems
    PROVE  Cardinality(FetchingItems') <= max_fetches
<1>1. IsFiniteSet(FetchingItems)
  <2>1. FetchingItems \in SUBSET Item /\ IsFiniteSet(Item)
    BY KeepingNodeAssumption DEF FetchingItems
  <2> QED
    BY <2>1, FS_Subset
<1>2. Cardinality(FetchingItems') <= Cardinality(FetchingItems) /\ Cardinality(FetchingItems') \in Nat
  BY <1>1, FS_Subset, FS_CardinalityType
<1>3. Cardinality(FetchingItems) <= max_fetches /\ Cardinality(FetchingItems) \in Nat /\ max_fetches \in Nat
  BY <1>1, FS_CardinalityType, PinsAssumption DEF PinsOK, FetchingItems, Fetching
<1> HIDE DEF FetchingItems
<1> QED
  BY <1>2, <1>3

LEMMA WantedPins ==
    ASSUME PinsOK, NEW items \in SUBSET Item, Wanted(items)
    PROVE  /\ pins' \in [Item -> Pin] /\ Lists(queue', QueuedItems') /\ wanted_again' \subseteq Item
           /\ FetchingItems' = FetchingItems
           /\ \A item \in Item : /\ pins[item] # "none" => pins'[item] # "none"
                                 /\ pins'[item] # "none" => pins[item] # "none" \/ item \in items
<1> DEFINE new == {item \in items : pins[item] \notin {"Queued", "Fetching"}}
<1>1. pins' = [item \in Item |-> IF item \in items /\ pins[item] # "Fetching" THEN "Queued" ELSE pins[item]]
  BY DEF Wanted
<1>2. PICK order \in SetToSeqs(new) : queue' = queue \o order
  BY Zenon DEF Wanted
<1>3. pins' \in [Item -> Pin]
  BY <1>1 DEF PinsOK, Pin
<1>4. IsFiniteSet(new)
  <2>1. new \in SUBSET Item
    OBVIOUS
  <2> QED
    BY <2>1, KeepingNodeAssumption, FS_Subset
<1>5. Lists(order, new)
  BY <1>2, <1>4, ListsOrdered
<1>6. Lists(queue, QueuedItems) /\ QueuedItems \cap new = {}
  BY DEF PinsOK, QueuedItems
<1>7. Lists(queue \o order, QueuedItems \cup new)
  <2> HIDE DEF new, QueuedItems
  <2> QED
    BY <1>5, <1>6, ListsMore
<1>8. QueuedItems' = QueuedItems \cup new
  <2>1. \A item \in Item : pins'[item] = "Queued" <=> (pins[item] = "Queued" \/ item \in new)
    BY <1>1
  <2> QED
    BY <2>1 DEF QueuedItems
<1>9. FetchingItems' = FetchingItems
  BY <1>1 DEF FetchingItems
<1>10. wanted_again' \subseteq Item
  BY DEF Wanted, PinsOK
<1> QED
  BY <1>1, <1>2, <1>3, <1>7, <1>8, <1>9, <1>10

LEMMA UnqueuedLists ==
    ASSUME PinsOK, NEW item \in Item
    PROVE  Lists(Unqueued(item), QueuedItems \ {item})
<1>1. Lists(queue, QueuedItems)
  BY DEF PinsOK, QueuedItems
<1>2. CASE \E k \in DOMAIN queue : queue[k] = item
  <2> DEFINE at == CHOOSE k \in DOMAIN queue : queue[k] = item
  <2>1. at \in DOMAIN queue /\ queue[at] = item
    BY <1>2
  <2>2. Unqueued(item) = RemoveAt(queue, at)
    BY <1>2 DEF Unqueued
  <2> HIDE DEF at
  <2> QED
    BY <1>1, <2>1, <2>2, ListsWithout
<1>3. CASE ~ \E k \in DOMAIN queue : queue[k] = item
  <2>1. item \notin QueuedItems
    BY <1>1, <1>3 DEF Lists
  <2>2. Unqueued(item) = queue
    BY <1>3 DEF Unqueued
  <2>3. QueuedItems \ {item} = QueuedItems
    BY <2>1
  <2> QED
    BY <1>1, <2>2, <2>3
<1> QED
  BY <1>2, <1>3

StartShape(k) ==
    /\ k \in DOMAIN queue
    /\ losing = {} /\ letting_go = {} /\ CanStart
    /\ pins' = [pins EXCEPT ![queue[k]] = "Fetching"]
    /\ queue' = RemoveAt(queue, k)
    /\ wanted_again' = wanted_again \ {queue[k]}
    /\ availability_changed' = availability_changed \ {queue[k]}
    /\ jobs' = jobs \cup {NewJob("custody", queue[k], "start")}
    /\ unheard' = unheard \ {queue[k]}
    /\ UNCHANGED <<worldVars, keepVars, adopted, changes, lagged, losing, letting_go, look,
                   upgrade_required, crossed>>

LEMMA start_fetchesShape ==
    ASSUME ShapeIInv, TasksOK, start_fetches, UNCHANGED <<emergencyVars, apiVars, left>>
    PROVE  ShapeIInv' /\ TasksOK'
<1> USE DEF ShapeIInv
<1>1. PICK k : StartShape(k)
  BY Zenon DEF start_fetches, StartShape
<1> DEFINE item == queue[k]
           new == NewJob("custody", item, "start")
<1>2. item \in Item /\ pins[item] = "Queued"
  BY <1>1 DEF StartShape, PinsOK, Lists
<1>3. Lists(queue, QueuedItems) /\ pins \in [Item -> Pin]
  BY DEF PinsOK, QueuedItems
<1>4. ~ Busy("custody", item)
  BY <1>2 DEF PinsOK, Fetching
<1>5. /\ JobOK(new) /\ new.why = "custody" /\ new.item = item /\ new.step = "start" /\ new.task = 0
      /\ jobs' = jobs \cup {new}
  <2>1. "custody" \in Why /\ {} \in SUBSET File /\ {} \in SUBSET Node /\ <<"custody", "start">> \in JobSteps
    BY DEF Why, JobSteps
  <2>2. new = NewJobOf("custody", item, "start", {}, {}) /\ jobs' = jobs \cup {new}
    BY <1>1 DEF NewJob, StartShape
  <2> HIDE DEF item
  <2>3. IsNew(new, "custody", item, "start", {})
    BY <1>2, <2>1, <2>2, NewJobs
  <2> QED
    BY <2>2, <2>3 DEF IsNew
<1> HIDE DEF new
<1>6. UNCHANGED <<catalogue, unread, files, creators, tags, here, held, making_room, taskVars, emergencyVars, calls, left,
                  adopted, changes, losing, letting_go>>
  BY <1>1, Zenon DEF StartShape, worldVars, keepVars, apiVars, uploadVars
<1>7. /\ JobsOK' /\ LockOK' /\ CatalogueOK' /\ KeepsOK' /\ TasksOK'
      /\ \A why, other : Busy(why, other)' <=> (Busy(why, other) \/ (why = "custody" /\ other = item))
  <2>1. new.step \notin Background /\ new.why # "projection" /\ new.step # "evict" /\ ~ Busy(new.why, new.item)
    BY <1>4, <1>5 DEF Background
  <2>2. UNCHANGED <<catalogue, unread, files, creators, tags, here, held, making_room, taskVars>>
    BY <1>6
  <2>3. /\ JobsOK' /\ LockOK' /\ CatalogueOK' /\ KeepsOK' /\ TasksOK'
        /\ \A why, other : Busy(why, other)' <=> (Busy(why, other) \/ (why = new.why /\ other = new.item))
    BY <1>5, <2>1, <2>2, BegunShape
  <2> QED
    BY <1>5, <2>3
<1>8. pins' = [pins EXCEPT ![item] = "Fetching"] /\ pins' \in [Item -> Pin]
  BY <1>1, <1>3 DEF StartShape, Pin
<1>9. Lists(queue', QueuedItems')
  <2>1. Lists(queue', QueuedItems \ {item})
    BY <1>1, <1>3, ListsWithout DEF StartShape
  <2>2. QueuedItems' = QueuedItems \ {item}
    BY <1>2, <1>3, <1>8 DEF QueuedItems
  <2> QED
    BY <2>1, <2>2
<1>10. Cardinality(FetchingItems') <= max_fetches
  <2>1. FetchingItems' = FetchingItems \cup {item}
    BY <1>2, <1>3, <1>8 DEF FetchingItems
  <2>2. IsFiniteSet(FetchingItems)
    <3>1. FetchingItems \in SUBSET Item /\ IsFiniteSet(Item)
      BY KeepingNodeAssumption DEF FetchingItems
    <3> QED
      BY <3>1, FS_Subset
  <2>3. IsFiniteSet(FetchingItems') /\ Cardinality(FetchingItems') <= Cardinality(FetchingItems) + 1
        /\ Cardinality(FetchingItems) \in Nat /\ Cardinality(FetchingItems') \in Nat
    <3> DEFINE F == FetchingItems
               G == FetchingItems'
    <3>1. G = F \cup {item} /\ IsFiniteSet(F)
      BY <2>1, <2>2
    <3> HIDE DEF F, G
    <3>2. IsFiniteSet(G) /\ (Cardinality(G) = Cardinality(F) \/ Cardinality(G) = Cardinality(F) + 1)
      BY <3>1, FS_AddElement
    <3>3. Cardinality(F) \in Nat /\ Cardinality(G) \in Nat
      BY <3>1, <3>2, FS_CardinalityType
    <3>4. IsFiniteSet(G) /\ Cardinality(G) <= Cardinality(F) + 1 /\ Cardinality(F) \in Nat /\ Cardinality(G) \in Nat
      BY <3>2, <3>3
    <3> QED
      BY <3>4 DEF F, G
  <2>4. Cardinality(FetchingItems) < max_fetches
    BY <1>1 DEF StartShape, CanStart, FetchingItems
  <2>5. max_fetches \in Nat
    BY PinsAssumption
  <2> HIDE DEF FetchingItems
  <2> QED
    BY <2>3, <2>4, <2>5
<1> HIDE DEF item
<1>11. PinsOK'
  <2>1. losing = {} /\ letting_go = {} /\ wanted_again' \subseteq Item /\ availability_changed' \subseteq Item
    BY <1>1 DEF StartShape, PinsOK
  <2>2. \A other \in Item : Busy("custody", other)' => pins'[other] = "Fetching"
    BY <1>3, <1>7, <1>8 DEF PinsOK, Fetching
  <2>3. \A other \in Item : pins'[other] = "Fetching" => Busy("custody", other)'
    BY <1>3, <1>7, <1>8, <2>1 DEF PinsOK, Fetching
  <2> QED
    BY <1>6, <1>8, <1>9, <1>10, <2>1, <2>2, <2>3 DEF PinsOK, Fetching, QueuedItems, FetchingItems
<1>12. ChangesOK'
  <2>1. \A other \in Item : pins'[other] # "none" => pins[other] # "none"
    BY <1>2, <1>3, <1>8
  <2>2. changes' = changes /\ files' = files
    BY <1>6
  <2> QED
    BY <2>1, <2>2, Zenon DEF ChangesOK
<1>13. CopiesOK'
  BY <1>6, <1>7 DEF CopiesOK, EmergencyTypeOK, emergencyVars
<1>14. CallsOK'
  BY <1>6, CallsSame
<1> QED
  BY <1>7, <1>11, <1>12, <1>13, <1>14

LEMMA AskedPins ==
    ASSUME PinsOK, losing = {}, letting_go = {},
           UNCHANGED <<pins, queue, wanted_again>> \/ \E items \in SUBSET Item : Wanted(items),
           losing' = losing \/ \E items \in SUBSET Item : losing' = Lost(items),
           UNCHANGED <<adopted, jobs, letting_go, availability_changed>>
    PROVE  PinsOK'
<1>1. /\ pins' \in [Item -> Pin] /\ Lists(queue', QueuedItems') /\ wanted_again' \subseteq Item
      /\ FetchingItems' = FetchingItems
      /\ \A item \in Item : pins[item] # "none" => pins'[item] # "none"
  <2>1. CASE UNCHANGED <<pins, queue, wanted_again>>
    BY <2>1 DEF PinsOK, QueuedItems, FetchingItems
  <2>2. CASE \E items \in SUBSET Item : Wanted(items)
    BY <2>2, WantedPins
  <2> QED
    BY <2>1, <2>2
<1>2. Cardinality(FetchingItems') <= max_fetches
  BY <1>1, FetchingFewer
<1>3. \A item \in Item : pins'[item] = "Fetching" <=> pins[item] = "Fetching"
  BY <1>1 DEF FetchingItems
<1>4. losing' \subseteq Item /\ \A item \in losing' : pins[item] \notin {"none", "Fetching"}
  BY DEF Lost
<1>5. \A item \in Item : Busy("custody", item)' <=> Busy("custody", item)
  BY DEF Busy
<1>6. \A item \in Item : Busy("custody", item) <=> pins[item] = "Fetching"
  BY DEF PinsOK, Fetching
<1> QED
  BY <1>1, <1>2, <1>3, <1>4, <1>5, <1>6 DEF PinsOK, QueuedItems, FetchingItems, Fetching

\* What read_custody_again asks for.
MissedItems ==
    {item \in my_items :
        \/ pins[item] \in {"none", "Releasing"}
        \/ pins[item] = "Kept" /\ item \notin held}

LEMMA ReadAgain ==
    ASSUME read_custody_again, losing = {}
    PROVE  /\ UNCHANGED <<pins, queue, wanted_again>> \/ Wanted(MissedItems)
           /\ losing' = losing \/ \E items \in SUBSET Item : losing' = Lost(items)
<1>1. CASE adopted = {}
  BY <1>1, Zenon DEF read_custody_again
<1>2. CASE adopted # {}
  <2>1. Wanted(MissedItems) /\ losing' = Lost(Item \ my_items)
    BY <1>2, Zenon DEF read_custody_again, MissedItems
  <2>2. Item \ my_items \in SUBSET Item
    OBVIOUS
  <2> QED
    BY <2>1, <2>2, Zenon
<1> QED
  BY <1>1, <1>2

LEMMA MineHaveFiles ==
    MissedItems \in SUBSET Item /\ \A item \in MissedItems : files[item] # {}
BY Zenon DEF MissedItems, my_items, keeps

LEMMA HearsShape ==
    ASSUME ShapeIInv, TasksOK, HearsChange \/ HearsLagged, UNCHANGED <<emergencyVars, apiVars, left>>
    PROVE  ShapeIInv' /\ TasksOK'
<1> USE DEF ShapeIInv
<1>1. UNCHANGED <<keepingVars, adopted, letting_go, availability_changed>> /\ losing = {} /\ letting_go = {}
  BY Zenon DEF HearsChange, HearsLagged, Waits
<1>2. PICK items \in SUBSET Item :
        /\ UNCHANGED <<pins, queue, wanted_again>> \/ Wanted(items)
        /\ \A item \in items : files[item] # {}
        /\ losing' = losing \/ \E others \in SUBSET Item : losing' = Lost(others)
  <2> DEFINE Goal == \E items \in SUBSET Item :
                        /\ UNCHANGED <<pins, queue, wanted_again>> \/ Wanted(items)
                        /\ \A item \in items : files[item] # {}
                        /\ losing' = losing \/ \E others \in SUBSET Item : losing' = Lost(others)
  <2> SUFFICES Goal
    OBVIOUS
  <2>1. ASSUME read_custody_again PROVE Goal
    <3>1. /\ UNCHANGED <<pins, queue, wanted_again>> \/ Wanted(MissedItems)
          /\ losing' = losing \/ \E items \in SUBSET Item : losing' = Lost(items)
      BY <1>1, <2>1, ReadAgain
    <3> QED
      BY <3>1, MineHaveFiles, Zenon
  <2>2. CASE HearsLagged
    BY <2>1, <2>2, Zenon DEF HearsLagged
  <2>3. CASE HearsChange
    <3> DEFINE change == Head(changes)
    <3>1. Changed(change) /\ change = changes[1] /\ 1 \in DOMAIN changes
      BY <2>3 DEF HearsChange, ChangesOK
    <3>2. /\ change \in Change /\ change.items \in SUBSET Item
          /\ change.kind = "mine" => \A item \in change.items : files[item] # {}
      <4>1. change \in Change
        BY <3>1 DEF ChangesOK
      <4>3. changes[1].kind = "mine" => \A item \in changes[1].items : files[item] # {}
        BY <3>1, Zenon DEF ChangesOK
      <4> HIDE DEF change
      <4>2. change.items \in SUBSET Item
        <5>1. \A one \in Change : one.items \subseteq Item
          BY Zenon DEF Change
        <5> QED
          BY <4>1, <5>1
      <4>4. change.kind = "mine" => \A item \in change.items : files[item] # {}
        BY <3>1, <4>3, Zenon
      <4> QED
        BY <4>1, <4>2, <4>4
    <3> HIDE DEF change
    <3>3. CASE change.kind = "mine" /\ Wanted(change.items) /\ UNCHANGED <<losing, unheard>>
      BY <3>2, <3>3, Zenon
    <3>4. CASE losing' = Lost(change.items) /\ UNCHANGED <<pins, queue, wanted_again>>
      BY <3>2, <3>4, Zenon
    <3> QED
      BY <2>1, <3>1, <3>3, <3>4, Zenon DEF Changed
  <2> HIDE DEF Goal
  <2> QED
    BY <2>2, <2>3
<1>3. UNCHANGED <<catalogue, unread, files, creators, tags, here, held, making_room, jobs, alone, ripe, taskVars, calls, left>>
  BY <1>1 DEF keepingVars, worldVars, keepVars, emergencyVars, apiVars, uploadVars
<1>4. JobsOK' /\ LockOK' /\ CatalogueOK' /\ KeepsOK' /\ CopiesOK' /\ TasksOK'
  BY <1>3, FrameShape
<1>5. PinsOK'
  <2>1. UNCHANGED <<pins, queue, wanted_again>> \/ \E some \in SUBSET Item : Wanted(some)
    BY <1>2
  <2>2. losing' = losing \/ \E others \in SUBSET Item : losing' = Lost(others)
    BY <1>2
  <2> QED
    BY <1>1, <1>3, <2>1, <2>2, AskedPins
<1>6. ChangesOK'
  <2>1. \A item \in Item : pins'[item] # "none" => files[item] # {}
    <3>1. CASE UNCHANGED <<pins, queue, wanted_again>>
      BY <3>1 DEF ChangesOK
    <3>2. CASE Wanted(items)
      BY <1>2, <3>2, WantedPins DEF ChangesOK
    <3> QED
      BY <1>2, <3>1, <3>2
  <2>2. /\ changes' \in Seq(Change)
        /\ \A k \in DOMAIN changes' : \E l \in DOMAIN changes : changes'[k] = changes[l]
    <3>1. CASE changes' = changes
      BY <3>1 DEF ChangesOK
    <3>2. CASE changes # <<>> /\ changes' = Tail(changes)
      <4>1. Len(changes) \in Nat /\ Len(changes) > 0 /\ DOMAIN changes = 1 .. Len(changes)
        BY <3>2 DEF ChangesOK
      <4>2. /\ changes' \in Seq(Change)
            /\ DOMAIN changes' = 1 .. Len(changes) - 1 /\ \A k \in 1 .. Len(changes) - 1 : changes'[k] = changes[k + 1]
        BY <3>2, HeadTailProperties DEF ChangesOK
      <4>3. \A k \in 1 .. Len(changes) - 1 : k + 1 \in 1 .. Len(changes)
        BY <4>1
      <4> QED
        BY <4>1, <4>2, <4>3
    <3> QED
      BY <3>1, <3>2, Zenon DEF HearsChange, HearsLagged
  <2>3. files' = files
    BY <1>3
  <2> QED
    BY <2>1, <2>2, <2>3 DEF ChangesOK
<1>7. CallsOK'
  BY <1>3, CallsSame
<1> QED
  BY <1>4, <1>5, <1>6, <1>7

LEMMA LooksAtAvailabilityShape ==
    ASSUME ShapeIInv, TasksOK, LooksAtAvailability, UNCHANGED <<emergencyVars, apiVars, left>>
    PROVE  ShapeIInv' /\ TasksOK'
<1> USE DEF ShapeIInv
<1> DEFINE failed == {item \in Item : pins[item] = "Failed"}
<1>1. /\ UNCHANGED <<keepingVars, adopted, changes, letting_go, wanted_again>> /\ losing = {} /\ letting_go = {}
      /\ pins' = [item \in Item |-> IF item \in failed THEN "Queued" ELSE pins[item]]
      /\ losing' = {item \in Item : pins[item] = "Releasing"}
      /\ availability_changed' = availability_changed \cup {item \in Item : pins[item] = "Fetching"}
  BY Zenon DEF LooksAtAvailability, Waits
<1>2. PICK order \in SetToSeqs(failed) : queue' = queue \o order
  BY Zenon DEF LooksAtAvailability
<1>3. UNCHANGED <<catalogue, unread, files, creators, tags, here, held, making_room, jobs, alone, ripe, taskVars, calls, left>>
  BY <1>1 DEF keepingVars, worldVars, keepVars, emergencyVars, apiVars, uploadVars
<1>4. JobsOK' /\ LockOK' /\ CatalogueOK' /\ KeepsOK' /\ CopiesOK' /\ TasksOK'
  BY <1>3, FrameShape
<1>5. Lists(queue', QueuedItems')
  <2>1. IsFiniteSet(failed)
    <3>1. failed \in SUBSET Item
      OBVIOUS
    <3> QED
      BY <3>1, KeepingNodeAssumption, FS_Subset
  <2>2. Lists(order, failed)
    BY <1>2, <2>1, ListsOrdered
  <2>3. Lists(queue, QueuedItems) /\ QueuedItems \cap failed = {}
    BY DEF PinsOK, QueuedItems
  <2>4. QueuedItems' = QueuedItems \cup failed
    <3>1. \A item \in Item : pins'[item] = "Queued" <=> (pins[item] = "Queued" \/ item \in failed)
      BY <1>1
    <3> QED
      BY <3>1 DEF QueuedItems
  <2> HIDE DEF failed, QueuedItems
  <2>5. Lists(queue \o order, QueuedItems \cup failed)
    BY <2>2, <2>3, ListsMore
  <2> QED
    BY <1>2, <2>4, <2>5
<1>6. PinsOK'
  <2>1. pins' \in [Item -> Pin]
    BY <1>1 DEF PinsOK, Pin
  <2>2. \A item \in Item : pins'[item] = "Fetching" <=> pins[item] = "Fetching"
    BY <1>1
  <2>3. Cardinality(FetchingItems') <= max_fetches
    <3>1. FetchingItems' \subseteq FetchingItems
      BY <2>2 DEF FetchingItems
    <3> QED
      BY <3>1, FetchingFewer
  <2>4. \A item \in Item : Busy("custody", item)' <=> pins[item] = "Fetching"
    BY <1>1, <1>3 DEF PinsOK, Fetching, Busy
  <2>5. \A item \in losing' : item \in Item /\ pins'[item] = "Releasing"
    BY <1>1
  <2> HIDE DEF failed
  <2>6. availability_changed' \subseteq Item /\ wanted_again' \subseteq Item /\ letting_go' = {} /\ adopted' # {}
    BY <1>1 DEF PinsOK
  <2> QED
    BY <1>5, <2>1, <2>2, <2>3, <2>4, <2>5, <2>6 DEF PinsOK, QueuedItems, FetchingItems, Fetching
<1>7. ChangesOK'
  <2>1. \A item \in Item : pins'[item] # "none" => pins[item] # "none"
    BY <1>1
  <2>2. changes' = changes /\ files' = files
    BY <1>1, <1>3
  <2> QED
    BY <2>1, <2>2, Zenon DEF ChangesOK
<1>8. CallsOK'
  BY <1>3, CallsSame
<1> QED
  BY <1>4, <1>6, <1>7, <1>8

LEMMA ReleaseIfSafeShape ==
    ASSUME ShapeIInv, TasksOK, NEW item \in Item, ReleaseIfSafe(item), UNCHANGED <<emergencyVars, apiVars, left>>
    PROVE  ShapeIInv' /\ TasksOK'
<1> USE DEF ShapeIInv
<1>1. /\ UNCHANGED <<worldVars, here, held, making_room, jobs, adopted, changes, wanted_again, availability_changed>>
      /\ letting_go = {} /\ item \in losing /\ losing' = losing \ {item}
  BY Zenon DEF ReleaseIfSafe
<1>2. UNCHANGED <<catalogue, unread, files, creators, here, held, making_room, jobs, alone, ripe, taskVars, calls, left>>
  BY <1>1 DEF worldVars, emergencyVars, apiVars, uploadVars
<1>3. JobsOK' /\ LockOK' /\ CatalogueOK' /\ CopiesOK' /\ TasksOK'
  <2>1. JobsOK' /\ LockOK'
    BY <1>2 DEF JobsOK, JobOK, LockOK
  <2>2. CatalogueOK'
    BY <1>2, Zenon DEF CatalogueOK
  <2>3. CopiesOK'
    BY <1>2 DEF CopiesOK, EmergencyTypeOK, Busy
  <2>4. TasksOK'
    BY <1>2 DEF TasksOK, taskVars
  <2> QED
    BY <2>1, <2>2, <2>3, <2>4
<1>4. CallsOK'
  BY <1>2, CallsSame
<1>5. ~ Busy("custody", item) /\ pins[item] # "none"
  BY <1>1 DEF PinsOK
<1>6. \A other : Busy("custody", other)' <=> Busy("custody", other)
  BY <1>2 DEF Busy
<1>7. CASE /\ pins' = [pins EXCEPT ![item] = "Releasing"]
           /\ queue' = Unqueued(item)
           /\ UNCHANGED <<letting_go, tags>>
  <2>1. pins' \in [Item -> Pin]
    BY <1>7 DEF PinsOK, Pin
  <2>2. Lists(queue', QueuedItems')
    <3>1. Lists(queue', QueuedItems \ {item})
      BY <1>7, UnqueuedLists
    <3>2. QueuedItems' = QueuedItems \ {item}
      BY <1>7 DEF PinsOK, QueuedItems
    <3> QED
      BY <3>1, <3>2
  <2>3. Cardinality(FetchingItems') <= max_fetches
    <3>1. FetchingItems' \subseteq FetchingItems
      BY <1>7 DEF PinsOK, FetchingItems
    <3> QED
      BY <3>1, FetchingFewer
  <2>4. \A other \in Item : pins'[other] # "none" <=> pins[other] # "none"
    BY <1>5, <1>7 DEF PinsOK
  <2>5. \A other \in Item \ {item} : pins'[other] = "Fetching" <=> pins[other] = "Fetching"
    BY <1>7 DEF PinsOK
  <2>6. pins'[item] = "Releasing"
    BY <1>7 DEF PinsOK
  <2>7. PinsOK'
    BY <1>1, <1>5, <1>6, <1>7, <2>1, <2>2, <2>3, <2>4, <2>5, <2>6 DEF PinsOK, QueuedItems, FetchingItems, Fetching
  <2>8. ChangesOK'
    BY <1>1, <1>2, <2>4, Zenon DEF ChangesOK
  <2>9. KeepsOK'
    BY <1>2, <1>7, KeepsSame
  <2> QED
    BY <1>3, <1>4, <2>7, <2>8, <2>9
<1>8. CASE /\ letting_go' = {item}
           /\ tags' = tags \cup {<<"cache", item, f>> : f \in kept_for("custody", item)}
           /\ UNCHANGED <<pins, queue>>
  <2>1. PinsOK'
    BY <1>1, <1>5, <1>6, <1>8 DEF PinsOK, Fetching
  <2>2. ChangesOK'
    BY <1>1, <1>2, <1>8, Zenon DEF ChangesOK
  <2>3. KeepsOK'
    <3>1. kept_for("custody", item) \in SUBSET File
      BY DEF kept_for
    <3>2. tags' \subseteq Reason \X Item \X File
      BY <1>8, <3>1 DEF KeepsOK, Reason
    <3>3. \A other \in Item, f \in File : <<"custody", other, f>> \in tags' => <<"custody", other, f>> \in tags
      BY <1>8
    <3> QED
      BY <1>2, <3>2, <3>3 DEF KeepsOK, kept_for
  <2> QED
    BY <1>3, <1>4, <2>1, <2>2, <2>3
<1> QED
  BY <1>7, <1>8, Zenon DEF ReleaseIfSafe

LEMMA ReleasedShape ==
    ASSUME ShapeIInv, TasksOK, Released, UNCHANGED <<emergencyVars, apiVars, left>>
    PROVE  ShapeIInv' /\ TasksOK'
<1> USE DEF ShapeIInv
<1>1. PICK item \in letting_go :
          /\ tags' = {tag \in tags : ~ (tag[1] = "custody" /\ tag[2] = item)}
          /\ ask_again_for_room(item)
  BY Zenon DEF Released
<1>2. /\ letting_go' = {} /\ UNCHANGED <<worldVars, here, held, making_room, jobs, adopted, changes, wanted_again,
                                       availability_changed, losing>>
  BY Zenon DEF Released
<1>3. UNCHANGED <<catalogue, unread, files, creators, here, held, making_room, jobs, alone, ripe, taskVars, calls, left>>
  BY <1>2 DEF worldVars, emergencyVars, apiVars, uploadVars
<1>4. JobsOK' /\ LockOK' /\ CatalogueOK' /\ CopiesOK' /\ TasksOK'
  <2>1. JobsOK' /\ LockOK'
    BY <1>3 DEF JobsOK, JobOK, LockOK
  <2>2. CatalogueOK'
    BY <1>3, Zenon DEF CatalogueOK
  <2>3. CopiesOK'
    BY <1>3 DEF CopiesOK, EmergencyTypeOK, Busy
  <2>4. TasksOK'
    BY <1>3 DEF TasksOK, taskVars
  <2> QED
    BY <2>1, <2>2, <2>3, <2>4
<1>5. CallsOK'
  BY <1>3, CallsSame
<1>6. KeepsOK'
  <2>1. tags' \subseteq tags
    BY <1>1
  <2> QED
    BY <1>3, <2>1 DEF KeepsOK, kept_for
<1> DEFINE waiting == {other \in Item : pins[other] = "WaitingForRoom"} \ {item}
<1>7. pins' = [other \in Item |-> IF other = item THEN "none" ELSE IF other \in waiting THEN "Queued" ELSE pins[other]]
  BY <1>1 DEF ask_again_for_room
<1>8. PICK order \in SetToSeqs(waiting) : queue' = Unqueued(item) \o order
  BY <1>1, Zenon DEF ask_again_for_room
<1>9. item \in Item /\ item \notin losing /\ ~ Busy("custody", item) /\ \A other \in letting_go : other = item
  BY <1>1 DEF PinsOK
<1>10. Lists(queue', QueuedItems')
  <2>1. IsFiniteSet(waiting)
    <3>1. waiting \in SUBSET Item
      OBVIOUS
    <3> QED
      BY <3>1, KeepingNodeAssumption, FS_Subset
  <2>2. Lists(order, waiting)
    BY <1>8, <2>1, ListsOrdered
  <2>3. Lists(Unqueued(item), QueuedItems \ {item}) /\ (QueuedItems \ {item}) \cap waiting = {}
    BY <1>9, UnqueuedLists DEF QueuedItems
  <2>4. QueuedItems' = (QueuedItems \ {item}) \cup waiting
    <3>1. \A other \in Item : pins'[other] = "Queued" <=> ((pins[other] = "Queued" /\ other # item) \/ other \in waiting)
      BY <1>7
    <3> QED
      BY <3>1 DEF QueuedItems
  <2> DEFINE rest == QueuedItems \ {item}
             unqueued == Unqueued(item)
  <2>5. Lists(unqueued, rest) /\ rest \cap waiting = {}
    BY <2>3
  <2> HIDE DEF waiting, rest, unqueued
  <2>6. Lists(unqueued \o order, rest \cup waiting)
    BY <2>2, <2>5, ListsMore
  <2> QED
    BY <1>8, <2>4, <2>6 DEF rest, unqueued
<1>11. \A other \in Item : pins'[other] = "Fetching" => pins[other] = "Fetching"
  BY <1>7
<1>12. \A other \in Item \ {item} : /\ pins[other] = "Fetching" => pins'[other] = "Fetching"
                                    /\ pins[other] # "none" <=> pins'[other] # "none"
  BY <1>7
<1>13. pins'[item] = "none"
  BY <1>7, <1>9
<1>14. PinsOK'
  <2>1. pins' \in [Item -> Pin]
    BY <1>7 DEF PinsOK, Pin
  <2>2. Cardinality(FetchingItems') <= max_fetches
    <3>1. FetchingItems' \subseteq FetchingItems
      BY <1>11 DEF FetchingItems
    <3> QED
      BY <3>1, FetchingFewer
  <2>3. \A other : Busy("custody", other)' <=> Busy("custody", other)
    BY <1>3 DEF Busy
  <2>a. /\ \A other \in Item : Busy("custody", other) => pins[other] = "Fetching" /\ other \notin losing
        /\ losing \subseteq Item /\ \A other \in losing : pins[other] # "none"
        /\ losing' = losing /\ letting_go' = {}
    BY <1>2 DEF PinsOK, Fetching
  <2>4. \A other \in Item : Busy("custody", other)' => pins'[other] = "Fetching" /\ other \notin losing' \cup letting_go'
    BY <1>9, <1>12, <2>3, <2>a
  <2>5. \A other \in Item \ (losing' \cup letting_go') : pins'[other] = "Fetching" => Busy("custody", other)'
    BY <1>2, <1>9, <1>11, <1>13, <2>3 DEF PinsOK, Fetching
  <2>6. \A other \in losing' : pins'[other] # "none"
    BY <1>9, <1>12, <2>a
  <2>7. adopted' # {} /\ losing' \subseteq Item /\ wanted_again' \subseteq Item /\ availability_changed' \subseteq Item
    BY <1>2 DEF PinsOK
  <2> QED
    BY <1>2, <1>10, <2>1, <2>2, <2>4, <2>5, <2>6, <2>7 DEF PinsOK, QueuedItems, FetchingItems, Fetching
<1>15. ChangesOK'
  <2>1. changes' = changes /\ files' = files /\ \A other \in Item : pins'[other] # "none" => pins[other] # "none"
    BY <1>2, <1>3, <1>12, <1>13
  <2> QED
    BY <2>1, Zenon DEF ChangesOK
<1> QED
  BY <1>4, <1>5, <1>6, <1>14, <1>15

LEMMA FetchOverShape ==
    ASSUME ShapeIInv, TasksOK, UNCHANGED <<emergencyVars, apiVars>>,
           left' = left \/ \E what : what # "calls" /\ left' = [left EXCEPT ![what] = @ - 1],
           NEW j \in jobs, FetchEnds(j) \/ fetch_panicked(j)
    PROVE  ShapeIInv' /\ TasksOK'
<1> USE DEF ShapeIInv
<1>1. /\ UNCHANGED <<worldVars, keepVars, adopted, changes, wanted_again, availability_changed, letting_go>>
      /\ losing = {} /\ letting_go = {} /\ jobs' = jobs \ {j} /\ j.why = "custody" /\ j.step # "evict"
  BY Zenon DEF FetchEnds, fetch_panicked, Waits
<1>2. UNCHANGED <<catalogue, unread, files, creators, tags, here, held, making_room, alone, ripe, taskVars, calls>>
  BY <1>1 DEF worldVars, keepVars, emergencyVars, apiVars, uploadVars
<1>3. /\ JobsOK' /\ LockOK' /\ CatalogueOK' /\ KeepsOK'
      /\ \A why, item : Busy(why, item)' <=> (Busy(why, item) /\ ~(why = "custody" /\ item = j.item))
  BY <1>1, <1>2, OverShape
<1>4. TasksOK'
  BY <1>1, <1>2, TasksLess
<1>5. CallsOK'
  BY <1>2, CallsSame
<1>6. CopiesOK'
  BY <1>2, <1>3 DEF CopiesOK, EmergencyTypeOK
<1> DEFINE item == j.item
<1>7. item \in Item /\ Busy("custody", item) /\ pins[item] = "Fetching"
  <2>1. item \in Item
    BY DEF JobsOK, JobOK, Job
  <2> QED
    BY <1>1, <2>1 DEF Busy, PinsOK, Fetching
<1>8. /\ \A other \in Item : Busy("custody", other) <=> pins[other] = "Fetching"
      /\ pins \in [Item -> Pin] /\ Lists(queue, QueuedItems) /\ item \notin QueuedItems
  BY <1>1, <1>7 DEF PinsOK, Fetching, QueuedItems
<1> HIDE DEF item
<1>9. \/ losing' = {item} /\ UNCHANGED <<pins, queue>>
      \/ losing' = {} /\ \E pin \in Pin \ {"none", "Fetching"} :
            /\ pins' = [pins EXCEPT ![item] = pin]
            /\ queue' = IF pin = "Queued" THEN Append(queue, item) ELSE queue
  <2>1. CASE fetch_panicked(j)
    <3>1. pins' = [pins EXCEPT ![item] = "Failed"] /\ queue' = queue /\ losing' = {}
      BY <1>1, <2>1, Zenon DEF fetch_panicked, item
    <3>2. "Failed" \in Pin \ {"none", "Fetching"} /\ "Failed" # "Queued"
      BY DEF Pin
    <3> QED
      BY <3>1, <3>2
  <2>2. CASE FetchEnds(j)
    <3>1. fetched(item, j.result)
      BY <2>2 DEF FetchEnds, item
    <3>2. CASE ~ keeps(item)
      BY <3>1, <3>2, Zenon DEF fetched
    <3>3. CASE keeps(item)
      <4>1. Next_(item, j.result) \in Pin \ {"none", "Fetching"}
        BY DEF Next_, Pin
      <4>2. losing' = losing
        BY <3>1, <3>3, Zenon DEF fetched
      <4>3. /\ pins' = [pins EXCEPT ![item] = Next_(item, j.result)]
            /\ queue' = IF Next_(item, j.result) = "Queued" THEN Append(queue, item) ELSE queue
        BY <3>1, <3>3, Zenon DEF fetched
      <4> QED
        BY <1>1, <4>1, <4>2, <4>3
    <3> QED
      BY <3>2, <3>3
  <2> QED
    BY <2>1, <2>2
<1>10. CASE losing' = {item} /\ UNCHANGED <<pins, queue>>
  <2>1. \A other \in Item : Busy("custody", other)' <=> pins'[other] = "Fetching" /\ other # item
    BY <1>3, <1>8, <1>10 DEF item
  <2>2. PinsOK'
    BY <1>1, <1>7, <1>10, <2>1 DEF PinsOK, Fetching
  <2>3. ChangesOK'
    BY <1>1, <1>2, <1>10, Zenon DEF ChangesOK
  <2> QED
    BY <1>3, <1>4, <1>5, <1>6, <2>2, <2>3
<1>11. ASSUME losing' = {}, NEW pin \in Pin \ {"none", "Fetching"}, pins' = [pins EXCEPT ![item] = pin],
              queue' = IF pin = "Queued" THEN Append(queue, item) ELSE queue
       PROVE  ShapeIInv' /\ TasksOK'
  <2>1. \A other \in Item : Busy("custody", other)' <=> pins'[other] = "Fetching"
    BY <1>3, <1>7, <1>8, <1>11 DEF item
  <2>2. pins' \in [Item -> Pin]
    BY <1>8, <1>11
  <2>3. Lists(queue', QueuedItems')
    <3>1. CASE pin = "Queued"
      <4>1. QueuedItems' = QueuedItems \cup {item}
        BY <1>7, <1>8, <1>11, <3>1 DEF QueuedItems
      <4>2. queue' = Append(queue, item)
        BY <1>11, <3>1
      <4> HIDE DEF QueuedItems
      <4>3. Lists(Append(queue, item), QueuedItems \cup {item})
        BY <1>8, ListsLast
      <4> QED
        BY <4>1, <4>2, <4>3
    <3>2. CASE pin # "Queued"
      <4>1. QueuedItems' = QueuedItems
        BY <1>7, <1>8, <1>11, <3>2 DEF QueuedItems
      <4>2. queue' = queue
        BY <1>11, <3>2
      <4> QED
        BY <1>8, <4>1, <4>2
    <3> QED
      BY <3>1, <3>2
  <2>4. Cardinality(FetchingItems') <= max_fetches
    <3>1. FetchingItems' \subseteq FetchingItems
      BY <1>8, <1>11 DEF FetchingItems
    <3> QED
      BY <3>1, FetchingFewer
  <2>5. PinsOK'
    BY <1>1, <1>11, <2>1, <2>2, <2>3, <2>4 DEF PinsOK, Fetching, QueuedItems, FetchingItems
  <2>6. ChangesOK'
    <3>1. \A other \in Item : pins'[other] # "none" => pins[other] # "none"
      BY <1>7, <1>8, <1>11
    <3>2. changes' = changes /\ files' = files
      BY <1>1, <1>2
    <3> QED
      BY <3>1, <3>2, Zenon DEF ChangesOK
  <2> QED
    BY <1>3, <1>4, <1>5, <1>6, <2>5, <2>6
<1> QED
  BY <1>9, <1>10, <1>11, Zenon

LEMMA PinningShape ==
    ASSUME ShapeIInv, TasksOK, Pinning
    PROVE  ShapeIInv' /\ TasksOK'
<1>1. Loop /\ UNCHANGED <<emergencyVars, apiVars, left>>
  BY Zenon DEF Pinning
<1>2. ASSUME NEW j \in jobs, FetchEnds(j) PROVE ShapeIInv' /\ TasksOK'
  BY <1>1, <1>2, FetchOverShape
<1>3. ASSUME NEW item \in Item, ReleaseIfSafe(item) PROVE ShapeIInv' /\ TasksOK'
  BY <1>1, <1>3, ReleaseIfSafeShape
<1> QED
  BY <1>1, <1>2, <1>3, start_fetchesShape, HearsShape, LooksAtAvailabilityShape, ReleasedShape, Zenon DEF Loop

-----------------------------------------------------------------------------
(* Emergency copies keep the shape.                                        *)

\* The items that a look starts copies of, and what it makes of the rest.
Mine == {item \in Item : Updated[item] = "Due" /\ is_mine_to_copy(item)}

LEMMA LookIs ==
    ASSUME Looks
    PROVE  /\ alone' = [item \in Item |-> IF item \in Mine THEN "Copying" ELSE Updated[item]]
           /\ jobs' = jobs \cup {NewJob("emergency", item, "start") : item \in Mine}
           /\ ripe' = {} /\ UNCHANGED <<worldVars, keepVars>>
BY Zenon DEF Looks, Mine

LEMMA UpdatedIs ==
    ASSUME alone \in [Item -> {"none", "Since", "Due", "Copying"}], NEW item \in Item
    PROVE  /\ Updated[item] \in {"none", "Since", "Due", "Copying"}
           /\ alone[item] = "Copying" => Updated[item] = "Copying"
           /\ Updated[item] = "Due" => item \in AloneNow /\ alone[item] \notin {"none", "Copying"}
BY DEF Updated

LEMMA LooksShape ==
    ASSUME ShapeIInv, TasksOK, Looks, UNCHANGED <<pinVars, apiVars, left>>
    PROVE  ShapeIInv' /\ TasksOK'
<1> USE DEF ShapeIInv
<1>1. /\ alone' = [item \in Item |-> IF item \in Mine THEN "Copying" ELSE Updated[item]]
      /\ jobs' = jobs \cup {NewJob("emergency", item, "start") : item \in Mine}
      /\ ripe' = {} /\ UNCHANGED <<worldVars, keepVars>>
  BY LookIs
<1> DEFINE New == {NewJob("emergency", item, "start") : item \in Mine}
<1>2. Mine \subseteq Item
  BY DEF Mine
<1>3. \A new \in New : \E item \in Mine : IsNew(new, "emergency", item, "start", {})
  <2> SUFFICES ASSUME NEW item \in Mine PROVE IsNew(NewJob("emergency", item, "start"), "emergency", item, "start", {})
    OBVIOUS
  <2>1. "emergency" \in Why /\ {} \in SUBSET File /\ {} \in SUBSET Node /\ <<"emergency", "start">> \in JobSteps
    BY DEF Why, JobSteps
  <2> QED
    BY <1>2, <2>1, NewJobs DEF NewJob
<1>4. \A item \in Mine : alone[item] # "Copying" /\ ~ Busy("emergency", item)
  <2>1. alone \in [Item -> {"none", "Since", "Due", "Copying"}] /\ \A item \in Item : Busy("emergency", item) => alone[item] = "Copying"
    BY DEF CopiesOK, EmergencyTypeOK
  <2> QED
    BY <1>2, <2>1, UpdatedIs DEF Mine
<1>5. \A new, other \in New : new.item = other.item => new = other
  <2> SUFFICES ASSUME NEW item \in Mine, NEW third \in Mine,
                      NewJob("emergency", item, "start").item = NewJob("emergency", third, "start").item
               PROVE  item = third
    OBVIOUS
  <2> QED
    BY DEF NewJob, NewJobOf
<1>6. jobs' = jobs \cup New
  BY <1>1
<1> HIDE DEF New
<1>7. \A new \in New : /\ JobOK(new) /\ new.why = "emergency" /\ new.item \in Mine /\ new.step = "start"
                       /\ new.task = 0
  BY <1>3 DEF IsNew
<1>8. JobsOK'
  <2>1. \A j \in jobs' : JobOK(j)
    BY <1>6, <1>7 DEF JobsOK
  <2>2. \A j \in jobs, new \in New : ~(j.why = new.why /\ j.item = new.item)
    BY <1>4, <1>7 DEF Busy
  <2>3. \A j, k \in jobs' : j.why = k.why /\ j.item = k.item => j = k
    BY <1>5, <1>6, <2>2 DEF JobsOK
  <2> QED
    BY <2>1, <2>3 DEF JobsOK, JobOK
<1>9. UNCHANGED <<catalogue, unread, files, creators, tags, here, held, making_room, taskVars, calls, left, changes, adopted, pins,
                  losing, letting_go, wanted_again, availability_changed, queue>>
  BY <1>1 DEF worldVars, keepVars, pinVars, apiVars, uploadVars
<1>10. LockOK'
  <2>1. {k \in jobs' : k.step = "evict"} = {k \in jobs : k.step = "evict"}
    BY <1>6, <1>7
  <2> QED
    BY <1>9, <2>1 DEF LockOK
<1>11. CatalogueOK'
  <2>1. \A new \in New : new.why # "projection"
    BY <1>7
  <2> QED
    BY <1>6, <1>9, <2>1, CatalogueMore
<1>12. TasksOK'
  <2>1. \A new \in New : new.task = 0 /\ ~(new.why = "download" /\ new.step \in Background)
    BY <1>7
  <2> QED
    BY <1>6, <1>9, <2>1, TasksMore
<1>13. KeepsOK'
  BY <1>9, KeepsSame
<1>14. \A item : Busy("custody", item)' <=> Busy("custody", item)
  BY <1>6, <1>7 DEF Busy
<1>15. PinsOK'
  BY <1>9, <1>14 DEF PinsOK, Fetching
<1>16. ChangesOK'
  BY <1>9, Zenon DEF ChangesOK
<1>17. CopiesOK'
  <2>1. alone \in [Item -> {"none", "Since", "Due", "Copying"}] /\ \A item \in Item : Busy("emergency", item) => alone[item] = "Copying"
    BY DEF CopiesOK, EmergencyTypeOK
  <2>2. alone' \in [Item -> {"none", "Since", "Due", "Copying"}]
    BY <1>1, <2>1, UpdatedIs
  <2>3. ASSUME NEW item \in Item, Busy("emergency", item)' PROVE alone'[item] = "Copying"
    <3>1. Busy("emergency", item) \/ item \in Mine
      BY <1>6, <1>7, <2>3 DEF Busy
    <3> QED
      BY <1>1, <2>1, <3>1, UpdatedIs
  <2> QED
    BY <1>1, <2>2, <2>3 DEF CopiesOK, EmergencyTypeOK
<1>18. CallsOK'
  BY <1>9, CallsSame
<1> QED
  BY <1>8, <1>10, <1>11, <1>12, <1>13, <1>15, <1>16, <1>17, <1>18

LEMMA CopyOverShape ==
    ASSUME ShapeIInv, TasksOK, UNCHANGED <<pinVars, apiVars>>,
           left' = left \/ \E what : what # "calls" /\ left' = [left EXCEPT ![what] = @ - 1],
           NEW j \in jobs, copied(j) \/ CopyPanics(j)
    PROVE  ShapeIInv' /\ TasksOK'
<1> USE DEF ShapeIInv
<1>1. /\ UNCHANGED <<worldVars, keepVars, ripe>> /\ jobs' = jobs \ {j} /\ j.why = "emergency" /\ j.step # "evict"
      /\ alone' = alone \/ (j.step = "done" /\ alone' = [alone EXCEPT ![j.item] = IF j.result = "ok" THEN "none" ELSE "Due"])
  <2>1. CASE copied(j)
    <3>1. /\ UNCHANGED <<worldVars, keepVars, ripe>> /\ jobs' = jobs \ {j} /\ j.why = "emergency" /\ j.step = "done"
          /\ alone' = [alone EXCEPT ![j.item] = IF j.result = "ok" THEN "none" ELSE "Due"]
      BY <2>1, Zenon DEF copied
    <3> QED
      BY <3>1
  <2>2. CASE CopyPanics(j)
    <3>1. /\ UNCHANGED <<worldVars, keepVars, ripe>> /\ jobs' = jobs \ {j} /\ j.why = "emergency" /\ j.step = "fetch"
          /\ alone' = alone
      BY <2>2, Zenon DEF CopyPanics
    <3> QED
      BY <3>1
  <2> QED
    BY <2>1, <2>2
<1>2. UNCHANGED <<catalogue, unread, files, creators, tags, here, held, making_room, taskVars, calls, changes, adopted, pins,
                  losing, letting_go, wanted_again, availability_changed, queue>>
  BY <1>1 DEF worldVars, keepVars, pinVars, apiVars, uploadVars
<1>3. /\ JobsOK' /\ LockOK' /\ CatalogueOK' /\ KeepsOK'
      /\ \A why, item : Busy(why, item)' <=> (Busy(why, item) /\ ~(why = "emergency" /\ item = j.item))
  BY <1>1, <1>2, OverShape
<1>4. TasksOK'
  BY <1>1, <1>2, TasksLess
<1>5. CallsOK'
  BY <1>2, CallsSame
<1>6. CopiesOK'
  <2>1. /\ alone \in [Item -> {"none", "Since", "Due", "Copying"}] /\ ripe \subseteq {item \in Item : alone[item] = "Since"}
        /\ \A item \in Item : Busy("emergency", item) => alone[item] = "Copying"
    BY DEF CopiesOK, EmergencyTypeOK
  <2>2. Busy("emergency", j.item) /\ j.item \in Item
    BY <1>1 DEF Busy, JobsOK, JobOK, Job
  <2>3. alone' \in [Item -> {"none", "Since", "Due", "Copying"}] /\ \A item \in Item \ {j.item} : alone'[item] = alone[item]
    BY <1>1, <2>1
  <2> QED
    BY <1>1, <1>3, <2>1, <2>2, <2>3 DEF CopiesOK, EmergencyTypeOK
<1>7. PinsOK'
  BY <1>2, <1>3 DEF PinsOK, Fetching
<1>8. ChangesOK'
  BY <1>2, Zenon DEF ChangesOK
<1> QED
  BY <1>3, <1>4, <1>5, <1>6, <1>7, <1>8

LEMMA EmergenciesShape ==
    ASSUME ShapeIInv, TasksOK, Emergencies
    PROVE  ShapeIInv' /\ TasksOK'
<1>1. UNCHANGED <<pinVars, apiVars, left>>
  BY DEF Emergencies
<1>2. CASE Looks
  BY <1>1, <1>2, LooksShape
<1>3. CASE \E j \in jobs : copied(j)
  BY <1>1, <1>3, CopyOverShape
<1>4. CASE \E item \in Item : DelayPasses(item)
  <2> USE DEF ShapeIInv
  <2>1. PICK item \in Item : DelayPasses(item)
    BY <1>4
  <2>2. UNCHANGED <<keepingVars, alone>> /\ ripe' = ripe \cup {item} /\ alone[item] = "Since"
    BY <2>1 DEF DelayPasses
  <2>3. UNCHANGED <<catalogue, unread, files, creators, tags, here, held, making_room, jobs, taskVars, calls, changes, adopted, pins,
                    losing, letting_go, wanted_again, availability_changed, queue, left>>
    BY <1>1, <2>2 DEF keepingVars, worldVars, keepVars, pinVars, apiVars, uploadVars
  <2>4. JobsOK' /\ LockOK'
    BY <2>3 DEF JobsOK, JobOK, LockOK
  <2>5. CatalogueOK' /\ ChangesOK'
    BY <2>3, Zenon DEF CatalogueOK, ChangesOK
  <2>6. KeepsOK'
    BY <2>3, KeepsSame
  <2>7. TasksOK'
    BY <2>3 DEF TasksOK, taskVars
  <2>8. PinsOK'
    BY <2>3 DEF PinsOK, Fetching, Busy
  <2>9. CallsOK'
    BY <2>3, CallsSame
  <2>10. CopiesOK'
    BY <2>2, <2>3 DEF CopiesOK, EmergencyTypeOK, Busy
  <2> QED
    BY <2>4, <2>5, <2>6, <2>7, <2>8, <2>9, <2>10
<1> QED
  BY <1>2, <1>3, <1>4 DEF Emergencies, EmergencyLoop

\* A copy is begun by a look alone, of what has been one live copy since before.
LEMMA CopiesOfTheAlone ==
    ASSUME ShapeIInv, NEW item \in Item, ~ Busy("emergency", item), NEW j \in jobs', j.why = "emergency", j.item = item, Looks
    PROVE  item \in AloneNow /\ alone[item] # "none"
<1>1. PICK other \in Mine : j = NewJob("emergency", other, "start")
  BY LookIs DEF Busy
<1>2. other = item
  BY <1>1 DEF NewJob, NewJobOf
<1>3. Updated[item] = "Due" /\ alone \in [Item -> {"none", "Since", "Due", "Copying"}]
  BY <1>1, <1>2 DEF Mine, ShapeIInv, CopiesOK, EmergencyTypeOK
<1> QED
  BY <1>3, UpdatedIs

-----------------------------------------------------------------------------
(* Downloads and their tasks.                                              *)

LEMMA PrunedIs ==
    ASSUME NEW tasks
    PROVE  /\ DOMAIN Pruned(tasks) \subseteq DOMAIN tasks
           /\ \A id \in DOMAIN Pruned(tasks) : Pruned(tasks)[id] = tasks[id]
           /\ \A id \in DOMAIN tasks : tasks[id] = "Running" => id \in DOMAIN Pruned(tasks)
BY DEF Pruned, Without_, EndedIn

LEMMA EndTasks ==
    ASSUME TasksOK, NEW j \in jobs, j.task # 0, jobs' = jobs \ {j}, NEW outcome \in {"Finished", "Failed"},
           end(j.task, outcome)
    PROVE  TasksOK'
<1> DEFINE id == j.task
           stored == With(registered, id, outcome)
<1>1. id \in DOMAIN registered /\ registered[id] = "Running" /\ id \in 1 .. next_task
  BY DEF TasksOK
<1>2. id \notin DOMAIN told /\ id \notin DOMAIN telling
  BY <1>1 DEF TasksOK
<1>3. registered' = Pruned(stored) /\ telling' = With(telling, id, outcome) /\ next_task' = next_task /\ told' = told
  BY <1>1 DEF end
<1>4. /\ DOMAIN stored = DOMAIN registered /\ stored[id] = outcome
      /\ \A other \in DOMAIN registered : other # id => stored[other] = registered[other]
  BY <1>1 DEF With
<1> HIDE DEF stored
<1>5. /\ DOMAIN registered' \subseteq DOMAIN registered
      /\ \A other \in DOMAIN registered' : registered'[other] = IF other = id THEN outcome ELSE registered[other]
      /\ \A other \in DOMAIN registered : other # id /\ registered[other] = "Running" => other \in DOMAIN registered'
  BY <1>3, <1>4, PrunedIs
<1>6. /\ DOMAIN telling' = DOMAIN telling \cup {id} /\ telling'[id] = outcome
      /\ \A other \in DOMAIN telling : other # id => telling'[other] = telling[other]
  BY <1>3 DEF With
<1>7. \A k \in jobs' : k.task # 0 => k \in jobs /\ k.task # id
  BY DEF TasksOK
<1> HIDE DEF id
<1>8. \A other \in DOMAIN registered' :
          /\ other \in DOMAIN telling' => registered'[other] = telling'[other]
          /\ other \in DOMAIN told' => registered'[other] = told'[other]
  BY <1>2, <1>3, <1>5, <1>6 DEF TasksOK
<1>9. \A other \in DOMAIN telling' : telling'[other] # "Running" /\ other \notin DOMAIN told'
  BY <1>2, <1>3, <1>6 DEF TasksOK
<1>10. \A other \in 1 .. next_task :
          \/ other \in DOMAIN telling' \cup DOMAIN told'
          \/ other \in DOMAIN registered' /\ registered'[other] = "Running"
  BY <1>3, <1>5, <1>6 DEF TasksOK
<1>11. \A k \in jobs' : k.task # 0 =>
          k.why = "download" /\ k.task \in DOMAIN registered' /\ registered'[k.task] = "Running"
  BY <1>5, <1>7 DEF TasksOK
<1>12. DOMAIN registered' \subseteq 1 .. next_task' /\ DOMAIN told' \subseteq 1 .. next_task' /\ DOMAIN telling' \subseteq 1 .. next_task'
  BY <1>1, <1>3, <1>5, <1>6 DEF TasksOK
<1> QED
  BY <1>3, <1>8, <1>9, <1>10, <1>11, <1>12 DEF TasksOK

LEMMA TellTasks ==
    ASSUME TasksOK, NEW id \in DOMAIN telling, Publishes(id), jobs' = jobs
    PROVE  TasksOK'
<1>1. told' = With(told, id, telling[id]) /\ telling' = Without_(telling, {id}) /\ registered' = registered /\ next_task' = next_task
  BY DEF Publishes
<1>2. /\ DOMAIN told' = DOMAIN told \cup {id} /\ told'[id] = telling[id]
      /\ \A other \in DOMAIN told : other # id => told'[other] = told[other]
  BY <1>1 DEF With
<1>3. DOMAIN telling' = DOMAIN telling \ {id} /\ \A other \in DOMAIN telling' : telling'[other] = telling[other]
  BY <1>1 DEF Without_
<1>4. \A other \in DOMAIN registered : other \in DOMAIN told' => registered[other] = told'[other]
  BY <1>2 DEF TasksOK
<1>5. \A other \in DOMAIN told' : told'[other] # "Running"
  BY <1>2 DEF TasksOK
<1>6. \A other \in DOMAIN telling' : telling'[other] # "Running" /\ other \notin DOMAIN told'
  BY <1>2, <1>3 DEF TasksOK
<1>7. DOMAIN told' \subseteq 1 .. next_task /\ DOMAIN telling' \subseteq 1 .. next_task
  BY <1>2, <1>3 DEF TasksOK
<1>8. DOMAIN told \cup DOMAIN telling = DOMAIN told' \cup DOMAIN telling'
  BY <1>2, <1>3
<1>9. /\ \A other \in DOMAIN registered : other \in DOMAIN telling' => registered[other] = telling'[other]
      /\ \A other \in 1 .. next_task :
            other \in DOMAIN telling' \cup DOMAIN told' \/ (other \in DOMAIN registered /\ registered[other] = "Running")
  BY <1>3, <1>8 DEF TasksOK
<1> QED
  BY <1>1, <1>4, <1>5, <1>6, <1>7, <1>9 DEF TasksOK

LEMMA RegisterTasks ==
    ASSUME TasksOK, NEW j \in jobs, NEW next, next.why = "download", next.task = next_task + 1, Goes(j, next), start_download
    PROVE  TasksOK'
<1> DEFINE id == next_task + 1
<1>1. next_task \in Nat /\ id \in Nat /\ id # 0 /\ 1 .. id = (1 .. next_task) \cup {id} /\ id \notin 1 .. next_task
  BY DEF TasksOK
<1>2. registered' = With(registered, id, "Running") /\ next_task' = id /\ telling' = telling /\ told' = told
  BY DEF start_download
<1>3. /\ DOMAIN registered' = DOMAIN registered \cup {id} /\ registered'[id] = "Running"
      /\ \A other \in DOMAIN registered : other # id => registered'[other] = registered[other]
  BY <1>2 DEF With
<1>4. jobs' = (jobs \ {j}) \cup {next} /\ next.task = id
  BY DEF Goes
<1> HIDE DEF id
<1>5. \A other \in DOMAIN registered' :
          /\ other \in DOMAIN telling => registered'[other] = telling[other]
          /\ other \in DOMAIN told => registered'[other] = told[other]
  BY <1>1, <1>3 DEF TasksOK
<1>6. \A other \in 1 .. id :
          other \in DOMAIN telling \cup DOMAIN told \/ (other \in DOMAIN registered' /\ registered'[other] = "Running")
  BY <1>1, <1>3 DEF TasksOK
<1>7. \A k \in jobs' : k.task # 0 =>
          k.why = "download" /\ k.task \in DOMAIN registered' /\ registered'[k.task] = "Running"
  BY <1>1, <1>3, <1>4 DEF TasksOK
<1>8. \A k, l \in jobs' : k.task # 0 /\ k.task = l.task => k = l
  BY <1>1, <1>4 DEF TasksOK
<1>9. \A k \in jobs' : k.why = "download" /\ k.step \in {"tag", "fetch", "export"} => k.task # 0
  BY <1>1, <1>4 DEF TasksOK
<1>10. DOMAIN registered' \subseteq 1 .. id /\ DOMAIN told \subseteq 1 .. id /\ DOMAIN telling \subseteq 1 .. id
  BY <1>1, <1>3 DEF TasksOK
<1>11. (\A k \in DOMAIN telling : telling[k] # "Running" /\ k \notin DOMAIN told) /\ (\A k \in DOMAIN told : told[k] # "Running")
  BY DEF TasksOK
<1> QED
  BY <1>1, <1>2, <1>5, <1>6, <1>7, <1>8, <1>9, <1>10, <1>11 DEF TasksOK

LEMMA QuietShape ==
    ASSUME ShapeIInv, TasksOK, CallsOK',
           UNCHANGED <<catalogue, unread, files, creators, tags, here, held, making_room, jobs, alone, ripe, taskVars,
                       adopted, changes, pins, queue, wanted_again, availability_changed, losing, letting_go>>
    PROVE  ShapeIInv' /\ TasksOK'
<1> USE DEF ShapeIInv
<1>1. JobsOK' /\ LockOK' /\ CatalogueOK' /\ KeepsOK' /\ CopiesOK' /\ TasksOK'
  BY FrameShape
<1>2. PinsOK'
  BY DEF PinsOK, Fetching, Busy
<1>3. ChangesOK'
  BY Zenon DEF ChangesOK
<1> QED
  BY <1>1, <1>2, <1>3

\* Jobs come and go that neither loop is concerned with.
LEMMA OthersShape ==
    ASSUME PinsOK, ChangesOK, CopiesOK,
           \A item \in Item : /\ Busy("custody", item)' <=> Busy("custody", item)
                              /\ Busy("emergency", item)' => Busy("emergency", item),
           UNCHANGED <<files, alone, ripe, adopted, changes, pins, queue, wanted_again, availability_changed, losing, letting_go>>
    PROVE  PinsOK' /\ ChangesOK' /\ CopiesOK'
<1>1. PinsOK'
  BY DEF PinsOK, Fetching
<1>2. ChangesOK'
  BY Zenon DEF ChangesOK
<1>3. CopiesOK'
  BY DEF CopiesOK, EmergencyTypeOK
<1> QED
  BY <1>1, <1>2, <1>3

LEMMA RegistersShape ==
    ASSUME ShapeIInv, TasksOK, NEW j \in jobs, Registers(j)
    PROVE  ShapeIInv' /\ TasksOK'
<1> USE DEF ShapeIInv
<1> DEFINE next == [j EXCEPT !.step = "tag", !.task = next_task + 1]
<1>1. /\ UNCHANGED <<worldVars, keepVars, pinVars, emergencyVars, uploadVars, left>> /\ j.why = "download" /\ j.step = "register"
      /\ Goes(j, next) /\ start_download
  BY Zenon DEF Registers
<1>2. UNCHANGED <<catalogue, unread, files, creators, tags, here, held, making_room, alone, ripe, adopted, changes, pins, queue,
                  wanted_again, availability_changed, losing, letting_go, calls, left>>
  BY <1>1 DEF worldVars, keepVars, pinVars, emergencyVars, uploadVars
<1>3. JobOK(j) /\ next_task \in Nat
  BY DEF JobsOK, TasksOK
<1>4. next \in Job /\ next_task + 1 # 0
  <2> DEFINE n == next_task + 1
  <2>1. n \in Nat /\ n # 0
    BY <1>3
  <2> HIDE DEF n
  <2>2. ASSUME NEW k \in Job PROVE [k EXCEPT !.task = n] \in Job
    BY <2>1 DEF Job
  <2>3. [j EXCEPT !.step = "tag"] \in Job
    <3>1. j \in Job
      BY <1>3 DEF JobOK
    <3> QED
      BY <3>1 DEF Job
  <2>4. [j EXCEPT !.step = "tag", !.task = n] = [[j EXCEPT !.step = "tag"] EXCEPT !.task = n]
    OBVIOUS
  <2>5. next \in Job
    BY <2>2, <2>3, <2>4 DEF n
  <2> QED
    BY <2>1, <2>5 DEF n
<1>5. /\ next.why = j.why /\ next.item = j.item /\ next.files = j.files /\ next.step = "tag" /\ next.left = j.left
      /\ next.evict = j.evict /\ next.short = j.short /\ next.result = j.result /\ next.task = next_task + 1
  BY <1>3 DEF JobOK, Job
<1> HIDE DEF next
<1>6. JobOK(next)
  <2>1. <<"download", "tag">> \in JobSteps
    BY DEF JobSteps
  <2> QED
    BY <1>1, <1>3, <1>4, <1>5, <2>1 DEF JobOK
<1>7. jobs' = (jobs \ {j}) \cup {next}
  BY <1>1 DEF Goes
<1>8. JobsOK'
  <2>1. \A k \in jobs' : JobOK(k)
    BY <1>6, <1>7 DEF JobsOK
  <2>2. \A k, l \in jobs' : k.why = l.why /\ k.item = l.item => k = l
    BY <1>5, <1>7 DEF JobsOK
  <2> QED
    BY <2>1, <2>2 DEF JobsOK, JobOK
<1>9. \A why, item : Busy(why, item)' <=> Busy(why, item)
  BY <1>5, <1>7 DEF Busy
<1>10. LockOK'
  <2>1. {k \in jobs' : k.step = "evict"} = {k \in jobs : k.step = "evict"}
    BY <1>1, <1>5, <1>7
  <2> QED
    BY <1>2, <2>1 DEF LockOK
<1>11. CatalogueOK'
  <2>1. \A k \in jobs' : k.why = "projection" => k \in jobs
    BY <1>1, <1>5, <1>7
  <2> QED
    BY <1>2, <2>1 DEF CatalogueOK
<1>12. KeepsOK'
  BY <1>2, KeepsSame
<1>13. PinsOK' /\ ChangesOK' /\ CopiesOK'
  BY <1>2, <1>9, OthersShape
<1>14. CallsOK'
  BY <1>2, CallsSame
<1>15. TasksOK'
  BY <1>1, <1>5, RegisterTasks
<1> QED
  BY <1>8, <1>10, <1>11, <1>12, <1>13, <1>14, <1>15

\* A download or an add is over.
LEMMA RequestOverShape ==
    ASSUME ShapeIInv, NEW j \in jobs, j.why \in {"download", "add"}, j.step # "evict", jobs' = jobs \ {j},
           UNCHANGED <<worldVars, keepVars, pinVars, emergencyVars>>
    PROVE  JobsOK' /\ LockOK' /\ CatalogueOK' /\ KeepsOK' /\ PinsOK' /\ ChangesOK' /\ CopiesOK'
<1> USE DEF ShapeIInv
<1>1. UNCHANGED <<catalogue, unread, files, creators, tags, here, held, making_room, alone, ripe, adopted, changes, pins, queue,
                  wanted_again, availability_changed, losing, letting_go>>
  BY DEF worldVars, keepVars, pinVars, emergencyVars
<1>2. /\ JobsOK' /\ LockOK' /\ CatalogueOK' /\ KeepsOK'
      /\ \A why, item : Busy(why, item)' <=> (Busy(why, item) /\ ~(why = j.why /\ item = j.item))
  BY <1>1, OverShape
<1>3. PinsOK' /\ ChangesOK' /\ CopiesOK'
  BY <1>1, <1>2, OthersShape
<1> QED
  BY <1>2, <1>3

LEMMA DownloadEndsShape ==
    ASSUME ShapeIInv, TasksOK, NEW j \in jobs, DownloadEnds(j)
    PROVE  ShapeIInv' /\ TasksOK'
<1>1. /\ j.why = "download" /\ j.step = "done" /\ jobs' = jobs \ {j}
      /\ UNCHANGED <<worldVars, keepVars, pinVars, emergencyVars, uploadVars, left>>
  BY Zenon DEF DownloadEnds
<1>2. JobsOK' /\ LockOK' /\ CatalogueOK' /\ KeepsOK' /\ PinsOK' /\ ChangesOK' /\ CopiesOK'
  BY <1>1, RequestOverShape
<1>3. CallsOK'
  BY <1>1, CallsSame DEF uploadVars, ShapeIInv
<1>4. TasksOK'
  <2>1. CASE j.task = 0
    BY <1>1, <2>1, TasksLess DEF DownloadEnds
  <2>2. CASE j.task # 0
    <3>1. PICK outcome \in {"Finished", "Failed"} : end(j.task, outcome)
      BY <2>2 DEF DownloadEnds
    <3> QED
      BY <1>1, <2>2, <3>1, EndTasks
  <2> QED
    BY <2>1, <2>2
<1> QED
  BY <1>2, <1>3, <1>4 DEF ShapeIInv

LEMMA AddEndsShape ==
    ASSUME ShapeIInv, TasksOK, NEW j \in jobs, AddEnds(j)
    PROVE  ShapeIInv' /\ TasksOK'
<1>1. /\ j.why = "add" /\ j.step = "done" /\ jobs' = jobs \ {j} /\ calls' \subseteq calls
      /\ UNCHANGED <<worldVars, keepVars, pinVars, emergencyVars, taskVars, left>>
  BY DEF AddEnds, add_returns
<1>2. JobsOK' /\ LockOK' /\ CatalogueOK' /\ KeepsOK' /\ PinsOK' /\ ChangesOK' /\ CopiesOK'
  BY <1>1, RequestOverShape
<1>3. CallsOK'
  BY <1>1 DEF CallsOK, ShapeIInv
<1>4. TasksOK'
  BY <1>1, TasksLess
<1> QED
  BY <1>2, <1>3, <1>4 DEF ShapeIInv

LEMMA PublishesShape ==
    ASSUME ShapeIInv, TasksOK, NEW id \in DOMAIN telling, Publishes(id),
           UNCHANGED <<keepingVars, pinVars, emergencyVars, uploadVars, left>>
    PROVE  ShapeIInv' /\ TasksOK'
<1> USE DEF ShapeIInv
<1>1. UNCHANGED <<catalogue, unread, files, creators, tags, here, held, making_room, jobs, alone, ripe,
                  adopted, changes, pins, queue, wanted_again, availability_changed, losing, letting_go, calls, left>>
  BY DEF keepingVars, worldVars, keepVars, pinVars, emergencyVars, uploadVars
<1>2. JobsOK' /\ LockOK'
  BY <1>1 DEF JobsOK, JobOK, LockOK
<1>3. CatalogueOK'
  BY <1>1, Zenon DEF CatalogueOK
<1>4. KeepsOK'
  BY <1>1, KeepsSame
<1>5. PinsOK' /\ ChangesOK' /\ CopiesOK'
  <2>1. \A why, item : Busy(why, item)' <=> Busy(why, item)
    BY <1>1 DEF Busy
  <2> QED
    BY <1>1, <2>1, OthersShape
<1>6. CallsOK'
  BY <1>1, CallsSame
<1>7. TasksOK'
  BY <1>1, TellTasks
<1> QED
  BY <1>2, <1>3, <1>4, <1>5, <1>6, <1>7

LEMMA ReceivingShape ==
    ASSUME ShapeIInv, TasksOK, Receiving
    PROVE  ShapeIInv' /\ TasksOK'
<1> USE DEF ShapeIInv
<1>1. UNCHANGED <<catalogue, unread, files, creators, tags, here, held, making_room, alone, ripe, taskVars,
                  adopted, changes, pins, queue, wanted_again, availability_changed, losing, letting_go, left>>
  BY DEF Receiving, worldVars, keepVars, pinVars, emergencyVars
<1>2. ASSUME jobs' = jobs, calls' \subseteq Call PROVE ShapeIInv' /\ TasksOK'
  <2>1. CallsOK'
    BY <1>1, <1>2 DEF CallsOK
  <2> HIDE DEF ShapeIInv
  <2> QED
    BY <1>1, <1>2, <2>1, QuietShape DEF ShapeIInv
<1>3. calls \subseteq Call
  BY DEF CallsOK
<1>4. ASSUME NEW u \in Upload, ReceiveEnds(u), jobs' = jobs PROVE ShapeIInv' /\ TasksOK'
  BY <1>2, <1>3, <1>4 DEF ReceiveEnds
<1>5. ASSUME NEW c \in calls, take(c), jobs' = jobs PROVE ShapeIInv' /\ TasksOK'
  <2>1. c \in Call /\ c.to_take \in Seq(Upload) /\ c.to_take # <<>>
    BY <1>3, <1>5 DEF take, Call
  <2>2. Head(c.to_take) \in Upload /\ Tail(c.to_take) \in Seq(Upload)
    BY <2>1, HeadTailProperties
  <2> DEFINE next == [c EXCEPT !.to_take = Tail(@), !.guards = @ \cup {Head(c.to_take)}]
  <2>3. next \in Call
    <3> DEFINE rest == Tail(c.to_take)
               first == Head(c.to_take)
    <3>1. rest \in Seq(Upload) /\ first \in Upload
      BY <2>2
    <3> DEFINE guards == c.guards \cup {first}
    <3>2. next = [c EXCEPT !.to_take = rest, !.guards = guards]
      OBVIOUS
    <3>3. guards \in SUBSET Upload
      BY <2>1, <3>1 DEF Call
    <3> HIDE DEF rest, first, next, guards
    <3>4. [c EXCEPT !.to_take = rest] \in Call
      BY <2>1, <3>1 DEF Call
    <3>5. ASSUME NEW d \in Call PROVE [d EXCEPT !.guards = guards] \in Call
      BY <3>3 DEF Call
    <3>6. [c EXCEPT !.to_take = rest, !.guards = guards] = [[c EXCEPT !.to_take = rest] EXCEPT !.guards = guards]
      OBVIOUS
    <3> QED
      BY <3>2, <3>4, <3>5, <3>6
  <2>4. calls' \subseteq (calls \ {c}) \cup {next}
    BY <1>5 DEF take, CallEnds
  <2> QED
    BY <1>2, <1>3, <1>5, <2>3, <2>4
<1>6. ASSUME NEW c \in calls, Imports(c), jobs' = jobs PROVE ShapeIInv' /\ TasksOK'
  <2>1. [c EXCEPT !.step = "imported"] \in Call
    BY <1>3 DEF Call
  <2>2. calls' \subseteq (calls \ {c}) \cup {[c EXCEPT !.step = "imported"]}
    BY <1>6 DEF Imports, CallEnds
  <2> QED
    BY <1>2, <1>3, <1>6, <2>1, <2>2
<1>7. ASSUME NEW c \in calls, Begins(c) PROVE ShapeIInv' /\ TasksOK'
  <2> DEFINE fs == {FileOf[u] : u \in c.guards}
             new == NewJobOf("add", c.item, "start", fs, {})
  <2>1. c.item \in Item /\ c.guards \subseteq Upload
    BY <1>3 DEF Call
  <2>2. fs \in SUBSET File
    BY <2>1, KeepingNodeAssumption
  <2>3. jobs' = jobs \cup {new} /\ ~ Busy("add", c.item)
    BY <1>7 DEF Begins
  <2> HIDE DEF fs
  <2>4. IsNew(new, "add", c.item, "start", fs)
    <3>1. "add" \in Why /\ {} \in SUBSET Node /\ <<"add", "start">> \in JobSteps
      BY DEF Why, JobSteps
    <3> QED
      BY <2>1, <2>2, <3>1, NewJobs
  <2> HIDE DEF new
  <2>5. /\ JobsOK' /\ LockOK' /\ CatalogueOK' /\ KeepsOK' /\ TasksOK'
        /\ \A why, item : Busy(why, item)' <=> (Busy(why, item) \/ (why = new.why /\ item = new.item))
    BY <1>1, <2>3, <2>4, BegunShape DEF IsNew, Background
  <2>6. PinsOK' /\ ChangesOK' /\ CopiesOK'
    <3>1. \A item \in Item : (Busy("custody", item)' <=> Busy("custody", item)) /\ (Busy("emergency", item)' <=> Busy("emergency", item))
      BY <2>4, <2>5 DEF IsNew
    <3> QED
      BY <1>1, <3>1, OthersShape
  <2>7. CallsOK'
    <3>1. [c EXCEPT !.step = "adding"] \in Call
      BY <1>3 DEF Call
    <3>2. calls' = (calls \ {c}) \cup {[c EXCEPT !.step = "adding"]}
      BY <1>7 DEF Begins
    <3> QED
      BY <1>1, <1>3, <3>1, <3>2 DEF CallsOK
  <2> QED
    BY <2>5, <2>6, <2>7
<1> HIDE DEF ShapeIInv
<1> QED
  BY <1>4, <1>5, <1>6, <1>7, Zenon DEF Receiving

LEMMA AnsweringShape ==
    ASSUME ShapeIInv, TasksOK, Answering
    PROVE  ShapeIInv' /\ TasksOK'
BY RegistersShape, DownloadEndsShape, AddEndsShape, PublishesShape, ReceivingShape, Zenon DEF Answering

-----------------------------------------------------------------------------
(* The projection, and what is told of it.                                 *)

LEMMA TellIs ==
    ASSUME changes \in Seq(Change), NEW change \in Change, Tell(change)
    PROVE  /\ changes' \in Seq(Change)
           /\ lagged => lagged'
           /\ \A k \in DOMAIN changes' : changes'[k] = change \/ \E l \in DOMAIN changes : changes'[k] = changes[l]
           /\ \A l \in DOMAIN changes : lagged' \/ \E k \in DOMAIN changes' : changes'[k] = changes[l]
           /\ \E k \in DOMAIN changes' : changes'[k] = change
<1> DEFINE n == Len(changes)
<1>1. n \in Nat /\ DOMAIN changes = 1 .. n
  OBVIOUS
<1>2. CASE changes' = Append(changes, change) /\ lagged' = lagged
  <2>1. /\ changes' \in Seq(Change) /\ DOMAIN changes' = 1 .. n + 1 /\ changes'[n + 1] = change
        /\ \A k \in 1 .. n : changes'[k] = changes[k]
    BY <1>2
  <2>2. 1 .. n + 1 = (1 .. n) \cup {n + 1}
    BY <1>1
  <2> HIDE DEF n
  <2> QED
    BY <1>1, <1>2, <2>1, <2>2
<1>3. CASE n >= CHANGES_WAITING /\ changes' = Append(Tail(changes), change) /\ lagged' = TRUE
  <2>1. changes # <<>>
    BY <1>3, PinsAssumption
  <2> DEFINE rest == Tail(changes)
  <2>2. rest \in Seq(Change) /\ Len(rest) = n - 1 /\ \A k \in 1 .. n - 1 : rest[k] = changes[k + 1]
    BY <2>1, HeadTailProperties
  <2>3. n - 1 \in Nat /\ n \in Nat
    BY <1>1, <1>3, PinsAssumption
  <2>4. changes' = Append(rest, change)
    BY <1>3
  <2> HIDE DEF rest
  <2>5. /\ changes' \in Seq(Change) /\ DOMAIN changes' = 1 .. n /\ changes'[n] = change
        /\ \A k \in 1 .. n - 1 : changes'[k] = rest[k]
    BY <2>2, <2>3, <2>4
  <2>6. n \in 1 .. n /\ \A k \in 1 .. n : k = n \/ (k \in 1 .. n - 1 /\ k + 1 \in 1 .. n)
    BY <2>3
  <2>7. lagged' = TRUE
    BY <1>3
  <2> HIDE DEF n
  <2> QED
    BY <1>1, <2>2, <2>5, <2>6, <2>7
<1>4. (n < CHANGES_WAITING) \/ n >= CHANGES_WAITING
  BY <1>1, PinsAssumption
<1> QED
  BY <1>2, <1>3, <1>4 DEF Tell

LEMMA ToldChanges ==
    ASSUME ChangesOK, NEW change \in Change, Tell(change), pins' = pins,
           change.kind = "recomputed" => change.items = Item,
           \A item \in change.items : change.kind = "mine" => files'[item] # {},
           \A item \in Item : files[item] # {} => files'[item] # {}
    PROVE  ChangesOK'
<1>1. /\ changes' \in Seq(Change)
      /\ \A k \in DOMAIN changes' : changes'[k] = change \/ \E l \in DOMAIN changes : changes'[k] = changes[l]
  BY TellIs DEF ChangesOK
<1>2. \A l \in DOMAIN changes :
          /\ changes[l].kind = "recomputed" => changes[l].items = Item
          /\ \A item \in changes[l].items : changes[l].kind = "mine" => files'[item] # {}
  <2>1. ASSUME NEW l \in DOMAIN changes
        PROVE  /\ changes[l].kind = "recomputed" => changes[l].items = Item
               /\ \A item \in changes[l].items : changes[l].kind = "mine" => files[item] # {}
    BY <2>1 DEF ChangesOK
  <2>2. \A l \in DOMAIN changes : changes[l].items \subseteq Item
    <3>1. \A one \in Change : one.items \subseteq Item
      BY Zenon DEF Change
    <3>2. \A l \in DOMAIN changes : changes[l] \in Change
      BY DEF ChangesOK
    <3> QED
      BY <3>1, <3>2, Zenon
  <2> QED
    BY <2>1, <2>2
<1>3. \A k \in DOMAIN changes' :
          /\ changes'[k].kind = "recomputed" => changes'[k].items = Item
          /\ \A item \in changes'[k].items : changes'[k].kind = "mine" => files'[item] # {}
  <2> SUFFICES ASSUME NEW k \in DOMAIN changes'
               PROVE  /\ changes'[k].kind = "recomputed" => changes'[k].items = Item
                      /\ \A item \in changes'[k].items : changes'[k].kind = "mine" => files'[item] # {}
    OBVIOUS
  <2>1. CASE changes'[k] = change
    BY <2>1
  <2>2. CASE \E l \in DOMAIN changes : changes'[k] = changes[l]
    BY <1>2, <2>2, Zenon
  <2> QED
    BY <1>1, <2>1, <2>2
<1>4. \A item \in Item : pins'[item] # "none" => files'[item] # {}
  BY DEF ChangesOK
<1> QED
  BY <1>1, <1>3, <1>4, Zenon DEF ChangesOK

LEMMA ProjectsShape ==
    ASSUME ShapeIInv, TasksOK, NEW item \in Item, Projects(item)
    PROVE  ShapeIInv' /\ TasksOK'
<1> USE DEF ShapeIInv
<1> DEFINE new == NewJobOf("projection", item, "recheck", catalogue[item].files, catalogue[item].creators)
<1>1. /\ item \in unread /\ ~ Busy("projection", item) /\ unread' = unread \ {item} /\ jobs' = jobs \cup {new}
      /\ UNCHANGED <<catalogue, files, creators, membership, online, holders, unknown, keepVars, pinVars, emergencyVars, apiVars, left>>
  BY Zenon DEF Projects
<1>2. UNCHANGED <<catalogue, files, creators, tags, here, held, making_room, alone, ripe, taskVars,
                  adopted, changes, pins, queue, wanted_again, availability_changed, losing, letting_go, calls, left>>
  BY <1>1 DEF keepVars, pinVars, emergencyVars, apiVars, uploadVars
<1>3. catalogue[item].files \in SUBSET File /\ catalogue[item].creators \in SUBSET Node /\ catalogue[item].files # {}
  BY <1>1 DEF CatalogueOK
<1>4. IsNew(new, "projection", item, "recheck", catalogue[item].files)
  <2>1. "projection" \in Why /\ <<"projection", "recheck">> \in JobSteps
    BY DEF Why, JobSteps
  <2> QED
    BY <1>3, <2>1, NewJobs
<1> HIDE DEF new
<1>5. /\ JobsOK' /\ LockOK'
      /\ \A why, other : Busy(why, other)' <=> (Busy(why, other) \/ (why = new.why /\ other = new.item))
  BY <1>1, <1>2, <1>4, BegunJobs DEF IsNew
<1>6. CatalogueOK'
  <2>1. ASSUME NEW k \in jobs', k.why = "projection"
        PROVE  k.files # {} /\ files[k.item] \subseteq k.files /\ k.files \subseteq catalogue[k.item].files
    BY <1>1, <1>3, <1>4, <2>1 DEF IsNew, CatalogueOK
  <2> QED
    BY <1>1, <1>2, <2>1 DEF CatalogueOK
<1>7. KeepsOK'
  BY <1>2, KeepsSame
<1>8. PinsOK' /\ ChangesOK' /\ CopiesOK'
  <2>1. \A other \in Item : (Busy("custody", other)' <=> Busy("custody", other)) /\ (Busy("emergency", other)' <=> Busy("emergency", other))
    BY <1>4, <1>5 DEF IsNew
  <2> QED
    BY <1>2, <2>1, OthersShape
<1>9. TasksOK'
  <2> DEFINE S == {new}
  <2>1. jobs' = jobs \cup S /\ \A k \in S : k.task = 0 /\ ~(k.why = "download" /\ k.step \in Background)
    BY <1>1, <1>4 DEF IsNew
  <2> HIDE DEF S
  <2> QED
    BY <1>2, <2>1, TasksMore
<1>10. CallsOK'
  BY <1>2, CallsSame
<1> QED
  BY <1>5, <1>6, <1>7, <1>8, <1>9, <1>10

\* What a row changes.
RowIs(j, change) ==
    /\ j.why = "projection" /\ j.step = "row" /\ jobs' = jobs \ {j}
    /\ files' = [files EXCEPT ![j.item] = j.files] /\ creators' = [creators EXCEPT ![j.item] = j.creators]
    /\ change \in Change /\ change.items = {j.item} /\ change.kind # "recomputed" /\ Tell(change)
    /\ UNCHANGED <<catalogue, unread, keepVars, adopted, pins, queue, wanted_again, availability_changed, losing, letting_go,
                   crossed, unheard, emergencyVars, apiVars, left>>

LEMMA ProjectedIs ==
    ASSUME JobsOK, NEW j \in jobs, Projected(j)
    PROVE  \E change : RowIs(j, change)
<1> DEFINE mine == \E group \in adopted : is_custodian(group, j.item, [creators |-> j.creators, size_bytes |-> 0], me)
           change == [kind |-> IF mine THEN "mine" ELSE "not mine", items |-> {j.item}]
<1>1. j.item \in Item
  BY DEF JobsOK, JobOK, Job
<1>2. /\ j.why = "projection" /\ j.step = "row" /\ jobs' = jobs \ {j}
      /\ files' = [files EXCEPT ![j.item] = j.files] /\ creators' = [creators EXCEPT ![j.item] = j.creators]
      /\ Tell(change)
      /\ UNCHANGED <<catalogue, unread, keepVars, adopted, pins, queue, wanted_again, availability_changed, losing, letting_go,
                     crossed, unheard, emergencyVars, apiVars, left>>
  BY Zenon DEF Projected
<1> HIDE DEF mine
<1>3. change \in Change /\ change.items = {j.item} /\ change.kind # "recomputed"
  BY <1>1 DEF Change
<1> HIDE DEF change
<1> QED
  BY <1>2, <1>3, Zenon DEF RowIs

LEMMA ProjectedShape ==
    ASSUME ShapeIInv, TasksOK, NEW j \in jobs, Projected(j)
    PROVE  ShapeIInv' /\ TasksOK'
<1> USE DEF ShapeIInv
<1>1. PICK change : RowIs(j, change)
  BY ProjectedIs
<1>2. /\ UNCHANGED <<catalogue, unread, tags, here, held, making_room, alone, ripe, taskVars,
                     adopted, pins, queue, wanted_again, availability_changed, losing, letting_go, calls, left>>
      /\ j.why = "projection" /\ j.step = "row" /\ jobs' = jobs \ {j}
      /\ files' = [files EXCEPT ![j.item] = j.files] /\ creators' = [creators EXCEPT ![j.item] = j.creators]
  BY <1>1 DEF RowIs, keepVars, emergencyVars, apiVars, uploadVars
<1>3. /\ j.item \in Item /\ j.files \in SUBSET File /\ j.creators \in SUBSET Node
      /\ j.files # {} /\ files[j.item] \subseteq j.files /\ j.files \subseteq catalogue[j.item].files
  <2>1. j.item \in Item /\ j.files \in SUBSET File /\ j.creators \in SUBSET Node
    BY DEF JobsOK, JobOK, Job
  <2> QED
    BY <1>2, <2>1 DEF CatalogueOK
<1>4. /\ files' \in [Item -> SUBSET File] /\ creators' \in [Item -> SUBSET Node]
      /\ files'[j.item] = j.files /\ \A item \in Item \ {j.item} : files'[item] = files[item]
  BY <1>2, <1>3 DEF CatalogueOK
<1>5. /\ JobsOK' /\ LockOK'
      /\ \A why, item : Busy(why, item)' <=> (Busy(why, item) /\ ~(why = j.why /\ item = j.item))
  BY <1>2, OverJobs
<1>6. CatalogueOK'
  <2>1. ASSUME NEW k \in jobs', k.why = "projection"
        PROVE  k.files # {} /\ files'[k.item] \subseteq k.files /\ k.files \subseteq catalogue[k.item].files
    <3>1. k \in jobs /\ k # j /\ j.why = "projection"
      BY <1>2, <2>1
    <3>2. k.item \in Item
      BY <3>1 DEF JobsOK, JobOK, Job
    <3>3. k.item # j.item
      BY <2>1, <3>1 DEF JobsOK
    <3> QED
      BY <1>4, <2>1, <3>1, <3>2, <3>3 DEF CatalogueOK
  <2>2. \A item \in Item : files'[item] \subseteq catalogue[item].files
    BY <1>3, <1>4 DEF CatalogueOK
  <2> QED
    BY <1>2, <1>4, <2>1, <2>2 DEF CatalogueOK
<1>7. KeepsOK'
  <2>1. \A item \in Item : files[item] \subseteq files'[item]
    BY <1>3, <1>4
  <2>2. \A item \in Item : kept_for("custody", item)' = kept_for("custody", item)
    BY <1>2 DEF kept_for
  <2> QED
    BY <1>2, <2>1, <2>2 DEF KeepsOK
<1>8. PinsOK' /\ CopiesOK'
  <2>1. \A item \in Item : (Busy("custody", item)' <=> Busy("custody", item)) /\ (Busy("emergency", item)' <=> Busy("emergency", item))
    BY <1>2, <1>5
  <2>2. PinsOK'
    BY <1>2, <2>1 DEF PinsOK, Fetching
  <2>3. CopiesOK'
    BY <1>2, <2>1 DEF CopiesOK, EmergencyTypeOK
  <2> QED
    BY <2>2, <2>3
<1>9. ChangesOK'
  <2>1. change \in Change /\ Tell(change) /\ pins' = pins /\ change.kind # "recomputed" /\ change.items = {j.item}
    BY <1>1, Zenon DEF RowIs
  <2>2. \A item \in change.items : files'[item] # {}
    BY <1>3, <1>4, <2>1
  <2>3. \A item \in Item : files[item] # {} => files'[item] # {}
    BY <1>3, <1>4
  <2> QED
    BY <2>1, <2>2, <2>3, ToldChanges
<1>10. TasksOK'
  BY <1>2, TasksLess
<1>11. CallsOK'
  BY <1>2, CallsSame
<1> QED
  BY <1>5, <1>6, <1>7, <1>8, <1>9, <1>10, <1>11

LEMMA ProjectingShape ==
    ASSUME ShapeIInv, TasksOK, Projecting
    PROVE  ShapeIInv' /\ TasksOK'
BY ProjectsShape, ProjectedShape, Zenon DEF Projecting

LEMMA CollectingShape ==
    ASSUME ShapeIInv, TasksOK, Collecting
    PROVE  ShapeIInv' /\ TasksOK'
<1> USE DEF ShapeIInv
<1>1. UNCHANGED <<catalogue, unread, files, creators, tags, held, making_room, jobs, alone, ripe, taskVars,
                  adopted, changes, pins, queue, wanted_again, availability_changed, losing, letting_go, calls, left>>
  BY DEF Collecting, Collects, worldVars, pinVars, emergencyVars, apiVars, uploadVars
<1>2. here' \in [File -> {"absent", "partial", "complete"}]
  <2>1. PICK gone : here' = [f \in File |-> IF f \in gone THEN "absent" ELSE here[f]]
    BY Zenon DEF Collecting, Collects
  <2> QED
    BY <2>1 DEF KeepsOK
<1>3. JobsOK' /\ LockOK'
  BY <1>1 DEF JobsOK, JobOK, LockOK
<1>4. CatalogueOK'
  BY <1>1, Zenon DEF CatalogueOK
<1>5. KeepsOK'
  BY <1>1, <1>2 DEF KeepsOK, kept_for
<1>6. PinsOK' /\ ChangesOK' /\ CopiesOK'
  <2>1. \A why, item : Busy(why, item)' <=> Busy(why, item)
    BY <1>1 DEF Busy
  <2> QED
    BY <1>1, <2>1, OthersShape
<1>7. CallsOK'
  BY <1>1, CallsSame
<1>8. TasksOK'
  BY <1>1 DEF TasksOK, taskVars
<1> QED
  BY <1>3, <1>4, <1>5, <1>6, <1>7, <1>8

-----------------------------------------------------------------------------
(* What else happens.                                                      *)

\* A bounded event spends no request.
Spent == left' = left \/ \E what : what # "calls" /\ left' = [left EXCEPT ![what] = @ - 1]

LEMMA SpentIs ==
    ASSUME NEW what, what # "calls", Spends(what)
    PROVE  Spent
BY Zenon DEF Spends, Spent

LEMMA EventsShape ==
    ASSUME ShapeIInv, TasksOK, AvailabilityMoves \/ NeedsUpgrade
    PROVE  ShapeIInv' /\ TasksOK'
<1>1. UNCHANGED <<catalogue, unread, files, creators, tags, here, held, making_room, jobs, alone, ripe, taskVars,
                  adopted, changes, pins, queue, wanted_again, availability_changed, losing, letting_go, calls>>
  <2>1. CASE AvailabilityMoves
    BY <2>1, Zenon DEF AvailabilityMoves, keepVars, apiVars, uploadVars
  <2>2. CASE NeedsUpgrade
    <3>1. UNCHANGED <<keepingVars, adopted, changes, pins, queue, wanted_again,
                      availability_changed, losing, letting_go, emergencyVars, apiVars>>
      BY <2>2, Zenon DEF NeedsUpgrade
    <3> QED
      BY <3>1, Zenon DEF keepingVars, worldVars, keepVars, emergencyVars, apiVars, uploadVars
  <2> QED
    BY <2>1, <2>2
<1>2. Spent
  BY SpentIs, Zenon DEF AvailabilityMoves, NeedsUpgrade
<1>3. CallsOK'
  BY <1>1, <1>2, CallsSame DEF ShapeIInv, Spent
<1> QED
  BY <1>1, <1>3, QuietShape

LEMMA RecomputesShape ==
    ASSUME ShapeIInv, TasksOK, Recomputes
    PROVE  ShapeIInv' /\ TasksOK'
<1> USE DEF ShapeIInv
<1> DEFINE change == [kind |-> "recomputed", items |-> Item]
<1>1. /\ UNCHANGED <<catalogue, unread, files, creators, keepVars, jobs, pins, queue, wanted_again,
                     availability_changed, losing, letting_go, emergencyVars, apiVars>>
      /\ Tell(change) /\ adopted' = {membership'}
  BY Zenon DEF Recomputes
<1>2. UNCHANGED <<catalogue, unread, files, creators, tags, here, held, making_room, jobs, alone, ripe, taskVars, calls>>
  BY <1>1 DEF keepVars, emergencyVars, apiVars, uploadVars
<1>3. JobsOK' /\ LockOK' /\ CatalogueOK' /\ KeepsOK' /\ CopiesOK' /\ TasksOK'
  <2> HIDE DEF ShapeIInv
  <2> QED
    BY <1>2, FrameShape
<1>4. PinsOK'
  BY <1>1 DEF PinsOK, Fetching, Busy
<1>5. change \in Change /\ change.kind = "recomputed" /\ change.items = Item
  BY DEF Change
<1> HIDE DEF change
<1>6. ChangesOK'
  <2>1. \A item \in change.items : change.kind = "mine" => files'[item] # {}
    BY <1>5
  <2> QED
    BY <1>1, <1>5, <2>1, ToldChanges
<1>7. Spent
  BY SpentIs, Zenon DEF Recomputes
<1>8. CallsOK'
  BY <1>2, <1>7, CallsSame DEF Spent
<1> QED
  BY <1>3, <1>4, <1>6, <1>8

LEMMA FileAddedShape ==
    ASSUME ShapeIInv, TasksOK, NEW item \in Item, NEW f \in File, FileAdded(item, f)
    PROVE  ShapeIInv' /\ TasksOK'
<1> USE DEF ShapeIInv
<1>1. /\ catalogue[item].files # {} /\ catalogue' = [catalogue EXCEPT ![item].files = @ \cup {f}] /\ unread' = unread \cup {item}
      /\ UNCHANGED <<files, creators, keepVars, jobs, pinVars, emergencyVars, apiVars>>
  BY Zenon DEF FileAdded
<1>2. UNCHANGED <<files, creators, tags, here, held, making_room, jobs, alone, ripe, taskVars,
                  adopted, changes, pins, queue, wanted_again, availability_changed, losing, letting_go, calls>>
  BY <1>1 DEF keepVars, pinVars, emergencyVars, apiVars, uploadVars
<1>3. /\ catalogue' \in [Item -> [files : SUBSET File, creators : SUBSET Node]]
      /\ \A other \in Item : catalogue[other].files \subseteq catalogue'[other].files
  BY <1>1 DEF CatalogueOK
<1>4. JobsOK' /\ LockOK'
  BY <1>2 DEF JobsOK, JobOK, LockOK
<1>5. CatalogueOK'
  <2>1. \A other \in Item : files[other] \subseteq catalogue'[other].files
    BY <1>3 DEF CatalogueOK
  <2>2. unread' \subseteq Item /\ \A other \in unread' : catalogue'[other].files # {}
    BY <1>1, <1>3 DEF CatalogueOK
  <2>3. ASSUME NEW k \in jobs, k.why = "projection"
        PROVE  k.files # {} /\ files[k.item] \subseteq k.files /\ k.files \subseteq catalogue'[k.item].files
    <3>1. k.item \in Item
      BY DEF JobsOK, JobOK, Job
    <3> QED
      BY <1>3, <2>3, <3>1 DEF CatalogueOK
  <2> QED
    BY <1>2, <1>3, <2>1, <2>2, <2>3 DEF CatalogueOK
<1>6. KeepsOK'
  BY <1>2, KeepsSame
<1>7. PinsOK' /\ ChangesOK' /\ CopiesOK'
  <2>1. \A why, other : Busy(why, other)' <=> Busy(why, other)
    BY <1>2 DEF Busy
  <2> QED
    BY <1>2, <2>1, OthersShape
<1>8. TasksOK'
  BY <1>2 DEF TasksOK, taskVars
<1>9. Spent
  BY SpentIs, Zenon DEF FileAdded
<1>10. CallsOK'
  BY <1>2, <1>9, CallsSame DEF Spent
<1> QED
  BY <1>4, <1>5, <1>6, <1>7, <1>8, <1>10

\* A download or an add is asked for.
LEMMA RequestsShape ==
    ASSUME ShapeIInv, TasksOK, NEW item \in Item,
           Downloads(item) \/ \E fs \in SUBSET File : Adds(item, fs)
    PROVE  ShapeIInv' /\ TasksOK'
<1> USE DEF ShapeIInv
<1>1. PICK why \in {"download", "add"}, fs \in SUBSET File :
          ~ Busy(why, item) /\ jobs' = jobs \cup {NewJobOf(why, item, "start", fs, {})}
  <2>1. CASE Downloads(item)
    <3>1. ~ Busy("download", item) /\ jobs' = jobs \cup {NewJobOf("download", item, "start", {}, {})}
      BY <2>1, Zenon DEF Downloads, NewJob
    <3> QED
      BY <3>1
  <2>2. ASSUME NEW fs \in SUBSET File, Adds(item, fs) 
        PROVE  ~ Busy("add", item) /\ jobs' = jobs \cup {NewJobOf("add", item, "start", fs, {})}
    BY <2>2, Zenon DEF Adds
  <2> QED
    BY <2>1, <2>2
<1> DEFINE new == NewJobOf(why, item, "start", fs, {})
<1>2. IsNew(new, why, item, "start", fs)
  <2>1. why \in Why /\ {} \in SUBSET Node /\ <<why, "start">> \in JobSteps
    BY DEF Why, JobSteps
  <2> QED
    BY <2>1, NewJobs
<1>3. jobs' = jobs \cup {new}
  BY <1>1
<1> HIDE DEF new
<1>4. UNCHANGED <<worldVars, keepVars, pinVars, emergencyVars, apiVars>>
  BY Zenon DEF Downloads, Adds
<1>5. UNCHANGED <<catalogue, unread, files, creators, tags, here, held, making_room, alone, ripe, taskVars,
                  adopted, changes, pins, queue, wanted_again, availability_changed, losing, letting_go, calls>>
  BY <1>4 DEF worldVars, keepVars, pinVars, emergencyVars, apiVars, uploadVars
<1>6. /\ JobsOK' /\ LockOK' /\ CatalogueOK' /\ KeepsOK' /\ TasksOK'
      /\ \A some, other : Busy(some, other)' <=> (Busy(some, other) \/ (some = new.why /\ other = new.item))
  <2>1. JobOK(new) /\ new.step = "start" /\ new.task = 0 /\ new.why # "projection" /\ ~ Busy(new.why, new.item)
    BY <1>1, <1>2 DEF IsNew
  <2>2. new.step # "evict" /\ new.step \notin Background
    BY <2>1 DEF Background
  <2> HIDE DEF ShapeIInv
  <2> QED
    BY <1>3, <1>5, <2>1, <2>2, BegunShape
<1>7. PinsOK' /\ ChangesOK' /\ CopiesOK'
  <2>1. \A other \in Item : (Busy("custody", other)' <=> Busy("custody", other)) /\ (Busy("emergency", other)' <=> Busy("emergency", other))
    BY <1>2, <1>6 DEF IsNew
  <2> QED
    BY <1>5, <2>1, OthersShape
<1>8. Spent
  BY SpentIs, Zenon DEF Downloads, Adds
<1>9. CallsOK'
  BY <1>5, <1>8, CallsSame DEF Spent
<1> QED
  BY <1>6, <1>7, <1>9

LEMMA UploadingShape ==
    ASSUME ShapeIInv, TasksOK, Uploading
    PROVE  ShapeIInv' /\ TasksOK'
<1>1. UNCHANGED <<keepingVars, pinVars, emergencyVars, taskVars>>
  BY Zenon DEF Uploading
<1>2. UNCHANGED <<catalogue, unread, files, creators, tags, here, held, making_room, jobs, alone, ripe, taskVars,
                  adopted, changes, pins, queue, wanted_again, availability_changed, losing, letting_go>>
  BY <1>1 DEF keepingVars, worldVars, keepVars, pinVars, emergencyVars
<1>3. CallsOK
  BY DEF ShapeIInv
<1>4. CASE \E u \in Upload : Spends("uploads") /\ receive(u)
  <2>1. Spent /\ calls' = calls
    BY <1>4, SpentIs, Zenon DEF receive
  <2>2. CallsOK'
    BY <1>3, <2>1, CallsSame DEF Spent
  <2> QED
    BY <1>2, <2>2, QuietShape
<1>5. CASE /\ left.calls # <<>>
           /\ AddsUploads(Len(left.calls), Head(left.calls).item, Head(left.calls).uploads)
           /\ left' = [left EXCEPT !.calls = Tail(@)]
  <2> DEFINE first == Head(left.calls)
             new == [id |-> Len(left.calls), item |-> first.item, to_take |-> first.uploads, guards |-> {}, step |-> "take"]
  <2>1. first \in Request /\ Tail(left.calls) \in Seq(Request) /\ Len(left.calls) \in Nat
    BY <1>3, <1>5, HeadTailProperties DEF CallsOK
  <2>2. new \in Call
    <3> HIDE DEF first
    <3> QED
      BY <2>1 DEF Call, Request
  <2>3. calls' = calls \cup {new}
    BY <1>5, Zenon DEF AddsUploads
  <2> HIDE DEF new, first
  <2>4. left'.calls = Tail(left.calls) /\ "calls" \in DOMAIN left'
    BY <1>3, <1>5 DEF CallsOK
  <2>5. CallsOK'
    BY <1>3, <2>1, <2>2, <2>3, <2>4 DEF CallsOK
  <2> QED
    BY <1>2, <2>5, QuietShape
<1> QED
  BY <1>4, <1>5, Zenon DEF Uploading

LEMMA LeavesShape ==
    ASSUME ShapeIInv, TasksOK, Leaves
    PROVE  ShapeIInv' /\ TasksOK'
<1> USE DEF ShapeIInv
<1>1. PICK c \in calls : Abandons(c)
  BY Zenon DEF Leaves
<1>2. UNCHANGED <<worldVars, tags, here, held, used, overtaken, evicted, pinVars, emergencyVars, taskVars>>
  BY Zenon DEF Leaves
<1>3. UNCHANGED <<catalogue, unread, files, creators, tags, here, held, alone, ripe, taskVars,
                  adopted, changes, pins, queue, wanted_again, availability_changed, losing, letting_go>>
  BY <1>2 DEF worldVars, pinVars, emergencyVars
<1>4. \/ jobs' = {j \in jobs : j.why # "add" \/ j.item # c.item} /\ making_room' = making_room \ {<<"add", c.item>>}
      \/ jobs' = jobs /\ making_room' = making_room
  BY <1>1, Zenon DEF Abandons
<1>5. jobs' \subseteq jobs /\ \A j \in jobs : j.why # "add" => j \in jobs'
  BY <1>4
<1>6. JobsOK'
  BY <1>5 DEF JobsOK, JobOK
<1>7. LockOK'
  <2>1. CASE jobs' = {j \in jobs : j.why # "add" \/ j.item # c.item} /\ making_room' = making_room \ {<<"add", c.item>>}
    BY <2>1 DEF LockOK
  <2>2. CASE jobs' = jobs /\ making_room' = making_room
    BY <2>2 DEF LockOK
  <2> QED
    BY <1>4, <2>1, <2>2
<1>8. CatalogueOK'
  BY <1>3, <1>5, CatalogueLess
<1>9. KeepsOK'
  BY <1>3, KeepsSame
<1>10. PinsOK' /\ ChangesOK' /\ CopiesOK'
  <2>1. \A item \in Item : (Busy("custody", item)' <=> Busy("custody", item)) /\ (Busy("emergency", item)' <=> Busy("emergency", item))
    BY <1>5 DEF Busy
  <2> QED
    BY <1>3, <2>1, OthersShape
<1>11. TasksOK'
  BY <1>3, <1>5, TasksLess
<1>12. CallsOK'
  <2>1. calls' \subseteq calls
    BY <1>1 DEF Abandons, CallEnds
  <2>2. Spent
    BY SpentIs, Zenon DEF Leaves
  <2> QED
    BY <2>1, <2>2 DEF CallsOK, Spent
<1> QED
  BY <1>6, <1>7, <1>8, <1>9, <1>10, <1>11, <1>12

LEMMA PanicsShape ==
    ASSUME ShapeIInv, TasksOK, NEW j \in jobs, Panics(j)
    PROVE  ShapeIInv' /\ TasksOK'
<1>1. Spent
  BY SpentIs, Zenon DEF Panics
<1>2. CASE fetch_panicked(j) /\ UNCHANGED <<emergencyVars, apiVars>>
  BY <1>1, <1>2, FetchOverShape DEF Spent
<1>3. CASE CopyPanics(j) /\ UNCHANGED <<pinVars, apiVars>>
  BY <1>1, <1>3, CopyOverShape DEF Spent
<1>4. CASE /\ j.why = "download" /\ j.step = "fetch"
           /\ jobs' = jobs \ {j}
           /\ end(j.task, "Failed")
           /\ UNCHANGED <<worldVars, keepVars, pinVars, emergencyVars, uploadVars>>
  <2>1. JobsOK' /\ LockOK' /\ CatalogueOK' /\ KeepsOK' /\ PinsOK' /\ ChangesOK' /\ CopiesOK'
    BY <1>4, RequestOverShape
  <2>2. j.task # 0
    BY <1>4 DEF TasksOK
  <2>3. TasksOK'
    BY <1>4, <2>2, EndTasks
  <2>4. CallsOK'
    BY <1>1, <1>4, CallsSame DEF ShapeIInv, Spent, uploadVars
  <2> QED
    BY <2>1, <2>3, <2>4 DEF ShapeIInv
<1> QED
  BY <1>2, <1>3, <1>4, Zenon DEF Panics

\* Where a node begins, and begins again.
Fresh ==
    /\ jobs = {} /\ making_room = {} /\ unread = {}
    /\ files = [item \in Item |-> catalogue[item].files]
    /\ creators = [item \in Item |-> catalogue[item].creators]
    /\ held = {item \in Item : Whole(item, files[item])}
    /\ pins = [item \in Item |-> IF kept_for("custody", item) # {} THEN "Kept" ELSE "none"]
    /\ changes = <<[kind |-> "recomputed", items |-> Item]>>
    /\ queue = <<>> /\ wanted_again = {} /\ availability_changed = {}
    /\ losing = {} /\ letting_go = {}
    /\ alone = [item \in Item |-> "none"] /\ ripe = {}
    /\ registered = <<>> /\ next_task = 0 /\ telling = <<>> /\ told = <<>>

FreshIn ==
    /\ Fresh /\ adopted # {} /\ CallsOK
    /\ catalogue \in [Item -> [files : SUBSET File, creators : SUBSET Node]]
    /\ tags \subseteq Reason \X Item \X File /\ here \in [File -> {"absent", "partial", "complete"}]
    /\ \A item \in Item : kept_for("custody", item) \subseteq catalogue[item].files

LEMMA FreshShape == FreshIn => ShapeIInv /\ TasksOK
<1> SUFFICES ASSUME FreshIn PROVE ShapeIInv /\ TasksOK
  OBVIOUS
<1> USE DEF Fresh, FreshIn
<1>1. JobsOK /\ LockOK
  BY DEF JobsOK, LockOK
<1>2. CatalogueOK
  BY DEF CatalogueOK
<1>3. KeepsOK
  <2>1. \A item \in Item : files[item] = catalogue[item].files
    OBVIOUS
  <2>2. held \subseteq Item
    OBVIOUS
  <2> QED
    BY <2>1, <2>2 DEF KeepsOK
<1>4. PinsOK
  <2>1. pins \in [Item -> Pin] /\ \A item \in Item : pins[item] \in {"Kept", "none"}
    BY DEF Pin
  <2>2. QueuedItems = {} /\ FetchingItems = {}
    BY <2>1 DEF QueuedItems, FetchingItems
  <2>3. Lists(queue, QueuedItems)
    BY <2>2, ListsNone
  <2>4. Cardinality(FetchingItems) <= max_fetches
    BY <2>2, FS_EmptySet, PinsAssumption
  <2>5. \A item \in Item : ~ Busy("custody", item)
    BY DEF Busy
  <2>6. losing = {} /\ letting_go = {} /\ wanted_again = {} /\ availability_changed = {}
    OBVIOUS
  <2>7. adopted # {}
    OBVIOUS
  <2> HIDE DEF Fresh, FreshIn
  <2> QED
    BY <2>7, <2>1, <2>3, <2>4, <2>5, <2>6 DEF PinsOK, QueuedItems, FetchingItems, Fetching
<1>5. ChangesOK
  <2> DEFINE change == [kind |-> "recomputed", items |-> Item]
  <2>1. change \in Change /\ change.kind = "recomputed" /\ change.items = Item
    BY DEF Change
  <2>2. changes = <<change>>
    OBVIOUS
  <2> HIDE DEF change
  <2>3. changes \in Seq(Change) /\ DOMAIN changes = {1} /\ changes[1] = change
    BY <2>1, <2>2
  <2>4. \A item \in Item : pins[item] # "none" => files[item] # {}
    OBVIOUS
  <2> HIDE DEF Fresh, FreshIn
  <2> QED
    BY <2>1, <2>3, <2>4 DEF ChangesOK
<1>6. CopiesOK
  BY DEF CopiesOK, EmergencyTypeOK, Busy
<1>7. TasksOK
  BY DEF TasksOK
<1> QED
  BY <1>1, <1>2, <1>3, <1>4, <1>5, <1>6, <1>7 DEF ShapeIInv

LEMMA FreshAgain == FreshIn' => (ShapeIInv /\ TasksOK)'
BY FreshShape, PTL

LEMMA RestartsFresh ==
    ASSUME Restarts
    PROVE  Fresh'
<1>1. /\ jobs' = {} /\ making_room' = {} /\ unread' = {}
      /\ files' = [item \in Item |-> catalogue[item].files]
      /\ creators' = [item \in Item |-> catalogue[item].creators]
      /\ held' = {item \in Item : Whole(item, catalogue[item].files)}
      /\ pins' = [item \in Item |-> IF kept_for("custody", item) # {} THEN "Kept" ELSE "none"]
      /\ changes' = <<[kind |-> "recomputed", items |-> Item]>>
      /\ queue' = <<>> /\ wanted_again' = {} /\ availability_changed' = {}
      /\ losing' = {} /\ letting_go' = {}
      /\ alone' = [item \in Item |-> "none"] /\ ripe' = {}
      /\ registered' = <<>> /\ next_task' = 0 /\ telling' = <<>> /\ told' = <<>>
      /\ UNCHANGED <<catalogue, tags, here>>
  BY Zenon DEF Restarts
<1>2. \A item : kept_for("custody", item)' = kept_for("custody", item)
  BY <1>1 DEF kept_for
<1>3. \A item, fs : Whole(item, fs)' <=> Whole(item, fs)
  BY <1>1 DEF Whole
<1>4. \A item \in Item : files'[item] = catalogue[item].files
  BY <1>1
<1>5. held' = {item \in Item : Whole(item, files[item])'}
  <2>1. \A item \in Item : Whole(item, files[item])' <=> Whole(item, catalogue[item].files)
    BY <1>1, <1>4 DEF Whole
  <2> QED
    BY <1>1, <2>1
<1>6. pins' = [item \in Item |-> IF kept_for("custody", item)' # {} THEN "Kept" ELSE "none"]
  BY <1>1, <1>2
<1>7. UNCHANGED catalogue
  BY <1>1
<1> QED
  BY <1>1, <1>5, <1>6, <1>7, Zenon DEF Fresh

LEMMA RestartsShape ==
    ASSUME ShapeIInv, TasksOK, Restarts
    PROVE  ShapeIInv' /\ TasksOK'
<1> USE DEF ShapeIInv
<1>1. Fresh'
  BY RestartsFresh
<1>2. UNCHANGED <<catalogue, tags, here, adopted>> /\ calls' = {}
  BY Zenon DEF Restarts, opens
<1>3. Spent
  BY SpentIs, Zenon DEF Restarts
<1>4. CallsOK'
  BY <1>2, <1>3 DEF CallsOK, Spent
<1>5. \A item \in Item : kept_for("custody", item)' \subseteq catalogue'[item].files
  BY <1>2 DEF KeepsOK, CatalogueOK, kept_for
<1>6. /\ adopted' # {} /\ catalogue' \in [Item -> [files : SUBSET File, creators : SUBSET Node]]
      /\ tags' \subseteq Reason \X Item \X File /\ here' \in [File -> {"absent", "partial", "complete"}]
  BY <1>2 DEF PinsOK, CatalogueOK, KeepsOK
<1> HIDE DEF ShapeIInv
<1>7. FreshIn'
  BY <1>1, <1>4, <1>5, <1>6 DEF FreshIn
<1> QED
  BY <1>7, FreshAgain

LEMMA HappensShape ==
    ASSUME ShapeIInv, TasksOK, Happens
    PROVE  ShapeIInv' /\ TasksOK'
BY EventsShape, RecomputesShape, RestartsShape, UploadingShape, LeavesShape, RequestsShape, FileAddedShape, PanicsShape, Zenon
   DEF Happens

LEMMA NextShape ==
    ASSUME ShapeIInv, TasksOK, Next
    PROVE  ShapeIInv' /\ TasksOK'
<1>1. CASE Working
  BY <1>1, WorkingShape, Zenon DEF Working
<1> QED
  BY <1>1, PinningShape, EmergenciesShape, AnsweringShape, ProjectingShape, CollectingShape, HappensShape, Zenon DEF Next

LEMMA StutterShape ==
    ASSUME ShapeIInv, TasksOK, UNCHANGED allVars
    PROVE  ShapeIInv' /\ TasksOK'
<1>1. UNCHANGED <<catalogue, unread, files, creators, tags, here, held, making_room, jobs, alone, ripe, taskVars,
                  adopted, changes, pins, queue, wanted_again, availability_changed, losing, letting_go, calls, left>>
  BY DEF allVars, keepingVars, worldVars, keepVars, pinVars, emergencyVars, apiVars, uploadVars
<1>2. CallsOK'
  BY <1>1, CallsSame DEF ShapeIInv
<1> QED
  BY <1>1, <1>2, QuietShape

LEMMA InitFresh ==
    ASSUME Init
    PROVE  /\ FreshIn
           /\ overtaken = {} /\ evicted = {} /\ shared = FALSE /\ unheard = {} /\ crossed = {} /\ lagged = FALSE
           /\ Bytes(tags) <= limit
<1>1. PICK s \in Scenarios :
          /\ files = s.files /\ creators = s.creators /\ tags = s.tags
          /\ catalogue = [item \in Item |-> [files |-> s.files[item], creators |-> s.creators[item]]]
          /\ here = s.here /\ left = s.left /\ adopted = {s.membership}
          /\ held = {item \in Item : Whole(item, files[item])}
          /\ pins = [item \in Item |-> IF kept_for("custody", item) # {} THEN "Kept" ELSE "none"]
  BY Zenon DEF Init
<1>2. /\ changes = <<[kind |-> "recomputed", items |-> Item]>>
      /\ jobs = {} /\ making_room = {} /\ overtaken = {} /\ evicted = {}
      /\ shared = FALSE /\ unread = {}
      /\ lagged = FALSE /\ queue = <<>> /\ wanted_again = {} /\ availability_changed = {}
      /\ losing = {} /\ letting_go = {} /\ crossed = {} /\ unheard = {}
      /\ alone = [item \in Item |-> "none"] /\ ripe = {}
      /\ registered = <<>> /\ next_task = 0 /\ telling = <<>> /\ told = <<>> /\ calls = {}
  BY Zenon DEF Init, UploadInit
<1>3. /\ s.files \in [Item -> SUBSET File] /\ s.creators \in [Item -> SUBSET Node]
      /\ s.tags \subseteq Reason \X Item \X File /\ \A tag \in s.tags : tag[3] \in s.files[tag[2]]
      /\ s.here \in [File -> {"absent", "partial", "complete"}]
      /\ "calls" \in DOMAIN s.left /\ s.left.calls \in Seq(Request)
  BY KeepingNodeAssumption DEF Request
<1>4. SizeOf({f \in KeptBy(s.tags) : s.here[f] # "absent"}) <= limit
  BY KeepingNodeAssumption, Zenon
<1>5. Bytes(tags) <= limit
  BY <1>1, <1>4, Zenon DEF Bytes
<1>6. files = [item \in Item |-> catalogue[item].files] /\ creators = [item \in Item |-> catalogue[item].creators]
  BY <1>1, <1>3
<1>7. Fresh
  BY <1>1, <1>2, <1>6, Zenon DEF Fresh
<1>8. CallsOK
  BY <1>1, <1>2, <1>3 DEF CallsOK
<1>9. catalogue \in [Item -> [files : SUBSET File, creators : SUBSET Node]]
  BY <1>1, <1>3
<1>10. \A item \in Item : kept_for("custody", item) \subseteq catalogue[item].files
  BY <1>1, <1>3 DEF kept_for
<1> QED
  BY <1>1, <1>2, <1>3, <1>5, <1>7, <1>8, <1>9, <1>10 DEF FreshIn

LEMMA InitShape ==
    ASSUME Init
    PROVE  ShapeIInv /\ TasksOK
BY InitFresh, FreshShape

-----------------------------------------------------------------------------
(* What work does to tags and to what is here.                             *)

LEMMA WorkTags ==
    ASSUME JobsOK, NEW j \in jobs, Works(j)
    PROVE  /\ ~ Evicts(j) => tags \subseteq tags'
           /\ tags' \subseteq tags \/ \E reason \in Reason : \E fs : tags' = tags \cup {<<reason, j.item, f>> : f \in fs}
           /\ \A item, f : <<"custody", item, f>> \in tags' =>
                 <<"custody", item, f>> \in tags \/ (KeepStarts(j) /\ j.why = "custody" /\ item = j.item)
           /\ \A item, f : <<"custody", item, f>> \in tags => <<"custody", item, f>> \in tags'
<1> DEFINE Goal == /\ ~ Evicts(j) => tags \subseteq tags'
                   /\ tags' \subseteq tags \/ \E reason \in Reason : \E fs : tags' = tags \cup {<<reason, j.item, f>> : f \in fs}
                   /\ \A item, f : <<"custody", item, f>> \in tags' =>
                         <<"custody", item, f>> \in tags \/ (KeepStarts(j) /\ j.why = "custody" /\ item = j.item)
                   /\ \A item, f : <<"custody", item, f>> \in tags => <<"custody", item, f>> \in tags'
<1> SUFFICES Goal
  OBVIOUS
<1> HIDE DEF Goal
<1>1. j \in Job /\ j.item \in Item
  BY DEF JobsOK, JobOK, Job
<1>2. ASSUME tags' = tags PROVE Goal
  BY <1>2 DEF Goal
<1>3. ASSUME NEW reason \in Reason, NEW fs, tags' = tags \cup {<<reason, j.item, f>> : f \in fs},
             reason = "custody" => KeepStarts(j) /\ j.why = "custody"
      PROVE  Goal
  BY <1>3 DEF Goal
<1>4. CASE Evicts(j)
  <2>1. tags' = tags \ CacheTags(j.evict)
    BY <1>4 DEF Evicts, evict
  <2> QED
    BY <1>4, <2>1 DEF Goal, CacheTags
<1>5. CASE KeepStarts(j)
  <2>1. tags' = tags \cup {<<ReasonOf(j.why), j.item, f>> : f \in files[j.item]}
    BY <1>5 DEF KeepStarts
  <2>2. ReasonOf(j.why) \in Reason /\ (ReasonOf(j.why) = "custody" => j.why = "custody")
    BY <1>1 DEF ReasonOf, Reason, Job, Why
  <2> QED
    BY <1>3, <1>5, <2>1, <2>2
<1>6. CASE DownloadTags(j)
  <2>1. CASE j.left = {}
    BY <1>2, <1>6, <2>1 DEF DownloadTags
  <2>2. CASE j.left # {}
    <3> DEFINE f == CHOOSE g \in j.left : TRUE
    <3>1. tags' = tags \cup {<<"cache", j.item, f>>}
      BY <1>6, <2>2, Zenon DEF DownloadTags
    <3> HIDE DEF f
    <3>2. tags' = tags \cup {<<"cache", j.item, g>> : g \in {f}}
      BY <3>1
    <3>3. "cache" \in Reason /\ "cache" # "custody"
      BY DEF Reason
    <3> QED
      BY <1>3, <3>2, <3>3
  <2> QED
    BY <2>1, <2>2
<1>7. CASE AddKeeps(j)
  <2>1. tags' = tags \cup {<<"own", j.item, f>> : f \in j.files}
    BY <1>7 DEF AddKeeps
  <2>2. "own" \in Reason /\ "own" # "custody"
    BY DEF Reason
  <2> QED
    BY <1>3, <2>1, <2>2
<1>8. CASE ~ (Evicts(j) \/ KeepStarts(j) \/ DownloadTags(j) \/ AddKeeps(j))
  <2>1. tags' = tags
    BY <1>8, Zenon DEF Works, RechecksRead, RechecksSet, Plans, KeepFetches, DownloadStarts, DownloadFetches,
       DownloadExports, AddChecks, AddWrites, keepVars
  <2> QED
    BY <1>2, <2>1
<1> QED
  BY <1>4, <1>5, <1>6, <1>7, <1>8

LEMMA WorkHere ==
    ASSUME JobsOK, CatalogueOK, KeepsOK, NEW j \in jobs, Works(j)
    PROVE  /\ \A f \in File : here[f] = "complete" => here'[f] = "complete"
           /\ \A f \in File : here[f] # "absent" => here'[f] # "absent"
           /\ UNCHANGED <<files, creators>>
           /\ \A item \in Item : catalogue[item].files \subseteq catalogue'[item].files
           /\ shared => shared'
           /\ RechecksSet(j) \/ Evicts(j) \/ UNCHANGED <<held, overtaken>>
<1>1. j \in Job /\ j.item \in Item /\ here \in [File -> {"absent", "partial", "complete"}]
  BY DEF JobsOK, JobOK, Job, KeepsOK
<1>2. /\ UNCHANGED <<files, creators>>
      /\ RechecksSet(j) \/ Evicts(j) \/ UNCHANGED <<held, overtaken>>
  BY Zenon DEF Works, RechecksRead, RechecksSet, Plans, Evicts, KeepStarts, KeepFetches, DownloadStarts, DownloadTags,
     DownloadFetches, DownloadExports, AddChecks, AddWrites, AddKeeps, worldVars, keepVars
<1>3. shared => shared'
  <2>1. shared' = shared \/ KeepStarts(j) \/ Plans(j) \/ AddChecks(j)
    BY Zenon DEF Works, RechecksRead, RechecksSet, Evicts, KeepFetches, DownloadStarts, DownloadTags,
       DownloadFetches, DownloadExports, AddWrites, AddKeeps, worldVars, keepVars
  <2>2. CASE shared' = shared
    BY <2>2
  <2>3. CASE Plans(j)
    BY <2>3, PlanTurns DEF PlansAs
  <2>4. CASE KeepStarts(j)
    BY <2>4, Zenon DEF KeepStarts
  <2>5. CASE AddChecks(j)
    BY <2>5, Zenon DEF AddChecks
  <2> QED
    BY <2>1, <2>2, <2>3, <2>4, <2>5
<1>4. \A item \in Item : catalogue[item].files \subseteq catalogue'[item].files
  <2>1. CASE catalogue' = catalogue
    BY <2>1
  <2>2. CASE catalogue' # catalogue
    <3>1. AddWrites(j)
      BY <2>2, Zenon DEF Works, RechecksRead, RechecksSet, Plans, Evicts, KeepStarts, KeepFetches, DownloadStarts, DownloadTags,
         DownloadFetches, DownloadExports, AddChecks, AddKeeps, worldVars
    <3>2. Enters(j.item, j.files, me)
      BY <2>2, <3>1 DEF AddWrites
    <3> QED
      BY <1>1, <3>2 DEF Enters, CatalogueOK
  <2> QED
    BY <2>1, <2>2
<1>5. \/ here' = here
      \/ \E f : here' = [here EXCEPT ![f] = "complete"]
      \/ \E f : here[f] # "complete" /\ here' = [here EXCEPT ![f] = "partial"]
      \/ here' = [f \in File |-> IF f \in j.files THEN "complete" ELSE here[f]]
  <2>1. CASE KeepFetches(j)
    BY <2>1 DEF KeepFetches
  <2>2. CASE DownloadFetches(j)
    BY <2>2, Zenon DEF DownloadFetches
  <2>3. CASE AddChecks(j)
    BY <2>3, Zenon DEF AddChecks
  <2>4. CASE ~ (KeepFetches(j) \/ DownloadFetches(j) \/ AddChecks(j))
    BY <2>4, Zenon DEF Works, RechecksRead, RechecksSet, Plans, Evicts, KeepStarts, DownloadStarts, DownloadTags,
       DownloadExports, AddWrites, AddKeeps, worldVars, keepVars
  <2> QED
    BY <2>1, <2>2, <2>3, <2>4
<1>6. \A f \in File : (here[f] = "complete" => here'[f] = "complete") /\ (here[f] # "absent" => here'[f] # "absent")
  BY <1>1, <1>5
<1> QED
  BY <1>2, <1>3, <1>4, <1>6

-----------------------------------------------------------------------------
(* What is held stays whole and kept.                                      *)

LEMMA HeldWholeStays ==
    ASSUME HeldWhole,
           \A item \in held' \ overtaken' : item \in held \ overtaken,
           \A item \in held' \ overtaken' : catalogue[item].files # {} => catalogue'[item].files # {},
           \A item \in held' \ overtaken', f \in File : f \in files'[item] \/ AtRow(item, f)' => f \in files[item] \/ AtRow(item, f),
           \A item \in held' \ overtaken', f \in File : here[f] = "complete" /\ Kept(item, f) => here'[f] = "complete" /\ Kept(item, f)'
    PROVE  HeldWhole'
<1> SUFFICES ASSUME NEW item \in held' \ overtaken'
             PROVE  /\ catalogue'[item].files # {}
                    /\ \A f \in File : f \in files'[item] \/ AtRow(item, f)' => here'[f] = "complete" /\ Kept(item, f)'
  BY Zenon DEF HeldWhole
<1>1. /\ catalogue[item].files # {}
      /\ \A f \in File : f \in files[item] \/ AtRow(item, f) => here[f] = "complete" /\ Kept(item, f)
  BY Zenon DEF HeldWhole
<1> QED
  BY <1>1, Zenon

\* Just rechecked, with an answer still good.
LEMMA RecheckedHolds ==
    ASSUME CatalogueOK, NEW item \in Item, Whole(item, catalogue[item].files)
    PROVE  /\ catalogue[item].files # {}
           /\ \A f \in File : f \in files[item] \/ (\E j \in jobs : j.why = "projection" /\ j.item = item /\ f \in j.files) =>
                 here[f] = "complete" /\ Kept(item, f)
BY DEF Whole, Kept, CatalogueOK

LEMMA RowsTurn ==
    ASSUME NEW j \in jobs, NEW next, Turns(j, next), next.step = "row" => j.step = "row", NEW item, NEW f, AtRow(item, f)'
    PROVE  AtRow(item, f)
<1>1. PICK k \in jobs' : k.why = "projection" /\ k.step = "row" /\ k.item = item /\ f \in k.files
  BY DEF AtRow
<1>2. jobs' = (jobs \ {j}) \cup {next} /\ next.why = j.why /\ next.item = j.item /\ (j.why = "projection" => next.files = j.files)
  BY DEF Turns, Goes
<1> QED
  BY <1>1, <1>2 DEF AtRow

LEMMA HeldWorks ==
    ASSUME JobsOK, CatalogueOK, KeepsOK, HeldWhole, NEW j \in jobs, Works(j)
    PROVE  HeldWhole'
<1>1. j \in Job /\ JobOK(j) /\ j.item \in Item /\ held \subseteq Item
  BY DEF JobsOK, JobOK, Job, KeepsOK
<1>2. /\ \A f \in File : here[f] = "complete" => here'[f] = "complete"
      /\ UNCHANGED files
      /\ \A item \in Item : catalogue[item].files \subseteq catalogue'[item].files
      /\ RechecksSet(j) \/ Evicts(j) \/ UNCHANGED <<held, overtaken>>
      /\ ~ Evicts(j) => tags \subseteq tags'
  BY WorkHere, WorkTags
<1>3. CASE ~ RechecksSet(j) /\ ~ Evicts(j)
  <2>1. PICK next : Turns(j, next) /\ (next.step = "row" => j.step = "row")
    <3>1. CASE Plans(j)
      BY <3>1, PlanTurns DEF PlansAs
    <3>2. CASE ~ Plans(j)
      <4>1. j.step \notin {"room", "evict", "set"}
        BY <1>3, <3>2, Zenon DEF Works, RechecksRead, KeepStarts, KeepFetches, DownloadStarts, DownloadTags,
           DownloadFetches, DownloadExports, AddChecks, AddWrites, AddKeeps
      <4>2. PICK next : Turns(j, next) /\ Follows(j, next)
        BY <4>1, WorkTurns
      <4>3. next.step # "row"
        BY <4>1, <4>2 DEF Follows, Leads
      <4> QED
        BY <4>2, <4>3
    <3> QED
      BY <3>1, <3>2
  <2>2. \A item, f : AtRow(item, f)' => AtRow(item, f)
    BY <2>1, RowsTurn
  <2>3. \A item, f : Kept(item, f) => Kept(item, f)'
    BY <1>2, <1>3 DEF Kept
  <2>4. held' = held /\ overtaken' = overtaken /\ files' = files /\ \A item \in held : catalogue[item].files # {} => catalogue'[item].files # {}
    BY <1>1, <1>2, <1>3
  <2> QED
    BY <1>2, <2>2, <2>3, <2>4, HeldWholeStays
<1>4. CASE RechecksSet(j)
  <2>1. /\ held' = IF j.seen THEN held \cup {j.item} ELSE held \ {j.item}
        /\ overtaken' = IF j.seen = Whole(j.item, catalogue[j.item].files) THEN overtaken \ {j.item}
                        ELSE overtaken \cup {j.item}
        /\ UNCHANGED <<catalogue, files, tags, here>> /\ j.step = "set"
    BY <1>4 DEF RechecksSet, worldVars
  <2>2. PICK next : Turns(j, next) /\ Follows(j, next)
    BY <2>1, WorkTurns
  <2>3. jobs' = (jobs \ {j}) \cup {next} /\ next.why = j.why /\ next.item = j.item /\ next.files = j.files
    BY <2>1, <2>2 DEF Turns, Goes, Follows
  <2>4. \A item, f : Kept(item, f)' <=> Kept(item, f)
    BY <2>1 DEF Kept
  <2> SUFFICES ASSUME NEW item \in held' \ overtaken'
               PROVE  /\ catalogue'[item].files # {}
                      /\ \A f \in File : f \in files'[item] \/ AtRow(item, f)' => here'[f] = "complete" /\ Kept(item, f)'
    BY Zenon DEF HeldWhole
  <2>5. CASE item = j.item
    <3>1. Whole(item, catalogue[item].files)
      BY <2>1, <2>5
    <3>2. /\ catalogue[item].files # {}
          /\ \A f \in File : f \in files[item] \/ (\E k \in jobs : k.why = "projection" /\ k.item = item /\ f \in k.files) =>
                here[f] = "complete" /\ Kept(item, f)
      BY <1>1, <2>5, <3>1, RecheckedHolds
    <3>3. \A f : AtRow(item, f)' => \E k \in jobs : k.why = "projection" /\ k.item = item /\ f \in k.files
      BY <2>3 DEF AtRow
    <3> QED
      BY <2>1, <2>4, <3>2, <3>3
  <2>6. CASE item # j.item
    <3>1. item \in held \ overtaken
      BY <2>1, <2>6
    <3>2. \A f : AtRow(item, f)' => AtRow(item, f)
      BY <2>3, <2>6 DEF AtRow
    <3> QED
      BY <2>1, <2>4, <3>1, <3>2 DEF HeldWhole
  <2> QED
    BY <2>5, <2>6
<1>5. CASE Evicts(j)
  <2>1. /\ tags' = tags \ CacheTags(j.evict) /\ held' = held \ j.evict /\ overtaken' = overtaken \ j.evict
        /\ UNCHANGED <<catalogue, files, here>>
    BY <1>5 DEF Evicts, evict, worldVars
  <2>2. PICK next : Turns(j, next) /\ next.step # "row"
    BY <1>5, RoomTurns
  <2>3. \A item, f : AtRow(item, f)' => AtRow(item, f)
    BY <2>2, RowsTurn
  <2>4. \A item \in held' \ overtaken' : item \in held \ overtaken /\ item \notin j.evict
    BY <2>1
  <2>5. \A item \in held' \ overtaken', f \in File : Kept(item, f) => Kept(item, f)'
    BY <2>1, <2>4 DEF Kept, CacheTags
  <2> QED
    BY <2>1, <2>3, <2>4, <2>5, HeldWholeStays
<1> QED
  BY <1>3, <1>4, <1>5

LEMMA CacheWorks ==
    ASSUME JobsOK, PinsOK, CacheKeeps, NoneWanted, NEW j \in jobs, Works(j), letting_go' = letting_go
    PROVE  CacheKeeps'
<1>1. \A item \in letting_go : item \in Item /\ ~ Busy("custody", item)
  BY DEF PinsOK
<1>2. j.item \in Item
  BY DEF JobsOK, JobOK, Job
<1> SUFFICES ASSUME NEW item \in letting_go, NEW f \in File, <<"custody", item, f>> \in tags'
             PROVE  <<"cache", item, f>> \in tags'
  BY Zenon DEF CacheKeeps
<1>3. <<"custody", item, f>> \in tags
  <2>1. ~ (KeepStarts(j) /\ j.why = "custody" /\ item = j.item)
    BY <1>1 DEF Busy
  <2> QED
    BY <2>1, WorkTags
<1>4. <<"cache", item, f>> \in tags
  BY <1>3 DEF CacheKeeps
<1>5. CASE Evicts(j)
  <2>1. tags' = tags \ CacheTags(j.evict)
    BY <1>5 DEF Evicts, evict
  <2>2. item \notin j.evict
    <3>1. ~ \E k \in jobs : k.why = "custody" /\ k.item = item /\ k.step = "room"
      BY <1>1 DEF Busy
    <3>2. kept_for("custody", item) # {}
      BY <1>3 DEF kept_for
    <3> QED
      BY <1>1, <3>1, <3>2 DEF NoneWanted
  <2> QED
    BY <1>4, <2>1, <2>2 DEF CacheTags
<1>6. CASE ~ Evicts(j)
  BY <1>4, <1>6, WorkTags
<1> QED
  BY <1>5, <1>6

LEMMA NoneWantedWorks ==
    ASSUME JobsOK, CatalogueOK, LockOK, NoneWanted, NEW j \in jobs, Works(j)
    PROVE  NoneWanted'
<1>1. JobOK(j) /\ j \in Job
  BY DEF JobsOK, JobOK
<1>2. CASE Plans(j)
  <2>1. PICK next, items : PlansAs(j, next, items)
    BY <1>2, PlanTurns
  <2>2. jobs' = (jobs \ {j}) \cup {next} /\ next.evict \subseteq Evictable(j.item)
    BY <2>1 DEF PlansAs, Turns, Goes
  <2>3. making_room = {} /\ tags' = tags
    BY <1>2, Zenon DEF Plans
  <2>4. \A k \in jobs : k.evict = {}
    <3>1. \A k \in jobs : k.step # "evict"
      BY <2>3 DEF LockOK
    <3> QED
      BY <3>1 DEF JobsOK, JobOK
  <2>5. \A item \in Evictable(j.item) : kept_for("custody", item) = {}
    BY DEF Evictable, MandatoryTags, kept_for
  <2>6. \A item : kept_for("custody", item)' = kept_for("custody", item)
    BY <2>3 DEF kept_for
  <2> QED
    BY <2>2, <2>4, <2>5, <2>6 DEF NoneWanted
<1>3. CASE Evicts(j)
  <2>1. PICK next : Turns(j, next) /\ next.step # "evict"
    BY <1>3, RoomTurns
  <2>2. jobs' = (jobs \ {j}) \cup {next} /\ next.evict = {} /\ j.step = "evict"
    BY <1>3, <2>1 DEF Turns, Goes, JobOK, Evicts
  <2>3. \A k \in jobs' : k.evict = {}
    BY <2>2 DEF LockOK, JobsOK, JobOK
  <2> QED
    BY <2>3 DEF NoneWanted
<1>4. CASE ~ Plans(j) /\ ~ Evicts(j)
  <2>1. j.step \notin {"room", "evict"}
    BY <1>4, Zenon DEF Works, RechecksRead, RechecksSet, KeepStarts, KeepFetches, DownloadStarts, DownloadTags,
       DownloadFetches, DownloadExports, AddChecks, AddWrites, AddKeeps
  <2>2. PICK next : Turns(j, next) /\ next.step # "evict" /\ Follows(j, next)
    BY <2>1, WorkTurns
  <2>3. jobs' = (jobs \ {j}) \cup {next} /\ next.evict = {} /\ next.why = j.why /\ next.item = j.item
    BY <2>2 DEF Turns, Goes, JobOK
  <2>4. KeepStarts(j) => next.step = "room"
    BY <2>2 DEF KeepStarts, Follows, Leads
  <2> SUFFICES ASSUME NEW k \in jobs', NEW item \in Item, item \in k.evict, kept_for("custody", item)' # {}
               PROVE  \E l \in jobs' : l.why = "custody" /\ l.item = item /\ l.step = "room"
    BY DEF NoneWanted
  <2>5. k \in jobs
    BY <2>3
  <2>6. CASE kept_for("custody", item) # {}
    <3>1. PICK l \in jobs : l.why = "custody" /\ l.item = item /\ l.step = "room"
      BY <2>5, <2>6 DEF NoneWanted
    <3> QED
      BY <2>1, <2>3, <3>1
  <2>7. CASE kept_for("custody", item) = {}
    <3>1. PICK f \in File : <<"custody", item, f>> \in tags' /\ <<"custody", item, f>> \notin tags
      BY <2>7 DEF kept_for
    <3>2. KeepStarts(j) /\ j.why = "custody" /\ item = j.item
      BY <3>1, WorkTags
    <3> QED
      BY <2>3, <2>4, <3>2
  <2> QED
    BY <2>6, <2>7
<1> QED
  BY <1>2, <1>3, <1>4

\* Some jobs begin, and some end that do not ask for room.
Begun(k) == JobOK(k) /\ (k.step = "start" \/ (k.why = "projection" /\ k.step = "recheck"))
Asks(k) == k.step = "room" \/ (k.why = "add" /\ k.step \in {"recheck", "set", "evict"})
Quiet ==
    /\ \A k \in jobs' : k \in jobs \/ Begun(k)
    /\ \A k \in jobs : k \in jobs' \/ ~ Asks(k)

LEMMA QuietSame == ASSUME jobs' = jobs PROVE Quiet
BY DEF Quiet

LEMMA QuietBegun == ASSUME NEW new, JobOK(new), new.step = "start", jobs' = jobs \cup {new} PROVE Quiet
BY DEF Quiet, Begun

LEMMA QuietOver == ASSUME NEW j \in jobs, ~ Asks(j), jobs' = jobs \ {j} PROVE Quiet
BY DEF Quiet

LEMMA NoneWantedStays ==
    ASSUME NoneWanted, \A k \in jobs' : k \in jobs \/ k.evict = {},
           \A k \in jobs : k \in jobs' \/ ~(k.why = "custody" /\ k.step = "room"),
           \A item \in Item, f \in File : <<"custody", item, f>> \in tags' => <<"custody", item, f>> \in tags
    PROVE  NoneWanted'
<1> SUFFICES ASSUME NEW k \in jobs', NEW item \in Item, item \in k.evict, kept_for("custody", item)' # {}
             PROVE  \E l \in jobs' : l.why = "custody" /\ l.item = item /\ l.step = "room"
  BY DEF NoneWanted
<1>1. k \in jobs /\ kept_for("custody", item) # {}
  BY DEF kept_for
<1>2. PICK l \in jobs : l.why = "custody" /\ l.item = item /\ l.step = "room"
  BY <1>1 DEF NoneWanted
<1> QED
  BY <1>2

LEMMA HeldQuiet ==
    ASSUME KeepsOK, HeldOK, Quiet,
           UNCHANGED <<files, tags, here, held, overtaken>>, letting_go' \subseteq letting_go,
           \A item \in Item : catalogue[item].files # {} => catalogue'[item].files # {}
    PROVE  HeldOK'
<1> USE DEF HeldOK
<1>1. \A k \in jobs' : k \in jobs \/ (k.evict = {} /\ k.step # "row")
  BY DEF Quiet, Begun, JobOK
<1>2. HeldWhole'
  <2>1. \A item, f : AtRow(item, f)' => AtRow(item, f)
    BY <1>1 DEF AtRow
  <2>2. \A item, f : Kept(item, f)' <=> Kept(item, f)
    BY DEF Kept
  <2>3. held \subseteq Item
    BY DEF KeepsOK
  <2> QED
    BY <2>1, <2>2, <2>3, HeldWholeStays
<1>3. CacheKeeps'
  BY DEF CacheKeeps
<1>4. NoneWanted'
  <2>1. \A k \in jobs' : k \in jobs \/ k.evict = {}
    BY <1>1
  <2>2. \A k \in jobs : k \in jobs' \/ ~(k.why = "custody" /\ k.step = "room")
    BY DEF Quiet, Asks
  <2> QED
    BY <2>1, <2>2, NoneWantedStays
<1> QED
  BY <1>2, <1>3, <1>4

\* Tags come, or go that the cache has.
LEMMA HeldLetsGo ==
    ASSUME KeepsOK, PinsOK, HeldOK, UNCHANGED <<worldVars, here, held, overtaken, jobs>>,
           Released \/ \E item \in Item : ReleaseIfSafe(item)
    PROVE  HeldOK'
<1> USE DEF HeldOK
<1>1. \A item, f : AtRow(item, f)' <=> AtRow(item, f)
  BY DEF AtRow
<1>2. /\ UNCHANGED <<here, held, overtaken, files, catalogue, jobs>>
      /\ \A k \in jobs' : k \in jobs \/ k.evict = {}
      /\ \A k \in jobs : k \in jobs' \/ ~(k.why = "custody" /\ k.step = "room")
  BY DEF worldVars
<1>3. ASSUME \A item \in Item, f \in File : Kept(item, f) => Kept(item, f)',
             \A item \in Item, f \in File : <<"custody", item, f>> \in tags' => <<"custody", item, f>> \in tags,
             CacheKeeps'
      PROVE  HeldOK'
  <2>1. HeldWhole'
    <3>1. held \subseteq Item
      BY DEF KeepsOK
    <3> QED
      BY <1>1, <1>2, <1>3, <3>1, HeldWholeStays
  <2>2. NoneWanted'
    BY <1>2, <1>3, NoneWantedStays
  <2> QED
    BY <1>3, <2>1, <2>2
<1>4. CASE Released
  <2>1. PICK item \in letting_go : tags' = {tag \in tags : ~ (tag[1] = "custody" /\ tag[2] = item)}
    BY <1>4, Zenon DEF Released
  <2>2. letting_go' = {}
    BY <1>4, Zenon DEF Released
  <2>3. CacheKeeps'
    BY <2>2 DEF CacheKeeps
  <2>4. ASSUME NEW other \in Item, NEW f \in File, Kept(other, f) PROVE Kept(other, f)'
    <3>1. PICK reason \in Reason : <<reason, other, f>> \in tags
      BY <2>4 DEF Kept
    <3>2. CASE reason = "custody" /\ other = item
      <4>1. <<"cache", other, f>> \in tags' /\ "cache" \in Reason
        BY <2>1, <3>1, <3>2 DEF CacheKeeps, Reason
      <4> QED
        BY <4>1 DEF Kept
    <3>3. CASE ~ (reason = "custody" /\ other = item)
      BY <2>1, <3>1, <3>3 DEF Kept
    <3> QED
      BY <3>2, <3>3
  <2>5. tags' \subseteq tags
    BY <2>1
  <2> QED
    BY <1>3, <2>3, <2>4, <2>5
<1>5. ASSUME NEW item \in Item, ReleaseIfSafe(item) PROVE HeldOK'
  <2>1. \/ UNCHANGED <<letting_go, tags>>
        \/ letting_go' = {item} /\ tags' = tags \cup {<<"cache", item, f>> : f \in kept_for("custody", item)}
    BY <1>5, Zenon DEF ReleaseIfSafe
  <2>2. \A other \in Item, f \in File : <<"custody", other, f>> \in tags' => <<"custody", other, f>> \in tags
    BY <2>1
  <2>3. tags \subseteq tags'
    BY <2>1
  <2>4. \A other \in Item, f \in File : Kept(other, f) => Kept(other, f)'
    BY <2>3 DEF Kept
  <2>5. CacheKeeps'
    BY <2>1, <2>2 DEF CacheKeeps, kept_for
  <2> QED
    BY <1>3, <2>2, <2>4, <2>5
<1> QED
  BY <1>4, <1>5

LEMMA HeldCollects ==
    ASSUME KeepsOK, HeldOK, Collects, letting_go' = letting_go
    PROVE  HeldOK'
<1> USE DEF HeldOK
<1>1. /\ UNCHANGED <<files, catalogue, tags, held, overtaken, jobs>>
      /\ \E gone : here' = [f \in File |-> IF f \in gone THEN "absent" ELSE here[f]] /\ gone \cap KeptBy(tags) = {}
  BY DEF Collects, worldVars
<1>2. \A item \in Item, f \in File : here[f] = "complete" /\ Kept(item, f) => here'[f] = "complete" /\ Kept(item, f)'
  <2>1. \A item \in Item, f \in File : Kept(item, f) => f \in KeptBy(tags) /\ Kept(item, f)'
    BY <1>1 DEF Kept, KeptBy
  <2> QED
    BY <1>1, <2>1
<1>3. HeldWhole'
  <2>1. \A item, f : AtRow(item, f)' <=> AtRow(item, f)
    BY <1>1 DEF AtRow
  <2>2. held \subseteq Item
    BY DEF KeepsOK
  <2> QED
    BY <1>1, <1>2, <2>1, <2>2, HeldWholeStays
<1>4. CacheKeeps'
  BY <1>1 DEF CacheKeeps
<1>5. NoneWanted'
  BY <1>1, NoneWantedStays
<1> QED
  BY <1>3, <1>4, <1>5

LEMMA HeldProjected ==
    ASSUME JobsOK, KeepsOK, HeldOK, NEW j \in jobs, Projected(j)
    PROVE  HeldOK'
<1> USE DEF HeldOK
<1>1. PICK change : RowIs(j, change)
  BY ProjectedIs
<1>2. /\ UNCHANGED <<catalogue, tags, here, held, overtaken, letting_go>> /\ j.why = "projection" /\ j.step = "row"
      /\ jobs' = jobs \ {j} /\ files' = [files EXCEPT ![j.item] = j.files]
  BY <1>1 DEF RowIs, keepVars
<1>3. HeldWhole'
  <2>1. \A item \in held' \ overtaken', f \in File : f \in files'[item] \/ AtRow(item, f)' => f \in files[item] \/ AtRow(item, f)
    BY <1>2 DEF AtRow
  <2>2. \A item, f : Kept(item, f)' <=> Kept(item, f)
    BY <1>2 DEF Kept
  <2> QED
    BY <1>2, <2>1, <2>2, HeldWholeStays
<1>4. CacheKeeps'
  BY <1>2 DEF CacheKeeps
<1>5. NoneWanted'
  BY <1>2, NoneWantedStays
<1> QED
  BY <1>3, <1>4, <1>5

LEMMA HeldFresh == Fresh /\ overtaken = {} => HeldOK
BY DEF Fresh, HeldOK, HeldWhole, CacheKeeps, NoneWanted, Whole, Kept, AtRow

-----------------------------------------------------------------------------
(* What is kept stays within the limit.                                    *)

LEMMA CountedFiles ==
    ASSUME NEW some
    PROVE  Counted(some) \in SUBSET File /\ Bytes(some) = SizeOf(Counted(some))
BY DEF Counted, KeptBy, Bytes

LEMMA Less ==
    ASSUME NEW few \in SUBSET File, NEW many \in SUBSET File, few \subseteq many, SizeOf(many) <= limit
    PROVE  SizeOf(few) <= limit
<1>1. SizeOf(few) <= SizeOf(many)
  BY SizeGrows
<1>2. SizeOf(few) \in Nat /\ SizeOf(many) \in Nat /\ limit \in Nat
  BY SizeIs, KeepingAssumption
<1> QED
  BY <1>1, <1>2

\* Room for files, once what is to go has gone, and nothing wanted with it.
LEMMA RoomIs ==
    ASSUME NEW fs \in SUBSET File, NEW items, BytesWithout(items) + uncounted_bytes(fs) <= limit,
           ~ \E f \in fs : f \in KeptBy(tags) \ KeptBy(tags \ CacheTags(items)) /\ here[f] # "absent"
    PROVE  SizeOf(Counted(tags \ CacheTags(items)) \cup fs) <= limit
<1> DEFINE C == Counted(tags \ CacheTags(items))
           U == Uncounted(fs)
<1>1. C \in SUBSET File /\ U \in SUBSET File
  BY CountedFiles DEF Uncounted
<1>2. C \cup fs \in SUBSET (C \cup U)
  BY DEF Counted, Uncounted
<1>3. BytesWithout(items) = SizeOf(C) /\ uncounted_bytes(fs) = SizeOf(U)
  BY CountedFiles DEF BytesWithout, uncounted_bytes
<1> HIDE DEF C, U
<1>4. SizeOf(C \cup U) <= SizeOf(C) + SizeOf(U)
  BY <1>1, SizeAdds
<1>5. SizeOf(C) \in Nat /\ SizeOf(U) \in Nat
  BY <1>1, SizeIs
<1>6. C \cup U \in SUBSET File /\ C \cup fs \in SUBSET File
  BY <1>1
<1>7. SizeOf(C \cup U) \in Nat /\ limit \in Nat
  <2> DEFINE W == C \cup U
  <2>1. W \in SUBSET File
    BY <1>6
  <2> HIDE DEF W
  <2>2. SizeOf(W) \in Nat
    BY <2>1, SizeIs
  <2> QED
    BY <2>2, KeepingAssumption DEF W
<1>8. SizeOf(C \cup U) <= limit
  BY <1>3, <1>4, <1>5, <1>7
<1>9. SizeOf(C \cup fs) <= limit
  <2> DEFINE few == C \cup fs
             many == C \cup U
  <2>1. few \in SUBSET File /\ many \in SUBSET File /\ few \subseteq many /\ SizeOf(many) <= limit
    BY <1>2, <1>6, <1>8
  <2> HIDE DEF few, many
  <2>2. SizeOf(few) <= limit
    BY <2>1, Less
  <2> QED
    BY <2>2 DEF few
<1> QED
  BY <1>9 DEF C

LEMMA LimitStays ==
    ASSUME LimitOK, shared => shared',
           shared' \/ (AddedOverTheLimit => AddedOverTheLimit'),
           \A k \in jobs' : HasRoom(k) => k \in jobs,
           shared' \/ Counted(tags)' \subseteq Counted(tags),
           \A k \in jobs' : k.step = "evict" => shared' \/ Counted(tags \ CacheTags(k.evict))' \subseteq Counted(tags \ CacheTags(k.evict)),
           \A k \in jobs' : k.files \in SUBSET File
    PROVE  LimitOK'
<1> SUFFICES ASSUME ~ shared' PROVE LimitOK'
  BY DEF LimitOK
<1>1. ~ shared
  OBVIOUS
<1>2. AddedOverTheLimit' \/ Bytes(tags)' <= limit
  <2>1. CASE AddedOverTheLimit
    BY <2>1
  <2>2. CASE Bytes(tags) <= limit
    <3> DEFINE few == Counted(tags)'
               many == Counted(tags)
    <3>1. few \in SUBSET File /\ many \in SUBSET File /\ few \subseteq many
      BY DEF Counted, KeptBy
    <3>2. SizeOf(many) <= limit /\ Bytes(tags)' = SizeOf(few)
      BY <2>2, CountedFiles DEF Bytes, Counted
    <3> HIDE DEF few, many
    <3> QED
      BY <3>1, <3>2, Less
  <2> QED
    BY <1>1, <2>1, <2>2 DEF LimitOK
<1>3. \A k, l \in jobs' : HasRoom(k) /\ HasRoom(l) => k = l
  BY <1>1 DEF LimitOK
<1>4. \A k \in jobs' : k.step = "evict" /\ k.why \in {"add", "emergency"} => ~ k.short
  BY <1>1 DEF LimitOK, HasRoom
<1>5. ASSUME NEW k \in jobs' PROVE MakesRoom(k)'
  <2>1. CASE k.step = "evict" /\ ~ k.short
    <3> DEFINE few == Counted(tags \ CacheTags(k.evict))' \cup k.files
               many == Counted(tags \ CacheTags(k.evict)) \cup k.files
    <3>1. few \in SUBSET File /\ many \in SUBSET File
      BY DEF Counted, KeptBy
    <3>2. few \subseteq many
      BY <2>1
    <3>3. k \in jobs
      BY <2>1 DEF HasRoom
    <3>4. SizeOf(many) <= limit
      BY <1>1, <2>1, <3>3 DEF LimitOK, MakesRoom
    <3> HIDE DEF few, many
    <3>5. SizeOf(few) <= limit
      BY <3>1, <3>2, <3>4, Less
    <3> QED
      BY <2>1, <3>5 DEF MakesRoom, few
  <2>2. CASE k.step \in {"register", "tag", "fetch", "export"}
    <3> DEFINE few == Counted(tags)' \cup k.files
               many == Counted(tags) \cup k.files
    <3>1. few \in SUBSET File /\ many \in SUBSET File
      BY DEF Counted, KeptBy
    <3>2. few \subseteq many
      OBVIOUS
    <3>3. k \in jobs
      BY <2>2 DEF HasRoom
    <3>4. SizeOf(many) <= limit
      BY <1>1, <2>2, <3>3 DEF LimitOK, MakesRoom
    <3> HIDE DEF few, many
    <3>5. SizeOf(few) <= limit
      BY <3>1, <3>2, <3>4, Less
    <3> QED
      BY <2>2, <3>5 DEF MakesRoom, few
  <2> QED
    BY <2>1, <2>2 DEF MakesRoom
<1> QED
  BY <1>2, <1>3, <1>4, <1>5 DEF LimitOK

LEMMA LimitFills ==
    ASSUME LimitOK, shared => shared', NEW j \in jobs, j.step \in {"register", "tag", "fetch", "export"},
           NEW next, jobs' = (jobs \ {j}) \cup {next}, next.files = j.files, j.files \in SUBSET File,
           next.step \in {"tag", "fetch", "export"} \/ ~ HasRoom(next),
           Counted(tags)' \subseteq Counted(tags) \cup j.files
    PROVE  LimitOK'
<1> SUFFICES ASSUME ~ shared' PROVE LimitOK'
  BY DEF LimitOK
<1>1. ~ shared
  OBVIOUS
<1> DEFINE few == Counted(tags)' \cup j.files
           many == Counted(tags) \cup j.files
<1>2. few \in SUBSET File /\ many \in SUBSET File /\ few \subseteq many /\ Counted(tags)' \in SUBSET File
  BY DEF Counted, KeptBy
<1>3. SizeOf(many) <= limit
  BY <1>1 DEF LimitOK, MakesRoom
<1>4. SizeOf(few) <= limit
  <2> HIDE DEF few, many
  <2> QED
    BY <1>2, <1>3, Less
<1>5. Bytes(tags)' <= limit
  <2> DEFINE counted == Counted(tags)'
  <2>1. counted \in SUBSET File /\ counted \subseteq few /\ Bytes(tags)' = SizeOf(counted)
    BY <1>2 DEF Bytes, Counted
  <2> HIDE DEF counted, few
  <2> QED
    BY <1>2, <1>4, <2>1, Less
<1>6. \A k \in jobs : HasRoom(k) => k = j
  BY <1>1 DEF LimitOK, HasRoom
<1>7. \A k \in jobs' : HasRoom(k) => k = next
  BY <1>6
<1>8. \A k \in jobs' : k.step # "evict"
  BY <1>7 DEF HasRoom
<1>9. ASSUME NEW k \in jobs' PROVE MakesRoom(k)'
  <2>1. CASE HasRoom(k)
    BY <1>4, <1>7, <1>8, <2>1 DEF MakesRoom
  <2>2. CASE ~ HasRoom(k)
    BY <2>2 DEF MakesRoom, HasRoom
  <2> QED
    BY <2>1, <2>2
<1> QED
  BY <1>5, <1>7, <1>8, <1>9 DEF LimitOK

LEMMA AddedTurn ==
    ASSUME NEW j \in jobs, NEW next, Turns(j, next),
           j.why = "add" /\ j.step \in {"recheck", "set", "room", "evict"} => next.step \in {"recheck", "set", "room", "evict"}
    PROVE  AddedOverTheLimit => AddedOverTheLimit'
<1>1. jobs' = (jobs \ {j}) \cup {next} /\ next.why = j.why
  BY DEF Turns, Goes
<1> QED
  BY <1>1 DEF AddedOverTheLimit

LEMMA LimitPlans ==
    ASSUME JobsOK, LimitOK, NEW j \in jobs, Plans(j)
    PROVE  LimitOK'
<1>1. PICK next, items : PlansAs(j, next, items)
  BY PlanTurns
<1> SUFFICES ASSUME ~ shared' PROVE LimitOK'
  BY DEF LimitOK
<1>2. /\ ~ shared /\ ~ Promised(j) /\ ~ FreedYetWanted(j, items) /\ ~(next.short /\ j.why \in {"emergency", "add"})
      /\ Turns(j, next) /\ next.step = "evict" /\ next.files = j.files /\ next.short = ~ Fits(items, uncounted_bytes(j.files))
      /\ next.evict = (IF next.short /\ j.why = "custody" THEN {} ELSE items)
  BY <1>1 DEF PlansAs
<1>3. jobs' = (jobs \ {j}) \cup {next} /\ next.why = j.why
  BY <1>2 DEF Turns, Goes
<1>4. j.step = "room" /\ UNCHANGED <<tags, here>> /\ j.files \in SUBSET File
  <2>1. j.step = "room" /\ UNCHANGED <<tags, here>>
    BY Zenon DEF Plans
  <2>2. j.files \in SUBSET File
    BY DEF JobsOK, JobOK, Job
  <2> QED
    BY <2>1, <2>2
<1>5. \A k \in jobs' : HasRoom(k) => k = next
  BY <1>2, <1>3 DEF Promised, HasRoom
<1>6. AddedOverTheLimit' \/ Bytes(tags)' <= limit
  <2>1. AddedOverTheLimit => AddedOverTheLimit'
    BY <1>2, AddedTurn
  <2>2. Bytes(tags)' = Bytes(tags)
    BY <1>4 DEF Bytes, KeptBy
  <2> QED
    BY <1>2, <2>1, <2>2 DEF LimitOK
<1>7. ~ next.short => SizeOf(Counted(tags \ CacheTags(items)) \cup j.files) <= limit
  BY <1>2, <1>4, RoomIs DEF Fits, FreedYetWanted
<1>8. MakesRoom(next)'
  <2>1. ASSUME ~ next.short PROVE SizeOf(Counted(tags \ CacheTags(next.evict))' \cup next.files) <= limit
    <3>1. next.evict = items /\ next.files = j.files
      BY <1>2, <2>1
    <3>2. Counted(tags \ CacheTags(items))' = Counted(tags \ CacheTags(items))
      BY <1>4 DEF Counted, KeptBy, CacheTags
    <3> QED
      BY <1>7, <2>1, <3>1, <3>2
  <2> QED
    BY <1>2, <2>1 DEF MakesRoom
<1>9. \A k \in jobs' : MakesRoom(k)'
  BY <1>5, <1>8 DEF MakesRoom, HasRoom
<1> QED
  BY <1>2, <1>3, <1>5, <1>6, <1>9 DEF LimitOK, HasRoom

LEMMA LimitEvicts ==
    ASSUME JobsOK, LimitOK, NEW j \in jobs, Evicts(j)
    PROVE  LimitOK'
<1>0. PICK next : /\ Turns(j, next) /\ next.files = j.files
                  /\ \/ next.step = "done" /\ next.result \in {"ok", "failed", "noroom"}
                        /\ (j.why = "custody" => next.result = "noroom")
                     \/ next.step = "register" /\ j.why = "download" /\ ~ j.short
                     \/ /\ next.step = "fetch" /\ next.left = j.left
                        /\ j.why = "emergency" \/ (j.why = "custody" /\ ~ j.short)
                  /\ next.short => j.short
  BY RoomTurns
<1>1. /\ Turns(j, next) /\ next.files = j.files
      /\ next.step = "done" \/ (next.step \in {"register", "fetch"} /\ (~ j.short \/ j.why = "emergency"))
  BY <1>0
<1>2. tags' = tags \ CacheTags(j.evict) /\ here' = here /\ shared' = shared /\ j.step = "evict"
  BY DEF Evicts, evict
<1> SUFFICES ASSUME ~ shared PROVE LimitOK'
  BY <1>2 DEF LimitOK
<1>3. jobs' = (jobs \ {j}) \cup {next} /\ next.why = j.why /\ j.files \in SUBSET File
  BY <1>1 DEF Turns, Goes, JobsOK, JobOK, Job
<1>4. \A k \in jobs' : HasRoom(k) => k = next
  BY <1>2, <1>3 DEF LimitOK, HasRoom
<1>5. \A k \in jobs' : k.step # "evict"
  BY <1>1, <1>4 DEF HasRoom
<1> DEFINE counted == Counted(tags \ CacheTags(j.evict))
<1>6. counted \in SUBSET File /\ Counted(tags)' = counted /\ Bytes(tags)' = SizeOf(counted) /\ counted \subseteq Counted(tags)
  BY <1>2 DEF Counted, KeptBy, Bytes
<1> HIDE DEF counted
<1>7. CASE ~ j.short
  <2>1. SizeOf(counted \cup j.files) <= limit
    BY <1>2, <1>7 DEF LimitOK, MakesRoom, counted
  <2>2. SizeOf(counted) <= limit
    <3> DEFINE many == counted \cup j.files
    <3>1. many \in SUBSET File /\ counted \subseteq many /\ SizeOf(many) <= limit
      BY <1>3, <1>6, <2>1
    <3> HIDE DEF many
    <3> QED
      BY <1>6, <3>1, Less
  <2>3. MakesRoom(next)'
    BY <1>1, <1>6, <2>1 DEF MakesRoom
  <2>4. \A k \in jobs' : MakesRoom(k)'
    BY <1>4, <2>3 DEF MakesRoom, HasRoom
  <2> QED
    BY <1>4, <1>5, <1>6, <2>2, <2>4 DEF LimitOK
<1>8. CASE j.short
  <2>1. j.why \notin {"add", "emergency"}
    BY <1>2, <1>8 DEF LimitOK
  <2>2. next.step = "done"
    BY <1>1, <1>8, <2>1
  <2>3. \A k \in jobs' : ~ HasRoom(k)
    BY <1>4, <2>2 DEF HasRoom
  <2>4. AddedOverTheLimit => AddedOverTheLimit'
    BY <1>1, <2>1, AddedTurn
  <2>5. Bytes(tags) <= limit => Bytes(tags)' <= limit
    <3> DEFINE many == Counted(tags)
    <3>1. many \in SUBSET File /\ Bytes(tags) = SizeOf(many) /\ counted \subseteq many
      BY <1>6, CountedFiles
    <3> HIDE DEF many
    <3> QED
      BY <1>6, <3>1, Less
  <2>6. \A k \in jobs' : MakesRoom(k)'
    BY <2>3 DEF MakesRoom, HasRoom
  <2> QED
    BY <1>5, <2>3, <2>4, <2>5, <2>6 DEF LimitOK
<1> QED
  BY <1>7, <1>8

LEMMA LimitAdds ==
    ASSUME JobsOK, CatalogueOK, LimitOK, NEW j \in jobs, AddChecks(j) \/ AddWrites(j) \/ AddKeeps(j)
    PROVE  LimitOK'
<1>1. Works(j) /\ j.why = "add" /\ j.step \in {"start", "write", "own"}
  BY Zenon DEF Works, AddChecks, AddWrites, AddKeeps
<1>2. PICK next : Turns(j, next) /\ next.step # "evict" /\ Follows(j, next)
  BY <1>1, WorkTurns
<1>3. jobs' = (jobs \ {j}) \cup {next} /\ next.why = "add" /\ next.step \in {"write", "done", "own", "recheck"}
  BY <1>1, <1>2 DEF Turns, Goes, Follows, Leads
<1>4. AddedOverTheLimit => AddedOverTheLimit'
  BY <1>1, <1>2, AddedTurn
<1>5. shared => shared'
  BY Zenon DEF AddChecks, AddWrites, AddKeeps, keepVars
<1> SUFFICES ASSUME ~ shared', ~ shared PROVE LimitOK'
  BY <1>5 DEF LimitOK
<1>6. \A k \in jobs' : HasRoom(k) => k = next
  <2>1. CASE AddChecks(j)
    <3>1. ~ Promised(j)
      BY <2>1, Zenon DEF AddChecks
    <3> QED
      BY <1>3, <3>1 DEF Promised, HasRoom
  <2>2. CASE AddWrites(j) \/ AddKeeps(j)
    <3>1. HasRoom(j)
      BY <2>2 DEF AddWrites, AddKeeps, HasRoom
    <3> QED
      BY <1>3, <3>1 DEF LimitOK
  <2> QED
    BY <2>1, <2>2
<1>7. AddedOverTheLimit' \/ Bytes(tags)' <= limit
  <2>1. CASE AddChecks(j)
    <3>1. tags' = tags /\ \A f \in File : f \in KeptBy(tags) /\ here'[f] # "absent" => here[f] # "absent"
      <4>1. /\ here' = [f \in File |-> IF f \in j.files THEN "complete" ELSE here[f]] /\ tags' = tags
            /\ ~ \E f \in j.files : f \in KeptBy(tags) /\ here[f] = "absent"
        BY <2>1, Zenon DEF AddChecks
      <4> QED
        BY <4>1
    <3> DEFINE few == Counted(tags)'
               many == Counted(tags)
    <3>2. few \in SUBSET File /\ many \in SUBSET File /\ few \subseteq many
      BY <3>1 DEF Counted, KeptBy
    <3>3. Bytes(tags)' = SizeOf(few) /\ Bytes(tags) = SizeOf(many)
      BY DEF Bytes, Counted
    <3> HIDE DEF few, many
    <3>4. Bytes(tags) <= limit => Bytes(tags)' <= limit
      BY <3>2, <3>3, Less
    <3> QED
      BY <1>4, <3>4 DEF LimitOK
  <2>2. CASE AddWrites(j)
    <3>1. Bytes(tags)' = Bytes(tags)
      BY <2>2 DEF AddWrites, keepVars, Bytes, KeptBy
    <3> QED
      BY <1>4, <3>1 DEF LimitOK
  <2>3. CASE AddKeeps(j)
    <3>1. next.step = "recheck"
      BY <1>1, <1>2, <2>3 DEF AddKeeps, Follows, Leads
    <3> QED
      BY <1>3, <3>1 DEF AddedOverTheLimit
  <2> QED
    BY <2>1, <2>2, <2>3
<1>8. \A k \in jobs' : MakesRoom(k)' /\ k.step # "evict"
  BY <1>3, <1>6 DEF MakesRoom, HasRoom
<1> QED
  BY <1>6, <1>7, <1>8 DEF LimitOK

LEMMA LimitFetches ==
    ASSUME JobsOK, CatalogueOK, KeepsOK, LimitOK, NEW j \in jobs,
           KeepFetches(j) \/ DownloadTags(j) \/ DownloadFetches(j) \/ DownloadExports(j)
    PROVE  LimitOK'
<1>1. Works(j) /\ j.step \in {"tag", "fetch", "export"} /\ shared' = shared
  BY Zenon DEF Works, KeepFetches, DownloadTags, DownloadFetches, DownloadExports, keepVars
<1>2. PICK next : Turns(j, next) /\ Follows(j, next)
  BY <1>1, WorkTurns
<1>3. /\ jobs' = (jobs \ {j}) \cup {next} /\ next.files = j.files /\ j.files \in SUBSET File /\ j.left \subseteq j.files
      /\ next.step \in {"fetch", "recheck", "done", "export", "tag"}
  BY <1>1, <1>2 DEF Turns, Goes, Follows, Leads, JobsOK, JobOK, Job
<1>4. next.step \in {"tag", "fetch", "export"} \/ ~ HasRoom(next)
  BY <1>3 DEF HasRoom
<1>5. Counted(tags)' \subseteq Counted(tags) \cup j.files
  <2>1. ASSUME tags' = tags, NEW f, f \in j.left \/ here'[f] = here[f], \A g \in File : g # f => here'[g] = here[g]
        PROVE  Counted(tags)' \subseteq Counted(tags) \cup j.files
    BY <1>3, <2>1 DEF Counted, KeptBy
  <2>2. ASSUME UNCHANGED <<tags, here>> PROVE Counted(tags)' \subseteq Counted(tags) \cup j.files
    BY <2>2 DEF Counted, KeptBy
  <2>3. CASE KeepFetches(j)
    <3>1. CASE j.left = {}
      BY <2>2, <2>3, <3>1 DEF KeepFetches
    <3>2. CASE j.left # {}
      <4>1. PICK f \in j.left : here' = [here EXCEPT ![f] = "complete"] \/ here' \in {here, [here EXCEPT ![f] = "partial"]}
        BY <2>3, <3>2 DEF KeepFetches
      <4>2. tags' = tags
        BY <2>3 DEF KeepFetches
      <4>3. \A g \in File : g # f => here'[g] = here[g]
        BY <4>1 DEF KeepsOK
      <4> QED
        BY <2>1, <4>2, <4>3
    <3> QED
      BY <3>1, <3>2
  <2>4. CASE DownloadTags(j)
    <3>1. CASE j.left = {}
      BY <2>2, <2>4, <3>1 DEF DownloadTags
    <3>2. CASE j.left # {}
      <4>1. PICK f \in j.left : tags' = tags \cup {<<"cache", j.item, f>>}
        BY <2>4, <3>2 DEF DownloadTags
      <4>2. here' = here
        BY <2>4 DEF DownloadTags
      <4> QED
        BY <1>3, <4>1, <4>2 DEF Counted, KeptBy
    <3> QED
      BY <3>1, <3>2
  <2>5. CASE DownloadFetches(j)
    <3>1. tags' = tags /\ (here' = here \/ \E f : here' = [here EXCEPT ![f] = "complete"] /\ f = CHOOSE g \in j.left : TRUE)
      BY <2>5, Zenon DEF DownloadFetches
    <3>2. CASE here' = here
      BY <2>2, <3>1, <3>2
    <3>3. CASE here' # here
      <4>1. PICK f : here' = [here EXCEPT ![f] = "complete"] /\ f = CHOOSE g \in j.left : TRUE
        BY <3>1, <3>3
      <4>2. f \in j.left
        BY <2>5, <4>1 DEF DownloadFetches, JobsOK, JobOK
      <4>3. \A g \in File : g # f => here'[g] = here[g]
        BY <4>1 DEF KeepsOK
      <4> QED
        BY <2>1, <3>1, <4>2, <4>3
    <3> QED
      BY <3>2, <3>3
  <2>6. CASE DownloadExports(j)
    BY <2>2, <2>6, Zenon DEF DownloadExports, keepVars
  <2> QED
    BY <2>3, <2>4, <2>5, <2>6
<1> QED
  BY <1>1, <1>3, <1>4, <1>5, LimitFills

LEMMA LimitRechecks ==
    ASSUME JobsOK, CatalogueOK, KeepsOK, LimitOK, NEW j \in jobs, RechecksRead(j) \/ RechecksSet(j) \/ DownloadStarts(j)
    PROVE  LimitOK'
<1>1. /\ Works(j) /\ UNCHANGED <<tags, here, shared>>
      /\ j.step \in {"recheck", "set"} \/ (j.step = "start" /\ j.why = "download")
  BY Zenon DEF Works, RechecksRead, RechecksSet, DownloadStarts, keepVars
<1>2. PICK next : Turns(j, next) /\ Follows(j, next)
  BY <1>1, WorkTurns
<1>3. jobs' = (jobs \ {j}) \cup {next} /\ next.why = j.why /\ JobOK(next) /\ Leads(j.why, j.step, next.step)
  BY <1>2 DEF Turns, Goes, Follows
<1>4. next.step \in {"set", "room", "row", "done"} /\ (j.why = "add" => next.step \in {"set", "room"})
  BY <1>1, <1>3 DEF Leads
<1>5. ~ HasRoom(next) /\ next.step # "evict"
  BY <1>4 DEF HasRoom
<1>6. AddedOverTheLimit => AddedOverTheLimit'
  BY <1>2, <1>4, AddedTurn
<1>7. Counted(tags)' \subseteq Counted(tags)
  BY <1>1 DEF Counted, KeptBy
<1>8. \A items : Counted(tags \ CacheTags(items))' \subseteq Counted(tags \ CacheTags(items))
  BY <1>1 DEF Counted, KeptBy, CacheTags
<1>9. \A k \in jobs' : k.files \in SUBSET File
  BY <1>3 DEF JobsOK, JobOK, Job
<1>10. \A k \in jobs' : HasRoom(k) => k \in jobs
  BY <1>3, <1>5
<1>11. \A k \in jobs' : k.step = "evict" => shared' \/ Counted(tags \ CacheTags(k.evict))' \subseteq Counted(tags \ CacheTags(k.evict))
  BY <1>8
<1>12. shared => shared'
  BY <1>1
<1> QED
  BY <1>6, <1>7, <1>9, <1>10, <1>11, <1>12, LimitStays

LEMMA LimitKeeps ==
    ASSUME JobsOK, CatalogueOK, LimitOK, NEW j \in jobs, KeepStarts(j)
    PROVE  LimitOK'
<1>1. Works(j) /\ j.step = "start" /\ j.why \in {"custody", "emergency"} /\ here' = here
  BY Zenon DEF Works, KeepStarts
<1>2. PICK next : Turns(j, next) /\ Follows(j, next)
  BY <1>1, WorkTurns
<1>3. jobs' = (jobs \ {j}) \cup {next} /\ next.why = j.why /\ JobOK(next) /\ next.step = "room"
  BY <1>1, <1>2 DEF Turns, Goes, Follows, Leads
<1>4. AddedOverTheLimit => AddedOverTheLimit'
  BY <1>1, <1>2, AddedTurn
<1>5. /\ shared => shared'
      /\ shared' \/ \A f \in files[j.item] : here[f] # "absent" => f \in KeptBy(tags \ Going)
      /\ tags' = tags \cup {<<ReasonOf(j.why), j.item, f>> : f \in files[j.item]}
  BY DEF KeepStarts
<1> SUFFICES ASSUME ~ shared' PROVE LimitOK'
  BY DEF LimitOK
<1>6. ASSUME NEW items, items \subseteq Planned
      PROVE  Counted(tags \ CacheTags(items))' \subseteq Counted(tags \ CacheTags(items))
  <2> SUFFICES ASSUME NEW f \in File, here[f] # "absent",
                      NEW reason \in Reason, NEW item \in Item, <<reason, item, f>> \in tags' \ CacheTags(items)'
               PROVE  \E why \in Reason, one \in Item : <<why, one, f>> \in tags \ CacheTags(items)
    BY <1>1 DEF Counted, KeptBy
  <2>1. CASE <<reason, item, f>> \in tags
    BY <2>1 DEF CacheTags
  <2>2. CASE <<reason, item, f>> \notin tags
    <3>1. f \in files[j.item]
      BY <1>5, <2>2
    <3>2. PICK why \in Reason, one \in Item : <<why, one, f>> \in tags \ Going
      BY <1>5, <3>1 DEF KeptBy
    <3>3. <<why, one, f>> \notin CacheTags(items)
      BY <1>6, <3>2 DEF Going, CacheTags, Planned
    <3> QED
      BY <3>2, <3>3
  <2> QED
    BY <2>1, <2>2
<1>7. Counted(tags)' \subseteq Counted(tags)
  <2>1. {} \subseteq Planned /\ CacheTags({}) = {} /\ CacheTags({})' = {}
    BY DEF CacheTags
  <2>2. tags \ CacheTags({}) = tags /\ (tags \ CacheTags({}))' = tags'
    BY <2>1
  <2>3. Counted(tags \ CacheTags({})) = Counted(tags) /\ Counted(tags \ CacheTags({}))' = Counted(tags)'
    BY <2>2
  <2> QED
    BY <1>6, <2>1, <2>3
<1>8. \A k \in jobs' : k.step = "evict" => Counted(tags \ CacheTags(k.evict))' \subseteq Counted(tags \ CacheTags(k.evict))
  <2> SUFFICES ASSUME NEW k \in jobs', k.step = "evict"
               PROVE  Counted(tags \ CacheTags(k.evict))' \subseteq Counted(tags \ CacheTags(k.evict))
    OBVIOUS
  <2>1. k \in jobs
    BY <1>3
  <2>2. k.evict \subseteq Planned
    BY <2>1 DEF Planned
  <2> QED
    BY <1>6, <2>2
<1>9. \A k \in jobs' : k.files \in SUBSET File
  BY <1>3 DEF JobsOK, JobOK, Job
<1>10. \A k \in jobs' : HasRoom(k) => k \in jobs
  BY <1>3 DEF HasRoom
<1> QED
  BY <1>4, <1>5, <1>7, <1>8, <1>9, <1>10, LimitStays

LEMMA LimitWorks ==
    ASSUME JobsOK, CatalogueOK, KeepsOK, LimitOK, NEW j \in jobs, Works(j)
    PROVE  LimitOK'
BY LimitPlans, LimitEvicts, LimitAdds, LimitFetches, LimitRechecks, LimitKeeps DEF Works

LEMMA LimitQuiet ==
    ASSUME JobsOK, LimitOK, Quiet, shared' = shared,
           \A items : Counted(tags \ CacheTags(items))' \subseteq Counted(tags \ CacheTags(items))
    PROVE  LimitOK'
<1>1. \A k \in jobs' : k \in jobs \/ (~ HasRoom(k) /\ k.step # "evict" /\ k.files \in SUBSET File)
  BY DEF Quiet, Begun, HasRoom, JobOK, Job
<1>2. \A k \in jobs' : k.files \in SUBSET File
  BY <1>1 DEF JobsOK, JobOK, Job
<1>3. Counted(tags)' \subseteq Counted(tags)
  <2>1. CacheTags({}) = {} /\ CacheTags({})' = {}
    BY DEF CacheTags
  <2>2. tags \ CacheTags({}) = tags /\ (tags \ CacheTags({}))' = tags'
    BY <2>1
  <2>3. Counted(tags \ CacheTags({})) = Counted(tags) /\ Counted(tags \ CacheTags({}))' = Counted(tags)'
    BY <2>2
  <2> QED
    BY <2>3
<1>4. AddedOverTheLimit => AddedOverTheLimit'
  BY DEF Quiet, Asks, AddedOverTheLimit
<1> QED
  BY <1>1, <1>2, <1>3, <1>4, LimitStays

LEMMA LimitSame ==
    ASSUME JobsOK, LimitOK, Quiet, UNCHANGED <<tags, here, shared>>
    PROVE  LimitOK'
<1>1. \A items : Counted(tags \ CacheTags(items))' \subseteq Counted(tags \ CacheTags(items))
  BY DEF Counted, KeptBy, CacheTags
<1> QED
  BY <1>1, LimitQuiet

LEMMA LimitLess ==
    ASSUME JobsOK, LimitOK, jobs' \subseteq jobs, UNCHANGED <<tags, here>>, shared' = (shared \/ AddedOverTheLimit)
    PROVE  LimitOK'
<1> SUFFICES ASSUME ~ shared, ~ AddedOverTheLimit PROVE LimitOK'
  BY DEF LimitOK
<1>1. Bytes(tags)' = Bytes(tags)
  BY DEF Bytes, KeptBy
<1>2. ASSUME NEW k \in jobs' PROVE MakesRoom(k)'
  <2>1. MakesRoom(k)
    BY DEF LimitOK
  <2>2. Counted(tags)' = Counted(tags) /\ Counted(tags \ CacheTags(k.evict))' = Counted(tags \ CacheTags(k.evict))
    BY DEF Counted, KeptBy, CacheTags
  <2> QED
    BY <2>1, <2>2 DEF MakesRoom
<1> QED
  BY <1>1, <1>2 DEF LimitOK

LEMMA LimitLetsGo ==
    ASSUME JobsOK, LimitOK, UNCHANGED <<here, shared, jobs>>, Released \/ \E item \in Item : ReleaseIfSafe(item)
    PROVE  LimitOK'
<1>1. Quiet
  BY QuietSame
<1>2. ASSUME NEW items PROVE Counted(tags \ CacheTags(items))' \subseteq Counted(tags \ CacheTags(items))
  <2>1. CASE Released
    <3>1. tags' \subseteq tags
      BY <2>1 DEF Released
    <3> QED
      BY <3>1 DEF Counted, KeptBy, CacheTags
  <2>2. CASE \E item \in Item : ReleaseIfSafe(item)
    <3>1. PICK item \in Item : tags' = tags \/ tags' = tags \cup {<<"cache", item, f>> : f \in kept_for("custody", item)}
      BY <2>2, Zenon DEF ReleaseIfSafe
    <3> SUFFICES ASSUME NEW f \in File, here[f] # "absent",
                        NEW reason \in Reason, NEW one \in Item, <<reason, one, f>> \in tags' \ CacheTags(items)'
                 PROVE  \E why \in Reason, other \in Item : <<why, other, f>> \in tags \ CacheTags(items)
      BY DEF Counted, KeptBy
    <3>2. CASE <<reason, one, f>> \in tags
      BY <3>2 DEF CacheTags
    <3>3. CASE <<reason, one, f>> \notin tags
      <4>1. f \in kept_for("custody", item)
        BY <3>1, <3>3
      <4>2. <<"custody", item, f>> \in tags \ CacheTags(items) /\ "custody" \in Reason
        BY <4>1 DEF kept_for, CacheTags, Reason
      <4> QED
        BY <4>2
    <3> QED
      BY <3>2, <3>3
  <2> QED
    BY <2>1, <2>2
<1> QED
  BY <1>1, <1>2, LimitQuiet

LEMMA LimitCollects ==
    ASSUME JobsOK, LimitOK, Collects
    PROVE  LimitOK'
<1>1. /\ UNCHANGED <<tags, shared, jobs>>
      /\ \E gone : here' = [f \in File |-> IF f \in gone THEN "absent" ELSE here[f]]
  BY Zenon DEF Collects
<1>2. \A f \in File : here'[f] # "absent" => here[f] # "absent"
  BY <1>1
<1>3. \A items : Counted(tags \ CacheTags(items))' \subseteq Counted(tags \ CacheTags(items))
  BY <1>1, <1>2 DEF Counted, KeptBy, CacheTags
<1>4. Quiet
  BY <1>1, QuietSame
<1> QED
  BY <1>1, <1>3, <1>4, LimitQuiet

LEMMA LimitRegisters ==
    ASSUME JobsOK, LimitOK, NEW j \in jobs, Registers(j)
    PROVE  LimitOK'
<1>1. j.step = "register" /\ UNCHANGED <<tags, here, shared>>
  BY DEF Registers, keepVars
<1> DEFINE next == [j EXCEPT !.step = "tag", !.task = next_task + 1]
<1>2. jobs' = (jobs \ {j}) \cup {next}
  BY Zenon DEF Registers, Goes
<1>3. j \in Job
  BY DEF JobsOK, JobOK
<1>4. next.files = j.files /\ next.step = "tag" /\ j.files \in SUBSET File
  BY <1>3 DEF Job
<1> HIDE DEF next
<1>5. Counted(tags)' = Counted(tags)
  BY <1>1 DEF Counted, KeptBy
<1> QED
  BY <1>1, <1>2, <1>4, <1>5, LimitFills

LEMMA LimitFresh == jobs = {} /\ Bytes(tags) <= limit => LimitOK
BY DEF LimitOK

-----------------------------------------------------------------------------
(* Who waits for room has none.                                            *)

LEMMA NoRoomStays ==
    ASSUME KeepsOK, NEW item \in Item, NoRoomFor(item),
           \A tag \in tags : tag \in tags' \/ (tag[1] = "cache" /\ tag[2] \in Planned),
           \A f \in KeptBy(tags) : here[f] # "absent" => here'[f] # "absent",
           \A one \in Planned' : one \in Planned \/ ~ \E tag \in MandatoryTags : tag[2] = one
    PROVE  NoRoomFor(item)'
<1>1. \A reason, one, f : <<reason, one, f>> \in tags /\ reason # "cache" => <<reason, one, f>> \in tags'
  OBVIOUS
<1>2. PICK kept \in File : <<"custody", item, kept>> \in tags
  BY DEF NoRoomFor, kept_for
<1>3. Wanting(item) \subseteq Wanting(item)'
  <2> SUFFICES ASSUME NEW f \in File, NEW reason \in Reason, NEW one \in Item,
                      <<reason, one, f>> \in tags \ CacheTags(Evictable(item) \cup Planned),
                      here[f] # "absent" \/ <<"custody", item, f>> \in tags
               PROVE  /\ <<reason, one, f>> \in tags' \ CacheTags(Evictable(item) \cup Planned)'
                      /\ here'[f] # "absent" \/ <<"custody", item, f>> \in tags'
    BY DEF Wanting, KeptBy
  <2>1. here'[f] # "absent" \/ <<"custody", item, f>> \in tags'
    BY <1>1 DEF KeptBy
  <2>2. CASE reason # "cache"
    BY <1>1, <2>1, <2>2 DEF CacheTags
  <2>3. CASE reason = "cache"
    <3>1. one \notin Evictable(item) /\ one \notin Planned /\ <<reason, one, f>> \in tags
      BY <2>3 DEF CacheTags
    <3>2. <<reason, one, f>> \in tags'
      BY <3>1
    <3>3. \E tag \in MandatoryTags : tag[2] = one
      <4>1. CASE one = item
        <5>1. <<"custody", item, kept>> \in MandatoryTags
          BY <1>2 DEF MandatoryTags
        <5> QED
          BY <4>1, <5>1
      <4>2. CASE one # item
        <5>1. <<reason, one, f>> \in CacheTags({one})
          BY <2>3, <3>1 DEF CacheTags
        <5> QED
          BY <3>1, <4>2, <5>1 DEF Evictable
      <4> QED
        BY <4>1, <4>2
    <3>4. one \notin Planned'
      BY <3>1, <3>3
    <3>5. one \notin Evictable(item)'
      <4>1. PICK tag \in MandatoryTags : tag[2] = one
        BY <3>3
      <4>2. tag \in MandatoryTags'
        BY <4>1 DEF MandatoryTags
      <4> QED
        BY <4>1, <4>2 DEF Evictable
    <3> QED
      BY <2>1, <3>2, <3>4, <3>5 DEF CacheTags
  <2> QED
    BY <2>2, <2>3
<1>4. kept_for("custody", item)' # {}
  BY <1>1, <1>2 DEF kept_for
<1>5. SizeOf(Wanting(item)') > limit
  <2> DEFINE few == Wanting(item)
             many == Wanting(item)'
  <2>1. few \in SUBSET File /\ many \in SUBSET File /\ few \subseteq many /\ SizeOf(few) > limit
    BY <1>3 DEF Wanting, KeptBy, NoRoomFor
  <2> HIDE DEF few, many
  <2>2. SizeOf(few) \in Nat /\ SizeOf(many) \in Nat /\ SizeOf(few) <= SizeOf(many) /\ limit \in Nat
    BY <2>1, SizeIs, SizeGrows, KeepingAssumption
  <2>3. SizeOf(many) > limit
    BY <2>1, <2>2
  <2> QED
    BY <2>3 DEF many
<1> QED
  BY <1>4, <1>5 DEF NoRoomFor

Short(item) == item \notin crossed /\ \E j \in jobs : j.why = "custody" /\ j.short /\ j.item = item
Waiting(item) == item \notin crossed /\ pins[item] = "WaitingForRoom"

LEMMA WaitsStay ==
    ASSUME JobsOK, KeepsOK, WaitsOK,
           \A item \in Item : Waiting(item)' => Waiting(item) \/ Short(item),
           \A item \in Item : Short(item)' => Short(item) \/ NoRoomFor(item)',
           \A j \in jobs' : j.item \in Item,
           \A tag \in tags : tag \in tags' \/ (tag[1] = "cache" /\ tag[2] \in Planned),
           \A f \in KeptBy(tags) : here[f] # "absent" => here'[f] # "absent",
           \A one \in Planned' : one \in Planned \/ ~ \E tag \in MandatoryTags : tag[2] = one
    PROVE  WaitsOK'
<1>1. \A item \in Item : NoRoomFor(item) => NoRoomFor(item)'
  BY NoRoomStays
<1>2. \A item \in Item : Waiting(item) \/ Short(item) => NoRoomFor(item)
  BY DEF WaitsOK, Waiting, Short
<1>3. \A item \in Item : Waiting(item)' \/ Short(item)' => NoRoomFor(item)'
  BY <1>1, <1>2
<1> QED
  BY <1>3 DEF WaitsOK, Waiting, Short

LEMMA PlannedTurn ==
    ASSUME NEW j \in jobs, NEW next, Turns(j, next), next.step # "evict"
    PROVE  Planned' \subseteq Planned
<1>1. jobs' = (jobs \ {j}) \cup {next} /\ next.evict = {}
  BY DEF Turns, Goes, JobOK
<1> QED
  BY <1>1 DEF Planned

LEMMA WaitsWorks ==
    ASSUME JobsOK, CatalogueOK, KeepsOK, WaitsOK, NEW j \in jobs, Works(j), ~ Plans(j), UNCHANGED <<pins, crossed>>
    PROVE  WaitsOK'
<1>1. PICK next : Turns(j, next) /\ next.step # "evict" /\ (next.short => j.short)
  <2>1. CASE Evicts(j)
    <3>1. PICK next : Turns(j, next) /\ (next.short => j.short)
                      /\ (next.step = "done" \/ next.step = "register" \/ next.step = "fetch")
      BY <2>1, RoomTurns
    <3> QED
      BY <3>1
  <2>2. CASE ~ Evicts(j)
    <3>1. j.step \notin {"room", "evict"}
      BY <2>2, Zenon DEF Works, RechecksRead, RechecksSet, KeepStarts, KeepFetches, DownloadStarts, DownloadTags,
         DownloadFetches, DownloadExports, AddChecks, AddWrites, AddKeeps
    <3> QED
      BY <3>1, WorkTurns DEF Follows
  <2> QED
    BY <2>1, <2>2
<1>2. jobs' = (jobs \ {j}) \cup {next} /\ next.why = j.why /\ next.item = j.item /\ JobOK(next)
  BY <1>1 DEF Turns, Goes
<1>3. Planned' \subseteq Planned
  BY <1>1, PlannedTurn
<1>4. \A tag \in tags : tag \in tags' \/ (tag[1] = "cache" /\ tag[2] \in Planned)
  <2>1. CASE Evicts(j)
    <3>1. tags' = tags \ CacheTags(j.evict) /\ j.evict \subseteq Planned
      BY <2>1 DEF Evicts, evict, Planned
    <3> QED
      BY <3>1 DEF CacheTags
  <2>2. CASE ~ Evicts(j)
    BY <2>2, WorkTags
  <2> QED
    BY <2>1, <2>2
<1>5. \A f \in KeptBy(tags) : here[f] # "absent" => here'[f] # "absent"
  BY WorkHere DEF KeptBy
<1>6. \A item \in Item : (Waiting(item)' => Waiting(item)) /\ (Short(item)' => Short(item))
  BY <1>1, <1>2 DEF Waiting, Short
<1>7. \A k \in jobs' : k.item \in Item
  BY <1>2 DEF JobsOK, JobOK, Job
<1> QED
  BY <1>3, <1>4, <1>5, <1>6, <1>7, WaitsStay

LEMMA NoneFits ==
    ASSUME KeepsOK, NEW item \in Item, NEW fs \in SUBSET File, fs # {},
           \A f \in fs : <<"custody", item, f>> \in tags,
           NEW all, all = Evictable(item), ~ Fits(all, uncounted_bytes(fs)), Planned = {}
    PROVE  NoRoomFor(item)
<1> DEFINE here_ == Counted(tags \ CacheTags(all))
           to_come == Uncounted(fs)
           wanting == Wanting(item)
<1>1. here_ \in SUBSET File /\ to_come \in SUBSET File /\ wanting \in SUBSET File
  BY CountedFiles DEF Uncounted, Wanting, KeptBy
<1>2. \A f \in fs : f \in KeptBy(tags) /\ f \in KeptBy(tags \ CacheTags(all))
  BY DEF KeptBy, CacheTags, Reason
<1>3. here_ \cap to_come = {}
  BY <1>2 DEF Counted, Uncounted
<1>4. here_ \cup to_come \subseteq wanting
  <2>1. all \cup Planned = Evictable(item)
    OBVIOUS
  <2>2. here_ \subseteq wanting
    BY <2>1 DEF Counted, Wanting, KeptBy
  <2>3. to_come \subseteq wanting
    BY <1>2, <2>1 DEF Uncounted, Wanting
  <2> QED
    BY <2>2, <2>3
<1>5. BytesWithout(all) = SizeOf(here_) /\ uncounted_bytes(fs) = SizeOf(to_come)
  BY CountedFiles DEF BytesWithout, uncounted_bytes
<1>6. ~ (SizeOf(here_) + SizeOf(to_come) <= limit)
  BY <1>5 DEF Fits
<1> HIDE DEF here_, to_come
<1>7. SizeOf(wanting) > limit
  <2> HIDE DEF wanting
  <2>1. SizeOf(here_ \cup to_come) = SizeOf(here_) + SizeOf(to_come)
    BY <1>1, <1>3, SizeAdds
  <2> DEFINE both == here_ \cup to_come
  <2>2. both \in SUBSET File /\ both \subseteq wanting /\ ~ (SizeOf(both) <= limit)
    BY <1>1, <1>4, <1>6, <2>1
  <2> HIDE DEF both
  <2>3. SizeOf(both) \in Nat /\ SizeOf(wanting) \in Nat /\ SizeOf(both) <= SizeOf(wanting) /\ limit \in Nat
    BY <1>1, <2>2, SizeIs, SizeGrows, KeepingAssumption
  <2> QED
    BY <2>2, <2>3
<1>8. kept_for("custody", item) # {}
  BY DEF kept_for
<1> QED
  BY <1>7, <1>8 DEF NoRoomFor

LEMMA WaitsPlans ==
    ASSUME JobsOK, LockOK, KeepsOK, WholeOK, WaitsOK, NEW j \in jobs, Plans(j), UNCHANGED <<pins, crossed>>
    PROVE  WaitsOK'
<1>1. PICK next, items : PlansAs(j, next, items)
  BY PlanTurns
<1>2. /\ Turns(j, next) /\ next.step = "evict" /\ next.files = j.files
      /\ items \in evictions(j.item, uncounted_bytes(j.files)) /\ items \subseteq Evictable(j.item)
      /\ next.short = ~ Fits(items, uncounted_bytes(j.files))
      /\ next.evict = (IF next.short /\ j.why = "custody" THEN {} ELSE items)
  BY <1>1 DEF PlansAs
<1>3. jobs' = (jobs \ {j}) \cup {next} /\ next.why = j.why /\ next.item = j.item /\ JobOK(next)
  BY <1>2 DEF Turns, Goes
<1>4. j.step = "room" /\ making_room = {} /\ UNCHANGED <<tags, here>> /\ j \in Job
  <2>1. j.step = "room" /\ making_room = {} /\ UNCHANGED <<tags, here>>
    BY Zenon DEF Plans
  <2> QED
    BY <2>1 DEF JobsOK, JobOK
<1>5. Planned = {}
  <2>1. \A k \in jobs : k.step # "evict"
    BY <1>4 DEF LockOK
  <2> QED
    BY <2>1 DEF Planned, JobsOK, JobOK
<1>6. Planned' = next.evict
  BY <1>3, <1>5 DEF Planned
<1>7. \A one \in Planned' : one \in Planned \/ ~ \E tag \in MandatoryTags : tag[2] = one
  BY <1>2, <1>6 DEF Evictable
<1>8. ASSUME j.why = "custody", next.short PROVE NoRoomFor(j.item)'
  <2>1. j.files # {} /\ \A f \in j.files : <<"custody", j.item, f>> \in tags
    BY <1>4, <1>8 DEF WholeOK, CustodyJobOK
  <2>2. items = Evictable(j.item) /\ ~ Fits(items, uncounted_bytes(j.files))
    BY <1>2, <1>8 DEF evictions
  <2>3. j.item \in Item /\ j.files \in SUBSET File
    BY <1>4 DEF Job
  <2>4. NoRoomFor(j.item)
    BY <1>5, <2>1, <2>2, <2>3, NoneFits
  <2>5. Planned' = {}
    BY <1>2, <1>6, <1>8
  <2> QED
    BY <1>4, <1>5, <2>4, <2>5 DEF NoRoomFor, Wanting, KeptBy, CacheTags, Evictable, MandatoryTags, kept_for
<1>9. \A item \in Item : (Waiting(item)' => Waiting(item)) /\ (Short(item)' => Short(item) \/ NoRoomFor(item)')
  BY <1>3, <1>8 DEF Waiting, Short
<1>10. \A k \in jobs' : k.item \in Item
  BY <1>3 DEF JobsOK, JobOK, Job
<1>11. \A tag \in tags : tag \in tags'
  BY <1>4
<1>12. \A f \in KeptBy(tags) : here[f] # "absent" => here'[f] # "absent"
  BY <1>4
<1> QED
  BY <1>7, <1>9, <1>10, <1>11, <1>12, WaitsStay

LEMMA QuietPlanned ==
    ASSUME JobsOK, Quiet
    PROVE  /\ Planned' \subseteq Planned
           /\ \A k \in jobs' : k.item \in Item
           /\ \A k \in jobs' : k \in jobs \/ ~ k.short
<1>1. \A k \in jobs' : k \in jobs \/ (k.evict = {} /\ ~ k.short /\ k.item \in Item)
  BY DEF Quiet, Begun, JobOK, Job
<1>2. \A k \in jobs : k.item \in Item
  BY DEF JobsOK, JobOK, Job
<1> QED
  BY <1>1, <1>2 DEF Planned

LEMMA WaitsQuiet ==
    ASSUME JobsOK, KeepsOK, WaitsOK, Quiet, tags \subseteq tags', crossed \subseteq crossed',
           \A f \in KeptBy(tags) : here[f] # "absent" => here'[f] # "absent",
           \A item \in Item : Waiting(item)' => Waiting(item) \/ Short(item)
    PROVE  WaitsOK'
<1>1. /\ Planned' \subseteq Planned
      /\ \A k \in jobs' : k.item \in Item
      /\ \A k \in jobs' : k \in jobs \/ ~ k.short
  BY QuietPlanned
<1>2. \A item \in Item : Short(item)' => Short(item)
  BY <1>1 DEF Short
<1>3. \A one \in Planned' : one \in Planned
  BY <1>1
<1>4. \A tag \in tags : tag \in tags'
  OBVIOUS
<1> QED
  BY <1>1, <1>2, <1>3, <1>4, WaitsStay

LEMMA WaitsSame ==
    ASSUME JobsOK, KeepsOK, WaitsOK, Quiet, UNCHANGED <<tags, here, pins, crossed>>
    PROVE  WaitsOK'
<1>1. \A item \in Item : Waiting(item)' => Waiting(item)
  BY DEF Waiting
<1>2. \A f \in KeptBy(tags) : here[f] # "absent" => here'[f] # "absent"
  OBVIOUS
<1> QED
  BY <1>1, <1>2, WaitsQuiet

LEMMA WaitsLess ==
    ASSUME JobsOK, KeepsOK, WaitsOK, jobs' \subseteq jobs, UNCHANGED <<tags, here, pins, crossed>>
    PROVE  WaitsOK'
<1>1. \A item \in Item : (Waiting(item)' => Waiting(item)) /\ (Short(item)' => Short(item))
  BY DEF Waiting, Short
<1>2. \A one \in Planned' : one \in Planned
  BY DEF Planned
<1>3. \A k \in jobs' : k.item \in Item
  BY DEF JobsOK, JobOK, Job
<1>4. (\A tag \in tags : tag \in tags') /\ \A f \in KeptBy(tags) : here[f] # "absent" => here'[f] # "absent"
  OBVIOUS
<1> QED
  BY <1>1, <1>2, <1>3, <1>4, WaitsStay

LEMMA WaitsRegisters ==
    ASSUME JobsOK, JobsOK', KeepsOK, WaitsOK, NEW j \in jobs, Registers(j)
    PROVE  WaitsOK'
<1>1. j.why = "download" /\ j.step = "register" /\ UNCHANGED <<tags, here, pins, crossed>>
  BY DEF Registers, keepVars, pinVars
<1> DEFINE next == [j EXCEPT !.step = "tag", !.task = next_task + 1]
<1>2. jobs' = (jobs \ {j}) \cup {next}
  BY Zenon DEF Registers, Goes
<1>3. next.why = "download" /\ next.evict = {}
  BY <1>1 DEF JobsOK, JobOK, Job
<1> HIDE DEF next
<1>4. \A item \in Item : (Waiting(item)' => Waiting(item)) /\ (Short(item)' => Short(item))
  BY <1>1, <1>2, <1>3 DEF Waiting, Short
<1>5. \A one \in Planned' : one \in Planned
  BY <1>2, <1>3 DEF Planned
<1>6. \A k \in jobs' : k.item \in Item
  BY DEF JobsOK, JobOK, Job
<1>7. (\A tag \in tags : tag \in tags') /\ \A f \in KeptBy(tags) : here[f] # "absent" => here'[f] # "absent"
  BY <1>1
<1> QED
  BY <1>4, <1>5, <1>6, <1>7, WaitsStay

LEMMA WaitsReleased ==
    ASSUME JobsOK, PinsOK, WaitsOK, Released
    PROVE  WaitsOK'
<1>1. PICK item \in letting_go : ask_again_for_room(item)
  BY Zenon DEF Released
<1>2. jobs' = jobs
  BY Zenon DEF Released
<1>3. ASSUME NEW one \in Item PROVE pins'[one] # "WaitingForRoom"
  <2> DEFINE waiting == {other \in Item : pins[other] = "WaitingForRoom"} \ {item}
  <2>1. pins' = [other \in Item |-> IF other = item THEN "none" ELSE IF other \in waiting THEN "Queued" ELSE pins[other]]
    BY <1>1, Zenon DEF ask_again_for_room
  <2> QED
    BY <2>1
<1>4. ASSUME NEW j \in jobs, j.why = "custody", j.short PROVE j.item \in crossed'
  <2>1. crossed' = crossed \cup ToldThereIsNone
    BY <1>1, Zenon DEF ask_again_for_room
  <2> QED
    BY <1>4, <2>1 DEF ToldThereIsNone
<1> QED
  BY <1>2, <1>3, <1>4 DEF WaitsOK

LEMMA WaitsPinning ==
    ASSUME JobsOK, KeepsOK, PinsOK, WaitsOK, Loop
    PROVE  WaitsOK'
<1>1. ASSUME UNCHANGED <<tags, here, crossed>>, Quiet, \A item \in Item : pins'[item] = "WaitingForRoom" => pins[item] = "WaitingForRoom"
      PROVE  WaitsOK'
  <2>1. \A item \in Item : Waiting(item)' => Waiting(item)
    BY <1>1 DEF Waiting
  <2>2. tags \subseteq tags' /\ crossed \subseteq crossed' /\ \A f \in KeptBy(tags) : here[f] # "absent" => here'[f] # "absent"
    BY <1>1
  <2> QED
    BY <1>1, <2>1, <2>2, WaitsQuiet
<1>2. CASE start_fetches
  <2>1. UNCHANGED <<tags, here, crossed>>
    BY <1>2, Zenon DEF start_fetches, keepVars
  <2>2. PICK k \in DOMAIN queue : /\ pins' = [pins EXCEPT ![queue[k]] = "Fetching"]
                                  /\ jobs' = jobs \cup {NewJob("custody", queue[k], "start")}
    BY <1>2, Zenon DEF start_fetches
  <2>3. queue[k] \in Item
    BY DEF PinsOK, Lists
  <2>4. IsNew(NewJobOf("custody", queue[k], "start", {}, {}), "custody", queue[k], "start", {})
    <3>1. "custody" \in Why /\ <<"custody", "start">> \in JobSteps
      BY DEF Why, JobSteps
    <3> QED
      BY <2>3, <3>1, NewJobs
  <2>5. Quiet
    BY <2>2, <2>4, QuietBegun DEF IsNew, NewJob
  <2>6. \A item \in Item : pins'[item] = "WaitingForRoom" => pins[item] = "WaitingForRoom"
    BY <2>2 DEF PinsOK
  <2> QED
    BY <1>1, <2>1, <2>5, <2>6
<1>3. CASE HearsChange \/ HearsLagged
  <2>1. UNCHANGED <<tags, here, crossed, jobs>>
    BY <1>3, Zenon DEF HearsChange, HearsLagged, keepingVars, keepVars
  <2>2. pins' = pins \/ \E items : Wanted(items)
    BY <1>3, Zenon DEF HearsChange, HearsLagged, Changed, read_custody_again
  <2>3. \A item \in Item : pins'[item] = "WaitingForRoom" => pins[item] = "WaitingForRoom"
    BY <2>2 DEF Wanted
  <2> QED
    BY <1>1, <2>1, <2>3, QuietSame
<1>4. CASE LooksAtAvailability
  <2>1. UNCHANGED <<tags, here, crossed, jobs>>
    BY <1>4, Zenon DEF LooksAtAvailability, keepingVars, keepVars
  <2>2. \E failed : pins' = [item \in Item |-> IF item \in failed THEN "Queued" ELSE pins[item]]
    BY <1>4, Zenon DEF LooksAtAvailability
  <2> QED
    BY <1>1, <2>1, <2>2, QuietSame
<1>5. CASE \E j \in jobs : FetchEnds(j)
  <2>1. PICK j \in jobs : FetchEnds(j)
    BY <1>5
  <2>2. /\ UNCHANGED <<tags, here, crossed>> /\ jobs' = jobs \ {j} /\ j.why = "custody" /\ j.step = "done"
        /\ pins' = pins \/ pins' = [pins EXCEPT ![j.item] = Next_(j.item, j.result)]
    BY <2>1, Zenon DEF FetchEnds, fetched, keepVars
  <2>3. Quiet
    BY <2>2, QuietOver DEF Asks
  <2>4. JobOK(j)
    BY DEF JobsOK
  <2>5. Next_(j.item, j.result) = "WaitingForRoom" => j.result = "noroom"
    BY <2>4 DEF Next_, JobOK, Job
  <2>6. \A item \in Item : Waiting(item)' => Waiting(item) \/ Short(item)
    BY <2>2, <2>4, <2>5 DEF Waiting, Short, JobOK, PinsOK
  <2>7. tags \subseteq tags' /\ crossed \subseteq crossed' /\ \A f \in KeptBy(tags) : here[f] # "absent" => here'[f] # "absent"
    BY <2>2
  <2> QED
    BY <2>3, <2>6, <2>7, WaitsQuiet
<1>6. CASE \E item \in Item : ReleaseIfSafe(item)
  <2>1. PICK item \in Item : ReleaseIfSafe(item)
    BY <1>6
  <2>2. /\ UNCHANGED <<here, crossed, jobs>> /\ tags \subseteq tags'
        /\ pins' = pins \/ pins' = [pins EXCEPT ![item] = "Releasing"]
    BY <2>1 DEF ReleaseIfSafe
  <2>3. \A one \in Item : Waiting(one)' => Waiting(one)
    BY <2>2 DEF Waiting, PinsOK
  <2>4. crossed \subseteq crossed' /\ \A f \in KeptBy(tags) : here[f] # "absent" => here'[f] # "absent"
    BY <2>2
  <2> QED
    BY <2>2, <2>3, <2>4, WaitsQuiet, QuietSame
<1>7. CASE Released
  BY <1>7, WaitsReleased
<1> QED
  BY <1>2, <1>3, <1>4, <1>5, <1>6, <1>7 DEF Loop

LEMMA WaitsPanicked ==
    ASSUME JobsOK, KeepsOK, PinsOK, WaitsOK, NEW j \in jobs, fetch_panicked(j)
    PROVE  WaitsOK'
<1>1. /\ UNCHANGED <<tags, here>> /\ jobs' = jobs \ {j} /\ j.step = "fetch" /\ j.why = "custody"
      /\ crossed' = crossed \cup {j.item} /\ pins' = [pins EXCEPT ![j.item] = "Failed"]
  BY DEF fetch_panicked, keepVars
<1>2. Quiet
  BY <1>1, QuietOver DEF Asks
<1>3. \A one \in Item : Waiting(one)' => Waiting(one)
  BY <1>1 DEF Waiting, PinsOK
<1>4. tags \subseteq tags' /\ crossed \subseteq crossed' /\ \A f \in KeptBy(tags) : here[f] # "absent" => here'[f] # "absent"
  BY <1>1
<1> QED
  BY <1>2, <1>3, <1>4, WaitsQuiet

LEMMA WaitsCollects ==
    ASSUME JobsOK, KeepsOK, WaitsOK, Collects, UNCHANGED <<pins, crossed>>
    PROVE  WaitsOK'
<1>1. UNCHANGED <<tags, jobs>>
  BY Zenon DEF Collects
<1>2. \A f \in KeptBy(tags) : here[f] # "absent" => here'[f] # "absent"
  BY DEF Collects, KeptBy
<1>3. \A one \in Item : Waiting(one)' => Waiting(one)
  BY DEF Waiting
<1> QED
  BY <1>1, <1>2, <1>3, WaitsQuiet, QuietSame

LEMMA WaitsFresh == jobs = {} /\ (\A item \in Item : pins[item] # "WaitingForRoom") => WaitsOK
BY DEF WaitsOK

LEMMA WaitsMean ==
    ASSUME CatalogueOK, KeepsOK, WaitsOK
    PROVE  WaitsForRoomOnly
<1> SUFFICES ASSUME NEW item \in Item \ crossed, pins[item] = "WaitingForRoom",
                    NEW items \in evictions(item, uncounted_bytes(files[item]))
             PROVE  ~ Fits(items, uncounted_bytes(files[item]))
  BY DEF WaitsForRoomOnly
<1>1. SizeOf(Wanting(item)) > limit
  BY DEF WaitsOK, NoRoomFor
<1>2. items \subseteq Evictable(item)
  BY DEF evictions
<1> DEFINE wanting == Wanting(item)
           there == Counted(tags \ CacheTags(items))
           to_come == {f \in File : f \in Uncounted(files[item])}
<1>3. kept_for("custody", item) \subseteq files[item]
  BY DEF KeepsOK
<1>4. wanting \in SUBSET File /\ there \in SUBSET File /\ to_come \in SUBSET File
  BY CountedFiles DEF Wanting, KeptBy
<1>5. wanting \subseteq there \cup to_come
  <2> SUFFICES ASSUME NEW f \in wanting PROVE f \in there \cup to_come
    OBVIOUS
  <2>1. f \in KeptBy(tags \ CacheTags(items)) /\ f \in File
    BY <1>2 DEF Wanting, KeptBy, CacheTags
  <2>2. CASE here[f] # "absent"
    BY <2>1, <2>2 DEF Counted
  <2>3. CASE here[f] = "absent"
    <3>1. f \in files[item]
      BY <1>3, <2>1, <2>3 DEF Wanting, kept_for
    <3> QED
      BY <2>1, <2>3, <3>1 DEF Uncounted
  <2> QED
    BY <2>2, <2>3
<1>6. to_come = Uncounted(files[item])
  BY DEF Uncounted, CatalogueOK
<1>7. BytesWithout(items) = SizeOf(there) /\ uncounted_bytes(files[item]) = SizeOf(to_come)
  BY <1>6, CountedFiles DEF BytesWithout, uncounted_bytes
<1> HIDE DEF there, to_come
<1>8. SizeOf(wanting) > limit
  BY <1>1
<1> HIDE DEF wanting
<1> DEFINE both == there \cup to_come
<1>9. both \in SUBSET File /\ wanting \subseteq both
  BY <1>4, <1>5
<1>10. SizeOf(both) <= SizeOf(there) + SizeOf(to_come)
  BY <1>4, SizeAdds
<1> HIDE DEF both
<1>11. SizeOf(wanting) <= SizeOf(both)
  BY <1>4, <1>9, SizeGrows
<1>12. SizeOf(wanting) \in Nat /\ SizeOf(both) \in Nat /\ SizeOf(there) \in Nat /\ SizeOf(to_come) \in Nat /\ limit \in Nat
  BY <1>4, <1>9, SizeIs, KeepingAssumption
<1>13. ~ (SizeOf(there) + SizeOf(to_come) <= limit)
  BY <1>8, <1>10, <1>11, <1>12
<1> QED
  BY <1>7, <1>13 DEF Fits

-----------------------------------------------------------------------------
(* What is kept is whole.                                                  *)

TagsStay(item) ==
    \A f \in File : <<"custody", item, f>> \in tags =>
        <<"custody", item, f>> \in tags' /\ (here[f] = "complete" => here'[f] = "complete")
Still(item) == pins[item] = "Kept" /\ item \notin losing \cup letting_go \cup unheard
Fetches(j) == j.why = "custody" /\ j.step # "start"

LEMMA FetchGoesOn ==
    ASSUME NEW j, CustodyJobOK(j), j.item \in Item, j.files \in SUBSET File, TagsStay(j.item),
           NEW next, next.item = j.item, next.files = j.files, next.files # files'[next.item] => Known(next.item)',
           (next.step # "done" \/ next.result = "ok") => \A f \in j.files : f \in next.left \/ here'[f] = "complete",
           (next.step \in {"recheck", "set"} \/ (next.step = "done" /\ next.result = "ok")) => next.left = {}
    PROVE  CustodyJobOK(next)'
<1>1. \A f \in j.files : <<"custody", next.item, f>> \in tags'
  BY DEF CustodyJobOK, TagsStay
<1> QED
  BY <1>1 DEF CustodyJobOK

LEMMA FetchStays ==
    ASSUME NEW j, CustodyJobOK(j), j.item \in Item, j.files \in SUBSET File, TagsStay(j.item),
           j.files # files'[j.item] => Known(j.item)'
    PROVE  CustodyJobOK(j)'
<1>1. (j.step # "done" \/ j.result = "ok") => \A f \in j.files : f \in j.left \/ here'[f] = "complete"
  BY DEF CustodyJobOK, TagsStay
<1>2. (j.step \in {"recheck", "set"} \/ (j.step = "done" /\ j.result = "ok")) => j.left = {}
  BY DEF CustodyJobOK
<1> QED
  BY <1>1, <1>2, FetchGoesOn

LEMMA KeptWholeStays ==
    ASSUME CatalogueOK, NEW item \in Item, KeptWhole(item), TagsStay(item), files'[item] = files[item]
    PROVE  KeptWhole(item)'
<1>1. files[item] \in SUBSET File
  BY DEF CatalogueOK
<1> QED
  BY <1>1 DEF KeptWhole, TagsStay

LEMMA WholeStays ==
    ASSUME JobsOK, CatalogueOK, WholeOK,
           \A item \in Item : Busy("custody", item) \/ Still(item)' => TagsStay(item),
           \A item \in Item : files'[item] = files[item] \/ HasChanged(item)',
           \A item \in Item : HasChanged(item) => HasChanged(item)',
           \A item \in Item : Known(item) /\ Busy("custody", item) => Known(item)',
           \A k \in jobs' : Fetches(k) => k \in jobs \/ CustodyJobOK(k)',
           \A item \in Item : Still(item)' => Still(item) \/ KeptWhole(item)' \/ HasChanged(item)'
    PROVE  WholeOK'
<1>1. ASSUME NEW k \in jobs', Fetches(k) PROVE CustodyJobOK(k)'
  <2> SUFFICES ASSUME k \in jobs PROVE CustodyJobOK(k)'
    BY <1>1
  <2>1. k.item \in Item /\ k.files \in SUBSET File /\ Busy("custody", k.item)
    BY <1>1 DEF JobsOK, JobOK, Job, Busy, Fetches
  <2>2. CustodyJobOK(k)
    BY <1>1 DEF WholeOK, Fetches
  <2>3. k.files # files'[k.item] => Known(k.item)'
    <3>1. CASE files'[k.item] = files[k.item]
      BY <2>1, <2>2, <3>1 DEF CustodyJobOK
    <3>2. CASE HasChanged(k.item)'
      BY <3>2 DEF Known
    <3> QED
      BY <2>1, <3>1, <3>2
  <2> QED
    BY <2>1, <2>2, <2>3, FetchStays
<1>2. ASSUME NEW item \in Item, Still(item)' PROVE KeptWhole(item)' \/ HasChanged(item)'
  <2> SUFFICES ASSUME Still(item), ~ HasChanged(item)' PROVE KeptWhole(item)'
    BY <1>2
  <2>1. KeptWhole(item) /\ files'[item] = files[item]
    BY DEF WholeOK, Still
  <2> QED
    BY <1>2, <2>1, KeptWholeStays
<1> QED
  BY <1>1, <1>2 DEF WholeOK, Still, Fetches

\* Nothing of custody's changes but that jobs begin or end.
LEMMA WholeSame ==
    ASSUME JobsOK, CatalogueOK, WholeOK,
           UNCHANGED <<files, changes, lagged, pins, wanted_again, losing, letting_go, unheard>>,
           \A item \in Item : TagsStay(item), \A k \in jobs' : Fetches(k) => k \in jobs \/ CustodyJobOK(k)'
    PROVE  WholeOK'
<1>1. \A item \in Item : /\ HasChanged(item)' <=> HasChanged(item)
                         /\ Known(item)' <=> Known(item)
                         /\ Still(item)' <=> Still(item)
  BY DEF HasChanged, Heard, Known, Still
<1>2. \A item \in Item : files'[item] = files[item]
  OBVIOUS
<1> QED
  BY <1>1, <1>2, WholeStays

LEMMA WholeQuiet ==
    ASSUME JobsOK, CatalogueOK, WholeOK, UNCHANGED <<files, changes, lagged, pins, wanted_again, losing, letting_go, unheard>>,
           UNCHANGED <<tags, here>>, \A k \in jobs' : Fetches(k) => k \in jobs
    PROVE  WholeOK'
<1>1. \A item \in Item : TagsStay(item)
  BY DEF TagsStay
<1> QED
  BY <1>1, WholeSame

LEMMA WorkTagsStay ==
    ASSUME JobsOK, CatalogueOK, KeepsOK, NEW j \in jobs, Works(j)
    PROVE  \A item \in Item : TagsStay(item)
BY WorkTags, WorkHere DEF TagsStay

\* Where custody's fetches go.
LEMMA WholeFetches ==
    ASSUME JobsOK, CatalogueOK, KeepsOK, PinsOK, ChangesOK, WholeOK, NEW j \in jobs, j.why = "custody", Works(j),
           UNCHANGED <<changes, lagged, wanted_again, unheard>>
    PROVE  \E next : jobs' = (jobs \ {j}) \cup {next} /\ CustodyJobOK(next)'
<1> DEFINE Goal == \E next : jobs' = (jobs \ {j}) \cup {next} /\ CustodyJobOK(next)'
<1> SUFFICES Goal
  OBVIOUS
<1> HIDE DEF Goal
<1>1. j \in Job /\ j.item \in Item /\ j.files \in SUBSET File /\ j.result \in {"ok", "noroom", "failed"}
  BY DEF JobsOK, JobOK, Job
<1>2. TagsStay(j.item) /\ UNCHANGED files /\ \A f \in File : here[f] = "complete" => here'[f] = "complete"
  BY <1>1, WorkTagsStay, WorkHere
<1>3. j.step # "start" => CustodyJobOK(j)
  BY DEF WholeOK
<1>4. j.step # "start" /\ j.files # files'[j.item] => Known(j.item)'
  BY <1>2, <1>3 DEF CustodyJobOK, Known, HasChanged, Heard
<1>5. ASSUME j.step # "start", NEW next, Goes(j, next), next.item = j.item, next.files = j.files,
             (next.step # "done" \/ next.result = "ok") => \A f \in j.files : f \in next.left \/ here'[f] = "complete",
             (next.step \in {"recheck", "set"} \/ (next.step = "done" /\ next.result = "ok")) => next.left = {}
      PROVE  Goal
  <2>1. CustodyJobOK(next)'
    BY <1>1, <1>2, <1>3, <1>4, <1>5, FetchGoesOn
  <2> QED
    BY <1>5, <2>1 DEF Goal, Goes
<1>0. ASSUME NEW next, Goes(j, next), CustodyJobOK(next)' PROVE Goal
  BY <1>0 DEF Goal, Goes
<1>6. CASE KeepStarts(j)
  <2> DEFINE next == [j EXCEPT !.step = "room", !.files = files[j.item], !.left = files[j.item]]
  <2>1. Goes(j, next) /\ tags' = tags \cup {<<"custody", j.item, f>> : f \in files[j.item]}
    BY <1>6 DEF KeepStarts, ReasonOf
  <2>2. next.item = j.item /\ next.files = files[j.item] /\ next.left = files[j.item] /\ next.step = "room"
    BY <1>1 DEF Job
  <2> HIDE DEF next
  <2>3. files[j.item] # {}
    BY <1>1 DEF PinsOK, ChangesOK, Busy, Fetching
  <2>4. \A f \in next.files : <<"custody", next.item, f>> \in tags'
    BY <2>1, <2>2
  <2>5. ASSUME NEW one, one = next PROVE CustodyJobOK(one)'
    BY <1>2, <2>2, <2>3, <2>4, <2>5 DEF CustodyJobOK
  <2> QED
    BY <1>0, <2>1, <2>5
<1>7. CASE Plans(j)
  <2>1. PICK next, items : PlansAs(j, next, items)
    BY <1>7, PlanTurns
  <2>2. Turns(j, next) /\ next.step = "evict" /\ next.files = j.files /\ next.left = j.left
    BY <2>1 DEF PlansAs
  <2>3. j.step = "room"
    BY <1>7, Zenon DEF Plans
  <2>4. Goes(j, next) /\ next.item = j.item
    BY <2>2 DEF Turns
  <2>5. \A f \in j.files : f \in next.left \/ here'[f] = "complete"
    BY <1>1, <1>2, <1>3, <2>2, <2>3 DEF CustodyJobOK
  <2> QED
    BY <1>5, <2>2, <2>3, <2>4, <2>5
<1>8. CASE Evicts(j)
  <2>1. PICK next : /\ Turns(j, next) /\ next.files = j.files
                    /\ \/ next.step = "done" /\ next.result \in {"ok", "failed", "noroom"}
                           /\ (j.why = "custody" => next.result = "noroom")
                       \/ next.step = "register" /\ j.why = "download" /\ ~ j.short
                       \/ /\ next.step = "fetch" /\ next.left = j.left
                          /\ j.why = "emergency" \/ (j.why = "custody" /\ ~ j.short)
                    /\ next.short => j.short
    BY <1>8, RoomTurns
  <2>2. /\ Goes(j, next) /\ next.item = j.item /\ next.files = j.files
        /\ (next.step = "done" /\ next.result = "noroom") \/ (next.step = "fetch" /\ next.left = j.left)
    BY <2>1 DEF Turns
  <2>3. j.step = "evict"
    BY <1>8 DEF Evicts
  <2>4. next.step # "done" => \A f \in j.files : f \in next.left \/ here'[f] = "complete"
    BY <1>1, <1>2, <1>3, <2>2, <2>3 DEF CustodyJobOK
  <2> QED
    BY <1>5, <2>2, <2>3, <2>4
<1>9. CASE KeepFetches(j)
  <2>0. j.step = "fetch"
    BY <1>9 DEF KeepFetches
  <2>1. CASE j.left = {}
    <3> DEFINE next == [j EXCEPT !.step = "recheck"]
    <3>1. Goes(j, next)
      BY <1>9, <2>1 DEF KeepFetches
    <3>2. next.item = j.item /\ next.files = j.files /\ next.left = j.left /\ next.step = "recheck"
      BY <1>1 DEF Job
    <3> HIDE DEF next
    <3>3. \A f \in j.files : f \in next.left \/ here'[f] = "complete"
      BY <1>1, <1>2, <1>3, <2>0, <3>2 DEF CustodyJobOK
    <3> QED
      BY <1>5, <2>0, <2>1, <3>1, <3>2, <3>3
  <2>2. CASE j.left # {}
    <3>1. PICK f \in j.left : \/ here' = [here EXCEPT ![f] = "complete"] /\ Goes(j, [j EXCEPT !.left = @ \ {f}])
                              \/ Ends(j, "failed")
      BY <1>9, <2>2, Zenon DEF KeepFetches
    <3>2. CASE here' = [here EXCEPT ![f] = "complete"] /\ Goes(j, [j EXCEPT !.left = @ \ {f}])
      <4> DEFINE next == [j EXCEPT !.left = @ \ {f}]
      <4>1. Goes(j, next)
        BY <3>2
      <4>2. next.item = j.item /\ next.files = j.files /\ next.left = j.left \ {f} /\ next.step = "fetch"
        BY <1>1, <2>0 DEF Job
      <4> HIDE DEF next
      <4>3. here'[f] = "complete"
        BY <1>1, <3>1, <3>2 DEF JobsOK, JobOK, KeepsOK
      <4>4. \A g \in j.files : g \in next.left \/ here'[g] = "complete"
        BY <1>1, <1>2, <1>3, <2>0, <4>2, <4>3 DEF CustodyJobOK
      <4> QED
        BY <1>5, <2>0, <4>1, <4>2, <4>4
    <3>3. CASE Ends(j, "failed")
      <4> DEFINE next == [j EXCEPT !.step = "done", !.result = "failed", !.left = {}, !.evict = {}]
      <4>1. Goes(j, next)
        BY <3>3 DEF Ends
      <4>2. next.item = j.item /\ next.files = j.files /\ next.step = "done" /\ next.result = "failed"
        BY <1>1 DEF Job
      <4> HIDE DEF next
      <4> QED
        BY <1>5, <2>0, <4>1, <4>2
    <3> QED
      BY <3>1, <3>2, <3>3
  <2> QED
    BY <2>1, <2>2
<1>10. CASE RechecksRead(j)
  <2>0. j.step = "recheck"
    BY <1>10 DEF RechecksRead
  <2> DEFINE seen == Whole(j.item, Rechecked(j))
             next == [j EXCEPT !.step = "set", !.seen = seen]
  <2>1. Goes(j, next)
    BY <1>10 DEF RechecksRead
  <2> HIDE DEF seen
  <2>2. next.item = j.item /\ next.files = j.files /\ next.step = "set" /\ next.left = j.left
    BY <1>1 DEF Job
  <2> HIDE DEF next
  <2>3. \A f \in j.files : f \in next.left \/ here'[f] = "complete"
    BY <1>1, <1>2, <1>3, <2>0, <2>2 DEF CustodyJobOK
  <2>4. next.left = {}
    BY <1>3, <2>0, <2>2 DEF CustodyJobOK
  <2> QED
    BY <1>5, <2>0, <2>1, <2>2, <2>3, <2>4
<1>11. CASE RechecksSet(j)
  <2>0. j.step = "set"
    BY <1>11 DEF RechecksSet
  <2> DEFINE next == [j EXCEPT !.step = "done", !.result = "ok", !.left = {}, !.evict = {}]
  <2>1. Goes(j, next)
    BY <1>11 DEF RechecksSet, Ends
  <2>2. next.item = j.item /\ next.files = j.files /\ next.left = {}
    BY <1>1 DEF Job
  <2> HIDE DEF next
  <2>3. \A f \in j.files : here'[f] = "complete"
    BY <1>1, <1>2, <1>3, <2>0 DEF CustodyJobOK
  <2> QED
    BY <1>5, <2>0, <2>1, <2>2, <2>3
<1>12. CASE DownloadStarts(j) \/ DownloadTags(j) \/ DownloadFetches(j) \/ DownloadExports(j) \/ AddChecks(j) \/ AddWrites(j) \/ AddKeeps(j)
  BY <1>12, Zenon DEF DownloadStarts, DownloadTags, DownloadFetches, DownloadExports, AddChecks, AddWrites, AddKeeps
<1> QED
  BY <1>6, <1>7, <1>8, <1>9, <1>10, <1>11, <1>12 DEF Works

LEMMA WholeWorks ==
    ASSUME JobsOK, CatalogueOK, KeepsOK, PinsOK, ChangesOK, WholeOK, NEW j \in jobs, Works(j), UNCHANGED pinVars
    PROVE  WholeOK'
<1>1. UNCHANGED <<files, changes, lagged, pins, wanted_again, losing, letting_go, unheard>>
  BY WorkHere DEF pinVars
<1>2. \A item \in Item : TagsStay(item)
  BY WorkTagsStay
<1>3. \A k \in jobs' : Fetches(k) => k \in jobs \/ CustodyJobOK(k)'
  <2>1. CASE j.why = "custody"
    BY <1>1, <2>1, WholeFetches
  <2>2. CASE j.why # "custody"
    <3>1. PICK next : Turns(j, next)
      <4>1. CASE Plans(j)
        BY <4>1, PlanTurns DEF PlansAs
      <4>2. CASE Evicts(j)
        BY <4>2, RoomTurns
      <4>3. CASE ~ Plans(j) /\ ~ Evicts(j)
        <5>1. j.step \notin {"room", "evict"}
          BY <4>3, Zenon DEF Works, RechecksRead, RechecksSet, KeepStarts, KeepFetches, DownloadStarts, DownloadTags,
             DownloadFetches, DownloadExports, AddChecks, AddWrites, AddKeeps
        <5> QED
          BY <5>1, WorkTurns
      <4> QED
        BY <4>1, <4>2, <4>3
    <3> QED
      BY <2>2, <3>1 DEF Turns, Goes, Fetches
  <2> QED
    BY <2>1, <2>2
<1> QED
  BY <1>1, <1>2, <1>3, WholeSame

\* The changes of these items are heard of now.
HearsOf(now) ==
    /\ \A item \in Item : HasChanged(item) => HasChanged(item)' \/ item \in now
    /\ \/ now = Item /\ read_custody_again
       \/ Wanted(now) /\ UNCHANGED <<losing, unheard>>
       \/ losing' = Lost(now) /\ unheard' = unheard \cup (Outgrown \cap now) /\ UNCHANGED <<pins, queue, wanted_again>>

LEMMA HearsSome ==
    ASSUME ChangesOK, HearsChange \/ HearsLagged
    PROVE  \E now \in SUBSET Item : HearsOf(now)
<1>1. CASE HearsLagged
  <2>1. read_custody_again
    BY <1>1, Zenon DEF HearsLagged
  <2>2. \A item \in Item : HasChanged(item) => HasChanged(item)' \/ item \in Item
    OBVIOUS
  <2>3. HearsOf(Item)
    BY <2>1, <2>2, Zenon DEF HearsOf
  <2> QED
    BY <2>3
<1>2. CASE HearsChange
  <2> DEFINE change == Head(changes)
             C == Change
  <2>1. changes # <<>> /\ changes' = Tail(changes) /\ ~ lagged /\ Changed(change)
    BY <1>2, Zenon DEF HearsChange
  <2>2. changes \in Seq(C)
    BY DEF ChangesOK
  <2> HIDE DEF C, change
  <2>3. /\ Len(changes) \in Nat /\ DOMAIN changes = 1 .. Len(changes) /\ 1 \in DOMAIN changes
        /\ change = changes[1] /\ changes[1] \in C
    BY <2>1, <2>2 DEF change
  <2>4. DOMAIN changes' = 1 .. Len(changes) - 1 /\ \A k \in 1 .. Len(changes) - 1 : changes'[k] = changes[k + 1]
    BY <2>1, <2>2, <2>3
  <2>5. change.items \in SUBSET Item /\ (change.kind = "recomputed" => change.items = Item)
    <3>1. \A k \in DOMAIN changes : changes[k].kind = "recomputed" => changes[k].items = Item
      BY Zenon DEF ChangesOK
    <3>2. \A one \in Change : one.items \subseteq Item
      BY Zenon DEF Change
    <3>3. \A one \in C : one.items \subseteq Item
      BY <3>2 DEF C
    <3> QED
      BY <2>3, <3>1, <3>3
  <2>6. ASSUME NEW item \in Item, HasChanged(item) PROVE HasChanged(item)' \/ item \in change.items
    <3>1. PICK k \in DOMAIN changes : item \in changes[k].items
      BY <2>1, <2>6 DEF HasChanged, Heard
    <3>2. CASE k = 1
      BY <2>3, <3>1, <3>2
    <3>3. CASE k # 1
      <4>1. k - 1 \in DOMAIN changes' /\ changes'[k - 1] = changes[k]
        BY <2>3, <2>4, <3>3
      <4> QED
        BY <3>1, <4>1 DEF HasChanged, Heard
    <3> QED
      BY <3>2, <3>3
  <2>7. HearsOf(change.items)
    BY <2>1, <2>5, <2>6, Zenon DEF HearsOf, Changed
  <2> QED
    BY <2>5, <2>7
<1> QED
  BY <1>1, <1>2

LEMMA WholeHears ==
    ASSUME JobsOK, CatalogueOK, PinsOK, ChangesOK, WholeOK, HearsChange \/ HearsLagged
    PROVE  WholeOK'
<1>1. UNCHANGED <<files, tags, here, held, jobs, letting_go>> /\ losing = {} /\ letting_go = {}
  BY Zenon DEF HearsChange, HearsLagged, Waits, keepingVars, worldVars, keepVars
<1>2. \A item \in Item : TagsStay(item)
  BY <1>1 DEF TagsStay
<1>3. PICK now \in SUBSET Item : HearsOf(now)
  BY HearsSome
<1>4. read_custody_again =>
        /\ Wanted(MissedItems) /\ losing' = Lost(Item \ my_items)
        /\ unheard' = unheard \cup Outgrown \cup {item \in my_items \cap held : pins[item] = "Kept" /\ ~ KeptWhole(item)}
  BY Zenon DEF read_custody_again, PinsOK, MissedItems
<1>5. wanted_again \subseteq wanted_again' /\ unheard \subseteq unheard'
  BY <1>3, <1>4, Zenon DEF HearsOf, Wanted
<1>6. ASSUME NEW k \in jobs, Fetches(k) PROVE CustodyJobOK(k)'
  <2>1. k.item \in Item /\ k.files \in SUBSET File /\ Busy("custody", k.item)
    BY <1>6 DEF JobsOK, JobOK, Job, Busy, Fetches
  <2>2. CustodyJobOK(k)
    BY <1>6 DEF WholeOK, Fetches
  <2>3. pins[k.item] = "Fetching"
    BY <2>1 DEF PinsOK, Fetching
  <2>4. ASSUME k.files # files[k.item] PROVE Known(k.item)'
    <3>1. k.item \in Outgrown
      BY <1>6, <2>1, <2>4 DEF Outgrown, Fetches
    <3>2. Known(k.item)
      BY <2>2, <2>4 DEF CustodyJobOK
    <3>3. CASE ~ HasChanged(k.item) \/ HasChanged(k.item)'
      BY <1>5, <3>2, <3>3 DEF Known
    <3>4. CASE HasChanged(k.item) /\ ~ HasChanged(k.item)'
      <4>1. k.item \in now
        BY <1>3, <2>1, <3>4 DEF HearsOf
      <4>2. CASE read_custody_again
        BY <1>4, <3>1, <4>2 DEF Known
      <4>3. CASE Wanted(now)
        BY <2>3, <4>1, <4>3 DEF Known, Wanted
      <4>4. CASE unheard' = unheard \cup (Outgrown \cap now)
        BY <3>1, <4>1, <4>4 DEF Known
      <4> QED
        BY <1>3, <4>2, <4>3, <4>4 DEF HearsOf
    <3> QED
      BY <3>3, <3>4
  <2> QED
    BY <1>1, <1>2, <2>1, <2>2, <2>4, FetchStays
<1>7. ASSUME NEW item \in Item, Still(item)', ~ HasChanged(item)' PROVE KeptWhole(item)'
  <2>1. pins[item] = "Kept"
    <3>1. pins' = pins \/ \E items : Wanted(items)
      BY <1>3, <1>4 DEF HearsOf
    <3> QED
      BY <1>7, <3>1 DEF Still, Wanted
  <2>2. item \notin losing' /\ item \notin unheard' /\ pins'[item] = "Kept"
    BY <1>7 DEF Still
  <2>3. KeptWhole(item)
    <3>1. CASE ~ HasChanged(item)
      BY <1>1, <1>5, <2>1, <2>2, <3>1 DEF WholeOK
    <3>2. CASE HasChanged(item)
      <4>1. item \in now
        BY <1>3, <1>7, <3>2 DEF HearsOf
      <4>2. CASE read_custody_again
        <5>1. item \in my_items
          BY <1>4, <2>1, <2>2, <4>2 DEF Lost
        <5>2. item \notin MissedItems
          BY <1>4, <2>1, <2>2, <4>2 DEF Wanted
        <5>3. item \in held
          BY <2>1, <5>1, <5>2 DEF MissedItems
        <5> QED
          BY <1>4, <2>1, <2>2, <4>2, <5>1, <5>3
      <4>3. CASE Wanted(now)
        BY <2>1, <2>2, <4>1, <4>3 DEF Wanted
      <4>4. CASE losing' = Lost(now)
        BY <2>1, <2>2, <4>1, <4>4 DEF Lost
      <4> QED
        BY <1>3, <4>2, <4>3, <4>4 DEF HearsOf
    <3> QED
      BY <3>1, <3>2
  <2> QED
    BY <1>1, <1>2, <2>3, KeptWholeStays
<1> QED
  BY <1>1, <1>6, <1>7 DEF WholeOK, Fetches, Still

\* What is told stays told, and no item newly counts as kept.
LEMMA WholeMoves ==
    ASSUME JobsOK, CatalogueOK, WholeOK, UNCHANGED <<files, tags, here>>,
           \A item \in Item : HasChanged(item) => HasChanged(item)',
           \A item \in Item : Known(item) /\ Busy("custody", item) => Known(item)',
           \A k \in jobs' : Fetches(k) => k \in jobs,
           \A item \in Item : Still(item)' => Still(item)
    PROVE  WholeOK'
<1>1. \A item \in Item : TagsStay(item) /\ files'[item] = files[item]
  BY DEF TagsStay
<1> QED
  BY <1>1, WholeStays

LEMMA WholeFetchEnds ==
    ASSUME JobsOK, CatalogueOK, PinsOK, WholeOK, NEW j \in jobs, FetchEnds(j)
    PROVE  WholeOK'
<1>1. /\ UNCHANGED <<files, tags, here, changes, lagged, wanted_again, letting_go, unheard>> /\ losing = {} /\ letting_go = {}
      /\ jobs' = jobs \ {j} /\ j.why = "custody" /\ j.step = "done"
  BY Zenon DEF FetchEnds, Waits, worldVars, keepVars
<1>2. \/ losing' = {j.item} /\ pins' = pins
      \/ losing' = losing /\ pins' = [pins EXCEPT ![j.item] = Next_(j.item, j.result)]
  BY Zenon DEF FetchEnds, fetched
<1>3. j \in Job /\ j.item \in Item /\ j.files \in SUBSET File /\ CustodyJobOK(j)
  BY <1>1 DEF JobsOK, JobOK, Job, WholeOK
<1>4. \A item \in Item : /\ HasChanged(item)' <=> HasChanged(item)
                         /\ Known(item)' <=> Known(item)
                         /\ TagsStay(item)
                         /\ files'[item] = files[item]
  BY <1>1 DEF HasChanged, Heard, Known, TagsStay
<1>5. ASSUME NEW item \in Item, Still(item)' PROVE Still(item) \/ KeptWhole(item)' \/ HasChanged(item)'
  <2>1. CASE pins[item] = "Kept"
    BY <1>1, <1>5, <2>1 DEF Still
  <2>2. CASE pins[item] # "Kept"
    <3>1. item = j.item /\ Next_(j.item, j.result) = "Kept" /\ item \notin unheard
      BY <1>1, <1>2, <1>3, <1>5, <2>2 DEF Still, PinsOK
    <3>2. item \notin wanted_again /\ j.result = "ok"
      BY <1>3, <3>1 DEF Next_, Job
    <3>3. \A f \in j.files : here[f] = "complete" /\ <<"custody", item, f>> \in tags
      BY <1>1, <1>3, <3>1, <3>2 DEF CustodyJobOK
    <3>4. CASE j.files = files[item]
      BY <1>1, <3>3, <3>4 DEF KeptWhole
    <3>5. CASE j.files # files[item]
      BY <1>3, <1>4, <3>1, <3>2, <3>5 DEF CustodyJobOK, Known
    <3> QED
      BY <3>4, <3>5
  <2> QED
    BY <2>1, <2>2
<1>6. \A k \in jobs' : Fetches(k) => k \in jobs
  BY <1>1
<1> QED
  BY <1>4, <1>5, <1>6, WholeStays

LEMMA WholeReleased ==
    ASSUME JobsOK, CatalogueOK, PinsOK, WholeOK, Released
    PROVE  WholeOK'
<1>1. PICK item \in letting_go :
        /\ tags' = {tag \in tags : ~ (tag[1] = "custody" /\ tag[2] = item)}
        /\ ask_again_for_room(item)
  BY Zenon DEF Released
<1>2. UNCHANGED <<files, here, jobs, changes, lagged, wanted_again, losing, unheard>> /\ letting_go' = {}
  BY Zenon DEF Released, worldVars
<1>3. PICK waiting : pins' = [other \in Item |-> IF other = item THEN "none" ELSE IF other \in waiting THEN "Queued" ELSE pins[other]]
  BY <1>1, Zenon DEF ask_again_for_room
<1>4. \A one \in letting_go : one = item
  BY DEF PinsOK
<1>5. \A one \in Item : Still(one)' => Still(one) /\ one # item
  BY <1>2, <1>3, <1>4 DEF Still
<1>6. \A one \in Item : Busy("custody", one) => one # item
  BY DEF PinsOK
<1>7. \A one \in Item : one # item => TagsStay(one)
  BY <1>1, <1>2 DEF TagsStay
<1>8. \A one \in Item : /\ HasChanged(one)' <=> HasChanged(one)
                        /\ Known(one)' <=> Known(one)
                        /\ files'[one] = files[one]
  BY <1>2 DEF HasChanged, Heard, Known
<1>9. \A k \in jobs' : Fetches(k) => k \in jobs
  BY <1>2
<1> QED
  BY <1>5, <1>6, <1>7, <1>8, <1>9, WholeStays

LEMMA WholePinning ==
    ASSUME JobsOK, CatalogueOK, PinsOK, ChangesOK, WholeOK, Loop
    PROVE  WholeOK'
<1>1. CASE start_fetches
  <2>1. UNCHANGED <<files, tags, here, changes, lagged, losing, letting_go>>
    BY <1>1, Zenon DEF start_fetches, worldVars, keepVars
  <2>2. PICK k \in DOMAIN queue : /\ pins' = [pins EXCEPT ![queue[k]] = "Fetching"]
                                  /\ jobs' = jobs \cup {NewJob("custody", queue[k], "start")}
                                  /\ wanted_again' = wanted_again \ {queue[k]}
                                  /\ unheard' = unheard \ {queue[k]}
    BY <1>1, Zenon DEF start_fetches
  <2>3. queue[k] \in Item /\ pins[queue[k]] = "Queued"
    BY DEF PinsOK, Lists
  <2>4. \A item \in Item : HasChanged(item)' <=> HasChanged(item)
    BY <2>1 DEF HasChanged, Heard
  <2>5. \A item \in Item : Known(item) /\ Busy("custody", item) => Known(item)'
    BY <2>2, <2>3, <2>4 DEF Known, PinsOK, Fetching
  <2>6. \A item \in Item : Still(item)' => Still(item)
    BY <2>1, <2>2, <2>3 DEF Still, PinsOK
  <2>7. IsNew(NewJobOf("custody", queue[k], "start", {}, {}), "custody", queue[k], "start", {})
    <3>1. "custody" \in Why /\ <<"custody", "start">> \in JobSteps
      BY DEF Why, JobSteps
    <3> QED
      BY <2>3, <3>1, NewJobs
  <2>8. \A one \in jobs' : Fetches(one) => one \in jobs
    BY <2>2, <2>7 DEF Fetches, IsNew, NewJob
  <2> QED
    BY <2>1, <2>4, <2>5, <2>6, <2>8, WholeMoves
<1>2. CASE HearsChange \/ HearsLagged
  BY <1>2, WholeHears
<1>3. CASE LooksAtAvailability
  <2>1. UNCHANGED <<files, tags, here, jobs, changes, lagged, wanted_again, letting_go, unheard>> /\ losing = {}
    BY <1>3, Zenon DEF LooksAtAvailability, Waits, keepingVars, worldVars, keepVars
  <2>2. PICK failed : pins' = [item \in Item |-> IF item \in failed THEN "Queued" ELSE pins[item]]
    BY <1>3, Zenon DEF LooksAtAvailability
  <2>3. \A item \in Item : /\ HasChanged(item)' <=> HasChanged(item)
                           /\ Known(item)' <=> Known(item)
    BY <2>1 DEF HasChanged, Heard, Known
  <2>4. \A item \in Item : Still(item)' => Still(item)
    BY <2>1, <2>2 DEF Still
  <2>5. \A one \in jobs' : Fetches(one) => one \in jobs
    BY <2>1
  <2> QED
    BY <2>1, <2>3, <2>4, <2>5, WholeMoves
<1>4. CASE \E j \in jobs : FetchEnds(j)
  BY <1>4, WholeFetchEnds
<1>5. CASE \E item \in Item : ReleaseIfSafe(item)
  <2>1. PICK item \in Item : ReleaseIfSafe(item)
    BY <1>5
  <2>2. /\ UNCHANGED <<files, here, jobs, changes, lagged, wanted_again, unheard>> /\ tags \subseteq tags'
        /\ losing' = losing \ {item}
        /\ \/ pins' = [pins EXCEPT ![item] = "Releasing"] /\ letting_go' = letting_go
           \/ pins' = pins /\ letting_go' = {item} /\ letting_go = {}
    BY <2>1, Zenon DEF ReleaseIfSafe, worldVars
  <2>3. \A one \in Item : /\ HasChanged(one)' <=> HasChanged(one)
                          /\ Known(one)' <=> Known(one)
                          /\ TagsStay(one)
                          /\ files'[one] = files[one]
    BY <2>2 DEF HasChanged, Heard, Known, TagsStay
  <2>4. \A one \in Item : Still(one)' => Still(one)
    BY <2>2 DEF Still, PinsOK
  <2>5. \A k \in jobs' : Fetches(k) => k \in jobs
    BY <2>2
  <2> QED
    BY <2>3, <2>4, <2>5, WholeStays
<1>6. CASE Released
  BY <1>6, WholeReleased
<1> QED
  BY <1>1, <1>2, <1>3, <1>4, <1>5, <1>6 DEF Loop

LEMMA WholePanicked ==
    ASSUME JobsOK, CatalogueOK, PinsOK, WholeOK, NEW j \in jobs, fetch_panicked(j)
    PROVE  WholeOK'
<1>1. /\ UNCHANGED <<files, tags, here, changes, lagged, wanted_again, losing, letting_go, unheard>>
      /\ jobs' = jobs \ {j} /\ pins' = [pins EXCEPT ![j.item] = "Failed"]
  BY Zenon DEF fetch_panicked, worldVars, keepVars
<1>2. \A item \in Item : /\ HasChanged(item)' <=> HasChanged(item)
                         /\ Known(item)' <=> Known(item)
                         /\ Still(item)' => Still(item)
  BY <1>1 DEF HasChanged, Heard, Known, Still, PinsOK
<1>3. \A k \in jobs' : Fetches(k) => k \in jobs
  BY <1>1
<1> QED
  BY <1>1, <1>2, <1>3, WholeMoves

LEMMA WholeCollects ==
    ASSUME JobsOK, CatalogueOK, WholeOK, Collects, UNCHANGED pinVars
    PROVE  WholeOK'
<1>1. UNCHANGED <<files, tags, jobs>> /\ UNCHANGED <<changes, lagged, pins, wanted_again, losing, letting_go, unheard>>
  BY Zenon DEF Collects, worldVars, pinVars
<1>2. ASSUME NEW item \in Item, NEW f \in File, <<"custody", item, f>> \in tags, here[f] = "complete" PROVE here'[f] = "complete"
  <2>1. f \in KeptBy(tags)
    BY <1>2 DEF KeptBy, Reason
  <2> QED
    BY <1>2, <2>1 DEF Collects
<1>3. \A item \in Item : TagsStay(item)
  BY <1>1, <1>2 DEF TagsStay
<1> QED
  BY <1>1, <1>3, WholeSame

\* What is told is not heard of yet.
LEMMA ToldIsNews ==
    ASSUME ChangesOK, NEW change \in Change, Tell(change)
    PROVE  /\ \A item \in Item : HasChanged(item) => HasChanged(item)'
           /\ \A item \in change.items : HasChanged(item)'
<1>1. changes \in Seq(Change)
  BY DEF ChangesOK
<1>2. /\ lagged => lagged'
      /\ \A l \in DOMAIN changes : lagged' \/ \E k \in DOMAIN changes' : changes'[k] = changes[l]
      /\ \E k \in DOMAIN changes' : changes'[k] = change
  BY <1>1, TellIs
<1> QED
  BY <1>2 DEF HasChanged, Heard

LEMMA WholeProjected ==
    ASSUME JobsOK, CatalogueOK, ChangesOK, WholeOK, NEW j \in jobs, Projected(j)
    PROVE  WholeOK'
<1>1. PICK change : RowIs(j, change)
  BY ProjectedIs
<1>2. /\ jobs' = jobs \ {j} /\ files' = [files EXCEPT ![j.item] = j.files]
      /\ change \in Change /\ change.items = {j.item} /\ Tell(change)
      /\ UNCHANGED <<tags, here, pins, wanted_again, losing, letting_go, unheard>>
  BY <1>1, Zenon DEF RowIs, keepVars
<1>3. /\ \A item \in Item : HasChanged(item) => HasChanged(item)'
      /\ HasChanged(j.item)'
  BY <1>2, ToldIsNews
<1>4. \A item \in Item : files'[item] = files[item] \/ HasChanged(item)'
  BY <1>2, <1>3 DEF CatalogueOK
<1>5. \A item \in Item : /\ Known(item) => Known(item)'
                         /\ Still(item)' => Still(item)
                         /\ TagsStay(item)
  BY <1>2, <1>3 DEF Known, Still, TagsStay
<1>6. \A k \in jobs' : Fetches(k) => k \in jobs
  BY <1>2
<1> QED
  BY <1>3, <1>4, <1>5, <1>6, WholeStays

LEMMA WholeRecomputes ==
    ASSUME JobsOK, CatalogueOK, ChangesOK, WholeOK, Recomputes
    PROVE  WholeOK'
<1> DEFINE change == [kind |-> "recomputed", items |-> Item]
<1>1. Tell(change) /\ UNCHANGED <<files, tags, here, jobs, pins, wanted_again, losing, letting_go, unheard>>
  BY Zenon DEF Recomputes, keepVars
<1>2. change \in Change
  BY DEF Change
<1> HIDE DEF change
<1>3. \A item \in Item : HasChanged(item) => HasChanged(item)'
  BY <1>1, <1>2, ToldIsNews
<1>4. \A item \in Item : /\ Known(item) => Known(item)'
                         /\ Still(item)' => Still(item)
  BY <1>1, <1>3 DEF Known, Still
<1>5. \A k \in jobs' : Fetches(k) => k \in jobs
  BY <1>1
<1> QED
  BY <1>1, <1>3, <1>4, <1>5, WholeMoves

LEMMA WholeFresh == Fresh => WholeOK
<1> SUFFICES ASSUME Fresh PROVE WholeOK
  OBVIOUS
<1>1. jobs = {} /\ changes = <<[kind |-> "recomputed", items |-> Item]>>
  BY Zenon DEF Fresh
<1>2. \A item \in Item : HasChanged(item)
  <2>1. 1 \in DOMAIN changes /\ changes[1].items = Item
    BY <1>1
  <2> QED
    BY <2>1 DEF HasChanged, Heard
<1> QED
  BY <1>1, <1>2 DEF WholeOK

-----------------------------------------------------------------------------
(* Step by step.                                                           *)

RestOK == HeldOK /\ WholeOK /\ WaitsOK /\ LimitOK

LEMMA QuietFetches ==
    ASSUME Quiet
    PROVE  \A k \in jobs' : Fetches(k) => k \in jobs
BY DEF Quiet, Begun, Fetches

\* Jobs begin and end, and custody hears nothing of it.
LEMMA QuietRest ==
    ASSUME ShapeIInv, RestOK, Quiet, UNCHANGED <<files, tags, here, held, overtaken, shared, pinVars>>,
           \A item \in Item : catalogue[item].files # {} => catalogue'[item].files # {}
    PROVE  RestOK'
<1>1. UNCHANGED <<changes, lagged, pins, wanted_again, losing, letting_go, unheard, crossed>>
  BY DEF pinVars
<1>2. HeldOK'
  BY <1>1, HeldQuiet DEF ShapeIInv, RestOK
<1>3. WholeOK'
  BY <1>1, QuietFetches, WholeQuiet DEF ShapeIInv, RestOK
<1>4. WaitsOK'
  BY <1>1, WaitsSame DEF ShapeIInv, RestOK
<1>5. LimitOK'
  BY LimitSame DEF ShapeIInv, RestOK
<1> QED
  BY <1>2, <1>3, <1>4, <1>5 DEF RestOK

LEMMA WorkingRest ==
    ASSUME ShapeIInv, RestOK, NEW j \in jobs, Works(j), UNCHANGED pinVars
    PROVE  RestOK'
<1> USE DEF ShapeIInv, RestOK
<1>1. letting_go' = letting_go /\ UNCHANGED <<pins, crossed>>
  BY DEF pinVars
<1>2. HeldOK'
  BY <1>1, HeldWorks, CacheWorks, NoneWantedWorks DEF HeldOK
<1>3. WholeOK'
  BY WholeWorks
<1>4. WaitsOK'
  BY <1>1, WaitsWorks, WaitsPlans
<1>5. LimitOK'
  BY LimitWorks
<1> QED
  BY <1>2, <1>3, <1>4, <1>5

LEMMA PinningRest ==
    ASSUME ShapeIInv, ShapeIInv', RestOK, Loop
    PROVE  RestOK'
<1> USE DEF ShapeIInv, RestOK
<1>1. WholeOK' /\ WaitsOK'
  BY WholePinning, WaitsPinning
<1>2. ASSUME Quiet, UNCHANGED <<catalogue, files, tags, here, held, overtaken, shared, letting_go>> PROVE RestOK'
  BY <1>1, <1>2, HeldQuiet, LimitSame
<1>3. ASSUME UNCHANGED keepingVars, UNCHANGED letting_go PROVE RestOK'
  <2>1. jobs' = jobs /\ UNCHANGED <<catalogue, files, tags, here, held, overtaken, shared>>
    BY <1>3 DEF keepingVars, worldVars, keepVars
  <2> QED
    BY <1>2, <1>3, <2>1, QuietSame
<1>4. CASE start_fetches
  <2>1. UNCHANGED <<catalogue, files, tags, here, held, overtaken, shared, letting_go>>
    BY <1>4, Zenon DEF start_fetches, worldVars, keepVars
  <2>2. PICK item : jobs' = jobs \cup {NewJob("custody", item, "start")}
    BY <1>4, Zenon DEF start_fetches
  <2>3. NewJob("custody", item, "start").step = "start"
    BY DEF NewJob, NewJobOf
  <2>4. Quiet
    BY <2>2, <2>3, QuietBegun DEF JobsOK
  <2> QED
    BY <1>2, <2>1, <2>4
<1>5. CASE HearsChange \/ HearsLagged \/ LooksAtAvailability
  BY <1>3, <1>5, Zenon DEF HearsChange, HearsLagged, LooksAtAvailability
<1>6. CASE \E j \in jobs : FetchEnds(j)
  <2>1. PICK j \in jobs : FetchEnds(j)
    BY <1>6
  <2>2. /\ UNCHANGED <<catalogue, files, tags, here, held, overtaken, shared, letting_go>>
        /\ jobs' = jobs \ {j} /\ j.why = "custody" /\ j.step = "done"
    BY <2>1, Zenon DEF FetchEnds, worldVars, keepVars
  <2>3. Quiet
    BY <2>2, QuietOver DEF Asks
  <2> QED
    BY <1>2, <2>2, <2>3
<1>7. CASE Released \/ \E item \in Item : ReleaseIfSafe(item)
  <2>1. UNCHANGED <<worldVars, here, held, overtaken, shared, jobs>>
    BY <1>7, Zenon DEF Released, ReleaseIfSafe
  <2>2. HeldOK'
    BY <1>7, <2>1, HeldLetsGo
  <2>3. LimitOK'
    BY <1>7, <2>1, LimitLetsGo
  <2> QED
    BY <1>1, <2>2, <2>3
<1> QED
  BY <1>4, <1>5, <1>6, <1>7 DEF Loop

LEMMA EmergenciesRest ==
    ASSUME ShapeIInv, ShapeIInv', RestOK, Emergencies
    PROVE  RestOK'
<1>1. UNCHANGED pinVars
  BY Zenon DEF Emergencies
<1>2. ASSUME Quiet, UNCHANGED <<worldVars, keepVars>> PROVE RestOK'
  BY <1>1, <1>2, QuietRest DEF worldVars, keepVars
<1>3. ASSUME NEW item \in Item, DelayPasses(item) PROVE RestOK'
  BY <1>2, <1>3, QuietSame DEF DelayPasses, keepingVars
<1>4. CASE Looks
  <2>1. jobs' = jobs \cup {NewJob("emergency", item, "start") : item \in Mine} /\ UNCHANGED <<worldVars, keepVars>>
    BY <1>4, LookIs
  <2>2. \A item : NewJob("emergency", item, "start").step = "start"
    BY DEF NewJob, NewJobOf
  <2>3. Quiet
    BY <2>1, <2>2 DEF Quiet, Begun, ShapeIInv, JobsOK
  <2> QED
    BY <1>2, <2>1, <2>3
<1>5. ASSUME NEW j \in jobs, copied(j) PROVE RestOK'
  BY <1>2, <1>5, QuietOver DEF copied, Asks
<1> QED
  BY <1>3, <1>4, <1>5, Zenon DEF Emergencies, EmergencyLoop

LEMMA RegistersRest ==
    ASSUME ShapeIInv, ShapeIInv', RestOK, NEW j \in jobs, Registers(j)
    PROVE  RestOK'
<1> USE DEF ShapeIInv, RestOK
<1>1. /\ j.why = "download" /\ j.step = "register" /\ UNCHANGED <<catalogue, files, tags, here, held, overtaken, pinVars>>
  BY DEF Registers, keepVars, worldVars
<1>2. UNCHANGED <<changes, lagged, pins, wanted_again, losing, letting_go, unheard, crossed>>
  BY <1>1 DEF pinVars
<1> DEFINE next == [j EXCEPT !.step = "tag", !.task = next_task + 1]
<1>3. jobs' = (jobs \ {j}) \cup {next}
  BY Zenon DEF Registers, Goes
<1>4. next.why = "download" /\ next.evict = {}
  BY <1>1 DEF JobsOK, JobOK, Job
<1> HIDE DEF next
<1>5. HeldOK'
  <2> USE DEF HeldOK
  <2>1. HeldWhole'
    <3>1. \A item, f : AtRow(item, f)' => AtRow(item, f)
      BY <1>3, <1>4 DEF AtRow
    <3>2. \A item, f : Kept(item, f)' <=> Kept(item, f)
      BY <1>1 DEF Kept
    <3> QED
      BY <1>1, <3>1, <3>2, HeldWholeStays
  <2>2. CacheKeeps'
    BY <1>1, <1>2 DEF CacheKeeps
  <2>3. NoneWanted'
    BY <1>1, <1>3, <1>4, NoneWantedStays
  <2> QED
    BY <2>1, <2>2, <2>3
<1>6. WholeOK'
  <2>1. \A k \in jobs' : Fetches(k) => k \in jobs
    BY <1>3, <1>4 DEF Fetches
  <2> QED
    BY <1>1, <1>2, <2>1, WholeQuiet
<1>7. WaitsOK'
  BY WaitsRegisters
<1>8. LimitOK'
  BY LimitRegisters
<1> QED
  BY <1>5, <1>6, <1>7, <1>8

LEMMA AnsweringRest ==
    ASSUME ShapeIInv, ShapeIInv', RestOK, Answering
    PROVE  RestOK'
<1>1. ASSUME Quiet, UNCHANGED <<worldVars, keepVars, pinVars>> PROVE RestOK'
  BY <1>1, QuietRest DEF worldVars, keepVars
<1>2. ASSUME NEW j \in jobs, DownloadEnds(j) \/ AddEnds(j) PROVE RestOK'
  <2>1. UNCHANGED <<worldVars, keepVars, pinVars>> /\ jobs' = jobs \ {j} /\ j.step = "done"
    BY <1>2, Zenon DEF DownloadEnds, AddEnds
  <2> QED
    BY <1>1, <2>1, QuietOver DEF Asks
<1>3. ASSUME UNCHANGED <<keepingVars, pinVars>> PROVE RestOK'
  BY <1>1, <1>3, QuietSame DEF keepingVars
<1>4. CASE Receiving
  <2>1. UNCHANGED <<worldVars, keepVars, pinVars>>
    BY <1>4, Zenon DEF Receiving
  <2>2. CASE jobs' = jobs
    BY <1>1, <2>1, <2>2, QuietSame
  <2>3. CASE \E c \in calls : Begins(c)
    <3>1. PICK item, fs : jobs' = jobs \cup {NewJobOf("add", item, "start", fs, {})}
      BY <2>3, Zenon DEF Begins
    <3>2. NewJobOf("add", item, "start", fs, {}).step = "start"
      BY DEF NewJobOf
    <3>3. Quiet
      BY <3>1, <3>2, QuietBegun DEF ShapeIInv, JobsOK
    <3> QED
      BY <1>1, <2>1, <3>3
  <2> QED
    BY <1>4, <2>2, <2>3, Zenon DEF Receiving
<1> QED
  BY <1>2, <1>3, <1>4, RegistersRest, Zenon DEF Answering

LEMMA ProjectingRest ==
    ASSUME ShapeIInv, ShapeIInv', RestOK, Projecting
    PROVE  RestOK'
<1>1. ASSUME NEW item \in Item, Projects(item) PROVE RestOK'
  <2>1. UNCHANGED <<catalogue, files, keepVars, pinVars>>
    BY <1>1, Zenon DEF Projects
  <2>2. PICK fs, authors : jobs' = jobs \cup {NewJobOf("projection", item, "recheck", fs, authors)}
    BY <1>1, Zenon DEF Projects
  <2> DEFINE new == NewJobOf("projection", item, "recheck", fs, authors)
  <2>3. new.why = "projection" /\ new.step = "recheck"
    BY DEF NewJobOf
  <2> HIDE DEF new
  <2>4. Quiet
    BY <2>2, <2>3 DEF new, Quiet, Begun, ShapeIInv, JobsOK
  <2> QED
    BY <2>1, <2>4, QuietRest DEF keepVars
<1>2. ASSUME NEW j \in jobs, Projected(j) PROVE RestOK'
  <2> USE DEF ShapeIInv, RestOK
  <2>1. PICK change : RowIs(j, change)
    BY <1>2, ProjectedIs
  <2>2. /\ UNCHANGED <<tags, here, shared, pins, crossed>> /\ jobs' = jobs \ {j} /\ j.why = "projection" /\ j.step = "row"
    BY <2>1 DEF RowIs, keepVars
  <2>3. Quiet
    BY <2>2, QuietOver DEF Asks
  <2> QED
    BY <1>2, <2>2, <2>3, HeldProjected, WholeProjected, WaitsSame, LimitSame
<1> QED
  BY <1>1, <1>2 DEF Projecting

LEMMA CollectingRest ==
    ASSUME ShapeIInv, RestOK, Collecting
    PROVE  RestOK'
<1> USE DEF ShapeIInv, RestOK
<1>1. Collects /\ UNCHANGED pinVars
  BY DEF Collecting
<1>2. UNCHANGED <<letting_go, pins, crossed>>
  BY <1>1 DEF pinVars
<1> QED
  BY <1>1, <1>2, HeldCollects, WholeCollects, WaitsCollects, LimitCollects

LEMMA LeavesRest ==
    ASSUME ShapeIInv, RestOK, Leaves
    PROVE  RestOK'
<1> USE DEF ShapeIInv, RestOK
<1>1. /\ UNCHANGED <<worldVars, tags, here, held, overtaken, pinVars>> /\ shared' = (shared \/ AddedOverTheLimit)
      /\ \E c \in calls : Abandons(c)
  BY Zenon DEF Leaves
<1>2. UNCHANGED <<catalogue, files, changes, lagged, pins, wanted_again, losing, letting_go, unheard, crossed>>
  BY <1>1 DEF pinVars, worldVars
<1>3. jobs' \subseteq jobs /\ \A j \in jobs : j.why # "add" => j \in jobs'
  <2>1. jobs' = jobs \/ \E item : jobs' = {j \in jobs : j.why # "add" \/ j.item # item}
    BY <1>1, Zenon DEF Abandons
  <2> QED
    BY <2>1
<1>4. HeldOK'
  <2> USE DEF HeldOK
  <2>1. HeldWhole'
    <3>1. \A item, f : AtRow(item, f)' => AtRow(item, f)
      BY <1>3 DEF AtRow
    <3>2. \A item, f : Kept(item, f)' <=> Kept(item, f)
      BY <1>1 DEF Kept
    <3> QED
      BY <1>1, <1>2, <3>1, <3>2, HeldWholeStays
  <2>2. CacheKeeps'
    BY <1>1, <1>2 DEF CacheKeeps
  <2>3. NoneWanted'
    BY <1>1, <1>3, NoneWantedStays
  <2> QED
    BY <2>1, <2>2, <2>3
<1>5. WholeOK'
  BY <1>1, <1>2, <1>3, WholeQuiet
<1>6. WaitsOK'
  BY <1>1, <1>2, <1>3, WaitsLess
<1>7. LimitOK'
  BY <1>1, <1>3, LimitLess
<1> QED
  BY <1>4, <1>5, <1>6, <1>7

LEMMA RestartsRest ==
    ASSUME ShapeIInv, RestOK, Restarts
    PROVE  RestOK'
<1> USE DEF RestOK
<1>1. Fresh'
  BY RestartsFresh
<1>2. overtaken' = {} /\ jobs' = {} /\ UNCHANGED <<tags, here>> /\ shared' = (shared \/ AddedOverTheLimit)
  BY Zenon DEF Restarts
<1> HIDE DEF RestOK
<1>3. HeldOK'
  <2>1. (Fresh /\ overtaken = {})'
    BY <1>1, <1>2
  <2> QED
    BY <2>1, HeldFresh, PTL
<1>4. WholeOK'
  BY <1>1, WholeFresh, PTL
<1>5. WaitsOK'
  <2>1. pins' = [item \in Item |-> IF kept_for("custody", item)' # {} THEN "Kept" ELSE "none"]
    BY <1>1, Zenon DEF Fresh
  <2> QED
    BY <1>2, <2>1 DEF WaitsOK
<1>6. LimitOK'
  BY <1>2, LimitLess DEF ShapeIInv, RestOK
<1> QED
  BY <1>3, <1>4, <1>5, <1>6 DEF RestOK

LEMMA PanicsRest ==
    ASSUME ShapeIInv, RestOK, NEW j \in jobs, Panics(j)
    PROVE  RestOK'
<1>1. CASE fetch_panicked(j)
  <2> USE DEF ShapeIInv, RestOK
  <2>1. /\ UNCHANGED <<catalogue, files, tags, here, held, overtaken, shared, letting_go>>
        /\ jobs' = jobs \ {j} /\ j.step = "fetch" /\ j.why = "custody"
    BY <1>1, Zenon DEF fetch_panicked, worldVars, keepVars
  <2>2. Quiet
    BY <2>1, QuietOver DEF Asks
  <2> QED
    BY <1>1, <2>1, <2>2, HeldQuiet, WholePanicked, WaitsPanicked, LimitSame
<1>2. CASE UNCHANGED <<worldVars, keepVars, pinVars>> /\ jobs' = jobs \ {j} /\ j.step = "fetch"
  <2>1. Quiet
    BY <1>2, QuietOver DEF Asks
  <2> QED
    BY <1>2, <2>1, QuietRest DEF worldVars, keepVars
<1> QED
  BY <1>1, <1>2, Zenon DEF Panics, CopyPanics

LEMMA HappensRest ==
    ASSUME ShapeIInv, ShapeIInv', RestOK, Happens
    PROVE  RestOK'
<1>1. CASE AvailabilityMoves
  <2>1. UNCHANGED <<catalogue, files, keepVars, jobs>>
    BY <1>1, Zenon DEF AvailabilityMoves
  <2>2. UNCHANGED <<changes, lagged, pins, wanted_again, losing, letting_go, unheard, crossed>>
    BY <1>1, Zenon DEF AvailabilityMoves
  <2>3. UNCHANGED <<tags, here, held, overtaken, shared>> /\ Quiet
    BY <2>1, QuietSame DEF keepVars
  <2> USE DEF ShapeIInv, RestOK
  <2>4. HeldOK'
    BY <2>1, <2>2, <2>3, HeldQuiet
  <2>5. WholeOK'
    BY <2>1, <2>2, <2>3, QuietFetches, WholeQuiet
  <2> QED
    BY <2>1, <2>2, <2>3, <2>4, <2>5, WaitsSame, LimitSame
<1>2. CASE Recomputes
  <2> USE DEF ShapeIInv, RestOK
  <2>1. UNCHANGED <<catalogue, files, keepVars, jobs, pins, letting_go, crossed>>
    BY <1>2, Zenon DEF Recomputes
  <2>2. UNCHANGED <<tags, here, held, overtaken, shared>> /\ Quiet
    BY <2>1, QuietSame DEF keepVars
  <2> QED
    BY <1>2, <2>1, <2>2, HeldQuiet, WholeRecomputes, WaitsSame, LimitSame
<1>3. CASE NeedsUpgrade
  <2> USE DEF ShapeIInv, RestOK
  <2>1. UNCHANGED <<catalogue, files, tags, here, held, overtaken, shared, jobs>>
    BY <1>3 DEF NeedsUpgrade, keepingVars, worldVars, keepVars
  <2>2. UNCHANGED <<changes, lagged, pins, wanted_again, losing, letting_go, unheard, crossed>>
    BY <1>3, Zenon DEF NeedsUpgrade
  <2>3. Quiet
    BY <2>1, QuietSame
  <2> QED
    BY <2>1, <2>2, <2>3, HeldQuiet, QuietFetches, WholeQuiet, WaitsSame, LimitSame
<1>4. CASE Uploading
  <2>1. UNCHANGED <<catalogue, files, tags, here, held, overtaken, shared, jobs, pinVars>>
    BY <1>4 DEF Uploading, keepingVars, worldVars, keepVars
  <2> QED
    BY <2>1, QuietSame, QuietRest
<1>5. ASSUME NEW item \in Item, Downloads(item) \/ \E fs \in SUBSET File : Adds(item, fs) PROVE RestOK'
  <2>1. UNCHANGED <<worldVars, keepVars, pinVars>>
    BY <1>5, Zenon DEF Downloads, Adds
  <2>2. PICK new : jobs' = jobs \cup {new} /\ new.step = "start"
    <3>1. NewJob("download", item, "start").step = "start" /\ \A fs : NewJobOf("add", item, "start", fs, {}).step = "start"
      BY DEF NewJob, NewJobOf
    <3> QED
      BY <1>5, <3>1, Zenon DEF Downloads, Adds
  <2>3. Quiet
    BY <2>2, QuietBegun DEF ShapeIInv, JobsOK
  <2> QED
    BY <2>1, <2>3, QuietRest DEF worldVars, keepVars
<1>6. ASSUME NEW item \in Item, NEW f \in File, FileAdded(item, f) PROVE RestOK'
  <2>1. /\ catalogue' = [catalogue EXCEPT ![item].files = @ \cup {f}]
        /\ UNCHANGED <<files, keepVars, jobs, pinVars>>
    BY <1>6, Zenon DEF FileAdded
  <2>2. \A one \in Item : catalogue[one].files # {} => catalogue'[one].files # {}
    BY <2>1 DEF ShapeIInv, CatalogueOK
  <2> QED
    BY <2>1, <2>2, QuietSame, QuietRest DEF keepVars
<1>7. ASSUME NEW j \in jobs, Panics(j) PROVE RestOK'
  BY <1>7, PanicsRest
<1>8. CASE Leaves
  BY <1>8, LeavesRest
<1>9. CASE Restarts
  BY <1>9, RestartsRest
<1> QED
  BY <1>1, <1>2, <1>3, <1>4, <1>5, <1>6, <1>7, <1>8, <1>9, Zenon DEF Happens

LEMMA NextRest ==
    ASSUME ShapeIInv, ShapeIInv', RestOK, Next
    PROVE  RestOK'
<1>1. CASE Working
  BY <1>1, WorkingRest DEF Working
<1>2. CASE Pinning
  BY <1>2, PinningRest DEF Pinning
<1> QED
  BY <1>1, <1>2, EmergenciesRest, AnsweringRest, ProjectingRest, CollectingRest, HappensRest DEF Next

LEMMA StutterRest ==
    ASSUME ShapeIInv, RestOK, UNCHANGED allVars
    PROVE  RestOK'
<1>1. UNCHANGED <<catalogue, files, tags, here, held, overtaken, shared, jobs, pinVars>>
  BY DEF allVars, keepingVars, worldVars, keepVars
<1> QED
  BY <1>1, QuietSame, QuietRest

-----------------------------------------------------------------------------
(* The theorems.                                                           *)

LEMMA InitRest ==
    ASSUME Init
    PROVE  RestOK
<1>1. FreshIn /\ overtaken = {} /\ Bytes(tags) <= limit
  BY InitFresh
<1>2. Fresh
  BY <1>1 DEF FreshIn
<1>3. HeldOK
  BY <1>1, <1>2, HeldFresh
<1>4. WholeOK
  BY <1>2, WholeFresh
<1>5. jobs = {} /\ \A item \in Item : pins[item] # "WaitingForRoom"
  BY <1>2 DEF Fresh
<1> QED
  BY <1>1, <1>3, <1>4, <1>5, WaitsFresh, LimitFresh DEF RestOK

LEMMA KeepingInductive == Spec => []KeepingIInv
<1>1. KeepingIInv <=> ShapeIInv /\ TasksOK /\ RestOK
  BY DEF KeepingIInv, RestOK
<1>2. Init => ShapeIInv /\ TasksOK /\ RestOK
  BY InitShape, InitRest
<1>3. ShapeIInv /\ TasksOK /\ RestOK /\ [Next]_allVars => (ShapeIInv /\ TasksOK /\ RestOK)'
  <2> SUFFICES ASSUME ShapeIInv, TasksOK, RestOK, [Next]_allVars
               PROVE  (ShapeIInv /\ TasksOK /\ RestOK)'
    OBVIOUS
  <2>1. CASE Next
    BY <2>1, NextShape, NextRest
  <2>2. CASE UNCHANGED allVars
    BY <2>2, StutterShape, StutterRest
  <2> QED
    BY <2>1, <2>2
<1> QED
  BY <1>1, <1>2, <1>3, PTL DEF Spec

LEMMA TypesHold ==
    ASSUME ShapeIInv
    PROVE  TypeOK
<1> USE DEF ShapeIInv
<1>1. PinsTypeOK
  <2> DEFINE queued == {item \in Item : pins[item] = "Queued"}
  <2>1. Lists(queue, queued)
    BY DEF PinsOK
  <2>2. {queue[k] : k \in DOMAIN queue} = queued /\ Cardinality(queued) = Len(queue)
    BY <2>1, ListsHave
  <2>3. \A item \in Item \ (losing \cup letting_go) : Fetching(item) <=> Busy("custody", item)
    BY DEF PinsOK
  <2>4. jobs \subseteq Job
    BY DEF JobsOK, JobOK
  <2>5. pins \in [Item -> Pin] /\ Cardinality({item \in Item : Fetching(item)}) <= max_fetches
    BY DEF PinsOK
  <2> QED
    BY <2>2, <2>3, <2>4, <2>5 DEF PinsTypeOK
<1>2. Cardinality(making_room) <= 1
  <2> DEFINE evicting == {j \in jobs : j.step = "evict"}
  <2>1. making_room = {<<j.why, j.item>> : j \in evicting} /\ \A j, k \in evicting : j = k
    BY DEF LockOK
  <2>2. CASE evicting = {}
    <3>1. making_room = {}
      BY <2>1, <2>2
    <3> QED
      BY <3>1, FS_EmptySet
  <2>3. ASSUME NEW j \in evicting PROVE Cardinality(making_room) <= 1
    <3>1. making_room = {<<j.why, j.item>>}
      BY <2>1
    <3>2. Cardinality(making_room) = 1
      BY <3>1, FS_Singleton, Zenon
    <3> QED
      BY <3>2
  <2> QED
    BY <2>2, <2>3
<1> QED
  BY <1>1, <1>2 DEF TypeOK, CopiesOK

\* What the node says of itself is so, at every moment and in every interleaving
\* of its fetches, evictions, releases, rechecks, downloads, adds, collections,
\* panics and restarts: an item it says it holds is whole here and tagged, what
\* it keeps is within the storage limit, an item counted as kept is whole, one
\* that waits for room would not fit, and a task told as ended has ended
\* (storage.rs, pins.rs, emergency.rs, tasks.rs).
THEOREM WhatIsKeptIsKept == Spec => []KeepingInv
<1>1. KeepingIInv => KeepingInv
  <2> SUFFICES ASSUME KeepingIInv PROVE KeepingInv
    OBVIOUS
  <2> USE DEF KeepingIInv
  <2>1. TypeOK
    BY TypesHold
  <2>2. HeldIsKept
    <3>1. HeldWhole
      BY DEF HeldOK
    <3> QED
      <4> SUFFICES ASSUME NEW item \in held \ overtaken
                   PROVE  /\ catalogue[item].files # {}
                          /\ \A f \in files[item] : here[f] = "complete" /\ Kept(item, f)
        BY DEF HeldIsKept, Kept
      <4>1. files[item] \subseteq File
        BY DEF ShapeIInv, CatalogueOK, KeepsOK
      <4> QED
        BY <3>1, <4>1 DEF HeldWhole
  <2>3. WithinLimit
    BY DEF LimitOK, WithinLimit
  <2>4. KeptIsWhole
    BY DEF WholeOK, HasChanged, KeptIsWhole
  <2>5. WaitsForRoomOnly
    BY WaitsMean DEF ShapeIInv
  <2>6. ToldIsStored
    BY DEF TasksOK, ToldIsStored
  <2> QED
    BY <2>1, <2>2, <2>3, <2>4, <2>5, <2>6 DEF KeepingInv
<1> QED
  BY <1>1, KeepingInductive, PTL

\* Nothing but a look of the emergency copies begins one.
NoneBegun == \A j \in jobs' : j.why = "emergency" => \E k \in jobs : k.why = "emergency" /\ k.item = j.item

LEMMA FewerBegins == ASSUME jobs' \subseteq jobs PROVE NoneBegun
BY DEF NoneBegun

LEMMA OthersBegin ==
    ASSUME NEW why \in Why \ {"emergency"}, NEW item, NEW step, NEW fs, NEW authors,
           jobs' = jobs \cup {NewJobOf(why, item, step, fs, authors)}
    PROVE  NoneBegun
<1>1. NewJobOf(why, item, step, fs, authors).why = why
  BY DEF NewJobOf
<1> QED
  BY <1>1 DEF NoneBegun

LEMMA TurnBegins ==
    ASSUME NEW j \in jobs, NEW next, Turns(j, next)
    PROVE  NoneBegun
BY DEF Turns, Goes, NoneBegun

LEMMA WorkBegins ==
    ASSUME ShapeIInv, NEW j \in jobs, Works(j)
    PROVE  NoneBegun
<1> USE DEF ShapeIInv
<1>1. CASE j.step \notin {"room", "evict"}
  BY <1>1, WorkTurns, TurnBegins
<1>2. CASE Plans(j)
  <2>1. PICK next, items : PlansAs(j, next, items)
    BY <1>2, PlanTurns
  <2> QED
    BY <2>1, TurnBegins DEF PlansAs
<1>3. CASE Evicts(j)
  BY <1>3, RoomTurns, TurnBegins
<1> QED
  BY <1>1, <1>2, <1>3, Zenon
     DEF Works, RechecksRead, RechecksSet, KeepStarts, KeepFetches, DownloadStarts, DownloadTags, DownloadFetches,
         DownloadExports, AddChecks, AddWrites, AddKeeps

LEMMA PinningBegins ==
    ASSUME Loop
    PROVE  NoneBegun
<1>1. CASE start_fetches
  <2>1. PICK k \in DOMAIN queue : jobs' = jobs \cup {NewJobOf("custody", queue[k], "start", {}, {})}
    BY <1>1, Zenon DEF start_fetches, NewJob
  <2> QED
    BY <2>1, OthersBegin DEF Why
<1>2. CASE HearsChange \/ HearsLagged \/ LooksAtAvailability \/ Released \/ \E item \in Item : ReleaseIfSafe(item)
  <2>1. jobs' = jobs
    BY <1>2, Zenon DEF HearsChange, HearsLagged, LooksAtAvailability, Released, ReleaseIfSafe, keepingVars
  <2> QED
    BY <2>1, FewerBegins
<1>3. ASSUME NEW j \in jobs, FetchEnds(j) PROVE NoneBegun
  <2>1. jobs' = jobs \ {j}
    BY <1>3, Zenon DEF FetchEnds
  <2> QED
    BY <2>1, FewerBegins
<1> QED
  BY <1>1, <1>2, <1>3, Zenon DEF Loop

LEMMA AnsweringBegins ==
    ASSUME ShapeIInv, Answering
    PROVE  NoneBegun
<1>1. ASSUME NEW j \in jobs, Registers(j) PROVE NoneBegun
  <2>1. j.why = "download" /\ jobs' = (jobs \ {j}) \cup {[j EXCEPT !.step = "tag", !.task = next_task + 1]}
    BY <1>1, Zenon DEF Registers, Goes
  <2>2. [j EXCEPT !.step = "tag", !.task = next_task + 1].why = j.why
    BY DEF ShapeIInv, JobsOK, JobOK, Job
  <2> QED
    BY <2>1, <2>2 DEF NoneBegun
<1>2. ASSUME NEW j \in jobs, DownloadEnds(j) \/ AddEnds(j) PROVE NoneBegun
  <2>1. jobs' = jobs \ {j}
    BY <1>2, Zenon DEF DownloadEnds, AddEnds
  <2> QED
    BY <2>1, FewerBegins
<1>3. ASSUME NEW c \in calls, Begins(c) PROVE NoneBegun
  BY <1>3, OthersBegin DEF Begins, Why
<1>4. CASE jobs' = jobs
  BY <1>4, FewerBegins
<1> QED
  BY <1>1, <1>2, <1>3, <1>4, Zenon DEF Answering, Receiving, keepingVars

LEMMA ProjectingBegins ==
    ASSUME Projecting
    PROVE  NoneBegun
<1>1. ASSUME NEW item \in Item, Projects(item) PROVE NoneBegun
  BY <1>1, OthersBegin DEF Projects, Why
<1>2. ASSUME NEW j \in jobs, Projected(j) PROVE NoneBegun
  <2>1. jobs' = jobs \ {j}
    BY <1>2, Zenon DEF Projected
  <2> QED
    BY <2>1, FewerBegins
<1> QED
  BY <1>1, <1>2, Zenon DEF Projecting

LEMMA HappensBegins ==
    ASSUME Happens
    PROVE  NoneBegun
<1>1. ASSUME NEW item \in Item, Downloads(item) PROVE NoneBegun
  BY <1>1, OthersBegin DEF Downloads, NewJob, Why
<1>2. ASSUME NEW item \in Item, NEW fs \in SUBSET File, Adds(item, fs) PROVE NoneBegun
  BY <1>2, OthersBegin DEF Adds, Why
<1>3. ASSUME NEW j \in jobs, Panics(j) PROVE NoneBegun
  <2>1. jobs' = jobs \ {j}
    BY <1>3, Zenon DEF Panics, fetch_panicked, CopyPanics
  <2> QED
    BY <2>1, FewerBegins
<1>4. CASE Leaves
  <2>1. jobs' \subseteq jobs
    BY <1>4 DEF Leaves, Abandons
  <2> QED
    BY <2>1, FewerBegins
<1>5. CASE Restarts
  <2>1. jobs' = {}
    BY <1>5, Zenon DEF Restarts
  <2> QED
    BY <2>1, FewerBegins
<1>6. CASE AvailabilityMoves \/ Recomputes \/ NeedsUpgrade \/ Uploading \/ \E item \in Item, f \in File : FileAdded(item, f)
  <2>1. jobs' = jobs
    BY <1>6, Zenon DEF AvailabilityMoves, Recomputes, NeedsUpgrade, Uploading, FileAdded, keepingVars
  <2> QED
    BY <2>1, FewerBegins
<1> QED
  BY <1>1, <1>2, <1>3, <1>4, <1>5, <1>6, Zenon DEF Happens

LEMMA BegunByALook ==
    ASSUME ShapeIInv, Next
    PROVE  NoneBegun \/ Looks
<1>1. CASE Working
  BY <1>1, WorkBegins DEF Working
<1>2. CASE Pinning
  BY <1>2, PinningBegins DEF Pinning
<1>3. ASSUME NEW j \in jobs, copied(j) PROVE NoneBegun
  <2>1. jobs' = jobs \ {j}
    BY <1>3, Zenon DEF copied
  <2> QED
    BY <2>1, FewerBegins
<1>4. ASSUME NEW item \in Item, DelayPasses(item) PROVE NoneBegun
  BY <1>4, FewerBegins DEF DelayPasses, keepingVars
<1>5. CASE Collecting
  BY <1>5, FewerBegins DEF Collecting, Collects
<1> QED
  BY <1>1, <1>2, <1>3, <1>4, <1>5, AnsweringBegins, ProjectingBegins, HappensBegins, Zenon
     DEF Next, Emergencies, EmergencyLoop

\* An emergency copy is begun only of an item with one live copy and none here,
\* that was so at an earlier look already: no fetch, release, failed or panicked
\* copy, and no restart brings one about (emergency.rs update, look).
THEOREM CopiesAreNeeded == Spec => CopiesOnlyTheAlone
<1> DEFINE Stepped == \A item \in Item :
              (~ Busy("emergency", item) /\ (\E j \in jobs' : j.why = "emergency" /\ j.item = item)) =>
                  item \in AloneNow /\ alone[item] # "none"
<1>1. ASSUME ShapeIInv, Next PROVE Stepped
  <2>1. CASE NoneBegun
    BY <2>1 DEF NoneBegun, Busy
  <2>2. CASE Looks
    BY <1>1, <2>2, CopiesOfTheAlone
  <2> QED
    BY <1>1, <2>1, <2>2, BegunByALook
<1>2. ASSUME UNCHANGED allVars PROVE UNCHANGED <<jobs, alone>>
  BY <1>2 DEF allVars, keepingVars, emergencyVars
<1>3. KeepingIInv => ShapeIInv
  BY DEF KeepingIInv
<1> HIDE DEF Stepped
<1>4. KeepingIInv /\ [Next]_allVars => [Stepped]_<<jobs, alone>>
  BY <1>1, <1>2, <1>3
<1>5. Spec => [][Stepped]_<<jobs, alone>>
  BY <1>4, KeepingInductive, PTL DEF Spec
<1> QED
  BY <1>5 DEF CopiesOnlyTheAlone, Stepped
=============================================================================
