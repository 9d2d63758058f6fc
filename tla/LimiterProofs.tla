---------------------------- MODULE LimiterProofs ----------------------------
(***************************************************************************)
(* The limiter's inductive invariant, for any number of goroutines,        *)
(* clients, groups and buckets and at any limits.                          *)
(***************************************************************************)
EXTENDS Limiter, FiniteSetTheorems, TLAPS

(***************************************************************************)
(* Arithmetic the provers need to be told, one fact at a time.             *)
(***************************************************************************)

\* A product of naturals is a natural, and positive if its factors are.
LEMMA ProductNat ==
    ASSUME NEW x \in Nat, NEW y \in Nat
    PROVE  /\ x * y \in Nat
           /\ x > 0 /\ y > 0 => x * y > 0
  OBVIOUS

\* Multiplication by a natural is monotone.
LEMMA ProductMono ==
    ASSUME NEW x \in Int, NEW y \in Int, NEW z \in Nat, x <= y
    PROVE  /\ x * z <= y * z
           /\ z * x <= z * y
  OBVIOUS

\* Multiplication distributes over a sum.
LEMMA ProductSum ==
    ASSUME NEW x \in Int, NEW y \in Int, NEW z \in Int
    PROVE  /\ (x + y) * z = x * z + y * z
           /\ z * (x + y) = z * x + z * y
           /\ (x - y) * z = x * z - y * z
           /\ z * (x - y) = z * x - z * y
  OBVIOUS

(***************************************************************************)
(* Limits.                                                                 *)
(***************************************************************************)

\* One request costs something.
LEMMA TokenType == Token \in Nat /\ Token > 0
  BY UnitAssumption, ProductNat DEF Token

\* New's clamp leaves a usable safety factor, whatever was configured.
LEMMA RatioType == Ratio \in Nat /\ 0 < Ratio /\ Ratio <= SafetyUnit
  BY UnitAssumption DEF Ratio

\* A group has a positive limit at any time.
LEMMA GroupLimitType ==
    ASSUME NEW g \in Group, NEW now \in Time
    PROVE  GroupLimit(g, now) \in Nat /\ GroupLimit(g, now) > 0
  BY GroupAssumption DEF GroupLimit, InPeak

\* The limit that gates a request is positive, so that allow never divides by
\* zero and its rate <= 0 branch is never taken, and never above the group's.
LEMMA EffectiveLimitType ==
    ASSUME NEW g \in Group, NEW adapt \in Nat, NEW now \in Time
    PROVE  /\ EffectiveLimit(g, adapt, now) \in Nat
           /\ EffectiveLimit(g, adapt, now) > 0
           /\ EffectiveLimit(g, adapt, now) <= GroupLimit(g, now) * Ratio
<1> DEFINE a == AdaptedLimit(g, adapt, now)
<1>1. a \in Nat /\ a > 0 /\ a <= GroupLimit(g, now)
  BY GroupLimitType DEF AdaptedLimit, Lesser
<1>2. a * Ratio \in Nat /\ a * Ratio > 0
  BY <1>1, RatioType, ProductNat
<1>3. a * Ratio <= GroupLimit(g, now) * Ratio
  BY <1>1, RatioType, GroupLimitType, ProductMono
<1> QED
  BY <1>2, <1>3 DEF EffectiveLimit

\* A bucket has room for one request at any limit.
LEMMA BurstType ==
    ASSUME NEW limit \in Nat
    PROVE  Burst(limit) \in Nat /\ Burst(limit) >= Token
  BY TokenType, UnitAssumption, ProductNat DEF Burst, Greater

\* A higher limit gives at least the burst.
LEMMA BurstMono ==
    ASSUME NEW l \in Nat, NEW m \in Nat, l <= m
    PROVE  Burst(l) <= Burst(m)
<1>1. l * TicksPerSecond <= m * TicksPerSecond
  BY UnitAssumption, ProductMono
<1>2. l * TicksPerSecond \in Nat /\ m * TicksPerSecond \in Nat
  BY UnitAssumption, ProductNat
<1> QED
  BY <1>1, <1>2, TokenType DEF Burst, Greater

(***************************************************************************)
(* Buckets.                                                                *)
(***************************************************************************)

\* allow leaves a bucket with its tokens between nothing and a second's worth.
LEMMA RefilledType ==
    ASSUME NEW b \in BucketType, NEW now \in Time, NEW limit \in Nat
    PROVE  Refilled(b, now, limit) \in BucketType
<1> DEFINE cap == Burst(limit)
           s   == Started([b EXCEPT !.lastSeen = now, !.capacity = cap], now, cap)
<1>1. cap \in Nat
  BY BurstType
<1>2. s \in BucketType
  BY <1>1 DEF Started, BucketType, Time
<1>3. CASE now - s.last > 0
  <2>1. now - s.last \in Nat
    BY <1>2, <1>3 DEF BucketType, Time
  <2>2. (now - s.last) * limit \in Nat
    BY <2>1, ProductNat
  <2>3. Lesser(s.tokens + (now - s.last) * limit, cap) \in Nat
    BY <1>1, <1>2, <2>2 DEF Lesser, BucketType
  <2>4. [s EXCEPT !.last = now, !.tokens = Lesser(@ + (now - s.last) * limit, cap)] \in BucketType
    BY <1>2, <2>3 DEF BucketType, Time
  <2> QED
    BY <1>3, <2>4 DEF Refilled
<1>4. CASE ~(now - s.last > 0)
  BY <1>2, <1>4 DEF Refilled
<1> QED
  BY <1>3, <1>4

\* allow's refill: a full bucket at its first use; nothing for a clock reading
\* that is not after the bucket's time; else what the time between adds.
LEMMA RefilledFields ==
    ASSUME NEW b \in BucketType, NEW now \in Time, NEW limit \in Nat
    PROVE  LET r == Refilled(b, now, limit) IN
           \/ b.last = 0 /\ r.last = now /\ r.tokens = Burst(limit)
           \/ b.last # 0 /\ now <= b.last /\ r.last = b.last /\ r.tokens = b.tokens
           \/ /\ b.last # 0 /\ b.last < now /\ r.last = now
              /\ r.tokens = Lesser(b.tokens + (now - b.last) * limit, Burst(limit))
<1> DEFINE cap == Burst(limit)
           t   == [b EXCEPT !.lastSeen = now, !.capacity = cap]
           s   == Started(t, now, cap)
<1>1. cap \in Nat
  BY BurstType
<1> HIDE DEF cap
<1>2. t \in BucketType /\ t.last = b.last /\ t.tokens = b.tokens
  BY <1>1 DEF BucketType, Time
<1> HIDE DEF t, s
<1>3. CASE b.last = 0
  <2>1. s = [t EXCEPT !.last = now, !.tokens = cap]
    BY <1>2, <1>3 DEF Started, s
  <2>2. s.last = now /\ s.tokens = cap /\ ~(now - s.last > 0)
    BY <1>2, <2>1 DEF BucketType, Time
  <2>3. Refilled(b, now, limit) = s
    BY <2>2 DEF Refilled, cap, t, s
  <2> QED
    BY <1>3, <2>2, <2>3 DEF cap
<1>4. CASE b.last # 0
  <2>1. s = t
    BY <1>2, <1>4 DEF Started, s
  <2>2. CASE now - b.last > 0
    <3>1. Refilled(b, now, limit) =
            [t EXCEPT !.last = now,
                      !.tokens = Lesser(b.tokens + (now - b.last) * limit, cap)]
      BY <1>2, <2>1, <2>2 DEF Refilled, cap, t, s
    <3>2. b.last < now
      BY <2>2 DEF BucketType, Time
    <3> QED
      BY <1>2, <1>4, <3>1, <3>2 DEF cap, BucketType
  <2>3. CASE ~(now - b.last > 0)
    <3>1. Refilled(b, now, limit) = t
      BY <1>2, <2>1, <2>3 DEF Refilled, cap, t, s
    <3> QED
      BY <1>2, <1>4, <2>3, <3>1 DEF BucketType, Time
  <2> QED
    BY <2>2, <2>3
<1> QED
  BY <1>3, <1>4

\* The other operations keep a bucket a bucket.
LEMMA OperationsType ==
    ASSUME NEW b \in BucketType, NEW now \in Time, NEW header \in Nat, NEW retry \in Nat
    PROVE  /\ NewBucket(now) \in BucketType
           /\ Touched(b, now) \in BucketType
           /\ Affordable(b) => Spent(b) \in BucketType
           /\ Observed(b, now, header, retry) \in BucketType
           /\ Refunded(b) \in BucketType
<1>1. NewBucket(now) \in BucketType
  BY DEF NewBucket, BucketType, Time
<1>2. Touched(b, now) \in BucketType
  BY DEF Touched, BucketType, Time
<1>3. Affordable(b) => Spent(b) \in BucketType
  BY TokenType DEF Affordable, Spent, BucketType
<1>4. Observed(b, now, header, retry) \in BucketType
<2> DEFINE a == IF header > 0 THEN header ELSE b.adaptLimit
           u == IF retry > 0 THEN now + retry ELSE b.blockedUntil
           t == IF retry > 0 THEN 0 ELSE b.tokens
<2>1. a \in Nat /\ u \in Nat /\ t \in Nat
  BY DEF BucketType, Time
<2>2. Observed(b, now, header, retry) = [b EXCEPT !.adaptLimit = a, !.blockedUntil = u, !.tokens = t]
  BY DEF Observed
<2> HIDE DEF a, u, t
<2>3. [b EXCEPT !.adaptLimit = a, !.blockedUntil = u, !.tokens = t] \in BucketType
  BY <2>1 DEF BucketType, Time
<2> QED
  BY <2>2, <2>3
<1>5. Refunded(b) \in BucketType
  BY TokenType DEF Refunded, Lesser, BucketType
<1> QED
  BY <1>1, <1>2, <1>3, <1>4, <1>5

(***************************************************************************)
(* What the actions are made of.                                           *)
(***************************************************************************)

\* There are finitely many keys, so the map is finite.
LEMMA KeyFinite == IsFiniteSet(Key)
<1>1. IsFiniteSet(Group \union OtherGroup)
  BY LimiterAssumption, FS_Union
<1> QED
  BY <1>1, LimiterAssumption, FS_Product DEF Key

LEMMA MappedFinite == IsFiniteSet(Mapped) /\ Cardinality(Mapped) \in Nat
<1>1. Mapped \in SUBSET Key
  BY DEF Mapped
<1> QED
  BY <1>1, KeyFinite, FS_Subset, FS_CardinalityType

\* The addresses of garbage hold zero buckets: the heap keeps its type.
LEMMA SweptType ==
    ASSUME NEW bs, NEW ps, NEW h \in [BucketId -> BucketType]
    PROVE  Swept(bs, ps, h) \in [BucketId -> BucketType]
<1>1. NewBucket(0) \in BucketType
  BY DEF NewBucket, BucketType, Time
<1> QED
  BY <1>1 DEF Swept

\* What the map or a goroutine points to is kept.
LEMMA SweptAt ==
    ASSUME NEW b \in BucketId, NEW bs, NEW ps, NEW h, b \in Live(bs, ps)
    PROVE  Swept(bs, ps, h)[b] = h[b]
  BY DEF Swept

\* No call, and no scan and no sweep, in progress.
LEMMA NothingType == NoCall \in CallType /\ NoScan \in ScanType /\ NoGC \in GCType
  BY DEF NoCall, CallType, NoScan, ScanType, NoGC, GCType, Time

\* A gated key has a known group.
LEMMA GatedGroup ==
    ASSUME NEW k \in Key, Gated(k)
    PROVE  k[2] \in Group
  BY DEF Gated

\* A goroutine in a bucket section holds the address of a bucket.
LEMMA InSection ==
    ASSUME TypeOK, LockInv, NEW c \in Caller, pc[c] \in {"limit", "take", "write", "give"}
    PROVE  ptr[c] \in BucketId /\ heap[ptr[c]] \in BucketType
  BY DEF TypeOK, LockInv

\* Leaving a bucket section keeps every type and touches no other goroutine.
LEMMA LeaveKeeps ==
    ASSUME IInv, NEW c \in Caller, NEW b \in BucketType, NEW place \in {"idle", "granted", "find"},
           NEW locals \in CallType, Leave(c, b, place, locals),
           pc[c] \in {"take", "write", "give"},
           place # "idle" => locals.key = call[c].key
    PROVE  IInv'
<1> USE DEF IInv
<1>1. ptr[c] \in BucketId
  BY InSection
<1>2. TypeOK'
  <2>1. [heap EXCEPT ![ptr[c]] = b] \in [BucketId -> BucketType]
    BY <1>1 DEF TypeOK
  <2>2. heap' \in [BucketId -> BucketType]
    BY <2>1, SweptType DEF Leave
  <2>3. place \in Places
    BY DEF Places
  <2> QED
    BY <2>2, <2>3 DEF TypeOK, Leave
<1>3. Mapped' = Mapped
  BY DEF Leave, Mapped
<1>4. LockInv'
  BY <1>3 DEF Leave, LockInv, TypeOK
<1>5. BucketMapBounded'
  BY <1>3 DEF BucketMapBounded
<1>6. Working'
  BY DEF Leave, Working, TypeOK, Gated
<1>7. Sweeping'
  BY <1>3 DEF Leave, Sweeping, TypeOK, Full
<1> QED
  BY <1>2, <1>4, <1>5, <1>6, <1>7

(***************************************************************************)
(* Each action keeps the invariant.                                        *)
(***************************************************************************)

\* The invariant's parts hold at the start.
LEMMA InitKeeps == Init => IInv
<1> SUFFICES ASSUME Init PROVE IInv
  OBVIOUS
<1> USE DEF Init
<1>1. Mapped = {}
  BY DEF Mapped
<1>2. TypeOK
  <2>1. NewBucket(0) \in BucketType
    BY DEF NewBucket, BucketType, Time
  <2> QED
    BY <2>1, NothingType DEF TypeOK, Time, Places
<1>3. LockInv
  BY LimiterAssumption, <1>1 DEF LockInv, NoScan, NoGC
<1>4. BucketMapBounded
  BY <1>1, FS_EmptySet, LimiterAssumption DEF BucketMapBounded
<1>5. Working
  BY DEF Working
<1>6. Sweeping
  BY LimiterAssumption DEF Sweeping, NoScan, NoGC
<1> QED
  BY <1>2, <1>3, <1>4, <1>5, <1>6 DEF IInv

\* A step that moves one goroutine between places outside the limiter's mutex
\* and gives it new locals keeps the invariant.
LEMMA MoveKeeps ==
    ASSUME IInv, NEW c \in Caller, NEW place \in Places, NEW locals \in CallType,
           pc' = [pc EXCEPT ![c] = place], call' = [call EXCEPT ![c] = locals],
           UNCHANGED <<clock, buckets, heap, lmu, ptr, scan, gc>>,
           pc[c] # "evict", place # "evict",
           place \in {"limit", "take", "write", "give"} <=> ptr[c] # Nil,
           place # "idle" => locals.key \in Key,
           place \notin {"idle", "granted"} => Gated(locals.key),
           place = "take" => locals.limit > 0
    PROVE  IInv'
<1> USE DEF IInv
<1>1. Mapped' = Mapped
  BY DEF Mapped
<1>2. TypeOK'
  BY DEF TypeOK
<1>3. LockInv'
  BY <1>1 DEF LockInv, TypeOK
<1>4. BucketMapBounded'
  BY <1>1 DEF BucketMapBounded
<1>5. Working'
  BY DEF Working, TypeOK, Gated
<1>6. Sweeping'
  BY <1>1 DEF Sweeping, TypeOK, Full
<1> QED
  BY <1>2, <1>3, <1>4, <1>5, <1>6

LEMMA CallAllowKeeps ==
    ASSUME IInv, NEW c \in Caller, NEW k \in Key, CallAllow(c, k)
    PROVE  IInv'
<1>1. ptr[c] = Nil /\ pc[c] = "idle"
  BY DEF CallAllow, IInv, LockInv
<1>2. CASE Gated(k)
  <2> DEFINE locals == [NoCall EXCEPT !.op = "allow", !.key = k, !.now = clock]
  <2>1. locals \in CallType /\ locals.key = k
    BY DEF NoCall, CallType, IInv, TypeOK
  <2>2. pc' = [pc EXCEPT ![c] = "lookup"] /\ call' = [call EXCEPT ![c] = locals]
    BY <1>2 DEF CallAllow
  <2> HIDE DEF locals
  <2>3. "lookup" \in Places
    BY DEF Places
  <2> QED
    BY <1>1, <1>2, <2>1, <2>2, <2>3, MoveKeeps DEF CallAllow
<1>3. CASE ~Gated(k)
  <2> DEFINE locals == [NoCall EXCEPT !.op = "allow", !.key = k, !.now = 0]
  <2>1. locals \in CallType /\ locals.key = k
    BY DEF NoCall, CallType, Time
  <2>2. pc' = [pc EXCEPT ![c] = "granted"] /\ call' = [call EXCEPT ![c] = locals]
    BY <1>3 DEF CallAllow
  <2> HIDE DEF locals
  <2>3. "granted" \in Places
    BY DEF Places
  <2> QED
    BY <1>1, <2>1, <2>2, <2>3, MoveKeeps DEF CallAllow
<1> QED
  BY <1>2, <1>3

LEMMA SettleKeeps ==
    ASSUME IInv, NEW c \in Caller, NEW h \in Header \union {0}, NEW r \in Retry \union {0},
           NEW refund \in BOOLEAN, Settle(c, h, r, refund)
    PROVE  IInv'
<1> DEFINE locals == [NoCall EXCEPT !.op = "observe", !.key = call[c].key, !.now = clock,
                                    !.header = h, !.retry = r, !.refund = refund]
<1>1. call[c].key \in Key /\ ptr[c] = Nil /\ pc[c] = "granted"
  BY DEF Settle, IInv, Working, LockInv
<1>2. h \in Nat /\ r \in Nat /\ clock \in Time
  BY LimiterAssumption DEF IInv, TypeOK, Time
<1>3. locals \in CallType /\ locals.key = call[c].key
  BY <1>1, <1>2 DEF NoCall, CallType
<1> HIDE DEF locals
<1>4. CASE Gated(call[c].key)
  <2>1. pc' = [pc EXCEPT ![c] = "lookup"] /\ call' = [call EXCEPT ![c] = locals]
    BY <1>4 DEF Settle, locals
  <2>2. "lookup" \in Places
    BY DEF Places
  <2> QED
    BY <1>1, <1>3, <1>4, <2>1, <2>2, MoveKeeps DEF Settle
<1>5. CASE ~Gated(call[c].key)
  <2>1. pc' = [pc EXCEPT ![c] = "idle"] /\ call' = [call EXCEPT ![c] = NoCall]
    BY <1>5 DEF Settle
  <2>2. "idle" \in Places
    BY DEF Places
  <2> QED
    BY <1>1, <2>1, <2>2, NothingType, MoveKeeps DEF Settle
<1> QED
  BY <1>4, <1>5

LEMMA FailKeeps ==
    ASSUME IInv, NEW c \in Caller, Fail(c)
    PROVE  IInv'
<1>1. "idle" \in Places
  BY DEF Places
<1>2. ptr[c] = Nil /\ pc[c] = "granted"
  BY DEF Fail, IInv, LockInv
<1> QED
  BY <1>1, <1>2, NothingType, MoveKeeps DEF Fail

LEMMA TickKeeps ==
    ASSUME IInv, Tick
    PROVE  IInv'
<1> USE DEF Tick
<1>1. Mapped' = Mapped
  BY DEF Mapped
<1>2. TypeOK' /\ LockInv'
  BY <1>1 DEF IInv, TypeOK, LockInv, Time
<1> QED
  BY <1>1, <1>2 DEF IInv, BucketMapBounded, Working, Sweeping, Full, Gated

LEMMA LookupHitKeeps ==
    ASSUME IInv, NEW c \in Caller, LookupHit(c)
    PROVE  IInv'
<1> USE DEF IInv, LookupHit
<1>1. Mapped' = Mapped
  BY DEF Mapped
<1>2. AfterLookup(c) \in {"limit", "write"} /\ AfterLookup(c) \in Places
  BY DEF AfterLookup, Places
<1>3. buckets[call[c].key] \in BucketId
  BY DEF TypeOK, Mapped
<1>4. Nil \notin BucketId
  BY LimiterAssumption
<1>5. TypeOK'
  BY <1>2, <1>3 DEF TypeOK
<1>6. LockInv'
  BY <1>1, <1>2, <1>3, <1>4 DEF LockInv, TypeOK
<1>7. BucketMapBounded'
  BY <1>1 DEF BucketMapBounded
<1>8. Working'
  BY <1>2 DEF Working, TypeOK, Gated
<1>9. Sweeping'
  BY <1>1, <1>2 DEF Sweeping, TypeOK, Full
<1> QED
  BY <1>5, <1>6, <1>7, <1>8, <1>9

LEMMA LookupCreateKeeps ==
    ASSUME IInv, NEW c \in Caller, NEW b \in BucketId, LookupCreate(c, b)
    PROVE  IInv'
<1> USE DEF IInv, LookupCreate
<1>1. call[c].key \in Key /\ Nil \notin BucketId
  BY LimiterAssumption DEF Working
<1>2. Mapped' = Mapped \union {call[c].key}
  BY <1>1 DEF Mapped, TypeOK
<1>3. AfterLookup(c) \in {"limit", "write"} /\ AfterLookup(c) \in Places
  BY DEF AfterLookup, Places
<1>4. scan = NoScan /\ gc.todo = {} /\ gc.doomed = Nil
  BY LimiterAssumption DEF Sweeping
<1>5. TypeOK'
  <2>1. NewBucket(call[c].now) \in BucketType
    BY DEF NewBucket, BucketType, TypeOK, CallType, Time
  <2>2. heap' \in [BucketId -> BucketType]
    BY <2>1 DEF TypeOK
  <2> QED
    BY <1>1, <1>3, <2>2 DEF TypeOK
<1>6. LockInv'
  BY <1>1, <1>2, <1>3 DEF LockInv, TypeOK
<1>7. BucketMapBounded'
  <2>1. Cardinality(Mapped \union {call[c].key}) = Cardinality(Mapped) + 1
    BY MappedFinite, FS_AddElement
  <2> QED
    BY <1>2, <2>1, MappedFinite, LimiterAssumption DEF BucketMapBounded, Full
<1>8. Working'
  BY <1>3 DEF Working, TypeOK, Gated
<1>9. Sweeping'
  <2>1. \A d \in Caller : pc'[d] # "evict"
    BY <1>3, LimiterAssumption DEF LockInv, TypeOK
  <2> QED
    BY <1>4, <2>1 DEF Sweeping
<1> QED
  BY <1>5, <1>6, <1>7, <1>8, <1>9

LEMMA LookupFullKeeps ==
    ASSUME IInv, NEW c \in Caller, LookupFull(c)
    PROVE  IInv'
<1> USE DEF IInv, LookupFull
<1>1. Mapped' = Mapped
  BY DEF Mapped
<1>2. TypeOK'
  BY NothingType DEF TypeOK, Places
<1>3. LockInv'
  BY <1>1, LimiterAssumption DEF LockInv, TypeOK, NoScan
<1>4. BucketMapBounded'
  BY <1>1 DEF BucketMapBounded
<1>5. Working'
  BY DEF Working, TypeOK, Gated
<1>6. Sweeping'
  <2>1. \A d \in Caller : pc'[d] = "evict" => d = c
    BY LimiterAssumption DEF LockInv, TypeOK
  <2> QED
    BY <1>1, <2>1, LimiterAssumption DEF Sweeping, TypeOK, Full, NoScan
<1> QED
  BY <1>2, <1>3, <1>4, <1>5, <1>6

\* A visit adds one key to the sample and leaves a candidate in it.
LEMMA EvictVisitKeeps ==
    ASSUME IInv, NEW c \in Caller, NEW k \in Key, EvictVisit(c, k)
    PROVE  IInv'
<1> USE DEF IInv, EvictVisit
<1>1. Mapped' = Mapped
  BY DEF Mapped
<1>2. heap[buckets[k]] \in BucketType /\ k \in Mapped /\ lmu = c
  BY DEF Mapped, TypeOK, LockInv
<1>3. scan' \in ScanType
  BY <1>2 DEF TypeOK, ScanType, BucketType
<1>4. /\ scan'.visited = scan.visited \union {k}
      /\ scan'.victim \in {scan.victim, k}
      /\ scan'.blocked \in {scan.blocked, k}
      /\ scan'.victim # Nil \/ scan'.blocked # Nil
  BY LimiterAssumption DEF TypeOK, ScanType
<1>5. TypeOK'
  BY <1>3 DEF TypeOK
<1>6. LockInv'
  BY <1>1, <1>2, <1>4 DEF LockInv
<1>7. BucketMapBounded'
  BY <1>1 DEF BucketMapBounded
<1>8. Working'
  BY DEF Working, Gated
<1>9. Sweeping'
  BY <1>1, <1>2, <1>4 DEF Sweeping, Full
<1> QED
  BY <1>5, <1>6, <1>7, <1>8, <1>9

\* The commit replaces a mapped key by one that is not: the sample of a full
\* map is never empty, so there is a victim.
LEMMA EvictCommitKeeps ==
    ASSUME IInv, NEW c \in Caller, NEW b \in BucketId, EvictCommit(c, b)
    PROVE  IInv'
<1> USE DEF IInv, EvictCommit
<1> DEFINE k == call[c].key
<1>1. k \in Key /\ k \notin Mapped /\ Full /\ lmu = c /\ Nil \notin BucketId \union Key
  BY LimiterAssumption DEF Working, Sweeping, LockInv
<1>2. Mapped # {}
  <2>1. Mapped = {} => Cardinality(Mapped) = 0
    BY FS_EmptySet
  <2> QED
    BY <1>1, <2>1, LimiterAssumption DEF Full
<1>3. scan.visited # {}
  <2>1. scan.visited = {} => Cardinality(scan.visited) = 0
    BY FS_EmptySet
  <2> QED
    BY <1>2, <2>1, LimiterAssumption
<1>4. Victim \in Mapped
  BY <1>3 DEF Sweeping, LockInv, Victim
<1>5. Mapped' = (Mapped \ {Victim}) \union {k}
  BY <1>1, <1>4 DEF Mapped, TypeOK
<1>6. AfterLookup(c) \in {"limit", "write"} /\ AfterLookup(c) \in Places
  BY DEF AfterLookup, Places
<1>7. gc.todo = {} /\ gc.doomed = Nil
  BY <1>1, LimiterAssumption DEF Sweeping
<1>8. TypeOK'
  <2>1. NewBucket(call[c].now) \in BucketType
    BY DEF NewBucket, BucketType, TypeOK, CallType, Time
  <2>2. [heap EXCEPT ![b] = NewBucket(call[c].now)] \in [BucketId -> BucketType]
    BY <2>1 DEF TypeOK
  <2>3. heap' \in [BucketId -> BucketType]
    BY <2>2, SweptType
  <2>4. buckets' \in [Key -> BucketId \union {Nil}]
    BY DEF TypeOK
  <2> QED
    BY <1>6, <2>3, <2>4, NothingType DEF TypeOK
<1>9. LockInv'
  BY <1>1, <1>6, <1>7, LimiterAssumption DEF LockInv, TypeOK, NoScan
<1>10. BucketMapBounded'
  <2>1. IsFiniteSet(Mapped \ {Victim}) /\ Cardinality(Mapped \ {Victim}) = Cardinality(Mapped) - 1
    BY <1>4, MappedFinite, FS_RemoveElement
  <2>2. Cardinality((Mapped \ {Victim}) \union {k}) = Cardinality(Mapped \ {Victim}) + 1
    BY <1>1, <2>1, FS_AddElement
  <2>3. Cardinality(Mapped') = Cardinality(Mapped)
    BY <1>5, <2>1, <2>2, MappedFinite
  <2> QED
    BY <2>3 DEF BucketMapBounded
<1>11. Working'
  BY <1>6 DEF Working, TypeOK, Gated
<1>12. Sweeping'
  <2>1. \A d \in Caller : pc'[d] # "evict"
    BY <1>1, <1>6 DEF LockInv, TypeOK
  <2> QED
    BY <1>7, <2>1 DEF Sweeping, NoScan
<1> QED
  BY <1>8, <1>9, <1>10, <1>11, <1>12

LEMMA ReadLimitKeeps ==
    ASSUME IInv, NEW c \in Caller, ReadLimit(c)
    PROVE  IInv'
<1> DEFINE limit == EffectiveLimit(call[c].key[2], heap[ptr[c]].adaptLimit, call[c].now)
           locals == [call[c] EXCEPT !.limit = limit]
<1>1. pc[c] = "limit" /\ call[c].key \in Key /\ Gated(call[c].key) /\ ptr[c] # Nil
  BY DEF ReadLimit, IInv, Working, LockInv
<1>2. call[c] \in CallType
  BY DEF IInv, TypeOK
<1>3. limit \in Nat /\ limit > 0
  <2>1. heap[ptr[c]].adaptLimit \in Nat
    BY <1>1, InSection DEF IInv, BucketType
  <2>2. call[c].key[2] \in Group /\ call[c].now \in Time
    BY <1>1, <1>2, GatedGroup DEF CallType
  <2> QED
    BY <2>1, <2>2, EffectiveLimitType
<1>4. pc' = [pc EXCEPT ![c] = "take"] /\ call' = [call EXCEPT ![c] = locals]
  BY DEF ReadLimit
<1> HIDE DEF limit
<1>5. locals \in CallType /\ locals.key = call[c].key /\ locals.limit > 0
  BY <1>2, <1>3 DEF CallType
<1>6. "take" \in Places
  BY DEF Places
<1> HIDE DEF locals
<1> QED
  BY <1>1, <1>4, <1>5, <1>6, MoveKeeps DEF ReadLimit

\* What a call in allow brings to the bucket's own mutex.
LEMMA ReadyType ==
    ASSUME IInv, NEW c \in Caller, pc[c] = "take"
    PROVE  /\ heap[ptr[c]] \in BucketType
           /\ call[c] \in CallType
           /\ Ready(c) \in BucketType
<1>1. heap[ptr[c]] \in BucketType /\ call[c] \in CallType
  BY InSection DEF IInv, TypeOK
<1>2. call[c].now \in Time /\ call[c].limit \in Nat
  BY <1>1 DEF CallType
<1> QED
  BY <1>1, <1>2, RefilledType DEF Ready

LEMMA TakeKeeps ==
    ASSUME IInv, NEW c \in Caller, TakeBlocked(c) \/ TakeDeny(c) \/ TakeGrant(c)
    PROVE  IInv'
<1>1. pc[c] = "take"
  BY DEF TakeBlocked, TakeDeny, TakeGrant
<1>2. heap[ptr[c]] \in BucketType /\ Ready(c) \in BucketType /\ call[c].now \in Time
  BY <1>1, ReadyType DEF CallType
<1>3. CASE TakeBlocked(c)
  <2>1. Touched(heap[ptr[c]], call[c].now) \in BucketType
    BY <1>2, OperationsType
  <2> QED
    BY <1>1, <1>3, <2>1, NothingType, LeaveKeeps DEF TakeBlocked
<1>4. CASE TakeDeny(c)
  BY <1>1, <1>2, <1>4, NothingType, LeaveKeeps DEF TakeDeny
<1>5. CASE TakeGrant(c)
  <2> DEFINE locals == [NoCall EXCEPT !.op = "allow", !.key = call[c].key]
  <2>1. Spent(Ready(c)) \in BucketType
    BY <1>2, <1>5, TokenType DEF TakeGrant, Affordable, Spent, BucketType
  <2>2. locals \in CallType /\ locals.key = call[c].key
    BY DEF IInv, TypeOK, NoCall, CallType, Time
  <2>3. Leave(c, Spent(Ready(c)), "granted", locals)
    BY <1>5 DEF TakeGrant
  <2> HIDE DEF locals
  <2> QED
    BY <1>1, <2>1, <2>2, <2>3, LeaveKeeps
<1> QED
  BY <1>3, <1>4, <1>5

LEMMA WriteKeeps ==
    ASSUME IInv, NEW c \in Caller, Write(c)
    PROVE  IInv'
<1> DEFINE seen == Observed(heap[ptr[c]], call[c].now, call[c].header, call[c].retry)
           locals == [NoCall EXCEPT !.op = "refund", !.key = call[c].key]
<1>1. pc[c] = "write" /\ call[c] \in CallType
  BY DEF Write, IInv, TypeOK
<1>2. seen \in BucketType
  <2>1. heap[ptr[c]] \in BucketType
    BY <1>1, InSection DEF IInv
  <2>2. call[c].now \in Time /\ call[c].header \in Nat /\ call[c].retry \in Nat
    BY <1>1 DEF CallType
  <2> QED
    BY <2>1, <2>2, OperationsType
<1>3. locals \in CallType /\ locals.key = call[c].key
  BY <1>1 DEF NoCall, CallType, Time
<1>4. Leave(c, seen, "find", locals) \/ Leave(c, seen, "idle", NoCall)
  BY DEF Write
<1> HIDE DEF seen, locals
<1> QED
  BY <1>1, <1>2, <1>3, <1>4, NothingType, LeaveKeeps

LEMMA FindKeeps ==
    ASSUME IInv, NEW c \in Caller, Find(c)
    PROVE  IInv'
<1> USE DEF IInv
<1>1. pc[c] = "find" /\ ptr[c] = Nil
  BY DEF Find, LockInv
<1>2. CASE call[c].key \in Mapped
  <2> USE <1>2 DEF Find
  <2>1. Mapped' = Mapped
    BY DEF Mapped
  <2>2. buckets[call[c].key] \in BucketId /\ Nil \notin BucketId
    BY LimiterAssumption DEF TypeOK, Mapped
  <2>3. TypeOK'
    BY <2>2 DEF TypeOK, Places
  <2>4. LockInv'
    BY <1>1, <2>1, <2>2 DEF LockInv, TypeOK
  <2>5. BucketMapBounded'
    BY <2>1 DEF BucketMapBounded
  <2>6. Working'
    BY <1>1 DEF Working, TypeOK, Gated
  <2>7. Sweeping'
    BY <1>1, <2>1 DEF Sweeping, TypeOK, Full
  <2> QED
    BY <2>3, <2>4, <2>5, <2>6, <2>7
<1>3. CASE call[c].key \notin Mapped
  <2>1. "idle" \in Places
    BY DEF Places
  <2> QED
    BY <1>1, <1>3, <2>1, NothingType, MoveKeeps DEF Find
<1> QED
  BY <1>2, <1>3

LEMMA GiveKeeps ==
    ASSUME IInv, NEW c \in Caller, Give(c)
    PROVE  IInv'
<1>1. pc[c] = "give" /\ heap[ptr[c]] \in BucketType
  BY InSection DEF Give, IInv
<1>2. Refunded(heap[ptr[c]]) \in BucketType
  BY <1>1, TokenType DEF Refunded, Lesser, BucketType
<1> QED
  BY <1>1, <1>2, NothingType, LeaveKeeps DEF Give

\* The janitor's steps.
LEMMA CollectKeeps ==
    ASSUME IInv, GCLock \/ Collect
    PROVE  IInv'
<1> USE DEF IInv
<1>1. gc \in GCType /\ Nil \notin BucketId \union Key /\ Free # Janitor
  BY LimiterAssumption DEF TypeOK
<1>2. CASE GCStart
  <2> USE <1>2 DEF GCStart
  <2>1. Mapped' = Mapped
    BY DEF Mapped
  <2>2. TypeOK'
    BY <1>1 DEF TypeOK, GCType
  <2>3. LockInv'
    BY <1>1, <2>1 DEF LockInv, GCType
  <2> QED
    BY <1>1, <2>1, <2>2, <2>3 DEF BucketMapBounded, Working, Sweeping, Full, Gated, GCType
<1>3. CASE GCLock
  <2> USE <1>3 DEF GCLock
  <2>1. Mapped' = Mapped /\ Mapped \in SUBSET Key
    BY DEF Mapped
  <2>2. TypeOK'
    BY <1>1, <2>1 DEF TypeOK, GCType
  <2>3. gc.doomed = Nil
    BY <1>1 DEF LockInv
  <2>4. LockInv'
    BY <1>1, <2>1, <2>3, LimiterAssumption DEF LockInv, GCType, TypeOK
  <2> QED
    BY <1>1, <2>1, <2>2, <2>3, <2>4, LimiterAssumption
    DEF BucketMapBounded, Working, Sweeping, Full, Gated, GCType, Mapped
<1>4. ASSUME NEW k \in Key, GCVisit(k) PROVE IInv'
  <2> USE <1>4 DEF GCVisit
  <2>1. Mapped' = Mapped
    BY DEF Mapped
  <2>2. TypeOK'
    BY <1>1 DEF TypeOK, GCType
  <2>3. k \in Mapped /\ lmu = Janitor /\ gc.doomed = Nil
    BY <1>1 DEF LockInv
  <2>4. LockInv'
    BY <1>1, <2>1, <2>3 DEF LockInv, GCType
  <2> QED
    BY <1>1, <2>1, <2>2, <2>3, <2>4 DEF BucketMapBounded, Working, Sweeping, Full, Gated, GCType
<1>5. CASE GCDrop
  <2> USE <1>5 DEF GCDrop
  <2>1. gc.doomed \in Mapped /\ lmu = Janitor /\ scan = NoScan
    BY LimiterAssumption DEF LockInv, Sweeping
  <2>2. Mapped' = Mapped \ {gc.doomed}
    BY <1>1, <2>1 DEF Mapped, TypeOK
  <2>3. TypeOK'
    <3>1. heap' \in [BucketId -> BucketType]
      BY SweptType DEF TypeOK
    <3> QED
      BY <1>1, <3>1 DEF TypeOK, GCType
  <2>4. LockInv'
    BY <1>1, <2>1, <2>2 DEF LockInv, Sweeping, GCType, NoScan
  <2>5. BucketMapBounded'
    <3>1. Cardinality(Mapped \ {gc.doomed}) = Cardinality(Mapped) - 1
      BY <2>1, MappedFinite, FS_RemoveElement
    <3> QED
      BY <2>2, <3>1, MappedFinite, LimiterAssumption DEF BucketMapBounded
  <2>6. Working' /\ Sweeping'
    BY <1>1, <2>1, LimiterAssumption DEF Working, Sweeping, Gated, GCType, LockInv
  <2> QED
    BY <2>3, <2>4, <2>5, <2>6
<1>6. CASE GCUnlock
  <2> USE <1>6 DEF GCUnlock
  <2>1. Mapped' = Mapped
    BY DEF Mapped
  <2>2. lmu = Janitor /\ scan = NoScan
    BY LimiterAssumption DEF LockInv, Sweeping
  <2>3. TypeOK'
    BY NothingType DEF TypeOK
  <2>4. LockInv'
    BY <1>1, <2>1, <2>2, LimiterAssumption DEF LockInv, NoGC, NoScan, TypeOK
  <2> QED
    BY <2>1, <2>2, <2>3, <2>4, LimiterAssumption
    DEF BucketMapBounded, Working, Sweeping, Full, Gated, NoGC, LockInv
<1> QED
  BY <1>2, <1>3, <1>4, <1>5, <1>6 DEF Collect

(***************************************************************************)
(* The theorems.                                                           *)
(***************************************************************************)

\* Every step of the limiter keeps the invariant.
LEMMA NextKeeps == IInv /\ [Next]_vars => IInv'
<1> SUFFICES ASSUME IInv, [Next]_vars PROVE IInv'
  OBVIOUS
<1>1. CASE Tick
  BY <1>1, TickKeeps
<1>2. ASSUME NEW c \in Caller, NEW k \in Key, CallAllow(c, k) PROVE IInv'
  BY <1>2, CallAllowKeeps
<1>3. ASSUME NEW c \in Caller, Acquire(c) PROVE IInv'
  BY <1>3, LookupHitKeeps, LookupCreateKeeps, LookupFullKeeps, FindKeeps DEF Acquire
<1>4. ASSUME NEW c \in Caller, Proceed(c) PROVE IInv'
  BY <1>4, EvictVisitKeeps, EvictCommitKeeps, ReadLimitKeeps, TakeKeeps, WriteKeeps, GiveKeeps
  DEF Proceed
<1>5. ASSUME NEW c \in Caller, Respond(c) PROVE IInv'
  BY <1>5, SettleKeeps, FailKeeps DEF Respond
<1>6. CASE GCLock \/ Collect
  BY <1>6, CollectKeeps
<1>7. CASE UNCHANGED vars
  <2> USE <1>7 DEF vars
  <2>1. Mapped' = Mapped
    BY DEF Mapped
  <2>2. TypeOK' /\ LockInv'
    BY <2>1 DEF IInv, TypeOK, LockInv
  <2> QED
    BY <2>1, <2>2 DEF IInv, BucketMapBounded, Working, Sweeping, Full, Gated
<1> QED
  BY <1>1, <1>2, <1>3, <1>4, <1>5, <1>6, <1>7 DEF Next

\* The limiter's invariant holds for any number of goroutines, keys and buckets.
THEOREM Invariance == Spec => []IInv
<1>1. Init => IInv
  BY InitKeeps
<1>2. IInv /\ [Next]_vars => IInv'
  BY NextKeeps
<1> QED
  BY <1>1, <1>2, PTL DEF Spec

\* The types of the limiter's state; in particular no bucket is ever overdrawn,
\* however the calls of many goroutines interleave (bucket.allow and refund).
THEOREM TypeCorrect == Spec => []TypeOK
<1>1. IInv => TypeOK
  BY DEF IInv
<1> QED
  BY <1>1, Invariance, PTL

\* Eviction and GC exclude each other and every other use of the map (Limiter.mu).
THEOREM MutualExclusion == Spec => []LockInv
<1>1. IInv => LockInv
  BY DEF IInv
<1> QED
  BY <1>1, Invariance, PTL

\* The map never holds more than maxBuckets buckets (getBucket, evictLocked).
THEOREM MapBounded == Spec => []BucketMapBounded
<1>1. IInv => BucketMapBounded
  BY DEF IInv
<1> QED
  BY <1>1, Invariance, PTL

(***************************************************************************)
(* Time.                                                                   *)
(***************************************************************************)

\* An operation sets a bucket's time to a clock reading or leaves it.
LEMMA LastOf ==
    ASSUME NEW b \in BucketType, NEW now \in Time, NEW limit \in Nat
    PROVE  /\ Refilled(b, now, limit).last \in {b.last, now}
           /\ Spent(b).last = b.last
           /\ Touched(b, now).last = b.last
           /\ Refunded(b).last = b.last
           /\ \A h, r \in Nat : Observed(b, now, h, r).last = b.last
           /\ NewBucket(now).last = 0
  BY DEF Refilled, Started, Spent, Touched, Refunded, Observed, NewBucket, BucketType

\* A section on a bucket leaves it at its own time or at the caller's reading.
LEMMA LeaveClocked ==
    ASSUME IInv, Clocked, NEW c \in Caller, NEW b \in BucketType, NEW place, NEW locals,
           Leave(c, b, place, locals), pc[c] \in {"take", "write", "give"},
           b.last \in {heap[ptr[c]].last, call[c].now}, locals.now = 0
    PROVE  Clocked'
<1>1. ptr[c] \in BucketId /\ clock \in Nat /\ clock' = clock
  BY InSection DEF IInv, TypeOK, Time, Leave
<1>2. b.last <= clock
  BY <1>1 DEF Clocked
<1>3. ASSUME NEW a \in BucketId PROVE heap'[a].last <= clock
  <2>1. heap'[a] \in {NewBucket(0), b, heap[a]}
    BY <1>1 DEF Leave, Swept, IInv, TypeOK
  <2>2. NewBucket(0).last = 0
    BY DEF NewBucket
  <2> QED
    BY <1>1, <1>2, <2>1, <2>2 DEF Clocked
<1>4. ASSUME NEW d \in Caller PROVE call'[d].now <= clock
  BY <1>1 DEF Leave, Clocked, IInv, TypeOK
<1> QED
  BY <1>1, <1>3, <1>4 DEF Clocked

LEMMA ClockedKeeps == IInv /\ Clocked /\ [Next]_vars => Clocked'
<1> SUFFICES ASSUME IInv, Clocked, [Next]_vars PROVE Clocked'
  OBVIOUS
<1> USE DEF Clocked
<1>1. clock \in Nat /\ NewBucket(0).last = 0
  BY DEF IInv, TypeOK, Time, NewBucket
<1>2. CASE Tick
  BY <1>1, <1>2 DEF Tick, IInv, TypeOK, BucketType, CallType, Time
<1>3. ASSUME NEW c \in Caller, NEW k \in Key, CallAllow(c, k) PROVE Clocked'
  <2> DEFINE now == IF Gated(k) THEN clock ELSE 0
             locals == [NoCall EXCEPT !.op = "allow", !.key = k, !.now = now]
  <2>1. now <= clock
    BY <1>1
  <2> HIDE DEF now
  <2>2. locals.now = now
    BY DEF NoCall
  <2>3. call' = [call EXCEPT ![c] = locals] /\ UNCHANGED <<clock, heap>>
    BY <1>3 DEF CallAllow, now
  <2> HIDE DEF locals
  <2> QED
    BY <2>1, <2>2, <2>3 DEF IInv, TypeOK
<1>4. ASSUME NEW c \in Caller, Respond(c) PROVE Clocked'
  <2>1. ASSUME NEW h, NEW r, NEW refund, Settle(c, h, r, refund) PROVE Clocked'
    <3> DEFINE locals == [NoCall EXCEPT !.op = "observe", !.key = call[c].key, !.now = clock,
                                        !.header = h, !.retry = r, !.refund = refund]
    <3>1. NoCall.now = 0 /\ locals.now = clock
      BY DEF NoCall
    <3> HIDE DEF locals
    <3>2. /\ call' \in {[call EXCEPT ![c] = locals], [call EXCEPT ![c] = NoCall]}
          /\ UNCHANGED <<clock, heap>>
      BY <2>1 DEF Settle, locals
    <3> QED
      BY <1>1, <3>1, <3>2 DEF IInv, TypeOK
  <2>2. CASE Fail(c)
    <3>1. NoCall.now = 0 /\ call' = [call EXCEPT ![c] = NoCall] /\ UNCHANGED <<clock, heap>>
      BY <2>2 DEF Fail, NoCall
    <3> QED
      BY <1>1, <3>1 DEF IInv, TypeOK
  <2> QED
    BY <1>4, <2>1, <2>2 DEF Respond
<1>5. ASSUME NEW c \in Caller,
             LookupHit(c) \/ LookupFull(c) \/ \E k \in Key : EvictVisit(c, k)
      PROVE  Clocked'
  BY <1>5 DEF LookupHit, LookupFull, EvictVisit
<1>6. ASSUME NEW c \in Caller, Find(c) PROVE Clocked'
  BY <1>1, <1>6 DEF Find, NoCall, IInv, TypeOK
<1>7. ASSUME NEW c \in Caller, NEW b \in BucketId, LookupCreate(c, b) \/ EvictCommit(c, b)
      PROVE  Clocked'
  <2>1. \A a \in BucketId : heap'[a] \in {NewBucket(call[c].now), NewBucket(0), heap[a]}
    BY <1>7 DEF LookupCreate, EvictCommit, Swept, IInv, TypeOK
  <2>2. NewBucket(call[c].now).last = 0
    BY DEF NewBucket
  <2> QED
    BY <1>1, <1>7, <2>1, <2>2 DEF LookupCreate, EvictCommit
<1>8. ASSUME NEW c \in Caller, ReadLimit(c) PROVE Clocked'
  BY <1>8 DEF ReadLimit, IInv, TypeOK, CallType
<1>9. ASSUME NEW c \in Caller, TakeBlocked(c) \/ TakeDeny(c) \/ TakeGrant(c) PROVE Clocked'
  <2>1. pc[c] = "take"
    BY <1>9 DEF TakeBlocked, TakeDeny, TakeGrant
  <2>2. /\ heap[ptr[c]] \in BucketType /\ Ready(c) \in BucketType
        /\ call[c].now \in Time /\ call[c].limit \in Nat
    BY <2>1, ReadyType DEF CallType
  <2>3. Ready(c).last \in {heap[ptr[c]].last, call[c].now}
    BY <2>2, LastOf DEF Ready
  <2>4. NoCall.now = 0 /\ [NoCall EXCEPT !.op = "allow", !.key = call[c].key].now = 0
    BY DEF NoCall
  <2>5. CASE TakeBlocked(c)
    <3>1. /\ Touched(heap[ptr[c]], call[c].now) \in BucketType
          /\ Touched(heap[ptr[c]], call[c].now).last = heap[ptr[c]].last
      BY <2>2, LastOf DEF Touched, BucketType
    <3> QED
      BY <2>1, <2>4, <2>5, <3>1, LeaveClocked DEF TakeBlocked
  <2>6. CASE TakeDeny(c)
    BY <2>1, <2>2, <2>3, <2>4, <2>6, LeaveClocked DEF TakeDeny
  <2>7. CASE TakeGrant(c)
    <3>1. Spent(Ready(c)) \in BucketType /\ Spent(Ready(c)).last = Ready(c).last
      BY <2>2, <2>7, TokenType DEF TakeGrant, Affordable, Spent, BucketType
    <3> QED
      BY <2>1, <2>3, <2>4, <2>7, <3>1, LeaveClocked DEF TakeGrant
  <2> QED
    BY <1>9, <2>5, <2>6, <2>7
<1>10. ASSUME NEW c \in Caller, Write(c) PROVE Clocked'
  <2> DEFINE seen == Observed(heap[ptr[c]], call[c].now, call[c].header, call[c].retry)
  <2>1. pc[c] = "write" /\ heap[ptr[c]] \in BucketType /\ call[c] \in CallType
    BY <1>10, InSection DEF Write, IInv, TypeOK
  <2>2. seen \in BucketType /\ seen.last = heap[ptr[c]].last
    BY <2>1, OperationsType, LastOf DEF CallType
  <2>3. NoCall.now = 0 /\ [NoCall EXCEPT !.op = "refund", !.key = call[c].key].now = 0
    BY DEF NoCall
  <2>4. \/ Leave(c, seen, "find", [NoCall EXCEPT !.op = "refund", !.key = call[c].key])
        \/ Leave(c, seen, "idle", NoCall)
    BY <1>10 DEF Write
  <2> HIDE DEF seen
  <2> QED
    BY <2>1, <2>2, <2>3, <2>4, LeaveClocked
<1>11. ASSUME NEW c \in Caller, Give(c) PROVE Clocked'
  <2>1. pc[c] = "give" /\ heap[ptr[c]] \in BucketType
    BY <1>11, InSection DEF Give, IInv
  <2>2. Refunded(heap[ptr[c]]) \in BucketType /\ Refunded(heap[ptr[c]]).last = heap[ptr[c]].last
    BY <2>1, TokenType DEF Refunded, Lesser, BucketType
  <2> QED
    BY <1>11, <2>1, <2>2, LeaveClocked DEF Give, NoCall
<1>12. CASE GCLock \/ Collect
  <2>1. \A a \in BucketId : heap'[a] \in {NewBucket(0), heap[a]}
    BY <1>12 DEF GCLock, Collect, GCStart, GCVisit, GCDrop, GCUnlock, Swept, IInv, TypeOK
  <2>2. UNCHANGED <<clock, call>>
    BY <1>12 DEF GCLock, Collect, GCStart, GCVisit, GCDrop, GCUnlock
  <2> QED
    BY <1>1, <2>1, <2>2
<1>13. CASE UNCHANGED vars
  BY <1>13 DEF vars
<1> QED
  BY <1>2, <1>3, <1>4, <1>5, <1>6, <1>7, <1>8, <1>9, <1>10, <1>11, <1>12, <1>13
  DEF Next, Acquire, Proceed

LEMMA ClockedInit == Init => Clocked
  BY DEF Init, Clocked, NewBucket, NoCall

\* No goroutine and no bucket is ahead of the clock (time.Now's monotonic reading).
THEOREM NeverAhead == Spec => []Clocked
<1>1. Init => IInv /\ Clocked
  BY InitKeeps, ClockedInit
<1>2. IInv /\ Clocked /\ [Next]_vars => (IInv /\ Clocked)'
  BY NextKeeps, ClockedKeeps
<1> QED
  BY <1>1, <1>2, PTL DEF Spec

(***************************************************************************)
(* The addresses suffice: one for each bucket the map can have, and one    *)
(* for each goroutine that still holds a bucket the map has lost.          *)
(***************************************************************************)
LEMMA FewValues ==
    ASSUME NEW S, IsFiniteSet(S), NEW f, f = [s \in S |-> f[s]]
    PROVE  /\ IsFiniteSet({f[s] : s \in S})
           /\ Cardinality({f[s] : s \in S}) <= Cardinality(S)
<1> DEFINE T == {f[s] : s \in S}
<1>1. f \in Surjection(S, T)
  BY DEF Surjection
<1> HIDE DEF T
<1>2. IsFiniteSet(T) /\ Cardinality(T) <= Cardinality(S)
  BY <1>1, FS_Surjection
<1> QED
  BY <1>2 DEF T

LEMMA AddressLeft ==
    ASSUME IInv, NEW c \in Caller, pc[c] \in {"lookup", "evict"}
    PROVE  Fresh # {}
<1> DEFINE held == [k \in Mapped |-> buckets[k]]
           others == Caller \ {c}
           kept == [d \in others |-> ptr[d]]
           M == {held[k] : k \in Mapped}
           P == {kept[d] : d \in others}
<1>1. ptr[c] = Nil /\ Nil \notin BucketId
  BY LimiterAssumption DEF IInv, LockInv
<1>2. BucketId \ (M \union P) \subseteq Fresh
  BY <1>1 DEF Fresh, Live, Mapped
<1>3. IsFiniteSet(M) /\ Cardinality(M) <= MaxBuckets /\ Cardinality(M) \in Nat
  <2>1. IsFiniteSet(M) /\ Cardinality(M) <= Cardinality(Mapped)
    BY MappedFinite, FewValues
  <2> HIDE DEF M
  <2> QED
    BY <2>1, MappedFinite, LimiterAssumption, FS_CardinalityType DEF IInv, BucketMapBounded
<1>4. IsFiniteSet(others) /\ Cardinality(others) = Cardinality(Caller) - 1 /\ Cardinality(Caller) \in Nat
  BY LimiterAssumption, FS_RemoveElement, FS_CardinalityType
<1>5. IsFiniteSet(P) /\ Cardinality(P) < Cardinality(Caller) /\ Cardinality(P) \in Nat
  <2>1. IsFiniteSet(P) /\ Cardinality(P) <= Cardinality(others)
    BY <1>4, FewValues
  <2> HIDE DEF P, others
  <2> QED
    BY <1>4, <2>1, FS_CardinalityType
<1> HIDE DEF M, P
<1>6. IsFiniteSet(M \union P) /\ Cardinality(M \union P) < MaxBuckets + Cardinality(Caller)
  <2>1. IsFiniteSet(M \cap P) /\ Cardinality(M \cap P) \in Nat
    BY <1>3, FS_Subset, FS_CardinalityType
  <2>2. /\ IsFiniteSet(M \union P)
        /\ Cardinality(M \union P) = Cardinality(M) + Cardinality(P) - Cardinality(M \cap P)
    BY <1>3, <1>5, FS_Union
  <2>3. MaxBuckets \in Nat
    BY LimiterAssumption
  <2> QED
    BY <1>3, <1>4, <1>5, <2>1, <2>2, <2>3
<1>7. ASSUME BucketId \subseteq M \union P PROVE FALSE
  <2>1. Cardinality(BucketId) <= Cardinality(M \union P)
    BY <1>6, <1>7, FS_Subset
  <2> QED
    BY <1>4, <1>6, <2>1, LimiterAssumption, FS_CardinalityType
<1> QED
  BY <1>2, <1>7

\* The addresses of the model never run out, so that a goroutine in getBucket
\* is never kept from creating its bucket by anything but the code's own
\* conditions, as in Go, where new(bucket) succeeds.
THEOREM AllocationSucceeds ==
    Spec => [](\A c \in Caller : pc[c] \in {"lookup", "evict"} => Fresh # {})
<1>1. IInv => \A c \in Caller : pc[c] \in {"lookup", "evict"} => Fresh # {}
  BY AddressLeft
<1> QED
  BY <1>1, Invariance, PTL

(***************************************************************************)
(* Who shares the limiter with fewer others than it has buckets for.       *)
(***************************************************************************)
LEMMA RoomForOneMore ==
    ASSUME Cardinality(Key) <= MaxBuckets, NEW k \in Key \ Mapped
    PROVE  ~Full
<1>1. Mapped \in SUBSET (Key \ {k})
  BY DEF Mapped
<1>2. IsFiniteSet(Key \ {k}) /\ Cardinality(Key \ {k}) = Cardinality(Key) - 1
  BY KeyFinite, FS_RemoveElement
<1>3. Cardinality(Mapped) <= Cardinality(Key) - 1
  BY <1>1, <1>2, FS_Subset
<1>4. Cardinality(Key) \in Nat /\ MaxBuckets \in Nat
  BY KeyFinite, FS_CardinalityType, LimiterAssumption
<1> QED
  BY <1>3, <1>4, MappedFinite DEF Full

\* While there are no more pairs of client and group than maxBuckets, getBucket
\* never evicts: no client's tokens, limit or block are lost to another client's
\* request, whatever GC collects meanwhile.
THEOREM NoEvictionWithRoom ==
    Cardinality(Key) <= MaxBuckets => (Spec => [](\A c \in Caller : pc[c] # "evict"))
<1> SUFFICES ASSUME Cardinality(Key) <= MaxBuckets
             PROVE  Spec => [](\A c \in Caller : pc[c] # "evict")
  OBVIOUS
<1>1. IInv => \A c \in Caller : pc[c] # "evict"
  <2> SUFFICES ASSUME IInv, NEW c \in Caller, pc[c] = "evict" PROVE FALSE
    OBVIOUS
  <2>1. call[c].key \in Key \ Mapped /\ Full
    BY DEF IInv, Working, Sweeping
  <2> QED
    BY <2>1, RoomForOneMore
<1> QED
  BY <1>1, Invariance, PTL

(***************************************************************************)
(* The long holds of the limiter's mutex end.                              *)
(***************************************************************************)
Sampled == Cardinality(scan.visited) <= SampleSize

LEMMA VisitedFinite ==
    ASSUME IInv
    PROVE  /\ IsFiniteSet(scan.visited) /\ Cardinality(scan.visited) \in Nat
           /\ scan.visited \subseteq Mapped
           /\ IsFiniteSet(gc.todo) /\ Cardinality(gc.todo) \in Nat
<1>1. scan.visited \in SUBSET Key /\ gc.todo \in SUBSET Key
  BY DEF IInv, TypeOK, ScanType, GCType
<1>2. scan.visited \subseteq Mapped
  <2>1. Nil \notin scan.visited
    BY <1>1, LimiterAssumption
  <2> QED
    BY <2>1 DEF IInv, LockInv
<1> QED
  BY <1>1, <1>2, KeyFinite, FS_Subset, FS_CardinalityType

LEMMA ScanMoves ==
    ASSUME [Next]_vars
    PROVE  \/ UNCHANGED scan
           \/ scan' = NoScan /\ (lmu = Free \/ lmu' = Free)
           \/ \E c \in Caller, k \in Key : EvictVisit(c, k)
<1>1. ASSUME NEW c \in Caller, Acquire(c)
      PROVE  UNCHANGED scan \/ (scan' = NoScan /\ (lmu = Free \/ lmu' = Free))
  BY <1>1 DEF Acquire, LookupHit, LookupCreate, LookupFull, Find
<1>2. ASSUME NEW c \in Caller, (\E k \in Key : CallAllow(c, k)) \/ Respond(c) PROVE UNCHANGED scan
  BY <1>2 DEF CallAllow, Respond, Settle, Fail
<1>3. ASSUME NEW c \in Caller, Proceed(c), \A k \in Key : ~EvictVisit(c, k)
      PROVE  UNCHANGED scan \/ (scan' = NoScan /\ (lmu = Free \/ lmu' = Free))
  BY <1>3 DEF Proceed, EvictCommit, ReadLimit, TakeBlocked, TakeGrant, TakeDeny, Write, Give, Leave
<1>4. Tick \/ GCLock \/ Collect => UNCHANGED scan
  BY DEF Tick, GCLock, Collect, GCStart, GCVisit, GCDrop, GCUnlock
<1> QED
  BY <1>1, <1>2, <1>3, <1>4 DEF Next, vars

LEMMA JanitorMoves ==
    ASSUME [Next]_vars
    PROVE  UNCHANGED gc \/ GCLock \/ Collect
<1>1. ASSUME NEW c \in Caller, (\E k \in Key : CallAllow(c, k)) \/ Acquire(c) \/ Respond(c)
      PROVE  UNCHANGED gc
  BY <1>1 DEF CallAllow, Acquire, LookupHit, LookupCreate, LookupFull, Find, Respond, Settle, Fail
<1>2. ASSUME NEW c \in Caller, Proceed(c) PROVE UNCHANGED gc
  <2>1. ASSUME NEW k \in Key, EvictVisit(c, k) PROVE UNCHANGED gc
    BY <2>1, Zenon DEF EvictVisit
  <2> QED
    BY <1>2, <2>1 DEF Proceed, EvictCommit, ReadLimit, TakeBlocked, TakeGrant, TakeDeny, Write,
                      Give, Leave
<1> QED
  BY <1>1, <1>2 DEF Next, Tick, vars

\* A visit adds one key to the sample.
LEMMA VisitCounts ==
    ASSUME IInv, NEW c \in Caller, NEW k \in Key, EvictVisit(c, k)
    PROVE  /\ Cardinality(scan'.visited) = Cardinality(scan.visited) + 1
           /\ Cardinality(scan.visited) < SampleSize
<1>1. scan'.visited = scan.visited \union {k} /\ k \notin scan.visited
  <2> DEFINE b == heap[buckets[k]]
             grown == scan.visited \union {k}
  <2>1. \/ scan' = [scan EXCEPT !.visited = @ \union {k}, !.blocked = k, !.soonest = b.blockedUntil]
        \/ scan' = [scan EXCEPT !.visited = @ \union {k}, !.victim = k, !.oldest = b.lastSeen]
        \/ scan' = [scan EXCEPT !.visited = @ \union {k}]
    BY Zenon DEF EvictVisit
  <2>2. scan \in ScanType
    BY DEF IInv, TypeOK
  <2>3. k \notin scan.visited
    BY Zenon DEF EvictVisit
  <2> QED
    BY <2>1, <2>2, <2>3 DEF ScanType
<1>2. Cardinality(scan.visited) < SampleSize
  BY Zenon DEF EvictVisit
<1> QED
  BY <1>1, <1>2, VisitedFinite, FS_AddElement

LEMMA SampledNext ==
    ASSUME IInv, Sampled, [Next]_vars
    PROVE  Sampled'
<1>1. SampleSize \in Nat \ {0} /\ Cardinality(scan.visited) \in Nat
  BY LimiterAssumption, VisitedFinite
<1>2. CASE scan' = NoScan
  BY <1>1, <1>2, FS_EmptySet DEF NoScan, Sampled
<1>3. ASSUME NEW c \in Caller, NEW k \in Key, EvictVisit(c, k) PROVE Sampled'
  BY <1>1, <1>3, VisitCounts DEF Sampled
<1>4. CASE UNCHANGED scan
  BY <1>4 DEF Sampled
<1> QED
  BY <1>2, <1>3, <1>4, ScanMoves

LEMMA SampledInvariance == Spec => [](IInv /\ Sampled)
<1>1. Init => Sampled
  BY FS_EmptySet, LimiterAssumption DEF Init, NoScan, Sampled
<1>2. IInv /\ Sampled /\ [Next]_vars => Sampled'
  BY SampledNext
<1> QED
  BY <1>1, <1>2, Invariance, PTL DEF Spec

\* Nobody waits for a mutex whose holder waits too (getBucket, evictLocked, GC):
\* an eviction has a bucket left to read or a victim to delete, and a sweep a key
\* to judge, a bucket to delete or its end.
THEOREM HolderMoves == Spec => []HolderCanGoOn
<1>1. IInv /\ Sampled => HolderCanGoOn
  <2> SUFFICES ASSUME IInv, Sampled PROVE HolderCanGoOn
    OBVIOUS
  <2>1. lmu = Janitor => gc.pc = "scan" \/ (gc.pc = "drop" /\ gc.doomed \in Mapped)
    BY DEF IInv, LockInv
  <2>2. ASSUME lmu \in Caller, ~(Cardinality(scan.visited) < SampleSize /\ ~(Mapped \subseteq scan.visited))
        PROVE  /\ scan.visited = Mapped \/ Cardinality(scan.visited) = SampleSize
               /\ Victim \in Mapped /\ Fresh # {}
    <3>1. pc[lmu] = "evict" /\ Full
      BY <2>2 DEF IInv, LockInv, Sweeping
    <3>2. Fresh # {}
      BY <2>2, <3>1, AddressLeft
    <3>3. SampleSize \in Nat \ {0} /\ MaxBuckets \in Nat \ {0} /\ Cardinality({}) = 0
      BY LimiterAssumption, FS_EmptySet
    <3>4. scan.visited = Mapped \/ Cardinality(scan.visited) = SampleSize
      BY <2>2, <3>3, VisitedFinite DEF Sampled
    <3>5. scan.visited # {}
      BY <3>1, <3>3, <3>4 DEF Full
    <3>6. Victim \in Mapped
      BY <3>5 DEF Victim, IInv, Sweeping, LockInv
    <3> QED
      BY <3>2, <3>4, <3>6
  <2> QED
    BY <2>1, <2>2 DEF HolderCanGoOn
<1> QED
  BY <1>1, SampledInvariance, PTL

\* Each step of the mutex's holder leaves it fewer, and no other goroutine's step
\* gives it more: an eviction reads at most SampleSize buckets (limiter.go:180),
\* and GC judges each bucket once, for any number of buckets and goroutines.
THEOREM HoldsEnd == Spec => SweepAdvances
<1>1. ASSUME IInv, Sampled, [Next]_vars, lmu # Free, lmu' = lmu
      PROVE  IF Held' = Held THEN Left' = Left ELSE Left' \in 0 .. Left - 1
  <2>1. CASE lmu = Janitor
    <3>1. Held' = gc' /\ Held = gc
      BY <1>1, <2>1 DEF Held
    <3>2. gc' = gc => Left' = Left
      BY <1>1, <2>1 DEF Left
    <3>3. ASSUME gc' # gc PROVE Left' \in 0 .. Left - 1
      <4> DEFINE n == Cardinality(gc.todo)
      <4>0. n \in Nat /\ gc \in GCType /\ gc.pc \in {"scan", "drop"} /\ IsFiniteSet(gc.todo)
        BY <1>1, <2>1, VisitedFinite DEF IInv, TypeOK, LockInv
      <4>1. Left = 2 * n + (IF gc.pc = "drop" THEN 1 ELSE 0)
        BY <2>1 DEF Left
      <4>2. Left' = 2 * Cardinality(gc'.todo) + (IF gc'.pc = "drop" THEN 1 ELSE 0)
        BY <1>1, <2>1 DEF Left
      <4>3. (\E k \in Key : GCVisit(k)) \/ GCDrop
        BY <1>1, <2>1, <3>3, <4>0, JanitorMoves DEF GCLock, Collect, GCStart, GCUnlock
      <4>4. ASSUME NEW k \in Key, GCVisit(k) PROVE Left' \in 0 .. Left - 1
        <5>1. gc.pc = "scan" /\ k \in gc.todo
          BY <4>4, Zenon DEF GCVisit
        <5>2. \/ gc' = [gc EXCEPT !.pc = "drop", !.todo = @ \ {k}, !.doomed = k]
              \/ gc' = [gc EXCEPT !.todo = @ \ {k}]
          BY <4>4, Zenon DEF GCVisit
        <5>3. gc'.todo = gc.todo \ {k}
          BY <4>0, <5>2 DEF GCType
        <5>4. Cardinality(gc'.todo) = n - 1
          BY <4>0, <5>1, <5>3, FS_RemoveElement
        <5>5. Cardinality(gc'.todo) \in Nat
          BY <4>0, <5>3, FS_RemoveElement, FS_CardinalityType
        <5> HIDE DEF n
        <5> QED
          BY <4>0, <4>1, <4>2, <5>1, <5>4, <5>5
      <4>5. CASE GCDrop
        <5>1. gc'.todo = gc.todo /\ gc'.pc = "scan" /\ gc.pc = "drop"
          BY <4>0, <4>5 DEF GCDrop, GCType
        <5> QED
          BY <4>0, <4>1, <4>2, <5>1
      <4> QED
        BY <4>3, <4>4, <4>5
    <3> QED
      BY <3>1, <3>2, <3>3
  <2>2. CASE lmu # Janitor
    <3>1. Held' = scan' /\ Held = scan
      BY <1>1, <2>2 DEF Held
    <3>2. Left = SampleSize - Cardinality(scan.visited) /\ Left' = SampleSize - Cardinality(scan'.visited)
      BY <1>1, <2>2 DEF Left
    <3>3. ASSUME scan' # scan PROVE Left' \in 0 .. Left - 1
      <4>1. PICK c \in Caller, k \in Key : EvictVisit(c, k)
        BY <1>1, <3>3, ScanMoves
      <4> QED
        BY <1>1, <3>2, <4>1, VisitCounts, VisitedFinite, LimiterAssumption
    <3> QED
      BY <3>1, <3>2, <3>3
  <2> QED
    BY <2>1, <2>2
<1>2. IInv /\ Sampled /\ [Next]_vars =>
        [lmu # Free /\ lmu' = lmu =>
           IF Held' = Held THEN Left' = Left ELSE Left' \in 0 .. Left - 1]_vars
  BY <1>1
<1> QED
  BY <1>2, SampledInvariance, PTL DEF Spec, SweepAdvances

=============================================================================
