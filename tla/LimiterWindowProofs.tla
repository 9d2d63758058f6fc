------------------------- MODULE LimiterWindowProofs -------------------------
(***************************************************************************)
(* What a bucket guarantees, proved for any number of goroutines, any      *)
(* limits and any window.                                                  *)
(***************************************************************************)
EXTENDS LimiterWindow, LimiterProofs

(***************************************************************************)
(* One bucket: what its operations make of a bucket b that is Within.      *)
(***************************************************************************)

\* allow's refill adds what the window's limit adds, as far as it falls in the window.
LEMMA RefilledWithin ==
    ASSUME NEW b \in BucketType, NEW now \in Time, NEW limit \in Nat, NEW u \in Int,
           NEW w \in Windows, NEW l \in Nat, Within(b, u, w, l), In(now, w) => limit <= l
    PROVE  Within(Refilled(b, now, limit), u, w, l)
<1> DEFINE r == Refilled(b, now, limit)
           spent == u * Token
<1>1. w[1] \in Nat \ {0} /\ w[2] \in Nat /\ w[1] <= w[2]
  BY WindowAssumption
<1>2. Burst(l) \in Nat /\ Burst(limit) \in Nat /\ spent \in Int /\ (u = 0 => spent = 0)
  BY BurstType, TokenType
<1>3. r \in BucketType
  BY RefilledType
<1>4. l * (w[2] - w[1]) \in Nat
  BY <1>1, ProductNat
<1>5. CASE r.last = b.last /\ r.tokens = b.tokens
  BY <1>5 DEF Within
<1>6. CASE b.last < w[1] /\ r.last = now /\ r.tokens <= Burst(limit)
  <2>1. u = 0 /\ spent = 0
    BY <1>2, <1>6 DEF Within
  <2>2. ASSUME In(now, w)
        PROVE  spent + r.tokens <= Burst(l) + l * (now - w[1])
    <3>1. Burst(limit) <= Burst(l)
      BY <2>2, BurstMono
    <3> DEFINE added == l * (now - w[1])
    <3>2. added \in Nat
      BY <1>1, <2>2, ProductNat DEF In, Time
    <3> HIDE DEF spent, added
    <3>3. r.tokens <= Burst(l) + added
      BY <1>2, <1>3, <1>6, <3>1, <3>2 DEF BucketType
    <3>4. spent + r.tokens <= Burst(l) + added
      BY <1>2, <1>3, <2>1, <3>2, <3>3 DEF BucketType
    <3> QED
      BY <3>4 DEF added
  <2> QED
    BY <1>2, <1>4, <1>6, <2>1, <2>2 DEF Within
<1>7. CASE /\ w[1] <= b.last /\ b.last < now /\ r.last = now
           /\ r.tokens = Lesser(b.tokens + (now - b.last) * limit, Burst(limit))
  <2>1. b.last \in Nat /\ now \in Nat /\ b.tokens \in Nat
    BY DEF BucketType, Time
  <2>2. b.last <= w[2] => spent + b.tokens <= Burst(l) + l * (b.last - w[1])
    BY <1>1, <1>7, <2>1 DEF Within, In
  <2>3. ASSUME In(now, w)
        PROVE  spent + r.tokens <= Burst(l) + l * (now - w[1])
    <3>1. (now - b.last) * limit \in Nat /\ (now - b.last) * limit <= l * (now - b.last)
      BY <1>7, <2>1, <2>3, ProductNat, ProductMono
    <3>2. l * (now - w[1]) = l * (now - b.last) + l * (b.last - w[1])
      BY <1>1, <2>1
    <3>3. l * (now - b.last) \in Nat /\ l * (b.last - w[1]) \in Nat
      BY <1>1, <1>7, <2>1, ProductNat
    <3>4. r.tokens <= b.tokens + (now - b.last) * limit
      BY <1>2, <1>7, <2>1, <3>1 DEF Lesser
    <3>5. spent + b.tokens <= Burst(l) + l * (b.last - w[1])
      BY <1>1, <1>7, <2>1, <2>2, <2>3 DEF In
    <3> HIDE DEF spent
    <3> QED
      BY <1>2, <1>3, <2>1, <3>1, <3>2, <3>3, <3>4, <3>5 DEF BucketType
  <2>4. ASSUME now > w[2]
        PROVE  spent <= Burst(l) + l * (w[2] - w[1])
    <3>1. CASE b.last > w[2]
      BY <3>1 DEF Within
    <3>2. CASE b.last <= w[2]
      <4> DEFINE some == l * (b.last - w[1])
                 all  == l * (w[2] - w[1])
      <4>1. some <= all /\ some \in Nat /\ all \in Nat
        BY <1>1, <1>4, <1>7, <2>1, <3>2, ProductNat, ProductMono
      <4>2. spent + b.tokens <= Burst(l) + some
        BY <2>2, <3>2
      <4> HIDE DEF spent, some, all
      <4>3. spent <= Burst(l) + all
        BY <1>2, <2>1, <4>1, <4>2
      <4> QED
        BY <4>3 DEF all
    <3> QED
      BY <1>1, <2>1, <3>1, <3>2
  <2> QED
    BY <1>1, <1>7, <2>1, <2>3, <2>4 DEF Within
<1> QED
  <2>1. Lesser(b.tokens + (now - b.last) * limit, Burst(limit)) <= Burst(limit)
    BY <1>2 DEF Lesser, BucketType, Time
  <2>2. b.last \in Nat
    BY DEF BucketType, Time
  <2> QED
    BY <1>1, <1>2, <1>5, <1>6, <1>7, <2>1, <2>2, RefilledFields

\* A granted request moves Token from the tokens to the count.
LEMMA SpentWithin ==
    ASSUME NEW b \in BucketType, NEW u \in Int, NEW w \in Windows, NEW l \in Nat,
           Within(b, u, w, l)
    PROVE  Within(Spent(b), IF In(b.last, w) THEN u + 1 ELSE u, w, l)
<1>1. w[1] \in Nat \ {0} /\ w[2] \in Nat /\ b.last \in Nat /\ b.tokens \in Nat
  BY WindowAssumption DEF BucketType, Time
<1>2. (u + 1) * Token = u * Token + Token /\ u * Token \in Int /\ Token \in Nat
  BY TokenType
<1>3. Spent(b).last = b.last /\ Spent(b).tokens = b.tokens - Token
  BY DEF Spent, BucketType
<1>4. CASE In(b.last, w)
  <2>1. (u + 1) * Token + Spent(b).tokens = u * Token + b.tokens
    BY <1>1, <1>2, <1>3
  <2> QED
    BY <1>1, <1>3, <1>4, <2>1 DEF Within, In
<1>5. CASE ~In(b.last, w)
  BY <1>3, <1>5 DEF Within
<1> QED
  BY <1>4, <1>5

\* A refund moves it back, as far as the bucket's capacity allows.
LEMMA RefundedWithin ==
    ASSUME NEW b \in BucketType, NEW u \in Int, NEW w \in Windows, NEW l \in Nat,
           Within(b, u, w, l)
    PROVE  Within(Refunded(b), IF b.capacity > 0 /\ In(b.last, w) THEN u - 1 ELSE u, w, l)
<1>1. w[1] \in Nat \ {0} /\ w[2] \in Nat /\ b.last \in Nat /\ b.tokens \in Nat /\ b.capacity \in Nat
  BY WindowAssumption DEF BucketType, Time
<1>2. (u - 1) * Token = u * Token - Token /\ u * Token \in Int /\ Token \in Nat
  BY TokenType
<1>3. CASE b.capacity = 0
  BY <1>3 DEF Refunded
<1>4. CASE b.capacity > 0
  <2>1. Refunded(b).last = b.last /\ Refunded(b).tokens = Lesser(b.tokens + Token, b.capacity)
    BY <1>4 DEF Refunded, BucketType
  <2>2. Refunded(b).tokens \in Nat /\ Refunded(b).tokens <= b.tokens + Token
    BY <1>1, <1>2, <2>1 DEF Lesser
  <2>3. CASE In(b.last, w)
    <3>1. Burst(l) \in Nat /\ l * (b.last - w[1]) \in Int
      BY <1>1, BurstType
    <3>2. (u - 1) * Token + Refunded(b).tokens <= Burst(l) + l * (b.last - w[1])
      BY <1>1, <1>2, <2>2, <2>3, <3>1 DEF Within
    <3> QED
      BY <1>1, <1>4, <2>1, <2>3, <3>2 DEF Within, In
  <2>4. CASE ~In(b.last, w)
    BY <2>1, <2>4 DEF Within
  <2> QED
    BY <2>3, <2>4
<1> QED
  BY <1>1, <1>3, <1>4

\* A response takes tokens and gives none.
LEMMA ObservedWithin ==
    ASSUME NEW b \in BucketType, NEW now \in Time, NEW header \in Nat, NEW retry \in Nat,
           NEW u \in Int, NEW w \in Windows, NEW l \in Nat, Within(b, u, w, l)
    PROVE  /\ Within(Observed(b, now, header, retry), u, w, l)
           /\ Within(Touched(b, now), u, w, l)
<1> DEFINE o == Observed(b, now, header, retry)
<1>1. o.last = b.last /\ o.tokens = (IF retry > 0 THEN 0 ELSE b.tokens)
  BY DEF Observed, BucketType
<1>2. o.tokens \in Nat /\ o.tokens <= b.tokens
  BY <1>1 DEF BucketType
<1>3. Burst(l) \in Nat /\ l * (b.last - w[1]) \in Int /\ u * Token \in Int
  BY WindowAssumption, BurstType, TokenType DEF BucketType, Time
<1>4. Within(o, u, w, l)
  <2> HIDE DEF o
  <2> QED
    BY <1>1, <1>2, <1>3 DEF Within, BucketType
<1>5. Within(Touched(b, now), u, w, l)
  BY DEF Within, Touched, BucketType
<1> QED
  BY <1>4, <1>5

(***************************************************************************)
(* The history of the buckets through a step.                              *)
(***************************************************************************)

\* A step that allocates nothing: the map loses buckets or keeps them, and a
\* goroutine that has a bucket had it or took it from the map, under its key.
KeepsBuckets ==
    /\ \A k \in Key : buckets'[k] \in {buckets[k], Nil}
    /\ \A c \in Caller : ptr'[c] # Nil =>
         /\ call'[c].key = call[c].key
         /\ \/ ptr'[c] = ptr[c]
            \/ call[c].key \in Mapped /\ ptr'[c] = buckets[call[c].key]

\* A step that allocates bucket b for caller c.
MakesBucket(c, b) ==
    /\ b \in Fresh
    /\ buckets'[call[c].key] = b
    /\ \A k \in Key \ {call[c].key} : buckets'[k] \in {buckets[k], Nil}
    /\ ptr' = [ptr EXCEPT ![c] = b]
    /\ call' = call

\* Every bucket that lives on keeps the key it was made for.
LEMMA KeepsHomes ==
    ASSUME WInv, Record, KeepsBuckets
    PROVE  /\ OwnBucket'
           /\ home' \in [BucketId -> (Client \X Group) \union {Nil}]
           /\ \A b \in BucketId : home'[b] # Nil => home'[b] = home[b] /\ b \notin Fresh
<1> USE DEF WInv
<1>1. Nil \notin BucketId
  BY LimiterAssumption
<1>2. ASSUME NEW b \in BucketId, b \in Live(buckets', ptr')
      PROVE  b \notin Fresh /\ home'[b] = home[b]
  <2>1. b \in Live(buckets, ptr)
    BY <1>1, <1>2 DEF Live, KeepsBuckets, Mapped
  <2> QED
    BY <1>2, <2>1 DEF Record, Fresh
<1>3. \A b \in BucketId : home'[b] # Nil => home'[b] = home[b] /\ b \notin Fresh
  BY <1>2 DEF Record
<1>4. home' \in [BucketId -> (Client \X Group) \union {Nil}]
  BY <1>3 DEF Record, HistoryType
<1>5. ASSUME NEW k \in Key, buckets'[k] # Nil PROVE home'[buckets'[k]] = k
  <2>1. buckets'[k] = buckets[k] /\ buckets[k] \in BucketId /\ k \in Mapped
    BY <1>5 DEF KeepsBuckets, IInv, TypeOK, Mapped
  <2>2. buckets'[k] \in Live(buckets', ptr')
    BY DEF Live
  <2> QED
    BY <1>2, <2>1, <2>2 DEF OwnBucket
<1>6. ASSUME NEW c \in Caller, ptr'[c] # Nil PROVE home'[ptr'[c]] = call'[c].key
  <2>1. ptr'[c] \in BucketId /\ home[ptr'[c]] = call[c].key
    BY <1>1, <1>6 DEF KeepsBuckets, IInv, TypeOK, Mapped, OwnBucket
  <2>2. ptr'[c] \in Live(buckets', ptr')
    BY DEF Live
  <2> QED
    BY <1>2, <1>6, <2>1, <2>2 DEF KeepsBuckets
<1> QED
  BY <1>3, <1>4, <1>5, <1>6 DEF OwnBucket, Mapped

\* A new bucket belongs to the key it was made for: a fresh address is nowhere
\* else in the map, so Record's choice of a key has one answer.
LEMMA MakesHome ==
    ASSUME WInv, Record, NEW c \in Caller, NEW b \in BucketId, MakesBucket(c, b),
           call[c].key \in Key, Gated(call[c].key)
    PROVE  /\ OwnBucket'
           /\ home' \in [BucketId -> (Client \X Group) \union {Nil}]
           /\ \A a \in BucketId : home'[a] # Nil => a = b \/ (home'[a] = home[a] /\ a \notin Fresh)
<1> USE DEF WInv
<1> DEFINE key == call[c].key
<1>1. Nil \notin BucketId
  BY LimiterAssumption
<1>2. \A k \in Key : buckets'[k] = b <=> k = key
  BY <1>1 DEF MakesBucket, Fresh, Live
<1>3. home'[b] = key
  <2>1. b \in Live(buckets', ptr')
    BY <1>2 DEF Live
  <2>2. (CHOOSE k \in Key : buckets'[k] = b) = key
    BY <1>2
  <2> QED
    BY <2>1, <2>2 DEF Record, MakesBucket
<1>4. ASSUME NEW a \in BucketId, a # b, a \in Live(buckets', ptr')
      PROVE  a \notin Fresh /\ home'[a] = home[a]
  <2>1. a \in Live(buckets, ptr)
    BY <1>1, <1>4 DEF Live, MakesBucket, IInv, TypeOK
  <2> QED
    BY <1>4, <2>1 DEF Record, Fresh
<1>5. \A a \in BucketId : home'[a] # Nil => a = b \/ (home'[a] = home[a] /\ a \notin Fresh)
  BY <1>4 DEF Record
<1>6. key \in Client \X Group
  BY DEF Gated, Key
<1>7. home' \in [BucketId -> (Client \X Group) \union {Nil}]
  BY <1>3, <1>5, <1>6 DEF Record, HistoryType
<1>8. ASSUME NEW k \in Key, buckets'[k] # Nil PROVE home'[buckets'[k]] = k
  <2>1. CASE k = key
    BY <1>2, <1>3, <2>1
  <2>2. CASE k # key
    <3>1. buckets'[k] = buckets[k] /\ buckets[k] \in BucketId /\ k \in Mapped /\ buckets'[k] # b
      BY <1>2, <1>8, <2>2 DEF MakesBucket, IInv, TypeOK, Mapped
    <3>2. buckets'[k] \in Live(buckets', ptr')
      BY DEF Live
    <3> QED
      BY <1>4, <3>1, <3>2 DEF OwnBucket
  <2> QED
    BY <2>1, <2>2
<1>9. ASSUME NEW d \in Caller, ptr'[d] # Nil PROVE home'[ptr'[d]] = call'[d].key
  <2>1. CASE d = c
    BY <1>3, <2>1 DEF MakesBucket, IInv, TypeOK
  <2>2. CASE d # c
    <3>1. ptr'[d] = ptr[d] /\ ptr[d] \in BucketId /\ ptr[d] # b
      BY <1>9, <2>2 DEF MakesBucket, IInv, TypeOK, Fresh, Live
    <3>2. ptr'[d] \in Live(buckets', ptr')
      BY DEF Live
    <3> QED
      BY <1>4, <1>9, <3>1, <3>2 DEF OwnBucket, MakesBucket
  <2> QED
    BY <2>1, <2>2
<1> QED
  BY <1>5, <1>7, <1>8, <1>9 DEF OwnBucket, Mapped

(***************************************************************************)
(* The bound through a step.                                               *)
(***************************************************************************)

\* The limits the bound is about are numbers of requests.
LEMMA LimitsType ==
    ASSUME NEW g \in Group, NEW l \in GroupLimits(g)
    PROVE  l \in Nat
<1>1. Base[g] \in Nat /\ Peak[g] \in Nat
  BY GroupAssumption
<1>2. Base[g] * Ratio \in Nat /\ Peak[g] * Ratio \in Nat
  BY <1>1, RatioType, ProductNat
<1> QED
  BY <1>2 DEF GroupLimits

\* The record of grants keeps its type.
LEMMA CountType ==
    ASSUME HistoryType, Record
    PROVE  used' \in [BucketId -> Int] /\ window' \in Windows
  BY DEF HistoryType, Record

\* A new bucket has granted nothing and its time has not come.
LEMMA NewWithin ==
    ASSUME NEW now, NEW w \in Windows, NEW l
    PROVE  Within(NewBucket(now), 0, w, l)
<1>1. NewBucket(now).last = 0
  BY DEF NewBucket
<1>2. w[1] \in Nat \ {0} /\ w[2] \in Nat
  BY WindowAssumption
<1> QED
  BY <1>1, <1>2 DEF Within, In

\* A step in which no bucket changes keeps the invariant.
LEMMA QuietKeeps ==
    ASSUME WInv, IInv', Record, KeepsBuckets, LimitTaken',
           \A b \in BucketId : b \in Live(buckets', ptr') => heap'[b] = heap[b],
           \A c \in Caller : pc[c] \in {"take", "give"} => pc'[c] = pc[c]
    PROVE  WInv'
<1> USE DEF WInv
<1>1. HistoryType' /\ OwnBucket'
  BY KeepsHomes, CountType DEF HistoryType
<1>2. ASSUME NEW b \in BucketId, home'[b] # Nil
      PROVE  home'[b] = home[b] /\ heap'[b] = heap[b] /\ used'[b] = used[b]
  <2>1. home'[b] = home[b] /\ b \notin Fresh /\ b \in Live(buckets', ptr')
    BY <1>2, KeepsHomes DEF Record
  <2>2. \A c \in Caller : ~Granting(c) /\ ~Refunding(c)
    BY DEF Granting, Refunding
  <2> QED
    BY <2>1, <2>2 DEF Record
<1>3. WindowBound'
  BY <1>2 DEF WindowBound, Record
<1> QED
  BY <1>1, <1>3

\* A step that makes a bucket for a key, which has used none of it yet.
LEMMA MakeKeeps ==
    ASSUME WInv, IInv', Record, LimitTaken',
           NEW c \in Caller, NEW b \in BucketId, MakesBucket(c, b),
           call[c].key \in Key, Gated(call[c].key),
           heap'[b] = NewBucket(call[c].now),
           \A a \in BucketId : a # b /\ a \in Live(buckets', ptr') => heap'[a] = heap[a],
           \A d \in Caller : pc[d] \in {"take", "give"} => pc'[d] = pc[d]
    PROVE  WInv'
<1> USE DEF WInv
<1>1. HistoryType' /\ OwnBucket'
  BY MakesHome, CountType DEF HistoryType
<1>2. used'[b] = 0 /\ window' \in Windows /\ window' = window
  BY CountType DEF Record, MakesBucket
<1>3. ASSUME NEW a \in BucketId, a # b, home'[a] # Nil
      PROVE  home'[a] = home[a] /\ heap'[a] = heap[a] /\ used'[a] = used[a]
  <2>1. home'[a] = home[a] /\ a \notin Fresh /\ a \in Live(buckets', ptr')
    BY <1>3, MakesHome DEF Record
  <2>2. \A d \in Caller : ~Granting(d) /\ ~Refunding(d)
    BY DEF Granting, Refunding
  <2> QED
    BY <1>3, <2>1, <2>2 DEF Record
<1>4. WindowBound'
  <2>1. \A l : Within(heap'[b], used'[b], window', l)
    BY <1>2, NewWithin
  <2> QED
    BY <1>2, <1>3, <2>1 DEF WindowBound
<1> QED
  BY <1>1, <1>4

\* A section on a bucket: the bucket of the caller's own key changes, no other.
LEMMA SectionKeeps ==
    ASSUME WInv, IInv', Record,
           NEW c \in Caller, NEW nb \in BucketType, NEW place \in {"idle", "granted", "find"},
           NEW locals \in CallType, Leave(c, nb, place, locals),
           pc[c] \in {"take", "write", "give"},
           ASSUME NEW l \in Nat, Dominates(l, call[c].key[2], window), ptr[c] \in Live(buckets', ptr'),
                  Within(heap[ptr[c]], used[ptr[c]], window, l)
           PROVE  Within(nb, used'[ptr[c]], window, l)
    PROVE  WInv'
<1> USE DEF WInv
<1>1. ptr[c] \in BucketId
  BY InSection DEF IInv
<1>2. KeepsBuckets
  BY DEF KeepsBuckets, Leave, IInv, TypeOK
<1>3. HistoryType' /\ OwnBucket'
  BY <1>2, KeepsHomes, CountType DEF HistoryType
<1>4. LimitTaken'
  BY DEF LimitTaken, Leave, IInv, TypeOK
<1>5. ASSUME NEW b \in BucketId, home'[b] # Nil, b # ptr[c]
      PROVE  home'[b] = home[b] /\ heap'[b] = heap[b] /\ used'[b] = used[b]
  <2>1. home'[b] = home[b] /\ b \notin Fresh /\ b \in Live(buckets', ptr')
    BY <1>2, <1>5, KeepsHomes DEF Record
  <2>2. heap'[b] = heap[b]
    BY <1>5, <2>1 DEF Leave, Swept, IInv, TypeOK
  <2>3. \A d \in Caller : ptr[d] = b => ~Granting(d) /\ ~Refunding(d)
    BY <1>5 DEF Granting, Refunding, Leave, IInv, TypeOK
  <2> QED
    BY <2>1, <2>2, <2>3 DEF Record
<1>6. ASSUME home'[ptr[c]] # Nil,
             NEW l \in GroupLimits(home'[ptr[c]][2]), Dominates(l, home'[ptr[c]][2], window')
      PROVE  Within(heap'[ptr[c]], used'[ptr[c]], window', l)
  <2>1. home'[ptr[c]] = home[ptr[c]] /\ ptr[c] \in Live(buckets', ptr')
    BY <1>1, <1>2, <1>6, KeepsHomes DEF Record
  <2>2. home[ptr[c]] = call[c].key
    BY <1>1, LimiterAssumption DEF OwnBucket
  <2>3. call[c].key[2] \in Group
    BY <1>1, <1>6, <2>1, <2>2 DEF HistoryType
  <2>4. l \in Nat /\ l \in GroupLimits(call[c].key[2]) /\ Dominates(l, call[c].key[2], window)
    BY <1>6, <2>1, <2>2, <2>3, LimitsType DEF Record
  <2>5. Within(heap[ptr[c]], used[ptr[c]], window, l)
    BY <1>1, <1>6, <2>1, <2>2, <2>4 DEF WindowBound
  <2>6. Within(nb, used'[ptr[c]], window, l)
    BY <2>1, <2>4, <2>5
  <2>7. heap'[ptr[c]] = nb
    BY <1>1, <2>1 DEF Leave, Swept, IInv, TypeOK
  <2> QED
    BY <2>6, <2>7 DEF Record
<1>7. WindowBound'
  <2> SUFFICES ASSUME NEW b \in BucketId, home'[b] # Nil,
                      NEW l \in GroupLimits(home'[b][2]), Dominates(l, home'[b][2], window')
               PROVE  Within(heap'[b], used'[b], window', l)
    BY DEF WindowBound
  <2>1. CASE b = ptr[c]
    BY <1>6, <2>1
  <2>2. CASE b # ptr[c]
    BY <1>5, <2>2 DEF WindowBound, Record
  <2> QED
    BY <2>1, <2>2
<1> QED
  BY <1>3, <1>4, <1>7

(***************************************************************************)
(* Each action keeps the invariant.                                        *)
(***************************************************************************)

\* No call enters or leaves allow's section: LimitTaken stays.
LEMMA LimitStays ==
    ASSUME LimitTaken, \A c \in Caller : pc'[c] = "take" => pc[c] = "take" /\ call'[c] = call[c]
    PROVE  LimitTaken'
  BY DEF LimitTaken

\* The steps of a call that touch no bucket.
LEMMA CallerQuiet ==
    ASSUME WInv, Record, NEW c \in Caller,
           \/ \E k \in Key : CallAllow(c, k)
           \/ Respond(c)
           \/ LookupHit(c) \/ LookupFull(c) \/ Find(c)
           \/ \E k \in Key : EvictVisit(c, k)
    PROVE  WInv'
<1>1. IInv /\ IInv'
  BY CallAllowKeeps, SettleKeeps, FailKeeps, LookupHitKeeps, LookupFullKeeps, FindKeeps,
     EvictVisitKeeps
  DEF WInv, Respond
<1>2. UNCHANGED <<buckets, heap>>
  BY DEF CallAllow, Respond, Settle, Fail, LookupHit, LookupFull, Find, EvictVisit
<1>3. \A d \in Caller : d # c => pc'[d] = pc[d] /\ ptr'[d] = ptr[d] /\ call'[d] = call[d]
  BY <1>1 DEF CallAllow, Respond, Settle, Fail, LookupHit, LookupFull, Find, EvictVisit, IInv, TypeOK
<1>4. pc[c] \notin {"take", "give"} /\ pc'[c] # "take"
  BY <1>1 DEF CallAllow, Respond, Settle, Fail, LookupHit, LookupFull, Find, EvictVisit,
              AfterLookup, IInv, TypeOK
<1>5. ptr'[c] # Nil =>
        call'[c].key = call[c].key /\ call[c].key \in Mapped /\ ptr'[c] = buckets[call[c].key]
  BY <1>1 DEF CallAllow, Respond, Settle, Fail, LookupHit, LookupFull, Find, EvictVisit,
              IInv, TypeOK, LockInv
<1>6. KeepsBuckets
  BY <1>2, <1>3, <1>5 DEF KeepsBuckets
<1>7. LimitTaken'
  BY <1>3, <1>4, LimitStays DEF WInv
<1> QED
  BY <1>1, <1>2, <1>3, <1>4, <1>6, <1>7, QuietKeeps

\* effectiveLimit takes at most the group's limit at the clock reading of the call.
LEMMA ReadLimitQuiet ==
    ASSUME WInv, Record, NEW c \in Caller, ReadLimit(c)
    PROVE  WInv'
<1>1. IInv /\ IInv' /\ pc[c] = "limit"
  BY ReadLimitKeeps DEF WInv, ReadLimit
<1> DEFINE g == call[c].key[2]
           limit == EffectiveLimit(g, heap[ptr[c]].adaptLimit, call[c].now)
<1>2. limit <= GroupLimit(g, call[c].now) * Ratio
  <2>1. heap[ptr[c]].adaptLimit \in Nat
    BY <1>1, InSection DEF IInv, BucketType
  <2>2. g \in Group /\ call[c].now \in Time
    BY <1>1, GatedGroup DEF IInv, Working, TypeOK, CallType
  <2> QED
    BY <2>1, <2>2, EffectiveLimitType
<1>3. call' = [call EXCEPT ![c] = [call[c] EXCEPT !.limit = limit]]
  BY DEF ReadLimit
<1> HIDE DEF limit
<1>4. call[c] \in CallType
  BY <1>1 DEF IInv, TypeOK
<1>5. /\ call'[c].limit = limit /\ call'[c].key = call[c].key /\ call'[c].now = call[c].now
      /\ \A d \in Caller : d # c => call'[d] = call[d] /\ pc'[d] = pc[d]
  BY <1>1, <1>3, <1>4 DEF ReadLimit, IInv, TypeOK, CallType
<1>6. KeepsBuckets
  BY <1>5 DEF KeepsBuckets, ReadLimit
<1>7. LimitTaken'
  BY <1>2, <1>5 DEF LimitTaken, WInv
<1>8. \A d \in Caller : pc[d] \in {"take", "give"} => pc'[d] = pc[d]
  BY <1>1, <1>5
<1> QED
  BY <1>1, <1>6, <1>7, <1>8, QuietKeeps DEF ReadLimit

\* getBucket makes a bucket, with or without an eviction.
LEMMA AllocationKeeps ==
    ASSUME WInv, Record, NEW c \in Caller, NEW b \in BucketId,
           LookupCreate(c, b) \/ EvictCommit(c, b)
    PROVE  WInv'
<1>1. IInv /\ IInv' /\ b \in Fresh /\ call[c].key \in Key /\ Gated(call[c].key)
  BY LookupCreateKeeps, EvictCommitKeeps
  DEF WInv, LookupCreate, EvictCommit, Allocates, IInv, Working
<1>2. MakesBucket(c, b)
  BY <1>1 DEF MakesBucket, LookupCreate, EvictCommit, IInv, TypeOK
<1>3. b \in Live(buckets', ptr')
  BY <1>1, <1>2 DEF MakesBucket, Live
<1>4. /\ heap'[b] = NewBucket(call[c].now)
      /\ \A a \in BucketId : a # b /\ a \in Live(buckets', ptr') => heap'[a] = heap[a]
  BY <1>1, <1>3 DEF LookupCreate, EvictCommit, Swept, IInv, TypeOK
<1>5. \A d \in Caller : d # c => pc'[d] = pc[d]
  BY <1>1 DEF LookupCreate, EvictCommit, IInv, TypeOK
<1>6. pc[c] \in {"lookup", "evict"} /\ pc'[c] # "take" /\ call' = call
  BY <1>1 DEF LookupCreate, EvictCommit, AfterLookup, IInv, TypeOK
<1>7. LimitTaken'
  BY <1>5, <1>6, LimitStays DEF WInv
<1> QED
  BY <1>1, <1>2, <1>4, <1>5, <1>6, <1>7, MakeKeeps

\* The count changes only where Record says, and only for the caller that moves.
LEMMA CountOfSection ==
    ASSUME WInv, Record, NEW c \in Caller, NEW nb, NEW place, NEW locals,
           Leave(c, nb, place, locals), pc[c] \in {"take", "write", "give"},
           ptr[c] \in Live(buckets', ptr')
    PROVE  /\ heap'[ptr[c]] = nb
           /\ used'[ptr[c]] =
                IF pc[c] = "take" /\ place = "granted" /\ In(nb.last, window)
                THEN used[ptr[c]] + 1
                ELSE IF /\ pc[c] = "give" /\ place = "idle"
                        /\ heap[ptr[c]].capacity > 0 /\ In(heap[ptr[c]].last, window)
                THEN used[ptr[c]] - 1
                ELSE used[ptr[c]]
<1>1. ptr[c] \in BucketId /\ ptr[c] \notin Fresh
  BY InSection DEF WInv, IInv, Fresh, Live
<1>2. heap'[ptr[c]] = nb
  BY <1>1 DEF Leave, Swept, WInv, IInv, TypeOK
<1>3. pc'[c] = place /\ \A d \in Caller : d # c => pc'[d] = pc[d]
  BY DEF Leave, WInv, IInv, TypeOK
<1>4. \A d \in Caller : ~(d # c /\ (Granting(d) \/ Refunding(d)))
  BY <1>3 DEF Granting, Refunding
<1>5. (\E d \in Caller : ptr[d] = ptr[c] /\ Granting(d) /\ In(heap'[ptr[c]].last, window))
        <=> pc[c] = "take" /\ place = "granted" /\ In(nb.last, window)
  BY <1>2, <1>3, <1>4 DEF Granting
<1>6. (\E d \in Caller : ptr[d] = ptr[c] /\ Refunding(d) /\ In(heap[ptr[c]].last, window))
        <=> /\ pc[c] = "give" /\ place = "idle"
            /\ heap[ptr[c]].capacity > 0 /\ In(heap[ptr[c]].last, window)
  BY <1>3, <1>4 DEF Refunding
<1> QED
  BY <1>1, <1>2, <1>5, <1>6 DEF Record

\* allow: the refill and the request together stay within the bound.
LEMMA TakeWithin ==
    ASSUME WInv, Record, NEW c \in Caller,
           TakeBlocked(c) \/ TakeDeny(c) \/ TakeGrant(c)
    PROVE  WInv'
<1> DEFINE b == heap[ptr[c]]
           now == call[c].now
<1>1. IInv /\ IInv' /\ pc[c] = "take"
  BY TakeKeeps DEF WInv, TakeBlocked, TakeDeny, TakeGrant
<1>2. b \in BucketType /\ Ready(c) \in BucketType /\ now \in Time /\ call[c].limit \in Nat
  BY <1>1, ReadyType DEF CallType
<1>3. ptr[c] \in BucketId /\ used[ptr[c]] \in Int /\ window \in Windows
  BY <1>1, InSection DEF IInv, WInv, HistoryType
<1>4. ASSUME NEW l \in Nat, Dominates(l, call[c].key[2], window), Within(b, used[ptr[c]], window, l)
      PROVE  Within(Ready(c), used[ptr[c]], window, l)
  <2>1. In(now, window) => call[c].limit <= l
    <3>1. SUFFICES ASSUME In(now, window) PROVE call[c].limit <= l
      OBVIOUS
    <3>2. now \in window[1] .. window[2]
      BY <1>2, <1>3, <3>1, WindowAssumption DEF In, Time
    <3>3. call[c].key[2] \in Group
      BY <1>1, GatedGroup DEF IInv, Working
    <3>4. GroupLimit(call[c].key[2], now) * Ratio <= l
      BY <1>4, <3>2 DEF Dominates
    <3>5. GroupLimit(call[c].key[2], now) * Ratio \in Nat
      BY <1>2, <3>3, GroupLimitType, RatioType, ProductNat
    <3>6. call[c].limit <= GroupLimit(call[c].key[2], now) * Ratio
      BY <1>1 DEF WInv, LimitTaken
    <3> DEFINE most == GroupLimit(call[c].key[2], now) * Ratio
    <3> HIDE DEF most
    <3>7. most \in Nat /\ most <= l /\ call[c].limit <= most
      BY <3>4, <3>5, <3>6 DEF most
    <3> QED
      BY <1>2, <3>7
  <2> QED
    BY <1>2, <1>3, <1>4, <2>1, RefilledWithin DEF Ready
<1>5. CASE TakeBlocked(c)
  <2> DEFINE nb == Touched(b, now)
  <2>1. nb \in BucketType
    BY <1>2, OperationsType
  <2>2. Leave(c, nb, "idle", NoCall)
    BY <1>5 DEF TakeBlocked
  <2>3. ASSUME NEW l \in Nat, Dominates(l, call[c].key[2], window), ptr[c] \in Live(buckets', ptr'),
               Within(b, used[ptr[c]], window, l)
        PROVE  Within(nb, used'[ptr[c]], window, l)
    <3>1. used'[ptr[c]] = used[ptr[c]]
      BY <1>1, <2>2, <2>3, CountOfSection
    <3> QED
      BY <1>2, <1>3, <2>3, <3>1, ObservedWithin
  <2> HIDE DEF nb
  <2> QED
    BY <1>1, <2>1, <2>2, <2>3, NothingType, SectionKeeps
<1>6. CASE TakeDeny(c)
  <2>1. Leave(c, Ready(c), "idle", NoCall)
    BY <1>6 DEF TakeDeny
  <2>2. ASSUME NEW l \in Nat, Dominates(l, call[c].key[2], window), ptr[c] \in Live(buckets', ptr'),
               Within(b, used[ptr[c]], window, l)
        PROVE  Within(Ready(c), used'[ptr[c]], window, l)
    <3>1. used'[ptr[c]] = used[ptr[c]]
      BY <1>1, <2>1, <2>2, CountOfSection
    <3> QED
      BY <1>4, <2>2, <3>1
  <2> QED
    BY <1>1, <1>2, <2>1, <2>2, NothingType, SectionKeeps
<1>7. CASE TakeGrant(c)
  <2> DEFINE locals == [NoCall EXCEPT !.op = "allow", !.key = call[c].key]
             nb == Spent(Ready(c))
  <2>1. nb \in BucketType /\ nb.last = Ready(c).last
    BY <1>2, <1>7, TokenType DEF TakeGrant, Affordable, Spent, BucketType
  <2>2. locals \in CallType
    BY <1>1 DEF IInv, TypeOK, NoCall, CallType, Time
  <2>3. Leave(c, nb, "granted", locals)
    BY <1>7 DEF TakeGrant
  <2>4. ASSUME NEW l \in Nat, Dominates(l, call[c].key[2], window), ptr[c] \in Live(buckets', ptr'),
               Within(b, used[ptr[c]], window, l)
        PROVE  Within(nb, used'[ptr[c]], window, l)
    <3>1. used'[ptr[c]] = IF In(Ready(c).last, window) THEN used[ptr[c]] + 1 ELSE used[ptr[c]]
      BY <1>1, <2>1, <2>3, <2>4, CountOfSection
    <3>2. Within(Ready(c), used[ptr[c]], window, l)
      BY <1>4, <2>4
    <3> QED
      BY <1>2, <1>3, <3>1, <3>2, SpentWithin
  <2> HIDE DEF locals, nb
  <2> QED
    BY <1>1, <2>1, <2>2, <2>3, <2>4, SectionKeeps
<1> QED
  BY <1>5, <1>6, <1>7

\* Observe gives no tokens.
LEMMA WriteWithin ==
    ASSUME WInv, Record, NEW c \in Caller, Write(c)
    PROVE  WInv'
<1> DEFINE seen == Observed(heap[ptr[c]], call[c].now, call[c].header, call[c].retry)
           locals == [NoCall EXCEPT !.op = "refund", !.key = call[c].key]
<1>1. IInv /\ IInv' /\ pc[c] = "write" /\ call[c] \in CallType
  BY WriteKeeps DEF WInv, Write, IInv, TypeOK
<1>2. heap[ptr[c]] \in BucketType /\ used[ptr[c]] \in Int /\ window \in Windows
  BY <1>1, InSection DEF IInv, WInv, HistoryType
<1>3. call[c].now \in Time /\ call[c].header \in Nat /\ call[c].retry \in Nat
  BY <1>1 DEF CallType
<1>4. seen \in BucketType
  BY <1>2, <1>3, OperationsType
<1>5. locals \in CallType
  BY <1>1 DEF NoCall, CallType, Time
<1>6. Leave(c, seen, "find", locals) \/ Leave(c, seen, "idle", NoCall)
  BY DEF Write
<1>7. ASSUME NEW l \in Nat, Dominates(l, call[c].key[2], window), ptr[c] \in Live(buckets', ptr'),
             Within(heap[ptr[c]], used[ptr[c]], window, l)
      PROVE  Within(seen, used'[ptr[c]], window, l)
  <2>1. used'[ptr[c]] = used[ptr[c]]
    BY <1>1, <1>6, <1>7, CountOfSection
  <2> QED
    BY <1>2, <1>3, <1>7, <2>1, ObservedWithin
<1> HIDE DEF seen, locals
<1> QED
  BY <1>1, <1>4, <1>5, <1>6, <1>7, NothingType, SectionKeeps

\* Refund gives back no more than was taken in the window.
LEMMA GiveWithin ==
    ASSUME WInv, Record, NEW c \in Caller, Give(c)
    PROVE  WInv'
<1> DEFINE b == heap[ptr[c]]
           nb == Refunded(b)
<1>1. IInv /\ IInv' /\ pc[c] = "give"
  BY GiveKeeps DEF WInv, Give
<1>2. b \in BucketType /\ used[ptr[c]] \in Int /\ window \in Windows
  BY <1>1, InSection DEF IInv, WInv, HistoryType
<1>3. nb \in BucketType
  BY <1>2, TokenType DEF Refunded, Lesser, BucketType
<1>4. Leave(c, nb, "idle", NoCall)
  BY DEF Give
<1>5. ASSUME NEW l \in Nat, Dominates(l, call[c].key[2], window), ptr[c] \in Live(buckets', ptr'),
             Within(b, used[ptr[c]], window, l)
      PROVE  Within(nb, used'[ptr[c]], window, l)
  <2>1. used'[ptr[c]] = IF b.capacity > 0 /\ In(b.last, window) THEN used[ptr[c]] - 1 ELSE used[ptr[c]]
    BY <1>1, <1>4, <1>5, CountOfSection
  <2> QED
    BY <1>2, <1>5, <2>1, RefundedWithin
<1> HIDE DEF nb
<1> QED
  BY <1>1, <1>3, <1>4, <1>5, NothingType, SectionKeeps

\* The clock and the janitor change no bucket that lives on.
LEMMA OthersQuiet ==
    ASSUME WInv, Record, Tick \/ GCLock \/ Collect
    PROVE  WInv'
<1>1. IInv /\ IInv'
  BY TickKeeps, CollectKeeps DEF WInv
<1>2. UNCHANGED <<pc, call, ptr>>
  BY DEF Tick, GCLock, Collect, GCStart, GCVisit, GCDrop, GCUnlock
<1>3. \A k \in Key : buckets'[k] \in {buckets[k], Nil}
  BY <1>1 DEF Tick, GCLock, Collect, GCStart, GCVisit, GCDrop, GCUnlock, IInv, TypeOK
<1>4. \A b \in BucketId : b \in Live(buckets', ptr') => heap'[b] = heap[b]
  BY <1>1 DEF Tick, GCLock, Collect, GCStart, GCVisit, GCDrop, GCUnlock, Swept
<1>5. KeepsBuckets
  BY <1>2, <1>3 DEF KeepsBuckets
<1>6. LimitTaken'
  BY <1>2 DEF LimitTaken, WInv
<1> QED
  BY <1>1, <1>2, <1>4, <1>5, <1>6, QuietKeeps

(***************************************************************************)
(* The theorems.                                                           *)
(***************************************************************************)

LEMMA WindowInit == WInit => WInv
<1> SUFFICES ASSUME WInit PROVE WInv
  OBVIOUS
<1>1. IInv
  BY InitKeeps DEF WInit
<1>2. HistoryType
  BY DEF WInit, HistoryType
<1>3. OwnBucket
  BY DEF WInit, Init, OwnBucket, Mapped
<1>4. LimitTaken
  BY DEF WInit, Init, LimitTaken
<1>5. WindowBound
  BY DEF WInit, WindowBound
<1> QED
  BY <1>1, <1>2, <1>3, <1>4, <1>5 DEF WInv

LEMMA WindowNext == WInv /\ [WNext]_<<vars, windowVars>> => WInv'
<1> SUFFICES ASSUME WInv, [WNext]_<<vars, windowVars>> PROVE WInv'
  OBVIOUS
<1>1. CASE UNCHANGED <<vars, windowVars>>
  <2>1. IInv'
    BY <1>1, NextKeeps DEF WInv
  <2>2. Mapped' = Mapped
    BY <1>1 DEF vars, Mapped
  <2> QED
    BY <1>1, <2>1, <2>2 DEF WInv, vars, windowVars, HistoryType, OwnBucket, LimitTaken, WindowBound
<1>2. CASE WNext
  <2> USE <1>2 DEF WNext
  <2>1. CASE Tick \/ GCLock \/ Collect
    BY <2>1, OthersQuiet
  <2>2. ASSUME NEW c \in Caller, NEW k \in Key, CallAllow(c, k) PROVE WInv'
    BY <2>2, CallerQuiet
  <2>3. ASSUME NEW c \in Caller, Acquire(c) PROVE WInv'
    BY <2>3, CallerQuiet, AllocationKeeps DEF Acquire
  <2>4. ASSUME NEW c \in Caller, Proceed(c) PROVE WInv'
    BY <2>4, CallerQuiet, AllocationKeeps, ReadLimitQuiet, TakeWithin, WriteWithin, GiveWithin
    DEF Proceed
  <2>5. ASSUME NEW c \in Caller, Respond(c) PROVE WInv'
    BY <2>5, CallerQuiet
  <2> QED
    BY <2>1, <2>2, <2>3, <2>4, <2>5 DEF Next
<1> QED
  BY <1>1, <1>2

\* The bound, with all it needs, holds for any number of goroutines, keys and
\* buckets, at any limits and for any window.
THEOREM WindowInvariance == WSpec => []WInv
<1>1. WInit => WInv
  BY WindowInit
<1>2. WInv /\ [WNext]_<<vars, windowVars>> => WInv'
  BY WindowNext
<1> QED
  BY <1>1, <1>2, PTL DEF WSpec

\* No client works on another client's bucket (getBucket, evictLocked, GC).
THEOREM OwnBuckets == WSpec => []OwnBucket
<1>1. WInv => OwnBucket
  BY DEF WInv
<1> QED
  BY <1>1, WindowInvariance, PTL

\* The rate limit holds: in any window of bucket time a bucket grants at most one
\* burst and what the window's limit adds (allow, Observe, Refund, effectiveLimit).
THEOREM RateLimited == WSpec => []WindowBound
<1>1. WInv => WindowBound
  BY DEF WInv
<1> QED
  BY <1>1, WindowInvariance, PTL

=============================================================================
