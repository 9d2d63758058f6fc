------------------------ MODULE LimiterPromiseProofs ------------------------
(***************************************************************************)
(* However many goroutines read, write, evict, collect and create at once, *)
(* unless the history says the key was torn: a 429 of Toss is waited out,  *)
(* and a key is granted no more than its limit over all the buckets it has *)
(* had.                                                                    *)
(***************************************************************************)
EXTENDS LimiterPromise, LimiterWindowProofs

(***************************************************************************)
(* What is true of a key that was never torn.  Whoever works on it works   *)
(* on the bucket the map has.  And either that bucket is blocked until the *)
(* bans are over, or they are over for everybody who can still ask: by the *)
(* clock, and by the readings of those who have asked already.             *)
(***************************************************************************)
Ops(c) ==
    /\ pc[c] \in {"lookup", "evict"} => call[c].op \in {"allow", "observe"}
    /\ pc[c] \in {"limit", "take"} => call[c].op = "allow"
    /\ pc[c] = "write" => call[c].op = "observe"
    /\ pc[c] \in {"find", "give"} => call[c].op = "refund"

Pointed(k) ==
    \A c \in Caller :
        call[c].key = k /\ pc[c] \in {"limit", "take", "write"} => ptr[c] = buckets[k]

Over(k) ==
    /\ ban[k] <= clock
    /\ \A c \in Caller : Underway(c, k) => ban[k] <= call[c].now

Blocks(k) == buckets[k] # Nil /\ ban[k] <= heap[buckets[k]].blockedUntil

HInv ==
    /\ ban \in [Key -> Nat]
    /\ \A c \in Caller : Ops(c)
    /\ gc.now <= clock
    /\ \A k \in Key : torn[k] = {} => Pointed(k) /\ (Over(k) \/ Blocks(k))

(***************************************************************************)
(* What a step does to one goroutine: nothing, or one move of its own.     *)
(***************************************************************************)
Moves(c) ==
    \/ pc'[c] = pc[c] /\ call'[c] = call[c] /\ ptr'[c] = ptr[c]
    \/ pc'[c] = "lookup" /\ call'[c].op \in {"allow", "observe"} /\ call'[c].now = clock
    \/ pc'[c] = "idle" /\ call'[c].key = Nil
    \/ pc'[c] = "granted"
    \/ pc'[c] = "find" /\ call'[c].op = "refund"
    \/ pc[c] = "lookup" /\ pc'[c] = "evict" /\ call'[c] = call[c]
    \/ /\ pc[c] \in {"lookup", "evict"} /\ pc'[c] = AfterLookup(c)
       /\ call'[c] = call[c] /\ ptr'[c] = buckets'[call[c].key]
    \/ /\ pc[c] = "limit" /\ pc'[c] = "take" /\ ptr'[c] = ptr[c]
       /\ call'[c].op = call[c].op /\ call'[c].key = call[c].key /\ call'[c].now = call[c].now
    \/ pc[c] = "find" /\ pc'[c] = "give" /\ call'[c] = call[c]

LEMMA LeaveMoves ==
    ASSUME IInv, NEW d \in Caller, NEW b, NEW place, NEW locals, Leave(d, b, place, locals),
           \/ place = "idle" /\ locals.key = Nil
           \/ place = "granted"
           \/ place = "find" /\ locals.op = "refund",
           NEW c \in Caller
    PROVE  Moves(c)
<1>1. CASE c = d
  BY <1>1 DEF Leave, IInv, TypeOK, Moves
<1>2. CASE c # d
  BY <1>2 DEF Leave, IInv, TypeOK, Moves
<1> QED
  BY <1>1, <1>2

LEMMA EveryoneMoves ==
    ASSUME IInv, [Next]_vars, NEW c \in Caller
    PROVE  Moves(c)
<1>0. NoCall.key = Nil
  BY DEF NoCall
<1>1. CASE UNCHANGED <<pc, call, ptr>>
  BY <1>1 DEF Moves
<1>2. ASSUME NEW d \in Caller, NEW k \in Key, CallAllow(d, k) PROVE Moves(c)
  <2> DEFINE locals == [NoCall EXCEPT !.op = "allow", !.key = k,
                                      !.now = IF Gated(k) THEN clock ELSE 0]
  <2>1. locals.op = "allow" /\ (Gated(k) => locals.now = clock)
    BY DEF NoCall
  <2>2. /\ call' = [call EXCEPT ![d] = locals] /\ ptr' = ptr
        /\ pc' = [pc EXCEPT ![d] = IF Gated(k) THEN "lookup" ELSE "granted"]
    BY <1>2 DEF CallAllow
  <2> HIDE DEF locals
  <2> QED
    BY <2>1, <2>2 DEF IInv, TypeOK, Moves
<1>3. ASSUME NEW d \in Caller, NEW h, NEW r, NEW refund, Settle(d, h, r, refund) PROVE Moves(c)
  <2> DEFINE locals == [NoCall EXCEPT !.op = "observe", !.key = call[d].key, !.now = clock,
                                      !.header = h, !.retry = r, !.refund = refund]
  <2>1. locals.op = "observe" /\ locals.now = clock
    BY DEF NoCall
  <2>2. /\ ptr' = ptr
        /\ \/ pc' = [pc EXCEPT ![d] = "lookup"] /\ call' = [call EXCEPT ![d] = locals]
           \/ pc' = [pc EXCEPT ![d] = "idle"] /\ call' = [call EXCEPT ![d] = NoCall]
    BY <1>3 DEF Settle
  <2> HIDE DEF locals
  <2> QED
    BY <1>0, <2>1, <2>2 DEF IInv, TypeOK, Moves
<1>4. ASSUME NEW d \in Caller, Fail(d) \/ Find(d) PROVE Moves(c)
  BY <1>0, <1>4 DEF Fail, Find, IInv, TypeOK, Moves
<1>5. ASSUME NEW d \in Caller, LookupHit(d) \/ LookupFull(d) PROVE Moves(c)
  BY <1>5 DEF LookupHit, LookupFull, IInv, TypeOK, Moves
<1>6. ASSUME NEW d \in Caller, NEW b \in BucketId, LookupCreate(d, b) PROVE Moves(c)
  <2>1. call[d].key \in Key /\ b # Nil
    BY <1>6, LimiterAssumption DEF LookupCreate, IInv, Working
  <2> QED
    BY <1>6, <2>1 DEF LookupCreate, IInv, TypeOK, Moves
<1>7. ASSUME NEW d \in Caller, NEW b \in BucketId, EvictCommit(d, b) PROVE Moves(c)
  <2>1. call[d].key \in Key
    BY <1>7 DEF EvictCommit, IInv, Working
  <2>2. /\ pc[d] = "evict" /\ buckets' = [buckets EXCEPT ![Victim] = Nil, ![call[d].key] = b]
        /\ ptr' = [ptr EXCEPT ![d] = b] /\ pc' = [pc EXCEPT ![d] = AfterLookup(d)]
        /\ call' = call
    BY <1>7 DEF EvictCommit
  <2>3. buckets'[call[d].key] = b
    BY <2>1, <2>2 DEF IInv, TypeOK
  <2> QED
    BY <2>2, <2>3 DEF IInv, TypeOK, Moves
<1>8. ASSUME NEW d \in Caller, NEW k \in Key, EvictVisit(d, k) PROVE UNCHANGED <<pc, call, ptr>>
  BY <1>8, Zenon DEF EvictVisit
<1>9. ASSUME NEW d \in Caller, ReadLimit(d) PROVE Moves(c)
  BY <1>9 DEF ReadLimit, IInv, TypeOK, CallType, Moves
<1>10. ASSUME NEW d \in Caller, TakeBlocked(d) \/ TakeDeny(d) PROVE Moves(c)
  BY <1>0, <1>10, LeaveMoves DEF TakeBlocked, TakeDeny
<1>11. ASSUME NEW d \in Caller, TakeGrant(d) PROVE Moves(c)
  BY <1>11, LeaveMoves DEF TakeGrant
<1>12. ASSUME NEW d \in Caller, Write(d) PROVE Moves(c)
  <2> DEFINE seen == Observed(heap[ptr[d]], call[d].now, call[d].header, call[d].retry)
             locals == [NoCall EXCEPT !.op = "refund", !.key = call[d].key]
  <2>1. Leave(d, seen, "find", locals) \/ Leave(d, seen, "idle", NoCall)
    BY <1>12 DEF Write
  <2>2. locals.op = "refund"
    BY DEF NoCall
  <2> HIDE DEF seen, locals
  <2> QED
    BY <1>0, <2>1, <2>2, LeaveMoves
<1>13. ASSUME NEW d \in Caller, Give(d) PROVE Moves(c)
  BY <1>0, <1>13, LeaveMoves DEF Give
<1>14. Tick \/ GCLock \/ Collect => UNCHANGED <<pc, call, ptr>>
  BY DEF Tick, GCLock, Collect, GCStart, GCVisit, GCDrop, GCUnlock
<1> QED
  BY <1>1, <1>2, <1>3, <1>4, <1>5, <1>6, <1>7, <1>8, <1>9, <1>10, <1>11, <1>12, <1>13, <1>14
  DEF Next, Acquire, Proceed, Respond, vars

(***************************************************************************)
(* The sections under a bucket's mutex, and the other steps.               *)
(***************************************************************************)
Section(c) == TakeBlocked(c) \/ TakeDeny(c) \/ TakeGrant(c) \/ Write(c) \/ Give(c)

\* A bucket section ends by the goroutine in it, and moves nobody else.
LEMMA SectionLeft ==
    ASSUME IInv, [Next]_vars, NEW c \in Caller, pc[c] \in {"take", "write", "give"}, pc'[c] # pc[c]
    PROVE  Section(c)
<1>1. ~UNCHANGED pc
  OBVIOUS
<1>2. ASSUME NEW d \in Caller, pc[d] \notin {"take", "write", "give"}, pc' = [pc EXCEPT ![d] = pc'[d]]
      PROVE  FALSE
  BY <1>2 DEF IInv, TypeOK
<1>3. ASSUME NEW d \in Caller, Section(d) PROVE d = c
  BY <1>3 DEF Section, TakeBlocked, TakeGrant, TakeDeny, Write, Give, Leave, IInv, TypeOK
<1>4. ASSUME NEW d \in Caller,
             (\E j \in Key : CallAllow(d, j)) \/ Acquire(d) \/ Respond(d)
      PROVE  FALSE
  <2>1. pc[d] \notin {"take", "write", "give"} /\ pc' = [pc EXCEPT ![d] = pc'[d]]
    BY <1>4 DEF CallAllow, Acquire, LookupHit, LookupCreate, LookupFull, Find, Respond, Settle, Fail,
                IInv, TypeOK
  <2> QED
    BY <1>2, <2>1
<1>5. ASSUME NEW d \in Caller, ReadLimit(d) \/ \E b \in BucketId : EvictCommit(d, b) PROVE FALSE
  <2>1. pc[d] \notin {"take", "write", "give"} /\ pc' = [pc EXCEPT ![d] = pc'[d]]
    BY <1>5 DEF EvictCommit, ReadLimit, IInv, TypeOK
  <2> QED
    BY <1>2, <2>1
<1>6. ASSUME NEW d \in Caller, NEW j \in Key, EvictVisit(d, j) PROVE UNCHANGED pc
  BY <1>6, Zenon DEF EvictVisit
<1>7. Tick \/ GCLock \/ Collect => UNCHANGED pc
  BY DEF Tick, GCLock, Collect, GCStart, GCVisit, GCDrop, GCUnlock
<1> QED
  BY <1>1, <1>3, <1>4, <1>5, <1>6, <1>7 DEF Next, Proceed, Section, vars

\* The steps that change the map or a bucket.
LEMMA StepKinds ==
    ASSUME [Next]_vars
    PROVE  \/ UNCHANGED <<buckets, heap>>
           \/ \E c \in Caller : Section(c)
           \/ \E c \in Caller, b \in BucketId : LookupCreate(c, b) \/ EvictCommit(c, b)
           \/ GCDrop
<1>1. ASSUME NEW c \in Caller,
             \/ \E j \in Key : CallAllow(c, j) \/ EvictVisit(c, j)
             \/ LookupHit(c) \/ LookupFull(c) \/ Find(c) \/ ReadLimit(c) \/ Respond(c)
      PROVE  UNCHANGED <<buckets, heap>>
  BY <1>1 DEF CallAllow, EvictVisit, LookupHit, LookupFull, Find, ReadLimit, Respond, Settle, Fail
<1>2. Tick \/ GCLock \/ GCStart \/ (\E j \in Key : GCVisit(j)) \/ GCUnlock \/ UNCHANGED vars
        => UNCHANGED <<buckets, heap>>
  BY DEF Tick, GCLock, GCStart, GCVisit, GCUnlock, vars
<1> QED
  BY <1>1, <1>2 DEF Next, Acquire, Proceed, Collect, Section

\* A step outside the bucket sections changes no bucket that stays mapped.
LEMMA BucketStands ==
    ASSUME IInv, [Next]_vars, \A c \in Caller : ~Section(c),
           NEW k \in Key, buckets[k] # Nil, buckets'[k] = buckets[k]
    PROVE  heap'[buckets[k]] = heap[buckets[k]]
<1> DEFINE a == buckets[k]
<1>1. /\ a \in BucketId /\ heap \in [BucketId -> BucketType] /\ a \notin Fresh
      /\ a \in Live(buckets', ptr') /\ a \in Live(buckets', ptr)
  BY DEF IInv, TypeOK, Fresh, Live
<1>2. ASSUME NEW c \in Caller, NEW b \in BucketId, LookupCreate(c, b)
      PROVE  heap'[a] = heap[a]
  BY <1>1, <1>2 DEF LookupCreate, Allocates
<1>3. ASSUME NEW c \in Caller, NEW b \in BucketId, EvictCommit(c, b)
      PROVE  heap'[a] = heap[a]
  <2> DEFINE h == [heap EXCEPT ![b] = NewBucket(call[c].now)]
  <2>1. heap' = Swept(buckets', ptr', h)
    BY <1>3 DEF EvictCommit
  <2>2. h[a] = heap[a]
    BY <1>1, <1>3 DEF EvictCommit, Allocates
  <2>3. heap'[a] = h[a]
    <3> HIDE DEF a, h
    <3> QED
      BY <1>1, <2>1, SweptAt
  <2> QED
    BY <2>2, <2>3
<1>4. CASE GCDrop
  <2>1. heap' = Swept(buckets', ptr, heap)
    BY <1>4 DEF GCDrop
  <2>2. a \in Live(buckets', ptr) /\ a \in BucketId
    BY <1>1, <1>4 DEF GCDrop
  <2>3. heap'[a] = heap[a]
    <3> HIDE DEF a
    <3> QED
      BY <2>1, <2>2, SweptAt
  <2> QED
    BY <2>3
<1> QED
  BY <1>2, <1>3, <1>4, StepKinds

LEMMA GrantingTakes ==
    ASSUME IInv, [Next]_vars, NEW c \in Caller, Granting(c)
    PROVE  TakeGrant(c)
<1>1. Section(c)
  BY SectionLeft DEF Granting
<1> QED
  BY <1>1 DEF Granting, Section, TakeGrant, TakeBlocked, TakeDeny, Write, Give, Leave, IInv, TypeOK

\* Only Observe ends its own section.
LEMMA BanningWrites ==
    ASSUME IInv, [Next]_vars, NEW c \in Caller, NEW k \in Key, Banning(c, k)
    PROVE  Write(c)
<1>1. Section(c)
  BY SectionLeft DEF Banning
<1> QED
  BY <1>1 DEF Banning, Section, TakeGrant, TakeBlocked, TakeDeny, Write, Give

LEMMA OpsKeeps ==
    ASSUME NEW c \in Caller, Ops(c), Moves(c)
    PROVE  Ops(c)'
  BY DEF Ops, Moves, AfterLookup

\* Whoever is at work on a key after a step was so before, or has just read the
\* clock for it.
LEMMA UnderwaySince ==
    ASSUME NEW c \in Caller, Ops(c), Moves(c), NEW k \in Key, Underway(c, k)'
    PROVE  (Underway(c, k) /\ call'[c].now = call[c].now) \/ call'[c].now = clock
<1>1. k # Nil
  BY LimiterAssumption
<1> QED
  BY <1>1 DEF Underway, Ops, Moves, AfterLookup

(***************************************************************************)
(* A block stands while its bucket is mapped, unless an answer replaces it. *)
(***************************************************************************)

\* Only Observe moves the end of a block, and only on a 429.
LEMMA BlockOf ==
    ASSUME NEW b \in BucketType
    PROVE  /\ \A now : Touched(b, now).blockedUntil = b.blockedUntil
           /\ \A now, limit : Refilled(b, now, limit).blockedUntil = b.blockedUntil
           /\ \A now, header : Observed(b, now, header, 0).blockedUntil = b.blockedUntil
           /\ Refunded(b).blockedUntil = b.blockedUntil
           /\ Spent(b).blockedUntil = b.blockedUntil
<1>1. ASSUME NEW now, NEW limit PROVE Refilled(b, now, limit).blockedUntil = b.blockedUntil
  BY DEF Refilled, Started, BucketType
<1>2. ASSUME NEW now, NEW header
      PROVE  /\ Observed(b, now, header, 0).blockedUntil = b.blockedUntil
             /\ Touched(b, now).blockedUntil = b.blockedUntil
  BY DEF Observed, Touched, BucketType
<1>3. Refunded(b).blockedUntil = b.blockedUntil /\ Spent(b).blockedUntil = b.blockedUntil
  BY DEF Refunded, Spent, BucketType
<1> QED
  BY <1>1, <1>2, <1>3

LEMMA LeaveBlocks ==
    ASSUME IInv, NEW k \in Key, buckets[k] # Nil,
           NEW c \in Caller, NEW b, NEW place, NEW locals, Leave(c, b, place, locals)
    PROVE  /\ ptr[c] = buckets[k] => heap'[buckets[k]] = b
           /\ ptr[c] # buckets[k] => heap'[buckets[k]] = heap[buckets[k]]
<1> DEFINE a == buckets[k]
           h == [heap EXCEPT ![ptr[c]] = b]
<1>1. a \in BucketId /\ a \in Live(buckets, ptr')
  BY DEF Live, IInv, TypeOK
<1>2. heap' = Swept(buckets, ptr', h)
  BY DEF Leave
<1>3. (ptr[c] = a => h[a] = b) /\ (ptr[c] # a => h[a] = heap[a])
  BY <1>1 DEF IInv, TypeOK
<1> HIDE DEF a, h
<1>4. heap'[a] = h[a]
  BY <1>1, <1>2, SweptAt
<1> QED
  BY <1>3, <1>4 DEF a

\* A goroutine that works on a key's bucket works on that key.
LEMMA WorksOnKey ==
    ASSUME WInv, NEW k \in Key, buckets[k] # Nil, NEW c \in Caller, ptr[c] = buckets[k]
    PROVE  call[c].key = k
  BY DEF WInv, OwnBucket, Mapped

LEMMA BlockStands ==
    ASSUME WInv, [Next]_vars, NEW k \in Key,
           buckets[k] # Nil, buckets'[k] = buckets[k], \A c \in Caller : ~Banning(c, k)
    PROVE  heap'[buckets[k]].blockedUntil = heap[buckets[k]].blockedUntil
<1> DEFINE a == buckets[k]
<1>1. IInv /\ a \in BucketId /\ heap[a] \in BucketType
  BY DEF WInv, IInv, TypeOK
<1>2. CASE \A c \in Caller : ~Section(c)
  BY <1>1, <1>2, BucketStands
<1>3. ASSUME NEW c \in Caller, NEW b, NEW place, NEW locals, Leave(c, b, place, locals),
             ptr[c] = a => b.blockedUntil = heap[a].blockedUntil
      PROVE  heap'[a].blockedUntil = heap[a].blockedUntil
  BY <1>1, <1>3, LeaveBlocks
<1>4. ASSUME NEW c \in Caller, TakeBlocked(c) \/ TakeDeny(c) \/ TakeGrant(c)
      PROVE  heap'[a].blockedUntil = heap[a].blockedUntil
  <2> DEFINE b == heap[ptr[c]]
             locals == [NoCall EXCEPT !.op = "allow", !.key = call[c].key]
  <2>1. pc[c] = "take"
    BY <1>4 DEF TakeBlocked, TakeDeny, TakeGrant
  <2>2. b \in BucketType /\ Ready(c) \in BucketType
    BY <1>1, <2>1, ReadyType
  <2>3. Ready(c).blockedUntil = b.blockedUntil
    BY <2>2, BlockOf DEF Ready
  <2>4. Spent(Ready(c)).blockedUntil = b.blockedUntil
    BY <2>2, <2>3, BlockOf
  <2>5. Touched(b, call[c].now).blockedUntil = b.blockedUntil
    BY <2>2, BlockOf
  <2>6. CASE TakeBlocked(c)
    <3>1. Leave(c, Touched(b, call[c].now), "idle", NoCall)
      BY <2>6 DEF TakeBlocked
    <3> QED
      BY <1>3, <2>5, <3>1
  <2>7. CASE TakeDeny(c)
    <3>1. Leave(c, Ready(c), "idle", NoCall)
      BY <2>7 DEF TakeDeny
    <3> QED
      BY <1>3, <2>3, <3>1
  <2>8. CASE TakeGrant(c)
    <3>1. Leave(c, Spent(Ready(c)), "granted", locals)
      BY <2>8 DEF TakeGrant
    <3> HIDE DEF locals
    <3> QED
      BY <1>3, <2>4, <3>1
  <2> QED
    BY <1>4, <2>6, <2>7, <2>8
<1>5. ASSUME NEW c \in Caller, Write(c)
      PROVE  heap'[a].blockedUntil = heap[a].blockedUntil
  <2> DEFINE seen == Observed(heap[ptr[c]], call[c].now, call[c].header, call[c].retry)
             locals == [NoCall EXCEPT !.op = "refund", !.key = call[c].key]
  <2>1. Leave(c, seen, "find", locals) \/ Leave(c, seen, "idle", NoCall)
    BY <1>5 DEF Write
  <2>2. pc[c] = "write" /\ pc'[c] # "write"
    BY <1>1, <1>5 DEF Write, Leave, IInv, TypeOK
  <2>3. ASSUME ptr[c] = a PROVE seen.blockedUntil = heap[a].blockedUntil
    <3>1. call[c].key = k
      BY <2>3, WorksOnKey
    <3>2. call[c].retry = 0
      BY <1>1, <2>2, <3>1 DEF Banning, IInv, TypeOK, CallType
    <3>3. \A now, header : Observed(heap[a], now, header, 0).blockedUntil = heap[a].blockedUntil
      BY <1>1, BlockOf
    <3> QED
      BY <2>3, <3>2, <3>3
  <2> HIDE DEF seen, locals
  <2> QED
    BY <1>3, <2>1, <2>3
<1>6. ASSUME NEW c \in Caller, Give(c)
      PROVE  heap'[a].blockedUntil = heap[a].blockedUntil
  <2>1. Leave(c, Refunded(heap[ptr[c]]), "idle", NoCall)
    BY <1>6 DEF Give
  <2>2. Refunded(heap[a]).blockedUntil = heap[a].blockedUntil
    BY <1>1, BlockOf
  <2> QED
    BY <1>3, <2>1, <2>2
<1> QED
  BY <1>2, <1>4, <1>5, <1>6 DEF Section

(***************************************************************************)
(* The bans through a step.                                                *)
(***************************************************************************)

LEMMA PointedKeeps ==
    ASSUME IInv, [Next]_vars, NEW k \in Key, Pointed(k), \A c \in Caller : Ops(c), ~Harmful(k)
    PROVE  Pointed(k)'
<1> SUFFICES ASSUME NEW c \in Caller, call'[c].key = k, pc'[c] \in {"limit", "take", "write"}
             PROVE  ptr'[c] = buckets'[k]
  BY DEF Pointed
<1>1. Moves(c) /\ Ops(c) /\ k # Nil
  BY EveryoneMoves, LimiterAssumption
<1>2. CASE pc[c] \in {"limit", "take", "write"} /\ call[c].key = k /\ ptr'[c] = ptr[c]
  <2>1. ptr[c] = buckets[k] /\ ptr[c] # Nil /\ Underway(c, k)
    BY <1>1, <1>2 DEF Pointed, IInv, LockInv, Ops, Underway
  <2> QED
    BY <1>2, <2>1 DEF Harmful, Removed
<1>3. CASE call[c].key = k /\ ptr'[c] = buckets'[call[c].key]
  BY <1>3
<1> QED
  BY <1>1, <1>2, <1>3 DEF Moves, AfterLookup

LEMMA JanitorsReading ==
    ASSUME IInv, gc.now <= clock, [Next]_vars
    PROVE  gc'.now <= clock' /\ clock <= clock' /\ clock \in Nat /\ clock' \in Nat
<1>1. clock \in Nat /\ gc \in GCType /\ gc.now \in Nat
  BY DEF IInv, TypeOK, GCType, Time
<1>2. CASE Tick
  BY <1>1, <1>2 DEF Tick
<1>3. CASE Collect \/ GCLock
  <2>1. UNCHANGED clock
    <3>1. ASSUME NEW k \in Key, GCVisit(k) PROVE UNCHANGED clock
      BY <3>1, Zenon DEF GCVisit
    <3>2. GCLock \/ GCStart \/ GCDrop \/ GCUnlock => UNCHANGED clock
      BY Zenon DEF GCLock, GCStart, GCDrop, GCUnlock
    <3> QED
      BY <1>3, <3>1, <3>2 DEF Collect
  <2>2. GCStart \/ GCUnlock => gc'.now \in {clock, 0}
    <3>1. NoGC.now = 0
      BY DEF NoGC
    <3>2. GCUnlock => gc' = NoGC
      BY DEF GCUnlock
    <3>3. ASSUME GCStart PROVE gc'.now = clock
      BY <1>1, <3>3 DEF GCStart, GCType
    <3> QED
      BY <3>1, <3>2, <3>3
  <2>3. ASSUME GCLock \/ GCDrop \/ \E k \in Key : GCVisit(k)
        PROVE  gc'.now = gc.now
    <3>1. CASE GCLock \/ GCDrop
      BY <1>1, <3>1 DEF GCLock, GCDrop, GCType
    <3>2. ASSUME NEW k \in Key, GCVisit(k) PROVE gc'.now = gc.now
      BY <1>1, <3>2 DEF GCVisit, GCType
    <3> QED
      BY <2>3, <3>1, <3>2
  <2> QED
    BY <1>1, <1>3, <2>1, <2>2, <2>3 DEF Collect
<1>4. ASSUME NEW c \in Caller,
             (\E k \in Key : CallAllow(c, k)) \/ Acquire(c) \/ Respond(c)
      PROVE  UNCHANGED <<clock, gc>>
  BY <1>4 DEF CallAllow, Acquire, LookupHit, LookupCreate, LookupFull, Find, Respond, Settle, Fail
<1>5. ASSUME NEW c \in Caller, Proceed(c) PROVE UNCHANGED <<clock, gc>>
  <2>1. ASSUME NEW k \in Key, EvictVisit(c, k) PROVE UNCHANGED <<clock, gc>>
    BY <2>1, Zenon DEF EvictVisit
  <2> QED
    BY <1>5, <2>1 DEF Proceed, EvictCommit, ReadLimit, TakeBlocked, TakeGrant, TakeDeny, Write,
                      Give, Leave
<1> QED
  BY <1>1, <1>2, <1>3, <1>4, <1>5 DEF Next, vars

LEMMA OverStays ==
    ASSUME HInv, IInv, [Next]_vars, NEW k \in Key, Over(k), ban'[k] = ban[k]
    PROVE  Over(k)'
<1>1. clock <= clock' /\ clock \in Nat /\ clock' \in Nat /\ ban[k] \in Nat
  BY JanitorsReading DEF HInv
<1>2. ASSUME NEW c \in Caller, Underway(c, k)' PROVE ban'[k] <= call'[c].now
  <2>1. Moves(c) /\ Ops(c)
    BY EveryoneMoves DEF HInv
  <2>2. (Underway(c, k) /\ call'[c].now = call[c].now) \/ call'[c].now = clock
    BY <1>2, <2>1, UnderwaySince
  <2> QED
    BY <2>2 DEF Over
<1> QED
  BY <1>1, <1>2 DEF Over

\* A removal that does no harm takes a bucket whose block is over.
LEMMA HarmlessOver ==
    ASSUME HInv, IInv, NEW k \in Key, Blocks(k), Removed(k), ~Harmful(k)
    PROVE  Over(k)
<1>1. gc.now \in Nat /\ clock \in Nat /\ ban[k] \in Nat /\ heap[buckets[k]] \in BucketType
  BY DEF IInv, TypeOK, GCType, Time, HInv, Blocks
<1>2. ~Blocked(heap[buckets[k]], gc.now) /\ \A c \in Caller : ~Underway(c, k)
  BY DEF Harmful, Collectable
<1> QED
  BY <1>1, <1>2 DEF Over, Blocks, Blocked, HInv, BucketType, Time

\* A 429 that does not shorten a block leaves the key blocked for its bans.
LEMMA BanBlocks ==
    ASSUME HInv, WInv, [Next]_vars, Promise, NEW k \in Key, torn[k] = {}, torn'[k] = {},
           NEW d \in Caller, Banning(d, k)
    PROVE  Blocks(k)'
<1>0. IInv
  BY DEF WInv
<1> DEFINE c == CHOOSE e \in Caller : Banning(e, k)
           seen == Observed(heap[ptr[c]], call[c].now, call[c].header, call[c].retry)
           locals == [NoCall EXCEPT !.op = "refund", !.key = call[c].key]
<1>1. c \in Caller /\ Banning(c, k)
  OBVIOUS
<1>2. ban'[k] = Greater(ban[k], call[c].now + call[c].retry)
  BY DEF Promise
<1>3. ~Shortens(c, k)
  BY <1>1 DEF Promise
<1> HIDE DEF c
<1>4. Write(c) /\ pc[c] = "write" /\ call[c].key = k /\ call[c].retry > 0
  BY <1>0, <1>1, BanningWrites DEF Banning
<1>5. call[c].now \in Nat /\ call[c].retry \in Nat /\ ban[k] \in Nat
  BY <1>0, <1>1 DEF IInv, TypeOK, CallType, Time, HInv
<1>6. ban'[k] = call[c].now + call[c].retry
  BY <1>1, <1>2, <1>3, <1>5 DEF Shortens, Greater
<1>7. ptr[c] = buckets[k] /\ ptr[c] \in BucketId /\ ptr[c] # Nil /\ heap[ptr[c]] \in BucketType
  BY <1>0, <1>1, <1>4, InSection DEF HInv, Pointed, IInv, LockInv
<1>8. Leave(c, seen, "find", locals) \/ Leave(c, seen, "idle", NoCall)
  BY <1>4 DEF Write
<1>9. seen.blockedUntil = call[c].now + call[c].retry
  BY <1>4, <1>7 DEF Observed, BucketType
<1> HIDE DEF seen, locals
<1>10. heap'[buckets[k]] = seen /\ buckets' = buckets
  BY <1>0, <1>1, <1>7, <1>8, LeaveBlocks DEF Leave
<1> QED
  BY <1>5, <1>6, <1>7, <1>9, <1>10 DEF Blocks

LEMMA BanType ==
    ASSUME IInv, ban \in [Key -> Nat], Promise
    PROVE  ban' \in [Key -> Nat]
<1>1. ASSUME NEW k \in Key, NEW c \in Caller
      PROVE  Greater(ban[k], call[c].now + call[c].retry) \in Nat
  BY DEF IInv, TypeOK, CallType, Time, Greater
<1> QED
  BY <1>1 DEF Promise

LEMMA HInvInit == PInit => HInv
<1> SUFFICES ASSUME PInit PROVE HInv
  OBVIOUS
<1>1. Nil \notin Key
  BY LimiterAssumption
<1> QED
  BY <1>1 DEF PInit, WInit, Init, NoGC, NoCall, HInv, Ops, Pointed, Over, Underway

LEMMA HInvNext ==
    ASSUME WInv, HInv, [PNext]_<<vars, windowVars, promiseVars>>
    PROVE  HInv'
<1>1. CASE UNCHANGED <<vars, windowVars, promiseVars>>
  BY <1>1 DEF vars, promiseVars, HInv, Ops, Pointed, Over, Underway, Blocks
<1>2. CASE PNext
  <2>1. [Next]_vars /\ Promise /\ IInv
    BY <1>2 DEF PNext, WNext, WInv
  <2>2. ban' \in [Key -> Nat]
    BY <2>1, BanType DEF HInv
  <2>3. \A c \in Caller : Ops(c)'
    BY <2>1, EveryoneMoves, OpsKeeps DEF HInv
  <2>4. gc'.now <= clock'
    BY <2>1, JanitorsReading DEF HInv
  <2>5. ASSUME NEW k \in Key, torn'[k] = {}
        PROVE  Pointed(k)' /\ (Over(k)' \/ Blocks(k)')
    <3>1. torn[k] = {} /\ ~Harmful(k)
      BY <2>1, <2>5 DEF Promise
    <3>2. Pointed(k) /\ (Over(k) \/ Blocks(k))
      BY <3>1 DEF HInv
    <3>3. Pointed(k)'
      BY <2>1, <3>1, <3>2, PointedKeeps DEF HInv
    <3>4. CASE \E c \in Caller : Banning(c, k)
      BY <2>1, <2>5, <3>1, <3>3, <3>4, BanBlocks
    <3>5. CASE \A c \in Caller : ~Banning(c, k)
      <4>1. ban'[k] = ban[k]
        BY <2>1, <3>5 DEF Promise
      <4>2. CASE Over(k) \/ Removed(k)
        BY <2>1, <3>1, <3>2, <3>3, <4>1, <4>2, HarmlessOver, OverStays
      <4>3. CASE Blocks(k) /\ ~Removed(k)
        <5>1. buckets[k] # Nil /\ buckets'[k] = buckets[k]
          BY <4>3 DEF Blocks, Removed
        <5>2. heap'[buckets[k]].blockedUntil = heap[buckets[k]].blockedUntil
          BY <2>1, <3>5, <5>1, BlockStands
        <5> QED
          BY <3>3, <4>1, <4>3, <5>1, <5>2 DEF Blocks
      <4> QED
        BY <3>2, <4>2, <4>3
    <3> QED
      BY <3>4, <3>5
  <2> QED
    BY <2>2, <2>3, <2>4, <2>5 DEF HInv
<1> QED
  BY <1>1, <1>2

LEMMA GrantAfterBans ==
    ASSUME WInv, HInv, [PNext]_<<vars, windowVars, promiseVars>>,
           NEW c \in Caller, Granting(c), torn[call[c].key] = {}
    PROVE  call[c].now >= ban[call[c].key]
<1> DEFINE k == call[c].key
<1>1. [Next]_vars /\ IInv
  BY DEF PNext, WNext, WInv, vars
<1>2. k \in Key /\ pc[c] = "take" /\ call[c].now \in Nat
  BY <1>1 DEF Granting, IInv, TypeOK, CallType, Time, Working
<1>3. ban[k] \in Nat /\ Pointed(k) /\ (Over(k) \/ Blocks(k)) /\ Ops(c)
  BY <1>2 DEF HInv
<1>4. CASE Over(k)
  BY <1>2, <1>3, <1>4 DEF Over, Underway, Ops
<1>5. CASE Blocks(k)
  <2>1. ptr[c] = buckets[k] /\ heap[ptr[c]] \in BucketType
    BY <1>1, <1>2, <1>3, InSection DEF Pointed, IInv
  <2>2. ~Blocked(heap[ptr[c]], call[c].now)
    BY <1>1, <1>2, GrantingTakes DEF TakeGrant
  <2> QED
    BY <1>2, <1>3, <1>5, <2>1, <2>2 DEF Blocks, Blocked, BucketType, Time
<1> QED
  BY <1>3, <1>4, <1>5

(***************************************************************************)
(* The bound on what a key is granted, over all its buckets.  A bucket     *)
(* spares n grants if it is Within after so many or more: what the key was *)
(* granted by buckets that are gone, and what late refunds give back to    *)
(* them, then leaves it its tokens.  A key without a bucket in use, which  *)
(* is to get a full one at a reading t, has room at t if that one spares   *)
(* what the key was granted.                                               *)
(***************************************************************************)
Spares(b, n, w, l) == \E v \in Int : n <= v /\ Within(b, v, w, l)

FullAt(t, l) == [last |-> t, tokens |-> Burst(l)]

Room(k, l, t) == Spares(FullAt(t, l), served[k], window, l)

Unused(k) == buckets[k] = Nil \/ heap[buckets[k]].last = 0

KeyKept(k, l) ==
    IF Unused(k)
    THEN Room(k, l, clock) /\ \A c \in Caller : Underway(c, k) => Room(k, l, call[c].now)
    ELSE Spares(heap[buckets[k]], served[k], window, l)

Concerns(k, l) ==
    l \in GroupLimits(k[2]) /\ Dominates(l, k[2], window) /\ l * MaxIdle >= Burst(l)

KInv ==
    /\ served \in [Key -> Int]
    /\ \A k \in Key : Gated(k) /\ "removal" \notin torn[k] =>
         Pointed(k) /\ \A l : Concerns(k, l) => KeyKept(k, l)

LEMMA ConcernsType ==
    ASSUME NEW k \in Key, Gated(k), NEW l, Concerns(k, l)
    PROVE  l \in Nat
  BY GatedGroup, LimitsType DEF Concerns

LEMMA FullFields ==
    ASSUME NEW t, NEW l
    PROVE  FullAt(t, l).last = t /\ FullAt(t, l).tokens = Burst(l)
  BY DEF FullAt

\* Room stays: time only adds to it.
LEMMA FullLater ==
    ASSUME NEW t \in Nat, NEW u \in Nat, t <= u, NEW v \in Int, NEW w \in Windows, NEW l \in Nat,
           Within(FullAt(t, l), v, w, l)
    PROVE  Within(FullAt(u, l), v, w, l)
<1> DEFINE spent == v * Token
           full == Burst(l)
           whole == l * (w[2] - w[1])
<1>1. w[1] \in Nat \ {0} /\ w[2] \in Nat /\ w[1] <= w[2] /\ full \in Nat /\ spent \in Int
  BY WindowAssumption, BurstType, TokenType
<1>2. whole \in Nat /\ (v = 0 => spent = 0)
  BY <1>1, ProductNat, TokenType
<1>3. /\ t < w[1] => v = 0
      /\ In(t, w) => spent + full <= full + l * (t - w[1])
      /\ t > w[2] => spent <= full + whole
  BY FullFields DEF Within
<1>4. ASSUME w[1] <= u
      PROVE  /\ In(t, w) => l * (t - w[1]) <= l * (u - w[1])
             /\ In(t, w) => l * (t - w[1]) <= whole
             /\ l * (u - w[1]) \in Nat /\ l * (t - w[1]) \in Int
  <2>1. In(t, w) => w[1] <= t /\ t <= w[2]
    BY DEF In
  <2> QED
    BY <1>1, <1>4, <2>1, ProductNat, ProductMono
<1> HIDE DEF spent, full, whole
<1>5. ASSUME In(u, w) PROVE spent + full <= full + l * (u - w[1])
  BY <1>1, <1>2, <1>3, <1>4, <1>5 DEF In
<1>6. ASSUME u > w[2] PROVE spent <= full + whole
  BY <1>1, <1>2, <1>3, <1>4, <1>6 DEF In
<1>7. u < w[1] => v = 0
  BY <1>1, <1>3
<1> QED
  BY <1>5, <1>6, <1>7, FullFields DEF Within, spent, full, whole

\* allow's first use of a bucket, at a reading the key has room at.
LEMMA StartedWithin ==
    ASSUME NEW t \in Nat, NEW v \in Int, NEW w \in Windows, NEW l \in Nat, NEW limit \in Nat,
           Within(FullAt(t, l), v, w, l), In(t, w) => limit <= l,
           NEW r, r.last = t, r.tokens = Burst(limit)
    PROVE  Within(r, v, w, l)
<1>1. In(t, w) => Burst(limit) <= Burst(l)
  BY BurstMono
<1>2. Burst(l) \in Nat /\ Burst(limit) \in Nat /\ v * Token \in Int /\ w[1] \in Nat
  BY BurstType, TokenType, WindowAssumption
<1>3. l * (t - w[1]) \in Int
  BY <1>2
<1>4. /\ t < w[1] => v = 0
      /\ In(t, w) => v * Token + Burst(l) <= Burst(l) + l * (t - w[1])
      /\ t > w[2] => v * Token <= Burst(l) + l * (w[2] - w[1])
  BY FullFields DEF Within
<1>5. In(t, w) => v * Token + Burst(limit) <= Burst(l) + l * (t - w[1])
  BY <1>1, <1>2, <1>3, <1>4
<1> QED
  BY <1>4, <1>5 DEF Within

\* An idle bucket would have filled up: a key GC forgets has room.
LEMMA IdleRefills ==
    ASSUME NEW b \in BucketType, NEW t \in Nat, NEW v \in Int, NEW w \in Windows, NEW l \in Nat,
           Within(b, v, w, l), t - b.last > MaxIdle, l * MaxIdle >= Burst(l)
    PROVE  Within(FullAt(t, l), v, w, l)
<1> DEFINE spent == v * Token
           full == Burst(l)
           whole == l * (w[2] - w[1])
<1>1. /\ w[1] \in Nat \ {0} /\ w[2] \in Nat /\ w[1] <= w[2] /\ full \in Nat /\ spent \in Int
      /\ b.last \in Nat /\ b.tokens \in Nat /\ MaxIdle \in Nat
  BY WindowAssumption, BurstType, TokenType, LimiterAssumption DEF BucketType, Time
<1>2. whole \in Nat /\ (v = 0 => spent = 0)
  BY <1>1, ProductNat, TokenType
<1>3. /\ b.last < w[1] => v = 0
      /\ In(b.last, w) => spent + b.tokens <= full + l * (b.last - w[1])
      /\ b.last > w[2] => spent <= full + whole
  BY DEF Within
<1>4. l * (t - b.last) >= full
  <2>1. MaxIdle <= t - b.last /\ t - b.last \in Int
    BY <1>1
  <2>2. l * MaxIdle <= l * (t - b.last) /\ l * MaxIdle \in Int /\ l * (t - b.last) \in Int
    BY <1>1, <2>1, ProductMono
  <2> HIDE DEF full
  <2>3. full <= l * MaxIdle
    BY DEF full
  <2> QED
    BY <1>1, <2>2, <2>3
<1>5. ASSUME In(b.last, w)
      PROVE  /\ l * (t - w[1]) = l * (t - b.last) + l * (b.last - w[1])
             /\ l * (b.last - w[1]) <= whole
             /\ l * (b.last - w[1]) \in Nat /\ l * (t - b.last) \in Int
  <2>1. w[1] <= b.last /\ b.last <= w[2]
    BY <1>5 DEF In
  <2>2. t - w[1] = (t - b.last) + (b.last - w[1])
    BY <1>1
  <2> QED
    BY <1>1, <2>1, <2>2, ProductNat, ProductMono, ProductSum
<1>6. ASSUME w[1] <= t PROVE l * (t - w[1]) \in Nat
  BY <1>1, <1>6, ProductNat
<1> HIDE DEF spent, full, whole
<1>7. ASSUME In(t, w) PROVE spent + full <= full + l * (t - w[1])
  <2>1. w[1] <= t /\ t <= w[2]
    BY <1>7 DEF In
  <2>2. CASE b.last < w[1]
    BY <1>1, <1>2, <1>3, <1>6, <2>1, <2>2
  <2>3. CASE w[1] <= b.last
    <3>1. In(b.last, w)
      BY <1>1, <2>1, <2>3 DEF In
    <3> QED
      BY <1>1, <1>3, <1>4, <1>5, <3>1
  <2> QED
    BY <1>1, <2>2, <2>3
<1>8. ASSUME t > w[2] PROVE spent <= full + whole
  BY <1>1, <1>2, <1>3, <1>5, <1>8 DEF In
<1>9. t < w[1] => v = 0
  BY <1>1, <1>3
<1> QED
  BY <1>7, <1>8, <1>9, FullFields DEF Within, spent, full, whole

\* What a bucket spares stays, whatever its operations do; fewer grants are
\* spared by any bucket that spares more.
LEMMA SparesFewer ==
    ASSUME NEW b, NEW n \in Int, NEW m \in Int, m <= n, NEW w, NEW l, Spares(b, n, w, l)
    PROVE  Spares(b, m, w, l)
  BY DEF Spares

LEMMA RoomLater ==
    ASSUME NEW k \in Key, NEW l \in Nat, NEW t \in Nat, NEW u \in Nat, t <= u, window \in Windows,
           Room(k, l, t)
    PROVE  Room(k, l, u)
  BY FullLater DEF Room, Spares

\* The limit a call brings to its bucket is no more than any that concerns it.
LEMMA LimitBelow ==
    ASSUME WInv, NEW c \in Caller, pc[c] = "take", In(call[c].now, window),
           NEW l \in Nat, Dominates(l, call[c].key[2], window)
    PROVE  call[c].limit <= l
<1> DEFINE now == call[c].now
           most == GroupLimit(call[c].key[2], now) * Ratio
<1>1. IInv /\ call[c] \in CallType /\ window \in Windows /\ call[c].key[2] \in Group
  BY GatedGroup DEF WInv, IInv, Working, HistoryType, TypeOK
<1>2. now \in Nat /\ call[c].limit \in Nat
  BY <1>1 DEF CallType, Time
<1>3. most <= l
  <2>1. now \in window[1] .. window[2]
    BY <1>1, <1>2, WindowAssumption DEF In
  <2> QED
    BY <2>1 DEF Dominates
<1>4. most \in Nat
  BY <1>1, <1>2, GroupLimitType, RatioType, ProductNat DEF Time
<1>5. call[c].limit <= most
  BY DEF WInv, LimitTaken
<1> HIDE DEF most
<1> QED
  BY <1>2, <1>3, <1>4, <1>5

\* What a call finds in its section of allow, once it has refilled the bucket.
LEMMA ReadySpares ==
    ASSUME WInv, NEW c \in Caller, pc[c] = "take", call[c].op = "allow",
           NEW k \in Key, call[c].key = k, ptr[c] = buckets[k],
           NEW l \in Nat, Dominates(l, k[2], window), served[k] \in Int, KeyKept(k, l)
    PROVE  Spares(Ready(c), served[k], window, l)
<1> DEFINE b == heap[ptr[c]]
           now == call[c].now
           r == Ready(c)
<1>1. /\ IInv /\ window \in Windows /\ b \in BucketType /\ now \in Nat /\ call[c].limit \in Nat
      /\ now \in Time /\ ptr[c] # Nil
  BY ReadyType DEF WInv, HistoryType, CallType, Time, IInv, LockInv
<1>2. In(now, window) => call[c].limit <= l
  BY LimitBelow
<1>3. r = Refilled(b, now, call[c].limit)
  BY DEF Ready
<1>4. CASE Unused(k)
  <2>1. b.last = 0
    BY <1>1, <1>4 DEF Unused
  <2>2. PICK v \in Int : served[k] <= v /\ Within(FullAt(now, l), v, window, l)
    BY <1>4 DEF KeyKept, Underway, Room, Spares
  <2>3. r.last = now /\ r.tokens = Burst(call[c].limit)
    BY <1>1, <1>3, <2>1, RefilledFields
  <2> HIDE DEF r, now
  <2> QED
    BY <1>1, <1>2, <2>2, <2>3, StartedWithin DEF Spares, now, r
<1>5. CASE ~Unused(k)
  <2>1. PICK v \in Int : served[k] <= v /\ Within(b, v, window, l)
    BY <1>5 DEF KeyKept, Spares
  <2>2. Within(r, v, window, l)
    BY <1>1, <1>2, <1>3, <2>1, RefilledWithin
  <2> QED
    BY <2>1, <2>2 DEF Spares
<1> QED
  BY <1>4, <1>5

(***************************************************************************)
(* What a step does to the bucket the map has for a key.                   *)
(***************************************************************************)

\* A bucket the map did not have before is new.
LEMMA MappedNew ==
    ASSUME IInv, [Next]_vars, NEW k \in Key, buckets'[k] # buckets[k], buckets'[k] # Nil
    PROVE  heap'[buckets'[k]].last = 0
<1> DEFINE a == buckets'[k]
<1>1. ASSUME NEW c \in Caller, NEW b \in BucketId, LookupCreate(c, b) \/ EvictCommit(c, b)
      PROVE  heap'[a].last = 0
  <2> DEFINE h == [heap EXCEPT ![b] = NewBucket(call[c].now)]
  <2>1. b = a /\ b \in Live(buckets', ptr')
    BY <1>1 DEF LookupCreate, EvictCommit, IInv, TypeOK, Live
  <2>2. h[b] = NewBucket(call[c].now)
    BY DEF IInv, TypeOK
  <2>3. heap' = h \/ heap' = Swept(buckets', ptr', h)
    BY <1>1 DEF LookupCreate, EvictCommit
  <2>4. heap'[b] = h[b]
    <3> HIDE DEF h
    <3> QED
      BY <2>1, <2>3, SweptAt
  <2> QED
    BY <2>1, <2>2, <2>4 DEF NewBucket
<1>2. GCDrop => buckets'[k] \in {buckets[k], Nil}
  BY DEF GCDrop, IInv, TypeOK
<1>3. ASSUME NEW c \in Caller, Section(c) PROVE UNCHANGED buckets
  BY <1>3 DEF Section, TakeBlocked, TakeGrant, TakeDeny, Write, Give, Leave
<1> QED
  BY <1>1, <1>2, <1>3, StepKinds

\* What the janitor takes stays away; the others' removals do harm.
LEMMA HarmlessGone ==
    ASSUME IInv, [Next]_vars, NEW k \in Key, Removed(k), ~Harmful(k)
    PROVE  buckets'[k] = Nil /\ UNCHANGED <<clock, pc, call>>
<1>1. lmu = Janitor /\ Janitor \notin Caller /\ Janitor # Free
  BY LimiterAssumption DEF Harmful
<1>2. ASSUME NEW c \in Caller, NEW b \in BucketId, LookupCreate(c, b) \/ EvictCommit(c, b)
      PROVE  FALSE
  BY <1>1, <1>2 DEF LookupCreate, EvictCommit, IInv, LockInv
<1>3. GCDrop => buckets'[k] \in {buckets[k], Nil} /\ UNCHANGED <<clock, pc, call>>
  BY DEF GCDrop, IInv, TypeOK
<1>4. ASSUME NEW c \in Caller, Section(c) PROVE UNCHANGED buckets
  BY <1>4 DEF Section, TakeBlocked, TakeGrant, TakeDeny, Write, Give, Leave
<1> QED
  BY <1>2, <1>3, <1>4, StepKinds DEF Removed

(***************************************************************************)
(* The count of a key through a step.                                      *)
(***************************************************************************)

\* Nobody but Take and Give counts, and they for the goroutine that moves.
LEMMA CountQuiet ==
    ASSUME IInv, [Next]_vars, Promise, \A c \in Caller : ~Section(c), NEW k \in Key
    PROVE  served'[k] = served[k]
<1>1. \A c \in Caller : ~Granting(c) /\ ~Refunding(c)
  BY SectionLeft DEF Granting, Refunding
<1> QED
  BY <1>1 DEF Promise

LEMMA SectionAlone ==
    ASSUME IInv, NEW c \in Caller, Section(c), NEW d \in Caller, d # c
    PROVE  pc'[d] = pc[d] /\ call'[d] = call[d] /\ ptr'[d] = ptr[d]
<1>1. ASSUME NEW b, NEW place, NEW locals, Leave(c, b, place, locals)
      PROVE  pc'[d] = pc[d] /\ call'[d] = call[d] /\ ptr'[d] = ptr[d]
  BY <1>1 DEF Leave, IInv, TypeOK
<1> QED
  BY <1>1 DEF Section, TakeBlocked, TakeDeny, TakeGrant, Write, Give

LEMMA CountOfKey ==
    ASSUME IInv, Promise, NEW c \in Caller, Section(c), NEW k \in Key
    PROVE  served'[k] =
             IF call[c].key = k /\ Granting(c) /\ In(Ready(c).last, window) THEN served[k] + 1
             ELSE IF call[c].key = k /\ Refunding(c) /\ In(heap[ptr[c]].last, window)
             THEN served[k] - 1
             ELSE served[k]
<1>1. \A d \in Caller : d # c => ~Granting(d) /\ ~Refunding(d)
  BY SectionAlone DEF Granting, Refunding
<1> QED
  BY <1>1 DEF Promise

LEMMA CountsType ==
    ASSUME served \in [Key -> Int], Promise
    PROVE  served' \in [Key -> Int]
  BY DEF Promise

(***************************************************************************)
(* The bound of a key through a step.                                      *)
(***************************************************************************)

\* What holds of a step as seen by a key: time goes on, and who is at work on
\* the key was so before or has just read the clock.
KeyStep(k) ==
    /\ clock \in Nat /\ clock' \in Nat /\ clock <= clock'
    /\ window' = window /\ window \in Windows
    /\ served[k] \in Int /\ served'[k] \in Int
    /\ \A c \in Caller : Underway(c, k)' =>
         \/ Underway(c, k) /\ call'[c].now = call[c].now
         \/ call'[c].now = clock

\* A bucket that has granted nothing for its time has not come leaves all room.
LEMMA NothingRoom ==
    ASSUME NEW n \in Int, n <= 0, NEW t \in Nat, NEW l \in Nat, NEW w \in Windows
    PROVE  Spares(FullAt(t, l), n, w, l)
<1>1. w[1] \in Nat /\ w[2] \in Nat /\ w[1] <= w[2] /\ Burst(l) \in Nat /\ 0 * Token = 0
  BY WindowAssumption, BurstType, TokenType
<1>2. l * (w[2] - w[1]) \in Nat /\ (w[1] <= t => l * (t - w[1]) \in Nat)
  BY <1>1, ProductNat
<1>3. Within(FullAt(t, l), 0, w, l)
  BY <1>1, <1>2, FullFields DEF Within, In
<1> QED
  BY <1>3 DEF Spares

\* The key keeps its bucket as it is, or keeps having none in use.
LEMMA KeyStays ==
    ASSUME NEW k \in Key, NEW l \in Nat, KeyKept(k, l), KeyStep(k), served'[k] <= served[k],
           \/ Unused(k) /\ Unused(k)'
           \/ ~Unused(k) /\ ~Unused(k)' /\ heap'[buckets'[k]] = heap[buckets[k]]
    PROVE  KeyKept(k, l)'
<1> USE DEF KeyStep
<1>1. CASE ~Unused(k)
  BY <1>1, SparesFewer DEF KeyKept
<1>2. CASE Unused(k)
  <2>1. Room(k, l, clock) /\ Room(k, l, clock')
    BY <1>2, RoomLater DEF KeyKept
  <2>2. Spares(FullAt(clock', l), served'[k], window, l)
    BY <2>1, SparesFewer DEF Room
  <2>3. ASSUME NEW c \in Caller, Underway(c, k)'
        PROVE  Spares(FullAt(call'[c].now, l), served'[k], window, l)
    <3>1. Room(k, l, call'[c].now)
      BY <1>2, <2>1, <2>3 DEF KeyKept
    <3> QED
      BY <3>1, SparesFewer DEF Room
  <2> QED
    BY <1>2, <2>2, <2>3 DEF KeyKept, Room
<1> QED
  BY <1>1, <1>2

\* A section leaves the key's bucket with tokens the bound has room for.
LEMMA KeySection ==
    ASSUME NEW k \in Key, NEW l \in Nat, KeyStep(k), buckets'[k] # Nil,
           heap'[buckets'[k]].last \in Nat, \A c \in Caller : call'[c].now \in Nat,
           Spares(heap'[buckets'[k]], served'[k], window, l)
    PROVE  KeyKept(k, l)'
<1> USE DEF KeyStep
<1>1. CASE ~Unused(k)'
  BY <1>1 DEF KeyKept
<1>2. CASE Unused(k)'
  <2>1. served'[k] <= 0
    <3>1. PICK v \in Int : served'[k] <= v /\ Within(heap'[buckets'[k]], v, window, l)
      BY DEF Spares
    <3> QED
      BY <1>2, <3>1, WindowAssumption DEF Unused, Within
  <2>2. \A t \in Nat : Spares(FullAt(t, l), served'[k], window, l)
    BY <2>1, NothingRoom
  <2> QED
    BY <1>2, <2>2 DEF KeyKept, Room
<1> QED
  BY <1>1, <1>2

\* GC forgets an idle key: its bucket would have filled up.
LEMMA KeyForgotten ==
    ASSUME IInv, Clocked, gc.now <= clock, [Next]_vars, NEW k \in Key, NEW l \in Nat,
           KeyKept(k, l), KeyStep(k), served'[k] = served[k], l * MaxIdle >= Burst(l),
           Removed(k), ~Harmful(k)
    PROVE  KeyKept(k, l)'
<1> DEFINE b == heap[buckets[k]]
<1>1. buckets'[k] = Nil /\ UNCHANGED <<clock, pc, call>>
  BY HarmlessGone
<1>2. Unused(k)'
  BY <1>1 DEF Unused
<1>3. CASE Unused(k)
  BY <1>2, <1>3, KeyStays DEF KeyStep
<1>4. CASE ~Unused(k)
  <2>1. \A c \in Caller : ~Underway(c, k)
    BY DEF Harmful
  <2>2. b \in BucketType /\ clock \in Nat /\ gc.now \in Nat /\ window \in Windows /\ MaxIdle \in Nat
    BY LimiterAssumption DEF IInv, TypeOK, BucketType, GCType, Time, KeyStep, Removed
  <2>3. clock - b.last > MaxIdle
    <3>1. gc.now - b.lastSeen > MaxIdle /\ b.last <= b.lastSeen /\ b.last \in Nat /\ b.lastSeen \in Nat
      BY <2>2 DEF Harmful, Collectable, Idle, BucketType, Time
    <3> QED
      BY <2>2, <3>1
  <2>4. PICK v \in Int : served[k] <= v /\ Within(b, v, window, l)
    BY <1>4 DEF KeyKept, Spares
  <2>5. Within(FullAt(clock, l), v, window, l)
    BY <2>2, <2>3, <2>4, IdleRefills
  <2>6. Spares(FullAt(clock', l), served'[k], window', l)
    BY <1>1, <2>4, <2>5 DEF Spares, KeyStep
  <2>7. \A c \in Caller : ~Underway(c, k)'
    BY <1>1, <2>1 DEF Underway
  <2> QED
    BY <1>2, <2>6, <2>7 DEF KeyKept, Room
<1> QED
  BY <1>3, <1>4

\* The steps outside the bucket sections.
LEMMA KeyOutside ==
    ASSUME IInv, Clocked, gc.now <= clock, [Next]_vars, Promise, \A c \in Caller : ~Section(c),
           NEW k \in Key, NEW l \in Nat, KeyKept(k, l), KeyStep(k), l * MaxIdle >= Burst(l),
           ~Harmful(k)
    PROVE  KeyKept(k, l)'
<1>1. served'[k] = served[k]
  BY CountQuiet
<1>2. CASE Removed(k)
  BY <1>1, <1>2, KeyForgotten
<1>3. CASE buckets[k] # Nil /\ buckets'[k] = buckets[k]
  BY <1>1, <1>3, BucketStands, KeyStays DEF Unused, KeyStep
<1>4. CASE buckets[k] = Nil
  <2>1. Unused(k) /\ Unused(k)'
    BY <1>4, MappedNew DEF Unused
  <2> QED
    BY <1>1, <2>1, KeyStays DEF KeyStep
<1> QED
  BY <1>2, <1>3, <1>4 DEF Removed

\* A section on another bucket: late refunds only lower the count.
LEMMA KeyElsewhere ==
    ASSUME WInv, Promise, NEW k \in Key, Pointed(k), NEW c \in Caller, Section(c),
           ptr[c] # buckets[k], NEW l \in Nat, KeyKept(k, l), KeyStep(k)
    PROVE  KeyKept(k, l)'
<1>0. IInv
  BY DEF WInv
<1>1. served'[k] <= served[k]
  <2>1. ~(call[c].key = k /\ Granting(c))
    BY DEF Pointed, Granting
  <2> QED
    BY <1>0, <2>1, CountOfKey DEF KeyStep
<1>2. ASSUME NEW b, NEW place, NEW locals, Leave(c, b, place, locals) PROVE KeyKept(k, l)'
  <2>1. buckets' = buckets
    BY <1>2 DEF Leave
  <2>2. buckets[k] # Nil => heap'[buckets[k]] = heap[buckets[k]]
    BY <1>0, <1>2, LeaveBlocks
  <2> QED
    BY <1>1, <2>1, <2>2, KeyStays DEF Unused
<1> QED
  BY <1>2 DEF Section, TakeBlocked, TakeDeny, TakeGrant, Write, Give

\* A section that neither grants nor moves the bucket's time.
LEMMA KeyAnswered ==
    ASSUME IInv, IInv', NEW k \in Key, buckets[k] # Nil, NEW l \in Nat, KeyKept(k, l), KeyStep(k),
           NEW c \in Caller, NEW b, NEW place, NEW locals, Leave(c, b, place, locals),
           ptr[c] = buckets[k], b.last = heap[ptr[c]].last, served'[k] = served[k],
           \A v \in Int : Within(heap[ptr[c]], v, window, l) => Within(b, v, window, l)
    PROVE  KeyKept(k, l)'
<1>1. buckets' = buckets /\ heap'[buckets[k]] = b
  BY LeaveBlocks DEF Leave
<1>2. CASE Unused(k)
  BY <1>1, <1>2, KeyStays DEF Unused, KeyStep
<1>3. CASE ~Unused(k)
  <2>1. Spares(heap'[buckets'[k]], served'[k], window, l)
    BY <1>1, <1>3 DEF KeyKept, Spares
  <2>2. heap'[buckets'[k]].last \in Nat /\ \A d \in Caller : call'[d].now \in Nat
    BY <1>1 DEF IInv, TypeOK, BucketType, CallType, Time
  <2> QED
    BY <1>1, <2>1, <2>2, KeySection
<1> QED
  BY <1>2, <1>3

LEMMA KeyTake ==
    ASSUME WInv, IInv', Promise, NEW k \in Key, NEW l \in Nat, KeyKept(k, l), KeyStep(k),
           Dominates(l, k[2], window), NEW c \in Caller, Ops(c),
           TakeBlocked(c) \/ TakeDeny(c) \/ TakeGrant(c), ptr[c] = buckets[k]
    PROVE  KeyKept(k, l)'
<1> DEFINE b == heap[ptr[c]]
           now == call[c].now
<1>1. IInv /\ pc[c] = "take" /\ call[c].op = "allow" /\ Section(c)
  BY DEF WInv, TakeBlocked, TakeDeny, TakeGrant, Ops, Section
<1>2. /\ b \in BucketType /\ now \in Time /\ Ready(c) \in BucketType
      /\ ptr[c] # Nil /\ window \in Windows /\ served[k] \in Int
  BY <1>1, ReadyType DEF CallType, IInv, LockInv, KeyStep
<1>3. call[c].key = k
  BY <1>2, WorksOnKey
<1>4. Spares(Ready(c), served[k], window, l)
  BY <1>1, <1>2, <1>3, ReadySpares
<1>5. ASSUME NEW nb \in BucketType, NEW place, NEW locals, Leave(c, nb, place, locals),
             Spares(nb, served'[k], window, l)
      PROVE  KeyKept(k, l)'
  <2>1. buckets' = buckets /\ heap'[buckets[k]] = nb
    BY <1>1, <1>2, <1>5, LeaveBlocks DEF Leave
  <2>2. heap'[buckets'[k]].last \in Nat /\ \A d \in Caller : call'[d].now \in Nat
    BY <2>1 DEF IInv, TypeOK, BucketType, CallType, Time
  <2> QED
    BY <1>2, <1>5, <2>1, <2>2, KeySection
<1>6. CASE TakeBlocked(c)
  <2> DEFINE nb == Touched(b, now)
  <2>1. Leave(c, nb, "idle", NoCall) /\ pc'[c] = "idle"
    BY <1>1, <1>6 DEF TakeBlocked, Leave, IInv, TypeOK
  <2>2. served'[k] = served[k]
    BY <1>1, <2>1, CountOfKey DEF Granting, Refunding
  <2>3. nb.last = b.last
    BY DEF Touched
  <2>4. \A v \in Int : Within(b, v, window, l) => Within(nb, v, window, l)
    BY <1>2, ObservedWithin
  <2> HIDE DEF nb
  <2> QED
    BY <1>1, <1>2, <2>1, <2>2, <2>3, <2>4, KeyAnswered
<1>7. CASE TakeDeny(c)
  <2>1. Leave(c, Ready(c), "idle", NoCall) /\ pc'[c] = "idle"
    BY <1>1, <1>7 DEF TakeDeny, Leave, IInv, TypeOK
  <2>2. served'[k] = served[k]
    BY <1>1, <2>1, CountOfKey DEF Granting, Refunding
  <2> QED
    BY <1>2, <1>4, <1>5, <2>1, <2>2
<1>8. CASE TakeGrant(c)
  <2> DEFINE nb == Spent(Ready(c))
             locals == [NoCall EXCEPT !.op = "allow", !.key = call[c].key]
  <2>1. Leave(c, nb, "granted", locals) /\ pc'[c] = "granted"
    BY <1>1, <1>8 DEF TakeGrant, Leave, IInv, TypeOK
  <2>2. served'[k] = IF In(Ready(c).last, window) THEN served[k] + 1 ELSE served[k]
    BY <1>1, <1>3, <2>1, CountOfKey DEF Granting, Refunding
  <2>3. nb \in BucketType
    BY <1>2, <1>8, OperationsType DEF TakeGrant
  <2>4. PICK v \in Int : served[k] <= v /\ Within(Ready(c), v, window, l)
    BY <1>4 DEF Spares
  <2>5. Within(nb, IF In(Ready(c).last, window) THEN v + 1 ELSE v, window, l)
    BY <1>2, <2>4, SpentWithin
  <2> HIDE DEF nb, locals
  <2>6. Spares(nb, served'[k], window, l)
    BY <1>2, <2>2, <2>4, <2>5 DEF Spares
  <2> QED
    BY <1>5, <2>1, <2>3, <2>6
<1> QED
  BY <1>6, <1>7, <1>8

LEMMA KeyWrite ==
    ASSUME WInv, IInv', Promise, NEW k \in Key, NEW l \in Nat, KeyKept(k, l), KeyStep(k),
           NEW c \in Caller, Write(c), ptr[c] = buckets[k]
    PROVE  KeyKept(k, l)'
<1> DEFINE b == heap[ptr[c]]
           seen == Observed(b, call[c].now, call[c].header, call[c].retry)
           locals == [NoCall EXCEPT !.op = "refund", !.key = call[c].key]
<1>1. /\ IInv /\ pc[c] = "write" /\ Section(c) /\ b \in BucketType /\ ptr[c] # Nil
      /\ call[c].now \in Time /\ call[c].header \in Nat /\ call[c].retry \in Nat
  BY InSection DEF WInv, Write, Section, IInv, TypeOK, LockInv, CallType
<1>2. Leave(c, seen, "find", locals) \/ Leave(c, seen, "idle", NoCall)
  BY DEF Write
<1>3. served'[k] = served[k]
  BY <1>1, CountOfKey DEF Granting, Refunding
<1>4. seen.last = b.last
  BY <1>1, LastOf
<1>5. \A v \in Int : Within(b, v, window, l) => Within(seen, v, window, l)
  BY <1>1, ObservedWithin DEF KeyStep
<1> HIDE DEF seen, locals
<1> QED
  BY <1>1, <1>2, <1>3, <1>4, <1>5, KeyAnswered

LEMMA KeyGive ==
    ASSUME WInv, IInv', Promise, NEW k \in Key, NEW l \in Nat, KeyKept(k, l), KeyStep(k),
           NEW c \in Caller, Give(c), ptr[c] = buckets[k]
    PROVE  KeyKept(k, l)'
<1> DEFINE b == heap[ptr[c]]
           nb == Refunded(b)
<1>1. /\ IInv /\ pc[c] = "give" /\ Section(c) /\ b \in BucketType /\ ptr[c] # Nil
      /\ window \in Windows /\ served[k] \in Int
  BY InSection DEF WInv, Give, Section, IInv, LockInv, KeyStep
<1>2. Leave(c, nb, "idle", NoCall) /\ pc'[c] = "idle" /\ call[c].key = k
  BY <1>1, WorksOnKey DEF Give, Leave, IInv, TypeOK
<1>3. served'[k] = IF b.capacity > 0 /\ In(b.last, window) THEN served[k] - 1 ELSE served[k]
  BY <1>1, <1>2, CountOfKey DEF Granting, Refunding
<1>4. nb.last = b.last /\ nb \in BucketType
  BY <1>1, OperationsType DEF Refunded, BucketType, Time
<1>5. buckets' = buckets /\ heap'[buckets[k]] = nb
  BY <1>1, <1>2, LeaveBlocks DEF Leave
<1>6. CASE Unused(k)
  BY <1>1, <1>3, <1>4, <1>5, <1>6, KeyStays DEF Unused
<1>7. CASE ~Unused(k)
  <2>1. PICK v \in Int : served[k] <= v /\ Within(b, v, window, l)
    BY <1>1, <1>7 DEF KeyKept, Spares
  <2>2. Within(nb, IF b.capacity > 0 /\ In(b.last, window) THEN v - 1 ELSE v, window, l)
    BY <1>1, <2>1, RefundedWithin
  <2> HIDE DEF nb
  <2>3. Spares(nb, served'[k], window, l)
    BY <1>1, <1>3, <2>1, <2>2 DEF Spares
  <2>4. heap'[buckets'[k]].last \in Nat /\ \A d \in Caller : call'[d].now \in Nat
    BY <1>4, <1>5 DEF IInv, TypeOK, BucketType, CallType, Time
  <2> QED
    BY <1>1, <1>5, <2>3, <2>4, KeySection
<1> QED
  BY <1>6, <1>7

LEMMA KeyKeeps ==
    ASSUME WInv, IInv', Clocked, HInv, [Next]_vars, Promise, NEW k \in Key, Pointed(k), ~Harmful(k),
           NEW l \in Nat, Dominates(l, k[2], window), l * MaxIdle >= Burst(l), KeyKept(k, l), KeyStep(k)
    PROVE  KeyKept(k, l)'
<1>1. IInv /\ gc.now <= clock /\ \A c \in Caller : Ops(c)
  BY DEF WInv, HInv
<1>2. CASE \A c \in Caller : ~Section(c)
  BY <1>1, <1>2, KeyOutside
<1>3. ASSUME NEW c \in Caller, Section(c) PROVE KeyKept(k, l)'
  <2>1. CASE ptr[c] # buckets[k]
    BY <1>3, <2>1, KeyElsewhere
  <2>2. CASE ptr[c] = buckets[k]
    BY <1>1, <1>3, <2>2, KeyTake, KeyWrite, KeyGive DEF Section
  <2> QED
    BY <2>1, <2>2
<1> QED
  BY <1>2, <1>3

LEMMA KInvInit ==
    ASSUME PInit
    PROVE  KInv
<1>1. /\ clock = 1 /\ buckets = [k \in Key |-> Nil] /\ pc = [c \in Caller |-> "idle"]
      /\ call = [c \in Caller |-> NoCall] /\ served = [k \in Key |-> 0] /\ window \in Windows
  BY DEF PInit, WInit, Init
<1>2. ASSUME NEW k \in Key, Gated(k), NEW l, Concerns(k, l) PROVE KeyKept(k, l)
  <2>1. l \in Nat
    BY <1>2, ConcernsType
  <2>2. Unused(k) /\ \A c \in Caller : ~Underway(c, k)
    BY <1>1 DEF Unused, Underway, NoCall
  <2>3. Spares(FullAt(1, l), 0, window, l)
    BY <1>1, <2>1, NothingRoom
  <2> QED
    BY <1>1, <2>2, <2>3 DEF KeyKept, Room
<1> QED
  BY <1>1, <1>2 DEF KInv, Pointed

LEMMA KInvNext ==
    ASSUME WInv, WInv', Clocked, HInv, KInv, [PNext]_<<vars, windowVars, promiseVars>>
    PROVE  KInv'
<1>1. CASE UNCHANGED <<vars, windowVars, promiseVars>>
  BY <1>1 DEF vars, windowVars, promiseVars, KInv, Gated, Pointed, Concerns, KeyKept, Room, Unused,
              Underway
<1>2. CASE PNext
  <2>1. [Next]_vars /\ Promise /\ IInv /\ IInv' /\ window' = window /\ window \in Windows
    BY <1>2 DEF PNext, WNext, WInv, HistoryType, Record
  <2>2. served' \in [Key -> Int]
    BY <2>1, CountsType DEF KInv
  <2>3. ASSUME NEW k \in Key, Gated(k), "removal" \notin torn'[k]
        PROVE  Pointed(k)' /\ \A l : Concerns(k, l) => KeyKept(k, l)'
    <3>1. "removal" \notin torn[k] /\ ~Harmful(k)
      BY <2>1, <2>3 DEF Promise
    <3>2. Pointed(k) /\ \A l : Concerns(k, l) => KeyKept(k, l)
      BY <2>3, <3>1 DEF KInv
    <3>3. Pointed(k)'
      BY <2>1, <3>1, <3>2, PointedKeeps DEF HInv
    <3>4. KeyStep(k)
      <4>1. clock \in Nat /\ clock' \in Nat /\ clock <= clock'
        BY <2>1, JanitorsReading DEF HInv
      <4>2. ASSUME NEW c \in Caller, Underway(c, k)'
            PROVE  (Underway(c, k) /\ call'[c].now = call[c].now) \/ call'[c].now = clock
        BY <2>1, <4>2, EveryoneMoves, UnderwaySince DEF HInv
      <4> QED
        BY <2>1, <2>2, <4>1, <4>2 DEF KeyStep, KInv
    <3>5. ASSUME NEW l, Concerns(k, l) PROVE KeyKept(k, l)'
      <4>1. l \in Nat /\ KeyKept(k, l)
        BY <2>3, <3>2, <3>5, ConcernsType
      <4> QED
        BY <2>1, <3>1, <3>2, <3>4, <3>5, <4>1, KeyKeeps DEF Concerns
    <3> QED
      BY <3>3, <3>5
  <2> QED
    BY <2>1, <2>2, <2>3 DEF KInv, Gated, Concerns
<1> QED
  BY <1>1, <1>2

\* What is kept for a key bounds what it was granted.
LEMMA KeptBounds ==
    ASSUME IInv, Clocked, window \in Windows, clock >= window[1], NEW k \in Key, NEW l \in Nat,
           served[k] \in Int, KeyKept(k, l)
    PROVE  KeyBoundedBy(k, l)
<1> DEFINE spent(v) == v * Token
           full == Burst(l)
           added == l * (Lesser(clock, window[2]) - window[1])
<1>1. /\ window[1] \in Nat \ {0} /\ window[2] \in Nat /\ window[1] <= window[2] /\ clock \in Nat
      /\ full \in Nat
  BY WindowAssumption, BurstType DEF IInv, TypeOK, Time
<1>2. added \in Nat
  <2>1. Lesser(clock, window[2]) - window[1] \in Nat
    BY <1>1 DEF Lesser
  <2> QED
    BY <2>1, ProductNat
<1>3. ASSUME NEW v \in Int, served[k] <= v, spent(v) <= full + added PROVE KeyBoundedBy(k, l)
  <2>1. served[k] * Token <= v * Token /\ served[k] * Token \in Int /\ v * Token \in Int
    BY <1>3, TokenType, ProductMono
  <2> HIDE DEF full, added
  <2>2. served[k] * Token <= full + added
    BY <1>1, <1>2, <1>3, <2>1
  <2> QED
    BY <2>2 DEF KeyBoundedBy, full, added
<1>4. ASSUME NEW b, NEW v \in Int, Within(b, v, window, l), b.last \in Nat, b.tokens \in Nat,
             b.last <= clock
      PROVE  spent(v) <= full + added
  <2>1. spent(v) \in Int /\ (v = 0 => spent(v) = 0)
    BY TokenType
  <2>2. CASE b.last < window[1]
    BY <1>1, <1>2, <1>4, <2>1, <2>2 DEF Within
  <2>3. CASE In(b.last, window)
    <3> DEFINE some == l * (b.last - window[1])
    <3>1. b.last - window[1] <= Lesser(clock, window[2]) - window[1] /\ b.last - window[1] \in Nat
      BY <1>1, <1>4, <2>3 DEF In, Lesser
    <3>2. some <= added /\ some \in Nat
      BY <1>1, <3>1, ProductMono, ProductNat DEF Lesser
    <3>3. spent(v) + b.tokens <= full + some
      BY <1>4, <2>3 DEF Within
    <3> HIDE DEF spent, full, added, some
    <3> QED
      BY <1>1, <1>2, <1>4, <2>1, <3>2, <3>3
  <2>4. CASE b.last > window[2]
    <3>1. Lesser(clock, window[2]) = window[2]
      BY <1>1, <1>4, <2>4 DEF Lesser
    <3> QED
      BY <1>4, <2>4, <3>1 DEF Within
  <2> QED
    BY <1>1, <1>4, <2>2, <2>3, <2>4 DEF In
<1> HIDE DEF spent, full, added
<1>5. CASE Unused(k)
  <2>1. PICK v \in Int : served[k] <= v /\ Within(FullAt(clock, l), v, window, l)
    BY <1>5 DEF KeyKept, Room, Spares
  <2>2. FullAt(clock, l).last = clock /\ FullAt(clock, l).tokens \in Nat
    BY <1>1, FullFields DEF full
  <2>3. spent(v) <= full + added
    BY <1>1, <1>4, <2>1, <2>2
  <2> QED
    BY <1>3, <2>1, <2>3
<1>6. CASE ~Unused(k)
  <2>1. PICK v \in Int : served[k] <= v /\ Within(heap[buckets[k]], v, window, l)
    BY <1>6 DEF KeyKept, Spares
  <2>2. /\ heap[buckets[k]].last \in Nat /\ heap[buckets[k]].tokens \in Nat
        /\ heap[buckets[k]].last <= clock
    BY <1>6 DEF Unused, IInv, TypeOK, BucketType, Time, Clocked
  <2>3. spent(v) <= full + added
    BY <1>4, <2>1, <2>2
  <2> QED
    BY <1>3, <2>1, <2>3
<1> QED
  BY <1>5, <1>6

\* Everything the promises rest on.
LEMMA PromiseInvariance == PSpec => [](WInv /\ Clocked /\ HInv /\ KInv)
<1>1. PSpec => [](WInv /\ Clocked)
  <2>1. PInit => WInit /\ Init
    BY DEF PInit, WInit
  <2>2. [PNext]_<<vars, windowVars, promiseVars>> => [WNext]_<<vars, windowVars>> /\ [Next]_vars
    BY DEF PNext, WNext, vars
  <2> QED
    BY <2>1, <2>2, WindowInvariance, NeverAhead, PTL DEF PSpec, WSpec, Spec
<1>2. PInit => HInv /\ KInv
  BY HInvInit, KInvInit
<1>3. WInv /\ WInv' /\ Clocked /\ HInv /\ KInv /\ [PNext]_<<vars, windowVars, promiseVars>>
        => HInv' /\ KInv'
  BY HInvNext, KInvNext
<1> QED
  BY <1>1, <1>2, <1>3, PTL DEF PSpec

LEMMA KeyRateHolds == WInv /\ Clocked /\ KInv => KeyWindowBoundUnlessTorn
<1> SUFFICES ASSUME WInv, Clocked, KInv, NEW k \in Key, Gated(k), "removal" \notin torn[k],
                    clock >= window[1], NEW l \in GroupLimits(k[2]),
                    Dominates(l, k[2], window), l * MaxIdle >= Burst(l)
             PROVE  KeyBoundedBy(k, l)
  BY DEF KeyWindowBoundUnlessTorn, KeyBound
<1>1. Concerns(k, l) /\ l \in Nat
  BY ConcernsType DEF Concerns
<1>2. KeyKept(k, l) /\ served[k] \in Int
  BY <1>1 DEF KInv
<1> QED
  BY <1>1, <1>2, KeptBounds DEF WInv, HistoryType

\* A 429 of Toss is waited out (Observe, bucket.allow): collection, eviction,
\* re-creation and the stale readings and reordered answers of any number of
\* goroutines end no block early, but by a harmful removal or a shorter 429.
THEOREM BansHonoured == PSpec => BanHonouredUnlessTorn
<1>1. WInv /\ HInv /\ [PNext]_<<vars, windowVars, promiseVars>> =>
        [\A c \in Caller :
           Granting(c) /\ torn[call[c].key] = {} =>
             call[c].now >= ban[call[c].key]]_<<vars, windowVars, promiseVars>>
  BY GrantAfterBans
<1> QED
  BY <1>1, PromiseInvariance, PTL DEF PSpec, BanHonouredUnlessTorn

\* The limit of a client and group holds over all the buckets the key has had
\* (limiter.go:1-2): eviction of idle buckets by GC, their re-creation full, and
\* late refunds to buckets that are gone cannot raise it, whoever races whom,
\* unless a bucket is removed that a goroutine still works on.
THEOREM KeyRateLimited == PSpec => []KeyWindowBoundUnlessTorn
  BY KeyRateHolds, PromiseInvariance, PTL

=============================================================================
