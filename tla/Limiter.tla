------------------------------ MODULE Limiter -------------------------------
(***************************************************************************)
(* The rate limiter of internal/ratelimit/limiter.go under concurrent use: *)
(* request goroutines (Caller) that call Allow, then Observe and Refund as *)
(* the proxy pipeline does, and the janitor goroutine that runs GC.        *)
(*                                                                         *)
(* The grain is the mutex.  A section under a bucket's own mutex is one    *)
(* step: its holder never waits for anything.  The limiter's mutex is the  *)
(* variable lmu, because eviction and GC hold it over many bucket          *)
(* sections that other goroutines' bucket sections interleave with.        *)
(* Between two sections a goroutine keeps what it read: a clock reading    *)
(* (call.now), a limit (call.limit), a pointer to a bucket (ptr).          *)
(***************************************************************************)
EXTENDS Bucket, FiniteSets

CONSTANTS
    Client,          \* client identifiers
    OtherGroup,      \* group names New does not know
    Caller,          \* request goroutines
    BucketId,        \* heap addresses of buckets
    Nil, Free, Janitor,
    Enabled,         \* RATE_LIMIT_ENABLED
    MaxBuckets, SampleSize,
    MaxIdle,         \* GC's idle time, in ticks
    Header, Retry,   \* values of X-RateLimit-Limit and Retry-After, 0: absent
    MaxClock         \* bound on the clock

Key == Client \X (Group \union OtherGroup)

ASSUME LimiterAssumption ==
    /\ IsFiniteSet(Client) /\ IsFiniteSet(Group) /\ IsFiniteSet(OtherGroup)
    /\ IsFiniteSet(Caller) /\ IsFiniteSet(BucketId)
    /\ Group \cap OtherGroup = {}
    /\ Nil \notin BucketId \union Key
    /\ {Free, Janitor} \cap Caller = {} /\ Free # Janitor
    /\ Enabled \in BOOLEAN
    /\ MaxBuckets \in Nat \ {0} /\ SampleSize \in Nat \ {0}
    /\ Cardinality(BucketId) >= MaxBuckets + Cardinality(Caller)
    /\ MaxIdle \in Nat /\ MaxClock \in Nat \ {0}
    /\ Header \subseteq Nat /\ Retry \subseteq Nat

VARIABLES
    clock,           \* the time now() returns
    buckets,         \* [Key -> BucketId or Nil], the map
    heap,            \* [BucketId -> bucket], the buckets themselves
    lmu,             \* the holder of Limiter.mu
    pc, call, ptr,   \* of each caller: its place, its locals, its bucket
    scan,            \* locals of the evictLocked in progress
    gc               \* the janitor's place and locals

vars == <<clock, buckets, heap, lmu, pc, call, ptr, scan, gc>>

NoCall == [op |-> "none", key |-> Nil, now |-> 0, limit |-> 0,
           header |-> 0, retry |-> 0, refund |-> FALSE]
NoScan == [visited |-> {}, victim |-> Nil, oldest |-> 0,
           blocked |-> Nil, soonest |-> 0]
NoGC   == [pc |-> "wait", now |-> 0, todo |-> {}, doomed |-> Nil]

Places == {"idle", "lookup", "evict", "limit", "take", "granted",
           "write", "find", "give"}

CallType == [op : {"none", "allow", "observe", "refund"},
             key : Key \union {Nil}, now : Time, limit : Nat,
             header : Nat, retry : Nat, refund : BOOLEAN]
ScanType == [visited : SUBSET Key, victim : Key \union {Nil}, oldest : Time,
             blocked : Key \union {Nil}, soonest : Time]
GCType   == [pc : {"wait", "lock", "scan", "drop"}, now : Time,
             todo : SUBSET Key, doomed : Key \union {Nil}]

\* Every variable has its type; in particular no bucket's tokens are overdrawn.
TypeOK ==
    /\ clock \in Time \ {0}
    /\ buckets \in [Key -> BucketId \union {Nil}]
    /\ heap \in [BucketId -> BucketType]
    /\ lmu \in Caller \union {Janitor, Free}
    /\ pc \in [Caller -> Places]
    /\ call \in [Caller -> CallType]
    /\ ptr \in [Caller -> BucketId \union {Nil}]
    /\ scan \in ScanType
    /\ gc \in GCType

Init ==
    /\ clock = 1
    /\ buckets = [k \in Key |-> Nil]
    /\ heap = [b \in BucketId |-> NewBucket(0)]
    /\ lmu = Free
    /\ pc = [c \in Caller |-> "idle"]
    /\ call = [c \in Caller |-> NoCall]
    /\ ptr = [c \in Caller |-> Nil]
    /\ scan = NoScan
    /\ gc = NoGC

Mapped == {k \in Key : buckets[k] # Nil}

Gated(k) == Enabled /\ k[2] \in Group

\* A bucket neither the map nor a goroutine points to is garbage, and its
\* address may be used again.
Live(bs, ps) == {bs[k] : k \in Key} \union {ps[c] : c \in Caller}
Fresh == BucketId \ Live(buckets, ptr)

\* Fresh addresses differ in nothing: which one an allocation takes is fixed.
Allocates(b) == b \in Fresh /\ b = CHOOSE a \in Fresh : TRUE

Swept(bs, ps, h) ==
    [b \in BucketId |-> IF b \in Live(bs, ps) THEN h[b] ELSE NewBucket(0)]

(***************************************************************************)
(* The clock and the callers' entries into the limiter.                    *)
(***************************************************************************)
Tick ==
    /\ clock < MaxClock
    /\ clock' = clock + 1
    /\ UNCHANGED <<buckets, heap, lmu, pc, call, ptr, scan, gc>>

\* Allow, up to its getBucket: the clock is read before any mutex is taken.
CallAllow(c, k) ==
    /\ pc[c] = "idle"
    /\ pc' = [pc EXCEPT ![c] = IF Gated(k) THEN "lookup" ELSE "granted"]
    /\ call' = [call EXCEPT ![c] =
                  [NoCall EXCEPT !.op = "allow", !.key = k,
                                 !.now = IF Gated(k) THEN clock ELSE 0]]
    /\ UNCHANGED <<clock, buckets, heap, lmu, ptr, scan, gc>>

\* The upstream answered: settle, up to the getBucket of its Observe.  A 429
\* carries retry; a 401 or 403, which carries none, asks for a Refund.
Settle(c, header, retry, refund) ==
    /\ pc[c] = "granted"
    /\ retry > 0 => ~refund
    /\ IF Gated(call[c].key)
       THEN /\ pc' = [pc EXCEPT ![c] = "lookup"]
            /\ call' = [call EXCEPT ![c] =
                          [NoCall EXCEPT !.op = "observe", !.key = call[c].key,
                                         !.now = clock, !.header = header,
                                         !.retry = retry, !.refund = refund]]
       ELSE /\ pc' = [pc EXCEPT ![c] = "idle"]
            /\ call' = [call EXCEPT ![c] = NoCall]
    /\ UNCHANGED <<clock, buckets, heap, lmu, ptr, scan, gc>>

\* The upstream call failed: the request ends and nothing is settled.
FailRefunds(c) ==                                         \* mutant of Fail
    /\ pc[c] = "granted"
    /\ pc' = [pc EXCEPT ![c] = "find"]
    /\ call' = [call EXCEPT ![c] = [@ EXCEPT !.op = "refund"]]
    /\ UNCHANGED <<clock, buckets, heap, lmu, ptr, scan, gc>>
Fail(c) ==
    /\ pc[c] = "granted"
    /\ pc' = [pc EXCEPT ![c] = "idle"]
    /\ call' = [call EXCEPT ![c] = NoCall]
    /\ UNCHANGED <<clock, buckets, heap, lmu, ptr, scan, gc>>

(***************************************************************************)
(* getBucket.                                                              *)
(***************************************************************************)
FullBeyond == Cardinality(Mapped) > MaxBuckets            \* mutant of Full
Full == Cardinality(Mapped) >= MaxBuckets

AfterLookup(c) == IF call[c].op = "allow" THEN "limit" ELSE "write"

LookupHitOfGroup(c) ==                                    \* mutant of LookupHit
    /\ pc[c] = "lookup" /\ lmu = Free
    /\ \E k \in Mapped : k[2] = call[c].key[2] /\ ptr' = [ptr EXCEPT ![c] = buckets[k]]
    /\ pc' = [pc EXCEPT ![c] = AfterLookup(c)]
    /\ UNCHANGED <<clock, buckets, heap, lmu, call, scan, gc>>
LookupHit(c) ==
    /\ pc[c] = "lookup" /\ lmu = Free
    /\ call[c].key \in Mapped
    /\ ptr' = [ptr EXCEPT ![c] = buckets[call[c].key]]
    /\ pc' = [pc EXCEPT ![c] = AfterLookup(c)]
    /\ UNCHANGED <<clock, buckets, heap, lmu, call, scan, gc>>

LookupCreate(c, b) ==
    /\ pc[c] = "lookup" /\ lmu = Free
    /\ call[c].key \notin Mapped
    /\ ~Full
    /\ Allocates(b)
    /\ buckets' = [buckets EXCEPT ![call[c].key] = b]
    /\ heap' = [heap EXCEPT ![b] = NewBucket(call[c].now)]
    /\ ptr' = [ptr EXCEPT ![c] = b]
    /\ pc' = [pc EXCEPT ![c] = AfterLookup(c)]
    /\ UNCHANGED <<clock, lmu, call, scan, gc>>

LookupFull(c) ==
    /\ pc[c] = "lookup" /\ lmu = Free
    /\ call[c].key \notin Mapped
    /\ Full
    /\ lmu' = c
    /\ scan' = NoScan
    /\ pc' = [pc EXCEPT ![c] = "evict"]
    /\ UNCHANGED <<clock, buckets, heap, call, ptr, gc>>

EvictVisitUncounted(c, k) ==                              \* mutant of EvictVisit
    /\ pc[c] = "evict"
    /\ Cardinality(scan.visited) < SampleSize
    /\ k \in Mapped \ scan.visited
    /\ scan' = IF Blocked(heap[buckets[k]], call[c].now)
               THEN [scan EXCEPT !.blocked = k] ELSE [scan EXCEPT !.victim = k]
    /\ UNCHANGED <<clock, buckets, heap, lmu, pc, call, ptr, gc>>
\* One turn of evictLocked's loop: a bucket is read under its own mutex and
\* becomes the candidate of its kind if it is the oldest (the soonest) yet.
EvictVisit(c, k) ==
    /\ pc[c] = "evict"
    /\ Cardinality(scan.visited) < SampleSize
    /\ k \in Mapped \ scan.visited
    /\ LET b == heap[buckets[k]] IN
       scan' =
         IF Blocked(b, call[c].now)
         THEN IF scan.blocked = Nil \/ b.blockedUntil < scan.soonest
              THEN [scan EXCEPT !.visited = @ \union {k}, !.blocked = k,
                                !.soonest = b.blockedUntil]
              ELSE [scan EXCEPT !.visited = @ \union {k}]
         ELSE IF scan.victim = Nil \/ b.lastSeen < scan.oldest
              THEN [scan EXCEPT !.visited = @ \union {k}, !.victim = k,
                                !.oldest = b.lastSeen]
              ELSE [scan EXCEPT !.visited = @ \union {k}]
    /\ UNCHANGED <<clock, buckets, heap, lmu, pc, call, ptr, gc>>

Victim == IF scan.victim # Nil THEN scan.victim ELSE scan.blocked

\* The sample is complete: drop the victim, map a new bucket, unlock.
EvictCommit(c, b) ==
    /\ pc[c] = "evict"
    /\ scan.visited = Mapped \/ Cardinality(scan.visited) = SampleSize
    /\ Allocates(b)
    /\ buckets' = [buckets EXCEPT ![Victim] = Nil, ![call[c].key] = b]
    /\ ptr' = [ptr EXCEPT ![c] = b]
    /\ heap' = Swept(buckets', ptr', [heap EXCEPT ![b] = NewBucket(call[c].now)])
    /\ lmu' = Free
    /\ scan' = NoScan
    /\ pc' = [pc EXCEPT ![c] = AfterLookup(c)]
    /\ UNCHANGED <<clock, call, gc>>

(***************************************************************************)
(* The rest of Allow: effectiveLimit, which reads the bucket without its   *)
(* mutex, then bucket.allow under it.                                      *)
(***************************************************************************)
ReadLimit(c) ==
    /\ pc[c] = "limit"
    /\ call' = [call EXCEPT ![c].limit =
                  EffectiveLimit(call[c].key[2], heap[ptr[c]].adaptLimit, call[c].now)]
    /\ pc' = [pc EXCEPT ![c] = "take"]
    /\ UNCHANGED <<clock, buckets, heap, lmu, ptr, scan, gc>>

\* The caller's last section on its bucket leaves b there and drops the pointer.
Leave(c, b, place, locals) ==
    /\ ptr' = [ptr EXCEPT ![c] = Nil]
    /\ heap' = Swept(buckets, ptr', [heap EXCEPT ![ptr[c]] = b])
    /\ pc' = [pc EXCEPT ![c] = place]
    /\ call' = [call EXCEPT ![c] = locals]
    /\ UNCHANGED <<clock, buckets, lmu, scan, gc>>

Ready(c) == Refilled(heap[ptr[c]], call[c].now, call[c].limit)

TakeBlocked(c) ==
    /\ pc[c] = "take"
    /\ Blocked(heap[ptr[c]], call[c].now)
    /\ Leave(c, Touched(heap[ptr[c]], call[c].now), "idle", NoCall)

TakeDeny(c) ==
    /\ pc[c] = "take"
    /\ ~Blocked(heap[ptr[c]], call[c].now)
    /\ ~Affordable(Ready(c))
    /\ Leave(c, Ready(c), "idle", NoCall)

TakeGrant(c) ==
    /\ pc[c] = "take"
    /\ ~Blocked(heap[ptr[c]], call[c].now)
    /\ Affordable(Ready(c))
    /\ Leave(c, Spent(Ready(c)), "granted",
             [NoCall EXCEPT !.op = "allow", !.key = call[c].key])

\* The wait a denied caller is told.
DeniedWait(c) ==
    IF Blocked(heap[ptr[c]], call[c].now)
    THEN BlockWait(heap[ptr[c]], call[c].now)
    ELSE RefillWait(Ready(c), call[c].limit)

(***************************************************************************)
(* The rest of Observe, and Refund, which reads no clock.                  *)
(***************************************************************************)
Write(c) ==
    /\ pc[c] = "write"
    /\ LET seen == Observed(heap[ptr[c]], call[c].now, call[c].header, call[c].retry) IN
       IF call[c].refund
       THEN Leave(c, seen, "find", [NoCall EXCEPT !.op = "refund", !.key = call[c].key])
       ELSE Leave(c, seen, "idle", NoCall)

Find(c) ==
    /\ pc[c] = "find" /\ lmu = Free
    /\ IF call[c].key \in Mapped
       THEN /\ ptr' = [ptr EXCEPT ![c] = buckets[call[c].key]]
            /\ pc' = [pc EXCEPT ![c] = "give"]
            /\ UNCHANGED call
       ELSE /\ pc' = [pc EXCEPT ![c] = "idle"]
            /\ call' = [call EXCEPT ![c] = NoCall]
            /\ UNCHANGED ptr
    /\ UNCHANGED <<clock, buckets, heap, lmu, scan, gc>>

Give(c) ==
    /\ pc[c] = "give"
    /\ Leave(c, Refunded(heap[ptr[c]]), "idle", NoCall)

(***************************************************************************)
(* GC, which the janitor runs at every tick of its ticker.                 *)
(***************************************************************************)
GCStart ==
    /\ gc.pc = "wait"
    /\ gc' = [gc EXCEPT !.pc = "lock", !.now = clock]
    /\ UNCHANGED <<clock, buckets, heap, lmu, pc, call, ptr, scan>>

GCLockAtOnce ==                                           \* mutant of GCLock
    /\ gc.pc = "lock"
    /\ lmu' = Janitor
    /\ gc' = [gc EXCEPT !.pc = "scan", !.todo = Mapped]
    /\ UNCHANGED <<clock, buckets, heap, pc, call, ptr, scan>>
GCLock ==
    /\ gc.pc = "lock" /\ lmu = Free
    /\ lmu' = Janitor
    /\ gc' = [gc EXCEPT !.pc = "scan", !.todo = Mapped]
    /\ UNCHANGED <<clock, buckets, heap, pc, call, ptr, scan>>

IdleAtOnce(b, now) == now - b.lastSeen > 0                \* mutant of Idle
Idle(b, now) == now - b.lastSeen > MaxIdle

CollectableIfBlocked(b, now) == Idle(b, now) /\ Blocked(b, now)  \* mutant of Collectable
Collectable(b, now) == Idle(b, now) /\ ~Blocked(b, now)

\* A bucket is judged under its own mutex ...
GCVisit(k) ==
    /\ gc.pc = "scan" /\ k \in gc.todo
    /\ gc' = IF Collectable(heap[buckets[k]], gc.now)
             THEN [gc EXCEPT !.pc = "drop", !.todo = @ \ {k}, !.doomed = k]
             ELSE [gc EXCEPT !.todo = @ \ {k}]
    /\ UNCHANGED <<clock, buckets, heap, lmu, pc, call, ptr, scan>>

\* ... and deleted after that mutex is released.
GCDrop ==
    /\ gc.pc = "drop"
    /\ buckets' = [buckets EXCEPT ![gc.doomed] = Nil]
    /\ heap' = Swept(buckets', ptr, heap)
    /\ gc' = [gc EXCEPT !.pc = "scan", !.doomed = Nil]
    /\ UNCHANGED <<clock, lmu, pc, call, ptr, scan>>

GCUnlockForgotten ==                                      \* mutant of GCUnlock
    /\ gc.pc = "scan" /\ gc.todo = {}
    /\ gc' = NoGC
    /\ UNCHANGED <<clock, buckets, heap, lmu, pc, call, ptr, scan>>
GCUnlock ==
    /\ gc.pc = "scan" /\ gc.todo = {}
    /\ lmu' = Free
    /\ gc' = NoGC
    /\ UNCHANGED <<clock, buckets, heap, pc, call, ptr, scan>>

-----------------------------------------------------------------------------
\* Steps of a call in progress that need the limiter's mutex, and the others.
Acquire(c) ==
    \/ LookupHit(c)
    \/ \E b \in BucketId : LookupCreate(c, b)
    \/ LookupFull(c)
    \/ Find(c)

Proceed(c) ==
    \/ \E k \in Key : EvictVisit(c, k)
    \/ \E b \in BucketId : EvictCommit(c, b)
    \/ ReadLimit(c)
    \/ TakeBlocked(c) \/ TakeGrant(c) \/ TakeDeny(c)
    \/ Write(c)
    \/ Give(c)

Respond(c) ==
    \/ \E h \in Header \union {0}, r \in Retry \union {0}, refund \in BOOLEAN :
         Settle(c, h, r, refund)
    \/ Fail(c)

Collect ==
    \/ GCStart
    \/ \E k \in Key : GCVisit(k)
    \/ GCDrop
    \/ GCUnlock

Next ==
    \/ Tick
    \/ \E c \in Caller :
         \/ \E k \in Key : CallAllow(c, k)
         \/ Acquire(c) \/ Proceed(c) \/ Respond(c)
    \/ GCLock
    \/ Collect

Spec == Init /\ [][Next]_vars

\* A goroutine that can run does run.  sync.Mutex hands itself to a waiter
\* that has waited too long, hence strong fairness where the mutex is taken;
\* the HTTP client's timeout bounds the wait for the upstream.  No client has
\* to send a request, and the clock may stop.
Fairness ==
    /\ \A c \in Caller :
         SF_vars(Acquire(c)) /\ WF_vars(Proceed(c)) /\ WF_vars(Respond(c))
    /\ SF_vars(GCLock) /\ WF_vars(Collect)

FairSpec == Spec /\ Fairness

-----------------------------------------------------------------------------
\* The limiter's mutex excludes: whoever evicts or collects is its one holder,
\* so every key a sweep still has to read or to delete is mapped, and a
\* goroutine inside a bucket section has a bucket to work on.
LockInv ==
    /\ \A c \in Caller : pc[c] = "evict" <=> lmu = c
    /\ gc.pc \in {"scan", "drop"} <=> lmu = Janitor
    /\ scan.visited \union {scan.victim, scan.blocked} \subseteq Mapped \union {Nil}
    /\ gc.todo \union {gc.doomed} \subseteq Mapped \union {Nil}
    /\ gc.pc = "drop" <=> gc.doomed # Nil
    /\ \A c \in Caller : pc[c] \in {"limit", "take", "write", "give"} <=> ptr[c] # Nil

\* However many goroutines create buckets at once, and whatever the sample of
\* an eviction holds, the map never outgrows maxBuckets.
BucketMapBounded == Cardinality(Mapped) <= MaxBuckets

\* What LockInv and BucketMapBounded need to be inductive: a goroutine in the
\* limiter works on a key that is gated, and in allow at a limit it can divide by
\* (the code's branch for a rate that is not positive is dead); an eviction is for a key that is not
\* mapped, in a full map, and a scan that has visited a bucket has a candidate;
\* a scan and a sweep exist only under the mutex.
Working ==
    \A c \in Caller :
        /\ pc[c] # "idle" => call[c].key \in Key
        /\ pc[c] \notin {"idle", "granted"} => Gated(call[c].key)
        /\ pc[c] = "take" => call[c].limit > 0

Sweeping ==
    /\ \A c \in Caller : pc[c] = "evict" => call[c].key \notin Mapped /\ Full
    /\ scan.visited # {} => scan.victim # Nil \/ scan.blocked # Nil
    /\ lmu \notin Caller => scan = NoScan
    /\ lmu # Janitor => gc.todo = {} /\ gc.doomed = Nil
    /\ gc.doomed \notin gc.todo

IInv == TypeOK /\ LockInv /\ BucketMapBounded /\ Working /\ Sweeping

\* No bucket's time and no clock reading is ahead of the clock.
Clocked ==
    /\ \A b \in BucketId : heap[b].last <= clock
    /\ \A c \in Caller : call[c].now <= clock

\* limiter.go:84 says the limiter is safe for concurrent use: no goroutine reads
\* adaptLimit, which Observe writes, without the bucket's mutex.
NoUnguardedRead ==
    \A c, d \in Caller :
        ~ /\ pc[c] = "limit" /\ pc[d] = "write"
          /\ ptr[c] = ptr[d] /\ call[d].header > 0

\* The holder of the limiter's mutex is never stuck with everyone else waiting
\* for it: an eviction has a bucket left to read, or a victim in the map and a
\* bucket to replace it by; the janitor is in its sweep.
HolderCanGoOn ==
    /\ lmu \in Caller =>
         \/ Cardinality(scan.visited) < SampleSize /\ ~(Mapped \subseteq scan.visited)
         \/ /\ scan.visited = Mapped \/ Cardinality(scan.visited) = SampleSize
            /\ Victim \in Mapped /\ Fresh # {}
    /\ lmu = Janitor => gc.pc = "scan" \/ (gc.pc = "drop" /\ gc.doomed \in Mapped)

\* limiter.go:180 says an eviction takes a bounded time: each of the holder's steps
\* brings the unlock nearer, and nobody else's puts it off, the buckets that
\* other goroutines use meanwhile notwithstanding.
Held == IF lmu = Janitor THEN gc ELSE scan
Left ==
    IF lmu = Janitor
    THEN 2 * Cardinality(gc.todo) + (IF gc.pc = "drop" THEN 1 ELSE 0)
    ELSE SampleSize - Cardinality(scan.visited)

SweepAdvances ==
    [][lmu # Free /\ lmu' = lmu =>
         IF Held' = Held THEN Left' = Left ELSE Left' \in 0 .. Left - 1]_vars

\* No call waits forever: neither for the mutex that eviction and GC hold over
\* many bucket sections, nor in a sweep that never ends.
EveryCallReturns == \A c \in Caller : pc[c] # "idle" ~> pc[c] = "idle"

\* A bucket that stays idle past MaxIdle and unblocked is collected in the end:
\* the map does not keep the buckets of clients that are gone.
Stale(k) == k \in Mapped /\ Idle(heap[buckets[k]], clock) /\ ~Blocked(heap[buckets[k]], clock)
IdleReclaimed == \A k \in Key : Stale(k) ~> ~Stale(k)

=============================================================================
