----------------------------- MODULE PaidProofs -----------------------------
(***************************************************************************)
(* What a request has paid when it is answered, for any number of          *)
(* requests, clients and endpoints and through every eviction and          *)
(* collection.                                                             *)
(***************************************************************************)
EXTENDS GatewayProofs

(***************************************************************************)
(* A bucket that has granted keeps its capacity while the map keeps it.    *)
(***************************************************************************)

\* The limiter is asked about keys it knows.
LEMMA RequestKey ==
    ASSUME NEW r \in Request
    PROVE  KeyOf(r) \in Key
<1>1. r.client \in Client /\ r.endpoint \in Endpoint
  BY DEF Request
<1>2. Route[r.endpoint].group \in Group \union OtherGroup
  BY <1>1, GatewayAssumption
<1> QED
  BY <1>1, <1>2 DEF KeyOf, Key

\* Only allow changes a bucket's capacity, and makes it positive.
LEMMA Capacities ==
    ASSUME NEW b \in BucketType
    PROVE  /\ \A now : Touched(b, now).capacity = b.capacity
           /\ \A now, header, retry : Observed(b, now, header, retry).capacity = b.capacity
           /\ Refunded(b).capacity = b.capacity
           /\ Spent(b).capacity = b.capacity
           /\ \A now, limit \in Nat : Refilled(b, now, limit).capacity > 0
<1>1. ASSUME NEW now, NEW header, NEW retry
      PROVE  /\ Touched(b, now).capacity = b.capacity
             /\ Observed(b, now, header, retry).capacity = b.capacity
  BY DEF Touched, Observed, BucketType
<1>2. Refunded(b).capacity = b.capacity /\ Spent(b).capacity = b.capacity
  BY DEF Refunded, Spent, BucketType
<1>3. ASSUME NEW now, NEW limit \in Nat PROVE Refilled(b, now, limit).capacity > 0
  <2> DEFINE cap == Burst(limit)
  <2>1. cap > 0
    BY BurstType, TokenType
  <2> HIDE DEF cap
  <2>2. Refilled(b, now, limit).capacity = cap
    BY DEF Refilled, Started, BucketType, cap
  <2> QED
    BY <2>1, <2>2
<1> QED
  BY <1>1, <1>2, <1>3

LEMMA TakenCapacity ==
    ASSUME IInv, NEW c \in Caller, pc[c] = "take"
    PROVE  Ready(c).capacity > 0 /\ Spent(Ready(c)).capacity > 0
<1> DEFINE b == heap[ptr[c]]
<1>1. b \in BucketType /\ Ready(c) \in BucketType
  BY ReadyType
<1>2. call[c].now \in Nat /\ call[c].limit \in Nat
  BY ReadyType DEF CallType, Time
<1>3. \A now, limit \in Nat : Refilled(b, now, limit).capacity > 0
  BY <1>1, Capacities
<1>4. Ready(c).capacity > 0
  BY <1>2, <1>3 DEF Ready
<1>5. Spent(Ready(c)).capacity = Ready(c).capacity
  BY <1>1, Capacities
<1> QED
  BY <1>4, <1>5

\* A section that leaves its bucket with a capacity leaves every mapped one so.
LEMMA LeaveKeepsCapacity ==
    ASSUME IInv, NEW k \in Key, buckets[k] # Nil, heap[buckets[k]].capacity > 0,
           NEW c \in Caller, NEW b, NEW place, NEW locals, Leave(c, b, place, locals),
           ptr[c] = buckets[k] => b.capacity > 0
    PROVE  heap'[buckets[k]].capacity > 0
<1> DEFINE a == buckets[k]
<1>1. a \in BucketId /\ buckets' = buckets
  BY DEF IInv, TypeOK, Leave
<1>2. a \in Live(buckets, ptr')
  BY DEF Live
<1> DEFINE h == [heap EXCEPT ![ptr[c]] = b]
<1>3. heap'[a] = h[a]
  <2>1. heap' = Swept(buckets, ptr', h)
    BY DEF Leave
  <2> HIDE DEF a, h
  <2> QED
    BY <1>1, <1>2, <2>1, SweptAt
<1> QED
  BY <1>1, <1>3 DEF IInv, TypeOK

LEMMA CapacityKept ==
    ASSUME IInv, [Next]_vars, NEW k \in Key,
           buckets[k] # Nil, buckets'[k] = buckets[k], heap[buckets[k]].capacity > 0
    PROVE  heap'[buckets[k]].capacity > 0
<1> DEFINE a == buckets[k]
<1>1. /\ a \in BucketId /\ heap \in [BucketId -> BucketType] /\ a \notin Fresh
      /\ a \in Live(buckets', ptr') /\ a \in Live(buckets', ptr)
  BY DEF IInv, TypeOK, Fresh, Live
<1>2. CASE UNCHANGED heap
  BY <1>2
<1>3. ASSUME NEW c \in Caller, NEW b \in BucketId, LookupCreate(c, b)
      PROVE  heap'[a].capacity > 0
  BY <1>1, <1>3 DEF LookupCreate, Allocates
<1>4. ASSUME NEW c \in Caller, NEW b \in BucketId, EvictCommit(c, b)
      PROVE  heap'[a].capacity > 0
  <2> DEFINE h == [heap EXCEPT ![b] = NewBucket(call[c].now)]
  <2>1. heap' = Swept(buckets', ptr', h)
    BY <1>4 DEF EvictCommit
  <2>2. h[a] = heap[a]
    BY <1>1, <1>4 DEF EvictCommit, Allocates
  <2>3. a \in Live(buckets', ptr')
    BY <1>1
  <2>4. heap'[a] = h[a]
    <3> HIDE DEF a, h
    <3> QED
      BY <1>1, <2>1, <2>3, SweptAt
  <2> QED
    BY <2>2, <2>4
<1>5. ASSUME NEW c \in Caller, TakeBlocked(c) \/ TakeDeny(c) \/ TakeGrant(c)
      PROVE  heap'[a].capacity > 0
  <2>1. pc[c] = "take"
    BY <1>5 DEF TakeBlocked, TakeDeny, TakeGrant
  <2>2. heap[ptr[c]] \in BucketType
    BY <2>1, ReadyType
  <2>3. Ready(c).capacity > 0 /\ Spent(Ready(c)).capacity > 0
    BY <2>1, TakenCapacity
  <2>4. Touched(heap[ptr[c]], call[c].now).capacity = heap[ptr[c]].capacity
    BY <2>2, Capacities
  <2> DEFINE locals == [NoCall EXCEPT !.op = "allow", !.key = call[c].key]
  <2>5. CASE TakeBlocked(c)
    <3>1. Leave(c, Touched(heap[ptr[c]], call[c].now), "idle", NoCall)
      BY <2>5 DEF TakeBlocked
    <3> QED
      BY <2>4, <3>1, LeaveKeepsCapacity
  <2>6. CASE TakeDeny(c)
    <3>1. Leave(c, Ready(c), "idle", NoCall)
      BY <2>6 DEF TakeDeny
    <3> QED
      BY <2>3, <3>1, LeaveKeepsCapacity
  <2>7. CASE TakeGrant(c)
    <3>1. Leave(c, Spent(Ready(c)), "granted", locals)
      BY <2>7 DEF TakeGrant
    <3> HIDE DEF locals
    <3> QED
      BY <2>3, <3>1, LeaveKeepsCapacity
  <2> QED
    BY <1>5, <2>5, <2>6, <2>7
<1>6. ASSUME NEW c \in Caller, Write(c) PROVE heap'[a].capacity > 0
  <2> DEFINE seen == Observed(heap[ptr[c]], call[c].now, call[c].header, call[c].retry)
  <2>1. heap[ptr[c]] \in BucketType
    BY <1>6, InSection DEF Write, IInv
  <2>2. seen.capacity = heap[ptr[c]].capacity
    BY <2>1, Capacities
  <2> QED
    BY <1>6, <2>2, LeaveKeepsCapacity DEF Write
<1>7. ASSUME NEW c \in Caller, Give(c) PROVE heap'[a].capacity > 0
  <2>1. heap[ptr[c]] \in BucketType
    BY <1>7, InSection DEF Give, IInv
  <2>2. Refunded(heap[ptr[c]]).capacity = heap[ptr[c]].capacity
    BY <2>1, Capacities
  <2> QED
    BY <1>7, <2>2, LeaveKeepsCapacity DEF Give
<1>8. CASE GCDrop
  <2>1. heap' = Swept(buckets', ptr, heap)
    BY <1>8 DEF GCDrop
  <2>2. a \in Live(buckets', ptr)
    BY <1>1
  <2>3. heap'[a] = heap[a]
    <3> HIDE DEF a
    <3> QED
      BY <1>1, <2>1, <2>2, SweptAt
  <2> QED
    BY <2>3
<1>9. ASSUME NEW c \in Caller,
             \/ \E j \in Key : CallAllow(c, j) \/ EvictVisit(c, j)
             \/ LookupHit(c) \/ LookupFull(c) \/ Find(c) \/ ReadLimit(c) \/ Respond(c)
      PROVE  UNCHANGED heap
  BY <1>9 DEF CallAllow, EvictVisit, LookupHit, LookupFull, Find, ReadLimit, Respond, Settle, Fail
<1>10. Tick \/ GCLock \/ GCStart \/ (\E j \in Key : GCVisit(j)) \/ GCUnlock => UNCHANGED heap
  BY DEF Tick, GCLock, GCStart, GCVisit, GCUnlock
<1>11. UNCHANGED vars => UNCHANGED heap
  BY DEF vars
<1> QED
  BY <1>2, <1>3, <1>4, <1>5, <1>6, <1>7, <1>8, <1>9, <1>10, <1>11
  DEF Next, Acquire, Proceed, Collect

(***************************************************************************)
(* What a request has paid at each place of its way, and what it may count *)
(* on until a bucket of its key is taken away.                             *)
(***************************************************************************)
Charged(c) ==
    LET charge == IF RefundDue(answer[c], req[c].endpoint) THEN 0 ELSE 1
    IN  cost[c] = charge \/ (removed[c] /\ charge = 0 /\ cost[c] = 1)

Settling(c) ==
    /\ call[c].key = KeyOf(req[c]) /\ Gated(KeyOf(req[c])) /\ cost[c] = 1
    /\ \/ /\ pc[c] \in {"lookup", "evict", "write"} /\ call[c].op = "observe"
          /\ call[c].refund = RefundDue(answer[c], req[c].endpoint)
       \/ /\ pc[c] \in {"find", "give"} /\ call[c].op = "refund"
          /\ RefundDue(answer[c], req[c].endpoint)

Account(c) ==
    /\ stage[c] = "none" => pc[c] = "idle" /\ cost[c] = 0 /\ answer[c] = 0
    /\ stage[c] # "none" => req[c] \in Request
    /\ stage[c] = "gate" =>
         /\ pc[c] \in {"lookup", "evict", "limit", "take"}
         /\ call[c].op = "allow" /\ call[c].key = KeyOf(req[c])
         /\ Gated(KeyOf(req[c])) /\ cost[c] = 0 /\ answer[c] = 0
    /\ stage[c] = "call" =>
         /\ pc[c] = "granted" /\ call[c].key = KeyOf(req[c]) /\ answer[c] = 0
         /\ Gated(KeyOf(req[c])) => cost[c] = 1
    /\ stage[c] = "settle" =>
         /\ answer[c] # 0
         /\ \/ Settling(c)
            \/ pc[c] = "idle" /\ (Gated(KeyOf(req[c])) => Charged(c))
    /\ stage[c] = "replied" => pc[c] = "idle"

InProgress(c) == stage[c] \in {"gate", "call", "settle"} /\ pc[c] # "idle"

Holds(c) ==
    InProgress(c) /\ Gated(KeyOf(req[c])) /\ ~removed[c] =>
      /\ pc[c] \in {"limit", "take", "give"} => ptr[c] = buckets[KeyOf(req[c])]
      /\ stage[c] # "gate" => /\ buckets[KeyOf(req[c])] # Nil
                              /\ heap[buckets[KeyOf(req[c])]].capacity > 0

PaidBy(c) ==
    stage[c] = "replied" /\ Gated(KeyOf(req[c])) =>
      \/ cost[c] = Due(c)
      \/ removed[c] /\ Refused(answer[c]) /\ cost[c] = Due(c) + 1

PInv == \A c \in Caller : Account(c) /\ Holds(c) /\ PaidBy(c)

\* A step of one request leaves the others where they are.
Same(c) ==
    /\ stage'[c] = stage[c] /\ req'[c] = req[c] /\ answer'[c] = answer[c]
    /\ reply'[c] = reply[c] /\ cost'[c] = cost[c]
    /\ pc'[c] = pc[c] /\ call'[c] = call[c] /\ ptr'[c] = ptr[c]

Step(c) ==
    \/ \E r \in Request : Reject(c, r) \/ Admit(c, r)
    \/ Serve(c) \/ Send(c) \/ Conclude(c) \/ Finish(c)

LEMMA OthersSame ==
    ASSUME IInv, GTypeOK, NEW d \in Caller, Step(d), NEW c \in Caller, c # d
    PROVE  Same(c)
<1> USE DEF Same, IInv, TypeOK, GTypeOK
<1>1. ASSUME NEW r \in Request, Reject(d, r) \/ Admit(d, r) PROVE Same(c)
  BY <1>1 DEF Reject, Admit, Reply, CallAllow, vars
<1>2. CASE Limited(d)
  BY <1>2 DEF Limited, Reply, TakeBlocked, TakeDeny, Leave
<1>3. CASE Granted(d)
  BY <1>3 DEF Granted, TakeGrant, Leave
<1>4. CASE Relay(d) \/ Send(d) \/ Finish(d)
  BY <1>4 DEF Relay, Send, Finish, Reply, vars
<1>5. ASSUME NEW status, NEW h, NEW r, Answer(d, status, h, r) PROVE Same(c)
  BY <1>5 DEF Answer, Settle
<1>6. ASSUME NEW status, Lose(d, status) PROVE Same(c)
  BY <1>6 DEF Lose, Fail, Reply
<1>7. ASSUME UNCHANGED gatewayVars, Acquire(d) PROVE Same(c)
  BY <1>7 DEF Acquire, LookupHit, LookupCreate, LookupFull, Find, gatewayVars
<1>8. ASSUME UNCHANGED gatewayVars, \E k \in Key : EvictVisit(d, k) PROVE Same(c)
  <2>1. UNCHANGED <<pc, call, ptr>>
    BY <1>8, Zenon DEF EvictVisit
  <2> QED
    BY <1>8, <2>1 DEF gatewayVars
<1>11. ASSUME UNCHANGED gatewayVars, NEW b \in BucketId, EvictCommit(d, b) PROVE Same(c)
  <2>1. /\ ptr' = [ptr EXCEPT ![d] = b] /\ pc' = [pc EXCEPT ![d] = AfterLookup(d)]
        /\ UNCHANGED call
    BY <1>11 DEF EvictCommit
  <2> QED
    BY <1>11, <2>1 DEF gatewayVars
<1>12. ASSUME UNCHANGED gatewayVars, ReadLimit(d) PROVE Same(c)
  BY <1>12 DEF ReadLimit, gatewayVars
<1>9. ASSUME UNCHANGED gatewayVars, Write(d) PROVE Same(c)
  BY <1>9 DEF Write, Leave, gatewayVars
<1>10. ASSUME Give(d), InLimiter(d), UNCHANGED <<stage, req, sent, answer, reply>>,
              cost' = [cost EXCEPT ![d] = cost'[d]]
       PROVE  Same(c)
  BY <1>10 DEF Give, Leave
<1> QED
  BY <1>1, <1>2, <1>3, <1>4, <1>5, <1>6, <1>7, <1>8, <1>9, <1>10, <1>11, <1>12
  DEF Step, Serve, Conclude, InLimiter

\* Until a bucket of its key is taken away, a request in progress finds the one
\* that was there, and it keeps a capacity it has.
LEMMA Recalled ==
    ASSUME IInv, GTypeOK, [GNext]_<<vars, gatewayVars, removed>>, NEW c \in Caller,
           stage[c] \in {"gate", "call", "settle"}, stage'[c] # "none", req[c] \in Request,
           ~removed'[c]
    PROVE  /\ ~removed[c]
           /\ buckets[KeyOf(req[c])] # Nil =>
                buckets'[KeyOf(req[c])] = buckets[KeyOf(req[c])]
           /\ buckets[KeyOf(req[c])] # Nil /\ heap[buckets[KeyOf(req[c])]].capacity > 0 =>
                heap'[buckets[KeyOf(req[c])]].capacity > 0
<1> DEFINE k == KeyOf(req[c])
<1>1. k \in Key
  BY RequestKey
<1>2. ~removed[c] /\ (buckets[k] # Nil => buckets'[k] = buckets[k])
  BY DEF GNext, Remember, LosesBucket, vars
<1>3. [Next]_vars
  BY GNextIsNext
<1> HIDE DEF k
<1>4. buckets[k] # Nil /\ heap[buckets[k]].capacity > 0 => heap'[buckets[k]].capacity > 0
  BY <1>1, <1>2, <1>3, CapacityKept
<1> QED
  BY <1>2, <1>4 DEF k

\* A request that is not stepping keeps its account and what it counts on.
LEMMA SameKeeps ==
    ASSUME IInv, GTypeOK, [GNext]_<<vars, gatewayVars, removed>>, NEW c \in Caller,
           Account(c), Holds(c), PaidBy(c), Same(c)
    PROVE  Account(c)' /\ Holds(c)' /\ PaidBy(c)'
<1> USE DEF Same, Gated, KeyOf, RefundDue, Refused, Proxied
<1>1. stage[c] # "none" /\ removed[c] => removed'[c]
  BY DEF GNext, Remember
<1>2. Account(c)'
  BY <1>1 DEF Account, Settling, Charged
<1>3. PaidBy(c)'
  BY <1>1 DEF PaidBy, Due, Forwarded
<1>4. Holds(c)'
  <2>1. SUFFICES ASSUME InProgress(c), Gated(KeyOf(req[c])), ~removed'[c]
                 PROVE  /\ pc[c] \in {"limit", "take", "give"} =>
                             ptr[c] = buckets'[KeyOf(req[c])]
                        /\ stage[c] # "gate" =>
                             /\ buckets'[KeyOf(req[c])] # Nil
                             /\ heap'[buckets'[KeyOf(req[c])]].capacity > 0
    BY DEF Holds, InProgress
  <2>2. req[c] \in Request
    BY <2>1 DEF Account, InProgress
  <2>3. pc[c] \in {"limit", "take", "give"} => ptr[c] # Nil
    BY DEF IInv, LockInv
  <2> QED
    BY <2>1, <2>2, <2>3, Recalled DEF Holds, InProgress
<1> QED
  BY <1>2, <1>3, <1>4

(***************************************************************************)
(* A request's own steps.                                                  *)
(***************************************************************************)

LEMMA RejectKeeps ==
    ASSUME IInv, GTypeOK, NEW c \in Caller, Account(c), NEW r \in Request, Reject(c, r)
    PROVE  Account(c)' /\ Holds(c)' /\ PaidBy(c)'
<1>1. Rejection(r) \notin {502, 504}
  BY DEF Rejection
<1>2. /\ stage'[c] = "replied" /\ req'[c] = r /\ reply'[c].status = Rejection(r)
      /\ pc'[c] = "idle" /\ cost'[c] = 0 /\ answer'[c] = 0
  BY DEF Reject, Reply, Account, GTypeOK, vars
<1> QED
  BY <1>1, <1>2 DEF Account, Holds, InProgress, PaidBy, Due, Forwarded, Refused

LEMMA AdmitKeeps ==
    ASSUME IInv, GTypeOK, NEW c \in Caller, Account(c), NEW r \in Request, Admit(c, r)
    PROVE  Account(c)' /\ Holds(c)' /\ PaidBy(c)'
<1> DEFINE k == KeyOf(r)
<1>1. /\ stage'[c] = (IF Gated(k) THEN "gate" ELSE "call") /\ req'[c] = r
      /\ pc'[c] = (IF Gated(k) THEN "lookup" ELSE "granted")
      /\ call'[c] = [NoCall EXCEPT !.op = "allow", !.key = k,
                                   !.now = IF Gated(k) THEN clock ELSE 0]
      /\ cost'[c] = 0 /\ answer'[c] = 0
  BY DEF Admit, CallAllow, Account, GTypeOK, IInv, TypeOK
<1>2. call'[c].op = "allow" /\ call'[c].key = k
  BY <1>1 DEF NoCall
<1>3. KeyOf(req[c])' = k /\ Gated(KeyOf(req[c]))' = Gated(k)
  BY <1>1 DEF KeyOf, Gated
<1> HIDE DEF k
<1> QED
  BY <1>1, <1>2, <1>3 DEF Account, Holds, InProgress, PaidBy

LEMMA LimitedKeeps ==
    ASSUME IInv, GTypeOK, NEW c \in Caller, Account(c), Limited(c)
    PROVE  Account(c)' /\ Holds(c)' /\ PaidBy(c)'
<1>1. /\ stage'[c] = "replied" /\ reply'[c].status = 429 /\ req' = req
      /\ cost'[c] = 0 /\ answer'[c] = 0 /\ req[c] \in Request
  BY DEF Limited, Reply, Account, GTypeOK
<1>2. pc'[c] = "idle"
  BY DEF Limited, TakeBlocked, TakeDeny, Leave, IInv, TypeOK
<1> QED
  BY <1>1, <1>2 DEF Account, Holds, InProgress, PaidBy, Due, Forwarded, Refused

LEMMA GrantedKeeps ==
    ASSUME IInv, GTypeOK, [GNext]_<<vars, gatewayVars, removed>>, NEW c \in Caller,
           Account(c), Holds(c), Granted(c)
    PROVE  Account(c)' /\ Holds(c)' /\ PaidBy(c)'
<1> DEFINE k == KeyOf(req[c])
           locals == [NoCall EXCEPT !.op = "allow", !.key = call[c].key]
<1>1. /\ stage[c] = "gate" /\ stage'[c] = "call" /\ req' = req /\ req[c] \in Request
      /\ cost'[c] = 1 /\ answer'[c] = 0 /\ call[c].key = k /\ Gated(k) /\ pc[c] = "take"
  BY DEF Granted, TakeGrant, Account, GTypeOK
<1>2. Leave(c, Spent(Ready(c)), "granted", locals)
  BY DEF Granted, TakeGrant
<1>3. locals.key = call[c].key
  BY DEF NoCall
<1> HIDE DEF locals
<1>4. pc'[c] = "granted" /\ call'[c].key = k
  BY <1>1, <1>2, <1>3 DEF Leave, IInv, TypeOK
<1>5. KeyOf(req[c])' = k /\ Gated(KeyOf(req[c]))' = Gated(k)
  BY <1>1 DEF KeyOf, Gated
<1>6. k \in Key /\ ptr[c] \in BucketId /\ ptr[c] # Nil
  BY <1>1, RequestKey, InSection, LimiterAssumption DEF IInv
<1> HIDE DEF k
<1>7. Account(c)' /\ PaidBy(c)'
  BY <1>1, <1>4, <1>5 DEF Account, PaidBy
<1>8. ASSUME ~removed'[c] PROVE buckets'[k] # Nil /\ heap'[buckets'[k]].capacity > 0
  <2>1. ~removed[c]
    BY <1>1, <1>8, Recalled
  <2>2. ptr[c] = buckets[k]
    BY <1>1, <2>1 DEF Holds, InProgress, k
  <2> DEFINE h == [heap EXCEPT ![ptr[c]] = Spent(Ready(c))]
  <2>3. buckets' = buckets /\ heap' = Swept(buckets, ptr', h)
    BY <1>2 DEF Leave
  <2>4. ptr[c] \in Live(buckets, ptr')
    BY <1>6, <2>2 DEF Live
  <2>5. heap'[ptr[c]] = Spent(Ready(c))
    <3>1. h[ptr[c]] = Spent(Ready(c))
      BY <1>6 DEF IInv, TypeOK
    <3> HIDE DEF h
    <3> QED
      BY <1>6, <2>3, <2>4, <3>1, SweptAt
  <2>6. Spent(Ready(c)).capacity > 0
    BY <1>1, TakenCapacity
  <2> QED
    BY <1>6, <2>2, <2>3, <2>5, <2>6
<1> QED
  BY <1>1, <1>4, <1>5, <1>7, <1>8 DEF Holds, InProgress

LEMMA AnswerKeeps ==
    ASSUME IInv, GTypeOK, [GNext]_<<vars, gatewayVars, removed>>, NEW c \in Caller,
           Account(c), Holds(c),
           NEW status \in Status, NEW h, NEW r, Answer(c, status, h, r)
    PROVE  Account(c)' /\ Holds(c)' /\ PaidBy(c)'
<1> DEFINE k == KeyOf(req[c])
           refund == RefundDue(status, req[c].endpoint)
           retry == IF status = 429 THEN r ELSE 0
           locals == [NoCall EXCEPT !.op = "observe", !.key = call[c].key,
                                    !.now = clock, !.header = h,
                                    !.retry = retry, !.refund = refund]
<1>1. /\ stage[c] = "call" /\ stage'[c] = "settle" /\ req' = req /\ req[c] \in Request
      /\ cost' = cost /\ answer'[c] = status /\ status # 0 /\ call[c].key = k
      /\ Gated(k) => cost[c] = 1
      /\ UNCHANGED <<buckets, heap, ptr>>
  <2>1. status # 0
    BY GatewayAssumption
  <2>2. /\ stage[c] = "call" /\ stage'[c] = "settle" /\ req' = req
        /\ cost' = cost /\ answer'[c] = status /\ Settle(c, h, retry, refund)
    BY DEF Answer, GTypeOK
  <2>3. UNCHANGED <<buckets, heap, ptr>>
    BY <2>2 DEF Settle
  <2> QED
    BY <2>1, <2>2, <2>3 DEF Account
<1>2. /\ pc'[c] = (IF Gated(k) THEN "lookup" ELSE "idle")
      /\ Gated(k) => call'[c] = locals
  BY <1>1 DEF Answer, Settle, IInv, TypeOK
<1>3. locals.key = k /\ locals.op = "observe" /\ locals.refund = refund
  BY <1>1 DEF NoCall
<1>4. KeyOf(req[c])' = k /\ Gated(KeyOf(req[c]))' = Gated(k)
      /\ RefundDue(answer[c], req[c].endpoint)' = refund
  BY <1>1 DEF KeyOf, Gated, RefundDue, Refused, Proxied
<1>5. ASSUME ~removed'[c], Gated(k)
      PROVE  buckets[k] # Nil /\ heap[buckets[k]].capacity > 0
  <2>1. ~removed[c] /\ pc[c] = "granted"
    BY <1>1, <1>5, Recalled DEF Account
  <2> QED
    BY <1>1, <1>5, <2>1 DEF Holds, InProgress
<1> HIDE DEF k, refund, locals
<1>6. Settling(c)' \/ (pc'[c] = "idle" /\ ~Gated(k))
  BY <1>1, <1>2, <1>3, <1>4 DEF Settling
<1> QED
  BY <1>1, <1>2, <1>4, <1>5, <1>6 DEF Account, Holds, InProgress, PaidBy

LEMMA LoseKeeps ==
    ASSUME IInv, GTypeOK, NEW c \in Caller, Account(c), NEW status, Lose(c, status)
    PROVE  Account(c)' /\ Holds(c)' /\ PaidBy(c)'
<1>1. /\ stage'[c] = "replied" /\ reply'[c].status = status /\ status \in {502, 504}
      /\ req' = req /\ req[c] \in Request /\ pc'[c] = "idle"
      /\ cost' = cost /\ answer'[c] = 0 /\ (Gated(KeyOf(req[c])) => cost[c] = 1)
  BY DEF Lose, Fail, Reply, Account, GTypeOK, IInv, TypeOK
<1>2. Gated(KeyOf(req[c]))' = Gated(KeyOf(req[c]))
  BY <1>1 DEF KeyOf, Gated
<1> QED
  BY <1>1, <1>2 DEF Account, Holds, InProgress, PaidBy, Due, Forwarded, Refused

LEMMA RelayKeeps ==
    ASSUME IInv, GTypeOK, [GNext]_<<vars, gatewayVars, removed>>, NEW c \in Caller,
           Account(c), Relay(c)
    PROVE  Account(c)' /\ Holds(c)' /\ PaidBy(c)'
<1>1. /\ stage[c] = "settle" /\ stage'[c] = "replied" /\ req' = req /\ req[c] \in Request
      /\ pc'[c] = "idle" /\ cost' = cost /\ answer' = answer /\ answer[c] # 0
      /\ Gated(KeyOf(req[c])) => Charged(c)
  BY DEF Relay, Reply, Account, Settling, GTypeOK, vars
<1>2. removed[c] => removed'[c]
  BY <1>1 DEF GNext, Remember
<1>3. Gated(KeyOf(req[c]))' = Gated(KeyOf(req[c]))
  BY <1>1 DEF KeyOf, Gated
<1>4. PaidBy(c)'
  BY <1>1, <1>2, <1>3 DEF PaidBy, Charged, RefundDue, Refused, Proxied, Due, Forwarded
<1> QED
  BY <1>1, <1>4 DEF Account, Holds, InProgress

LEMMA SendFinishKeeps ==
    ASSUME IInv, GTypeOK, [GNext]_<<vars, gatewayVars, removed>>, NEW c \in Caller,
           Account(c), Holds(c), PaidBy(c), Send(c) \/ Finish(c)
    PROVE  Account(c)' /\ Holds(c)' /\ PaidBy(c)'
<1>1. CASE Send(c)
  BY <1>1, SameKeeps DEF Send, Same, vars
<1>2. CASE Finish(c)
  <2>1. stage'[c] = "none" /\ pc'[c] = "idle" /\ cost'[c] = 0 /\ answer'[c] = 0
    BY <1>2 DEF Finish, Account, GTypeOK, vars
  <2> QED
    BY <2>1 DEF Account, Holds, InProgress, PaidBy
<1> QED
  BY <1>1, <1>2

(***************************************************************************)
(* A request's own steps inside the limiter.                               *)
(***************************************************************************)

\* Inside the limiter a request is at the gate or settling.
LEMMA Inside ==
    ASSUME NEW c \in Caller, Account(c), stage[c] \in {"none", "gate", "call", "settle", "replied"},
           pc[c] \notin {"idle", "granted"}
    PROVE  /\ stage[c] \in {"gate", "settle"} /\ req[c] \in Request
           /\ call[c].key = KeyOf(req[c]) /\ Gated(KeyOf(req[c]))
           /\ stage[c] = "settle" => Settling(c)
  BY DEF Account, Settling

\* A step inside the limiter keeps what its request counts on, if it leaves it
\* no pointer but the map's.
LEMMA HoldsMoves ==
    ASSUME IInv, GTypeOK, [GNext]_<<vars, gatewayVars, removed>>, NEW c \in Caller,
           Account(c), Holds(c), pc[c] \notin {"idle", "granted"},
           UNCHANGED <<stage, req>>,
           ~removed'[c] /\ pc'[c] \in {"limit", "take", "give"} =>
             ptr'[c] = buckets'[KeyOf(req[c])]
    PROVE  Holds(c)'
<1> DEFINE k == KeyOf(req[c])
<1>1. stage[c] \in {"gate", "settle"} /\ req[c] \in Request /\ Gated(k)
  BY Inside DEF GTypeOK
<1>2. KeyOf(req[c])' = k
  BY DEF KeyOf
<1>3. ASSUME ~removed'[c], stage[c] # "gate"
      PROVE  buckets'[k] # Nil /\ heap'[buckets'[k]].capacity > 0
  <2>1. ~removed[c]
    BY <1>1, <1>3, Recalled
  <2>2. buckets[k] # Nil /\ heap[buckets[k]].capacity > 0
    BY <1>1, <1>3, <2>1 DEF Holds, InProgress
  <2> QED
    BY <1>1, <1>3, <2>2, Recalled
<1> HIDE DEF k
<1> QED
  BY <1>2, <1>3 DEF Holds, InProgress, k

\* It keeps the account if it stays within Allow, Observe or Refund.
LEMMA AccountMoves ==
    ASSUME IInv, GTypeOK, NEW c \in Caller, Account(c), pc[c] \notin {"idle", "granted"},
           UNCHANGED gatewayVars,
           call'[c].op = call[c].op, call'[c].key = call[c].key,
           call'[c].refund = call[c].refund,
           call[c].op = "allow" => pc'[c] \in {"lookup", "evict", "limit", "take"},
           call[c].op = "observe" => pc'[c] \in {"lookup", "evict", "write"},
           call[c].op = "refund" => pc'[c] \in {"find", "give"}
    PROVE  Account(c)' /\ PaidBy(c)'
<1> USE DEF gatewayVars
<1>1. /\ KeyOf(req[c])' = KeyOf(req[c]) /\ Gated(KeyOf(req[c]))' = Gated(KeyOf(req[c]))
      /\ RefundDue(answer[c], req[c].endpoint)' = RefundDue(answer[c], req[c].endpoint)
  BY DEF KeyOf, Gated, RefundDue, Refused, Proxied
<1>2. /\ stage[c] \in {"gate", "settle"} /\ req[c] \in Request
      /\ call[c].key = KeyOf(req[c]) /\ Gated(KeyOf(req[c]))
      /\ stage[c] = "settle" => Settling(c)
  BY Inside DEF GTypeOK
<1>3. CASE stage[c] = "gate"
  BY <1>1, <1>2, <1>3 DEF Account, PaidBy
<1>4. CASE stage[c] = "settle"
  <2>1. Settling(c)'
    BY <1>1, <1>2, <1>4 DEF Settling
  <2> QED
    BY <1>1, <1>2, <1>4, <2>1 DEF Account, PaidBy
<1> QED
  BY <1>2, <1>3, <1>4

LEMMA AcquireKeeps ==
    ASSUME IInv, GTypeOK, [GNext]_<<vars, gatewayVars, removed>>, NEW c \in Caller,
           Account(c), Holds(c), UNCHANGED gatewayVars,
           \/ LookupHit(c) \/ LookupFull(c)
           \/ \E b \in BucketId : LookupCreate(c, b) \/ EvictCommit(c, b)
    PROVE  Account(c)' /\ Holds(c)' /\ PaidBy(c)'
<1> DEFINE k == KeyOf(req[c])
<1>1. pc[c] \in {"lookup", "evict"} /\ UNCHANGED call
  BY DEF LookupHit, LookupFull, LookupCreate, EvictCommit
<1>2. call[c].key = k /\ k \in Key /\ (call[c].op \in {"allow", "observe"})
  BY <1>1, Inside, RequestKey DEF Account, Settling, GTypeOK
<1>3. \/ pc'[c] = "evict"
      \/ pc'[c] = AfterLookup(c) /\ ptr'[c] = buckets'[k]
  <2>1. CASE LookupHit(c)
    BY <1>2, <2>1 DEF LookupHit, IInv, TypeOK
  <2>2. CASE LookupFull(c)
    BY <2>2 DEF LookupFull, IInv, TypeOK
  <2>3. ASSUME NEW b \in BucketId, LookupCreate(c, b)
        PROVE  pc'[c] = AfterLookup(c) /\ ptr'[c] = buckets'[k]
    BY <1>2, <2>3 DEF LookupCreate, IInv, TypeOK
  <2>4. ASSUME NEW b \in BucketId, EvictCommit(c, b)
        PROVE  pc'[c] = AfterLookup(c) /\ ptr'[c] = buckets'[k]
    BY <1>2, <2>4 DEF EvictCommit, IInv, TypeOK
  <2> QED
    BY <2>1, <2>2, <2>3, <2>4
<1>4. Account(c)' /\ PaidBy(c)'
  BY <1>1, <1>2, <1>3, AccountMoves DEF AfterLookup
<1>5. Holds(c)'
  BY <1>1, <1>3, HoldsMoves DEF gatewayVars
<1> QED
  BY <1>4, <1>5

LEMMA MoveOnKeeps ==
    ASSUME IInv, GTypeOK, [GNext]_<<vars, gatewayVars, removed>>, NEW c \in Caller,
           Account(c), Holds(c), UNCHANGED gatewayVars,
           ReadLimit(c) \/ \E k \in Key : EvictVisit(c, k)
    PROVE  Account(c)' /\ Holds(c)' /\ PaidBy(c)'
<1>1. CASE \E k \in Key : EvictVisit(c, k)
  <2>1. pc[c] = "evict" /\ UNCHANGED <<pc, call>>
    BY <1>1, Zenon DEF EvictVisit
  <2>2. call[c].op \in {"allow", "observe"}
    BY <2>1, Inside DEF Account, Settling, GTypeOK
  <2>3. Account(c)' /\ PaidBy(c)'
    BY <2>1, <2>2, AccountMoves
  <2> QED
    BY <2>1, <2>3, HoldsMoves DEF gatewayVars
<1>2. CASE ReadLimit(c)
  <2> DEFINE limit == EffectiveLimit(call[c].key[2], heap[ptr[c]].adaptLimit, call[c].now)
  <2>1. /\ pc[c] = "limit" /\ pc'[c] = "take" /\ UNCHANGED <<ptr, buckets>>
        /\ call' = [call EXCEPT ![c].limit = limit]
    BY <1>2 DEF ReadLimit, IInv, TypeOK
  <2> HIDE DEF limit
  <2>2. call'[c].op = call[c].op /\ call'[c].key = call[c].key /\ call'[c].refund = call[c].refund
    BY <2>1 DEF IInv, TypeOK, CallType
  <2>3. call[c].op = "allow" /\ stage[c] = "gate"
    BY <2>1, Inside DEF Account, Settling, GTypeOK
  <2>4. Account(c)' /\ PaidBy(c)'
    BY <2>1, <2>2, <2>3, AccountMoves
  <2>5. ~removed'[c] => ptr'[c] = buckets'[KeyOf(req[c])]
    <3>1. req[c] \in Request /\ Gated(KeyOf(req[c]))
      BY <2>1, Inside DEF GTypeOK
    <3>2. ~removed'[c] => ~removed[c]
      BY <2>3, <3>1, Recalled DEF gatewayVars
    <3> QED
      BY <2>1, <2>3, <3>1, <3>2 DEF Holds, InProgress
  <2> QED
    BY <2>1, <2>4, <2>5, HoldsMoves DEF gatewayVars
<1> QED
  BY <1>1, <1>2

LEMMA WritePays ==
    ASSUME IInv, GTypeOK, [GNext]_<<vars, gatewayVars, removed>>, NEW c \in Caller,
           Account(c), Holds(c), UNCHANGED gatewayVars, Write(c)
    PROVE  Account(c)' /\ Holds(c)' /\ PaidBy(c)'
<1> DEFINE locals == [NoCall EXCEPT !.op = "refund", !.key = call[c].key]
           due == RefundDue(answer[c], req[c].endpoint)
<1>1. /\ pc[c] = "write"
      /\ IF call[c].refund THEN pc'[c] = "find" /\ call'[c] = locals ELSE pc'[c] = "idle"
  BY DEF Write, Leave, IInv, TypeOK
<1>2. locals.op = "refund" /\ locals.key = call[c].key
  BY DEF NoCall
<1>3. /\ stage[c] = "settle" /\ req[c] \in Request /\ call[c].key = KeyOf(req[c])
      /\ Gated(KeyOf(req[c])) /\ cost[c] = 1 /\ call[c].refund = due /\ answer[c] # 0
  BY <1>1, Inside DEF Account, Settling, GTypeOK
<1>4. /\ KeyOf(req[c])' = KeyOf(req[c]) /\ Gated(KeyOf(req[c]))' = Gated(KeyOf(req[c]))
      /\ RefundDue(answer[c], req[c].endpoint)' = due
  BY DEF KeyOf, Gated, RefundDue, Refused, Proxied, gatewayVars
<1> HIDE DEF locals, due
<1>5. UNCHANGED <<stage, req, answer, cost>>
  BY DEF gatewayVars
<1>6. Settling(c)' \/ (pc'[c] = "idle" /\ Charged(c)')
  BY <1>1, <1>2, <1>3, <1>4, <1>5 DEF Settling, Charged
<1>7. Account(c)' /\ PaidBy(c)'
  BY <1>3, <1>4, <1>5, <1>6 DEF Account, PaidBy
<1>8. Holds(c)'
  BY <1>1, <1>5, HoldsMoves
<1> QED
  BY <1>7, <1>8

\* A refund is forgone only when the bucket that granted is gone.
LEMMA RefundKeeps ==
    ASSUME IInv, GTypeOK, [GNext]_<<vars, gatewayVars, removed>>, NEW c \in Caller,
           Account(c), Holds(c),
           \/ Find(c) /\ UNCHANGED gatewayVars
           \/ /\ Give(c)
              /\ cost' = [cost EXCEPT ![c] = IF heap[ptr[c]].capacity > 0 THEN @ - 1 ELSE @]
              /\ UNCHANGED <<stage, req, sent, answer, reply>>
    PROVE  Account(c)' /\ Holds(c)' /\ PaidBy(c)'
<1> DEFINE k == KeyOf(req[c])
           due == RefundDue(answer[c], req[c].endpoint)
<1>1. pc[c] \in {"find", "give"} /\ UNCHANGED <<stage, req, answer>>
  BY DEF Find, Give, gatewayVars
<1>2. /\ stage[c] = "settle" /\ req[c] \in Request /\ call[c].key = k
      /\ Gated(k) /\ cost[c] = 1 /\ call[c].op = "refund" /\ due /\ answer[c] # 0
  BY <1>1, Inside DEF Account, Settling, GTypeOK
<1>3. /\ KeyOf(req[c])' = k /\ Gated(KeyOf(req[c]))' = Gated(k)
      /\ RefundDue(answer[c], req[c].endpoint)' = due
  BY <1>1 DEF KeyOf, Gated, RefundDue, Refused, Proxied
<1>4. ~removed'[c] =>
        /\ buckets[k] # Nil /\ heap[buckets[k]].capacity > 0
        /\ pc[c] = "give" => ptr[c] = buckets[k]
  <2>1. ~removed'[c] => ~removed[c]
    BY <1>1, <1>2, Recalled
  <2> QED
    BY <1>1, <1>2, <2>1 DEF Holds, InProgress
<1>5. removed'[c] \in BOOLEAN /\ k \in Key
  BY <1>2, GTypeNext, RequestKey DEF GTypeOK
<1> HIDE DEF k, due
<1>6. CASE Find(c) /\ UNCHANGED gatewayVars /\ k \in Mapped
  <2>1. pc'[c] = "give" /\ ptr'[c] = buckets'[k] /\ UNCHANGED call
    BY <1>2, <1>6 DEF Find, IInv, TypeOK
  <2>2. Account(c)' /\ PaidBy(c)'
    BY <1>1, <1>2, <1>6, <2>1, AccountMoves
  <2> QED
    BY <1>1, <2>1, <2>2, HoldsMoves DEF k
<1>7. CASE Find(c) /\ UNCHANGED gatewayVars /\ k \notin Mapped
  <2>1. pc'[c] = "idle" /\ cost' = cost
    BY <1>2, <1>7 DEF Find, IInv, TypeOK, gatewayVars
  <2>2. removed'[c]
    BY <1>4, <1>5, <1>7 DEF Mapped
  <2> QED
    BY <1>1, <1>2, <1>3, <2>1, <2>2 DEF Account, Charged, Holds, InProgress, PaidBy
<1>8. CASE Give(c) /\ cost' = [cost EXCEPT ![c] = IF heap[ptr[c]].capacity > 0 THEN @ - 1 ELSE @]
  <2>1. pc[c] = "give" /\ pc'[c] = "idle"
    BY <1>8 DEF Give, Leave, IInv, TypeOK
  <2>2. cost'[c] = 0 \/ (removed'[c] /\ cost'[c] = 1)
    BY <1>2, <1>4, <1>5, <1>8, <2>1 DEF GTypeOK
  <2> QED
    BY <1>1, <1>2, <1>3, <2>1, <2>2 DEF Account, Charged, Holds, InProgress, PaidBy
<1> QED
  BY <1>6, <1>7, <1>8

LEMMA PInvInit == GInit => PInv
  BY DEF GInit, Init, PInv, Account, Holds, InProgress, PaidBy

LEMMA PInvNext ==
    ASSUME IInv, GTypeOK, PInv, [GNext]_<<vars, gatewayVars, removed>>
    PROVE  PInv'
<1> SUFFICES ASSUME NEW c \in Caller PROVE Account(c)' /\ Holds(c)' /\ PaidBy(c)'
  BY DEF PInv
<1>1. Account(c) /\ Holds(c) /\ PaidBy(c)
  BY DEF PInv
<1>2. CASE Same(c)
  BY <1>1, <1>2, SameKeeps
<1>3. CASE Step(c)
  <2>1. ASSUME NEW r \in Request, Reject(c, r) \/ Admit(c, r)
        PROVE  Account(c)' /\ Holds(c)' /\ PaidBy(c)'
    BY <1>1, <2>1, RejectKeeps, AdmitKeeps
  <2>2. CASE Limited(c) \/ Granted(c) \/ Relay(c)
    BY <1>1, <2>2, LimitedKeeps, GrantedKeeps, RelayKeeps
  <2>3. CASE Send(c) \/ Finish(c)
    BY <1>1, <2>3, SendFinishKeeps
  <2>4. CASE Conclude(c)
    BY <1>1, <2>4, AnswerKeeps, LoseKeeps DEF Conclude
  <2>5. CASE InLimiter(c)
    BY <1>1, <2>5, AcquireKeeps, MoveOnKeeps, WritePays, RefundKeeps DEF InLimiter, Acquire
  <2> QED
    BY <1>3, <2>1, <2>2, <2>3, <2>4, <2>5 DEF Step, Serve
<1>4. \/ Same(c)
      \/ \E d \in Caller : Step(d)
  <2>1. Tick \/ GCLock \/ Collect => UNCHANGED <<pc, call, ptr>>
    BY DEF Tick, GCLock, Collect, GCStart, GCVisit, GCDrop, GCUnlock
  <2> QED
    BY <2>1 DEF GNext, Step, Same, vars, gatewayVars
<1> QED
  BY <1>2, <1>3, <1>4, OthersSame

\* By the time a request is answered it has paid what it owes, in every
\* interleaving with evictions and with GC, whose removals alone can cost a
\* refused request its refund (Server.proxy, settle, limiter.Refund).
THEOREM PaidOnce == GSpec => []Paid
<1>1. GInit => PInv
  BY PInvInit
<1>2. IInv /\ GTypeOK /\ PInv /\ [GNext]_<<vars, gatewayVars, removed>> => PInv'
  BY PInvNext
<1>3. GSpec => []IInv /\ []GTypeOK
  BY PipelineRefinesLimiter, Invariance, GTypeCorrect, PTL
<1>4. PInv => Paid
  BY DEF PInv, PaidBy, Paid
<1> QED
  BY <1>1, <1>2, <1>3, <1>4, PTL DEF GSpec

=============================================================================
