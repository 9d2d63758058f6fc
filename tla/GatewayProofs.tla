---------------------------- MODULE GatewayProofs ----------------------------
(***************************************************************************)
(* The pipeline is a user of the limiter like any other, and the wait its  *)
(* own 429 announces is long enough, at any limits and any load.           *)
(***************************************************************************)
EXTENDS Gateway, LimiterProofs

(***************************************************************************)
(* The pipeline's steps are the limiter's.                                 *)
(***************************************************************************)

LEMMA GNextIsNext == [GNext]_<<vars, gatewayVars, removed>> => [Next]_vars
<1> SUFFICES ASSUME [GNext]_<<vars, gatewayVars, removed>> PROVE [Next]_vars
  OBVIOUS
<1>1. ASSUME NEW c \in Caller, NEW r \in Request, Admit(c, r) PROVE Next
  <2>1. r.client \in Client /\ r.endpoint \in Endpoint
    BY DEF Request
  <2>2. Route[r.endpoint].group \in Group \union OtherGroup
    BY <2>1, GatewayAssumption
  <2>3. KeyOf(r) \in Key
    BY <2>1, <2>2 DEF KeyOf, Key
  <2> QED
    BY <1>1, <2>3 DEF Admit, Next
<1>2. ASSUME NEW c \in Caller, Limited(c) \/ Granted(c) \/ InLimiter(c) PROVE Next
  BY <1>2 DEF Limited, Granted, InLimiter, Next, Proceed
<1>3. ASSUME NEW c \in Caller, Conclude(c) PROVE Next
  <2>1. ASSUME NEW status \in Status, NEW h \in Header \union {0}, NEW r \in Retry \union {0},
               Answer(c, status, h, r)
        PROVE  Next
    <3> DEFINE retry == IF status = 429 THEN r ELSE 0
               refund == RefundDue(status, req[c].endpoint)
    <3>1. retry \in Retry \union {0} /\ refund \in BOOLEAN
      BY DEF RefundDue
    <3>2. Settle(c, h, retry, refund)
      BY <2>1 DEF Answer
    <3> HIDE DEF retry, refund
    <3> QED
      BY <3>1, <3>2 DEF Next, Respond
  <2>2. ASSUME NEW status, Lose(c, status) PROVE Next
    BY <2>2 DEF Lose, Next, Respond
  <2> QED
    BY <1>3, <2>1, <2>2 DEF Conclude
<1>4. ASSUME NEW c \in Caller,
             \/ \E r \in Request : Reject(c, r)
             \/ Relay(c) \/ Send(c) \/ Finish(c)
      PROVE  UNCHANGED vars
  BY <1>4 DEF Reject, Relay, Send, Finish
<1>5. CASE Tick \/ GCLock \/ Collect
  BY <1>5 DEF Next
<1> QED
  BY <1>1, <1>2, <1>3, <1>4, <1>5 DEF GNext, Serve

\* The pipeline uses the limiter only as Limiter allows: whatever is proved of
\* Limiter holds of the gateway (Server.proxy, handleIssueToken).
THEOREM PipelineRefinesLimiter == GSpec => Spec
<1>1. GInit => Init
  BY DEF GInit
<1>2. [GNext]_<<vars, gatewayVars, removed>> => [Next]_vars
  BY GNextIsNext
<1> QED
  BY <1>1, <1>2, PTL DEF GSpec, Spec

(***************************************************************************)
(* Waiting.                                                                *)
(***************************************************************************)

\* writeRateLimited rounds up to whole seconds, and to one at least.
LEMMA RoundsUp ==
    ASSUME NEW wait \in Nat
    PROVE  /\ RetryAfterSeconds(wait) \in Nat
           /\ RetryAfterSeconds(wait) * TicksPerSecond >= wait
           /\ RetryAfterSeconds(wait) * TicksPerSecond >= TicksPerSecond
<1> DEFINE n == TicksPerSecond
           q == (wait + n - 1) \div n
           s == RetryAfterSeconds(wait)
<1>1. n \in Nat \ {0}
  BY UnitAssumption
<1> HIDE DEF n
<1>2. q \in Nat /\ q * n >= wait
  BY <1>1
<1> HIDE DEF q
<1>3. s = Greater(q, 1)
  BY DEF RetryAfterSeconds, q, n
<1>4. s \in Nat /\ s >= q /\ s >= 1
  BY <1>2, <1>3 DEF Greater
<1> HIDE DEF s
<1>5. s * n >= q * n /\ s * n >= 1 * n
  BY <1>1, <1>2, <1>4, ProductMono
<1> QED
  BY <1>1, <1>2, <1>4, <1>5 DEF s, n

\* A bucket that is not blocked has a token again after a second at a limit of
\* one request per second or more.
LEMMA RefilledInTime ==
    ASSUME NEW b \in BucketType, NEW then \in Time, NEW limit \in Nat,
           limit * TicksPerSecond >= Token, b.last + TicksPerSecond <= then
    PROVE  Affordable(Refilled(b, then, limit))
<1> DEFINE r     == Refilled(b, then, limit)
           added == (then - b.last) * limit
<1>1. Burst(limit) \in Nat /\ Burst(limit) >= Token /\ Token \in Nat
  BY BurstType, TokenType
<1>2. TicksPerSecond <= then - b.last /\ then - b.last > 0 /\ then - b.last \in Nat
  BY UnitAssumption DEF BucketType, Time
<1>3. added \in Nat /\ added >= Token
  <2> DEFINE second == TicksPerSecond * limit
  <2>1. second <= added /\ added \in Nat
    BY <1>2, UnitAssumption, ProductMono, ProductNat
  <2>2. second \in Nat /\ second >= Token
    BY UnitAssumption, ProductNat
  <2> HIDE DEF added, second
  <2> QED
    BY <1>1, <2>1, <2>2
<1> HIDE DEF added
<1>4. \/ r.tokens = Burst(limit)
      \/ r.tokens = Lesser(b.tokens + added, Burst(limit))
  BY <1>2, RefilledFields DEF added, BucketType, Time
<1> QED
  BY <1>1, <1>3, <1>4 DEF Affordable, Lesser, BucketType

\* The wait a denied caller is told is a natural number of ticks: a block that
\* is on ends later than the call's clock reading, and allow divides by no zero.
LEMMA DeniedWaitType ==
    ASSUME IInv, NEW c \in Caller, TakeBlocked(c) \/ TakeDeny(c)
    PROVE  DeniedWait(c) \in Nat
<1>1. pc[c] = "take"
  BY DEF TakeBlocked, TakeDeny
<1>2. /\ heap[ptr[c]] \in BucketType /\ Ready(c) \in BucketType
      /\ call[c].now \in Nat /\ call[c].limit \in Nat
  BY <1>1, ReadyType DEF CallType, Time
<1>3. CASE Blocked(heap[ptr[c]], call[c].now)
  BY <1>2, <1>3 DEF DeniedWait, Blocked, BlockWait, BucketType, Time
<1>4. CASE ~Blocked(heap[ptr[c]], call[c].now)
  <2>1. ~Affordable(Ready(c))
    BY <1>4 DEF TakeBlocked, TakeDeny
  <2>2. Token - Ready(c).tokens \in Nat
    BY <1>2, <2>1, TokenType DEF Affordable, BucketType
  <2>3. call[c].limit > 0
    BY <1>1 DEF IInv, Working
  <2>4. (Token - Ready(c).tokens) \div call[c].limit \in Nat
    BY <1>2, <2>2, <2>3
  <2> QED
    BY <1>4, <2>4 DEF DeniedWait, RefillWait
<1> QED
  BY <1>3, <1>4

LEMMA GTypeInit == GInit => GTypeOK
<1>1. 0 \in 0 .. MaxHops /\ NoReply \in [status : 0 .. 599, retryAfter : Nat]
  BY GatewayAssumption DEF NoReply
<1> SUFFICES ASSUME GInit PROVE GTypeOK
  OBVIOUS
<1> USE DEF GInit
<1>2. /\ stage \in [Caller -> {"none", "gate", "call", "settle", "replied"}]
      /\ req \in [Caller -> Request \union {NoRequest}]
  OBVIOUS
<1>3. sent \in [Caller -> 0 .. MaxHops]
  BY <1>1
<1>4. answer \in [Caller -> Status \union {0}]
  OBVIOUS
<1>5. reply \in [Caller -> [status : 0 .. 599, retryAfter : Nat]]
  <2> HIDE DEF NoReply
  <2> QED
    BY <1>1
<1>6. cost \in [Caller -> Int] /\ removed \in [Caller -> BOOLEAN]
  OBVIOUS
<1> HIDE DEF GInit
<1> QED
  BY <1>2, <1>3, <1>4, <1>5, <1>6 DEF GTypeOK

LEMMA GTypeNext == IInv /\ GTypeOK /\ [GNext]_<<vars, gatewayVars, removed>> => GTypeOK'
<1> SUFFICES ASSUME IInv, GTypeOK, [GNext]_<<vars, gatewayVars, removed>> PROVE GTypeOK'
  OBVIOUS
<1>0. removed' \in [Caller -> BOOLEAN]
  <2>1. CASE GNext
    BY <2>1 DEF GNext, Remember, LosesBucket
  <2>2. CASE UNCHANGED removed
    BY <2>2 DEF GTypeOK
  <2> QED
    BY <2>1, <2>2
<1> USE <1>0 DEF GTypeOK
<1>1. ASSUME NEW c \in Caller, NEW r \in Request, Reject(c, r) PROVE GTypeOK'
  <2>1. Rejection(r) \in 0 .. 599
    BY DEF Rejection
  <2> QED
    BY <1>1, <2>1 DEF Reject, Reply
<1>2. ASSUME NEW c \in Caller, NEW r \in Request, Admit(c, r) PROVE GTypeOK'
  BY <1>2 DEF Admit
<1>3. ASSUME NEW c \in Caller, Limited(c) PROVE GTypeOK'
  <2>1. RetryAfterSeconds(DeniedWait(c)) \in Nat
    BY <1>3, DeniedWaitType, RoundsUp DEF Limited
  <2> QED
    BY <1>3, <2>1 DEF Limited, Reply
<1>4. ASSUME NEW c \in Caller, Granted(c) PROVE GTypeOK'
  BY <1>4 DEF Granted
<1>5. ASSUME NEW c \in Caller, Send(c) PROVE GTypeOK'
  BY <1>5, GatewayAssumption DEF Send, MayFollow
<1>6. ASSUME NEW c \in Caller, Conclude(c) PROVE GTypeOK'
  <2>1. ASSUME NEW status \in Status, NEW h, NEW r, Answer(c, status, h, r) PROVE GTypeOK'
    BY <2>1 DEF Answer
  <2>2. ASSUME NEW status \in {502, 504}, Lose(c, status) PROVE GTypeOK'
    BY <2>2 DEF Lose, Reply
  <2> QED
    BY <1>6, <2>1, <2>2 DEF Conclude
<1>7. ASSUME NEW c \in Caller, Relay(c) PROVE GTypeOK'
  <2>1. answer[c] \in 0 .. 599
    <3>1. \A status \in Status \union {0} : status \in 0 .. 599
      BY GatewayAssumption
    <3>2. answer[c] \in Status \union {0}
      OBVIOUS
    <3> QED
      BY <3>1, <3>2, Zenon
  <2> QED
    BY <1>7, <2>1 DEF Relay, Reply
<1>8. ASSUME NEW c \in Caller, Finish(c) PROVE GTypeOK'
  <2>1. 0 \in 0 .. MaxHops /\ NoReply \in [status : 0 .. 599, retryAfter : Nat]
    BY GatewayAssumption DEF NoReply
  <2> QED
    BY <1>8, <2>1 DEF Finish
<1>9. ASSUME NEW c \in Caller, InLimiter(c) PROVE GTypeOK'
  BY <1>9 DEF InLimiter, gatewayVars
<1>10. CASE UNCHANGED gatewayVars
  BY <1>10 DEF gatewayVars
<1> QED
  BY <1>1, <1>2, <1>3, <1>4, <1>5, <1>6, <1>7, <1>8, <1>9, <1>10 DEF GNext, Serve

\* The types of the pipeline's state; in particular one granted request becomes at
\* most MaxHops requests of Toss (Client.do's CheckRedirect).
THEOREM GTypeCorrect == GSpec => []GTypeOK
<1>1. GInit => GTypeOK
  BY GTypeInit
<1>2. IInv /\ GTypeOK /\ [GNext]_<<vars, gatewayVars, removed>> => GTypeOK'
  BY GTypeNext
<1>3. GSpec => []IInv
  BY PipelineRefinesLimiter, Invariance, PTL
<1> QED
  BY <1>1, <1>2, <1>3, PTL DEF GSpec

\* Only the gate turns a request at the gate away.
LEMMA OnlyLimited ==
    ASSUME GTypeOK, [GNext]_<<vars, gatewayVars, removed>>, NEW c \in Caller,
           stage[c] = "gate", stage'[c] = "replied"
    PROVE  Limited(c)
<1>1. ~UNCHANGED gatewayVars
  BY DEF gatewayVars
<1>2. ASSUME NEW d \in Caller,
             \/ \E r \in Request : Reject(d, r) \/ Admit(d, r)
             \/ Granted(d) \/ Relay(d) \/ Send(d) \/ Conclude(d) \/ Finish(d) \/ InLimiter(d)
      PROVE  FALSE
  BY <1>1, <1>2 DEF GTypeOK, Reject, Admit, Granted, Relay, Send, Conclude, Answer, Lose, Finish,
                    InLimiter, Reply, gatewayVars
<1>3. ASSUME NEW d \in Caller, Limited(d) PROVE d = c
  BY <1>3 DEF GTypeOK, Limited, Reply
<1> QED
  BY <1>1, <1>2, <1>3 DEF GNext, Serve, gatewayVars

LEMMA RetryAfterStep ==
    ASSUME IInv, Clocked, GTypeOK, [GNext]_<<vars, gatewayVars, removed>>, NEW c \in Caller,
           stage[c] = "gate", stage'[c] = "replied"
    PROVE  WaitSuffices(c)
<1> DEFINE h     == heap[ptr[c]]
           now   == call[c].now
           b     == IF Blocked(h, now) THEN Touched(h, now) ELSE Ready(c)
           then  == clock + reply'[c].retryAfter * TicksPerSecond
           limit == EffectiveLimit(call[c].key[2], b.adaptLimit, then)
<1>1. Limited(c)
  BY OnlyLimited
<1>2. pc[c] = "take" /\ ptr[c] \in BucketId
  BY <1>1, InSection DEF Limited, TakeBlocked, TakeDeny, IInv
<1>3. h \in BucketType /\ Ready(c) \in BucketType /\ now \in Time /\ call[c].limit \in Nat
  BY <1>2, ReadyType DEF CallType
<1>4. clock \in Nat /\ now <= clock /\ h.last <= clock
  BY <1>2 DEF Clocked, IInv, TypeOK, Time
<1>5. b \in BucketType /\ b.last <= clock /\ b.blockedUntil = h.blockedUntil
  <2>1. Touched(h, now) \in BucketType /\ Touched(h, now).last = h.last
        /\ Touched(h, now).blockedUntil = h.blockedUntil
    BY <1>3 DEF Touched, BucketType, Time
  <2>2. Ready(c).last \in {h.last, now}
    BY <1>3, LastOf DEF Ready
  <2>3. Ready(c).blockedUntil = h.blockedUntil
    BY <1>3 DEF Ready, Refilled, Started, BucketType
  <2> QED
    BY <1>3, <1>4, <2>1, <2>2, <2>3
<1>6. DeniedWait(c) \in Nat
  BY <1>1, DeniedWaitType DEF Limited
<1> DEFINE wait == reply'[c].retryAfter * TicksPerSecond
<1>7. wait \in Nat /\ wait >= DeniedWait(c) /\ wait >= TicksPerSecond
  <2>1. reply'[c].retryAfter = RetryAfterSeconds(DeniedWait(c))
    BY <1>1 DEF Limited, Reply, GTypeOK
  <2>2. RetryAfterSeconds(DeniedWait(c)) * TicksPerSecond \in Nat
    BY <1>6, RoundsUp, UnitAssumption, ProductNat
  <2> QED
    BY <1>6, <2>1, <2>2, RoundsUp
<1> HIDE DEF wait
<1>8. then = clock + wait /\ then \in Time
  BY <1>4, <1>7 DEF wait, Time
<1>9. call[c].key[2] \in Group
  BY <1>2, GatedGroup DEF IInv, Working
<1>10. limit \in Nat
  BY <1>5, <1>8, <1>9, EffectiveLimitType DEF BucketType
<1>11. ~Blocked(b, then)
  <2>1. h.blockedUntil <= then
    <3>1. CASE Blocked(h, now)
      <4>1. DeniedWait(c) = h.blockedUntil - now
        BY <3>1 DEF DeniedWait, BlockWait
      <4> QED
        BY <1>3, <1>4, <1>7, <1>8, <4>1 DEF BucketType, Time
    <3>2. CASE ~Blocked(h, now)
      BY <1>3, <1>4, <1>7, <1>8, <3>2 DEF Blocked, BucketType, Time
    <3> QED
      BY <3>1, <3>2
  <2> HIDE DEF then, b
  <2> QED
    BY <1>5, <1>8, <2>1 DEF Blocked, BucketType, Time
<1>12. b.last + TicksPerSecond <= then
  <2> HIDE DEF b, then
  <2> QED
    BY <1>4, <1>5, <1>7, <1>8, UnitAssumption DEF BucketType, Time
<1>13. limit * TicksPerSecond >= Token => Affordable(Refilled(b, then, limit))
  <2> HIDE DEF b, then, limit
  <2> QED
    BY <1>5, <1>8, <1>10, <1>12, RefilledInTime
<1> QED
  BY <1>11, <1>13 DEF WaitSuffices

\* A client that waits as long as the gateway's own 429 says is not turned away
\* for the reason it was (writeRateLimited, bucket.allow).
THEOREM RetryAfterHonest == GSpec => RetryAfterSuffices
<1>1. IInv /\ Clocked /\ GTypeOK /\ [GNext]_<<vars, gatewayVars, removed>> =>
        [\A c \in Caller : TurnedAway(c) => WaitSuffices(c)]_<<vars, gatewayVars, removed>>
  BY RetryAfterStep DEF TurnedAway
<1>2. GSpec => []IInv /\ []Clocked /\ []GTypeOK
  BY PipelineRefinesLimiter, Invariance, NeverAhead, GTypeCorrect, PTL
<1> QED
  BY <1>1, <1>2, PTL DEF GSpec, RetryAfterSuffices

=============================================================================
