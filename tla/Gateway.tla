------------------------------ MODULE Gateway -------------------------------
(***************************************************************************)
(* The life of a request in internal/httpapi: the handler's checks, the    *)
(* gate of the limiter, the call of Toss (internal/tossclient), the        *)
(* settlement of its answer and the reply.  Each goroutine of Limiter      *)
(* serves one request at a time, and its calls of the limiter are the      *)
(* actions of Limiter, step by step, so that requests interleave inside    *)
(* Allow, Observe and Refund.                                              *)
(*                                                                         *)
(* A request is what its handler distinguishes: the endpoint, the client   *)
(* the rate limit is counted for, whether its Authorization and account    *)
(* headers are there, and which fault of its parameters or body, if any,   *)
(* the handler runs into first.                                            *)
(***************************************************************************)
EXTENDS Limiter

CONSTANTS
    Endpoint,        \* the endpoints considered
    Status,          \* the status codes Toss answers with
    MaxHops          \* requests the HTTP client sends for one call, redirects included

(***************************************************************************)
(* The endpoints: the rate limit group, whether the account header is      *)
(* required, and the faults the handler looks for.                         *)
(***************************************************************************)
MarketRoute ==
    [orderbook    |-> [group |-> "MARKET_DATA", account |-> FALSE, faults |-> {"missing"}],
     prices       |-> [group |-> "MARKET_DATA", account |-> FALSE, faults |-> {"missing"}],
     trades       |-> [group |-> "MARKET_DATA", account |-> FALSE, faults |-> {"missing", "invalid"}],
     priceLimits  |-> [group |-> "MARKET_DATA", account |-> FALSE, faults |-> {"missing"}],
     candles      |-> [group |-> "MARKET_DATA_CHART", account |-> FALSE, faults |-> {"missing", "invalid"}],
     stocks       |-> [group |-> "STOCK", account |-> FALSE, faults |-> {"missing"}],
     stockWarnings |-> [group |-> "STOCK", account |-> FALSE, faults |-> {"missing"}],
     exchangeRate |-> [group |-> "MARKET_INFO", account |-> FALSE, faults |-> {"missing"}],
     krCalendar   |-> [group |-> "MARKET_INFO", account |-> FALSE, faults |-> {}],
     usCalendar   |-> [group |-> "MARKET_INFO", account |-> FALSE, faults |-> {}]]

AccountRoute ==
    [accounts     |-> [group |-> "ACCOUNT", account |-> FALSE, faults |-> {}],
     holdings     |-> [group |-> "ASSET", account |-> TRUE, faults |-> {}],
     createOrder  |-> [group |-> "ORDER", account |-> TRUE, faults |-> {"large", "invalid"}],
     modifyOrder  |-> [group |-> "ORDER", account |-> TRUE, faults |-> {"missing", "large", "invalid"}],
     cancelOrder  |-> [group |-> "ORDER", account |-> TRUE, faults |-> {"missing"}],
     listOrders   |-> [group |-> "ORDER_HISTORY", account |-> TRUE, faults |-> {"missing", "invalid"}],
     getOrder     |-> [group |-> "ORDER_HISTORY", account |-> TRUE, faults |-> {"missing"}],
     buyingPower  |-> [group |-> "ORDER_INFO", account |-> TRUE, faults |-> {"missing"}],
     sellableQuantity |-> [group |-> "ORDER_INFO", account |-> TRUE, faults |-> {"missing"}],
     commissions  |-> [group |-> "ORDER_INFO", account |-> TRUE, faults |-> {}]]

\* The token endpoint does not go through proxy: no header is looked at.
TokenRoute ==
    [issueToken   |-> [group |-> "AUTH", account |-> FALSE, faults |-> {"invalid"}]]

Route ==
    [e \in DOMAIN MarketRoute \union DOMAIN AccountRoute \union DOMAIN TokenRoute |->
       IF e \in DOMAIN MarketRoute THEN MarketRoute[e]
       ELSE IF e \in DOMAIN AccountRoute THEN AccountRoute[e] ELSE TokenRoute[e]]

Proxied(e) == e \notin DOMAIN TokenRoute

Request ==
    {r \in [endpoint : Endpoint, client : Client, auth : BOOLEAN,
            account : {"absent", "bad", "ok"},
            fault : {"none", "missing", "large", "invalid"}] :
       /\ r.fault \in Route[r.endpoint].faults \union {"none"}
       /\ ~Proxied(r.endpoint) => ~r.auth
       /\ r.account # "absent" => Route[r.endpoint].account}

KeyOf(r) == <<r.client, Route[r.endpoint].group>>

\* The status the gateway rejects a request with before it asks the limiter, in
\* the order of the checks: the handler's own, then proxy's. 0: none.
Rejection(r) ==
    IF r.fault = "large" THEN 413
    ELSE IF r.fault # "none" THEN 400
    ELSE IF ~Proxied(r.endpoint) THEN 0
    ELSE IF ~r.auth THEN 401
    ELSE IF Route[r.endpoint].account /\ r.account # "ok" THEN 400
    ELSE 0

ASSUME GatewayAssumption ==
    /\ Endpoint \subseteq DOMAIN Route
    /\ \A e \in Endpoint : Route[e].group \in Group \union OtherGroup
    /\ Status \subseteq 200 .. 599
    /\ MaxHops \in Nat \ {0}

VARIABLES
    stage,           \* [Caller -> "none", "gate", "call", "settle" or "replied"]
    req,             \* [Caller -> Request or NoRequest]
    sent,            \* [Caller -> Nat], the requests sent to Toss for it
    answer,          \* [Caller -> Nat], the status of Toss's answer, 0: none
    reply,           \* [Caller -> the reply: its status and Retry-After]
    cost,            \* history: [Caller -> Int], tokens taken for it less refunds
    removed          \* history: [Caller -> BOOLEAN], its key lost a bucket meanwhile

gatewayVars == <<stage, req, sent, answer, reply, cost>>

NoRequest == [endpoint |-> "none"]
NoReply   == [status |-> 0, retryAfter |-> 0]

GTypeOK ==
    /\ stage \in [Caller -> {"none", "gate", "call", "settle", "replied"}]
    /\ req \in [Caller -> Request \union {NoRequest}]
    /\ sent \in [Caller -> 0 .. MaxHops]
    /\ answer \in [Caller -> Status \union {0}]
    /\ reply \in [Caller -> [status : 0 .. 599, retryAfter : Nat]]
    /\ cost \in [Caller -> Int]
    /\ removed \in [Caller -> BOOLEAN]

GInit ==
    /\ Init
    /\ stage = [c \in Caller |-> "none"]
    /\ req = [c \in Caller |-> NoRequest]
    /\ sent = [c \in Caller |-> 0]
    /\ answer = [c \in Caller |-> 0]
    /\ reply = [c \in Caller |-> NoReply]
    /\ cost = [c \in Caller |-> 0]
    /\ removed = [c \in Caller |-> FALSE]

Reply(c, status, retryAfter) ==
    /\ stage' = [stage EXCEPT ![c] = "replied"]
    /\ reply' = [reply EXCEPT ![c] = [status |-> status, retryAfter |-> retryAfter]]

\* writeRateLimited's Retry-After: whole seconds, rounded up, at least one.
RetryAfterFloor(wait) == Greater(wait \div TicksPerSecond, 1)  \* mutant of RetryAfterSeconds
RetryAfterSeconds(wait) ==
    Greater((wait + TicksPerSecond - 1) \div TicksPerSecond, 1)

(***************************************************************************)
(* Arrival.                                                                *)
(***************************************************************************)
Reject(c, r) ==
    /\ stage[c] = "none" /\ Rejection(r) # 0
    /\ req' = [req EXCEPT ![c] = r]
    /\ Reply(c, Rejection(r), 0)
    /\ UNCHANGED <<vars, sent, answer, cost>>

Admit(c, r) ==
    /\ stage[c] = "none" /\ Rejection(r) = 0
    /\ CallAllow(c, KeyOf(r))
    /\ req' = [req EXCEPT ![c] = r]
    /\ stage' = [stage EXCEPT ![c] = IF Gated(KeyOf(r)) THEN "gate" ELSE "call"]
    /\ UNCHANGED <<sent, answer, reply, cost>>

(***************************************************************************)
(* The gate: Allow's outcome.                                              *)
(***************************************************************************)
Limited(c) ==
    /\ stage[c] = "gate"
    /\ TakeBlocked(c) \/ TakeDeny(c)
    /\ Reply(c, 429, RetryAfterSeconds(DeniedWait(c)))
    /\ UNCHANGED <<req, sent, answer, cost>>

Granted(c) ==
    /\ stage[c] = "gate"
    /\ TakeGrant(c)
    /\ stage' = [stage EXCEPT ![c] = "call"]
    /\ cost' = [cost EXCEPT ![c] = @ + 1]
    /\ UNCHANGED <<req, sent, answer, reply>>

(***************************************************************************)
(* The call of Toss.  A redirect is followed, and the request sent again,  *)
(* until the client has sent MaxHops; then, and when it says not where to, *)
(* the redirect is the answer.                                             *)
(***************************************************************************)
MayFollowOneMore(n) == n <= MaxHops                       \* mutant of MayFollow
MayFollow(n) == n < MaxHops

Send(c) ==
    /\ stage[c] = "call" /\ MayFollow(sent[c])
    /\ sent' = [sent EXCEPT ![c] = @ + 1]
    /\ UNCHANGED <<vars, stage, req, answer, reply, cost>>

Refused(status) == status \in {401, 403}

RefundDueAlways(status, e) == Refused(status)             \* mutant of RefundDue
RefundDue(status, e) == Refused(status) /\ Proxied(e)

\* Toss answers; settle adapts to the answer and asks for a refund if the
\* credentials were refused, except on the token endpoint, which only observes.
Answer(c, status, header, retry) ==
    /\ stage[c] = "call" /\ sent[c] > 0
    /\ Settle(c, header, IF status = 429 THEN retry ELSE 0,
              RefundDue(status, req[c].endpoint))
    /\ stage' = [stage EXCEPT ![c] = "settle"]
    /\ answer' = [answer EXCEPT ![c] = status]
    /\ UNCHANGED <<req, sent, reply, cost>>

\* No answer: 504 if the client's timeout was why, else 502.
Lose(c, status) ==
    /\ stage[c] = "call" /\ status \in {502, 504}
    /\ Fail(c)
    /\ Reply(c, status, 0)
    /\ UNCHANGED <<req, sent, answer, cost>>

\* The settlement is over: Toss's answer is handed on.
Relay(c) ==
    /\ stage[c] = "settle" /\ pc[c] = "idle"
    /\ Reply(c, answer[c], 0)
    /\ UNCHANGED <<vars, req, sent, answer, cost>>

Finish(c) ==
    /\ stage[c] = "replied"
    /\ stage' = [stage EXCEPT ![c] = "none"]
    /\ req' = [req EXCEPT ![c] = NoRequest]
    /\ sent' = [sent EXCEPT ![c] = 0]
    /\ answer' = [answer EXCEPT ![c] = 0]
    /\ reply' = [reply EXCEPT ![c] = NoReply]
    /\ cost' = [cost EXCEPT ![c] = 0]
    /\ UNCHANGED vars

\* The limiter's own steps: inside Allow before its outcome, and inside settle.
InLimiter(c) ==
    \/ Acquire(c) /\ UNCHANGED gatewayVars
    \/ /\ \/ \E k \in Key : EvictVisit(c, k)
          \/ \E b \in BucketId : EvictCommit(c, b)
          \/ ReadLimit(c)
          \/ Write(c)
       /\ UNCHANGED gatewayVars
    \/ /\ Give(c)
       /\ cost' = [cost EXCEPT ![c] = IF heap[ptr[c]].capacity > 0 THEN @ - 1 ELSE @]
       /\ UNCHANGED <<stage, req, sent, answer, reply>>

Serve(c) ==
    \/ InLimiter(c)
    \/ Limited(c) \/ Granted(c)
    \/ Relay(c)

\* Toss or the client's timeout ends every call.
Conclude(c) ==
    \/ \E status \in Status, h \in Header \union {0}, r \in Retry \union {0} :
         Answer(c, status, h, r)
    \/ \E status \in {502, 504} : Lose(c, status)

\* GC or an eviction takes away a bucket of the key of a request in progress.
LosesBucket(c) ==
    /\ stage[c] \in {"gate", "call", "settle"}
    /\ LET k == KeyOf(req[c]) IN buckets[k] # Nil /\ buckets'[k] # buckets[k]

Remember ==
    removed' = [c \in Caller |-> stage'[c] # "none" /\ (removed[c] \/ LosesBucket(c))]

GNext ==
    /\ \/ \E c \in Caller :
            \/ \E r \in Request : Reject(c, r) \/ Admit(c, r)
            \/ Serve(c) \/ Send(c) \/ Conclude(c) \/ Finish(c)
       \/ /\ Tick \/ GCLock \/ Collect
          /\ UNCHANGED gatewayVars
    /\ Remember

GSpec == GInit /\ [][GNext]_<<vars, gatewayVars, removed>>

GFairSpec ==
    /\ GSpec
    /\ \A c \in Caller :
         /\ SF_<<vars, gatewayVars>>(Serve(c))
         /\ WF_<<vars, gatewayVars>>(Conclude(c))
         /\ WF_<<vars, gatewayVars>>(Finish(c))
    /\ SF_<<vars, gatewayVars>>(GCLock /\ UNCHANGED gatewayVars)
    /\ WF_<<vars, gatewayVars>>(Collect /\ UNCHANGED gatewayVars)

-----------------------------------------------------------------------------
\* The request a reply answers was passed on to Toss.
Forwarded(c) == answer[c] # 0 \/ reply[c].status \in {502, 504}

\* What a request has to pay: one token if it was passed on, but none if its
\* credentials were refused, except on the token endpoint.
Due(c) ==
    IF Forwarded(c) /\ (Refused(answer[c]) => ~Proxied(req[c].endpoint)) THEN 1 ELSE 0

\* A request has paid what it owes by the time it is answered, whether or not
\* Toss answered (handlers.go:72-77).  Only if GC or an eviction took a bucket of
\* its key meanwhile may its refund find no bucket, or one that has granted
\* nothing yet, and be forgone.
Paid ==
    \A c \in Caller : stage[c] = "replied" /\ Gated(KeyOf(req[c])) =>
        \/ cost[c] = Due(c)
        \/ removed[c] /\ Refused(answer[c]) /\ cost[c] = Due(c) + 1

TurnedAway(c) == stage[c] = "gate" /\ stage'[c] = "replied"

WaitSuffices(c) ==
    LET b     == IF Blocked(heap[ptr[c]], call[c].now)
                 THEN Touched(heap[ptr[c]], call[c].now) ELSE Ready(c)
        then  == clock + reply'[c].retryAfter * TicksPerSecond
        limit == EffectiveLimit(call[c].key[2], b.adaptLimit, then)
    IN  limit * TicksPerSecond >= Token =>
          ~Blocked(b, then) /\ Affordable(Refilled(b, then, limit))

\* A client that waits as long as the gateway's 429 tells it to, counted from
\* the reply, finds the block over and a token refilled, provided the limit is
\* then at least one request per second (i18n.go:67, openapi.yaml:538).
RetryAfterSuffices ==
    [][\A c \in Caller : TurnedAway(c) => WaitSuffices(c)]_<<vars, gatewayVars, removed>>

\* Every request that arrives is answered, whatever the others do.
EveryRequestAnswered ==
    \A c \in Caller : stage[c] # "none" ~> stage[c] = "replied"

=============================================================================
