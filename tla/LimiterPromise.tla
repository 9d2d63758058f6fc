--------------------------- MODULE LimiterPromise ---------------------------
(***************************************************************************)
(* What the limiter promises for a key, over all the buckets the key has   *)
(* had: the requests granted in a window of time, and that a 429 of Toss   *)
(* is waited out.  Both can be broken by the removal of a bucket that a    *)
(* goroutine still works on, and the second by a later, shorter 429; the   *)
(* history says when that happened, so that the properties can tell        *)
(* whether anything else breaks them.                                      *)
(***************************************************************************)
EXTENDS LimiterWindow

VARIABLES
    served,          \* [Key -> Int], grants in the window less refunds
    ban,             \* [Key -> Time], the latest end of a 429 Toss announced
    torn             \* [Key -> SUBSET {"removal", "overwrite"}]

promiseVars == <<served, ban, torn>>

\* c has read the clock for an operation on k and is not done with it.
Underway(c, k) == call[c].key = k /\ call[c].op \in {"allow", "observe"} /\ pc[c] # "granted"

\* A removal does no harm when GC makes it, nobody is working on the key, the
\* bucket is idle and unblocked even now, after its mutex was released, and
\* lastSeen, which GC goes by, is not behind the time the bucket has reached.
Removed(k) == buckets[k] # Nil /\ buckets'[k] # buckets[k]
Harmful(k) ==
    /\ Removed(k)
    /\ LET b == heap[buckets[k]] IN
       \/ lmu # Janitor
       \/ \E c \in Caller : Underway(c, k)
       \/ ~Collectable(b, gc.now)
       \/ b.lastSeen < b.last

Banning(c, k) == pc[c] = "write" /\ pc'[c] # "write" /\ call[c].key = k /\ call[c].retry > 0
Shortens(c, k) == Banning(c, k) /\ call[c].now + call[c].retry < ban[k]

Promise ==
    /\ served' = [k \in Key |->
         IF \E c \in Caller : call[c].key = k /\ Granting(c)
                              /\ In(Ready(c).last, window)
         THEN served[k] + 1
         ELSE IF \E c \in Caller : call[c].key = k /\ Refunding(c)
                                   /\ In(heap[ptr[c]].last, window)
         THEN served[k] - 1
         ELSE served[k]]
    /\ ban' = [k \in Key |->
         IF \E c \in Caller : Banning(c, k)
         THEN LET c == CHOOSE c \in Caller : Banning(c, k)
              IN  Greater(ban[k], call[c].now + call[c].retry)
         ELSE ban[k]]
    /\ torn' = [k \in Key |->
         torn[k] \union (IF Harmful(k) THEN {"removal"} ELSE {})
                 \union (IF \E c \in Caller : Shortens(c, k) THEN {"overwrite"} ELSE {})]

PInit ==
    /\ WInit
    /\ served = [k \in Key |-> 0]
    /\ ban = [k \in Key |-> 0]
    /\ torn = [k \in Key |-> {}]

PNext == WNext /\ Promise

PSpec == PInit /\ [][PNext]_<<vars, windowVars, promiseVars>>

-----------------------------------------------------------------------------
\* Over all its buckets a key is granted one burst and what its limit adds
\* from the start of the window on, provided an idle bucket would have filled
\* up again by the time GC may collect it.
KeyBoundedBy(k, l) ==
    served[k] * Token <= Burst(l) + l * (Lesser(clock, window[2]) - window[1])

KeyBound(k) ==
    clock >= window[1] =>
      \A l \in GroupLimits(k[2]) :
        Dominates(l, k[2], window) /\ l * MaxIdle >= Burst(l) => KeyBoundedBy(k, l)

\* limiter.go:1-2 says the limit of a client and group is never exceeded.
KeyWindowBound == \A k \in Key : Gated(k) => KeyBound(k)

\* Collection of a bucket nobody uses, and its re-creation full, keep the
\* bound: only a removal under a goroutine's feet can break it.
KeyWindowBoundUnlessTorn ==
    \A k \in Key : Gated(k) /\ "removal" \notin torn[k] => KeyBound(k)

\* limiter.go:219 says a 429 blocks its key for the time of its Retry-After:
\* no request is granted by a clock reading within it.
BanHonoured ==
    [][\A c \in Caller : Granting(c) => call[c].now >= ban[call[c].key]]_<<vars, windowVars, promiseVars>>

\* Nothing but a harmful removal or a later, shorter 429 ends a block early.
\* Late, reordered and repeated answers of other goroutines do not.
BanHonouredUnlessTorn ==
    [][\A c \in Caller :
         Granting(c) /\ torn[call[c].key] = {} => call[c].now >= ban[call[c].key]]_<<vars, windowVars, promiseVars>>

(***************************************************************************)
(* Gate, by the limiter's state: a caller's phase is what its operation    *)
(* and place amount to, and everything about buckets is left out.          *)
(***************************************************************************)
PhaseOf(c) ==
    IF pc[c] \in {"idle", "granted"} THEN pc[c]
    ELSE IF call[c].op = "refund" THEN "refunding"
    ELSE IF call[c].op = "observe" THEN "reporting"
    ELSE "asking"

EndOf(c) ==
    IF call[c].op = "observe" /\ call[c].retry > 0 THEN call[c].now + call[c].retry ELSE 0

Abstract == INSTANCE Gate WITH
    phase <- [c \in Caller |-> PhaseOf(c)],
    key   <- [c \in Caller |-> call[c].key],
    since <- [c \in Caller |-> call[c].now],
    until <- [c \in Caller |-> EndOf(c)]

\* The limiter implements Gate: grants are counted at the time their bucket has
\* reached, and neither stale readings, reordered answers nor the collection,
\* eviction and re-creation of buckets show but as tears.
ImplementsGate == Abstract!GateSpec

=============================================================================
