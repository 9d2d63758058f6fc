--------------------------- MODULE LimiterWindow ----------------------------
(***************************************************************************)
(* What a bucket guarantees: the requests it grants in a window of time.   *)
(* History variables, added to every step of Limiter, record for which key *)
(* a bucket was made and what it granted in one window of bucket time,     *)
(* chosen once and for all in the initial state.  The time of a grant is   *)
(* the time the bucket has reached (b.last): a caller whose clock reading  *)
(* is older than that spends at the bucket's time, not at its own.         *)
(***************************************************************************)
EXTENDS Limiter

CONSTANT Windows     \* the windows considered: pairs of ticks

ASSUME WindowAssumption ==
    /\ Windows \subseteq (Nat \ {0}) \X Nat
    /\ \A w \in Windows : w[1] <= w[2]

VARIABLES
    window,          \* the window, fixed
    home,            \* [BucketId -> Key or Nil], the key a bucket was made for
    used             \* [BucketId -> Int], its grants in the window less refunds

windowVars == <<window, home, used>>

In(t, w) == w[1] <= t /\ t <= w[2]

Granting(c)  == pc[c] = "take" /\ pc'[c] = "granted"
Refunding(c) == pc[c] = "give" /\ pc'[c] = "idle" /\ heap[ptr[c]].capacity > 0

Record ==
    /\ UNCHANGED window
    /\ home' = [b \in BucketId |->
                  IF b \notin Live(buckets', ptr') THEN Nil
                  ELSE IF b \in Fresh THEN CHOOSE k \in Key : buckets'[k] = b
                  ELSE home[b]]
    /\ used' = [b \in BucketId |->
                  IF b \in Fresh \/ b \notin Live(buckets', ptr') THEN 0
                  ELSE IF \E c \in Caller : ptr[c] = b /\ Granting(c) /\ In(heap'[b].last, window)
                       THEN used[b] + 1
                  ELSE IF \E c \in Caller : ptr[c] = b /\ Refunding(c) /\ In(heap[b].last, window)
                       THEN used[b] - 1
                  ELSE used[b]]

WInit ==
    /\ Init
    /\ window \in Windows
    /\ home = [b \in BucketId |-> Nil]
    /\ used = [b \in BucketId |-> 0]

WNext == Next /\ Record

WSpec == WInit /\ [][WNext]_<<vars, windowVars>>

-----------------------------------------------------------------------------
\* The limits a group can have, and those it does not exceed in the window.
GroupLimits(g) == {Base[g] * Ratio, Peak[g] * Ratio}
Dominates(l, g, w) == \A t \in w[1] .. w[2] : GroupLimit(g, t) * Ratio <= l

\* A caller works on the bucket of its own key, and the map leads each key to
\* a bucket made for it, whatever was evicted, collected and allocated again
\* meanwhile: no client spends, blocks or refunds another client's bucket.
OwnBucket ==
    /\ \A k \in Mapped : home[buckets[k]] = k
    /\ \A c \in Caller : ptr[c] # Nil => home[ptr[c]] = call[c].key

\* A bucket grants in a window no more than one burst and what the window's
\* limit adds, although callers bring clock readings and limits they took
\* before they got its mutex: the tokens at hand are part of that allowance
\* while the bucket's time is in the window.
Within(b, grants, w, l) ==
    /\ b.last < w[1] => grants = 0
    /\ In(b.last, w) => grants * Token + b.tokens <= Burst(l) + l * (b.last - w[1])
    /\ b.last > w[2] => grants * Token <= Burst(l) + l * (w[2] - w[1])

WindowBound ==
    \A b \in BucketId : home[b] # Nil =>
      \A l \in GroupLimits(home[b][2]) :
        Dominates(l, home[b][2], window) => Within(heap[b], used[b], window, l)

\* What OwnBucket and WindowBound need to be inductive: a call in allow brings a
\* limit that does not exceed the one its group had when it read the clock, and
\* buckets are made for keys of known groups only.
LimitTaken ==
    \A c \in Caller :
        pc[c] = "take" =>
            call[c].limit <= GroupLimit(call[c].key[2], call[c].now) * Ratio

HistoryType ==
    /\ window \in Windows
    /\ home \in [BucketId -> (Client \X Group) \union {Nil}]
    /\ used \in [BucketId -> Int]

WInv == IInv /\ HistoryType /\ OwnBucket /\ LimitTaken /\ WindowBound

=============================================================================
