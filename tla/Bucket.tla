------------------------------- MODULE Bucket -------------------------------
(***************************************************************************)
(* The token bucket of internal/ratelimit/limiter.go, as operators on a    *)
(* bucket record: what allow, Observe and refund do under the bucket's own *)
(* mutex, and the limit effectiveLimit computes for it.                    *)
(*                                                                         *)
(* Time is a natural number of ticks: 0 is Go's zero time.Time and every   *)
(* clock reading is positive.  A limit is an integer number of             *)
(* 1/SafetyUnit requests per second, so that the safety factor multiplies  *)
(* it exactly.  Tokens are counted in the unit one tick adds at limit 1:   *)
(* a bucket at limit l gains exactly l units a tick, and one request costs *)
(* Token units.  The floats of the code are thus exact here.               *)
(***************************************************************************)
EXTENDS Integers

CONSTANTS
    Group,           \* names of the groups New knows
    Base, Peak,      \* [Group -> Nat], requests per second; Peak 0: no peak
    PeakStart,       \* [Group -> Nat], first tick of the day at the peak limit
    PeakEnd,         \* [Group -> Nat], first tick of the day after it
    TicksPerDay, TicksPerSecond,
    SafetyUnit,      \* the denominator of the safety factor
    RawSafety        \* its numerator as configured, possibly out of range

ASSUME GroupAssumption ==
    /\ Base \in [Group -> Nat \ {0}]
    /\ Peak \in [Group -> Nat]
    /\ PeakStart \in [Group -> Nat]
    /\ PeakEnd \in [Group -> Nat]

ASSUME UnitAssumption ==
    /\ TicksPerDay \in Nat \ {0}
    /\ TicksPerSecond \in Nat \ {0}
    /\ SafetyUnit \in Nat \ {0}
    /\ RawSafety \in Int

Time == Nat

\* The units one request takes out of a bucket.
Token == SafetyUnit * TicksPerSecond

Lesser(x, y)  == IF x <= y THEN x ELSE y
Greater(x, y) == IF x >= y THEN x ELSE y

(***************************************************************************)
(* Limits.                                                                 *)
(***************************************************************************)

\* New's clamp: a safety factor outside (0, 1] becomes 1.
Ratio == IF RawSafety > 0 /\ RawSafety <= SafetyUnit THEN RawSafety ELSE SafetyUnit

InPeak(g, now) ==
    /\ Peak[g] > 0
    /\ PeakStart[g] <= now % TicksPerDay
    /\ now % TicksPerDay < PeakEnd[g]

GroupLimit(g, now) == IF InPeak(g, now) THEN Peak[g] ELSE Base[g]

\* A limit Toss announced applies when it is lower than the group's.
AdaptedLimit(g, adapt, now) ==
    IF adapt > 0 THEN Lesser(adapt, GroupLimit(g, now)) ELSE GroupLimit(g, now)

EffectiveLimit(g, adapt, now) == AdaptedLimit(g, adapt, now) * Ratio

\* allow's capacity at a limit: one second of it, but room for one request.
Burst(limit) == Greater(limit * TicksPerSecond, Token)

(***************************************************************************)
(* Buckets.  The rate field is written and never read, and has no place    *)
(* here.                                                                   *)
(***************************************************************************)
BucketType ==
    [tokens : Nat, capacity : Nat, last : Time,
     blockedUntil : Time, lastSeen : Time, adaptLimit : Nat]

NewBucket(now) ==
    [tokens |-> 0, capacity |-> 0, last |-> 0,
     blockedUntil |-> 0, lastSeen |-> now, adaptLimit |-> 0]

Blocked(b, now) == now < b.blockedUntil

\* The first allow finds a full bucket.
StartedWhenEmpty(b, now, cap) ==                          \* mutant of Started
    IF b.tokens = 0 THEN [b EXCEPT !.last = now, !.tokens = cap] ELSE b
Started(b, now, cap) ==
    IF b.last = 0 THEN [b EXCEPT !.last = now, !.tokens = cap] ELSE b

\* What allow does to a bucket that is not blocked before it looks at the
\* tokens.  A caller whose clock reading is not after b.last refills nothing
\* and clamps nothing.
Refilled(b, now, limit) ==
    LET cap     == Burst(limit)
        s       == Started([b EXCEPT !.lastSeen = now, !.capacity = cap], now, cap)
        elapsed == now - s.last
    IN  IF elapsed > 0
        THEN [s EXCEPT !.last = now, !.tokens = Lesser(@ + elapsed * limit, cap)]
        ELSE s

AffordableInPart(b) == b.tokens > 0                       \* mutant of Affordable
Affordable(b) == b.tokens >= Token

Spent(b) == [b EXCEPT !.tokens = @ - Token]

Touched(b, now) == [b EXCEPT !.lastSeen = now]

\* The wait allow recommends, truncated to the clock's resolution.
BlockWait(b, now) == b.blockedUntil - now
RefillWait(b, limit) == (Token - b.tokens) \div limit

\* The response headers: header 0 and retry 0 are absent or not positive.
ObservedAnyway(b, now, header, retry) ==                  \* mutant of Observed
    [b EXCEPT !.adaptLimit   = IF header > 0 THEN header ELSE @,
              !.blockedUntil = now + retry]
Observed(b, now, header, retry) ==
    [b EXCEPT !.adaptLimit   = IF header > 0 THEN header ELSE @,
              !.blockedUntil = IF retry > 0 THEN now + retry ELSE @,
              !.tokens       = IF retry > 0 THEN 0 ELSE @]

Refunded(b) ==
    IF b.capacity = 0 THEN b
    ELSE [b EXCEPT !.tokens = Lesser(@ + Token, b.capacity)]

=============================================================================
