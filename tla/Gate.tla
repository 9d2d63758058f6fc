-------------------------------- MODULE Gate --------------------------------
(***************************************************************************)
(* What the rate limiter of internal/ratelimit promises the rest of the    *)
(* gateway, without buckets, maps, mutexes or pointers: requests ask and   *)
(* are granted or denied; a grant counts towards its key at a time between *)
(* the asking and the granting; a 429 of Toss bans the key until a time;   *)
(* and grants keep to the limit and to the bans of their key, except after *)
(* the key was torn, by the loss of what was known of it or by a ban that  *)
(* a shorter one replaced.  LimiterPromise implements it.                  *)
(***************************************************************************)
EXTENDS Bucket

CONSTANTS
    Key, Caller, Nil,
    Enabled,         \* RATE_LIMIT_ENABLED
    Retry,           \* values of Retry-After, 0: absent
    MaxIdle          \* the idle time after which a key may be forgotten

VARIABLES
    clock,
    phase,           \* [Caller -> "idle", "asking", "granted", "reporting" or "refunding"]
    key,             \* [Caller -> Key or Nil], the key of its request
    since,           \* [Caller -> Time], when it began to ask or to report
    until,           \* [Caller -> Time], the end of the ban it reports, 0: none
    window,          \* a window of time, fixed
    served,          \* [Key -> Int], grants in the window less refunds
    ban,             \* [Key -> Time], the latest end of a ban
    torn             \* [Key -> SUBSET {"removal", "overwrite"}]

gateVars == <<clock, phase, key, since, until, window, served, ban, torn>>

Metered(k) == Enabled /\ k[2] \in Group

Within(t) == window[1] <= t /\ t <= window[2]

\* The limits no limit of the key exceeds in the window, among the group's
\* own, and at which a forgotten key would have had its burst again anyway.
Bounds(k) ==
    {l \in {Base[k[2]] * Ratio, Peak[k[2]] * Ratio} :
       /\ \A t \in window[1] .. window[2] : GroupLimit(k[2], t) * Ratio <= l
       /\ l * MaxIdle >= Burst(l)}

\* The limit: one burst, and what it adds from the start of the window on.
Allowance(l) == Burst(l) + l * (Lesser(clock, window[2]) - window[1])
InBounds(k, n) == \A l \in Bounds(k) : n * Token <= Allowance(l)

GateInit ==
    /\ clock = 1
    /\ phase = [c \in Caller |-> "idle"]
    /\ key = [c \in Caller |-> Nil]
    /\ since = [c \in Caller |-> 0]
    /\ until = [c \in Caller |-> 0]
    /\ window \in (Nat \ {0}) \X Nat
    /\ served = [k \in Key |-> 0]
    /\ ban = [k \in Key |-> 0]
    /\ torn = [k \in Key |-> {}]

Now(c, to, k, start, end) ==
    /\ phase' = [phase EXCEPT ![c] = to]
    /\ key' = [key EXCEPT ![c] = k]
    /\ since' = [since EXCEPT ![c] = start]
    /\ until' = [until EXCEPT ![c] = end]
    /\ UNCHANGED <<clock, window>>

Pass ==
    /\ clock' = clock + 1
    /\ UNCHANGED <<phase, key, since, until, window, served, ban, torn>>

Ask(c, k) ==
    /\ phase[c] = "idle" /\ Metered(k)
    /\ Now(c, "asking", k, clock, 0)
    /\ UNCHANGED <<served, ban, torn>>

\* Without a limit for the key the request is granted as it asks.
Wave(c, k) ==
    /\ phase[c] = "idle" /\ ~Metered(k)
    /\ Now(c, "granted", k, 0, 0)
    /\ UNCHANGED <<served, ban, torn>>

Deny(c) ==
    /\ phase[c] = "asking"
    /\ Now(c, "idle", Nil, 0, 0)
    /\ UNCHANGED <<served, ban, torn>>

\* The promise: a grant for time t is within the limit and after the bans.
Grant(c, t) ==
    LET k == key[c] IN
    /\ phase[c] = "asking"
    /\ since[c] <= t /\ t <= clock
    /\ torn[k] = {} => ban[k] <= since[c]
    /\ "removal" \notin torn[k] /\ Within(t) => InBounds(k, served[k] + 1)
    /\ served' = [served EXCEPT ![k] = IF Within(t) THEN @ + 1 ELSE @]
    /\ Now(c, "granted", k, 0, 0)
    /\ UNCHANGED <<ban, torn>>

\* The request ends; its answer, if there is one and the key has a limit, is
\* reported with the ban it announces.
End(c) ==
    /\ phase[c] \in {"granted", "refunding"}
    /\ Now(c, "idle", Nil, 0, 0)
    /\ UNCHANGED <<served, ban, torn>>

Report(c, end) ==
    /\ phase[c] = "granted" /\ Metered(key[c])
    /\ Now(c, "reporting", key[c], clock, end)
    /\ UNCHANGED <<served, ban, torn>>

Note(c, next) ==
    LET k == key[c] IN
    /\ phase[c] = "reporting"
    /\ ban' = [ban EXCEPT ![k] = Greater(@, until[c])]
    /\ torn' = [torn EXCEPT ![k] =
                  IF 0 < until[c] /\ until[c] < ban[k] THEN @ \union {"overwrite"} ELSE @]
    /\ Now(c, next, IF next = "idle" THEN Nil ELSE k, 0, 0)
    /\ UNCHANGED served

Refund(c) ==
    /\ phase[c] = "refunding"
    /\ served' = [served EXCEPT ![key[c]] = @ - 1]
    /\ Now(c, "idle", Nil, 0, 0)
    /\ UNCHANGED <<ban, torn>>

Tear(k) ==
    /\ torn' = [torn EXCEPT ![k] = @ \union {"removal"}]
    /\ UNCHANGED <<clock, phase, key, since, until, window, served, ban>>

GateNext ==
    \/ Pass
    \/ \E c \in Caller :
         \/ \E k \in Key : Ask(c, k) \/ Wave(c, k)
         \/ Deny(c) \/ End(c) \/ Refund(c)
         \/ \E t \in since[c] .. clock : Grant(c, t)
         \/ \E end \in {0} \union {clock + r : r \in Retry} : Report(c, end)
         \/ \E next \in {"idle", "refunding"} : Note(c, next)
    \/ \E k \in Key : Tear(k)

GateSpec == GateInit /\ [][GateNext]_gateVars

=============================================================================
