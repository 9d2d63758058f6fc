----------------------------- MODULE Lifecycle ------------------------------
(***************************************************************************)
(* The process of cmd/gateway/main.go: it listens until the listener fails *)
(* or a signal arrives, drains with net/http's Shutdown and exits; and the *)
(* connections it serves meanwhile, with the timeouts of internal/config.  *)
(* A connection carries one request after another.  What a handler does is *)
(* reduced to what takes time: reading the body (net/http's discarding of  *)
(* an unread rest included), the call of Toss, and the reply, which is as  *)
(* slow as the client that reads it.                                       *)
(*                                                                         *)
(* Timers fire, and goroutines that can run do run, before the clock goes  *)
(* on; clients and Toss take any time, or forever: to send a header or a   *)
(* body, to answer, to read a reply.  What happens at the very tick of a   *)
(* deadline may go either way.                                             *)
(***************************************************************************)
EXTENDS Integers

CONSTANTS
    Conn,            \* connections; a connection is used once
    Configs,         \* the timeouts considered; not positive: none
    NewGrace,        \* how long Shutdown waits for a connection's first header
    PollInterval,    \* the longest time between two looks of Shutdown's
    MaxClock         \* bound on the clock

Timeouts == [read : Int, write : Int, upstream : Int, shutdown : Int]

ASSUME LifecycleAssumption ==
    /\ Configs \subseteq Timeouts
    /\ NewGrace \in Nat /\ PollInterval \in Nat \ {0}
    /\ MaxClock \in Nat

VARIABLES
    clock,
    timeouts,        \* the configuration, fixed
    main,            \* main's place: "serving", "draining" or "exited"
    listener,        \* "down" before ListenAndServe, "up", "failed" or "closed"
    signalAt,        \* when the signal came, 0: not yet
    drainBy,         \* the end of Shutdown's context
    pollBy,          \* when Shutdown looks again at the latest, 0: it has not yet
    ending,          \* why the process exited: "none", "clean", "timeout", "error"
    conn             \* [Conn -> its state]

vars == <<clock, timeouts, main, listener, signalAt, drainBy, pollBy, ending, conn>>

(***************************************************************************)
(* A connection is "new" until its first header is read, has a handler in  *)
(* "body", "call" and "reply", and is "idle" between requests.  It ends    *)
(* "closed"; or "lost" by the exit, or "expired" by the write deadline,    *)
(* with a handler running and its reply not sent to the end.               *)
(***************************************************************************)
Handling == {"body", "call", "reply"}
Phases   == Handling \union {"none", "new", "idle", "closed", "lost", "expired"}

\* 200 stands for every status but those of the deadlines.
Statuses == {0, 200, 400, 413, 504}
Faults   == {"none", "late"}

ConnType == [phase : Phases, opened : Nat, readBy : Nat, writeBy : Nat,
             callBy : Nat, status : Statuses, fault : Faults]

Blank == [phase |-> "none", opened |-> 0, readBy |-> 0, writeBy |-> 0,
          callBy |-> 0, status |-> 0, fault |-> "none"]

\* A deadline in d ticks, 0: none.
UntilAnyway(d) == clock + d                               \* mutant of Until
Until(d) == IF d > 0 THEN clock + d ELSE 0
Passed(t) == t > 0 /\ clock >= t

Init ==
    /\ clock = 1
    /\ timeouts \in Configs
    /\ main = "serving"
    /\ listener = "down"
    /\ signalAt = 0
    /\ drainBy = 0
    /\ pollBy = 0
    /\ ending = "none"
    /\ conn = [c \in Conn |-> Blank]

\* What a connection carries belongs to what it is doing: a deadline of the read
\* to a new connection or a body, one of the call to a call, and a write deadline
\* and a late body to a handler.
Fits(k) ==
    /\ k.phase # "new" => k.opened = 0
    /\ k.phase \notin {"new", "body"} => k.readBy = 0
    /\ k.phase # "call" => k.callBy = 0
    /\ k.phase \notin Handling => k.writeBy = 0
    /\ k.phase \in {"none", "new", "idle", "body", "call"} => k.fault = "none"

\* Nothing is served before the listener is up, nor after the exit.
Serving == {"new", "idle"} \union Handling

TypeOK ==
    /\ clock \in Nat \ {0}
    /\ timeouts \in Configs
    /\ main \in {"serving", "draining", "exited"}
    /\ listener \in {"down", "up", "failed", "closed"}
    /\ signalAt \in Nat /\ drainBy \in Nat /\ pollBy \in Nat
    /\ ending \in {"none", "clean", "timeout", "error"}
    /\ conn \in [Conn -> ConnType]
    /\ \A c \in Conn : Fits(conn[c])
    /\ \A c \in Conn : conn[c].phase \in Serving => main # "exited" /\ listener # "down"
    /\ main = "exited" <=> ending # "none"

(***************************************************************************)
(* A connection and its handlers.                                          *)
(***************************************************************************)
Become(c, k) ==
    /\ main # "exited"
    /\ conn' = [conn EXCEPT ![c] = k]
    /\ UNCHANGED <<clock, timeouts, main, listener, signalAt, drainBy, pollBy, ending>>

In(c, phase) == conn[c].phase = phase

WriteDeadlineOfRead == Until(timeouts.read)               \* mutant of WriteDeadline
WriteDeadline == Until(timeouts.write)

Calling(k)      == [k EXCEPT !.phase = "call", !.readBy = 0,
                             !.callBy = Until(timeouts.upstream)]
Replying(k, s)  == [k EXCEPT !.phase = "reply", !.readBy = 0, !.callBy = 0, !.status = s]
Ended(k, phase) == [Blank EXCEPT !.phase = phase, !.status = k.status, !.fault = k.fault]

Accept(c) ==
    /\ listener = "up" /\ In(c, "none")
    /\ Become(c, [Blank EXCEPT !.phase = "new", !.opened = clock,
                               !.readBy = Until(timeouts.read)])

\* A header is read and the handler starts: it reads a body, calls Toss, or
\* replies at once.  The read deadline counts from the start of the read, for
\* a first request the start of the connection; the write deadline from here.
Header(c, next) ==
    /\ In(c, "new") \/ In(c, "idle")
    /\ LET k == [conn[c] EXCEPT !.opened = 0, !.writeBy = WriteDeadline, !.status = 0,
                                !.readBy = IF In(c, "new") THEN @ ELSE Until(timeouts.read)]
       IN  Become(c, CASE next = "body"  -> [k EXCEPT !.phase = "body"]
                       [] next = "call"  -> Calling(k)
                       [] next = "reply" -> Replying(k, 200))

HeaderTimeout(c) ==
    /\ In(c, "new") /\ Passed(conn[c].readBy)
    /\ Become(c, Ended(conn[c], "closed"))

\* The body is there; it passes the checks, or not.
BodyRead(c, next) ==
    /\ In(c, "body")
    /\ Become(c, IF next = "call" THEN Calling(conn[c]) ELSE Replying(conn[c], 200))

\* readBody replies 413 to every error of the read: a body beyond MaxBodyBytes
\* and one that has not arrived by the read deadline.  Of the latter the token
\* endpoint says 400, and a handler that wants no body nothing.
BodyTooLarge(c) ==
    /\ In(c, "body")
    /\ Become(c, Replying(conn[c], 413))

BodyStalled(c, status) ==
    /\ In(c, "body") /\ Passed(conn[c].readBy)
    /\ Become(c, [Replying(conn[c], status) EXCEPT !.fault = "late"])

Answer(c) ==
    /\ In(c, "call")
    /\ Become(c, Replying(conn[c], 200))

CallTimeout(c) ==
    /\ In(c, "call") /\ Passed(conn[c].callBy)
    /\ Become(c, Replying(conn[c], 504))

\* The client has taken the reply.  What does not fit in the buffers on the way
\* waits for it in w.Write, at any size up to 8 MiB; a connection is not kept after
\* a body that did not arrive, nor while the server shuts down.
Deliver(c) ==
    /\ In(c, "reply")
    /\ conn[c].writeBy = 0 \/ clock <= conn[c].writeBy
    /\ Become(c, Ended(conn[c], IF conn[c].fault = "late" \/ main = "draining"
                                THEN "closed" ELSE "idle"))

\* The write fails, and the handler, which does not look, is done.
Expire(c) ==
    /\ In(c, "reply") /\ Passed(conn[c].writeBy)
    /\ Become(c, Ended(conn[c], "expired"))

\* The client leaves, or an idle connection times out; a call of Toss in
\* progress is cancelled with the request's context, and a write fails.
Leave(c) ==
    /\ conn[c].phase \in Serving
    /\ Become(c, Ended(conn[c], "closed"))

(***************************************************************************)
(* main.                                                                   *)
(***************************************************************************)
Listen ==
    /\ main = "serving" /\ listener = "down"
    /\ listener' = "up"
    /\ UNCHANGED <<clock, timeouts, main, signalAt, drainBy, pollBy, ending, conn>>

\* ListenAndServe returns an error, into errCh.
ServeError ==
    /\ main = "serving" /\ listener \in {"down", "up"}
    /\ listener' = "failed"
    /\ UNCHANGED <<clock, timeouts, main, signalAt, drainBy, pollBy, ending, conn>>

\* SIGINT or SIGTERM.  Later signals change nothing: stop is deferred to main's
\* return.
Signal ==
    /\ main = "serving" /\ signalAt = 0
    /\ clock + timeouts.shutdown <= MaxClock
    /\ signalAt' = clock
    /\ UNCHANGED <<clock, timeouts, main, listener, drainBy, pollBy, ending, conn>>

\* The exit takes every connection with it, and main's deferred calls and the
\* janitor's stop come too late to matter.
Exit(why) ==
    /\ main' = "exited"
    /\ ending' = why
    /\ conn' = [c \in Conn |->
                  CASE conn[c].phase \in Handling        -> Ended(conn[c], "lost")
                    [] conn[c].phase \in {"new", "idle"} -> Ended(conn[c], "closed")
                    [] OTHER                             -> conn[c]]
    /\ UNCHANGED <<clock, timeouts, listener, signalAt, drainBy, pollBy>>

ServeErrorStops ==
    /\ main = "serving" /\ listener = "failed"
    /\ Exit("error")

DrainEndOfUpstream ==                                     \* mutant of DrainEnd
    IF timeouts.upstream > 0 THEN clock + timeouts.upstream ELSE clock
DrainEnd == IF timeouts.shutdown > 0 THEN clock + timeouts.shutdown ELSE clock

\* Shutdown closes the listener first.
Drain ==
    /\ main = "serving" /\ signalAt # 0
    /\ main' = "draining"
    /\ listener' = IF listener = "failed" THEN "failed" ELSE "closed"
    /\ drainBy' = DrainEnd
    /\ UNCHANGED <<clock, timeouts, signalAt, pollBy, ending, conn>>

\* Shutdown looks at the connections at once and then every PollInterval at most:
\* it waits for one with a handler, and for a new one in its grace, and closes
\* the others.  It finds out that the last handler is done only when it looks.
Busy(c) ==
    \/ conn[c].phase \in Handling
    \/ In(c, "new") /\ clock <= conn[c].opened + NewGrace
Closable(c) == conn[c].phase \in {"new", "idle"} /\ ~Busy(c)

Poll ==
    /\ main = "draining"
    /\ \E c \in Conn : Busy(c)
    /\ conn' = [c \in Conn |-> IF Closable(c) THEN Ended(conn[c], "closed") ELSE conn[c]]
    /\ pollBy' = clock + PollInterval
    /\ UNCHANGED <<clock, timeouts, main, listener, signalAt, drainBy, ending>>

DrainDone ==
    /\ main = "draining"
    /\ \A c \in Conn : ~Busy(c)
    /\ Exit("clean")

OverdueNever == FALSE                                     \* mutant of Overdue
Overdue == clock >= drainBy

\* The context is looked at after the connections.
DrainTimeout ==
    /\ main = "draining" /\ pollBy # 0 /\ Overdue
    /\ Exit("timeout")

(***************************************************************************)
(* Time passes when nothing is due.                                        *)
(***************************************************************************)
Due(c) ==
    \/ conn[c].phase \in {"new", "body"} /\ Passed(conn[c].readBy)
    \/ In(c, "call") /\ Passed(conn[c].callBy)
    \/ In(c, "reply") /\ Passed(conn[c].writeBy)

MainDue ==
    \/ main = "exited"
    \/ main = "serving" /\ (signalAt # 0 \/ listener = "failed")
    \/ main = "draining" /\ (Overdue \/ clock >= pollBy)

Tick ==
    /\ clock < MaxClock
    /\ ~MainDue
    /\ \A c \in Conn : ~Due(c)
    /\ clock' = clock + 1
    /\ UNCHANGED <<timeouts, main, listener, signalAt, drainBy, pollBy, ending, conn>>

-----------------------------------------------------------------------------
Timer(c) ==
    \/ HeaderTimeout(c)
    \/ \E status \in {200, 400, 413} : BodyStalled(c, status)
    \/ CallTimeout(c) \/ Expire(c)

Serve(c) ==
    \/ Accept(c) \/ Leave(c)
    \/ \E next \in {"body", "call", "reply"} : Header(c, next)
    \/ \E next \in {"call", "reply"} : BodyRead(c, next)
    \/ BodyTooLarge(c) \/ Answer(c) \/ Deliver(c)
    \/ Timer(c)

Stop == ServeErrorStops \/ Drain \/ Poll \/ DrainDone \/ DrainTimeout

Next ==
    \/ \E c \in Conn : Serve(c)
    \/ Listen \/ ServeError \/ Signal \/ Stop
    \/ Tick

Spec == Init /\ [][Next]_vars

\* The scheduler runs main and the handlers, timers fire and time goes by; no
\* client, no signal and no answer of Toss has to come.
FairSpec ==
    /\ Spec
    /\ WF_vars(Stop) /\ WF_vars(Tick)
    /\ \A c \in Conn : WF_vars(Timer(c))

-----------------------------------------------------------------------------
\* With a shutdown timeout longer than the read timeout and the longer of the
\* upstream and the write timeout, every request in progress at the signal ends
\* in time, however slow its client and Toss are: only a failing listener, after
\* which nobody waits, loses any (main.go:63-75; the defaults do not meet the
\* condition).
DrainLosesNothing ==
    LET t == timeouts IN
    t.read > 0 /\ t.write > 0 /\ t.upstream > 0
      /\ t.shutdown > t.read + t.upstream /\ t.shutdown > t.read + t.write
    => \A c \in Conn : In(c, "lost") => ending = "error"

\* The write deadline counts from the header, not from the reply.  Still a reply
\* has at least what the write timeout exceeds the read and the upstream timeout
\* by, five seconds by default, before it is cut off: a body sent slowly and a
\* call answered late cannot use it up (main.go:38-41).
StartsToReply(c) == ~In(c, "reply") /\ conn'[c].phase = "reply"

RepliesHaveTime ==
    [][\A c \in Conn :
         LET t == timeouts IN
         t.read > 0 /\ t.write > 0 /\ t.upstream > 0 /\ StartsToReply(c)
           => conn'[c].writeBy >= clock + t.write - t.read - t.upstream]_vars

\* The signal stops the process, although clients and Toss may stall forever.
SignalStops == signalAt # 0 ~> main = "exited"

\* i18n.go:61 and :75 tell the client of a 413 that its body exceeds the limit.
TooLargeIsLarge == \A c \in Conn : conn[c].status = 413 => conn[c].fault # "late"

=============================================================================
