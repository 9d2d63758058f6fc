-------------------------- MODULE LifecycleProofs ---------------------------
(***************************************************************************)
(* What the timeouts of the process are worth, for any number of           *)
(* connections, any configuration and clients of any speed: how long a     *)
(* reply has before the write deadline, and when a drain loses nothing.    *)
(***************************************************************************)
EXTENDS Lifecycle, TLAPS

(***************************************************************************)
(* Types.                                                                  *)
(***************************************************************************)

LEMMA ConnTypes ==
    ASSUME TypeOK, NEW k \in ConnType
    PROVE  /\ timeouts \in Timeouts
           /\ \A d \in Int : Until(d) \in Nat
           /\ Blank \in ConnType
           /\ \A phase \in Phases : Ended(k, phase) \in ConnType
           /\ \A s \in Statuses : Replying(k, s) \in ConnType
           /\ Calling(k) \in ConnType
<1>1. timeouts \in Timeouts
  BY LifecycleAssumption DEF TypeOK
<1>2. \A d \in Int : Until(d) \in Nat
  BY DEF TypeOK, Until
<1>3. timeouts.upstream \in Int
  BY <1>1 DEF Timeouts
<1>4. Until(timeouts.upstream) \in Nat
  BY <1>2, <1>3
<1>5. Blank \in ConnType
  BY DEF Blank, ConnType, Phases, Handling, Statuses, Faults
<1>6. ASSUME NEW phase \in Phases PROVE Ended(k, phase) \in ConnType
  BY <1>5 DEF Ended, Blank, ConnType
<1>0. {"call", "reply"} \subseteq Phases
  BY DEF Phases, Handling
<1>7. ASSUME NEW s \in Statuses PROVE Replying(k, s) \in ConnType
  BY <1>0 DEF Replying, ConnType
<1>8. Calling(k) \in ConnType
  BY <1>4, <1>0 DEF Calling, ConnType
<1> QED
  BY <1>1, <1>2, <1>5, <1>6, <1>7, <1>8

\* What a connection becomes when a header has been read.
Started(c) ==
    [conn[c] EXCEPT !.opened = 0, !.writeBy = WriteDeadline, !.status = 0,
                    !.readBy = IF In(c, "new") THEN @ ELSE Until(timeouts.read)]

LEMMA HeaderStep ==
    ASSUME NEW c \in Conn, NEW next, Header(c, next), next \in {"body", "call", "reply"}
    PROVE  /\ In(c, "new") \/ In(c, "idle")
           /\ \/ Become(c, [Started(c) EXCEPT !.phase = "body"])
              \/ Become(c, Calling(Started(c)))
              \/ Become(c, Replying(Started(c), 200))
BY DEF Header, Started

LEMMA StartedType ==
    ASSUME TypeOK, NEW c \in Conn
    PROVE  Started(c) \in ConnType
<1>1. conn[c] \in ConnType /\ timeouts.read \in Int /\ timeouts.write \in Int
  BY ConnTypes DEF TypeOK, Timeouts
<1>2. WriteDeadline \in Nat /\ Until(timeouts.read) \in Nat
  BY <1>1, ConnTypes DEF WriteDeadline
<1> DEFINE w == WriteDeadline
           r == IF In(c, "new") THEN conn[c].readBy ELSE Until(timeouts.read)
<1>3. conn[c].readBy \in Nat
  BY <1>1 DEF ConnType
<1>4. w \in Nat /\ r \in Nat
  BY <1>2, <1>3
<1>5. 0 \in Statuses
  BY DEF Statuses
<1> HIDE DEF w, r
<1>6. [conn[c] EXCEPT !.opened = 0, !.writeBy = w, !.status = 0, !.readBy = r] \in ConnType
  BY <1>1, <1>4, <1>5 DEF ConnType
<1>7. Started(c) = [conn[c] EXCEPT !.opened = 0, !.writeBy = w, !.status = 0, !.readBy = r]
  BY <1>1 DEF Started, ConnType, w, r
<1> QED
  BY <1>6, <1>7

\* What may become of a connection while the process lives.
Successor(c, k) ==
    \/ /\ In(c, "none") /\ listener = "up"
       /\ k = [Blank EXCEPT !.phase = "new", !.opened = clock, !.readBy = Until(timeouts.read)]
    \/ conn[c].phase \in Serving /\ k = Ended(conn[c], "closed")
    \/ /\ In(c, "reply") /\ main # "draining" /\ conn[c].fault # "late"
       /\ k = Ended(conn[c], "idle")
    \/ In(c, "reply") /\ Passed(conn[c].writeBy) /\ k = Ended(conn[c], "expired")
    \/ /\ In(c, "new") \/ In(c, "idle")
       /\ \/ k = [Started(c) EXCEPT !.phase = "body"]
          \/ k = Calling(Started(c))
          \/ k = Replying(Started(c), 200)
    \/ In(c, "body") /\ k = Calling(conn[c])
    \/ /\ In(c, "body") \/ In(c, "call")
       /\ \E s \in Statuses :
            \/ k = Replying(conn[c], s)
            \/ k = [Replying(conn[c], s) EXCEPT !.fault = "late"]

LEMMA ServeStep ==
    ASSUME TypeOK, NEW c \in Conn, Serve(c)
    PROVE  \E k \in ConnType : Become(c, k) /\ Successor(c, k)
<1> USE DEF Successor
<1> DEFINE K == conn[c]
<1>1. K \in ConnType /\ timeouts \in Timeouts
  BY ConnTypes DEF TypeOK
<1>2. /\ \A phase \in Phases : Ended(K, phase) \in ConnType
      /\ \A s \in Statuses : Replying(K, s) \in ConnType
      /\ Calling(K) \in ConnType
  BY <1>1, ConnTypes
<1>3. /\ {"closed", "idle", "expired", "body"} \subseteq Phases
      /\ {200, 400, 413, 504} \subseteq Statuses /\ "late" \in Faults
  BY DEF Phases, Handling, Statuses, Faults
<1>03. {"new", "idle", "body", "call", "reply"} = Serving
  BY DEF Serving, Handling
<1>4. CASE Accept(c)
  <2> DEFINE k == [Blank EXCEPT !.phase = "new", !.opened = clock, !.readBy = Until(timeouts.read)]
  <2>1. Blank \in ConnType /\ Until(timeouts.read) \in Nat /\ clock \in Nat
    BY <1>1, ConnTypes DEF TypeOK, Timeouts
  <2>2. k \in ConnType
    BY <2>1 DEF ConnType, Phases
  <2> QED
    BY <1>4, <2>2 DEF Accept
<1>5. ASSUME NEW next \in {"body", "call", "reply"}, Header(c, next)
      PROVE  \E k \in ConnType :
               /\ Become(c, k)
               /\ In(c, "new") \/ In(c, "idle")
               /\ \/ k = [Started(c) EXCEPT !.phase = "body"]
                  \/ k = Calling(Started(c))
                  \/ k = Replying(Started(c), 200)
  <2>1. Started(c) \in ConnType
    BY StartedType
  <2>2. [Started(c) EXCEPT !.phase = "body"] \in ConnType
    BY <2>1, <1>3 DEF ConnType
  <2>3. Calling(Started(c)) \in ConnType
    BY <2>1, ConnTypes
  <2>4. Replying(Started(c), 200) \in ConnType
    <3>1. 200 \in Statuses
      BY DEF Statuses
    <3>2. \A s \in Statuses : Replying(Started(c), s) \in ConnType
      BY <2>1, ConnTypes
    <3> QED
      BY <3>1, <3>2
  <2> QED
    BY <1>5, <2>2, <2>3, <2>4, HeaderStep
<1>6. CASE HeaderTimeout(c) \/ Leave(c)
  BY <1>6, <1>2, <1>3, <1>03 DEF HeaderTimeout, Leave, In
<1>7. CASE \E next \in {"call", "reply"} : BodyRead(c, next)
  BY <1>7, <1>2, <1>3 DEF BodyRead
<1>8. CASE BodyTooLarge(c)
  BY <1>8, <1>2, <1>3 DEF BodyTooLarge
<1>9. CASE \E status \in {200, 400, 413} : BodyStalled(c, status)
  <2>1. \A s \in Statuses : [Replying(K, s) EXCEPT !.fault = "late"] \in ConnType
    BY <1>2, <1>3 DEF ConnType
  <2> QED
    BY <1>9, <1>3, <2>1 DEF BodyStalled
<1>10. CASE Answer(c)
  BY <1>10, <1>2, <1>3 DEF Answer
<1>11. CASE CallTimeout(c)
  BY <1>11, <1>2, <1>3 DEF CallTimeout
<1>12. CASE Deliver(c)
  <2>1. In(c, "reply") /\ K.phase \in Serving
    BY <1>12, <1>03 DEF Deliver, In
  <2> QED
    BY <1>12, <1>2, <1>3, <2>1 DEF Deliver
<1>13. CASE Expire(c)
  BY <1>13, <1>2, <1>3 DEF Expire
<1> QED
  BY <1>4, <1>5, <1>6, <1>7, <1>8, <1>9, <1>10, <1>11, <1>12, <1>13 DEF Serve, Timer

\* Whatever a connection becomes, it carries what belongs to it; and only one that
\* is served becomes another one that is, or is accepted.
LEMMA SuccessorFits ==
    ASSUME TypeOK, NEW c \in Conn, NEW k \in ConnType, Successor(c, k), main # "exited"
    PROVE  Fits(k) /\ (k.phase \in Serving => listener # "down")
<1> DEFINE K == conn[c]
<1>1. /\ K \in ConnType /\ Started(c) \in ConnType
      /\ Fits(K) /\ (K.phase \in Serving => listener # "down")
  BY StartedType DEF TypeOK
<1>2. Started(c).opened = 0 /\ Started(c).callBy = K.callBy /\ Started(c).fault = K.fault
  BY <1>1 DEF Started, ConnType
<1>3. CASE In(c, "none") /\ listener = "up"
           /\ k = [Blank EXCEPT !.phase = "new", !.opened = clock, !.readBy = Until(timeouts.read)]
  BY <1>3 DEF Fits, Blank, Handling
<1>4. CASE k = Ended(conn[c], "closed") \/ k = Ended(conn[c], "expired")
  BY <1>4 DEF Fits, Ended, Blank, Handling, Serving
<1>5. CASE In(c, "reply") /\ conn[c].fault # "late" /\ k = Ended(conn[c], "idle")
  <2>1. K.fault = "none" /\ K.phase \in Serving
    BY <1>1, <1>5 DEF ConnType, Faults, In, Serving, Handling
  <2> QED
    BY <1>1, <1>5, <2>1 DEF Fits, Ended, Blank, Handling
<1>6. CASE In(c, "new") \/ In(c, "idle")
  <2>1. K.callBy = 0 /\ K.fault = "none" /\ K.phase \in Serving
    BY <1>1, <1>6 DEF Fits, In, Serving
  <2>2. CASE k = [Started(c) EXCEPT !.phase = "body"]
    BY <1>1, <1>2, <2>1, <2>2 DEF Fits, ConnType, Handling
  <2>3. CASE k = Calling(Started(c))
    BY <1>1, <1>2, <2>1, <2>3 DEF Fits, Calling, ConnType, Handling
  <2>4. CASE k = Replying(Started(c), 200)
    BY <1>1, <1>2, <2>1, <2>4 DEF Fits, Replying, ConnType, Handling
  <2> QED
    BY <1>3, <1>4, <1>5, <1>6, <2>1, <2>2, <2>3, <2>4 DEF Successor, In
<1>7. CASE In(c, "body") \/ In(c, "call")
  <2>1. K.opened = 0 /\ K.fault = "none" /\ K.phase \in Serving
    BY <1>1, <1>7 DEF Fits, In, Serving, Handling
  <2>2. CASE k = Calling(conn[c])
    BY <1>1, <2>1, <2>2 DEF Fits, Calling, ConnType, Handling
  <2>3. CASE \E s \in Statuses : \/ k = Replying(conn[c], s)
                               \/ k = [Replying(conn[c], s) EXCEPT !.fault = "late"]
    <3>1. k.phase = "reply" /\ k.opened = 0 /\ k.readBy = 0 /\ k.callBy = 0
      BY <1>1, <2>1, <2>3 DEF Replying, ConnType
    <3> QED
      BY <1>1, <2>1, <3>1 DEF Fits, Handling
  <2> QED
    BY <1>3, <1>4, <1>5, <1>7, <2>1, <2>2, <2>3 DEF Successor, In
<1> QED
  BY <1>3, <1>4, <1>5, <1>6, <1>7 DEF Successor

\* A connection that the exit or Shutdown closes.
LEMMA EndedType ==
    ASSUME TypeOK, NEW c \in Conn, NEW phase \in {"lost", "closed"}
    PROVE  /\ Ended(conn[c], phase) \in ConnType /\ Fits(Ended(conn[c], phase))
           /\ Ended(conn[c], phase).phase = phase
<1>1. conn[c] \in ConnType /\ phase \in Phases
  BY DEF TypeOK, Phases
<1>2. Ended(conn[c], phase) \in ConnType
  BY <1>1, ConnTypes
<1>3. Ended(conn[c], phase).phase = phase /\ Fits(Ended(conn[c], phase))
  BY DEF Fits, Ended, Blank, Handling
<1> QED
  BY <1>2, <1>3

LEMMA ExitType ==
    ASSUME TypeOK, NEW why \in {"clean", "timeout", "error"}, Exit(why)
    PROVE  TypeOK'
<1>1. ASSUME NEW c \in Conn
      PROVE  conn'[c] \in ConnType /\ Fits(conn'[c]) /\ conn'[c].phase \notin Serving
  <2>1. conn[c] \in ConnType /\ Fits(conn[c])
    BY DEF TypeOK
  <2>2. \/ \E phase \in {"lost", "closed"} : conn'[c] = Ended(conn[c], phase)
        \/ conn'[c] = conn[c] /\ conn[c].phase \notin Serving
    BY DEF Exit, Serving
  <2> QED
    BY <2>1, <2>2, EndedType DEF Serving, Handling
<1>2. conn' \in [Conn -> ConnType]
  BY <1>1 DEF Exit
<1>3. main' = "exited" /\ ending' = why
      /\ UNCHANGED <<clock, timeouts, listener, signalAt, drainBy, pollBy>>
  BY DEF Exit
<1> QED
  BY <1>1, <1>2, <1>3 DEF TypeOK

LEMMA TypeStep == TypeOK /\ [Next]_vars => TypeOK'
<1> SUFFICES ASSUME TypeOK, [Next]_vars PROVE TypeOK'
  OBVIOUS
<1>1. ASSUME NEW c \in Conn, Serve(c) PROVE TypeOK'
  <2>1. PICK k \in ConnType : Become(c, k) /\ Successor(c, k)
    BY <1>1, ServeStep
  <2>2. main # "exited" /\ conn' = [conn EXCEPT ![c] = k]
        /\ UNCHANGED <<clock, timeouts, main, listener, signalAt, drainBy, pollBy, ending>>
    BY <2>1 DEF Become
  <2>3. Fits(k) /\ (k.phase \in Serving => listener # "down")
    BY <2>1, <2>2, SuccessorFits
  <2>4. \A d \in Conn : conn'[d] = IF d = c THEN k ELSE conn[d]
    BY <2>2 DEF TypeOK
  <2>5. \A d \in Conn : Fits(conn'[d])
    BY <2>3, <2>4 DEF TypeOK
  <2>6. \A d \in Conn : conn'[d].phase \in Serving => main # "exited" /\ listener # "down"
    BY <2>2, <2>3, <2>4 DEF TypeOK
  <2>7. conn' \in [Conn -> ConnType]
    BY <2>2 DEF TypeOK
  <2> QED
    BY <2>2, <2>5, <2>6, <2>7 DEF TypeOK
<1>2. CASE Listen \/ ServeError \/ Signal \/ Tick
  BY <1>2 DEF Listen, ServeError, Signal, Tick, TypeOK
<1>3. CASE ServeErrorStops \/ DrainDone \/ DrainTimeout
  BY <1>3, ExitType DEF ServeErrorStops, DrainDone, DrainTimeout
<1>4. CASE Drain
  <2>1. timeouts \in Timeouts
    BY LifecycleAssumption DEF TypeOK
  <2>2. DrainEnd \in Nat
    BY <2>1 DEF DrainEnd, Timeouts, TypeOK
  <2> QED
    BY <1>4, <2>2 DEF Drain, TypeOK
<1>5. CASE Poll
  <2>1. ASSUME NEW c \in Conn
        PROVE  /\ conn'[c] \in ConnType /\ Fits(conn'[c])
               /\ conn'[c].phase \in Serving => conn[c].phase \in Serving
    <3>1. conn[c] \in ConnType /\ Fits(conn[c])
      BY DEF TypeOK
    <3>2. conn'[c] = conn[c] \/ conn'[c] = Ended(conn[c], "closed")
      BY <1>5 DEF Poll
    <3> QED
      BY <3>1, <3>2, EndedType DEF Serving, Handling
  <2>2. conn' \in [Conn -> ConnType] /\ pollBy' \in Nat
    BY <1>5, <2>1, LifecycleAssumption DEF Poll, TypeOK
  <2> QED
    BY <1>5, <2>1, <2>2 DEF Poll, TypeOK
<1>6. CASE UNCHANGED vars
  BY <1>6 DEF vars, TypeOK
<1> QED
  BY <1>1, <1>2, <1>3, <1>4, <1>5, <1>6 DEF Next, Stop

LEMMA TypeInit == Init => TypeOK
BY DEF Init, TypeOK, Fits, Serving, Blank, ConnType, Phases, Handling, Statuses, Faults

\* Through every timer, loss and exit, a connection carries the deadlines of what
\* it is doing and no other, nothing is served before the listener is up or after
\* the exit, and the process has a reason to end exactly when it has ended.
THEOREM TypeCorrect == Spec => []TypeOK
BY TypeInit, TypeStep, PTL DEF Spec

LEMMA ConfigFixed == TypeOK /\ [Next]_vars => timeouts' = timeouts
<1>1. ASSUME TypeOK, NEW c \in Conn, Serve(c) PROVE timeouts' = timeouts
  BY <1>1, ServeStep DEF Become
<1> QED
  BY <1>1 DEF Next, Stop, Listen, ServeError, Signal, ServeErrorStops, Drain, Poll, DrainDone,
              DrainTimeout, Exit, Tick, vars

(***************************************************************************)
(* The write deadline.                                                     *)
(***************************************************************************)

Timed(t) == t.read > 0 /\ t.upstream > 0 /\ t.write > 0

\* A connection's deadlines follow from one another: the read deadline is at
\* most a read timeout away, the write deadline left room for the read, the
\* call and the reply when the header came, and the clock is not beyond the
\* deadline of what the connection waits for.
Timely(k, now, t) ==
    /\ k.phase = "new" => now <= k.readBy /\ k.readBy <= now + t.read
    /\ k.phase = "body" => now <= k.readBy /\ k.readBy + t.write <= k.writeBy + t.read
    /\ k.phase = "call" => now <= k.callBy /\ k.callBy + t.write <= k.writeBy + t.read + t.upstream

TimelyInv == Timed(timeouts) => \A c \in Conn : Timely(conn[c], clock, timeouts)

LEMMA TimedTypes ==
    ASSUME TypeOK, Timed(timeouts)
    PROVE  /\ clock \in Nat \ {0} /\ timeouts \in Timeouts /\ \A d \in Conn : conn[d] \in ConnType
           /\ timeouts.read \in Nat \ {0} /\ timeouts.upstream \in Nat \ {0}
           /\ timeouts.write \in Nat \ {0} /\ timeouts.shutdown \in Int
           /\ Until(timeouts.read) = clock + timeouts.read
           /\ Until(timeouts.upstream) = clock + timeouts.upstream
           /\ WriteDeadline = clock + timeouts.write
BY LifecycleAssumption DEF TypeOK, Timeouts, Timed, Until, WriteDeadline

\* What a header starts, a body read or a call, and the reply to either.
LEMMA StartedFields ==
    ASSUME TypeOK, Timed(timeouts), NEW c \in Conn, In(c, "new") \/ In(c, "idle")
    PROVE  LET B == Started(c) IN
           /\ B \in ConnType /\ B.readBy \in Nat
           /\ B.writeBy = clock + timeouts.write
           /\ B.readBy = IF In(c, "new") THEN conn[c].readBy ELSE clock + timeouts.read
           /\ \A k : k = [B EXCEPT !.phase = "body"] =>
                k.phase = "body" /\ k.readBy = B.readBy /\ k.writeBy = B.writeBy
           /\ \A k : k = Calling(B) =>
                k.phase = "call" /\ k.callBy = clock + timeouts.upstream /\ k.writeBy = B.writeBy
           /\ \A k : k = Replying(B, 200) => k.phase = "reply" /\ k.writeBy = B.writeBy
<1> DEFINE B == Started(c)
<1>1. B \in ConnType /\ conn[c] \in ConnType
  BY StartedType DEF TypeOK
<1>2. B.readBy \in Nat /\ B.writeBy = clock + timeouts.write
      /\ B.readBy = IF In(c, "new") THEN conn[c].readBy ELSE clock + timeouts.read
  BY <1>1, TimedTypes DEF Started, ConnType
<1> HIDE DEF B
<1>3. \A k : k = [B EXCEPT !.phase = "body"] =>
        k.phase = "body" /\ k.readBy = B.readBy /\ k.writeBy = B.writeBy
  BY <1>1 DEF ConnType
<1>4. \A k : k = Calling(B) =>
        k.phase = "call" /\ k.callBy = clock + timeouts.upstream /\ k.writeBy = B.writeBy
  BY <1>1, TimedTypes DEF Calling, ConnType
<1>5. \A k : k = Replying(B, 200) => k.phase = "reply" /\ k.writeBy = B.writeBy
  BY <1>1 DEF Replying, ConnType
<1> QED
  BY <1>1, <1>2, <1>3, <1>4, <1>5 DEF B

LEMMA RepliedFields ==
    ASSUME TypeOK, NEW c \in Conn, NEW k,
           \E s \in Statuses : \/ k = Replying(conn[c], s)
                              \/ k = [Replying(conn[c], s) EXCEPT !.fault = "late"]
    PROVE  k.phase = "reply" /\ k.writeBy = conn[c].writeBy
<1>1. conn[c] \in ConnType
  BY DEF TypeOK
<1>2. \A s : Replying(conn[c], s).phase = "reply" /\ Replying(conn[c], s).writeBy = conn[c].writeBy
  BY <1>1 DEF Replying, ConnType
<1>3. \A s \in Statuses : Replying(conn[c], s) \in ConnType
  BY <1>1, ConnTypes
<1>4. \A s \in Statuses : LET r == [Replying(conn[c], s) EXCEPT !.fault = "late"] IN
        r.phase = "reply" /\ r.writeBy = conn[c].writeBy
  BY <1>2, <1>3 DEF ConnType
<1> QED
  BY <1>2, <1>4

\* A connection that goes on does so in time, and one whose reply begins has room
\* for it.
LEMMA TimelySuccessor ==
    ASSUME TypeOK, TimelyInv, Timed(timeouts), NEW c \in Conn, NEW k \in ConnType,
           Successor(c, k)
    PROVE  /\ Timely(k, clock, timeouts)
           /\ k.phase = "reply" =>
                k.writeBy >= clock + timeouts.write - timeouts.read - timeouts.upstream
<1> DEFINE K == conn[c]  t == timeouts
<1>0. /\ clock \in Nat \ {0} /\ K \in ConnType /\ t.write \in Nat \ {0}
      /\ t.read \in Nat \ {0} /\ t.upstream \in Nat \ {0}
      /\ Until(t.read) = clock + t.read
      /\ Until(t.upstream) = clock + t.upstream
  BY TimedTypes
<1>1. Timely(K, clock, t)
  BY DEF TimelyInv
<1>2. CASE k = [Blank EXCEPT !.phase = "new", !.opened = clock, !.readBy = Until(timeouts.read)]
  <2>1. k.phase = "new" /\ k.readBy = clock + t.read
    BY <1>2, <1>0 DEF Blank
  <2> QED
    BY <2>1, <1>0 DEF Timely
<1>3. CASE \E phase \in {"closed", "idle", "expired"} : k = Ended(conn[c], phase)
  <2>1. k.phase \in {"closed", "idle", "expired"}
    BY <1>3 DEF Ended, Blank
  <2> QED
    BY <2>1 DEF Timely
<1>4. CASE In(c, "new") \/ In(c, "idle")
  <2> DEFINE B == Started(c)
  <2>1. /\ B.readBy \in Nat /\ B.writeBy = clock + t.write
        /\ clock <= B.readBy /\ B.readBy <= clock + t.read
    BY <1>0, <1>1, <1>4, StartedFields DEF Timely, In, ConnType
  <2>2. CASE k = [Started(c) EXCEPT !.phase = "body"]
    <3>1. k.phase = "body" /\ k.readBy = B.readBy /\ k.writeBy = B.writeBy
      BY <2>2, <1>4, StartedFields
    <3> QED
      BY <3>1, <2>1, <1>0 DEF Timely
  <2>3. CASE k = Calling(Started(c))
    <3>1. k.phase = "call" /\ k.callBy = clock + t.upstream /\ k.writeBy = B.writeBy
      BY <2>3, <1>4, StartedFields
    <3> QED
      BY <3>1, <2>1, <1>0 DEF Timely
  <2>4. CASE k = Replying(Started(c), 200)
    <3>1. k.phase = "reply" /\ k.writeBy = B.writeBy
      BY <2>4, <1>4, StartedFields
    <3> QED
      BY <3>1, <2>1, <1>0 DEF Timely
  <2> QED
    BY <1>2, <1>3, <1>4, <2>2, <2>3, <2>4 DEF Successor, In
<1>5. CASE In(c, "body") \/ In(c, "call")
  <2>1. /\ K.readBy \in Nat /\ K.callBy \in Nat /\ K.writeBy \in Nat
        /\ K.phase = "body" => clock + t.write <= K.writeBy + t.read
        /\ clock + t.write <= K.writeBy + t.read + t.upstream
    BY <1>0, <1>1, <1>5 DEF Timely, In, ConnType
  <2>2. CASE In(c, "body") /\ k = Calling(conn[c])
    <3>1. k.phase = "call" /\ k.callBy = clock + t.upstream /\ k.writeBy = K.writeBy
      BY <2>2, <1>0 DEF ConnType, Calling
    <3> QED
      BY <3>1, <2>1, <2>2, <1>0 DEF Timely, In
  <2>3. CASE \E s \in Statuses : \/ k = Replying(conn[c], s)
                               \/ k = [Replying(conn[c], s) EXCEPT !.fault = "late"]
    <3>1. k.phase = "reply" /\ k.writeBy = K.writeBy
      BY <2>3, RepliedFields
    <3> QED
      BY <3>1, <2>1, <1>0 DEF Timely
  <2> QED
    BY <1>2, <1>3, <1>5, <2>2, <2>3 DEF Successor, In
<1> QED
  BY <1>2, <1>3, <1>4, <1>5 DEF Successor

LEMMA TimelyStep == TypeOK /\ TimelyInv /\ [Next]_vars => TimelyInv'
<1> SUFFICES ASSUME TypeOK, TimelyInv, [Next]_vars, Timed(timeouts) PROVE TimelyInv'
  BY ConfigFixed DEF TimelyInv
<1>1. ASSUME NEW c \in Conn, Serve(c) PROVE TimelyInv'
  <2>1. PICK k \in ConnType : Become(c, k) /\ Successor(c, k)
    BY <1>1, ServeStep
  <2>2. Timely(k, clock, timeouts)
    BY <2>1, TimelySuccessor
  <2> QED
    BY <2>1, <2>2 DEF TimelyInv, Become, TypeOK
<1>2. CASE Listen \/ ServeError \/ Signal \/ Drain \/ UNCHANGED vars
  BY <1>2 DEF Listen, ServeError, Signal, Drain, vars, TimelyInv
<1>3. CASE \/ ServeErrorStops \/ DrainDone \/ DrainTimeout \/ Poll
  <2>1. clock' = clock /\ timeouts' = timeouts
    BY <1>3 DEF ServeErrorStops, DrainDone, DrainTimeout, Poll, Exit
  <2>2. ASSUME NEW d \in Conn
        PROVE  \/ conn'[d] = conn[d]
               \/ \E phase \in {"lost", "closed"} : conn'[d] = Ended(conn[d], phase)
    BY <1>3 DEF ServeErrorStops, DrainDone, DrainTimeout, Poll, Exit
  <2>3. ASSUME NEW d \in Conn PROVE Timely(conn'[d], clock, timeouts)
    <3>1. CASE conn'[d] = conn[d]
      BY <3>1 DEF TimelyInv
    <3>2. CASE \E phase \in {"lost", "closed"} : conn'[d] = Ended(conn[d], phase)
      BY <3>2, EndedType DEF Timely
    <3> QED
      BY <2>2, <3>1, <3>2
  <2> QED
    BY <2>1, <2>3 DEF TimelyInv
<1>4. CASE Tick
  <2>1. ASSUME NEW d \in Conn PROVE Timely(conn[d], clock + 1, timeouts)
    <3>1. conn[d] \in ConnType /\ Timely(conn[d], clock, timeouts) /\ ~Due(d)
      BY <1>4, TimedTypes DEF Tick, TimelyInv
    <3>2. conn[d].readBy \in Nat /\ conn[d].callBy \in Nat /\ conn[d].writeBy \in Nat
      BY <3>1 DEF ConnType
    <3> QED
      BY <3>1, <3>2, TimedTypes DEF Timely, Due, Passed, In
  <2> QED
    BY <1>4, <2>1 DEF Tick, TimelyInv
<1> QED
  BY <1>1, <1>2, <1>3, <1>4 DEF Next, Stop

LEMMA TimelyInit == Init => TimelyInv
<1>1. Blank.phase = "none"
  BY DEF Blank
<1>2. Init => \A c \in Conn : conn[c] = Blank
  BY Zenon DEF Init
<1>3. (\A c \in Conn : conn[c] = Blank) => \A c \in Conn : Timely(conn[c], clock, timeouts)
  BY Zenon, <1>1 DEF Timely
<1> QED
  BY <1>2, <1>3 DEF TimelyInv

\* Only a step of the connection itself starts a reply.
LEMMA OnlyServeReplies ==
    ASSUME TypeOK, [Next]_vars, NEW c \in Conn, StartsToReply(c)
    PROVE  Serve(c)
<1>1. ASSUME NEW d \in Conn, Serve(d) PROVE d = c
  <2>1. PICK k \in ConnType : Become(d, k)
    BY <1>1, ServeStep
  <2> QED
    BY <2>1 DEF Become, StartsToReply, In, TypeOK
<1>2. CASE Listen \/ ServeError \/ Signal \/ Drain \/ Tick \/ UNCHANGED vars
  BY <1>2 DEF Listen, ServeError, Signal, Drain, Tick, vars, StartsToReply, In
<1>3. CASE ServeErrorStops \/ DrainDone \/ DrainTimeout \/ Poll
  <2>1. \/ conn'[c] = conn[c]
        \/ \E phase \in {"lost", "closed"} : conn'[c] = Ended(conn[c], phase)
    BY <1>3 DEF ServeErrorStops, DrainDone, DrainTimeout, Poll, Exit
  <2> QED
    BY <2>1, EndedType DEF StartsToReply, In
<1> QED
  BY <1>1, <1>2, <1>3 DEF Next, Stop

\* However slowly the body comes and Toss answers, a reply begins with the write
\* timeout less the read and the upstream timeout before it, at the least: what a
\* client loses to the write deadline it has lost by reading slowly itself
\* (main.go:38-41).
THEOREM ReplyInTime == Spec => RepliesHaveTime
<1>1. TypeOK /\ TimelyInv /\ [Next]_vars =>
        [\A c \in Conn :
           LET t == timeouts IN
           t.read > 0 /\ t.write > 0 /\ t.upstream > 0 /\ StartsToReply(c)
             => conn'[c].writeBy >= clock + t.write - t.read - t.upstream]_vars
  <2> SUFFICES ASSUME TypeOK, TimelyInv, [Next]_vars, NEW c \in Conn, StartsToReply(c),
                      timeouts.read > 0 /\ timeouts.write > 0 /\ timeouts.upstream > 0
               PROVE  conn'[c].writeBy >= clock + timeouts.write - timeouts.read - timeouts.upstream
    OBVIOUS
  <2>1. Timed(timeouts) /\ Serve(c)
    BY OnlyServeReplies DEF Timed
  <2>2. PICK k \in ConnType : Become(c, k) /\ Successor(c, k)
    BY <2>1, ServeStep
  <2>3. conn'[c] = k
    BY <2>2 DEF Become, TypeOK
  <2> QED
    BY <2>1, <2>2, <2>3, TimelySuccessor DEF StartsToReply
<1> QED
  BY <1>1, TypeInit, TypeStep, TimelyInit, TimelyStep, PTL DEF Spec, RepliesHaveTime

(***************************************************************************)
(* The shutdown timeout.                                                   *)
(***************************************************************************)

Patient(t) ==
    /\ Timed(t)
    /\ t.shutdown > t.read + t.upstream
    /\ t.shutdown > t.read + t.write

\* The last moment a request can have been begun: the start of the drain.
Since == IF main = "draining" THEN drainBy - timeouts.shutdown ELSE clock

\* A header comes a read timeout later at the latest, a call ends an upstream
\* timeout after that, and a reply then or by its write deadline.
Ending(k, now, from, t) ==
    /\ k.phase \in {"new", "body"} => now <= k.readBy /\ k.readBy <= from + t.read
    /\ k.phase = "call" => now <= k.callBy /\ k.callBy <= from + t.read + t.upstream
    /\ k.phase = "reply" => now <= from + t.read + t.upstream \/ now <= k.writeBy
    /\ k.phase = "idle" => now <= from
    /\ k.phase \in Handling => k.writeBy > 0 /\ k.writeBy <= from + t.read + t.write

\* Once Shutdown has looked at the connections, none is idle.
NoneIdle == main = "draining" /\ pollBy # 0 => \A c \in Conn : conn[c].phase # "idle"

PatientInv ==
    Patient(timeouts) =>
      /\ main # "exited" => \A c \in Conn : Ending(conn[c], clock, Since, timeouts)
      /\ main = "draining" => listener # "up"
      /\ main = "serving" => pollBy = 0
      /\ NoneIdle
      /\ \A c \in Conn : conn[c].phase = "lost" => main = "exited" /\ ending = "error"

LEMMA PatientTypes ==
    ASSUME TypeOK, Patient(timeouts)
    PROVE  /\ timeouts.shutdown \in Nat \ {0} /\ drainBy \in Nat /\ pollBy \in Nat
           /\ Since \in Int /\ (main # "draining" => Since = clock)
           /\ timeouts.shutdown > timeouts.read + timeouts.upstream
           /\ timeouts.shutdown > timeouts.read + timeouts.write
<1>1. Timed(timeouts)
  BY DEF Patient
<1> QED
  BY <1>1, TimedTypes DEF Patient, Since, TypeOK

\* When the drain's time is over no handler runs.
LEMMA AllEnded ==
    ASSUME TypeOK, PatientInv, Patient(timeouts), main = "draining", Overdue, NEW c \in Conn
    PROVE  conn[c].phase \notin Handling
<1> DEFINE K == conn[c]  t == timeouts
<1>1. /\ K \in ConnType /\ clock \in Nat /\ t.read \in Nat /\ t.write \in Nat /\ t.upstream \in Nat
      /\ drainBy \in Nat /\ t.shutdown \in Nat
      /\ t.shutdown > t.read + t.upstream /\ t.shutdown > t.read + t.write
      /\ K.readBy \in Nat /\ K.callBy \in Nat /\ K.writeBy \in Nat
  BY TimedTypes, PatientTypes DEF Patient, ConnType
<1>2. Ending(K, clock, drainBy - t.shutdown, t) /\ clock >= drainBy
  BY DEF PatientInv, Since, Overdue
<1> HIDE DEF K, t
<1>3. K.phase # "body" /\ K.phase # "call"
  BY <1>1, <1>2 DEF Ending
<1>4. K.phase # "reply"
  BY <1>1, <1>2 DEF Ending, Handling
<1> QED
  BY <1>3, <1>4 DEF Handling, K

\* What a connection becomes ends in time as well.
LEMMA EndingSuccessor ==
    ASSUME TypeOK, PatientInv, Patient(timeouts), main # "exited",
           NEW c \in Conn, NEW k \in ConnType, Successor(c, k)
    PROVE  /\ Ending(k, clock, Since, timeouts)
           /\ k.phase # "lost"
           /\ k.phase = "idle" => main # "draining"
<1> DEFINE K == conn[c]  t == timeouts
<1>0. /\ clock \in Nat \ {0} /\ K \in ConnType /\ t.write \in Nat \ {0}
      /\ t.read \in Nat \ {0} /\ t.upstream \in Nat \ {0}
      /\ Until(t.read) = clock + t.read
      /\ Until(t.upstream) = clock + t.upstream
      /\ Since \in Int /\ (main # "draining" => Since = clock)
  BY TimedTypes, PatientTypes DEF Patient
<1>00. Timed(timeouts)
  BY DEF Patient
<1>1. Ending(K, clock, Since, t)
  BY DEF PatientInv
<1>2. CASE listener = "up" /\ k = [Blank EXCEPT !.phase = "new", !.opened = clock, !.readBy = Until(timeouts.read)]
  <2>1. k.phase = "new" /\ k.readBy = clock + t.read
    BY <1>2, <1>0 DEF Blank
  <2>2. main # "draining"
    BY <1>2 DEF PatientInv
  <2> QED
    BY <2>1, <2>2, <1>0 DEF Ending, Handling
<1>3. CASE \E phase \in {"closed", "expired"} : k = Ended(conn[c], phase)
  <2>1. k.phase \in {"closed", "expired"}
    BY <1>3 DEF Ended, Blank
  <2> QED
    BY <2>1 DEF Ending, Handling
<1>4. CASE main # "draining" /\ k = Ended(conn[c], "idle")
  <2>1. k.phase = "idle"
    BY <1>4 DEF Ended, Blank
  <2> QED
    BY <2>1, <1>4, <1>0 DEF Ending, Handling
<1>5. CASE In(c, "new") \/ In(c, "idle")
  <2> DEFINE B == Started(c)
  <2>1. /\ B.readBy \in Nat /\ B.writeBy = clock + t.write
        /\ clock <= B.readBy /\ B.readBy <= Since + t.read
    BY <1>0, <1>00, <1>1, <1>5, StartedFields DEF Ending, In, ConnType
  <2>2. CASE k = [Started(c) EXCEPT !.phase = "body"]
    <3>1. k.phase = "body" /\ k.readBy = B.readBy /\ k.writeBy = B.writeBy
      BY <2>2, <1>5, <1>00, StartedFields
    <3> QED
      BY <3>1, <2>1, <1>0 DEF Ending, Handling
  <2>3. CASE k = Calling(Started(c))
    <3>1. k.phase = "call" /\ k.callBy = clock + t.upstream /\ k.writeBy = B.writeBy
      BY <2>3, <1>5, <1>00, StartedFields
    <3> QED
      BY <3>1, <2>1, <1>0 DEF Ending, Handling
  <2>4. CASE k = Replying(Started(c), 200)
    <3>1. k.phase = "reply" /\ k.writeBy = B.writeBy
      BY <2>4, <1>5, <1>00, StartedFields
    <3> QED
      BY <3>1, <2>1, <1>0 DEF Ending, Handling
  <2> QED
    BY <1>2, <1>3, <1>5, <2>2, <2>3, <2>4 DEF Successor, In
<1>6. CASE In(c, "body") \/ In(c, "call")
  <2>1. /\ K.readBy \in Nat /\ K.callBy \in Nat /\ K.writeBy \in Nat
        /\ K.phase = "body" => clock <= Since + t.read
        /\ clock <= Since + t.read + t.upstream
        /\ K.writeBy > 0 /\ K.writeBy <= Since + t.read + t.write
    BY <1>0, <1>1, <1>6 DEF Ending, In, ConnType, Handling
  <2>2. CASE In(c, "body") /\ k = Calling(conn[c])
    <3>1. k.phase = "call" /\ k.callBy = clock + t.upstream /\ k.writeBy = K.writeBy
      BY <2>2, <1>0 DEF ConnType, Calling
    <3> QED
      BY <3>1, <2>1, <2>2, <1>0 DEF Ending, In, Handling
  <2>3. CASE \E s \in Statuses : \/ k = Replying(conn[c], s)
                               \/ k = [Replying(conn[c], s) EXCEPT !.fault = "late"]
    <3>1. k.phase = "reply" /\ k.writeBy = K.writeBy
      BY <2>3, RepliedFields
    <3> QED
      BY <3>1, <2>1, <1>0 DEF Ending, Handling
  <2> QED
    BY <1>2, <1>3, <1>6, <2>2, <2>3 DEF Successor, In
<1> QED
  BY <1>2, <1>3, <1>4, <1>5, <1>6 DEF Successor

LEMMA PatientStep == TypeOK /\ PatientInv /\ [Next]_vars => PatientInv'
<1> SUFFICES ASSUME TypeOK, PatientInv, [Next]_vars, Patient(timeouts) PROVE PatientInv'
  BY ConfigFixed DEF PatientInv
<1>0. timeouts' = timeouts
  BY ConfigFixed
<1>1. ASSUME NEW c \in Conn, Serve(c) PROVE PatientInv'
  <2>1. PICK k \in ConnType : Become(c, k) /\ Successor(c, k)
    BY <1>1, ServeStep
  <2>2. main # "exited" /\ UNCHANGED <<clock, timeouts, main, listener, drainBy, pollBy, ending>>
        /\ \A d \in Conn : conn'[d] = IF d = c THEN k ELSE conn[d]
    BY <2>1 DEF Become, TypeOK
  <2>3. /\ Ending(k, clock, Since, timeouts)
        /\ k.phase # "lost"
        /\ k.phase = "idle" => main # "draining"
    BY <2>1, <2>2, EndingSuccessor
  <2>4. Since' = Since
    BY <2>2 DEF Since
  <2>5. \A d \in Conn : Ending(conn'[d], clock, Since, timeouts)
    BY <2>2, <2>3 DEF PatientInv
  <2> QED
    BY <2>2, <2>3, <2>4, <2>5 DEF PatientInv, NoneIdle
<1>2. CASE Listen \/ ServeError \/ Signal \/ UNCHANGED vars
  BY <1>2 DEF Listen, ServeError, Signal, vars, PatientInv, NoneIdle, Since
<1>3. CASE Drain
  <2>1. /\ Since = clock /\ Since' = clock /\ clock' = clock /\ conn' = conn
        /\ main = "serving" /\ main' = "draining" /\ listener' # "up" /\ pollBy' = pollBy
    BY <1>3, TimedTypes, PatientTypes DEF Drain, Since, DrainEnd, Patient
  <2>2. pollBy = 0
    BY <2>1 DEF PatientInv
  <2> QED
    BY <1>0, <2>1, <2>2 DEF PatientInv, NoneIdle
<1>4. CASE ServeErrorStops
  BY <1>4, EndedType DEF ServeErrorStops, Exit, PatientInv, NoneIdle
<1>5. CASE DrainDone \/ DrainTimeout
  <2>1. main' = "exited" /\ main = "draining" /\ ending = "none"
    BY <1>5 DEF DrainDone, DrainTimeout, Exit, TypeOK
  <2>2. ASSUME NEW d \in Conn PROVE conn[d].phase \notin Handling
    BY <1>5, <2>1, AllEnded DEF DrainDone, DrainTimeout, Busy
  <2>3. ASSUME NEW d \in Conn PROVE conn'[d].phase # "lost"
    <3>1. conn'[d] = conn[d] \/ conn'[d] = Ended(conn[d], "closed")
      BY <1>5, <2>2 DEF DrainDone, DrainTimeout, Exit
    <3>2. conn[d].phase # "lost"
      BY <2>1 DEF PatientInv
    <3> QED
      BY <3>1, <3>2, EndedType
  <2> QED
    BY <2>1, <2>3 DEF PatientInv, NoneIdle
<1>6. CASE Poll
  <2>1. /\ main = "draining"
        /\ UNCHANGED <<clock, timeouts, main, listener, drainBy, ending>>
        /\ \A d \in Conn : conn'[d] = IF Closable(d) THEN Ended(conn[d], "closed") ELSE conn[d]
    BY <1>6 DEF Poll
  <2>2. Since' = Since
    BY <2>1 DEF Since
  <2>3. ASSUME NEW d \in Conn
        PROVE  /\ Ending(conn'[d], clock, Since, timeouts)
               /\ conn'[d].phase \notin {"idle", "lost"}
    <3>1. Ending(conn[d], clock, Since, timeouts) /\ conn[d].phase # "lost"
      BY <2>1 DEF PatientInv, TypeOK
    <3>2. CASE Closable(d)
      <4>1. conn'[d].phase = "closed"
        BY <2>1, <3>2, EndedType
      <4> QED
        BY <4>1 DEF Ending, Handling
    <3>3. CASE ~Closable(d)
      <4>1. conn[d].phase # "idle"
        BY <3>3 DEF Closable, Busy, In, Handling
      <4> QED
        BY <2>1, <3>1, <3>3, <4>1
    <3> QED
      BY <3>2, <3>3
  <2> QED
    BY <2>1, <2>2, <2>3 DEF PatientInv, NoneIdle
<1>7. CASE Tick
  <2> DEFINE t == timeouts
  <2>1. /\ clock' = clock + 1 /\ main # "exited" /\ \A d \in Conn : ~Due(d)
        /\ UNCHANGED <<timeouts, main, listener, drainBy, pollBy, ending, conn>>
    BY <1>7 DEF Tick, MainDue
  <2>2. clock \in Nat \ {0} /\ Since \in Int /\ pollBy \in Nat
    BY TimedTypes, PatientTypes DEF Patient
  <2>3. main = "draining" => pollBy # 0 /\ Since' = Since
    BY <1>7, <2>1, <2>2 DEF Tick, MainDue, Since
  <2>4. main # "draining" => Since = clock /\ Since' = clock + 1
    BY <2>1 DEF Since
  <2>5. ASSUME NEW d \in Conn PROVE Ending(conn[d], clock + 1, Since', t)
    <3> DEFINE K == conn[d]
    <3>1. K \in ConnType /\ Ending(K, clock, Since, t) /\ ~Due(d)
      BY <2>1 DEF PatientInv, TypeOK
    <3>2. /\ K.readBy \in Nat /\ K.callBy \in Nat /\ K.writeBy \in Nat
          /\ t.read \in Nat /\ t.write \in Nat /\ t.upstream \in Nat
      BY <3>1, TimedTypes DEF ConnType, Patient
    <3>3. Since <= Since' /\ Since' \in Int
      BY <2>2, <2>3, <2>4
    <3>4. K.phase \in {"new", "body"} =>
            clock + 1 <= K.readBy \/ K.readBy = 0
      BY <2>2, <3>1, <3>2 DEF Due, Passed
    <3>5. K.phase = "call" => clock + 1 <= K.callBy \/ K.callBy = 0
      BY <2>2, <3>1, <3>2 DEF Due, Passed, In
    <3>6. K.phase = "reply" => clock + 1 <= K.writeBy \/ K.writeBy = 0
      BY <2>2, <3>1, <3>2 DEF Due, Passed, In
    <3>7. K.phase = "idle" => clock + 1 <= Since'
      <4>1. K.phase = "idle" => main # "draining"
        BY <2>3 DEF PatientInv, NoneIdle
      <4> QED
        BY <2>4, <4>1, <2>2
    <3> HIDE DEF K, t
    <3>8. Ending(K, clock + 1, Since', t)
      BY <2>2, <3>1, <3>2, <3>3, <3>4, <3>5, <3>6, <3>7 DEF Ending, Handling
    <3> QED
      BY <3>8 DEF K, t
  <2>6. \A d \in Conn : conn[d].phase # "lost"
    BY <2>1 DEF PatientInv
  <2> QED
    BY <2>1, <2>3, <2>5, <2>6 DEF PatientInv, NoneIdle
<1> QED
  BY <1>1, <1>2, <1>3, <1>4, <1>5, <1>6, <1>7 DEF Next, Stop

LEMMA PatientInit == Init => PatientInv
<1>1. Blank.phase = "none"
  BY DEF Blank
<1>2. Init => main = "serving" /\ pollBy = 0 /\ \A c \in Conn : conn[c] = Blank
  BY Zenon DEF Init
<1>3. (\A c \in Conn : conn[c] = Blank) =>
        \A c \in Conn : Ending(conn[c], clock, Since, timeouts) /\ conn[c].phase # "lost"
  <2> SUFFICES ASSUME \A c \in Conn : conn[c] = Blank, NEW c \in Conn
               PROVE  Ending(conn[c], clock, Since, timeouts) /\ conn[c].phase # "lost"
    OBVIOUS
  <2>1. conn[c].phase = "none"
    BY <1>1
  <2> QED
    BY <2>1 DEF Ending, Handling
<1> QED
  BY <1>2, <1>3 DEF PatientInv, NoneIdle

\* Whoever waits longer at the end than a request can take, reading its body and
\* waiting for Toss or for the write deadline, loses no request: the drain ends
\* after the last handler, whatever the clients and Toss do.  A failing listener
\* is the exception: main waits for nobody then (main.go:63-75).
THEOREM LongDrain == Spec => []DrainLosesNothing
<1>1. TypeOK /\ PatientInv => DrainLosesNothing
  <2> SUFFICES ASSUME TypeOK, PatientInv, Patient(timeouts), NEW c \in Conn, In(c, "lost")
               PROVE  ending = "error"
    BY DEF DrainLosesNothing, Patient, Timed
  <2> QED
    BY DEF PatientInv, In
<1> QED
  BY <1>1, TypeInit, TypeStep, PatientInit, PatientStep, PTL DEF Spec

=============================================================================
