----------------------------- MODULE GateProofs -----------------------------
(***************************************************************************)
(* The limiter implements Gate: every step of LimiterPromise is one of     *)
(* Gate's under the refinement mapping, or leaves all Gate sees alone.     *)
(***************************************************************************)
EXTENDS LimiterPromiseProofs

(***************************************************************************)
(* Gate's own operators are those of Bucket and LimiterWindow under other  *)
(* names.                                                                  *)
(***************************************************************************)
LEMMA GateTerms ==
    ASSUME NEW k, NEW l, NEW t, NEW x, NEW y
    PROVE  /\ Abstract!Metered(k) <=> Gated(k)
           /\ Abstract!Within(t) <=> In(t, window)
           /\ Abstract!Lesser(x, y) = Lesser(x, y)
           /\ Abstract!Greater(x, y) = Greater(x, y)
           /\ Abstract!Token = Token
           /\ Abstract!Burst(l) = Burst(l)
           /\ Abstract!Ratio = Ratio
           /\ Abstract!GroupLimit(k[2], t) = GroupLimit(k[2], t)
<1>1. Abstract!Metered(k) <=> Gated(k)
  BY DEF Abstract!Metered, Gated
<1>2. Abstract!Within(t) <=> In(t, window)
  BY DEF Abstract!Within, In
<1>3. /\ Abstract!Lesser(x, y) = Lesser(x, y) /\ Abstract!Greater(x, y) = Greater(x, y)
      /\ Abstract!Token = Token /\ Abstract!Ratio = Ratio
  BY DEF Abstract!Lesser, Lesser, Abstract!Greater, Greater, Abstract!Token, Token, Abstract!Ratio, Ratio
<1>4. Abstract!Burst(l) = Burst(l)
  BY DEF Abstract!Burst, Burst, Abstract!Token, Token, Abstract!Greater, Greater
<1>5. Abstract!GroupLimit(k[2], t) = GroupLimit(k[2], t)
  BY DEF Abstract!GroupLimit, GroupLimit, Abstract!InPeak, InPeak
<1> QED
  BY <1>1, <1>2, <1>3, <1>4, <1>5

LEMMA GateBounds ==
    ASSUME NEW k, NEW l
    PROVE  l \in Abstract!Bounds(k) <=> l \in GroupLimits(k[2]) /\ Concerns(k, l)
  BY GateTerms DEF Abstract!Bounds, GroupLimits, Concerns, Dominates

(***************************************************************************)
(* What Gate sees of a caller, and how an action moves it.                 *)
(***************************************************************************)
PhaseAt(place, locals) ==
    IF place \in {"idle", "granted"} THEN place
    ELSE IF locals.op = "refund" THEN "refunding"
    ELSE IF locals.op = "observe" THEN "reporting"
    ELSE "asking"

EndAt(locals) ==
    IF locals.op = "observe" /\ locals.retry > 0 THEN locals.now + locals.retry ELSE 0

Face(c) == <<PhaseOf(c), call[c].key, call[c].now, EndOf(c)>>

LEMMA FaceTurns ==
    ASSUME NEW c \in Caller, NEW to, NEW k, NEW start, NEW end,
           PhaseOf(c)' = to, call'[c].key = k, call'[c].now = start, EndOf(c)' = end,
           \A d \in Caller : d # c => pc'[d] = pc[d] /\ call'[d] = call[d],
           UNCHANGED <<clock, window>>
    PROVE  Abstract!Now(c, to, k, start, end)
<1>1. \A d \in Caller : d # c => PhaseOf(d)' = PhaseOf(d) /\ EndOf(d)' = EndOf(d)
  BY DEF PhaseOf, EndOf
<1> QED
  BY <1>1 DEF Abstract!Now

LEMMA FaceMoves ==
    ASSUME IInv, NEW c \in Caller, NEW place, NEW locals, UNCHANGED <<clock, window>>,
           pc' = [pc EXCEPT ![c] = place], call' = [call EXCEPT ![c] = locals],
           NEW to, NEW k, NEW start, NEW end,
           to = PhaseAt(place, locals), k = locals.key, start = locals.now, end = EndAt(locals)
    PROVE  Abstract!Now(c, to, k, start, end)
<1>1. /\ pc'[c] = place /\ call'[c] = locals
      /\ \A d \in Caller : d # c => pc'[d] = pc[d] /\ call'[d] = call[d]
  BY DEF IInv, TypeOK
<1>2. PhaseOf(c)' = to /\ EndOf(c)' = end
  BY <1>1 DEF PhaseOf, PhaseAt, EndOf, EndAt
<1> QED
  BY <1>1, <1>2, FaceTurns

LEMMA FaceOfNoCall ==
    /\ \A locals : PhaseAt("idle", locals) = "idle" /\ PhaseAt("granted", locals) = "granted"
    /\ NoCall.key = Nil /\ NoCall.now = 0 /\ EndAt(NoCall) = 0
  BY DEF NoCall, EndAt, PhaseAt

LEMMA FaceLeft ==
    ASSUME IInv, NEW c \in Caller, UNCHANGED <<clock, window>>,
           pc' = [pc EXCEPT ![c] = "idle"], call' = [call EXCEPT ![c] = NoCall]
    PROVE  Abstract!Now(c, "idle", Nil, 0, 0)
  BY FaceMoves, FaceOfNoCall

LEMMA FacesStay ==
    ASSUME \A c \in Caller : UNCHANGED Face(c), UNCHANGED <<clock, window, served, ban>>
    PROVE  /\ UNCHANGED torn => UNCHANGED Abstract!gateVars
           /\ \A k \in Key :
                torn' = [torn EXCEPT ![k] = @ \union {"removal"}] => Abstract!Tear(k)
  BY DEF Face, Abstract!gateVars, Abstract!Tear

(***************************************************************************)
(* The bucket sections.                                                    *)
(***************************************************************************)
HistoryTyped ==
    /\ served \in [Key -> Int] /\ ban \in [Key -> Nat]
    /\ torn \in [Key -> SUBSET {"removal", "overwrite"}]

\* A section removes no bucket, and only Write moves a ban.
LEMMA SectionRecords ==
    ASSUME IInv, Promise, HistoryTyped, NEW c \in Caller, Section(c)
    PROVE  /\ \A k \in Key : ~Harmful(k)
           /\ \A k \in Key : \A d \in Caller : Banning(d, k) => d = c
           /\ pc[c] # "write" => UNCHANGED <<ban, torn>>
<1>1. UNCHANGED buckets
  BY DEF Section, TakeBlocked, TakeDeny, TakeGrant, Write, Give, Leave
<1>2. \A k \in Key : ~Harmful(k)
  BY <1>1 DEF Harmful, Removed
<1>3. \A k \in Key : \A d \in Caller : Banning(d, k) => d = c
  BY SectionAlone DEF Banning
<1>4. ASSUME pc[c] # "write" PROVE UNCHANGED <<ban, torn>>
  <2>1. \A k \in Key : \A d \in Caller : ~Banning(d, k) /\ ~Shortens(d, k)
    BY <1>3, <1>4 DEF Banning, Shortens
  <2>2. ban' = ban
    BY <2>1 DEF Promise, HistoryTyped
  <2>3. \A k \in Key : torn'[k] = torn[k]
    BY <1>2, <2>1 DEF Promise
  <2>4. torn' = torn
    BY <2>3 DEF Promise, HistoryTyped
  <2> QED
    BY <2>2, <2>4
<1> QED
  BY <1>2, <1>3, <1>4

\* The count moves for the key of the goroutine in the section.
LEMMA SectionCounts ==
    ASSUME IInv, Promise, HistoryTyped, NEW c \in Caller, Section(c)
    PROVE  /\ ~Granting(c) /\ ~Refunding(c) => UNCHANGED served
           /\ Granting(c) =>
                served' = [served EXCEPT ![call[c].key] = IF In(Ready(c).last, window) THEN @ + 1 ELSE @]
           /\ Refunding(c) =>
                served' = [served EXCEPT ![call[c].key] =
                             IF In(heap[ptr[c]].last, window) THEN @ - 1 ELSE @]
<1>1. ~(Granting(c) /\ Refunding(c))
  BY DEF Granting, Refunding
<1>2. served' = [k \in Key |-> served'[k]] /\ served = [k \in Key |-> served[k]]
  BY DEF Promise, HistoryTyped
<1>3. ~Granting(c) /\ ~Refunding(c) => \A k \in Key : served'[k] = served[k]
  BY CountOfKey
<1>4. ASSUME Granting(c), NEW k \in Key
      PROVE  served'[k] = IF call[c].key = k /\ In(Ready(c).last, window) THEN served[k] + 1 ELSE served[k]
  BY <1>1, <1>4, CountOfKey
<1>5. ASSUME Refunding(c), NEW k \in Key
      PROVE  served'[k] = IF call[c].key = k /\ In(heap[ptr[c]].last, window)
                          THEN served[k] - 1 ELSE served[k]
  BY <1>1, <1>5, CountOfKey
<1> QED
  BY <1>2, <1>3, <1>4, <1>5

LEMMA SectionAsks ==
    ASSUME NEW c \in Caller, Ops(c), pc[c] \in {"take", "write", "give"}
    PROVE  PhaseOf(c) = IF pc[c] = "take" THEN "asking"
                        ELSE IF pc[c] = "write" THEN "reporting" ELSE "refunding"
  BY DEF Ops, PhaseOf

LEMMA LeaveTurns ==
    ASSUME IInv, NEW c \in Caller, NEW b, NEW place, NEW locals, Leave(c, b, place, locals),
           UNCHANGED window, NEW to, NEW k, NEW start, NEW end,
           to = PhaseAt(place, locals), k = locals.key, start = locals.now, end = EndAt(locals)
    PROVE  pc'[c] = place /\ Abstract!Now(c, to, k, start, end)
<1>1. /\ pc' = [pc EXCEPT ![c] = place] /\ call' = [call EXCEPT ![c] = locals]
      /\ UNCHANGED <<clock, window>>
  BY DEF Leave
<1>2. pc'[c] = place
  BY <1>1 DEF IInv, TypeOK
<1> QED
  BY <1>1, <1>2, FaceMoves

LEMMA DenyGate ==
    ASSUME IInv, Promise, HistoryTyped, NEW c \in Caller, Ops(c), TakeBlocked(c) \/ TakeDeny(c),
           UNCHANGED window
    PROVE  Abstract!Deny(c)
<1>1. pc[c] = "take" /\ Section(c) /\ \E b : Leave(c, b, "idle", NoCall)
  BY DEF TakeBlocked, TakeDeny, Section
<1>2. pc'[c] = "idle" /\ Abstract!Now(c, "idle", Nil, 0, 0)
  BY <1>1, LeaveTurns, FaceOfNoCall
<1>4. UNCHANGED <<served, ban, torn>>
  BY <1>1, <1>2, SectionRecords, SectionCounts DEF Granting, Refunding
<1>5. PhaseOf(c) = "asking"
  BY <1>1, SectionAsks
<1> QED
  BY <1>2, <1>4, <1>5 DEF Abstract!Deny

\* The time a grant counts at: between the asking and the granting.
LEMMA GrantTime ==
    ASSUME IInv, Clocked, NEW c \in Caller, pc[c] = "take"
    PROVE  call[c].now <= Ready(c).last /\ Ready(c).last <= clock /\ Ready(c).last \in Nat
<1> DEFINE b == heap[ptr[c]]
           now == call[c].now
<1>1. /\ b \in BucketType /\ now \in Time /\ call[c].limit \in Nat /\ Ready(c) \in BucketType
      /\ ptr[c] \in BucketId
  BY ReadyType, InSection DEF CallType, IInv
<1>2. b.last <= clock /\ now <= clock
  BY <1>1 DEF Clocked
<1>3. \/ b.last = 0 /\ Ready(c).last = now
      \/ now <= b.last /\ Ready(c).last = b.last
      \/ b.last < now /\ Ready(c).last = now
  BY <1>1, RefilledFields DEF Ready
<1> QED
  BY <1>1, <1>2, <1>3 DEF BucketType, Time

LEMMA GrantShown ==
    ASSUME NEW c \in Caller, NEW t, NEW k, k = call[c].key, PhaseOf(c) = "asking",
           call[c].now <= t, t <= clock,
           torn[k] = {} => ban[k] <= call[c].now,
           ("removal" \notin torn[k] /\ In(t, window)) =>
             \A l : Concerns(k, l) =>
               (served[k] + 1) * Token <= Burst(l) + l * (Lesser(clock, window[2]) - window[1]),
           served' = [served EXCEPT ![k] = IF In(t, window) THEN @ + 1 ELSE @],
           Abstract!Now(c, "granted", k, 0, 0), UNCHANGED <<ban, torn>>
    PROVE  Abstract!Grant(c, t)
<1>1. Abstract!Within(t) <=> In(t, window)
  BY DEF Abstract!Within, In
<1>2. ("removal" \notin torn[k] /\ In(t, window)) => Abstract!InBounds(k, served[k] + 1)
  BY GateTerms, GateBounds DEF Abstract!InBounds, Abstract!Allowance
<1> QED
  BY <1>1, <1>2 DEF Abstract!Grant

LEMMA GrantGate ==
    ASSUME WInv, Clocked, HInv, KeyWindowBoundUnlessTorn', Promise, HistoryTyped,
           [PNext]_<<vars, windowVars, promiseVars>>,
           NEW c \in Caller, TakeGrant(c), UNCHANGED window, NEW k, k = call[c].key
    PROVE  \E t \in call[c].now .. clock : Abstract!Grant(c, t)
<1> DEFINE t == Ready(c).last
           locals == [NoCall EXCEPT !.op = "allow", !.key = call[c].key]
<1>1. /\ IInv /\ pc[c] = "take" /\ Section(c) /\ Ops(c) /\ k \in Key /\ Gated(k)
      /\ call[c].now \in Nat /\ clock \in Nat
  BY DEF WInv, TakeGrant, Section, HInv, IInv, Working, TypeOK, CallType, Time
<1>2. Leave(c, Spent(Ready(c)), "granted", locals)
  BY DEF TakeGrant
<1>3. pc'[c] = "granted" /\ Abstract!Now(c, "granted", k, 0, 0)
  <2>1. locals.key = k /\ locals.now = 0 /\ EndAt(locals) = 0 /\ PhaseAt("granted", locals) = "granted"
    BY DEF NoCall, EndAt, PhaseAt
  <2> HIDE DEF locals
  <2> QED
    BY <1>1, <1>2, <2>1, LeaveTurns
<1>5. Granting(c)
  BY <1>1, <1>3 DEF Granting
<1>6. PhaseOf(c) = "asking"
  BY <1>1, SectionAsks
<1>7. call[c].now <= t /\ t <= clock /\ t \in Nat
  BY <1>1, GrantTime
<1>8. torn[k] = {} => ban[k] <= call[c].now
  BY <1>1, <1>5, GrantAfterBans DEF HInv
<1>9. UNCHANGED <<ban, torn, clock>>
  BY <1>1, <1>2, SectionRecords DEF Leave
<1>10. served' = [served EXCEPT ![k] = IF In(t, window) THEN @ + 1 ELSE @]
  BY <1>1, <1>5, SectionCounts
<1>11. ASSUME "removal" \notin torn[k], In(t, window), NEW l, Concerns(k, l)
       PROVE  (served[k] + 1) * Token <= Burst(l) + l * (Lesser(clock, window[2]) - window[1])
  <2>1. served'[k] = served[k] + 1
    BY <1>1, <1>10, <1>11 DEF HistoryTyped
  <2>2. "removal" \notin torn'[k] /\ window' = window /\ clock' = clock
    BY <1>9, <1>11
  <2>3. window[1] <= clock /\ window[1] \in Nat
    BY <1>1, <1>7, <1>11, WindowAssumption DEF In, WInv, HistoryType
  <2>4. KeyBound(k)'
    BY <1>1, <2>2 DEF KeyWindowBoundUnlessTorn, Gated
  <2>5. KeyBoundedBy(k, l)'
    BY <1>1, <1>11, <2>2, <2>3, <2>4 DEF KeyBound, Concerns
  <2> QED
    BY <2>1, <2>2, <2>5 DEF KeyBoundedBy
<1>12. t \in call[c].now .. clock
  BY <1>1, <1>7
<1> HIDE DEF t
<1>13. Abstract!Grant(c, t)
  BY <1>3, <1>6, <1>7, <1>8, <1>9, <1>10, <1>11, GrantShown
<1> QED
  BY <1>12, <1>13

LEMMA NoteGate ==
    ASSUME IInv, Promise, HistoryTyped, NEW c \in Caller, Ops(c), Write(c), UNCHANGED window
    PROVE  \E next \in {"idle", "refunding"} : Abstract!Note(c, next)
<1> DEFINE k == call[c].key
           end == EndOf(c)
           seen == Observed(heap[ptr[c]], call[c].now, call[c].header, call[c].retry)
           locals == [NoCall EXCEPT !.op = "refund", !.key = k]
<1>1. /\ pc[c] = "write" /\ call[c].op = "observe" /\ Section(c) /\ k \in Key
      /\ call[c].now \in Nat /\ call[c].retry \in Nat /\ ban \in [Key -> Nat]
      /\ PhaseOf(c) = "reporting"
  BY SectionAsks DEF Write, Section, Ops, IInv, Working, TypeOK, CallType, Time, HistoryTyped
<1>2. Leave(c, seen, "find", locals) \/ Leave(c, seen, "idle", NoCall)
  BY DEF Write
<1>3. pc'[c] # "write" /\ \E next \in {"idle", "refunding"} :
        Abstract!Now(c, next, IF next = "idle" THEN Nil ELSE k, 0, 0)
  <2>1. /\ locals.key = k /\ locals.now = 0 /\ EndAt(locals) = 0 /\ locals.op = "refund"
        /\ NoCall.key = Nil /\ NoCall.now = 0 /\ EndAt(NoCall) = 0 /\ PhaseAt("idle", NoCall) = "idle"
    BY FaceOfNoCall DEF NoCall, EndAt
  <2>2. PhaseAt("find", locals) = "refunding"
    BY <2>1 DEF PhaseAt
  <2> HIDE DEF locals, seen, k
  <2>3. CASE Leave(c, seen, "find", locals)
    <3>1. pc'[c] = "find" /\ Abstract!Now(c, "refunding", k, 0, 0)
      BY <2>1, <2>2, <2>3, LeaveTurns
    <3> QED
      BY <3>1
  <2>4. CASE Leave(c, seen, "idle", NoCall)
    <3>1. pc'[c] = "idle" /\ Abstract!Now(c, "idle", Nil, 0, 0)
      BY <2>1, <2>4, LeaveTurns
    <3> QED
      BY <3>1
  <2> QED
    BY <1>2, <2>3, <2>4
<1>4. UNCHANGED served
  BY <1>1, SectionCounts DEF Granting, Refunding
<1>5. \A j \in Key : \A d \in Caller : Banning(d, j) <=> d = c /\ j = k /\ call[c].retry > 0
  BY <1>1, <1>3, SectionRecords DEF Banning
<1>6. end = IF call[c].retry > 0 THEN call[c].now + call[c].retry ELSE 0
  BY <1>1 DEF EndOf
<1>7. ban' = [ban EXCEPT ![k] = Greater(@, end)]
  <2>1. ASSUME NEW j \in Key, j # k \/ ~(call[c].retry > 0) PROVE ban'[j] = ban[j]
    BY <1>5, <2>1 DEF Promise
  <2>2. ASSUME call[c].retry > 0 PROVE ban'[k] = Greater(ban[k], end)
    <3>1. (CHOOSE d \in Caller : Banning(d, k)) = c /\ Banning(c, k)
      BY <1>1, <1>5, <2>2
    <3> QED
      BY <1>1, <1>6, <2>2, <3>1 DEF Promise
  <2>3. ~(call[c].retry > 0) => Greater(ban[k], end) = ban[k]
    BY <1>1, <1>6 DEF Greater
  <2>4. ban' = [j \in Key |-> ban'[j]] /\ ban = [j \in Key |-> ban[j]]
    BY <1>1 DEF Promise
  <2> HIDE DEF k, end
  <2> QED
    BY <1>1, <2>1, <2>2, <2>3, <2>4
<1>8. torn' = [torn EXCEPT ![k] = IF 0 < end /\ end < ban[k] THEN @ \union {"overwrite"} ELSE @]
  <2>1. \A j \in Key : ~Harmful(j)
    BY <1>1, SectionRecords
  <2>2. 0 < end /\ end < ban[k] <=> call[c].retry > 0 /\ call[c].now + call[c].retry < ban[k]
    BY <1>1, <1>6
  <2>3. \A j \in Key : (\E d \in Caller : Shortens(d, j)) <=> j = k /\ 0 < end /\ end < ban[k]
    BY <1>5, <2>2 DEF Shortens
  <2>4. \A j \in Key : torn'[j] = IF j = k /\ 0 < end /\ end < ban[k]
                                  THEN torn[j] \union {"overwrite"} ELSE torn[j]
    BY <2>1, <2>3 DEF Promise
  <2>5. torn' = [j \in Key |-> torn'[j]] /\ torn = [j \in Key |-> torn[j]]
    BY DEF Promise, HistoryTyped
  <2> HIDE DEF k, end
  <2> QED
    BY <1>1, <2>4, <2>5
<1> QED
  BY <1>1, <1>3, <1>4, <1>7, <1>8, GateTerms DEF Abstract!Note

LEMMA GiveGate ==
    ASSUME IInv, Promise, HistoryTyped, NEW c \in Caller, Ops(c), Give(c), UNCHANGED window
    PROVE  Abstract!Refund(c) \/ Abstract!End(c)
<1>1. pc[c] = "give" /\ Section(c) /\ PhaseOf(c) = "refunding" /\ \E b : Leave(c, b, "idle", NoCall)
  BY SectionAsks DEF Give, Section
<1>2. pc'[c] = "idle" /\ Abstract!Now(c, "idle", Nil, 0, 0)
  BY <1>1, LeaveTurns, FaceOfNoCall
<1>4. UNCHANGED <<ban, torn>>
  BY <1>1, SectionRecords
<1>5. UNCHANGED served \/ served' = [served EXCEPT ![call[c].key] = @ - 1]
  <2>1. CASE Refunding(c)
    BY <1>1, <2>1, SectionCounts DEF HistoryTyped
  <2>2. CASE ~Refunding(c)
    BY <1>1, <2>2, SectionCounts DEF Granting
  <2> QED
    BY <2>1, <2>2
<1>6. CASE UNCHANGED served
  BY <1>1, <1>2, <1>4, <1>6 DEF Abstract!End
<1>7. CASE served' = [served EXCEPT ![call[c].key] = @ - 1]
  BY <1>1, <1>2, <1>4, <1>7 DEF Abstract!Refund
<1> QED
  BY <1>5, <1>6, <1>7

(***************************************************************************)
(* The other steps.                                                        *)
(***************************************************************************)

\* At most one bucket is removed, and nobody's phase moves with it; no step
\* outside the bucket sections moves a ban.
LEMMA OutsideRecords ==
    ASSUME IInv, [Next]_vars, Promise, HistoryTyped, \A c \in Caller : ~Section(c)
    PROVE  /\ UNCHANGED <<served, ban>>
           /\ UNCHANGED buckets => UNCHANGED torn
           /\ \A k \in Key : (\A j \in Key : Removed(j) => j = k) =>
                UNCHANGED torn \/ torn' = [torn EXCEPT ![k] = @ \union {"removal"}]
<1>1. UNCHANGED served
  <2>1. \A k \in Key : served'[k] = served[k]
    BY CountQuiet
  <2> QED
    BY <2>1 DEF Promise, HistoryTyped
<1>2. \A c \in Caller, k \in Key : ~Banning(c, k) /\ ~Shortens(c, k)
  BY SectionLeft DEF Banning, Shortens
<1>3. UNCHANGED ban
  BY <1>2 DEF Promise, HistoryTyped
<1>4. \A k \in Key : torn'[k] = torn[k] \union (IF Harmful(k) THEN {"removal"} ELSE {})
  BY <1>2 DEF Promise
<1>5. torn' = [k \in Key |-> torn'[k]] /\ torn = [k \in Key |-> torn[k]]
  BY DEF Promise, HistoryTyped
<1>6. ASSUME \A k \in Key : ~Harmful(k) PROVE UNCHANGED torn
  <2>1. \A k \in Key : torn'[k] = torn[k]
    BY <1>4, <1>6
  <2> QED
    BY <1>5, <2>1
<1>7. ASSUME NEW k \in Key, \A j \in Key : Removed(j) => j = k
      PROVE  UNCHANGED torn \/ torn' = [torn EXCEPT ![k] = @ \union {"removal"}]
  <2>1. \A j \in Key : j # k => ~Harmful(j)
    BY <1>7 DEF Harmful
  <2>2. CASE Harmful(k)
    <3>1. \A j \in Key : torn'[j] = IF j = k THEN torn[k] \union {"removal"} ELSE torn[j]
      BY <1>4, <2>1, <2>2
    <3> QED
      BY <1>5, <3>1
  <2>3. CASE ~Harmful(k)
    BY <1>6, <2>1, <2>3
  <2> QED
    BY <2>2, <2>3
<1>8. UNCHANGED buckets => UNCHANGED torn
  BY <1>6 DEF Harmful, Removed
<1> QED
  BY <1>1, <1>3, <1>7, <1>8

LEMMA FaceKept ==
    ASSUME NEW c \in Caller, call'[c].op = call[c].op, call'[c].key = call[c].key,
           call'[c].now = call[c].now, call'[c].retry = call[c].retry,
           pc'[c] = pc[c] \/ {pc[c], pc'[c]} \cap {"idle", "granted"} = {}
    PROVE  UNCHANGED Face(c)
  BY DEF Face, PhaseOf, EndOf

\* What Gate does not see.
Unseen(c) ==
    \/ LookupHit(c) \/ LookupFull(c) \/ ReadLimit(c)
    \/ \E b \in BucketId : LookupCreate(c, b) \/ EvictCommit(c, b)
    \/ Find(c) /\ call[c].key \in Mapped

LEMMA UnseenFaces ==
    ASSUME IInv, NEW c \in Caller, Unseen(c), NEW d \in Caller
    PROVE  UNCHANGED Face(d)
<1>1. call[d] \in CallType
  BY DEF IInv, TypeOK
<1>2. /\ call'[d].op = call[d].op /\ call'[d].key = call[d].key
      /\ call'[d].now = call[d].now /\ call'[d].retry = call[d].retry
  <2>1. CASE ReadLimit(c)
    BY <1>1, <2>1 DEF ReadLimit, CallType, IInv, TypeOK
  <2>2. CASE ~ReadLimit(c)
    BY <2>2 DEF Unseen, LookupHit, LookupFull, LookupCreate, EvictCommit, Find
  <2> QED
    BY <2>1, <2>2
<1>3. pc'[d] = pc[d] \/ {pc[d], pc'[d]} \cap {"idle", "granted"} = {}
  <2>1. \A e \in Caller : AfterLookup(e) \in {"limit", "write"}
    BY DEF AfterLookup
  <2>2. PICK place \in {"evict", "take", "give", "limit", "write"} :
          pc' = [pc EXCEPT ![c] = place] /\ pc[c] \notin {"idle", "granted"}
    BY <2>1 DEF Unseen, LookupHit, LookupFull, ReadLimit, LookupCreate, EvictCommit, Find
  <2> QED
    BY <2>2 DEF IInv, TypeOK
<1> QED
  BY <1>2, <1>3, FaceKept

LEMMA UnseenGate ==
    ASSUME IInv, [Next]_vars, Promise, HistoryTyped, \A c \in Caller : ~Section(c),
           NEW c \in Caller, Unseen(c), UNCHANGED window
    PROVE  UNCHANGED Abstract!gateVars \/ \E k \in Key : Abstract!Tear(k)
<1>1. \A d \in Caller : UNCHANGED Face(d)
  BY UnseenFaces
<1>2. UNCHANGED <<clock, window, served, ban>>
  <2>1. UNCHANGED clock
    BY DEF Unseen, LookupHit, LookupFull, ReadLimit, LookupCreate, EvictCommit, Find
  <2> QED
    BY <2>1, OutsideRecords
<1>3. UNCHANGED torn \/ \E k \in Key : torn' = [torn EXCEPT ![k] = @ \union {"removal"}]
  <2>1. ASSUME NEW b \in BucketId, EvictCommit(c, b)
        PROVE  \A j \in Key : Removed(j) => j = Victim
    <3>1. buckets' = [buckets EXCEPT ![Victim] = Nil, ![call[c].key] = b] /\ buckets[call[c].key] = Nil
      BY <2>1 DEF EvictCommit, IInv, Sweeping, Mapped, Working
    <3> HIDE DEF Victim
    <3> QED
      BY <3>1 DEF Removed, IInv, TypeOK
  <2>2. ASSUME NEW b \in BucketId, LookupCreate(c, b) PROVE \A j \in Key : ~Removed(j)
    BY <2>2 DEF LookupCreate, Mapped, Removed, IInv, TypeOK
  <2>3. LookupHit(c) \/ LookupFull(c) \/ ReadLimit(c) \/ Find(c) => \A j \in Key : ~Removed(j)
    BY DEF LookupHit, LookupFull, ReadLimit, Find, Removed
  <2>4. PICK r : \A j \in Key : Removed(j) => j = r
    BY <2>1, <2>2, <2>3 DEF Unseen
  <2>5. CASE r \in Key
    BY <2>4, <2>5, OutsideRecords
  <2>6. CASE r \notin Key
    <3>1. call[c].key \in Key /\ \A j \in Key : Removed(j) => j = call[c].key
      BY <2>4, <2>6 DEF IInv, Working, Unseen, LookupHit, LookupFull, ReadLimit, LookupCreate,
                        EvictCommit, Find
    <3> QED
      BY <3>1, OutsideRecords
  <2> QED
    BY <2>5, <2>6
<1> QED
  BY <1>1, <1>2, <1>3, FacesStay

\* Eviction's and GC's sweeps.
LEMMA SweepGate ==
    ASSUME IInv, [Next]_vars, Promise, HistoryTyped, \A c \in Caller : ~Section(c), UNCHANGED window,
           (\E c \in Caller, k \in Key : EvictVisit(c, k)) \/ GCLock \/ Collect \/ UNCHANGED vars
    PROVE  UNCHANGED Abstract!gateVars \/ \E k \in Key : Abstract!Tear(k)
<1>1. UNCHANGED <<clock, pc, call>>
  <2>1. ASSUME NEW c \in Caller, NEW k \in Key, EvictVisit(c, k) PROVE UNCHANGED <<clock, pc, call>>
    BY <2>1, Zenon DEF EvictVisit
  <2>2. ASSUME NEW k \in Key, GCVisit(k) PROVE UNCHANGED <<clock, pc, call>>
    BY <2>2, Zenon DEF GCVisit
  <2>3. GCLock \/ GCStart \/ GCDrop \/ GCUnlock \/ UNCHANGED vars => UNCHANGED <<clock, pc, call>>
    BY DEF GCLock, GCStart, GCDrop, GCUnlock, vars
  <2> QED
    BY <2>1, <2>2, <2>3 DEF Collect
<1>2. \A d \in Caller : UNCHANGED Face(d)
  BY <1>1 DEF Face, PhaseOf, EndOf
<1>3. UNCHANGED torn \/ \E k \in Key : torn' = [torn EXCEPT ![k] = @ \union {"removal"}]
  <2>1. CASE GCDrop
    <3>1. \A j \in Key : Removed(j) => j = gc.doomed
      BY <2>1 DEF GCDrop, Removed, IInv, TypeOK
    <3>2. gc.doomed \in Key
      BY <2>1 DEF GCDrop, IInv, LockInv, Mapped, TypeOK, GCType
    <3> QED
      BY <3>1, <3>2, OutsideRecords
  <2>2. CASE UNCHANGED buckets
    BY <2>2, OutsideRecords
  <2>3. GCDrop \/ UNCHANGED buckets
    <3>1. ASSUME NEW c \in Caller, NEW k \in Key, EvictVisit(c, k) PROVE UNCHANGED buckets
      BY <3>1, Zenon DEF EvictVisit
    <3>2. ASSUME NEW k \in Key, GCVisit(k) PROVE UNCHANGED buckets
      BY <3>2, Zenon DEF GCVisit
    <3>3. GCLock \/ GCStart \/ GCUnlock \/ UNCHANGED vars => UNCHANGED buckets
      BY DEF GCLock, GCStart, GCUnlock, vars
    <3> QED
      BY <3>1, <3>2, <3>3 DEF Collect
  <2> QED
    BY <2>1, <2>2, <2>3
<1>4. UNCHANGED <<clock, window, served, ban>>
  BY <1>1, OutsideRecords
<1> QED
  BY <1>2, <1>3, <1>4, FacesStay

LEMMA TickGate ==
    ASSUME IInv, [Next]_vars, Promise, HistoryTyped, \A c \in Caller : ~Section(c), UNCHANGED window,
           Tick
    PROVE  Abstract!Pass
<1>1. clock' = clock + 1 /\ UNCHANGED <<buckets, pc, call>>
  BY DEF Tick
<1>2. UNCHANGED <<served, ban, torn>>
  BY <1>1, OutsideRecords
<1>3. \A c \in Caller : UNCHANGED Face(c)
  BY <1>1 DEF Face, PhaseOf, EndOf
<1> QED
  BY <1>1, <1>2, <1>3 DEF Abstract!Pass, Face

LEMMA AskGate ==
    ASSUME IInv, [Next]_vars, Promise, HistoryTyped, \A c \in Caller : ~Section(c), UNCHANGED window,
           NEW c \in Caller, NEW k \in Key, CallAllow(c, k)
    PROVE  Abstract!Ask(c, k) \/ Abstract!Wave(c, k)
<1> DEFINE locals == [NoCall EXCEPT !.op = "allow", !.key = k, !.now = IF Gated(k) THEN clock ELSE 0]
           place == IF Gated(k) THEN "lookup" ELSE "granted"
<1>1. /\ pc[c] = "idle" /\ pc' = [pc EXCEPT ![c] = place] /\ call' = [call EXCEPT ![c] = locals]
      /\ UNCHANGED <<clock, buckets>>
  BY DEF CallAllow
<1>2. UNCHANGED <<served, ban, torn>>
  BY <1>1, OutsideRecords
<1>3. /\ locals.op = "allow" /\ locals.key = k /\ EndAt(locals) = 0
      /\ Gated(k) => locals.now = clock /\ PhaseAt(place, locals) = "asking"
      /\ ~Gated(k) => locals.now = 0 /\ PhaseAt(place, locals) = "granted"
  BY DEF NoCall, EndAt, PhaseAt
<1>4. PhaseOf(c) = "idle"
  BY <1>1 DEF PhaseOf
<1> HIDE DEF locals, place
<1>5. CASE Gated(k)
  <2>1. Abstract!Now(c, "asking", k, clock, 0)
    BY <1>1, <1>3, <1>5, FaceMoves
  <2> QED
    BY <1>2, <1>4, <1>5, <2>1, GateTerms DEF Abstract!Ask
<1>6. CASE ~Gated(k)
  <2>1. Abstract!Now(c, "granted", k, 0, 0)
    BY <1>1, <1>3, <1>6, FaceMoves
  <2> QED
    BY <1>2, <1>4, <1>6, <2>1, GateTerms DEF Abstract!Wave
<1> QED
  BY <1>5, <1>6

LEMMA EndGate ==
    ASSUME IInv, [Next]_vars, Promise, HistoryTyped, \A c \in Caller : ~Section(c), UNCHANGED window,
           NEW c \in Caller, UNCHANGED <<clock, buckets>>, PhaseOf(c) \in {"granted", "refunding"},
           pc' = [pc EXCEPT ![c] = "idle"], call' = [call EXCEPT ![c] = NoCall]
    PROVE  Abstract!End(c)
<1>1. UNCHANGED <<served, ban, torn>>
  BY OutsideRecords
<1>2. Abstract!Now(c, "idle", Nil, 0, 0)
  BY FaceLeft
<1> QED
  BY <1>1, <1>2 DEF Abstract!End

LEMMA ReportGate ==
    ASSUME IInv, [Next]_vars, Promise, HistoryTyped, \A c \in Caller : ~Section(c), UNCHANGED window,
           NEW c \in Caller, NEW h, NEW r \in Retry \union {0}, NEW refund, Settle(c, h, r, refund),
           NEW k, k = call[c].key, Gated(k), NEW end, end = IF r > 0 THEN clock + r ELSE 0
    PROVE  Abstract!Report(c, end) /\ end \in {0} \union {clock + s : s \in Retry}
<1> DEFINE locals == [NoCall EXCEPT !.op = "observe", !.key = call[c].key, !.now = clock,
                                    !.header = h, !.retry = r, !.refund = refund]
<1>1. /\ pc[c] = "granted" /\ pc' = [pc EXCEPT ![c] = "lookup"] /\ call' = [call EXCEPT ![c] = locals]
      /\ UNCHANGED <<clock, buckets>>
  BY DEF Settle
<1>2. UNCHANGED <<served, ban, torn>>
  BY <1>1, OutsideRecords
<1>3. /\ locals.key = k /\ locals.now = clock /\ EndAt(locals) = end
      /\ PhaseAt("lookup", locals) = "reporting"
  BY DEF NoCall, EndAt, PhaseAt
<1>4. PhaseOf(c) = "granted"
  BY <1>1 DEF PhaseOf
<1> HIDE DEF locals
<1>5. Abstract!Now(c, "reporting", k, clock, end)
  BY <1>1, <1>3, FaceMoves
<1>6. Abstract!Report(c, end)
  BY <1>2, <1>4, <1>5, GateTerms DEF Abstract!Report
<1> QED
  BY <1>6

(***************************************************************************)
(* Every step of the limiter is one of Gate's, or none that Gate sees.     *)
(***************************************************************************)
LEMMA SectionGate ==
    ASSUME WInv, Clocked, HInv, KeyWindowBoundUnlessTorn', HistoryTyped, PNext,
           NEW c \in Caller, Section(c)
    PROVE  Abstract!GateNext
<1>1. IInv /\ Promise /\ Ops(c) /\ UNCHANGED window
  BY DEF WInv, HInv, PNext, WNext, Record
<1>2. CASE TakeBlocked(c) \/ TakeDeny(c)
  <2>1. Abstract!Deny(c)
    BY <1>1, <1>2, DenyGate
  <2> QED
    BY <2>1 DEF Abstract!GateNext
<1>3. CASE TakeGrant(c)
  <2>1. \A k : k = call[c].key => \E t \in call[c].now .. clock : Abstract!Grant(c, t)
    BY <1>1, <1>3, GrantGate
  <2> QED
    BY <2>1 DEF Abstract!GateNext
<1>4. CASE Write(c)
  <2>1. \E next \in {"idle", "refunding"} : Abstract!Note(c, next)
    BY <1>1, <1>4, NoteGate
  <2> QED
    BY <2>1 DEF Abstract!GateNext
<1>5. CASE Give(c)
  <2>1. Abstract!Refund(c) \/ Abstract!End(c)
    BY <1>1, <1>5, GiveGate
  <2> QED
    BY <2>1 DEF Abstract!GateNext
<1> QED
  BY <1>2, <1>3, <1>4, <1>5 DEF Section

LEMMA StepGate ==
    ASSUME WInv, Clocked, HInv, KeyWindowBoundUnlessTorn', HistoryTyped, PNext
    PROVE  Abstract!GateNext \/ UNCHANGED Abstract!gateVars
<1>1. /\ IInv /\ [Next]_vars /\ Next /\ Promise /\ UNCHANGED window
      /\ \A c \in Caller : Ops(c)
  BY DEF WInv, HInv, PNext, WNext, Record
<1>2. CASE \E c \in Caller : Section(c)
  BY <1>2, SectionGate
<1>3. CASE \A c \in Caller : ~Section(c)
  <2>1. (\E k \in Key : Abstract!Tear(k)) => Abstract!GateNext
    BY DEF Abstract!GateNext
  <2>2. CASE Tick
    <3>1. Abstract!Pass
      BY <1>1, <1>3, <2>2, TickGate
    <3> QED
      BY <3>1 DEF Abstract!GateNext
  <2>3. ASSUME NEW c \in Caller, NEW k \in Key, CallAllow(c, k) PROVE Abstract!GateNext
    <3>1. Abstract!Ask(c, k) \/ Abstract!Wave(c, k)
      BY <1>1, <1>3, <2>3, AskGate
    <3> QED
      BY <3>1 DEF Abstract!GateNext
  <2>4. ASSUME NEW c \in Caller, Abstract!End(c) PROVE Abstract!GateNext
    BY <2>4 DEF Abstract!GateNext
  <2>5. ASSUME NEW c \in Caller, Unseen(c) PROVE Abstract!GateNext \/ UNCHANGED Abstract!gateVars
    BY <1>1, <1>3, <2>1, <2>5, UnseenGate
  <2>6. ASSUME NEW c \in Caller, Acquire(c) PROVE Abstract!GateNext \/ UNCHANGED Abstract!gateVars
    <3>1. CASE Find(c) /\ call[c].key \notin Mapped
      <4>1. /\ pc[c] = "find" /\ UNCHANGED <<clock, buckets>>
            /\ pc' = [pc EXCEPT ![c] = "idle"] /\ call' = [call EXCEPT ![c] = NoCall]
        BY <3>1 DEF Find
      <4>2. PhaseOf(c) = "refunding"
        BY <1>1, <4>1 DEF Ops, PhaseOf
      <4> QED
        BY <1>1, <1>3, <2>4, <4>1, <4>2, EndGate
    <3> QED
      BY <2>5, <2>6, <3>1 DEF Acquire, Unseen
  <2>7. ASSUME NEW c \in Caller, Proceed(c), ~Unseen(c)
        PROVE  \E k \in Key : EvictVisit(c, k)
    BY <1>3, <2>7 DEF Proceed, Section, Unseen
  <2>8. ASSUME NEW c \in Caller, Respond(c) PROVE Abstract!GateNext
    <3>1. ASSUME NEW h, NEW r \in Retry \union {0}, NEW refund, Settle(c, h, r, refund),
                 Gated(call[c].key)
          PROVE  Abstract!GateNext
      <4>1. \A k, end : k = call[c].key /\ end = (IF r > 0 THEN clock + r ELSE 0)
              => Abstract!Report(c, end) /\ end \in {0} \union {clock + s : s \in Retry}
        BY <1>1, <1>3, <3>1, ReportGate
      <4>2. \E end \in {0} \union {clock + s : s \in Retry} : Abstract!Report(c, end)
        BY <4>1
      <4> QED
        BY <4>2 DEF Abstract!GateNext
    <3>2. ASSUME /\ pc[c] = "granted" /\ UNCHANGED <<clock, buckets>>
                 /\ pc' = [pc EXCEPT ![c] = "idle"] /\ call' = [call EXCEPT ![c] = NoCall]
          PROVE  Abstract!GateNext
      <4>1. PhaseOf(c) = "granted"
        BY <3>2 DEF PhaseOf
      <4> QED
        BY <1>1, <1>3, <2>4, <3>2, <4>1, EndGate
    <3>3. Fail(c) => /\ pc[c] = "granted" /\ UNCHANGED <<clock, buckets>>
                     /\ pc' = [pc EXCEPT ![c] = "idle"] /\ call' = [call EXCEPT ![c] = NoCall]
      BY DEF Fail
    <3>4. ASSUME NEW h, NEW r, NEW refund, Settle(c, h, r, refund), ~Gated(call[c].key)
          PROVE  /\ pc[c] = "granted" /\ UNCHANGED <<clock, buckets>>
                 /\ pc' = [pc EXCEPT ![c] = "idle"] /\ call' = [call EXCEPT ![c] = NoCall]
      BY <3>4 DEF Settle
    <3> QED
      BY <2>8, <3>1, <3>2, <3>3, <3>4 DEF Respond
  <2>9. CASE (\E c \in Caller, k \in Key : EvictVisit(c, k)) \/ GCLock \/ Collect
    BY <1>1, <1>3, <2>1, <2>9, SweepGate
  <2> QED
    BY <1>1, <2>2, <2>3, <2>5, <2>6, <2>7, <2>8, <2>9 DEF Next
<1> QED
  BY <1>2, <1>3

LEMMA StartGate == PInit => Abstract!GateInit
<1> SUFFICES ASSUME PInit PROVE Abstract!GateInit
  OBVIOUS
<1>1. /\ clock = 1 /\ pc = [c \in Caller |-> "idle"] /\ call = [c \in Caller |-> NoCall]
      /\ window \in Windows /\ served = [k \in Key |-> 0] /\ ban = [k \in Key |-> 0]
      /\ torn = [k \in Key |-> {}]
  BY DEF PInit, WInit, Init
<1>2. \A c \in Caller : /\ PhaseOf(c) = "idle" /\ call[c].key = Nil /\ call[c].now = 0 /\ EndOf(c) = 0
  BY <1>1 DEF PhaseOf, EndOf, NoCall
<1>3. window \in (Nat \ {0}) \X Nat
  BY <1>1, WindowAssumption
<1> QED
  BY <1>1, <1>2, <1>3 DEF Abstract!GateInit

LEMMA TornType ==
    ASSUME torn \in [Key -> SUBSET {"removal", "overwrite"}], Promise
    PROVE  torn' \in [Key -> SUBSET {"removal", "overwrite"}]
  BY DEF Promise

\* The limit of every key, a step later.
LEMMA KeyRateNext == (WInv /\ Clocked /\ KInv => KeyWindowBoundUnlessTorn)'
  BY KeyRateHolds, PTL

\* The limiter implements Gate (ImplementsGate): with the buckets, the map, the
\* two kinds of mutex and every pointer a goroutine may still hold hidden, what
\* its callers see is a gate that grants at a time between asking and granting,
\* within the limit and after the bans of the key, except for the tears.
THEOREM LimiterImplementsGate == PSpec => ImplementsGate
<1> DEFINE Torn == torn \in [Key -> SUBSET {"removal", "overwrite"}]
<1>1. PInit => Abstract!GateInit /\ Torn
  BY StartGate DEF PInit
<1>2. Torn /\ [PNext]_<<vars, windowVars, promiseVars>> => Torn'
  BY TornType DEF PNext, promiseVars
<1>3. /\ WInv /\ Clocked /\ HInv /\ KInv /\ Torn
      /\ WInv' /\ Clocked' /\ KInv'
      /\ [PNext]_<<vars, windowVars, promiseVars>>
      => [Abstract!GateNext]_Abstract!gateVars
  <2> SUFFICES ASSUME WInv, Clocked, HInv, KInv, Torn, WInv', Clocked', KInv',
                      [PNext]_<<vars, windowVars, promiseVars>>
               PROVE  Abstract!GateNext \/ UNCHANGED Abstract!gateVars
    OBVIOUS
  <2>1. CASE UNCHANGED <<vars, windowVars, promiseVars>>
    BY <2>1 DEF vars, windowVars, promiseVars, Abstract!gateVars, PhaseOf, EndOf
  <2>2. CASE PNext
    <3>1. KeyWindowBoundUnlessTorn'
      BY KeyRateNext
    <3>2. HistoryTyped
      BY DEF HistoryTyped, HInv, KInv
    <3> QED
      BY <2>2, <3>1, <3>2, StepGate
  <2> QED
    BY <2>1, <2>2
<1> QED
  BY <1>1, <1>2, <1>3, PromiseInvariance, PTL DEF PSpec, ImplementsGate, Abstract!GateSpec

=============================================================================
