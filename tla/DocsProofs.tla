----------------------------- MODULE DocsProofs -----------------------------
(***************************************************************************)
(* The middleware chain, for every configuration, any requests and any     *)
(* answers of Toss, between a browser and a shared cache: what the access  *)
(* log, the errors and the CORS headers say is true on every path through  *)
(* the chain, and the documentation page finds its parts.                  *)
(***************************************************************************)
EXTENDS Docs, TLAPS

(***************************************************************************)
(* What is known of a request at each place of the chain.                  *)
(***************************************************************************)

\* The CORS headers are the origin's.
Corsed(h, origin) ==
    /\ h.allow = IF Allows(origin) THEN origin ELSE None
    /\ h.allow # None => h.vary = TRUE

InChain   == {"cors", "mux", "returning", "panicking", "sent"}
Unwritten == {"cors", "mux", "panicking"}
Answered  == {"returning", "sent"}

Sound(f) ==
    /\ f.place # "none" => f.request \in RequestType
    /\ f.place \in InChain => f.context = ContextOf(f.request)
    /\ f.place \in Unwritten => f.status = 0 /\ f.error = None
    /\ f.place \in InChain \ {"sent"} => f.line = 0
    /\ f.place = "cors" => f.header = NoHeader
    /\ f.place \in {"mux", "panicking"} =>
         Corsed(f.header, f.request.origin) /\ f.header.cache = FALSE
    /\ f.place \in Answered =>
         /\ Corsed(f.sent, f.request.origin)
         /\ f.status # 0
         /\ f.error # None => f.error = f.context /\ f.sent.id = f.error.id
         /\ f.error # None /\ f.status = 404 => ~Matches(f.request)
         /\ f.sent.cache = TRUE => f.request.path \in {"css", "bundle", "init"}
    /\ f.place = "returning" => f.recorded = f.status
    /\ f.place = "sent" => IF f.line = 0 THEN f.status = 500 ELSE f.line = f.status
    /\ f.place = "kept" => /\ f.error = None /\ f.sent.cache = FALSE
                           /\ f.sent.allow \in {None, f.request.origin}
    /\ f.place = "none" => f.error = None

ChainInv ==
    /\ config \in Configs
    /\ flight \in [Requester -> FlightType]
    /\ \A c \in Requester : Sound(flight[c])

\* A cached reply that allows an origin is given to that origin only.
CacheInv ==
    \A e \in cache :
        /\ e.path \in {"css", "bundle", "init"}
        /\ e.allow \in STRING \union {None}
        /\ e.vary \in BOOLEAN
        /\ e.allow # None => e.vary = TRUE /\ e.allow = e.origin

(***************************************************************************)
(* Types.                                                                  *)
(***************************************************************************)

LEMMA Headers ==
    /\ NoHeader \in HeaderType
    /\ \A h \in HeaderType :
         /\ \A i \in IdType : [h EXCEPT !.id = i] \in HeaderType
         /\ \A b \in BOOLEAN : [h EXCEPT !.cache = b] \in HeaderType
         /\ \A i \in IdType : [h EXCEPT !.rate = TRUE, !.id = i] \in HeaderType
         /\ \A o \in STRING : CorsHeader(h, o) \in HeaderType
         /\ CorsHeader(h, None) \in HeaderType
<1>1. NoHeader \in HeaderType
  BY DEF NoHeader, HeaderType, IdType
<1> SUFFICES ASSUME NEW h \in HeaderType
             PROVE  /\ \A i \in IdType : [h EXCEPT !.id = i] \in HeaderType
                    /\ \A b \in BOOLEAN : [h EXCEPT !.cache = b] \in HeaderType
                    /\ \A i \in IdType : [h EXCEPT !.rate = TRUE, !.id = i] \in HeaderType
                    /\ \A o \in STRING : CorsHeader(h, o) \in HeaderType
                    /\ CorsHeader(h, None) \in HeaderType
  BY <1>1
<1>2. ASSUME NEW i \in IdType PROVE [h EXCEPT !.id = i] \in HeaderType
  BY DEF HeaderType
<1>3. ASSUME NEW b \in BOOLEAN PROVE [h EXCEPT !.cache = b] \in HeaderType
  BY DEF HeaderType
<1>4. ASSUME NEW i \in IdType PROVE [h EXCEPT !.rate = TRUE, !.id = i] \in HeaderType
  BY DEF HeaderType
<1>5. ASSUME NEW o \in STRING \union {None}
      PROVE  [h EXCEPT !.allow = o, !.vary = TRUE] \in HeaderType
  BY DEF HeaderType
<1>6. ASSUME NEW o \in STRING \union {None} PROVE CorsHeader(h, o) \in HeaderType
  BY <1>5 DEF CorsHeader
<1> QED
  BY <1>2, <1>3, <1>4, <1>6

LEMMA Contexts == config \in ConfigType => \A r \in RequestType : ContextOf(r) \in ContextType
<1> SUFFICES ASSUME config \in ConfigType, NEW r \in RequestType PROVE ContextOf(r) \in ContextType
  OBVIOUS
<1>1. Resolve(r) \in Supported
  <2> DEFINE supported == {i \in DOMAIN r.accept : r.accept[i] \in Supported}
             first == {i \in supported : \A j \in supported : i <= j}
  <2>1. first # {} => r.accept[CHOOSE i \in first : TRUE] \in Supported
    OBVIOUS
  <2>2. Resolve(r) = IF r.lang \in Supported THEN r.lang
                     ELSE IF first # {} THEN r.accept[CHOOSE i \in first : TRUE]
                     ELSE IF config.lang \in Supported THEN config.lang
                     ELSE "ko"
    BY DEF Resolve
  <2>3. "ko" \in Supported
    BY DEF Supported
  <2> HIDE DEF first
  <2> QED
    BY <2>1, <2>2, <2>3
<1> QED
  BY <1>1 DEF ContextOf, ContextType, IdType

LEMMA GroundSound == Ground \in FlightType /\ Sound(Ground) /\ Ground.place = "none"
<1>1. NoHeader \in HeaderType /\ NoContext \in ContextType
  BY Headers DEF NoContext, ContextType, IdType, Supported
<1>2. Ground \in FlightType
  BY <1>1 DEF Ground, FlightType, Places, StatusType, RequestOrNone, ErrorOrNone
<1>3. Ground.place = "none" /\ Ground.error = None
  BY DEF Ground
<1> QED
  BY <1>2, <1>3 DEF Sound, InChain, Unwritten, Answered

\* A request that arrives.
LEMMA ArrivedSound ==
    ASSUME ChainInv, NEW r \in RequestType
    PROVE  Arrived(r) \in FlightType /\ Sound(Arrived(r)) /\ Arrived(r).request = r
<1> DEFINE x == ContextOf(r)
           a == [Ground EXCEPT !.place = "cors", !.request = r, !.context = x]
<1>1. x \in ContextType
  BY Contexts, MiddlewareAssumption DEF ChainInv
<1>2. Arrived(r) = a
  BY DEF Arrived
<1>3. Ground \in FlightType
  BY GroundSound
<1> HIDE DEF x
<1>4. a \in FlightType
  <2>1. "cors" \in Places /\ r \in RequestOrNone
    BY DEF Places, RequestOrNone
  <2> QED
    BY <1>1, <1>3, <2>1 DEF FlightType
<1>5. /\ a.place = "cors" /\ a.request = r /\ a.context = x /\ a.status = 0 /\ a.error = None
      /\ a.line = 0 /\ a.header = NoHeader
  BY DEF Ground
<1>6. Sound(a)
  BY <1>5 DEF Sound, InChain, Unwritten, Answered, x
<1> QED
  BY <1>2, <1>4, <1>5, <1>6

\* A status written by a handler when none has been.
LEMMA HandledFields ==
    ASSUME NEW f \in FlightType, f.status = 0, NEW s \in StatusType, NEW h \in HeaderType,
           NEW e \in ErrorOrNone
    PROVE  LET g == Handled(f, s, h, e) IN
           /\ g \in FlightType
           /\ g.place = "returning" /\ g.request = f.request /\ g.context = f.context
           /\ g.recorded = s /\ g.line = f.line /\ g.status = s /\ g.sent = h /\ g.error = e
<1> DEFINE w == [f EXCEPT !.status = s, !.sent = h, !.error = e]
           v == [w EXCEPT !.place = "returning", !.header = h, !.recorded = s]
<1>1. Handled(f, s, h, e) = v
  BY DEF Handled, Written, Recorded
<1>2. /\ w \in FlightType
      /\ w.status = s /\ w.sent = h /\ w.error = e /\ w.line = f.line
      /\ w.request = f.request /\ w.context = f.context
  BY DEF FlightType
<1> HIDE DEF w
<1>3. v \in FlightType
  <2>1. "returning" \in Places
    BY DEF Places
  <2> QED
    BY <1>2, <2>1 DEF FlightType
<1>4. /\ v.place = "returning" /\ v.recorded = s
      /\ v.status = w.status /\ v.sent = w.sent /\ v.error = w.error /\ v.line = w.line
      /\ v.request = w.request /\ v.context = w.context
  BY <1>2 DEF FlightType
<1> HIDE DEF v
<1> QED
  BY <1>1, <1>2, <1>3, <1>4

(***************************************************************************)
(* The steps of the chain.                                                 *)
(***************************************************************************)

LEMMA PutSound ==
    ASSUME ChainInv, NEW c \in Requester, NEW f \in FlightType, Sound(f), Put(c, f)
    PROVE  ChainInv'
<1>1. config' = config
  BY DEF Put
<1>2. \A g : Sound(g)' <=> Sound(g)
  BY <1>1 DEF Sound, ContextOf, Resolve, Corsed, Allows, AllowedOrigins, Matches
<1>3. flight' \in [Requester -> FlightType] /\ \A d \in Requester : Sound(flight'[d])
  BY DEF Put, ChainInv
<1> QED
  BY <1>1, <1>2, <1>3 DEF ChainInv

LEMMA UnchangedChain == ChainInv /\ UNCHANGED <<config, flight>> => ChainInv'
<1> SUFFICES ASSUME ChainInv, UNCHANGED <<config, flight>> PROVE ChainInv'
  OBVIOUS
<1>1. \A g : Sound(g)' <=> Sound(g)
  BY DEF Sound, ContextOf, Resolve, Corsed, Allows, AllowedOrigins, Matches
<1> QED
  BY <1>1 DEF ChainInv

\* A reply written in the mux, by whatever handler.
LEMMA ReplySound ==
    ASSUME ChainInv, NEW c \in Requester, At(c, "mux"),
           NEW s \in StatusType, s # 0, NEW h \in HeaderType, NEW e \in ErrorOrNone,
           h.allow = flight[c].header.allow, h.vary = flight[c].header.vary,
           e # None => e = flight[c].context /\ h.id = e.id,
           e # None /\ s = 404 => ~Matches(flight[c].request),
           h.cache = TRUE => flight[c].request.path \in {"css", "bundle", "init"},
           Put(c, Handled(flight[c], s, h, e))
    PROVE  ChainInv'
<1> DEFINE f == flight[c]
           v == Handled(f, s, h, e)
<1>1. f \in FlightType /\ Sound(f) /\ f.place = "mux"
  BY DEF ChainInv, At
<1>2. /\ f.request \in RequestType /\ f.context = ContextOf(f.request)
      /\ f.status = 0 /\ f.line = 0 /\ Corsed(f.header, f.request.origin)
  BY <1>1 DEF Sound, InChain, Unwritten
<1>3. /\ v \in FlightType
      /\ v.place = "returning" /\ v.request = f.request /\ v.context = f.context
      /\ v.recorded = s /\ v.line = 0 /\ v.status = s /\ v.sent = h /\ v.error = e
  BY <1>1, <1>2, HandledFields
<1> HIDE DEF v
<1>4. Corsed(h, f.request.origin)
  BY <1>2 DEF Corsed
<1>5. Sound(v)
  BY <1>2, <1>3, <1>4 DEF Sound, InChain, Unwritten, Answered
<1> QED
  BY <1>3, <1>5, PutSound DEF v

LEMMA InMux ==
    ASSUME ChainInv, NEW c \in Requester, At(c, "mux")
    PROVE  /\ flight[c] \in FlightType
           /\ flight[c].header \in HeaderType /\ flight[c].context \in ContextType
           /\ flight[c].context.id \in IdType /\ flight[c].request \in RequestType
           /\ flight[c].header.cache = FALSE
<1>1. flight[c] \in FlightType /\ Sound(flight[c])
  BY DEF ChainInv
<1>2. flight[c].header \in HeaderType /\ flight[c].context \in ContextType
  BY <1>1 DEF FlightType
<1>3. flight[c].context.id \in IdType
  BY <1>2 DEF ContextType
<1>4. flight[c].request \in RequestType /\ flight[c].header.cache = FALSE
  BY <1>1 DEF Sound, At
<1> QED
  BY <1>1, <1>2, <1>3, <1>4

LEMMA ErrorSound ==
    ASSUME ChainInv, NEW c \in Requester, At(c, "mux"), NEW s \in StatusType, s # 0,
           s = 404 => ~Matches(flight[c].request),
           Put(c, GatewayError(flight[c], flight[c].context, s))
    PROVE  ChainInv'
<1> DEFINE f == flight[c]
           h == [f.header EXCEPT !.id = f.context.id]
<1>1. f.header \in HeaderType /\ f.context \in ContextType /\ f.context.id \in IdType
      /\ f.header.cache = FALSE
  BY InMux
<1>2. h \in HeaderType
  BY <1>1, Headers
<1>3. h.allow = f.header.allow /\ h.vary = f.header.vary /\ h.cache = f.header.cache
      /\ h.id = f.context.id
  BY <1>1 DEF HeaderType
<1>4. f.context \in ErrorOrNone
  BY <1>1 DEF ErrorOrNone
<1>5. Put(c, Handled(f, s, h, f.context))
  BY DEF GatewayError
<1> HIDE DEF h
<1> QED
  BY <1>1, <1>2, <1>3, <1>4, <1>5, ReplySound

LEMMA CorsStep == ASSUME ChainInv, NEW c \in Requester, Cors(c) PROVE ChainInv'
<1> DEFINE f == flight[c]
           o == f.request.origin
           h == CorsHeader(NoHeader, o)
<1>1. /\ f \in FlightType /\ Sound(f) /\ f.place = "cors"
  BY DEF Cors, At, ChainInv
<1>2. /\ f.header = NoHeader /\ f.status = 0 /\ f.line = 0 /\ f.error = None
      /\ f.request \in RequestType /\ f.context = ContextOf(f.request)
  BY <1>1 DEF Sound, InChain, Unwritten
<1>3. o \in STRING \union {None}
  BY <1>2 DEF RequestType
<1>4. h \in HeaderType
  BY <1>3, Headers
<1>5. Corsed(h, o) /\ h.cache = FALSE
  BY DEF Corsed, CorsHeader, NoHeader
<1> HIDE DEF h
<1>6. CASE f.request.method = "OPTIONS"
  <2> DEFINE v == Handled(f, 204, h, None)
  <2>1. 204 \in StatusType /\ None \in ErrorOrNone
    BY DEF StatusType, ErrorOrNone
  <2>2. /\ v \in FlightType
        /\ v.place = "returning" /\ v.request = f.request /\ v.context = f.context
        /\ v.recorded = 204 /\ v.line = 0 /\ v.status = 204 /\ v.sent = h /\ v.error = None
    BY <1>1, <1>2, <1>4, <2>1, HandledFields
  <2>3. Put(c, v)
    BY <1>2, <1>6 DEF Cors, h
  <2> HIDE DEF v
  <2>4. Sound(v)
    BY <1>2, <1>5, <2>2 DEF Sound, InChain, Unwritten, Answered
  <2> QED
    BY <2>2, <2>3, <2>4, PutSound
<1>7. CASE f.request.method # "OPTIONS"
  <2> DEFINE v == [f EXCEPT !.place = "mux", !.header = h]
  <2>1. "mux" \in Places
    BY DEF Places
  <2>2. v \in FlightType
    BY <1>1, <1>4, <2>1 DEF FlightType
  <2>3. /\ v.place = "mux" /\ v.header = h /\ v.request = f.request /\ v.context = f.context
        /\ v.status = f.status /\ v.line = f.line /\ v.error = f.error
    BY <1>1 DEF FlightType
  <2>4. Put(c, v)
    BY <1>2, <1>7 DEF Cors, h
  <2> HIDE DEF v
  <2>5. Sound(v)
    BY <1>2, <1>5, <2>3 DEF Sound, InChain, Unwritten, Answered
  <2> QED
    BY <2>2, <2>4, <2>5, PutSound
<1> QED
  BY <1>6, <1>7

LEMMA HandleStep == ASSUME ChainInv, NEW c \in Requester, Handle(c) PROVE ChainInv'
<1> DEFINE f == flight[c]
<1>0. 200 \in StatusType /\ 301 \in StatusType /\ 404 \in StatusType /\ None \in ErrorOrNone
  BY DEF StatusType, ErrorOrNone
<1>1. CASE Redirect(c)
  <2> DEFINE s == 301
  <2>0. s \in StatusType /\ s # 0
    BY <1>0
  <2>1. At(c, "mux") /\ Put(c, Handled(f, s, f.header, None))
    BY <1>1 DEF Redirect
  <2> HIDE DEF s
  <2>2. f.header \in HeaderType /\ f.header.cache = FALSE
    BY <2>1, InMux
  <2>3. f.header.cache = TRUE => f.request.path \in {"css", "bundle", "init"}
    BY <2>2
  <2> QED
    BY <1>0, <2>0, <2>1, <2>2, <2>3, ReplySound
<1>2. CASE NotFound(c)
  BY <1>0, <1>2, ErrorSound DEF NotFound
<1>3. CASE Static(c)
  <2> DEFINE s == 200
             b == Cacheable(f.request.path)
             h == [f.header EXCEPT !.cache = b]
  <2>1. At(c, "mux") /\ f.header \in HeaderType
    BY <1>3, InMux DEF Static
  <2>2. b \in BOOLEAN /\ (b = TRUE => f.request.path \in {"css", "bundle", "init"})
    BY DEF Cacheable
  <2>3. Put(c, Handled(f, s, h, None)) /\ s \in StatusType /\ s # 0
    BY <1>0, <1>3 DEF Static
  <2> HIDE DEF b, s
  <2>4. h \in HeaderType
    BY <2>1, <2>2, Headers
  <2>5. h.allow = f.header.allow /\ h.vary = f.header.vary /\ h.cache = b
    BY <2>1, <2>2 DEF HeaderType
  <2> HIDE DEF h
  <2>6. h.cache = TRUE => f.request.path \in {"css", "bundle", "init"}
    BY <2>2, <2>5
  <2> QED
    BY <1>0, <2>1, <2>3, <2>4, <2>5, <2>6, ReplySound
<1>4. ASSUME NEW s \in Rejected, RejectApi(c, s) PROVE ChainInv'
  <2>1. s \in StatusType /\ s # 0 /\ s # 404
    BY MiddlewareAssumption DEF StatusType
  <2> QED
    BY <1>4, <2>1, ErrorSound DEF RejectApi, Api
<1>5. ASSUME NEW s \in Relayed, NEW id \in {"toss", "good", "fresh"}, RelayApi(c, s, id)
      PROVE  ChainInv'
  <2> DEFINE h == [f.header EXCEPT !.rate = TRUE, !.id = id]
  <2>1. /\ At(c, "mux") /\ f.header \in HeaderType /\ f \in FlightType /\ f.header.cache = FALSE
    BY <1>5, InMux DEF RelayApi, Api
  <2>2. s \in StatusType /\ id \in IdType
    BY MiddlewareAssumption DEF StatusType, IdType
  <2>3. h \in HeaderType
    BY <2>1, <2>2, Headers
  <2>4. h.allow = f.header.allow /\ h.vary = f.header.vary /\ h.cache = f.header.cache
    BY <2>1 DEF HeaderType
  <2>5. CASE s < 100
    <3> DEFINE v == [f EXCEPT !.place = "panicking", !.header = h, !.recorded = s]
    <3>1. Put(c, v)
      BY <1>5, <2>5 DEF RelayApi
    <3> HIDE DEF h
    <3>2. "panicking" \in Places
      BY DEF Places
    <3>3. v \in FlightType
      BY <2>1, <2>2, <2>3, <3>2 DEF FlightType
    <3>4. /\ v.place = "panicking" /\ v.header = h /\ v.request = f.request
          /\ v.context = f.context /\ v.status = f.status /\ v.line = f.line /\ v.error = f.error
      BY <2>1 DEF FlightType
    <3>5. Sound(f) /\ f.place = "mux"
      BY <2>1 DEF ChainInv, At
    <3> HIDE DEF v
    <3>6. Sound(v)
      BY <2>1, <2>4, <3>4, <3>5 DEF Sound, InChain, Unwritten, Answered, Corsed
    <3> QED
      BY <3>1, <3>3, <3>6, PutSound
  <2>6. CASE ~(s < 100)
    <3>1. Put(c, Handled(f, s, h, None)) /\ s # 0
      BY <1>5, <2>6 DEF RelayApi
    <3> HIDE DEF h
    <3> QED
      BY <1>0, <2>1, <2>2, <2>3, <2>4, <3>1, ReplySound
  <2> QED
    BY <2>5, <2>6
<1> QED
  BY <1>1, <1>2, <1>3, <1>4, <1>5 DEF Handle

LEMMA LogStep == ASSUME ChainInv, NEW c \in Requester, Log(c) PROVE ChainInv'
<1> DEFINE f == flight[c]
           v == [f EXCEPT !.place = "sent", !.line = f.recorded]
<1>1. f \in FlightType /\ Sound(f) /\ f.place = "returning" /\ Put(c, v)
  BY DEF Log, At, ChainInv
<1>2. "sent" \in Places
  BY DEF Places
<1>3. v \in FlightType
  BY <1>1, <1>2 DEF FlightType
<1>4. /\ v.place = "sent" /\ v.line = f.recorded /\ v.request = f.request /\ v.context = f.context
      /\ v.status = f.status /\ v.sent = f.sent /\ v.error = f.error
  BY <1>1 DEF FlightType
<1> HIDE DEF v
<1>5. Sound(v)
  BY <1>1, <1>4 DEF Sound, InChain, Unwritten, Answered
<1> QED
  BY <1>1, <1>3, <1>5, PutSound

LEMMA RecoverStep == ASSUME ChainInv, NEW c \in Requester, Recover(c) PROVE ChainInv'
<1> DEFINE f == flight[c]
           h == [f.header EXCEPT !.id = f.context.id]
           u == Handled(f, 500, h, f.context)
           v == [u EXCEPT !.place = "sent"]
<1>1. f \in FlightType /\ Sound(f) /\ f.place = "panicking"
  BY DEF Recover, At, ChainInv
<1>2. Put(c, v)
  BY DEF Recover, GatewayError, PanicContext
<1>3. f.header \in HeaderType /\ f.context \in ContextType
  BY <1>1 DEF FlightType
<1>4. f.context.id \in IdType /\ f.context \in ErrorOrNone /\ 500 \in StatusType /\ "sent" \in Places
  BY <1>3 DEF ContextType, ErrorOrNone, StatusType, Places
<1>5. h \in HeaderType
  BY <1>3, <1>4, Headers
<1>6. h.allow = f.header.allow /\ h.vary = f.header.vary /\ h.cache = f.header.cache
      /\ h.id = f.context.id
  BY <1>3 DEF HeaderType
<1> HIDE DEF h
<1>7. /\ f.request \in RequestType /\ f.context = ContextOf(f.request)
      /\ f.status = 0 /\ f.line = 0 /\ Corsed(f.header, f.request.origin) /\ f.header.cache = FALSE
  BY <1>1 DEF Sound, InChain, Unwritten
<1>8. /\ u \in FlightType
      /\ u.request = f.request /\ u.context = f.context
      /\ u.line = 0 /\ u.status = 500 /\ u.sent = h /\ u.error = f.context
  BY <1>1, <1>4, <1>5, <1>7, HandledFields
<1> HIDE DEF u
<1>9. v \in FlightType
  BY <1>4, <1>8 DEF FlightType
<1>10. /\ v.place = "sent" /\ v.request = f.request /\ v.context = f.context
       /\ v.line = 0 /\ v.status = 500 /\ v.sent = h /\ v.error = f.context
  BY <1>8 DEF FlightType
<1> HIDE DEF v
<1>11. Sound(v)
  BY <1>6, <1>7, <1>10 DEF Sound, InChain, Unwritten, Answered, Corsed
<1> QED
  BY <1>2, <1>9, <1>11, PutSound

LEMMA PassStep == ASSUME ChainInv, NEW c \in Requester, Pass(c) PROVE ChainInv'
BY CorsStep, HandleStep, LogStep, RecoverStep DEF Pass

(***************************************************************************)
(* The cache.                                                              *)
(***************************************************************************)

LEMMA ArriveStep ==
    ASSUME ChainInv, NEW c \in Requester, NEW r \in RequestType, Arrive(c, r)
    PROVE  ChainInv'
BY ArrivedSound, PutSound DEF Arrive

LEMMA KeptStep ==
    ASSUME ChainInv, CacheInv, NEW c \in Requester, NEW r \in RequestType, FromCache(c, r)
    PROVE  ChainInv'
<1>1. PICK e \in cache :
        /\ Serves(e, r)
        /\ Put(c, [Arrived(r) EXCEPT !.place = "kept", !.status = 200,
                      !.sent = [NoHeader EXCEPT !.allow = e.allow, !.vary = e.vary]])
  BY DEF FromCache
<1> DEFINE h == [NoHeader EXCEPT !.allow = e.allow, !.vary = e.vary]
           a == Arrived(r)
           v == [a EXCEPT !.place = "kept", !.status = 200, !.sent = h]
<1>2. /\ e.allow \in STRING \union {None} /\ e.vary \in BOOLEAN
      /\ e.allow # None => e.vary = TRUE /\ e.allow = e.origin
  BY DEF CacheInv
<1>3. NoHeader \in HeaderType /\ NoHeader.cache = FALSE
  BY Headers DEF NoHeader
<1>4. h \in HeaderType
  BY <1>2, <1>3 DEF HeaderType
<1>5. h.allow = e.allow /\ h.cache = FALSE
  BY <1>2, <1>3 DEF HeaderType
<1> HIDE DEF h
<1>6. a \in FlightType /\ Sound(a) /\ a.request = r /\ a.place = "cors"
  BY ArrivedSound DEF Arrived, Ground
<1>7. a.error = None
  BY <1>6 DEF Sound, Unwritten
<1> HIDE DEF a
<1>8. "kept" \in Places /\ 200 \in StatusType
  BY DEF Places, StatusType
<1>9. v \in FlightType
  BY <1>4, <1>6, <1>8 DEF FlightType
<1>10. v.place = "kept" /\ v.request = r /\ v.sent = h /\ v.error = None
  BY <1>6, <1>7 DEF FlightType
<1>11. Put(c, v)
  BY <1>1 DEF h, a
<1> HIDE DEF v
<1>12. e.allow \in {None, r.origin}
  <2>1. e.vary = TRUE => e.origin = r.origin
    BY <1>1 DEF Serves
  <2> QED
    BY <1>2, <2>1
<1>13. Sound(v)
  BY <1>5, <1>10, <1>12 DEF Sound, InChain, Unwritten, Answered
<1> QED
  BY <1>9, <1>11, <1>13, PutSound

LEMMA SendStep ==
    ASSUME ChainInv, CacheInv, NEW c \in Requester, NEW r \in RequestType, Send(c, r)
    PROVE  ChainInv' /\ flight'[c].request = r /\ config' = config
           /\ \A d \in Requester : d # c => flight'[d] = flight[d]
<1>1. ChainInv'
  BY ArriveStep, KeptStep DEF Send
<1>2. Arrived(r).request = r /\ Arrived(r) \in FlightType
  BY ArrivedSound
<1>3. CASE Arrive(c, r)
  BY <1>1, <1>2, <1>3 DEF Arrive, Put, ChainInv
<1>4. CASE FromCache(c, r)
  <2>1. PICK h : Put(c, [Arrived(r) EXCEPT !.place = "kept", !.status = 200, !.sent = h])
    BY <1>4 DEF FromCache
  <2>2. [Arrived(r) EXCEPT !.place = "kept", !.status = 200, !.sent = h].request = r
    BY <1>2 DEF FlightType
  <2> QED
    BY <1>1, <2>1, <2>2 DEF Put, ChainInv
<1> QED
  BY <1>3, <1>4 DEF Send

LEMMA DoneStep ==
    ASSUME ChainInv, CacheInv, NEW c \in Requester, Done(c)
    PROVE  ChainInv' /\ CacheInv'
<1> DEFINE f == flight[c]
<1>1. ChainInv'
  BY GroundSound, PutSound DEF Done
<1>2. f \in FlightType /\ Sound(f) /\ f.place \in {"sent", "kept"}
  BY DEF Done, Here, At, ChainInv
<1>3. CASE ~Keeps(f)
  BY <1>1, <1>3 DEF Done, CacheInv
<1>4. CASE Keeps(f)
  <2>1. f.sent.cache = TRUE /\ f.sent \in HeaderType /\ f.request \in RequestType
    <3>1. f.sent \in HeaderType
      BY <1>2 DEF FlightType
    <3>2. f.sent.cache \in BOOLEAN
      BY <3>1 DEF HeaderType
    <3> QED
      BY <1>2, <1>4, <3>1, <3>2 DEF Keeps, Sound
  <2>2. f.place = "sent"
    BY <1>2, <2>1 DEF Sound
  <2>3. f.request.path \in {"css", "bundle", "init"} /\ Corsed(f.sent, f.request.origin)
    BY <1>2, <2>1, <2>2 DEF Sound, Answered
  <2>4. f.sent.allow \in STRING \union {None} /\ f.sent.vary \in BOOLEAN
    BY <2>1 DEF HeaderType
  <2>5. f.sent.allow # None => f.sent.vary = TRUE /\ f.sent.allow = f.request.origin
    BY <2>3 DEF Corsed
  <2> DEFINE e == Entry(f)
  <2>6. e.path = f.request.path /\ e.origin = f.request.origin /\ e.vary = f.sent.vary
        /\ e.allow = f.sent.allow
    BY DEF Entry
  <2>7. cache' = cache \union {e}
    BY <1>4 DEF Done
  <2> HIDE DEF e
  <2> QED
    BY <1>1, <2>3, <2>4, <2>5, <2>6, <2>7 DEF CacheInv
<1> QED
  BY <1>3, <1>4

(***************************************************************************)
(* The page.                                                               *)
(***************************************************************************)

\* Where a browser's page sends it: to a document at its own base path, or to
\* the specification's server.
Own(r) ==
    /\ r.method = "GET"
    /\ \/ r.base = config.base /\ r.path \in Document
       \/ r.base = "/" /\ r.path = "api"

PageInv ==
    /\ ~At(Browser, "none") => Own(flight[Browser].request)
    /\ page \in {"none", "opening", "loading", "loaded"}
    /\ urls \in {None, config.base}
    /\ page = "loading" => urls = config.base
    /\ script \in [Script -> {"absent", "fetching", "here", "failed", "run"}]
    /\ \A s \in Script : script[s] \in {"fetching", "here"} => page = "loading"
    /\ listener \in {None, Url(config.base, "spec"), Url(config.base, "docs")}
    /\ ui \in {"none", "broken", "asking", "shown", "failed", "trying", "tried"}
    /\ ui = "asking" => listener # None /\ page = "loaded"
    /\ failed \in BOOLEAN

DInv == ChainInv /\ CacheInv /\ PageInv

LEMMA Asks ==
    ASSUME ChainInv
    PROVE  /\ \A p \in Document : Ask(Url(config.base, p)) \in RequestType /\ Own(Ask(Url(config.base, p)))
           /\ Ask(Url("/", "api")) \in RequestType /\ Own(Ask(Url("/", "api")))
<1>1. config.base \in {"/", "/gateway"}
  BY MiddlewareAssumption DEF ChainInv, ConfigType
<1>2. <<>> \in Seq(Language)
  OBVIOUS
<1>3. ASSUME NEW b \in {"/", "/gateway"}, NEW p \in Document \union {"api"}
      PROVE  Ask(Url(b, p)) \in RequestType
  <2> DEFINE P == Document \union {"api", "unclean", "other"}
             B == {"/", "/gateway"}
             O == STRING \union {None}
             M == {"GET", "POST", "OPTIONS"}
             I == {"none", "bad", "good"}
             T == Language
             Q == Seq(Language)
             none == <<>>
  <2>1. /\ p \in P /\ b \in B /\ "GET" \in M /\ "none" \in I
        /\ None \in O /\ "none" \in T /\ none \in Q
    <3>1. p \in P /\ b \in B
      OBVIOUS
    <3>2. "GET" \in M /\ "none" \in I
      OBVIOUS
    <3>3. None \in O
      OBVIOUS
    <3>4. "none" \in T
      BY DEF Language
    <3> QED
      BY <3>1, <3>2, <3>3, <3>4, <1>2
  <2>2. RequestType = [method : M, base : B, path : P, origin : O, lang : T,
                       accept : Q, id : I]
    BY DEF RequestType
  <2>3. Ask(Url(b, p)) = [method |-> "GET", base |-> b, path |-> p, origin |-> None,
                          lang |-> "none", accept |-> none, id |-> "none"]
    BY DEF Ask, Url
  <2> HIDE DEF P, B, O, M, I, T, Q, none
  <2> QED
    BY <2>1, <2>2, <2>3
<1>4. ASSUME NEW b, NEW p
      PROVE  Ask(Url(b, p)).method = "GET" /\ Ask(Url(b, p)).base = b /\ Ask(Url(b, p)).path = p
  BY DEF Ask, Url
<1> QED
  BY <1>1, <1>3, <1>4 DEF Own

\* The steps of the others, and of a request in the chain, leave the browser's
\* request what it is.
LEMMA OthersKeepPage ==
    ASSUME PageInv, config' = config, UNCHANGED <<page, urls, script, listener, ui, failed>>,
           At(Browser, "none")' \/ Own(flight'[Browser].request)
    PROVE  PageInv'
BY DEF PageInv, At, Own, Url

LEMMA BrowserSends ==
    ASSUME DInv, NEW r \in RequestType, Own(r), Send(Browser, r)
    PROVE  ChainInv' /\ config' = config /\ Own(flight'[Browser].request)
BY SendStep, DocsAssumption DEF DInv

LEMMA GroundedBrowser ==
    ASSUME ChainInv, NEW c \in Requester, Put(c, Ground)
    PROVE  ChainInv' /\ config' = config /\ At(c, "none")'
           /\ \A d \in Requester : d # c => flight'[d] = flight[d]
<1>1. flight' = [flight EXCEPT ![c] = Ground] /\ config' = config
  BY DEF Put
<1>2. ChainInv'
  BY GroundSound, PutSound
<1>3. flight'[c] = Ground /\ \A d \in Requester : d # c => flight'[d] = flight[d]
  BY <1>1 DEF ChainInv
<1> QED
  BY <1>1, <1>2, <1>3, GroundSound DEF At

LEMMA DoneKeeps ==
    ASSUME DInv, NEW c \in Requester, Done(c)
    PROVE  /\ ChainInv' /\ CacheInv' /\ config' = config /\ At(c, "none")'
           /\ \A d \in Requester : d # c => flight'[d] = flight[d]
BY DoneStep, GroundedBrowser DEF DInv, Done

\* A request in the chain stays the request it was.
LEMMA PassKeeps ==
    ASSUME ChainInv, NEW c \in Requester, Pass(c)
    PROVE  /\ ~At(c, "none")
           /\ ChainInv' /\ config' = config
           /\ \A d \in Requester : flight'[d].request = flight[d].request
           /\ \A d \in Requester : d # c => flight'[d] = flight[d]
<1> DEFINE f == flight[c]
<1>1. f \in FlightType
  BY DEF ChainInv
<1>2. ~At(c, "none")
  BY DEF Pass, Cors, Handle, Redirect, NotFound, Static, RejectApi, RelayApi, Api, Log, Recover, At
<1>3. ASSUME NEW s, NEW h, NEW e
      PROVE  Handled(f, s, h, e).request = f.request
  <2> DEFINE w == Written(f, s, h, e)
  <2>1. w.request = f.request
    BY <1>1 DEF Written, FlightType
  <2>2. "request" \in DOMAIN w
    BY <1>1 DEF Written, FlightType
  <2> HIDE DEF w
  <2>3. \A r : [w EXCEPT !.place = "returning", !.header = h, !.recorded = r].request = w.request
    BY <2>2
  <2>4. Handled(f, s, h, e) = [w EXCEPT !.place = "returning", !.header = h, !.recorded = Recorded(f, s)]
    BY DEF Handled, w
  <2> QED
    BY <2>1, <2>3, <2>4
<1>4. \E v : Put(c, v) /\ v.request = f.request
  <2>1. CASE Cors(c)
    <3>1. \A h : [f EXCEPT !.place = "mux", !.header = h].request = f.request
      BY <1>1 DEF FlightType
    <3> DEFINE h == CorsHeader(f.header, f.request.origin)
               a == Handled(f, 204, h, None)
               b == [f EXCEPT !.place = "mux", !.header = h]
    <3>2. Put(c, IF f.request.method = "OPTIONS" THEN a ELSE b)
      BY <2>1 DEF Cors
    <3>3. a.request = f.request /\ b.request = f.request
      BY <3>1, <1>3
    <3> HIDE DEF a, b
    <3> QED
      BY <3>2, <3>3
  <2>2. CASE Redirect(c) \/ NotFound(c) \/ Static(c)
    <3>1. CASE Redirect(c)
      BY <3>1, <1>3 DEF Redirect
    <3>2. CASE NotFound(c)
      BY <3>2, <1>3 DEF NotFound, GatewayError
    <3>3. CASE Static(c)
      BY <3>3, <1>3 DEF Static
    <3> QED
      BY <2>2, <3>1, <3>2, <3>3
  <2>3. CASE \E s \in Rejected : RejectApi(c, s)
    BY <2>3, <1>3 DEF RejectApi, GatewayError
  <2>4. CASE \E s \in Relayed, id \in {"toss", "good", "fresh"} : RelayApi(c, s, id)
    <3>1. \A h, s : [f EXCEPT !.place = "panicking", !.header = h, !.recorded = s].request = f.request
      BY <1>1 DEF FlightType
    <3>2. PICK s \in Relayed, id \in {"toss", "good", "fresh"} : RelayApi(c, s, id)
      BY <2>4
    <3> DEFINE h == [f.header EXCEPT !.rate = TRUE, !.id = id]
    <3>3. \/ Put(c, [f EXCEPT !.place = "panicking", !.header = h, !.recorded = s])
          \/ Put(c, Handled(f, s, h, None))
      BY <3>2 DEF RelayApi
    <3> HIDE DEF h
    <3> QED
      BY <3>1, <3>3, <1>3
  <2>5. CASE Log(c)
    <3>1. [f EXCEPT !.place = "sent", !.line = f.recorded].request = f.request
      BY <1>1 DEF FlightType
    <3> QED
      BY <2>5, <3>1 DEF Log
  <2>6. CASE Recover(c)
    <3> DEFINE u == GatewayError(f, PanicContext(f), 500)
    <3>1. u.request = f.request
      BY <1>3 DEF GatewayError
    <3>2. "request" \in DOMAIN u
      BY <1>1 DEF GatewayError, Handled, Written, FlightType
    <3>3. Put(c, [u EXCEPT !.place = "sent"])
      BY <2>6 DEF Recover
    <3> HIDE DEF u
    <3>4. [u EXCEPT !.place = "sent"].request = u.request
      BY <3>2
    <3> QED
      BY <3>1, <3>3, <3>4
  <2> QED
    BY <2>1, <2>2, <2>3, <2>4, <2>5, <2>6 DEF Pass, Handle
<1>5. ChainInv'
  BY PassStep
<1> QED
  BY <1>2, <1>4, <1>5 DEF Put, ChainInv

LEMMA BrowseStep ==
    ASSUME DInv,
           \/ Open \/ Parse \/ Load \/ RunBundle \/ RunInit \/ AskSpec \/ SpecHere
           \/ Try \/ Tried \/ Fail \/ Reload
           \/ \E s \in Script : FetchScript(s) \/ ScriptHere(s)
    PROVE  DInv'
<1>0. /\ ChainInv /\ CacheInv /\ PageInv /\ Browser \in Requester
      /\ \A p \in Document : Ask(Url(config.base, p)) \in RequestType /\ Own(Ask(Url(config.base, p)))
      /\ Ask(Url("/", "api")) \in RequestType /\ Own(Ask(Url("/", "api")))
      /\ {"docs", "bundle", "init", "spec"} \subseteq Document /\ Script = {"bundle", "init"}
  BY Asks, DocsAssumption DEF DInv, Document, Script
<1>1. CASE Open
  <2> DEFINE r == Ask(Url(config.base, "docs"))
  <2>1. Send(Browser, r) /\ r \in RequestType /\ Own(r)
    BY <1>0, <1>1 DEF Open
  <2>2. ChainInv' /\ config' = config /\ Own(flight'[Browser].request)
    BY <2>1, BrowserSends
  <2>3. page' = "opening" /\ UNCHANGED <<urls, script, listener, ui, cache, failed>> /\ page = "none"
    BY <1>1 DEF Open
  <2> QED
    BY <1>0, <2>2, <2>3 DEF DInv, PageInv, CacheInv, Own
<1>2. CASE Parse
  <2>1. ChainInv' /\ CacheInv' /\ config' = config /\ At(Browser, "none")'
    BY <1>0, <1>2, DoneKeeps DEF Parse
  <2>2. page' = "loading" /\ urls' = config.base /\ page = "opening"
        /\ UNCHANGED <<script, listener, ui, failed>>
    BY <1>2 DEF Parse, PageBase
  <2> QED
    BY <1>0, <2>1, <2>2 DEF DInv, PageInv
<1>3. ASSUME NEW s \in Script, FetchScript(s) PROVE DInv'
  <2> DEFINE r == Ask(Url(config.base, s))
  <2>1. page = "loading" /\ urls = config.base /\ Send(Browser, Ask(Url(urls, s)))
    BY <1>0, <1>3 DEF FetchScript, PageInv
  <2>2. Send(Browser, r) /\ r \in RequestType /\ Own(r)
    BY <1>0, <2>1
  <2>3. ChainInv' /\ config' = config /\ Own(flight'[Browser].request)
    BY <2>2, BrowserSends
  <2>4. script' = [script EXCEPT ![s] = "fetching"]
        /\ UNCHANGED <<page, urls, listener, ui, cache, failed>>
    BY <1>3 DEF FetchScript
  <2> QED
    BY <1>0, <2>1, <2>3, <2>4 DEF DInv, PageInv, CacheInv, Own
<1>4. ASSUME NEW s \in Script, ScriptHere(s) PROVE DInv'
  <2>1. ChainInv' /\ CacheInv' /\ config' = config /\ At(Browser, "none")'
    BY <1>0, <1>4, DoneKeeps DEF ScriptHere
  <2>2. /\ script[s] = "fetching" /\ UNCHANGED <<page, urls, listener, ui, failed>>
        /\ \E x \in {"here", "failed"} : script' = [script EXCEPT ![s] = x]
    BY <1>4 DEF ScriptHere
  <2> QED
    BY <1>0, <2>1, <2>2 DEF DInv, PageInv
<1>5. CASE RunBundle
  <2>1. UNCHANGED <<chain, page, urls, listener, ui, cache, failed>>
        /\ script' = [script EXCEPT !["bundle"] = "run"]
    BY <1>5 DEF RunBundle
  <2>2. ChainInv'
    BY <1>0, <2>1, UnchangedChain DEF chain
  <2> QED
    BY <1>0, <2>1, <2>2 DEF DInv, PageInv, CacheInv, chain, At, Own
<1>6. CASE RunInit
  <2>1. UNCHANGED <<chain, page, urls, ui, cache, failed>>
        /\ script' = [script EXCEPT !["init"] = "run"] /\ script["init"] = "here"
        /\ listener' \in {Url(urls, "spec"), Url(config.base, "docs")}
    BY <1>6 DEF RunInit, SpecUrlOf
  <2>2. page = "loading" /\ urls = config.base
    BY <1>0, <2>1 DEF PageInv
  <2>3. ChainInv'
    BY <1>0, <2>1, UnchangedChain DEF chain
  <2> QED
    BY <1>0, <2>1, <2>2, <2>3 DEF DInv, PageInv, CacheInv, chain, At, Own
<1>7. CASE Load
  <2>1. UNCHANGED <<chain, urls, script, listener, cache, failed>> /\ page' = "loaded"
        /\ ui' \in {"none", "asking", "broken"} /\ (ui' = "asking" => listener # None)
        /\ \A s \in Script : script[s] \in {"run", "failed"}
    BY <1>7 DEF Load, Complete
  <2>2. ChainInv'
    BY <1>0, <2>1, UnchangedChain DEF chain
  <2> QED
    BY <1>0, <2>1, <2>2 DEF DInv, PageInv, CacheInv, chain, At, Own
<1>8. CASE AskSpec
  <2>1. Send(Browser, Ask(listener)) /\ ui = "asking" /\ UNCHANGED docs
    BY <1>8 DEF AskSpec
  <2>2. listener \in {Url(config.base, "spec"), Url(config.base, "docs")}
    BY <1>0, <2>1 DEF PageInv
  <2>3. Ask(listener) \in RequestType /\ Own(Ask(listener))
    BY <1>0, <2>2
  <2>4. ChainInv' /\ config' = config /\ Own(flight'[Browser].request)
    BY <2>1, <2>3, BrowserSends
  <2> QED
    BY <1>0, <2>1, <2>4 DEF DInv, PageInv, CacheInv, docs, Own
<1>9. CASE SpecHere
  <2>1. ChainInv' /\ CacheInv' /\ config' = config /\ At(Browser, "none")'
    BY <1>0, <1>9, DoneKeeps DEF SpecHere
  <2>2. ui' \in {"shown", "failed"} /\ UNCHANGED <<page, urls, script, listener, failed>>
    BY <1>9 DEF SpecHere
  <2> QED
    BY <1>0, <2>1, <2>2 DEF DInv, PageInv
<1>10. CASE Try
  <2> DEFINE r == Ask(Url("/", "api"))
  <2>1. Send(Browser, r) /\ ui' = "trying" /\ UNCHANGED <<page, urls, script, listener, cache, failed>>
    BY <1>10 DEF Try
  <2>2. ChainInv' /\ config' = config /\ Own(flight'[Browser].request)
    BY <1>0, <2>1, BrowserSends
  <2> QED
    BY <1>0, <2>1, <2>2 DEF DInv, PageInv, CacheInv, Own
<1>11. CASE Tried
  <2>1. ChainInv' /\ CacheInv' /\ config' = config /\ At(Browser, "none")'
    BY <1>0, <1>11, DoneKeeps DEF Tried
  <2>2. ui' = "tried" /\ UNCHANGED <<page, urls, script, listener, failed>>
    BY <1>11 DEF Tried
  <2> QED
    BY <1>0, <2>1, <2>2 DEF DInv, PageInv
<1>12. CASE Fail
  <2>1. ChainInv' /\ config' = config /\ At(Browser, "none")'
    BY <1>0, <1>12, GroundedBrowser DEF Fail
  <2>2. /\ page' \in {page, "none"} /\ (page = "loading" => page' = page)
        /\ ui' \in {ui, "failed", "tried"} /\ (ui' = "asking" => FALSE)
        /\ failed' \in BOOLEAN
        /\ UNCHANGED <<urls, listener, cache>>
        /\ script' = [s \in Script |-> IF script[s] = "fetching" THEN "failed" ELSE script[s]]
    BY <1>12 DEF Fail
  <2> QED
    BY <1>0, <2>1, <2>2 DEF DInv, PageInv, CacheInv
<1>13. CASE Reload
  <2>1. /\ page' = "none" /\ urls' = None /\ listener' = None /\ ui' = "none"
        /\ script' = [s \in Script |-> "absent"]
        /\ failed' \in BOOLEAN
        /\ UNCHANGED <<chain, cache>>
    BY <1>13 DEF Reload
  <2>2. ChainInv'
    BY <1>0, <2>1, UnchangedChain DEF chain
  <2> QED
    BY <1>0, <2>1, <2>2 DEF DInv, PageInv, CacheInv, chain, At, Own
<1> QED
  BY <1>1, <1>2, <1>3, <1>4, <1>5, <1>6, <1>7, <1>8, <1>9, <1>10, <1>11, <1>12, <1>13

LEMMA DInitStep == DInit => DInv
<1> SUFFICES ASSUME DInit PROVE DInv
  OBVIOUS
<1>1. ChainInv
  BY GroundSound DEF DInit, Init, ChainInv
<1>2. CacheInv
  BY DEF DInit, CacheInv
<1>3. At(Browser, "none")
  BY GroundSound, DocsAssumption DEF DInit, Init, At
<1>4. PageInv
  BY <1>3 DEF DInit, PageInv
<1> QED
  BY <1>1, <1>2, <1>4 DEF DInv

LEMMA DNextStep == DInv /\ [DNext]_<<chain, docs>> => DInv'
<1> SUFFICES ASSUME DInv, [DNext]_<<chain, docs>> PROVE DInv'
  OBVIOUS
<1>0. ChainInv /\ CacheInv /\ PageInv /\ Browser \in Requester
  BY DocsAssumption DEF DInv
<1>1. CASE Open \/ Browse \/ Try \/ Tried \/ Fail \/ Reload
  BY <1>1, BrowseStep DEF Browse
<1>2. ASSUME NEW c \in Requester, Pass(c), UNCHANGED docs PROVE DInv'
  <2>1. /\ ~At(c, "none") /\ ChainInv' /\ config' = config
        /\ flight'[Browser].request = flight[Browser].request
        /\ Browser # c => flight'[Browser] = flight[Browser]
    BY <1>0, <1>2, PassKeeps
  <2>2. At(Browser, "none")' \/ Own(flight'[Browser].request)
    BY <1>0, <2>1 DEF PageInv, At, Own
  <2>3. PageInv'
    BY <1>0, <1>2, <2>1, <2>2, OthersKeepPage DEF docs
  <2> QED
    BY <1>0, <1>2, <2>1, <2>3 DEF DInv, CacheInv, docs
<1>3. ASSUME NEW c \in Others, Visit(c) PROVE DInv'
  <2>1. PICK r \in Requests : Send(c, r)
    BY <1>3 DEF Visit
  <2>2. c \in Requester /\ c # Browser /\ r \in RequestType
    BY MiddlewareAssumption DEF Others
  <2>3. ChainInv' /\ config' = config /\ \A d \in Requester : d # c => flight'[d] = flight[d]
    BY <1>0, <2>1, <2>2, SendStep
  <2>4. At(Browser, "none")' \/ Own(flight'[Browser].request)
    BY <1>0, <2>2, <2>3 DEF PageInv, At, Own
  <2>5. UNCHANGED docs
    BY <1>3 DEF Visit
  <2>6. PageInv'
    BY <1>0, <2>3, <2>4, <2>5, OthersKeepPage DEF docs
  <2> QED
    BY <1>0, <2>3, <2>5, <2>6 DEF DInv, CacheInv, docs
<1>4. ASSUME NEW c \in Others, Served(c) PROVE DInv'
  <2>1. c \in Requester /\ c # Browser /\ Done(c)
        /\ UNCHANGED <<page, urls, script, listener, ui, failed>>
    BY <1>4 DEF Others, Served
  <2>2. ChainInv' /\ CacheInv' /\ config' = config
        /\ \A d \in Requester : d # c => flight'[d] = flight[d]
    BY <2>1, DoneKeeps
  <2>3. At(Browser, "none")' \/ Own(flight'[Browser].request)
    BY <1>0, <2>1, <2>2 DEF PageInv, At, Own
  <2>4. PageInv'
    BY <1>0, <2>1, <2>2, <2>3, OthersKeepPage
  <2> QED
    BY <2>2, <2>4 DEF DInv
<1>5. CASE UNCHANGED <<chain, docs>>
  <2>1. UNCHANGED chain /\ UNCHANGED docs
    BY <1>5
  <2>2. ChainInv'
    BY <1>0, <2>1, UnchangedChain DEF chain
  <2>3. CacheInv' /\ PageInv'
    BY <1>0, <2>1 DEF chain, docs, CacheInv, PageInv, At, Own
  <2> QED
    BY <2>2, <2>3 DEF DInv
<1> QED
  BY <1>1, <1>2, <1>3, <1>4, <1>5 DEF DNext

LEMMA DInvariant == DSpec => []DInv
BY DInitStep, DNextStep, PTL DEF DSpec

(***************************************************************************)
(* The theorems.                                                           *)
(***************************************************************************)

\* The variables keep their types, and the cache holds only what the gateway
\* marks as cacheable.
THEOREM DTypeCorrect == DSpec => []DTypeOK
<1>1. ASSUME DInv PROVE DTypeOK
  <2>1. config \in ConfigType
    BY <1>1, MiddlewareAssumption DEF DInv, ChainInv
  <2>2. config.base \in {"/", "/gateway"}
    BY <2>1 DEF ConfigType
  <2> QED
    BY <1>1, <2>2 DEF DInv, ChainInv, CacheInv, PageInv, DTypeOK
<1> QED
  BY <1>1, DInvariant, PTL

\* A reply's line in the access log carries the status the client got, and only
\* a reply to a panic, a 500, has none.
THEOREM LogTrue == DSpec => []LogIsTrue
<1>1. DInv => LogIsTrue
  BY DEF DInv, ChainInv, Sound, LogIsTrue, At
<1> QED
  BY <1>1, DInvariant, PTL

\* Every error of the gateway carries the request's id, twice, and its language,
\* a 500 after a panic as well.
THEOREM ErrorContext == DSpec => []ErrorsCarryContext
<1>1. ASSUME DInv, NEW c \in Requester, flight[c].error # None
      PROVE  flight[c].error = ContextOf(flight[c].request)
             /\ flight[c].sent.id = flight[c].error.id
  <2>1. flight[c] \in FlightType /\ Sound(flight[c])
    BY <1>1 DEF DInv, ChainInv
  <2>2. flight[c].place \in Answered
    BY <1>1, <2>1 DEF Sound, FlightType, Places, Unwritten, Answered
  <2> QED
    BY <1>1, <2>1, <2>2 DEF Sound, Answered, InChain
<1>2. DInv => ErrorsCarryContext
  BY <1>1 DEF ErrorsCarryContext
<1> QED
  BY <1>2, DInvariant, PTL

\* Whatever the reply, it allows the origin that asked exactly if the
\* configuration lists it, or has a wildcard in development.
THEOREM CorsEverywhere == DSpec => []CorsOnEveryReply
<1>1. ASSUME DInv, NEW c \in Requester, At(c, "sent")
      PROVE  Corsed(flight[c].sent, flight[c].request.origin)
  BY <1>1 DEF DInv, ChainInv, Sound, Answered, At
<1>2. ASSUME NEW o
      PROVE  Allows(o) <=> /\ o # None
                           /\ \/ o \in config.origins \ {"*"}
                              \/ config.development /\ "*" \in config.origins
  BY DEF Allows, AllowedOrigins
<1>3. DInv => CorsOnEveryReply
  BY <1>1, <1>2 DEF CorsOnEveryReply, Corsed
<1> QED
  BY <1>3, DInvariant, PTL

\* The gateway serves every URL the page asks for, at any base path, but the call
\* tried out at a base path that the specification does not name.
THEOREM PartsFound == DSpec => []PageFindsItsParts
<1>1. ASSUME DInv, Here(Browser), flight[Browser].error # None, flight[Browser].status = 404
      PROVE  Browsing.path = "api" /\ config.base # "/"
  <2> DEFINE f == flight[Browser]
  <2>1. Sound(f) /\ ~At(Browser, "none") /\ Own(f.request)
    BY <1>1, DocsAssumption DEF DInv, ChainInv, PageInv, Here, At
  <2>2. f.place = "sent"
    BY <1>1, <2>1 DEF Sound, Here, At
  <2>3. ~Matches(f.request)
    BY <1>1, <2>1, <2>2 DEF Sound, Answered
  <2> QED
    BY <2>1, <2>3 DEF Own, Matches, Browsing
<1>2. DInv => PageFindsItsParts
  BY <1>1 DEF PageFindsItsParts
<1> QED
  BY <1>2, DInvariant, PTL

\* No client is given another origin's allowance, through the cache either.
THEOREM NoForeign == DSpec => []NoForeignAllowance
<1>1. ASSUME DInv, NEW c \in Requester, Here(c)
      PROVE  flight[c].sent.allow \in {None, flight[c].request.origin}
  BY <1>1 DEF DInv, ChainInv, Sound, Answered, Corsed, Here, At
<1>2. DInv => NoForeignAllowance
  BY <1>1 DEF NoForeignAllowance
<1> QED
  BY <1>2, DInvariant, PTL

=============================================================================
