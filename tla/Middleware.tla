----------------------------- MODULE Middleware -----------------------------
(***************************************************************************)
(* A request's way through internal/httpapi: server.go's chain of context, *)
(* recovery, access log, CORS and mux around a handler, and the way back,  *)
(* which a panic takes past the access log.  Requests share nothing here   *)
(* but the configuration.                                                  *)
(*                                                                         *)
(* A handler is what its reply is: a fixed document, an error of the       *)
(* gateway, or an answer of Toss, whose status is whatever Toss sent.      *)
(* net/http sends the headers as they are when the first status is         *)
(* written, and panics for a status below 100.                             *)
(***************************************************************************)
EXTENDS Integers, Sequences

CONSTANTS
    Requester,       \* connections, with one request at a time
    Configs,         \* the configurations considered
    Requests,        \* the requests considered
    Relayed,         \* the statuses Toss answers with
    Rejected,        \* the statuses of the gateway's own errors
    None

Supported == {"ko", "en"}
Language  == Supported \union {"other", "none"}
Document  == {"health", "docs", "css", "bundle", "init", "spec"}

\* base: the base path, "/" for none; origins: GATEWAY_CORS_ORIGINS; development:
\* GATEWAY_ENV; lang: ?lang= and GATEWAY_DEFAULT_LANG.  A URL is a base path and
\* the name of a document, "api" for any endpoint of /v1, "unclean" for a path the
\* mux would clean, "other" for the rest.  A language tag is its primary part; id
\* is the X-Request-Id, which sanitizes to itself or not.
RequestType ==
    [method : {"GET", "POST", "OPTIONS"}, base : {"/", "/gateway"},
     path : Document \union {"api", "unclean", "other"}, origin : STRING \union {None},
     lang : Language, accept : Seq(Language), id : {"none", "bad", "good"}]

ConfigType ==
    [base : {"/", "/gateway"}, origins : SUBSET STRING, development : BOOLEAN,
     lang : Language]

\* Only the catch-all answers 404 on the gateway's own account; Toss may too.
ASSUME MiddlewareAssumption ==
    /\ Relayed \subseteq 0 .. 599
    /\ Rejected \subseteq (400 .. 599) \ {404}
    /\ Configs \subseteq ConfigType
    /\ Requests \subseteq RequestType

VARIABLES
    config,          \* the configuration, fixed
    flight           \* [Requester -> its request and where that is]

chain == <<config, flight>>

\* The response writer's header map, as far as it matters: CORS, caching, the
\* rate limit's headers of Toss, and the request id.
NoHeader == [allow |-> None, vary |-> FALSE, cache |-> FALSE, rate |-> FALSE, id |-> None]

\* The request id and the language in the request's context.
NoContext == [id |-> None, lang |-> "ko"]

\* recorded: statusRecorder's status; line: the access log's status, 0: no line.
Ground == [place |-> "none", request |-> None, context |-> NoContext, header |-> NoHeader,
           recorded |-> 0, line |-> 0, status |-> 0, sent |-> NoHeader, error |-> None]

Places == {"none", "cors", "mux", "returning", "panicking", "sent", "kept"}

IdType      == {"good", "fresh", "toss", None}
HeaderType  == [allow : STRING \union {None}, vary : BOOLEAN, cache : BOOLEAN,
                rate : BOOLEAN, id : IdType]
ContextType == [id : IdType, lang : Supported]

StatusType  == 0 .. 599                                   \* 0: none
RequestOrNone == RequestType \union {None}
ErrorOrNone   == ContextType \union {None}

FlightType ==
    [place : Places, request : RequestOrNone, context : ContextType, header : HeaderType,
     recorded : StatusType, line : StatusType, status : StatusType, sent : HeaderType,
     error : ErrorOrNone]

Init ==
    /\ config \in Configs
    /\ flight = [c \in Requester |-> Ground]

Put(c, f) == flight' = [flight EXCEPT ![c] = f] /\ UNCHANGED config

At(c, place) == flight[c].place = place

(***************************************************************************)
(* contextMW and i18n.Resolve.                                             *)
(***************************************************************************)
Resolve(r) ==
    LET supported == {i \in DOMAIN r.accept : r.accept[i] \in Supported}
        first == {i \in supported : \A j \in supported : i <= j}
    IN  IF r.lang \in Supported THEN r.lang
        ELSE IF first # {} THEN r.accept[CHOOSE i \in first : TRUE]
        ELSE IF config.lang \in Supported THEN config.lang
        ELSE "ko"

ContextOf(r) ==
    [id |-> IF r.id = "good" THEN "good" ELSE "fresh", lang |-> Resolve(r)]

(***************************************************************************)
(* corsMW: a wildcard counts in development only.                          *)
(***************************************************************************)
AllowedOrigins == IF config.development THEN config.origins ELSE config.origins \ {"*"}
Allows(origin) == origin # None /\ {"*", origin} \cap AllowedOrigins # {}

CorsHeaderUnvaried(h, origin) ==                          \* mutant of CorsHeader
    IF Allows(origin) THEN [h EXCEPT !.allow = origin] ELSE h
CorsHeader(h, origin) ==
    IF Allows(origin) THEN [h EXCEPT !.allow = origin, !.vary = TRUE] ELSE h

(***************************************************************************)
(* What a handler does to the writer: a status, with the headers set by    *)
(* then; a second one would go to the log only.                            *)
(***************************************************************************)
RecordedFirst(f, status) == IF f.status = 0 THEN 200 ELSE f.recorded  \* mutant of Recorded
Recorded(f, status) == status

Written(f, status, header, error) ==
    IF f.status # 0 THEN f
    ELSE [f EXCEPT !.status = status, !.sent = header, !.error = error]

Handled(f, status, header, error) ==
    [Written(f, status, header, error) EXCEPT
       !.place = "returning", !.header = header, !.recorded = Recorded(f, status)]

\* writeGatewayError: the request's id in the header and in the body, and a
\* message in its language.
GatewayError(f, context, status) ==
    Handled(f, status, [f.header EXCEPT !.id = context.id], context)

(***************************************************************************)
(* The way in.                                                             *)
(***************************************************************************)
Arrived(r) == [Ground EXCEPT !.place = "cors", !.request = r, !.context = ContextOf(r)]

\* contextMW, recoverMW's defer, logMW's recorder.
Arrive(c, r) ==
    /\ At(c, "none")
    /\ Put(c, Arrived(r))

\* OPTIONS is answered here, for every path.
CorsPreflightFirst(c) ==                                  \* mutant of Cors
    /\ At(c, "cors")
    /\ LET f == flight[c]
           h == CorsHeader(f.header, f.request.origin)
       IN  Put(c, IF f.request.method = "OPTIONS" THEN Handled(f, 204, f.header, None)
                  ELSE [f EXCEPT !.place = "mux", !.header = h])
Cors(c) ==
    /\ At(c, "cors")
    /\ LET f == flight[c]
           h == CorsHeader(f.header, f.request.origin)
       IN  Put(c, IF f.request.method = "OPTIONS" THEN Handled(f, 204, h, None)
                  ELSE [f EXCEPT !.place = "mux", !.header = h])

(***************************************************************************)
(* The mux and the handlers.  Documents have GET patterns; the catch-all   *)
(* takes what no pattern matches, also for its method.                     *)
(***************************************************************************)
Matches(r) ==
    /\ r.base = config.base
    /\ r.path = "api" \/ (r.path \in Document /\ r.method = "GET")

Redirect(c) ==
    /\ At(c, "mux") /\ flight[c].request.path = "unclean"
    /\ Put(c, Handled(flight[c], 301, flight[c].header, None))

NotFound(c) ==
    /\ At(c, "mux") /\ flight[c].request.path # "unclean"
    /\ ~Matches(flight[c].request)
    /\ Put(c, GatewayError(flight[c], flight[c].context, 404))

\* The documents that may be cached publicly.
CacheableAll(path) == path \in Document                   \* mutant of Cacheable
Cacheable(path) == path \in {"css", "bundle", "init"}

Static(c) ==
    /\ At(c, "mux") /\ Matches(flight[c].request)
    /\ LET f == flight[c] IN
       /\ f.request.path \in Document
       /\ Put(c, Handled(f, 200, [f.header EXCEPT !.cache = Cacheable(f.request.path)], None))

Api(c) == At(c, "mux") /\ Matches(flight[c].request) /\ flight[c].request.path = "api"

RejectApi(c, status) ==
    /\ Api(c) /\ status \in Rejected
    /\ Put(c, GatewayError(flight[c], flight[c].context, status))

\* writeUpstream.  The id is Toss's, if it sent one.
RelayApi(c, status, id) ==
    /\ Api(c) /\ status \in Relayed
    /\ LET f == flight[c]
           h == [f.header EXCEPT !.rate = TRUE, !.id = id]
       IN  /\ id \in {"toss", f.context.id}
           /\ Put(c, IF status < 100
                     THEN [f EXCEPT !.place = "panicking", !.header = h, !.recorded = status]
                     ELSE Handled(f, status, h, None))

(***************************************************************************)
(* The way back.                                                           *)
(***************************************************************************)
Log(c) ==
    /\ At(c, "returning")
    /\ Put(c, [flight[c] EXCEPT !.place = "sent", !.line = flight[c].recorded])

\* recoverMW writes past the recorder, to the writer net/http gave, and sees
\* the context because contextMW is outside it.
PanicContextLost(f) == NoContext                          \* mutant of PanicContext
PanicContext(f) == f.context

Recover(c) ==
    /\ At(c, "panicking")
    /\ Put(c, [GatewayError(flight[c], PanicContext(flight[c]), 500) EXCEPT !.place = "sent"])

Leave(c) ==
    /\ At(c, "sent")
    /\ Put(c, Ground)

Handle(c) ==
    \/ Redirect(c) \/ NotFound(c) \/ Static(c)
    \/ \E s \in Rejected : RejectApi(c, s)
    \/ \E s \in Relayed, id \in {"toss", "good", "fresh"} : RelayApi(c, s, id)

Pass(c) == Cors(c) \/ Handle(c) \/ Log(c) \/ Recover(c)

Next == \E c \in Requester : (\E r \in Requests : Arrive(c, r)) \/ Pass(c) \/ Leave(c)

Spec == Init /\ [][Next]_chain

-----------------------------------------------------------------------------
\* The access log tells the status the client got, and is silent only about a
\* panic, whose reply is a 500: no reply goes unseen for another reason.
LogIsTrue ==
    \A c \in Requester : At(c, "sent") =>
        LET f == flight[c] IN
        IF f.line = 0 THEN f.status = 500 ELSE f.line = f.status

\* Every error the gateway makes, the 404 of the catch-all and the 500 after a
\* panic included, has the request's id in body and header and speaks the
\* language the request asked for.
ErrorsCarryContext ==
    \A c \in Requester :
        LET f == flight[c] IN
        f.error # None => f.error = ContextOf(f.request) /\ f.sent.id = f.error.id

\* Every reply of the gateway, to preflights, for unknown paths, of errors and panics as well,
\* names the origin that asked exactly if it is allowed; outside development it
\* has to be listed (middleware.go:149-155).
CorsOnEveryReply ==
    \A c \in Requester : At(c, "sent") =>
        LET o      == flight[c].request.origin
            listed == o # None /\ (o \in config.origins \ {"*"} \/ (config.development /\ "*" \in config.origins))
        IN  flight[c].sent.allow = IF listed THEN o ELSE None

=============================================================================
