-------------------------------- MODULE Docs --------------------------------
(***************************************************************************)
(* The documentation page of internal/openapi in a browser, served through *)
(* Middleware: the page and the URLs handleDocs writes into it, its two    *)
(* scripts, the specification they ask for, and a call tried out from it.  *)
(* Other clients send their requests meanwhile, and a cache that replies   *)
(* with "public" may be kept in stands before the gateway.                 *)
(*                                                                         *)
(* The browser may fetch scripts in any order, but runs them in the order  *)
(* of the page, fires "load" when both are done with, and gives a script   *)
(* document.currentScript only while it runs.  A fetch may fail.           *)
(***************************************************************************)
EXTENDS Middleware

CONSTANT Browser     \* the requester that is the browser

ASSUME DocsAssumption == Browser \in Requester

VARIABLES
    page,            \* "none", "opening", "loading", "loaded"
    urls,            \* the base path in the page's URLs, None: no page
    script,          \* [Script -> "absent", "fetching", "here", "failed", "run"]
    listener,        \* the specification's URL the load listener holds, None: no listener
    ui,              \* "none", "broken", "asking", "shown", "failed"; "trying", "tried"
    cache,           \* replies kept by the cache
    failed           \* whether a fetch of this page failed

docs == <<page, urls, script, listener, ui, cache, failed>>

Script == {"bundle", "init"}

Url(base, path) == [base |-> base, path |-> path]

DInit ==
    /\ Init
    /\ page = "none"
    /\ urls = None
    /\ script = [s \in Script |-> "absent"]
    /\ listener = None
    /\ ui = "none"
    /\ cache = {}
    /\ failed = FALSE

\* A browser's own pages ask without an Origin.
Ask(url) ==
    [method |-> "GET", base |-> url.base, path |-> url.path, origin |-> None,
     lang |-> "none", accept |-> <<>>, id |-> "none"]

(***************************************************************************)
(* The cache.  What it may keep it may also give, to any origin unless the *)
(* reply varies by it.                                                     *)
(***************************************************************************)
Entry(f) == [base |-> f.request.base, path |-> f.request.path, origin |-> f.request.origin,
             vary |-> f.sent.vary, allow |-> f.sent.allow]

Keeps(f) == f.status = 200 /\ f.sent.cache

Serves(e, r) ==
    /\ r.method = "GET" /\ e.base = r.base /\ e.path = r.path
    /\ e.vary => e.origin = r.origin

\* A reply from the cache comes without the gateway.
FromCache(c, r) ==
    \E e \in cache :
        /\ At(c, "none") /\ Serves(e, r)
        /\ Put(c, [Arrived(r) EXCEPT !.place = "kept", !.status = 200,
                                     !.sent = [NoHeader EXCEPT !.allow = e.allow, !.vary = e.vary]])

Send(c, r) == Arrive(c, r) \/ FromCache(c, r)

Here(c) == At(c, "sent") \/ At(c, "kept")

\* The requester has its reply; the cache keeps one it may keep.
Done(c) ==
    /\ Here(c)
    /\ Put(c, Ground)
    /\ cache' = IF Keeps(flight[c]) THEN cache \union {Entry(flight[c])} ELSE cache

(***************************************************************************)
(* The browser.                                                            *)
(***************************************************************************)
Browsing == flight[Browser].request
Received(path) == Here(Browser) /\ Browsing.path = path

Open ==
    /\ page = "none"
    /\ Send(Browser, Ask(Url(config.base, "docs")))
    /\ page' = "opening"
    /\ UNCHANGED <<urls, script, listener, ui, cache, failed>>

\* The page comes with the URLs of its own base path: SwaggerUI fills them in.
PageBaseBare == "/"                                        \* mutant of PageBase
PageBase == config.base

Parse ==
    /\ page = "opening" /\ Received("docs") /\ flight[Browser].status = 200
    /\ page' = "loading"
    /\ urls' = PageBase
    /\ Done(Browser)
    /\ UNCHANGED <<script, listener, ui, failed>>

FetchScript(s) ==
    /\ page = "loading" /\ script[s] = "absent"
    /\ Send(Browser, Ask(Url(urls, s)))
    /\ script' = [script EXCEPT ![s] = "fetching"]
    /\ UNCHANGED <<page, urls, listener, ui, cache, failed>>

ScriptHere(s) ==
    /\ script[s] = "fetching" /\ Received(s)
    /\ script' = [script EXCEPT ![s] = IF flight[Browser].status = 200 THEN "here" ELSE "failed"]
    /\ Done(Browser)
    /\ UNCHANGED <<page, urls, listener, ui, failed>>

\* The bundle defines SwaggerUIBundle.
RunBundle ==
    /\ script["bundle"] = "here"
    /\ script' = [script EXCEPT !["bundle"] = "run"]
    /\ UNCHANGED <<chain, page, urls, listener, ui, cache, failed>>

\* swagger-init.js, run as a script: it reads data-spec-url off its own tag and
\* listens for load.
TagOfLoad(current) == None                                \* mutant of Tag
Tag(current) == current

\* An empty URL is the page's own.
SpecUrlOf(tag) == IF tag # None THEN Url(urls, "spec") ELSE Url(config.base, "docs")

RunInit ==
    /\ script["init"] = "here" /\ script["bundle"] \in {"run", "failed"}
    /\ script' = [script EXCEPT !["init"] = "run"]
    /\ listener' = SpecUrlOf(Tag("init"))
    /\ UNCHANGED <<chain, page, urls, ui, cache, failed>>

\* The load event: the listener builds the UI, which a missing bundle breaks.
Complete == \A s \in Script : script[s] \in {"run", "failed"}

Load ==
    /\ page = "loading" /\ Complete
    /\ page' = "loaded"
    /\ ui' = IF listener = None THEN "none"
             ELSE IF script["bundle"] = "run" THEN "asking" ELSE "broken"
    /\ UNCHANGED <<chain, urls, script, listener, cache, failed>>

AskSpec ==
    /\ ui = "asking"
    /\ Send(Browser, Ask(listener))
    /\ UNCHANGED docs

SpecHere ==
    /\ ui = "asking" /\ Here(Browser)
    /\ ui' = IF flight[Browser].status = 200 /\ Received("spec") THEN "shown" ELSE "failed"
    /\ Done(Browser)
    /\ UNCHANGED <<page, urls, script, listener, failed>>

\* A call from the page goes to the specification's one server, "/".
Try ==
    /\ ui = "shown"
    /\ Send(Browser, Ask(Url("/", "api")))
    /\ ui' = "trying"
    /\ UNCHANGED <<page, urls, script, listener, cache, failed>>

Tried ==
    /\ ui = "trying" /\ Received("api")
    /\ ui' = "tried"
    /\ Done(Browser)
    /\ UNCHANGED <<page, urls, script, listener, failed>>

\* The network loses what the browser waits for.
Fail ==
    /\ ~At(Browser, "none")
    /\ Put(Browser, Ground)
    /\ failed' = TRUE
    /\ page' = IF page = "opening" THEN "none" ELSE page
    /\ script' = [s \in Script |-> IF script[s] = "fetching" THEN "failed" ELSE script[s]]
    /\ ui' = CASE ui = "asking" -> "failed" [] ui = "trying" -> "tried" [] OTHER -> ui
    /\ UNCHANGED <<urls, listener, cache>>

Reload ==
    /\ page \in {"loading", "loaded"} /\ At(Browser, "none")
    /\ page' = "none" /\ urls' = None /\ listener' = None /\ ui' = "none"
    /\ script' = [s \in Script |-> "absent"]
    /\ failed' = FALSE
    /\ UNCHANGED <<chain, cache>>

(***************************************************************************)
(* The others.                                                             *)
(***************************************************************************)
Others == Requester \ {Browser}

Visit(c) == (\E r \in Requests : Send(c, r)) /\ UNCHANGED docs
Served(c) == Done(c) /\ UNCHANGED <<page, urls, script, listener, ui, failed>>

-----------------------------------------------------------------------------
Browse ==
    \/ Parse
    \/ \E s \in Script : FetchScript(s) \/ ScriptHere(s)
    \/ RunBundle \/ RunInit \/ Load
    \/ AskSpec \/ SpecHere

DNext ==
    \/ Open \/ Browse \/ Try \/ Tried \/ Fail \/ Reload
    \/ \E c \in Requester : Pass(c) /\ UNCHANGED docs
    \/ \E c \in Others : Visit(c) \/ Served(c)

DSpec == DInit /\ [][DNext]_<<chain, docs>>

\* The browser gets on with the page, and its requests with their way; nobody has
\* to open or reload a page, and the other clients need not ask.
DFairSpec ==
    /\ DSpec
    /\ WF_<<chain, docs>>(Browse)
    /\ WF_<<chain, docs>>(Pass(Browser) /\ UNCHANGED docs)

-----------------------------------------------------------------------------
DTypeOK ==
    /\ config \in Configs
    /\ flight \in [Requester -> FlightType]
    /\ page \in {"none", "opening", "loading", "loaded"}
    /\ urls \in {None, "/", "/gateway"}
    /\ \A e \in cache : e.path \in {"css", "bundle", "init"}
    /\ script \in [Script -> {"absent", "fetching", "here", "failed", "run"}]
    /\ ui \in {"none", "broken", "asking", "shown", "failed", "trying", "tried"}
    /\ failed \in BOOLEAN

\* The page asks for nothing the gateway does not serve, at any base path: no
\* URL it writes, no script and no specification request ends in the catch-all's
\* 404.  A call tried out does, at a base path: the specification names the
\* server "/".
PageFindsItsParts ==
    Here(Browser) /\ flight[Browser].error # None /\ flight[Browser].status = 404 =>
        Browsing.path = "api" /\ config.base # "/"

\* No reply, from the gateway or from a cache between, allows an origin other
\* than the one that asked: what is cached publicly varies by origin.
NoForeignAllowance ==
    \A c \in Requester : Here(c) =>
        flight[c].sent.allow \in {None, flight[c].request.origin}

\* An opened page shows the specification, unless a fetch fails or it is reloaded:
\* whichever script arrives first, the UI starts after both have run and with the
\* right URL.
PageShows == page = "loading" ~> (ui = "shown" \/ failed \/ page = "none")

=============================================================================
