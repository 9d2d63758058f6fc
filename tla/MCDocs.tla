------------------------------- MODULE MCDocs -------------------------------
(***************************************************************************)
(* Values for TLC: a wildcard in production, one in development with a     *)
(* base path, a list of one; requests of each kind from a listed origin,   *)
(* an unlisted one and none, and the languages asked for in either way.    *)
(***************************************************************************)
EXTENDS Docs, TLC

MCConfigs ==
    {[base |-> "/",         origins |-> {"*", "A"}, development |-> FALSE, lang |-> "other"],
     [base |-> "/gateway", origins |-> {"*"},      development |-> TRUE,  lang |-> "en"]}

Plain == [method |-> "GET", base |-> "/", path |-> "bundle", origin |-> None,
          lang |-> "none", accept |-> <<>>, id |-> "none"]

MCRequests ==
    {[Plain EXCEPT !.origin = o, !.base = b] : o \in {None, "A", "B"}, b \in {"/", "/gateway"}}
    \union {[Plain EXCEPT !.path = p, !.origin = "A", !.id = "good", !.lang = "other",
                          !.accept = <<"other", "en">>] : p \in {"api", "other", "unclean"}}
    \union {[Plain EXCEPT !.method = "OPTIONS", !.path = "api", !.origin = "B"],
            [Plain EXCEPT !.path = "other", !.id = "bad", !.lang = "ko", !.accept = <<"en">>]}

=============================================================================
