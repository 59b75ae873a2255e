------------------------------- MODULE Router -------------------------------
(***************************************************************************)
(* The ordered first-match route table (router/router.go).  A request's    *)
(* headers are a function from the names it carries; Get of a name it does *)
(* not carry is the empty value, None.                                     *)
(***************************************************************************)
EXTENDS Config, SequencesExt

Get(header, name) == IF name \in DOMAIN header THEN header[name] ELSE None

HeadersMatch(want, got) == \A k \in DOMAIN want : Get(got, k) = want[k]

Applies(route, path, header) ==
    IsPrefix(route.prefix, path) /\ HeadersMatch(route.headers, header)

NoMatch == [found |-> FALSE, service |-> None, needsModel |-> FALSE]

Chosen(route, model) ==
    [found |-> TRUE,
     service |-> IF model # None /\ model \in DOMAIN route.models
                 THEN route.models[model] ELSE route.service,
     needsModel |-> DOMAIN route.models # {}]

\* The loop of Match: the first route that applies decides.
Match(routes, path, header, model) ==
    LET Hit(route) == Applies(route, path, header)
        first == SelectInSeq(routes, Hit)
    IN IF first = 0 THEN NoMatch ELSE Chosen(routes[first], model)
=============================================================================
