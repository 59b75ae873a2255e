----------------------------- MODULE MCGateway ------------------------------
EXTENDS Gateway

NoMap == [x \in {} |-> x]

\* Two pooled services and one that is always on.
Svc(container, pool) ==
    [container |-> container, target |-> "http", health |-> << >>, startup |-> 0,
     maxQueue |-> 0, pool |-> pool]

BaseServices == ("a" :> Svc("ca", "gpu")) @@ ("b" :> Svc("cb", "gpu")) @@ ("ui" :> Svc("cui", None))

BasePools == "gpu" :> [grace |-> 1, cooldown |-> 1, default |-> None]

RouteTo(prefix, service, headers, models) ==
    [prefix |-> prefix, service |-> service, headers |-> headers, models |-> models]

V1 == <<"/", "v1">>

\* A route only for a header, one by model, and a catch-all.
BaseRoutes ==
    << RouteTo(V1, "ui", "X" :> "x", NoMap),
       RouteTo(V1, "a", NoMap, "m" :> "b"),
       RouteTo(<<"/", "ui">>, "ui", NoMap, NoMap) >>

Base ==
    [port |-> 0, maxQueue |-> 0, maxRequestBytes |-> 0, adminToken |-> None, proxyToken |-> None,
     pools |-> BasePools, services |-> BaseServices, routes |-> BaseRoutes]

\* The model routes elsewhere, under a cap at the largest int64.
Remapped ==
    [Base EXCEPT !.maxRequestBytes = MaxInt64, !.proxyToken = "t",
                 !.routes[2].models = "m" :> "ui"]

\* A route names an undeclared service, in one place or another, or a file is
\* refused for another reason.
Refusable ==
    { [Base EXCEPT !.routes[2].models = "m" :> "gone"],
      [Base EXCEPT !.routes[3].service = "gone"],
      [Base EXCEPT !.services["b"].container = "ca"],
      [Base EXCEPT !.services["b"].target = "ftp"],
      [Base EXCEPT !.pools["gpu"].default = "ui"],
      [Base EXCEPT !.proxyToken = " "],
      [Base EXCEPT !.maxRequestBytes = -1],
      Unreadable }

FilesBounds ==
    {Base, Remapped, [Base EXCEPT !.maxRequestBytes = 1, !.adminToken = "s"],
     [Base EXCEPT !.maxRequestBytes = MaxPeekSize + 1]} \cup Refusable

Bytes(n) == [i \in 1 .. n |-> i]

\* declared: does the request have a Content-Length?
Req(method, path, header, n, declared, json, model, upgrade) ==
    [method |-> method, path |-> path, header |-> header, body |-> Bytes(n),
     length |-> IF declared THEN n ELSE -1, json |-> json, model |-> model, upgrade |-> upgrade,
     adminToken |-> "s", proxyToken |-> "t"]

Posts ==
    {Req("POST", V1, NoMap, n, d, TRUE, m, FALSE) :
        n \in 0 .. MaxInt64, d \in BOOLEAN, m \in {None, "m", "other"}}
    \cup {Req("POST", V1 \o <<"/chat">>, h, n, FALSE, j, "m", FALSE) :
        h \in {"X" :> "x", "X" :> "y"}, n \in {0, 1, MaxInt64}, j \in BOOLEAN}

Others ==
    {Req(method, path, h, 0, TRUE, FALSE, None, u) :
        method \in {"GET", "OPTIONS"}, path \in {V1, <<"/", "ui">>, <<"/">>},
        h \in {NoMap, "X" :> "x"}, u \in BOOLEAN}
    \cup {[Req("GET", V1, NoMap, 0, TRUE, FALSE, None, FALSE) EXCEPT !.proxyToken = None]}

Admins ==
    {Req(method, <<"/", "stagehand/">> \o tail, NoMap, 0, TRUE, FALSE, None, FALSE) :
        method \in {"GET", "POST"},
        tail \in {<<"healthz">>, <<"status">>, <<"reload">>, <<"swap/", "a">>, <<"swap/", "ui">>,
                  <<"pool/", "gpu", "/stop">>, <<"pool/", "gone", "/stop">>}}

RequestsBounds == Posts \cup Others \cup Admins
=============================================================================
