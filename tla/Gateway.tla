------------------------------ MODULE Gateway -------------------------------
(***************************************************************************)
(* One request on its way through the handler (server/handler.go): gates,  *)
(* body cap, routing with the model peek, admission, and the forwarding of *)
(* proxy/proxy.go and websocket.go, inside recoverPanics and logRequests;  *)
(* and the admin endpoints.  Handlers share nothing but the runtime        *)
(* pointer, which a reload may swap between any two steps, so one request  *)
(* shows what there is to see.  The pool answers as PoolService promises.  *)
(*                                                                         *)
(* CORS headers and the text of error bodies are left out.                 *)
(***************************************************************************)
EXTENDS BodyPeek

CONSTANTS
    Files,       \* the contents config.yaml may have
    Requests,    \* the requests a client may send
    GenToken     \* the generated admin token; None: admin auth is disabled

Revisions == {Load(f) : f \in {g \in Files : Loadable(g)}}

\* The cap is an int64.  net/http hands out a declared body at its length or
\* fails the read; no body is longer than an int64 counts.
ASSUME GatewayAssumption ==
    /\ Revisions # {}
    /\ \A c \in Revisions :
        /\ c.maxRequestBytes \in Int /\ c.maxRequestBytes <= MaxInt64
        /\ c.routes \in Seq(Range(c.routes))
    /\ \A r \in Requests :
        /\ r.body \in Seq(Nat) /\ Len(r.body) <= MaxInt64
        /\ r.length \in {-1, Len(r.body)}
        /\ r.upgrade \in BOOLEAN

VARIABLES
    rt,        \* the revision behind the runtime pointer
    pc,        \* where the handler is
    req,       \* the request as it came in
    mine,      \* the revision the handler loaded
    body,      \* the body it has to forward
    getBody,   \* is the body replayable?
    match,     \* the route it found
    sent,      \* the final status line on the wire, 0 if none
    interim,   \* the first 1xx status line sent before it, 0 if none
    recorded,  \* status and written of the statusRecorder
    got,       \* what the backend received: <<service, body>>, or << >>
    here       \* is the client still there?

vars == <<rt, pc, req, mine, body, getBody, match, sent, interim, recorded, got,
          here>>

routing == <<req, mine, match>>
payload == <<body, getBody, got>>
response == <<sent, interim, recorded>>

TypeOK ==
    /\ rt \in Revisions
    /\ pc \in {"accept", "check", "admin", "route", "peek", "resolve", "admit", "forward",
               "stream", "tunnel", "return", "done"}
    /\ req \in Requests
    /\ mine \in Revisions
    /\ body \in Seq(Nat)
    /\ getBody \in BOOLEAN
    /\ match.found \in BOOLEAN /\ match.needsModel \in BOOLEAN
    /\ sent \in Nat
    /\ interim \in Nat
    /\ recorded \in [status : Nat, written : BOOLEAN]
    /\ got = << >> \/ got[1] \in (DOMAIN mine.services) \X Seq(Nat)
    /\ here \in BOOLEAN

Init ==
    /\ rt \in Revisions
    /\ pc = "accept"
    /\ req \in Requests
    /\ mine = rt
    /\ body = req.body
    /\ getBody = FALSE
    /\ match = NoMatch
    /\ sent = 0
    /\ interim = 0
    /\ recorded = [status |-> 200, written |-> FALSE]
    /\ got = << >>
    /\ here = TRUE

\* Reload, as far as requests see it: one pointer is stored.
Reload ==
    /\ pc # "done"
    /\ rt' \in Revisions \ {rt}
    /\ UNCHANGED <<pc, routing, payload, response, here>>

-----------------------------------------------------------------------------
(* The response writer.                                                    *)

\* Mutant: the recorder keeps the last status.
RecordLast(status) == recorded' = [status |-> status, written |-> TRUE]

\* statusRecorder.WriteHeader: the first status counts, whatever its class.
Record(status) ==
    recorded' = IF recorded.written THEN recorded ELSE [status |-> status, written |-> TRUE]

\* Statuses after which net/http still waits for the final one.
IsInterim(status) == status \in (100 .. 199) \ {101}

\* net/http sends an interim status line at once, and a final one only once;
\* later ones are dropped.
WriteHeader(status) ==
    /\ Record(status)
    /\ IF IsInterim(status)
       THEN /\ interim' = OrDefault(interim, 0, status)
            /\ UNCHANGED sent
       ELSE /\ sent' = OrDefault(sent, 0, status)
            /\ UNCHANGED interim

\* writeError and return.
Reply(status) ==
    /\ WriteHeader(status)
    /\ pc' = "return"
    /\ UNCHANGED <<rt, routing, payload, here>>

-----------------------------------------------------------------------------
(* handle                                                                  *)

Accept ==
    /\ pc = "accept"
    /\ mine' = rt
    /\ pc' = "check"
    /\ UNCHANGED <<rt, req, match, payload, response, here>>

Healthz == <<"/", "stagehand/", "healthz">>

IsAdmin(path) == IsPrefix(<<"/", "stagehand/">>, path)

\* checkToken; an empty token switches the gate off.
TokenOK(want, given) == want = None \/ given = want

AdminToken(c) == IF GenToken = None THEN None ELSE OrDefault(c.adminToken, None, GenToken)

\* Mutant: a body of exactly the cap is turned away.
LengthRejectedAtCap == mine.maxRequestBytes > 0 /\ req.length >= mine.maxRequestBytes

\* A declared Content-Length over the cap; length is -1 for a chunked body.
LengthRejected == mine.maxRequestBytes > 0 /\ req.length > mine.maxRequestBytes

Probe == req.method = "OPTIONS" \/ (req.method = "GET" /\ req.path = Healthz)

\* preflight and the liveness probe, before any gate.
AnswerProbe ==
    /\ pc = "check"
    /\ Probe
    /\ Reply(200)

AdminGate ==
    /\ pc = "check"
    /\ ~Probe
    /\ IsAdmin(req.path)
    /\ IF TokenOK(AdminToken(mine), req.adminToken)
       THEN /\ pc' = "admin"
            /\ UNCHANGED <<rt, routing, payload, response, here>>
       ELSE Reply(401)

ProxyGate ==
    /\ pc = "check"
    /\ ~Probe
    /\ ~IsAdmin(req.path)
    /\ IF ~TokenOK(mine.proxyToken, req.proxyToken) THEN Reply(401)
       ELSE IF LengthRejected THEN Reply(413)
       ELSE /\ pc' = "route"
            /\ UNCHANGED <<rt, routing, payload, response, here>>

\* The body model is looked at only for a POST whose content type is JSON.
Peekable == req.method = "POST" /\ req.json

Route ==
    /\ pc = "route"
    /\ match' = Match(mine.routes, req.path, req.header, None)
    /\ pc' = IF match'.needsModel /\ Peekable THEN "peek" ELSE "resolve"
    /\ UNCHANGED <<rt, req, mine, payload, response, here>>

\* Mutant: the second match asks the current route table.
RematchCurrent(model) ==
    match' = IF model = None THEN match ELSE Match(rt.routes, req.path, req.header, model)

Rematch(model) ==
    match' = IF model = None THEN match ELSE Match(mine.routes, req.path, req.header, model)

\* Without a body net/http leaves http.NoBody, which the cap's MaxBytesReader
\* wraps.
NoBody == req.length = 0 /\ mine.maxRequestBytes <= 0

\* What the "model" field holds, as PeekModel finds it.
Peek ==
    /\ pc = "peek"
    /\ LET p == PeekModel(req.body, NoBody, req.model, mine.maxRequestBytes) IN
        IF PeekTooLarge(req.body, mine.maxRequestBytes) THEN Reply(413)
        ELSE /\ body' = p.body
             /\ getBody' = p.getBody
             /\ Rematch(p.model)
             /\ pc' = "resolve"
             /\ UNCHANGED <<rt, req, mine, got, response, here>>

\* The connection breaks while the body is read.
PeekBroken ==
    /\ pc = "peek"
    /\ req.body # << >>
    /\ Reply(400)

Resolve ==
    /\ pc = "resolve"
    /\ IF ~match.found THEN Reply(404)
       ELSE IF match.service \notin DOMAIN mine.services THEN Reply(500)
       ELSE /\ pc' = IF mine.services[match.service].pool = None THEN "forward" ELSE "admit"
            /\ UNCHANGED <<rt, routing, payload, response, here>>

-----------------------------------------------------------------------------
(* Admission: pool.Admit may answer anything, and may be told by the       *)
(* request's context to give up.                                           *)

Admitted ==
    /\ pc = "admit"
    /\ pc' = "forward"
    /\ UNCHANGED <<rt, routing, payload, response, here>>

AdmitStatus == [QueueFull |-> 429, DockerError |-> 502, StartupTimeout |-> 504, Shutdown |-> 503]

Refused ==
    /\ pc = "admit"
    /\ \E res \in DOMAIN AdmitStatus : Reply(AdmitStatus[res])

\* Mutant: every cancellation is taken for a client that went away.
CanceledSilent ==
    /\ pc = "admit"
    /\ pc' = "return"
    /\ here' \in BOOLEAN
    /\ UNCHANGED <<rt, routing, payload, response>>

\* AdmitCanceled: by the request's deadline, or because the client went away.
Canceled ==
    /\ pc = "admit"
    /\ \/ Reply(504)
       \/ /\ pc' = "return"
          /\ here' = FALSE
          /\ UNCHANGED <<rt, routing, payload, response>>

-----------------------------------------------------------------------------
(* Forwarding.                                                             *)

\* The transport reads the body to its end, through MaxBytesReader unless
\* the peek has replaced it.
Oversized == ~getBody /\ OverCap(body, mine.maxRequestBytes, MaxInt64)

\* The transport can send the body again: there is none, or GetBody is set.
Replayable == req.length = 0 \/ getBody

\* The pooled connection to the backend turns out to be dead.  The transport
\* dials again if it can rewind the body.
StaleConnection ==
    /\ pc = "forward" /\ ~req.upgrade
    /\ interim = 0
    /\ ~Replayable
    /\ Reply(502)

\* ReverseProxy relays the interim responses of a backend, which may have
\* read only a part of the request by then.
Interim ==
    /\ pc = "forward" /\ ~req.upgrade
    /\ \E status \in {100, 103} : WriteHeader(status)
    /\ UNCHANGED <<rt, pc, routing, payload, here>>

\* ErrorHandler: the backend cannot be reached or does not answer, or the
\* body runs into the cap.
ForwardFails ==
    /\ pc = "forward" /\ ~req.upgrade
    /\ Reply(502) \/ (Oversized /\ Reply(413))

\* The backend has the request, answers, and the response is relayed.
Forward ==
    /\ pc = "forward" /\ ~req.upgrade
    /\ ~Oversized
    /\ got' = <<<<match.service, body>>>>
    /\ WriteHeader(200)
    /\ pc' = "stream"
    /\ UNCHANGED <<rt, routing, body, getBody, here>>

\* The relay ends, or is aborted with http.ErrAbortHandler, which
\* recoverPanics lets pass.
StreamEnds ==
    /\ pc = "stream"
    /\ pc' = "return"
    /\ UNCHANGED <<rt, routing, payload, response, here>>

\* Tunnel: the dial or the handshake fails, or the writer cannot be hijacked.
TunnelFails ==
    /\ pc = "forward" /\ req.upgrade
    /\ Reply(502) \/ Reply(500)

\* Hijack: the recorder notes 101, and the backend's own answer, be it a
\* refusal, is relayed as it comes.
Tunnel ==
    /\ pc = "forward" /\ req.upgrade
    /\ ~Oversized
    /\ got' = <<<<match.service, body>>>>
    /\ recorded' = [status |-> 101, written |-> TRUE]
    /\ sent' \in {101, 403}
    /\ pc' = "tunnel"
    /\ UNCHANGED <<rt, routing, body, getBody, interim, here>>

TunnelEnds ==
    /\ pc = "tunnel"
    /\ pc' = "return"
    /\ UNCHANGED <<rt, routing, payload, response, here>>

-----------------------------------------------------------------------------
(* The admin endpoints, which load the runtime a second time.              *)

Endpoint(method, tail) == req.method = method /\ req.path = <<"/", "stagehand/">> \o tail

SwapEndpoint == Len(req.path) = 4 /\ Endpoint("POST", <<"swap/", req.path[4]>>)

StopEndpoint == Len(req.path) = 5 /\ Endpoint("POST", <<"pool/", req.path[4], "/stop">>)

ReloadEndpoint == Endpoint("POST", <<"reload">>)

\* A pooled service, whose pool may have been closed since: then AdminSwap
\* answers "unknown".
AdminSwap ==
    /\ SwapEndpoint
    /\ \/ Reply(404)
       \/ /\ req.path[4] \in DOMAIN rt.services
          /\ rt.services[req.path[4]].pool # None
          /\ Reply(202)

AdminStop ==
    /\ StopEndpoint
    /\ Reply(IF req.path[4] \in DOMAIN rt.pools THEN 202 ELSE 404)

\* Mutant: a revision that does not pass validate is put in force.
AdminReloadUnchecked ==
    /\ ReloadEndpoint
    /\ rt' \in {Load(f) : f \in Files \ {Unreadable}}
    /\ WriteHeader(200)
    /\ pc' = "return"
    /\ UNCHANGED <<routing, payload, here>>

\* handleReload: the new revision is in force before the answer goes out.
AdminReload ==
    /\ ReloadEndpoint
    /\ \/ Reply(400)
       \/ /\ rt' \in Revisions
          /\ WriteHeader(200)
          /\ pc' = "return"
          /\ UNCHANGED <<routing, payload, here>>

StatusEndpoint == Endpoint("GET", <<"status">>)

\* handleStatus; its probes of the always-on services end within 3 seconds.
AdminStatus ==
    /\ StatusEndpoint
    /\ Reply(200)

AdminUnknown ==
    /\ ~(SwapEndpoint \/ StopEndpoint \/ ReloadEndpoint \/ StatusEndpoint)
    /\ Reply(404)

Admin ==
    /\ pc = "admin"
    /\ AdminStatus \/ AdminReload \/ AdminSwap \/ AdminStop \/ AdminUnknown

-----------------------------------------------------------------------------
(* The middleware.                                                         *)

\* recoverPanics: a panic anywhere in the handler, 500 unless it is too late.
Panic ==
    /\ pc \notin {"accept", "return", "done"}
    /\ Reply(500)

\* The handler is back: net/http sends 200 if nobody wrote a final status, and
\* logRequests prints the recorded one.
Return ==
    /\ pc = "return"
    /\ pc' = "done"
    /\ sent' = OrDefault(sent, 0, 200)
    /\ UNCHANGED <<rt, routing, payload, interim, recorded, here>>

\* The connection's next request is another behaviour.
Finished ==
    /\ pc = "done"
    /\ UNCHANGED vars

Next ==
    \/ Accept \/ AnswerProbe \/ AdminGate \/ ProxyGate \/ Route \/ Peek \/ PeekBroken \/ Resolve
    \/ Admitted \/ Refused \/ Canceled
    \/ StaleConnection \/ Interim \/ ForwardFails \/ Forward \/ StreamEnds
    \/ TunnelFails \/ Tunnel \/ TunnelEnds
    \/ Admin \/ Panic \/ Return \/ Reload \/ Finished

Spec == Init /\ [][Next]_vars

-----------------------------------------------------------------------------
(* What has to hold.                                                       *)

\* What a backend receives is the client's body, byte for byte, whatever was
\* buffered, replayed or streamed on the way, at every size around the peek
\* limit, the cap and the largest int64.
BodyIntact == got # << >> => got[1][2] = req.body

\* The cap is exact under the revision the request came in: no longer body
\* reaches a backend, on whichever path it is read, and no body within the
\* cap is answered 413.
CapExact ==
    LET cap == mine.maxRequestBytes IN
    /\ got # << >> /\ cap > 0 => Len(req.body) <= cap
    /\ sent = 413 => cap > 0 /\ Len(req.body) > cap

Hits == {i \in DOMAIN mine.routes : Applies(mine.routes[i], req.path, req.header)}

\* The model name a POST with a short JSON body gives.
ReadableModel ==
    IF Peekable /\ Len(req.body) \in 1 .. MaxPeekSize THEN req.model ELSE None

\* The request goes where the first route that applies sends it, by the model
\* it names if that can be read, all of it in the one revision it came in
\* under, though the route table is asked twice and a reload may come in
\* between; and it is not turned away while a route applies.
RoutedByOneRevision ==
    /\ got # << >> =>
        \E i \in Hits :
            /\ \A j \in Hits : i <= j
            /\ got[1][1] = Chosen(mine.routes[i], ReadableModel).service
    /\ pc = "resolve" /\ ~match.found => Hits = {}

\* handler.go on a route whose service is missing: "config validation prevents
\* this".
RouteTargetExists == match.found => match.service \in DOMAIN mine.services

Tunnelled == req.upgrade /\ got # << >>

\* The access log line has the first status line the client was sent, also
\* when a handler panics after the response has begun.  That is the final
\* status unless the backend sent an interim response: statusRecorder takes a
\* relayed 100 or 103 for the response's status, though 200, 413, 500 or 502
\* follows.  A tunnel is logged as 101, even if the backend refuses the
\* upgrade.
LogTruthful ==
    pc = "done" =>
        recorded.status = IF Tunnelled THEN 101 ELSE OrDefault(interim, 0, sent)

\* When the handler comes back, a client that is still listening has its
\* final status: it is not left to an implicit, empty 200, and not to an
\* interim response with nothing after it.
NeverSilent == pc = "return" /\ here => sent # 0

\* With a cap set, a body that was read for its model name can be sent again
\* after a dead keep-alive connection, the normal case after a swap.  (One
\* that was not read for it cannot, though the documentation says so of every
\* body within the cap.)
PeekedReplayable ==
    pc = "forward" /\ match.needsModel /\ Peekable /\ mine.maxRequestBytes > 0 => getBody

-----------------------------------------------------------------------------
(* What is true in every state, and makes the above inductive.             *)

Undecided == {"accept", "check", "admin", "route"}

Unanswered == Undecided \cup {"peek", "resolve", "admit", "forward"}

\* The model is read at most once, and the body survives it.
PayloadInv ==
    /\ body = req.body
    /\ pc \in Undecided \cup {"peek"} => ~getBody
    /\ getBody /\ mine.maxRequestBytes > 0 => Len(req.body) <= mine.maxRequestBytes
    /\ pc \in {"resolve", "admit", "forward"} /\ match.needsModel /\ Peekable
            /\ mine.maxRequestBytes > 0
        => getBody
    /\ got # << >> => got = <<<<match.service, req.body>>>>

\* The match is the one of the handler's own revision, for the model as far
\* as it has been read.
MatchInv ==
    /\ pc \in Undecided => match = NoMatch
    /\ pc = "peek" => /\ match = Match(mine.routes, req.path, req.header, None)
                      /\ Peekable
    /\ pc \in {"resolve", "admit", "forward"} \/ got # << >> =>
        match = Match(mine.routes, req.path, req.header, ReadableModel)
    /\ pc \in {"admit", "forward"} \/ got # << >> => match.found

\* What is recorded is the first status that goes out; only a relay sends an
\* interim one, and only a handler whose client has left comes back without
\* a final one.
ResponseInv ==
    /\ pc \in Unanswered => sent = 0 /\ got = << >>
    /\ pc \in Unanswered \ {"forward"} \/ req.upgrade => interim = 0
    /\ pc \in {"stream", "tunnel"} \/ (here /\ pc \in {"return", "done"}) => sent # 0
    /\ IF recorded.written
       THEN /\ interim # 0 \/ sent # 0
            /\ recorded.status = IF Tunnelled THEN 101 ELSE OrDefault(interim, 0, sent)
       ELSE /\ recorded.status = 200 /\ got = << >>
            /\ interim = 0 /\ sent = IF pc = "done" THEN 200 ELSE 0

Inv ==
    /\ TypeOK /\ PayloadInv /\ MatchInv /\ ResponseInv
    /\ CapExact /\ RouteTargetExists
=============================================================================
