--------------------------- MODULE GatewayProofs ----------------------------
(***************************************************************************)
(* What Gateway promises, proved for every set of files and requests.      *)
(***************************************************************************)
EXTENDS Gateway, SequenceTheorems, WellFoundedInduction, TLAPS

-----------------------------------------------------------------------------
(* The operators: int64, the peek and the route table.                     *)

LEMMA ModSmall ==
    ASSUME NEW a \in Nat, NEW n \in Nat, a < n
    PROVE  a % n = a
  OBVIOUS

\* The guarded addition does not wrap.
LEMMA ReadLimitIsNext ==
    ASSUME NEW b \in 0 .. MaxInt64
    PROVE  ReadLimit(b) = IF b < MaxInt64 THEN b + 1 ELSE b
<1>1. MaxInt64 \in Nat
  BY PeekAssumption
<1>2. CASE b < MaxInt64
  <2> DEFINE a == (b + 1) + MaxInt64 + 1
             n == 2 * (MaxInt64 + 1)
  <2>1. a \in Nat /\ n \in Nat /\ a < n
    BY <1>1, <1>2
  <2>2. a % n = a
    BY <2>1, ModSmall
  <2>3. Int64(b + 1) = b + 1
    BY <1>1, <2>2 DEF Int64
  <2> QED
    BY <1>2, <2>3 DEF ReadLimit
<1> QED
  BY <1>1, <1>2 DEF ReadLimit

LEMMA BufLimitBounds ==
    ASSUME NEW cap \in Int, cap <= MaxInt64
    PROVE  /\ BufLimit(cap) \in MaxPeekSize .. MaxInt64
           /\ cap <= BufLimit(cap)
           /\ BufLimit(cap) \in {cap, MaxPeekSize}
  BY PeekAssumption DEF BufLimit

\* What LimitReader yields, and that the rest follows it.
LEMMA LimitedPrefix ==
    ASSUME NEW s \in Seq(Nat), NEW n \in Nat
    PROVE  /\ Len(Limited(s, n)) = IF n < Len(s) THEN n ELSE Len(s)
           /\ Limited(s, n) \o SubSeq(s, Len(Limited(s, n)) + 1, Len(s)) = s
           /\ Len(s) <= n => Limited(s, n) = s
<1> DEFINE k == IF n < Len(s) THEN n ELSE Len(s)
<1>1. k \in 0 .. Len(s) /\ Len(s) \in Nat
  OBVIOUS
<1>2. Limited(s, n) = SubSeq(s, 1, k)
  BY DEF Limited
<1>3. Len(SubSeq(s, 1, k)) = k
  <2>1. \A i \in 1 .. k : s[i] \in Nat
    BY <1>1
  <2> HIDE DEF k
  <2> QED
    BY <1>1, <2>1, SubSeqProperties
<1>4. SubSeq(s, 1, k) \o SubSeq(s, k + 1, Len(s)) = SubSeq(s, 1, Len(s))
  <2> HIDE DEF k
  <2>1. 1 \in 1 .. Len(s) + 1 /\ k \in 1 - 1 .. Len(s) /\ Len(s) \in k .. Len(s)
    BY <1>1
  <2> QED
    BY <2>1, ConcatAdjacentSubSeq
<1>5. SubSeq(s, 1, Len(s)) = s
  BY SubSeqFull
<1>6. Len(s) <= n => k = Len(s)
  BY <1>1
<1>7. /\ Len(Limited(s, n)) = k
      /\ Limited(s, n) \o SubSeq(s, Len(Limited(s, n)) + 1, Len(s)) = s
      /\ Len(s) <= n => Limited(s, n) = s
  <2> HIDE DEF k
  <2> QED
    BY <1>2, <1>3, <1>4, <1>5, <1>6
<1> QED
  BY <1>7

\* PeekModel hands the body on as it is; it finds the model of a body that is
\* short enough; and what it keeps for a replay is within the cap.
LEMMA PeekModelKeeps ==
    ASSUME NEW s \in Seq(Nat), Len(s) <= MaxInt64, NEW content,
           NEW noBody \in BOOLEAN, noBody => s = << >>,
           NEW cap \in Int, cap <= MaxInt64
    PROVE  LET p == PeekModel(s, noBody, content, cap) IN
           /\ p.body = s
           /\ p.getBody \in BOOLEAN
           /\ p.model = IF Len(s) \in 1 .. MaxPeekSize THEN content ELSE None
           /\ p.getBody \/ noBody \/ Len(s) > BufLimit(cap)
<1> DEFINE b == BufLimit(cap)
           r == ReadLimit(b)
           buf == Limited(s, r)
<1>1. MaxInt64 \in Nat /\ MaxPeekSize \in 1 .. MaxInt64 - 1 /\ Len(s) \in Nat
  BY PeekAssumption
<1>2. b \in MaxPeekSize .. MaxInt64
  BY BufLimitBounds
<1>3. r = IF b < MaxInt64 THEN b + 1 ELSE b
  BY <1>1, <1>2, ReadLimitIsNext
<1>4. /\ Len(buf) = IF r < Len(s) THEN r ELSE Len(s)
      /\ buf \o SubSeq(s, Len(buf) + 1, Len(s)) = s
      /\ Len(s) <= r => buf = s
  <2>1. r \in Nat
    BY <1>1, <1>2, <1>3
  <2> HIDE DEF r
  <2> QED
    BY <2>1, LimitedPrefix
<1>5. Len(buf) > b <=> Len(s) > b
  <2> HIDE DEF b, r, buf
  <2> QED
    BY <1>1, <1>2, <1>3, <1>4
<1>6. Len(s) <= b => buf = s
  <2> HIDE DEF b, r, buf
  <2> QED
    BY <1>1, <1>2, <1>3, <1>4
<1>7. s = << >> <=> Len(s) = 0
  OBVIOUS
<1>8. PeekModel(s, noBody, content, cap) =
        IF noBody THEN Peeked(None, s, FALSE)
        ELSE IF Len(s) > b THEN Peeked(None, s, FALSE)
        ELSE Peeked(IF Len(s) \in 1 .. MaxPeekSize THEN content ELSE None, s, TRUE)
  <2>1. PeekModel(s, noBody, content, cap) =
          IF noBody THEN Peeked(None, s, FALSE)
          ELSE IF Len(buf) > b
          THEN Peeked(None, buf \o SubSeq(s, Len(buf) + 1, Len(s)), FALSE)
          ELSE Peeked(IF Len(buf) \in 1 .. MaxPeekSize THEN content ELSE None, buf, TRUE)
    BY DEF PeekModel
  <2>2. ~(Len(s) > b) => Len(s) <= b
    <3> HIDE DEF b
    <3> QED
      BY <1>1, <1>2
  <2> HIDE DEF b, r, buf
  <2>3. CASE Len(s) > b
    BY <1>4, <1>5, <2>1, <2>3
  <2>4. CASE ~(Len(s) > b)
    BY <1>5, <1>6, <2>1, <2>2, <2>4
  <2> QED
    BY <2>3, <2>4
<1> HIDE DEF b
<1> QED
  BY <1>1, <1>2, <1>7, <1>8 DEF b, Peeked

\* The peek answers 413 exactly to the bodies that are over the cap.
LEMMA PeekTooLargeExact ==
    ASSUME NEW s \in Seq(Nat), Len(s) <= MaxInt64, NEW cap \in Int, cap <= MaxInt64
    PROVE  PeekTooLarge(s, cap) <=> cap > 0 /\ Len(s) > cap
<1>1. MaxInt64 \in Nat /\ MaxPeekSize \in 1 .. MaxInt64 - 1 /\ Len(s) \in Nat
  BY PeekAssumption
<1>2. BufLimit(cap) \in MaxPeekSize .. MaxInt64 /\ cap <= BufLimit(cap)
      /\ BufLimit(cap) \in {cap, MaxPeekSize}
  BY BufLimitBounds
<1>3. ReadLimit(BufLimit(cap)) =
        IF BufLimit(cap) < MaxInt64 THEN BufLimit(cap) + 1 ELSE BufLimit(cap)
  BY <1>1, <1>2, ReadLimitIsNext
<1> QED
  BY <1>1, <1>2, <1>3 DEF PeekTooLarge, OverCap

LEMMA LeastNatural ==
    ASSUME NEW S \in SUBSET Nat, S # {}
    PROVE  \E i \in S : \A j \in S : i <= j
<1> DEFINE Less == {ss \in Nat \X Nat : ss[1] < ss[2]}
<1>1. IsWellFoundedOn(Less, Nat)
  BY NatLessThanWellFounded DEF OpToRel
<1>2. PICK i \in S : \A j \in S : ~(<<j, i>> \in Less)
  <2> HIDE DEF Less
  <2> QED
    BY <1>1, WFMin
<1>3. ASSUME NEW j \in S
      PROVE  i <= j
  <2>1. ~(<<j, i>> \in Less)
    BY <1>2
  <2>2. i \in Nat /\ j \in Nat
    OBVIOUS
  <2> QED
    BY <2>1, <2>2
<1> QED
  BY <1>3

HitsIn(routes, path, header) == {i \in DOMAIN routes : Applies(routes[i], path, header)}

\* The route that decides, whatever the model.
Decides(i, routes, path, header) ==
    /\ i \in HitsIn(routes, path, header)
    /\ \A j \in HitsIn(routes, path, header) : i <= j
    /\ \A model : Match(routes, path, header, model) = Chosen(routes[i], model)

\* Match is the first route that applies, and NoMatch only if none does.
LEMMA MatchIsFirst ==
    ASSUME NEW routes, routes \in Seq(Range(routes)), NEW path, NEW header
    PROVE  \/ /\ HitsIn(routes, path, header) = {}
              /\ \A model : Match(routes, path, header, model) = NoMatch
           \/ \E i : Decides(i, routes, path, header)
<1> DEFINE hits == HitsIn(routes, path, header)
           first == IF hits # {} THEN Min(hits) ELSE 0
<1>1. Len(routes) \in Nat /\ DOMAIN routes = 1 .. Len(routes)
  OBVIOUS
<1>2. \A model : Match(routes, path, header, model) =
        IF first = 0 THEN NoMatch ELSE Chosen(routes[first], model)
  BY <1>1 DEF Match, SelectInSeq, HitsIn
<1>3. CASE hits = {}
  BY <1>2, <1>3
<1>4. CASE hits # {}
  <2>1. hits \in SUBSET Nat /\ 0 \notin hits
    BY <1>1 DEF HitsIn
  <2>2. \E i \in hits : \A j \in hits : i <= j
    BY <1>4, <2>1, LeastNatural
  <2>3. first \in hits /\ \A j \in hits : first <= j
    BY <1>4, <2>2 DEF Min
  <2>4. Decides(first, routes, path, header)
    BY <1>2, <2>1, <2>3 DEF Decides
  <2> QED
    BY <2>4
<1> QED
  BY <1>3, <1>4

LEMMA RevisionFacts ==
    ASSUME NEW c \in Revisions
    PROVE  /\ Valid(c)
           /\ c.maxRequestBytes \in Int /\ c.maxRequestBytes <= MaxInt64
           /\ c.routes \in Seq(Range(c.routes))
  BY GatewayAssumption DEF Revisions, Loadable, Load

LEMMA RequestFacts ==
    ASSUME NEW r \in Requests
    PROVE  /\ r.body \in Seq(Nat) /\ Len(r.body) \in Nat /\ Len(r.body) <= MaxInt64
           /\ r.length \in {-1, Len(r.body)}
           /\ r.upgrade \in BOOLEAN
  BY GatewayAssumption

\* A revision that passed validate routes to services it declares; the model
\* does not change which route it is, and matters only to one with a models
\* map.
LEMMA MatchFacts ==
    ASSUME NEW c \in Revisions, NEW path, NEW header, NEW model
    PROVE  LET m == Match(c.routes, path, header, model)
               m0 == Match(c.routes, path, header, None)
           IN /\ m.found \in BOOLEAN /\ m.needsModel \in BOOLEAN
              /\ m.found => m.service \in DOMAIN c.services
              /\ m.needsModel = m0.needsModel
              /\ ~m0.needsModel => m = m0
<1> DEFINE M(any) == Match(c.routes, path, header, any)
<1>1. c.routes \in Seq(Range(c.routes))
  BY RevisionFacts
<1>2. CASE \A any : M(any) = NoMatch
  <2>1. M(model) = NoMatch /\ M(None) = NoMatch
    BY <1>2
  <2> HIDE DEF M
  <2> QED
    BY <2>1 DEF NoMatch, M
<1>3. CASE \E i : Decides(i, c.routes, path, header)
  <2>1. PICK i : Decides(i, c.routes, path, header)
    BY <1>3
  <2>2. M(model) = Chosen(c.routes[i], model) /\ M(None) = Chosen(c.routes[i], None)
    BY <2>1 DEF Decides
  <2>3. ValidRoute(c, c.routes[i])
    BY <2>1, RevisionFacts DEF Decides, HitsIn, Valid
  <2>4. Chosen(c.routes[i], model).service \in DOMAIN c.services
    BY <2>3 DEF ValidRoute, Chosen
  <2>5. DOMAIN c.routes[i].models = {} =>
            Chosen(c.routes[i], model) = Chosen(c.routes[i], None)
    BY DEF Chosen
  <2>6. \A any : /\ Chosen(c.routes[i], any).found = TRUE
                 /\ Chosen(c.routes[i], any).needsModel = (DOMAIN c.routes[i].models # {})
    BY DEF Chosen
  <2>7. /\ M(model).found = TRUE
        /\ M(model).needsModel = (DOMAIN c.routes[i].models # {})
        /\ M(None).needsModel = (DOMAIN c.routes[i].models # {})
        /\ M(model).service \in DOMAIN c.services
        /\ DOMAIN c.routes[i].models = {} => M(model) = M(None)
    <3> HIDE DEF M
    <3> QED
      BY <2>2, <2>4, <2>5, <2>6
  <2> QED
    BY <2>7, Zenon
<1> QED
  BY <1>1, <1>2, <1>3, MatchIsFirst

-----------------------------------------------------------------------------
(* The invariant, action by action.                                        *)

LEMMA Bounds ==
    ASSUME Inv
    PROVE  /\ mine \in Revisions
           /\ mine.maxRequestBytes \in Int /\ mine.maxRequestBytes <= MaxInt64
           /\ req.body \in Seq(Nat) /\ Len(req.body) \in Nat /\ Len(req.body) <= MaxInt64
           /\ req.length = -1 \/ req.length = Len(req.body)
           /\ req.upgrade \in BOOLEAN
<1>1. mine \in Revisions /\ req \in Requests
  BY DEF Inv, TypeOK
<1> QED
  BY <1>1, RevisionFacts, RequestFacts

LEMMA InitInv == Init => Inv
<1> SUFFICES ASSUME Init
             PROVE  Inv
  OBVIOUS
<1>1. /\ mine = rt /\ rt \in Revisions /\ req \in Requests
      /\ pc = "accept" /\ body = req.body /\ getBody = FALSE /\ match = NoMatch
      /\ sent = 0 /\ interim = 0 /\ recorded = [status |-> 200, written |-> FALSE]
      /\ got = << >> /\ here = TRUE
  BY DEF Init
<1>2. TypeOK
  BY <1>1, RequestFacts DEF TypeOK, NoMatch
<1>3. PayloadInv
  BY <1>1 DEF PayloadInv
<1>4. MatchInv
  BY <1>1 DEF MatchInv
<1>5. ResponseInv
  BY <1>1 DEF ResponseInv
<1>6. CapExact /\ RouteTargetExists
  BY <1>1 DEF CapExact, RouteTargetExists, NoMatch
<1> QED
  BY <1>2, <1>3, <1>4, <1>5, <1>6 DEF Inv

\* Whoever answers: the first status counts, the rest of the request is left
\* as it is.
LEMMA AnswerKeeps ==
    ASSUME Inv, NEW status \in Nat, status >= 200, WriteHeader(status), pc' = "return",
           rt' \in Revisions, UNCHANGED <<routing, payload, here>>,
           pc \notin {"accept", "return", "done"},
           status = 413 => mine.maxRequestBytes > 0 /\ Len(req.body) > mine.maxRequestBytes
    PROVE  Inv'
<1>1. /\ req' = req /\ mine' = mine /\ match' = match
      /\ body' = body /\ getBody' = getBody /\ got' = got /\ here' = here
      /\ recorded' = IF recorded.written THEN recorded
                     ELSE [status |-> status, written |-> TRUE]
      /\ sent' = (IF sent = 0 THEN status ELSE sent) /\ interim' = interim
  BY DEF WriteHeader, IsInterim, OrDefault, Record, routing, payload
<1>2. TypeOK'
  BY <1>1 DEF Inv, TypeOK
<1>3. PayloadInv'
  BY <1>1 DEF Inv, PayloadInv, Undecided, Peekable
<1>4. MatchInv'
  BY <1>1 DEF Inv, MatchInv, Undecided, ReadableModel, Peekable
<1>5. ResponseInv'
  <2>1. CASE recorded.written
    BY <1>1, <2>1 DEF Inv, TypeOK, ResponseInv, Tunnelled, OrDefault, Unanswered, Undecided
  <2>2. CASE ~recorded.written
    BY <1>1, <2>2 DEF Inv, TypeOK, ResponseInv, Tunnelled, OrDefault, Unanswered, Undecided
  <2> QED
    BY <2>1, <2>2
<1>6. CapExact'
  BY <1>1 DEF Inv, CapExact
<1>7. RouteTargetExists'
  BY <1>1 DEF Inv, RouteTargetExists
<1> QED
  BY <1>2, <1>3, <1>4, <1>5, <1>6, <1>7 DEF Inv

LEMMA ReplyKeeps ==
    ASSUME Inv, NEW status \in Nat, status >= 200, Reply(status),
           pc \notin {"accept", "return", "done"},
           status = 413 => mine.maxRequestBytes > 0 /\ Len(req.body) > mine.maxRequestBytes
    PROVE  Inv'
<1>1. /\ WriteHeader(status) /\ pc' = "return" /\ rt' = rt
      /\ UNCHANGED <<routing, payload, here>>
  BY DEF Reply
<1>2. rt' \in Revisions
  BY <1>1 DEF Inv, TypeOK
<1> QED
  BY <1>1, <1>2, AnswerKeeps

\* A step that only moves the handler on, between two places of which the
\* invariant says the same.
LEMMA MoveKeeps ==
    ASSUME Inv, NEW to, pc' = to,
           UNCHANGED <<rt, routing, payload, response, here>>,
           \/ pc = "check" /\ to \in {"admin", "route"}
           \/ pc = "resolve" /\ match.found /\ to \in {"admit", "forward"}
           \/ pc = "admit" /\ to = "forward"
           \/ pc \in {"stream", "tunnel"} /\ to = "return"
    PROVE  Inv'
<1>1. /\ rt' = rt /\ req' = req /\ mine' = mine /\ match' = match
      /\ body' = body /\ getBody' = getBody /\ got' = got /\ here' = here
      /\ recorded' = recorded /\ sent' = sent /\ interim' = interim
  BY DEF routing, payload, response
<1>2. TypeOK'
  BY <1>1 DEF Inv, TypeOK
<1>3. PayloadInv'
  BY <1>1 DEF Inv, PayloadInv, Undecided, Peekable
<1>4. MatchInv'
  BY <1>1 DEF Inv, MatchInv, Undecided, ReadableModel, Peekable
<1>5. ResponseInv'
  BY <1>1 DEF Inv, ResponseInv, Tunnelled, OrDefault, Unanswered, Undecided
<1>6. CapExact' /\ RouteTargetExists'
  BY <1>1 DEF Inv, CapExact, RouteTargetExists
<1> QED
  BY <1>2, <1>3, <1>4, <1>5, <1>6 DEF Inv

LEMMA AcceptKeeps ==
    ASSUME Inv, Accept
    PROVE  Inv'
<1>1. /\ pc = "accept" /\ pc' = "check" /\ mine' = rt
      /\ rt' = rt /\ req' = req /\ match' = match
      /\ body' = body /\ getBody' = getBody /\ got' = got /\ here' = here
      /\ recorded' = recorded /\ sent' = sent /\ interim' = interim
  BY DEF Accept, payload, response
<1>2. got = << >> /\ sent = 0 /\ getBody = FALSE /\ match = NoMatch
  BY <1>1 DEF Inv, TypeOK, ResponseInv, PayloadInv, MatchInv, Unanswered, Undecided
<1>3. TypeOK'
  BY <1>1, <1>2 DEF Inv, TypeOK
<1>4. PayloadInv'
  BY <1>1, <1>2 DEF Inv, PayloadInv
<1>5. MatchInv'
  BY <1>1, <1>2 DEF Inv, MatchInv
<1>6. ResponseInv'
  BY <1>1 DEF Inv, ResponseInv, Tunnelled, OrDefault, Unanswered, Undecided
<1>7. CapExact' /\ RouteTargetExists'
  BY <1>1, <1>2 DEF Inv, CapExact, RouteTargetExists, NoMatch
<1> QED
  BY <1>3, <1>4, <1>5, <1>6, <1>7 DEF Inv

\* A declared length is the body's, so the early 413 is right.
LEMMA GatesKeep ==
    ASSUME Inv, AnswerProbe \/ AdminGate \/ ProxyGate
    PROVE  Inv'
<1>1. pc = "check"
  BY DEF AnswerProbe, AdminGate, ProxyGate
<1>2. CASE AnswerProbe
  BY <1>1, <1>2, ReplyKeeps DEF AnswerProbe
<1>3. CASE AdminGate
  <2>1. CASE TokenOK(AdminToken(mine), req.adminToken)
    BY <1>1, <1>3, <2>1, MoveKeeps DEF AdminGate
  <2>2. CASE ~TokenOK(AdminToken(mine), req.adminToken)
    BY <1>1, <1>3, <2>2, ReplyKeeps DEF AdminGate
  <2> QED
    BY <2>1, <2>2
<1>4. CASE ProxyGate
  <2>1. CASE Reply(401)
    BY <1>1, <2>1, ReplyKeeps
  <2>2. CASE LengthRejected /\ Reply(413)
    <3>1. mine.maxRequestBytes > 0 /\ Len(req.body) > mine.maxRequestBytes
      BY <2>2, Bounds DEF LengthRejected
    <3> QED
      BY <1>1, <2>2, <3>1, ReplyKeeps
  <2>3. CASE pc' = "route" /\ UNCHANGED <<rt, routing, payload, response, here>>
    BY <1>1, <2>3, MoveKeeps
  <2> QED
    BY <1>4, <2>1, <2>2, <2>3 DEF ProxyGate
<1> QED
  BY <1>2, <1>3, <1>4

\* Without a look at the body the match is already the one for the model that
\* can be read: there is none, or it does not matter.
LEMMA RouteKeeps ==
    ASSUME Inv, Route
    PROVE  Inv'
<1> DEFINE M(any) == Match(mine.routes, req.path, req.header, any)
<1>1. /\ pc = "route"
      /\ match' = M(None)
      /\ pc' = IF match'.needsModel /\ Peekable THEN "peek" ELSE "resolve"
      /\ rt' = rt /\ req' = req /\ mine' = mine
      /\ body' = body /\ getBody' = getBody /\ got' = got /\ here' = here
      /\ recorded' = recorded /\ sent' = sent /\ interim' = interim
  BY DEF Route, payload, response
<1>2. got = << >>
  BY <1>1 DEF Inv, ResponseInv, Tunnelled, OrDefault, Unanswered, Undecided
<1>3. /\ M(None).found \in BOOLEAN /\ M(None).needsModel \in BOOLEAN
      /\ M(None).found => M(None).service \in DOMAIN mine.services
      /\ ~M(None).needsModel => M(ReadableModel) = M(None)
  <2>1. mine \in Revisions
    BY DEF Inv, TypeOK
  <2> QED
    BY <2>1, MatchFacts
<1>4. ~Peekable => ReadableModel = None
  BY DEF ReadableModel
<1>5. Peekable' = Peekable /\ ReadableModel' = ReadableModel
  BY <1>1 DEF Peekable, ReadableModel
<1>6. CASE M(None).needsModel /\ Peekable
  <2>1. pc' = "peek"
    BY <1>1, <1>6
  <2>2. TypeOK'
    BY <1>1, <1>3, <2>1 DEF Inv, TypeOK
  <2>3. PayloadInv'
    BY <1>1, <1>2, <2>1 DEF Inv, PayloadInv, Undecided
  <2>4. MatchInv'
    BY <1>1, <1>2, <1>5, <1>6, <2>1 DEF MatchInv, Undecided
  <2>5. ResponseInv'
    BY <1>1, <2>1 DEF Inv, ResponseInv, Tunnelled, OrDefault, Unanswered, Undecided
  <2>6. CapExact' /\ RouteTargetExists'
    BY <1>1, <1>2, <1>3 DEF Inv, CapExact, RouteTargetExists
  <2> QED
    BY <2>2, <2>3, <2>4, <2>5, <2>6 DEF Inv
<1>7. CASE ~(M(None).needsModel /\ Peekable)
  <2>1. pc' = "resolve"
    BY <1>1, <1>7
  <2>2. TypeOK'
    BY <1>1, <1>3, <2>1 DEF Inv, TypeOK
  <2>3. PayloadInv'
    BY <1>1, <1>2, <1>5, <1>7, <2>1 DEF Inv, PayloadInv, Undecided
  <2>4. MatchInv'
    <3>1. M(ReadableModel) = M(None)
      BY <1>3, <1>4, <1>7
    <3> QED
      BY <1>1, <1>2, <1>5, <2>1, <3>1 DEF MatchInv, Undecided
  <2>5. ResponseInv'
    BY <1>1, <2>1 DEF Inv, ResponseInv, Tunnelled, OrDefault, Unanswered, Undecided
  <2>6. CapExact' /\ RouteTargetExists'
    BY <1>1, <1>2, <1>3 DEF Inv, CapExact, RouteTargetExists
  <2> QED
    BY <2>2, <2>3, <2>4, <2>5, <2>6 DEF Inv
<1> QED
  BY <1>6, <1>7

\* The body survives the peek, what is kept for a replay is within the cap,
\* and the second match is the one for the model that can be read.
LEMMA PeekKeeps ==
    ASSUME Inv, Peek
    PROVE  Inv'
<1> DEFINE p == PeekModel(req.body, NoBody, req.model, mine.maxRequestBytes)
           cap == mine.maxRequestBytes
           M(any) == Match(mine.routes, req.path, req.header, any)
<1>1. pc = "peek" /\ Peekable /\ match = M(None) /\ got = << >>
  BY DEF Peek, Inv, MatchInv, ResponseInv, Tunnelled, OrDefault, Unanswered, Undecided
<1>2. PeekTooLarge(req.body, cap) <=> cap > 0 /\ Len(req.body) > cap
  BY Bounds, PeekTooLargeExact
<1>3. CASE PeekTooLarge(req.body, cap)
  <2>1. Reply(413)
    BY <1>3 DEF Peek
  <2> QED
    BY <1>1, <1>2, <1>3, <2>1, ReplyKeeps
<1>4. CASE ~PeekTooLarge(req.body, cap)
  <2>1. /\ pc' = "resolve" /\ body' = p.body /\ getBody' = p.getBody
        /\ match' = IF p.model = None THEN match ELSE M(p.model)
        /\ rt' = rt /\ req' = req /\ mine' = mine /\ got' = got /\ here' = here
        /\ recorded' = recorded /\ sent' = sent /\ interim' = interim
    BY <1>4 DEF Peek, Rematch, response
  <2>2. /\ p.body = req.body
        /\ p.getBody \in BOOLEAN
        /\ p.model = IF Len(req.body) \in 1 .. MaxPeekSize THEN req.model ELSE None
        /\ p.getBody \/ NoBody \/ Len(req.body) > BufLimit(cap)
    <3>1. NoBody \in BOOLEAN /\ (NoBody => req.body = << >>)
      BY Bounds DEF NoBody
    <3> HIDE DEF p
    <3> QED
      BY <3>1, Bounds, PeekModelKeeps DEF p
  <2>3. p.model = ReadableModel
    BY <1>1, <2>2 DEF ReadableModel
  <2>4. match' = M(ReadableModel)
    BY <1>1, <2>1, <2>3
  <2>5. /\ M(ReadableModel).found \in BOOLEAN /\ M(ReadableModel).needsModel \in BOOLEAN
        /\ M(ReadableModel).found => M(ReadableModel).service \in DOMAIN mine.services
    BY Bounds, MatchFacts
  <2>6. Peekable' = Peekable /\ ReadableModel' = ReadableModel
    BY <2>1 DEF Peekable, ReadableModel
  <2>7. cap > 0 => Len(req.body) <= cap
    BY <1>2, <1>4, Bounds
  <2>8. cap > 0 => p.getBody
    <3>1. BufLimit(cap) \in Int /\ cap <= BufLimit(cap)
      BY PeekAssumption, Bounds, BufLimitBounds
    <3> HIDE DEF p
    <3> QED
      BY <2>2, <2>7, <3>1, Bounds DEF NoBody
  <2> HIDE DEF p, M
  <2>9. TypeOK'
    BY <2>1, <2>2, <2>4, <2>5, Bounds DEF Inv, TypeOK
  <2>10. PayloadInv'
    BY <1>1, <2>1, <2>2, <2>7, <2>8 DEF PayloadInv, Undecided
  <2>11. MatchInv'
    BY <1>1, <2>1, <2>4, <2>6 DEF MatchInv, Undecided, M
  <2>12. ResponseInv'
    BY <1>1, <2>1 DEF Inv, ResponseInv, Tunnelled, OrDefault, Unanswered, Undecided
  <2>13. CapExact' /\ RouteTargetExists'
    BY <1>1, <2>1, <2>4, <2>5 DEF Inv, CapExact, RouteTargetExists
  <2> QED
    BY <2>9, <2>10, <2>11, <2>12, <2>13 DEF Inv
<1> QED
  BY <1>3, <1>4

LEMMA ResolveKeeps ==
    ASSUME Inv, PeekBroken \/ Resolve
    PROVE  Inv'
<1>1. CASE PeekBroken
  BY <1>1, ReplyKeeps DEF PeekBroken
<1>2. CASE Resolve /\ ~match.found
  BY <1>2, ReplyKeeps DEF Resolve
<1>3. CASE Resolve /\ match.found /\ match.service \notin DOMAIN mine.services
  BY <1>3, ReplyKeeps DEF Resolve
<1>4. CASE Resolve /\ match.found /\ match.service \in DOMAIN mine.services
  <2>1. /\ pc = "resolve"
        /\ pc' = "forward" \/ pc' = "admit"
        /\ UNCHANGED <<rt, routing, payload, response, here>>
    BY <1>4 DEF Resolve
  <2> QED
    BY <1>4, <2>1, MoveKeeps
<1> QED
  BY <1>1, <1>2, <1>3, <1>4

\* A handler that comes back without an answer has lost its client.
LEMMA AdmissionKeeps ==
    ASSUME Inv, Admitted \/ Refused \/ Canceled
    PROVE  Inv'
<1>1. CASE Admitted
  BY <1>1, MoveKeeps DEF Admitted
<1>2. CASE Refused
  <2>1. PICK res \in DOMAIN AdmitStatus : pc = "admit" /\ Reply(AdmitStatus[res])
    BY <1>2 DEF Refused
  <2>2. AdmitStatus[res] \in {429, 502, 504, 503}
    BY DEF AdmitStatus
  <2>3. AdmitStatus[res] \in Nat /\ AdmitStatus[res] >= 200 /\ AdmitStatus[res] # 413
    BY <2>2
  <2> HIDE DEF AdmitStatus
  <2> QED
    BY <2>1, <2>3, ReplyKeeps
<1>3. CASE Canceled /\ Reply(504)
  BY <1>3, ReplyKeeps DEF Canceled
<1>4. CASE Canceled /\ ~Reply(504)
  <2>1. /\ pc = "admit" /\ pc' = "return" /\ here' = FALSE
        /\ rt' = rt /\ req' = req /\ mine' = mine /\ match' = match
        /\ body' = body /\ getBody' = getBody /\ got' = got
        /\ recorded' = recorded /\ sent' = sent /\ interim' = interim
    BY <1>4 DEF Canceled, routing, payload, response
  <2>2. TypeOK'
    BY <2>1 DEF Inv, TypeOK
  <2>3. PayloadInv'
    BY <2>1 DEF Inv, PayloadInv, Undecided, Peekable
  <2>4. MatchInv'
    BY <2>1 DEF Inv, MatchInv, Undecided, ReadableModel, Peekable
  <2>5. ResponseInv'
    BY <2>1 DEF Inv, ResponseInv, Tunnelled, OrDefault, Unanswered, Undecided
  <2>6. CapExact' /\ RouteTargetExists'
    BY <2>1 DEF Inv, CapExact, RouteTargetExists
  <2> QED
    BY <2>2, <2>3, <2>4, <2>5, <2>6 DEF Inv
<1> QED
  BY <1>1, <1>2, <1>3, <1>4

\* Buffered or streamed, what is over the cap does not go through, and only
\* that runs into it.
LEMMA OversizedExact ==
    ASSUME Inv, pc = "forward"
    PROVE  IF Oversized THEN mine.maxRequestBytes > 0 /\ Len(req.body) > mine.maxRequestBytes
                        ELSE mine.maxRequestBytes > 0 => Len(req.body) <= mine.maxRequestBytes
<1>1. /\ body = req.body
      /\ getBody /\ mine.maxRequestBytes > 0 => Len(req.body) <= mine.maxRequestBytes
  BY DEF Inv, PayloadInv
<1>2. MaxInt64 \in Nat
  BY PeekAssumption
<1> QED
  BY <1>1, <1>2, Bounds DEF Oversized, OverCap

\* The backend gets the request, and the status line is out.
LEMMA ForwardKeeps ==
    ASSUME Inv, Forward \/ Tunnel
    PROVE  Inv'
<1>1. /\ pc = "forward" /\ ~Oversized
      /\ got' = <<<<match.service, body>>>>
      /\ rt' = rt /\ req' = req /\ mine' = mine /\ match' = match
      /\ body' = body /\ getBody' = getBody /\ here' = here
  BY DEF Forward, Tunnel, routing
<1>2. /\ sent = 0 /\ got = << >>
      /\ body = req.body /\ match.found
      /\ match = Match(mine.routes, req.path, req.header, ReadableModel)
  BY <1>1 DEF Inv, TypeOK, ResponseInv, PayloadInv, MatchInv, Unanswered
<1>3. \/ /\ ~req.upgrade /\ pc' = "stream"
         /\ sent' = 200 /\ interim' = interim
         /\ recorded' = IF recorded.written THEN recorded
                        ELSE [status |-> 200, written |-> TRUE]
      \/ /\ req.upgrade /\ pc' = "tunnel"
         /\ sent' \in {101, 403} /\ interim' = interim
         /\ recorded' = [status |-> 101, written |-> TRUE]
  BY <1>2 DEF Forward, Tunnel, WriteHeader, IsInterim, OrDefault, Record
<1>4. got' # << >> /\ got'[1] = <<match.service, req.body>>
  BY <1>1, <1>2
<1>5. match.service \in DOMAIN mine.services
  BY <1>2 DEF Inv, RouteTargetExists
<1>6. TypeOK'
  <2>1. got'[1] \in (DOMAIN mine'.services) \X Seq(Nat)
    BY <1>1, <1>4, <1>5, Bounds
  <2>2. pc' \in {"stream", "tunnel"} /\ sent' \in Nat
        /\ recorded' \in [status : Nat, written : BOOLEAN] /\ interim' \in Nat
    <3>1. recorded \in [status : Nat, written : BOOLEAN] /\ interim \in Nat
      BY DEF Inv, TypeOK
    <3>2. CASE req.upgrade
      <4>1. /\ pc' = "tunnel" /\ sent' \in {101, 403} /\ interim' = interim
            /\ recorded' = [status |-> 101, written |-> TRUE]
        BY <1>3, <3>2, Zenon
      <4> QED
        BY <3>1, <4>1
    <3>3. CASE ~req.upgrade /\ recorded.written
      BY <1>3, <3>1, <3>3
    <3>4. CASE ~req.upgrade /\ ~recorded.written
      <4>1. /\ pc' = "stream" /\ sent' = 200 /\ interim' = interim
            /\ recorded' = [status |-> 200, written |-> TRUE]
        BY <1>3, <3>4, Zenon
      <4> QED
        BY <3>1, <4>1
    <3> QED
      BY <3>2, <3>3, <3>4
  <2> QED
    BY <1>1, <2>1, <2>2 DEF Inv, TypeOK
<1>7. PayloadInv'
  BY <1>1, <1>2, <1>3 DEF Inv, PayloadInv, Undecided
<1>8. MatchInv'
  BY <1>1, <1>2, <1>3 DEF MatchInv, Undecided, ReadableModel, Peekable
<1>9. ResponseInv'
  <2>1. CASE ~req.upgrade
    BY <1>1, <1>2, <1>3, <1>4, <2>1
    DEF Inv, TypeOK, ResponseInv, Tunnelled, OrDefault, Unanswered, Undecided
  <2>2. CASE req.upgrade
    BY <1>1, <1>2, <1>3, <1>4, <2>2
    DEF Inv, TypeOK, ResponseInv, Tunnelled, OrDefault, Unanswered, Undecided
  <2> QED
    BY <2>1, <2>2
<1>10. CapExact'
  BY <1>1, <1>3, OversizedExact DEF CapExact
<1>11. RouteTargetExists'
  BY <1>1 DEF Inv, RouteTargetExists
<1> QED
  BY <1>6, <1>7, <1>8, <1>9, <1>10, <1>11 DEF Inv

\* An interim response is recorded if it is the first, and decides nothing.
LEMMA InterimKeeps ==
    ASSUME Inv, Interim
    PROVE  Inv'
<1>1. PICK status \in {100, 103} : WriteHeader(status)
  BY DEF Interim
<1>2. /\ pc = "forward" /\ ~req.upgrade /\ pc' = pc
      /\ rt' = rt /\ req' = req /\ mine' = mine /\ match' = match
      /\ body' = body /\ getBody' = getBody /\ got' = got /\ here' = here
      /\ sent' = sent
      /\ interim' = IF interim = 0 THEN status ELSE interim
      /\ recorded' = IF recorded.written THEN recorded
                     ELSE [status |-> status, written |-> TRUE]
  <2>1. IsInterim(status)
    BY DEF IsInterim
  <2> QED
    BY <1>1, <2>1 DEF Interim, WriteHeader, OrDefault, Record, routing, payload
<1>3. TypeOK'
  <2>1. interim' \in Nat /\ recorded' \in [status : Nat, written : BOOLEAN]
    BY <1>2 DEF Inv, TypeOK
  <2> QED
    BY <1>2, <2>1 DEF Inv, TypeOK
<1>4. PayloadInv' /\ MatchInv' /\ CapExact' /\ RouteTargetExists'
  BY <1>2 DEF Inv, PayloadInv, MatchInv, CapExact, RouteTargetExists, ReadableModel, Peekable
<1>5. ResponseInv'
  <2>1. sent = 0 /\ got = << >>
    BY <1>2 DEF Inv, ResponseInv, Unanswered
  <2>2. CASE recorded.written
    BY <1>2, <2>1, <2>2
    DEF Inv, TypeOK, ResponseInv, Tunnelled, OrDefault, Unanswered, Undecided
  <2>3. CASE ~recorded.written
    BY <1>2, <2>1, <2>3
    DEF Inv, TypeOK, ResponseInv, Tunnelled, OrDefault, Unanswered, Undecided
  <2> QED
    BY <2>2, <2>3
<1> QED
  BY <1>3, <1>4, <1>5 DEF Inv

LEMMA RelayKeeps ==
    ASSUME Inv, StaleConnection \/ ForwardFails \/ TunnelFails \/ StreamEnds \/ TunnelEnds
    PROVE  Inv'
<1>1. CASE StaleConnection
  BY <1>1, ReplyKeeps DEF StaleConnection
<1>2. CASE ForwardFails
  <2>1. CASE Oversized /\ Reply(413)
    BY <1>2, <2>1, OversizedExact, ReplyKeeps DEF ForwardFails
  <2>2. CASE Reply(502)
    BY <1>2, <2>2, ReplyKeeps DEF ForwardFails
  <2> QED
    BY <1>2, <2>1, <2>2 DEF ForwardFails
<1>3. CASE TunnelFails
  BY <1>3, ReplyKeeps DEF TunnelFails
<1>4. CASE StreamEnds
  BY <1>4, MoveKeeps DEF StreamEnds
<1>5. CASE TunnelEnds
  BY <1>5, MoveKeeps DEF TunnelEnds
<1> QED
  BY <1>1, <1>2, <1>3, <1>4, <1>5

LEMMA AdminKeeps ==
    ASSUME Inv, Admin
    PROVE  Inv'
<1>1. pc = "admin"
  BY DEF Admin
<1>2. CASE Reply(200) \/ Reply(202) \/ Reply(400) \/ Reply(404)
  BY <1>1, <1>2, ReplyKeeps
<1>3. CASE rt' \in Revisions /\ WriteHeader(200) /\ pc' = "return"
            /\ UNCHANGED <<routing, payload, here>>
  BY <1>1, <1>3, AnswerKeeps
<1> QED
  BY <1>2, <1>3 DEF Admin, AdminStatus, AdminReload, AdminSwap, AdminStop, AdminUnknown

\* net/http's implicit 200 goes out only where nothing was written.
LEMMA MiddlewareKeeps ==
    ASSUME Inv, Panic \/ Return
    PROVE  Inv'
<1>1. CASE Panic
  BY <1>1, ReplyKeeps DEF Panic
<1>2. CASE Return
  <2>1. /\ pc = "return" /\ pc' = "done"
        /\ sent' = IF sent = 0 THEN 200 ELSE sent
        /\ rt' = rt /\ req' = req /\ mine' = mine /\ match' = match
        /\ body' = body /\ getBody' = getBody /\ got' = got
        /\ interim' = interim /\ recorded' = recorded /\ here' = here
    BY <1>2 DEF Return, OrDefault, routing, payload
  <2>2. TypeOK'
    BY <2>1 DEF Inv, TypeOK
  <2>3. PayloadInv'
    BY <2>1 DEF Inv, PayloadInv, Undecided, Peekable
  <2>4. MatchInv'
    BY <2>1 DEF Inv, MatchInv, Undecided, ReadableModel, Peekable
  <2>5. ResponseInv'
    BY <2>1 DEF Inv, ResponseInv, Tunnelled, OrDefault, Unanswered, Undecided
  <2>6. CapExact' /\ RouteTargetExists'
    BY <2>1 DEF Inv, CapExact, RouteTargetExists
  <2> QED
    BY <2>2, <2>3, <2>4, <2>5, <2>6 DEF Inv
<1> QED
  BY <1>1, <1>2

\* A reload changes what later requests see, and nothing of this one.
LEMMA ReloadKeeps ==
    ASSUME Inv, Reload \/ UNCHANGED vars
    PROVE  Inv'
<1>1. /\ pc' = pc /\ req' = req /\ mine' = mine /\ match' = match
      /\ body' = body /\ getBody' = getBody /\ got' = got /\ here' = here
      /\ recorded' = recorded /\ sent' = sent /\ interim' = interim
      /\ rt' = rt \/ rt' \in Revisions
  BY DEF Reload, vars, routing, payload, response
<1>2. TypeOK'
  BY <1>1 DEF Inv, TypeOK
<1>3. PayloadInv' /\ MatchInv' /\ ResponseInv' /\ CapExact' /\ RouteTargetExists'
  BY <1>1 DEF Inv, PayloadInv, MatchInv, ResponseInv, Tunnelled, CapExact, RouteTargetExists,
              ReadableModel, Peekable
<1> QED
  BY <1>2, <1>3 DEF Inv

LEMMA StepKeepsInv == Inv /\ [Next]_vars => Inv'
<1> SUFFICES ASSUME Inv, [Next]_vars
             PROVE  Inv'
  OBVIOUS
<1> QED
  BY AcceptKeeps, GatesKeep, RouteKeeps, PeekKeeps, ResolveKeeps, AdmissionKeeps, ForwardKeeps,
     InterimKeeps, RelayKeeps, AdminKeeps, MiddlewareKeeps, ReloadKeeps
  DEF Next, Finished

-----------------------------------------------------------------------------
(* What follows.                                                           *)

\* Every state the handler and a concurrent reload reach satisfies the
\* inductive invariant: where the handler is fixes how much of the request is
\* known, kept and answered.
THEOREM InvHolds == Spec => []Inv
  BY InitInv, StepKeepsInv, PTL DEF Spec

\* Every variable keeps its type; the runtime pointer and the handler's copy
\* of it are always revisions that validate accepted.
THEOREM TypeCorrect == Spec => []TypeOK
<1>1. Inv => TypeOK
  BY DEF Inv
<1> QED
  BY <1>1, InvHolds, PTL

\* Peeking, buffering and streaming (PeekModel, Forward, Tunnel) hand the
\* backend the client's body byte for byte, for every limit and every length.
THEOREM BodiesIntact == Spec => []BodyIntact
<1>1. Inv => BodyIntact
  BY DEF Inv, PayloadInv, BodyIntact
<1> QED
  BY <1>1, InvHolds, PTL

\* max_request_bytes is exact on all three paths that enforce it: the declared
\* length, the peek, and the transport's read through MaxBytesReader.
THEOREM CapIsExact == Spec => []CapExact
<1>1. Inv => CapExact
  BY DEF Inv
<1> QED
  BY <1>1, InvHolds, PTL

\* A matched route names a declared service: the handler's 500 for a missing
\* one is never reached.
THEOREM TargetsExist == Spec => []RouteTargetExists
<1>1. Inv => RouteTargetExists
  BY DEF Inv
<1> QED
  BY <1>1, InvHolds, PTL

\* The request goes to the service of the first route that applies, by the
\* readable model, all in the revision loaded at the start, whatever reloads
\* come between the two calls of Match.
THEOREM RoutedInOneRevision == Spec => []RoutedByOneRevision
<1>1. Inv => RoutedByOneRevision
  <2> SUFFICES ASSUME Inv
               PROVE  RoutedByOneRevision
    OBVIOUS
  <2> DEFINE M == Match(mine.routes, req.path, req.header, ReadableModel)
  <2>1. mine.routes \in Seq(Range(mine.routes))
    BY Bounds, RevisionFacts
  <2>2. HitsIn(mine.routes, req.path, req.header) = Hits
    BY DEF HitsIn, Hits
  <2>3. got # << >> => /\ match = M /\ match.found
                      /\ got[1][1] = match.service
    BY DEF Inv, PayloadInv, MatchInv
  <2>4. pc = "resolve" => match = M
    BY DEF Inv, MatchInv
  <2>5. CASE Hits = {} /\ M = NoMatch
    <3>1. ~M.found
      BY <2>5 DEF NoMatch
    <3> HIDE DEF M
    <3> QED
      BY <2>3, <2>5, <3>1 DEF RoutedByOneRevision
  <2>6. CASE \E i : Decides(i, mine.routes, req.path, req.header)
    <3>1. PICK i : Decides(i, mine.routes, req.path, req.header)
      BY <2>6
    <3>2. /\ i \in Hits /\ \A j \in Hits : i <= j
          /\ M = Chosen(mine.routes[i], ReadableModel)
      BY <2>2, <3>1 DEF Decides
    <3>3. M.found
      BY <3>2 DEF Chosen
    <3> HIDE DEF M
    <3>4. pc = "resolve" => match.found
      BY <2>4, <3>3
    <3>5. got # << >> => got[1][1] = Chosen(mine.routes[i], ReadableModel).service
      BY <2>3, <3>2
    <3> QED
      BY <3>2, <3>4, <3>5 DEF RoutedByOneRevision
  <2> QED
    BY <2>1, <2>2, <2>5, <2>6, MatchIsFirst
<1> QED
  BY <1>1, InvHolds, PTL

\* What logRequests prints is the first status line on the wire, whoever
\* answered and wherever the handler panicked: the final status if no interim
\* response was relayed before it, and else that interim one.
THEOREM LogIsTruthful == Spec => []LogTruthful
<1>1. Inv => LogTruthful
  BY DEF Inv, TypeOK, ResponseInv, LogTruthful, Tunnelled, OrDefault
<1> QED
  BY <1>1, InvHolds, PTL

\* Every path of the handler writes a final status, but for the one on which
\* AdmitCanceled finds the client gone; an interim response is never the last
\* word.
THEOREM NobodyIgnored == Spec => []NeverSilent
<1>1. Inv => NeverSilent
  BY DEF Inv, ResponseInv, NeverSilent
<1> QED
  BY <1>1, InvHolds, PTL

\* With a cap, bufLimit is at least the cap, so whatever passes the peek is
\* buffered whole and GetBody is set when the transport may need it.
THEOREM PeekedCanBeReplayed == Spec => []PeekedReplayable
<1>1. Inv => PeekedReplayable
  BY DEF Inv, PayloadInv, PeekedReplayable
<1> QED
  BY <1>1, InvHolds, PTL
=============================================================================
