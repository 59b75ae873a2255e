------------------------------ MODULE BodyPeek ------------------------------
(***************************************************************************)
(* PeekModel (proxy/bodypeek.go).  A body is the sequence of its bytes;    *)
(* int64 is scaled down to -MaxInt64 - 1 .. MaxInt64 and wraps around.     *)
(* maxBuffer is the configured request cap, which http.MaxBytesReader      *)
(* enforces on the same body; 0 is no cap.                                 *)
(***************************************************************************)
EXTENDS Router

CONSTANTS
    MaxInt64,      \* the largest int64
    MaxPeekSize    \* bodies up to this size are searched for a model name

ASSUME PeekAssumption == MaxInt64 \in Nat /\ MaxPeekSize \in 1 .. MaxInt64 - 1

Int64(n) == ((n + MaxInt64 + 1) % (2 * (MaxInt64 + 1))) - (MaxInt64 + 1)

\* Mutant: the cap does not raise the ceiling.
BufLimitFixed(maxBuffer) == MaxPeekSize

BufLimit(maxBuffer) == IF maxBuffer > MaxPeekSize THEN maxBuffer ELSE MaxPeekSize

\* Mutant: the addition may wrap.
ReadLimitUnguarded(bufLimit) == Int64(bufLimit + 1)

\* One byte past the limit, so that an over-limit body is noticed.
ReadLimit(bufLimit) == IF bufLimit < MaxInt64 THEN Int64(bufLimit + 1) ELSE bufLimit

\* io.LimitReader: the first n bytes, none if n is negative.
Limited(body, n) == SubSeq(body, 1, IF n < Len(body) THEN n ELSE Len(body))

\* http.MaxBytesReader: does reading n bytes run into the cap?
OverCap(body, cap, n) == cap > 0 /\ Len(body) > cap /\ n > cap

\* What PeekModel leaves: the model it found, the body the backend will be
\* sent, and whether GetBody is set.
Peeked(model, body, getBody) == [model |-> model, body |-> body, getBody |-> getBody]

\* PeekModel where every read succeeds; noBody says that the request has
\* http.NoBody, content is the "model" field the body has, None if it is no
\* JSON or has none.
PeekModel(body, noBody, content, maxBuffer) ==
    LET bufLimit == BufLimit(maxBuffer)
        buf      == Limited(body, ReadLimit(bufLimit))
        rest     == SubSeq(body, Len(buf) + 1, Len(body))
    IN IF noBody THEN Peeked(None, body, FALSE)
       ELSE IF Len(buf) > bufLimit THEN Peeked(None, buf \o rest, FALSE)
       ELSE Peeked(IF Len(buf) \in 1 .. MaxPeekSize THEN content ELSE None, buf, TRUE)

PeekTooLarge(body, maxBuffer) == OverCap(body, maxBuffer, ReadLimit(BufLimit(maxBuffer)))
=============================================================================
