----------------------------- MODULE OpRegistry -----------------------------
(***************************************************************************)
(* opRegistry (orchestrator/events.go): per container, the latest          *)
(* operation StageHand itself announced and how many events it still       *)
(* explains.  The events watcher asks it whether an event is self-made.    *)
(***************************************************************************)
EXTENDS Docker

CONSTANT OpTTL   \* opTTL, in ticks of the model's clock

ASSUME OpTTLAssumption == OpTTL \in Nat

VARIABLE entries

NoEntry == [kind |-> "none", remaining |-> 0, age |-> 0]

Entry == [kind : {"none", "start", "stop"}, remaining : Nat, age : Nat]

RegistryType == entries \in [Services -> Entry]

RegistryInit == entries = [c \in Services |-> NoEntry]

\* A stop is expected to be reported by a kill + die + stop burst.
Expect(c, kind) ==
    entries' = [entries EXCEPT ![c] =
        [kind |-> kind, remaining |-> IF kind = "stop" THEN 3 ELSE 1, age |-> 0]]

Matches(e, action) ==
    \/ e.kind = "stop"  /\ action \in {"die", "stop", "kill"}
    \/ e.kind = "start" /\ action = "start"

IsExpected(c, action) == Matches(entries[c], action)

\* What isExpected leaves behind: a matching entry loses a unit, and is
\* deleted with its last one.
Consume(c, action) ==
    LET e == entries[c] IN
    entries' = [entries EXCEPT ![c] =
        IF ~Matches(e, action) THEN e
        ELSE IF e.remaining <= 1 THEN NoEntry
        ELSE [e EXCEPT !.remaining = @ - 1]]

\* Time passes.  isExpected deletes an entry it finds past its TTL and goes
\* on as if there were none, so here the entry goes when its time is over.
AgeEntries ==
    entries' = [c \in Services |->
        IF entries[c].kind = "none" \/ entries[c].age >= OpTTL THEN NoEntry
        ELSE [entries[c] EXCEPT !.age = @ + 1]]
=============================================================================
