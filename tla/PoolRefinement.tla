--------------------------- MODULE PoolRefinement ---------------------------
(***************************************************************************)
(* The pool, with its queues, timers, workers and Docker events, keeps     *)
(* what PoolService promises: the refinement of module Pool, for every     *)
(* value of the constants.                                                 *)
(***************************************************************************)
EXTENDS PoolProofs

\* What Admit has returned agrees with what the manager has decided: a
\* request still in Admit has no result and one that has not come yet no
\* service, who was let through is not refused afterwards, and who was let
\* through by the fast path is in no queue.
ResultInv ==
    /\ \A r \in Reqs : phase[r] # "done" => result[r] = "none"
    /\ \A r \in Reqs : phase[r] = "idle" => svc[r] = None
    /\ \A r \in Reqs : result[r] = "Go" => reply[r] = << >> \/ Head(reply[r]) = "Go"
    /\ \A s \in Services : \A w \in queue[s] : result[w.req] # "Go"

Serving == IF state = "ACTIVE" THEN active ELSE None

\* The old service is given up before the next one is served.
Switches == Serving' # Serving => None \in {Serving, Serving'}

\* The manager answers only who waits, and "Go" only to who waits for the
\* service that is active now.
Answered(r) ==
    \/ reply'[r] = reply[r]
    \/ \E s \in Services, res \in Results :
        /\ \E w \in queue[s] : w.req = r
        /\ reply'[r] = Append(reply[r], res)
        /\ res = "Go" => state' = "ACTIVE" /\ active' = s

AnswersQueued ==
    /\ \A s \in Services : queue'[s] \subseteq queue[s]
    /\ \A r \in Reqs : Answered(r)

-----------------------------------------------------------------------------
(* What a step of the manager decides.                                     *)

\* flush answers those it removes.
LEMMA FlushAnswers ==
    ASSUME TypeOK, NEW S \in SUBSET Services, NEW res \in Results, Flush(S, res),
           res = "Go" => state' = "ACTIVE" /\ S = {active'}
    PROVE  AnswersQueued
<1>1. \A s \in Services : queue'[s] = IF s \in S THEN {} ELSE queue[s]
  BY DEF Flush, Flushed
<1>2. ASSUME NEW r \in Reqs PROVE Answered(r)
  <2>1. CASE \E s \in S : \E w \in queue[s] : w.req = r
    <3>1. PICK s \in S : \E w \in queue[s] : w.req = r
      BY <2>1
    <3>2. reply'[r] = Append(reply[r], res)
      BY <2>1 DEF Flush
    <3>3. res = "Go" => state' = "ACTIVE" /\ active' = s
      BY <3>1
    <3> QED
      BY <3>1, <3>2, <3>3 DEF Answered
  <2>2. CASE ~\E s \in S : \E w \in queue[s] : w.req = r
    BY <2>2 DEF Flush, Answered
  <2> QED
    BY <2>1, <2>2
<1> QED
  BY <1>1, <1>2 DEF AnswersQueued

\* Who leaves the queues alone decides nothing.
LEMMA NothingAnswered ==
    ASSUME UNCHANGED <<queue, reply>>
    PROVE  AnswersQueued
BY DEF AnswersQueued, Answered

\* startSwap, startStopAll and the transitions to IDLE and ERROR serve
\* nobody.
LEMMA StartServesNobody ==
    ASSUME NEW s, NEW ws, StartSwap(s, ws)
    PROVE  Serving' = None
BY DEF StartSwap, Become, Serving

\* The report of the current worker finds a pool that serves nobody.
LEMMA CurrentReport ==
    ASSUME TypeOK, WorkerInv, NEW w \in workers, Reported(w), w.op = opSeq
    PROVE  state = "SWAPPING" /\ Serving = None
BY CurrentWorker DEF Serving

\* Every step of the manager answers only who waits, says "Go" only for the
\* service that is active, and passes from one service to the next through
\* none.
LEMMA ManagerDecides ==
    ASSUME TypeOK, WorkerInv, ChainInv, ManagerNext
    PROVE  AnswersQueued /\ Switches
<1>0. /\ {"Go", "DockerError", "StartupTimeout", "Shutdown"} \subseteq Results
      /\ Services \in SUBSET Services
      /\ "Shutdown" # "Go" /\ "DockerError" # "Go" /\ "StartupTimeout" # "Go"
  BY DEF Results
<1>1. ASSUME NEW w \in workers, HandleSwap(w) PROVE AnswersQueued /\ Switches
  <2>1. CASE StaleReport(w)
    BY <2>1, NothingAnswered DEF StaleReport, managerVars, queueVars, phaseVars, Switches, Serving
  <2>2. CASE PoolStopped(w)
    <3>1. Serving = None
      BY <2>2, CurrentReport DEF PoolStopped
    <3> QED
      BY <2>2, <3>1, NothingAnswered DEF PoolStopped, queueVars, Switches
  <2>3. CASE SwapComplete(w) \/ SwapFailed(w) \/ SwapHealthTimeout(w)
    <3>1. Serving = None
      BY <2>3, CurrentReport DEF SwapComplete, SwapFailed, SwapHealthTimeout
    <3>2. {w.target} \in SUBSET Services
      BY <2>3 DEF WorkerInv, WorkerShape, Shaped, SwapComplete, SwapFailed, SwapHealthTimeout
    <3>3. \E res \in {"Go", "DockerError", "StartupTimeout"} :
            /\ Flush({w.target}, res)
            /\ res = "Go" => state' = "ACTIVE" /\ {w.target} = {active'}
      BY <2>3 DEF SwapComplete, SwapFailed, SwapHealthTimeout, Become
    <3> QED
      BY <1>0, <3>1, <3>2, <3>3, FlushAnswers DEF Switches
  <2> QED
    BY <1>1, <2>1, <2>2, <2>3 DEF HandleSwap
<1>2. ASSUME NEW t \in ticks, HandleTick(t) PROVE AnswersQueued /\ Switches
  <2>1. AnswersQueued
    BY <1>2, NothingAnswered DEF HandleTick, queueVars
  <2>2. CASE \E s \in Services \cup {None} : StartSwap(s, workers)
    BY <2>1, <2>2, StartServesNobody DEF Switches
  <2>3. CASE UNCHANGED phaseVars
    BY <2>1, <2>3 DEF phaseVars, Switches, Serving
  <2> QED
    BY <1>2, <2>2, <2>3, PoolAssumption DEF HandleTick, StaleTick, GraceTick, RetryTick,
       DeferCooldown, CooldownExpired, IdleTick, StartStopAll, OldestQueued
<1>3. CASE HandleActivity
  BY <1>3, NothingAnswered DEF HandleActivity, queueVars, phaseVars, Switches, Serving
<1>4. ASSUME NEW s \in Services, HandleAdminSwap(s) PROVE AnswersQueued /\ Switches
  <2>1. AnswersQueued
    BY <1>4, NothingAnswered DEF HandleAdminSwap, queueVars
  <2>2. CASE StartSwap(s, workers)
    BY <2>1, <2>2, StartServesNobody DEF Switches
  <2>3. CASE UNCHANGED phaseVars
    BY <2>1, <2>3 DEF phaseVars, Switches, Serving
  <2> QED
    BY <1>4, <2>2, <2>3 DEF HandleAdminSwap
<1>5. CASE HandleAdminStop
  <2>1. AnswersQueued
    BY <1>0, <1>5, FlushAnswers DEF HandleAdminStop
  <2>2. CASE StartSwap(None, workers)
    BY <2>1, <2>2, StartServesNobody DEF Switches
  <2>3. CASE UNCHANGED phaseVars
    BY <2>1, <2>3 DEF phaseVars, Switches, Serving
  <2> QED
    BY <1>5, <2>2, <2>3 DEF HandleAdminStop, StartStopAll
<1>6. CASE HandleExternalEvent
  <2> DEFINE e == Head(dockerEv)
  <2>0. dockerEv \in Seq(Event) /\ dockerEv # << >>
    BY <1>6 DEF HandleExternalEvent, TypeOK, ManagerType, InboxType
  <2>e. e \in Event
    BY <2>0
  <2>1. {e.container} \in SUBSET Services
    BY <2>e DEF Event
  <2>2. AnswersQueued
    <3>1. CASE Flush({e.container}, "DockerError")
      BY <1>0, <2>1, <3>1, FlushAnswers
    <3>2. CASE UNCHANGED <<queue, reply>>
      BY <3>2, NothingAnswered
    <3> QED
      BY <1>6, <3>1, <3>2 DEF HandleExternalEvent, ActiveDied, TargetDied, UnauthorizedStart,
         IgnoredEvent
  <2>3. CASE \E s \in Services : StartSwap(s, workers)
    BY <2>2, <2>3, StartServesNobody DEF Switches
  <2>4. CASE Become("ERROR", None, None)
    BY <2>2, <2>4 DEF Become, Switches, Serving
  <2>5. CASE UNCHANGED phaseVars
    BY <2>2, <2>5 DEF phaseVars, Switches, Serving
  <2> QED
    BY <1>6, <2>3, <2>4, <2>5 DEF HandleExternalEvent, ActiveDied, TargetDied, UnauthorizedStart,
       IgnoredEvent, ChainNow, OldestQueued
<1>7. CASE Close
  BY <1>7, NothingAnswered DEF Close, managerVars, queueVars, phaseVars, Switches, Serving
<1>8. CASE Shutdown
  <2>1. AnswersQueued
    BY <1>0, <1>8, FlushAnswers DEF Shutdown
  <2> QED
    BY <1>8, <2>1 DEF Shutdown, Become, Switches, Serving
<1>9. CASE ChainAfterComplete
  <2>1. AnswersQueued
    BY <1>9, NothingAnswered DEF ChainAfterComplete, queueVars
  <2>2. state = "ACTIVE"
    BY <1>9 DEF ChainAfterComplete, ChainInv
  <2>3. CASE \E s \in Services \cup {None} : StartSwap(s, workers)
    BY <2>1, <2>3, StartServesNobody DEF Switches
  <2>4. CASE Become("ACTIVE", active, None)
    BY <2>1, <2>2, <2>4 DEF Become, Switches, Serving
  <2> QED
    BY <1>9, <2>3, <2>4 DEF ChainAfterComplete, ChainAfterTerminal, OldestQueued,
       TypeOK, ManagerType
<1> QED
  BY <1>1, <1>2, <1>3, <1>4, <1>5, <1>6, <1>7, <1>8, <1>9 DEF ManagerNext

-----------------------------------------------------------------------------
(* What a step of a client decides.                                        *)

\* A client's step concerns nobody else, and queues nobody who was let
\* through.
LEMMA ClientAlone ==
    ASSUME Inv, ResultInv, NEW r \in Reqs, ClientNext(r)
    PROVE  /\ \A q \in Reqs : q # r =>
                /\ phase'[q] = phase[q] /\ svc'[q] = svc[q]
                /\ result'[q] = result[q] /\ reply'[q] = reply[q]
           /\ \A s \in Services : \A w \in queue'[s] :
                w \in queue[s] \/ (w.req = r /\ result'[r] = "none")
<1>0. /\ queue \in [Services -> SUBSET Waiter] /\ reply \in [Reqs -> Seq(Results)]
      /\ phase \in [Reqs -> Phases] /\ svc \in [Reqs -> Services \cup {None}]
      /\ result \in [Reqs -> Results \cup {"none", "Canceled"}]
      /\ phase[r] # "idle" => svc[r] \in Services
  BY DEF Inv, TypeOK, ManagerType, QueueType, AdmissionType, RequestInv, RequestShape
<1>1. CASE Submit(r)
  <2>1. /\ phase' = [phase EXCEPT ![r] = "wait"] /\ UNCHANGED <<svc, result>>
        /\ phase[r] = "send" /\ result[r] = "none" /\ svc[r] \in Services
    BY <1>0, <1>1 DEF Submit, ResultInv
  <2>2. CASE UNCHANGED queue /\ \E res : reply' = [reply EXCEPT ![r] = Append(@, res)]
    BY <1>0, <2>1, <2>2
  <2>3. CASE /\ queue' = [queue EXCEPT ![svc[r]] = @ \cup {[req |-> r, seq |-> seq + 1]}]
             /\ UNCHANGED reply
    BY <1>0, <2>1, <2>3
  <2> QED
    BY <1>1, <2>2, <2>3 DEF Submit, HandleAdmit, AdmitNow, AdmitFull, AdmitQueued
<1>2. CASE Arrive(r) \/ Receive(r) \/ GiveUp(r) \/ Abandon(r)
  <2>1. UNCHANGED <<queue, reply>>
    BY <1>2 DEF Arrive, Receive, GiveUp, Abandon, managerVars, queueVars
  <2>2. \/ UNCHANGED svc
        \/ \E s \in Services : svc' = [svc EXCEPT ![r] = s]
    BY <1>2 DEF Arrive, Receive, GiveUp, Abandon
  <2>3. /\ \E p : phase' = [phase EXCEPT ![r] = p]
        /\ UNCHANGED result \/ \E x : result' = [result EXCEPT ![r] = x]
    BY <1>2 DEF Arrive, Receive, GiveUp, Abandon, Return
  <2> QED
    BY <1>0, <2>1, <2>2, <2>3
<1>3. CASE Cancel(r)
  <2>1. /\ phase' = [phase EXCEPT ![r] = "done"] /\ result' = [result EXCEPT ![r] = "Canceled"]
        /\ queue' = [queue EXCEPT ![svc[r]] = {w \in @ : w.req # r}]
        /\ UNCHANGED <<reply, svc>>
    BY <1>3 DEF Cancel, HandleCancel, RemoveByReply, Return
  <2> QED
    BY <1>0, <2>1
<1> QED
  BY <1>1, <1>2, <1>3 DEF ClientNext

\* What happens to the request itself.
LEMMA ClientMoves ==
    ASSUME Inv, ResultInv, NEW r \in Reqs, ClientNext(r)
    PROVE  \/ /\ phase[r] = "idle" /\ phase'[r] = "done" /\ result'[r] = "Go"
              /\ svc'[r] \in Services /\ Serving' = svc'[r] /\ reply'[r] = reply[r]
           \/ /\ phase[r] = "idle" /\ phase'[r] = "send" /\ svc'[r] \in Services
              /\ result'[r] = result[r] /\ reply'[r] = reply[r]
           \/ /\ phase[r] = "send" /\ phase'[r] = "wait" /\ svc'[r] = svc[r]
              /\ result'[r] = result[r]
              /\ \/ reply'[r] = reply[r]
                 \/ \E res \in Results : /\ reply'[r] = Append(reply[r], res)
                                         /\ res = "Go" => Serving' = svc[r]
           \/ /\ phase[r] = "wait" /\ phase'[r] = "giveup" /\ svc'[r] = svc[r]
              /\ result'[r] = result[r] /\ reply'[r] = reply[r]
           \/ /\ phase[r] \in {"send", "wait", "giveup"} /\ phase'[r] = "done"
              /\ svc'[r] = svc[r] /\ reply'[r] = reply[r]
              /\ \/ result'[r] = "Canceled"
                 \/ closed' /\ result'[r] = "Shutdown"
                 \/ reply[r] # << >> /\ result'[r] = Head(reply[r])
<1>0. /\ reply \in [Reqs -> Seq(Results)]
      /\ phase \in [Reqs -> Phases] /\ svc \in [Reqs -> Services \cup {None}]
      /\ result \in [Reqs -> Results \cup {"none", "Canceled"}]
      /\ SnapshotFresh
  BY DEF Inv, TypeOK, ManagerType, QueueType, AdmissionType
<1>1. CASE Arrive(r)
  <2>1. UNCHANGED <<reply, state, active>> /\ phase[r] = "idle"
    BY <1>1 DEF Arrive, queueVars, phaseVars
  <2>2. PICK s \in Services :
          /\ svc' = [svc EXCEPT ![r] = s]
          /\ \/ /\ snap = [state |-> "ACTIVE", active |-> s]
                /\ phase' = [phase EXCEPT ![r] = "done"] /\ result' = [result EXCEPT ![r] = "Go"]
             \/ phase' = [phase EXCEPT ![r] = "send"] /\ UNCHANGED result
    BY <1>1 DEF Arrive, Return
  <2>3. snap = [state |-> "ACTIVE", active |-> s] => Serving' = s
    BY <1>0, <2>1 DEF SnapshotFresh, Serving
  <2> QED
    BY <1>0, <2>1, <2>2, <2>3
<1>2. CASE Submit(r)
  <2>1. /\ phase' = [phase EXCEPT ![r] = "wait"] /\ UNCHANGED <<svc, result>>
        /\ phase[r] = "send"
    BY <1>2 DEF Submit
  <2>2. CASE AdmitNow(svc[r], r)
    <3>1. reply'[r] = Append(reply[r], "Go") /\ Serving' = svc[r] /\ "Go" \in Results
      BY <1>0, <2>2 DEF AdmitNow, phaseVars, Serving, Results
    <3> QED
      BY <1>0, <2>1, <3>1
  <2>3. CASE AdmitFull(svc[r], r)
    <3>1. reply'[r] = Append(reply[r], "QueueFull") /\ "QueueFull" \in Results
      BY <1>0, <2>3 DEF AdmitFull, Results
    <3> QED
      BY <1>0, <2>1, <3>1
  <2>4. CASE AdmitQueued(svc[r], r)
    BY <1>0, <2>1, <2>4 DEF AdmitQueued
  <2> QED
    BY <1>2, <2>2, <2>3, <2>4 DEF Submit, HandleAdmit
<1>3. CASE Receive(r)
  BY <1>0, <1>3 DEF Receive, Return, managerVars, queueVars
<1>4. CASE GiveUp(r)
  BY <1>0, <1>4 DEF GiveUp, Return, managerVars, queueVars
<1>5. CASE Cancel(r)
  BY <1>0, <1>5 DEF Cancel, HandleCancel, Return
<1>6. CASE Abandon(r)
  BY <1>0, <1>6 DEF Abandon, Return, managerVars, queueVars, poolVars, workerVars
<1> QED
  BY <1>1, <1>2, <1>3, <1>4, <1>5, <1>6 DEF ClientNext

\* An admission starts a swap or leaves the state machine alone.
LEMMA ClientSwitches ==
    ASSUME NEW r \in Reqs, ClientNext(r)
    PROVE  Switches /\ (closed => closed')
<1>1. CASE Submit(r)
  <2>1. closed' = closed
    BY <1>1 DEF Submit, HandleAdmit, outsideVars
  <2>2. CASE StartSwap(svc[r], workers)
    BY <2>1, <2>2, StartServesNobody DEF Switches
  <2>3. CASE UNCHANGED phaseVars
    BY <2>1, <2>3 DEF phaseVars, Switches, Serving
  <2> QED
    BY <1>1, <2>2, <2>3 DEF Submit, HandleAdmit, AdmitNow, AdmitFull, AdmitQueued
<1>2. CASE Arrive(r) \/ Receive(r) \/ GiveUp(r) \/ Abandon(r)
  BY <1>2 DEF Arrive, Receive, GiveUp, Abandon, poolVars, workerVars, managerVars, phaseVars,
     Switches, Serving
<1>3. CASE Cancel(r)
  BY <1>3 DEF Cancel, HandleCancel, phaseVars, outsideVars, Switches, Serving
<1> QED
  BY <1>1, <1>2, <1>3 DEF ClientNext

-----------------------------------------------------------------------------
(* The refinement.                                                         *)

\* What agrees stays in agreement.
LEMMA ClientKeepsResultInv ==
    ASSUME Inv, ResultInv, NEW r \in Reqs, ClientNext(r)
    PROVE  ResultInv'
<1>0. /\ queue \in [Services -> SUBSET Waiter] /\ queue' \in [Services -> SUBSET Waiter]
      /\ reply \in [Reqs -> Seq(Results)]
      /\ RequestShape /\ NoGhostWaiter
  BY NextInv DEF Inv, TypeOK, ManagerType, QueueType, RequestInv, Next
<1>1. \A q \in Reqs : q # r =>
                /\ phase'[q] = phase[q] /\ svc'[q] = svc[q]
                /\ result'[q] = result[q] /\ reply'[q] = reply[q]
  BY ClientAlone
<1>2. /\ phase'[r] # "done" => result'[r] = "none"
      /\ phase'[r] # "idle"
  BY ClientMoves DEF ResultInv
<1>3. result'[r] = "Go" => reply'[r] = << >> \/ Head(reply'[r]) = "Go"
  BY <1>0, ClientMoves DEF ResultInv, RequestShape
<1>4. \A s \in Services : \A w \in queue'[s] : result'[w.req] # "Go"
  <2> SUFFICES ASSUME NEW s \in Services, NEW w \in queue'[s], result'[w.req] = "Go"
               PROVE  FALSE
    OBVIOUS
  <2>1. w \in queue[s] /\ w.req \in Reqs /\ result[w.req] # "Go"
    BY <1>0, ClientAlone DEF ResultInv, Waiter
  <2>2. w.req = r
    BY <1>1, <2>1
  <2>3. reply[r] = << >> /\ phase[r] \in {"wait", "giveup", "done"}
    BY <1>0, <2>1, <2>2 DEF NoGhostWaiter, RequestShape
  <2> QED
    BY <2>1, <2>2, <2>3, ClientMoves
<1> QED
  BY <1>1, <1>2, <1>3, <1>4 DEF ResultInv

LEMMA ManagerKeepsResultInv ==
    ASSUME Inv, ResultInv, AnswersQueued, UNCHANGED clientVars
    PROVE  ResultInv'
<1>0. UNCHANGED <<phase, svc, result>>
  BY DEF clientVars
<1>1. \A r \in Reqs : result[r] = "Go" => reply'[r] = reply[r]
  BY DEF AnswersQueued, Answered, ResultInv
<1> QED
  BY <1>0, <1>1 DEF ResultInv, AnswersQueued

\* A step that answers only who waits, and leaves the clients where they are,
\* is a step of the service.
LEMMA AnswersRefine ==
    ASSUME Inv, ResultInv, AnswersQueued, Switches, closed => closed', UNCHANGED clientVars
    PROVE  Service!Next
<1>0. /\ reply \in [Reqs -> Seq(Results)] /\ NoGhostWaiter
      /\ UNCHANGED <<phase, svc, result>>
  BY DEF Inv, TypeOK, ManagerType, QueueType, RequestInv, clientVars
<1>1. Service!Switch
  BY DEF Service!Switch, Switches, Serving
<1>2. ASSUME NEW r \in Reqs PROVE Service!Ask(r) /\ Service!Leave(r)
  BY <1>0, <1>2 DEF Service!Ask, Service!Leave, Outcome
<1>3. ASSUME NEW r \in Reqs PROVE Service!Decide(r)
  <2>1. CASE reply'[r] = reply[r]
    BY <1>0, <1>3, <2>1 DEF Service!Decide, Verdict
  <2>2. ASSUME NEW s \in Services, NEW res \in Results, NEW w \in queue[s], w.req = r,
               reply'[r] = Append(reply[r], res), res = "Go" => state' = "ACTIVE" /\ active' = s
        PROVE  Service!Decide(r)
    <3>1. reply[r] = << >> /\ svc[r] = s /\ result[r] # "Go"
      BY <1>0, <2>2 DEF NoGhostWaiter, ResultInv
    <3>2. Verdict(r) = "none"
      BY <3>1 DEF Verdict
    <3>3. reply'[r] # << >> /\ Head(reply'[r]) = res
      BY <2>2, <3>1
    <3>4. Verdict(r)' = "go" => res = "Go"
      BY <3>3 DEF Verdict
    <3> QED
      BY <1>0, <2>2, <3>1, <3>2, <3>4 DEF Service!Decide
  <2> QED
    BY <1>3, <2>1, <2>2 DEF AnswersQueued, Answered
<1> QED
  BY <1>1, <1>2, <1>3 DEF Service!Next

\* So is a step of a client.
LEMMA ClientRefines ==
    ASSUME Inv, ResultInv, NEW r \in Reqs, ClientNext(r)
    PROVE  Service!Next
<1>0. reply \in [Reqs -> Seq(Results)] /\ RequestShape
  BY DEF Inv, TypeOK, ManagerType, QueueType, RequestInv
<1>1. Service!Switch /\ (closed => closed')
  BY ClientSwitches DEF Service!Switch, Switches, Serving
<1>2. ASSUME NEW q \in Reqs, q # r
      PROVE  Service!Ask(q) /\ Service!Decide(q) /\ Service!Leave(q)
  <2>1. /\ phase'[q] = phase[q] /\ svc'[q] = svc[q]
        /\ result'[q] = result[q] /\ reply'[q] = reply[q]
    BY <1>2, ClientAlone
  <2> QED
    BY <2>1 DEF Service!Ask, Service!Decide, Service!Leave, Verdict, Outcome
<1>3. Service!Ask(r)
  BY ClientMoves DEF Service!Ask, ResultInv
<1>4. /\ phase[r] # "done" /\ result[r] = "none" /\ Outcome(r) = "none"
      /\ Verdict(r) # "none" => reply[r] # << >>
  BY ClientMoves DEF ResultInv, Outcome, Verdict
<1>5. Service!Decide(r)
  <2>1. CASE phase[r] = "idle"
    <3>1. reply'[r] = << >> /\ Verdict(r) = "none"
      BY <1>0, <1>4, <2>1, ClientMoves DEF RequestShape
    <3>2. Verdict(r)' = "go" => result'[r] = "Go"
      BY <3>1 DEF Verdict
    <3>3. result'[r] = "Go" => Serving' = svc'[r]
      BY <1>4, <2>1, ClientMoves
    <3>4. svc'[r] \in Services
      BY <2>1, ClientMoves
    <3> QED
      BY <3>1, <3>2, <3>3, <3>4 DEF Service!Decide, Serving
  <2>2. CASE reply'[r] = reply[r] /\ phase[r] # "idle"
    <3>1. reply[r] = << >> => result'[r] # "Go"
      BY <1>4, <2>2, ClientMoves
    <3>2. Verdict(r)' = Verdict(r)
      BY <1>4, <2>2, <3>1 DEF Verdict
    <3> QED
      BY <3>2 DEF Service!Decide
  <2>3. ASSUME NEW res \in Results, reply'[r] = Append(reply[r], res),
               res = "Go" => Serving' = svc[r], phase[r] = "send", svc'[r] = svc[r]
        PROVE  Service!Decide(r)
    <3>1. reply[r] = << >> /\ svc'[r] \in Services
      BY <1>0, <2>3 DEF RequestShape
    <3>2. Verdict(r) = "none"
      BY <1>4, <3>1
    <3>3. reply'[r] # << >> /\ Head(reply'[r]) = res
      BY <2>3, <3>1
    <3>4. Verdict(r)' = "go" => res = "Go"
      BY <3>3 DEF Verdict
    <3> QED
      BY <2>3, <3>1, <3>2, <3>4 DEF Service!Decide, Serving
  <2> QED
    BY <2>1, <2>2, <2>3, ClientMoves
<1>6. Service!Leave(r)
  <2>1. CASE phase'[r] # "done"
    BY <1>4, <2>1 DEF Service!Leave, Outcome
  <2>2. CASE phase[r] = "idle" /\ phase'[r] = "done"
    <3>1. reply'[r] = << >> /\ result'[r] = "Go"
      BY <1>0, <2>2, ClientMoves DEF RequestShape
    <3>2. Verdict(r)' = "go" /\ Outcome(r)' = "served"
      BY <2>2, <3>1 DEF Verdict, Outcome
    <3> QED
      BY <1>4, <3>2 DEF Service!Leave
  <2>3. CASE phase[r] # "idle" /\ phase'[r] = "done"
    <3>1. CASE result'[r] = "Canceled"
      <4>1. Outcome(r)' = "withdrawn"
        BY <2>3, <3>1 DEF Outcome
      <4> QED
        BY <1>4, <4>1 DEF Service!Leave
    <3>2. CASE closed' /\ result'[r] = "Shutdown"
      <4>1. Outcome(r)' = "refused"
        BY <2>3, <3>2 DEF Outcome
      <4> QED
        BY <1>4, <3>2, <4>1 DEF Service!Leave
    <3>3. CASE reply[r] # << >> /\ reply'[r] = reply[r] /\ result'[r] = Head(reply[r])
      <4>1. Head(reply[r]) \in Results
        BY <1>0, <3>3
      <4>2. CASE Head(reply[r]) = "Go"
        <5>1. Verdict(r)' = "go" /\ Outcome(r)' = "served"
          BY <2>3, <3>3, <4>2 DEF Verdict, Outcome
        <5> QED
          BY <1>4, <5>1 DEF Service!Leave
      <4>3. CASE Head(reply[r]) # "Go"
        <5>1. Verdict(r)' = "no" /\ Outcome(r)' = "refused"
          BY <2>3, <3>3, <4>1, <4>3 DEF Verdict, Outcome, Results
        <5> QED
          BY <1>4, <5>1 DEF Service!Leave
      <4> QED
        BY <4>2, <4>3
    <3> QED
      BY <2>3, <3>1, <3>2, <3>3, ClientMoves
  <2> QED
    BY <2>1, <2>2, <2>3
<1> QED
  BY <1>1, <1>2, <1>3, <1>5, <1>6 DEF Service!Next

\* Everybody else leaves the queues, the clients and the state machine alone.
LEMMA OthersApart ==
    ASSUME WorkersNext \/ (WatcherNext /\ UNCHANGED clientVars) \/ OutsideNext \/ Tick
                \/ UNCHANGED vars
    PROVE  UNCHANGED <<queue, reply, state, active, closed, clientVars>>
<1>1. CASE WorkersNext
  <2>1. UNCHANGED closed
    BY <1>1 DEF WorkersNext, WorkerNext, WorkerSweep, WorkerSweepFails, WorkerSuperseded,
       WorkerSwept, WorkerStop, WorkerStopFails, WorkerConfirm, WorkerConfirmFails, WorkerStart,
       WorkerStartFails, WorkerStarted, WorkerHealthy, WorkerUnhealthy, WorkerPanic, WorkerExit,
       StopperNext, StopperBegin, StopperStop
  <2> QED
    BY <1>1, <2>1 DEF WorkersNext, managerVars, phaseVars, queueVars
<1>2. CASE WatcherNext /\ UNCHANGED clientVars
  BY <1>2 DEF WatcherNext, Route, Notify, Resubscribe, workerVars, managerVars, phaseVars,
     queueVars
<1>3. CASE OutsideNext
  BY <1>3 DEF OutsideNext, workerVars, managerVars, phaseVars, queueVars
<1>4. CASE Tick
  BY <1>4 DEF Tick, workerVars, phaseVars, queueVars
<1>5. CASE UNCHANGED vars
  BY <1>5 DEF vars, workerVars, managerVars, phaseVars, queueVars
<1> QED
  BY <1>1, <1>2, <1>3, <1>4, <1>5

\* Every step of the pool is a step of the service or leaves it unchanged, and
\* keeps the agreement.
LEMMA StepRefines ==
    ASSUME Inv, ResultInv, [Next]_vars
    PROVE  ResultInv' /\ [Service!Next]_(Service!vars)
<1>0. TypeOK /\ WorkerInv /\ ChainInv
  BY DEF Inv
<1>1. ASSUME NEW r \in Reqs, ClientNext(r) PROVE ResultInv' /\ Service!Next
  BY <1>1, ClientKeepsResultInv, ClientRefines
<1>2. CASE ManagerNext
  <2>1. AnswersQueued /\ Switches
    BY <1>0, <1>2, ManagerDecides
  <2>2. UNCHANGED clientVars
    BY <1>2 DEF ManagerNext
  <2>3. closed => closed'
    <3>1. ASSUME NEW w \in workers, HandleSwap(w) PROVE closed' = closed
      BY <3>1 DEF HandleSwap, StaleReport, SwapComplete, SwapFailed, SwapHealthTimeout,
         PoolStopped, outsideVars
    <3>2. ASSUME NEW t \in ticks, HandleTick(t) PROVE closed' = closed
      BY <3>2 DEF HandleTick, outsideVars
    <3>3. CASE ChainAfterComplete \/ HandleActivity \/ HandleExternalEvent \/ Shutdown
      BY <3>3 DEF ChainAfterComplete, HandleActivity, HandleExternalEvent, Shutdown, outsideVars
    <3>4. CASE HandleAdminStop \/ \E s \in Services : HandleAdminSwap(s)
      BY <3>4 DEF HandleAdminStop, HandleAdminSwap
    <3>5. CASE Close
      BY <3>5 DEF Close
    <3> QED
      BY <1>2, <3>1, <3>2, <3>3, <3>4, <3>5 DEF ManagerNext
  <2> QED
    BY <2>1, <2>2, <2>3, ManagerKeepsResultInv, AnswersRefine
<1>3. CASE UNCHANGED <<queue, reply, state, active, closed, clientVars>>
  <2>1. AnswersQueued /\ Switches
    BY <1>3, NothingAnswered DEF Switches, Serving
  <2> QED
    BY <1>3, <2>1, ManagerKeepsResultInv, AnswersRefine
<1> QED
  BY <1>1, <1>2, <1>3, OthersApart DEF Next

\* The pool starts as the service does.
LEMMA InitRefines == Init => ResultInv /\ Service!Init
<1> SUFFICES ASSUME Init PROVE ResultInv /\ Service!Init
  OBVIOUS
<1>1. /\ phase = [r \in Reqs |-> "idle"] /\ svc = [r \in Reqs |-> None]
      /\ result = [r \in Reqs |-> "none"] /\ reply = [r \in Reqs |-> << >>]
      /\ queue = [s \in Services |-> {}] /\ state = "IDLE" /\ closed = FALSE
  BY DEF Init, AdmissionInit, ManagerInit, WorkerInit
<1>2. ResultInv
  BY <1>1 DEF ResultInv
<1>3. \A r \in Reqs : Verdict(r) = "none" /\ Outcome(r) = "none"
  BY <1>1 DEF Verdict, Outcome
<1>4. Service!Init
  BY <1>1, <1>3 DEF Service!Init
<1> QED
  BY <1>2, <1>4

\* The pool implements the abstract service: whatever the queues, timers,
\* workers, cancellations, events and commands do, one service is served at a
\* time, each request is decided once, and is let through only while the
\* service it asked for is served.
THEOREM PoolImplementsService == Spec => ImplementsService
<1>1. Init => ResultInv /\ Service!Init
  BY InitRefines
<1>2. Inv /\ ResultInv /\ [Next]_vars => ResultInv' /\ [Service!Next]_(Service!vars)
  BY StepRefines
<1> QED
  BY <1>1, <1>2, InvHolds, PTL DEF Spec, ImplementsService, Service!Spec
=============================================================================
