----------------------------- MODULE PoolTimers -----------------------------
(***************************************************************************)
(* The pool's timers: epochs, the grace period and the cooldown.           *)
(***************************************************************************)
EXTENDS PoolProofs, SequenceTheorems

Fresh == UNCHANGED <<epochs, ticks, cooldownArmed>>

LEMMA TimersApart ==
    ASSUME TimerInv, Fresh, UNCHANGED <<mgr, state, active, opSeq, sinceStart>>
    PROVE  TimerInv'
BY DEF TimerInv, QuietSwap, GraceNotEarly, ArmedInv, DefaultRetried, CooldownTick, Live, Fresh

\* startSwap leaves no timer live.
LEMMA SwapSilences ==
    ASSUME TypeOK, QuietSwap, NEW s, NEW ws, StartSwap(s, ws), ticks' \subseteq ticks
    PROVE  TimerInv'
<1>1. /\ state' = "SWAPPING" /\ cooldownArmed' = FALSE
      /\ epochs' = [k \in Kinds |-> epochs[k] + 1]
  BY DEF StartSwap, Become, BumpEpochs
<1>2. ASSUME NEW t \in ticks' PROVE t.epoch < epochs'[t.kind] /\ t.epoch \in Nat
                                    /\ epochs'[t.kind] \in Nat
  <2>1. t \in ticks /\ t \in [kind : Kinds, epoch : Nat, left : Int] /\ epochs \in [Kinds -> Nat]
    BY DEF TypeOK, ManagerType, TimerType
  <2>2. t.kind \in Kinds /\ t.epoch \in Nat /\ epochs[t.kind] \in Nat
    BY <2>1
  <2>3. t.epoch <= epochs[t.kind]
    BY <2>1 DEF QuietSwap
  <2>4. epochs'[t.kind] = epochs[t.kind] + 1
    BY <1>1, <2>2
  <2> QED
    BY <2>2, <2>3, <2>4
<1>3. QuietSwap'
  BY <1>1, <1>2 DEF QuietSwap, Live
<1>4. ArmedInv'
  <2>1. \A t \in ticks' : t.epoch # epochs'[t.kind]
    BY <1>2
  <2> QED
    BY <1>1, <2>1 DEF ArmedInv, Live
<1> QED
  BY <1>1, <1>3, <1>4 DEF TimerInv, GraceNotEarly, DefaultRetried

\* handleTick drops a tick that nothing depends on.
LEMMA TickDropped ==
    ASSUME TimerInv, NEW t, ticks' = ticks \ {t}, UNCHANGED <<epochs, cooldownArmed>>,
           UNCHANGED <<mgr, state, active, opSeq, sinceStart>>,
           \/ ~CooldownTick(t)
           \/ /\ state = "ACTIVE" => active = Default
              /\ state = "IDLE" => Default = None
    PROVE  TimerInv'
<1>1. QuietSwap' /\ GraceNotEarly'
  BY DEF TimerInv, QuietSwap, GraceNotEarly, Live
<1>2. ArmedInv'
  BY DEF TimerInv, ArmedInv, CooldownTick, Live
<1>3. DefaultRetried'
  BY DEF TimerInv, DefaultRetried, CooldownTick, Live
<1> QED
  BY <1>1, <1>2, <1>3 DEF TimerInv

\* What armTimer adds is live, and is the only live tick of its kind.
LEMMA Arms ==
    ASSUME TypeOK, QuietSwap, NEW kind \in Kinds, NEW d \in Int, NEW pending \in SUBSET ticks,
           ArmTimer(kind, d, pending)
    PROVE  LET new == [kind |-> kind, epoch |-> epochs[kind] + 1, left |-> d] IN
           /\ new \in ticks' /\ new.epoch = epochs'[kind] /\ new.kind = kind /\ new.left = d
           /\ \A t \in ticks' : t = new \/ t \in pending
           /\ \A t \in ticks' : t.epoch <= epochs'[t.kind]
           /\ \A t \in pending : t.kind = kind => t.epoch # epochs'[kind]
           /\ \A k \in Kinds : k # kind => epochs'[k] = epochs[k]
           /\ cooldownArmed' = (cooldownArmed \/ kind = "cooldown")
<1> DEFINE new == [kind |-> kind, epoch |-> epochs[kind] + 1, left |-> d]
<1>1. /\ epochs \in [Kinds -> Nat] /\ ticks \subseteq [kind : Kinds, epoch : Nat, left : Int]
      /\ epochs' = [epochs EXCEPT ![kind] = @ + 1]
      /\ ticks' = pending \cup {new}
      /\ cooldownArmed' = (cooldownArmed \/ kind = "cooldown")
  BY DEF TypeOK, ManagerType, TimerType, ArmTimer
<1>2. new.epoch = epochs[kind] + 1 /\ new.kind = kind /\ new.left = d
  OBVIOUS
<1>3. /\ epochs'[kind] = epochs[kind] + 1 /\ epochs[kind] \in Nat
      /\ \A k \in Kinds : k # kind => epochs'[k] = epochs[k]
  BY <1>1
<1>4. ASSUME NEW t \in pending
      PROVE  t.kind \in Kinds /\ t.epoch \in Nat /\ t.epoch <= epochs[t.kind]
             /\ epochs[t.kind] \in Nat
  BY <1>1 DEF QuietSwap
<1> HIDE DEF new
<1>5. \A t \in pending : t.epoch <= epochs'[t.kind] /\ (t.kind = kind => t.epoch # epochs'[kind])
  BY <1>3, <1>4
<1> QED
  BY <1>1, <1>2, <1>3, <1>5 DEF new

\* A grace tick for the end of the grace period.
LEMMA GraceArms ==
    ASSUME TypeOK, TimerInv, mgr \in {"run", "chain"}, mgr' = "run",
           state = "ACTIVE", UNCHANGED <<state, active, sinceStart>>,
           NEW d \in Int, d + sinceStart >= Grace, ArmTimer("grace", d, ticks)
    PROVE  TimerInv'
<1> DEFINE new == [kind |-> "grace", epoch |-> epochs["grace"] + 1, left |-> d]
<1>0. QuietSwap /\ "grace" \in Kinds /\ "cooldown" \in Kinds /\ ticks \in SUBSET ticks
  BY DEF TimerInv, Kinds
<1>1. /\ new \in ticks' /\ new.epoch = epochs'["grace"] /\ new.kind = "grace" /\ new.left = d
      /\ \A t \in ticks' : t = new \/ t \in ticks
      /\ \A t \in ticks' : t.epoch <= epochs'[t.kind]
      /\ \A t \in ticks : t.kind = "grace" => t.epoch # epochs'["grace"]
      /\ epochs'["cooldown"] = epochs["cooldown"]
      /\ cooldownArmed' = cooldownArmed
  BY <1>0, Arms DEF TypeOK, ManagerType, TimerType
<1> HIDE DEF new
<1>2. ticks \subseteq ticks'
  BY DEF ArmTimer
<1>3. QuietSwap'
  BY <1>1 DEF QuietSwap
<1>4. GraceNotEarly'
  BY <1>1 DEF GraceNotEarly, Live
<1>5. ArmedInv'
  BY <1>0, <1>1, <1>2 DEF TimerInv, QuietSwap, ArmedInv, CooldownTick, Live
<1> QED
  BY <1>3, <1>4, <1>5 DEF TimerInv, DefaultRetried

\* A cooldown tick within the cooldown period.
LEMMA CooldownArms ==
    ASSUME TypeOK, TimerInv, mgr \in {"run", "chain"}, mgr' = "run",
           \/ state' = "IDLE"
           \/ state = "ACTIVE" /\ UNCHANGED <<state, active, sinceStart>> /\ active # Default,
           NEW d \in Int, d <= Cooldown, NEW pending \in SUBSET ticks,
           ArmTimer("cooldown", d, pending)
    PROVE  TimerInv'
<1> DEFINE new == [kind |-> "cooldown", epoch |-> epochs["cooldown"] + 1, left |-> d]
<1>0. QuietSwap /\ "grace" \in Kinds /\ "cooldown" \in Kinds /\ "grace" # "cooldown"
  BY DEF TimerInv, Kinds
<1>1. /\ new \in ticks' /\ new.epoch = epochs'["cooldown"] /\ new.kind = "cooldown"
      /\ new.left = d
      /\ \A t \in ticks' : t = new \/ t \in pending
      /\ \A t \in ticks' : t.epoch <= epochs'[t.kind]
      /\ epochs'["grace"] = epochs["grace"]
  BY <1>0, Arms
<1> HIDE DEF new
<1>2. \E t \in ticks' : t.epoch = epochs'[t.kind] /\ t.kind = "cooldown" /\ t.left <= Cooldown
  BY <1>1
<1>3. QuietSwap'
  BY <1>1 DEF QuietSwap
<1>4. GraceNotEarly'
  BY <1>0, <1>1 DEF TimerInv, QuietSwap, GraceNotEarly, Live
<1>5. DefaultRetried'
  BY <1>2 DEF DefaultRetried, Live
<1>6. ArmedInv'
  <2>1. cooldownArmed' = TRUE
    BY DEF ArmTimer, TypeOK, ManagerType, TimerType
  <2> QED
    BY <1>2, <2>1 DEF ArmedInv, CooldownTick, Live
<1> QED
  BY <1>3, <1>4, <1>5, <1>6 DEF TimerInv

\* Where a swap ends and no timer is armed, there is none.
LEMMA NothingArmed ==
    ASSUME TimerInv, Fresh, state = "SWAPPING" \/ mgr = "chain", mgr' = "run",
           state' = "IDLE" => ~(Cooldown > 0 /\ Default # None),
           state' # "SWAPPING"
    PROVE  TimerInv'
BY DEF TimerInv, QuietSwap, GraceNotEarly, ArmedInv, DefaultRetried, CooldownTick, Live, Fresh

\* chainAfterTerminal starts a swap, or arms what the pool then needs.
LEMMA ChainKeepsTimers ==
    ASSUME TypeOK, TimerInv, ChainInv, mgr' = "run", UNCHANGED sinceStart,
           NEW activated \in BOOLEAN, NEW act, NEW q, NEW ws,
           ChainAfterTerminal(activated, act, q, ws),
           \/ ~activated /\ mgr = "run" /\ state = "SWAPPING"
           \/ activated /\ mgr = "chain" /\ act = active
    PROVE  TimerInv'
<1>0. QuietSwap /\ Grace \in Nat /\ Cooldown \in Nat /\ mgr \in {"run", "chain"}
  BY PoolAssumption DEF TimerInv
<1>1. CASE \E s : StartSwap(s, ws) /\ UNCHANGED ticks
  BY <1>0, <1>1, SwapSilences
<1>2. CASE /\ Become(IF activated THEN "ACTIVE" ELSE "IDLE", act, None)
           /\ ArmTimer("grace", Grace, ticks) /\ activated
  <2>1. /\ state = "ACTIVE" /\ sinceStart = 0
        /\ UNCHANGED <<state, active>>
    BY <1>2 DEF ChainInv, Become
  <2>2. Grace + sinceStart >= Grace /\ Grace \in Int
    BY <1>0, <2>1
  <2> QED
    BY <1>0, <1>2, <2>1, <2>2, GraceArms
<1>3. CASE /\ Become(IF activated THEN "ACTIVE" ELSE "IDLE", act, None)
           /\ ArmTimer("cooldown", Cooldown, ticks) /\ (activated => act # Default)
  <2>1. \/ state' = "IDLE"
        \/ state = "ACTIVE" /\ UNCHANGED <<state, active, sinceStart>> /\ active # Default
    BY <1>3 DEF ChainInv, Become
  <2>2. Cooldown \in Int /\ Cooldown <= Cooldown /\ ticks \in SUBSET ticks
    BY <1>0
  <2> QED
    BY <1>0, <1>3, <2>1, <2>2, CooldownArms
<1>4. CASE /\ Become(IF activated THEN "ACTIVE" ELSE "IDLE", act, None)
           /\ UNCHANGED timerVars
           /\ ~activated => ~(Cooldown > 0 /\ Default # None)
  <2>1. /\ Fresh /\ state' # "SWAPPING"
        /\ state' = "IDLE" => ~(Cooldown > 0 /\ Default # None)
    BY <1>4 DEF Fresh, timerVars, Become
  <2> QED
    BY <2>1, NothingArmed
<1>5. \/ \E s : StartSwap(s, ws) /\ UNCHANGED ticks
      \/ /\ Become(IF activated THEN "ACTIVE" ELSE "IDLE", act, None)
         /\ AnyQueued(q) => activated
         /\ CASE AnyQueued(q) ->
                    ArmTimer("grace", Grace, ticks) /\ UNCHANGED idle
               [] ~AnyQueued(q) /\ activated /\ Cooldown > 0 /\ act # Default ->
                    ArmTimer("cooldown", Cooldown, ticks) /\ idle' = 0
               [] ~AnyQueued(q) /\ ~activated /\ Cooldown > 0 /\ Default # None ->
                    ArmTimer("cooldown", Cooldown, ticks) /\ UNCHANGED idle
               [] OTHER -> UNCHANGED <<timerVars, idle>>
  BY DEF ChainAfterTerminal
<1>6. CASE AnyQueued(q)
  BY <1>1, <1>2, <1>5, <1>6
<1>7. CASE ~AnyQueued(q) /\ activated /\ Cooldown > 0 /\ act # Default
  BY <1>1, <1>3, <1>5, <1>7
<1>8. CASE ~AnyQueued(q) /\ ~activated /\ Cooldown > 0 /\ Default # None
  BY <1>1, <1>3, <1>5, <1>8
<1>9. CASE /\ ~AnyQueued(q)
           /\ ~(activated /\ Cooldown > 0 /\ act # Default)
           /\ ~(~activated /\ Cooldown > 0 /\ Default # None)
  BY <1>1, <1>4, <1>5, <1>9
<1> QED
  BY <1>6, <1>7, <1>8, <1>9

\* The reports of the workers.
LEMMA ReportKeepsTimers ==
    ASSUME TypeOK, WorkerInv, ChainInv, TimerInv, NEW w \in workers, HandleSwap(w)
    PROVE  TimerInv'
<1>1. CASE StaleReport(w)
  BY <1>1, TimersApart DEF StaleReport, managerVars, phaseVars, timerVars, clockVars, Fresh
<1>2. CASE SwapComplete(w)
  <2>1. state = "SWAPPING"
    BY <1>2, CurrentWorker DEF SwapComplete
  <2>2. mgr' = "chain" /\ state' = "ACTIVE" /\ Fresh
    BY <1>2 DEF SwapComplete, Become, timerVars, Fresh
  <2> QED
    BY <2>1, <2>2 DEF TimerInv, QuietSwap, GraceNotEarly, ArmedInv, DefaultRetried, Live, Fresh
<1>3. CASE SwapFailed(w) \/ SwapHealthTimeout(w) \/ PoolStopped(w)
  <2>1. state = "SWAPPING" /\ mgr = "run" /\ mgr' = "run" /\ UNCHANGED sinceStart
    BY <1>3, CurrentWorker DEF SwapFailed, SwapHealthTimeout, PoolStopped
  <2>2. \E q : ChainAfterTerminal(FALSE, None, q, workers \ {w})
    BY <1>3 DEF SwapFailed, SwapHealthTimeout, PoolStopped
  <2> QED
    BY <2>1, <2>2, ChainKeepsTimers
<1> QED
  BY <1>1, <1>2, <1>3 DEF HandleSwap

\* The ticks.  A live cooldown tick goes only where the pool moves on, arms
\* another, or needs none: nobody waits in IDLE, so a retry is never skipped.
LEMMA TickKeepsTimers ==
    ASSUME TypeOK, NoStranded, TimerInv, NEW t \in ticks, HandleTick(t)
    PROVE  TimerInv'
<1>0. /\ mgr = "run" /\ UNCHANGED <<mgr, sinceStart>> /\ ticks \ {t} \in SUBSET ticks
      /\ QuietSwap /\ Cooldown \in Nat /\ idle \in 0 .. Cooldown
  BY PoolAssumption DEF HandleTick, clockVars, TimerInv, TypeOK, ManagerType, ClockType
<1>1. CASE (\E s, ws : StartSwap(s, ws)) /\ ticks' = ticks \ {t}
  BY <1>0, <1>1, SwapSilences
<1>2. CASE /\ UNCHANGED <<phaseVars, epochs, cooldownArmed>> /\ ticks' = ticks \ {t}
           /\ \/ ~CooldownTick(t)
              \/ /\ state = "ACTIVE" => active = Default
                 /\ state = "IDLE" => Default = None
  BY <1>0, <1>2, TickDropped DEF phaseVars
<1>3. CASE StaleTick(t)
  BY <1>2, <1>3 DEF StaleTick, CooldownTick
<1>4. CASE GraceTick(t)
  BY <1>1, <1>2, <1>4 DEF GraceTick, CooldownTick
<1>5. CASE RetryTick(t)
  <2>1. state = "IDLE" /\ ~AnyQueued(queue)
    BY <1>0, <1>5 DEF RetryTick, NoStranded
  <2> QED
    BY <1>1, <1>2, <1>5, <2>1 DEF RetryTick
<1>6. CASE DeferCooldown(t)
  <2> DEFINE d == IF AnyQueued(queue) THEN Cooldown ELSE Cooldown - idle
  <2>1. /\ state = "ACTIVE" /\ UNCHANGED <<state, active>>
        /\ ArmTimer("cooldown", d, ticks \ {t})
    BY <1>6 DEF DeferCooldown, phaseVars
  <2>2. d \in Int /\ d <= Cooldown
    BY <1>0
  <2> HIDE DEF d
  <2>3. active # Default
    BY <1>0, <1>6 DEF DeferCooldown, TimerInv, ArmedInv
  <2> QED
    BY <1>0, <2>1, <2>2, <2>3, CooldownArms
<1>7. CASE CooldownExpired(t)
  BY <1>1, <1>2, <1>7 DEF CooldownExpired, StartStopAll
<1>8. CASE IdleTick(t)
  BY <1>2, <1>8 DEF IdleTick
<1> QED
  BY <1>3, <1>4, <1>5, <1>6, <1>7, <1>8 DEF HandleTick

\* The active container or the target has died, and nobody waits.
LEMMA ErrorKeepsTimers ==
    ASSUME TypeOK, TimerInv, UNCHANGED <<ticks, mgr>>, mgr = "run", state' = "ERROR",
           BumpEpochs \/ (state = "SWAPPING" /\ UNCHANGED <<epochs, cooldownArmed>>)
    PROVE  TimerInv'
<1>1. CASE BumpEpochs
  <2>1. ASSUME NEW t \in ticks
        PROVE  t.epoch < epochs'[t.kind] /\ t.epoch \in Nat /\ epochs'[t.kind] \in Nat
    BY <1>1 DEF BumpEpochs, TimerInv, QuietSwap, TypeOK, ManagerType, TimerType
  <2>2. \A t \in ticks' : t.epoch <= epochs'[t.kind] /\ t.epoch # epochs'[t.kind]
    BY <2>1
  <2> QED
    BY <2>2 DEF TimerInv, QuietSwap, GraceNotEarly, ArmedInv, DefaultRetried, Live
<1>2. CASE state = "SWAPPING" /\ UNCHANGED <<epochs, cooldownArmed>>
  BY <1>2 DEF TimerInv, QuietSwap, GraceNotEarly, ArmedInv, DefaultRetried, Live
<1> QED
  BY <1>1, <1>2

LEMMA ManagerKeepsTimers ==
    ASSUME TypeOK, WorkerInv, ChainInv, NoStranded, TimerInv, ManagerNext
    PROVE  TimerInv'
<1>0. QuietSwap
  BY DEF TimerInv
<1>1. CASE \E w \in workers : HandleSwap(w)
  BY <1>1, ReportKeepsTimers
<1>2. CASE \E t \in ticks : HandleTick(t)
  BY <1>2, TickKeepsTimers
<1>3. CASE HandleActivity
  BY <1>3, TimersApart DEF HandleActivity, phaseVars, timerVars, Fresh
<1>4. ASSUME NEW s \in Services, HandleAdminSwap(s) PROVE TimerInv'
  <2>1. CASE StartSwap(s, workers)
    BY <1>0, <1>4, <2>1, SwapSilences DEF HandleAdminSwap
  <2>2. CASE UNCHANGED <<phaseVars, epochs, cooldownArmed>>
    BY <1>4, <2>2, TimersApart DEF HandleAdminSwap, phaseVars, clockVars, Fresh
  <2> QED
    BY <1>4, <2>1, <2>2 DEF HandleAdminSwap
<1>5. CASE HandleAdminStop
  <2>1. CASE StartSwap(None, workers)
    BY <1>0, <1>5, <2>1, SwapSilences DEF HandleAdminStop
  <2>2. CASE UNCHANGED <<phaseVars, epochs, cooldownArmed>>
    BY <1>5, <2>2, TimersApart DEF HandleAdminStop, phaseVars, clockVars, Fresh
  <2> QED
    BY <1>5, <2>1, <2>2 DEF HandleAdminStop, StartStopAll
<1>6. CASE HandleExternalEvent
  <2> DEFINE e == Head(dockerEv)
  <2>1. mgr = "run" /\ UNCHANGED <<ticks, mgr, sinceStart>>
    BY <1>6 DEF HandleExternalEvent, clockVars
  <2>2. CASE \E s, ws : StartSwap(s, ws)
    BY <1>0, <2>1, <2>2, SwapSilences
  <2>3. CASE ActiveDied(e) \/ TargetDied(e)
    BY <2>1, <2>2, <2>3, ErrorKeepsTimers DEF ActiveDied, TargetDied, ChainNow, Become
  <2>4. CASE UnauthorizedStart(e) \/ IgnoredEvent(e)
    BY <2>1, <2>4, TimersApart DEF UnauthorizedStart, IgnoredEvent, phaseVars, Fresh
  <2> QED
    BY <1>6, <2>3, <2>4 DEF HandleExternalEvent
<1>7. CASE Close
  BY <1>7, TimersApart DEF Close, managerVars, phaseVars, timerVars, clockVars, Fresh
<1>8. CASE Shutdown
  <2>1. mgr' = "stopped" /\ state' = "IDLE" /\ ticks' = {}
    BY <1>8 DEF Shutdown, Become
  <2> QED
    BY <2>1 DEF TimerInv, QuietSwap, GraceNotEarly, ArmedInv, DefaultRetried
<1>9. CASE ChainAfterComplete
  <2>1. /\ ChainAfterTerminal(TRUE, active, queue, workers)
        /\ mgr = "chain" /\ mgr' = "run" /\ UNCHANGED sinceStart
    BY <1>9 DEF ChainAfterComplete
  <2> QED
    BY <2>1, ChainKeepsTimers
<1> QED
  BY <1>1, <1>2, <1>3, <1>4, <1>5, <1>6, <1>7, <1>8, <1>9 DEF ManagerNext

\* Of the clients only a queued request touches a timer.
LEMMA ClientKeepsTimers ==
    ASSUME TypeOK, TimerInv, NEW r \in Reqs, ClientNext(r)
    PROVE  TimerInv'
<1>0. /\ QuietSwap /\ sinceStart \in 0 .. Grace /\ Grace \in Nat
  BY PoolAssumption DEF TimerInv, TypeOK, ManagerType, ClockType
<1>1. CASE Arrive(r) \/ Receive(r) \/ GiveUp(r) \/ Abandon(r) \/ Cancel(r)
  <2>1. Fresh /\ UNCHANGED <<mgr, state, active, opSeq, sinceStart>>
    BY <1>1 DEF Arrive, Receive, GiveUp, Abandon, Cancel, HandleCancel, managerVars, phaseVars,
       timerVars, clockVars, Fresh
  <2> QED
    BY <2>1, TimersApart
<1>2. CASE Submit(r)
  <2>0. HandleAdmit(svc[r], r)
    BY <1>2 DEF Submit
  <2>1. mgr = "run" /\ UNCHANGED mgr
    BY <2>0 DEF HandleAdmit
  <2>2. CASE AdmitNow(svc[r], r) \/ AdmitFull(svc[r], r)
    BY <2>1, <2>2, TimersApart DEF AdmitNow, AdmitFull, phaseVars, timerVars, clockVars, Fresh
  <2>3. CASE AdmitQueued(svc[r], r)
    <3>1. CASE StartSwap(svc[r], workers) /\ UNCHANGED ticks
      BY <1>0, <3>1, SwapSilences
    <3>2. CASE /\ state = "ACTIVE" /\ UNCHANGED phaseVars
               /\ ArmTimer("grace", Grace - sinceStart, ticks)
      <4>1. /\ Grace - sinceStart \in Int /\ (Grace - sinceStart) + sinceStart >= Grace
            /\ UNCHANGED <<state, active, sinceStart>>
        BY <1>0, <2>3, <3>2 DEF AdmitQueued, phaseVars, clockVars
      <4> QED
        BY <2>1, <3>2, <4>1, GraceArms
    <3>3. CASE UNCHANGED <<phaseVars, timerVars>>
      BY <2>1, <2>3, <3>3, TimersApart DEF AdmitQueued, phaseVars, timerVars, clockVars, Fresh
    <3> QED
      BY <2>3, <3>1, <3>2, <3>3 DEF AdmitQueued
  <2> QED
    BY <2>0, <2>2, <2>3 DEF HandleAdmit
<1> QED
  BY <1>1, <1>2 DEF ClientNext

\* Time brings every tick nearer, and the grace period's end no faster.
LEMMA TimeKeepsTimers ==
    ASSUME TypeOK, TimerInv, Tick
    PROVE  TimerInv'
<1>0. /\ sinceStart \in 0 .. Grace /\ Grace \in Nat /\ Cooldown \in Nat
      /\ ticks \subseteq [kind : Kinds, epoch : Nat, left : Int]
      /\ UNCHANGED <<mgr, state, active, opSeq, epochs, cooldownArmed>>
      /\ mgr # "chain"
  BY PoolAssumption DEF TypeOK, ManagerType, ClockType, TimerType, Tick, phaseVars
<1>1. ASSUME NEW u \in ticks'
      PROVE  \E t \in ticks : u.kind = t.kind /\ u.epoch = t.epoch /\ u.left = t.left - 1
                               /\ t.left \in Int
  <2>1. PICK t \in ticks : u = [t EXCEPT !.left = @ - 1]
    BY DEF Tick
  <2> QED
    BY <1>0, <2>1
<1>2. ASSUME NEW t \in ticks
      PROVE  \E u \in ticks' : u.kind = t.kind /\ u.epoch = t.epoch /\ u.left = t.left - 1
                                /\ t.left \in Int
  <2>1. [t EXCEPT !.left = @ - 1] \in ticks'
    BY DEF Tick
  <2> QED
    BY <1>0, <2>1
<1>3. /\ sinceStart' = IF sinceStart < Grace THEN sinceStart + 1 ELSE sinceStart
  BY DEF Tick, Capped
<1>4. QuietSwap'
  BY <1>0, <1>1 DEF TimerInv, QuietSwap, Live
<1>5. GraceNotEarly'
  <2> SUFFICES ASSUME mgr = "run", state = "ACTIVE", NEW u \in ticks',
                      u.epoch = epochs[u.kind], u.kind = "grace"
               PROVE  sinceStart' = Grace \/ u.left + sinceStart' >= Grace
    BY <1>0 DEF GraceNotEarly, Live
  <2>1. PICK t \in ticks : u.kind = t.kind /\ u.epoch = t.epoch /\ u.left = t.left - 1
                           /\ t.left \in Int
    BY <1>1
  <2>2. sinceStart = Grace \/ t.left + sinceStart >= Grace
    BY <2>1 DEF TimerInv, GraceNotEarly, Live
  <2> QED
    BY <1>0, <1>3, <2>1, <2>2
<1>6. (\E t \in ticks : CooldownTick(t)) =>
        \E u \in ticks' : u.epoch = epochs[u.kind] /\ u.kind = "cooldown" /\ u.left <= Cooldown
  <2> SUFFICES ASSUME NEW t \in ticks, CooldownTick(t)
               PROVE  \E u \in ticks' : /\ u.epoch = epochs[u.kind] /\ u.kind = "cooldown"
                                         /\ u.left <= Cooldown
    OBVIOUS
  <2>1. PICK u \in ticks' : u.kind = t.kind /\ u.epoch = t.epoch /\ u.left = t.left - 1
                            /\ t.left \in Int
    BY <1>2
  <2> QED
    BY <1>0, <2>1 DEF CooldownTick, Live
<1>7. ArmedInv'
  <2>1. \A u \in ticks' : u.epoch = epochs[u.kind] /\ u.kind = "cooldown" => cooldownArmed
    BY <1>1 DEF TimerInv, ArmedInv, Live
  <2> QED
    BY <1>0, <1>6, <2>1 DEF TimerInv, ArmedInv, CooldownTick, Live
<1>8. DefaultRetried'
  BY <1>0, <1>6 DEF TimerInv, DefaultRetried, CooldownTick, Live
<1> QED
  BY <1>4, <1>5, <1>7, <1>8 DEF TimerInv

LEMMA StepKeepsTimers == Inv /\ TimerInv /\ [Next]_vars => TimerInv'
<1> SUFFICES ASSUME Inv, TimerInv, [Next]_vars
             PROVE  TimerInv'
  OBVIOUS
<1>0. TypeOK /\ WorkerInv /\ ChainInv /\ NoStranded
  BY DEF Inv
<1>1. CASE \E r \in Reqs : ClientNext(r)
  BY <1>0, <1>1, ClientKeepsTimers
<1>2. CASE ManagerNext
  BY <1>0, <1>2, ManagerKeepsTimers
<1>3. CASE Tick
  BY <1>0, <1>3, TimeKeepsTimers
<1>4. CASE WorkersNext \/ OutsideNext \/ WatcherNext \/ UNCHANGED vars
  <2>1. Fresh /\ UNCHANGED <<mgr, state, active, opSeq, sinceStart>>
    BY <1>4 DEF WorkersNext, OutsideNext, WatcherNext, Route, Notify, Resubscribe, vars,
       managerVars, phaseVars, timerVars, clockVars, Fresh
  <2> QED
    BY <2>1, TimersApart
<1> QED
  BY <1>1, <1>2, <1>3, <1>4 DEF Next

LEMMA InitTimers == Init => TimerInv
BY DEF Init, ManagerInit, TimerInv, QuietSwap, GraceNotEarly, ArmedInv, DefaultRetried

\* A message that is taken changes its channel.
LEMMA TailDiffers ==
    ASSUME NEW S, NEW s \in Seq(S), s # << >>
    PROVE  Tail(s) # s
<1>1. Len(Tail(s)) # Len(s)
  BY HeadTailProperties, LenProperties
<1> QED
  BY <1>1

-----------------------------------------------------------------------------
(* The theorems.                                                           *)

\* The invariant of the timers: no tick is live during a swap, no grace tick
\* is early, and a cooldown tick is on its way exactly when one is needed.
THEOREM TimersHold == Spec => []TimerInv
BY InitTimers, StepKeepsTimers, InvHolds, PTL DEF Spec

\* The countdown buildStatus shows is one a live tick will act on within a
\* cooldown period, and is never shown for the default service.
THEOREM CountdownsAreReal == Spec => []CountdownIsReal
<1>1. Inv /\ TimerInv => CountdownIsReal
  <2> SUFFICES ASSUME Inv, TimerInv, mgr # "chain", Status >= 0
               PROVE  /\ active # Default
                      /\ \E t \in ticks : Live(t) /\ t.kind = "cooldown" /\ t.left <= Cooldown
    BY DEF CountdownIsReal
  <2>1. mgr = "run" /\ state = "ACTIVE" /\ cooldownArmed
    BY DEF Status, StatusCountdown, Inv, TypeOK, ManagerType
  <2> QED
    BY <2>1 DEF TimerInv, ArmedInv, CooldownTick
<1> QED
  BY <1>1, InvHolds, TimersHold, PTL

\* A pool with a default service that went cold has a live tick that will
\* start the default service: chainAfterTerminal never forgets to arm it.
THEOREM DefaultIsRetried == Spec => []DefaultRetried
<1>1. TimerInv => DefaultRetried
  BY DEF TimerInv
<1> QED
  BY <1>1, TimersHold, PTL

\* Requests for another service do not take a container down before its
\* grace period is over: neither handleAdmit, nor a grace tick, nor the chain
\* after a completed swap.
THEOREM GraceIsHonoured == Spec => GraceHonoured
<1> DEFINE Honoured ==
        state = "ACTIVE" /\ state' = "SWAPPING" /\ AnyQueued(queue')
        /\ budget' = budget /\ dockerEv' = dockerEv
        /\ (mgr = "chain" => adminPending \in {None, active}) => sinceStart >= Grace
<1>1. ASSUME Inv, TimerInv, [Next]_vars PROVE [Honoured]_vars
  <2> SUFFICES ASSUME Next, state = "ACTIVE", state' = "SWAPPING", AnyQueued(queue'),
                      budget' = budget, dockerEv' = dockerEv,
                      mgr = "chain" => adminPending \in {None, active}
               PROVE  sinceStart >= Grace
    BY <1>1
  <2>0. /\ TypeOK /\ WorkerInv /\ ChainInv
        /\ sinceStart \in 0 .. Grace /\ Grace \in Nat
        /\ ticks \subseteq [kind : Kinds, epoch : Nat, left : Int]
    BY <1>1, PoolAssumption DEF Inv, TypeOK, ManagerType, ClockType, TimerType
  <2>1. ASSUME NEW r \in Reqs, ClientNext(r) PROVE sinceStart >= Grace
    <3>1. CASE Submit(r)
      <4>1. AdmitQueued(svc[r], r)
        BY <3>1 DEF Submit, HandleAdmit, AdmitNow, AdmitFull, phaseVars
      <4> QED
        BY <4>1 DEF AdmitQueued, SwapNow, phaseVars
    <3>2. CASE Arrive(r) \/ Receive(r) \/ GiveUp(r) \/ Cancel(r) \/ Abandon(r)
      BY <3>2 DEF Arrive, Receive, GiveUp, Cancel, Abandon, HandleCancel, managerVars, phaseVars
    <3> QED
      BY <2>1, <3>1, <3>2 DEF ClientNext
  <2>2. ASSUME NEW w \in workers, HandleSwap(w) PROVE sinceStart >= Grace
    <3>1. mgr = "run" /\ w.op # opSeq
      BY <2>0, <2>2, CurrentWorker DEF HandleSwap, StaleReport, SwapComplete, SwapFailed,
         SwapHealthTimeout, PoolStopped, Reported
    <3> QED
      BY <2>2, <3>1 DEF HandleSwap, StaleReport, SwapComplete, SwapFailed,
         SwapHealthTimeout, PoolStopped, managerVars, phaseVars
  <2>3. CASE ChainAfterComplete
    <3>1. ChainAfterTerminal(TRUE, active, queue, workers) /\ adminPending \in {None, active}
          /\ sinceStart = 0
      BY <2>0, <2>3 DEF ChainAfterComplete, ChainInv
    <3>2. ~(Grace > 0)
      BY <3>1 DEF ChainAfterTerminal, Become
    <3> QED
      BY <2>0, <3>1, <3>2
  <2>4. ASSUME NEW t \in ticks, HandleTick(t) PROVE sinceStart >= Grace
    <3>1. mgr = "run" /\ queue' = queue /\ t.left <= 0 /\ t.left \in Int
      BY <2>0, <2>4 DEF HandleTick, queueVars
    <3>2. ~CooldownExpired(t)
      BY <3>1 DEF CooldownExpired
    <3>3. GraceTick(t)
      BY <2>4, <3>2 DEF HandleTick, StaleTick, RetryTick, DeferCooldown, IdleTick, phaseVars
    <3>4. sinceStart = Grace \/ t.left + sinceStart >= Grace
      BY <1>1, <3>1, <3>3 DEF GraceTick, TimerInv, GraceNotEarly
    <3> QED
      BY <2>0, <3>1, <3>4
  <2>5. CASE HandleActivity \/ Close \/ Shutdown
    BY <2>5 DEF HandleActivity, Close, Shutdown, Become, managerVars, phaseVars
  <2>6. CASE (\E s \in Services : HandleAdminSwap(s)) \/ HandleAdminStop
    <3>1. Spend("admin")
      BY <2>6 DEF HandleAdminSwap, HandleAdminStop
    <3>2. budget \in [BudgetKinds -> Nat] /\ "admin" \in BudgetKinds
      BY <2>0 DEF TypeOK, DockerType, BudgetKinds
    <3>3. budget'["admin"] = budget["admin"] - 1 /\ budget["admin"] \in Nat
      BY <3>1, <3>2 DEF Spend
    <3> QED
      BY <3>3
  <2>7. CASE HandleExternalEvent
    <3>1. dockerEv # << >> /\ dockerEv = Tail(dockerEv) /\ dockerEv \in Seq(Event)
      BY <2>0, <2>7 DEF HandleExternalEvent, TypeOK, ManagerType, InboxType
    <3> QED
      BY <3>1, TailDiffers
  <2>8. CASE WorkersNext \/ OutsideNext \/ Tick \/ (WatcherNext /\ UNCHANGED clientVars)
    BY <2>8 DEF WorkersNext, OutsideNext, Tick, WatcherNext, Route, Notify, Resubscribe,
       managerVars, phaseVars
  <2> QED
    BY <2>1, <2>2, <2>3, <2>4, <2>5, <2>6, <2>7, <2>8 DEF Next, ManagerNext
<1> QED
  BY <1>1, InvHolds, TimersHold, PTL DEF Spec, GraceHonoured
=============================================================================
