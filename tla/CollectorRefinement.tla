------------------------ MODULE CollectorRefinement ------------------------
(***************************************************************************)
(* Collector implements what its users rely on: CollectorControl, from which *)
(* Session is built, and BoardFeed, the feed from the hooks to the display.  *)
(* For every number of threads, capacity and bound.                         *)
(***************************************************************************)
EXTENDS CollectorSession, SequenceTheorems

\* g_lState is 1 exactly while a start is under way, and 1 or 2 while its worker is at
\* work; a stop that waits has set the stop event.
ClaimSteps == StarterSteps \cup {"startRunning"}

ControlKnows ==
    /\ \A c \in Callers : cpc[c] \in ClaimSteps => state = 1
    /\ state = 1 => apiLock \in Callers /\ cpc[apiLock] \in ClaimSteps
    /\ wpc \notin {"none", "exit"} => state \in {1, 2}
    /\ \A c \in Callers : cpc[c] = "stopWait" => hStop = "set"

\* Nothing is queued and nothing can be.
Idle == count = 0 /\ ~collect /\ \A p \in Producers : ppc[p] # "store"

\* A session is claimed, numbered and prepared in an idle collector. A start that fails
\* after collection was on leaves boards behind, and state 5, which no start gets past.
IdleSteps   == {"startLock", "startReset", "startPrepare", "startPublish", "startHook",
                "startCollect"}
FailSteps   == {"fail", "failUnhook", "failPublish", "failEnd"}
NumberedSteps == {"startPrepare", "startPublish", "startHook", "startCollect", "startThread"}

FeedKnows ==
    /\ state \in {0, 4} /\ hWorker # "running" => Idle
    /\ \A c \in Callers :
          /\ cpc[c] \in IdleSteps => Idle
          /\ cpc[c] \in FailSteps /\ ~hookLibrary => Idle
          /\ cpc[c] \in {"startCollect", "startThread"} => hookLibrary
          /\ cpc[c] \in NumberedSteps => epoch # 0
    /\ wpc # "none" => epoch # 0

\* Both copies of the history are newest first and of one session.
HistoriesNewestFirst == NewestFirst(display.history) /\ NewestFirst(snapshot.history)

-----------------------------------------------------------------------------

\* Game threads leave everything alone but the ring, the counters and themselves.
LEMMA ProducersLeave ==
    ASSUME NEW p \in Producers, BoardEnter(p) \/ ProducerStep(p)
    PROVE  UNCHANGED <<sessionVars, apiLock, workerVars, callerVars, display, snapVars>>
BY DEF ProducerStep, BoardEnter, BoardTake, BoardNumber, PushCheck, PushTry, PushContended,
       PushRecheck, PushStore, PushFull

\* Readers only hold the snapshot lock.
LEMMA ReadersLeave ==
    ASSUME NEW r \in Readers, SnapshotBegin(r) \/ SnapshotEnd(r)
    PROVE  UNCHANGED <<sessionVars, apiLock, queueLock, queueVars, producerVars, workerVars,
                       callerVars, display, snapshot>>
BY DEF SnapshotBegin, SnapshotEnd

\* The worker's steps that change neither state nor handles nor the end of its run.
LEMMA WorkerLeaves ==
    ASSUME WorkerStep
    PROVE  /\ UNCHANGED <<apiLock, callerVars, epoch, hStop, hooksCreated>>
           /\ WorkerFinish \/ UNCHANGED state
           /\ WorkerExit \/ UNCHANGED hWorker
           /\ WorkerStopped \/ UNCHANGED collect
           /\ WorkerUnhook \/ UNCHANGED <<hooks, stopError>>
BY DEF WorkerStep, WorkerTick, WorkerStopped, WorkerLock, WorkerFenced, WorkerUnhook, WorkerPop,
       WorkerEmpty, WorkerShow, WorkerStats, WorkerPublish, WorkerBusy, WorkerPublished,
       WorkerFinish, WorkerExit, sessionVars, callerVars

\* Only its own steps bring the worker back to none and exit.
LEMMA WorkerAtWork ==
    ASSUME WorkerStep
    PROVE  /\ wpc # "none"
           /\ wpc = "exit" => WorkerExit
           /\ WorkerFinish \/ WorkerExit \/ wpc' \notin {"none", "exit"}
BY DEF WorkerStep, WorkerTick, WorkerStopped, WorkerLock, WorkerFenced, WorkerUnhook, WorkerPop,
       WorkerEmpty, WorkerShow, WorkerStats, WorkerPublish, WorkerBusy, WorkerPublished,
       WorkerFinish, WorkerExit, AfterPublish, PublishingSteps, workerVars

\* The state says where the start and the worker are.
LEMMA ControlKnowsStep == TypeOK /\ SessionInv /\ ControlKnows /\ [Next]_vars => ControlKnows'
<1> SUFFICES ASSUME TypeOK, SessionInv, ControlKnows, [Next]_vars PROVE ControlKnows'
  OBVIOUS
<1>0. /\ cpc \in [Callers -> CallerSteps] /\ apiLock \in Callers \cup {NoOne}
      /\ NoOne \notin Callers
      /\ \A c \in Callers : cpc[c] # "idle" <=> apiLock = c
      /\ wpc # "none" <=> hWorker = "running"
      /\ \A c \in Callers : cpc[c] \in StarterSteps => hWorker = "null"
      /\ \A c \in Callers : cpc[c] = "startRunning" => Looping
  BY OwnersAssumption DEF TypeOK, StepType, LockType, SessionInv, LockOwners, WorkerKnows,
     CallerKnows
<1> USE DEF ClaimSteps, StarterSteps, CallerSteps
<1>1. ASSUME UNCHANGED <<state, apiLock, callerVars, hStop, wpc>> PROVE ControlKnows'
  BY <1>1 DEF ControlKnows, callerVars
<1>2. ASSUME NEW p \in Producers, BoardEnter(p) \/ ProducerStep(p) PROVE ControlKnows'
  BY <1>1, <1>2, ProducersLeave DEF sessionVars, workerVars
<1>3. CASE WorkerStep
  <2>1. UNCHANGED <<apiLock, callerVars, hStop>> /\ wpc # "none"
    BY <1>3, WorkerLeaves, WorkerAtWork
  <2>2. CASE WorkerFinish
    <3>1. wpc = "finish" /\ wpc' = "exit" /\ state' \in {4, 5}
      BY <2>2 DEF WorkerFinish
    <3>2. \A c \in Callers : cpc[c] \notin ClaimSteps
      BY <1>0, <3>1 DEF Looping, DrainSteps
    <3> QED BY <2>1, <3>1, <3>2 DEF ControlKnows, callerVars
  <2>3. CASE WorkerExit
    <3>1. wpc' = "none" /\ state' = state
      BY <2>3 DEF WorkerExit
    <3> QED BY <2>1, <3>1 DEF ControlKnows, callerVars
  <2>4. CASE ~(WorkerFinish \/ WorkerExit)
    <3>1. state' = state /\ wpc # "exit"
      BY <1>3, <2>4, WorkerLeaves, WorkerAtWork
    <3> QED BY <2>1, <3>1 DEF ControlKnows, callerVars
  <2> QED BY <2>2, <2>3, <2>4
<1>4. ASSUME NEW c \in Callers, CallerCalls(c) \/ CallerStep(c) PROVE ControlKnows'
  <2>1. CASE StartEnter(c)
    BY <1>0, <2>1 DEF StartEnter, Goto, ControlKnows, sessionVars, workerVars
  <2>2. CASE StopSignal(c)
    BY <1>0, <2>2 DEF StopSignal, Goto, ControlKnows, workerVars
  <2>3. CASE ApiBusy(c) \/ StopNotReady(c)
    BY <1>0, <2>3 DEF ApiBusy, StopNotReady, Return, ControlKnows, sessionVars, workerVars
  <2>4. CASE StartRefused(c) \/ StopDone(c) \/ StopTimeout(c)
    BY <1>0, <2>4 DEF StartRefused, StopDone, StopTimeout, Return, ControlKnows, sessionVars,
          workerVars
  <2>5. CASE StartClaim(c)
    BY <1>0, <2>5 DEF StartClaim, Goto, ControlKnows, workerVars
  <2>6. CASE StartThread(c)
    BY <1>0, <2>6 DEF StartThread, Goto, ControlKnows
  <2>7. CASE StartRunning(c)
    BY <1>0, <2>7 DEF StartRunning, Return, ControlKnows, workerVars
  <2>8. CASE FailEnd(c)
    <3>1. hWorker = "null" /\ wpc' = "none" /\ state' \in {0, 4, 5} /\ hStop' = hStop
      BY <1>0, <2>8 DEF FailEnd, workerVars, TypeOK, SessionType
    <3>2. \A d \in Callers : cpc'[d] = "idle"
      BY <1>0, <2>8 DEF FailEnd, Return
    <3> QED BY <3>1, <3>2 DEF ControlKnows
  <2>9. CASE \/ StartLock(c) \/ StartReset(c) \/ StartInvalid(c) \/ StartPrepare(c)
             \/ CallerPublish(c) \/ CallerBusy(c) \/ CallerPublished(c) \/ StartNoLibrary(c)
             \/ StartHookFails(c) \/ StartHook(c) \/ StartCollect(c) \/ FailUncollect(c)
             \/ FailUnhook(c)
    <3>1. /\ UNCHANGED <<state, apiLock, wpc>>
          /\ cpc[c] \in StarterSteps
          /\ cpc' = cpc \/ \E step \in StarterSteps : cpc' = [cpc EXCEPT ![c] = step]
      BY <2>9 DEF StartLock, StartReset, StartInvalid, StartPrepare, CallerPublish, CallerBusy,
         CallerPublished, StartNoLibrary, StartHookFails, StartHook, StartCollect, FailUncollect,
         FailUnhook, Goto, AfterCallerPublish, sessionVars, workerVars, callerVars
    <3>2. \A d \in Callers : cpc'[d] # "stopWait"
      BY <1>0, <3>1
    <3> QED BY <1>0, <3>1, <3>2 DEF ControlKnows
  <2> QED BY <1>4, <2>1, <2>2, <2>3, <2>4, <2>5, <2>6, <2>7, <2>8, <2>9 DEF CallerCalls, CallerStep
<1>5. ASSUME NEW r \in Readers, SnapshotBegin(r) \/ SnapshotEnd(r) PROVE ControlKnows'
  BY <1>1, <1>5, ReadersLeave DEF sessionVars, workerVars
<1>6. CASE UNCHANGED vars
  BY <1>1, <1>6 DEF vars, sessionVars, workerVars
<1> QED BY <1>2, <1>3, <1>4, <1>5, <1>6 DEF Next

\* Every step of the collector is a step of the control, or leaves its words alone.
LEMMA ControlStep ==
    ASSUME TypeOK, SessionInv, ControlKnows, [Next]_vars
    PROVE  Control!Next \/ UNCHANGED <<apiLock, ControlWorker, state = 5>>
<1>0. /\ \A c \in Callers : cpc[c] # "idle" => apiLock = c
      /\ wpc # "none" <=> hWorker = "running"
      /\ \A c \in Callers : cpc[c] \in StarterSteps => hWorker = "null"
      /\ hWorker \in {"null", "running", "exited"} /\ state \in {0, 1, 2, 4, 5}
      /\ wpc # "none" => Looping \/ hStop = "set"
  BY DEF TypeOK, SessionType, SessionInv, LockOwners, WorkerKnows, CallerKnows
<1> USE DEF ControlWorker, ClaimSteps, StarterSteps, CallerSteps
<1>1. ASSUME UNCHANGED <<state, apiLock, hStop, hWorker>>
      PROVE  UNCHANGED <<apiLock, ControlWorker, state = 5>>
  BY <1>1
<1>2. ASSUME NEW p \in Producers, BoardEnter(p) \/ ProducerStep(p)
      PROVE  UNCHANGED <<apiLock, ControlWorker, state = 5>>
  BY <1>1, <1>2, ProducersLeave DEF sessionVars
<1>3. CASE WorkerStep
  <2>1. UNCHANGED <<apiLock, hStop>>
    BY <1>3, WorkerLeaves
  <2>2. CASE WorkerFinish
    <3>1. hWorker = "running" /\ hStop = "set" /\ state \in {1, 2} /\ state' \in {4, 5}
          /\ hWorker' = hWorker
      BY <1>0, <2>2 DEF WorkerFinish, ControlKnows, Looping, DrainSteps
    <3>2. CASE state' = 5
      BY <2>1, <3>1, <3>2 DEF Control!Next, Control!WorkerFails
    <3>3. CASE state' = 4
      BY <2>1, <3>1, <3>3
    <3> QED BY <3>1, <3>2, <3>3
  <2>3. CASE WorkerExit
    <3>1. hWorker = "running" /\ hStop = "set" /\ hWorker' = "exited" /\ state' = state
      BY <1>0, <2>3 DEF WorkerExit, Looping, DrainSteps
    <3> QED BY <2>1, <3>1 DEF Control!Next, Control!WorkerEnds
  <2>4. CASE ~(WorkerFinish \/ WorkerExit)
    BY <1>1, <1>3, <2>1, <2>4, WorkerLeaves
  <2> QED BY <2>2, <2>3, <2>4
<1>4. ASSUME NEW c \in Callers, CallerCalls(c) \/ CallerStep(c)
      PROVE  Control!Next \/ UNCHANGED <<apiLock, ControlWorker, state = 5>>
  <2>1. CASE StartEnter(c)
    BY <2>1 DEF StartEnter, sessionVars, Control!Next, Control!StartBegin
  <2>2. CASE StopSignal(c)
    BY <1>0, <2>2 DEF StopSignal, Control!Next, Control!StopSignal
  <2>3. CASE ApiBusy(c) \/ StopNotReady(c)
    BY <1>1, <2>3 DEF ApiBusy, StopNotReady, sessionVars
  <2>4. CASE StartRefused(c)
    <3>1. apiLock = c /\ apiLock' = NoOne /\ UNCHANGED <<state, hStop, hWorker>>
          /\ (state \notin {0, 4} \/ hWorker = "running")
      BY <1>0, <2>4 DEF StartRefused, sessionVars
    <3>2. state = 5 \/ hWorker = "running"
      <4>1. state # 1
        BY <2>4, <3>1 DEF StartRefused, ControlKnows
      <4>2. state = 2 => hWorker = "running"
        BY DEF SessionInv, StateKnows
      <4> QED BY <1>0, <3>1, <4>1, <4>2
    <3> QED BY <3>1, <3>2 DEF Control!Next, Control!StartRefused
  <2>5. CASE StopDone(c)
    BY <1>0, <2>5 DEF StopDone, sessionVars, Control!Next, Control!StopDone
  <2>6. CASE StopTimeout(c)
    BY <1>0, <2>6 DEF StopTimeout, sessionVars, ControlKnows, Control!Next, Control!StopTimeout
  <2>7. CASE StartClaim(c)
    BY <1>0, <2>7 DEF StartClaim, Control!Next, Control!StartClaim
  <2>8. CASE StartThread(c)
    <3>1. apiLock = c /\ state = 1 /\ hWorker = "null" /\ hStop = "reset"
      BY <1>0, <2>8 DEF StartThread, ControlKnows, SessionInv, CallerKnows, CleanSteps
    <3>2. UNCHANGED <<state, hStop, apiLock>> /\ hWorker' \in {"running", hWorker}
      BY <2>8 DEF StartThread
    <3> QED BY <3>1, <3>2 DEF Control!Next, Control!StartLaunch
  <2>9. CASE StartRunning(c)
    <3>1. apiLock = c /\ state = 1 /\ hWorker = "running"
      BY <1>0, <2>9 DEF StartRunning, ControlKnows, SessionInv, CallerKnows, Looping, DrainSteps
    <3> QED BY <2>9, <3>1 DEF StartRunning, Control!Next, Control!StartOk
  <2>10. CASE FailEnd(c)
    <3>1. apiLock = c /\ state = 1 /\ hWorker = "null"
      BY <1>0, <2>10 DEF FailEnd, ControlKnows
    <3> QED BY <2>10, <3>1 DEF FailEnd, Control!Next, Control!StartFailed
  <2>11. CASE StartPrepare(c)
    <3>1. hWorker = "null" /\ hWorker' = hWorker /\ UNCHANGED <<apiLock, state>>
      BY <1>0, <2>11 DEF StartPrepare
    <3> QED BY <3>1
  <2>12. CASE \/ StartLock(c) \/ StartReset(c) \/ StartInvalid(c)
              \/ CallerPublish(c) \/ CallerBusy(c) \/ CallerPublished(c) \/ StartNoLibrary(c)
              \/ StartHookFails(c) \/ StartHook(c) \/ StartCollect(c) \/ FailUncollect(c)
              \/ FailUnhook(c)
    BY <1>1, <2>12 DEF StartLock, StartReset, StartInvalid, CallerPublish, CallerBusy,
       CallerPublished, StartNoLibrary, StartHookFails, StartHook, StartCollect, FailUncollect,
       FailUnhook, sessionVars
  <2> QED BY <1>4, <2>1, <2>2, <2>3, <2>4, <2>5, <2>6, <2>7, <2>8, <2>9, <2>10, <2>11, <2>12
          DEF CallerCalls, CallerStep
<1>5. ASSUME NEW r \in Readers, SnapshotBegin(r) \/ SnapshotEnd(r)
      PROVE  UNCHANGED <<apiLock, ControlWorker, state = 5>>
  BY <1>1, <1>5, ReadersLeave DEF sessionVars
<1>6. CASE UNCHANGED vars
  BY <1>1, <1>6 DEF vars, sessionVars
<1> QED BY <1>2, <1>3, <1>4, <1>5, <1>6 DEF Next

\* CollectorStart and CollectorStop implement the control Session is built from: one worker
\* at a time, none before the last has ended, a failure that touched the hooks is final.
THEOREM CollectorImplementsControl == Spec => ImplementsControl
<1>1. Init => Control!Init /\ ControlKnows
  BY OwnersAssumption DEF Init, Control!Init, ControlWorker, ControlKnows, ClaimSteps, StarterSteps
<1>2. TypeOK /\ SessionInv /\ ControlKnows /\ [Next]_vars
         => [Control!Next]_<<apiLock, ControlWorker, state = 5>>
  BY ControlStep
<1>3. Control!controlVars = <<apiLock, ControlWorker, state = 5>>
  BY DEF Control!controlVars
<1> QED BY TypeCorrect, SessionCorrect, ControlKnowsStep, <1>1, <1>2, <1>3, PTL
        DEF Spec, ImplementsControl, Control!Spec, Control!controlVars

-----------------------------------------------------------------------------

\* An event newer than the newest board shown is newer than every board shown.
LEMMA NewerThanShown ==
    ASSUME NEW e \in Event, display.history \in Seq(Event), NewestFirst(display.history), IsNewer(e)
    PROVE  \A i \in DOMAIN display.history : e.seq > display.history[i].seq
<1> DEFINE h == display.history
<1> SUFFICES ASSUME NEW i \in DOMAIN h PROVE e.seq > h[i].seq
  OBVIOUS
<1>1. h \in Seq(Event) /\ DOMAIN h = 1..Len(h) /\ Len(h) \in Nat
  OBVIOUS
<1>2. 1 \in DOMAIN h /\ i \in DOMAIN h /\ h # << >>
  BY <1>1
<1>3. e.seq > h[1].seq
  BY <1>2 DEF IsNewer
<1>4. i = 1 \/ h[1].seq > h[i].seq
  BY <1>1, <1>2 DEF NewestFirst
<1>5. e.seq \in Nat /\ h[1].seq \in Nat /\ h[i].seq \in Nat
  <2>1. e \in Event /\ h[1] \in Event /\ h[i] \in Event
    BY <1>1, <1>2
  <2>2. \A x \in Event : x.seq \in Nat
    BY DEF Event
  <2> QED BY <2>1, <2>2
<1> QED BY <1>3, <1>4, <1>5

\* A newer board of the session in front of a newest-first history keeps it so.
LEMMA PushKeepsOrder ==
    ASSUME NEW e \in Event, display.history \in Seq(Event),
           NewestFirst(display.history), IsNewer(e),
           \A i \in DOMAIN display.history : display.history[i].epoch = e.epoch
    PROVE  NewestFirst(PushHistory(e))
<1> DEFINE h == display.history
           new == PushHistory(e)
<1>1. /\ DOMAIN new \subseteq 1..Len(h) + 1 /\ new[1] = e
      /\ \A i \in DOMAIN new : i > 1 => new[i] = h[i - 1]
  BY PushHistoryShape
<1>2. h \in Seq(Event) /\ DOMAIN h = 1..Len(h) /\ Len(h) \in Nat
  OBVIOUS
<1>3. \A i \in 1..Len(h) : e.seq > h[i].seq /\ e.epoch = h[i].epoch
  BY <1>2, NewerThanShown
<1> HIDE DEF h, new
<1> SUFFICES ASSUME NEW i \in DOMAIN new, NEW j \in DOMAIN new, i < j
             PROVE  new[i].seq > new[j].seq /\ new[i].epoch = new[j].epoch
  BY DEF NewestFirst, new
<1>4. i \in 1..Len(h) + 1 /\ j \in 1..Len(h) + 1 /\ new[j] = h[j - 1] /\ j - 1 \in 1..Len(h)
  BY <1>1, <1>2
<1>5. CASE i = 1
  BY <1>1, <1>3, <1>4, <1>5
<1>6. CASE i > 1
  <2>1. new[i] = h[i - 1] /\ i - 1 \in 1..Len(h) /\ i - 1 < j - 1
    BY <1>1, <1>2, <1>4, <1>6
  <2>2. h[i - 1].seq > h[j - 1].seq /\ h[i - 1].epoch = h[j - 1].epoch
    BY <1>2, <1>4, <2>1 DEF NewestFirst, h
  <2> QED BY <1>4, <2>1, <2>2
<1> QED BY <1>4, <1>5, <1>6

\* Only the worker adds to a history, and only PublishState copies one.
LEMMA HistoriesStep ==
    ASSUME TypeOK, SessionInv, HistoriesNewestFirst, [Next]_vars
    PROVE  HistoriesNewestFirst'
<1> USE DEF HistoriesNewestFirst
<1>0. display \in Display /\ snapshot \in Display /\ wEvent \in Event
  BY DEF TypeOK, DisplayType, EventType
<1>1. ASSUME display'.history = display.history,
             snapshot'.history \in {snapshot.history, display.history}
      PROVE  HistoriesNewestFirst'
  BY <1>1
<1>2. CASE WorkerShow
  <2>1. snapshot' = snapshot
    BY <1>2 DEF WorkerShow, snapVars
  <2>2. CASE display' = display
    BY <1>1, <2>1, <2>2
  <2>3. CASE IsNewer(wEvent) /\ display' = [display EXCEPT !.history = PushHistory(wEvent)]
    <3>1. display'.history = PushHistory(wEvent) /\ display.history \in Seq(Event)
      BY <1>0, <2>3 DEF Display
    <3>2. \A i \in DOMAIN display.history : display.history[i].epoch = wEvent.epoch
      BY <1>2 DEF WorkerShow, SessionInv, HistoryOfEpoch, WorkerKnows
    <3>3. NewestFirst(PushHistory(wEvent))
      BY <1>0, <2>3, <3>1, <3>2, PushKeepsOrder
    <3> QED BY <2>1, <3>1, <3>3
  <2> QED BY <1>2, <2>2, <2>3 DEF WorkerShow
<1>3. CASE WorkerStats
  BY <1>0, <1>1, <1>3 DEF WorkerStats, snapVars, Display
<1>4. ASSUME NEW c \in Callers, FailUnhook(c) PROVE HistoriesNewestFirst'
  BY <1>0, <1>1, <1>4 DEF FailUnhook, snapVars, Display
<1>5. ASSUME NEW c \in Callers, StartPrepare(c) PROVE HistoriesNewestFirst'
  <2>1. display'.history = << >> /\ snapshot' = snapshot
    BY <1>5 DEF StartPrepare, FreshDisplay, snapVars
  <2>2. NewestFirst(<< >>)
    BY DEF NewestFirst
  <2> QED BY <2>1, <2>2
<1>6. ASSUME display' = display, snapshot' \in {snapshot, display} PROVE HistoriesNewestFirst'
  BY <1>1, <1>6
<1>7. ASSUME NEW p \in Producers, BoardEnter(p) \/ ProducerStep(p) PROVE HistoriesNewestFirst'
  BY <1>6, <1>7, ProducersLeave DEF snapVars
<1>8. ASSUME WorkerStep, ~WorkerShow, ~WorkerStats PROVE HistoriesNewestFirst'
  BY <1>6, <1>8 DEF WorkerStep, WorkerTick, WorkerStopped, WorkerLock, WorkerFenced, WorkerUnhook,
     WorkerPop, WorkerEmpty, WorkerPublish, WorkerBusy, WorkerPublished, WorkerFinish, WorkerExit,
     PublishAcquire, PublishCopy, snapVars
<1>9. ASSUME NEW c \in Callers, CallerCalls(c) \/ CallerStep(c), ~FailUnhook(c), ~StartPrepare(c)
      PROVE  HistoriesNewestFirst'
  BY <1>6, <1>9 DEF CallerCalls, CallerStep, ApiBusy, StartEnter, StopNotReady, StopSignal,
     StartRefused, StartClaim, StartLock, StartReset, StartInvalid, CallerPublish, CallerBusy,
     CallerPublished, StartNoLibrary, StartHookFails, StartHook, StartCollect, StartThread,
     StartRunning, FailUncollect, FailEnd, StopDone, StopTimeout, PublishAcquire, PublishCopy,
     snapVars
<1>10. ASSUME NEW r \in Readers, SnapshotBegin(r) \/ SnapshotEnd(r) PROVE HistoriesNewestFirst'
  BY <1>6, <1>10, ReadersLeave
<1>11. CASE UNCHANGED vars
  BY <1>6, <1>11 DEF vars, snapVars
<1> QED BY <1>2, <1>3, <1>4, <1>5, <1>7, <1>8, <1>9, <1>10, <1>11 DEF Next

\* What CollectorGetSnapshot copies is newest first and of one session, though game threads
\* number their boards outside the queue lock and publications are skipped.
THEOREM SnapshotsAreOrdered == Spec => []SnapshotNewestFirst
<1>1. Init => HistoriesNewestFirst
  BY DEF Init, NoDisplay, HistoriesNewestFirst, NewestFirst
<1>2. HistoriesNewestFirst => SnapshotNewestFirst
  BY DEF HistoriesNewestFirst, SnapshotNewestFirst
<1> QED BY TypeCorrect, SessionCorrect, HistoriesStep, <1>1, <1>2, PTL DEF Spec

-----------------------------------------------------------------------------

\* Only StartCollect ends an idle spell: without collection no game thread gets past
\* PushEvent's checks.
LEMMA IdleStays ==
    ASSUME TypeOK, SessionInv, Idle, [Next]_vars, \A c \in Callers : ~StartCollect(c)
    PROVE  Idle'
<1> USE DEF Idle
<1>0. ppc \in [Producers -> ProducerSteps]
  BY DEF TypeOK, StepType
<1>1. ASSUME UNCHANGED <<count, ppc>>, collect' = collect \/ ~collect' PROVE Idle'
  BY <1>1
<1>2. ASSUME NEW p \in Producers, BoardEnter(p) \/ ProducerStep(p) PROVE Idle'
  <2>1. ~PushStore(p) /\ ~PushFull(p)
    BY DEF PushStore, PushFull
  <2>2. /\ count' = count /\ collect' = collect
        /\ \E s \in ProducerSteps \ {"store"} : ppc' = [ppc EXCEPT ![p] = s]
    BY <1>2, <2>1 DEF ProducerStep, BoardEnter, BoardTake, BoardNumber, PushCheck, PushTry,
       PushContended, PushRecheck, MayPush, sessionVars, queueVars, ProducerSteps
  <2> QED BY <1>0, <2>2
<1>3. CASE WorkerStep
  BY <1>1, <1>3 DEF WorkerStep, WorkerTick, WorkerStopped, WorkerLock, WorkerFenced, WorkerUnhook,
     WorkerPop, WorkerEmpty, WorkerShow, WorkerStats, WorkerPublish, WorkerBusy, WorkerPublished,
     WorkerFinish, WorkerExit, sessionVars, queueVars, producerVars
<1>4. ASSUME NEW c \in Callers, CallerCalls(c) \/ CallerStep(c) PROVE Idle'
  <2>1. (count' = count \/ count' = 0) /\ ppc' = ppc /\ (collect' = collect \/ ~collect')
    BY <1>4 DEF CallerCalls, CallerStep, ApiBusy, StartEnter, StopNotReady, StopSignal,
       StartRefused, StartClaim, StartLock, StartReset, StartInvalid, StartPrepare,
       CallerPublish, CallerBusy, CallerPublished, StartNoLibrary, StartHookFails, StartHook,
       StartThread, StartRunning, FailUncollect, FailUnhook, FailEnd, StopDone,
       StopTimeout, sessionVars, queueVars, producerVars
  <2> QED BY <2>1
<1>5. ASSUME NEW r \in Readers, SnapshotBegin(r) \/ SnapshotEnd(r) PROVE Idle'
  BY <1>1, <1>5, ReadersLeave DEF sessionVars, queueVars, producerVars
<1>6. CASE UNCHANGED vars
  BY <1>1, <1>6 DEF vars, sessionVars, queueVars, producerVars
<1> QED BY <1>2, <1>3, <1>4, <1>5, <1>6 DEF Next

\* The collector is idle from the end of a session until the next start collects.
LEMMA FeedKnowsStep ==
    TypeOK /\ SessionInv /\ ControlKnows /\ FeedKnows /\ [Next]_vars => FeedKnows'
<1> SUFFICES ASSUME TypeOK, SessionInv, ControlKnows, FeedKnows, [Next]_vars PROVE FeedKnows'
  OBVIOUS
<1>0. /\ cpc \in [Callers -> CallerSteps] /\ epoch \in Nat /\ prev \in {0, 4}
      /\ hookLibrary \in BOOLEAN /\ NoOne \notin Callers
      /\ \A c \in Callers : cpc[c] # "idle" <=> apiLock = c
      /\ wpc # "none" <=> hWorker = "running"
  BY OwnersAssumption DEF TypeOK, StepType, SessionType, SessionInv, LockOwners, WorkerKnows
<1>1. ASSUME NEW c \in Callers, StartCollect(c) PROVE FeedKnows'
  <2>1. /\ cpc[c] = "startCollect" /\ cpc' = [cpc EXCEPT ![c] = "startThread"]
        /\ UNCHANGED <<state, hWorker, epoch, hookLibrary, wpc>>
    BY <1>1 DEF StartCollect, Goto, workerVars
  <2>2. state = 1 /\ hookLibrary /\ epoch # 0 /\ \A d \in Callers : d # c => cpc[d] = "idle"
    BY <1>0, <2>1 DEF ControlKnows, FeedKnows, ClaimSteps, StarterSteps, CallerSteps, NumberedSteps
  <2> QED
    BY <1>0, <2>1, <2>2 DEF FeedKnows, IdleSteps, FailSteps, NumberedSteps
<1> SUFFICES ASSUME \A c \in Callers : ~StartCollect(c) PROVE FeedKnows'
  BY <1>1
<1>2. Idle => Idle'
  BY IdleStays
<1>3. ASSUME UNCHANGED <<state, hWorker, epoch, cpc, hookLibrary>>, wpc = "none" => wpc' = "none"
      PROVE  FeedKnows'
  BY <1>2, <1>3 DEF FeedKnows
<1>4. ASSUME NEW p \in Producers, BoardEnter(p) \/ ProducerStep(p) PROVE FeedKnows'
  BY <1>3, <1>4, ProducersLeave DEF sessionVars, workerVars, callerVars
<1>5. CASE WorkerStep
  <2>1. UNCHANGED <<epoch, cpc, hookLibrary>> /\ wpc # "none"
    BY <1>5, WorkerLeaves, WorkerAtWork DEF callerVars
  <2>2. state' \in {0, 4} /\ hWorker' # "running" => Idle'
    <3>1. CASE WorkerExit
      <4>1. hWorker' = "exited"
        BY <3>1 DEF WorkerExit
      <4>2. ExitedIsQuiet'
        BY ExitedStep
      <4> QED BY <4>1, <4>2 DEF ExitedIsQuiet, Idle
    <3>2. CASE ~WorkerExit
      BY <1>0, <1>5, <2>1, <3>2, WorkerLeaves
    <3> QED BY <3>1, <3>2
  <2> QED BY <1>2, <2>1, <2>2 DEF FeedKnows
<1>6. ASSUME NEW c \in Callers, CallerCalls(c) \/ CallerStep(c) PROVE FeedKnows'
  <2> USE DEF Goto, Return, IdleSteps, FailSteps, NumberedSteps
  <2>1. CASE ApiBusy(c) \/ StartEnter(c) \/ StopNotReady(c) \/ StopSignal(c)
    BY <1>0, <1>2, <2>1 DEF ApiBusy, StartEnter, StopNotReady, StopSignal, FeedKnows,
       sessionVars, workerVars
  <2>2. CASE StartRefused(c) \/ StopDone(c) \/ StopTimeout(c)
    BY <1>0, <1>2, <2>2 DEF StartRefused, StopDone, StopTimeout, FeedKnows, sessionVars, workerVars
  <2>3. CASE StartClaim(c)
    BY <1>0, <1>2, <2>3 DEF StartClaim, FeedKnows, workerVars
  <2>4. CASE StartReset(c)
    BY <1>0, <1>2, <2>4 DEF StartReset, FeedKnows, workerVars
  <2>5. CASE StartLock(c) \/ StartInvalid(c) \/ StartPrepare(c)
    BY <1>0, <1>2, <2>5 DEF StartLock, StartInvalid, StartPrepare, FeedKnows, sessionVars,
       workerVars
  <2>6. CASE CallerPublish(c)
    BY <1>3, <2>6 DEF CallerPublish, sessionVars, workerVars, callerVars
  <2>7. CASE CallerBusy(c) \/ CallerPublished(c)
    BY <1>0, <1>2, <2>7 DEF CallerBusy, CallerPublished, AfterCallerPublish, FeedKnows,
       sessionVars, workerVars
  <2>8. CASE StartNoLibrary(c) \/ StartHookFails(c) \/ StartHook(c)
    BY <1>0, <1>2, <2>8 DEF StartNoLibrary, StartHookFails, StartHook, FeedKnows, sessionVars,
       workerVars
  <2>9. CASE StartThread(c)
    BY <1>0, <1>2, <2>9 DEF StartThread, FeedKnows
  <2>10. CASE StartRunning(c)
    BY <1>0, <1>2, <2>10 DEF StartRunning, FeedKnows, workerVars
  <2>11. CASE FailUncollect(c) \/ FailUnhook(c)
    BY <1>0, <1>2, <2>11 DEF FailUncollect, FailUnhook, FeedKnows, workerVars
  <2>12. CASE FailEnd(c)
    BY <1>0, <1>2, <2>12 DEF FailEnd, FeedKnows, workerVars
  <2> QED BY <1>6, <2>1, <2>2, <2>3, <2>4, <2>5, <2>6, <2>7, <2>8, <2>9, <2>10, <2>11, <2>12
          DEF CallerCalls, CallerStep
<1>7. ASSUME NEW r \in Readers, SnapshotBegin(r) \/ SnapshotEnd(r) PROVE FeedKnows'
  BY <1>3, <1>7, ReadersLeave DEF sessionVars, workerVars, callerVars
<1>8. CASE UNCHANGED vars
  BY <1>3, <1>8 DEF vars, sessionVars, workerVars, callerVars
<1> QED BY <1>4, <1>5, <1>6, <1>7, <1>8 DEF Next

-----------------------------------------------------------------------------

\* The ring of s that starts at r and holds n events, oldest first.
RingSeq(s, r, n) == [i \in 1..n |-> s[(r + (i - 1)) % QueueCap]]

Ring == [0..QueueCap-1 -> Event]

\* Two different distances from the read index are two different places.
LEMMA RingPlaces ==
    ASSUME NEW r \in 0..QueueCap-1, NEW i \in 0..QueueCap-1, NEW j \in 0..QueueCap-1, i < j
    PROVE  (r + i) % QueueCap # (r + j) % QueueCap
<1>1. QueueCap \in Nat \ {0}
  BY QueueCapAssumption
<1>2. \A n \in 0..QueueCap-1 : n % QueueCap = n
  BY <1>1
<1>3. \A n \in QueueCap..(2 * QueueCap - 1) : n % QueueCap = n - QueueCap
  BY <1>1
<1>4. CASE r + j < QueueCap
  BY <1>1, <1>2, <1>4
<1>5. CASE r + j >= QueueCap /\ r + i < QueueCap
  <2>1. (r + j) % QueueCap = r + j - QueueCap /\ (r + i) % QueueCap = r + i
    BY <1>1, <1>2, <1>3, <1>5
  <2> QED BY <1>1, <2>1
<1>6. CASE r + i >= QueueCap
  <2>1. (r + j) % QueueCap = r + j - QueueCap /\ (r + i) % QueueCap = r + i - QueueCap
    BY <1>1, <1>3, <1>6
  <2> QED BY <1>1, <2>1
<1> QED BY <1>1, <1>4, <1>5, <1>6

LEMMA RingSeqShape ==
    ASSUME NEW s \in Ring, NEW r \in 0..QueueCap-1, NEW n \in 0..QueueCap
    PROVE  /\ RingSeq(s, r, n) \in Seq(Event)
           /\ Len(RingSeq(s, r, n)) = n
           /\ \A i \in 1..n : RingSeq(s, r, n)[i] = s[(r + (i - 1)) % QueueCap]
<1>1. \A i \in 1..n : s[(r + (i - 1)) % QueueCap] \in Event
  BY QueueCapAssumption DEF Ring
<1>2. n \in Nat
  BY QueueCapAssumption
<1> QED BY <1>1, <1>2 DEF RingSeq

\* A store behind the last event appends.
LEMMA RingAppend ==
    ASSUME NEW s \in Ring, NEW r \in 0..QueueCap-1, NEW n \in 0..QueueCap-1, NEW e \in Event
    PROVE  RingSeq([s EXCEPT ![(r + n) % QueueCap] = e], r, n + 1) = Append(RingSeq(s, r, n), e)
<1> DEFINE tail == (r + n) % QueueCap
           stored == [s EXCEPT ![tail] = e]
           new == RingSeq(stored, r, n + 1)
           old == RingSeq(s, r, n)
<1>1. tail \in 0..QueueCap-1 /\ n \in 0..QueueCap /\ n + 1 \in 1..QueueCap /\ n \in Nat
  BY QueueCapAssumption
<1>2. stored \in Ring /\ stored[tail] = e /\ \A k \in 0..QueueCap-1 : k # tail => stored[k] = s[k]
  BY <1>1 DEF Ring
<1>3. /\ old \in Seq(Event) /\ Len(old) = n
      /\ \A i \in 1..n : old[i] = s[(r + (i - 1)) % QueueCap]
  BY <1>1, RingSeqShape
<1> HIDE DEF old, stored
<1>4. /\ new \in Seq(Event) /\ Len(new) = n + 1
      /\ \A i \in 1..n + 1 : new[i] = stored[(r + (i - 1)) % QueueCap]
  <2>1. n + 1 \in 0..QueueCap
    BY <1>1
  <2> QED BY <1>2, <2>1, RingSeqShape
<1> HIDE DEF new
<1>5. /\ Append(old, e) \in Seq(Event) /\ Len(Append(old, e)) = n + 1
      /\ Append(old, e)[n + 1] = e
      /\ \A i \in 1..n : Append(old, e)[i] = old[i]
  BY <1>1, <1>3, AppendProperties
<1>6. ASSUME NEW i \in 1..n + 1 PROVE new[i] = Append(old, e)[i]
  <2>1. CASE i = n + 1
    <3>1. (r + (i - 1)) % QueueCap = tail
      BY <1>1, <2>1
    <3> QED BY <1>2, <1>4, <1>5, <2>1, <3>1
  <2>2. CASE i \in 1..n
    <3>1. (r + (i - 1)) % QueueCap # tail /\ (r + (i - 1)) % QueueCap \in 0..QueueCap-1
      BY <1>1, <2>2, RingPlaces, QueueCapAssumption
    <3> QED BY <1>2, <1>3, <1>4, <1>5, <2>2, <3>1
  <2>3. i = n + 1 \/ i \in 1..n
    BY <1>1
  <2> QED BY <2>1, <2>2, <2>3
<1>7. new = Append(old, e)
  BY <1>4, <1>5, <1>6, SeqEqual
<1> QED BY <1>7 DEF new, old, stored

\* Reading the head and stepping the read index takes the oldest event.
LEMMA RingTail ==
    ASSUME NEW s \in Ring, NEW r \in 0..QueueCap-1, NEW n \in 1..QueueCap
    PROVE  /\ RingSeq(s, r, n) # << >>
           /\ Head(RingSeq(s, r, n)) = s[r]
           /\ RingSeq(s, (r + 1) % QueueCap, n - 1) = Tail(RingSeq(s, r, n))
<1> DEFINE next == (r + 1) % QueueCap
           old == RingSeq(s, r, n)
           new == RingSeq(s, next, n - 1)
<1>1. next \in 0..QueueCap-1 /\ n \in 0..QueueCap /\ n - 1 \in 0..QueueCap /\ r % QueueCap = r
  BY QueueCapAssumption
<1>2. /\ old \in Seq(Event) /\ Len(old) = n
      /\ \A i \in 1..n : old[i] = s[(r + (i - 1)) % QueueCap]
  BY <1>1, RingSeqShape
<1>3. /\ new \in Seq(Event) /\ Len(new) = n - 1
      /\ \A i \in 1..n - 1 : new[i] = s[(next + (i - 1)) % QueueCap]
  BY <1>1, RingSeqShape
<1>4. \A i \in 1..n - 1 : (next + (i - 1)) % QueueCap = (r + i) % QueueCap
  <2> SUFFICES ASSUME NEW i \in 1..n - 1
               PROVE  (next + (i - 1)) % QueueCap = (r + i) % QueueCap
    OBVIOUS
  <2>1. i - 1 \in 0..QueueCap-1 /\ (i - 1) + 1 = i
    BY QueueCapAssumption
  <2> QED BY <2>1, RingStep
<1> HIDE DEF new, old, next
<1>5. old # << >> /\ old[1] = s[r]
  <2>1. r + (1 - 1) = r /\ 1 \in 1..n
    BY QueueCapAssumption
  <2> QED BY <1>1, <1>2, <2>1
<1>6. Head(old) = s[r]
  BY <1>2, <1>5
<1>7. /\ Tail(old) \in Seq(Event) /\ Len(Tail(old)) = n - 1
      /\ \A i \in 1..n - 1 : Tail(old)[i] = old[i + 1]
  BY <1>2, <1>5, HeadTailProperties
<1>8. ASSUME NEW i \in 1..n - 1 PROVE new[i] = Tail(old)[i]
  <2>1. i + 1 \in 1..n /\ (i + 1) - 1 = i
    BY <1>1
  <2>2. old[i + 1] = s[(r + i) % QueueCap]
    BY <1>2, <2>1
  <2> QED BY <1>3, <1>4, <1>7, <2>2
<1>9. new = Tail(old)
  BY <1>3, <1>7, <1>8, SeqEqual
<1> QED BY <1>5, <1>6, <1>9 DEF new, old, next

-----------------------------------------------------------------------------

FeedVars == <<epoch, FeedOpen, FeedQueue, FeedTaken, display.history>>

\* The feed's queue is the ring read from its head.
LEMMA FeedQueueIsRing ==
    ASSUME TypeOK
    PROVE  /\ FeedQueue = RingSeq(slots, read, count) /\ FeedQueue' = RingSeq(slots', read', count')
           /\ slots \in Ring /\ read \in 0..QueueCap-1 /\ count \in 0..QueueCap
           /\ FeedQueue \in Seq(Event) /\ Len(FeedQueue) = count
           /\ count = 0 => FeedQueue = << >>
<1>1. FeedQueue = RingSeq(slots, read, count) /\ FeedQueue' = RingSeq(slots', read', count')
  BY DEF FeedQueue, Queued, RingIndex, RingSeq
<1>2. slots \in Ring /\ read \in 0..QueueCap-1 /\ count \in 0..QueueCap
  BY DEF TypeOK, QueueType, Ring
<1>3. FeedQueue \in Seq(Event) /\ Len(FeedQueue) = count
  BY <1>1, <1>2, RingSeqShape
<1>4. count = 0 => FeedQueue = << >>
  BY <1>3
<1> QED BY <1>1, <1>2, <1>3, <1>4

\* PushEvent's store is the board entering the feed.
LEMMA StoreEnters ==
    ASSUME TypeOK, SessionInv, NEW p \in Producers, PushStore(p)
    PROVE  Feed!Enter
<1>1. /\ slots' = [slots EXCEPT ![(read + count) % QueueCap] = board[p]]
      /\ read' = read /\ count' = count + 1 /\ count # QueueCap /\ ppc[p] = "store"
      /\ UNCHANGED <<epoch, wpc, wEvent, display>>
  BY DEF PushStore, RingIndex, sessionVars, workerVars
<1>2. board[p] \in Event /\ board[p].epoch = epoch
  BY <1>1 DEF TypeOK, EventType, SessionInv, StateKnows
<1>3. count \in 0..QueueCap-1 /\ count \in Nat
  BY <1>1, QueueCapAssumption DEF TypeOK, QueueType
<1>4. FeedQueue' = Append(FeedQueue, board[p])
  <2>1. FeedQueue = RingSeq(slots, read, count) /\ FeedQueue' = RingSeq(slots', read, count + 1)
    BY <1>1, FeedQueueIsRing
  <2>2. slots \in Ring /\ read \in 0..QueueCap-1
    BY FeedQueueIsRing
  <2>3. RingSeq(slots', read, count + 1) = Append(RingSeq(slots, read, count), board[p])
    BY <1>1, <1>2, <1>3, <2>2, RingAppend
  <2> QED BY <2>1, <2>3
<1>5. FeedQueue \in Seq(Event) /\ Len(FeedQueue) = count
  BY FeedQueueIsRing
<1>6. Len(FeedQueue') = count + 1 /\ FeedQueue'[count + 1] = board[p]
  BY <1>2, <1>3, <1>4, <1>5, AppendProperties
<1>7. Len(FeedQueue) < QueueCap
  BY <1>3, <1>5, QueueCapAssumption
<1>8. FeedOpen /\ FeedOpen' \in BOOLEAN
  BY <1>1 DEF FeedOpen
<1>9. UNCHANGED <<epoch, FeedTaken, display.history>>
  BY <1>1 DEF FeedTaken
<1> QED BY <1>2, <1>4, <1>5, <1>6, <1>7, <1>8, <1>9 DEF Feed!Enter

\* PopEvent takes the oldest board.
LEMMA PopTakes ==
    ASSUME TypeOK, SessionInv, WorkerPop
    PROVE  Feed!Take
<1>1. /\ wpc = "popped" /\ wpc' = "show" /\ wEvent' = slots[read] /\ slots' = slots
      /\ read' = (read + 1) % QueueCap /\ count' = count - 1 /\ count # 0
      /\ UNCHANGED <<epoch, collect, ppc, display>>
  BY DEF WorkerPop, sessionVars, producerVars
<1>2. count \in 1..QueueCap
  BY <1>1, QueueCapAssumption DEF TypeOK, QueueType
<1>3. FeedQueue # << >> /\ Head(FeedQueue) = slots[read] /\ FeedQueue' = Tail(FeedQueue)
  BY <1>1, <1>2, FeedQueueIsRing, RingTail
<1>4. FeedTaken = NoEvent /\ FeedTaken' = slots[read]
  BY <1>1 DEF FeedTaken
<1>5. FeedOpen' = FeedOpen
  BY <1>1 DEF FeedOpen
<1> QED BY <1>1, <1>3, <1>4, <1>5 DEF Feed!Take

\* What PushHistory makes of the display.
LEMMA PushHistoryIsFeed ==
    ASSUME NEW e \in Event, display.history \in Seq(Event), Len(display.history) <= HistoryCap
    PROVE  /\ \E n \in 0..HistoryCap-1 : PushHistory(e) = <<e>> \o SubSeq(display.history, 1, n)
           /\ Len(PushHistory(e)) = IF Len(display.history) < HistoryCap
                                    THEN Len(display.history) + 1 ELSE HistoryCap
<1> DEFINE h == display.history
           longer == <<e>> \o h
<1>1. /\ Len(h) \in Nat /\ HistoryCap \in Nat \ {0} /\ h \in Seq(Event)
      /\ longer \in Seq(Event) /\ Len(longer) = Len(h) + 1 /\ longer[1] = e
      /\ \A i \in 1..Len(longer) : i > 1 => longer[i] = h[i - 1]
  BY HistoryCapAssumption
<1> HIDE DEF longer
<1>2. CASE Len(h) < HistoryCap
  <2>1. PushHistory(e) = longer
    BY <1>1, <1>2 DEF PushHistory, longer
  <2>2. SubSeq(h, 1, Len(h)) = h
    BY <1>1
  <2>3. PushHistory(e) = <<e>> \o SubSeq(h, 1, Len(h))
    BY <2>1, <2>2 DEF longer
  <2>4. Len(h) \in 0..HistoryCap-1
    BY <1>1, <1>2
  <2> QED BY <1>1, <1>2, <2>1, <2>3, <2>4
<1>3. CASE ~(Len(h) < HistoryCap)
  <2> DEFINE kept == SubSeq(h, 1, HistoryCap - 1)
             short == SubSeq(longer, 1, HistoryCap)
             front == <<e>> \o kept
  <2>1. Len(h) = HistoryCap /\ PushHistory(e) = short
    BY <1>1, <1>3 DEF PushHistory, longer
  <2>2. /\ short \in Seq(Event) /\ Len(short) = HistoryCap
        /\ \A i \in 1..HistoryCap : short[i] = longer[i]
    BY <1>1, <2>1
  <2>3. /\ kept \in Seq(Event) /\ Len(kept) = HistoryCap - 1
        /\ \A i \in 1..HistoryCap - 1 : kept[i] = h[i]
    BY <1>1, <2>1
  <2> HIDE DEF kept, short
  <2>4. /\ front \in Seq(Event) /\ Len(front) = HistoryCap /\ front[1] = e
        /\ \A i \in 1..HistoryCap : i > 1 => front[i] = kept[i - 1]
    BY <1>1, <2>3
  <2> HIDE DEF front
  <2>5. ASSUME NEW i \in 1..HistoryCap PROVE short[i] = front[i]
    <3>1. CASE i = 1
      BY <1>1, <2>1, <2>2, <2>4, <3>1
    <3>2. CASE i > 1
      <4>1. i - 1 \in 1..HistoryCap - 1 /\ i \in 1..Len(longer)
        BY <1>1, <2>1, <3>2
      <4> QED BY <1>1, <2>2, <2>3, <2>4, <3>2, <4>1
    <3>3. i = 1 \/ i > 1
      BY <1>1
    <3> QED BY <3>1, <3>2, <3>3
  <2>6. short = front
    BY <2>2, <2>4, <2>5, SeqEqual
  <2>7. HistoryCap - 1 \in 0..HistoryCap-1
    BY <1>1
  <2> QED BY <1>3, <2>1, <2>2, <2>6, <2>7 DEF front, kept
<1> QED BY <1>2, <1>3

\* The display never holds more boards than HUD_HISTORY_COUNT.
HistoryFits == Len(display.history) <= HistoryCap

LEMMA HistoryFitsStep == TypeOK /\ HistoryFits /\ [Next]_vars => HistoryFits'
<1> SUFFICES ASSUME TypeOK, HistoryFits, [Next]_vars PROVE HistoryFits'
  OBVIOUS
<1>0. display \in Display /\ display.history \in Seq(Event) /\ wEvent \in Event
  BY DEF TypeOK, DisplayType, EventType, Display
<1>1. ASSUME display'.history = display.history PROVE HistoryFits'
  BY <1>1 DEF HistoryFits
<1>2. CASE WorkerShow
  <2>1. display' = display \/ display'.history = PushHistory(wEvent)
    BY <1>0, <1>2 DEF WorkerShow, Display
  <2>2. Len(PushHistory(wEvent)) <= HistoryCap
    <3>1. Len(PushHistory(wEvent)) = IF Len(display.history) < HistoryCap
                                     THEN Len(display.history) + 1 ELSE HistoryCap
      BY <1>0, PushHistoryIsFeed DEF HistoryFits
    <3>2. Len(display.history) \in Nat /\ HistoryCap \in Nat
      BY <1>0, HistoryCapAssumption
    <3> QED BY <3>1, <3>2
  <2> QED BY <1>1, <2>1, <2>2 DEF HistoryFits
<1>3. CASE WorkerStats
  <2>1. display'.history = display.history
    BY <1>0, <1>3 DEF WorkerStats, Display
  <2> QED BY <1>1, <2>1
<1>4. ASSUME NEW c \in Callers, CallerCalls(c) \/ CallerStep(c) PROVE HistoryFits'
  <2>1. CASE StartPrepare(c)
    BY <2>1, HistoryCapAssumption DEF StartPrepare, FreshDisplay, HistoryFits
  <2>2. CASE FailUnhook(c)
    BY <1>0, <1>1, <2>2 DEF FailUnhook, Display
  <2>3. CASE ~StartPrepare(c) /\ ~FailUnhook(c)
    BY <1>1, <1>4, <2>3 DEF CallerCalls, CallerStep, ApiBusy, StartEnter, StopNotReady,
       StopSignal, StartRefused, StartClaim, StartLock, StartReset, StartInvalid,
       CallerPublish, CallerBusy, CallerPublished, StartNoLibrary, StartHookFails, StartHook,
       StartCollect, StartThread, StartRunning, FailUncollect, FailEnd, StopDone, StopTimeout
  <2> QED BY <2>1, <2>2, <2>3
<1>5. ASSUME WorkerStep, ~WorkerShow, ~WorkerStats PROVE HistoryFits'
  BY <1>1, <1>5 DEF WorkerStep, WorkerTick, WorkerStopped, WorkerLock, WorkerFenced, WorkerUnhook,
     WorkerPop, WorkerEmpty, WorkerPublish, WorkerBusy, WorkerPublished, WorkerFinish, WorkerExit
<1>6. ASSUME NEW p \in Producers, BoardEnter(p) \/ ProducerStep(p) PROVE HistoryFits'
  BY <1>1, <1>6, ProducersLeave
<1>7. ASSUME NEW r \in Readers, SnapshotBegin(r) \/ SnapshotEnd(r) PROVE HistoryFits'
  BY <1>1, <1>7, ReadersLeave
<1>8. CASE UNCHANGED vars
  BY <1>1, <1>8 DEF vars
<1> QED BY <1>2, <1>3, <1>4, <1>5, <1>6, <1>7, <1>8 DEF Next

\* DrainQueue's body finishes the board that was taken.
LEMMA ShowFinishes ==
    ASSUME TypeOK, SessionInv, FeedKnows, HistoriesNewestFirst, HistoryFits, WorkerShow
    PROVE  Feed!Finish
<1>0. display \in Display /\ display.history \in Seq(Event) /\ wEvent \in Event
  BY DEF TypeOK, DisplayType, EventType, Display
<1>1. /\ wpc = "show" /\ wpc' \in {"pop", "pubBoard"}
      /\ UNCHANGED <<epoch, collect, ppc, slots, read, count>>
  BY DEF WorkerShow, sessionVars, queueVars, producerVars
<1>2. wEvent.epoch = epoch /\ epoch # 0
  BY <1>1 DEF SessionInv, WorkerKnows, FeedKnows
<1>3. FeedTaken = wEvent /\ FeedTaken' = NoEvent /\ wEvent # NoEvent
  BY <1>1, <1>2 DEF FeedTaken, NoEvent
<1>4. FeedQueue' = FeedQueue
  BY <1>1, FeedQueueIsRing
<1>5. FeedOpen' = FeedOpen
  BY <1>1 DEF FeedOpen
<1>6. CASE ~wEvent.valid /\ display' = display
  BY <1>1, <1>3, <1>4, <1>5, <1>6 DEF Feed!Finish
<1>7. CASE wEvent.valid /\ ~IsNewer(wEvent) /\ display' = display
  <2>1. display.history # << >> /\ ~(wEvent.seq > display.history[1].seq)
    BY <1>7 DEF IsNewer
  <2>2. 1 \in DOMAIN display.history /\ display.history[1] \in Event
    BY <1>0, <2>1
  <2>3. wEvent.seq <= display.history[1].seq
    BY <1>0, <2>1, <2>2 DEF Event
  <2> QED BY <1>1, <1>3, <1>4, <1>5, <1>7, <2>2, <2>3 DEF Feed!Finish
<1>8. CASE /\ wEvent.valid /\ IsNewer(wEvent)
           /\ display' = [display EXCEPT !.history = PushHistory(wEvent)]
  <2>1. display'.history = PushHistory(wEvent)
    BY <1>0, <1>8 DEF Display
  <2>2. \A i \in DOMAIN display.history : display.history[i].epoch = epoch
    BY <1>1 DEF SessionInv, HistoryOfEpoch
  <2>3. \A i \in DOMAIN display.history : wEvent.seq > display.history[i].seq
    BY <1>0, <1>8, NewerThanShown DEF HistoriesNewestFirst
  <2>4. /\ \E n \in 0..HistoryCap-1 :
              PushHistory(wEvent) = <<wEvent>> \o SubSeq(display.history, 1, n)
        /\ Len(PushHistory(wEvent)) = IF Len(display.history) < HistoryCap
                                      THEN Len(display.history) + 1 ELSE HistoryCap
    BY <1>0, PushHistoryIsFeed DEF HistoryFits
  <2> QED BY <1>1, <1>3, <1>4, <1>5, <1>8, <2>1, <2>2, <2>3, <2>4 DEF Feed!Finish
<1> QED BY <1>6, <1>7, <1>8 DEF WorkerShow

\* Every step of the collector is a step of the feed or none.
LEMMA FeedStep ==
    ASSUME TypeOK, SessionInv, ControlKnows, FeedKnows, HistoriesNewestFirst, HistoryFits,
           [Next]_vars
    PROVE  Feed!Next \/ UNCHANGED FeedVars
<1> USE DEF FeedVars
<1>0. /\ cpc \in [Callers -> CallerSteps] /\ epoch \in Nat
      /\ wpc # "none" <=> hWorker = "running"
      /\ \A c \in Callers : cpc[c] \in StarterSteps => hWorker = "null"
      /\ \A p \in Producers : ppc \in [Producers -> ProducerSteps]
  BY DEF TypeOK, StepType, SessionType, SessionInv, WorkerKnows, CallerKnows
<1>1. Idle => ~FeedOpen /\ FeedQueue = << >>
  BY FeedQueueIsRing DEF Idle, FeedOpen
<1>2. ASSUME UNCHANGED <<epoch, slots, read, count, display.history>>, FeedTaken' = FeedTaken,
             FeedOpen' => FeedOpen
      PROVE  Feed!Close \/ UNCHANGED FeedVars
  <2>1. FeedQueue' = FeedQueue
    BY <1>2, FeedQueueIsRing
  <2>2. CASE FeedOpen /\ ~FeedOpen'
    <3>1. FeedOpen' = FALSE
      BY <2>2
    <3> QED BY <1>2, <2>1, <2>2, <3>1 DEF Feed!Close
  <2>3. CASE FeedOpen /\ FeedOpen'
    <3>1. FeedOpen' = FeedOpen
      BY <2>3 DEF FeedOpen
    <3> QED BY <1>2, <2>1, <3>1
  <2>4. CASE ~FeedOpen /\ ~FeedOpen'
    <3>1. FeedOpen' = FeedOpen
      BY <2>4 DEF FeedOpen
    <3> QED BY <1>2, <2>1, <3>1
  <2> QED BY <1>2, <2>2, <2>3, <2>4
<1> USE DEF Feed!Next
<1>3. ASSUME UNCHANGED <<epoch, slots, read, count, ppc, wpc, wEvent>>,
             display'.history = display.history, collect' = collect \/ ~collect'
      PROVE  Feed!Close \/ UNCHANGED FeedVars
  <2>1. FeedTaken' = FeedTaken
    BY <1>3 DEF FeedTaken
  <2>2. FeedOpen' => FeedOpen
    BY <1>3 DEF FeedOpen
  <2> QED BY <1>2, <1>3, <2>1, <2>2
<1>4. ASSUME NEW p \in Producers, BoardEnter(p) \/ ProducerStep(p)
      PROVE  Feed!Next \/ UNCHANGED FeedVars
  <2>1. CASE PushStore(p)
    BY <2>1, StoreEnters
  <2>2. CASE ~PushStore(p)
    <3>1. /\ UNCHANGED <<slots, read, count, collect>>
          /\ \E s \in ProducerSteps :
                /\ ppc' = [ppc EXCEPT ![p] = s]
                /\ s = "store" => collect
      BY <1>4, <2>2 DEF ProducerStep, BoardEnter, BoardTake, BoardNumber, PushCheck, PushTry,
         PushContended, PushRecheck, PushFull, MayPush, sessionVars, queueVars, ProducerSteps
    <3>2. UNCHANGED <<epoch, wpc, wEvent, display>>
      BY <1>4, ProducersLeave DEF sessionVars, workerVars
    <3>3. FeedTaken' = FeedTaken
      BY <3>2 DEF FeedTaken
    <3>4. FeedOpen' => FeedOpen
      BY <1>0, <3>1 DEF FeedOpen
    <3> QED BY <1>2, <3>1, <3>2, <3>3, <3>4
  <2> QED BY <2>1, <2>2
<1>5. CASE WorkerStep
  <2>1. CASE WorkerPop
    BY <2>1, PopTakes
  <2>2. CASE WorkerShow
    BY <2>2, ShowFinishes
  <2>3. CASE ~WorkerPop /\ ~WorkerShow
    <3>1. UNCHANGED <<epoch, slots, read, count, ppc>> /\ (collect' = collect \/ ~collect')
      BY <1>5, <2>3 DEF WorkerStep, WorkerTick, WorkerStopped, WorkerLock, WorkerFenced,
         WorkerUnhook, WorkerEmpty, WorkerStats, WorkerPublish, WorkerBusy,
         WorkerPublished, WorkerFinish, WorkerExit, sessionVars, queueVars, producerVars
    <3>2. wpc # "show" /\ wpc' # "show"
      BY <1>5, <2>3 DEF WorkerStep, WorkerTick, WorkerStopped, WorkerLock, WorkerFenced,
         WorkerUnhook, WorkerEmpty, WorkerStats, WorkerPublish, WorkerBusy, WorkerPublished,
         WorkerFinish, WorkerExit, AfterPublish, PublishingSteps, workerVars
    <3>3. display'.history = display.history
      <4>1. CASE WorkerStats
        BY <4>1 DEF WorkerStats, TypeOK, DisplayType, Display
      <4>2. CASE ~WorkerStats
        BY <1>5, <2>3, <4>2 DEF WorkerStep, WorkerTick, WorkerStopped, WorkerLock, WorkerFenced,
           WorkerUnhook, WorkerEmpty, WorkerPublish, WorkerBusy, WorkerPublished, WorkerFinish,
           WorkerExit
      <4> QED BY <4>1, <4>2
    <3>4. FeedTaken' = FeedTaken
      BY <3>2 DEF FeedTaken
    <3>5. FeedOpen' => FeedOpen
      BY <3>1 DEF FeedOpen
    <3> QED BY <1>2, <3>1, <3>3, <3>4, <3>5
  <2> QED BY <2>1, <2>2, <2>3
<1>6. ASSUME NEW c \in Callers, CallerCalls(c) \/ CallerStep(c)
      PROVE  Feed!Next \/ UNCHANGED FeedVars
  <2>1. CASE StartReset(c)
    <3>1. /\ epoch' = epoch + 1 /\ read' = 0 /\ count' = 0 /\ cpc[c] = "startReset"
          /\ UNCHANGED <<collect, slots, ppc, wpc, wEvent, display>>
      BY <2>1 DEF StartReset, producerVars, workerVars
    <3>2. Idle /\ wpc = "none"
      BY <1>0, <3>1 DEF FeedKnows, IdleSteps, StarterSteps, CallerSteps
    <3>3. FeedQueue' = << >>
      <4>1. FeedQueue' = [i \in 1..0 |-> slots'[(read' + (i - 1)) % QueueCap]]
        BY <3>1, FeedQueueIsRing DEF RingSeq
      <4> QED BY <4>1
    <3>4. FeedOpen' = FeedOpen
      BY <3>1 DEF FeedOpen
    <3>5. FeedTaken = NoEvent /\ FeedTaken' = FeedTaken
      BY <3>1, <3>2 DEF FeedTaken
    <3> QED BY <1>1, <3>1, <3>2, <3>3, <3>4, <3>5 DEF Feed!Renew
  <2>2. CASE StartPrepare(c)
    <3>1. /\ cpc[c] = "startPrepare" /\ display'.history = << >>
          /\ UNCHANGED <<epoch, collect, slots, read, count, ppc, wpc, wEvent>>
      BY <2>2 DEF StartPrepare, FreshDisplay, queueVars, producerVars, workerVars
    <3>2. Idle
      BY <3>1 DEF FeedKnows, IdleSteps
    <3>3. FeedQueue' = FeedQueue
      BY <3>1, FeedQueueIsRing
    <3>4. FeedOpen' = FeedOpen /\ FeedTaken' = FeedTaken
      BY <3>1 DEF FeedOpen, FeedTaken
    <3> QED BY <1>1, <3>1, <3>2, <3>3, <3>4 DEF Feed!Clear
  <2>3. CASE StartCollect(c)
    <3>1. /\ cpc[c] = "startCollect" /\ collect' = TRUE
          /\ UNCHANGED <<epoch, slots, read, count, ppc, wpc, wEvent, display>>
      BY <2>3 DEF StartCollect, queueVars, producerVars, workerVars
    <3>2. Idle
      BY <3>1 DEF FeedKnows, IdleSteps
    <3>3. FeedQueue' = FeedQueue
      BY <3>1, FeedQueueIsRing
    <3>4. FeedOpen' = TRUE /\ FeedTaken' = FeedTaken
      BY <3>1 DEF FeedOpen, FeedTaken
    <3> QED BY <1>1, <3>1, <3>2, <3>3, <3>4 DEF Feed!Open
  <2>4. CASE StartThread(c)
    <3>1. /\ cpc[c] = "startThread" /\ wpc' \in {wpc, "wait"}
          /\ UNCHANGED <<epoch, collect, slots, read, count, ppc, display>>
      BY <2>4 DEF StartThread, queueVars, producerVars
    <3>2. wpc = "none"
      BY <1>0, <3>1 DEF StarterSteps, CallerSteps
    <3>3. FeedTaken' = FeedTaken
      BY <3>1, <3>2 DEF FeedTaken
    <3>4. FeedOpen' => FeedOpen
      BY <3>1 DEF FeedOpen
    <3> QED BY <1>2, <3>1, <3>3, <3>4
  <2>5. CASE FailUnhook(c)
    <3>1. /\ display'.history = display.history
          /\ UNCHANGED <<epoch, collect, slots, read, count, ppc, wpc, wEvent>>
      BY <2>5 DEF FailUnhook, queueVars, producerVars, workerVars, TypeOK, DisplayType, Display
    <3> QED BY <1>3, <3>1
  <2>6. CASE ~(\/ StartReset(c) \/ StartPrepare(c) \/ StartCollect(c) \/ StartThread(c)
               \/ FailUnhook(c))
    <3>1. /\ UNCHANGED <<epoch, slots, read, count, ppc, wpc, wEvent, display>>
          /\ collect' = collect \/ ~collect'
      BY <1>6, <2>6 DEF CallerCalls, CallerStep, ApiBusy, StartEnter, StopNotReady,
         StopSignal, StartRefused, StartClaim, StartLock, StartInvalid,
         CallerPublish, CallerBusy, CallerPublished, StartNoLibrary, StartHookFails, StartHook,
         StartRunning, FailUncollect, FailEnd, StopDone, StopTimeout, sessionVars, queueVars,
         producerVars, workerVars
    <3> QED BY <1>3, <3>1
  <2> QED BY <2>1, <2>2, <2>3, <2>4, <2>5, <2>6
<1>7. ASSUME NEW r \in Readers, SnapshotBegin(r) \/ SnapshotEnd(r)
      PROVE  Feed!Next \/ UNCHANGED FeedVars
  BY <1>3, <1>7, ReadersLeave DEF sessionVars, queueVars, producerVars, workerVars
<1>8. CASE UNCHANGED vars
  BY <1>3, <1>8 DEF vars, sessionVars, queueVars, producerVars, workerVars
<1> QED BY <1>4, <1>5, <1>6, <1>7, <1>8 DEF Next

\* The ring, the epoch check and the display implement the feed: boards come out in the
\* order they went in, none is lost once queued or shown twice, none crosses a session.
THEOREM CollectorImplementsFeed == Spec => ImplementsFeed
<1>1. Init => Feed!Init
  <2> SUFFICES ASSUME Init PROVE Feed!Init
    OBVIOUS
  <2>1. FeedQueue = << >>
    <3>1. FeedQueue = [i \in 1..0 |-> Queued(i - 1)]
      BY DEF Init, FeedQueue
    <3> QED BY <3>1
  <2>2. ~FeedOpen /\ FeedTaken = NoEvent /\ epoch = 0 /\ display.history = << >>
    BY DEF Init, FeedOpen, FeedTaken, NoDisplay
  <2> QED BY <2>1, <2>2 DEF Feed!Init
<1>2. Init => ControlKnows
  BY OwnersAssumption DEF Init, ControlKnows, ClaimSteps, StarterSteps
<1>3. Init => FeedKnows
  BY DEF Init, FeedKnows, Idle, IdleSteps, FailSteps, NumberedSteps
<1>4. Init => HistoriesNewestFirst /\ HistoryFits
  BY HistoryCapAssumption DEF Init, NoDisplay, HistoriesNewestFirst, NewestFirst, HistoryFits
<1>5. TypeOK /\ SessionInv /\ ControlKnows /\ FeedKnows /\ HistoriesNewestFirst /\ HistoryFits
         /\ [Next]_vars => [Feed!Next]_FeedVars
  BY FeedStep
<1>6. Feed!vars = FeedVars
  BY DEF Feed!vars, FeedVars
<1> QED BY TypeCorrect, SessionCorrect, ControlKnowsStep, FeedKnowsStep, HistoriesStep,
           HistoryFitsStep, <1>1, <1>2, <1>3, <1>4, <1>5, <1>6, PTL
        DEF Spec, ImplementsFeed, Feed!Spec, Feed!vars, FeedVars

=============================================================================
