-------------------------- MODULE CollectorProofs --------------------------
(***************************************************************************)
(* Proofs about Collector, for every number of threads, capacity and bound. *)
(***************************************************************************)
EXTENDS Collector, TLAPS

\* Advancing an index of the ring by one and wrapping it is stepping the ring.
LEMMA RingStep ==
    ASSUME NEW r \in 0..QueueCap-1, NEW i \in 0..QueueCap-1
    PROVE  /\ (r + i) % QueueCap \in 0..QueueCap-1
           /\ (((r + 1) % QueueCap) + i) % QueueCap = (r + (i + 1)) % QueueCap
<1>1. QueueCap \in Nat \ {0}
  BY QueueCapAssumption
<1>2. (r + i) % QueueCap \in 0..QueueCap-1
  BY <1>1
<1>3. CASE r + 1 < QueueCap
  <2>1. (r + 1) % QueueCap = r + 1
    BY <1>1, <1>3
  <2> QED BY <1>1, <1>2, <2>1
<1>4. CASE r + 1 = QueueCap
  <2>1. (r + 1) % QueueCap = 0
    BY <1>1, <1>4
  <2>2. i % QueueCap = i
    BY <1>1
  <2>3. (r + (i + 1)) % QueueCap = i
    BY <1>1, <1>4
  <2> QED BY <1>1, <1>2, <2>1, <2>2, <2>3
<1> QED BY <1>1, <1>3, <1>4

LEMMA SessionTypeStep == TypeOK /\ [Next]_vars => SessionType'
<1> SUFFICES ASSUME TypeOK, [Next]_vars PROVE SessionType'
  OBVIOUS
<1> USE DEF TypeOK, SessionType, sessionVars, queueVars, counterVars, producerVars,
    workerVars, callerVars, snapVars
<1>1. ASSUME NEW p \in Producers, BoardEnter(p) \/ ProducerStep(p) PROVE SessionType'
  BY <1>1 DEF ProducerStep, BoardEnter, BoardTake, BoardNumber, PushCheck, PushTry,
      PushContended, PushRecheck, PushStore, PushFull, NoEvent, MayPush, RingIndex
<1>2. CASE WorkerStep
  BY <1>2 DEF WorkerStep, WorkerTick, WorkerStopped, WorkerLock, WorkerFenced, WorkerUnhook,
      WorkerPop, WorkerEmpty, WorkerShow, WorkerStats, WorkerPublish, WorkerBusy,
      WorkerPublished, WorkerFinish, WorkerExit, NoEvent, PushHistory, IsNewer,
      PublishAcquire, AfterPublish, PublishBusy, PublishingSteps, PublishCopy
<1>3. ASSUME NEW c \in Callers, CallerCalls(c) \/ CallerStep(c) PROVE SessionType'
  <2>1. CASE StopSignal(c)
    BY <2>1 DEF StopSignal, Goto
  <2>2. CASE StartClaim(c)
    BY <2>2 DEF StartClaim, Goto
  <2>3. CASE StartReset(c)
    BY <2>3 DEF StartReset, Goto
  <2>4. CASE StartPrepare(c)
    BY <2>4 DEF StartPrepare, FreshDisplay, NoDisplay, Goto
  <2>5. CASE StartHookFails(c)
    BY <2>5 DEF StartHookFails, Goto
  <2>6. CASE StartHook(c)
    BY <2>6 DEF StartHook, Goto
  <2>7. CASE StartCollect(c)
    BY <2>7 DEF StartCollect, Goto
  <2>8. CASE StartThread(c)
    BY <2>8 DEF StartThread, Goto
  <2>9. CASE StartRunning(c)
    BY <2>9 DEF StartRunning, Return
  <2>10. CASE FailUncollect(c)
    BY <2>10 DEF FailUncollect, Goto
  <2>11. CASE FailUnhook(c)
    BY <2>11 DEF FailUnhook, Goto
  <2>12. CASE FailEnd(c)
    BY <2>12 DEF FailEnd, Return
  <2>13. CASE ApiBusy(c) \/ StartEnter(c) \/ StopNotReady(c) \/ StartRefused(c) \/
            StartLock(c) \/ StartInvalid(c) \/ CallerPublish(c) \/ CallerBusy(c) \/
            CallerPublished(c) \/ StartNoLibrary(c) \/ StopDone(c) \/ StopTimeout(c)
    BY <2>13 DEF ApiBusy, StartEnter, StopNotReady, StartRefused, StartLock, StartInvalid,
        CallerPublish, CallerBusy, CallerPublished, StartNoLibrary, StopDone, StopTimeout,
        Return, Goto, PublishAcquire, AfterCallerPublish, PublishBusy, PublishCopy
  <2> QED BY <1>3, <2>1, <2>2, <2>3, <2>4, <2>5, <2>6, <2>7, <2>8, <2>9, <2>10, <2>11, <2>12, <2>13 DEF CallerCalls, CallerStep
<1>4. ASSUME NEW r \in Readers, SnapshotBegin(r) \/ SnapshotEnd(r) PROVE SessionType'
  BY <1>4 DEF SnapshotBegin, SnapshotEnd
<1>5. CASE UNCHANGED vars
  BY <1>5 DEF vars
<1> QED BY <1>1, <1>2, <1>3, <1>4, <1>5 DEF Next

LEMMA LockTypeStep == TypeOK /\ [Next]_vars => LockType'
<1> SUFFICES ASSUME TypeOK, [Next]_vars PROVE LockType'
  OBVIOUS
<1> USE DEF TypeOK, LockType, sessionVars, queueVars, counterVars, producerVars, workerVars,
    callerVars, snapVars
<1>1. ASSUME NEW p \in Producers, BoardEnter(p) \/ ProducerStep(p) PROVE LockType'
  BY <1>1 DEF ProducerStep, BoardEnter, BoardTake, BoardNumber, PushCheck, PushTry,
      PushContended, PushRecheck, PushStore, PushFull, NoEvent, MayPush, RingIndex
<1>2. CASE WorkerStep
  BY <1>2 DEF WorkerStep, WorkerTick, WorkerStopped, WorkerLock, WorkerFenced, WorkerUnhook,
      WorkerPop, WorkerEmpty, WorkerShow, WorkerStats, WorkerPublish, WorkerBusy,
      WorkerPublished, WorkerFinish, WorkerExit, NoEvent, PushHistory, IsNewer,
      PublishAcquire, AfterPublish, PublishBusy, PublishingSteps, PublishCopy
<1>3. ASSUME NEW c \in Callers, CallerCalls(c) \/ CallerStep(c) PROVE LockType'
  BY <1>3 DEF CallerCalls, CallerStep, ApiBusy, StartEnter, StopNotReady, StopSignal,
      StartRefused, StartClaim, StartLock, StartReset, StartInvalid, StartPrepare,
      CallerPublish, CallerBusy, CallerPublished, StartNoLibrary, StartHookFails, StartHook,
      StartCollect, StartThread, StartRunning, FailUncollect, FailUnhook, FailEnd, StopDone,
      StopTimeout, Return, Goto, FreshDisplay, NoDisplay, PublishAcquire, AfterCallerPublish,
      PublishBusy, PublishCopy
<1>4. ASSUME NEW r \in Readers, SnapshotBegin(r) \/ SnapshotEnd(r) PROVE LockType'
  BY <1>4 DEF SnapshotBegin, SnapshotEnd
<1>5. CASE UNCHANGED vars
  BY <1>5 DEF vars
<1> QED BY <1>1, <1>2, <1>3, <1>4, <1>5 DEF Next

LEMMA QueueTypeStep == TypeOK /\ [Next]_vars => QueueType'
<1> SUFFICES ASSUME TypeOK, [Next]_vars PROVE QueueType'
  OBVIOUS
<1> USE QueueCapAssumption DEF TypeOK, QueueType, EventType, sessionVars, queueVars,
    counterVars, producerVars, workerVars, callerVars, snapVars
<1>1. ASSUME NEW p \in Producers, BoardEnter(p) \/ ProducerStep(p) PROVE QueueType'
  <2>1. CASE BoardNumber(p)
    BY <2>1 DEF BoardNumber, RingIndex
  <2>2. CASE PushContended(p)
    BY <2>2 DEF PushContended, RingIndex
  <2>3. CASE PushStore(p)
    BY <2>3 DEF PushStore, RingIndex
  <2>4. CASE PushFull(p)
    BY <2>4 DEF PushFull, RingIndex
  <2>5. CASE BoardEnter(p) \/ BoardTake(p) \/ PushCheck(p) \/ PushTry(p) \/ PushRecheck(p)
    BY <2>5 DEF BoardEnter, BoardTake, PushCheck, PushTry, PushRecheck, NoEvent, MayPush,
        RingIndex
  <2> QED BY <1>1, <2>1, <2>2, <2>3, <2>4, <2>5 DEF ProducerStep
<1>2. CASE WorkerStep
  <2>1. CASE WorkerPop
    BY <2>1 DEF WorkerPop
  <2>2. CASE WorkerShow
    BY <2>2 DEF WorkerShow, PushHistory, IsNewer
  <2>3. CASE WorkerTick \/ WorkerStopped \/ WorkerLock \/ WorkerFenced \/ WorkerUnhook \/
            WorkerEmpty \/ WorkerStats \/ WorkerPublish \/ WorkerBusy \/ WorkerPublished \/
            WorkerFinish \/ WorkerExit
    BY <2>3 DEF WorkerTick, WorkerStopped, WorkerLock, WorkerFenced, WorkerUnhook,
        WorkerEmpty, WorkerStats, WorkerPublish, WorkerBusy, WorkerPublished, WorkerFinish,
        WorkerExit, NoEvent, PublishAcquire, AfterPublish, PublishBusy, PublishingSteps,
        PublishCopy
  <2> QED BY <1>2, <2>1, <2>2, <2>3 DEF WorkerStep
<1>3. ASSUME NEW c \in Callers, CallerCalls(c) \/ CallerStep(c) PROVE QueueType'
  BY <1>3 DEF CallerCalls, CallerStep, ApiBusy, StartEnter, StopNotReady, StopSignal,
      StartRefused, StartClaim, StartLock, StartReset, StartInvalid, StartPrepare,
      CallerPublish, CallerBusy, CallerPublished, StartNoLibrary, StartHookFails, StartHook,
      StartCollect, StartThread, StartRunning, FailUncollect, FailUnhook, FailEnd, StopDone,
      StopTimeout, Return, Goto, FreshDisplay, NoDisplay, PublishAcquire, AfterCallerPublish,
      PublishBusy, PublishCopy
<1>4. ASSUME NEW r \in Readers, SnapshotBegin(r) \/ SnapshotEnd(r) PROVE QueueType'
  BY <1>4 DEF SnapshotBegin, SnapshotEnd
<1>5. CASE UNCHANGED vars
  BY <1>5 DEF vars
<1> QED BY <1>1, <1>2, <1>3, <1>4, <1>5 DEF Next

LEMMA EventTypeStep == TypeOK /\ [Next]_vars => EventType'
<1> SUFFICES ASSUME TypeOK, [Next]_vars PROVE EventType'
  OBVIOUS
<1> USE DEF TypeOK, EventType, QueueType, SessionType, sessionVars, queueVars,
    counterVars, producerVars, workerVars, callerVars, snapVars
<1>1. ASSUME NEW p \in Producers, BoardEnter(p) \/ ProducerStep(p) PROVE EventType'
  <2>1. CASE BoardEnter(p)
    <3>1. [NoEvent EXCEPT !.epoch = epoch] \in Event
      BY DEF NoEvent, Event
    <3> QED BY <2>1, <3>1 DEF BoardEnter
  <2>2. CASE BoardTake(p)
    <3>1. \A valid \in BOOLEAN : [board[p] EXCEPT !.valid = valid] \in Event
      BY DEF Event
    <3> QED BY <2>2, <3>1 DEF BoardTake
  <2>3. CASE BoardNumber(p)
    <3>1. [board[p] EXCEPT !.seq = sequence + 1] \in Event
      BY DEF Event
    <3> QED BY <2>3, <3>1 DEF BoardNumber
  <2>4. CASE PushCheck(p) \/ PushTry(p) \/ PushContended(p) \/ PushRecheck(p) \/ PushStore(p)
            \/ PushFull(p)
    BY <2>4 DEF PushCheck, PushTry, PushContended, PushRecheck, PushStore, PushFull, MayPush,
        RingIndex
  <2> QED BY <1>1, <2>1, <2>2, <2>3, <2>4 DEF ProducerStep
<1>2. CASE WorkerStep
  <2>1. CASE WorkerPop
    BY <2>1 DEF WorkerPop
  <2>2. CASE WorkerEmpty
    BY <2>2 DEF WorkerEmpty, NoEvent, Event
  <2>3. CASE WorkerTick \/ WorkerStopped \/ WorkerLock \/ WorkerFenced \/ WorkerUnhook \/
            WorkerShow \/ WorkerStats \/ WorkerPublish \/ WorkerBusy \/ WorkerPublished \/
            WorkerFinish \/ WorkerExit
    BY <2>3 DEF WorkerTick, WorkerStopped, WorkerLock, WorkerFenced, WorkerUnhook, WorkerShow,
        WorkerStats, WorkerPublish, WorkerBusy, WorkerPublished, WorkerFinish, WorkerExit,
        PushHistory, IsNewer, PublishAcquire, AfterPublish, PublishBusy, PublishingSteps,
        PublishCopy
  <2> QED BY <1>2, <2>1, <2>2, <2>3 DEF WorkerStep
<1>3. ASSUME NEW c \in Callers, CallerCalls(c) \/ CallerStep(c) PROVE EventType'
  BY <1>3 DEF CallerCalls, CallerStep, ApiBusy, StartEnter, StopNotReady, StopSignal,
      StartRefused, StartClaim, StartLock, StartReset, StartInvalid, StartPrepare,
      CallerPublish, CallerBusy, CallerPublished, StartNoLibrary, StartHookFails, StartHook,
      StartCollect, StartThread, StartRunning, FailUncollect, FailUnhook, FailEnd, StopDone,
      StopTimeout, Return, Goto, FreshDisplay, NoDisplay, PublishAcquire, AfterCallerPublish,
      PublishBusy, PublishCopy
<1>4. ASSUME NEW r \in Readers, SnapshotBegin(r) \/ SnapshotEnd(r) PROVE EventType'
  BY <1>4 DEF SnapshotBegin, SnapshotEnd
<1>5. CASE UNCHANGED vars
  BY <1>5 DEF vars
<1> QED BY <1>1, <1>2, <1>3, <1>4, <1>5 DEF Next

LEMMA StepTypeStep == TypeOK /\ [Next]_vars => StepType'
<1> SUFFICES ASSUME TypeOK, [Next]_vars PROVE StepType'
  OBVIOUS
<1> USE DEF TypeOK, StepType, ProducerSteps, WorkerSteps, PublishingSteps, CallerSteps,
    Results, SessionType, sessionVars, queueVars, counterVars, producerVars, workerVars,
    callerVars, snapVars
<1>1. ASSUME NEW p \in Producers, BoardEnter(p) \/ ProducerStep(p) PROVE StepType'
  BY <1>1 DEF ProducerStep, BoardEnter, BoardTake, BoardNumber, PushCheck, PushTry,
      PushContended, PushRecheck, PushStore, PushFull, NoEvent, MayPush, RingIndex
<1>2. CASE WorkerStep
  <2>1. CASE WorkerBusy
    BY <2>1 DEF WorkerBusy, AfterPublish, PublishBusy, PublishingSteps
  <2>2. CASE WorkerPublished
    BY <2>2 DEF WorkerPublished, AfterPublish, PublishCopy, PublishingSteps
  <2>3. CASE WorkerTick \/ WorkerStopped \/ WorkerLock \/ WorkerFenced \/ WorkerUnhook \/
            WorkerPop \/ WorkerEmpty \/ WorkerShow \/ WorkerStats \/ WorkerPublish \/
            WorkerFinish \/ WorkerExit
    BY <2>3 DEF WorkerTick, WorkerStopped, WorkerLock, WorkerFenced, WorkerUnhook, WorkerPop,
        WorkerEmpty, WorkerShow, WorkerStats, WorkerPublish, WorkerFinish, WorkerExit,
        NoEvent, PushHistory, IsNewer, PublishAcquire
  <2> QED BY <1>2, <2>1, <2>2, <2>3 DEF WorkerStep
<1>3. ASSUME NEW c \in Callers, CallerCalls(c) \/ CallerStep(c) PROVE StepType'
  BY <1>3 DEF CallerCalls, CallerStep, ApiBusy, StartEnter, StopNotReady, StopSignal,
      StartRefused, StartClaim, StartLock, StartReset, StartInvalid, StartPrepare,
      CallerPublish, CallerBusy, CallerPublished, StartNoLibrary, StartHookFails, StartHook,
      StartCollect, StartThread, StartRunning, FailUncollect, FailUnhook, FailEnd, StopDone,
      StopTimeout, Return, Goto, FreshDisplay, NoDisplay, PublishAcquire, AfterCallerPublish,
      PublishBusy, PublishCopy
<1>4. ASSUME NEW r \in Readers, SnapshotBegin(r) \/ SnapshotEnd(r) PROVE StepType'
  BY <1>4 DEF SnapshotBegin, SnapshotEnd
<1>5. CASE UNCHANGED vars
  BY <1>5 DEF vars
<1> QED BY <1>1, <1>2, <1>3, <1>4, <1>5 DEF Next

\* PushHistory puts the event in front and keeps the newest older ones.
LEMMA PushHistoryShape ==
    ASSUME NEW e \in Event, display.history \in Seq(Event)
    PROVE  /\ PushHistory(e) \in Seq(Event)
           /\ DOMAIN PushHistory(e) \subseteq 1..Len(display.history) + 1
           /\ PushHistory(e)[1] = e
           /\ \A i \in DOMAIN PushHistory(e) : i > 1 => PushHistory(e)[i] = display.history[i - 1]
<1> DEFINE longer == <<e>> \o display.history
<1>1. /\ longer \in Seq(Event) /\ Len(longer) = Len(display.history) + 1 /\ longer[1] = e
      /\ \A i \in 1..Len(longer) : i > 1 => longer[i] = display.history[i - 1]
  OBVIOUS
<1> HIDE DEF longer
<1>2. CASE Len(longer) > HistoryCap
  <2>1. PushHistory(e) = SubSeq(longer, 1, HistoryCap)
    BY <1>2 DEF PushHistory, longer
  <2>2. /\ SubSeq(longer, 1, HistoryCap) \in Seq(Event)
        /\ Len(SubSeq(longer, 1, HistoryCap)) = HistoryCap
        /\ \A i \in 1..HistoryCap : SubSeq(longer, 1, HistoryCap)[i] = longer[i]
    BY <1>1, <1>2, HistoryCapAssumption
  <2>3. DOMAIN SubSeq(longer, 1, HistoryCap) = 1..HistoryCap
    BY <2>2
  <2>4. \A i \in 1..HistoryCap : i \in 1..Len(longer)
    BY <1>1, <1>2, HistoryCapAssumption
  <2> QED BY <1>1, <1>2, <2>1, <2>2, <2>3, <2>4, HistoryCapAssumption
<1>3. CASE ~(Len(longer) > HistoryCap)
  <2>1. PushHistory(e) = longer
    BY <1>3 DEF PushHistory, longer
  <2> QED BY <1>1, <2>1
<1> QED BY <1>2, <1>3

LEMMA DisplayTypeStep == TypeOK /\ [Next]_vars => DisplayType'
<1> SUFFICES ASSUME TypeOK, [Next]_vars PROVE DisplayType'
  OBVIOUS
<1> USE DEF TypeOK, DisplayType, sessionVars, queueVars, counterVars, producerVars,
    workerVars, callerVars, snapVars
<1>1. ASSUME NEW p \in Producers, BoardEnter(p) \/ ProducerStep(p) PROVE DisplayType'
  BY <1>1 DEF ProducerStep, BoardEnter, BoardTake, BoardNumber, PushCheck, PushTry,
      PushContended, PushRecheck, PushStore, PushFull, NoEvent, MayPush, RingIndex
<1>2. CASE WorkerStep
  <2>1. CASE WorkerShow
    <3>1. display.history \in Seq(Event) /\ wEvent \in Event
      BY DEF Display, EventType
    <3>2. PushHistory(wEvent) \in Seq(Event)
      BY <3>1, PushHistoryShape
    <3>3. [display EXCEPT !.history = PushHistory(wEvent)] \in Display
      BY <3>2 DEF Display
    <3> QED BY <2>1, <3>3 DEF WorkerShow
  <2>2. CASE WorkerStats
    BY <2>2 DEF WorkerStats, Display, StepType, SessionType
  <2>3. CASE WorkerPublished
    BY <2>3 DEF WorkerPublished, AfterPublish, PublishCopy, PublishingSteps
  <2>4. CASE WorkerTick \/ WorkerStopped \/ WorkerLock \/ WorkerFenced \/ WorkerUnhook \/
            WorkerPop \/ WorkerEmpty \/ WorkerPublish \/ WorkerBusy \/ WorkerFinish \/
            WorkerExit
    BY <2>4 DEF WorkerTick, WorkerStopped, WorkerLock, WorkerFenced, WorkerUnhook, WorkerPop,
        WorkerEmpty, WorkerPublish, WorkerBusy, WorkerFinish, WorkerExit, NoEvent,
        PublishAcquire, AfterPublish, PublishBusy, PublishingSteps
  <2> QED BY <1>2, <2>1, <2>2, <2>3, <2>4 DEF WorkerStep
<1>3. ASSUME NEW c \in Callers, CallerCalls(c) \/ CallerStep(c) PROVE DisplayType'
  <2>1. CASE StartPrepare(c)
    <3>1. FreshDisplay \in Display
      BY DEF FreshDisplay, Display
    <3> QED BY <2>1, <3>1 DEF StartPrepare
  <2>2. CASE FailUnhook(c)
    BY <2>2 DEF FailUnhook, Display
  <2>3. CASE CallerPublished(c)
    BY <2>3 DEF CallerPublished, AfterCallerPublish, PublishCopy, Goto
  <2>4. CASE ApiBusy(c) \/ StartEnter(c) \/ StopNotReady(c) \/ StopSignal(c) \/
            StartRefused(c) \/ StartClaim(c) \/ StartLock(c) \/ StartReset(c) \/
            StartInvalid(c) \/ CallerPublish(c) \/ CallerBusy(c) \/ StartNoLibrary(c) \/
            StartHookFails(c) \/ StartHook(c) \/ StartCollect(c) \/ StartThread(c) \/
            StartRunning(c) \/ FailUncollect(c) \/ FailEnd(c) \/ StopDone(c) \/
            StopTimeout(c)
    BY <2>4 DEF ApiBusy, StartEnter, StopNotReady, StopSignal, StartRefused, StartClaim,
        StartLock, StartReset, StartInvalid, CallerPublish, CallerBusy, StartNoLibrary,
        StartHookFails, StartHook, StartCollect, StartThread, StartRunning, FailUncollect,
        FailEnd, StopDone, StopTimeout, Return, Goto, PublishAcquire, AfterCallerPublish,
        PublishBusy
  <2> QED BY <1>3, <2>1, <2>2, <2>3, <2>4 DEF CallerCalls, CallerStep
<1>4. ASSUME NEW r \in Readers, SnapshotBegin(r) \/ SnapshotEnd(r) PROVE DisplayType'
  BY <1>4 DEF SnapshotBegin, SnapshotEnd
<1>5. CASE UNCHANGED vars
  BY <1>5 DEF vars
<1> QED BY <1>1, <1>2, <1>3, <1>4, <1>5 DEF Next


\* The types hold at the start.
LEMMA TypeInit == Init => TypeOK
<1> SUFFICES ASSUME Init PROVE TypeOK
  OBVIOUS
<1> USE DEF Init
<1>1. NoEvent \in Event /\ NoDisplay \in Display
  BY DEF NoEvent, Event, NoDisplay, Display
<1>2. SessionType /\ LockType
  BY DEF SessionType, LockType
<1>3. QueueType
  BY <1>1, QueueCapAssumption DEF QueueType
<1>4. EventType /\ DisplayType
  BY <1>1 DEF EventType, DisplayType
<1>5. StepType
  BY DEF StepType, ProducerSteps, WorkerSteps, PublishingSteps, CallerSteps, Results
<1> QED BY <1>2, <1>3, <1>4, <1>5 DEF TypeOK

\* The variables of the collector keep their types, and read and count stay
\* inside g_aQueue.
THEOREM TypeCorrect == Spec => []TypeOK
<1>1. TypeOK /\ [Next]_vars => TypeOK'
  BY SessionTypeStep, LockTypeStep, QueueTypeStep, EventTypeStep, StepTypeStep, DisplayTypeStep
     DEF TypeOK
<1> QED BY TypeInit, <1>1, PTL DEF Spec

=============================================================================
