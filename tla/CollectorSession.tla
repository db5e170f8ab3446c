-------------------------- MODULE CollectorSession --------------------------
(***************************************************************************)
(* The session invariant of Collector and what follows from it: sessions    *)
(* do not mix, an ended session stays quiet, g_Display has one writer.      *)
(***************************************************************************)
EXTENDS CollectorProofs

\* Every step leaves each lock with the thread whose step says so.
LEMMA LockOwnersStep == TypeOK /\ SessionInv /\ [Next]_vars => LockOwners'
<1> SUFFICES ASSUME TypeOK /\ SessionInv, [Next]_vars PROVE LockOwners'
  OBVIOUS
<1> USE OwnersAssumption DEF TypeOK, LockOwners, SessionInv, WorkerKnows, CallerKnows,
    StarterSteps, StepType, LockType, ProducerSteps, CallerSteps, WorkerSteps,
    PublishingSteps, sessionVars, queueVars, counterVars, producerVars, workerVars,
    callerVars, snapVars
<1>1. ASSUME NEW p \in Producers, BoardEnter(p) \/ ProducerStep(p) PROVE LockOwners'
  <2>1. CASE BoardEnter(p)
    BY <2>1 DEF BoardEnter, NoEvent
  <2>2. CASE BoardTake(p)
    BY <2>2 DEF BoardTake
  <2>3. CASE BoardNumber(p)
    BY <2>3 DEF BoardNumber
  <2>4. CASE PushCheck(p)
    BY <2>4 DEF PushCheck
  <2>5. CASE PushTry(p)
    BY <2>5 DEF PushTry
  <2>6. CASE PushContended(p)
    BY <2>6 DEF PushContended
  <2>7. CASE PushRecheck(p)
    BY <2>7 DEF PushRecheck, MayPush
  <2>8. CASE PushStore(p)
    BY <2>8 DEF PushStore, RingIndex
  <2>9. CASE PushFull(p)
    BY <2>9 DEF PushFull
  <2> QED BY <1>1, <2>1, <2>2, <2>3, <2>4, <2>5, <2>6, <2>7, <2>8, <2>9 DEF ProducerStep
<1>2. CASE WorkerStep
  <2>1. CASE WorkerTick
    BY <2>1 DEF WorkerTick
  <2>2. CASE WorkerStopped
    BY <2>2 DEF WorkerStopped
  <2>3. CASE WorkerLock
    BY <2>3 DEF WorkerLock
  <2>4. CASE WorkerFenced
    BY <2>4 DEF WorkerFenced
  <2>5. CASE WorkerUnhook
    BY <2>5 DEF WorkerUnhook
  <2>6. CASE WorkerPop
    BY <2>6 DEF WorkerPop
  <2>7. CASE WorkerEmpty
    BY <2>7 DEF WorkerEmpty, NoEvent
  <2>8. CASE WorkerShow
    BY <2>8 DEF WorkerShow, PushHistory, IsNewer
  <2>9. CASE WorkerStats
    BY <2>9 DEF WorkerStats
  <2>10. CASE WorkerPublish
    BY <2>10 DEF WorkerPublish, PublishAcquire
  <2>11. CASE WorkerBusy
    BY <2>11 DEF WorkerBusy, AfterPublish, PublishBusy, PublishingSteps
  <2>12. CASE WorkerPublished
    BY <2>12 DEF WorkerPublished, AfterPublish, PublishCopy, PublishingSteps
  <2>13. CASE WorkerFinish
    BY <2>13 DEF WorkerFinish
  <2>14. CASE WorkerExit
    BY <2>14 DEF WorkerExit
  <2> QED BY <1>2, <2>1, <2>2, <2>3, <2>4, <2>5, <2>6, <2>7, <2>8, <2>9, <2>10, <2>11, <2>12, <2>13, <2>14 DEF WorkerStep
<1>3. ASSUME NEW c \in Callers, CallerCalls(c) \/ CallerStep(c) PROVE LockOwners'
  <2>1. CASE ApiBusy(c)
    BY <2>1 DEF ApiBusy, Return
  <2>2. CASE StartEnter(c)
    BY <2>2 DEF StartEnter, Goto
  <2>3. CASE StopNotReady(c)
    BY <2>3 DEF StopNotReady, Return
  <2>4. CASE StopSignal(c)
    BY <2>4 DEF StopSignal, Goto
  <2>5. CASE StartRefused(c)
    BY <2>5 DEF StartRefused, Return
  <2>6. CASE StartClaim(c)
    BY <2>6 DEF StartClaim, Goto
  <2>7. CASE StartLock(c)
    BY <2>7 DEF StartLock, Goto
  <2>8. CASE StartReset(c)
    BY <2>8 DEF StartReset, Goto
  <2>9. CASE StartInvalid(c)
    BY <2>9 DEF StartInvalid, Goto
  <2>10. CASE StartPrepare(c)
    BY <2>10 DEF StartPrepare, FreshDisplay, NoDisplay, Goto
  <2>11. CASE CallerPublish(c)
    BY <2>11 DEF CallerPublish, PublishAcquire
  <2>12. CASE CallerBusy(c)
    BY <2>12 DEF CallerBusy, AfterCallerPublish, PublishBusy, Goto
  <2>13. CASE CallerPublished(c)
    BY <2>13 DEF CallerPublished, AfterCallerPublish, PublishCopy, Goto
  <2>14. CASE StartNoLibrary(c)
    BY <2>14 DEF StartNoLibrary, Goto
  <2>15. CASE StartHookFails(c)
    BY <2>15 DEF StartHookFails, Goto
  <2>16. CASE StartHook(c)
    BY <2>16 DEF StartHook, Goto
  <2>17. CASE StartCollect(c)
    BY <2>17 DEF StartCollect, Goto
  <2>18. CASE StartThread(c)
    BY <2>18 DEF StartThread, Goto
  <2>19. CASE StartRunning(c)
    BY <2>19 DEF StartRunning, Return
  <2>20. CASE FailUncollect(c)
    BY <2>20 DEF FailUncollect, Goto
  <2>21. CASE FailUnhook(c)
    BY <2>21 DEF FailUnhook, Goto
  <2>22. CASE FailEnd(c)
    BY <2>22 DEF FailEnd, Return
  <2>23. CASE StopDone(c)
    BY <2>23 DEF StopDone, Return
  <2>24. CASE StopTimeout(c)
    BY <2>24 DEF StopTimeout, Return
  <2> QED BY <1>3, <2>1, <2>2, <2>3, <2>4, <2>5, <2>6, <2>7, <2>8, <2>9, <2>10, <2>11, <2>12, <2>13, <2>14, <2>15, <2>16, <2>17, <2>18, <2>19, <2>20, <2>21, <2>22, <2>23, <2>24 DEF CallerCalls, CallerStep
<1>4. ASSUME NEW r \in Readers, SnapshotBegin(r) \/ SnapshotEnd(r) PROVE LockOwners'
  BY <1>4 DEF SnapshotBegin, SnapshotEnd
<1>5. CASE UNCHANGED vars
  BY <1>5 DEF vars
<1> QED BY <1>1, <1>2, <1>3, <1>4, <1>5 DEF Next

\* The event PopEvent reads is one of the queued ones.
LEMMA HeadOfEpoch ==
    ASSUME TypeOK, QueueOfEpoch, count # 0
    PROVE  slots[read].epoch = epoch
<1>1. (read + 0) % QueueCap = read
  BY QueueCapAssumption DEF TypeOK, QueueType
<1>2. 0 \in 0..count-1
  BY DEF TypeOK, QueueType
<1>3. Queued(0) = slots[read]
  BY <1>1 DEF Queued, RingIndex
<1> QED BY <1>2, <1>3 DEF QueueOfEpoch

\* Every step keeps what the worker knows at each of its own steps.
LEMMA WorkerKnowsStep == TypeOK /\ SessionInv /\ [Next]_vars => WorkerKnows'
<1> SUFFICES ASSUME TypeOK /\ SessionInv, [Next]_vars PROVE WorkerKnows'
  OBVIOUS
<1> USE OwnersAssumption DEF TypeOK, WorkerKnows, SessionInv, LockOwners, CallerKnows,
    StateKnows, StarterSteps, CleanSteps, StepType, SessionType, QueueType, PublishingSteps,
    CallerSteps, DrainSteps, Looping, Unhooked, Drained, sessionVars, queueVars, counterVars,
    producerVars, workerVars, callerVars, snapVars
<1>1. ASSUME NEW p \in Producers, BoardEnter(p) \/ ProducerStep(p) PROVE WorkerKnows'
  <2>1. CASE BoardEnter(p)
    BY <2>1 DEF BoardEnter, NoEvent
  <2>2. CASE BoardTake(p)
    BY <2>2 DEF BoardTake
  <2>3. CASE BoardNumber(p)
    BY <2>3 DEF BoardNumber
  <2>4. CASE PushCheck(p)
    BY <2>4 DEF PushCheck
  <2>5. CASE PushTry(p)
    BY <2>5 DEF PushTry
  <2>6. CASE PushContended(p)
    BY <2>6 DEF PushContended
  <2>7. CASE PushRecheck(p)
    BY <2>7 DEF PushRecheck, MayPush
  <2>8. CASE PushStore(p)
    BY <2>8 DEF PushStore, RingIndex
  <2>9. CASE PushFull(p)
    BY <2>9 DEF PushFull
  <2> QED BY <1>1, <2>1, <2>2, <2>3, <2>4, <2>5, <2>6, <2>7, <2>8, <2>9 DEF ProducerStep
<1>2. CASE WorkerStep
  <2>1. CASE WorkerTick
    BY <2>1 DEF WorkerTick
  <2>2. CASE WorkerStopped
    BY <2>2 DEF WorkerStopped
  <2>3. CASE WorkerLock
    BY <2>3 DEF WorkerLock
  <2>4. CASE WorkerFenced
    BY <2>4 DEF WorkerFenced
  <2>5. CASE WorkerUnhook
    BY <2>5 DEF WorkerUnhook
  <2>6. CASE WorkerPop
    <3>1. slots[read].epoch = epoch
      BY <2>6, HeadOfEpoch DEF WorkerPop
    <3> QED BY <2>6, <3>1 DEF WorkerPop
  <2>7. CASE WorkerEmpty
    BY <2>7 DEF WorkerEmpty, NoEvent
  <2>8. CASE WorkerShow
    BY <2>8 DEF WorkerShow, PushHistory, IsNewer
  <2>9. CASE WorkerStats
    BY <2>9 DEF WorkerStats
  <2>10. CASE WorkerPublish
    BY <2>10 DEF WorkerPublish, PublishAcquire
  <2>11. CASE WorkerBusy
    <3>1. CASE wpc = "pubBoard"
      BY <2>11, <3>1 DEF WorkerBusy, AfterPublish, PublishBusy
    <3>2. CASE wpc = "pubLoop"
      <4>1. CASE wpc' = "wait"
        BY <2>11, <3>2, <4>1 DEF WorkerBusy, AfterPublish, PublishBusy
      <4>2. CASE wpc' = "stats"
        BY <2>11, <3>2, <4>2 DEF WorkerBusy, AfterPublish, PublishBusy
      <4> QED BY <2>11, <3>2, <4>1, <4>2 DEF WorkerBusy, AfterPublish, PublishBusy
    <3>3. CASE wpc = "pubStats"
      BY <2>11, <3>3 DEF WorkerBusy, AfterPublish, PublishBusy
    <3>4. CASE wpc = "pubFinal"
      BY <2>11, <3>4 DEF WorkerBusy, AfterPublish, PublishBusy
    <3>5. CASE wpc = "pubRetry"
      BY <2>11, <3>5 DEF WorkerBusy, AfterPublish, PublishBusy
    <3> QED BY <2>11, <3>1, <3>2, <3>3, <3>4, <3>5 DEF WorkerBusy, PublishingSteps
  <2>12. CASE WorkerPublished
    <3>1. CASE wpc = "pubBoard"
      BY <2>12, <3>1 DEF WorkerPublished, AfterPublish, PublishCopy
    <3>2. CASE wpc = "pubLoop"
      <4>1. CASE wpc' = "wait"
        BY <2>12, <3>2, <4>1 DEF WorkerPublished, AfterPublish, PublishCopy
      <4>2. CASE wpc' = "stats"
        BY <2>12, <3>2, <4>2 DEF WorkerPublished, AfterPublish, PublishCopy
      <4> QED BY <2>12, <3>2, <4>1, <4>2 DEF WorkerPublished, AfterPublish, PublishCopy
    <3>3. CASE wpc = "pubStats"
      BY <2>12, <3>3 DEF WorkerPublished, AfterPublish, PublishCopy
    <3>4. CASE wpc = "pubFinal"
      BY <2>12, <3>4 DEF WorkerPublished, AfterPublish, PublishCopy
    <3>5. CASE wpc = "pubRetry"
      BY <2>12, <3>5 DEF WorkerPublished, AfterPublish, PublishCopy
    <3> QED BY <2>12, <3>1, <3>2, <3>3, <3>4, <3>5 DEF WorkerPublished, PublishingSteps
  <2>13. CASE WorkerFinish
    BY <2>13 DEF WorkerFinish
  <2>14. CASE WorkerExit
    BY <2>14 DEF WorkerExit
  <2> QED BY <1>2, <2>1, <2>2, <2>3, <2>4, <2>5, <2>6, <2>7, <2>8, <2>9, <2>10, <2>11, <2>12, <2>13, <2>14 DEF WorkerStep
<1>3. ASSUME NEW c \in Callers, CallerCalls(c) \/ CallerStep(c) PROVE WorkerKnows'
  <2>1. CASE ApiBusy(c)
    BY <2>1 DEF ApiBusy, Return
  <2>2. CASE StartEnter(c)
    BY <2>2 DEF StartEnter, Goto
  <2>3. CASE StopNotReady(c)
    BY <2>3 DEF StopNotReady, Return
  <2>4. CASE StopSignal(c)
    BY <2>4 DEF StopSignal, Goto
  <2>5. CASE StartRefused(c)
    BY <2>5 DEF StartRefused, Return
  <2>6. CASE StartClaim(c)
    BY <2>6 DEF StartClaim, Goto
  <2>7. CASE StartLock(c)
    BY <2>7 DEF StartLock, Goto
  <2>8. CASE StartReset(c)
    BY <2>8 DEF StartReset, Goto
  <2>9. CASE StartInvalid(c)
    BY <2>9 DEF StartInvalid, Goto
  <2>10. CASE StartPrepare(c)
    BY <2>10 DEF StartPrepare, FreshDisplay, NoDisplay, Goto
  <2>11. CASE CallerPublish(c)
    BY <2>11 DEF CallerPublish, PublishAcquire
  <2>12. CASE CallerBusy(c)
    BY <2>12 DEF CallerBusy, AfterCallerPublish, PublishBusy, Goto
  <2>13. CASE CallerPublished(c)
    BY <2>13 DEF CallerPublished, AfterCallerPublish, PublishCopy, Goto
  <2>14. CASE StartNoLibrary(c)
    BY <2>14 DEF StartNoLibrary, Goto
  <2>15. CASE StartHookFails(c)
    BY <2>15 DEF StartHookFails, Goto
  <2>16. CASE StartHook(c)
    BY <2>16 DEF StartHook, Goto
  <2>17. CASE StartCollect(c)
    BY <2>17 DEF StartCollect, Goto
  <2>18. CASE StartThread(c)
    BY <2>18 DEF StartThread, Goto
  <2>19. CASE StartRunning(c)
    BY <2>19 DEF StartRunning, Return
  <2>20. CASE FailUncollect(c)
    BY <2>20 DEF FailUncollect, Goto
  <2>21. CASE FailUnhook(c)
    BY <2>21 DEF FailUnhook, Goto
  <2>22. CASE FailEnd(c)
    BY <2>22 DEF FailEnd, Return
  <2>23. CASE StopDone(c)
    BY <2>23 DEF StopDone, Return
  <2>24. CASE StopTimeout(c)
    BY <2>24 DEF StopTimeout, Return
  <2> QED BY <1>3, <2>1, <2>2, <2>3, <2>4, <2>5, <2>6, <2>7, <2>8, <2>9, <2>10, <2>11, <2>12, <2>13, <2>14, <2>15, <2>16, <2>17, <2>18, <2>19, <2>20, <2>21, <2>22, <2>23, <2>24 DEF CallerCalls, CallerStep
<1>4. ASSUME NEW r \in Readers, SnapshotBegin(r) \/ SnapshotEnd(r) PROVE WorkerKnows'
  BY <1>4 DEF SnapshotBegin, SnapshotEnd
<1>5. CASE UNCHANGED vars
  BY <1>5 DEF vars
<1> QED BY <1>1, <1>2, <1>3, <1>4, <1>5 DEF Next

\* Every step keeps what a caller knows while it starts or stops a session.
LEMMA CallerKnowsStep == TypeOK /\ SessionInv /\ [Next]_vars => CallerKnows'
<1> SUFFICES ASSUME TypeOK /\ SessionInv, [Next]_vars PROVE CallerKnows'
  OBVIOUS
<1> USE OwnersAssumption DEF TypeOK, CallerKnows, SessionInv, LockOwners, WorkerKnows,
    StateKnows, StarterSteps, CleanSteps, CallerSteps, StepType, SessionType, DrainSteps,
    Looping, Unhooked, Drained, sessionVars, queueVars, counterVars, producerVars, workerVars,
    callerVars, snapVars
<1>1. ASSUME NEW p \in Producers, BoardEnter(p) \/ ProducerStep(p) PROVE CallerKnows'
  <2>1. CASE BoardEnter(p)
    BY <2>1 DEF BoardEnter, NoEvent
  <2>2. CASE BoardTake(p)
    BY <2>2 DEF BoardTake
  <2>3. CASE BoardNumber(p)
    BY <2>3 DEF BoardNumber
  <2>4. CASE PushCheck(p)
    BY <2>4 DEF PushCheck
  <2>5. CASE PushTry(p)
    BY <2>5 DEF PushTry
  <2>6. CASE PushContended(p)
    BY <2>6 DEF PushContended
  <2>7. CASE PushRecheck(p)
    BY <2>7 DEF PushRecheck, MayPush
  <2>8. CASE PushStore(p)
    BY <2>8 DEF PushStore, RingIndex
  <2>9. CASE PushFull(p)
    BY <2>9 DEF PushFull
  <2> QED BY <1>1, <2>1, <2>2, <2>3, <2>4, <2>5, <2>6, <2>7, <2>8, <2>9 DEF ProducerStep
<1>2. CASE WorkerStep
  <2>1. CASE WorkerTick
    BY <2>1 DEF WorkerTick
  <2>2. CASE WorkerStopped
    BY <2>2 DEF WorkerStopped
  <2>3. CASE WorkerLock
    BY <2>3 DEF WorkerLock
  <2>4. CASE WorkerFenced
    BY <2>4 DEF WorkerFenced
  <2>5. CASE WorkerUnhook
    BY <2>5 DEF WorkerUnhook
  <2>6. CASE WorkerPop
    BY <2>6 DEF WorkerPop
  <2>7. CASE WorkerEmpty
    BY <2>7 DEF WorkerEmpty, NoEvent
  <2>8. CASE WorkerShow
    BY <2>8 DEF WorkerShow, PushHistory, IsNewer
  <2>9. CASE WorkerStats
    BY <2>9 DEF WorkerStats
  <2>10. CASE WorkerPublish
    BY <2>10 DEF WorkerPublish, PublishAcquire
  <2>11. CASE WorkerBusy
    <3>1. CASE wpc = "pubBoard"
      BY <2>11, <3>1 DEF WorkerBusy, AfterPublish, PublishBusy
    <3>2. CASE wpc = "pubLoop"
      <4>1. CASE wpc' = "wait"
        BY <2>11, <3>2, <4>1 DEF WorkerBusy, AfterPublish, PublishBusy
      <4>2. CASE wpc' = "stats"
        BY <2>11, <3>2, <4>2 DEF WorkerBusy, AfterPublish, PublishBusy
      <4> QED BY <2>11, <3>2, <4>1, <4>2 DEF WorkerBusy, AfterPublish, PublishBusy
    <3>3. CASE wpc = "pubStats"
      BY <2>11, <3>3 DEF WorkerBusy, AfterPublish, PublishBusy
    <3>4. CASE wpc = "pubFinal"
      BY <2>11, <3>4 DEF WorkerBusy, AfterPublish, PublishBusy
    <3>5. CASE wpc = "pubRetry"
      BY <2>11, <3>5 DEF WorkerBusy, AfterPublish, PublishBusy
    <3> QED BY <2>11, <3>1, <3>2, <3>3, <3>4, <3>5 DEF WorkerBusy, PublishingSteps
  <2>12. CASE WorkerPublished
    <3>1. CASE wpc = "pubBoard"
      BY <2>12, <3>1 DEF WorkerPublished, AfterPublish, PublishCopy
    <3>2. CASE wpc = "pubLoop"
      <4>1. CASE wpc' = "wait"
        BY <2>12, <3>2, <4>1 DEF WorkerPublished, AfterPublish, PublishCopy
      <4>2. CASE wpc' = "stats"
        BY <2>12, <3>2, <4>2 DEF WorkerPublished, AfterPublish, PublishCopy
      <4> QED BY <2>12, <3>2, <4>1, <4>2 DEF WorkerPublished, AfterPublish, PublishCopy
    <3>3. CASE wpc = "pubStats"
      BY <2>12, <3>3 DEF WorkerPublished, AfterPublish, PublishCopy
    <3>4. CASE wpc = "pubFinal"
      BY <2>12, <3>4 DEF WorkerPublished, AfterPublish, PublishCopy
    <3>5. CASE wpc = "pubRetry"
      BY <2>12, <3>5 DEF WorkerPublished, AfterPublish, PublishCopy
    <3> QED BY <2>12, <3>1, <3>2, <3>3, <3>4, <3>5 DEF WorkerPublished, PublishingSteps
  <2>13. CASE WorkerFinish
    BY <2>13 DEF WorkerFinish
  <2>14. CASE WorkerExit
    BY <2>14 DEF WorkerExit
  <2> QED BY <1>2, <2>1, <2>2, <2>3, <2>4, <2>5, <2>6, <2>7, <2>8, <2>9, <2>10, <2>11, <2>12, <2>13, <2>14 DEF WorkerStep
<1>3. ASSUME NEW c \in Callers, CallerCalls(c) \/ CallerStep(c) PROVE CallerKnows'
  <2>1. CASE ApiBusy(c)
    BY <2>1 DEF ApiBusy, Return
  <2>2. CASE StartEnter(c)
    BY <2>2 DEF StartEnter, Goto
  <2>3. CASE StopNotReady(c)
    BY <2>3 DEF StopNotReady, Return
  <2>4. CASE StopSignal(c)
    BY <2>4 DEF StopSignal, Goto
  <2>5. CASE StartRefused(c)
    BY <2>5 DEF StartRefused, Return
  <2>6. CASE StartClaim(c)
    BY <2>6 DEF StartClaim, Goto
  <2>7. CASE StartLock(c)
    BY <2>7 DEF StartLock, Goto
  <2>8. CASE StartReset(c)
    BY <2>8 DEF StartReset, Goto
  <2>9. CASE StartInvalid(c)
    BY <2>9 DEF StartInvalid, Goto
  <2>10. CASE StartPrepare(c)
    BY <2>10 DEF StartPrepare, FreshDisplay, NoDisplay, Goto
  <2>11. CASE CallerPublish(c)
    BY <2>11 DEF CallerPublish, PublishAcquire
  <2>12. CASE CallerBusy(c)
    BY <2>12 DEF CallerBusy, AfterCallerPublish, PublishBusy, Goto
  <2>13. CASE CallerPublished(c)
    BY <2>13 DEF CallerPublished, AfterCallerPublish, PublishCopy, Goto
  <2>14. CASE StartNoLibrary(c)
    BY <2>14 DEF StartNoLibrary, Goto
  <2>15. CASE StartHookFails(c)
    BY <2>15 DEF StartHookFails, Goto
  <2>16. CASE StartHook(c)
    BY <2>16 DEF StartHook, Goto
  <2>17. CASE StartCollect(c)
    BY <2>17 DEF StartCollect, Goto
  <2>18. CASE StartThread(c)
    BY <2>18 DEF StartThread, Goto
  <2>19. CASE StartRunning(c)
    BY <2>19 DEF StartRunning, Return
  <2>20. CASE FailUncollect(c)
    BY <2>20 DEF FailUncollect, Goto
  <2>21. CASE FailUnhook(c)
    BY <2>21 DEF FailUnhook, Goto
  <2>22. CASE FailEnd(c)
    BY <2>22 DEF FailEnd, Return
  <2>23. CASE StopDone(c)
    BY <2>23 DEF StopDone, Return
  <2>24. CASE StopTimeout(c)
    BY <2>24 DEF StopTimeout, Return
  <2> QED BY <1>3, <2>1, <2>2, <2>3, <2>4, <2>5, <2>6, <2>7, <2>8, <2>9, <2>10, <2>11, <2>12, <2>13, <2>14, <2>15, <2>16, <2>17, <2>18, <2>19, <2>20, <2>21, <2>22, <2>23, <2>24 DEF CallerCalls, CallerStep
<1>4. ASSUME NEW r \in Readers, SnapshotBegin(r) \/ SnapshotEnd(r) PROVE CallerKnows'
  BY <1>4 DEF SnapshotBegin, SnapshotEnd
<1>5. CASE UNCHANGED vars
  BY <1>5 DEF vars
<1> QED BY <1>1, <1>2, <1>3, <1>4, <1>5 DEF Next

\* Every step keeps what g_lState and a storing producer stand for.
LEMMA StateKnowsStep == TypeOK /\ SessionInv /\ [Next]_vars => StateKnows'
<1> SUFFICES ASSUME TypeOK /\ SessionInv, [Next]_vars PROVE StateKnows'
  OBVIOUS
<1> USE OwnersAssumption DEF TypeOK, StateKnows, SessionInv, LockOwners, WorkerKnows,
    CallerKnows, StarterSteps, CallerSteps, StepType, SessionType, EventType, DrainSteps,
    Looping, Unhooked, Drained, sessionVars, queueVars, counterVars, producerVars, workerVars,
    callerVars, snapVars
<1>1. ASSUME NEW p \in Producers, BoardEnter(p) \/ ProducerStep(p) PROVE StateKnows'
  <2>1. CASE BoardEnter(p)
    BY <2>1 DEF BoardEnter, NoEvent
  <2>2. CASE BoardTake(p)
    BY <2>2 DEF BoardTake
  <2>3. CASE BoardNumber(p)
    BY <2>3 DEF BoardNumber
  <2>4. CASE PushCheck(p)
    BY <2>4 DEF PushCheck
  <2>5. CASE PushTry(p)
    BY <2>5 DEF PushTry
  <2>6. CASE PushContended(p)
    BY <2>6 DEF PushContended
  <2>7. CASE PushRecheck(p)
    BY <2>7 DEF PushRecheck, MayPush
  <2>8. CASE PushStore(p)
    BY <2>8 DEF PushStore, RingIndex
  <2>9. CASE PushFull(p)
    BY <2>9 DEF PushFull
  <2> QED BY <1>1, <2>1, <2>2, <2>3, <2>4, <2>5, <2>6, <2>7, <2>8, <2>9 DEF ProducerStep
<1>2. CASE WorkerStep
  <2>1. CASE WorkerTick
    BY <2>1 DEF WorkerTick
  <2>2. CASE WorkerStopped
    BY <2>2 DEF WorkerStopped
  <2>3. CASE WorkerLock
    BY <2>3 DEF WorkerLock
  <2>4. CASE WorkerFenced
    BY <2>4 DEF WorkerFenced
  <2>5. CASE WorkerUnhook
    BY <2>5 DEF WorkerUnhook
  <2>6. CASE WorkerPop
    BY <2>6 DEF WorkerPop
  <2>7. CASE WorkerEmpty
    BY <2>7 DEF WorkerEmpty, NoEvent
  <2>8. CASE WorkerShow
    BY <2>8 DEF WorkerShow, PushHistory, IsNewer
  <2>9. CASE WorkerStats
    BY <2>9 DEF WorkerStats
  <2>10. CASE WorkerPublish
    BY <2>10 DEF WorkerPublish, PublishAcquire
  <2>11. CASE WorkerBusy
    BY <2>11 DEF WorkerBusy, AfterPublish, PublishBusy, PublishingSteps
  <2>12. CASE WorkerPublished
    BY <2>12 DEF WorkerPublished, AfterPublish, PublishCopy, PublishingSteps
  <2>13. CASE WorkerFinish
    BY <2>13 DEF WorkerFinish
  <2>14. CASE WorkerExit
    BY <2>14 DEF WorkerExit
  <2> QED BY <1>2, <2>1, <2>2, <2>3, <2>4, <2>5, <2>6, <2>7, <2>8, <2>9, <2>10, <2>11, <2>12, <2>13, <2>14 DEF WorkerStep
<1>3. ASSUME NEW c \in Callers, CallerCalls(c) \/ CallerStep(c) PROVE StateKnows'
  <2>1. CASE ApiBusy(c)
    BY <2>1 DEF ApiBusy, Return
  <2>2. CASE StartEnter(c)
    BY <2>2 DEF StartEnter, Goto
  <2>3. CASE StopNotReady(c)
    BY <2>3 DEF StopNotReady, Return
  <2>4. CASE StopSignal(c)
    BY <2>4 DEF StopSignal, Goto
  <2>5. CASE StartRefused(c)
    BY <2>5 DEF StartRefused, Return
  <2>6. CASE StartClaim(c)
    BY <2>6 DEF StartClaim, Goto
  <2>7. CASE StartLock(c)
    BY <2>7 DEF StartLock, Goto
  <2>8. CASE StartReset(c)
    BY <2>8 DEF StartReset, Goto
  <2>9. CASE StartInvalid(c)
    BY <2>9 DEF StartInvalid, Goto
  <2>10. CASE StartPrepare(c)
    BY <2>10 DEF StartPrepare, FreshDisplay, NoDisplay, Goto
  <2>11. CASE CallerPublish(c)
    BY <2>11 DEF CallerPublish, PublishAcquire
  <2>12. CASE CallerBusy(c)
    BY <2>12 DEF CallerBusy, AfterCallerPublish, PublishBusy, Goto
  <2>13. CASE CallerPublished(c)
    BY <2>13 DEF CallerPublished, AfterCallerPublish, PublishCopy, Goto
  <2>14. CASE StartNoLibrary(c)
    BY <2>14 DEF StartNoLibrary, Goto
  <2>15. CASE StartHookFails(c)
    BY <2>15 DEF StartHookFails, Goto
  <2>16. CASE StartHook(c)
    BY <2>16 DEF StartHook, Goto
  <2>17. CASE StartCollect(c)
    BY <2>17 DEF StartCollect, Goto
  <2>18. CASE StartThread(c)
    BY <2>18 DEF StartThread, Goto
  <2>19. CASE StartRunning(c)
    BY <2>19 DEF StartRunning, Return
  <2>20. CASE FailUncollect(c)
    BY <2>20 DEF FailUncollect, Goto
  <2>21. CASE FailUnhook(c)
    BY <2>21 DEF FailUnhook, Goto
  <2>22. CASE FailEnd(c)
    BY <2>22 DEF FailEnd, Return
  <2>23. CASE StopDone(c)
    BY <2>23 DEF StopDone, Return
  <2>24. CASE StopTimeout(c)
    BY <2>24 DEF StopTimeout, Return
  <2> QED BY <1>3, <2>1, <2>2, <2>3, <2>4, <2>5, <2>6, <2>7, <2>8, <2>9, <2>10, <2>11, <2>12, <2>13, <2>14, <2>15, <2>16, <2>17, <2>18, <2>19, <2>20, <2>21, <2>22, <2>23, <2>24 DEF CallerCalls, CallerStep
<1>4. ASSUME NEW r \in Readers, SnapshotBegin(r) \/ SnapshotEnd(r) PROVE StateKnows'
  BY <1>4 DEF SnapshotBegin, SnapshotEnd
<1>5. CASE UNCHANGED vars
  BY <1>5 DEF vars
<1> QED BY <1>1, <1>2, <1>3, <1>4, <1>5 DEF Next

\* Every step keeps what switching collection on and numbering a session rest on.
LEMMA SwitchKnowsStep == TypeOK /\ SessionInv /\ [Next]_vars => SwitchKnows'
<1> SUFFICES ASSUME TypeOK /\ SessionInv, [Next]_vars PROVE SwitchKnows'
  OBVIOUS
<1> USE OwnersAssumption DEF TypeOK, SwitchKnows, SessionInv, LockOwners, WorkerKnows,
    CallerKnows, StarterSteps, CleanSteps, CallerSteps, StepType, SessionType, LockType,
    DrainSteps, Looping, Unhooked, Drained, sessionVars, queueVars, counterVars, producerVars,
    workerVars, callerVars, snapVars
<1>1. ASSUME NEW p \in Producers, BoardEnter(p) \/ ProducerStep(p) PROVE SwitchKnows'
  BY <1>1 DEF ProducerStep, BoardEnter, BoardTake, BoardNumber, PushCheck, PushTry,
      PushContended, PushRecheck, PushStore, PushFull, NoEvent, MayPush, RingIndex
<1>2. CASE WorkerStep
  <2>1. CASE WorkerStopped
    BY <2>1 DEF WorkerStopped
  <2>2. CASE WorkerExit
    BY <2>2 DEF WorkerExit
  <2>3. CASE WorkerTick \/ WorkerLock \/ WorkerFenced \/ WorkerUnhook \/ WorkerPop \/
            WorkerEmpty \/ WorkerShow \/ WorkerStats \/ WorkerPublish \/ WorkerBusy \/
            WorkerPublished \/ WorkerFinish
    BY <2>3 DEF WorkerTick, WorkerLock, WorkerFenced, WorkerUnhook, WorkerPop, WorkerEmpty,
        WorkerShow, WorkerStats, WorkerPublish, WorkerBusy, WorkerPublished, WorkerFinish,
        NoEvent, PushHistory, IsNewer, PublishAcquire, AfterPublish, PublishBusy,
        PublishingSteps, PublishCopy
  <2> QED BY <1>2, <2>1, <2>2, <2>3 DEF WorkerStep
<1>3. ASSUME NEW c \in Callers, CallerCalls(c) \/ CallerStep(c) PROVE SwitchKnows'
  <2>1. CASE ApiBusy(c)
    BY <2>1 DEF ApiBusy, Return
  <2>2. CASE StartEnter(c)
    BY <2>2 DEF StartEnter, Goto
  <2>3. CASE StopNotReady(c)
    BY <2>3 DEF StopNotReady, Return
  <2>4. CASE StopSignal(c)
    BY <2>4 DEF StopSignal, Goto
  <2>5. CASE StartRefused(c)
    BY <2>5 DEF StartRefused, Return
  <2>6. CASE StartClaim(c)
    BY <2>6 DEF StartClaim, Goto, ExitedIsQuiet
  <2>7. CASE StartLock(c)
    BY <2>7 DEF StartLock, Goto
  <2>8. CASE StartReset(c)
    BY <2>8 DEF StartReset, Goto
  <2>9. CASE StartInvalid(c)
    BY <2>9 DEF StartInvalid, Goto
  <2>10. CASE StartPrepare(c)
    BY <2>10 DEF StartPrepare, FreshDisplay, NoDisplay, Goto
  <2>11. CASE CallerPublish(c)
    BY <2>11 DEF CallerPublish, PublishAcquire
  <2>12. CASE CallerBusy(c)
    BY <2>12 DEF CallerBusy, AfterCallerPublish, PublishBusy, Goto
  <2>13. CASE CallerPublished(c)
    BY <2>13 DEF CallerPublished, AfterCallerPublish, PublishCopy, Goto
  <2>14. CASE StartNoLibrary(c)
    BY <2>14 DEF StartNoLibrary, Goto
  <2>15. CASE StartHookFails(c)
    BY <2>15 DEF StartHookFails, Goto
  <2>16. CASE StartHook(c)
    BY <2>16 DEF StartHook, Goto
  <2>17. CASE StartCollect(c)
    BY <2>17 DEF StartCollect, Goto
  <2>18. CASE StartThread(c)
    BY <2>18 DEF StartThread, Goto
  <2>19. CASE StartRunning(c)
    BY <2>19 DEF StartRunning, Return
  <2>20. CASE FailUncollect(c)
    BY <2>20 DEF FailUncollect, Goto
  <2>21. CASE FailUnhook(c)
    BY <2>21 DEF FailUnhook, Goto
  <2>22. CASE FailEnd(c)
    BY <2>22 DEF FailEnd, Return
  <2>23. CASE StopDone(c)
    BY <2>23 DEF StopDone, Return
  <2>24. CASE StopTimeout(c)
    BY <2>24 DEF StopTimeout, Return
  <2> QED BY <1>3, <2>1, <2>2, <2>3, <2>4, <2>5, <2>6, <2>7, <2>8, <2>9, <2>10, <2>11, <2>12, <2>13, <2>14, <2>15, <2>16, <2>17, <2>18, <2>19, <2>20, <2>21, <2>22, <2>23, <2>24 DEF CallerCalls, CallerStep
<1>4. ASSUME NEW r \in Readers, SnapshotBegin(r) \/ SnapshotEnd(r) PROVE SwitchKnows'
  BY <1>4 DEF SnapshotBegin, SnapshotEnd
<1>5. CASE UNCHANGED vars
  BY <1>5 DEF vars
<1> QED BY <1>1, <1>2, <1>3, <1>4, <1>5 DEF Next

\* Every step keeps an ended session quiet.
LEMMA ExitedStep == TypeOK /\ SessionInv /\ [Next]_vars => ExitedIsQuiet'
<1> SUFFICES ASSUME TypeOK /\ SessionInv, [Next]_vars PROVE ExitedIsQuiet'
  OBVIOUS
<1> USE OwnersAssumption DEF TypeOK, ExitedIsQuiet, SessionInv, LockOwners, WorkerKnows,
    CallerKnows, StateKnows, StarterSteps, CallerSteps, StepType, SessionType, QueueType,
    DrainSteps, Looping, Unhooked, Drained, sessionVars, queueVars, counterVars, producerVars,
    workerVars, callerVars, snapVars
<1>1. ASSUME NEW p \in Producers, BoardEnter(p) \/ ProducerStep(p) PROVE ExitedIsQuiet'
  <2>1. CASE BoardEnter(p)
    BY <2>1 DEF BoardEnter, NoEvent
  <2>2. CASE BoardTake(p)
    BY <2>2 DEF BoardTake
  <2>3. CASE BoardNumber(p)
    BY <2>3 DEF BoardNumber
  <2>4. CASE PushCheck(p)
    BY <2>4 DEF PushCheck
  <2>5. CASE PushTry(p)
    BY <2>5 DEF PushTry
  <2>6. CASE PushContended(p)
    BY <2>6 DEF PushContended
  <2>7. CASE PushRecheck(p)
    BY <2>7 DEF PushRecheck, MayPush
  <2>8. CASE PushStore(p)
    BY <2>8 DEF PushStore, RingIndex
  <2>9. CASE PushFull(p)
    BY <2>9 DEF PushFull
  <2> QED BY <1>1, <2>1, <2>2, <2>3, <2>4, <2>5, <2>6, <2>7, <2>8, <2>9 DEF ProducerStep
<1>2. CASE WorkerStep
  <2>1. CASE WorkerTick
    BY <2>1 DEF WorkerTick
  <2>2. CASE WorkerStopped
    BY <2>2 DEF WorkerStopped
  <2>3. CASE WorkerLock
    BY <2>3 DEF WorkerLock
  <2>4. CASE WorkerFenced
    BY <2>4 DEF WorkerFenced
  <2>5. CASE WorkerUnhook
    BY <2>5 DEF WorkerUnhook
  <2>6. CASE WorkerPop
    BY <2>6 DEF WorkerPop
  <2>7. CASE WorkerEmpty
    BY <2>7 DEF WorkerEmpty, NoEvent
  <2>8. CASE WorkerShow
    BY <2>8 DEF WorkerShow, PushHistory, IsNewer
  <2>9. CASE WorkerStats
    BY <2>9 DEF WorkerStats
  <2>10. CASE WorkerPublish
    BY <2>10 DEF WorkerPublish, PublishAcquire
  <2>11. CASE WorkerBusy
    BY <2>11 DEF WorkerBusy, AfterPublish, PublishBusy, PublishingSteps
  <2>12. CASE WorkerPublished
    BY <2>12 DEF WorkerPublished, AfterPublish, PublishCopy, PublishingSteps
  <2>13. CASE WorkerFinish
    BY <2>13 DEF WorkerFinish
  <2>14. CASE WorkerExit
    BY <2>14 DEF WorkerExit
  <2> QED BY <1>2, <2>1, <2>2, <2>3, <2>4, <2>5, <2>6, <2>7, <2>8, <2>9, <2>10, <2>11, <2>12, <2>13, <2>14 DEF WorkerStep
<1>3. ASSUME NEW c \in Callers, CallerCalls(c) \/ CallerStep(c) PROVE ExitedIsQuiet'
  <2>1. CASE ApiBusy(c)
    BY <2>1 DEF ApiBusy, Return
  <2>2. CASE StartEnter(c)
    BY <2>2 DEF StartEnter, Goto
  <2>3. CASE StopNotReady(c)
    BY <2>3 DEF StopNotReady, Return
  <2>4. CASE StopSignal(c)
    BY <2>4 DEF StopSignal, Goto
  <2>5. CASE StartRefused(c)
    BY <2>5 DEF StartRefused, Return
  <2>6. CASE StartClaim(c)
    BY <2>6 DEF StartClaim, Goto
  <2>7. CASE StartLock(c)
    BY <2>7 DEF StartLock, Goto
  <2>8. CASE StartReset(c)
    BY <2>8 DEF StartReset, Goto
  <2>9. CASE StartInvalid(c)
    BY <2>9 DEF StartInvalid, Goto
  <2>10. CASE StartPrepare(c)
    BY <2>10 DEF StartPrepare, FreshDisplay, NoDisplay, Goto
  <2>11. CASE CallerPublish(c)
    BY <2>11 DEF CallerPublish, PublishAcquire
  <2>12. CASE CallerBusy(c)
    BY <2>12 DEF CallerBusy, AfterCallerPublish, PublishBusy, Goto
  <2>13. CASE CallerPublished(c)
    BY <2>13 DEF CallerPublished, AfterCallerPublish, PublishCopy, Goto
  <2>14. CASE StartNoLibrary(c)
    BY <2>14 DEF StartNoLibrary, Goto
  <2>15. CASE StartHookFails(c)
    BY <2>15 DEF StartHookFails, Goto
  <2>16. CASE StartHook(c)
    BY <2>16 DEF StartHook, Goto
  <2>17. CASE StartCollect(c)
    BY <2>17 DEF StartCollect, Goto
  <2>18. CASE StartThread(c)
    BY <2>18 DEF StartThread, Goto
  <2>19. CASE StartRunning(c)
    BY <2>19 DEF StartRunning, Return
  <2>20. CASE FailUncollect(c)
    BY <2>20 DEF FailUncollect, Goto
  <2>21. CASE FailUnhook(c)
    BY <2>21 DEF FailUnhook, Goto
  <2>22. CASE FailEnd(c)
    BY <2>22 DEF FailEnd, Return
  <2>23. CASE StopDone(c)
    BY <2>23 DEF StopDone, Return
  <2>24. CASE StopTimeout(c)
    BY <2>24 DEF StopTimeout, Return
  <2> QED BY <1>3, <2>1, <2>2, <2>3, <2>4, <2>5, <2>6, <2>7, <2>8, <2>9, <2>10, <2>11, <2>12, <2>13, <2>14, <2>15, <2>16, <2>17, <2>18, <2>19, <2>20, <2>21, <2>22, <2>23, <2>24 DEF CallerCalls, CallerStep
<1>4. ASSUME NEW r \in Readers, SnapshotBegin(r) \/ SnapshotEnd(r) PROVE ExitedIsQuiet'
  BY <1>4 DEF SnapshotBegin, SnapshotEnd
<1>5. CASE UNCHANGED vars
  BY <1>5 DEF vars
<1> QED BY <1>1, <1>2, <1>3, <1>4, <1>5 DEF Next

\* Every step keeps the boards of other sessions out of the ring: PushEvent
\* stores under the lock what it has just compared with g_lEpoch, PopEvent only
\* shortens the ring, and StartSession empties it in the step that advances it.
LEMMA QueueOfEpochStep == TypeOK /\ SessionInv /\ [Next]_vars => QueueOfEpoch'
<1> SUFFICES ASSUME TypeOK, SessionInv, [Next]_vars PROVE QueueOfEpoch'
  OBVIOUS
<1> USE QueueCapAssumption DEF TypeOK, SessionInv, QueueOfEpoch, Queued, RingIndex, QueueType
<1>1. ASSUME UNCHANGED <<slots, read, count, epoch>> PROVE QueueOfEpoch'
  BY <1>1
<1>2. ASSUME NEW p \in Producers, PushStore(p) PROVE QueueOfEpoch'
  <2> DEFINE tail == (read + count) % QueueCap
  <2>1. /\ slots' = [slots EXCEPT ![tail] = board[p]] /\ count' = count + 1
        /\ UNCHANGED <<read, epoch>> /\ 0..count'-1 = 0..count
    BY <1>2 DEF PushStore, sessionVars
  <2>2. board[p].epoch = epoch
    BY <1>2 DEF PushStore, StateKnows
  <2> SUFFICES ASSUME NEW i \in 0..count PROVE slots'[(read + i) % QueueCap].epoch = epoch
    BY <2>1
  <2>3. (read + i) % QueueCap \in 0..QueueCap-1 /\ tail \in 0..QueueCap-1
    OBVIOUS
  <2>4. CASE i = count
    BY <2>1, <2>2, <2>3, <2>4
  <2>5. CASE i \in 0..count-1
    BY <2>1, <2>2, <2>3, <2>5
  <2> QED BY <2>4, <2>5
<1>3. CASE WorkerPop
  <2>1. /\ read' = (read + 1) % QueueCap /\ count' = count - 1 /\ count # 0
        /\ UNCHANGED <<slots, epoch>> /\ 0..count'-1 = 0..count-2
    BY <1>3 DEF WorkerPop, sessionVars
  <2> SUFFICES ASSUME NEW i \in 0..count-2
               PROVE  slots[(((read + 1) % QueueCap) + i) % QueueCap].epoch = epoch
    BY <2>1
  <2>2. (((read + 1) % QueueCap) + i) % QueueCap = (read + (i + 1)) % QueueCap
    BY RingStep
  <2>3. i + 1 \in 0..count-1
    OBVIOUS
  <2> QED BY <2>2, <2>3
<1>4. ASSUME NEW c \in Callers, StartReset(c) PROVE QueueOfEpoch'
  BY <1>4 DEF StartReset
<1>5. ASSUME NEW p \in Producers, BoardEnter(p) \/ ProducerStep(p), ~(PushStore(p))
      PROVE  UNCHANGED <<slots, read, count, epoch>>
  BY <1>5 DEF ProducerStep, BoardEnter, BoardTake, BoardNumber, PushCheck, PushTry,
      PushContended, PushRecheck, PushStore, PushFull, NoEvent, MayPush, RingIndex,
      sessionVars, queueVars, counterVars, producerVars, workerVars, callerVars, snapVars
<1>6. ASSUME WorkerStep, ~(WorkerPop)
      PROVE  UNCHANGED <<slots, read, count, epoch>>
  BY <1>6 DEF WorkerStep, WorkerTick, WorkerStopped, WorkerLock, WorkerFenced, WorkerUnhook,
      WorkerPop, WorkerEmpty, WorkerShow, WorkerStats, WorkerPublish, WorkerBusy,
      WorkerPublished, WorkerFinish, WorkerExit, NoEvent, PushHistory, IsNewer,
      PublishAcquire, AfterPublish, PublishBusy, PublishingSteps, PublishCopy, sessionVars,
      queueVars, counterVars, producerVars, workerVars, callerVars, snapVars
<1>7. ASSUME NEW c \in Callers, CallerCalls(c) \/ CallerStep(c), ~(StartReset(c))
      PROVE  UNCHANGED <<slots, read, count, epoch>>
  BY <1>7 DEF CallerCalls, CallerStep, ApiBusy, StartEnter, StopNotReady, StopSignal,
      StartRefused, StartClaim, StartLock, StartReset, StartInvalid, StartPrepare,
      CallerPublish, CallerBusy, CallerPublished, StartNoLibrary, StartHookFails, StartHook,
      StartCollect, StartThread, StartRunning, FailUncollect, FailUnhook, FailEnd, StopDone,
      StopTimeout, Return, Goto, FreshDisplay, NoDisplay, PublishAcquire, AfterCallerPublish,
      PublishBusy, PublishCopy, sessionVars, queueVars, counterVars, producerVars, workerVars,
      callerVars, snapVars
<1>8. ASSUME NEW r \in Readers, SnapshotBegin(r) \/ SnapshotEnd(r)
      PROVE  UNCHANGED <<slots, read, count, epoch>>
  BY <1>8 DEF SnapshotBegin, SnapshotEnd, sessionVars, queueVars, counterVars, producerVars,
      workerVars, callerVars, snapVars
<1>9. CASE UNCHANGED vars
  BY <1>1, <1>9 DEF vars, sessionVars, queueVars
<1> QED BY <1>1, <1>2, <1>3, <1>4, <1>5, <1>6, <1>7, <1>8, <1>9 DEF Next

\* Every step keeps the boards of other sessions off the display: the worker
\* shows what it took from the ring, and starts on a display just cleared.
LEMMA HistoryOfEpochStep == TypeOK /\ SessionInv /\ [Next]_vars => HistoryOfEpoch'
<1> SUFFICES ASSUME TypeOK, SessionInv, [Next]_vars PROVE HistoryOfEpoch'
  OBVIOUS
<1> USE DEF TypeOK, SessionInv, HistoryOfEpoch
<1>1. ASSUME UNCHANGED <<display, epoch>>, wpc' # "none" => wpc # "none" PROVE HistoryOfEpoch'
  BY <1>1
<1>2. CASE WorkerShow
  <2>1. CASE display' = display
    BY <1>2, <2>1 DEF WorkerShow, sessionVars
  <2>2. CASE display' = [display EXCEPT !.history = PushHistory(wEvent)]
    <3>1. /\ display.history \in Seq(Event) /\ wEvent \in Event
          /\ display \in Display
      BY DEF DisplayType, Display, EventType
    <3>2. display'.history = PushHistory(wEvent)
      BY <2>2, <3>1 DEF Display
    <3>3. wEvent.epoch = epoch /\ epoch' = epoch /\ wpc # "none"
      BY <1>2 DEF WorkerShow, WorkerKnows, sessionVars
    <3>4. \A i \in DOMAIN display.history : display.history[i].epoch = epoch
      BY <3>3
    <3> SUFFICES ASSUME NEW i \in DOMAIN PushHistory(wEvent)
                 PROVE  PushHistory(wEvent)[i].epoch = epoch
      BY <3>2, <3>3
    <3>5. i \in 1..Len(display.history) + 1
      BY <3>1, PushHistoryShape
    <3>6. CASE i = 1
      BY <3>1, <3>3, <3>6, PushHistoryShape
    <3>7. CASE i > 1
      <4>1. i - 1 \in DOMAIN display.history
        BY <3>1, <3>5, <3>7
      <4> QED BY <3>1, <3>4, <3>7, <4>1, PushHistoryShape
    <3> QED BY <3>5, <3>6, <3>7
  <2> QED BY <1>2, <2>1, <2>2 DEF WorkerShow
<1>3. CASE WorkerStats
  <2>1. display'.history = display.history /\ epoch' = epoch /\ wpc # "none"
    BY <1>3 DEF WorkerStats, sessionVars, DisplayType, Display
  <2> QED BY <2>1
<1>4. ASSUME NEW c \in Callers, StartReset(c) \/ StartPrepare(c) \/ FailUnhook(c)
      PROVE  HistoryOfEpoch'
  <2>1. wpc = "none" /\ wpc' = wpc
    BY <1>4 DEF StartReset, StartPrepare, FailUnhook, workerVars, CallerKnows, WorkerKnows,
                StarterSteps, CallerSteps
  <2> QED BY <2>1
<1>5. ASSUME NEW c \in Callers, StartThread(c) PROVE HistoryOfEpoch'
  <2>1. display.history = << >> /\ display' = display
    BY <1>5 DEF StartThread, CallerKnows, CleanSteps
  <2> QED BY <2>1
<1>6. ASSUME NEW p \in Producers, BoardEnter(p) \/ ProducerStep(p)
      PROVE  UNCHANGED <<display, epoch>> /\ (wpc' # "none" => wpc # "none")
  BY <1>6 DEF ProducerStep, BoardEnter, BoardTake, BoardNumber, PushCheck, PushTry,
      PushContended, PushRecheck, PushStore, PushFull, NoEvent, MayPush, RingIndex,
      sessionVars, queueVars, counterVars, producerVars, workerVars, callerVars, snapVars
<1>7. ASSUME WorkerStep, ~(WorkerShow \/ WorkerStats)
      PROVE  UNCHANGED <<display, epoch>> /\ (wpc' # "none" => wpc # "none")
  BY <1>7 DEF WorkerStep, WorkerTick, WorkerStopped, WorkerLock, WorkerFenced, WorkerUnhook,
      WorkerPop, WorkerEmpty, WorkerShow, WorkerStats, WorkerPublish, WorkerBusy,
      WorkerPublished, WorkerFinish, WorkerExit, NoEvent, PushHistory, IsNewer,
      PublishAcquire, AfterPublish, PublishBusy, PublishingSteps, PublishCopy, sessionVars,
      queueVars, counterVars, producerVars, workerVars, callerVars, snapVars
<1>8. ASSUME NEW c \in Callers, CallerCalls(c) \/ CallerStep(c), ~(StartReset(c) \/ StartPrepare(c) \/ FailUnhook(c) \/ StartThread(c))
      PROVE  UNCHANGED <<display, epoch>> /\ (wpc' # "none" => wpc # "none")
  BY <1>8 DEF CallerCalls, CallerStep, ApiBusy, StartEnter, StopNotReady, StopSignal,
      StartRefused, StartClaim, StartLock, StartReset, StartInvalid, StartPrepare,
      CallerPublish, CallerBusy, CallerPublished, StartNoLibrary, StartHookFails, StartHook,
      StartCollect, StartThread, StartRunning, FailUncollect, FailUnhook, FailEnd, StopDone,
      StopTimeout, Return, Goto, FreshDisplay, NoDisplay, PublishAcquire, AfterCallerPublish,
      PublishBusy, PublishCopy, sessionVars, queueVars, counterVars, producerVars, workerVars,
      callerVars, snapVars
<1>9. ASSUME NEW r \in Readers, SnapshotBegin(r) \/ SnapshotEnd(r)
      PROVE  UNCHANGED <<display, epoch>> /\ (wpc' # "none" => wpc # "none")
  BY <1>9 DEF SnapshotBegin, SnapshotEnd, sessionVars, queueVars, counterVars, producerVars,
      workerVars, callerVars, snapVars
<1>10. CASE UNCHANGED vars
  BY <1>1, <1>10 DEF vars, sessionVars, workerVars
<1> QED BY <1>1, <1>2, <1>3, <1>4, <1>5, <1>6, <1>7, <1>8, <1>9, <1>10 DEF Next

\* The session invariant holds at the start.
LEMMA SessionInit == Init => SessionInv
<1> SUFFICES ASSUME Init PROVE SessionInv
  OBVIOUS
<1> USE DEF Init
<1>1. LockOwners
  BY OwnersAssumption DEF LockOwners
<1>2. WorkerKnows
  BY DEF WorkerKnows, Looping, Unhooked, Drained, DrainSteps
<1>3. CallerKnows
  BY DEF CallerKnows, StarterSteps, CallerSteps, CleanSteps
<1>4. StateKnows /\ SwitchKnows /\ QueueOfEpoch /\ HistoryOfEpoch /\ ExitedIsQuiet
  BY DEF StateKnows, SwitchKnows, CleanSteps, QueueOfEpoch, HistoryOfEpoch, ExitedIsQuiet
<1> QED BY <1>1, <1>2, <1>3, <1>4 DEF SessionInv

\* The session invariant is inductive, so it holds in every reachable state.
THEOREM SessionCorrect == Spec => []SessionInv
<1>1. TypeOK /\ SessionInv /\ [Next]_vars => SessionInv'
  BY LockOwnersStep, WorkerKnowsStep, CallerKnowsStep, StateKnowsStep, SwitchKnowsStep,
     QueueOfEpochStep, HistoryOfEpochStep, ExitedStep DEF SessionInv
<1> QED BY SessionInit, <1>1, TypeCorrect, PTL DEF Spec

\* The queue holds boards of the running session only, and a running worker shows
\* no others.
THEOREM SessionsNeverMix == Spec => []NeverMixesSessions
<1>1. SessionInv => NeverMixesSessions
  BY DEF SessionInv, NeverMixesSessions
<1> QED BY SessionCorrect, <1>1, PTL

\* After the worker's handle is signalled the session stays over: no late game
\* thread can queue a board, and state, hooks and stop error agree.
THEOREM EndedSessionsStayQuiet == Spec => []ExitedIsQuiet
<1>1. SessionInv => ExitedIsQuiet
  BY DEF SessionInv
<1> QED BY SessionCorrect, <1>1, PTL

\* g_Display never has two writers, although no lock protects it.
THEOREM DisplayHasOneWriter == Spec => []SingleDisplayWriter
<1>1. TypeOK /\ SessionInv => SingleDisplayWriter
  BY DEF SessionInv, LockOwners, WorkerKnows, CallerKnows, SingleDisplayWriter, DisplayWriters,
         StarterSteps, CallerSteps
<1> QED BY TypeCorrect, SessionCorrect, <1>1, PTL

\* State 2 without a stop request is a session with worker, hooks and collection.
THEOREM RunningSessionsWork == Spec => []RunningIsLive
<1>1. TypeOK /\ SessionInv => RunningIsLive
  BY DEF SessionInv, WorkerKnows, StateKnows, RunningIsLive, Looping
<1> QED BY TypeCorrect, SessionCorrect, <1>1, PTL

\* A successful CollectorStop means stopped, unhooked and drained.
THEOREM StopIsComplete == Spec => StopMeansStopped
<1>1. TypeOK /\ SessionInv /\ [Next]_vars =>
         [\A c \in Callers :
             result'[c] = "STOPPED" /\ cpc[c] = "stopWait" /\ cpc'[c] = "idle" =>
                 state = 4 /\ ~collect /\ ~hooks /\ count = 0 /\ wpc = "none"]_vars
  <2> SUFFICES ASSUME TypeOK, SessionInv, Next, NEW c \in Callers,
                      result'[c] = "STOPPED", cpc[c] = "stopWait", cpc'[c] = "idle"
               PROVE  state = 4 /\ ~collect /\ ~hooks /\ count = 0 /\ wpc = "none"
    OBVIOUS
  <2>1. ASSUME NEW d \in Callers, CallerCalls(d) \/ CallerStep(d), d # c PROVE FALSE
    <3>1. cpc'[c] = cpc[c]
      BY <2>1 DEF TypeOK, StepType, CallerCalls, CallerStep, ApiBusy, StartEnter, StopNotReady, StopSignal, StartRefused, StartClaim, StartLock,
         StartReset, StartInvalid, StartPrepare, CallerPublish, CallerBusy, CallerPublished,
         StartNoLibrary, StartHookFails, StartHook, StartCollect, StartThread, StartRunning,
         FailUncollect, FailUnhook, FailEnd, StopDone, StopTimeout, Return, Goto, callerVars,
         AfterCallerPublish
    <3> QED BY <3>1
  <2>2. ASSUME CallerCalls(c) \/ CallerStep(c) PROVE StopDone(c)
    BY <2>2 DEF TypeOK, StepType, CallerCalls, CallerStep, ApiBusy, StartEnter, StopNotReady, StopSignal, StartRefused, StartClaim, StartLock,
         StartReset, StartInvalid, StartPrepare, CallerPublish, CallerBusy, CallerPublished,
         StartNoLibrary, StartHookFails, StartHook, StartCollect, StartThread, StartRunning,
         FailUncollect, FailUnhook, FailEnd, StopDone, StopTimeout, Return, Goto, callerVars,
         AfterCallerPublish
  <2>3. ASSUME NEW p \in Producers, BoardEnter(p) \/ ProducerStep(p) PROVE FALSE
    BY <2>3 DEF ProducerStep, BoardEnter, BoardTake, BoardNumber, PushCheck, PushTry, PushContended, PushRecheck, PushStore, PushFull, callerVars
  <2>4. ASSUME WorkerStep PROVE FALSE
    BY <2>4 DEF WorkerStep, WorkerTick, WorkerStopped, WorkerLock, WorkerFenced, WorkerUnhook, WorkerPop, WorkerEmpty,
         WorkerShow, WorkerStats, WorkerPublish, WorkerBusy, WorkerPublished, WorkerFinish,
         WorkerExit, callerVars
  <2>5. ASSUME NEW r \in Readers, SnapshotBegin(r) \/ SnapshotEnd(r) PROVE FALSE
    BY <2>5 DEF SnapshotBegin, SnapshotEnd, callerVars
  <2>6. StopDone(c)
    BY <2>1, <2>2, <2>3, <2>4, <2>5 DEF Next
  <2>7. stopError = "SUCCESS" /\ hWorker = "exited"
    BY <2>6 DEF StopDone, Return, TypeOK, StepType, SessionType
  <2> QED BY <2>7 DEF SessionInv, ExitedIsQuiet
<1> QED BY TypeCorrect, SessionCorrect, <1>1, PTL DEF Spec, StopMeansStopped


\* Every step of the collector is a step of the switch or leaves its words alone.
LEMMA SwitchStep ==
    ASSUME TypeOK, SessionInv, [Next]_vars
    PROVE  Switch!Next \/ UNCHANGED <<collect, epoch, Armed>>
<1> USE DEF TypeOK, SessionType, StepType, LockType, ArmedSteps, Armed
<1>0. ASSUME NEW c \in Callers, cpc[c] # "idle" PROVE apiLock = c
  BY <1>0 DEF SessionInv, LockOwners
<1>1. ASSUME NEW c \in Callers, StartReset(c) PROVE Switch!Renew
  BY <1>1, <1>0 DEF StartReset, Goto, Switch!Renew, SessionInv, SwitchKnows, CallerKnows,
      StarterSteps, CallerSteps
<1>2. ASSUME NEW c \in Callers, StartInvalid(c) PROVE Switch!Abandon
  BY <1>2, <1>0 DEF StartInvalid, Goto, Switch!Abandon, sessionVars
<1>3. ASSUME NEW c \in Callers, StartNoLibrary(c) PROVE Switch!Abandon
  BY <1>3, <1>0 DEF StartNoLibrary, Goto, Switch!Abandon, sessionVars
<1>4. ASSUME NEW c \in Callers, StartHookFails(c) PROVE Switch!Abandon
  BY <1>4, <1>0 DEF StartHookFails, Goto, Switch!Abandon
<1>5. ASSUME NEW c \in Callers, StartCollect(c) PROVE Switch!SwitchOn
  BY <1>5, <1>0 DEF StartCollect, Goto, Switch!SwitchOn
<1>6. CASE WorkerStopped
  BY <1>6 DEF WorkerStopped, callerVars, Switch!SwitchOff, Switch!Next
<1>7. ASSUME NEW c \in Callers, FailUncollect(c) PROVE Switch!SwitchOff \/ UNCHANGED <<collect, epoch, Armed>>
  BY <1>7, <1>0 DEF FailUncollect, Goto, Switch!SwitchOff
<1>8. ASSUME NEW p \in Producers, BoardEnter(p) \/ ProducerStep(p)
      PROVE  UNCHANGED <<collect, epoch, apiLock, cpc>>
  BY <1>8 DEF ProducerStep, BoardEnter, BoardTake, BoardNumber, PushCheck, PushTry,
      PushContended, PushRecheck, PushStore, PushFull, NoEvent, MayPush, RingIndex,
      sessionVars, queueVars, counterVars, producerVars, workerVars, callerVars, snapVars
<1>9. ASSUME WorkerStep, ~(WorkerStopped)
      PROVE  UNCHANGED <<collect, epoch, apiLock, cpc>>
  BY <1>9 DEF WorkerStep, WorkerTick, WorkerStopped, WorkerLock, WorkerFenced, WorkerUnhook,
      WorkerPop, WorkerEmpty, WorkerShow, WorkerStats, WorkerPublish, WorkerBusy,
      WorkerPublished, WorkerFinish, WorkerExit, NoEvent, PushHistory, IsNewer,
      PublishAcquire, AfterPublish, PublishBusy, PublishingSteps, PublishCopy, sessionVars,
      queueVars, counterVars, producerVars, workerVars, callerVars, snapVars
<1>10. ASSUME NEW r \in Readers, SnapshotBegin(r) \/ SnapshotEnd(r)
      PROVE  UNCHANGED <<collect, epoch, apiLock, cpc>>
  BY <1>10 DEF SnapshotBegin, SnapshotEnd, sessionVars, queueVars, counterVars, producerVars,
      workerVars, callerVars, snapVars
<1>11. ASSUME NEW c \in Callers, CallerCalls(c) \/ CallerStep(c),
              ~(StartReset(c) \/ StartInvalid(c) \/ StartNoLibrary(c) \/ StartHookFails(c) \/ StartCollect(c) \/ FailUncollect(c))
       PROVE  UNCHANGED <<collect, epoch, Armed>>
  <2>1. CASE ApiBusy(c)
    BY <2>1, <1>0 DEF ApiBusy, Return, sessionVars, callerVars
  <2>2. CASE StartEnter(c)
    BY <2>2, <1>0, OwnersAssumption DEF StartEnter, Goto, sessionVars, callerVars
  <2>3. CASE StopNotReady(c)
    BY <2>3, <1>0 DEF StopNotReady, Return, sessionVars, callerVars
  <2>4. CASE StopSignal(c)
    BY <2>4, <1>0, OwnersAssumption DEF StopSignal, Goto, sessionVars, callerVars
  <2>5. CASE StartRefused(c)
    BY <2>5, <1>0 DEF StartRefused, Return, sessionVars, callerVars
  <2>6. CASE StartClaim(c)
    BY <2>6, <1>0 DEF StartClaim, Goto, sessionVars, callerVars
  <2>7. CASE StartLock(c)
    BY <2>7, <1>0 DEF StartLock, Goto, sessionVars, callerVars
  <2>8. CASE StartPrepare(c)
    BY <2>8, <1>0 DEF StartPrepare, FreshDisplay, NoDisplay, Goto, sessionVars, callerVars
  <2>9. CASE CallerPublish(c)
    BY <2>9, <1>0 DEF CallerPublish, PublishAcquire, sessionVars, callerVars
  <2>10. CASE CallerBusy(c)
    BY <2>10, <1>0 DEF CallerBusy, AfterCallerPublish, PublishBusy, Goto, sessionVars,
        callerVars
  <2>11. CASE CallerPublished(c)
    BY <2>11, <1>0 DEF CallerPublished, AfterCallerPublish, PublishCopy, Goto, sessionVars,
        callerVars
  <2>12. CASE StartHook(c)
    BY <2>12, <1>0 DEF StartHook, Goto, sessionVars, callerVars
  <2>13. CASE StartThread(c)
    BY <2>13, <1>0 DEF StartThread, Goto, sessionVars, callerVars
  <2>14. CASE StartRunning(c)
    BY <2>14, <1>0 DEF StartRunning, Return, sessionVars, callerVars
  <2>15. CASE FailUnhook(c)
    BY <2>15, <1>0 DEF FailUnhook, Goto, sessionVars, callerVars
  <2>16. CASE FailEnd(c)
    BY <2>16, <1>0 DEF FailEnd, Return, sessionVars, callerVars
  <2>17. CASE StopDone(c)
    BY <2>17, <1>0 DEF StopDone, Return, sessionVars, callerVars
  <2>18. CASE StopTimeout(c)
    BY <2>18, <1>0 DEF StopTimeout, Return, sessionVars, callerVars
  <2> QED BY <1>11, <2>1, <2>2, <2>3, <2>4, <2>5, <2>6, <2>7, <2>8, <2>9, <2>10, <2>11, <2>12, <2>13, <2>14, <2>15, <2>16, <2>17, <2>18 DEF CallerCalls, CallerStep
<1>12. CASE UNCHANGED vars
  BY <1>12 DEF vars, sessionVars, callerVars
<1> QED BY <1>1, <1>2, <1>3, <1>4, <1>5, <1>6, <1>7, <1>8, <1>9, <1>10, <1>11, <1>12 DEF Next, Switch!Next

\* The collector implements the switch Capture's hooks are written against.
THEOREM CollectorImplementsSwitch == Spec => ImplementsSwitch
<1>1. Init => Switch!Init
  BY OwnersAssumption DEF Init, Switch!Init, Armed
<1>2. TypeOK /\ SessionInv /\ [Next]_vars => [Switch!Next]_<<collect, epoch, Armed>>
  BY SwitchStep
<1> QED BY TypeCorrect, SessionCorrect, <1>1, <1>2, PTL DEF Spec, ImplementsSwitch, Switch!Spec

=============================================================================
