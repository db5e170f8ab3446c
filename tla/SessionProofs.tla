--------------------------- MODULE SessionProofs ---------------------------
(***************************************************************************)
(* Proofs about Session, for any number of remote threads and frames: what  *)
(* the results of BoardStatsStart and BoardStatsStop mean, and that no      *)
(* frame draws once the HUD's thread has ended.                            *)
(***************************************************************************)
EXTENDS Session, TLAPS

StartSteps   == {"collectorStart", "collectorClaim", "collectorLaunch", "collectorReturn",
                 "hudStart"}
ReloadSteps  == {"load", "configure", "apply"}
CreateSteps  == {"hook", "switchOn", "create", "uncreate"}
\* InternalStart between taking and giving back ApiLock.
HudSteps     == ReloadSteps \cup CreateSteps \cup {"hudCheck", "await", "hudFinal"}
StopSteps    == {"hudStop", "hudStopWait", "collectorStop", "collectorWait"}
\* CollectorStart and CollectorStop between taking and giving back their lock.
ControlSteps == {"collectorClaim", "collectorLaunch", "collectorReturn", "collectorWait"}
\* HotkeyWorker after its loop: with lEnabled off, and past the fence.
EndSteps     == {"unhook", "fence", "unpaint", "collectorStop", "collectorWait", "exit"}
FencedSteps  == {"unpaint", "collectorStop", "collectorWait", "exit"}

\* Which steps an exported call is made of.
OpSteps ==
    /\ \A c \in Callers :
          /\ op[c] # "loop" /\ (op[c] = "none" <=> pc[c] = "idle")
          /\ op[c] = "start" => pc[c] \in StartSteps \cup HudSteps \cup StopSteps
          /\ op[c] = "stop" => pc[c] \in StopSteps
          /\ op[c] = "reload" => pc[c] \in ReloadSteps
          /\ op[c] = "wait" => pc[c] \in {"waitLock", "waitWorker"}
    /\ pc[Hotkey] \in HotkeySteps
    /\ op[Hotkey] = IF pc[Hotkey] = "idle" THEN "none" ELSE "loop"

\* Who owns each lock, at which steps.
LockOwners ==
    /\ \A c \in Callers : sessionLock = c <=> op[c] \in {"start", "stop"}
    /\ \A c \in Callers :
          apiLock = c <=> \/ op[c] = "start" /\ pc[c] \in HudSteps
                          \/ op[c] = "reload" \/ pc[c] = "hudStopWait"
    /\ \A a \in Actors : owner = a <=> pc[a] \in ControlSteps
    /\ \A f \in Frames : renderLock = f <=> fpc[f] \in {"recheck", "draw", "release"}

\* What the HUD's thread knows at each of its steps, and what remains of it.
HotkeyKnows ==
    /\ hWorker = "running" <=> pc[Hotkey] # "idle"
    /\ pc[Hotkey] \in EndSteps => hStop /\ ~enabled
    /\ pc[Hotkey] \in EndSteps \ {"unhook"} => ~present \/ bFailed
    /\ pc[Hotkey] \in FencedSteps => \A f \in Frames : fpc[f] # "draw"
    /\ enabled => hWorker = "running" \/ \E c \in Callers : pc[c] = "create"

\* What InternalStart knows of the HUD it creates.
StarterKnows ==
    \A c \in Callers :
        /\ op[c] = "start" /\ pc[c] \in ReloadSteps \cup CreateSteps => hWorker = "null"
        /\ pc[c] \in {"switchOn", "create"} => present
        /\ pc[c] = "create" => enabled
        /\ pc[c] = "await" \/ (pc[c] = "hudFinal" /\ error[c] = "SUCCESS") =>
              /\ hWorker # "null"
              /\ hStop \/ (hWorker = "running" /\ enabled /\ present)
              /\ hStop \/ worker = "on" \/ halfStopped
        /\ pc[c] = "hudFinal" /\ error[c] = "SUCCESS" => hReady
        /\ op[c] = "start" /\ pc[c] \in StopSteps => error[c] = "FAILED"

\* What the collector does meanwhile. A HUD thread that can still stop it is the
\* thread of the session it collects for, unless a stop gave up on that thread.
CollectorKnows ==
    /\ pc[Hotkey] \notin {"idle", "collectorWait", "exit"} => worker = "on" \/ halfStopped
    /\ \A a \in Actors : pc[a] = "collectorWait" => worker \in {"stopping", "exited"}
    /\ \A c \in Callers :
          /\ op[c] = "start" /\
             pc[c] \in {"collectorReturn", "hudStart", "hudCheck"} \cup ReloadSteps \cup CreateSteps
                => worker = "on" \/ halfStopped
          /\ op[c] = "start" /\
             pc[c] \in {"collectorLaunch", "collectorReturn", "hudStart", "hudCheck"}
                => pc[Hotkey] \in {"idle", "exit"} \/ halfStopped
          /\ pc[c] = "collectorLaunch" => worker = "none"
          /\ pc[c] \in {"collectorStop", "collectorWait"} => hWorker # "running" \/ halfStopped
          /\ op[c] = "stop" /\ pc[c] \in {"collectorStop", "collectorWait"} /\ error[c] = "SUCCESS"
                => hWorker # "running"

SessionInv ==
    /\ OpSteps /\ LockOwners /\ HotkeyKnows /\ StarterKnows /\ CollectorKnows
    /\ ExitedHudIsQuiet

-----------------------------------------------------------------------------
\* ReloadOptions returns to one of its three callers.
LEMMA ReloadedCases ==
    ASSUME TypeOK, OpSteps, NEW a \in Actors, NEW e \in Errors, pc[a] \in ReloadSteps,
           Reloaded(a, e)
    PROVE  \/ op[a] = "reload" /\ Return(a, e)
           \/ op[a] = "loop" /\ Goto(a, "pump") /\ UNCHANGED <<op, error>>
           \/ op[a] = "start" /\ e = "SUCCESS" /\ Goto(a, "hook") /\ UNCHANGED <<op, error>>
           \/ op[a] = "start" /\ e = "FAILED" /\ Fail(a, e) /\ UNCHANGED op
<1>1. op[a] \in {"reload", "loop", "start"}
  BY ActorsAssumption DEF TypeOK, OpSteps, ReloadSteps, StopSteps, Actors,
      HotkeySteps
<1>2. CASE op[a] = "reload"
  <2>1. op[a] # "loop" /\ op[a] # "start"
    BY <1>2
  <2> QED BY <1>2, <2>1, Zenon DEF Reloaded
<1>3. CASE op[a] = "loop"
  <2>1. op[a] # "reload" /\ op[a] # "start"
    BY <1>3
  <2> QED BY <1>3, <2>1, Zenon DEF Reloaded
<1>4. CASE op[a] = "start"
  <2>1. op[a] # "reload" /\ op[a] # "loop"
    BY <1>4
  <2> QED BY <1>4, <2>1, Zenon DEF Reloaded, Errors
<1> QED BY <1>1, <1>2, <1>3, <1>4

\* Every step keeps every type.
LEMMA TypeStep == TypeOK /\ SessionInv /\ [Next]_vars => TypeOK'
<1> SUFFICES ASSUME TypeOK /\ SessionInv, [Next]_vars PROVE TypeOK'
  OBVIOUS
<1> USE ActorsAssumption, SettingsAssumption DEF TypeOK, SessionInv, Actors, lockVars,
    switchVars, threadVars, hookVars, paintVars, controlVars, actorVars, historyVars,
    CallerSteps, HotkeySteps, FrameSteps, Errors, ReloadSteps
<1>1. ASSUME NEW c \in Callers, CallerCalls(c) PROVE TypeOK'
  <2>1. CASE StartEnter(c)
    BY <2>1 DEF StartEnter, Goto
  <2>2. CASE StopEnter(c)
    BY <2>2 DEF StopEnter, Goto
  <2>3. CASE ReloadEnter(c)
    BY <2>3 DEF ReloadEnter, Goto
  <2>4. CASE WaitEnter(c)
    BY <2>4 DEF WaitEnter, Goto
  <2> QED BY <1>1, <2>1, <2>2, <2>3, <2>4 DEF CallerCalls
<1>2. ASSUME NEW c \in Callers, CallerStep(c), ~Reloads(c), ~StopsCollector(c)
      PROVE  TypeOK'
  <2>1. CASE CollectorStart(c)
    BY <2>1 DEF CollectorStart, Goto, Return, Leave, Control!StartBegin
  <2>2. CASE CollectorClaim(c)
    BY <2>2 DEF CollectorClaim, Goto, Return, Leave, Control!StartRefused,
        Control!StartClaim
  <2>3. CASE CollectorLaunch(c)
    BY <2>3 DEF CollectorLaunch, Goto, Return, Leave, Control!StartLaunch,
        Control!StartFailed
  <2>4. CASE CollectorReturn(c)
    BY <2>4 DEF CollectorReturn, Goto, Control!StartOk
  <2>5. CASE HudStart(c)
    BY <2>5 DEF HudStart, Goto
  <2>6. CASE HudRefused(c)
    BY <2>6 DEF HudRefused, Fail, Goto
  <2>7. CASE HudImpossible(c)
    <3>1. {enabled, hidden, present, hStop, hReady, initialized, bFailed, paint, ini,
           failed}' \subseteq BOOLEAN
      BY <2>7 DEF HudImpossible, Fail, Goto
    <3>2. pc' \in [Actors -> CallerSteps \cup HotkeySteps]
      BY <2>7 DEF HudImpossible, Fail, Goto
    <3>3. op' \in [Actors -> {"none", "start", "stop", "reload", "wait", "loop"}]
      BY <2>7 DEF HudImpossible, Fail, Goto
    <3>4. error' \in [Actors -> Errors]
      BY <2>7 DEF HudImpossible, Fail, Goto
    <3>5. /\ {sessionLock, apiLock}' \subseteq Callers \cup {NoOne}
         /\ renderLock' \in Frames \cup {NoOne} /\ owner' \in Actors \cup {NoOne}
      BY <2>7 DEF HudImpossible, Fail, Goto
    <3>6. UNCHANGED <<hWorker, worker, awaited, workers, starts, fpc>>
          /\ halfStopped' \in BOOLEAN
      BY <2>7 DEF HudImpossible, Fail, Goto
    <3>7. loaded' \in [Actors -> BOOLEAN]
      BY <2>7 DEF HudImpossible, Fail, Goto
    <3> QED BY <3>1, <3>2, <3>3, <3>4, <3>5, <3>6, <3>7 DEF TypeOK
  <2>8. CASE HudEvents(c)
    <3>1. {enabled, hidden, present, hStop, hReady, initialized, bFailed, paint, ini,
           failed}' \subseteq BOOLEAN
      BY <2>8 DEF HudEvents, Fail, Goto
    <3>2. pc' \in [Actors -> CallerSteps \cup HotkeySteps]
      BY <2>8 DEF HudEvents, Fail, Goto
    <3>3. op' \in [Actors -> {"none", "start", "stop", "reload", "wait", "loop"}]
      BY <2>8 DEF HudEvents, Fail, Goto
    <3>4. error' \in [Actors -> Errors]
      BY <2>8 DEF HudEvents, Fail, Goto
    <3>5. /\ {sessionLock, apiLock}' \subseteq Callers \cup {NoOne}
         /\ renderLock' \in Frames \cup {NoOne} /\ owner' \in Actors \cup {NoOne}
      BY <2>8 DEF HudEvents, Fail, Goto
    <3>6. UNCHANGED <<worker, awaited, workers, starts, fpc>>
          /\ halfStopped' \in BOOLEAN /\ hWorker' \in {"null", "running", "exited"}
      BY <2>8 DEF HudEvents, Fail, Goto
    <3>7. loaded' \in [Actors -> BOOLEAN]
      BY <2>8 DEF HudEvents, Fail, Goto
    <3> QED BY <3>1, <3>2, <3>3, <3>4, <3>5, <3>6, <3>7 DEF TypeOK
  <2>9. CASE HudHook(c)
    <3>1. {enabled, hidden, present, hStop, hReady, initialized, bFailed, paint, ini,
           failed}' \subseteq BOOLEAN
      BY <2>9 DEF HudHook, Fail, Goto
    <3>2. pc' \in [Actors -> CallerSteps \cup HotkeySteps]
      BY <2>9 DEF HudHook, Fail, Goto
    <3>3. op' \in [Actors -> {"none", "start", "stop", "reload", "wait", "loop"}]
      BY <2>9 DEF HudHook, Fail, Goto
    <3>4. error' \in [Actors -> Errors]
      BY <2>9 DEF HudHook, Fail, Goto
    <3>5. /\ {sessionLock, apiLock}' \subseteq Callers \cup {NoOne}
         /\ renderLock' \in Frames \cup {NoOne} /\ owner' \in Actors \cup {NoOne}
      BY <2>9 DEF HudHook, Fail, Goto
    <3>6. UNCHANGED <<hWorker, worker, awaited, workers, starts, fpc>>
          /\ halfStopped' \in BOOLEAN
      BY <2>9 DEF HudHook, Fail, Goto
    <3>7. loaded' \in [Actors -> BOOLEAN]
      BY <2>9 DEF HudHook, Fail, Goto
    <3> QED BY <3>1, <3>2, <3>3, <3>4, <3>5, <3>6, <3>7 DEF TypeOK
  <2>10. CASE HudSwitchOn(c)
    BY <2>10 DEF HudSwitchOn, Goto
  <2>11. CASE HudCreate(c)
    BY <2>11 DEF HudCreate
  <2>12. CASE HudNotCreated(c)
    BY <2>12 DEF HudNotCreated, Goto
  <2>13. CASE HudUncreate(c)
    BY <2>13 DEF HudUncreate, Fail, Goto
  <2>14. CASE HudReady(c)
    BY <2>14 DEF HudReady, Goto
  <2>15. CASE HudNotReady(c)
    BY <2>15 DEF HudNotReady, Fail, Goto
  <2>16. CASE HudFinal(c)
    BY <2>16 DEF HudFinal, Leave, Goto
  <2>17. CASE HudStop(c)
    <3>1. {enabled, hidden, present, hStop, hReady, initialized, bFailed, paint, ini,
           failed}' \subseteq BOOLEAN
      BY <2>17 DEF HudStop, HudStopped, Goto
    <3>2. pc' \in [Actors -> CallerSteps \cup HotkeySteps]
      BY <2>17 DEF HudStop, HudStopped, Goto
    <3>3. op' \in [Actors -> {"none", "start", "stop", "reload", "wait", "loop"}]
      BY <2>17 DEF HudStop, HudStopped, Goto
    <3>4. error' \in [Actors -> Errors]
      BY <2>17 DEF HudStop, HudStopped, Goto
    <3>5. /\ {sessionLock, apiLock}' \subseteq Callers \cup {NoOne}
         /\ renderLock' \in Frames \cup {NoOne} /\ owner' \in Actors \cup {NoOne}
      BY <2>17 DEF HudStop, HudStopped, Goto
    <3>6. UNCHANGED <<hWorker, worker, awaited, workers, starts, fpc>>
          /\ halfStopped' \in BOOLEAN
      BY <2>17 DEF HudStop, HudStopped, Goto
    <3>7. loaded' \in [Actors -> BOOLEAN]
      BY <2>17 DEF HudStop, HudStopped, Goto
    <3> QED BY <3>1, <3>2, <3>3, <3>4, <3>5, <3>6, <3>7 DEF TypeOK
  <2>18. CASE HudStopWait(c)
    BY <2>18 DEF HudStopWait, HudStopped, Goto
  <2>19. CASE WaitDuplicate(c)
    BY <2>19 DEF WaitDuplicate, Return, Leave, Goto
  <2>20. CASE WaitReturn(c)
    BY <2>20 DEF WaitReturn, Return, Leave, Goto
  <2> QED BY <1>2, <2>1, <2>2, <2>3, <2>4, <2>5, <2>6, <2>7, <2>8, <2>9, <2>10, <2>11,
      <2>12, <2>13, <2>14, <2>15, <2>16, <2>17, <2>18, <2>19, <2>20 DEF CallerStep
<1>3. ASSUME NEW a \in Actors, Reloads(a) \/ StopsCollector(a) PROVE TypeOK'
  <2>1. CASE Load(a)
    BY <2>1 DEF Load, Goto
  <2>2. CASE Configure(a)
    <3>1. {enabled, hidden, present, hStop, hReady, initialized, bFailed, paint, ini,
           failed}' \subseteq BOOLEAN
      BY <2>2, ReloadedCases DEF Configure, Goto, Return, Leave, Fail, ReleaseApi, Errors
    <3>2. pc' \in [Actors -> CallerSteps \cup HotkeySteps]
      BY <2>2, ReloadedCases DEF Configure, Goto, Return, Leave, Fail, ReleaseApi, Errors
    <3>3. op' \in [Actors -> {"none", "start", "stop", "reload", "wait", "loop"}]
      BY <2>2, ReloadedCases DEF Configure, Goto, Return, Leave, Fail, ReleaseApi, Errors
    <3>4. error' \in [Actors -> Errors]
      BY <2>2, ReloadedCases DEF Configure, Goto, Return, Leave, Fail, ReleaseApi, Errors
    <3>5. /\ {sessionLock, apiLock}' \subseteq Callers \cup {NoOne}
         /\ renderLock' \in Frames \cup {NoOne} /\ owner' \in Actors \cup {NoOne}
      BY <2>2, ReloadedCases DEF Configure, Goto, Return, Leave, Fail, ReleaseApi, Errors
    <3>6. UNCHANGED <<hWorker, worker, awaited, workers, starts, fpc>>
          /\ halfStopped' \in BOOLEAN
      BY <2>2, ReloadedCases DEF Configure, Goto, Return, Leave, Fail, ReleaseApi, Errors
    <3>7. loaded' \in [Actors -> BOOLEAN]
      BY <2>2, ReloadedCases DEF Configure, Goto, Return, Leave, Fail, ReleaseApi, Errors
    <3> QED BY <3>1, <3>2, <3>3, <3>4, <3>5, <3>6, <3>7 DEF TypeOK
  <2>3. CASE Apply(a)
    BY <2>3, ReloadedCases DEF Apply, Goto, Return, Leave, Fail, ReleaseApi, Errors
  <2>4. CASE CollectorStop(a)
    BY <2>4 DEF CollectorStop, CollectorStopped, Goto, Leave, Control!StopSignal
  <2>5. CASE CollectorWait(a)
    BY <2>5 DEF CollectorWait, CollectorStopped, Goto, Leave, Control!StopDone,
        Control!StopTimeout
  <2> QED BY <1>3, <2>1, <2>2, <2>3, <2>4, <2>5 DEF Reloads, StopsCollector
<1>4. CASE \/ HotkeyStep /\ ~Reloads(Hotkey) /\ ~StopsCollector(Hotkey)
           \/ PressHide \/ PressQuit \/ PressReload
  <2>1. CASE Register
    BY <2>1 DEF Register, Goto
  <2>2. CASE Signal
    BY <2>2 DEF Signal, Goto
  <2>3. CASE Pump
    BY <2>3 DEF Pump, Goto
  <2>4. CASE PumpEmpty
    BY <2>4 DEF PumpEmpty, Goto
  <2>5. CASE SwitchOff
    BY <2>5 DEF SwitchOff, Goto
  <2>6. CASE Unhook
    BY <2>6 DEF Unhook, Goto
  <2>7. CASE Fence
    BY <2>7 DEF Fence, Goto
  <2>8. CASE Unpaint
    BY <2>8 DEF Unpaint, Goto
  <2>9. CASE Exit
    BY <2>9 DEF Exit, Leave, Goto
  <2>10. CASE PressHide
    BY <2>10 DEF PressHide
  <2>11. CASE PressQuit
    BY <2>11 DEF PressQuit
  <2>12. CASE PressReload
    BY <2>12 DEF PressReload, Goto
  <2> QED BY <1>4, <2>1, <2>2, <2>3, <2>4, <2>5, <2>6, <2>7, <2>8, <2>9, <2>10, <2>11, <2>12
      DEF HotkeyStep
<1>5. ASSUME NEW f \in Frames, FrameEnter(f) \/ FrameStep(f) PROVE TypeOK'
  <2>1. CASE FrameEnter(f)
    BY <2>1 DEF FrameEnter
  <2>2. CASE FramePeek(f)
    BY <2>2 DEF FramePeek
  <2>3. CASE FrameTry(f)
    BY <2>3 DEF FrameTry
  <2>4. CASE FrameRecheck(f)
    BY <2>4 DEF FrameRecheck
  <2>5. CASE FrameDraw(f)
    BY <2>5 DEF FrameDraw
  <2>6. CASE FrameRelease(f)
    BY <2>6 DEF FrameRelease
  <2> QED BY <1>5, <2>1, <2>2, <2>3, <2>4, <2>5, <2>6 DEF FrameStep
<1>6. CASE EditIni \/ CollectorThread
  <2>1. CASE EditIni
    BY <2>1 DEF EditIni
  <2>2. CASE CollectorThread
    BY <2>2 DEF CollectorThread, Control!WorkerFails, Control!WorkerEnds
  <2> QED BY <1>6, <2>1, <2>2
<1>7. CASE UNCHANGED vars
  BY <1>7 DEF vars
<1> QED BY <1>1, <1>2, <1>3, <1>4, <1>5, <1>6, <1>7 DEF Next, Actors

\* Every step leaves each thread at a step of the call it is in.
LEMMA OpStepsStep == TypeOK /\ SessionInv /\ [Next]_vars => OpSteps'
<1> SUFFICES ASSUME TypeOK /\ SessionInv, [Next]_vars PROVE OpSteps'
  OBVIOUS
<1> USE ActorsAssumption DEF TypeOK, SessionInv, Actors, OpSteps, LockOwners, HotkeyKnows,
    StarterKnows, lockVars, switchVars, threadVars, hookVars, paintVars, controlVars,
    actorVars, historyVars, CallerSteps, HotkeySteps, FrameSteps, Errors, StartSteps,
    ReloadSteps, CreateSteps, HudSteps, StopSteps, ControlSteps, EndSteps, FencedSteps
<1>1. ASSUME NEW c \in Callers, CallerCalls(c) PROVE OpSteps'
  <2>1. CASE StartEnter(c)
    BY <2>1 DEF StartEnter, Goto
  <2>2. CASE StopEnter(c)
    BY <2>2 DEF StopEnter, Goto
  <2>3. CASE ReloadEnter(c)
    BY <2>3 DEF ReloadEnter, Goto
  <2>4. CASE WaitEnter(c)
    BY <2>4 DEF WaitEnter, Goto
  <2> QED BY <1>1, <2>1, <2>2, <2>3, <2>4 DEF CallerCalls
<1>2. ASSUME NEW c \in Callers, CallerStep(c), ~Reloads(c), ~StopsCollector(c)
      PROVE  OpSteps'
  <2>1. CASE CollectorStart(c)
    BY <2>1 DEF CollectorStart, Goto, Return, Leave, Control!StartBegin
  <2>2. CASE CollectorClaim(c)
    BY <2>2 DEF CollectorClaim, Goto, Return, Leave, Control!StartRefused,
        Control!StartClaim
  <2>3. CASE CollectorLaunch(c)
    BY <2>3 DEF CollectorLaunch, Goto, Return, Leave, Control!StartLaunch,
        Control!StartFailed
  <2>4. CASE CollectorReturn(c)
    BY <2>4 DEF CollectorReturn, Goto, Control!StartOk
  <2>5. CASE HudStart(c)
    BY <2>5 DEF HudStart, Goto
  <2>6. CASE HudRefused(c)
    BY <2>6 DEF HudRefused, Fail, Goto
  <2>7. CASE HudImpossible(c)
    BY <2>7 DEF HudImpossible, Fail, Goto
  <2>8. CASE HudEvents(c)
    BY <2>8 DEF HudEvents, Fail, Goto
  <2>9. CASE HudHook(c)
    BY <2>9 DEF HudHook, Fail, Goto
  <2>10. CASE HudSwitchOn(c)
    BY <2>10 DEF HudSwitchOn, Goto
  <2>11. CASE HudCreate(c)
    BY <2>11 DEF HudCreate
  <2>12. CASE HudNotCreated(c)
    BY <2>12 DEF HudNotCreated, Goto
  <2>13. CASE HudUncreate(c)
    BY <2>13 DEF HudUncreate, Fail, Goto
  <2>14. CASE HudReady(c)
    BY <2>14 DEF HudReady, Goto
  <2>15. CASE HudNotReady(c)
    BY <2>15 DEF HudNotReady, Fail, Goto
  <2>16. CASE HudFinal(c)
    BY <2>16 DEF HudFinal, Leave, Goto
  <2>17. CASE HudStop(c)
    BY <2>17 DEF HudStop, HudStopped, Goto
  <2>18. CASE HudStopWait(c)
    BY <2>18 DEF HudStopWait, HudStopped, Goto
  <2>19. CASE WaitDuplicate(c)
    BY <2>19 DEF WaitDuplicate, Return, Leave, Goto
  <2>20. CASE WaitReturn(c)
    BY <2>20 DEF WaitReturn, Return, Leave, Goto
  <2> QED BY <1>2, <2>1, <2>2, <2>3, <2>4, <2>5, <2>6, <2>7, <2>8, <2>9, <2>10, <2>11,
      <2>12, <2>13, <2>14, <2>15, <2>16, <2>17, <2>18, <2>19, <2>20 DEF CallerStep
<1>3. ASSUME NEW a \in Actors, Reloads(a) \/ StopsCollector(a) PROVE OpSteps'
  <2>1. CASE Load(a)
    BY <2>1 DEF Load, Goto
  <2>2. CASE Configure(a)
    BY <2>2, ReloadedCases DEF Configure, Goto, Return, Leave, Fail, ReleaseApi, Errors
  <2>3. CASE Apply(a)
    BY <2>3, ReloadedCases DEF Apply, Goto, Return, Leave, Fail, ReleaseApi, Errors
  <2>4. CASE CollectorStop(a)
    BY <2>4 DEF CollectorStop, CollectorStopped, Goto, Leave, Control!StopSignal
  <2>5. CASE CollectorWait(a)
    BY <2>5 DEF CollectorWait, CollectorStopped, Goto, Leave, Control!StopDone,
        Control!StopTimeout
  <2> QED BY <1>3, <2>1, <2>2, <2>3, <2>4, <2>5 DEF Reloads, StopsCollector
<1>4. CASE \/ HotkeyStep /\ ~Reloads(Hotkey) /\ ~StopsCollector(Hotkey)
           \/ PressHide \/ PressQuit \/ PressReload
  <2>1. CASE Register
    BY <2>1 DEF Register, Goto
  <2>2. CASE Signal
    BY <2>2 DEF Signal, Goto
  <2>3. CASE Pump
    BY <2>3 DEF Pump, Goto
  <2>4. CASE PumpEmpty
    BY <2>4 DEF PumpEmpty, Goto
  <2>5. CASE SwitchOff
    BY <2>5 DEF SwitchOff, Goto
  <2>6. CASE Unhook
    BY <2>6 DEF Unhook, Goto
  <2>7. CASE Fence
    BY <2>7 DEF Fence, Goto
  <2>8. CASE Unpaint
    BY <2>8 DEF Unpaint, Goto
  <2>9. CASE Exit
    BY <2>9 DEF Exit, Leave, Goto
  <2>10. CASE PressHide
    BY <2>10 DEF PressHide
  <2>11. CASE PressQuit
    BY <2>11 DEF PressQuit
  <2>12. CASE PressReload
    BY <2>12 DEF PressReload, Goto
  <2> QED BY <1>4, <2>1, <2>2, <2>3, <2>4, <2>5, <2>6, <2>7, <2>8, <2>9, <2>10, <2>11, <2>12
      DEF HotkeyStep
<1>5. ASSUME NEW f \in Frames, FrameEnter(f) \/ FrameStep(f) PROVE OpSteps'
  <2>1. CASE FrameEnter(f)
    BY <2>1 DEF FrameEnter
  <2>2. CASE FramePeek(f)
    BY <2>2 DEF FramePeek
  <2>3. CASE FrameTry(f)
    BY <2>3 DEF FrameTry
  <2>4. CASE FrameRecheck(f)
    BY <2>4 DEF FrameRecheck
  <2>5. CASE FrameDraw(f)
    BY <2>5 DEF FrameDraw
  <2>6. CASE FrameRelease(f)
    BY <2>6 DEF FrameRelease
  <2> QED BY <1>5, <2>1, <2>2, <2>3, <2>4, <2>5, <2>6 DEF FrameStep
<1>6. CASE EditIni \/ CollectorThread
  <2>1. CASE EditIni
    BY <2>1 DEF EditIni
  <2>2. CASE CollectorThread
    BY <2>2 DEF CollectorThread, Control!WorkerFails, Control!WorkerEnds
  <2> QED BY <1>6, <2>1, <2>2
<1>7. CASE UNCHANGED vars
  BY <1>7 DEF vars
<1> QED BY <1>1, <1>2, <1>3, <1>4, <1>5, <1>6, <1>7 DEF Next, Actors

\* Every step leaves each lock with the thread whose step says so.
LEMMA LockOwnersStep == TypeOK /\ SessionInv /\ [Next]_vars => LockOwners'
<1> SUFFICES ASSUME TypeOK /\ SessionInv, [Next]_vars PROVE LockOwners'
  OBVIOUS
<1> USE ActorsAssumption DEF TypeOK, SessionInv, Actors, OpSteps, LockOwners, HotkeyKnows,
    StarterKnows, lockVars, switchVars, threadVars, hookVars, paintVars, controlVars,
    actorVars, historyVars, CallerSteps, HotkeySteps, FrameSteps, Errors, StartSteps,
    ReloadSteps, CreateSteps, HudSteps, StopSteps, ControlSteps, EndSteps, FencedSteps
<1>1. ASSUME NEW c \in Callers, CallerCalls(c) PROVE LockOwners'
  <2>1. CASE StartEnter(c)
    BY <2>1 DEF StartEnter, Goto
  <2>2. CASE StopEnter(c)
    BY <2>2 DEF StopEnter, Goto
  <2>3. CASE ReloadEnter(c)
    BY <2>3 DEF ReloadEnter, Goto
  <2>4. CASE WaitEnter(c)
    BY <2>4 DEF WaitEnter, Goto
  <2> QED BY <1>1, <2>1, <2>2, <2>3, <2>4 DEF CallerCalls
<1>2. ASSUME NEW c \in Callers, CallerStep(c), ~Reloads(c), ~StopsCollector(c)
      PROVE  LockOwners'
  <2>1. CASE CollectorStart(c)
    BY <2>1 DEF CollectorStart, Goto, Return, Leave, Control!StartBegin
  <2>2. CASE CollectorClaim(c)
    BY <2>2 DEF CollectorClaim, Goto, Return, Leave, Control!StartRefused,
        Control!StartClaim
  <2>3. CASE CollectorLaunch(c)
    BY <2>3 DEF CollectorLaunch, Goto, Return, Leave, Control!StartLaunch,
        Control!StartFailed
  <2>4. CASE CollectorReturn(c)
    BY <2>4 DEF CollectorReturn, Goto, Control!StartOk
  <2>5. CASE HudStart(c)
    BY <2>5 DEF HudStart, Goto
  <2>6. CASE HudRefused(c)
    BY <2>6 DEF HudRefused, Fail, Goto
  <2>7. CASE HudImpossible(c)
    BY <2>7 DEF HudImpossible, Fail, Goto
  <2>8. CASE HudEvents(c)
    BY <2>8 DEF HudEvents, Fail, Goto
  <2>9. CASE HudHook(c)
    BY <2>9 DEF HudHook, Fail, Goto
  <2>10. CASE HudSwitchOn(c)
    BY <2>10 DEF HudSwitchOn, Goto
  <2>11. CASE HudCreate(c)
    BY <2>11 DEF HudCreate
  <2>12. CASE HudNotCreated(c)
    BY <2>12 DEF HudNotCreated, Goto
  <2>13. CASE HudUncreate(c)
    BY <2>13 DEF HudUncreate, Fail, Goto
  <2>14. CASE HudReady(c)
    BY <2>14 DEF HudReady, Goto
  <2>15. CASE HudNotReady(c)
    BY <2>15 DEF HudNotReady, Fail, Goto
  <2>16. CASE HudFinal(c)
    BY <2>16 DEF HudFinal, Leave, Goto
  <2>17. CASE HudStop(c)
    BY <2>17 DEF HudStop, HudStopped, Goto
  <2>18. CASE HudStopWait(c)
    BY <2>18 DEF HudStopWait, HudStopped, Goto
  <2>19. CASE WaitDuplicate(c)
    BY <2>19 DEF WaitDuplicate, Return, Leave, Goto
  <2>20. CASE WaitReturn(c)
    BY <2>20 DEF WaitReturn, Return, Leave, Goto
  <2> QED BY <1>2, <2>1, <2>2, <2>3, <2>4, <2>5, <2>6, <2>7, <2>8, <2>9, <2>10, <2>11,
      <2>12, <2>13, <2>14, <2>15, <2>16, <2>17, <2>18, <2>19, <2>20 DEF CallerStep
<1>3. ASSUME NEW a \in Actors, Reloads(a) \/ StopsCollector(a) PROVE LockOwners'
  <2>1. CASE Load(a)
    BY <2>1 DEF Load, Goto
  <2>2. CASE Configure(a)
    BY <2>2, ReloadedCases DEF Configure, Goto, Return, Leave, Fail, ReleaseApi, Errors
  <2>3. CASE Apply(a)
    BY <2>3, ReloadedCases DEF Apply, Goto, Return, Leave, Fail, ReleaseApi, Errors
  <2>4. CASE CollectorStop(a)
    BY <2>4 DEF CollectorStop, CollectorStopped, Goto, Leave, Control!StopSignal
  <2>5. CASE CollectorWait(a)
    BY <2>5 DEF CollectorWait, CollectorStopped, Goto, Leave, Control!StopDone,
        Control!StopTimeout
  <2> QED BY <1>3, <2>1, <2>2, <2>3, <2>4, <2>5 DEF Reloads, StopsCollector
<1>4. CASE \/ HotkeyStep /\ ~Reloads(Hotkey) /\ ~StopsCollector(Hotkey)
           \/ PressHide \/ PressQuit \/ PressReload
  <2>1. CASE Register
    BY <2>1 DEF Register, Goto
  <2>2. CASE Signal
    BY <2>2 DEF Signal, Goto
  <2>3. CASE Pump
    BY <2>3 DEF Pump, Goto
  <2>4. CASE PumpEmpty
    BY <2>4 DEF PumpEmpty, Goto
  <2>5. CASE SwitchOff
    BY <2>5 DEF SwitchOff, Goto
  <2>6. CASE Unhook
    BY <2>6 DEF Unhook, Goto
  <2>7. CASE Fence
    BY <2>7 DEF Fence, Goto
  <2>8. CASE Unpaint
    BY <2>8 DEF Unpaint, Goto
  <2>9. CASE Exit
    BY <2>9 DEF Exit, Leave, Goto
  <2>10. CASE PressHide
    BY <2>10 DEF PressHide
  <2>11. CASE PressQuit
    BY <2>11 DEF PressQuit
  <2>12. CASE PressReload
    BY <2>12 DEF PressReload, Goto
  <2> QED BY <1>4, <2>1, <2>2, <2>3, <2>4, <2>5, <2>6, <2>7, <2>8, <2>9, <2>10, <2>11, <2>12
      DEF HotkeyStep
<1>5. ASSUME NEW f \in Frames, FrameEnter(f) \/ FrameStep(f) PROVE LockOwners'
  <2>1. CASE FrameEnter(f)
    BY <2>1 DEF FrameEnter
  <2>2. CASE FramePeek(f)
    BY <2>2 DEF FramePeek
  <2>3. CASE FrameTry(f)
    BY <2>3 DEF FrameTry
  <2>4. CASE FrameRecheck(f)
    BY <2>4 DEF FrameRecheck
  <2>5. CASE FrameDraw(f)
    BY <2>5 DEF FrameDraw
  <2>6. CASE FrameRelease(f)
    BY <2>6 DEF FrameRelease
  <2> QED BY <1>5, <2>1, <2>2, <2>3, <2>4, <2>5, <2>6 DEF FrameStep
<1>6. CASE EditIni \/ CollectorThread
  <2>1. CASE EditIni
    BY <2>1 DEF EditIni
  <2>2. CASE CollectorThread
    BY <2>2 DEF CollectorThread, Control!WorkerFails, Control!WorkerEnds
  <2> QED BY <1>6, <2>1, <2>2
<1>7. CASE UNCHANGED vars
  BY <1>7 DEF vars
<1> QED BY <1>1, <1>2, <1>3, <1>4, <1>5, <1>6, <1>7 DEF Next, Actors

\* Every step keeps what the HUD's thread knows.
LEMMA HotkeyKnowsStep == TypeOK /\ SessionInv /\ [Next]_vars => HotkeyKnows'
<1> SUFFICES ASSUME TypeOK /\ SessionInv, [Next]_vars PROVE HotkeyKnows'
  OBVIOUS
<1> USE ActorsAssumption DEF TypeOK, SessionInv, Actors, OpSteps, LockOwners, HotkeyKnows,
    StarterKnows, lockVars, switchVars, threadVars, hookVars, paintVars, controlVars,
    actorVars, historyVars, CallerSteps, HotkeySteps, FrameSteps, Errors, StartSteps,
    ReloadSteps, CreateSteps, HudSteps, StopSteps, ControlSteps, EndSteps, FencedSteps
<1>1. ASSUME NEW c \in Callers, CallerCalls(c) PROVE HotkeyKnows'
  <2>1. CASE StartEnter(c)
    BY <2>1 DEF StartEnter, Goto
  <2>2. CASE StopEnter(c)
    BY <2>2 DEF StopEnter, Goto
  <2>3. CASE ReloadEnter(c)
    BY <2>3 DEF ReloadEnter, Goto
  <2>4. CASE WaitEnter(c)
    BY <2>4 DEF WaitEnter, Goto
  <2> QED BY <1>1, <2>1, <2>2, <2>3, <2>4 DEF CallerCalls
<1>2. ASSUME NEW c \in Callers, CallerStep(c), ~Reloads(c), ~StopsCollector(c)
      PROVE  HotkeyKnows'
  <2>1. CASE CollectorStart(c)
    BY <2>1 DEF CollectorStart, Goto, Return, Leave, Control!StartBegin
  <2>2. CASE CollectorClaim(c)
    BY <2>2 DEF CollectorClaim, Goto, Return, Leave, Control!StartRefused,
        Control!StartClaim
  <2>3. CASE CollectorLaunch(c)
    BY <2>3 DEF CollectorLaunch, Goto, Return, Leave, Control!StartLaunch,
        Control!StartFailed
  <2>4. CASE CollectorReturn(c)
    BY <2>4 DEF CollectorReturn, Goto, Control!StartOk
  <2>5. CASE HudStart(c)
    BY <2>5 DEF HudStart, Goto
  <2>6. CASE HudRefused(c)
    BY <2>6 DEF HudRefused, Fail, Goto
  <2>7. CASE HudImpossible(c)
    BY <2>7 DEF HudImpossible, Fail, Goto
  <2>8. CASE HudEvents(c)
    BY <2>8 DEF HudEvents, Fail, Goto
  <2>9. CASE HudHook(c)
    BY <2>9 DEF HudHook, Fail, Goto
  <2>10. CASE HudSwitchOn(c)
    BY <2>10 DEF HudSwitchOn, Goto
  <2>11. CASE HudCreate(c)
    BY <2>11 DEF HudCreate
  <2>12. CASE HudNotCreated(c)
    BY <2>12 DEF HudNotCreated, Goto
  <2>13. CASE HudUncreate(c)
    BY <2>13 DEF HudUncreate, Fail, Goto
  <2>14. CASE HudReady(c)
    BY <2>14 DEF HudReady, Goto
  <2>15. CASE HudNotReady(c)
    BY <2>15 DEF HudNotReady, Fail, Goto
  <2>16. CASE HudFinal(c)
    BY <2>16 DEF HudFinal, Leave, Goto
  <2>17. CASE HudStop(c)
    BY <2>17 DEF HudStop, HudStopped, Goto
  <2>18. CASE HudStopWait(c)
    BY <2>18 DEF HudStopWait, HudStopped, Goto
  <2>19. CASE WaitDuplicate(c)
    BY <2>19 DEF WaitDuplicate, Return, Leave, Goto
  <2>20. CASE WaitReturn(c)
    BY <2>20 DEF WaitReturn, Return, Leave, Goto
  <2> QED BY <1>2, <2>1, <2>2, <2>3, <2>4, <2>5, <2>6, <2>7, <2>8, <2>9, <2>10, <2>11,
      <2>12, <2>13, <2>14, <2>15, <2>16, <2>17, <2>18, <2>19, <2>20 DEF CallerStep
<1>3. ASSUME NEW a \in Actors, Reloads(a) \/ StopsCollector(a) PROVE HotkeyKnows'
  <2>1. CASE Load(a)
    BY <2>1 DEF Load, Goto
  <2>2. CASE Configure(a)
    BY <2>2, ReloadedCases DEF Configure, Goto, Return, Leave, Fail, ReleaseApi, Errors
  <2>3. CASE Apply(a)
    BY <2>3, ReloadedCases DEF Apply, Goto, Return, Leave, Fail, ReleaseApi, Errors
  <2>4. CASE CollectorStop(a)
    BY <2>4 DEF CollectorStop, CollectorStopped, Goto, Leave, Control!StopSignal
  <2>5. CASE CollectorWait(a)
    BY <2>5 DEF CollectorWait, CollectorStopped, Goto, Leave, Control!StopDone,
        Control!StopTimeout
  <2> QED BY <1>3, <2>1, <2>2, <2>3, <2>4, <2>5 DEF Reloads, StopsCollector
<1>4. CASE \/ HotkeyStep /\ ~Reloads(Hotkey) /\ ~StopsCollector(Hotkey)
           \/ PressHide \/ PressQuit \/ PressReload
  <2>1. CASE Register
    BY <2>1 DEF Register, Goto
  <2>2. CASE Signal
    BY <2>2 DEF Signal, Goto
  <2>3. CASE Pump
    BY <2>3 DEF Pump, Goto
  <2>4. CASE PumpEmpty
    BY <2>4 DEF PumpEmpty, Goto
  <2>5. CASE SwitchOff
    BY <2>5 DEF SwitchOff, Goto
  <2>6. CASE Unhook
    BY <2>6 DEF Unhook, Goto
  <2>7. CASE Fence
    BY <2>7 DEF Fence, Goto
  <2>8. CASE Unpaint
    BY <2>8 DEF Unpaint, Goto
  <2>9. CASE Exit
    BY <2>9 DEF Exit, Leave, Goto
  <2>10. CASE PressHide
    BY <2>10 DEF PressHide
  <2>11. CASE PressQuit
    BY <2>11 DEF PressQuit
  <2>12. CASE PressReload
    BY <2>12 DEF PressReload, Goto
  <2> QED BY <1>4, <2>1, <2>2, <2>3, <2>4, <2>5, <2>6, <2>7, <2>8, <2>9, <2>10, <2>11, <2>12
      DEF HotkeyStep
<1>5. ASSUME NEW f \in Frames, FrameEnter(f) \/ FrameStep(f) PROVE HotkeyKnows'
  <2>1. CASE FrameEnter(f)
    BY <2>1 DEF FrameEnter
  <2>2. CASE FramePeek(f)
    BY <2>2 DEF FramePeek
  <2>3. CASE FrameTry(f)
    BY <2>3 DEF FrameTry
  <2>4. CASE FrameRecheck(f)
    BY <2>4 DEF FrameRecheck
  <2>5. CASE FrameDraw(f)
    BY <2>5 DEF FrameDraw
  <2>6. CASE FrameRelease(f)
    BY <2>6 DEF FrameRelease
  <2> QED BY <1>5, <2>1, <2>2, <2>3, <2>4, <2>5, <2>6 DEF FrameStep
<1>6. CASE EditIni \/ CollectorThread
  <2>1. CASE EditIni
    BY <2>1 DEF EditIni
  <2>2. CASE CollectorThread
    BY <2>2 DEF CollectorThread, Control!WorkerFails, Control!WorkerEnds
  <2> QED BY <1>6, <2>1, <2>2
<1>7. CASE UNCHANGED vars
  BY <1>7 DEF vars
<1> QED BY <1>1, <1>2, <1>3, <1>4, <1>5, <1>6, <1>7 DEF Next, Actors

\* Every step keeps what InternalStart knows.
LEMMA StarterKnowsStep == TypeOK /\ SessionInv /\ [Next]_vars => StarterKnows'
<1> SUFFICES ASSUME TypeOK /\ SessionInv, [Next]_vars PROVE StarterKnows'
  OBVIOUS
<1> USE ActorsAssumption DEF TypeOK, SessionInv, Actors, OpSteps, LockOwners, HotkeyKnows,
    StarterKnows, CollectorKnows, lockVars, switchVars, threadVars, hookVars, paintVars,
    controlVars, actorVars, historyVars, CallerSteps, HotkeySteps, FrameSteps, Errors,
    StartSteps, ReloadSteps, CreateSteps, HudSteps, StopSteps, ControlSteps, EndSteps,
    FencedSteps
<1>1. ASSUME NEW c \in Callers, CallerCalls(c) PROVE StarterKnows'
  <2>1. CASE StartEnter(c)
    BY <2>1 DEF StartEnter, Goto
  <2>2. CASE StopEnter(c)
    BY <2>2 DEF StopEnter, Goto
  <2>3. CASE ReloadEnter(c)
    BY <2>3 DEF ReloadEnter, Goto
  <2>4. CASE WaitEnter(c)
    BY <2>4 DEF WaitEnter, Goto
  <2> QED BY <1>1, <2>1, <2>2, <2>3, <2>4 DEF CallerCalls
<1>2. ASSUME NEW c \in Callers, CallerStep(c), ~Reloads(c), ~StopsCollector(c)
      PROVE  StarterKnows'
  <2>1. CASE CollectorStart(c)
    BY <2>1 DEF CollectorStart, Goto, Return, Leave, Control!StartBegin
  <2>2. CASE CollectorClaim(c)
    BY <2>2 DEF CollectorClaim, Goto, Return, Leave, Control!StartRefused,
        Control!StartClaim
  <2>3. CASE CollectorLaunch(c)
    BY <2>3 DEF CollectorLaunch, Goto, Return, Leave, Control!StartLaunch,
        Control!StartFailed
  <2>4. CASE CollectorReturn(c)
    BY <2>4 DEF CollectorReturn, Goto, Control!StartOk
  <2>5. CASE HudStart(c)
    BY <2>5 DEF HudStart, Goto
  <2>6. CASE HudRefused(c)
    BY <2>6 DEF HudRefused, Fail, Goto
  <2>7. CASE HudImpossible(c)
    BY <2>7 DEF HudImpossible, Fail, Goto
  <2>8. CASE HudEvents(c)
    BY <2>8 DEF HudEvents, Fail, Goto
  <2>9. CASE HudHook(c)
    BY <2>9 DEF HudHook, Fail, Goto
  <2>10. CASE HudSwitchOn(c)
    BY <2>10 DEF HudSwitchOn, Goto
  <2>11. CASE HudCreate(c)
    BY <2>11 DEF HudCreate
  <2>12. CASE HudNotCreated(c)
    BY <2>12 DEF HudNotCreated, Goto
  <2>13. CASE HudUncreate(c)
    BY <2>13 DEF HudUncreate, Fail, Goto
  <2>14. CASE HudReady(c)
    BY <2>14 DEF HudReady, Goto
  <2>15. CASE HudNotReady(c)
    BY <2>15 DEF HudNotReady, Fail, Goto
  <2>16. CASE HudFinal(c)
    BY <2>16 DEF HudFinal, Leave, Goto
  <2>17. CASE HudStop(c)
    BY <2>17 DEF HudStop, HudStopped, Goto
  <2>18. CASE HudStopWait(c)
    BY <2>18 DEF HudStopWait, HudStopped, Goto
  <2>19. CASE WaitDuplicate(c)
    BY <2>19 DEF WaitDuplicate, Return, Leave, Goto
  <2>20. CASE WaitReturn(c)
    BY <2>20 DEF WaitReturn, Return, Leave, Goto
  <2> QED BY <1>2, <2>1, <2>2, <2>3, <2>4, <2>5, <2>6, <2>7, <2>8, <2>9, <2>10, <2>11,
      <2>12, <2>13, <2>14, <2>15, <2>16, <2>17, <2>18, <2>19, <2>20 DEF CallerStep
<1>3. ASSUME NEW a \in Actors, Reloads(a) \/ StopsCollector(a) PROVE StarterKnows'
  <2>1. CASE Load(a)
    BY <2>1 DEF Load, Goto
  <2>2. CASE Configure(a)
    BY <2>2, ReloadedCases DEF Configure, Goto, Return, Leave, Fail, ReleaseApi, Errors
  <2>3. CASE Apply(a)
    BY <2>3, ReloadedCases DEF Apply, Goto, Return, Leave, Fail, ReleaseApi, Errors
  <2>4. CASE CollectorStop(a)
    BY <2>4 DEF CollectorStop, CollectorStopped, Goto, Leave, Control!StopSignal
  <2>5. CASE CollectorWait(a)
    BY <2>5 DEF CollectorWait, CollectorStopped, Goto, Leave, Control!StopDone,
        Control!StopTimeout
  <2> QED BY <1>3, <2>1, <2>2, <2>3, <2>4, <2>5 DEF Reloads, StopsCollector
<1>4. CASE \/ HotkeyStep /\ ~Reloads(Hotkey) /\ ~StopsCollector(Hotkey)
           \/ PressHide \/ PressQuit \/ PressReload
  <2>1. CASE Register
    BY <2>1 DEF Register, Goto
  <2>2. CASE Signal
    BY <2>2 DEF Signal, Goto
  <2>3. CASE Pump
    BY <2>3 DEF Pump, Goto
  <2>4. CASE PumpEmpty
    BY <2>4 DEF PumpEmpty, Goto
  <2>5. CASE SwitchOff
    BY <2>5 DEF SwitchOff, Goto
  <2>6. CASE Unhook
    BY <2>6 DEF Unhook, Goto
  <2>7. CASE Fence
    BY <2>7 DEF Fence, Goto
  <2>8. CASE Unpaint
    BY <2>8 DEF Unpaint, Goto
  <2>9. CASE Exit
    BY <2>9 DEF Exit, Leave, Goto
  <2>10. CASE PressHide
    BY <2>10 DEF PressHide
  <2>11. CASE PressQuit
    BY <2>11 DEF PressQuit
  <2>12. CASE PressReload
    BY <2>12 DEF PressReload, Goto
  <2> QED BY <1>4, <2>1, <2>2, <2>3, <2>4, <2>5, <2>6, <2>7, <2>8, <2>9, <2>10, <2>11, <2>12
      DEF HotkeyStep
<1>5. ASSUME NEW f \in Frames, FrameEnter(f) \/ FrameStep(f) PROVE StarterKnows'
  <2>1. CASE FrameEnter(f)
    BY <2>1 DEF FrameEnter
  <2>2. CASE FramePeek(f)
    BY <2>2 DEF FramePeek
  <2>3. CASE FrameTry(f)
    BY <2>3 DEF FrameTry
  <2>4. CASE FrameRecheck(f)
    BY <2>4 DEF FrameRecheck
  <2>5. CASE FrameDraw(f)
    BY <2>5 DEF FrameDraw
  <2>6. CASE FrameRelease(f)
    BY <2>6 DEF FrameRelease
  <2> QED BY <1>5, <2>1, <2>2, <2>3, <2>4, <2>5, <2>6 DEF FrameStep
<1>6. CASE EditIni \/ CollectorThread
  <2>1. CASE EditIni
    BY <2>1 DEF EditIni
  <2>2. CASE CollectorThread
    BY <2>2 DEF CollectorThread, Control!WorkerFails, Control!WorkerEnds
  <2> QED BY <1>6, <2>1, <2>2
<1>7. CASE UNCHANGED vars
  BY <1>7 DEF vars
<1> QED BY <1>1, <1>2, <1>3, <1>4, <1>5, <1>6, <1>7 DEF Next, Actors

\* Every step keeps what is known of the collector.
LEMMA CollectorKnowsStep == TypeOK /\ SessionInv /\ [Next]_vars => CollectorKnows'
<1> SUFFICES ASSUME TypeOK /\ SessionInv, [Next]_vars PROVE CollectorKnows'
  OBVIOUS
<1> USE ActorsAssumption DEF TypeOK, SessionInv, Actors, OpSteps, LockOwners, HotkeyKnows,
    StarterKnows, CollectorKnows, lockVars, switchVars, threadVars, hookVars, paintVars,
    controlVars, actorVars, historyVars, CallerSteps, HotkeySteps, FrameSteps, Errors,
    StartSteps, ReloadSteps, CreateSteps, HudSteps, StopSteps, ControlSteps, EndSteps,
    FencedSteps
<1>1. ASSUME NEW c \in Callers, CallerCalls(c) PROVE CollectorKnows'
  <2>1. CASE StartEnter(c)
    BY <2>1 DEF StartEnter, Goto
  <2>2. CASE StopEnter(c)
    BY <2>2 DEF StopEnter, Goto
  <2>3. CASE ReloadEnter(c)
    BY <2>3 DEF ReloadEnter, Goto
  <2>4. CASE WaitEnter(c)
    BY <2>4 DEF WaitEnter, Goto
  <2> QED BY <1>1, <2>1, <2>2, <2>3, <2>4 DEF CallerCalls
<1>2. ASSUME NEW c \in Callers, CallerStep(c), ~Reloads(c), ~StopsCollector(c)
      PROVE  CollectorKnows'
  <2>1. CASE CollectorStart(c)
    BY <2>1 DEF CollectorStart, Goto, Return, Leave, Control!StartBegin
  <2>2. CASE CollectorClaim(c)
    BY <2>2 DEF CollectorClaim, Goto, Return, Leave, Control!StartRefused,
        Control!StartClaim
  <2>3. CASE CollectorLaunch(c)
    BY <2>3 DEF CollectorLaunch, Goto, Return, Leave, Control!StartLaunch,
        Control!StartFailed
  <2>4. CASE CollectorReturn(c)
    BY <2>4 DEF CollectorReturn, Goto, Control!StartOk
  <2>5. CASE HudStart(c)
    BY <2>5 DEF HudStart, Goto
  <2>6. CASE HudRefused(c)
    BY <2>6 DEF HudRefused, Fail, Goto
  <2>7. CASE HudImpossible(c)
    BY <2>7 DEF HudImpossible, Fail, Goto
  <2>8. CASE HudEvents(c)
    BY <2>8 DEF HudEvents, Fail, Goto
  <2>9. CASE HudHook(c)
    BY <2>9 DEF HudHook, Fail, Goto
  <2>10. CASE HudSwitchOn(c)
    BY <2>10 DEF HudSwitchOn, Goto
  <2>11. CASE HudCreate(c)
    BY <2>11 DEF HudCreate
  <2>12. CASE HudNotCreated(c)
    BY <2>12 DEF HudNotCreated, Goto
  <2>13. CASE HudUncreate(c)
    BY <2>13 DEF HudUncreate, Fail, Goto
  <2>14. CASE HudReady(c)
    BY <2>14 DEF HudReady, Goto
  <2>15. CASE HudNotReady(c)
    BY <2>15 DEF HudNotReady, Fail, Goto
  <2>16. CASE HudFinal(c)
    BY <2>16 DEF HudFinal, Leave, Goto
  <2>17. CASE HudStop(c)
    <3>1. ASSUME HudStopped(c, "FAILED") \/ (hWorker = "null" /\ HudStopped(c, "NOT_READY"))
          PROVE  CollectorKnows'
      <4>1. UNCHANGED <<worker, hWorker, op>> /\ pc' = [pc EXCEPT ![c] = "collectorStop"]
        BY <2>17, <3>1 DEF HudStop, HudStopped, Goto
      <4>2. halfStopped' = (halfStopped \/ hWorker = "running")
        BY <3>1 DEF HudStopped
      <4>3. \A d \in Callers : op[d] = "stop" /\ error'[d] = "SUCCESS" =>
               (d = c /\ hWorker # "running") \/ (d # c /\ error[d] = "SUCCESS")
        BY <3>1 DEF HudStopped
      <4> QED BY <4>1, <4>2, <4>3
    <3>2. ASSUME hWorker # "null", Goto(c, "hudStopWait"), UNCHANGED <<error, halfStopped>>
          PROVE  CollectorKnows'
      BY <2>17, <3>2 DEF HudStop, Goto
    <3> QED BY <2>17, <3>1, <3>2 DEF HudStop
  <2>18. CASE HudStopWait(c)
    BY <2>18 DEF HudStopWait, HudStopped, Goto
  <2>19. CASE WaitDuplicate(c)
    BY <2>19 DEF WaitDuplicate, Return, Leave, Goto
  <2>20. CASE WaitReturn(c)
    BY <2>20 DEF WaitReturn, Return, Leave, Goto
  <2> QED BY <1>2, <2>1, <2>2, <2>3, <2>4, <2>5, <2>6, <2>7, <2>8, <2>9, <2>10, <2>11,
      <2>12, <2>13, <2>14, <2>15, <2>16, <2>17, <2>18, <2>19, <2>20 DEF CallerStep
<1>3. ASSUME NEW a \in Actors, Reloads(a) \/ StopsCollector(a) PROVE CollectorKnows'
  <2>1. CASE Load(a)
    BY <2>1 DEF Load, Goto
  <2>2. CASE Configure(a)
    BY <2>2, ReloadedCases DEF Configure, Goto, Return, Leave, Fail, ReleaseApi, Errors
  <2>3. CASE Apply(a)
    BY <2>3, ReloadedCases DEF Apply, Goto, Return, Leave, Fail, ReleaseApi, Errors
  <2>4. CASE CollectorStop(a)
    BY <2>4 DEF CollectorStop, CollectorStopped, Goto, Leave, Control!StopSignal
  <2>5. CASE CollectorWait(a)
    BY <2>5 DEF CollectorWait, CollectorStopped, Goto, Leave, Control!StopDone,
        Control!StopTimeout
  <2> QED BY <1>3, <2>1, <2>2, <2>3, <2>4, <2>5 DEF Reloads, StopsCollector
<1>4. CASE \/ HotkeyStep /\ ~Reloads(Hotkey) /\ ~StopsCollector(Hotkey)
           \/ PressHide \/ PressQuit \/ PressReload
  <2>1. CASE Register
    BY <2>1 DEF Register, Goto
  <2>2. CASE Signal
    BY <2>2 DEF Signal, Goto
  <2>3. CASE Pump
    BY <2>3 DEF Pump, Goto
  <2>4. CASE PumpEmpty
    BY <2>4 DEF PumpEmpty, Goto
  <2>5. CASE SwitchOff
    BY <2>5 DEF SwitchOff, Goto
  <2>6. CASE Unhook
    BY <2>6 DEF Unhook, Goto
  <2>7. CASE Fence
    BY <2>7 DEF Fence, Goto
  <2>8. CASE Unpaint
    BY <2>8 DEF Unpaint, Goto
  <2>9. CASE Exit
    BY <2>9 DEF Exit, Leave, Goto
  <2>10. CASE PressHide
    BY <2>10 DEF PressHide
  <2>11. CASE PressQuit
    BY <2>11 DEF PressQuit
  <2>12. CASE PressReload
    BY <2>12 DEF PressReload, Goto
  <2> QED BY <1>4, <2>1, <2>2, <2>3, <2>4, <2>5, <2>6, <2>7, <2>8, <2>9, <2>10, <2>11, <2>12
      DEF HotkeyStep
<1>5. ASSUME NEW f \in Frames, FrameEnter(f) \/ FrameStep(f) PROVE CollectorKnows'
  <2>1. CASE FrameEnter(f)
    BY <2>1 DEF FrameEnter
  <2>2. CASE FramePeek(f)
    BY <2>2 DEF FramePeek
  <2>3. CASE FrameTry(f)
    BY <2>3 DEF FrameTry
  <2>4. CASE FrameRecheck(f)
    BY <2>4 DEF FrameRecheck
  <2>5. CASE FrameDraw(f)
    BY <2>5 DEF FrameDraw
  <2>6. CASE FrameRelease(f)
    BY <2>6 DEF FrameRelease
  <2> QED BY <1>5, <2>1, <2>2, <2>3, <2>4, <2>5, <2>6 DEF FrameStep
<1>6. CASE EditIni \/ CollectorThread
  <2>1. CASE EditIni
    BY <2>1 DEF EditIni
  <2>2. CASE CollectorThread
    BY <2>2 DEF CollectorThread, Control!WorkerFails, Control!WorkerEnds
  <2> QED BY <1>6, <2>1, <2>2
<1>7. CASE UNCHANGED vars
  BY <1>7 DEF vars
<1> QED BY <1>1, <1>2, <1>3, <1>4, <1>5, <1>6, <1>7 DEF Next, Actors

\* No step disturbs a HUD whose thread has ended.
LEMMA ExitedStep == TypeOK /\ SessionInv /\ [Next]_vars => ExitedHudIsQuiet'
<1> SUFFICES ASSUME TypeOK /\ SessionInv, [Next]_vars PROVE ExitedHudIsQuiet'
  OBVIOUS
<1> USE ActorsAssumption DEF TypeOK, SessionInv, Actors, OpSteps, LockOwners, HotkeyKnows,
    StarterKnows, ExitedHudIsQuiet, lockVars, switchVars, threadVars, hookVars, paintVars,
    controlVars, actorVars, historyVars, CallerSteps, HotkeySteps, FrameSteps, Errors,
    StartSteps, ReloadSteps, CreateSteps, HudSteps, StopSteps, ControlSteps, EndSteps,
    FencedSteps
<1>1. ASSUME NEW c \in Callers, CallerCalls(c) PROVE ExitedHudIsQuiet'
  <2>1. CASE StartEnter(c)
    BY <2>1 DEF StartEnter, Goto
  <2>2. CASE StopEnter(c)
    BY <2>2 DEF StopEnter, Goto
  <2>3. CASE ReloadEnter(c)
    BY <2>3 DEF ReloadEnter, Goto
  <2>4. CASE WaitEnter(c)
    BY <2>4 DEF WaitEnter, Goto
  <2> QED BY <1>1, <2>1, <2>2, <2>3, <2>4 DEF CallerCalls
<1>2. ASSUME NEW c \in Callers, CallerStep(c), ~Reloads(c), ~StopsCollector(c)
      PROVE  ExitedHudIsQuiet'
  <2>1. CASE CollectorStart(c)
    BY <2>1 DEF CollectorStart, Goto, Return, Leave, Control!StartBegin
  <2>2. CASE CollectorClaim(c)
    BY <2>2 DEF CollectorClaim, Goto, Return, Leave, Control!StartRefused,
        Control!StartClaim
  <2>3. CASE CollectorLaunch(c)
    BY <2>3 DEF CollectorLaunch, Goto, Return, Leave, Control!StartLaunch,
        Control!StartFailed
  <2>4. CASE CollectorReturn(c)
    BY <2>4 DEF CollectorReturn, Goto, Control!StartOk
  <2>5. CASE HudStart(c)
    BY <2>5 DEF HudStart, Goto
  <2>6. CASE HudRefused(c)
    BY <2>6 DEF HudRefused, Fail, Goto
  <2>7. CASE HudImpossible(c)
    BY <2>7 DEF HudImpossible, Fail, Goto
  <2>8. CASE HudEvents(c)
    BY <2>8 DEF HudEvents, Fail, Goto
  <2>9. CASE HudHook(c)
    BY <2>9 DEF HudHook, Fail, Goto
  <2>10. CASE HudSwitchOn(c)
    BY <2>10 DEF HudSwitchOn, Goto
  <2>11. CASE HudCreate(c)
    BY <2>11 DEF HudCreate
  <2>12. CASE HudNotCreated(c)
    BY <2>12 DEF HudNotCreated, Goto
  <2>13. CASE HudUncreate(c)
    BY <2>13 DEF HudUncreate, Fail, Goto
  <2>14. CASE HudReady(c)
    BY <2>14 DEF HudReady, Goto
  <2>15. CASE HudNotReady(c)
    BY <2>15 DEF HudNotReady, Fail, Goto
  <2>16. CASE HudFinal(c)
    BY <2>16 DEF HudFinal, Leave, Goto
  <2>17. CASE HudStop(c)
    BY <2>17 DEF HudStop, HudStopped, Goto
  <2>18. CASE HudStopWait(c)
    BY <2>18 DEF HudStopWait, HudStopped, Goto
  <2>19. CASE WaitDuplicate(c)
    BY <2>19 DEF WaitDuplicate, Return, Leave, Goto
  <2>20. CASE WaitReturn(c)
    BY <2>20 DEF WaitReturn, Return, Leave, Goto
  <2> QED BY <1>2, <2>1, <2>2, <2>3, <2>4, <2>5, <2>6, <2>7, <2>8, <2>9, <2>10, <2>11,
      <2>12, <2>13, <2>14, <2>15, <2>16, <2>17, <2>18, <2>19, <2>20 DEF CallerStep
<1>3. ASSUME NEW a \in Actors, Reloads(a) \/ StopsCollector(a) PROVE ExitedHudIsQuiet'
  <2>1. CASE Load(a)
    BY <2>1 DEF Load, Goto
  <2>2. CASE Configure(a)
    BY <2>2, ReloadedCases DEF Configure, Goto, Return, Leave, Fail, ReleaseApi, Errors
  <2>3. CASE Apply(a)
    BY <2>3, ReloadedCases DEF Apply, Goto, Return, Leave, Fail, ReleaseApi, Errors
  <2>4. CASE CollectorStop(a)
    BY <2>4 DEF CollectorStop, CollectorStopped, Goto, Leave, Control!StopSignal
  <2>5. CASE CollectorWait(a)
    BY <2>5 DEF CollectorWait, CollectorStopped, Goto, Leave, Control!StopDone,
        Control!StopTimeout
  <2> QED BY <1>3, <2>1, <2>2, <2>3, <2>4, <2>5 DEF Reloads, StopsCollector
<1>4. CASE \/ HotkeyStep /\ ~Reloads(Hotkey) /\ ~StopsCollector(Hotkey)
           \/ PressHide \/ PressQuit \/ PressReload
  <2>1. CASE Register
    BY <2>1 DEF Register, Goto
  <2>2. CASE Signal
    BY <2>2 DEF Signal, Goto
  <2>3. CASE Pump
    BY <2>3 DEF Pump, Goto
  <2>4. CASE PumpEmpty
    BY <2>4 DEF PumpEmpty, Goto
  <2>5. CASE SwitchOff
    BY <2>5 DEF SwitchOff, Goto
  <2>6. CASE Unhook
    BY <2>6 DEF Unhook, Goto
  <2>7. CASE Fence
    BY <2>7 DEF Fence, Goto
  <2>8. CASE Unpaint
    BY <2>8 DEF Unpaint, Goto
  <2>9. CASE Exit
    BY <2>9 DEF Exit, Leave, Goto
  <2>10. CASE PressHide
    BY <2>10 DEF PressHide
  <2>11. CASE PressQuit
    BY <2>11 DEF PressQuit
  <2>12. CASE PressReload
    BY <2>12 DEF PressReload, Goto
  <2> QED BY <1>4, <2>1, <2>2, <2>3, <2>4, <2>5, <2>6, <2>7, <2>8, <2>9, <2>10, <2>11, <2>12
      DEF HotkeyStep
<1>5. ASSUME NEW f \in Frames, FrameEnter(f) \/ FrameStep(f) PROVE ExitedHudIsQuiet'
  <2>1. CASE FrameEnter(f)
    BY <2>1 DEF FrameEnter
  <2>2. CASE FramePeek(f)
    BY <2>2 DEF FramePeek
  <2>3. CASE FrameTry(f)
    BY <2>3 DEF FrameTry
  <2>4. CASE FrameRecheck(f)
    BY <2>4 DEF FrameRecheck
  <2>5. CASE FrameDraw(f)
    BY <2>5 DEF FrameDraw
  <2>6. CASE FrameRelease(f)
    BY <2>6 DEF FrameRelease
  <2> QED BY <1>5, <2>1, <2>2, <2>3, <2>4, <2>5, <2>6 DEF FrameStep
<1>6. CASE EditIni \/ CollectorThread
  <2>1. CASE EditIni
    BY <2>1 DEF EditIni
  <2>2. CASE CollectorThread
    BY <2>2 DEF CollectorThread, Control!WorkerFails, Control!WorkerEnds
  <2> QED BY <1>6, <2>1, <2>2
<1>7. CASE UNCHANGED vars
  BY <1>7 DEF vars
<1> QED BY <1>1, <1>2, <1>3, <1>4, <1>5, <1>6, <1>7 DEF Next, Actors

\* Nothing runs and no lock is taken.
LEMMA SessionInit == Init => TypeOK /\ SessionInv
<1> SUFFICES ASSUME Init PROVE TypeOK /\ SessionInv
  OBVIOUS
<1> USE ActorsAssumption, SettingsAssumption DEF Init, Control!Init, Actors
<1>1. TypeOK
  BY DEF TypeOK, CallerSteps, HotkeySteps, FrameSteps, Errors
<1>2. OpSteps
  BY DEF OpSteps, HotkeySteps
<1>3. LockOwners
  BY DEF LockOwners, HudSteps, ReloadSteps, CreateSteps, ControlSteps
<1>4. HotkeyKnows
  BY DEF HotkeyKnows, EndSteps, FencedSteps
<1>5. StarterKnows
  BY DEF StarterKnows, ReloadSteps, CreateSteps, StopSteps
<1>6. CollectorKnows
  BY DEF CollectorKnows, ReloadSteps, CreateSteps
<1>7. ExitedHudIsQuiet
  BY DEF ExitedHudIsQuiet
<1> QED BY <1>1, <1>2, <1>3, <1>4, <1>5, <1>6, <1>7 DEF SessionInv

\* The inductive invariant: every variable keeps its type, and every thread knows at
\* each of its steps what SessionInv says.
THEOREM SessionCorrect == Spec => [](TypeOK /\ SessionInv)
<1>1. TypeOK /\ SessionInv /\ [Next]_vars => (TypeOK /\ SessionInv)'
  BY TypeStep, OpStepsStep, LockOwnersStep, HotkeyKnowsStep, StarterKnowsStep,
     CollectorKnowsStep, ExitedStep DEF SessionInv
<1> QED BY SessionInit, <1>1, PTL DEF Spec

\* Every variable keeps its type.
THEOREM SessionType == Spec => []TypeOK
BY SessionCorrect, PTL

\* Once the HUD's thread has ended nothing is drawn and nothing leads to PresentHud,
\* unless the stop was reported as failed (dllmain.c:556-571).
THEOREM EndedHudStaysQuiet == Spec => []ExitedHudIsQuiet
<1>1. SessionInv => ExitedHudIsQuiet
  BY DEF SessionInv
<1> QED BY SessionCorrect, <1>1, PTL

\* InternalStart creates a HotkeyWorker only when there is none (dllmain.c:751-809).
THEOREM OneHotkeyWorker == Spec => []SoleHotkeyWorker
<1>1. TypeOK /\ SessionInv => SoleHotkeyWorker
  <2> SUFFICES ASSUME TypeOK, SessionInv, NEW c \in Callers, pc[c] \in CreateSteps
               PROVE  pc[Hotkey] = "idle" /\ apiLock = c
    BY DEF SoleHotkeyWorker, CreateSteps
  <2>1. op[c] = "start"
    BY DEF TypeOK, Actors, SessionInv, OpSteps, CreateSteps, ReloadSteps, StopSteps
  <2>2. hWorker = "null"
    BY <2>1 DEF SessionInv, StarterKnows
  <2> QED BY <2>1, <2>2 DEF SessionInv, HotkeyKnows, LockOwners, HudSteps
<1> QED BY SessionCorrect, <1>1, PTL

\* The steps in which a start or a stop returns.
LEMMA ReturningStep ==
    ASSUME TypeOK, SessionInv, Next, NEW c \in Callers, op[c] \in {"start", "stop"},
           pc[c] # "idle", pc'[c] = "idle"
    PROVE  \/ CollectorStart(c) \/ CollectorClaim(c) \/ CollectorLaunch(c) \/ HudFinal(c)
           \/ CollectorStop(c) \/ CollectorWait(c)
<1> USE ActorsAssumption DEF TypeOK, Actors, SessionInv, OpSteps, StopSteps, actorVars
<1>1. ASSUME NEW d \in Callers, CallerCalls(d) PROVE FALSE
  BY <1>1 DEF CallerCalls, StartEnter, StopEnter, ReloadEnter, WaitEnter, Goto
<1>2. ASSUME NEW d \in Callers, CallerStep(d), ~Reloads(d), ~StopsCollector(d)
      PROVE  CollectorStart(c) \/ CollectorClaim(c) \/ CollectorLaunch(c) \/ HudFinal(c)
  <2>1. d = c
    BY <1>2 DEF CallerStep, CollectorStart, CollectorClaim, CollectorLaunch,
        CollectorReturn, HudStart, HudRefused, HudImpossible, HudEvents, HudHook,
        HudSwitchOn, HudCreate, HudNotCreated, HudUncreate, HudReady, HudNotReady, HudFinal,
        HudStop, HudStopped, HudStopWait, WaitDuplicate, WaitReturn, Return, Leave, Fail, Goto
  <2>2. ~WaitDuplicate(c) /\ ~WaitReturn(c)
    BY DEF WaitDuplicate, WaitReturn, StartSteps, HudSteps, ReloadSteps, CreateSteps
  <2> QED BY <1>2, <2>1, <2>2 DEF CallerStep,
        CollectorReturn, HudStart, HudRefused, HudImpossible, HudEvents, HudHook,
        HudSwitchOn, HudCreate, HudNotCreated, HudUncreate, HudReady, HudNotReady,
        HudStop, HudStopped, HudStopWait, Fail, Goto
<1>3. ASSUME NEW a \in Actors, Load(a) PROVE FALSE
  BY <1>3 DEF Load, Goto
<1>4. ASSUME NEW a \in Actors, Configure(a) \/ Apply(a) PROVE FALSE
  BY <1>4, ReloadedCases DEF Configure, Apply, Return, Leave, Fail, Goto, ReloadSteps, Errors
<1>5. ASSUME NEW a \in Actors, StopsCollector(a) PROVE CollectorStop(c) \/ CollectorWait(c)
  BY <1>5 DEF StopsCollector, CollectorStop, CollectorWait, CollectorStopped, Leave, Goto
<1>6. ASSUME HotkeyStep, ~Reloads(Hotkey), ~StopsCollector(Hotkey) PROVE FALSE
  BY <1>6 DEF HotkeyStep, Register, Signal, Pump, PumpEmpty, SwitchOff, Unhook, Fence, Unpaint,
      Exit, Leave, Goto
<1>7. ASSUME PressHide \/ PressQuit \/ PressReload \/ EditIni \/ CollectorThread PROVE FALSE
  BY <1>7 DEF PressHide, PressQuit, PressReload, EditIni, CollectorThread, Goto
<1>8. ASSUME NEW f \in Frames, FrameEnter(f) \/ FrameStep(f) PROVE FALSE
  BY <1>8 DEF FrameEnter, FrameStep, FramePeek, FrameTry, FrameRecheck, FrameDraw, FrameRelease
<1> QED BY <1>1, <1>2, <1>3, <1>4, <1>5, <1>6, <1>7, <1>8 DEF Next, Reloads

\* BoardStatsStop returns success only when the HUD's thread and the collector are
\* both gone and no new frame can begin (Lifecycle.c:33-56).
THEOREM StopIsStopped == Spec => StopMeansStopped
<1>1. TypeOK /\ SessionInv /\ [Next]_vars =>
         [\A c \in Callers : Returns(c, "stop", "SUCCESS") =>
             hWorker # "running" /\ worker \in {"none", "exited"} /\ ~enabled]_vars
  <2> SUFFICES ASSUME TypeOK, SessionInv, Next, NEW c \in Callers,
                      Returns(c, "stop", "SUCCESS")
               PROVE  hWorker # "running" /\ worker \in {"none", "exited"} /\ ~enabled
    OBVIOUS
  <2>1. op[c] = "stop" /\ pc[c] \in StopSteps
    BY DEF Returns, SessionInv, OpSteps
  <2>2. CollectorStop(c) \/ CollectorWait(c)
    BY <2>1, ReturningStep DEF Returns, CollectorStart, CollectorClaim, CollectorLaunch,
        HudFinal, StopSteps
  <2>3. error[c] = "SUCCESS" /\ worker \in {"none", "exited"}
    BY <2>1, <2>2 DEF CollectorStop, CollectorWait, CollectorStopped, Returns, Leave, Goto,
        Control!StopDone, Control!StopTimeout, Control!StopSignal, TypeOK, Actors, Errors
  <2>4. hWorker # "running"
    BY <2>1, <2>2, <2>3 DEF CollectorStop, CollectorWait, SessionInv, CollectorKnows
  <2>5. \A d \in Callers : pc[d] # "create"
    BY <2>1 DEF TypeOK, Actors, SessionInv, OpSteps, LockOwners, ReloadSteps, StopSteps
  <2> QED BY <2>3, <2>4, <2>5 DEF SessionInv, HotkeyKnows
<1> QED BY SessionCorrect, <1>1, PTL DEF Spec, StopMeansStopped

\* Another thread inside CollectorStop has already told the worker to stop.
LEMMA BusyCollectorStops ==
    ASSUME TypeOK, SessionInv, NEW c \in Callers, op[c] = "start",
           pc[c] \notin ControlSteps, owner # NoOne
    PROVE  worker \in {"stopping", "exited"}
<1>1. owner \in Actors /\ owner # c /\ pc[owner] \in ControlSteps
  BY DEF TypeOK, SessionInv, LockOwners, Actors
<1>2. ASSUME owner \in Callers PROVE FALSE
  BY <1>1, <1>2 DEF TypeOK, SessionInv, LockOwners, OpSteps, ControlSteps, ReloadSteps, Actors
<1>3. owner = Hotkey /\ pc[Hotkey] = "collectorWait"
  BY <1>1, <1>2 DEF Actors, SessionInv, OpSteps, HotkeySteps, ControlSteps
<1> QED BY <1>3 DEF SessionInv, CollectorKnows, Actors

\* A BoardStatsStart that fails after it started the collector leaves none collecting
\* (Lifecycle.c:20-28).
THEOREM FailedStartCleansUp == Spec => FailedStartStopsCollector
<1>1. TypeOK /\ SessionInv /\ [Next]_vars =>
         [\A c \in Callers :
             ( /\ op[c] = "start" /\ pc[c] \in {"hudFinal", "collectorStop", "collectorWait"}
               /\ pc'[c] = "idle" /\ error'[c] # "SUCCESS" ) => worker' # "on"]_vars
  <2> SUFFICES ASSUME TypeOK, SessionInv, Next, NEW c \in Callers, op[c] = "start",
                      pc[c] \in {"hudFinal", "collectorStop", "collectorWait"},
                      pc'[c] = "idle", error'[c] # "SUCCESS"
               PROVE  worker' # "on"
    OBVIOUS
  <2>1. HudFinal(c) \/ CollectorStop(c) \/ CollectorWait(c)
    BY ReturningStep DEF CollectorStart, CollectorClaim, CollectorLaunch
  <2>2. ~HudFinal(c)
    BY DEF HudFinal, Leave, Goto, TypeOK, Actors
  <2>3. CASE CollectorStop(c)
    <3>1. \/ owner # NoOne /\ worker' = worker
          \/ worker = "none" /\ worker' = worker
      BY <2>3 DEF CollectorStop, Goto, controlVars, TypeOK, Actors
    <3> QED BY <2>3, <3>1, BusyCollectorStops DEF CollectorStop, ControlSteps
  <2>4. CASE CollectorWait(c)
    BY <2>4 DEF CollectorWait, Control!StopDone, Control!StopTimeout
  <2> QED BY <2>1, <2>2, <2>3, <2>4
<1> QED BY SessionCorrect, <1>1, PTL DEF Spec, FailedStartStopsCollector

\* What a successful BoardStatsStart leaves running (Lifecycle.c:8-31, dllmain.c:806-836).
THEOREM StartIsRunning == Spec => StartMeansRunning
<1>1. TypeOK /\ SessionInv /\ [Next]_vars =>
         [\A c \in Callers : Returns(c, "start", "SUCCESS") =>
             /\ hReady /\ hWorker # "null"
             /\ hStop \/ (hWorker = "running" /\ enabled /\ present)
             /\ hStop \/ worker = "on" \/ halfStopped]_vars
  <2> SUFFICES ASSUME TypeOK, SessionInv, Next, NEW c \in Callers,
                      Returns(c, "start", "SUCCESS")
               PROVE  /\ hReady /\ hWorker # "null"
                      /\ hStop \/ (hWorker = "running" /\ enabled /\ present)
                      /\ hStop \/ worker = "on" \/ halfStopped
    OBVIOUS
  <2>1. op[c] = "start" /\ error'[c] = "SUCCESS" /\ pc[c] # "idle" /\ pc'[c] = "idle"
    BY DEF Returns
  <2>2. ~CollectorStart(c) /\ ~CollectorClaim(c) /\ ~CollectorLaunch(c)
    BY <2>1 DEF CollectorStart, CollectorClaim, CollectorLaunch, Return, Leave, Goto, TypeOK,
        Actors
  <2>3. ~CollectorStop(c) /\ ~CollectorWait(c)
    BY <2>1 DEF CollectorStop, CollectorWait, CollectorStopped, SessionInv, StarterKnows,
        StopSteps
  <2>4. HudFinal(c)
    BY <2>1, <2>2, <2>3, ReturningStep
  <2>5. pc[c] = "hudFinal" /\ error[c] = "SUCCESS"
    BY <2>1, <2>4 DEF HudFinal
  <2> QED BY <2>5 DEF SessionInv, StarterKnows
<1> QED BY SessionCorrect, <1>1, PTL DEF Spec, StartMeansRunning

\* A step leaves the paint exception on without a HUD only where it was so before, or
\* where a BoardStatsReload configures it.
LEMMA StrayPaintStep ==
    ASSUME TypeOK, SessionInv, Next, StrayPaint', ~StrayPaint
    PROVE  \E c \in Callers : op[c] = "reload" /\ pc[c] = "configure" /\ pc'[c] # "configure"
<1> DEFINE Goal == \E c \in Callers :
                      op[c] = "reload" /\ pc[c] = "configure" /\ pc'[c] # "configure"
<1> USE ActorsAssumption DEF TypeOK, SessionInv, Actors, OpSteps, StrayPaint, PaintHasHud,
    lockVars, switchVars, threadVars, hookVars, paintVars, actorVars
<1>1. ASSUME NEW c \in Callers, CallerCalls(c) PROVE FALSE
  BY <1>1 DEF CallerCalls, StartEnter, StopEnter, ReloadEnter, WaitEnter, Goto
<1>2. ASSUME NEW c \in Callers, CallerStep(c), ~Reloads(c), ~StopsCollector(c) PROVE FALSE
  <2>1. CASE CollectorStart(c) \/ CollectorClaim(c) \/ CollectorLaunch(c) \/ CollectorReturn(c)
    BY <2>1 DEF CollectorStart, CollectorClaim, CollectorLaunch, CollectorReturn, Return, Leave,
        Goto
  <2>2. CASE HudStart(c) \/ HudRefused(c) \/ HudImpossible(c)
    BY <2>2 DEF HudStart, HudRefused, HudImpossible, Fail, Goto
  <2>3. CASE HudEvents(c)
    BY <2>3 DEF HudEvents, Fail, Goto, StartSteps, HudSteps, StopSteps, ReloadSteps
  <2>4. CASE HudHook(c) \/ HudSwitchOn(c) \/ HudNotCreated(c) \/ HudUncreate(c)
    BY <2>4 DEF HudHook, HudSwitchOn, HudNotCreated, HudUncreate, Fail, Goto, StarterKnows,
        CreateSteps, ReloadSteps, StopSteps
  <2>5. CASE HudCreate(c)
    BY <2>5 DEF HudCreate
  <2>6. CASE HudReady(c) \/ HudNotReady(c)
    BY <2>6 DEF HudReady, HudNotReady, Fail, Goto
  <2>7. CASE HudFinal(c)
    BY <2>7 DEF HudFinal, Leave, Goto, StarterKnows, Errors
  <2>8. CASE HudStop(c) \/ HudStopWait(c)
    BY <2>8 DEF HudStop, HudStopWait, HudStopped, Goto
  <2>9. CASE WaitDuplicate(c) \/ WaitReturn(c)
    BY <2>9 DEF WaitDuplicate, WaitReturn, Return, Leave, Goto
  <2> QED BY <1>2, <2>1, <2>2, <2>3, <2>4, <2>5, <2>6, <2>7, <2>8, <2>9 DEF CallerStep
<1>3. ASSUME NEW a \in Actors, Load(a) PROVE FALSE
  BY <1>3 DEF Load, Goto
<1>4. ASSUME NEW a \in Actors, Configure(a) PROVE Goal
  <2>1. op[a] \in {"reload", "loop", "start"}
    BY <1>4 DEF Configure, StopSteps
  <2>2. \/ paint' = loaded[a] /\ Goto(a, "apply") /\ UNCHANGED <<op, error>>
        \/ paint' = FALSE
    BY <1>4 DEF Configure
  <2> QED BY <1>4, <2>1, <2>2 DEF Configure, Goto
<1>5. ASSUME NEW a \in Actors, Apply(a) PROVE FALSE
  BY <1>5, ReloadedCases DEF Apply, Return, Leave, Fail, Goto, ReloadSteps, Errors
<1>6. ASSUME NEW a \in Actors, StopsCollector(a) PROVE FALSE
  BY <1>6 DEF StopsCollector, CollectorStop, CollectorWait, CollectorStopped, Leave, Goto
<1>7. ASSUME HotkeyStep, ~Reloads(Hotkey), ~StopsCollector(Hotkey) PROVE FALSE
  <2>1. CASE Register \/ Signal \/ Pump \/ PumpEmpty
    BY <2>1 DEF Register, Signal, Pump, PumpEmpty, Goto
  <2>2. CASE SwitchOff \/ Unhook \/ Fence
    BY <2>2 DEF SwitchOff, Unhook, Fence, Goto
  <2>3. CASE Unpaint
    BY <2>3 DEF Unpaint
  <2>4. CASE Exit
    <3>1. hWorker # "null"
      BY <2>4 DEF Exit, HotkeyKnows
    <3> QED BY <2>4, <3>1 DEF Exit, Leave, Goto
  <2> QED BY <1>7, <2>1, <2>2, <2>3, <2>4 DEF HotkeyStep
<1>8. ASSUME PressHide \/ PressQuit \/ PressReload \/ EditIni \/ CollectorThread PROVE FALSE
  BY <1>8 DEF PressHide, PressQuit, PressReload, EditIni, CollectorThread, Goto
<1>9. ASSUME NEW f \in Frames, FrameEnter(f) \/ FrameStep(f) PROVE FALSE
  BY <1>9 DEF FrameEnter, FrameStep, FramePeek, FrameTry, FrameRecheck, FrameDraw, FrameRelease
<1> QED BY <1>1, <1>2, <1>3, <1>4, <1>5, <1>6, <1>7, <1>8, <1>9 DEF Next, Reloads

\* The end of a HUD and a start that fails take the paint exception back, on every path
\* (dllmain.c:570, 829): only a BoardStatsReload can leave it on without a HUD.
THEOREM OnlyReloadsLeavePaint == Spec => StrayPaintIsByReload
<1>1. TypeOK /\ SessionInv /\ [Next]_vars =>
         [StrayPaint' =>
             \/ StrayPaint
             \/ \E c \in Callers :
                   op[c] = "reload" /\ pc[c] = "configure" /\ pc'[c] # "configure"]_vars
  BY StrayPaintStep
<1> QED BY SessionCorrect, <1>1, PTL DEF Spec, StrayPaintIsByReload

=============================================================================
