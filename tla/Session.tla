------------------------------ MODULE Session ------------------------------
(***************************************************************************)
(* BoardStats/Lifecycle.c and the runtime half of BoardStats/dllmain.c: the *)
(* exported calls BoardStatsStart, BoardStatsStop, BoardStatsWait and       *)
(* BoardStatsReload on remote threads, the HUD's HotkeyWorker thread, and   *)
(* the game's render thread in PresentHud.                                 *)
(*                                                                         *)
(* The collector is what CollectorControl promises. Settings reduce to the  *)
(* one that reaches beyond the HUD, PaintInNoclip, and results to SUCCESS   *)
(* and FAILED, with ERROR_NOT_READY where BoardStatsStop looks for it.      *)
(***************************************************************************)
EXTENDS Integers

CONSTANTS
    Callers,        \* remote threads that call the exports
    Hotkey,         \* the HotkeyWorker thread
    Frames,         \* game threads inside IDXGISwapChain::Present
    NoOne,          \* the owner of a free lock
    Settings,       \* values PaintInNoclip takes in boardstats.ini
    MaxStarts       \* bound: BoardStatsStart calls that get the session lock

ASSUME SettingsAssumption == Settings # {} /\ Settings \subseteq BOOLEAN
ASSUME ActorsAssumption   == /\ Hotkey \notin Callers /\ Hotkey # NoOne
                             /\ NoOne \notin Callers \cup Frames

Actors == Callers \cup {Hotkey}

VARIABLES
    sessionLock,    \* owner of g_SessionLock
    apiLock,        \* owner of g_Runtime.ApiLock
    renderLock,     \* owner of g_Hud.RenderLock
    enabled, hidden,            \* g_Runtime.lEnabled, lHidden
    hWorker,        \* g_Runtime.hWorker: "null", or its thread "running" / "exited"
    hStop, hReady,  \* g_Runtime.hStop, hReady: the event is set
    initialized, bFailed,       \* g_Hook.bInitialized, bFailed
    present,        \* Present leads to PresentHud
    paint,          \* g_lPaintEnabled
    ini,            \* PaintInNoclip in boardstats.ini
    owner, worker, failed,      \* the collector, see CollectorControl
    pc, op, error,  \* per actor: step, exported call, its dwError
    loaded,         \* per actor: hudOptions.bPaintInNoclip of ReloadOptions
    awaited,        \* per actor: the worker InternalWait duplicated the handle of
    workers,        \* history: HotkeyWorker threads created so far
    starts,         \* history: BoardStatsStart calls so far
    halfStopped,    \* history: an InternalStop failed and left its HUD thread running
    fpc             \* per frame: step in PresentHud

lockVars    == <<sessionLock, apiLock, renderLock>>
switchVars  == <<enabled, hidden, present>>
threadVars  == <<hWorker, hStop, hReady>>
hookVars    == <<initialized, bFailed>>
paintVars   == <<paint, ini>>
controlVars == <<owner, worker, failed>>
actorVars   == <<pc, op, error, loaded, awaited>>
historyVars == <<workers, starts, halfStopped>>
vars == <<lockVars, switchVars, threadVars, hookVars, paintVars, controlVars, actorVars,
          historyVars, fpc>>

Control == INSTANCE CollectorControl WITH Threads <- Actors

Init ==
    /\ sessionLock = NoOne /\ apiLock = NoOne /\ renderLock = NoOne
    /\ enabled = FALSE /\ hidden = FALSE /\ present = FALSE
    /\ hWorker = "null" /\ hStop = FALSE /\ hReady = FALSE
    /\ initialized = FALSE /\ bFailed = FALSE
    /\ paint = FALSE /\ ini \in Settings
    /\ Control!Init
    /\ pc = [a \in Actors |-> "idle"] /\ op = [a \in Actors |-> "none"]
    /\ error = [a \in Actors |-> "SUCCESS"] /\ loaded = [a \in Actors |-> FALSE]
    /\ awaited = [a \in Actors |-> 0]
    /\ workers = 0 /\ starts = 0 /\ halfStopped = FALSE
    /\ fpc = [f \in Frames |-> "game"]

Goto(a, step) == pc' = [pc EXCEPT ![a] = step]

\* The call of a is over.
Leave(a) == Goto(a, "idle") /\ op' = [op EXCEPT ![a] = "none"]

\* The export returns e to its caller.
Return(a, e) == Leave(a) /\ error' = [error EXCEPT ![a] = e]

-----------------------------------------------------------------------------
(* BoardStatsStart and CollectorStart. An export that finds its first lock   *)
(* taken returns ERROR_BUSY at once and changes nothing; such calls are left *)
(* out.                                                                    *)

StartEnter(c) ==
    /\ pc[c] = "idle" /\ sessionLock = NoOne /\ starts < MaxStarts
    /\ sessionLock' = c /\ starts' = starts + 1
    /\ op' = [op EXCEPT ![c] = "start"] /\ Goto(c, "collectorStart")
    /\ UNCHANGED <<apiLock, renderLock, switchVars, threadVars, hookVars, paintVars,
                   controlVars, error, loaded, awaited, workers, halfStopped, fpc>>

CollectorStart(c) ==
    /\ pc[c] = "collectorStart"
    /\ \/ /\ Control!StartBegin(c) /\ Goto(c, "collectorClaim")
          /\ UNCHANGED <<sessionLock, op, error>>
       \/ /\ owner # NoOne /\ sessionLock' = NoOne
          /\ Return(c, "FAILED") /\ UNCHANGED controlVars
    /\ UNCHANGED <<apiLock, renderLock, switchVars, threadVars, hookVars, paintVars,
                   loaded, awaited, historyVars, fpc>>

CollectorClaim(c) ==
    /\ pc[c] = "collectorClaim"
    /\ \/ /\ Control!StartRefused(c) /\ sessionLock' = NoOne
          /\ Return(c, "FAILED")
       \/ /\ Control!StartClaim(c) /\ Goto(c, "collectorLaunch")
          /\ UNCHANGED <<sessionLock, op, error>>
    /\ UNCHANGED <<apiLock, renderLock, switchVars, threadVars, hookVars, paintVars,
                   loaded, awaited, historyVars, fpc>>

CollectorLaunch(c) ==
    /\ pc[c] = "collectorLaunch"
    /\ \/ /\ Control!StartLaunch(c) /\ Goto(c, "collectorReturn")
          /\ UNCHANGED <<sessionLock, op, error>>
       \/ /\ Control!StartFailed(c) /\ sessionLock' = NoOne
          /\ Return(c, "FAILED")
    /\ UNCHANGED <<apiLock, renderLock, switchVars, threadVars, hookVars, paintVars,
                   loaded, awaited, historyVars, fpc>>

CollectorReturn(c) ==
    /\ pc[c] = "collectorReturn"
    /\ Control!StartOk(c) /\ Goto(c, "hudStart")
    /\ UNCHANGED <<lockVars, switchVars, threadVars, hookVars, paintVars, op, error,
                   loaded, awaited, historyVars, fpc>>

-----------------------------------------------------------------------------
(* InternalStart.                                                          *)

HudStart(c) ==
    /\ pc[c] = "hudStart"
    /\ \/ /\ apiLock = NoOne /\ apiLock' = c /\ Goto(c, "hudCheck") /\ UNCHANGED error
       \/ /\ apiLock # NoOne /\ Goto(c, "hudStop")
          /\ error' = [error EXCEPT ![c] = "FAILED"] /\ UNCHANGED apiLock
    /\ UNCHANGED <<sessionLock, renderLock, switchVars, threadVars, hookVars, paintVars,
                   controlVars, op, loaded, awaited, historyVars, fpc>>

\* On the way to _FINAL.
Fail(c, e) == Goto(c, "hudFinal") /\ error' = [error EXCEPT ![c] = e]

HudRefused(c) ==
    /\ pc[c] = "hudCheck" /\ (bFailed \/ hWorker = "running")
    /\ Fail(c, "FAILED")
    /\ UNCHANGED <<lockVars, switchVars, threadVars, hookVars, paintVars, controlVars, op,
                   loaded, awaited, historyVars, fpc>>

\* A wrong process, or a renderer that cannot be initialized: that is final.
HudImpossible(c) ==
    /\ pc[c] = "hudCheck" /\ ~bFailed /\ hWorker # "running"
    /\ \/ Fail(c, "FAILED") /\ UNCHANGED bFailed
       \/ Fail(c, "FAILED") /\ ~initialized /\ bFailed' = TRUE
    /\ UNCHANGED <<lockVars, switchVars, threadVars, initialized, paintVars, controlVars, op,
                   loaded, awaited, historyVars, fpc>>

\* Mutant: the running worker's handle is closed under it.
HudEventsAnyWorker(c) ==
    /\ pc[c] = "hudCheck" /\ ~bFailed
    /\ initialized' = TRUE
    /\ hWorker' = "null" /\ hStop' = FALSE /\ hReady' = FALSE
    /\ \/ Goto(c, "load") /\ UNCHANGED error
       \/ Fail(c, "FAILED")
    /\ UNCHANGED <<lockVars, switchVars, bFailed, paintVars, controlVars, op, loaded, awaited,
                   historyVars, fpc>>

\* The old handles are closed and two new events created, or they cannot be.
HudEvents(c) ==
    /\ pc[c] = "hudCheck" /\ ~bFailed /\ hWorker # "running"
    /\ initialized' = TRUE
    /\ hWorker' = "null" /\ hStop' = FALSE /\ hReady' = FALSE
    /\ \/ Goto(c, "load") /\ UNCHANGED error
       \/ Fail(c, "FAILED")
    /\ UNCHANGED <<lockVars, switchVars, bFailed, paintVars, controlVars, op, loaded, awaited,
                   historyVars, fpc>>

\* MH_EnableHook on Present.
HudHook(c) ==
    /\ pc[c] = "hook"
    /\ hidden' = FALSE
    /\ \/ present' = TRUE /\ Goto(c, "switchOn") /\ UNCHANGED <<bFailed, error>>
       \/ Fail(c, "FAILED") /\ bFailed' = TRUE /\ UNCHANGED present
    /\ UNCHANGED <<lockVars, enabled, threadVars, initialized, paintVars, controlVars, op,
                   loaded, awaited, historyVars, fpc>>

HudSwitchOn(c) ==
    /\ pc[c] = "switchOn"
    /\ enabled' = TRUE /\ Goto(c, "create")
    /\ UNCHANGED <<lockVars, hidden, present, threadVars, hookVars, paintVars, controlVars,
                   op, error, loaded, awaited, historyVars, fpc>>

HudCreate(c) ==
    /\ pc[c] = "create"
    /\ hWorker' = "running" /\ workers' = workers + 1
    /\ pc' = [pc EXCEPT ![c] = "await", ![Hotkey] = "register"]
    /\ op' = [op EXCEPT ![Hotkey] = "loop"]
    /\ UNCHANGED <<lockVars, switchVars, hStop, hReady, hookVars, paintVars, controlVars,
                   error, loaded, awaited, starts, halfStopped, fpc>>

\* CreateThread fails: rendering goes off again and the hook is disabled.
HudNotCreated(c) ==
    /\ pc[c] = "create"
    /\ enabled' = FALSE /\ Goto(c, "uncreate")
    /\ UNCHANGED <<lockVars, hidden, present, threadVars, hookVars, paintVars, controlVars,
                   op, error, loaded, awaited, historyVars, fpc>>

HudUncreate(c) ==
    /\ pc[c] = "uncreate"
    /\ \/ present' = FALSE /\ UNCHANGED bFailed
       \/ bFailed' = TRUE /\ UNCHANGED present
    /\ Fail(c, "FAILED")
    /\ UNCHANGED <<lockVars, enabled, hidden, threadVars, initialized, paintVars, controlVars,
                   op, loaded, awaited, historyVars, fpc>>

\* Mutant: InternalStart does not wait for hReady.
HudReadyEarly(c) ==
    /\ pc[c] = "await" /\ ~hStop
    /\ Goto(c, "hudFinal") /\ error' = [error EXCEPT ![c] = "SUCCESS"]
    /\ UNCHANGED <<lockVars, switchVars, threadVars, hookVars, paintVars, controlVars, op,
                   loaded, awaited, historyVars, fpc>>

\* The worker got its hotkeys and nobody asked it to stop yet.
HudReady(c) ==
    /\ pc[c] = "await" /\ hReady /\ ~hStop
    /\ Goto(c, "hudFinal") /\ error' = [error EXCEPT ![c] = "SUCCESS"]
    /\ UNCHANGED <<lockVars, switchVars, threadVars, hookVars, paintVars, controlVars, op,
                   loaded, awaited, historyVars, fpc>>

\* Five seconds pass, or the stop event is set.
HudNotReady(c) ==
    /\ pc[c] = "await" /\ (~hReady \/ hStop)
    /\ hStop' = TRUE
    /\ Fail(c, "FAILED")
    /\ UNCHANGED <<lockVars, switchVars, hWorker, hReady, hookVars, paintVars, controlVars, op,
                   loaded, awaited, historyVars, fpc>>

\* Mutant: BoardStatsStart returns the error and cleans nothing up.
HudFinalNoCleanup(c) ==
    /\ pc[c] = "hudFinal"
    /\ paint' = (paint /\ ~(error[c] # "SUCCESS" /\ hWorker = "null"))
    /\ apiLock' = NoOne /\ sessionLock' = NoOne /\ Leave(c)
    /\ UNCHANGED <<renderLock, switchVars, threadVars, hookVars, ini, controlVars, error,
                   loaded, awaited, historyVars, fpc>>

\* Mutant: a start that gets no worker keeps the paint exception.
HudFinalKeepsPaint(c) ==
    /\ pc[c] = "hudFinal"
    /\ apiLock' = NoOne
    /\ IF error[c] = "SUCCESS"
       THEN sessionLock' = NoOne /\ Leave(c)
       ELSE Goto(c, "hudStop") /\ UNCHANGED <<sessionLock, op>>
    /\ UNCHANGED <<renderLock, switchVars, threadVars, hookVars, paintVars, controlVars,
                   error, loaded, awaited, historyVars, fpc>>

\* _FINAL: without a worker the paint exception is taken back.
HudFinal(c) ==
    /\ pc[c] = "hudFinal"
    /\ paint' = (paint /\ ~(error[c] # "SUCCESS" /\ hWorker = "null"))
    /\ apiLock' = NoOne
    /\ IF error[c] = "SUCCESS"
       THEN sessionLock' = NoOne /\ Leave(c)
       ELSE Goto(c, "hudStop") /\ UNCHANGED <<sessionLock, op>>
    /\ UNCHANGED <<renderLock, switchVars, threadVars, hookVars, ini, controlVars, error,
                   loaded, awaited, historyVars, fpc>>

-----------------------------------------------------------------------------
(* ReloadOptions, called by InternalStart, InternalReload and the hotkey.   *)

Load(a) ==
    /\ pc[a] = "load"
    /\ loaded' = [loaded EXCEPT ![a] = ini] /\ Goto(a, "configure")
    /\ UNCHANGED <<lockVars, switchVars, threadVars, hookVars, paintVars, controlVars, op,
                   error, awaited, historyVars, fpc>>

\* Where ReloadOptions returns to with e.
Reloaded(a, e) ==
    CASE op[a] = "reload" -> Return(a, e)
      [] op[a] = "loop"   -> Goto(a, "pump") /\ UNCHANGED <<op, error>>
      [] op[a] = "start"  -> IF e = "SUCCESS" THEN Goto(a, "hook") /\ UNCHANGED <<op, error>>
                                              ELSE Fail(a, e) /\ UNCHANGED op

\* InternalReload's ReleaseSRWLockExclusive.
ReleaseApi(a) == apiLock' = IF op[a] = "reload" THEN NoOne ELSE apiLock

\* ConfigurePaint, one critical section of g_PaintLock: the exception is off
\* first and on again only if it is wanted and the hook could be enabled.
Configure(a) ==
    /\ pc[a] = "configure"
    /\ \/ /\ paint' = loaded[a] /\ Goto(a, "apply") /\ UNCHANGED <<apiLock, op, error>>
       \/ /\ paint' = FALSE /\ Reloaded(a, "FAILED") /\ ReleaseApi(a)
    /\ loaded' = [loaded EXCEPT ![a] = FALSE]
    /\ UNCHANGED <<sessionLock, renderLock, switchVars, threadVars, hookVars, ini, controlVars,
                   awaited, historyVars, fpc>>

\* The new options are installed in one critical section of RenderLock.
Apply(a) ==
    /\ pc[a] = "apply" /\ renderLock = NoOne
    /\ Reloaded(a, "SUCCESS") /\ ReleaseApi(a)
    /\ UNCHANGED <<sessionLock, renderLock, switchVars, threadVars, hookVars, paintVars,
                   controlVars, loaded, awaited, historyVars, fpc>>

-----------------------------------------------------------------------------
(* BoardStatsReload and BoardStatsWait: neither takes g_SessionLock.        *)

\* Before the renderer was ever initialized InternalReload only returns an error.
ReloadEnter(c) ==
    /\ pc[c] = "idle" /\ apiLock = NoOne /\ initialized
    /\ apiLock' = c
    /\ op' = [op EXCEPT ![c] = "reload"] /\ Goto(c, "load")
    /\ UNCHANGED <<sessionLock, renderLock, switchVars, threadVars, hookVars, paintVars,
                   controlVars, error, loaded, awaited, historyVars, fpc>>

WaitEnter(c) ==
    /\ pc[c] = "idle"
    /\ op' = [op EXCEPT ![c] = "wait"] /\ Goto(c, "waitLock")
    /\ UNCHANGED <<lockVars, switchVars, threadVars, hookVars, paintVars, controlVars, error,
                   loaded, awaited, historyVars, fpc>>

\* A short critical section of ApiLock, for which InternalWait blocks: the handle
\* is duplicated, so a later session does not change whom this call waits for. That
\* may fail.
WaitDuplicate(c) ==
    /\ pc[c] = "waitLock" /\ apiLock = NoOne
    /\ \/ hWorker = "null" /\ Return(c, "SUCCESS") /\ UNCHANGED awaited
       \/ hWorker # "null" /\ Return(c, "FAILED") /\ UNCHANGED awaited
       \/ /\ hWorker # "null" /\ Goto(c, "waitWorker")
          /\ awaited' = [awaited EXCEPT ![c] = workers] /\ UNCHANGED <<op, error>>
    /\ UNCHANGED <<lockVars, switchVars, threadVars, hookVars, paintVars, controlVars,
                   loaded, historyVars, fpc>>

\* InternalWait returns the GetLastError() of a call that succeeded: any value.
WaitReturn(c) ==
    /\ pc[c] = "waitWorker" /\ ~(hWorker = "running" /\ workers = awaited[c])
    /\ \E e \in {"SUCCESS", "FAILED"} : Return(c, e)
    /\ awaited' = [awaited EXCEPT ![c] = 0]
    /\ UNCHANGED <<lockVars, switchVars, threadVars, hookVars, paintVars, controlVars,
                   loaded, historyVars, fpc>>

-----------------------------------------------------------------------------
(* BoardStatsStop, and the same two calls where BoardStatsStart cleans up.  *)

StopEnter(c) ==
    /\ pc[c] = "idle" /\ sessionLock = NoOne
    /\ sessionLock' = c
    /\ op' = [op EXCEPT ![c] = "stop"] /\ Goto(c, "hudStop")
    /\ UNCHANGED <<apiLock, renderLock, switchVars, threadVars, hookVars, paintVars,
                   controlVars, error, loaded, awaited, historyVars, fpc>>

\* Mutant: BoardStatsStop hands ERROR_NOT_READY on.
HudStoppedVerbatim(c, e) ==
    /\ Goto(c, "collectorStop")
    /\ halfStopped' = (halfStopped \/ hWorker = "running")
    /\ error' = IF op[c] = "stop" THEN [error EXCEPT ![c] = e] ELSE error

\* InternalStop returned e: BoardStatsStart ignores it, BoardStatsStop takes
\* ERROR_NOT_READY for success.
HudStopped(c, e) ==
    /\ Goto(c, "collectorStop")
    /\ halfStopped' = (halfStopped \/ hWorker = "running")
    /\ error' = IF op[c] = "stop"
                THEN [error EXCEPT ![c] = IF e = "NOT_READY" THEN "SUCCESS" ELSE e]
                ELSE error

HudStop(c) ==
    /\ pc[c] = "hudStop"
    /\ \/ /\ apiLock # NoOne /\ HudStopped(c, "FAILED")
          /\ UNCHANGED <<apiLock, hStop>>
       \/ /\ apiLock = NoOne /\ hWorker = "null" /\ HudStopped(c, "NOT_READY")
          /\ UNCHANGED <<apiLock, hStop>>
       \/ /\ apiLock = NoOne /\ hWorker # "null"
          /\ apiLock' = c /\ hStop' = TRUE /\ Goto(c, "hudStopWait")
          /\ UNCHANGED <<error, halfStopped>>
    /\ UNCHANGED <<sessionLock, renderLock, switchVars, hWorker, hReady, hookVars, paintVars,
                   controlVars, op, loaded, awaited, workers, starts, fpc>>

\* Mutant: the result of the wait is not looked at.
HudStopWaitForgiving(c) ==
    /\ pc[c] = "hudStopWait"
    /\ HudStopped(c, IF bFailed THEN "FAILED" ELSE "SUCCESS")
    /\ apiLock' = NoOne
    /\ UNCHANGED <<sessionLock, renderLock, switchVars, threadVars, hookVars, paintVars,
                   controlVars, op, loaded, awaited, workers, starts, fpc>>

\* The worker ends, or ten seconds pass first.
HudStopWait(c) ==
    /\ pc[c] = "hudStopWait"
    /\ HudStopped(c, IF hWorker = "running" THEN "FAILED"
                     ELSE IF bFailed THEN "FAILED" ELSE "SUCCESS")
    /\ apiLock' = NoOne
    /\ UNCHANGED <<sessionLock, renderLock, switchVars, threadVars, hookVars, paintVars,
                   controlVars, op, loaded, awaited, workers, starts, fpc>>

\* CollectorStop returned e. The hotkey worker and a failed start ignore it.
CollectorStopped(a, e) ==
    /\ IF op[a] = "loop" THEN Goto(a, "exit") /\ UNCHANGED op ELSE Leave(a)
    /\ error' = IF op[a] = "stop" /\ error[a] = "SUCCESS" /\ e # "NOT_READY"
                THEN [error EXCEPT ![a] = e] ELSE error
    /\ sessionLock' = IF op[a] = "loop" THEN sessionLock ELSE NoOne

CollectorStop(a) ==
    /\ pc[a] = "collectorStop"
    /\ \/ /\ owner # NoOne /\ CollectorStopped(a, "FAILED") /\ UNCHANGED controlVars
       \/ /\ owner = NoOne /\ worker = "none"
          /\ CollectorStopped(a, "NOT_READY") /\ UNCHANGED controlVars
       \/ /\ Control!StopSignal(a) /\ Goto(a, "collectorWait")
          /\ UNCHANGED <<op, error, sessionLock>>
    /\ UNCHANGED <<apiLock, renderLock, switchVars, threadVars, hookVars, paintVars,
                   loaded, awaited, historyVars, fpc>>

CollectorWait(a) ==
    /\ pc[a] = "collectorWait"
    /\ \/ /\ Control!StopDone(a)
          /\ CollectorStopped(a, IF failed THEN "FAILED" ELSE "SUCCESS")
       \/ Control!StopTimeout(a) /\ CollectorStopped(a, "FAILED")
    /\ UNCHANGED <<apiLock, renderLock, switchVars, threadVars, hookVars, paintVars,
                   loaded, awaited, historyVars, fpc>>

-----------------------------------------------------------------------------
(* HotkeyWorker.                                                           *)

\* Without the closing hotkey the worker asks itself to stop.
Register ==
    /\ pc[Hotkey] = "register"
    /\ hStop' \in {hStop, TRUE} /\ Goto(Hotkey, "signal")
    /\ UNCHANGED <<lockVars, switchVars, hWorker, hReady, hookVars, paintVars, controlVars, op,
                   error, loaded, awaited, historyVars, fpc>>

Signal ==
    /\ pc[Hotkey] = "signal"
    /\ hReady' = TRUE /\ Goto(Hotkey, "loop")
    /\ UNCHANGED <<lockVars, switchVars, hWorker, hStop, hookVars, paintVars, controlVars, op,
                   error, loaded, awaited, historyVars, fpc>>

\* 25 milliseconds without a stop event: the thread looks for messages.
Pump ==
    /\ pc[Hotkey] = "loop" /\ ~hStop
    /\ Goto(Hotkey, "pump")
    /\ UNCHANGED <<lockVars, switchVars, threadVars, hookVars, paintVars, controlVars, op,
                   error, loaded, awaited, historyVars, fpc>>

PumpEmpty ==
    /\ pc[Hotkey] = "pump"
    /\ Goto(Hotkey, "loop")
    /\ UNCHANGED <<lockVars, switchVars, threadVars, hookVars, paintVars, controlVars, op,
                   error, loaded, awaited, historyVars, fpc>>

\* Ctrl+Alt+H, Ctrl+Alt+Q and Ctrl+Alt+R.
PressHide ==
    /\ pc[Hotkey] = "pump"
    /\ hidden' = ~hidden
    /\ UNCHANGED <<lockVars, enabled, present, threadVars, hookVars, paintVars, controlVars,
                   actorVars, historyVars, fpc>>

PressQuit ==
    /\ pc[Hotkey] = "pump"
    /\ hStop' = TRUE
    /\ UNCHANGED <<lockVars, switchVars, hWorker, hReady, hookVars, paintVars, controlVars,
                   actorVars, historyVars, fpc>>

PressReload ==
    /\ pc[Hotkey] = "pump"
    /\ Goto(Hotkey, "load")
    /\ UNCHANGED <<lockVars, switchVars, threadVars, hookVars, paintVars, controlVars, op,
                   error, loaded, awaited, historyVars, fpc>>

\* The stop event ends the loop: lEnabled first, so that no new frame begins.
SwitchOff ==
    /\ pc[Hotkey] = "loop" /\ hStop
    /\ enabled' = FALSE /\ Goto(Hotkey, "unhook")
    /\ UNCHANGED <<lockVars, hidden, present, threadVars, hookVars, paintVars, controlVars,
                   op, error, loaded, awaited, historyVars, fpc>>

Unhook ==
    /\ pc[Hotkey] = "unhook"
    /\ \/ present' = FALSE /\ UNCHANGED bFailed
       \/ bFailed' = TRUE /\ UNCHANGED present
    /\ Goto(Hotkey, "fence")
    /\ UNCHANGED <<lockVars, enabled, hidden, threadVars, initialized, paintVars, controlVars,
                   op, error, loaded, awaited, historyVars, fpc>>

\* Mutant: the worker does not wait for the frame being drawn.
FenceSkipped ==
    /\ pc[Hotkey] = "fence"
    /\ Goto(Hotkey, "unpaint")
    /\ UNCHANGED <<lockVars, switchVars, threadVars, hookVars, paintVars, controlVars, op,
                   error, loaded, awaited, historyVars, fpc>>

\* "wait here until no other thread owns the render lock, then release".
Fence ==
    /\ pc[Hotkey] = "fence" /\ renderLock = NoOne
    /\ Goto(Hotkey, "unpaint")
    /\ UNCHANGED <<lockVars, switchVars, threadVars, hookVars, paintVars, controlVars, op,
                   error, loaded, awaited, historyVars, fpc>>

\* ConfigurePaint(FALSE); CollectorStop follows.
Unpaint ==
    /\ pc[Hotkey] = "unpaint"
    /\ paint' = FALSE /\ Goto(Hotkey, "collectorStop")
    /\ UNCHANGED <<lockVars, switchVars, threadVars, hookVars, ini, controlVars, op, error,
                   loaded, awaited, historyVars, fpc>>

Exit ==
    /\ pc[Hotkey] = "exit"
    /\ hWorker' = "exited" /\ Leave(Hotkey)
    /\ UNCHANGED <<lockVars, switchVars, hStop, hReady, hookVars, paintVars, controlVars,
                   error, loaded, awaited, historyVars, fpc>>

-----------------------------------------------------------------------------
(* PresentHud on the render thread. A frame that may not draw goes straight *)
(* to the original Present, which changes nothing here.                    *)

FrameEnter(f) ==
    /\ fpc[f] = "game" /\ present /\ enabled
    /\ fpc' = [fpc EXCEPT ![f] = "peek"]
    /\ UNCHANGED <<lockVars, switchVars, threadVars, hookVars, paintVars, controlVars,
                   actorVars, historyVars>>

FramePeek(f) ==
    /\ fpc[f] = "peek"
    /\ fpc' = [fpc EXCEPT ![f] = IF hidden THEN "game" ELSE "try"]
    /\ UNCHANGED <<lockVars, switchVars, threadVars, hookVars, paintVars, controlVars,
                   actorVars, historyVars>>

FrameTry(f) ==
    /\ fpc[f] = "try"
    /\ \/ renderLock = NoOne /\ renderLock' = f /\ fpc' = [fpc EXCEPT ![f] = "recheck"]
       \/ renderLock # NoOne /\ fpc' = [fpc EXCEPT ![f] = "game"] /\ UNCHANGED renderLock
    /\ UNCHANGED <<sessionLock, apiLock, switchVars, threadVars, hookVars, paintVars,
                   controlVars, actorVars, historyVars>>

\* Mutant: a frame that may not draw any more keeps RenderLock.
FrameRecheckLeaks(f) ==
    /\ fpc[f] = "recheck"
    /\ fpc' = [fpc EXCEPT ![f] = IF enabled THEN "draw" ELSE "game"]
    /\ UNCHANGED <<lockVars, switchVars, threadVars, hookVars, paintVars, controlVars,
                   actorVars, historyVars>>

\* lEnabled again, under the lock.
FrameRecheck(f) ==
    /\ fpc[f] = "recheck"
    /\ fpc' = [fpc EXCEPT ![f] = IF enabled THEN "draw" ELSE "release"]
    /\ UNCHANGED <<lockVars, switchVars, threadVars, hookVars, paintVars, controlVars,
                   actorVars, historyVars>>

FrameDraw(f) ==
    /\ fpc[f] = "draw"
    /\ fpc' = [fpc EXCEPT ![f] = "release"]
    /\ UNCHANGED <<lockVars, switchVars, threadVars, hookVars, paintVars, controlVars,
                   actorVars, historyVars>>

FrameRelease(f) ==
    /\ fpc[f] = "release"
    /\ renderLock' = NoOne /\ fpc' = [fpc EXCEPT ![f] = "game"]
    /\ UNCHANGED <<sessionLock, apiLock, switchVars, threadVars, hookVars, paintVars,
                   controlVars, actorVars, historyVars>>

-----------------------------------------------------------------------------

\* The settings editor saves, or the user edits boardstats.ini.
EditIni ==
    /\ ini' \in Settings
    /\ UNCHANGED <<lockVars, switchVars, threadVars, hookVars, paint, controlVars, actorVars,
                   historyVars, fpc>>

\* The collector's worker thread.
CollectorThread ==
    /\ Control!WorkerFails \/ Control!WorkerEnds
    /\ UNCHANGED <<lockVars, switchVars, threadVars, hookVars, paintVars, actorVars,
                   historyVars, fpc>>

CallerCalls(c) ==
    StartEnter(c) \/ StopEnter(c) \/ ReloadEnter(c) \/ WaitEnter(c)

Reloads(a) == Load(a) \/ Configure(a) \/ Apply(a)

StopsCollector(a) == CollectorStop(a) \/ CollectorWait(a)

CallerStep(c) ==
    \/ CollectorStart(c) \/ CollectorClaim(c) \/ CollectorLaunch(c) \/ CollectorReturn(c)
    \/ HudStart(c) \/ HudRefused(c) \/ HudImpossible(c) \/ HudEvents(c)
    \/ HudHook(c) \/ HudSwitchOn(c) \/ HudCreate(c) \/ HudNotCreated(c) \/ HudUncreate(c)
    \/ HudReady(c) \/ HudNotReady(c) \/ HudFinal(c)
    \/ HudStop(c) \/ HudStopWait(c) \/ Reloads(c) \/ StopsCollector(c)
    \/ WaitDuplicate(c) \/ WaitReturn(c)

HotkeyStep ==
    \/ Register \/ Signal \/ Pump \/ PumpEmpty \/ SwitchOff \/ Unhook \/ Fence \/ Unpaint \/ Exit
    \/ Reloads(Hotkey) \/ StopsCollector(Hotkey)

FrameStep(f) == FramePeek(f) \/ FrameTry(f) \/ FrameRecheck(f) \/ FrameDraw(f) \/ FrameRelease(f)

Next ==
    \/ \E c \in Callers : CallerCalls(c) \/ CallerStep(c)
    \/ HotkeyStep \/ PressHide \/ PressQuit \/ PressReload
    \/ \E f \in Frames : FrameEnter(f) \/ FrameStep(f)
    \/ EditIni \/ CollectorThread

Spec == Init /\ [][Next]_vars

(* Fairness: threads inside the DLL keep running, the collector's worker     *)
(* ends once told to (Collector's StopCompletes). Nobody need call, draw or  *)
(* press a key. Waiting for RenderLock or ApiLock is strongly fair: both are *)
(* given back and a waiter is queued. The user does not type so fast that    *)
(* the message queue is never found empty.                                  *)
Fairness ==
    /\ \A c \in Callers : WF_vars(CallerStep(c)) /\ SF_vars(Apply(c)) /\ SF_vars(WaitDuplicate(c))
    /\ WF_vars(HotkeyStep) /\ SF_vars(Apply(Hotkey)) /\ SF_vars(Fence) /\ SF_vars(PumpEmpty)
    /\ \A f \in Frames : WF_vars(FrameStep(f))
    /\ WF_vars(CollectorThread)

LiveSpec == Spec /\ Fairness

-----------------------------------------------------------------------------
(* Properties.                                                             *)

CallerSteps == {"idle", "collectorStart", "collectorClaim", "collectorLaunch",
                "collectorReturn", "hudStart", "hudCheck", "load", "configure", "apply",
                "hook", "switchOn", "create", "uncreate", "await", "hudFinal", "hudStop",
                "hudStopWait", "collectorStop", "collectorWait", "waitLock", "waitWorker"}
HotkeySteps == {"idle", "register", "signal", "loop", "pump", "load", "configure", "apply",
                "unhook", "fence", "unpaint", "collectorStop", "collectorWait", "exit"}
FrameSteps  == {"game", "peek", "try", "recheck", "draw", "release"}
Errors      == {"SUCCESS", "FAILED"}

\* Every variable keeps its type; a lock is owned by a thread that can take it.
TypeOK ==
    /\ sessionLock \in Callers \cup {NoOne} /\ apiLock \in Callers \cup {NoOne}
    /\ renderLock \in Frames \cup {NoOne} /\ owner \in Actors \cup {NoOne}
    /\ {enabled, hidden, present, hStop, hReady, initialized, bFailed, paint, ini, failed}
           \subseteq BOOLEAN
    /\ hWorker \in {"null", "running", "exited"}
    /\ worker \in {"none", "on", "stopping", "exited"}
    /\ pc \in [Actors -> CallerSteps \cup HotkeySteps]
    /\ op \in [Actors -> {"none", "start", "stop", "reload", "wait", "loop"}]
    /\ error \in [Actors -> Errors] /\ loaded \in [Actors -> BOOLEAN]
    /\ awaited \in [Actors -> Nat] /\ workers \in Nat /\ starts \in Nat
    /\ halfStopped \in BOOLEAN
    /\ fpc \in [Frames -> FrameSteps]

\* The step in which call o of caller c returns e.
Returns(c, o, e) == pc[c] # "idle" /\ pc'[c] = "idle" /\ op[c] = o /\ error'[c] = e

\* Once the HUD's thread handle is signalled no frame is being drawn and none can
\* begin, although PresentHud reads lEnabled without a lock; and unless the stop
\* was reported as failed, Present no longer leads here.
ExitedHudIsQuiet ==
    hWorker = "exited" =>
        /\ pc[Hotkey] = "idle" /\ ~enabled
        /\ \A f \in Frames : fpc[f] # "draw"
        /\ ~bFailed => ~present

\* A HotkeyWorker is created only when there is none: they share every handle.
SoleHotkeyWorker ==
    \A c \in Callers : pc[c] \in {"hook", "switchOn", "create", "uncreate"} =>
        pc[Hotkey] = "idle" /\ apiLock = c

\* BoardStatsStop returns success only when HUD thread and collector are both
\* gone, whatever reloads, waits and hotkeys ran meanwhile.
StopMeansStopped ==
    [][\A c \in Callers : Returns(c, "stop", "SUCCESS") =>
          hWorker # "running" /\ worker \in {"none", "exited"} /\ ~enabled]_vars

\* A BoardStatsStart that fails after it started the collector does not leave it
\* collecting: it was at least told to stop, even where the clean-up ran into
\* another call and got ERROR_BUSY.
FailedStartStopsCollector ==
    [][\A c \in Callers :
          ( /\ op[c] = "start" /\ pc[c] \in {"hudFinal", "collectorStop", "collectorWait"}
            /\ pc'[c] = "idle" /\ error'[c] # "SUCCESS" ) => worker' # "on"]_vars

\* A BoardStatsStart that succeeds leaves a HUD that registered its hotkeys and
\* renders, and a collector that collects, or a HUD that has been asked to stop
\* since. Only a HUD thread that an earlier stop gave up on can take the new
\* collector away when it comes to its own CollectorStop at last.
StartMeansRunning ==
    [][\A c \in Callers : Returns(c, "start", "SUCCESS") =>
          /\ hReady /\ hWorker # "null"
          /\ hStop \/ (hWorker = "running" /\ enabled /\ present)
          /\ hStop \/ worker = "on" \/ halfStopped]_vars

\* "Stopping the HUD also disables the exception" (README.md:108): a BoardStatsStop that
\* returns success for a HUD whose thread has ended leaves the exception off, at least
\* where no earlier stop has given up on that thread.
StopDisablesPaint ==
    [][\A c \in Callers :
          Returns(c, "stop", "SUCCESS") /\ hWorker = "exited" /\ ~halfStopped => ~paint']_vars

\* The paint exception is on for a HUD: the HUD's thread has not come to its own
\* ConfigurePaint(FALSE) yet, or InternalStart is still to create that thread or to give up.
PaintHasHud ==
    \/ pc[Hotkey] \notin {"idle", "collectorStop", "collectorWait", "exit"}
    \/ \E c \in Callers : op[c] = "start" /\
           \/ pc[c] \in {"load", "configure", "apply", "hook", "switchOn", "create", "uncreate"}
           \/ pc[c] = "hudFinal" /\ hWorker = "null"

StrayPaint == paint /\ ~PaintHasHud

\* Only the ConfigurePaint of a BoardStatsReload leaves the exception on without a HUD:
\* no end of the HUD's thread and no start that fails at any point does, whatever
\* hotkeys, stops and reloads ran meanwhile.
StrayPaintIsByReload ==
    [][StrayPaint' =>
          \/ StrayPaint
          \/ \E c \in Callers :
                op[c] = "reload" /\ pc[c] = "configure" /\ pc'[c] # "configure"]_vars

\* A set stop event ends the HUD thread, although it has to wait for the frame
\* being drawn and may be in the middle of a reload.
StopEndsHud == hWorker = "running" /\ hStop ~> hWorker # "running"

\* BoardStatsWait returns once its HUD is stopped: the launcher stops waiting, and
\* stops the session, only then.
WaitEnds == \A c \in Callers : pc[c] = "waitWorker" /\ hStop ~> pc[c] = "idle"

\* "Ctrl+Alt+Q in-game to close BoardStats" (README.md:34): when the HUD thread
\* has ended and no call is under way, nothing is collected any more.
QuitClosesAll ==
    hWorker = "exited" /\ sessionLock = NoOne /\ owner = NoOne => worker # "on"

=============================================================================
