------------------------------ MODULE Launcher ------------------------------
(***************************************************************************)
(* Launcher/main.c and Controller/main.c: processes beside one game that    *)
(* create threads inside it. A launcher runs Controller start, wait and     *)
(* stop one after the other, and waits for each without a limit; a user may *)
(* run the same commands by hand. A Controller process gives up a remote    *)
(* call after 15 seconds (except wait), and the remote thread goes on.      *)
(*                                                                         *)
(* What the exports do is abstracted from Session: the session lock, the    *)
(* HUD's thread and its stop event. An error of any kind is "FAILURE",      *)
(* which is all that a Controller's exit code tells a launcher.             *)
(***************************************************************************)
EXTENDS Integers

CONSTANTS
    Launchers,      \* launcher processes, each run once
    ByHand,         \* <<user, command>>: Controller processes run by hand
    NoOne           \* the owner of a free lock

Commands    == {"start", "wait", "stop"}
Children    == Launchers \X Commands
Controllers == Children \cup ByHand
Command(p)  == p[2]
Starters    == {p \in Controllers : Command(p) = "start"}

ASSUME ByHandAssumption == /\ \A p \in ByHand : p[1] \notin Launchers /\ p[2] \in Commands
                           /\ NoOne \notin Controllers

VARIABLES
    game,           \* the game's process: "running", "terminating", "exited"
    module,         \* BoardStats.dll in the game: "none", "ours", "other"
    lock,           \* g_SessionLock: the remote thread of this Controller, or NoOne
    hud,            \* number of the session whose HotkeyWorker runs, or 0
    stopping,       \* hStop of that session is set
    sessions,       \* history: sessions so far
    thread,         \* per Controller: where the remote thread it created last is
    result,         \* per Controller: the exit code of that thread
    memory,         \* per Controller: the argument in the game is allocated
    awaited,        \* per Controller: the session its remote thread waits for
    step,           \* per Controller: where wmain is
    exit,           \* per Controller: its exit code
    lpc,            \* per launcher: where wWinMain is
    mutex,          \* launchers with a handle of the game's launcher mutex
    started,        \* per launcher: bSessionStarted
    error,          \* per launcher: dwError
    session         \* history: per starting Controller, the session it started

gameVars     == <<game, module>>
hudVars      == <<lock, hud, stopping, sessions, session>>
threadVars   == <<thread, result, awaited>>
processVars  == <<step, exit>>
launcherVars == <<lpc, mutex, started, error>>
vars == <<gameVars, hudVars, threadVars, memory, processVars, launcherVars>>

Results == {"SUCCESS", "FAILURE"}

Init ==
    /\ game = "running" /\ module \in {"none", "other"}
    /\ lock = NoOne /\ hud = 0 /\ stopping = FALSE /\ sessions = 0
    /\ session = [p \in Starters |-> 0]
    /\ thread = [p \in Controllers |-> "none"]
    /\ result = [p \in Controllers |-> "SUCCESS"]
    /\ awaited = [p \in Controllers |-> 0]
    /\ memory = [p \in Controllers |-> FALSE]
    /\ step = [p \in Controllers |-> "idle"]
    /\ exit = [p \in Controllers |-> "SUCCESS"]
    /\ lpc = [l \in Launchers |-> "idle"] /\ mutex = {}
    /\ started = [l \in Launchers |-> FALSE]
    /\ error = [l \in Launchers |-> "SUCCESS"]

-----------------------------------------------------------------------------
(* The remote threads.                                                     *)

Alive(p) == thread[p] \notin {"none", "ended"}

\* The exported function, or LoadLibraryW, returns e.
ThreadReturn(p, e) ==
    /\ thread' = [thread EXCEPT ![p] = "ended"] /\ result' = [result EXCEPT ![p] = e]

ThreadGoto(p, at) == thread' = [thread EXCEPT ![p] = at]

\* LoadLibraryW maps the DLL, or fails. Its result is not looked at.
ThreadLoad(p) ==
    /\ thread[p] = "load"
    /\ module' \in {module, IF module = "none" THEN "ours" ELSE module}
    /\ ThreadReturn(p, "SUCCESS")
    /\ UNCHANGED <<game, hudVars, awaited, memory, processVars, launcherVars>>

StartEnter(p) ==
    /\ thread[p] = "enter" /\ Command(p) = "start"
    /\ \/ lock = NoOne /\ lock' = p /\ ThreadGoto(p, "start") /\ UNCHANGED result
       \/ lock # NoOne /\ ThreadReturn(p, "FAILURE") /\ UNCHANGED lock
    /\ UNCHANGED <<gameVars, hud, stopping, sessions, session, awaited, memory, processVars,
                   launcherVars>>

\* CollectorStart refuses or fails, or InternalStart does before it has a worker;
\* then BoardStatsStart cleans up, which also stops a HUD it found running.
StartFails(p) ==
    /\ thread[p] = "start"
    /\ \/ ThreadReturn(p, "FAILURE") /\ lock' = NoOne /\ UNCHANGED stopping
       \/ /\ ThreadGoto(p, "drain") /\ stopping' = (hud # 0) /\ UNCHANGED <<lock, result>>
    /\ UNCHANGED <<gameVars, hud, sessions, session, awaited, memory, processVars,
                   launcherVars>>

\* The path of the settings has been copied and the HotkeyWorker created.
StartHud(p) ==
    /\ thread[p] = "start" /\ hud = 0
    /\ sessions' = sessions + 1 /\ hud' = sessions + 1 /\ stopping' = FALSE
    /\ session' = [session EXCEPT ![p] = sessions + 1]
    /\ ThreadGoto(p, "ready")
    /\ UNCHANGED <<gameVars, lock, result, awaited, memory, processVars, launcherVars>>

StartReady(p) ==
    /\ thread[p] = "ready" /\ hud = session[p] /\ ~stopping
    /\ ThreadReturn(p, "SUCCESS") /\ lock' = NoOne
    /\ UNCHANGED <<gameVars, hud, stopping, sessions, session, awaited, memory, processVars,
                   launcherVars>>

\* No hotkey within five seconds, or the worker has been asked to stop.
StartNotReady(p) ==
    /\ thread[p] = "ready"
    /\ stopping' = (hud # 0) /\ ThreadGoto(p, "drain")
    /\ UNCHANGED <<gameVars, lock, hud, sessions, session, result, awaited, memory,
                   processVars, launcherVars>>

\* InternalStop sets the stop event. It may find ApiLock taken by a wait or a
\* reload, and then the stop has failed.
StopEnter(p) ==
    /\ thread[p] = "enter" /\ Command(p) = "stop"
    /\ \/ /\ lock = NoOne /\ lock' = p /\ stopping' = (hud # 0)
          /\ ThreadGoto(p, "drain") /\ UNCHANGED result
       \/ ThreadReturn(p, "FAILURE") /\ UNCHANGED <<lock, stopping>>
    /\ UNCHANGED <<gameVars, hud, sessions, session, awaited, memory, processVars,
                   launcherVars>>

\* InternalStop waits ten seconds for the worker, CollectorStop for the collector's.
Drained(p) ==
    /\ thread[p] = "drain"
    /\ \/ Command(p) = "stop" /\ hud = 0 /\ ThreadReturn(p, "SUCCESS")
       \/ ThreadReturn(p, "FAILURE")
    /\ lock' = NoOne
    /\ UNCHANGED <<gameVars, hud, stopping, sessions, session, awaited, memory, processVars,
                   launcherVars>>

\* The worker's handle is duplicated; that may fail.
WaitEnter(p) ==
    /\ thread[p] = "enter" /\ Command(p) = "wait"
    /\ \/ hud = 0 /\ ThreadReturn(p, "SUCCESS") /\ UNCHANGED awaited
       \/ hud # 0 /\ ThreadReturn(p, "FAILURE") /\ UNCHANGED awaited
       \/ /\ hud # 0 /\ awaited' = [awaited EXCEPT ![p] = hud]
          /\ ThreadGoto(p, "wait") /\ UNCHANGED result
    /\ UNCHANGED <<gameVars, hudVars, memory, processVars, launcherVars>>

\* InternalWait returns whatever GetLastError() holds.
WaitReturn(p) ==
    /\ thread[p] = "wait" /\ hud # awaited[p]
    /\ \E e \in Results : ThreadReturn(p, e)
    /\ UNCHANGED <<gameVars, hudVars, awaited, memory, processVars, launcherVars>>

Thread(p) ==
    \/ ThreadLoad(p)
    \/ StartEnter(p) \/ StartFails(p) \/ StartHud(p) \/ StartReady(p) \/ StartNotReady(p)
    \/ StopEnter(p) \/ Drained(p) \/ WaitEnter(p) \/ WaitReturn(p)

-----------------------------------------------------------------------------
(* The game.                                                               *)

\* Ctrl+Alt+Q, or a worker that could not register its hotkeys.
QuitHud ==
    /\ hud # 0 /\ ~stopping /\ stopping' = TRUE
    /\ UNCHANGED <<gameVars, lock, hud, sessions, session, threadVars, memory, processVars,
                   launcherVars>>

HudEnds ==
    /\ hud # 0 /\ stopping /\ hud' = 0 /\ stopping' = FALSE
    /\ UNCHANGED <<gameVars, lock, sessions, session, threadVars, memory, processVars,
                   launcherVars>>

\* The game exits or crashes: every thread in it ends with the process's exit code,
\* and its memory is gone.
GameTerminates ==
    /\ game = "running" /\ game' = "terminating"
    /\ \E e \in Results :
          result' = [p \in Controllers |-> IF Alive(p) THEN e ELSE result[p]]
    /\ thread' = [p \in Controllers |-> IF Alive(p) THEN "ended" ELSE thread[p]]
    /\ memory' = [p \in Controllers |-> FALSE]
    /\ lock' = NoOne /\ hud' = 0 /\ stopping' = FALSE /\ module' = "none"
    /\ UNCHANGED <<sessions, session, awaited, processVars, launcherVars>>

\* "A remote waiter can end before Windows signals the terminating game process."
GameExits ==
    /\ game = "terminating" /\ game' = "exited"
    /\ UNCHANGED <<module, hudVars, threadVars, memory, processVars, launcherVars>>

-----------------------------------------------------------------------------
(* wmain of a Controller process.                                          *)

Goto(p, at) == step' = [step EXCEPT ![p] = at]

\* _FINAL: the process exits.
ExitWith(p, e) == Goto(p, "exited") /\ exit' = [exit EXCEPT ![p] = e]

Run(p) == step[p] = "idle" /\ Goto(p, "open") /\ UNCHANGED exit

RunByHand(p) ==
    /\ p \in ByHand /\ Run(p)
    /\ UNCHANGED <<gameVars, hudVars, threadVars, memory, launcherVars>>

\* Everything that is looked at before the collector is: the arguments, the process
\* and its name, the hash of server.dll, the paths, the local DLL. Also a process
\* that could not be created.
Refuse(p) ==
    /\ step[p] = "open" /\ ExitWith(p, "FAILURE")
    /\ UNCHANGED <<gameVars, hudVars, threadVars, memory, launcherVars>>

\* The copy of the DLL that a snapshot of the game shows.
FindModule == IF game = "running" THEN module ELSE "none"

\* Only a start loads the DLL.
Locate(p) ==
    /\ step[p] = "open"
    /\ \/ FindModule # "none" /\ Goto(p, "verify") /\ UNCHANGED exit
       \/ FindModule = "none" /\ Command(p) = "start" /\ Goto(p, "load") /\ UNCHANGED exit
       \/ FindModule = "none" /\ Command(p) # "start" /\ ExitWith(p, "FAILURE")
    /\ UNCHANGED <<gameVars, hudVars, threadVars, memory, launcherVars>>

\* The DLL's path, and the time stamp and size in its header, are those of the
\* DLL beside the Controller.
Verify(p) ==
    /\ step[p] = "verify"
    /\ IF FindModule = "ours" THEN Goto(p, "call") /\ UNCHANGED exit ELSE ExitWith(p, "FAILURE")
    /\ UNCHANGED <<gameVars, hudVars, threadVars, memory, launcherVars>>

\* The address of LoadLibraryW in the game is not found.
Unresolved(p) ==
    /\ step[p] = "load" /\ ExitWith(p, "FAILURE")
    /\ UNCHANGED <<gameVars, hudVars, threadVars, memory, launcherVars>>

\* The call takes an argument: a path.
TakesArgument(p) == step[p] = "load" \/ Command(p) = "start"

\* CallRemote: the argument is written and the thread created, or all is undone.
CallBegin(p) ==
    /\ step[p] \in {"load", "call"}
    /\ \/ /\ game = "running"
          /\ memory' = [memory EXCEPT ![p] = TakesArgument(p)]
          /\ ThreadGoto(p, IF step[p] = "load" THEN "load" ELSE "enter")
          /\ Goto(p, IF step[p] = "load" THEN "loading" ELSE "calling")
          /\ UNCHANGED exit
       \/ ExitWith(p, "FAILURE") /\ UNCHANGED <<thread, memory>>
    /\ UNCHANGED <<gameVars, hudVars, result, awaited, launcherVars>>

\* The remote thread has ended; its argument is freed. GetExitCodeThread may fail.
CallDone(p) ==
    /\ thread[p] = "ended"
    /\ \/ step[p] = "loading" /\ Goto(p, "verify") /\ UNCHANGED exit
       \/ step[p] = "calling" /\ ExitWith(p, result[p])
       \/ step[p] \in {"loading", "calling"} /\ ExitWith(p, "FAILURE")
    /\ memory' = [memory EXCEPT ![p] = FALSE]
    /\ UNCHANGED <<gameVars, hudVars, threadVars, launcherVars>>

\* Mutant: INFINITE for every command.
PatientAlways(p) == step[p] = "calling"

\* Only BoardStatsWait is waited for without a limit.
Patient(p) == Command(p) = "wait"

\* Mutant: _FINAL frees the argument on a time-out as well.
CallTimeoutFrees(p) ==
    /\ step[p] \in {"loading", "calling"} /\ Alive(p) /\ ~Patient(p)
    /\ ExitWith(p, "FAILURE")
    /\ memory' = [memory EXCEPT ![p] = FALSE]
    /\ UNCHANGED <<gameVars, hudVars, threadVars, launcherVars>>

\* Mutant: the process exits with dwError instead of EXIT_FAILURE.
CallTimeoutVerbatim(p) ==
    /\ step[p] \in {"loading", "calling"} /\ Alive(p) /\ ~Patient(p)
    /\ ExitWith(p, "TIMEOUT")
    /\ UNCHANGED <<gameVars, hudVars, threadVars, memory, launcherVars>>

\* "The remote thread may still read this memory; never free it on timeout."
CallTimeout(p) ==
    /\ step[p] \in {"loading", "calling"} /\ Alive(p) /\ ~Patient(p)
    /\ ExitWith(p, "FAILURE")
    /\ UNCHANGED <<gameVars, hudVars, threadVars, memory, launcherVars>>

Controller(p) ==
    \/ Refuse(p) \/ Locate(p) \/ Unresolved(p) \/ Verify(p)
    \/ CallBegin(p) \/ CallDone(p) \/ CallTimeout(p)

-----------------------------------------------------------------------------
(* wWinMain of a launcher.                                                 *)

LauncherGoto(l, at) == lpc' = [lpc EXCEPT ![l] = at]

Fail(l, e) == LauncherGoto(l, "final") /\ error' = [error EXCEPT ![l] = e]

\* A process momentum.exe; that it must be the only one is left to the choice in
\* Launch.
FindGame == game # "exited"

\* No game, more than one, or OpenProcess refuses.
Launch(l) ==
    /\ lpc[l] = "idle"
    /\ \/ FindGame /\ LauncherGoto(l, "own") /\ UNCHANGED error
       \/ Fail(l, "FAILURE")
    /\ UNCHANGED <<gameVars, hudVars, threadVars, memory, processVars, mutex, started>>

\* CreateMutexW gives a handle to every launcher, and the right to go on to the
\* one that created the mutex.
Own(l) ==
    /\ lpc[l] = "own"
    /\ \/ mutex = {} /\ LauncherGoto(l, "start") /\ Run(<<l, "start">>) /\ UNCHANGED error
       \/ mutex # {} /\ Fail(l, "FAILURE") /\ UNCHANGED processVars
    /\ mutex' = mutex \cup {l}
    /\ UNCHANGED <<gameVars, hudVars, threadVars, memory, started>>

ChildExited(l, c) == lpc[l] = c /\ step[<<l, c>>] = "exited"

Started(l) ==
    /\ ChildExited(l, "start")
    /\ IF exit[<<l, "start">>] = "SUCCESS"
       THEN LauncherGoto(l, "wait") /\ Run(<<l, "wait">>) /\ UNCHANGED error
       ELSE Fail(l, "FAILURE") /\ UNCHANGED processVars
    /\ UNCHANGED <<gameVars, hudVars, threadVars, memory, mutex, started>>

\* Mutant: while the wait fails it is tried again.
WaitedRetries(l) ==
    /\ ChildExited(l, "wait")
    /\ IF exit[<<l, "wait">>] = "SUCCESS"
       THEN LauncherGoto(l, "check") /\ UNCHANGED processVars
       ELSE UNCHANGED lpc /\ step' = [step EXCEPT ![<<l, "wait">>] = "open"] /\ UNCHANGED exit
    /\ error' = [error EXCEPT ![l] = exit[<<l, "wait">>]]
    /\ started' = [started EXCEPT ![l] = TRUE]
    /\ UNCHANGED <<gameVars, hudVars, threadVars, memory, mutex>>

Waited(l) ==
    /\ ChildExited(l, "wait") /\ LauncherGoto(l, "check")
    /\ error' = [error EXCEPT ![l] = exit[<<l, "wait">>]]
    /\ started' = [started EXCEPT ![l] = TRUE]
    /\ UNCHANGED <<gameVars, hudVars, threadVars, memory, processVars, mutex>>

\* A game that still runs is told to stop whatever the wait returned.
Check(l) ==
    /\ lpc[l] = "check"
    /\ IF game = "exited"
       THEN LauncherGoto(l, "final") /\ UNCHANGED processVars
       ELSE LauncherGoto(l, "stop") /\ Run(<<l, "stop">>)
    /\ UNCHANGED <<gameVars, hudVars, threadVars, memory, mutex, started, error>>

\* An error of the stop replaces that of the wait.
Stopped(l) ==
    /\ ChildExited(l, "stop")
    /\ Fail(l, IF exit[<<l, "stop">>] = "SUCCESS" THEN error[l] ELSE "FAILURE")
    /\ UNCHANGED <<gameVars, hudVars, threadVars, memory, processVars, mutex, started>>

\* Mutant: what marks the game as owned goes with the first launcher that ends, also
\* with one that was refused.
CloseForAll(l, e) ==
    /\ LauncherGoto(l, "done") /\ error' = [error EXCEPT ![l] = e]
    /\ mutex' = {}

Close(l, e) ==
    /\ LauncherGoto(l, "done") /\ error' = [error EXCEPT ![l] = e]
    /\ mutex' = mutex \ {l}

\* Mutant: two seconds are enough, whether the game has exited or not.
FinalForgiving(l) ==
    /\ lpc[l] = "final"
    /\ Close(l, IF started[l] THEN "SUCCESS" ELSE error[l])
    /\ UNCHANGED <<gameVars, hudVars, threadVars, memory, processVars, started>>

\* An error is forgiven if the game exits within two seconds.
Final(l) ==
    /\ lpc[l] = "final"
    /\ \/ started[l] /\ game = "exited" /\ Close(l, "SUCCESS")
       \/ ~(started[l] /\ game = "exited") /\ Close(l, error[l])
    /\ UNCHANGED <<gameVars, hudVars, threadVars, memory, processVars, started>>

Launcher(l) ==
    Launch(l) \/ Own(l) \/ Started(l) \/ Waited(l) \/ Check(l) \/ Stopped(l) \/ Final(l)

-----------------------------------------------------------------------------
Finished ==
    /\ \A l \in Launchers : lpc[l] = "done"
    /\ \A p \in Controllers : step[p] \in {"idle", "exited"}

Next ==
    \/ \E p \in Controllers : Thread(p) \/ Controller(p) \/ RunByHand(p)
    \/ \E l \in Launchers : Launcher(l)
    \/ QuitHud \/ HudEnds \/ GameTerminates \/ GameExits
    \/ Finished /\ UNCHANGED vars

Spec == Init /\ [][Next]_vars

\* The launchers and the Controllers run, and a terminating game is signalled.
\* Nothing is assumed of the threads in the game: it may hang.
LiveSpec ==
    /\ Spec
    /\ \A p \in Controllers : WF_vars(Controller(p))
    /\ \A l \in Launchers : WF_vars(lpc[l] # "idle" /\ Launcher(l))
    /\ WF_vars(GameExits)

-----------------------------------------------------------------------------
TypeOK ==
    /\ game \in {"running", "terminating", "exited"} /\ module \in {"none", "ours", "other"}
    /\ lock \in Controllers \cup {NoOne} /\ stopping \in BOOLEAN
    /\ sessions \in Nat /\ hud \in 0..sessions /\ session \in [Starters -> 0..sessions]
    /\ thread \in [Controllers ->
          {"none", "load", "enter", "start", "ready", "drain", "wait", "ended"}]
    /\ result \in [Controllers -> Results] /\ awaited \in [Controllers -> 0..sessions]
    /\ memory \in [Controllers -> BOOLEAN]
    /\ step \in [Controllers ->
          {"idle", "open", "load", "loading", "verify", "call", "calling", "exited"}]
    /\ exit \in [Controllers -> Results]
    /\ lpc \in [Launchers ->
          {"idle", "own", "start", "wait", "check", "stop", "final", "done"}]
    /\ mutex \subseteq Launchers
    /\ started \in [Launchers -> BOOLEAN] /\ error \in [Launchers -> Results]

\* A remote thread that may still read its argument finds it, also after the
\* Controller gave up on it: LoadLibraryW until it returns, BoardStatsStart until
\* it has copied the path (CallRemote, BoardStatsStart).
ArgumentStays ==
    \A p \in Controllers :
        (thread[p] = "load" \/ (Command(p) = "start" /\ thread[p] \in {"enter", "start"}))
            => memory[p]

\* At most one launcher works on the game, however many are started and whichever
\* of them still hold a handle of the mutex (wWinMain).
OneOwner ==
    \A l, m \in Launchers :
        {lpc[l], lpc[m]} \subseteq {"start", "wait", "check", "stop"} => l = m

\* A launcher that exits with success after a session does not leave that session
\* running, whatever its Controllers, other callers and the game did meanwhile.
SuccessMeansOver ==
    \A l \in Launchers :
        (lpc[l] = "done" /\ error[l] = "SUCCESS" /\ hud # 0) => hud # session[<<l, "start">>]

\* A game that hangs does not hang a launcher that starts or stops the HUD.
HungGameIsLeft ==
    \A l \in Launchers : lpc[l] \in {"start", "stop"} ~> lpc[l] \in {"wait", "done"}

\* Every launcher ends with its game, though its Controllers then fail or return
\* whatever the dying threads left.
LauncherEnds ==
    \A l \in Launchers : (lpc[l] # "idle" /\ game = "exited") ~> lpc[l] = "done"
=============================================================================
