# BoardStats in TLA+

TLA+ models of [Momentum-BoardStats](../src/README.md), a DLL that is loaded into a
running game, hooks four functions of the game's server and one of the graphics
library, collects ramp-board samples and draws them. The modules are checked with
TLC on small instances, and all their safety properties and the refinements of
`Collector` are proved with TLAPS for every value of the constants.

Line numbers below refer to `src/` of the commit this directory stands beside.

## 1. Inventory

| Component | Source | State it keeps | Operations | Hard part |
|---|---|---|---|---|
| Correlation | `Common/Core.c` | per game thread: 16 candidates | `ForgetResult`, `StoreCandidate`, `TakeCandidate` | reuse of result addresses, full array, ticks |
| Capture hooks | `BoardStats/Collector.c` 236-391 | per game thread: context stacks, candidates, epoch | `CaptureSolve`, `CaptureClip`, `CaptureApply`, `CaptureBoard` | nesting; sessions that change under a running hook |
| Collector | `BoardStats/Collector.c` | state, collect flag, epoch, ring of 256, display, snapshot, worker and stop handles | `CollectorStart`, `CollectorStop`, `CollectorGetSnapshot`, `PushEvent`, `RunCollector` | six kinds of thread, three locks, two flags read without a lock |
| Metrics | `Common/Core.c` 8-75 | none | `CalculateMetrics` | floating point |
| Lifecycle | `BoardStats/Lifecycle.c` | session lock | `BoardStatsStart/Stop/Wait/Reload/Status/Error` | clean-up of a half-started session |
| HUD runtime | `BoardStats/dllmain.c` 470-576, 731-937 | enabled, hidden, three handles, options, `bFailed` | `InternalStart/Stop/Reload/Wait`, `HotkeyWorker`, `PresentHud` | render threads, hotkeys and remote calls at once |
| Graphics | `BoardStats/dllmain.c` 85-468, 578-729 | eleven Direct3D resources, their device, a bitmap and a texture per layer | `CreateGraphics`, `DrawLayer`, `ReleaseGraphics` | partial creation, device change, addresses used again |
| Paint exception | `BoardStats/Paint.c` | switch, hook, trampoline | `ConfigurePaint`, `EmitCameraPaint` | switched by several threads, entered without a lock |
| Yaw speed | `BoardStats/YawSpeed.c` | flag, reference to `client.dll` | `ConfigureYawSpeed`, `ReadYawSpeed` | a foreign build |
| Options, panels | `BoardStats/Presentation.c` | the INI file, `g_Hud.Options` | `LoadHudOptions`, `PlaceHudPanel`, `GetHudGrade`, painting | a file that changes while it is read; clamping |
| Guard | `Common/Guard.c` | none | `HashFile`, `ValidateServer` | I/O |
| Controller | `Controller/main.c` | one command per process | `CallRemote`, `wmain` | a time-out of a remote call that goes on |
| Launcher | `Launcher/main.c` | mutex per game | start, wait, stop | game exit, error reporting |
| Settings | `Settings/main.c` | the dialog, the INI file | open, change, `SaveOptions` | eighteen writes make one save |

How they interact:

    Launcher / user --> Controller process --remote thread--> BoardStatsStart/Stop/Wait/Reload
                                                              |  g_SessionLock (try)
                            CollectorStart/Stop  <------------+------------> InternalStart/Stop
                            |  g_ApiLock (try)                               |  ApiLock (try)
     game threads           v                                                v
     hooks --epoch,collect-> ring --g_QueueLock--> RunCollector             HotkeyWorker --CollectorStop-->
                                                   |  g_SnapshotLock (try)   |  RenderLock
                                                   v                         v
                                                   g_InternalSnapshot -----> PresentHud (render thread)
                                                                              |  RenderLock
     Settings, Notepad --boardstats.ini--> ReloadOptions --options----------> DrawLayer --> Direct3D
                                           |  g_PaintLock
                                           v
                                           hook, switch ----> EmitCameraPaint (game thread)

What makes each part correct: the collector never mixes two sessions and is quiet
once its thread has ended; the hooks report each collision once and for the solve
that caused it; `BoardStatsStop` means stopped, `BoardStatsStart` means running;
no frame draws after the HUD's thread has ended; every stop and every wait returns;
one launcher works on a game, and its success means that its session is over; drawing
gives every object back and draws nothing stale; what the settings editor reports as
saved is what a reload installs, always within the limits; paint is redirected only
while that is wanted.

## 2. Modules

| Module | Models | Role |
|---|---|---|
| `Collector` | `Collector.c` without the hooks' inner life | detailed; a step ends at every access to a word another thread writes |
| `BoardFeed` | what queue and display promise | abstract; `Collector` implements it (`ImplementsFeed`) |
| `SessionSwitch` | `g_lCollect` and `g_lEpoch` as the hooks see them | abstract; `Collector` implements it (`ImplementsSwitch`), `Capture` is composed with it |
| `CollectorControl` | what `CollectorStart`/`CollectorStop` promise | abstract; `Collector` implements it (`ImplementsControl`), `Session` is composed with it |
| `Correlation` | `Core.c`'s pending array | operators |
| `Capture` | the four hooks on the game's threads | detailed, uses `Correlation` and `SessionSwitch` |
| `Session` | `Lifecycle.c` and the runtime half of `dllmain.c` | detailed, uses `CollectorControl` |
| `Launcher` | `Launcher/main.c`, `Controller/main.c`, the exports as they see them | detailed |
| `Graphics` | the Direct3D half of `dllmain.c`, `YawSpeed.c`, the bitmaps of `Presentation.c` | detailed |
| `Panel` | `Presentation.c`'s placement, heights and grades | operators |
| `Options` | `LoadHudOptions`, `ReloadOptions`, `Settings/main.c`, `Paint.c` | detailed, uses `Panel` |
| `CollectorProofs`, `CollectorSession`, `CollectorRefinement` | - | theorems about `Collector`: types, safety, the three refinements |
| `CaptureProofs` | - | theorems about `Correlation` and `Capture` |
| `SessionProofs` | - | theorems about `Session` |
| `GraphicsProofs` | - | theorems about `Graphics` |
| `LauncherProofs` | - | theorems about `Launcher` |
| `OptionsProofs` | - | theorems about `Options` |
| `MCCollector`, `MCCapture`, `MCSession`, `MCLauncher`, `MCGraphics`, `MCOptions` | - | instances for TLC (symmetry) |

So the first three detailed models meet at two small modules, and that the larger model
keeps the promise of the small one is proved rather than assumed.

### Collector

Variables carry the code's globals (`state` is `g_lState`, `hWorker` stands for the
handle and for whether its thread has ended, and so on); the comment at each
declaration names them. Each game thread has a program counter `ppc`, the worker
`wpc`, each caller `cpc`. `BoardEnter..PushFull` are `CaptureBoard` and `PushEvent`,
`WorkerTick..WorkerExit` are `RunCollector` with `DrainQueue`, `PopEvent`,
`UpdateStats` and `PublishState`, `ApiBusy..StopTimeout` are `StartSession` and
`StopSession` with every early return. Interlocked and lock operations are steps of
their own; what a thread does alone under a lock is one step. A `Try...` that fails
is its own action. Waiting with a time-out is two actions, both enabled while the
awaited thread runs.

Left out: the counters that only feed statistics (`g_qwSolves`, `g_qwCandidates`,
`g_qwAccepted`, `g_qwUnmatched`), the heartbeat, the metric values, hashes and
paths. An event keeps its sequence number, epoch and whether its vectors are valid.
`SetCollectorHooks` reduces to the setter's hook, since only that one pushes: a
failing call leaves it in either position.

### Capture

A thread's call stack is a sequence of frames, one per hook that is active, which
is where the C code keeps its `SOLVE_CONTEXT` and `APPLY_CONTEXT`. The game may call
any hook at the top of the stack or inside another hook's original; `CaptureClip`
runs inside a solve and touches only the innermost context. `latest` and `uses` are
history variables that no action reads. Any value in a candidate other than result,
player, tick and incoming vector is left out, because `Core.c` compares nothing else.

### Session

`pc`, `op` and `error` are the step, the exported call and its `dwError` per remote
thread; the hotkey thread is one more actor. Calls that fail on their first try-lock
change nothing and are left out, except where the code makes them from inside another
call (`HudStart`, `HudStop`, `CollectorStart`, `CollectorStop`), because there the
`ERROR_BUSY` matters. The options reduce to `PaintInNoclip`, the one setting whose
effect outlives the HUD; the user may edit the file at any moment. `ConfigurePaint` is
one step here, since it holds `g_PaintLock` throughout; `Options` takes it apart. A frame
draws in one step; `Graphics` takes that apart. `InternalWait` may fail to duplicate the
handle, and after waiting returns whatever `GetLastError()` said (`WaitReturn`).

### Launcher

Processes outside the game. Per launcher `lpc` follows `wWinMain`, per Controller
process `step` follows `wmain`; the children of a launcher are the pairs
`<<launcher, command>>`, a Controller run by hand is `<<user, command>>`. A remote
thread belongs to the Controller that created it and outlives it: `thread`, `result`
and `memory` (the argument that `CallRemote` allocated) stay where they are when the
call times out. Loading the DLL and calling an export are two calls of one process, so
one remote thread per Controller is enough.

The exports are those of `Session` seen from outside: they take the session lock or
fail, a start numbers a session and brings up the HUD's thread or fails at any later
point, a stop sets the stop event and waits, a wait keeps to the session it found. Every
error is one value, because a Controller maps every error to `EXIT_FAILURE` and a
launcher learns nothing else. `GameTerminates` ends all threads with one exit code, any;
`GameExits` is the moment the process handle is signalled, which `main.c:224` is about.

Left out: `check`, `status` and `error` (no effect), `reload` (in `Session` and
`Options`), a game restarted under the same name (the launcher's handle keeps the process id from being
used again), message boxes.

### Graphics

One frame at a time, since `PresentHud` draws under `RenderLock`; its steps follow
`DrawLayer`'s early returns, and between any two the game may create or destroy a device
or a swap chain on another thread. Objects are counted (`live`, `refs`, `panels`), because
what matters is that each is given back once: `part` says which resources `g_Graphics`
holds and on which device each was made. Devices have a number that is never used again
and an address that is, as `g_Graphics.lpDevice` is compared by address. A painting is
what a bitmap or texture shows: the options, numbered, and the board or whether a yaw
speed was available.

`LayerDevice` is `ReleaseGraphics` followed by `CreateGraphics` that makes the first `n`
of eleven resources, with the two pointers `CreateGraphics` borrows for itself (`Borrow`,
`GiveBack`) counted too; `LayerNewPanel` is `DestroyHudPanel` and `CreateHudPanel`, because a
bitmap belongs to the thread that made it; `LayerSample...` paints and copies, where
`Map` may fail; `LayerFinal` is the cleanup at `_FINAL`. Of the clock only young and due
samples are kept. `InitializeRenderer` gives its probe device back on every path and is
one step.

### Panel and Options

`Panel` holds `PlaceHudPanel`, the heights of the panels and `GetHudGrade` as functions of
`HUD_OPTIONS`. Losses are in tenths of a percent, so that the code's doubles become
integers, and the square root in the loss limit is squared away.

`Options` is the life of `boardstats.ini`. The editor writes one key per step, in the
order of `SaveOptions`, and every write may fail; `LoadHudOptions` reads one key per
step in its own order; a user may edit by hand in between. `Load` and `Accepts` are the
two tables of limits, `Corners` and `CornerIndex` the two of corners. A reload goes on
with `ConfigurePaint`, taken apart at the switch (`ConfigureOff`), the hook
(`ConfigureHook`, which succeeds or fails in every way `InitializePaintHook` and MinHook
can) and the switch again (`ConfigureDone`), and ends with `Install`. The HUD's end runs
the same steps with `FALSE`. `EmitBegin..EmitEnd` is `EmitCameraPaint`, which reads the
switch without a lock. `saved`, `applied` and `off` are histories that no action of the
program reads.

## 3. Runs

| Run | Question | Instance |
|---|---|---|
| `collector_lifecycle` | do locks, handles, hooks and collection agree through starts, stops, failures and time-outs? does the collector keep its two interfaces? | 2 callers, 1 game thread, 1 reader, ring 1, 2 sessions |
| `collector_feed` | are queue and display a feed that never mixes sessions? | 2 game threads, 1 reader, ring 2, history 2, 2 boards each way, 2 sessions |
| `collector_live` | do stops, calls and queued boards make progress? | 1 of each, 2 sessions |
| `capture_nested` | is an accepted board of its session, unique and of the last solve, also when the array is full? | 3 results, 2 slots, 2 players, depth 3, 3 solves, 2 ticks, 2 sessions |
| `session_calls` | what do the results of start and stop mean? can a frame draw after the end? what leaves the paint exception on? | 2 remote threads, 1 render thread, 2 starts |
| `session_live` | do stop and wait return? | 1 remote thread, 1 render thread |
| `session_paint` | violation: see findings | 1 remote thread, both settings |
| `session_quit` | violation: see findings | 1 remote thread, 2 starts |
| `launcher_calls` | do arguments stay, does one launcher work on a game? | 3 launchers |
| `launcher_live` | what does success mean? does a launcher leave a game that hangs or exits? | 1 launcher, a start and a stop by hand |
| `graphics` | is every object given back, and nothing stale drawn? | 2 presenting threads, 2 swap chains, 2 devices at 2 addresses, 2 reloads |
| `options` | are options within limits and as saved, paint as wanted, panels inside, grades monotone? | 2 reloaders, 4 keys, 1 edit, frames of 1 and 1920 pixels |

Why the bounds are enough. Two sessions are one restart, which is all that the epoch has to
tell apart; two callers are needed for `ERROR_BUSY`, a third would find the same lock taken.
Two game threads suffice to push in the wrong order; a ring and a history of two wrap and
overflow. Three hooks deep is a board inside an application inside a solve, the deepest
nesting in which the contexts differ. `MaxBoards` bounds how often the setter's hook is
entered, `MaxSolves` the solver calls, `MaxStarts` the starts, `MaxDevices` the devices a
game creates, `MaxReloads` the options installed, `MaxEdits` the changes to file or dialog;
each is a guard of the action it counts and disables nothing else. Two devices are one
change, and with two addresses also one that takes the place of another; two reloaders are
the hotkey's and a caller's, which do not wait for each other. The four keys of `options`
are a corner, a number both programs know, the switch of the paint exception and a grade's
threshold, each with values at and beyond its limits; what the other keys do is in the
proofs, which are for all of them. Game threads, callers, results, players, frames and
launchers are interchangeable, hence the symmetry sets (not used where liveness is checked).
Launchers and Controllers run once and nothing else bounds them. Three launchers are an
owner, one that is refused and holds the mutex for a while, and one that comes as either
ends. What success means depends on what others do to the session, which a start and a stop
by hand stand for in `launcher_live`; any number of launchers besides is in the proof. The
reader of `collector_feed` makes the worker skip publications, so that a snapshot may be
older than the display by boards or a session. Deadlock is checked in every run but one:
some thread can always move, or all processes have ended (`Finished`). In `graphics` a game
whose devices are used up and destroyed presents nothing more, so its configuration says
`CHECK_DEADLOCK FALSE`.

The type invariants and the properties are commented where they are defined; `Capture`'s type
invariant is proved, with no run of its own. Every property has a mutant
of the code that breaks it (`ClearedKeepsTicks`, `FenceSkipped` and so on, defined beside the definition they mutate).

### Fairness

`LiveSpec` gives weak fairness to each thread that is inside the DLL; nobody need
call, draw, press a key or enter a hook. Strong fairness is assumed in four places:
taking `g_QueueLock` (`WorkerLock`, `StartLock`), `RenderLock` (`Apply`, `Fence`) and
`ApiLock` (`WaitDuplicate`) with a blocking `AcquireSRWLockExclusive`, whose owners
give it back after a short critical section and whose waiters the system queues; and
finding the message queue empty (`PumpEmpty`), since hotkeys are registered with
`MOD_NOREPEAT` and a person presses them. In `Session` the collector's worker is
assumed to end once told to, which is `Collector`'s `StopCompletes`.

`Launcher`'s `LiveSpec` is fair to launchers, Controllers and the signalling of a game
that terminates, and to nothing inside the game: that a start or a stop returns from a
game that hangs rests on the time-outs alone.

## 4. Findings

1. *A reload that meets the HUD's end leaves the paint exception on* (`session_paint`,
   `StopDisablesPaint`). `InternalReload` (dllmain.c:874) asks only whether the renderer was
   ever initialized. In the counterexample a `BoardStatsReload` has read
   `PaintInNoclip=1` when Ctrl+Alt+Q makes `HotkeyWorker` leave its loop. `HotkeyWorker`
   takes no `ApiLock`, so its `ConfigurePaint(FALSE)` (dllmain.c:570) comes first and the
   reload's `ConfigurePaint(TRUE)` (dllmain.c:506) second. The `BoardStatsStop` that follows
   sees the thread's end, stops the collector and returns success without touching the
   exception. README.md:108: "Stopping the HUD also disables the exception." A reload that
   begins only after the HUD has ended does the same, and so does one after a start that
   failed before it had a thread; the property asks for a thread that has ended
   (`hWorker = "exited"`), so the latter is no part of the finding. That
   a reload is the only way there is the property `StrayPaintIsByReload`, which holds.
2. *Ctrl+Alt+Q can leave the collector running* (`session_quit`, `QuitClosesAll`).
   `HotkeyWorker` ignores what `CollectorStop` returns (dllmain.c:571). While another
   start is inside `CollectorStart`, to be refused with `ERROR_ALREADY_EXISTS`, that is
   `ERROR_BUSY`; the HUD ends and the collector goes on until the next
   `BoardStatsStop`. README.md:34: "`Ctrl+Alt+Q` in-game to close BoardStats."

Noted while modelling, without a property:

- `InternalWait` returns `GetLastError()` of a successful call (dllmain.c:922), so
  `BoardStatsWait` may report an error after a wait that went well; `WaitReturn` lets it
  return either, and no property relies on the value.
- After a stop that timed out, a late HUD thread may stop the next session's collector
  (dllmain.c:571). `StartMeansRunning` says what a start still means then.
- A start that timed out may still bring up a session, which no launcher then waits for
  (Controller/main.c:111); a launcher whose user stops by hand may find the session lock
  taken and report a failure although all went well (Launcher/main.c:219).
- Two reloads that overlap may install the older reading last (dllmain.c:512), and one
  that fails in `ConfigurePaint` leaves the exception off while the old options say on
  (dllmain.c:506). `SavedIsApplied` is therefore about a reload that overlaps no other
  and no save, whatever overlapped before it.
- `ValidateServer` does not free the server's path (Guard.c:147); `InternalStart` does not
  free its own on `ERROR_BUSY` (dllmain.c:747).
- `HashFile` of `client.dll` runs under `RenderLock` (dllmain.c:510), so frames are skipped
  or wait.
- When the HUD ends, `g_Graphics` keeps its resources and its reference to the game's device
  until the next frame of another device.

## 5. Proofs

`CollectorProofs` proves `TypeCorrect`: `Spec => []TypeOK` for any number of threads and
any capacities. `CollectorSession` proves the safety invariants from `SessionInv`:

- `LockOwners` says which step of which thread owns each lock. Without it nothing about
  the ring can be shown, since the steps between acquiring and releasing are separate.
- `WorkerKnows` ties the worker's step to collection, hooks, the stop event, the state
  and, after the last drain, the emptiness of the ring. The fence is where the proof
  needs `LockOwners`: when the worker gets the queue lock, no game thread is between its
  second check and its store, and with `collect` off none gets there again.
- `CallerKnows` and `StateKnows` do the same for a starter: no worker while it writes
  `g_Display`, an empty history before the worker starts, hooks before collection.
- `SwitchKnows` is what the refinement of `SessionSwitch` needs at the moment the epoch
  grows: collection is off.

`SessionInv` together with `TypeOK` is inductive (`SessionCorrect`); `SessionsNeverMix`
(the property `NeverMixesSessions`), `ExitedIsQuiet`, `SingleDisplayWriter` and
`RunningIsLive` follow from it, `StopMeansStopped` is proved per step from it, and
`CollectorImplementsSwitch` shows that each step of `Collector` is a step of
`SessionSwitch` or leaves it alone. The assumptions are the named ones of `Collector`:
capacities are positive, the bounds natural numbers, owners of locks distinct.

`CollectorRefinement` shows the same for the other two abstract modules, from three more
invariants that are inductive on top of `SessionInv`:

- `ControlKnows` ties `g_lState` to the start and the worker: 1 exactly while a start is
  under way, 1 or 2 while a worker is at work, the stop event set while a stop waits.
  `CollectorImplementsControl` needs it where a worker fails (no start can be claiming)
  and where a worker ends (it was told to).
- `FeedKnows` says when the collector is `Idle` (nothing queued, collection off, no game
  thread about to store): from the end of a session until the next start collects. A start
  whose thread cannot be created has collected for a moment and leaves boards in the ring;
  it reached the hook library, so it ends in state 5, which no start gets past. Hence the
  clauses about `hookLibrary`.
- `HistoriesNewestFirst` holds of `g_Display` and of the snapshot, and `HistoryFits` bounds
  the display; from the former `SnapshotsAreOrdered`.

`CollectorImplementsFeed` is then a step per action: `PushStore` is `Enter`, `WorkerPop` is
`Take`, `WorkerShow` is `Finish`, `StartReset` is `Renew`, `StartPrepare` is `Clear`,
`StartCollect` is `Open`; what switches collection off, or ends the last store after
that, is `Close`. `RingAppend` and `RingTail` carry the queue: the ring read from its
head, as a sequence, grows by `Append` and shrinks by `Tail`, for which `RingPlaces` shows
that two distances from the read index are never the same place.

`CaptureProofs` proves every property of `capture_nested`, and the types, for any threads, results, players,
slots and depth. The first part is about `Correlation`: what `First` finds, and that
forgetting, storing and taking keep the array `OnePerResult` and `OneTick`. `CaptureInv`
adds to `PendingIsClean`:

- `FramesKnow`, what each frame of a stack knows of its event, of its thread's session and
  of its place: every frame but the top one is inside the game's own function. From it
  `AcceptedIsOfSession`.
- `EpochKnows`: threads are never ahead of the session, and a session that is numbered
  but not yet collected has no candidates. This is where `Capture` uses `SessionSwitch`.
- `UseOnce`: a solve is in one frame or one slot at most, and there only until a board has
  used it. `UsedOnce` alone is not inductive, since it says nothing of copies.
- `LatestKnows`: a candidate of the current session is the latest of its result, unless the
  frame that will forget it is on top of the stack, or collection is off and no board is
  being taken. The exceptions are the two moments at which the code is behind;
  `TakenIsTheLatest` shows that neither can reach a board of the session.

The assumptions are that bounds are natural numbers and the array has a slot.

`SessionProofs` proves every safety property of `session_calls` for any number of remote
threads and frames. `SessionInv` consists of `OpSteps` (which steps an exported call is
made of), `LockOwners` (which of them hold `g_SessionLock`, `ApiLock`, `RenderLock` and the
collector's lock), `HotkeyKnows` (what the HUD's thread has switched off by each of its
last steps: past the fence no frame draws), `StarterKnows` (what `InternalStart` has
switched on), `CollectorKnows` (what the collector does meanwhile) and `ExitedHudIsQuiet`.
`CollectorKnows` carries the disjunct `halfStopped`: after a stop that timed out, the old
HUD thread may still stop a collector of the next session, and without the disjunct the
invariant is false. `StrayPaintStep` shows that every step which leaves the paint exception
on without a HUD (`StrayPaint`: the HUD's thread is past its `ConfigurePaint(FALSE)` and no
start is about to make one) is the `ConfigurePaint` of a reload; `OnlyReloadsLeavePaint`
follows. The assumptions: at least one setting, the hotkey's thread is no
remote thread.

`GraphicsProofs` proves every property of `graphics` for any threads, addresses, swap chains
(finitely many), devices and reloads. `DevicesCounted` is the accounting of references: a
device has one per swap chain, one if `g_Graphics` holds it and one if the layer being
drawn does; so an address is free only if nobody holds it, which is why comparing devices
by address is enough. `PartsOfDevice` and `ObjectsCounted` say that the eleven resources
are there together and counted once, through every failure, and that `CreateGraphics` has
given back what it borrowed; `FrameKnows` says what a frame
has done by each step; `YoungIsShown` says that a young sample is still the one in panel
and texture, if both are there: what replaces either, or the options, must expire
the sample. `NothingIsLeaked` and `DrawnIsPainted` follow. The assumptions: bounds are
natural numbers, swap chains finitely many, `None` is no thread, address or frame.

`LauncherProofs` proves the invariants of `launcher_calls` and `launcher_live` for any number of
launchers and of Controllers run by hand. `ArgumentStays` is inductive by itself, which is
what the comment at Controller/main.c:109 amounts to. `OneOwner` needs `WorkersHold`:
refused launchers hold the mutex too, so the set of holders says nothing about who works.
`SuccessMeansOver` needs `SuccessInv`, in which each level says what the one below has
seen: a remote thread that waited successfully has seen its session end; a child that
succeeded has such a thread behind it, or one that died with the game; a launcher without
an error has such a child, or has seen the game exit. What makes this stable is
`OverStays`: once the thread that could start the session has ended (`Settled`), session
numbers only grow past it. The assumption is `ByHandAssumption`: users are not launchers.

`OptionsProofs` proves all five properties of `options` for any keys of the file, any number
of reloaders, any frames and boards:

- `LoadOrdered`, `LoadAccepted` and `ReadsBack` are about the tables: defaults lie between
  their limits, the game takes what the editor accepts as it is, and what the dialog
  shows is what is read back. `ReadWithin` and with it `OptionsType` follow, so
  `PanelsFit` and `BetterGradesBetter` only need that options are within their limits.
  `PlacedInside` is for panels of 16 rows or more and any back buffer;
  `WithinLossMonotone` and `GradeMeets` carry the grades.
- `PaintInv` says that the owner of `g_PaintLock` finds the switch off and nobody else
  between the two writes of it; that is why a failing hook cannot leave a ray that begins
  later redirected (`PaintIsWanted`).
- `SaveInv` (what is written so far is in the file), `LoneInv` (a reload that overlaps no
  other has read what the file still says) and `AppliedInv` together give
  `SavedIsWhatReloads`.

The assumptions are `BoundsAssumption`, `KeysAssumption` (edited keys are keys of the file)
and `AbsentAssumption` (nothing that is written reads as an absent key).

Each inductive invariant was checked with TLC on an instance before it was proved. Checked
by TLC only is liveness, since the prover reaches neither fairness nor `ENABLED`:
`StopCompletes`, `CallsReturn`, `QueuedIsTaken`, `StopEndsHud`, `WaitEnds`, `LauncherEnds`,
`HungGameIsLeft`. The models compute by functions and quantifiers, so no theorem rests on
induction over data. The two findings are counterexamples, for which an instance is enough.

## 6. Not modelled

- Pixels, fonts, colours, shaders and what is written on a panel; the text of the INI file
  beyond a key's value, and an edit by hand while the editor is saving.
- File hashing, and the addresses and bytes the guards compare: their outcome is a choice.
- The floating-point metrics of `Core.c`: their acceptance is a choice. Losses in `Panel` are
  tenths of a percent.
- Whether `ReadPaintCamera` finds a free camera, and the value `ReadYawSpeed` reads: choices.
- Clocks: time-outs may or may not happen, a sample is young or due.
- That a start that timed out comes up later (Controller/main.c:432) is above, without a
  property.
- The tests; MinHook beyond what a call of it leaves behind.

## 7. Plan

1. Composition: that `Session` keeps the promise `Launcher` makes of the exports, as an
   abstract module between them.
2. Proofs: `BoardFeed`'s own promise (a board is shown at most once) as a theorem of the
   abstract module, from which it follows for `Collector` by refinement.
