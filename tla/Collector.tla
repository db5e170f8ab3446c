----------------------------- MODULE Collector -----------------------------
(***************************************************************************)
(* BoardStats/Collector.c: the session of the board collector.             *)
(*                                                                         *)
(* Game threads ("producers") run the CaptureBoard hook and push accepted  *)
(* boards into a ring of QueueCap events; one worker thread drains the     *)
(* ring into g_Display and publishes it as g_InternalSnapshot; callers     *)
(* (BoardStatsStart, BoardStatsStop, the hotkey thread) start and stop the *)
(* session under g_ApiLock; readers (the renderer) take the snapshot.      *)
(*                                                                         *)
(* A step ends at every access to a word another thread can write.  What   *)
(* TakeCandidate returns is chosen here and modelled in Capture.           *)
(***************************************************************************)
EXTENDS Integers, Sequences

CONSTANTS
    Producers,      \* game threads that execute the hooked setter
    Callers,        \* threads that call CollectorStart / CollectorStop
    Readers,        \* threads that call CollectorGetSnapshot
    Worker,         \* the owner name of the RunCollector thread
    NoOne,          \* the owner of a free lock
    QueueCap,       \* SERVER_BOARD_QUEUE_CAPACITY (256)
    HistoryCap,     \* HUD_HISTORY_COUNT (4)
    PublishTries,   \* retries of the last publication (100)
    MaxBoards,      \* bound: the hook is entered while sequence is below it
    MaxSessions     \* bound: StartSession calls that get past the state check

ASSUME QueueCapAssumption   == QueueCap \in Nat \ {0}
ASSUME HistoryCapAssumption == HistoryCap \in Nat \ {0}
ASSUME BoundsAssumption     == /\ PublishTries \in Nat \ {0}
                               /\ MaxBoards \in Nat
                               /\ MaxSessions \in Nat
ASSUME OwnersAssumption     == /\ Worker # NoOne
                               /\ Worker \notin Producers \cup Callers
                               /\ NoOne \notin Producers \cup Callers
                               /\ Producers \cap Callers = {}

VARIABLES
    state,          \* g_lState: 0 never, 1 starting, 2 running, 4 stopped, 5 failed
    collect,        \* g_lCollect
    epoch,          \* g_lEpoch
    stopError,      \* g_lStopError
    hooks,          \* the setter hook leads to CaptureBoard
    hooksCreated,   \* g_bHooksCreated
    hWorker,        \* g_hWorker: "null", or the thread it names "running" / "exited"
    hStop,          \* g_hStop: "null", "reset" or "set"
    apiLock,        \* owner of g_ApiLock
    queueLock,      \* owner of g_QueueLock
    slots, read, count,         \* g_aQueue, g_dwRead, g_dwCount
    sequence,       \* g_qwSequence
    dropped,        \* g_qwDropped
    invalid,        \* g_qwInvalid, as far as DrainQueue counts it
    ppc, board,     \* where each producer is, its local event (with lEpoch)
    wpc, wEvent, final, tries,  \* the worker: step, local event, last drain?, dwTry
    cpc, result,    \* where each caller is, what its last call returned
    prev, hookLibrary,          \* StartSession's lState and bHookLibrary
    display,        \* g_Display
    snapWriter, snapReaders,    \* exclusive and shared owners of g_SnapshotLock
    snapshot        \* g_InternalSnapshot

sessionVars  == <<state, collect, epoch, stopError, hooks, hooksCreated, hWorker, hStop>>
queueVars    == <<slots, read, count>>
counterVars  == <<sequence, dropped, invalid>>
producerVars == <<ppc, board>>
workerVars   == <<wpc, wEvent, final, tries>>
callerVars   == <<cpc, result, prev, hookLibrary>>
snapVars     == <<snapWriter, snapReaders, snapshot>>
vars == <<sessionVars, apiLock, queueLock, queueVars, counterVars, producerVars,
          workerVars, callerVars, display, snapVars>>

-----------------------------------------------------------------------------
(* Values.                                                                 *)

\* A BOARD_EVENT: its qwSequence, the epoch it is pushed with, and whether
\* CalculateMetrics and DrainQueue's range checks accept its vectors.
Event   == [seq : Nat, epoch : Nat, valid : BOOLEAN]
NoEvent == [seq |-> 0, epoch |-> 0, valid |-> FALSE]

\* A HUD_STATE: aHistory (newest first), bSession, bStopped, dStopError.
NoDisplay == [history |-> << >>, session |-> FALSE, stopped |-> FALSE, error |-> "SUCCESS"]

\* Mutant of FreshDisplay: a restart keeps the boards of the last session.
KeptDisplay == [display EXCEPT !.session = TRUE, !.stopped = FALSE, !.error = "SUCCESS"]

\* The display StartSession hands to its worker.
FreshDisplay == [history |-> << >>, session |-> TRUE, stopped |-> FALSE, error |-> "SUCCESS"]

RingIndex(i) == (read + i) % QueueCap

\* The i-th oldest queued event, i in 0..count-1.
Queued(i) == slots[RingIndex(i)]

Init ==
    /\ state = 0 /\ collect = FALSE /\ epoch = 0 /\ stopError = "SUCCESS"
    /\ hooks = FALSE /\ hooksCreated = FALSE /\ hWorker = "null" /\ hStop = "null"
    /\ apiLock = NoOne /\ queueLock = NoOne
    /\ slots = [i \in 0..QueueCap-1 |-> NoEvent] /\ read = 0 /\ count = 0
    /\ sequence = 0 /\ dropped = 0 /\ invalid = 0
    /\ ppc = [p \in Producers |-> "game"] /\ board = [p \in Producers |-> NoEvent]
    /\ wpc = "none" /\ wEvent = NoEvent /\ final = FALSE /\ tries = 0
    /\ cpc = [c \in Callers |-> "idle"] /\ result = [c \in Callers |-> "none"]
    /\ prev = 0 /\ hookLibrary = FALSE
    /\ display = NoDisplay
    /\ snapWriter = NoOne /\ snapReaders = {} /\ snapshot = NoDisplay

-----------------------------------------------------------------------------
(* Producers: CaptureBoard and PushEvent on the game's threads.            *)

\* CaptureBoard entered through the hook; RefreshEpoch reads g_lEpoch.
BoardEnter(p) ==
    /\ hooks
    /\ sequence < MaxBoards
    /\ ppc[p] = "game"
    /\ ppc' = [ppc EXCEPT ![p] = "take"]
    /\ board' = [board EXCEPT ![p] = [NoEvent EXCEPT !.epoch = epoch]]
    /\ UNCHANGED <<sessionVars, apiLock, queueLock, queueVars, counterVars, workerVars,
                   callerVars, display, snapVars>>

\* IsCollecting, TakeCandidate and the game's own setter. Without a candidate
\* the hook only passes the call through (g_qwUnmatched is not modelled).
BoardTake(p) ==
    /\ ppc[p] = "take"
    /\ \/ /\ ppc' = [ppc EXCEPT ![p] = "game"]
          /\ UNCHANGED board
       \/ /\ collect
          /\ \E valid \in BOOLEAN : board' = [board EXCEPT ![p].valid = valid]
          /\ ppc' = [ppc EXCEPT ![p] = "number"]
    /\ UNCHANGED <<sessionVars, apiLock, queueLock, queueVars, counterVars, workerVars,
                   callerVars, display, snapVars>>

\* InterlockedIncrement64(&g_qwSequence): outside every lock.
BoardNumber(p) ==
    /\ ppc[p] = "number"
    /\ sequence' = sequence + 1
    /\ board' = [board EXCEPT ![p].seq = sequence + 1]
    /\ ppc' = [ppc EXCEPT ![p] = "check"]
    /\ UNCHANGED <<sessionVars, apiLock, queueLock, queueVars, dropped, invalid, workerVars,
                   callerVars, display, snapVars>>

\* PushEvent's first IsCollecting, before the lock.
PushCheck(p) ==
    /\ ppc[p] = "check"
    /\ ppc' = [ppc EXCEPT ![p] = IF collect THEN "try" ELSE "game"]
    /\ UNCHANGED <<sessionVars, apiLock, queueLock, queueVars, counterVars, board, workerVars,
                   callerVars, display, snapVars>>

\* TryAcquireSRWLockExclusive succeeds: a game thread never waits for the lock.
PushTry(p) ==
    /\ ppc[p] = "try"
    /\ queueLock = NoOne
    /\ queueLock' = p
    /\ ppc' = [ppc EXCEPT ![p] = "recheck"]
    /\ UNCHANGED <<sessionVars, apiLock, queueVars, counterVars, board, workerVars,
                   callerVars, display, snapVars>>

\* TryAcquireSRWLockExclusive fails: the event is counted as dropped.
PushContended(p) ==
    /\ ppc[p] = "try"
    /\ queueLock # NoOne
    /\ dropped' = dropped + 1
    /\ ppc' = [ppc EXCEPT ![p] = "game"]
    /\ UNCHANGED <<sessionVars, apiLock, queueLock, queueVars, sequence, invalid, board,
                   workerVars, callerVars, display, snapVars>>

\* Mutants of MayPush: each forgets one half of the second check.
MayPushAnyEpoch(p) == collect
MayPushAnyTime(p)  == board[p].epoch = epoch

\* The condition PushEvent tests again once it holds the lock.
MayPush(p) == collect /\ board[p].epoch = epoch

\* Mutant of PushRecheck: the early return forgets the lock.
PushRecheckLeaks(p) ==
    /\ ppc[p] = "recheck"
    /\ ppc' = [ppc EXCEPT ![p] = IF MayPush(p) THEN "store" ELSE "game"]
    /\ UNCHANGED <<sessionVars, apiLock, queueLock, queueVars, counterVars, board, workerVars,
                   callerVars, display, snapVars>>

PushRecheck(p) ==
    /\ ppc[p] = "recheck"
    /\ \/ MayPush(p) /\ ppc' = [ppc EXCEPT ![p] = "store"] /\ UNCHANGED queueLock
       \/ ~MayPush(p) /\ ppc' = [ppc EXCEPT ![p] = "game"] /\ queueLock' = NoOne
    /\ UNCHANGED <<sessionVars, apiLock, queueVars, counterVars, board, workerVars,
                   callerVars, display, snapVars>>

\* Mutant of PushStore: the tail is computed without the read index.
PushStoreUnrotated(p) ==
    /\ ppc[p] = "store"
    /\ count # QueueCap
    /\ slots' = [slots EXCEPT ![count % QueueCap] = board[p]]
    /\ count' = count + 1
    /\ queueLock' = NoOne
    /\ ppc' = [ppc EXCEPT ![p] = "game"]
    /\ UNCHANGED <<sessionVars, apiLock, read, counterVars, board, workerVars, callerVars,
                   display, snapVars>>

\* Room in the ring: store at the tail and unlock.
PushStore(p) ==
    /\ ppc[p] = "store"
    /\ count # QueueCap
    /\ slots' = [slots EXCEPT ![RingIndex(count)] = board[p]]
    /\ count' = count + 1
    /\ queueLock' = NoOne
    /\ ppc' = [ppc EXCEPT ![p] = "game"]
    /\ UNCHANGED <<sessionVars, apiLock, read, counterVars, board, workerVars, callerVars,
                   display, snapVars>>

\* No room: the new event is dropped, the queued ones stay.
PushFull(p) ==
    /\ ppc[p] = "store"
    /\ count = QueueCap
    /\ dropped' = dropped + 1
    /\ queueLock' = NoOne
    /\ ppc' = [ppc EXCEPT ![p] = "game"]
    /\ UNCHANGED <<sessionVars, apiLock, queueVars, sequence, invalid, board, workerVars,
                   callerVars, display, snapVars>>

ProducerStep(p) ==
    \/ BoardTake(p) \/ BoardNumber(p) \/ PushCheck(p) \/ PushTry(p)
    \/ PushContended(p) \/ PushRecheck(p) \/ PushStore(p) \/ PushFull(p)

-----------------------------------------------------------------------------
(* PublishState: try-exclusive, copy, release; BUSY leaves the old snapshot. *)

PublishAcquire(o) ==
    /\ snapWriter = NoOne /\ snapReaders = {}
    /\ snapWriter' = o
    /\ UNCHANGED <<snapReaders, snapshot>>

PublishBusy == snapWriter # NoOne \/ snapReaders # {}

PublishCopy(o) ==
    /\ snapWriter = o
    /\ snapshot' = display
    /\ snapWriter' = NoOne
    /\ UNCHANGED snapReaders

-----------------------------------------------------------------------------
(* The worker: RunCollector, DrainQueue, PopEvent, UpdateStats.            *)

\* The steps of the worker at which it calls PublishState, and where it goes on.
PublishingSteps == {"pubBoard", "pubLoop", "pubStats", "pubFinal", "pubRetry"}

\* Mutant of WorkerTick: the loop publishes and leaves the queue to the last drain.
WorkerTickPublishesOnly ==
    /\ wpc = "wait" /\ hStop # "set"
    /\ wpc' = "pubLoop" /\ final' = FALSE
    /\ UNCHANGED <<sessionVars, apiLock, queueLock, queueVars, counterVars, producerVars,
                   wEvent, tries, callerVars, display, snapVars>>

\* WaitForSingleObject(g_hStop, 50) times out: drain, publish, every second stats.
WorkerTick ==
    /\ wpc = "wait" /\ hStop # "set"
    /\ wpc' = "pop" /\ final' = FALSE
    /\ UNCHANGED <<sessionVars, apiLock, queueLock, queueVars, counterVars, producerVars,
                   wEvent, tries, callerVars, display, snapVars>>

\* The wait returns because the stop event is set: stop collecting.
WorkerStopped ==
    /\ wpc = "wait" /\ hStop = "set"
    /\ collect' = FALSE
    /\ wpc' = "fence"
    /\ UNCHANGED <<state, epoch, stopError, hooks, hooksCreated, hWorker, hStop, apiLock,
                   queueLock, queueVars, counterVars, producerVars, wEvent, final, tries,
                   callerVars, display, snapVars>>

\* AcquireSRWLockExclusive(&g_QueueLock), in the fence and in PopEvent.
WorkerLock ==
    /\ wpc \in {"fence", "pop"}
    /\ queueLock = NoOne
    /\ queueLock' = Worker
    /\ wpc' = IF wpc = "fence" THEN "fenced" ELSE "popped"
    /\ UNCHANGED <<sessionVars, apiLock, queueVars, counterVars, producerVars, wEvent, final,
                   tries, callerVars, display, snapVars>>

WorkerFenced ==
    /\ wpc = "fenced"
    /\ queueLock' = NoOne
    /\ wpc' = "unhook"
    /\ UNCHANGED <<sessionVars, apiLock, queueVars, counterVars, producerVars, wEvent, final,
                   tries, callerVars, display, snapVars>>

\* Mutant of WorkerUnhook: the status of SetCollectorHooks is lost.
WorkerUnhookSilently ==
    /\ wpc = "unhook"
    /\ hooks' \in BOOLEAN /\ UNCHANGED stopError
    /\ wpc' = "pop" /\ final' = TRUE
    /\ UNCHANGED <<state, collect, epoch, hooksCreated, hWorker, hStop, apiLock, queueLock,
                   queueVars, counterVars, producerVars, wEvent, tries, callerVars, display,
                   snapVars>>

\* SetCollectorHooks(FALSE); when a site fails the setter may stay hooked.
WorkerUnhook ==
    /\ wpc = "unhook"
    /\ \/ hooks' = FALSE /\ UNCHANGED stopError
       \/ hooks' \in BOOLEAN /\ stopError' = "CAN_NOT_COMPLETE"
    /\ wpc' = "pop" /\ final' = TRUE
    /\ UNCHANGED <<state, collect, epoch, hooksCreated, hWorker, hStop, apiLock, queueLock,
                   queueVars, counterVars, producerVars, wEvent, tries, callerVars, display,
                   snapVars>>

\* Mutant of WorkerPop: the read index is not wrapped.
WorkerPopUnwrapped ==
    /\ wpc = "popped" /\ count # 0
    /\ wEvent' = slots[read]
    /\ read' = read + 1
    /\ count' = count - 1
    /\ queueLock' = NoOne
    /\ wpc' = "show"
    /\ UNCHANGED <<sessionVars, apiLock, slots, counterVars, producerVars, final, tries,
                   callerVars, display, snapVars>>

\* PopEvent finds an event: read it at the head of the ring and unlock.
WorkerPop ==
    /\ wpc = "popped" /\ count # 0
    /\ wEvent' = slots[read]
    /\ read' = (read + 1) % QueueCap
    /\ count' = count - 1
    /\ queueLock' = NoOne
    /\ wpc' = "show"
    /\ UNCHANGED <<sessionVars, apiLock, slots, counterVars, producerVars, final, tries,
                   callerVars, display, snapVars>>

\* PopEvent finds nothing: DrainQueue returns to the loop or to the shutdown.
WorkerEmpty ==
    /\ wpc = "popped" /\ count = 0
    /\ wEvent' = NoEvent
    /\ queueLock' = NoOne
    /\ wpc' = IF final THEN "stats" ELSE "pubLoop"
    /\ UNCHANGED <<sessionVars, apiLock, queueVars, counterVars, producerVars, final, tries,
                   callerVars, display, snapVars>>

\* Mutant of IsNewer: only duplicates are kept off the display.
IsDifferent(e) == display.history = << >> \/ e.seq # display.history[1].seq

\* An event is newer than every board shown.
IsNewer(e) == display.history = << >> \/ e.seq > display.history[1].seq

\* memmove by one, the new board in front, at most HUD_HISTORY_COUNT of them.
PushHistory(e) ==
    LET longer == <<e>> \o display.history
    IN  IF Len(longer) > HistoryCap THEN SubSeq(longer, 1, HistoryCap) ELSE longer

\* DrainQueue's body: an invalid event is counted and skipped without a
\* publication, an older one is published without being shown.
WorkerShow ==
    /\ wpc = "show"
    /\ \/ /\ ~wEvent.valid
          /\ invalid' = invalid + 1
          /\ wpc' = "pop"
          /\ UNCHANGED display
       \/ /\ wEvent.valid
          /\ display' = IF IsNewer(wEvent)
                        THEN [display EXCEPT !.history = PushHistory(wEvent)]
                        ELSE display
          /\ wpc' = "pubBoard"
          /\ UNCHANGED invalid
    /\ UNCHANGED <<sessionVars, apiLock, queueLock, queueVars, sequence, dropped,
                   producerVars, wEvent, final, tries, callerVars, snapVars>>

\* UpdateStats(final): the stop error and, on the last one, bStopped.
WorkerStats ==
    /\ wpc = "stats"
    /\ display' = [display EXCEPT !.error = stopError, !.stopped = @ \/ final]
    /\ wpc' = IF final THEN "pubFinal" ELSE "pubStats"
    /\ UNCHANGED <<sessionVars, apiLock, queueLock, queueVars, counterVars, producerVars,
                   wEvent, final, tries, callerVars, snapVars>>

\* Where RunCollector goes on after a PublishState: UpdateStats follows the
\* loop's publication when a second has passed.
AfterPublish(busy) ==
    \/ wpc = "pubBoard" /\ wpc' = "pop" /\ UNCHANGED tries
    \/ wpc = "pubLoop" /\ wpc' \in {"wait", "stats"} /\ UNCHANGED tries
    \/ wpc = "pubStats" /\ wpc' = "wait" /\ UNCHANGED tries
    \/ wpc = "pubFinal" /\ wpc' = "pubRetry" /\ tries' = 0
    \/ wpc = "pubRetry" /\ busy /\ tries + 1 < PublishTries
       /\ wpc' = "pubRetry" /\ tries' = tries + 1
    \/ wpc = "pubRetry" /\ ~(busy /\ tries + 1 < PublishTries)
       /\ wpc' = "finish" /\ tries' = 0

WorkerPublish ==
    /\ wpc \in PublishingSteps
    /\ PublishAcquire(Worker)
    /\ UNCHANGED <<sessionVars, apiLock, queueLock, queueVars, counterVars, producerVars,
                   workerVars, callerVars, display>>

WorkerBusy ==
    /\ wpc \in PublishingSteps /\ snapWriter # Worker
    /\ PublishBusy
    /\ AfterPublish(TRUE)
    /\ UNCHANGED <<sessionVars, apiLock, queueLock, queueVars, counterVars, producerVars,
                   wEvent, final, callerVars, display, snapVars>>

WorkerPublished ==
    /\ wpc \in PublishingSteps
    /\ PublishCopy(Worker)
    /\ AfterPublish(FALSE)
    /\ UNCHANGED <<sessionVars, apiLock, queueLock, queueVars, counterVars, producerVars,
                   wEvent, final, callerVars, display>>

\* The last store of the worker: 4 stopped, 5 failed (MH_OK == nStatus, which
\* holds exactly when WorkerUnhook left g_lStopError alone).
WorkerFinish ==
    /\ wpc = "finish"
    /\ state' = IF stopError = "SUCCESS" THEN 4 ELSE 5
    /\ wpc' = "exit"
    /\ UNCHANGED <<collect, epoch, stopError, hooks, hooksCreated, hWorker, hStop, apiLock,
                   queueLock, queueVars, counterVars, producerVars, wEvent, final, tries,
                   callerVars, display, snapVars>>

\* The thread returns and its handle becomes signalled.
WorkerExit ==
    /\ wpc = "exit"
    /\ wpc' = "none"
    /\ hWorker' = "exited"
    /\ UNCHANGED <<state, collect, epoch, stopError, hooks, hooksCreated, hStop, apiLock,
                   queueLock, queueVars, counterVars, producerVars, wEvent, final, tries,
                   callerVars, display, snapVars>>

WorkerStep ==
    \/ WorkerTick \/ WorkerStopped \/ WorkerLock \/ WorkerFenced \/ WorkerUnhook
    \/ WorkerPop \/ WorkerEmpty \/ WorkerShow \/ WorkerStats
    \/ WorkerPublish \/ WorkerBusy \/ WorkerPublished \/ WorkerFinish \/ WorkerExit

-----------------------------------------------------------------------------
(* Callers: CollectorStart / StartSession and CollectorStop / StopSession. *)

Return(c, code) ==
    /\ result' = [result EXCEPT ![c] = code]
    /\ cpc' = [cpc EXCEPT ![c] = "idle"]

Goto(c, step) == cpc' = [cpc EXCEPT ![c] = step] /\ UNCHANGED result

\* TryAcquireSRWLockExclusive(&g_ApiLock) fails: "a second controller fails
\* instead of racing handles".
ApiBusy(c) ==
    /\ cpc[c] = "idle" /\ apiLock # NoOne
    /\ Return(c, "BUSY")
    /\ UNCHANGED <<sessionVars, apiLock, queueLock, queueVars, counterVars, producerVars,
                   workerVars, prev, hookLibrary, display, snapVars>>

StartEnter(c) ==
    /\ cpc[c] = "idle" /\ apiLock = NoOne
    /\ epoch < MaxSessions
    /\ apiLock' = c
    /\ Goto(c, "startCheck")
    /\ UNCHANGED <<sessionVars, queueLock, queueVars, counterVars, producerVars, workerVars,
                   prev, hookLibrary, display, snapVars>>

\* A session is live, failed, or its worker thread has not ended yet.
StartRefused(c) ==
    /\ cpc[c] = "startCheck"
    /\ \/ state \notin {0, 4} /\ Return(c, "ALREADY_EXISTS")
       \/ state \in {0, 4} /\ hWorker = "running" /\ Return(c, "BUSY")
    /\ apiLock' = NoOne
    /\ UNCHANGED <<sessionVars, queueLock, queueVars, counterVars, producerVars, workerVars,
                   prev, hookLibrary, display, snapVars>>

\* Mutant of StartClaim: state 4 is taken as the end of the worker thread.
StartClaimEarly(c) ==
    /\ cpc[c] = "startCheck"
    /\ state \in {0, 4}
    /\ prev' = state /\ hookLibrary' = FALSE
    /\ hWorker' = "null" /\ hStop' = "null"
    /\ state' = 1 /\ stopError' = "SUCCESS"
    /\ Goto(c, "startLock")
    /\ UNCHANGED <<collect, epoch, hooks, hooksCreated, apiLock, queueLock, queueVars,
                   counterVars, producerVars, workerVars, display, snapVars>>

\* Close the handles of the previous session and claim the next one.
StartClaim(c) ==
    /\ cpc[c] = "startCheck"
    /\ state \in {0, 4} /\ hWorker # "running"
    /\ prev' = state /\ hookLibrary' = FALSE
    /\ hWorker' = "null" /\ hStop' = "null"
    /\ state' = 1 /\ stopError' = "SUCCESS"
    /\ Goto(c, "startLock")
    /\ UNCHANGED <<collect, epoch, hooks, hooksCreated, apiLock, queueLock, queueVars,
                   counterVars, producerVars, workerVars, display, snapVars>>

StartLock(c) ==
    /\ cpc[c] = "startLock" /\ queueLock = NoOne
    /\ queueLock' = c
    /\ Goto(c, "startReset")
    /\ UNCHANGED <<sessionVars, apiLock, queueVars, counterVars, producerVars, workerVars,
                   prev, hookLibrary, display, snapVars>>

\* Mutant: the ring is emptied and the epoch stays.
StartResetSameEpoch(c) ==
    /\ cpc[c] = "startReset"
    /\ read' = 0 /\ count' = 0
    /\ queueLock' = NoOne
    /\ Goto(c, "startPrepare")
    /\ UNCHANGED <<sessionVars, apiLock, slots, counterVars, producerVars, workerVars, prev,
                   hookLibrary, display, snapVars>>

\* A new epoch and an empty ring, under the queue lock.
StartReset(c) ==
    /\ cpc[c] = "startReset"
    /\ epoch' = epoch + 1
    /\ read' = 0 /\ count' = 0
    /\ queueLock' = NoOne
    /\ Goto(c, "startPrepare")
    /\ UNCHANGED <<state, collect, stopError, hooks, hooksCreated, hWorker, hStop, apiLock,
                   slots, counterVars, producerVars, workerVars, prev, hookLibrary, display,
                   snapVars>>

\* Wrong process or server, a module that cannot be pinned, no stop event.
StartInvalid(c) ==
    /\ cpc[c] = "startPrepare"
    /\ Goto(c, "fail")
    /\ UNCHANGED <<sessionVars, apiLock, queueLock, queueVars, counterVars, producerVars,
                   workerVars, prev, hookLibrary, display, snapVars>>

StartPrepare(c) ==
    /\ cpc[c] = "startPrepare"
    /\ hStop' = "reset"
    /\ display' = FreshDisplay
    /\ Goto(c, "startPublish")
    /\ UNCHANGED <<state, collect, epoch, stopError, hooks, hooksCreated, hWorker, apiLock,
                   queueLock, queueVars, counterVars, producerVars, workerVars, prev,
                   hookLibrary, snapVars>>

\* Where StartSession goes on after its PublishState.
AfterCallerPublish(c) == Goto(c, IF cpc[c] = "startPublish" THEN "startHook" ELSE "failEnd")

CallerPublish(c) ==
    /\ cpc[c] \in {"startPublish", "failPublish"}
    /\ PublishAcquire(c)
    /\ UNCHANGED <<sessionVars, apiLock, queueLock, queueVars, counterVars, producerVars,
                   workerVars, callerVars, display>>

CallerBusy(c) ==
    /\ cpc[c] \in {"startPublish", "failPublish"} /\ snapWriter # c
    /\ PublishBusy
    /\ AfterCallerPublish(c)
    /\ UNCHANGED <<sessionVars, apiLock, queueLock, queueVars, counterVars, producerVars,
                   workerVars, prev, hookLibrary, display, snapVars>>

CallerPublished(c) ==
    /\ cpc[c] \in {"startPublish", "failPublish"}
    /\ PublishCopy(c)
    /\ AfterCallerPublish(c)
    /\ UNCHANGED <<sessionVars, apiLock, queueLock, queueVars, counterVars, producerVars,
                   workerVars, prev, hookLibrary, display>>

\* MH_Initialize fails: no hook was touched. Once the hooks exist it is not called.
StartNoLibrary(c) ==
    /\ cpc[c] = "startHook" /\ ~hooksCreated
    /\ Goto(c, "fail")
    /\ UNCHANGED <<sessionVars, apiLock, queueLock, queueVars, counterVars, producerVars,
                   workerVars, prev, hookLibrary, display, snapVars>>

\* A site cannot be hooked or enabled; the setter may be enabled already.
StartHookFails(c) ==
    /\ cpc[c] = "startHook"
    /\ hookLibrary' = TRUE
    /\ \/ ~hooksCreated /\ UNCHANGED <<hooks, hooksCreated>>
       \/ hooksCreated' = TRUE /\ hooks' \in BOOLEAN
    /\ Goto(c, "fail")
    /\ UNCHANGED <<state, collect, epoch, stopError, hWorker, hStop, apiLock, queueLock,
                   queueVars, counterVars, producerVars, workerVars, prev, display, snapVars>>

\* Mutant of StartHook: the status of SetCollectorHooks(TRUE) is not looked at.
StartHookUnchecked(c) ==
    /\ cpc[c] = "startHook"
    /\ hookLibrary' = TRUE /\ hooksCreated' = TRUE /\ hooks' \in BOOLEAN
    /\ Goto(c, "startCollect")
    /\ UNCHANGED <<state, collect, epoch, stopError, hWorker, hStop, apiLock, queueLock,
                   queueVars, counterVars, producerVars, workerVars, prev, display, snapVars>>

StartHook(c) ==
    /\ cpc[c] = "startHook"
    /\ hookLibrary' = TRUE /\ hooksCreated' = TRUE /\ hooks' = TRUE
    /\ Goto(c, "startCollect")
    /\ UNCHANGED <<state, collect, epoch, stopError, hWorker, hStop, apiLock, queueLock,
                   queueVars, counterVars, producerVars, workerVars, prev, display, snapVars>>

StartCollect(c) ==
    /\ cpc[c] = "startCollect"
    /\ collect' = TRUE
    /\ Goto(c, "startThread")
    /\ UNCHANGED <<state, epoch, stopError, hooks, hooksCreated, hWorker, hStop, apiLock,
                   queueLock, queueVars, counterVars, producerVars, workerVars, prev,
                   hookLibrary, display, snapVars>>

\* CreateThread: the worker runs before StartSession stores state 2.
StartThread(c) ==
    /\ cpc[c] = "startThread"
    /\ \/ /\ hWorker' = "running" /\ wpc' = "wait"
          /\ Goto(c, "startRunning")
       \/ /\ Goto(c, "fail")
          /\ UNCHANGED <<hWorker, wpc>>
    /\ UNCHANGED <<state, collect, epoch, stopError, hooks, hooksCreated, hStop, apiLock,
                   queueLock, queueVars, counterVars, producerVars, wEvent, final, tries,
                   prev, hookLibrary, display, snapVars>>

StartRunning(c) ==
    /\ cpc[c] = "startRunning"
    /\ state' = 2
    /\ apiLock' = NoOne
    /\ Return(c, "STARTED")
    /\ UNCHANGED <<collect, epoch, stopError, hooks, hooksCreated, hWorker, hStop, queueLock,
                   queueVars, counterVars, producerVars, workerVars, prev, hookLibrary,
                   display, snapVars>>

\* Mutant of FailUncollect: the failure path leaves g_lCollect set.
FailStillCollecting(c) ==
    /\ cpc[c] = "fail"
    /\ Goto(c, "failUnhook")
    /\ UNCHANGED <<sessionVars, apiLock, queueLock, queueVars, counterVars, producerVars,
                   workerVars, prev, hookLibrary, display, snapVars>>

\* _FINAL: stop collecting, disable the hooks if the library was reached (the
\* result is ignored), mark the display stopped.
FailUncollect(c) ==
    /\ cpc[c] = "fail"
    /\ collect' = FALSE
    /\ Goto(c, "failUnhook")
    /\ UNCHANGED <<state, epoch, stopError, hooks, hooksCreated, hWorker, hStop, apiLock,
                   queueLock, queueVars, counterVars, producerVars, workerVars, prev,
                   hookLibrary, display, snapVars>>

FailUnhook(c) ==
    /\ cpc[c] = "failUnhook"
    /\ IF hookLibrary THEN hooks' \in BOOLEAN ELSE UNCHANGED hooks
    /\ display' = [display EXCEPT !.stopped = TRUE, !.error = "FAILED"]
    /\ Goto(c, "failPublish")
    /\ UNCHANGED <<state, collect, epoch, stopError, hooksCreated, hWorker, hStop, apiLock,
                   queueLock, queueVars, counterVars, producerVars, workerVars, prev,
                   hookLibrary, snapVars>>

\* A failure that touched the hooks is permanent, another one is not.
FailEnd(c) ==
    /\ cpc[c] = "failEnd"
    /\ state' = IF hookLibrary THEN 5 ELSE prev
    /\ apiLock' = NoOne
    /\ Return(c, "FAILED")
    /\ UNCHANGED <<collect, epoch, stopError, hooks, hooksCreated, hWorker, hStop, queueLock,
                   queueVars, counterVars, producerVars, workerVars, prev, hookLibrary,
                   display, snapVars>>

\* CollectorStop takes the API lock, StopSession finds no worker.
StopNotReady(c) ==
    /\ cpc[c] = "idle" /\ apiLock = NoOne
    /\ hWorker = "null"
    /\ Return(c, "NOT_READY")
    /\ UNCHANGED <<sessionVars, apiLock, queueLock, queueVars, counterVars, producerVars,
                   workerVars, prev, hookLibrary, display, snapVars>>

StopSignal(c) ==
    /\ cpc[c] = "idle" /\ apiLock = NoOne
    /\ hWorker # "null"
    /\ apiLock' = c
    /\ hStop' = "set"
    /\ Goto(c, "stopWait")
    /\ UNCHANGED <<state, collect, epoch, stopError, hooks, hooksCreated, hWorker, queueLock,
                   queueVars, counterVars, producerVars, workerVars, prev, hookLibrary,
                   display, snapVars>>

\* The worker's handle is signalled: its stop error is the result.
StopDone(c) ==
    /\ cpc[c] = "stopWait" /\ hWorker = "exited"
    /\ Return(c, IF stopError = "SUCCESS" THEN "STOPPED" ELSE stopError)
    /\ apiLock' = NoOne
    /\ UNCHANGED <<sessionVars, queueLock, queueVars, counterVars, producerVars, workerVars,
                   prev, hookLibrary, display, snapVars>>

\* Ten seconds pass first: the worker is left running with its stop event set.
StopTimeout(c) ==
    /\ cpc[c] = "stopWait" /\ hWorker = "running"
    /\ Return(c, "TIMEOUT")
    /\ apiLock' = NoOne
    /\ UNCHANGED <<sessionVars, queueLock, queueVars, counterVars, producerVars, workerVars,
                   prev, hookLibrary, display, snapVars>>

CallerCalls(c) == ApiBusy(c) \/ StartEnter(c) \/ StopNotReady(c) \/ StopSignal(c)

CallerStep(c) ==
    \/ StartRefused(c) \/ StartClaim(c) \/ StartLock(c) \/ StartReset(c)
    \/ StartInvalid(c) \/ StartPrepare(c) \/ CallerPublish(c) \/ CallerBusy(c)
    \/ CallerPublished(c) \/ StartNoLibrary(c) \/ StartHookFails(c) \/ StartHook(c)
    \/ StartCollect(c) \/ StartThread(c) \/ StartRunning(c)
    \/ FailUncollect(c) \/ FailUnhook(c) \/ FailEnd(c) \/ StopDone(c) \/ StopTimeout(c)

-----------------------------------------------------------------------------
(* Readers: CollectorGetSnapshot copies the snapshot under the shared lock; *)
(* when the try fails it returns FALSE and changes nothing here.           *)

SnapshotBegin(r) ==
    /\ r \notin snapReaders /\ snapWriter = NoOne
    /\ snapReaders' = snapReaders \cup {r}
    /\ UNCHANGED <<sessionVars, apiLock, queueLock, queueVars, counterVars, producerVars,
                   workerVars, callerVars, display, snapWriter, snapshot>>

SnapshotEnd(r) ==
    /\ r \in snapReaders
    /\ snapReaders' = snapReaders \ {r}
    /\ UNCHANGED <<sessionVars, apiLock, queueLock, queueVars, counterVars, producerVars,
                   workerVars, callerVars, display, snapWriter, snapshot>>

Next ==
    \/ \E p \in Producers : BoardEnter(p) \/ ProducerStep(p)
    \/ WorkerStep
    \/ \E c \in Callers : CallerCalls(c) \/ CallerStep(c)
    \/ \E r \in Readers : SnapshotBegin(r) \/ SnapshotEnd(r)

Spec == Init /\ [][Next]_vars

-----------------------------------------------------------------------------
(* Fairness: every thread that is inside the collector keeps running; game *)
(* threads need not enter the hook and callers need not call. A blocking    *)
(* AcquireSRWLockExclusive is strongly fair: the lock is released between   *)
(* any two short critical sections and its waiters are queued.              *)

Fairness ==
    /\ \A p \in Producers : WF_vars(ProducerStep(p))
    /\ WF_vars(WorkerStep) /\ SF_vars(WorkerLock)
    /\ \A c \in Callers : WF_vars(CallerStep(c)) /\ SF_vars(StartLock(c))
    /\ \A r \in Readers : WF_vars(SnapshotEnd(r))

LiveSpec == Spec /\ Fairness

-----------------------------------------------------------------------------
(* Properties.                                                             *)

ProducerSteps == {"game", "take", "number", "check", "try", "recheck", "store"}
WorkerSteps   == {"none", "wait", "fence", "fenced", "unhook", "pop", "popped", "show",
                  "stats", "finish", "exit"} \cup PublishingSteps
CallerSteps   == {"idle", "startCheck", "startLock", "startReset", "startPrepare",
                  "startPublish", "startHook", "startCollect", "startThread",
                  "startRunning", "fail", "failUnhook", "failPublish", "failEnd", "stopWait"}
Results       == {"none", "BUSY", "ALREADY_EXISTS", "STARTED", "FAILED", "NOT_READY",
                  "STOPPED", "CAN_NOT_COMPLETE", "TIMEOUT"}
Display       == [history : Seq(Event), session : BOOLEAN, stopped : BOOLEAN,
                  error : {"SUCCESS", "CAN_NOT_COMPLETE", "FAILED"}]

SessionType ==
    /\ state \in {0, 1, 2, 4, 5} /\ collect \in BOOLEAN /\ epoch \in Nat
    /\ stopError \in {"SUCCESS", "CAN_NOT_COMPLETE"}
    /\ hooks \in BOOLEAN /\ hooksCreated \in BOOLEAN
    /\ hWorker \in {"null", "running", "exited"} /\ hStop \in {"null", "reset", "set"}
    /\ prev \in {0, 4} /\ hookLibrary \in BOOLEAN

LockType ==
    /\ apiLock \in Callers \cup {NoOne}
    /\ queueLock \in Producers \cup Callers \cup {Worker, NoOne}
    /\ snapWriter \in Callers \cup {Worker, NoOne} /\ snapReaders \subseteq Readers

QueueType ==
    /\ slots \in [0..QueueCap-1 -> Event]
    /\ read \in 0..QueueCap-1 /\ count \in 0..QueueCap
    /\ sequence \in Nat /\ dropped \in Nat /\ invalid \in Nat

EventType == board \in [Producers -> Event] /\ wEvent \in Event

StepType ==
    /\ ppc \in [Producers -> ProducerSteps]
    /\ wpc \in WorkerSteps /\ final \in BOOLEAN /\ tries \in Nat
    /\ cpc \in [Callers -> CallerSteps] /\ result \in [Callers -> Results]

DisplayType == display \in Display /\ snapshot \in Display

\* Every variable of Collector.c keeps its type and the ring's indices stay in
\* the array.
TypeOK == SessionType /\ LockType /\ QueueType /\ EventType /\ StepType /\ DisplayType

\* g_aQueue never holds a board of an earlier session, although a game thread
\* may carry one across a stop and a start (PushEvent, Collector.c:195).
QueueOfEpoch == \A i \in 0..count-1 : Queued(i).epoch = epoch

\* While a worker runs it shows boards of its own session only.
HistoryOfEpoch ==
    wpc # "none" => \A i \in DOMAIN display.history : display.history[i].epoch = epoch

\* Sessions are never mixed, in the queue or on the display.
NeverMixesSessions == QueueOfEpoch /\ HistoryOfEpoch

\* What a reader copies is newest first and never mixes two sessions, whatever
\* order the game threads pushed in and whichever publications were skipped.
NewestFirst(history) ==
    \A i, j \in DOMAIN history :
        i < j => history[i].seq > history[j].seq /\ history[i].epoch = history[j].epoch

SnapshotNewestFirst == NewestFirst(snapshot.history)

\* A signalled worker handle means the session is over for good: nothing is
\* collected, nothing is queued, no game thread is about to store, the display
\* says stopped, and the state and the hooks agree with the stop error.
ExitedIsQuiet ==
    hWorker = "exited" =>
        /\ wpc = "none" /\ ~collect /\ count = 0 /\ display.stopped
        /\ \A p \in Producers : ppc[p] # "store"
        /\ state = IF stopError = "SUCCESS" THEN 4 ELSE 5
        /\ stopError = "SUCCESS" => ~hooks

\* g_Display has one writer: StartSession writes it only while no worker runs.
DisplayWriters == {"startPrepare", "startPublish", "fail", "failUnhook", "failPublish"}

SingleDisplayWriter ==
    \A c \in Callers : cpc[c] \in DisplayWriters => wpc = "none" /\ apiLock = c

\* State 2 with an unsignalled stop event is a session at work: worker, hooks
\* and collection are all on.
RunningIsLive ==
    state = 2 /\ hStop # "set" => wpc # "none" /\ hWorker = "running" /\ collect /\ hooks

\* The inductive invariant behind the properties above: who owns each lock at
\* which step, and what the worker and the starter know at each of theirs.
LockOwners ==
    /\ \A c \in Callers : cpc[c] # "idle" <=> apiLock = c
    /\ \A p \in Producers : ppc[p] \in {"recheck", "store"} <=> queueLock = p
    /\ \A c \in Callers : cpc[c] = "startReset" <=> queueLock = c
    /\ wpc \in {"fenced", "popped"} <=> queueLock = Worker

DrainSteps  == {"pop", "popped", "show", "pubBoard", "stats"}
Looping     == wpc \in {"wait", "pubLoop", "pubStats"} \/ (wpc \in DrainSteps /\ ~final)
Unhooked    == wpc \in {"pubFinal", "pubRetry", "finish", "exit"} \/ (wpc \in DrainSteps /\ final)
Drained     == wpc \in {"pubFinal", "pubRetry", "finish", "exit"} \/ (wpc = "stats" /\ final)

WorkerKnows ==
    /\ wpc # "none" <=> hWorker = "running"
    /\ wpc # "none" => hStop # "null" /\ (collect <=> Looping) /\ (Looping \/ hStop = "set")
    /\ Looping => hooks
    /\ wpc = "pubLoop" => ~final
    /\ Unhooked => (stopError = "SUCCESS" => ~hooks)
    /\ Drained => count = 0 /\ \A p \in Producers : ppc[p] # "store"
    /\ wpc \in {"pubFinal", "pubRetry", "finish", "exit"} => display.stopped
    /\ wpc = "exit" => state = IF stopError = "SUCCESS" THEN 4 ELSE 5
    /\ wpc = "show" => wEvent.epoch = epoch

StarterSteps == CallerSteps \ {"idle", "startCheck", "startRunning", "stopWait"}
CleanSteps   == {"startPublish", "startHook", "startCollect", "startThread"}

CallerKnows ==
    \A c \in Callers :
        /\ cpc[c] \in StarterSteps => hWorker = "null"
        /\ cpc[c] \in CleanSteps => display.history = << >>
        /\ cpc[c] \in CleanSteps => hStop = "reset"
        /\ cpc[c] \in {"startCollect", "startThread"} => hooks
        /\ cpc[c] = "startThread" => collect
        /\ cpc[c] = "startRunning" => Looping /\ hStop = "reset"
        /\ cpc[c] = "stopWait" => hWorker # "null"

StateKnows ==
    /\ state = 2 => hWorker = "running" /\ wpc # "exit"
    /\ \A p \in Producers : ppc[p] = "store" => board[p].epoch = epoch

SwitchKnows ==
    /\ collect /\ hWorker = "null" =>
           apiLock \in Callers /\ cpc[apiLock] \in {"startThread", "fail"}
    /\ \A c \in Callers : cpc[c] \in {"startCheck", "startLock", "startReset"} =>
           epoch < MaxSessions

SessionInv ==
    /\ LockOwners /\ WorkerKnows /\ CallerKnows /\ StateKnows /\ SwitchKnows
    /\ QueueOfEpoch /\ HistoryOfEpoch /\ ExitedIsQuiet

\* CollectorStop reports success only once the queue is drained, collection and
\* hooks are off and g_lState is 4 (Collector.c:692-696 "stop collection and
\* wait for hook disable and queue drainage").
StopMeansStopped ==
    [][\A c \in Callers :
          result'[c] = "STOPPED" /\ cpc[c] = "stopWait" /\ cpc'[c] = "idle" =>
              state = 4 /\ ~collect /\ ~hooks /\ count = 0 /\ wpc = "none"]_vars

\* The ring and the display implement the feed.
FeedQueue == [i \in 1..count |-> Queued(i - 1)]
FeedOpen  == collect \/ \E p \in Producers : ppc[p] = "store"
FeedTaken == IF wpc = "show" THEN wEvent ELSE NoEvent

Feed == INSTANCE BoardFeed WITH
    Boards <- Event, Capacity <- QueueCap, Shown <- HistoryCap, Nothing <- NoEvent,
    session <- epoch, open <- FeedOpen, queue <- FeedQueue, taken <- FeedTaken,
    display <- display.history

\* The collector implements BoardFeed: FIFO, bounded, nothing overwritten, and
\* nothing carried from one session into the next.
ImplementsFeed == Feed!Spec

ArmedSteps == {"startPrepare", "startPublish", "startHook", "startCollect"}

Armed == apiLock \in Callers /\ cpc[apiLock] \in ArmedSteps

Switch == INSTANCE SessionSwitch WITH armed <- Armed

\* What the hooks rely on: a session is numbered while collection is off and is
\* collected at most once, so an epoch names one uninterrupted collection.
ImplementsSwitch == Switch!Spec

ControlWorker == IF hWorker = "running"
                 THEN IF hStop = "set" THEN "stopping" ELSE "on"
                 ELSE IF hWorker = "null" THEN "none" ELSE "exited"

Control == INSTANCE CollectorControl WITH
    Threads <- Callers, owner <- apiLock, worker <- ControlWorker, failed <- (state = 5)

\* CollectorStart and CollectorStop keep the promises Session is built on: one
\* worker at a time, none before the last one ended, failure is final, and a
\* worker ends only when it was told to.
ImplementsControl == Control!Spec

\* A set stop event ends the worker, whatever the game threads do.
StopCompletes == hStop = "set" ~> hWorker # "running"

\* Every call of CollectorStart and CollectorStop returns.
CallsReturn == \A c \in Callers : cpc[c] # "idle" ~> cpc[c] = "idle"

\* While its worker runs, a queued board leaves the queue.
QueuedSeq(n) == \E i \in 0..count-1 : Queued(i).seq = n
QueuedIsTaken ==
    \A n \in 1..MaxBoards + 1 : QueuedSeq(n) /\ hWorker = "running" ~> ~QueuedSeq(n)

=============================================================================
