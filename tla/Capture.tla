------------------------------ MODULE Capture ------------------------------
(***************************************************************************)
(* BoardStats/Collector.c: the four hooks CaptureSolve, CaptureClip,        *)
(* CaptureApply and CaptureBoard on the game's threads.                    *)
(*                                                                         *)
(* The game calls them nested in any order; a thread's call stack holds one *)
(* frame per hook, with the SOLVE_CONTEXT or APPLY_CONTEXT it owns. The     *)
(* candidates live in thread-local storage and never take a lock; what the  *)
(* threads share is g_lCollect and g_lEpoch, which SessionSwitch changes at *)
(* any moment. A step reads one of the two words, except where a comment    *)
(* says otherwise. Pushing the accepted event is Collector's part.          *)
(***************************************************************************)
EXTENDS Correlation, Sequences

CONSTANTS
    Threads,            \* game threads
    Results,            \* movement result objects
    Players, Vectors,   \* player objects, incoming velocities
    MaxDepth,           \* bound: nested hook calls of a thread
    MaxSolves,          \* bound: solver calls in a behaviour
    MaxTick,            \* bound: simulation ticks
    MaxSessions         \* bound: sessions

ASSUME BoundsAssumption == {MaxDepth, MaxSolves, MaxTick, MaxSessions} \subseteq Nat

VARIABLES
    collect, epoch, armed,  \* see SessionSwitch
    tick,           \* the server's tick, read by ReadTick
    pending,        \* g_aPending, per thread
    threadEpoch,    \* g_lThreadEpoch, per thread
    stack,          \* the hook frames of each thread, innermost last
    solves,         \* history: solver calls so far, which number the candidates
    latest,         \* history: per thread and result, the candidate that stands
                    \* for the solve of it that started last, 0 if none
    uses            \* history: how often each candidate was accepted

switchVars == <<collect, epoch, armed>>
threadVars == <<pending, threadEpoch, stack>>
historyVars == <<solves, latest, uses>>
vars == <<switchVars, tick, threadVars, historyVars>>

\* A BOARD_EVENT: what Core.c compares, the session it was measured in and the
\* solve that measured it (both known to the model only).
Event == [result : Results, player : Players, tick : Nat, incoming : Vectors,
          epoch : Nat, id : Nat]

\* A hook frame. hooked: the hook found collection on and registered itself as
\* g_lpSolveContext or g_lpApplyContext. event: what a solve captured, or what
\* TakeCandidate returned to CaptureBoard.
NewFrame(hook, step, result, id) ==
    [hook |-> hook, step |-> step, result |-> result, id |-> id, hooked |-> FALSE,
     epoch |-> 0, event |-> NoEvent]

Switch == INSTANCE SessionSwitch

Init ==
    /\ Switch!Init
    /\ tick = 1
    /\ pending = [t \in Threads |-> NoPending]
    /\ threadEpoch = [t \in Threads |-> 0]
    /\ stack = [t \in Threads |-> << >>]
    /\ solves = 0 /\ uses = [n \in 1..MaxSolves |-> 0]
    /\ latest = [t \in Threads |-> [r \in Results |-> 0]]

-----------------------------------------------------------------------------
(* The stack of a thread.                                                  *)

Top(t) == stack[t][Len(stack[t])]

At(t, hook, step) == stack[t] # << >> /\ Top(t).hook = hook /\ Top(t).step = step

\* The thread runs the game's own code, at the top or inside an original.
InGame(t) == stack[t] # << >> => Top(t).step = "original"

Call(t, frame) ==
    /\ InGame(t) /\ Len(stack[t]) < MaxDepth
    /\ stack' = [stack EXCEPT ![t] = Append(@, frame)]

SetTop(t, frame) == stack' = [stack EXCEPT ![t][Len(stack[t])] = frame]

Pop(t) == stack' = [stack EXCEPT ![t] = SubSeq(@, 1, Len(@) - 1)]

\* g_lpSolveContext and g_lpApplyContext: the innermost registered frames; a
\* hook links its context to the enclosing one and restores it on return.
Contexts(t, hook) == {i \in DOMAIN stack[t] : stack[t][i].hook = hook /\ stack[t][i].hooked}
Innermost(t, hook) == CHOOSE i \in Contexts(t, hook) : \A j \in Contexts(t, hook) : j <= i

\* RefreshEpoch: a thread that sees a new epoch forgets all its candidates.
Refreshed(t) == IF threadEpoch[t] # epoch THEN NoPending ELSE pending[t]

-----------------------------------------------------------------------------
(* CaptureSolve.                                                           *)

\* The game calls the solver. IsCollecting: without collection the hook only
\* passes the call through.
SolveEnter(t, r) ==
    /\ solves < MaxSolves
    /\ Call(t, NewFrame("solve", IF collect THEN "refresh" ELSE "original", r, solves + 1))
    /\ solves' = solves + 1
    /\ latest' = [latest EXCEPT ![t][r] = 0]
    /\ UNCHANGED <<switchVars, tick, pending, threadEpoch, uses>>

\* Mutant: the older candidate survives the new solve of its result.
SolveRefreshKeeps(t) ==
    /\ At(t, "solve", "refresh")
    /\ threadEpoch' = [threadEpoch EXCEPT ![t] = epoch]
    /\ pending' = [pending EXCEPT ![t] = Refreshed(t)]
    /\ SetTop(t, [Top(t) EXCEPT !.step = "original", !.hooked = TRUE, !.epoch = epoch])
    /\ UNCHANGED <<switchVars, tick, historyVars>>

\* RefreshEpoch, ForgetResult, and the context becomes g_lpSolveContext.
SolveRefresh(t) ==
    /\ At(t, "solve", "refresh")
    /\ threadEpoch' = [threadEpoch EXCEPT ![t] = epoch]
    /\ pending' = [pending EXCEPT ![t] = ForgetResult(Refreshed(t), Top(t).result)]
    /\ SetTop(t, [Top(t) EXCEPT !.step = "original", !.hooked = TRUE, !.epoch = epoch])
    /\ UNCHANGED <<switchVars, tick, historyVars>>

\* Mutant: a captured sample is stored whatever happened to its session.
SolveReturnAnyEpoch(t) ==
    /\ At(t, "solve", "original")
    /\ IF Top(t).event # NoEvent
       THEN SetTop(t, [Top(t) EXCEPT !.step = "store", !.hooked = FALSE])
       ELSE Pop(t)
    /\ UNCHANGED <<switchVars, tick, pending, threadEpoch, historyVars>>

\* The original returns: bCaptured and IsCurrentEpoch.
SolveReturn(t) ==
    /\ At(t, "solve", "original")
    /\ IF Top(t).event # NoEvent /\ Top(t).epoch = epoch
       THEN SetTop(t, [Top(t) EXCEPT !.step = "store", !.hooked = FALSE])
       ELSE Pop(t)
    /\ UNCHANGED <<switchVars, tick, pending, threadEpoch, historyVars>>

\* IsCollecting, then StoreCandidate; a full array drops the candidate.
SolveStore(t) ==
    /\ At(t, "solve", "store") /\ collect
    /\ pending' = [pending EXCEPT ![t] = StoreCandidate(@, Top(t).event)]
    /\ latest' = [latest EXCEPT ![t][Top(t).result] =
                     IF Stores(pending[t], Top(t).event) THEN Top(t).id ELSE 0]
    /\ Pop(t)
    /\ UNCHANGED <<switchVars, tick, threadEpoch, solves, uses>>

\* Collection went off, or reading the final velocity faulted.
SolveLose(t) ==
    /\ At(t, "solve", "store")
    /\ Pop(t)
    /\ UNCHANGED <<switchVars, tick, pending, threadEpoch, historyVars>>

-----------------------------------------------------------------------------
(* CaptureClip: called inside the original solver. Its two reads are one    *)
(* step: the epoch only grows, so when the second read finds the context's  *)
(* epoch it was current at the first.                                      *)

\* What CaptureClip tests before it looks at the collision itself.
MayCapture(t) ==
    /\ collect
    /\ Contexts(t, "solve") # {}
    /\ LET f == stack[t][Innermost(t, "solve")] IN f.epoch = epoch /\ f.event = NoEvent

Clip(t, player, incoming) ==
    /\ InGame(t)
    /\ MayCapture(t)
    /\ LET i == Innermost(t, "solve")
           e == [result |-> stack[t][i].result, player |-> player, tick |-> tick,
                 incoming |-> incoming, epoch |-> epoch, id |-> stack[t][i].id]
       IN  stack' = [stack EXCEPT ![t][i].event = e]
    /\ UNCHANGED <<switchVars, tick, pending, threadEpoch, historyVars>>

-----------------------------------------------------------------------------
(* CaptureApply.                                                           *)

ApplyEnter(t, r) ==
    /\ Call(t, NewFrame("apply", IF collect THEN "refresh" ELSE "original", r, 0))
    /\ UNCHANGED <<switchVars, tick, pending, threadEpoch, historyVars>>

ApplyRefresh(t) ==
    /\ At(t, "apply", "refresh")
    /\ threadEpoch' = [threadEpoch EXCEPT ![t] = epoch]
    /\ pending' = [pending EXCEPT ![t] = Refreshed(t)]
    /\ SetTop(t, [Top(t) EXCEPT !.step = "original", !.hooked = TRUE, !.epoch = epoch])
    /\ UNCHANGED <<switchVars, tick, historyVars>>

\* The original returns: in the same epoch the applied result is forgotten.
ApplyReturn(t) ==
    /\ At(t, "apply", "original")
    /\ LET ends == Top(t).hooked /\ Top(t).epoch = epoch
       IN  /\ pending' = IF ends
                         THEN [pending EXCEPT ![t] = ForgetResult(@, Top(t).result)]
                         ELSE pending
           /\ latest' = IF ends THEN [latest EXCEPT ![t][Top(t).result] = 0] ELSE latest
    /\ Pop(t)
    /\ UNCHANGED <<switchVars, tick, threadEpoch, solves, uses>>

-----------------------------------------------------------------------------
(* CaptureBoard.                                                           *)

\* RefreshEpoch comes first here, collecting or not.
BoardEnter(t) ==
    /\ Call(t, [NewFrame("board", "check", 0, 0) EXCEPT !.epoch = epoch])
    /\ threadEpoch' = [threadEpoch EXCEPT ![t] = epoch]
    /\ pending' = [pending EXCEPT ![t] = Refreshed(t)]
    /\ UNCHANGED <<switchVars, tick, historyVars>>

\* IsCollecting.
BoardCheck(t) ==
    /\ At(t, "board", "check")
    /\ SetTop(t, [Top(t) EXCEPT !.step = IF collect THEN "take" ELSE "original"])
    /\ UNCHANGED <<switchVars, tick, pending, threadEpoch, historyVars>>

\* The incoming vector lies in the result being applied and was registered in
\* the epoch CaptureBoard just read.
InApply(t) ==
    /\ Contexts(t, "apply") # {}
    /\ stack[t][Innermost(t, "apply")].epoch = Top(t).epoch

\* The tick is read and the candidate is consumed, matching or not; on a match
\* it is the event of this call.
BoardTake(t, player, incoming) ==
    /\ At(t, "board", "take")
    /\ InApply(t)
    /\ LET r == stack[t][Innermost(t, "apply")].result
           e == pending[t][TakeSlot(pending[t], r)]
       IN  /\ pending' = [pending EXCEPT ![t] = TakeCandidate(@, r)]
           /\ IF Matches(pending[t], r, player, tick, incoming)
              THEN /\ SetTop(t, [Top(t) EXCEPT !.step = "original", !.event = e])
                   /\ uses' = [uses EXCEPT ![e.id] = @ + 1]
              ELSE /\ SetTop(t, [Top(t) EXCEPT !.step = "original"])
                   /\ UNCHANGED uses
    /\ UNCHANGED <<switchVars, tick, threadEpoch, solves, latest>>

\* No apply in this epoch, another vector, or no tick to read.
BoardPass(t) ==
    /\ At(t, "board", "take")
    /\ SetTop(t, [Top(t) EXCEPT !.step = "original"])
    /\ UNCHANGED <<switchVars, tick, pending, threadEpoch, historyVars>>

\* The original setter returns and the event goes to PushEvent (Collector).
BoardReturn(t) ==
    /\ At(t, "board", "original")
    /\ Pop(t)
    /\ UNCHANGED <<switchVars, tick, pending, threadEpoch, historyVars>>

-----------------------------------------------------------------------------

Tick ==
    /\ tick < MaxTick
    /\ tick' = tick + 1
    /\ UNCHANGED <<switchVars, threadVars, historyVars>>

Session == Switch!Next /\ UNCHANGED <<tick, threadVars, historyVars>>

HookStep(t) ==
    \/ SolveRefresh(t) \/ SolveReturn(t) \/ SolveStore(t) \/ SolveLose(t)
    \/ \E player \in Players, incoming \in Vectors : Clip(t, player, incoming)
    \/ ApplyRefresh(t) \/ ApplyReturn(t)
    \/ BoardCheck(t) \/ BoardPass(t) \/ BoardReturn(t)
    \/ \E player \in Players, incoming \in Vectors : BoardTake(t, player, incoming)

GameCall(t) ==
    \/ \E r \in Results : SolveEnter(t, r) \/ ApplyEnter(t, r)
    \/ BoardEnter(t)

Next == Session \/ Tick \/ \E t \in Threads : GameCall(t) \/ HookStep(t)

Spec == Init /\ [][Next]_vars

-----------------------------------------------------------------------------
(* Properties.                                                             *)

Frame == [hook : {"solve", "apply", "board"},
          step : {"refresh", "original", "store", "check", "take"},
          result : Results \cup {0}, id : Nat, hooked : BOOLEAN, epoch : Nat,
          event : Event \cup {NoEvent}]

\* The thread-local variables and the frames keep their types.
TypeOK ==
    /\ collect \in BOOLEAN /\ epoch \in Nat /\ armed \in BOOLEAN /\ tick \in Nat
    /\ pending \in [Threads -> [Slots -> Event \cup {NoEvent}]]
    /\ threadEpoch \in [Threads -> Nat]
    /\ stack \in [Threads -> Seq(Frame)]
    /\ solves \in Nat
    /\ latest \in [Threads -> [Results -> Nat]]
    /\ uses \in [1..MaxSolves -> Nat]

\* The event CaptureBoard passes to PushEvent was measured in the session it is
\* pushed with, so PushEvent's epoch test judges the measurement.
AcceptedOfSession ==
    \A t \in Threads : \A i \in DOMAIN stack[t] :
        LET f == stack[t][i]
        IN  f.hook = "board" /\ f.event # NoEvent => f.event.epoch = f.epoch

\* "Consume exactly one matching applied result" (Core.h:105): a thread holds
\* at most one candidate per result, none of two ticks, and none of another
\* session than its array belongs to, although sessions start and end between any
\* two steps of a hook.
PendingIsClean ==
    \A t \in Threads :
        /\ OnePerResult(pending[t]) /\ OneTick(pending[t])
        /\ \A i \in Valid(pending[t]) : pending[t][i].epoch = threadEpoch[t]

\* No collision is reported twice, however often its result is applied.
UsedOnce == \A n \in 1..MaxSolves : uses[n] <= 1

\* An event accepted for the current session was measured by the last solve of
\* its result: a result object solved again, or applied, loses the older
\* candidate even where hooks nest and candidates expire. When a restart falls
\* between RefreshEpoch and TakeCandidate an older one can be accepted, but then
\* the call carries the old epoch, which PushEvent turns away.
TakesLatest ==
    [][\A n \in 1..MaxSolves : uses'[n] # uses[n] =>
          \E t \in Threads :
              /\ At(t, "board", "take")
              /\ Top(t).epoch = epoch => \E r \in Results : latest[t][r] = n]_vars

=============================================================================
