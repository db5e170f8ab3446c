---------------------------- MODULE Correlation ----------------------------
(***************************************************************************)
(* Common/Core.c: the fixed array of candidates a game thread keeps between *)
(* solving a movement result and applying it.                              *)
(*                                                                         *)
(* A pending array is a function from Slots to events, NoEvent where bValid *)
(* is FALSE: what such a slot still contains can only have it cleared again. *)
(* An event carries what the three functions compare: its result object,    *)
(* tick, player and incoming vector.                                       *)
(***************************************************************************)
EXTENDS Integers

CONSTANTS
    PendingCap,     \* SERVER_BOARD_PENDING_CAPACITY (16)
    NoEvent         \* no BOARD_EVENT

ASSUME PendingCapAssumption == PendingCap \in Nat \ {0}

Slots == 1..PendingCap

NoPending == [i \in Slots |-> NoEvent]

Free(pending) == {i \in Slots : pending[i] = NoEvent}
Valid(pending) == Slots \ Free(pending)

\* The slots that hold a candidate of result r.
Holding(pending, r) == {i \in Valid(pending) : pending[i].result = r}

\* The slot a scan from the start of the array finds first.
First(S) == CHOOSE i \in S : \A j \in S : i <= j

Invalidate(pending, S) == [i \in Slots |-> IF i \in S THEN NoEvent ELSE pending[i]]

ForgetResult(pending, r) == Invalidate(pending, Holding(pending, r))

\* StoreCandidate's second loop: samples of other ticks expire.
ExpireTicks(pending, tick) ==
    Invalidate(pending, {i \in Valid(pending) : pending[i].tick # tick})

\* Mutant: the samples of other ticks stay.
ClearedKeepsTicks(pending, e) == ForgetResult(pending, e.result)

\* StoreCandidate: what it leaves in the array, and whether it returns TRUE.
Cleared(pending, e) == ExpireTicks(ForgetResult(pending, e.result), e.tick)

StoreCandidate(pending, e) ==
    LET cleared == Cleared(pending, e)
    IN  IF Free(cleared) = {} THEN cleared ELSE [cleared EXCEPT ![First(Free(cleared))] = e]

Stores(pending, e) == Free(Cleared(pending, e)) # {}

\* TakeCandidate: the first valid slot of result r is consumed, and its event
\* returned when player, tick and incoming vector agree as well.
TakeSlot(pending, r) == First(Holding(pending, r))

\* Mutant: the candidate is copied out and not consumed.
TakeCandidateKeeps(pending, r) == pending

TakeCandidate(pending, r) ==
    IF Holding(pending, r) = {}
    THEN pending
    ELSE Invalidate(pending, {TakeSlot(pending, r)})

Matches(pending, r, player, tick, incoming) ==
    /\ Holding(pending, r) # {}
    /\ LET e == pending[TakeSlot(pending, r)]
       IN  e.player = player /\ e.tick = tick /\ e.incoming = incoming

-----------------------------------------------------------------------------
\* At most one candidate per result, and only candidates of one tick: "consume
\* exactly one matching applied result" (Core.h:105) rests on it.
OnePerResult(pending) ==
    \A i, j \in Valid(pending) : pending[i].result = pending[j].result => i = j

OneTick(pending) == \A i, j \in Valid(pending) : pending[i].tick = pending[j].tick

=============================================================================
