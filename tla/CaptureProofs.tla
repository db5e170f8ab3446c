--------------------------- MODULE CaptureProofs ---------------------------
(***************************************************************************)
(* Proofs about Correlation and Capture, for any number of threads, objects *)
(* and slots and any depth of nesting: the pending array stays clean, no    *)
(* candidate is used twice, and an accepted one is of its session and the   *)
(* last of its result.                                                     *)
(***************************************************************************)
EXTENDS Capture, TLAPS, SequenceTheorems, WellFoundedInduction

Depth(t) == Len(stack[t])

\* What the hook frame f in place i says of its event and of the thread it is on,
\* which has depth d and candidates of session own, after n solver calls.
FrameKnows(f, i, d, own, n) ==
    /\ f.hook # "board" => f.result \in Results
    /\ f.hook = "solve" => f.id \in 1..n
    /\ f.hook = "solve" /\ f.event # NoEvent =>
          f.event.epoch = f.epoch /\ f.event.result = f.result /\ f.event.id = f.id
    /\ f.hook = "board" /\ f.event # NoEvent => f.event.epoch = f.epoch
    /\ f.step = "refresh" => f.event = NoEvent
    /\ f.step # "original" => i = d
    /\ f.epoch <= own
    /\ f.step = "store" => f.hook = "solve" /\ f.event # NoEvent /\ f.epoch = own
    /\ f.step \in {"check", "take"} => f.epoch = own

FramesKnow ==
    \A t \in Threads : \A i \in 1..Depth(t) :
        FrameKnows(stack[t][i], i, Depth(t), threadEpoch[t], solves)

\* A thread is never ahead of the session, and a session that is numbered and not
\* yet collected has no candidates.
EpochKnows ==
    /\ \A t \in Threads : threadEpoch[t] <= epoch
    /\ armed => ~collect /\ \A t \in Threads : \A i \in Valid(pending[t]) :
                                pending[t][i].epoch # epoch

\* A solve is in one place at most, its frame or a slot, and there only until a
\* board has used it.
Solves(t, i) == i \in 1..Depth(t) /\ stack[t][i].hook = "solve"

UseOnce ==
    /\ solves \in 0..MaxSolves
    /\ \A t, u \in Threads : \A i, j \in Nat :
          Solves(t, i) /\ Solves(u, j) /\ stack[t][i].id = stack[u][j].id => t = u /\ i = j
    /\ \A t, u \in Threads : \A i \in Valid(pending[t]), j \in Valid(pending[u]) :
          pending[t][i].id = pending[u][j].id => t = u /\ i = j
    /\ \A t, u \in Threads : \A i \in Valid(pending[t]), j \in Nat :
          Solves(u, j) => pending[t][i].id # stack[u][j].id
    /\ \A t \in Threads : \A i \in Valid(pending[t]) :
          pending[t][i].id \in 1..solves /\ uses[pending[t][i].id] = 0
    /\ \A t \in Threads : \A i \in Nat : Solves(t, i) => uses[stack[t][i].id] = 0
    /\ \A n \in 1..MaxSolves : uses[n] <= 1 /\ (n > solves => uses[n] = 0)

\* A candidate of the current session is the latest of its result, unless the hook
\* that forgets it is about to, or collection is off and no board is being taken.
LatestKnows ==
    \A t \in Threads : \A i \in Valid(pending[t]) :
        LET e == pending[t][i]
        IN  \/ e.epoch # epoch
            \/ latest[t][e.result] = e.id
            \/ At(t, "solve", "refresh") /\ Top(t).result = e.result
            \/ ~collect /\ ~armed /\ ~At(t, "board", "take")

CaptureInv == FramesKnow /\ EpochKnows /\ PendingIsClean /\ UseOnce /\ LatestKnows

-----------------------------------------------------------------------------
(* The pending array.                                                      *)

Arrays == [Slots -> Event \cup {NoEvent}]

\* q is p with some candidates dropped.
Keeps(p, q) == q \in Arrays /\ \A i \in Valid(q) : i \in Valid(p) /\ q[i] = p[i]

\* A scan from the start of the array finds a slot.
LEMMA FirstFound == ASSUME NEW S \in SUBSET Slots, S # {} PROVE First(S) \in S
<1>1. S \subseteq Nat
  BY PendingCapAssumption DEF Slots
<1>2. PICK x \in S : \A y \in S : ~ (<<y, x>> \in OpToRel(<, Nat))
  BY <1>1, NatLessThanWellFounded, WFMin
<1>3. ASSUME NEW y \in S PROVE x <= y
  <2>1. ~ (y < x)
    BY <1>1, <1>2, Zenon DEF OpToRel
  <2> QED BY <1>1, <2>1
<1> QED BY <1>3 DEF First

\* Invalidating slots drops what they held and nothing else.
LEMMA InvalidateKeeps ==
    ASSUME NEW p \in Arrays, NEW S
    PROVE  /\ Keeps(p, Invalidate(p, S))
           /\ Valid(Invalidate(p, S)) = Valid(p) \ S
<1> USE DEF Keeps, Invalidate, Valid, Free, Arrays
<1>1. Invalidate(p, S) \in Arrays
  OBVIOUS
<1>2. \A i \in Slots : Invalidate(p, S)[i] = IF i \in S THEN NoEvent ELSE p[i]
  OBVIOUS
<1> HIDE DEF Invalidate
<1> QED BY <1>1, <1>2

\* ForgetResult drops the candidates of one result.
LEMMA ForgetKeeps ==
    ASSUME NEW p \in Arrays, NEW r
    PROVE  /\ Keeps(p, ForgetResult(p, r))
           /\ \A i \in Valid(ForgetResult(p, r)) : p[i].result # r
BY InvalidateKeeps DEF ForgetResult, Holding

\* TakeCandidate drops the candidate it returns.
LEMMA TakeKeeps ==
    ASSUME NEW p \in Arrays, NEW r
    PROVE  /\ Keeps(p, TakeCandidate(p, r))
           /\ Holding(p, r) # {} => /\ TakeSlot(p, r) \in Holding(p, r)
                                    /\ TakeSlot(p, r) \notin Valid(TakeCandidate(p, r))
<1>1. CASE Holding(p, r) = {}
  BY <1>1 DEF TakeCandidate, Keeps
<1>2. CASE Holding(p, r) # {}
  <2>1. Holding(p, r) \in SUBSET Slots
    BY DEF Holding, Valid
  <2>2. TakeSlot(p, r) \in Holding(p, r)
    BY <1>2, <2>1, FirstFound DEF TakeSlot
  <2> QED BY <1>2, <2>2, InvalidateKeeps DEF TakeCandidate
<1> QED BY <1>1, <1>2

\* Cleared leaves no candidate of the event's result and only those of its tick.
LEMMA ClearedKeeps ==
    ASSUME NEW p \in Arrays, NEW e
    PROVE  /\ Keeps(p, Cleared(p, e))
           /\ \A i \in Valid(Cleared(p, e)) : p[i].result # e.result /\ p[i].tick = e.tick
<1> DEFINE q == ForgetResult(p, e.result)
<1>1. Keeps(p, q) /\ \A i \in Valid(q) : p[i].result # e.result
  BY ForgetKeeps
<1>2. q \in Arrays
  BY <1>1 DEF Keeps
<1> HIDE DEF q
<1>3. /\ Keeps(q, ExpireTicks(q, e.tick))
      /\ \A i \in Valid(ExpireTicks(q, e.tick)) : q[i].tick = e.tick
  BY <1>2, InvalidateKeeps DEF ExpireTicks
<1>4. Cleared(p, e) = ExpireTicks(q, e.tick)
  BY DEF Cleared, q
<1> QED BY <1>1, <1>3, <1>4 DEF Keeps

\* StoreCandidate drops candidates and, unless it reports the array full, adds
\* its event in one slot.
LEMMA StoreKeeps ==
    ASSUME NEW p \in Arrays, NEW e \in Event, e # NoEvent
    PROVE  LET q == StoreCandidate(p, e)
           IN  /\ q \in Arrays
               /\ ~Stores(p, e) => Keeps(p, q) /\ \A i \in Valid(q) : p[i].result # e.result
               /\ \E s \in Slots :
                     /\ Stores(p, e) => q[s] = e
                     /\ \A i \in Valid(q) :
                           \/ i = s /\ Stores(p, e)
                           \/ /\ i \in Valid(p) /\ q[i] = p[i]
                              /\ p[i].result # e.result /\ p[i].tick = e.tick
<1> DEFINE c == Cleared(p, e)
<1>1. Keeps(p, c) /\ \A i \in Valid(c) : p[i].result # e.result /\ p[i].tick = e.tick
  BY ClearedKeeps
<1>2. Slots # {}
  BY PendingCapAssumption DEF Slots
<1>3. CASE ~Stores(p, e)
  <2>1. StoreCandidate(p, e) = c
    BY <1>3 DEF StoreCandidate, Stores
  <2> QED BY <1>1, <1>2, <1>3, <2>1 DEF Keeps
<1>4. CASE Stores(p, e)
  <2> DEFINE s == First(Free(c))
  <2>1. s \in Free(c)
    BY <1>4, FirstFound DEF Stores, Free
  <2>2. StoreCandidate(p, e) = [c EXCEPT ![s] = e]
    BY <1>4 DEF StoreCandidate, Stores
  <2>3. s \in Slots /\ c \in Arrays
    BY <1>1, <2>1 DEF Free, Keeps
  <2> HIDE DEF s, c
  <2>4. StoreCandidate(p, e) \in Arrays /\ StoreCandidate(p, e)[s] = e
    BY <2>2, <2>3 DEF Arrays
  <2>5. \A i \in Slots \ {s} : StoreCandidate(p, e)[i] = c[i]
    BY <2>2, <2>3 DEF Arrays
  <2>6. \A i \in Valid(StoreCandidate(p, e)) :
           i = s \/ (i \in Valid(c) /\ StoreCandidate(p, e)[i] = c[i])
    BY <2>5 DEF Valid, Free
  <2> QED BY <1>1, <1>4, <2>3, <2>4, <2>6 DEF Keeps
<1> QED BY <1>3, <1>4

\* RefreshEpoch drops all candidates of an older session.
LEMMA RefreshKeeps ==
    ASSUME NEW t \in Threads, pending \in [Threads -> Arrays]
    PROVE  /\ Keeps(pending[t], Refreshed(t))
           /\ threadEpoch[t] # epoch => Valid(Refreshed(t)) = {}
           /\ threadEpoch[t] = epoch => Refreshed(t) = pending[t]
BY DEF Refreshed, Keeps, NoPending, Valid, Free, Arrays

-----------------------------------------------------------------------------
(* The stack of a thread. The effects below say what Call, SetTop, Clip's   *)
(* write to an enclosing frame and Pop do, frame by frame.                 *)

StackType == stack \in [Threads -> Seq(Frame)]

OtherStacks(t) == \A u \in Threads \ {t} : stack'[u] = stack[u]

Pushed(t, f) ==
    /\ StackType' /\ OtherStacks(t)
    /\ Depth(t)' = Depth(t) + 1 /\ stack'[t][Depth(t) + 1] = f
    /\ stack'[t] # << >> /\ Top(t)' = f
    /\ \A i \in 1..Depth(t) : stack'[t][i] = stack[t][i]

Written(t, n, f) ==
    /\ StackType' /\ OtherStacks(t)
    /\ n \in 1..Depth(t) /\ Depth(t)' = Depth(t) /\ stack'[t][n] = f
    /\ stack'[t] # << >> /\ Top(t)' = stack'[t][Depth(t)]
    /\ \A i \in 1..Depth(t) \ {n} : stack'[t][i] = stack[t][i]

Popped(t) ==
    /\ StackType' /\ OtherStacks(t)
    /\ Depth(t) \in Nat \ {0} /\ Depth(t)' = Depth(t) - 1
    /\ stack'[t] # << >> => Depth(t) - 1 # 0 /\ Top(t)' = stack[t][Depth(t) - 1]
    /\ \A i \in 1..Depth(t) - 1 : stack'[t][i] = stack[t][i]

\* What the type of the stacks says of one of them.
LEMMA FrameType ==
    ASSUME StackType, NEW t \in Threads
    PROVE  /\ Depth(t) \in Nat /\ DOMAIN stack[t] = 1..Depth(t)
           /\ \A i \in 1..Depth(t) : stack[t][i] \in Frame
           /\ stack[t] # << >> => Depth(t) \in 1..Depth(t) /\ Top(t) = stack[t][Depth(t)]
<1>1. stack[t] \in Seq(Frame)
  BY DEF StackType
<1>2. Depth(t) \in Nat /\ DOMAIN stack[t] = 1..Depth(t)
  BY <1>1, LenProperties DEF Depth
<1>3. \A i \in 1..Depth(t) : stack[t][i] \in Frame
  BY <1>1, ElementOfSeq DEF Depth
<1>4. stack[t] # << >> => Depth(t) # 0
  BY <1>1, EmptySeq DEF Depth
<1> QED BY <1>2, <1>3, <1>4 DEF Top, Depth

\* A call lays a frame on the stack.
LEMMA CallEffect ==
    ASSUME StackType, NEW t \in Threads, NEW f \in Frame, Call(t, f)
    PROVE  Pushed(t, f)
<1>1. stack[t] \in Seq(Frame)
  BY DEF StackType
<1>2. /\ Append(stack[t], f) \in Seq(Frame) /\ Append(stack[t], f) # << >>
      /\ Len(Append(stack[t], f)) = Len(stack[t]) + 1
      /\ \A i \in 1..Len(stack[t]) : Append(stack[t], f)[i] = stack[t][i]
      /\ Append(stack[t], f)[Len(stack[t]) + 1] = f
  BY <1>1, AppendProperties
<1>3. stack'[t] = Append(stack[t], f) /\ OtherStacks(t)
  BY DEF Call, StackType, OtherStacks
<1>4. StackType'
  BY <1>2 DEF Call, StackType
<1> QED BY <1>2, <1>3, <1>4 DEF Pushed, Depth, Top

\* A write changes one frame.
LEMMA WriteEffect ==
    ASSUME StackType, NEW t \in Threads, NEW n \in 1..Depth(t), NEW f \in Frame,
           stack' = [stack EXCEPT ![t][n] = f]
    PROVE  Written(t, n, f)
<1> DEFINE s == [stack[t] EXCEPT ![n] = f]
<1>1. stack[t] \in Seq(Frame)
  BY DEF StackType
<1>2. /\ s \in Seq(Frame) /\ Len(s) = Len(stack[t])
      /\ \A j \in 1..Len(stack[t]) : s[j] = IF j = n THEN f ELSE stack[t][j]
  BY <1>1, ExceptSeq DEF Depth
<1>3. stack' = [stack EXCEPT ![t] = s]
  OBVIOUS
<1> HIDE DEF s
<1>4. stack'[t] = s /\ OtherStacks(t)
  BY <1>3 DEF StackType, OtherStacks
<1>5. StackType'
  BY <1>2, <1>3 DEF StackType
<1>6. s # << >>
  BY <1>2, EmptySeq DEF Depth
<1> QED BY <1>2, <1>4, <1>5, <1>6 DEF Written, Depth, Top

\* A hook writes its own frame.
LEMMA SetTopEffect ==
    ASSUME StackType, NEW t \in Threads, stack[t] # << >>, NEW f \in Frame, SetTop(t, f)
    PROVE  Written(t, Depth(t), f)
BY FrameType, WriteEffect DEF SetTop, Depth

\* A return takes the innermost frame away.
LEMMA PopEffect ==
    ASSUME StackType, NEW t \in Threads, stack[t] # << >>, Pop(t)
    PROVE  Popped(t)
<1> DEFINE s == SubSeq(stack[t], 1, Len(stack[t]) - 1)
<1>1. Depth(t) \in Nat \ {0} /\ \A i \in 1..Depth(t) : stack[t][i] \in Frame
  BY FrameType
<1>2. Len(stack[t]) - 1 \in Nat /\ \A i \in 1..Len(stack[t]) - 1 : stack[t][i] \in Frame
  BY <1>1 DEF Depth
<1>3. /\ s \in Seq(Frame) /\ Len(s) = Len(stack[t]) - 1
      /\ \A i \in 1..Len(stack[t]) - 1 : s[i] = stack[t][i]
  <2>1. /\ s \in Seq(Frame)
        /\ Len(s) = IF 1 <= Len(stack[t]) - 1 THEN Len(stack[t]) - 1 - 1 + 1 ELSE 0
        /\ \A i \in 1..(Len(stack[t]) - 1) - 1 + 1 : s[i] = stack[t][1 + i - 1]
    BY <1>2, SubSeqProperties
  <2> QED BY <1>2, <2>1
<1>4. stack' = [stack EXCEPT ![t] = s]
  BY DEF Pop
<1> HIDE DEF s
<1>5. stack'[t] = s /\ OtherStacks(t)
  BY <1>4 DEF StackType, OtherStacks
<1>6. StackType'
  BY <1>3, <1>4 DEF StackType
<1>7. s # << >> => Len(s) # 0
  BY <1>3, EmptySeq
<1> QED BY <1>1, <1>3, <1>5, <1>6, <1>7 DEF Popped, Depth, Top

\* The registered context of a hook is one of its registered frames.
LEMMA InnermostFound ==
    ASSUME StackType, NEW t \in Threads, NEW hook, Contexts(t, hook) # {}
    PROVE  /\ Innermost(t, hook) \in 1..Depth(t)
           /\ stack[t][Innermost(t, hook)].hook = hook
           /\ stack[t][Innermost(t, hook)].hooked
<1> DEFINE C == Contexts(t, hook)
           D == {Depth(t) - i : i \in C}
<1>1. Depth(t) \in Nat /\ C \subseteq 1..Depth(t)
  BY FrameType DEF Contexts
<1>2. D \subseteq Nat /\ D # {}
  BY <1>1
<1>3. PICK x \in D : \A y \in D : ~ (<<y, x>> \in OpToRel(<, Nat))
  BY <1>2, NatLessThanWellFounded, WFMin
<1>4. PICK n \in C : x = Depth(t) - n
  BY <1>3
<1>5. ASSUME NEW j \in C PROVE j <= n
  <2>1. Depth(t) - j \in D
    OBVIOUS
  <2>2. ~ (Depth(t) - j < x)
    BY <1>2, <1>3, <2>1, Zenon DEF OpToRel
  <2> QED BY <1>1, <1>4, <2>2
<1>6. Innermost(t, hook) \in C
  BY <1>5 DEF Innermost
<1> QED BY <1>1, <1>6 DEF Contexts

-----------------------------------------------------------------------------
(* What a step that adds no candidate and no solver call leaves true.      *)

AllKept == \A u \in Threads : Keeps(pending[u], pending'[u])

\* The solver calls on the stacks are those of before.
SolvesKept ==
    \A u \in Threads : \A j \in Nat :
        Solves(u, j)' => Solves(u, j) /\ stack'[u][j].id = stack[u][j].id

\* An array that does not change.
LEMMA KeepsItself == ASSUME NEW p \in Arrays PROVE Keeps(p, p)
BY DEF Keeps

\* Dropping candidates of one thread keeps the arrays' type.
LEMMA OneArrayKept ==
    ASSUME pending \in [Threads -> Arrays], NEW t \in Threads, NEW q,
           Keeps(pending[t], q), pending' = [pending EXCEPT ![t] = q]
    PROVE  AllKept /\ pending' \in [Threads -> Arrays] /\ pending'[t] = q
BY KeepsItself DEF AllKept, Keeps

\* No candidate appears twice and none that was used.
LEMMA UseOnceKept ==
    ASSUME UseOnce, AllKept, SolvesKept, UNCHANGED <<solves, uses>>
    PROVE  UseOnce'
<1> USE DEF UseOnce, AllKept, SolvesKept, Keeps
<1>1. \A t, u \in Threads : \A i, j \in Nat :
         Solves(t, i)' /\ Solves(u, j)' /\ stack'[t][i].id = stack'[u][j].id => t = u /\ i = j
  OBVIOUS
<1>2. \A t, u \in Threads : \A i \in Valid(pending'[t]), j \in Valid(pending'[u]) :
         pending'[t][i].id = pending'[u][j].id => t = u /\ i = j
  OBVIOUS
<1>3. \A t, u \in Threads : \A i \in Valid(pending'[t]), j \in Nat :
         Solves(u, j)' => pending'[t][i].id # stack'[u][j].id
  OBVIOUS
<1>4. \A t \in Threads : \A i \in Valid(pending'[t]) :
         pending'[t][i].id \in 1..solves' /\ uses'[pending'[t][i].id] = 0
  OBVIOUS
<1>5. \A t \in Threads : \A i \in Nat : Solves(t, i)' => uses'[stack'[t][i].id] = 0
  OBVIOUS
<1> QED BY <1>1, <1>2, <1>3, <1>4, <1>5

\* The arrays stay clean.
LEMMA PendingKept ==
    ASSUME PendingIsClean, AllKept,
           \A u \in Threads : threadEpoch'[u] = threadEpoch[u] \/ Valid(pending'[u]) = {}
    PROVE  PendingIsClean'
BY DEF PendingIsClean, AllKept, Keeps, OnePerResult, OneTick

\* The candidates of the current session stay the latest of their results when
\* what a step knows of its own thread says so.
LEMMA LatestKept ==
    ASSUME LatestKnows, AllKept, UNCHANGED switchVars, NEW t \in Threads, OtherStacks(t),
           \A u \in Threads \ {t} : latest'[u] = latest[u],
           \A i \in Valid(pending'[t]) :
               \/ latest'[t][pending'[t][i].result] = latest[t][pending'[t][i].result]
               \/ epoch # pending'[t][i].epoch
               \/ At(t, "solve", "refresh")' /\ Top(t)'.result = pending'[t][i].result
               \/ ~collect /\ ~armed /\ ~At(t, "board", "take")',
           At(t, "board", "take")' => At(t, "board", "take") \/ collect,
           At(t, "solve", "refresh") =>
               \A i \in Valid(pending'[t]) : pending'[t][i].result # Top(t).result
    PROVE  LatestKnows'
<1> USE DEF switchVars
<1>1. ASSUME NEW u \in Threads, NEW i \in Valid(pending'[u])
      PROVE  LET e == pending'[u][i]
             IN  \/ e.epoch # epoch'
                 \/ latest'[u][e.result] = e.id
                 \/ At(u, "solve", "refresh")' /\ Top(u)'.result = e.result
                 \/ ~collect' /\ ~armed' /\ ~At(u, "board", "take")'
  <2>1. i \in Valid(pending[u]) /\ pending'[u][i] = pending[u][i]
    BY DEF AllKept, Keeps
  <2>2. LET e == pending[u][i]
        IN  \/ e.epoch # epoch
            \/ latest[u][e.result] = e.id
            \/ At(u, "solve", "refresh") /\ Top(u).result = e.result
            \/ ~collect /\ ~armed /\ ~At(u, "board", "take")
    BY <2>1 DEF LatestKnows
  <2>3. CASE u = t
    BY <2>1, <2>2, <2>3
  <2>4. CASE u # t
    BY <2>1, <2>2, <2>4 DEF OtherStacks, At, Top
  <2> QED BY <2>3, <2>4
<1> QED BY <1>1 DEF LatestKnows

\* TypeOK, in the names of the lemmas above.
LEMMA Types == TypeOK => StackType /\ pending \in [Threads -> Arrays]
BY DEF TypeOK, StackType, Arrays

\* Only the innermost frame is between two steps of its hook.
LEMMA OthersInGame ==
    ASSUME FramesKnow, StackType, NEW t \in Threads
    PROVE  /\ \A i \in 1..Depth(t) : i # Depth(t) => stack[t][i].step = "original"
           /\ InGame(t) => \A i \in 1..Depth(t) : stack[t][i].step = "original"
<1>1. \A i \in 1..Depth(t) : i # Depth(t) => stack[t][i].step = "original"
  BY DEF FramesKnow, FrameKnows
<1>2. ASSUME InGame(t), NEW i \in 1..Depth(t) PROVE stack[t][i].step = "original"
  <2>1. stack[t] # << >>
    BY EmptySeq DEF Depth
  <2> QED BY <1>1, <1>2, <2>1, FrameType DEF InGame
<1> QED BY <1>1, <1>2

\* A frame in the game's code stays true of itself, and so does every frame of a
\* thread that does not move.
LEMMA FrameKept ==
    ASSUME NEW f \in Frame, NEW i, NEW d, NEW d2,
           NEW own \in Nat, NEW own2 \in Nat, NEW n \in Nat, NEW n2 \in {n, n + 1},
           FrameKnows(f, i, d, own, n), own <= own2,
           f.step = "original" \/ (d2 = d /\ own2 = own)
    PROVE  FrameKnows(f, i, d2, own2, n2)
BY DEF FrameKnows, Frame

\* A return uncovers a frame in the game's code.
LEMMA PopInGame ==
    ASSUME FramesKnow, StackType, NEW t \in Threads, Popped(t)
    PROVE  ~At(t, "board", "take")'
<1>1. ASSUME stack'[t] # << >> PROVE Top(t)'.step = "original"
  <2>1. Depth(t) - 1 \in 1..Depth(t) /\ Depth(t) - 1 # Depth(t)
    BY <1>1 DEF Popped
  <2>2. stack[t][Depth(t) - 1].step = "original"
    BY <2>1, OthersInGame
  <2> QED BY <1>1, <2>2 DEF Popped
<1> QED BY <1>1 DEF At

\* A step of thread t that changes its frame n, when the others are in the game's
\* code, leaves every frame but n as it was.
LEMMA FramesKept ==
    ASSUME FramesKnow, TypeOK, NEW t \in Threads, OtherStacks(t), NEW n, StackType',
           \A i \in (1..Depth(t)') \ {n} : /\ i \in 1..Depth(t)
                                          /\ stack'[t][i] = stack[t][i]
                                          /\ stack[t][i].step = "original",
           n \in 1..Depth(t)' =>
               FrameKnows(stack'[t][n], n, Depth(t)', threadEpoch'[t], solves'),
           solves' \in {solves, solves + 1},
           \A u \in Threads \ {t} : threadEpoch'[u] = threadEpoch[u],
           threadEpoch'[t] \in Nat, threadEpoch[t] <= threadEpoch'[t]
    PROVE  FramesKnow'
<1>1. StackType /\ solves \in Nat /\ \A u \in Threads : threadEpoch[u] \in Nat
  BY Types DEF TypeOK
<1>2. ASSUME NEW u \in Threads \ {t}, NEW i \in 1..Depth(u)'
      PROVE  FrameKnows(stack'[u][i], i, Depth(u)', threadEpoch'[u], solves')
  <2>1. i \in 1..Depth(u) /\ stack'[u][i] = stack[u][i] /\ Depth(u)' = Depth(u)
    BY DEF OtherStacks, Depth
  <2>2. /\ FrameKnows(stack[u][i], i, Depth(u), threadEpoch[u], solves)
        /\ stack[u][i] \in Frame
    BY <1>1, <2>1, FrameType DEF FramesKnow
  <2>3. threadEpoch'[u] = threadEpoch[u] /\ threadEpoch[u] \in Nat
    BY <1>1
  <2> QED BY <1>1, <2>1, <2>2, <2>3, FrameKept
<1>3. ASSUME NEW i \in 1..Depth(t)'
      PROVE  FrameKnows(stack'[t][i], i, Depth(t)', threadEpoch'[t], solves')
  <2>1. CASE i = n
    BY <2>1
  <2>2. CASE i # n
    <3>1. i \in 1..Depth(t) /\ stack'[t][i] = stack[t][i] /\ stack[t][i].step = "original"
      BY <2>2
    <3>2. /\ FrameKnows(stack[t][i], i, Depth(t), threadEpoch[t], solves)
          /\ stack[t][i] \in Frame
      BY <1>1, <3>1, FrameType DEF FramesKnow
    <3>3. threadEpoch[t] \in Nat
      BY <1>1
    <3> DEFINE f == stack[t][i]
    <3>4. /\ f \in Frame /\ f.step = "original" /\ stack'[t][i] = f
          /\ FrameKnows(f, i, Depth(t), threadEpoch[t], solves)
      BY <3>1, <3>2
    <3> HIDE DEF f
    <3>5. FrameKnows(f, i, Depth(t)', threadEpoch'[t], solves')
      BY <1>1, <3>3, <3>4, FrameKept
    <3> QED BY <3>4, <3>5
  <2> QED BY <2>1, <2>2
<1> QED BY <1>2, <1>3 DEF FramesKnow

\* A hook call, made from the game's code.
LEMMA FramesPushed ==
    ASSUME FramesKnow, TypeOK, NEW t \in Threads, NEW f, Pushed(t, f), InGame(t),
           FrameKnows(f, Depth(t)', Depth(t)', threadEpoch'[t], solves'),
           solves' \in {solves, solves + 1},
           \A u \in Threads \ {t} : threadEpoch'[u] = threadEpoch[u],
           threadEpoch'[t] \in Nat, threadEpoch[t] <= threadEpoch'[t]
    PROVE  FramesKnow'
<1> DEFINE n == Depth(t) + 1
<1>1. StackType /\ OtherStacks(t) /\ StackType'
  BY Types DEF Pushed
<1>2. \A i \in (1..Depth(t)') \ {n} : /\ i \in 1..Depth(t)
                                    /\ stack'[t][i] = stack[t][i]
                                    /\ stack[t][i].step = "original"
  BY <1>1, FrameType, OthersInGame DEF Pushed
<1>3. stack'[t][n] = f /\ n = Depth(t)'
  BY DEF Pushed
<1>4. FrameKnows(stack'[t][n], n, Depth(t)', threadEpoch'[t], solves')
  BY <1>3
<1> HIDE DEF n
<1> QED BY <1>1, <1>2, <1>4, FramesKept

\* A write, by the frame itself or, in the game's code, by a hook it calls.
LEMMA FramesWritten ==
    ASSUME FramesKnow, TypeOK, NEW t \in Threads, NEW n, NEW f, Written(t, n, f),
           n = Depth(t) \/ InGame(t),
           FrameKnows(f, n, Depth(t), threadEpoch'[t], solves'),
           solves' \in {solves, solves + 1},
           \A u \in Threads \ {t} : threadEpoch'[u] = threadEpoch[u],
           threadEpoch'[t] \in Nat, threadEpoch[t] <= threadEpoch'[t]
    PROVE  FramesKnow'
<1>1. StackType /\ OtherStacks(t) /\ StackType'
  BY Types DEF Written
<1>2. \A i \in (1..Depth(t)') \ {n} : /\ i \in 1..Depth(t)
                                    /\ stack'[t][i] = stack[t][i]
                                    /\ stack[t][i].step = "original"
  BY <1>1, FrameType, OthersInGame DEF Written
<1>3. stack'[t][n] = f /\ Depth(t)' = Depth(t)
  BY DEF Written
<1> QED BY <1>1, <1>2, <1>3, FramesKept

\* The return of a hook.
LEMMA FramesPopped ==
    ASSUME FramesKnow, TypeOK, NEW t \in Threads, Popped(t),
           solves' = solves, threadEpoch' = threadEpoch
    PROVE  FramesKnow'
<1>1. StackType /\ OtherStacks(t) /\ StackType' /\ threadEpoch[t] \in Nat
  BY Types DEF Popped, TypeOK
<1>2. \A i \in (1..Depth(t)') \ {0} : /\ i \in 1..Depth(t)
                                    /\ stack'[t][i] = stack[t][i]
                                    /\ stack[t][i].step = "original"
  BY <1>1, FrameType, OthersInGame DEF Popped
<1>3. 0 \notin 1..Depth(t)' /\ solves' \in {solves, solves + 1}
  OBVIOUS
<1> QED BY <1>1, <1>2, <1>3, FramesKept

\* Which solver calls the three stack effects leave.
LEMMA PushSolves ==
    ASSUME StackType, NEW t \in Threads, NEW f, Pushed(t, f)
    PROVE  /\ \A u \in Threads : \A j \in Nat :
                 Solves(u, j)' => \/ u = t /\ j = Depth(t) + 1 /\ stack'[u][j] = f
                                  \/ Solves(u, j) /\ stack'[u][j] = stack[u][j]
           /\ f.hook # "solve" => SolvesKept
BY FrameType DEF Pushed, OtherStacks, SolvesKept, Solves, Depth

\* A write keeps the hook and the number of its frame.
LEMMA WriteSolves ==
    ASSUME StackType, NEW t \in Threads, NEW n, NEW f, Written(t, n, f),
           f.hook = stack[t][n].hook, f.id = stack[t][n].id
    PROVE  SolvesKept
BY FrameType DEF Written, OtherStacks, SolvesKept, Solves, Depth

\* A return can only take a solver call away.
LEMMA PopSolves ==
    ASSUME StackType, NEW t \in Threads, Popped(t)
    PROVE  SolvesKept
BY FrameType DEF Popped, OtherStacks, SolvesKept, Solves, Depth

\* A step of thread t that adds no candidate and no solver call: it drops some of
\* the candidates, all of them when its epoch changes, and may use one.
LEMMA KeepingStep ==
    ASSUME TypeOK, CaptureInv, NEW t \in Threads, NEW q,
           NEW own \in {threadEpoch[t], epoch},
           UNCHANGED <<switchVars, tick, solves>>,
           uses' \in [1..MaxSolves -> Nat], UseOnce',
           StackType', OtherStacks(t), FramesKnow',
           Keeps(pending[t], q), pending' = [pending EXCEPT ![t] = q],
           threadEpoch' = [threadEpoch EXCEPT ![t] = own],
           own = threadEpoch[t] \/ Valid(q) = {},
           latest' \in [Threads -> [Results -> Nat]],
           \A u \in Threads \ {t} : latest'[u] = latest[u],
           \A i \in Valid(q) : latest'[t][q[i].result] = latest[t][q[i].result],
           At(t, "board", "take")' => At(t, "board", "take") \/ collect,
           At(t, "solve", "refresh") => \A i \in Valid(q) : q[i].result # Top(t).result
    PROVE  TypeOK' /\ CaptureInv'
<1>1. pending \in [Threads -> Arrays]
  BY Types
<1>2. AllKept /\ pending' \in [Threads -> Arrays] /\ pending'[t] = q
  BY <1>1, OneArrayKept
<1>3. threadEpoch \in [Threads -> Nat] /\ epoch \in Nat
  BY DEF TypeOK
<1>4. /\ threadEpoch' \in [Threads -> Nat] /\ threadEpoch'[t] = own
      /\ \A u \in Threads \ {t} : threadEpoch'[u] = threadEpoch[u]
  BY <1>3
<1>5. TypeOK'
  BY <1>2, <1>4 DEF TypeOK, switchVars, StackType, Arrays
<1>6. EpochKnows'
  <2>1. EpochKnows
    BY DEF CaptureInv
  <2>2. \A u \in Threads : threadEpoch'[u] <= epoch
    BY <1>3, <1>4, <2>1 DEF EpochKnows
  <2>3. \A u \in Threads : \A i \in Valid(pending'[u]) :
           i \in Valid(pending[u]) /\ pending'[u][i] = pending[u][i]
    BY <1>2 DEF AllKept, Keeps
  <2> QED BY <2>1, <2>2, <2>3 DEF EpochKnows, switchVars
<1>7. PendingIsClean'
  BY <1>2, <1>4, PendingKept DEF CaptureInv
<1>8. LatestKnows'
  BY <1>2, LatestKept DEF CaptureInv
<1> QED BY <1>5, <1>6, <1>7, <1>8 DEF CaptureInv

\* A step that uses no candidate either.
LEMMA QuietStep ==
    ASSUME TypeOK, CaptureInv, NEW t \in Threads, NEW q,
           NEW own \in {threadEpoch[t], epoch},
           UNCHANGED <<switchVars, tick, solves, uses>>,
           StackType', OtherStacks(t), FramesKnow', SolvesKept,
           Keeps(pending[t], q), pending' = [pending EXCEPT ![t] = q],
           threadEpoch' = [threadEpoch EXCEPT ![t] = own],
           own = threadEpoch[t] \/ Valid(q) = {},
           latest' \in [Threads -> [Results -> Nat]],
           \A u \in Threads \ {t} : latest'[u] = latest[u],
           \A i \in Valid(q) : latest'[t][q[i].result] = latest[t][q[i].result],
           At(t, "board", "take")' => At(t, "board", "take") \/ collect,
           At(t, "solve", "refresh") => \A i \in Valid(q) : q[i].result # Top(t).result
    PROVE  TypeOK' /\ CaptureInv'
<1>1. AllKept
  BY Types, OneArrayKept
<1>2. UseOnce' /\ uses' \in [1..MaxSolves -> Nat]
  BY <1>1, UseOnceKept DEF CaptureInv, TypeOK
<1> QED BY <1>2, KeepingStep

\* A frame is written and nothing else changes.
LEMMA QuietWrite ==
    ASSUME TypeOK, CaptureInv, NEW t \in Threads, NEW n, NEW f, Written(t, n, f),
           UNCHANGED <<switchVars, tick, pending, threadEpoch, historyVars>>,
           n = Depth(t) \/ InGame(t), ~At(t, "solve", "refresh"),
           FrameKnows(f, n, Depth(t), threadEpoch[t], solves),
           f.hook = stack[t][n].hook, f.id = stack[t][n].id,
           At(t, "board", "take")' => At(t, "board", "take") \/ collect
    PROVE  TypeOK' /\ CaptureInv'
<1>1. StackType /\ pending \in [Threads -> Arrays]
  BY Types
<1>2. /\ threadEpoch \in [Threads -> Nat] /\ threadEpoch[t] \in Nat /\ solves \in Nat
      /\ latest' \in [Threads -> [Results -> Nat]]
  BY DEF TypeOK, historyVars
<1>3. FramesKnow'
  BY <1>2, FramesWritten DEF CaptureInv, historyVars
<1>4. SolvesKept
  BY <1>1, WriteSolves
<1>5. Keeps(pending[t], pending[t])
  BY <1>1, KeepsItself
<1>6. /\ pending' = [pending EXCEPT ![t] = pending[t]]
      /\ threadEpoch' = [threadEpoch EXCEPT ![t] = threadEpoch[t]]
  BY <1>1, <1>2
<1> QED BY <1>1, <1>2, <1>3, <1>4, <1>5, <1>6, QuietStep DEF Written, historyVars

\* A frame returns and nothing else changes.
LEMMA QuietPop ==
    ASSUME TypeOK, CaptureInv, NEW t \in Threads, stack[t] # << >>, Pop(t),
           UNCHANGED <<switchVars, tick, pending, threadEpoch, historyVars>>,
           ~At(t, "solve", "refresh")
    PROVE  TypeOK' /\ CaptureInv'
<1>1. StackType /\ pending \in [Threads -> Arrays]
  BY Types
<1>2. /\ threadEpoch \in [Threads -> Nat] /\ latest' \in [Threads -> [Results -> Nat]]
  BY DEF TypeOK, historyVars
<1>3. Popped(t)
  BY <1>1, PopEffect
<1>4. FramesKnow'
  BY <1>3, FramesPopped DEF CaptureInv, historyVars
<1>5. SolvesKept
  BY <1>1, <1>3, PopSolves
<1>6. ~At(t, "board", "take")'
  BY <1>1, <1>3, PopInGame DEF CaptureInv
<1>7. Keeps(pending[t], pending[t])
  BY <1>1, KeepsItself
<1>8. /\ pending' = [pending EXCEPT ![t] = pending[t]]
      /\ threadEpoch' = [threadEpoch EXCEPT ![t] = threadEpoch[t]]
  BY <1>1, <1>2
<1> QED BY <1>1, <1>2, <1>3, <1>4, <1>5, <1>6, <1>7, <1>8, QuietStep DEF Popped, historyVars

-----------------------------------------------------------------------------
(* CaptureSolve.                                                           *)

\* A new solver call has a new number, and outdates what was measured before.
LEMMA SolveEnterStep ==
    ASSUME TypeOK, CaptureInv, NEW t \in Threads, NEW r \in Results, SolveEnter(t, r)
    PROVE  TypeOK' /\ CaptureInv'
<1> DEFINE f == NewFrame("solve", IF collect THEN "refresh" ELSE "original", r, solves + 1)
<1> USE BoundsAssumption DEF CaptureInv
<1>1. /\ f \in Frame /\ f.hook = "solve" /\ f.result = r /\ f.id = solves + 1
      /\ f.event = NoEvent /\ f.epoch = 0
      /\ f.step = IF collect THEN "refresh" ELSE "original"
  BY DEF NewFrame, Frame, TypeOK
<1>2. StackType /\ pending \in [Threads -> Arrays]
  BY Types
<1>3. Pushed(t, f)
  BY <1>1, <1>2, CallEffect DEF SolveEnter
<1>4. /\ UNCHANGED <<switchVars, tick, pending, threadEpoch, uses>>
      /\ solves < MaxSolves /\ solves' = solves + 1
      /\ latest' = [latest EXCEPT ![t][r] = 0]
      /\ InGame(t)
  BY DEF SolveEnter, Call
<1> HIDE DEF f
<1>5. TypeOK'
  BY <1>3, <1>4 DEF TypeOK, Pushed, StackType, switchVars
<1>6. \A i \in 1..Depth(t) : stack[t][i].step = "original"
  BY <1>2, <1>4, OthersInGame
<1>7. FramesKnow'
  <2>1. threadEpoch'[t] \in Nat /\ threadEpoch'[t] = threadEpoch[t] /\ solves \in Nat
    BY <1>4 DEF TypeOK
  <2>2. FrameKnows(f, Depth(t)', Depth(t)', threadEpoch'[t], solves')
    BY <1>1, <1>4, <2>1 DEF FrameKnows
  <2> QED BY <1>3, <1>4, <2>1, <2>2, FramesPushed
<1>8. AllKept
  BY <1>2, <1>4, KeepsItself DEF AllKept
<1>9. EpochKnows' /\ PendingIsClean'
  BY <1>4 DEF EpochKnows, PendingIsClean, switchVars
<1>10. UseOnce'
  <2> DEFINE m == Depth(t) + 1
  <2>0. \A u \in Threads : \A j \in 1..Depth(u) :
           stack[u][j].hook = "solve" => stack[u][j].id \in 1..solves
    BY DEF FramesKnow, FrameKnows
  <2>1. \A u \in Threads : \A j \in Nat :
           Solves(u, j)' => \/ u = t /\ j = m /\ stack'[u][j].id = solves + 1
                            \/ /\ Solves(u, j) /\ stack'[u][j].id = stack[u][j].id
                               /\ stack[u][j].id \in 1..solves
    <3>1. \A u \in Threads : \A j \in Nat :
             Solves(u, j)' => \/ u = t /\ j = m /\ stack'[u][j] = f
                              \/ Solves(u, j) /\ stack'[u][j] = stack[u][j]
      BY <1>2, <1>3, PushSolves
    <3>2. \A u \in Threads : \A j \in Nat : Solves(u, j) => stack[u][j].id \in 1..solves
      BY <2>0 DEF Solves
    <3> QED BY <1>1, <3>1, <3>2
  <2>2. \A u \in Threads : \A i \in Valid(pending[u]) : pending[u][i].id \in 1..solves
    BY DEF UseOnce
  <2>3. solves \in Nat /\ MaxSolves \in Nat
    BY DEF TypeOK
  <2> HIDE DEF m
  <2> USE DEF UseOnce
  <2>4. \A v, u \in Threads : \A i, j \in Nat :
           Solves(v, i)' /\ Solves(u, j)' /\ stack'[v][i].id = stack'[u][j].id
               => v = u /\ i = j
    BY <2>1, <2>3
  <2>5. \A v, u \in Threads : \A i \in Valid(pending'[v]), j \in Nat :
           Solves(u, j)' => pending'[v][i].id # stack'[u][j].id
    BY <1>4, <2>1, <2>2, <2>3
  <2>6. \A u \in Threads : \A j \in Nat : Solves(u, j)' => uses'[stack'[u][j].id] = 0
    BY <1>4, <2>1, <2>3
  <2>7. \A n \in 1..MaxSolves : uses'[n] <= 1 /\ (n > solves' => uses'[n] = 0)
    BY <1>4, <2>3
  <2> QED BY <1>4, <2>2, <2>3, <2>4, <2>5, <2>6, <2>7
<1>11. LatestKnows'
  <2>1. ASSUME NEW i \in Valid(pending'[t])
        PROVE  \/ latest'[t][pending'[t][i].result] = latest[t][pending'[t][i].result]
               \/ epoch # pending'[t][i].epoch
               \/ At(t, "solve", "refresh")' /\ Top(t)'.result = pending'[t][i].result
               \/ ~collect /\ ~armed /\ ~At(t, "board", "take")'
    <3>1. CASE pending[t][i].result # r
      BY <1>4, <3>1 DEF TypeOK
    <3>2. CASE pending[t][i].result = r /\ collect
      BY <1>1, <1>3, <1>4, <3>2 DEF At, Pushed
    <3>3. CASE ~collect /\ armed
      BY <1>4, <2>1, <3>3 DEF EpochKnows
    <3>4. CASE ~collect /\ ~armed
      BY <1>1, <1>3, <3>4 DEF At, Pushed
    <3> QED BY <1>4, <3>1, <3>2, <3>3, <3>4
  <2>2. ~At(t, "board", "take")' /\ ~At(t, "solve", "refresh")
    BY <1>1, <1>3, <1>4 DEF At, Pushed, InGame
  <2>3. OtherStacks(t) /\ \A u \in Threads \ {t} : latest'[u] = latest[u]
    BY <1>3, <1>4 DEF Pushed, TypeOK
  <2> QED BY <1>4, <1>8, <2>1, <2>2, <2>3, LatestKept
<1> QED BY <1>5, <1>7, <1>9, <1>10, <1>11

\* What TypeOK and FramesKnow say of the innermost frame.
LEMMA TopKnows ==
    ASSUME TypeOK, FramesKnow, NEW t \in Threads, stack[t] # << >>
    PROVE  /\ StackType /\ pending \in [Threads -> Arrays]
           /\ Depth(t) \in 1..Depth(t) /\ Top(t) = stack[t][Depth(t)] /\ Top(t) \in Frame
           /\ FrameKnows(Top(t), Depth(t), Depth(t), threadEpoch[t], solves)
           /\ threadEpoch[t] \in Nat /\ epoch \in Nat /\ solves \in Nat
BY Types, FrameType DEF FramesKnow, TypeOK

\* The three ways a hook writes its frame, and what they leave.
Registered(g, e) == [g EXCEPT !.step = "original", !.hooked = TRUE, !.epoch = e]
Storing(g) == [g EXCEPT !.step = "store", !.hooked = FALSE]
Going(g, s) == [g EXCEPT !.step = s]

\* A hook registers its context in the epoch it read.
LEMMA RegisteredFrame ==
    ASSUME NEW g \in Frame, NEW e \in Nat, NEW f, f = Registered(g, e)
    PROVE  /\ f \in Frame /\ f.step = "original" /\ f.epoch = e
           /\ f.hook = g.hook /\ f.id = g.id /\ f.result = g.result /\ f.event = g.event
BY DEF Frame, Registered

\* A solve unregisters its context and goes on to store.
LEMMA StoringFrame ==
    ASSUME NEW g \in Frame, NEW f, f = Storing(g)
    PROVE  /\ f \in Frame /\ f.step = "store" /\ f.epoch = g.epoch
           /\ f.hook = g.hook /\ f.id = g.id /\ f.result = g.result /\ f.event = g.event
BY DEF Frame, Storing

\* A board goes on to its next step.
LEMMA GoingFrame ==
    ASSUME NEW g \in Frame, NEW s \in {"original", "take"}, NEW f, f = Going(g, s)
    PROVE  /\ f \in Frame /\ f.step = s /\ f.epoch = g.epoch
           /\ f.hook = g.hook /\ f.id = g.id /\ f.result = g.result /\ f.event = g.event
BY DEF Frame, Going

\* RefreshEpoch and ForgetResult drop candidates of older sessions and solves.
LEMMA SolveRefreshStep ==
    ASSUME TypeOK, CaptureInv, NEW t \in Threads, SolveRefresh(t)
    PROVE  TypeOK' /\ CaptureInv'
<1> DEFINE f == [Top(t) EXCEPT !.step = "original", !.hooked = TRUE, !.epoch = epoch]
           q == ForgetResult(Refreshed(t), Top(t).result)
<1>1. /\ stack[t] # << >> /\ At(t, "solve", "refresh") /\ SetTop(t, f)
      /\ threadEpoch' = [threadEpoch EXCEPT ![t] = epoch]
      /\ pending' = [pending EXCEPT ![t] = q]
      /\ UNCHANGED <<switchVars, tick, historyVars>>
  BY DEF SolveRefresh, At
<1>2. /\ StackType /\ pending \in [Threads -> Arrays]
      /\ Depth(t) \in 1..Depth(t) /\ Top(t) = stack[t][Depth(t)] /\ Top(t) \in Frame
      /\ FrameKnows(Top(t), Depth(t), Depth(t), threadEpoch[t], solves)
      /\ threadEpoch[t] \in Nat /\ epoch \in Nat /\ solves \in Nat
  BY <1>1, TopKnows DEF CaptureInv
<1>3. threadEpoch[t] <= epoch
  BY DEF CaptureInv, EpochKnows
<1>4. /\ f \in Frame /\ f.hook = Top(t).hook /\ f.id = Top(t).id
      /\ f.hook = "solve" /\ f.step = "original"
      /\ FrameKnows(f, Depth(t), Depth(t), epoch, solves)
  <2>1. /\ f \in Frame /\ f.step = "original" /\ f.epoch = epoch
        /\ f.hook = Top(t).hook /\ f.id = Top(t).id
        /\ f.result = Top(t).result /\ f.event = Top(t).event
    <3>1. f = Registered(Top(t), epoch)
      BY DEF Registered
    <3>2. Top(t) \in Frame /\ epoch \in Nat
      BY <1>2
    <3> HIDE DEF f
    <3> QED BY <3>1, <3>2, RegisteredFrame
  <2> HIDE DEF f
  <2> QED BY <1>1, <1>2, <2>1 DEF At, FrameKnows
<1>5. Written(t, Depth(t), f)
  BY <1>1, <1>2, <1>4, SetTopEffect
<1> DEFINE p == Refreshed(t)
<1>6. /\ Keeps(pending[t], p)
      /\ threadEpoch[t] # epoch => Valid(p) = {}
  BY <1>2, RefreshKeeps
<1>7. /\ Keeps(p, q)
      /\ \A i \in Valid(q) : p[i].result # Top(t).result
  BY <1>6, ForgetKeeps DEF Keeps
<1> HIDE DEF f, p, q
<1>8. /\ Keeps(pending[t], q) /\ (epoch = threadEpoch[t] \/ Valid(q) = {})
      /\ \A i \in Valid(q) : q[i].result # Top(t).result
  BY <1>6, <1>7 DEF Keeps
<1>9. FramesKnow'
  BY <1>1, <1>2, <1>3, <1>4, <1>5, FramesWritten DEF CaptureInv, historyVars, TypeOK
<1>10. SolvesKept
  BY <1>2, <1>4, <1>5, WriteSolves
<1>11. ~At(t, "board", "take")' /\ latest' \in [Threads -> [Results -> Nat]]
  BY <1>1, <1>2, <1>4, <1>5 DEF At, Written, TypeOK, historyVars
<1> QED BY <1>1, <1>5, <1>8, <1>9, <1>10, <1>11, QuietStep DEF Written, historyVars

\* Only a sample of the current epoch goes on to be stored.
LEMMA SolveReturnStep ==
    ASSUME TypeOK, CaptureInv, NEW t \in Threads, SolveReturn(t)
    PROVE  TypeOK' /\ CaptureInv'
<1> DEFINE f == [Top(t) EXCEPT !.step = "store", !.hooked = FALSE]
<1>1. /\ stack[t] # << >> /\ Top(t).hook = "solve" /\ Top(t).step = "original"
      /\ UNCHANGED <<switchVars, tick, pending, threadEpoch, historyVars>>
      /\ \/ Top(t).event # NoEvent /\ Top(t).epoch = epoch /\ SetTop(t, f)
         \/ Pop(t)
  BY DEF SolveReturn, At
<1>2. /\ StackType
      /\ Depth(t) \in 1..Depth(t) /\ Top(t) = stack[t][Depth(t)] /\ Top(t) \in Frame
      /\ FrameKnows(Top(t), Depth(t), Depth(t), threadEpoch[t], solves)
      /\ threadEpoch[t] \in Nat /\ epoch \in Nat /\ solves \in Nat
  BY <1>1, TopKnows DEF CaptureInv
<1>3. CASE Top(t).event # NoEvent /\ Top(t).epoch = epoch /\ SetTop(t, f)
  <2>1. threadEpoch[t] <= epoch
    BY DEF CaptureInv, EpochKnows
  <2>2. /\ f \in Frame /\ f.hook = Top(t).hook /\ f.id = Top(t).id /\ f.hook = "solve"
        /\ FrameKnows(f, Depth(t), Depth(t), threadEpoch[t], solves)
    <3>1. f = Storing(Top(t))
      BY DEF Storing
    <3> HIDE DEF f
    <3>2. /\ f \in Frame /\ f.step = "store" /\ f.epoch = Top(t).epoch
          /\ f.hook = Top(t).hook /\ f.id = Top(t).id
          /\ f.result = Top(t).result /\ f.event = Top(t).event
      BY <1>2, <3>1, StoringFrame
    <3> QED BY <1>1, <1>2, <1>3, <2>1, <3>2 DEF FrameKnows
  <2> HIDE DEF f
  <2>3. Written(t, Depth(t), f)
    BY <1>1, <1>2, <1>3, <2>2, SetTopEffect
  <2>4. ~At(t, "board", "take")' /\ ~At(t, "solve", "refresh")
    BY <1>1, <1>2, <2>2, <2>3 DEF At, Written
  <2> QED BY <1>1, <1>2, <2>2, <2>3, <2>4, QuietWrite
<1>4. CASE Pop(t)
  BY <1>1, <1>4, QuietPop DEF At
<1> QED BY <1>1, <1>3, <1>4

\* A sample may be lost.
LEMMA SolveLoseStep ==
    ASSUME TypeOK, CaptureInv, NEW t \in Threads, SolveLose(t)
    PROVE  TypeOK' /\ CaptureInv'
BY QuietPop DEF SolveLose, At

\* The candidate moves from its frame to a slot, and the older candidate of its
\* result is gone whether or not there is room.
LEMMA SolveStoreStep ==
    ASSUME TypeOK, CaptureInv, NEW t \in Threads, SolveStore(t)
    PROVE  TypeOK' /\ CaptureInv'
<1> DEFINE f == Top(t)
           e == f.event
           p == pending[t]
           q == StoreCandidate(p, e)
<1>1. /\ stack[t] # << >> /\ f.hook = "solve" /\ f.step = "store" /\ collect /\ Pop(t)
      /\ pending' = [pending EXCEPT ![t] = q]
      /\ latest' = [latest EXCEPT ![t][f.result] = IF Stores(p, e) THEN f.id ELSE 0]
      /\ UNCHANGED <<switchVars, tick, threadEpoch, solves, uses>>
  BY DEF SolveStore, At
<1>2. /\ StackType /\ pending \in [Threads -> Arrays]
      /\ Depth(t) \in 1..Depth(t) /\ f = stack[t][Depth(t)] /\ f \in Frame
      /\ FrameKnows(f, Depth(t), Depth(t), threadEpoch[t], solves)
      /\ threadEpoch[t] \in Nat /\ epoch \in Nat /\ solves \in Nat
  BY <1>1, TopKnows DEF CaptureInv
<1>3. /\ e \in Event /\ e # NoEvent /\ e.epoch = threadEpoch[t] /\ e.result = f.result
      /\ f.result \in Results /\ e.id = f.id /\ f.id \in 1..solves
  BY <1>1, <1>2 DEF Frame, FrameKnows
<1>4. Popped(t)
  BY <1>1, <1>2, PopEffect
<1> HIDE DEF f
<1>5. p \in Arrays
  BY <1>2
<1> HIDE DEF e, p
<1>6. /\ q \in Arrays
      /\ ~Stores(p, e) => Keeps(p, q) /\ \A i \in Valid(q) : p[i].result # e.result
  BY <1>3, <1>5, StoreKeeps
<1>7. PICK s \in Slots :
         /\ Stores(p, e) => q[s] = e
         /\ \A i \in Valid(q) :
               \/ i = s /\ Stores(p, e)
               \/ /\ i \in Valid(p) /\ q[i] = p[i]
                  /\ p[i].result # e.result /\ p[i].tick = e.tick
  BY <1>3, <1>5, StoreKeeps
<1> HIDE DEF q
<1>8. pending' \in [Threads -> Arrays] /\ pending'[t] = q
      /\ \A u \in Threads \ {t} : pending'[u] = pending[u]
  BY <1>1, <1>2, <1>6
<1>9. \A u \in Threads : \A i \in Valid(pending'[u]) :
         \/ u = t /\ i = s /\ pending'[u][i] = e /\ Stores(p, e)
         \/ /\ i \in Valid(pending[u]) /\ pending'[u][i] = pending[u][i]
            /\ u = t => pending[u][i].result # e.result /\ pending[u][i].tick = e.tick
  BY <1>7, <1>8 DEF p
<1>10. /\ latest' \in [Threads -> [Results -> Nat]]
       /\ \A u \in Threads, r \in Results :
             latest'[u][r] = IF u = t /\ r = e.result
                             THEN IF Stores(p, e) THEN e.id ELSE 0 ELSE latest[u][r]
  BY <1>1, <1>2, <1>3 DEF TypeOK
<1>11. TypeOK'
  BY <1>1, <1>4, <1>8, <1>10 DEF TypeOK, Popped, StackType, switchVars, Arrays
<1>12. FramesKnow'
  BY <1>1, <1>4, FramesPopped DEF CaptureInv
<1>13. EpochKnows'
  BY <1>1 DEF CaptureInv, EpochKnows, switchVars
<1>14. PendingIsClean'
  <2>1. PendingIsClean
    BY DEF CaptureInv
  <2>2. \A u \in Threads : OnePerResult(pending'[u]) /\ OneTick(pending'[u])
    BY <1>9, <2>1 DEF PendingIsClean, OnePerResult, OneTick
  <2>3. \A u \in Threads : \A i \in Valid(pending'[u]) :
           pending'[u][i].epoch = threadEpoch'[u]
    BY <1>1, <1>3, <1>9, <2>1 DEF PendingIsClean
  <2> QED BY <2>2, <2>3 DEF PendingIsClean
<1>15. UseOnce'
  <2> DEFINE d == Depth(t)
  <2>1. Solves(t, d) /\ stack[t][d].id = e.id /\ d \in Nat
    BY <1>1, <1>2, <1>3 DEF Solves, f
  <2>2. \A u \in Threads : \A j \in Nat :
           Solves(u, j)' => /\ Solves(u, j) /\ stack'[u][j].id = stack[u][j].id
                            /\ (u # t \/ j # d)
    <3>1. ASSUME NEW j \in Nat, Solves(t, j)' PROVE j # d
      BY <1>4, <3>1 DEF Popped, Solves
    <3>2. SolvesKept
      BY <1>2, <1>4, PopSolves
    <3> QED BY <3>1, <3>2 DEF SolvesKept
  <2> HIDE DEF d
  <2>3. UseOnce
    BY DEF CaptureInv
  <2>4. e.id \in 1..solves /\ uses[e.id] = 0
    BY <1>3, <2>1, <2>3 DEF UseOnce
  <2>5. \A v, u \in Threads : \A i, j \in Nat :
           Solves(v, i)' /\ Solves(u, j)' /\ stack'[v][i].id = stack'[u][j].id
               => v = u /\ i = j
    BY <2>2, <2>3 DEF UseOnce
  <2>6. \A u \in Threads : \A i \in Valid(pending[u]) : pending[u][i].id # e.id
    BY <2>1, <2>3 DEF UseOnce
  <2>7. \A v, u \in Threads : \A i \in Valid(pending'[v]), j \in Valid(pending'[u]) :
           pending'[v][i].id = pending'[u][j].id => v = u /\ i = j
    BY <1>9, <2>3, <2>6 DEF UseOnce
  <2>8. \A v, u \in Threads : \A i \in Valid(pending'[v]), j \in Nat :
           Solves(u, j)' => pending'[v][i].id # stack'[u][j].id
    <3>1. \A u \in Threads : \A j \in Nat : Solves(u, j)' => stack'[u][j].id # e.id
      BY <2>1, <2>2, <2>3 DEF UseOnce
    <3> QED BY <1>9, <2>2, <2>3, <3>1 DEF UseOnce
  <2>9. \A u \in Threads : \A i \in Valid(pending'[u]) :
           pending'[u][i].id \in 1..solves /\ uses[pending'[u][i].id] = 0
    BY <1>9, <2>3, <2>4 DEF UseOnce
  <2>10. \A u \in Threads : \A j \in Nat : Solves(u, j)' => uses[stack'[u][j].id] = 0
    BY <2>2, <2>3 DEF UseOnce
  <2> QED BY <1>1, <2>3, <2>5, <2>7, <2>8, <2>9, <2>10 DEF UseOnce
<1>16. LatestKnows'
  <2>1. ASSUME NEW u \in Threads, NEW i \in Valid(pending'[u])
        PROVE  LET c == pending'[u][i]
               IN  \/ c.epoch # epoch'
                   \/ latest'[u][c.result] = c.id
                   \/ At(u, "solve", "refresh")' /\ Top(u)'.result = c.result
                   \/ ~collect' /\ ~armed' /\ ~At(u, "board", "take")'
    <3>1. CASE u = t /\ i = s /\ pending'[u][i] = e /\ Stores(p, e)
      BY <1>3, <1>10, <3>1
    <3>2. CASE /\ i \in Valid(pending[u]) /\ pending'[u][i] = pending[u][i]
               /\ u = t => pending[u][i].result # e.result /\ pending[u][i].tick = e.tick
      <4> DEFINE c == pending[u][i]
      <4>1. \/ c.epoch # epoch
            \/ latest[u][c.result] = c.id
            \/ At(u, "solve", "refresh") /\ Top(u).result = c.result
        BY <1>1, <3>2 DEF CaptureInv, LatestKnows
      <4>2. c.result \in Results
        BY <1>2, <3>2 DEF Arrays, Event, Valid, Free
      <4>3. CASE u = t
        BY <1>1, <1>10, <3>2, <4>1, <4>2, <4>3 DEF At, f, switchVars
      <4>4. CASE u # t
        BY <1>1, <1>4, <1>10, <3>2, <4>1, <4>2, <4>4
           DEF Popped, OtherStacks, At, Top, switchVars
      <4> QED BY <4>3, <4>4
    <3> QED BY <1>9, <3>1, <3>2
  <2> QED BY <2>1 DEF LatestKnows
<1> QED BY <1>11, <1>12, <1>13, <1>14, <1>15, <1>16 DEF CaptureInv

-----------------------------------------------------------------------------
(* CaptureClip and CaptureApply.                                           *)

\* The sample is written into the innermost registered solve, which may lie
\* under other hooks.
LEMMA ClipStep ==
    ASSUME TypeOK, CaptureInv, NEW t \in Threads, NEW player \in Players,
           NEW incoming \in Vectors, Clip(t, player, incoming)
    PROVE  TypeOK' /\ CaptureInv'
<1> DEFINE n == Innermost(t, "solve")
           g == stack[t][n]
           e == [result |-> g.result, player |-> player, tick |-> tick,
                 incoming |-> incoming, epoch |-> epoch, id |-> g.id]
           f == [g EXCEPT !.event = e]
<1>1. /\ InGame(t) /\ Contexts(t, "solve") # {} /\ g.epoch = epoch
      /\ stack' = [stack EXCEPT ![t][n].event = e]
      /\ UNCHANGED <<switchVars, tick, pending, threadEpoch, historyVars>>
  BY DEF Clip, MayCapture
<1>2. StackType /\ tick \in Nat /\ epoch \in Nat /\ solves \in Nat
      /\ threadEpoch \in [Threads -> Nat]
  BY Types DEF TypeOK
<1>3. n \in 1..Depth(t) /\ g.hook = "solve" /\ g \in Frame
  BY <1>1, <1>2, InnermostFound, FrameType
<1>4. FrameKnows(g, n, Depth(t), threadEpoch[t], solves) /\ g.step = "original"
  BY <1>1, <1>2, <1>3, OthersInGame DEF CaptureInv, FramesKnow
<1>5. stack' = [stack EXCEPT ![t][n] = f]
  BY <1>1
<1> HIDE DEF n, g
<1>6. /\ e \in Event /\ e.epoch = epoch /\ e.result = g.result /\ e.id = g.id
  BY <1>2, <1>3, <1>4 DEF Event, FrameKnows, Frame
<1> HIDE DEF e
<1>7. /\ f \in Frame /\ f.event = e /\ f.hook = "solve" /\ f.step = "original"
      /\ f.hook = g.hook /\ f.id = g.id /\ f.result = g.result /\ f.epoch = g.epoch
  BY <1>3, <1>4, <1>6 DEF Frame
<1> HIDE DEF f
<1>8. FrameKnows(f, n, Depth(t), threadEpoch[t], solves)
  BY <1>1, <1>4, <1>6, <1>7 DEF FrameKnows
<1>9. Written(t, n, f)
  BY <1>2, <1>3, <1>5, <1>7, WriteEffect
<1>10. ~At(t, "solve", "refresh") /\ ~At(t, "board", "take")'
  <2>1. ~At(t, "solve", "refresh") /\ ~At(t, "board", "take")
    BY <1>1 DEF InGame, At
  <2>2. CASE n = Depth(t)
    BY <1>7, <1>9, <2>1, <2>2 DEF Written, At
  <2>3. CASE n # Depth(t)
    BY <1>2, <1>3, <1>9, <2>1, <2>3, FrameType DEF Written, At, Depth
  <2> QED BY <2>1, <2>2, <2>3
<1>11. f.hook = stack[t][n].hook /\ f.id = stack[t][n].id
  BY <1>7 DEF g
<1> QED BY <1>1, <1>8, <1>9, <1>10, <1>11, QuietWrite

\* A new apply has no context yet.
LEMMA ApplyEnterStep ==
    ASSUME TypeOK, CaptureInv, NEW t \in Threads, NEW r \in Results, ApplyEnter(t, r)
    PROVE  TypeOK' /\ CaptureInv'
<1> DEFINE f == NewFrame("apply", IF collect THEN "refresh" ELSE "original", r, 0)
<1>1. /\ f \in Frame /\ f.hook = "apply" /\ f.result = r /\ f.event = NoEvent /\ f.epoch = 0
      /\ f.step \in {"refresh", "original"}
  BY DEF NewFrame, Frame
<1>2. /\ StackType /\ pending \in [Threads -> Arrays] /\ threadEpoch \in [Threads -> Nat]
      /\ solves \in Nat /\ latest \in [Threads -> [Results -> Nat]]
  BY Types DEF TypeOK
<1>3. Call(t, f) /\ InGame(t)
      /\ UNCHANGED <<switchVars, tick, pending, threadEpoch, historyVars>>
  BY DEF ApplyEnter, Call
<1> HIDE DEF f
<1>4. Pushed(t, f)
  BY <1>1, <1>2, <1>3, CallEffect
<1>5. FrameKnows(f, Depth(t)', Depth(t)', threadEpoch[t], solves)
  BY <1>1, <1>2 DEF FrameKnows
<1>6. FramesKnow'
  <2>1. threadEpoch'[t] \in Nat /\ threadEpoch' = threadEpoch /\ solves' = solves
    BY <1>2, <1>3 DEF historyVars
  <2> QED BY <1>3, <1>4, <1>5, <2>1, FramesPushed DEF CaptureInv
<1>7. SolvesKept
  BY <1>1, <1>2, <1>4, PushSolves
<1>8. ~At(t, "board", "take")' /\ ~At(t, "solve", "refresh")
  BY <1>1, <1>3, <1>4 DEF At, Pushed, InGame
<1>9. Keeps(pending[t], pending[t])
  BY <1>2, KeepsItself
<1>10. /\ pending' = [pending EXCEPT ![t] = pending[t]]
       /\ threadEpoch' = [threadEpoch EXCEPT ![t] = threadEpoch[t]]
       /\ latest' \in [Threads -> [Results -> Nat]] /\ latest' = latest
  BY <1>2, <1>3 DEF historyVars
<1> QED BY <1>3, <1>4, <1>6, <1>7, <1>8, <1>9, <1>10, QuietStep DEF Pushed, historyVars

\* RefreshEpoch drops the candidates of older sessions.
LEMMA ApplyRefreshStep ==
    ASSUME TypeOK, CaptureInv, NEW t \in Threads, ApplyRefresh(t)
    PROVE  TypeOK' /\ CaptureInv'
<1> DEFINE f == [Top(t) EXCEPT !.step = "original", !.hooked = TRUE, !.epoch = epoch]
           q == Refreshed(t)
<1>1. /\ stack[t] # << >> /\ At(t, "apply", "refresh") /\ SetTop(t, f)
      /\ threadEpoch' = [threadEpoch EXCEPT ![t] = epoch]
      /\ pending' = [pending EXCEPT ![t] = q]
      /\ UNCHANGED <<switchVars, tick, historyVars>>
  BY DEF ApplyRefresh, At
<1>2. /\ StackType /\ pending \in [Threads -> Arrays]
      /\ Depth(t) \in 1..Depth(t) /\ Top(t) = stack[t][Depth(t)] /\ Top(t) \in Frame
      /\ FrameKnows(Top(t), Depth(t), Depth(t), threadEpoch[t], solves)
      /\ threadEpoch[t] \in Nat /\ epoch \in Nat /\ solves \in Nat
  BY <1>1, TopKnows DEF CaptureInv
<1>3. threadEpoch[t] <= epoch
  BY DEF CaptureInv, EpochKnows
<1>4. /\ f \in Frame /\ f.hook = Top(t).hook /\ f.id = Top(t).id
      /\ f.hook = "apply" /\ f.step = "original"
      /\ FrameKnows(f, Depth(t), Depth(t), epoch, solves)
  <2>1. /\ f \in Frame /\ f.step = "original" /\ f.epoch = epoch
        /\ f.hook = Top(t).hook /\ f.id = Top(t).id
        /\ f.result = Top(t).result /\ f.event = Top(t).event
    <3>1. f = Registered(Top(t), epoch)
      BY DEF Registered
    <3>2. Top(t) \in Frame /\ epoch \in Nat
      BY <1>2
    <3> HIDE DEF f
    <3> QED BY <3>1, <3>2, RegisteredFrame
  <2> HIDE DEF f
  <2> QED BY <1>1, <1>2, <2>1 DEF At, FrameKnows
<1>5. Written(t, Depth(t), f)
  BY <1>1, <1>2, <1>4, SetTopEffect
<1>6. Keeps(pending[t], q) /\ (epoch = threadEpoch[t] \/ Valid(q) = {})
  BY <1>2, RefreshKeeps
<1> HIDE DEF f, q
<1>7. FramesKnow'
  BY <1>1, <1>2, <1>3, <1>4, <1>5, FramesWritten DEF CaptureInv, historyVars, TypeOK
<1>8. SolvesKept
  BY <1>2, <1>4, <1>5, WriteSolves
<1>9. /\ ~At(t, "board", "take")' /\ ~At(t, "solve", "refresh")
      /\ latest' \in [Threads -> [Results -> Nat]]
  BY <1>1, <1>2, <1>4, <1>5 DEF At, Written, TypeOK, historyVars
<1> QED BY <1>1, <1>5, <1>6, <1>7, <1>8, <1>9, QuietStep DEF Written, historyVars

\* The candidate of the applied result is forgotten or, in a new epoch, is no more.
LEMMA ApplyReturnStep ==
    ASSUME TypeOK, CaptureInv, NEW t \in Threads, ApplyReturn(t)
    PROVE  TypeOK' /\ CaptureInv'
<1> DEFINE f == Top(t)
           q == ForgetResult(pending[t], f.result)
<1>1. /\ stack[t] # << >> /\ f.hook = "apply" /\ f.step = "original" /\ Pop(t)
      /\ UNCHANGED <<switchVars, tick, threadEpoch, solves, uses>>
      /\ \/ /\ pending' = [pending EXCEPT ![t] = q]
            /\ latest' = [latest EXCEPT ![t][f.result] = 0]
         \/ pending' = pending /\ latest' = latest
  BY DEF ApplyReturn, At
<1>2. /\ StackType /\ pending \in [Threads -> Arrays] /\ f \in Frame
      /\ latest \in [Threads -> [Results -> Nat]] /\ threadEpoch \in [Threads -> Nat]
  BY <1>1, TopKnows DEF CaptureInv, TypeOK
<1>3. f.result \in Results
  BY <1>1, TopKnows DEF CaptureInv, FrameKnows
<1>4. ~At(t, "solve", "refresh")
  BY <1>1 DEF At
<1>5. CASE pending' = pending /\ latest' = latest
  BY <1>1, <1>4, <1>5, QuietPop DEF historyVars
<1>6. CASE /\ pending' = [pending EXCEPT ![t] = q]
           /\ latest' = [latest EXCEPT ![t][f.result] = 0]
  <2>1. Keeps(pending[t], q) /\ \A i \in Valid(q) : pending[t][i].result # f.result
    BY <1>2, ForgetKeeps
  <2> HIDE DEF f, q
  <2>2. Popped(t)
    BY <1>1, <1>2, PopEffect
  <2>3. FramesKnow'
    BY <1>1, <2>2, FramesPopped DEF CaptureInv
  <2>4. SolvesKept
    BY <1>2, <2>2, PopSolves
  <2>5. ~At(t, "board", "take")'
    BY <1>2, <2>2, PopInGame DEF CaptureInv
  <2>6. threadEpoch' = [threadEpoch EXCEPT ![t] = threadEpoch[t]]
    BY <1>1, <1>2
  <2>7. /\ latest' \in [Threads -> [Results -> Nat]]
        /\ \A u \in Threads \ {t} : latest'[u] = latest[u]
        /\ \A r \in Results : r # f.result => latest'[t][r] = latest[t][r]
    BY <1>2, <1>3, <1>6
  <2>8. \A i \in Valid(q) : q[i].result \in Results /\ q[i].result # f.result
    BY <2>1 DEF Keeps, Arrays, Event, Valid, Free
  <2>9. \A i \in Valid(q) : latest'[t][q[i].result] = latest[t][q[i].result]
    BY <2>7, <2>8
  <2> QED BY <1>1, <1>4, <1>6, <2>1, <2>2, <2>3, <2>4, <2>5, <2>6, <2>7, <2>9, QuietStep
       DEF Popped
<1> QED BY <1>1, <1>5, <1>6

-----------------------------------------------------------------------------
(* CaptureBoard.                                                           *)

\* A board reads the epoch its event will be pushed with.
LEMMA BoardEnterStep ==
    ASSUME TypeOK, CaptureInv, NEW t \in Threads, BoardEnter(t)
    PROVE  TypeOK' /\ CaptureInv'
<1> DEFINE f == [NewFrame("board", "check", 0, 0) EXCEPT !.epoch = epoch]
           q == Refreshed(t)
<1>1. /\ Call(t, f) /\ InGame(t)
      /\ threadEpoch' = [threadEpoch EXCEPT ![t] = epoch]
      /\ pending' = [pending EXCEPT ![t] = q]
      /\ UNCHANGED <<switchVars, tick, historyVars>>
  BY DEF BoardEnter, Call
<1>2. /\ StackType /\ pending \in [Threads -> Arrays] /\ threadEpoch \in [Threads -> Nat]
      /\ solves \in Nat /\ epoch \in Nat /\ latest \in [Threads -> [Results -> Nat]]
  BY Types DEF TypeOK
<1>3. /\ f \in Frame /\ f.hook = "board" /\ f.event = NoEvent /\ f.epoch = epoch
      /\ f.step = "check"
  BY <1>2 DEF NewFrame, Frame
<1>4. Keeps(pending[t], q) /\ (epoch = threadEpoch[t] \/ Valid(q) = {})
  BY <1>2, RefreshKeeps
<1> HIDE DEF f, q
<1>5. Pushed(t, f)
  BY <1>1, <1>2, <1>3, CallEffect
<1>6. FrameKnows(f, Depth(t)', Depth(t)', epoch, solves)
  BY <1>2, <1>3 DEF FrameKnows
<1>7. /\ threadEpoch'[t] = epoch /\ threadEpoch[t] <= epoch
      /\ \A u \in Threads \ {t} : threadEpoch'[u] = threadEpoch[u]
  BY <1>1, <1>2 DEF CaptureInv, EpochKnows
<1>8. FramesKnow'
  BY <1>1, <1>2, <1>5, <1>6, <1>7, FramesPushed DEF CaptureInv, historyVars
<1>9. SolvesKept
  BY <1>2, <1>3, <1>5, PushSolves
<1>10. /\ ~At(t, "board", "take")' /\ ~At(t, "solve", "refresh")
       /\ latest' \in [Threads -> [Results -> Nat]] /\ latest' = latest
  BY <1>1, <1>2, <1>3, <1>5 DEF At, Pushed, InGame, historyVars
<1> QED BY <1>1, <1>4, <1>5, <1>8, <1>9, <1>10, QuietStep DEF Pushed, historyVars

\* A board goes on to take a candidate only while collection is on.
LEMMA BoardCheckStep ==
    ASSUME TypeOK, CaptureInv, NEW t \in Threads, BoardCheck(t)
    PROVE  TypeOK' /\ CaptureInv'
<1> DEFINE s == IF collect THEN "take" ELSE "original"
           f == [Top(t) EXCEPT !.step = s]
<1>1. /\ stack[t] # << >> /\ Top(t).hook = "board" /\ Top(t).step = "check" /\ SetTop(t, f)
      /\ UNCHANGED <<switchVars, tick, pending, threadEpoch, historyVars>>
  BY DEF BoardCheck, At
<1>2. /\ StackType
      /\ Depth(t) \in 1..Depth(t) /\ Top(t) = stack[t][Depth(t)] /\ Top(t) \in Frame
      /\ FrameKnows(Top(t), Depth(t), Depth(t), threadEpoch[t], solves)
  BY <1>1, TopKnows DEF CaptureInv
<1>3. s \in {"take", "original"} /\ (s = "take" => collect) /\ f = Going(Top(t), s)
  BY DEF Going
<1> HIDE DEF f, s
<1>4. /\ f \in Frame /\ f.step = s /\ f.epoch = Top(t).epoch
      /\ f.hook = Top(t).hook /\ f.id = Top(t).id
      /\ f.result = Top(t).result /\ f.event = Top(t).event
  BY <1>2, <1>3, GoingFrame
<1>5. FrameKnows(f, Depth(t), Depth(t), threadEpoch[t], solves)
  BY <1>1, <1>2, <1>3, <1>4 DEF FrameKnows
<1>6. Written(t, Depth(t), f)
  BY <1>1, <1>2, <1>4, SetTopEffect
<1>7. ~At(t, "solve", "refresh") /\ (At(t, "board", "take")' => collect)
  BY <1>1, <1>2, <1>3, <1>4, <1>6 DEF At, Written
<1> QED BY <1>1, <1>2, <1>4, <1>5, <1>6, <1>7, QuietWrite

\* A board takes nothing.
LEMMA BoardPassStep ==
    ASSUME TypeOK, CaptureInv, NEW t \in Threads, BoardPass(t)
    PROVE  TypeOK' /\ CaptureInv'
<1> DEFINE f == [Top(t) EXCEPT !.step = "original"]
<1>1. /\ stack[t] # << >> /\ At(t, "board", "take") /\ SetTop(t, f)
      /\ UNCHANGED <<switchVars, tick, pending, threadEpoch, historyVars>>
  BY DEF BoardPass, At
<1>2. /\ StackType
      /\ Depth(t) \in 1..Depth(t) /\ Top(t) = stack[t][Depth(t)] /\ Top(t) \in Frame
      /\ FrameKnows(Top(t), Depth(t), Depth(t), threadEpoch[t], solves)
  BY <1>1, TopKnows DEF CaptureInv
<1>3. f = Going(Top(t), "original")
  BY DEF Going
<1> HIDE DEF f
<1>4. /\ f \in Frame /\ f.step = "original" /\ f.epoch = Top(t).epoch
      /\ f.hook = Top(t).hook /\ f.id = Top(t).id
      /\ f.result = Top(t).result /\ f.event = Top(t).event
  BY <1>2, <1>3, GoingFrame
<1>5. FrameKnows(f, Depth(t), Depth(t), threadEpoch[t], solves)
  BY <1>1, <1>2, <1>4 DEF FrameKnows, At
<1>6. Written(t, Depth(t), f)
  BY <1>1, <1>2, <1>4, SetTopEffect
<1>7. ~At(t, "solve", "refresh")
  BY <1>1 DEF At
<1> QED BY <1>1, <1>2, <1>4, <1>5, <1>6, <1>7, QuietWrite

\* A board returns.
LEMMA BoardReturnStep ==
    ASSUME TypeOK, CaptureInv, NEW t \in Threads, BoardReturn(t)
    PROVE  TypeOK' /\ CaptureInv'
BY QuietPop DEF BoardReturn, At

\* What a board knows before it takes the candidate of the result being applied.
LEMMA TakeFinds ==
    ASSUME TypeOK, CaptureInv, NEW t \in Threads, At(t, "board", "take"), NEW r,
           Holding(pending[t], r) # {}
    PROVE  LET s == TakeSlot(pending[t], r)
               e == pending[t][s]
           IN  /\ s \in Valid(pending[t]) /\ e \in Event /\ e # NoEvent /\ e.result = r
               /\ e.epoch = threadEpoch[t] /\ Top(t).epoch = threadEpoch[t]
               /\ e.id \in 1..solves /\ e.id \in 1..MaxSolves /\ uses[e.id] = 0
<1> DEFINE s == TakeSlot(pending[t], r)
<1>1. pending[t] \in Arrays /\ solves \in Nat
  BY Types DEF TypeOK
<1>2. s \in Valid(pending[t]) /\ pending[t][s].result = r
  BY <1>1, TakeKeeps DEF Holding
<1> HIDE DEF s
<1>3. pending[t][s] \in Event /\ pending[t][s] # NoEvent
  BY <1>1, <1>2 DEF Arrays, Valid, Free
<1>4. pending[t][s].epoch = threadEpoch[t]
  BY <1>2 DEF CaptureInv, PendingIsClean
<1>5. Top(t).epoch = threadEpoch[t]
  BY TopKnows DEF CaptureInv, At, FrameKnows
<1>6. pending[t][s].id \in 1..solves /\ uses[pending[t][s].id] = 0 /\ solves \in 0..MaxSolves
  BY <1>2 DEF CaptureInv, UseOnce
<1>7. pending[t][s].id \in 1..MaxSolves
  BY <1>1, <1>6, BoundsAssumption
<1> QED BY <1>2, <1>3, <1>4, <1>5, <1>6, <1>7 DEF s

\* The candidate leaves its slot in the step that uses it.
LEMMA BoardTakeStep ==
    ASSUME TypeOK, CaptureInv, NEW t \in Threads, NEW player \in Players,
           NEW incoming \in Vectors, BoardTake(t, player, incoming)
    PROVE  TypeOK' /\ CaptureInv'
<1> DEFINE r == stack[t][Innermost(t, "apply")].result
           p == pending[t]
           s == TakeSlot(p, r)
           e == p[s]
           q == TakeCandidate(p, r)
           g == [Top(t) EXCEPT !.step = "original"]
           h == [Top(t) EXCEPT !.step = "original", !.event = e]
<1>1. /\ stack[t] # << >> /\ At(t, "board", "take") /\ pending' = [pending EXCEPT ![t] = q]
      /\ UNCHANGED <<switchVars, tick, threadEpoch, solves, latest>>
      /\ \/ Holding(p, r) # {} /\ SetTop(t, h) /\ uses' = [uses EXCEPT ![e.id] = @ + 1]
         \/ SetTop(t, g) /\ uses' = uses
  BY DEF BoardTake, At, Matches
<1>2. /\ StackType /\ pending \in [Threads -> Arrays]
      /\ Depth(t) \in 1..Depth(t) /\ Top(t) = stack[t][Depth(t)] /\ Top(t) \in Frame
      /\ FrameKnows(Top(t), Depth(t), Depth(t), threadEpoch[t], solves)
      /\ threadEpoch[t] \in Nat /\ epoch \in Nat /\ solves \in Nat
  BY <1>1, TopKnows DEF CaptureInv
<1>3. p \in Arrays /\ Keeps(p, q) /\ (Holding(p, r) # {} => s \notin Valid(q))
  <2>1. p \in Arrays
    BY <1>2, Zenon
  <2> HIDE DEF p, r
  <2> QED BY <2>1, TakeKeeps
<1>4. Holding(p, r) # {} =>
         /\ s \in Valid(p) /\ e \in Event /\ e # NoEvent
         /\ e.epoch = threadEpoch[t] /\ Top(t).epoch = threadEpoch[t]
         /\ e.id \in 1..MaxSolves /\ uses[e.id] = 0
  BY <1>1, TakeFinds
<1> HIDE DEF r, p, s, e, q
<1>5. PICK f \in {g, h} :
         /\ SetTop(t, f)
         /\ \/ f = h /\ Holding(p, r) # {} /\ uses' = [uses EXCEPT ![e.id] = @ + 1]
            \/ f = g /\ uses' = uses
  BY <1>1
<1>6. /\ f \in Frame /\ f.step = "original" /\ f.hook = Top(t).hook /\ f.id = Top(t).id
      /\ FrameKnows(f, Depth(t), Depth(t), threadEpoch[t], solves)
  <2>1. Top(t).hook = "board"
    BY <1>1 DEF At
  <2>2. CASE f = g
    <3>1. f = Going(Top(t), "original")
      BY <2>2 DEF Going
    <3>2. /\ f \in Frame /\ f.step = "original" /\ f.epoch = Top(t).epoch
          /\ f.hook = Top(t).hook /\ f.id = Top(t).id
          /\ f.result = Top(t).result /\ f.event = Top(t).event
      BY <1>2, <3>1, GoingFrame
    <3> QED BY <1>2, <2>1, <3>2 DEF FrameKnows
  <2>3. CASE f = h /\ Holding(p, r) # {}
    <3>1. /\ f \in Frame /\ f.step = "original" /\ f.epoch = Top(t).epoch
          /\ f.hook = Top(t).hook /\ f.id = Top(t).id /\ f.event = e
      BY <1>2, <1>4, <2>3 DEF Frame
    <3> QED BY <1>2, <1>4, <2>1, <2>3, <3>1 DEF FrameKnows
  <2> QED BY <1>5, <2>2, <2>3
<1> HIDE DEF g, h
<1>7. Written(t, Depth(t), f)
  BY <1>1, <1>2, <1>5, <1>6, SetTopEffect
<1>8. FramesKnow'
  BY <1>1, <1>2, <1>6, <1>7, FramesWritten DEF CaptureInv
<1>9. SolvesKept
  BY <1>2, <1>6, <1>7, WriteSolves
<1>10. AllKept /\ pending'[t] = q
  BY <1>1, <1>2, <1>3, OneArrayKept DEF p
<1>11. uses' \in [1..MaxSolves -> Nat] /\ UseOnce'
  <2>1. UseOnce /\ uses \in [1..MaxSolves -> Nat]
    BY DEF CaptureInv, TypeOK
  <2>2. CASE uses' = uses
    BY <1>1, <1>9, <1>10, <2>1, <2>2, UseOnceKept
  <2>3. CASE Holding(p, r) # {} /\ uses' = [uses EXCEPT ![e.id] = @ + 1]
    <3>1. /\ s \in Valid(pending[t]) /\ pending[t][s] = e /\ s \notin Valid(pending'[t])
          /\ e.id \in 1..MaxSolves /\ uses[e.id] = 0
      BY <1>3, <1>4, <1>10, <2>3 DEF p, e
    <3>2. \A u \in Threads : \A i \in Valid(pending'[u]) :
             /\ i \in Valid(pending[u]) /\ pending'[u][i] = pending[u][i]
             /\ (u # t \/ i # s)
      BY <1>10, <3>1 DEF AllKept, Keeps
    <3>3. \A u \in Threads : \A i \in Valid(pending'[u]) : pending'[u][i].id # e.id
      BY <2>1, <3>1, <3>2 DEF UseOnce
    <3>4. \A u \in Threads : \A j \in Nat : Solves(u, j)' => stack'[u][j].id # e.id
      BY <1>9, <2>1, <3>1 DEF UseOnce, SolvesKept
    <3>5. /\ uses' \in [1..MaxSolves -> Nat] /\ uses'[e.id] = 1
          /\ \A n \in 1..MaxSolves \ {e.id} : uses'[n] = uses[n]
      BY <2>1, <2>3, <3>1
    <3>6. \A v, u \in Threads : \A i, j \in Nat :
             Solves(v, i)' /\ Solves(u, j)' /\ stack'[v][i].id = stack'[u][j].id
                 => v = u /\ i = j
      BY <1>9, <2>1 DEF UseOnce, SolvesKept
    <3>7. \A v, u \in Threads : \A i \in Valid(pending'[v]), j \in Valid(pending'[u]) :
             pending'[v][i].id = pending'[u][j].id => v = u /\ i = j
      BY <2>1, <3>2 DEF UseOnce
    <3>8. \A v, u \in Threads : \A i \in Valid(pending'[v]), j \in Nat :
             Solves(u, j)' => pending'[v][i].id # stack'[u][j].id
      BY <1>9, <2>1, <3>2 DEF UseOnce, SolvesKept
    <3>9. \A u \in Threads : \A i \in Valid(pending'[u]) :
             pending'[u][i].id \in 1..solves /\ uses'[pending'[u][i].id] = 0
      BY <2>1, <2>3, <3>2, <3>3, <3>5 DEF UseOnce
    <3>10. \A u \in Threads : \A j \in Nat : Solves(u, j)' => uses'[stack'[u][j].id] = 0
      BY <1>9, <2>1, <2>3, <3>4, <3>5 DEF UseOnce, SolvesKept
    <3>11. \A n \in 1..MaxSolves : uses'[n] <= 1 /\ (n > solves => uses'[n] = 0)
      BY <1>2, <2>1, <3>1, <3>5 DEF UseOnce
    <3> QED BY <1>1, <2>1, <3>5, <3>6, <3>7, <3>8, <3>9, <3>10, <3>11 DEF UseOnce
  <2> QED BY <1>5, <2>2, <2>3
<1>12. ~At(t, "board", "take")' /\ ~At(t, "solve", "refresh")
  BY <1>1, <1>2, <1>6, <1>7 DEF At, Written
<1>13. /\ threadEpoch' = [threadEpoch EXCEPT ![t] = threadEpoch[t]]
       /\ latest' \in [Threads -> [Results -> Nat]]
  BY <1>1 DEF TypeOK
<1> QED BY <1>1, <1>3, <1>7, <1>8, <1>11, <1>12, <1>13, KeepingStep DEF Written, p

-----------------------------------------------------------------------------
(* Sessions, and the theorems.                                             *)

\* A session is renewed, switched on or off between any two steps of the hooks.
LEMMA SessionStep ==
    ASSUME TypeOK, CaptureInv, Session PROVE TypeOK' /\ CaptureInv'
<1>1. /\ UNCHANGED <<tick, threadVars, historyVars>>
      /\ Switch!Renew \/ Switch!SwitchOn \/ Switch!Abandon \/ Switch!SwitchOff
  BY DEF Session, Switch!Next
<1> USE DEF Switch!Renew, Switch!SwitchOn, Switch!Abandon, Switch!SwitchOff
<1>2. TypeOK'
  <2>1. collect \in BOOLEAN /\ epoch \in Nat /\ armed \in BOOLEAN
    BY DEF TypeOK
  <2>2. collect' \in BOOLEAN /\ armed' \in BOOLEAN
    BY <1>1, <2>1, Zenon
  <2>3. epoch' \in Nat
    <3>1. epoch' = epoch + 1 \/ epoch' = epoch
      BY <1>1, Zenon
    <3> QED BY <2>1, <3>1
  <2> QED BY <1>1, <2>2, <2>3 DEF TypeOK, threadVars, historyVars
<1>3. FramesKnow' /\ PendingIsClean' /\ UseOnce'
  <2>1. FramesKnow'
    BY <1>1 DEF CaptureInv, FramesKnow, Depth, threadVars, historyVars
  <2>2. PendingIsClean'
    BY <1>1 DEF CaptureInv, PendingIsClean, threadVars, historyVars
  <2>3. UseOnce'
    BY <1>1 DEF CaptureInv, UseOnce, Solves, Depth, threadVars, historyVars
  <2> QED BY <2>1, <2>2, <2>3
<1>4. \A t \in Threads : threadEpoch[t] \in Nat /\ epoch \in Nat /\ threadEpoch[t] <= epoch
  BY DEF TypeOK, CaptureInv, EpochKnows
<1>5. \A t \in Threads : \A i \in Valid(pending[t]) : pending[t][i].epoch = threadEpoch[t]
  BY DEF CaptureInv, PendingIsClean
<1>6. EpochKnows'
  BY <1>1, <1>4, <1>5 DEF CaptureInv, EpochKnows, threadVars
<1>7. LatestKnows'
  <2>1. ASSUME NEW t \in Threads, NEW i \in Valid(pending'[t])
        PROVE  LET e == pending'[t][i]
               IN  \/ e.epoch # epoch'
                   \/ latest'[t][e.result] = e.id
                   \/ At(t, "solve", "refresh")' /\ Top(t)'.result = e.result
                   \/ ~collect' /\ ~armed' /\ ~At(t, "board", "take")'
    <3> DEFINE e == pending[t][i]
    <3>1. /\ pending' = pending /\ latest' = latest /\ i \in Valid(pending[t])
          /\ At(t, "solve", "refresh")' = At(t, "solve", "refresh") /\ Top(t)' = Top(t)
          /\ At(t, "board", "take")' = At(t, "board", "take")
      BY <1>1, <2>1 DEF threadVars, historyVars, At, Top
    <3>2. \/ e.epoch # epoch
          \/ latest[t][e.result] = e.id
          \/ At(t, "solve", "refresh") /\ Top(t).result = e.result
          \/ ~collect /\ ~armed /\ ~At(t, "board", "take")
      BY <3>1 DEF CaptureInv, LatestKnows
    <3>3. CASE Switch!Renew
      BY <1>4, <1>5, <3>1, <3>3
    <3>4. CASE Switch!SwitchOn \/ Switch!Abandon
      BY <3>1, <3>4 DEF CaptureInv, EpochKnows
    <3>5. CASE Switch!SwitchOff
      BY <3>1, <3>2, <3>5
    <3> QED BY <1>1, <3>3, <3>4, <3>5
  <2> QED BY <2>1 DEF LatestKnows
<1> QED BY <1>2, <1>3, <1>6, <1>7 DEF CaptureInv

\* A step that leaves everything but the tick alone.
LEMMA TickStep ==
    ASSUME TypeOK, CaptureInv, UNCHANGED <<switchVars, threadVars, historyVars>>,
           tick' \in Nat
    PROVE  TypeOK' /\ CaptureInv'
<1> USE DEF switchVars, threadVars, historyVars
<1>1. TypeOK'
  BY DEF TypeOK
<1>2. FramesKnow' /\ EpochKnows'
  BY DEF CaptureInv, FramesKnow, EpochKnows, Depth
<1>3. PendingIsClean'
  BY DEF CaptureInv, PendingIsClean
<1>4. UseOnce'
  BY DEF CaptureInv, UseOnce, Solves, Depth
<1>5. LatestKnows'
  BY DEF CaptureInv, LatestKnows, At, Top
<1> QED BY <1>1, <1>2, <1>3, <1>4, <1>5 DEF CaptureInv

\* No thread has a frame or a candidate.
LEMMA CaptureInit == Init => TypeOK /\ CaptureInv
<1> SUFFICES ASSUME Init PROVE TypeOK /\ CaptureInv
  OBVIOUS
<1> USE BoundsAssumption DEF Init, Switch!Init
<1>1. \A t \in Threads : stack[t] = << >> /\ Depth(t) = 0 /\ Valid(pending[t]) = {}
  BY EmptySeq DEF Depth, Valid, Free, NoPending
<1>2. TypeOK
  BY EmptySeq DEF TypeOK, NoPending
<1>3. FramesKnow /\ EpochKnows
  BY <1>1 DEF FramesKnow, EpochKnows
<1>4. PendingIsClean
  BY <1>1 DEF PendingIsClean, OnePerResult, OneTick
<1>5. UseOnce
  BY <1>1 DEF UseOnce, Solves
<1>6. LatestKnows
  BY <1>1 DEF LatestKnows
<1> QED BY <1>2, <1>3, <1>4, <1>5, <1>6 DEF CaptureInv

\* Every step keeps the types and the invariant.
LEMMA CaptureNext == TypeOK /\ CaptureInv /\ [Next]_vars => TypeOK' /\ CaptureInv'
<1> SUFFICES ASSUME TypeOK, CaptureInv, [Next]_vars PROVE TypeOK' /\ CaptureInv'
  OBVIOUS
<1>1. CASE Session
  BY <1>1, SessionStep
<1>2. CASE Tick
  BY <1>2, TickStep DEF Tick, TypeOK
<1>3. CASE UNCHANGED vars
  BY <1>3, TickStep DEF vars, TypeOK
<1>4. ASSUME NEW t \in Threads, GameCall(t) PROVE TypeOK' /\ CaptureInv'
  BY <1>4, SolveEnterStep, ApplyEnterStep, BoardEnterStep DEF GameCall
<1>5. ASSUME NEW t \in Threads, HookStep(t) PROVE TypeOK' /\ CaptureInv'
  BY <1>5, SolveRefreshStep, SolveReturnStep, SolveStoreStep, SolveLoseStep, ClipStep,
     ApplyRefreshStep, ApplyReturnStep, BoardCheckStep, BoardPassStep, BoardReturnStep,
     BoardTakeStep DEF HookStep
<1> QED BY <1>1, <1>2, <1>3, <1>4, <1>5 DEF Next

\* The hooks keep their types and the invariant, whatever the game calls on
\* however many threads and whenever sessions start and end.
THEOREM CaptureCorrect == Spec => [](TypeOK /\ CaptureInv)
<1>1. Init => TypeOK /\ CaptureInv
  BY CaptureInit
<1>2. TypeOK /\ CaptureInv /\ [Next]_vars => (TypeOK /\ CaptureInv)'
  BY CaptureNext
<1> QED BY <1>1, <1>2, PTL DEF Spec

\* The thread-local arrays and the hook frames keep their types.
THEOREM CaptureType == Spec => []TypeOK
BY CaptureCorrect, PTL

\* A thread holds at most one candidate per result, none of two ticks and none of
\* an older session than its array's: RefreshEpoch, ForgetResult and StoreCandidate
\* together keep what TakeCandidate's "exactly one" rests on.
THEOREM PendingStaysClean == Spec => []PendingIsClean
<1>1. CaptureInv => PendingIsClean
  BY DEF CaptureInv
<1> QED BY <1>1, CaptureCorrect, PTL

\* TakeCandidate never returns a collision a second time, however often its result
\* is applied and however the hooks nest.
THEOREM CollisionUsedOnce == Spec => []UsedOnce
<1>1. CaptureInv => UsedOnce
  BY DEF CaptureInv, UseOnce, UsedOnce
<1> QED BY <1>1, CaptureCorrect, PTL

\* The event CaptureBoard hands to PushEvent carries the epoch it is pushed with.
THEOREM AcceptedIsOfSession == Spec => []AcceptedOfSession
<1>1. TypeOK /\ CaptureInv => AcceptedOfSession
  BY Types, FrameType DEF CaptureInv, FramesKnow, FrameKnows, AcceptedOfSession
<1> QED BY <1>1, CaptureCorrect, PTL

\* Only CaptureBoard uses a candidate, and the one it uses in the current session
\* was measured by the last solve of its result.
LEMMA TakenIsLatest ==
    ASSUME TypeOK, CaptureInv, Next, NEW n \in 1..MaxSolves, uses'[n] # uses[n]
    PROVE  \E t \in Threads :
              /\ At(t, "board", "take")
              /\ Top(t).epoch = epoch => \E r \in Results : latest[t][r] = n
<1>1. PICK t \in Threads, player \in Players, incoming \in Vectors :
         BoardTake(t, player, incoming)
  BY DEF Next, Session, Tick, GameCall, HookStep, SolveEnter, ApplyEnter, BoardEnter,
     SolveRefresh, SolveReturn, SolveStore, SolveLose, Clip, ApplyRefresh, ApplyReturn,
     BoardCheck, BoardPass, BoardReturn, historyVars
<1> DEFINE r == stack[t][Innermost(t, "apply")].result
           e == pending[t][TakeSlot(pending[t], r)]
<1>2. /\ At(t, "board", "take") /\ Holding(pending[t], r) # {}
      /\ uses' = [uses EXCEPT ![e.id] = @ + 1]
  BY <1>1 DEF BoardTake, Matches
<1> HIDE DEF r
<1>3. /\ TakeSlot(pending[t], r) \in Valid(pending[t]) /\ e \in Event
      /\ e.epoch = threadEpoch[t] /\ Top(t).epoch = threadEpoch[t]
  BY <1>2, TakeFinds
<1>4. n = e.id
  BY <1>2 DEF TypeOK
<1>5. ASSUME Top(t).epoch = epoch PROVE latest[t][e.result] = n /\ e.result \in Results
  BY <1>2, <1>3, <1>4, <1>5 DEF CaptureInv, LatestKnows, At, Event
<1> QED BY <1>2, <1>5

\* An event accepted for the current session was measured by the last solve of its
\* result: a result object that is solved again, or applied, loses the older
\* candidate.
THEOREM TakenIsTheLatest == Spec => TakesLatest
<1>1. TypeOK /\ CaptureInv /\ [Next]_vars =>
         [\A n \in 1..MaxSolves : uses'[n] # uses[n] =>
             \E t \in Threads :
                 /\ At(t, "board", "take")
                 /\ Top(t).epoch = epoch => \E r \in Results : latest[t][r] = n]_vars
  BY TakenIsLatest
<1> QED BY <1>1, CaptureCorrect, PTL DEF Spec, TakesLatest

=============================================================================
