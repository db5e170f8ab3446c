--------------------------- MODULE LauncherProofs ---------------------------
(***************************************************************************)
(* Proofs about Launcher, for any number of launchers and of Controllers    *)
(* run by hand: arguments stay, one launcher works, success means over.     *)
(***************************************************************************)
EXTENDS Launcher, TLAPS

\* The Controllers of launcher l.
StartOf(l) == <<l, "start">>
WaitOf(l)  == <<l, "wait">>
StopOf(l)  == <<l, "stop">>

LEMMA ChildrenAre ==
    ASSUME NEW l \in Launchers
    PROVE  /\ StartOf(l) \in Controllers /\ StartOf(l) \in Starters
           /\ WaitOf(l) \in Controllers /\ StopOf(l) \in Controllers
           /\ Command(StartOf(l)) = "start" /\ Command(WaitOf(l)) = "wait"
           /\ Command(StopOf(l)) = "stop"
           /\ StartOf(l) # WaitOf(l) /\ StartOf(l) # StopOf(l) /\ WaitOf(l) # StopOf(l)
           /\ \A m \in Launchers, c \in Commands : <<m, c>> = StartOf(l) => m = l /\ c = "start"
BY DEF StartOf, WaitOf, StopOf, Controllers, Children, Commands, Starters, Command

LEMMA TypeInit == Init => TypeOK
<1> SUFFICES ASSUME Init PROVE TypeOK
  OBVIOUS
<1>1. session \in [Starters -> 0..sessions] /\ awaited \in [Controllers -> 0..sessions]
  BY DEF Init
<1>2. hud \in 0..sessions /\ sessions \in Nat /\ lock \in Controllers \cup {NoOne}
  BY DEF Init
<1>3. /\ result \in [Controllers -> Results] /\ exit \in [Controllers -> Results]
      /\ error \in [Launchers -> Results]
  BY DEF Init, Results
<1> QED BY <1>1, <1>2, <1>3 DEF Init, TypeOK

LEMMA TypeThread ==
    ASSUME TypeOK, NEW p \in Controllers, Thread(p) PROVE TypeOK'
<1> USE DEF TypeOK, Results, gameVars, hudVars, threadVars, processVars, launcherVars,
    ThreadReturn, ThreadGoto, Starters
<1>1. CASE ThreadLoad(p)
  BY <1>1 DEF ThreadLoad
<1>2. CASE StartEnter(p)
  BY <1>2 DEF StartEnter
<1>3. CASE StartFails(p)
  BY <1>3 DEF StartFails
<1>4. CASE StartHud(p)
  <2>1. sessions' \in Nat /\ hud' \in 0..sessions'
    BY <1>4 DEF StartHud
  <2>2. 0..sessions \subseteq 0..sessions' /\ sessions + 1 \in 0..sessions'
    BY <1>4 DEF StartHud
  <2>3. session' = [session EXCEPT ![p] = sessions + 1] /\ awaited' = awaited
    BY <1>4 DEF StartHud
  <2>4. session' \in [Starters -> 0..sessions']
    <3> SUFFICES ASSUME NEW q \in Starters PROVE session'[q] \in 0..sessions'
      BY <2>3
    <3> QED BY <2>2, <2>3
  <2>5. awaited' \in [Controllers -> 0..sessions']
    BY <2>2, <2>3
  <2>6. thread' \in [Controllers ->
            {"none", "load", "enter", "start", "ready", "drain", "wait", "ended"}]
    BY <1>4 DEF StartHud
  <2> QED BY <1>4, <2>1, <2>4, <2>5, <2>6 DEF StartHud
<1>5. CASE StartReady(p)
  BY <1>5 DEF StartReady
<1>6. CASE StartNotReady(p)
  BY <1>6 DEF StartNotReady
<1>7. CASE StopEnter(p)
  BY <1>7 DEF StopEnter
<1>8. CASE Drained(p)
  BY <1>8 DEF Drained
<1>9. CASE WaitEnter(p)
  BY <1>9 DEF WaitEnter
<1>10. CASE WaitReturn(p)
  BY <1>10 DEF WaitReturn
<1> QED BY <1>1, <1>2, <1>3, <1>4, <1>5, <1>6, <1>7, <1>8, <1>9, <1>10 DEF Thread

LEMMA TypeController ==
    ASSUME TypeOK, NEW p \in Controllers, Controller(p) \/ RunByHand(p) PROVE TypeOK'
<1> USE DEF TypeOK, Results, gameVars, hudVars, threadVars, processVars, launcherVars,
    ExitWith, Goto
<1>1. CASE Refuse(p) \/ Locate(p) \/ Unresolved(p) \/ Verify(p) \/ RunByHand(p)
  BY <1>1 DEF Refuse, Locate, Unresolved, Verify, RunByHand, Run
<1>2. CASE CallBegin(p)
  BY <1>2 DEF CallBegin, TakesArgument, ThreadGoto
<1>3. CASE CallDone(p)
  BY <1>3 DEF CallDone
<1>4. CASE CallTimeout(p)
  BY <1>4 DEF CallTimeout
<1> QED BY <1>1, <1>2, <1>3, <1>4 DEF Controller

LEMMA TypeLauncher ==
    ASSUME TypeOK, NEW l \in Launchers, Launcher(l) PROVE TypeOK'
<1> USE ChildrenAre DEF TypeOK, Results, gameVars, hudVars, threadVars, processVars,
    launcherVars, LauncherGoto, Fail, Run, Goto, ChildExited
<1>1. CASE Launch(l)
  BY <1>1 DEF Launch
<1>2. CASE Own(l)
  BY <1>2 DEF Own
<1>3. CASE Started(l)
  BY <1>3 DEF Started
<1>4. CASE Waited(l)
  BY <1>4 DEF Waited, WaitOf
<1>5. CASE Check(l)
  BY <1>5 DEF Check
<1>6. CASE Stopped(l)
  BY <1>6 DEF Stopped
<1>7. CASE Final(l)
  BY <1>7 DEF Final, Close
<1> QED BY <1>1, <1>2, <1>3, <1>4, <1>5, <1>6, <1>7 DEF Launcher

LEMMA TypeGame ==
    ASSUME TypeOK, QuitHud \/ HudEnds \/ GameTerminates \/ GameExits PROVE TypeOK'
<1> USE DEF TypeOK, Results, gameVars, hudVars, threadVars, processVars, launcherVars
<1>1. 0 \in 0..sessions
  OBVIOUS
<1>2. CASE QuitHud
  BY <1>2 DEF QuitHud
<1>3. CASE HudEnds
  BY <1>1, <1>3 DEF HudEnds
<1>4. CASE GameExits
  BY <1>4 DEF GameExits
<1>5. CASE GameTerminates
  <2>1. result' \in [Controllers -> Results]
    BY <1>5 DEF GameTerminates
  <2>2. thread' \in [Controllers ->
            {"none", "load", "enter", "start", "ready", "drain", "wait", "ended"}]
    BY <1>5 DEF GameTerminates
  <2> HIDE DEF Results
  <2> QED BY <1>1, <1>5, <2>1, <2>2 DEF GameTerminates
<1> QED BY <1>2, <1>3, <1>4, <1>5

LEMMA TypeStep == TypeOK /\ [Next]_vars => TypeOK'
<1> SUFFICES ASSUME TypeOK, [Next]_vars PROVE TypeOK'
  OBVIOUS
<1>1. CASE UNCHANGED vars
  BY <1>1 DEF vars, TypeOK, gameVars, hudVars, threadVars, processVars, launcherVars
<1> QED BY <1>1, TypeThread, TypeController, TypeLauncher, TypeGame DEF Next

\* Every variable of launchers, Controllers, remote threads and game keeps its type,
\* in particular a Controller exits with success or failure and nothing else.
THEOREM LauncherTypeCorrect == Spec => []TypeOK
<1> QED BY TypeInit, TypeStep, PTL DEF Spec

-----------------------------------------------------------------------------
(* Arguments.                                                              *)

LEMMA ArgumentStep == TypeOK /\ ArgumentStays /\ [Next]_vars => ArgumentStays'
<1> SUFFICES ASSUME TypeOK, ArgumentStays, [Next]_vars PROVE ArgumentStays'
  OBVIOUS
<1> USE DEF TypeOK, ArgumentStays, gameVars, hudVars, threadVars, processVars, launcherVars
<1>1. ASSUME NEW p \in Controllers, Thread(p) PROVE ArgumentStays'
  BY <1>1 DEF Thread, ThreadLoad, StartEnter, StartFails, StartHud, StartReady,
      StartNotReady, StopEnter, Drained, WaitEnter, WaitReturn, ThreadReturn, ThreadGoto
<1>2. ASSUME NEW p \in Controllers, Controller(p) \/ RunByHand(p) PROVE ArgumentStays'
  <2>1. CASE CallBegin(p)
    BY <2>1 DEF CallBegin, TakesArgument, ThreadGoto, ExitWith, Goto
  <2>2. CASE CallDone(p)
    BY <2>2 DEF CallDone
  <2>3. CASE CallTimeout(p)
    BY <2>3 DEF CallTimeout
  <2>4. CASE Refuse(p) \/ Locate(p) \/ Unresolved(p) \/ Verify(p) \/ RunByHand(p)
    BY <2>4 DEF Refuse, Locate, Unresolved, Verify, RunByHand
  <2> QED BY <1>2, <2>1, <2>2, <2>3, <2>4 DEF Controller
<1>3. ASSUME NEW l \in Launchers, Launcher(l) PROVE ArgumentStays'
  BY <1>3 DEF Launcher, Launch, Own, Started, Waited, Check, Stopped, Final
<1>4. CASE GameTerminates
  <2>1. \A p \in Controllers : thread'[p] \in {"none", "ended"}
    BY <1>4 DEF GameTerminates, Alive
  <2> QED BY <2>1
<1>5. CASE QuitHud \/ HudEnds \/ GameExits \/ UNCHANGED vars
  BY <1>5 DEF QuitHud, HudEnds, GameExits, vars
<1> QED BY <1>1, <1>2, <1>3, <1>4, <1>5 DEF Next

\* No remote thread ever finds its argument freed, however many of them outlive
\* their Controller.
THEOREM ArgumentsStay == Spec => []ArgumentStays
<1>1. Init => ArgumentStays
  BY DEF Init, ArgumentStays
<1> QED BY <1>1, ArgumentStep, LauncherTypeCorrect, PTL DEF Spec

-----------------------------------------------------------------------------
(* The mutex.                                                              *)

Working(l) == lpc[l] \in {"start", "wait", "check", "stop"}

\* Whoever works holds a handle of the mutex, so that it exists.
WorkersHold == \A l \in Launchers : Working(l) => l \in mutex

LEMMA OwnerStep == TypeOK /\ OneOwner /\ WorkersHold /\ [Next]_vars => (OneOwner /\ WorkersHold)'
<1> SUFFICES ASSUME TypeOK, OneOwner, WorkersHold, [Next]_vars PROVE (OneOwner /\ WorkersHold)'
  OBVIOUS
<1> USE DEF TypeOK, OneOwner, WorkersHold, Working, gameVars, hudVars, threadVars, processVars,
    launcherVars
<1>1. ASSUME NEW l \in Launchers, Launcher(l) PROVE (OneOwner /\ WorkersHold)'
  <2> USE DEF LauncherGoto, Fail, ChildExited
  <2>1. CASE Own(l)
    BY <2>1 DEF Own
  <2>2. CASE Launch(l)
    BY <2>2 DEF Launch
  <2>3. CASE Final(l)
    BY <2>3 DEF Final, Close
  <2>4. CASE Started(l) \/ Waited(l) \/ Check(l) \/ Stopped(l)
    BY <2>4 DEF Started, Waited, Check, Stopped
  <2> QED BY <1>1, <2>1, <2>2, <2>3, <2>4 DEF Launcher
<1>2. ASSUME NEW p \in Controllers, Thread(p) \/ Controller(p) \/ RunByHand(p)
      PROVE  UNCHANGED launcherVars
  BY <1>2 DEF Thread, ThreadLoad, StartEnter, StartFails, StartHud, StartReady,
      StartNotReady, StopEnter, Drained, WaitEnter, WaitReturn, Controller, Refuse, Locate,
      Unresolved, Verify, CallBegin, CallDone, CallTimeout, RunByHand
<1>3. CASE QuitHud \/ HudEnds \/ GameTerminates \/ GameExits \/ UNCHANGED vars
  BY <1>3 DEF QuitHud, HudEnds, GameTerminates, GameExits, vars
<1> QED BY <1>1, <1>2, <1>3 DEF Next

\* At most one of any number of launchers works on the game.
THEOREM OneLauncherWorks == Spec => []OneOwner
<1>1. Init => OneOwner /\ WorkersHold
  BY DEF Init, OneOwner, WorkersHold, Working
<1> QED BY <1>1, OwnerStep, LauncherTypeCorrect, PTL DEF Spec

-----------------------------------------------------------------------------
(* Success.                                                                *)

\* Session numbers only grow, so a session that is not running when the thread that
\* could start it has ended never runs again.
Settled(l) == step[StartOf(l)] = "exited" /\ ~Alive(StartOf(l))
Over(l)    == hud = 0 \/ hud # session[StartOf(l)]

\* With the game go its threads.
GameKnows == game # "running" => hud = 0 /\ \A p \in Controllers : ~Alive(p)

\* What a Controller's step says of its remote thread.
ThreadKnows(p) ==
    /\ step[p] \in {"idle", "open", "load", "verify", "call"} => ~Alive(p)
    /\ step[p] = "exited" /\ exit[p] = "SUCCESS" => ~Alive(p)
    /\ thread[p] = "load" => step[p] # "calling"
    /\ thread[p] \in {"start", "ready"} => Command(p) = "start"
    /\ thread[p] = "wait" => Command(p) = "wait"

\* A wait or a stop that succeeds has seen the launcher's session end.
ChildKnows(l, c) ==
    /\ step[c] # "idle" => Settled(l)
    /\ thread[c] = "wait" => Over(l) \/ awaited[c] = hud
    /\ step[c] = "calling" /\ thread[c] = "ended" /\ result[c] = "SUCCESS" => Over(l)
    /\ step[c] = "exited" /\ exit[c] = "SUCCESS" => Over(l)

\* What the launcher made of it.
LauncherKnows(l) ==
    /\ lpc[l] \in {"wait", "check", "stop"} \/ started[l] => Settled(l)
    /\ lpc[l] \in {"check", "stop", "final", "done"} /\ error[l] = "SUCCESS"
          => started[l] /\ Over(l)

SuccessInv ==
    /\ GameKnows
    /\ \A p \in Controllers : ThreadKnows(p)
    /\ \A l \in Launchers :
          ChildKnows(l, WaitOf(l)) /\ ChildKnows(l, StopOf(l)) /\ LauncherKnows(l)

\* A remote thread changes nothing outside the game, and itself only.
LEMMA ThreadFrame ==
    ASSUME TypeOK, NEW p \in Controllers, Thread(p)
    PROVE  /\ Alive(p)
           /\ UNCHANGED <<game, memory, processVars, launcherVars>>
           /\ \A q \in Controllers : q # p =>
                 thread'[q] = thread[q] /\ result'[q] = result[q] /\ awaited'[q] = awaited[q]
BY DEF Thread, ThreadLoad, StartEnter, StartFails, StartHud, StartReady, StartNotReady,
    StopEnter, Drained, WaitEnter, WaitReturn, ThreadReturn, ThreadGoto, Alive, TypeOK,
    gameVars, hudVars, threadVars, processVars, launcherVars

\* A Controller changes its own steps, and nothing of the sessions.
LEMMA ControllerFrame ==
    ASSUME TypeOK, NEW p \in Controllers, Controller(p) \/ RunByHand(p)
    PROVE  /\ step[p] # "exited"
           /\ UNCHANGED <<gameVars, hudVars, result, awaited, launcherVars>>
           /\ \A q \in Controllers : q # p =>
                 thread'[q] = thread[q] /\ step'[q] = step[q] /\ exit'[q] = exit[q]
<1> USE DEF TypeOK, gameVars, hudVars, threadVars, processVars, launcherVars, ExitWith, Goto,
    ThreadGoto, Run
<1>1. CASE Refuse(p) \/ Locate(p) \/ Unresolved(p) \/ Verify(p) \/ RunByHand(p)
  BY <1>1 DEF Refuse, Locate, Unresolved, Verify, RunByHand
<1>2. CASE CallBegin(p)
  BY <1>2 DEF CallBegin
<1>3. CASE CallDone(p) \/ CallTimeout(p)
  BY <1>3 DEF CallDone, CallTimeout
<1> QED BY <1>1, <1>2, <1>3 DEF Controller

LEMMA RunFrame ==
    ASSUME TypeOK, NEW l \in Launchers, NEW d \in Commands, Run(<<l, d>>)
    PROVE  /\ exit' = exit
           /\ \A q \in Controllers : step'[q] # step[q] => step[q] = "idle" /\ step'[q] = "open"
           /\ \A m \in Launchers : m # l => \A c \in Commands : step'[<<m, c>>] = step[<<m, c>>]
<1>1. /\ step \in [Controllers -> {"idle", "open", "load", "loading", "verify", "call",
                                  "calling", "exited"}]
      /\ step' = [step EXCEPT ![<<l, d>>] = "open"] /\ step[<<l, d>>] = "idle" /\ exit' = exit
  BY DEF Run, Goto, TypeOK
<1>2. \A q \in Controllers : step'[q] # step[q] => step[q] = "idle" /\ step'[q] = "open"
  BY <1>1
<1>3. ASSUME NEW m \in Launchers, m # l, NEW c \in Commands
      PROVE  step'[<<m, c>>] = step[<<m, c>>]
  <2>1. <<m, c>> \in Controllers /\ <<m, c>> # <<l, d>>
    BY <1>3 DEF Controllers, Children
  <2> QED BY <1>1, <2>1
<1> QED BY <1>1, <1>2, <1>3

\* A launcher changes its own variables, and lets a child of its own run that did not.
LEMMA LauncherFrame ==
    ASSUME TypeOK, NEW l \in Launchers, Launcher(l)
    PROVE  /\ UNCHANGED <<gameVars, hudVars, threadVars, memory, exit>>
           /\ \A q \in Controllers : step'[q] # step[q] => step[q] = "idle" /\ step'[q] = "open"
           /\ \A m \in Launchers : m # l =>
                 /\ lpc'[m] = lpc[m] /\ error'[m] = error[m] /\ started'[m] = started[m]
                 /\ \A c \in Commands : step'[<<m, c>>] = step[<<m, c>>]
<1> USE DEF TypeOK, processVars, launcherVars, LauncherGoto, Fail, ChildExited
<1>0. {"start", "wait", "stop"} \subseteq Commands
  BY DEF Commands
<1>1. CASE Launch(l) \/ Waited(l) \/ Stopped(l) \/ Final(l)
  BY <1>1 DEF Launch, Waited, Stopped, Final, Close
<1>2. CASE Own(l)
  <2>1. Run(<<l, "start">>) \/ UNCHANGED processVars
    BY <1>2 DEF Own
  <2>2. /\ UNCHANGED exit
        /\ \A q \in Controllers : step'[q] # step[q] => step[q] = "idle" /\ step'[q] = "open"
        /\ \A m \in Launchers : m # l => \A c \in Commands : step'[<<m, c>>] = step[<<m, c>>]
    BY <1>0, <2>1, RunFrame
  <2> QED BY <1>2, <2>2 DEF Own
<1>3. CASE Started(l)
  <2>1. Run(<<l, "wait">>) \/ UNCHANGED processVars
    BY <1>3 DEF Started
  <2>2. /\ UNCHANGED exit
        /\ \A q \in Controllers : step'[q] # step[q] => step[q] = "idle" /\ step'[q] = "open"
        /\ \A m \in Launchers : m # l => \A c \in Commands : step'[<<m, c>>] = step[<<m, c>>]
    BY <1>0, <2>1, RunFrame
  <2> QED BY <1>3, <2>2 DEF Started
<1>4. CASE Check(l)
  <2>1. Run(<<l, "stop">>) \/ UNCHANGED processVars
    BY <1>4 DEF Check
  <2>2. /\ UNCHANGED exit
        /\ \A q \in Controllers : step'[q] # step[q] => step[q] = "idle" /\ step'[q] = "open"
        /\ \A m \in Launchers : m # l => \A c \in Commands : step'[<<m, c>>] = step[<<m, c>>]
    BY <1>0, <2>1, RunFrame
  <2> QED BY <1>4, <2>2 DEF Check
<1> QED BY <1>1, <1>2, <1>3, <1>4 DEF Launcher

LEMMA GameFrame ==
    ASSUME TypeOK, QuitHud \/ HudEnds \/ GameTerminates \/ GameExits \/ UNCHANGED vars
    PROVE  /\ UNCHANGED <<sessions, session, awaited, processVars, launcherVars>>
           /\ hud' \in {0, hud}
           /\ \A p \in Controllers : thread'[p] # thread[p] => thread'[p] = "ended" /\ hud' = 0
           /\ \A p \in Controllers : Alive(p)' => Alive(p)
           /\ \A p \in Controllers : result'[p] # result[p] => hud' = 0
BY DEF QuitHud, HudEnds, GameTerminates, GameExits, vars, Alive, TypeOK, gameVars, hudVars,
    threadVars, processVars, launcherVars

LEMMA SettledStays ==
    ASSUME TypeOK, [Next]_vars, NEW l \in Launchers, Settled(l) PROVE Settled(l)'
<1> DEFINE s == StartOf(l)
<1>0. s \in Controllers
  BY ChildrenAre
<1>1. ASSUME NEW p \in Controllers, Thread(p) PROVE Settled(l)'
  BY <1>0, <1>1, ThreadFrame DEF Settled, Alive, processVars
<1>2. ASSUME NEW p \in Controllers, Controller(p) \/ RunByHand(p) PROVE Settled(l)'
  BY <1>0, <1>2, ControllerFrame DEF Settled, Alive
<1>3. ASSUME NEW m \in Launchers, Launcher(m) PROVE Settled(l)'
  BY <1>0, <1>3, LauncherFrame DEF Settled, Alive, threadVars
<1>4. CASE QuitHud \/ HudEnds \/ GameTerminates \/ GameExits \/ UNCHANGED vars
  BY <1>0, <1>4, GameFrame DEF Settled, processVars
<1> QED BY <1>1, <1>2, <1>3, <1>4 DEF Next

\* The heart of the proof.
LEMMA OverStays ==
    ASSUME TypeOK, [Next]_vars, NEW l \in Launchers, Settled(l), Over(l) PROVE Over(l)'
<1> DEFINE s == StartOf(l)
<1>0. s \in Controllers /\ s \in Starters
  BY ChildrenAre
<1>1. ASSUME NEW p \in Controllers, Thread(p) PROVE Over(l)'
  <2>1. p # s
    BY <1>1, ThreadFrame DEF Settled
  <2>2. CASE StartHud(p)
    <3>1. hud' = sessions + 1 /\ session'[s] = session[s] /\ session[s] \in 0..sessions
      BY <1>0, <2>1, <2>2 DEF StartHud, TypeOK
    <3> QED BY <3>1 DEF Over, TypeOK
  <2>3. CASE ~StartHud(p)
    <3>1. hud' = hud /\ session' = session
      BY <1>1, <2>3 DEF Thread, ThreadLoad, StartEnter, StartFails, StartReady, StartNotReady,
          StopEnter, Drained, WaitEnter, WaitReturn, hudVars
    <3> QED BY <3>1 DEF Over
  <2> QED BY <2>2, <2>3
<1>2. ASSUME NEW p \in Controllers, Controller(p) \/ RunByHand(p) PROVE Over(l)'
  BY <1>2, ControllerFrame DEF Over, hudVars
<1>3. ASSUME NEW m \in Launchers, Launcher(m) PROVE Over(l)'
  BY <1>3, LauncherFrame DEF Over, hudVars
<1>4. CASE QuitHud \/ HudEnds \/ GameTerminates \/ GameExits \/ UNCHANGED vars
  BY <1>4, GameFrame DEF Over
<1> QED BY <1>1, <1>2, <1>3, <1>4 DEF Next

LEMMA GameKnowsStep ==
    ASSUME TypeOK, SuccessInv, [Next]_vars PROVE GameKnows'
<1> USE DEF SuccessInv, GameKnows
<1>1. ASSUME NEW p \in Controllers, Thread(p) PROVE GameKnows'
  BY <1>1, ThreadFrame
<1>2. ASSUME NEW p \in Controllers, Controller(p) \/ RunByHand(p) PROVE GameKnows'
  <2>1. CASE CallBegin(p)
    BY <2>1 DEF CallBegin, gameVars, hudVars, Alive, ExitWith
  <2>2. CASE ~CallBegin(p)
    <3>1. thread' = thread
      BY <1>2, <2>2 DEF Controller, Refuse, Locate, Unresolved, Verify, CallDone, CallTimeout,
          RunByHand, threadVars
    <3> QED BY <1>2, <3>1, ControllerFrame DEF Alive, gameVars, hudVars
  <2> QED BY <2>1, <2>2
<1>3. ASSUME NEW l \in Launchers, Launcher(l) PROVE GameKnows'
  BY <1>3, LauncherFrame DEF Alive, gameVars, hudVars, threadVars
<1>4. CASE QuitHud \/ HudEnds \/ GameExits \/ UNCHANGED vars
  BY <1>4 DEF QuitHud, HudEnds, GameExits, vars, gameVars, hudVars, threadVars, Alive, TypeOK
<1>5. CASE GameTerminates
  BY <1>5 DEF GameTerminates, Alive, TypeOK
<1> QED BY <1>1, <1>2, <1>3, <1>4, <1>5 DEF Next

LEMMA ThreadKnowsStep ==
    ASSUME TypeOK, SuccessInv, [Next]_vars, NEW q \in Controllers PROVE ThreadKnows(q)'
<1>0. ThreadKnows(q)
  BY DEF SuccessInv
<1>1. ASSUME NEW p \in Controllers, Thread(p) PROVE ThreadKnows(q)'
  <2>1. CASE p # q
    BY <1>0, <1>1, <2>1, ThreadFrame DEF ThreadKnows, Alive, processVars
  <2>2. CASE p = q
    <3>1. Alive(q) /\ step' = step /\ exit' = exit
      BY <1>1, <2>2, ThreadFrame DEF processVars
    <3>2. thread'[q] # "load"
      BY <1>1, <2>2 DEF Thread, ThreadLoad, StartEnter, StartFails, StartHud, StartReady,
          StartNotReady, StopEnter, Drained, WaitEnter, WaitReturn, ThreadReturn, ThreadGoto,
          TypeOK
    <3>3. /\ thread'[q] \in {"start", "ready"} => Command(q) = "start"
          /\ thread'[q] = "wait" => Command(q) = "wait"
      BY <1>0, <1>1, <2>2 DEF Thread, ThreadLoad, StartEnter, StartFails, StartHud, StartReady,
          StartNotReady, StopEnter, Drained, WaitEnter, WaitReturn, ThreadReturn, ThreadGoto,
          TypeOK, ThreadKnows
    <3> QED BY <1>0, <3>1, <3>2, <3>3 DEF ThreadKnows
  <2> QED BY <2>1, <2>2
<1>2. ASSUME NEW p \in Controllers, Controller(p) \/ RunByHand(p) PROVE ThreadKnows(q)'
  <2>1. CASE p # q
    BY <1>0, <1>2, <2>1, ControllerFrame DEF ThreadKnows, Alive
  <2>2. CASE p = q
    <3> USE DEF ThreadKnows, Alive, TypeOK, ExitWith, Goto, threadVars
    <3>1. CASE CallBegin(p)
      BY <1>0, <2>2, <3>1 DEF CallBegin, ThreadGoto
    <3>2. CASE CallDone(p)
      BY <1>0, <2>2, <3>2 DEF CallDone
    <3>3. CASE CallTimeout(p)
      BY <1>0, <2>2, <3>3 DEF CallTimeout
    <3>4. CASE Refuse(p) \/ Locate(p) \/ Unresolved(p) \/ Verify(p) \/ RunByHand(p)
      BY <1>0, <2>2, <3>4 DEF Refuse, Locate, Unresolved, Verify, RunByHand, Run
    <3> QED BY <1>2, <3>1, <3>2, <3>3, <3>4 DEF Controller
  <2> QED BY <2>1, <2>2
<1>3. ASSUME NEW l \in Launchers, Launcher(l) PROVE ThreadKnows(q)'
  BY <1>0, <1>3, LauncherFrame DEF ThreadKnows, Alive, threadVars
<1>4. CASE QuitHud \/ HudEnds \/ GameTerminates \/ GameExits \/ UNCHANGED vars
  BY <1>0, <1>4, GameFrame DEF ThreadKnows, processVars
<1> QED BY <1>1, <1>2, <1>3, <1>4 DEF Next

LEMMA ChildKnowsStep ==
    ASSUME TypeOK, SuccessInv, [Next]_vars, NEW l \in Launchers,
           NEW c \in {WaitOf(l), StopOf(l)}
    PROVE  ChildKnows(l, c)'
<1>0. /\ c \in Controllers /\ Command(c) \in {"wait", "stop"} /\ ThreadKnows(c)
      /\ ChildKnows(l, c) /\ LauncherKnows(l)
  BY ChildrenAre DEF SuccessInv
<1>1. Settled(l) => Settled(l)'
  BY SettledStays
<1>2. Settled(l) /\ Over(l) => Over(l)'
  BY OverStays
<1>3. ASSUME NEW p \in Controllers, Thread(p) PROVE ChildKnows(l, c)'
  <2>1. CASE p # c
    <3>1. thread'[c] = thread[c] /\ result'[c] = result[c] /\ awaited'[c] = awaited[c]
      BY <1>0, <1>3, <2>1, ThreadFrame
    <3>2. step' = step /\ exit' = exit
      BY <1>3, ThreadFrame DEF processVars
    <3>3. thread[c] = "wait" => Settled(l)
      BY <1>0 DEF ChildKnows, ThreadKnows, Alive
    <3>4. hud' = hud \/ (hud = 0 /\ thread[p] = "start" /\ hud' = sessions + 1)
      BY <1>3 DEF Thread, ThreadLoad, StartEnter, StartFails, StartHud, StartReady,
          StartNotReady, StopEnter, Drained, WaitEnter, WaitReturn, hudVars
    <3>5. thread[c] = "wait" => Over(l)' \/ awaited'[c] = hud'
      BY <1>0, <1>2, <3>1, <3>3, <3>4 DEF ChildKnows, Over
    <3> QED BY <1>0, <1>1, <1>2, <3>1, <3>2, <3>5 DEF ChildKnows
  <2>2. CASE p = c
    <3>1. Alive(c) /\ step' = step /\ exit' = exit
      BY <1>3, <2>2, ThreadFrame DEF processVars
    <3>2. Settled(l)
      BY <1>0, <3>1 DEF ChildKnows, ThreadKnows
    <3>3. thread[c] \notin {"start", "ready"}
      BY <1>0 DEF ThreadKnows
    <3>4. hud' = hud /\ session' = session
      BY <1>3, <2>2, <3>3 DEF Thread, ThreadLoad, StartEnter, StartFails, StartHud, StartReady,
          StartNotReady, StopEnter, Drained, WaitEnter, WaitReturn, hudVars
    <3>5. CASE ThreadLoad(c)
      <4>1. step[c] # "calling" /\ thread'[c] = "ended"
        BY <1>0, <3>5 DEF ThreadLoad, ThreadKnows, ThreadReturn, TypeOK
      <4> QED BY <1>0, <1>1, <1>2, <3>1, <3>2, <4>1 DEF ChildKnows
    <3>6. CASE StopEnter(c) \/ Drained(c)
      <4>1. thread'[c] # "wait"
        BY <1>0, <3>6 DEF StopEnter, Drained, ThreadReturn, ThreadGoto, TypeOK
      <4>2. thread'[c] = "ended" /\ result'[c] = "SUCCESS" => hud = 0
        BY <1>0, <3>6 DEF StopEnter, Drained, ThreadReturn, ThreadGoto, TypeOK
      <4> QED BY <1>0, <1>1, <1>2, <3>1, <3>2, <3>4, <4>1, <4>2 DEF ChildKnows, Over
    <3>7. CASE WaitEnter(c)
      <4>1. thread'[c] = "wait" => awaited'[c] = hud
        BY <1>0, <3>7 DEF WaitEnter, ThreadReturn, ThreadGoto, TypeOK
      <4>2. thread'[c] = "ended" /\ result'[c] = "SUCCESS" => hud = 0
        BY <1>0, <3>7 DEF WaitEnter, ThreadReturn, ThreadGoto, TypeOK
      <4> QED BY <1>0, <1>1, <1>2, <3>1, <3>2, <3>4, <4>1, <4>2 DEF ChildKnows, Over
    <3>8. CASE WaitReturn(c)
      <4>1. Over(l) /\ thread'[c] = "ended"
        BY <1>0, <3>8 DEF WaitReturn, ThreadReturn, ChildKnows, TypeOK
      <4> QED BY <1>0, <1>1, <1>2, <3>1, <3>2, <4>1 DEF ChildKnows
    <3>9. ~(StartEnter(c) \/ StartFails(c) \/ StartHud(c) \/ StartReady(c) \/ StartNotReady(c))
      BY <1>0, <3>3 DEF StartEnter, StartFails, StartHud, StartReady, StartNotReady
    <3> QED BY <1>3, <2>2, <3>5, <3>6, <3>7, <3>8, <3>9 DEF Thread
  <2> QED BY <2>1, <2>2
<1>4. ASSUME NEW p \in Controllers, Controller(p) \/ RunByHand(p) PROVE ChildKnows(l, c)'
  <2>1. /\ hud' = hud /\ session' = session /\ awaited' = awaited /\ result' = result
        /\ lpc' = lpc /\ started' = started
    BY <1>4, ControllerFrame DEF hudVars, launcherVars
  <2>2. CASE p # c
    BY <1>0, <1>1, <1>4, <2>1, <2>2, ControllerFrame DEF ChildKnows, Over
  <2>3. CASE p = c
    <3> USE DEF ChildKnows, Over, TypeOK, ExitWith, Goto, threadVars
    <3>1. CASE CallBegin(c)
      BY <1>0, <1>1, <2>1, <3>1 DEF CallBegin, ThreadGoto
    <3>2. CASE CallDone(c)
      BY <1>0, <1>1, <2>1, <3>2 DEF CallDone
    <3>3. CASE CallTimeout(c)
      BY <1>0, <1>1, <2>1, <3>3 DEF CallTimeout, Alive
    <3>4. CASE Refuse(c) \/ Locate(c) \/ Unresolved(c) \/ Verify(c)
      BY <1>0, <1>1, <2>1, <3>4 DEF Refuse, Locate, Unresolved, Verify
    <3>5. ~RunByHand(c)
      BY ByHandAssumption DEF RunByHand, WaitOf, StopOf
    <3> QED BY <1>4, <2>3, <3>1, <3>2, <3>3, <3>4, <3>5 DEF Controller
  <2> QED BY <2>2, <2>3
<1>5. ASSUME NEW m \in Launchers, Launcher(m) PROVE ChildKnows(l, c)'
  <2>1. UNCHANGED <<hud, session, thread, result, awaited, exit>>
    BY <1>5, LauncherFrame DEF hudVars, threadVars
  <2>2. step'[c] # step[c] => step[c] = "idle" /\ step'[c] = "open"
    BY <1>0, <1>5, LauncherFrame
  <2>3. step'[c] # step[c] => Settled(l)
    <3> SUFFICES ASSUME step'[c] # step[c] PROVE Settled(l)
      OBVIOUS
    <3>1. m = l
      BY <1>5, LauncherFrame DEF WaitOf, StopOf, Commands
    <3>2. Started(l) \/ Check(l)
      BY <1>0, <1>5, <3>1 DEF Launcher, Launch, Own, Waited, Stopped, Final, Run, Goto,
          processVars, TypeOK, WaitOf, StopOf
    <3>3. CASE Started(l)
      BY <3>3, ChildrenAre DEF Started, ChildExited, Settled, StartOf, SuccessInv, ThreadKnows,
          processVars
    <3>4. CASE Check(l)
      BY <1>0, <3>4 DEF Check, LauncherKnows
    <3> QED BY <3>2, <3>3, <3>4
  <2> QED BY <1>0, <1>1, <2>1, <2>2, <2>3 DEF ChildKnows, Over
<1>6. CASE QuitHud \/ HudEnds \/ GameTerminates \/ GameExits \/ UNCHANGED vars
  <2>1. step' = step /\ exit' = exit /\ awaited' = awaited
    BY <1>6, GameFrame DEF processVars
  <2>2. hud' = 0 => Over(l)'
    BY DEF Over
  <2> QED BY <1>0, <1>1, <1>2, <1>6, <2>1, <2>2, GameFrame DEF ChildKnows, Over
<1> QED BY <1>3, <1>4, <1>5, <1>6 DEF Next

LEMMA LauncherKnowsStep ==
    ASSUME TypeOK, SuccessInv, [Next]_vars, NEW l \in Launchers PROVE LauncherKnows(l)'
<1>0. LauncherKnows(l) /\ ChildKnows(l, WaitOf(l)) /\ ChildKnows(l, StopOf(l))
  BY DEF SuccessInv
<1>1. Settled(l) => Settled(l)'
  BY SettledStays
<1>2. Settled(l) /\ Over(l) => Over(l)'
  BY OverStays
<1>3. CASE lpc'[l] = lpc[l] /\ started'[l] = started[l] /\ error'[l] = error[l]
  BY <1>0, <1>1, <1>2, <1>3 DEF LauncherKnows
<1>4. CASE Launcher(l)
  <2> USE DEF LauncherKnows, TypeOK, LauncherGoto, Fail, ChildExited
  <2>1. CASE Launch(l)
    BY <1>0, <1>1, <1>2, <2>1 DEF Launch
  <2>2. CASE Own(l)
    BY <1>0, <1>1, <1>2, <2>2 DEF Own
  <2>3. CASE Started(l)
    <3>1. exit[StartOf(l)] = "SUCCESS" => Settled(l)
      BY <2>3, ChildrenAre DEF Started, Settled, StartOf, SuccessInv, ThreadKnows
    <3> QED BY <1>0, <1>1, <1>2, <2>3, <3>1 DEF Started, StartOf
  <2>4. CASE Waited(l)
    <3>1. exit[WaitOf(l)] = "SUCCESS" => Over(l)
      BY <1>0, <2>4 DEF Waited, ChildKnows, WaitOf
    <3> QED BY <1>0, <1>1, <1>2, <2>4, <3>1 DEF Waited, WaitOf
  <2>5. CASE Check(l)
    BY <1>0, <1>1, <1>2, <2>5 DEF Check
  <2>6. CASE Stopped(l)
    BY <1>0, <1>1, <1>2, <2>6 DEF Stopped
  <2>7. CASE Final(l)
    <3>1. game = "exited" => Over(l)
      BY DEF SuccessInv, GameKnows, Over
    <3> QED BY <1>0, <1>1, <1>2, <2>7, <3>1 DEF Final, Close
  <2> QED BY <1>4, <2>1, <2>2, <2>3, <2>4, <2>5, <2>6, <2>7 DEF Launcher
<1>5. ASSUME NEW m \in Launchers, m # l, Launcher(m) PROVE LauncherKnows(l)'
  BY <1>3, <1>5, LauncherFrame
<1>6. ASSUME NEW p \in Controllers, Thread(p) \/ Controller(p) \/ RunByHand(p)
      PROVE  LauncherKnows(l)'
  BY <1>3, <1>6, ThreadFrame, ControllerFrame DEF launcherVars
<1>7. CASE QuitHud \/ HudEnds \/ GameTerminates \/ GameExits \/ UNCHANGED vars
  BY <1>3, <1>7, GameFrame DEF launcherVars
<1> QED BY <1>4, <1>5, <1>6, <1>7 DEF Next

LEMMA SuccessStep == TypeOK /\ SuccessInv /\ [Next]_vars => SuccessInv'
BY GameKnowsStep, ThreadKnowsStep, ChildKnowsStep, LauncherKnowsStep DEF SuccessInv, WaitOf, StopOf,
   Controllers, Children

\* Whatever fails, times out, is called by hand or exits meanwhile, a launcher that
\* reports success does not leave its session running.
THEOREM SuccessIsOver == Spec => []SuccessMeansOver
<1>1. Init => SuccessInv
  BY ChildrenAre DEF Init, SuccessInv, GameKnows, ThreadKnows, ChildKnows, LauncherKnows, Alive
<1>2. SuccessInv => SuccessMeansOver
  BY DEF SuccessInv, LauncherKnows, SuccessMeansOver, Over, StartOf
<1> QED BY <1>1, <1>2, SuccessStep, LauncherTypeCorrect, PTL DEF Spec
=============================================================================
