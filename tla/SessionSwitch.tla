--------------------------- MODULE SessionSwitch ---------------------------
(***************************************************************************)
(* The two words every hook reads without a lock, g_lCollect and g_lEpoch:  *)
(* a session is numbered while collection is off, switched on at most once, *)
(* and switched off. Capture is written against this module and Collector   *)
(* implements it.                                                          *)
(***************************************************************************)
EXTENDS Integers

CONSTANT MaxSessions    \* bound: sessions in a behaviour

VARIABLES
    collect,    \* g_lCollect
    epoch,      \* g_lEpoch
    armed       \* numbered and not switched on yet

Init == collect = FALSE /\ epoch = 0 /\ armed = FALSE

Renew ==
    /\ ~collect /\ epoch < MaxSessions
    /\ epoch' = epoch + 1
    /\ armed' = TRUE
    /\ UNCHANGED collect

SwitchOn == armed /\ collect' = TRUE /\ armed' = FALSE /\ UNCHANGED epoch

\* The start of the session fails before collection is on.
Abandon == armed /\ armed' = FALSE /\ UNCHANGED <<collect, epoch>>

SwitchOff == collect /\ collect' = FALSE /\ UNCHANGED <<epoch, armed>>

Next == Renew \/ SwitchOn \/ Abandon \/ SwitchOff

Spec == Init /\ [][Next]_<<collect, epoch, armed>>
=============================================================================
