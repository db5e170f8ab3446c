----------------------------- MODULE BoardFeed -----------------------------
(***************************************************************************)
(* What the collector promises, without locks, rings, threads or hooks:    *)
(* a feed of accepted boards, one session at a time.                       *)
(*                                                                         *)
(*   - boards enter only while the feed is open, at most Capacity wait;    *)
(*   - they are taken one at a time in the order they entered;             *)
(*   - the display shows at most Shown boards, each newer than the next,   *)
(*     and a taken board changes it only by becoming its newest one;       *)
(*   - a session starts from an empty queue and an empty display.          *)
(***************************************************************************)
EXTENDS Integers, Sequences

CONSTANTS Boards, Capacity, Shown, Nothing

VARIABLES
    session,    \* number of the session
    open,       \* may boards still enter?
    queue,      \* boards waiting, oldest first
    taken,      \* the board being processed, or Nothing
    display     \* boards shown, newest first

vars == <<session, open, queue, taken, display>>

Init ==
    /\ session = 0 /\ ~open
    /\ queue = << >> /\ taken = Nothing /\ display = << >>

\* A closed feed becomes the next session once nothing is left in it.
Renew ==
    /\ ~open /\ queue = << >> /\ taken = Nothing
    /\ session' = session + 1
    /\ UNCHANGED <<open, queue, taken, display>>

Clear ==
    /\ ~open /\ queue = << >>
    /\ display' = << >>
    /\ UNCHANGED <<session, open, queue, taken>>

Open  == ~open /\ open' = TRUE /\ UNCHANGED <<session, queue, taken, display>>
Close == open /\ open' = FALSE /\ UNCHANGED <<session, queue, taken, display>>

\* The last board may enter in the step that closes the feed.
Enter ==
    /\ open /\ open' \in BOOLEAN
    /\ Len(queue) < Capacity
    /\ Len(queue') = Len(queue) + 1
    /\ LET e == queue'[Len(queue')]
       IN  e \in Boards /\ e.epoch = session /\ queue' = Append(queue, e)
    /\ UNCHANGED <<session, taken, display>>

Take ==
    /\ taken = Nothing /\ queue # << >>
    /\ taken' = Head(queue)
    /\ queue' = Tail(queue)
    /\ UNCHANGED <<session, open, display>>

\* The taken board becomes the newest one shown; it is passed over only when it
\* is invalid or a newer board of its session is already shown.
Finish ==
    /\ taken # Nothing
    /\ taken' = Nothing
    /\ \/ /\ ~taken.valid \/ \E i \in DOMAIN display : taken.seq <= display[i].seq
          /\ UNCHANGED display
       \/ /\ taken.valid
          /\ \A i \in DOMAIN display : /\ display[i].epoch = session
                                       /\ taken.seq > display[i].seq
          /\ \E n \in 0..Shown - 1 :
                display' = <<taken>> \o SubSeq(display, 1, n)
          /\ Len(display') = IF Len(display) < Shown THEN Len(display) + 1 ELSE Shown
    /\ UNCHANGED <<session, open, queue>>

Next == Renew \/ Clear \/ Open \/ Close \/ Enter \/ Take \/ Finish

Spec == Init /\ [][Next]_vars
=============================================================================
