------------------------------- MODULE Panel --------------------------------
(***************************************************************************)
(* BoardStats/Presentation.c: how high a panel is, where it is placed and   *)
(* which grade a board gets, as functions of the options o. What is written *)
(* on the panel and its colours are left out.                              *)
(*                                                                         *)
(* Retention losses are counted in tenths of a percent, so that the code's  *)
(* doubles become integers; a board of Core.c's CalculateMetrics is         *)
(* [loss, angle, incoming, finite].                                        *)
(***************************************************************************)
EXTENDS Integers

PanelWidth  == 400
PanelRows   == 420

Least(a, b) == IF a <= b THEN a ELSE b
Most(a, b)  == IF a >= b THEN a ELSE b

\* MulDiv of two numbers that are not negative: rounded to the nearest.
MulDiv(a, b, c) == (a * b + (c \div 2)) \div c

-----------------------------------------------------------------------------
(* PaintHudPanel and PaintYawPanel: rows from the top.                     *)

Rows(shown, n) == IF shown = 1 THEN n ELSE 0

\* Previous boards that are listed when the state holds count boards.
Previous(o, count) == Least(o.iHistory, Most(count - 1, 0))

\* iY when the lines between the title and the footer are painted.
TextEnd(o, count) ==
    IF count = 0
    THEN 48 + 44
    ELSE ((48 + Rows(o.bChange, IF o.iCompact = 1 THEN 20 + 36 ELSE 20 + 64)
             + Rows(o.bRetention, 32) + Rows(o.bAngle, 26)) + Rows(o.bSpeeds, 26)
             + Rows(o.bHorizontal, 26))
             + (IF o.iHistory > 0 THEN 30 + (22 * Previous(o, count)) ELSE 0)

\* Where the lowest line of text ends, and lpPanel->iHeight.
LowestText(o, count) == IF o.iCompact = 2 THEN 64 ELSE TextEnd(o, count) + 4 + 24

PanelHeight(o, count) ==
    IF o.iCompact = 2 THEN 64 ELSE Least(PanelRows, TextEnd(o, count) + 38)

YawHeight(o) == o.iYawFontSize + 8

-----------------------------------------------------------------------------
(* PlaceHudPanel.                                                          *)

\* Mutant: the position is taken as it is.
ClampFree(v, room) == v

\* Inside the room that is left on the screen, or at its edge.
Clamp(v, room) == Most(0, Least(room, v))

PlaceHudPanel(o, height, width, screen) ==
    LET w  == Least(width, MulDiv(PanelWidth, o.iScale, 100))
        h  == Least(screen, MulDiv(height, o.iScale, 100))
        x  == IF o.iX >= 0 THEN o.iX
              ELSE IF o.iCompact = 2 THEN (width - w) \div 2
              ELSE IF o.bLeft THEN o.iMargin ELSE width - w - o.iMargin
        y  == IF o.iY >= 0 THEN o.iY
              ELSE IF o.iCompact = 2 THEN ((screen - h) \div 2) + o.iCenterY
              ELSE IF o.bBottom THEN screen - h - o.iMargin ELSE o.iMargin
        left == Clamp(x, width - w)
        top  == Clamp(y, screen - h)
    IN  [left |-> left, top |-> top, right |-> left + w, bottom |-> top + h]

\* DrawLayer places the yaw label with options of its own.
YawPlacement(o) ==
    [o EXCEPT !.iScale = 100, !.iCompact = 0, !.iX = o.iYawX, !.iY = o.iYawY,
              !.iMargin = o.iYawMargin, !.bLeft = o.bYawLeft, !.bBottom = o.bYawBottom]

-----------------------------------------------------------------------------
(* GetHudGrade: 0 is the best grade, 4 the last.                           *)

\* loss <= limit * sqrt(incoming / reference), without the root.
WithinLoss(b, o, limit) ==
    IF o.bGradeScale = 1
    THEN b.loss <= 0 \/ b.loss * b.loss * o.dGradeSpeed <= limit * limit * b.incoming
    ELSE b.loss <= limit

\* Mutant: angles are graded the wrong way round.
MeetsFlipped(b, o, i) == WithinLoss(b, o, o.dLoss[i + 1]) /\ b.angle <= o.dAngle[i + 1]

Meets(b, o, i) == WithinLoss(b, o, o.dLoss[i + 1]) /\ b.angle >= o.dAngle[i + 1]

Gradable(b) == b.finite /\ b.incoming > 0 /\ b.angle >= 0 /\ b.angle <= 90

\* The first grade that is met, the last one if none is or nothing was measured.
GetHudGrade(b, o) ==
    IF ~Gradable(b) THEN 4
    ELSE CHOOSE i \in 0..4 : /\ i < 4 => Meets(b, o, i)
                             /\ \A j \in 0..3 : j < i => ~Meets(b, o, j)

-----------------------------------------------------------------------------
(* What a panel must be.                                                   *)

Inside(rect, width, screen) ==
    /\ 0 <= rect.left /\ rect.left < rect.right /\ rect.right <= width
    /\ 0 <= rect.top /\ rect.top < rect.bottom /\ rect.bottom <= screen

\* All text lies on the panel and the panel in the texture.
TextFits(o, count) ==
    LowestText(o, count) <= PanelHeight(o, count) /\ PanelHeight(o, count) <= PanelRows

Better(b, c) == b.loss <= c.loss /\ b.angle >= c.angle /\ b.incoming = c.incoming
=============================================================================
