------------------------------ MODULE Options -------------------------------
(***************************************************************************)
(* boardstats.ini between its three parties: the settings editor            *)
(* (Settings/main.c), which writes it key by key; whoever reloads it in the *)
(* game (LoadHudOptions in Presentation.c, ReloadOptions in dllmain.c); and *)
(* the paint exception it switches (Paint.c), through which the game's      *)
(* thread emits paint at any moment.                                       *)
(*                                                                         *)
(* A value in the file is a number; of a corner, the words "left" and       *)
(* "bottom" it contains. Keys outside Keys are never touched and stand for  *)
(* their defaults.                                                         *)
(***************************************************************************)
EXTENDS Panel, Sequences

CONSTANTS
    Keys,           \* keys somebody edits
    Absent,         \* a key that is not in the file
    None,           \* nothing saved, no emission
    Reloaders,      \* threads that run ReloadOptions
    Widths, Heights,            \* of the game's back buffer
    Losses, Angles, Speeds,     \* of the boards that are graded
    MaxEdits        \* bound: edits by hand and changes in the dialog

ASSUME BoundsAssumption ==
    /\ MaxEdits \in Nat
    /\ Widths \subseteq Nat \ {0} /\ Heights \subseteq Nat \ {0}
    /\ Losses \subseteq Int /\ Angles \subseteq Int /\ Speeds \subseteq Nat

\* Nothing that is written into the file reads as an absent key.
ASSUME AbsentAssumption == Absent \notin Int /\ \A w \in SUBSET {"left", "bottom"} : Absent # w

(* The tables of both programs.                                            *)

Numbers == {"X", "Y", "Scale", "Margin", "DurationMs", "History", "Compact", "CenterYOffset"}
Flags == {"ShowLoss", "ShowChange", "ShowRetention", "ShowAngle", "ShowSpeeds",
          "ShowHorizontal", "GradeColors", "PaintInNoclip", "ShowYawSpeed"}

\* g_alCorners, and the index WM_CREATE selects.
Corners == << {}, {"left"}, {"bottom"}, {"left", "bottom"} >>
CornerIndex(words) ==
    (IF "bottom" \in words THEN 2 ELSE 0) + (IF "left" \in words THEN 1 ELSE 0)

\* Default, least and greatest value of LoadHudOptions.
Load(k) ==
    CASE k = "Scale" -> << 100, 50, 200 >>
      [] k \in {"X", "Y", "YawX", "YawY"} -> << -1, -1, 16384 >>
      [] k = "Margin" -> << 24, 0, 1000 >>
      [] k = "YawMargin" -> << 16, 0, 1000 >>
      [] k = "YawFontSize" -> << 16, 8, 48 >>
      [] k = "DurationMs" -> << 0, 0, 60000 >>
      [] k = "History" -> << 3, 0, 3 >>
      [] k = "Compact" -> << 0, 0, 2 >>
      [] k = "CenterYOffset" -> << 0, -16384, 16384 >>
      [] k \in {"ShowLoss", "ShowHorizontal", "PaintInNoclip", "ShowYawSpeed"} -> << 0, 0, 1 >>
      [] k \in {"ShowChange", "ShowRetention", "ShowAngle", "ShowSpeeds", "GradeColors",
                "GradeSpeedScale"} -> << 1, 0, 1 >>
      [] k = "GradeReferenceSpeed" -> << 1500, 1, 1000000 >>
      [] k = "Grade.Perfect.MaxLossPercent" -> << 5, 0, 1000 >>
      [] k = "Grade.Good.MaxLossPercent" -> << 15, 0, 1000 >>
      [] k = "Grade.Okay.MaxLossPercent" -> << 30, 0, 1000 >>
      [] k = "Grade.Bad.MaxLossPercent" -> << 50, 0, 1000 >>
      [] k = "Grade.Perfect.MinAngle" -> << 85, 0, 90 >>
      [] k = "Grade.Good.MinAngle" -> << 80, 0, 90 >>
      [] k = "Grade.Okay.MinAngle" -> << 75, 0, 90 >>
      [] k = "Grade.Bad.MinAngle" -> << 60, 0, 90 >>
      [] k = "Corner" -> << {}, {}, {} >>
      [] k = "YawCorner" -> << {"left", "bottom"}, {}, {} >>

\* g_aiMin and g_aiMax of the editor.
Accepts(k) ==
    CASE k \in {"X", "Y"} -> -1..16384
      [] k = "Scale" -> 50..200
      [] k = "Margin" -> 0..1000
      [] k = "DurationMs" -> 0..60000
      [] k = "History" -> 0..3
      [] k = "Compact" -> 0..2
      [] k = "CenterYOffset" -> -16384..16384

GradeNumbers == {"GradeReferenceSpeed",
    "Grade.Perfect.MaxLossPercent", "Grade.Good.MaxLossPercent", "Grade.Okay.MaxLossPercent",
    "Grade.Bad.MaxLossPercent", "Grade.Perfect.MinAngle", "Grade.Good.MinAngle",
    "Grade.Okay.MinAngle", "Grade.Bad.MinAngle"}

CornerKeys == {"Corner", "YawCorner"}

AllKeys == Numbers \cup Flags \cup GradeNumbers \cup CornerKeys
             \cup {"YawX", "YawY", "YawMargin", "YawFontSize", "GradeSpeedScale"}

ASSUME KeysAssumption == Keys \subseteq AllKeys

\* Mutant: a number is taken as it is written.
ReadOptionFree(k, v) == v

\* ReadOption clamps; ReadGradeNumber falls back to the default.
ReadOption(k, v) ==
    LET lo == Load(k)[2]  hi == Load(k)[3]
    IN  IF k \in CornerKeys THEN v
        ELSE IF k \notin GradeNumbers THEN Most(lo, Least(hi, v))
        ELSE IF lo <= v /\ v <= hi THEN v ELSE Load(k)[1]

ReadKey(k, v) == IF v = Absent THEN Load(k)[1] ELSE ReadOption(k, v)

\* The keys the dialog shows and SaveOptions writes.
Shown == Keys \cap ({"Corner"} \cup Numbers \cup Flags)

\* The order LoadHudOptions reads in, and SaveOptions writes in.
LoadOrder ==
    << "Scale", "X", "Y", "Margin", "DurationMs", "History", "Compact", "CenterYOffset",
       "ShowLoss", "ShowChange", "ShowRetention", "ShowAngle", "ShowSpeeds", "ShowHorizontal",
       "PaintInNoclip", "ShowYawSpeed", "YawX", "YawY", "YawMargin", "YawFontSize", "YawCorner",
       "GradeColors", "GradeSpeedScale", "GradeReferenceSpeed",
       "Grade.Perfect.MaxLossPercent", "Grade.Perfect.MinAngle", "Grade.Good.MaxLossPercent",
       "Grade.Good.MinAngle", "Grade.Okay.MaxLossPercent", "Grade.Okay.MinAngle",
       "Grade.Bad.MaxLossPercent", "Grade.Bad.MinAngle", "Corner" >>
SaveOrder ==
    << "Corner", "X", "Y", "Scale", "Margin", "DurationMs", "History", "Compact",
       "CenterYOffset", "ShowLoss", "ShowChange", "ShowRetention", "ShowAngle", "ShowSpeeds",
       "ShowHorizontal", "GradeColors", "PaintInNoclip", "ShowYawSpeed" >>

\* k comes before the other keys.
Leads(k, keys, order) ==
    \E i \in DOMAIN order : order[i] = k /\ \A j \in 1..(i - 1) : order[j] \notin keys

VARIABLES
    file,       \* per key: its value in boardstats.ini, or Absent
    edits,      \* history: edits so far
    \* the settings editor
    dialog,     \* per key it writes: what the dialog shows, None while it is closed
    writing,    \* the keys SaveOptions has not written yet
    success,    \* its bSuccess
    \* the game
    options,    \* g_Hud.Options
    reload,     \* per reloader: step; the keys it has not read; its hudOptions; stop: a
                \* HotkeyWorker's ConfigurePaint(FALSE); lone: no other reload, stop or
                \* write since it began; ok: no error yet
    build,      \* client.dll is the verified build
    emitter,    \* g_lpEmitPaint is set
    hook,       \* the game's emitter leads to EmitCameraPaint
    paint,      \* g_lPaintEnabled
    emission,   \* the ray being painted: step, and off when it began
    \* histories
    saved,      \* the dialog whose save succeeded last, None if the file changed since
    applied,    \* a reload that overlapped no other installed what is saved
    off         \* ConfigurePaint(FALSE) returned and ConfigurePaint(TRUE) has not begun since

editorVars == <<dialog, writing, success>>
paintVars  == <<emitter, hook, paint>>
vars == <<file, edits, editorVars, options, reload, build, paintVars, emission, saved,
          applied, off>>

Defaults == [k \in Keys |-> Load(k)[1]]

Idle == [step |-> "idle", unread |-> {}, read |-> Defaults, stop |-> FALSE, lone |-> FALSE,
         ok |-> TRUE]

Init ==
    /\ file = [k \in Keys |-> Absent] /\ edits = 0
    /\ dialog = None /\ writing = {} /\ success = TRUE
    /\ options = Defaults /\ reload = [r \in Reloaders |-> Idle]
    /\ build \in BOOLEAN /\ emitter = FALSE /\ hook = FALSE /\ paint = FALSE
    /\ emission = None /\ saved = None /\ applied = FALSE /\ off = FALSE

\* Values at and around the limits of a key.
Candidates(k) ==
    IF k \in CornerKeys THEN {Corners[i] : i \in 1..4}
    ELSE {Load(k)[2] - 1, Load(k)[2], Load(k)[3], Load(k)[3] + 1}

-----------------------------------------------------------------------------
(* The file.                                                               *)

Others == [r \in Reloaders |-> [reload[r] EXCEPT !.lone = FALSE]]

WriteKey(k, v) ==
    /\ file' = [file EXCEPT ![k] = v]
    /\ reload' = Others
    /\ applied' = FALSE

\* In Notepad, not while the editor is saving.
EditByHand(k, v) ==
    /\ edits < MaxEdits /\ edits' = edits + 1 /\ writing = {}
    /\ WriteKey(k, v) /\ saved' = None
    /\ UNCHANGED <<editorVars, options, build, paintVars, emission, off>>

-----------------------------------------------------------------------------
(* The settings editor.                                                    *)

\* What the dialog shows for the value v of key k, and what it writes.
Show(k, v) == IF k = "Corner" THEN CornerIndex(v) ELSE v
Text(k, v) == IF k = "Corner" THEN Corners[v + 1] ELSE v

\* WM_CREATE: LoadHudOptions, and the dialog is filled.
OpenDialog ==
    /\ dialog = None
    /\ dialog' = [k \in Shown |-> Show(k, ReadKey(k, file[k]))]
    /\ UNCHANGED <<file, edits, writing, success, options, reload, build, paintVars, emission,
                   saved, applied, off>>

CloseDialog ==
    /\ dialog # None /\ writing = {}
    /\ dialog' = None
    /\ UNCHANGED <<file, edits, writing, success, options, reload, build, paintVars, emission,
                   saved, applied, off>>

Change(k, v) ==
    /\ edits < MaxEdits /\ dialog # None /\ writing = {}
    /\ dialog' = [dialog EXCEPT ![k] = v] /\ edits' = edits + 1
    /\ UNCHANGED <<file, writing, success, options, reload, build, paintVars, emission, saved,
                   applied, off>>

\* What can be typed into a number's field, and chosen elsewhere.
Entries(k) ==
    IF k = "Corner" THEN 0..3 ELSE IF k \in Flags THEN {0, 1} ELSE Candidates(k)

\* A number outside its range sends the user back to the dialog.
Accepted == \A k \in Numbers \cap DOMAIN dialog : dialog[k] \in Accepts(k)

SaveBegin ==
    /\ dialog # None /\ writing = {} /\ Accepted
    /\ writing' = Shown /\ success' = TRUE
    /\ saved' = None /\ applied' = FALSE
    /\ UNCHANGED <<file, edits, dialog, options, reload, build, paintVars, emission, off>>

\* Mutant: only the last write decides.
SuccessOfLast(written) == written

\* "... && bSuccess".
Success(written) == written /\ success

\* WritePrivateProfileString, which may fail; the other keys are written all the same.
SaveWrite ==
    /\ \E k \in writing, written \in BOOLEAN :
         /\ Leads(k, writing, SaveOrder)
         /\ writing' = writing \ {k}
         /\ IF written THEN WriteKey(k, Text(k, dialog[k]))
                       ELSE UNCHANGED <<file, reload, applied>>
         /\ success' = (writing' = {} \/ Success(written))
         /\ saved' = IF writing' = {} /\ Success(written) THEN dialog ELSE None
    /\ UNCHANGED <<edits, dialog, options, build, paintVars, emission, off>>

-----------------------------------------------------------------------------
(* ReloadOptions, by the hotkey and by BoardStatsReload, which do not wait   *)
(* for each other; and the ConfigurePaint(FALSE) of a HUD that ends.        *)

Begin(r, state) ==
    /\ reload[r] = Idle
    /\ reload' = [Others EXCEPT ![r] = state]
    /\ applied' = FALSE
    /\ UNCHANGED <<file, edits, editorVars, options, build, paintVars, emission, saved, off>>

ReloadBegin(r) ==
    Begin(r, [Idle EXCEPT !.step = "read", !.unread = Keys,
                          !.lone = writing = {} /\ \A s \in Reloaders : reload[s] = Idle])

StopBegin(r) == Begin(r, [Idle EXCEPT !.step = "paint", !.stop = TRUE])

\* One key after the other, while the file may be written.
LoadHudOptions(r) ==
    /\ reload[r].step = "read"
    /\ \E k \in reload[r].unread :
         /\ Leads(k, reload[r].unread, LoadOrder)
         /\ reload' = [reload EXCEPT ![r].unread = @ \ {k},
                                     ![r].read[k] = ReadKey(k, file[k]),
                                     ![r].step = IF reload[r].unread = {k} THEN "paint" ELSE @]
    /\ UNCHANGED <<file, edits, editorVars, options, build, paintVars, emission, saved, applied,
                   off>>

Value(o, k) == IF k \in Keys THEN o[k] ELSE Load(k)[1]

Wants(r) == ~reload[r].stop /\ Value(reload[r].read, "PaintInNoclip") = 1

PaintLockFree == \A r \in Reloaders : reload[r].step \notin {"hook", "switch"}

\* Mutant: the exception is not switched off before its hook is touched.
SwitchedOff == paint

\* ConfigurePaint begins with the exception off.
Off == FALSE

ConfigureOff(r) ==
    /\ reload[r].step = "paint" /\ PaintLockFree
    /\ paint' = Off
    /\ reload' = [reload EXCEPT ![r].step = "hook"]
    /\ off' = (off /\ ~Wants(r))
    /\ emission' = IF emission # None /\ Wants(r) THEN [emission EXCEPT !.off = FALSE] ELSE emission
    /\ UNCHANGED <<file, edits, editorVars, options, build, emitter, hook, saved, applied>>

\* InitializePaintHook can only succeed on the build its addresses are of.
Initializes == build

\* The hook is made when first wanted, then set or removed; either may fail.
ConfigureHook(r) ==
    /\ reload[r].step = "hook"
    /\ \/ /\ emitter \/ Initializes \/ ~Wants(r)
          /\ emitter' = (emitter \/ Wants(r))
          /\ hook' = (emitter' /\ Wants(r))
          /\ reload' = [reload EXCEPT ![r].step = "switch"]
       \/ /\ emitter \/ Wants(r)
          /\ emitter' \in {emitter, emitter \/ (Initializes /\ Wants(r))}
          /\ UNCHANGED hook
          /\ reload' = [reload EXCEPT ![r].step = "switch", ![r].ok = FALSE]
    /\ UNCHANGED <<file, edits, editorVars, options, build, paint, emission, saved, applied, off>>

\* On again if that is wanted and the hook is set; g_PaintLock is released. An
\* error keeps the old options.
ConfigureDone(r) ==
    /\ reload[r].step = "switch"
    /\ paint' = (paint \/ (reload[r].ok /\ Wants(r)))
    /\ off' = (off \/ ~Wants(r))
    /\ reload' = [reload EXCEPT ![r] = IF @.stop \/ ~@.ok THEN Idle ELSE [@ EXCEPT !.step = "install"]]
    /\ UNCHANGED <<file, edits, editorVars, options, build, emitter, hook, emission, saved, applied>>

Install(r) ==
    /\ reload[r].step = "install"
    /\ options' = reload[r].read
    /\ applied' = (reload[r].lone /\ saved # None)
    /\ reload' = [reload EXCEPT ![r] = Idle]
    /\ UNCHANGED <<file, edits, editorVars, build, paintVars, emission, saved, off>>

-----------------------------------------------------------------------------
(* EmitCameraPaint on the game's thread, which takes no lock.               *)

EmitBegin ==
    /\ hook /\ emission = None
    /\ emission' = [step |-> "check", off |-> off]
    /\ UNCHANGED <<file, edits, editorVars, options, reload, build, paintVars, saved, applied, off>>

\* The exception is on and ReadPaintCamera finds a free camera, or the ray passes.
EmitCheck ==
    /\ emission # None /\ emission.step = "check"
    /\ \/ emission' = None
       \/ paint /\ emission' = [emission EXCEPT !.step = "redirected"]
    /\ UNCHANGED <<file, edits, editorVars, options, reload, build, paintVars, saved, applied, off>>

EmitEnd ==
    /\ emission # None /\ emission.step = "redirected"
    /\ emission' = None
    /\ UNCHANGED <<file, edits, editorVars, options, reload, build, paintVars, saved, applied, off>>

-----------------------------------------------------------------------------

Editor ==
    \/ OpenDialog \/ CloseDialog \/ SaveBegin \/ SaveWrite
    \/ \E k \in Shown : \E v \in Entries(k) : Change(k, v)

Reload(r) ==
    \/ ReloadBegin(r) \/ StopBegin(r) \/ LoadHudOptions(r)
    \/ ConfigureOff(r) \/ ConfigureHook(r) \/ ConfigureDone(r) \/ Install(r)

Next ==
    \/ \E k \in Keys : \E v \in Candidates(k) : EditByHand(k, v)
    \/ Editor \/ \E r \in Reloaders : Reload(r)
    \/ EmitBegin \/ EmitCheck \/ EmitEnd

Spec == Init /\ [][Next]_vars

-----------------------------------------------------------------------------
(* Properties.                                                             *)

\* The fields of HUD_OPTIONS that Panel looks at.
HudOptions(o) ==
    [iScale |-> Value(o, "Scale"), iX |-> Value(o, "X"), iY |-> Value(o, "Y"),
     iMargin |-> Value(o, "Margin"), iHistory |-> Value(o, "History"),
     iCompact |-> Value(o, "Compact"), iCenterY |-> Value(o, "CenterYOffset"),
     bLeft |-> "left" \in Value(o, "Corner"), bBottom |-> "bottom" \in Value(o, "Corner"),
     bChange |-> Value(o, "ShowChange"), bRetention |-> Value(o, "ShowRetention"),
     bAngle |-> Value(o, "ShowAngle"), bSpeeds |-> Value(o, "ShowSpeeds"),
     bHorizontal |-> Value(o, "ShowHorizontal"),
     iYawX |-> Value(o, "YawX"), iYawY |-> Value(o, "YawY"),
     iYawMargin |-> Value(o, "YawMargin"), iYawFontSize |-> Value(o, "YawFontSize"),
     bYawLeft |-> "left" \in Value(o, "YawCorner"),
     bYawBottom |-> "bottom" \in Value(o, "YawCorner"),
     bGradeScale |-> Value(o, "GradeSpeedScale"),
     dGradeSpeed |-> Value(o, "GradeReferenceSpeed"),
     dLoss |-> << Value(o, "Grade.Perfect.MaxLossPercent"),
                  Value(o, "Grade.Good.MaxLossPercent"),
                  Value(o, "Grade.Okay.MaxLossPercent"),
                  Value(o, "Grade.Bad.MaxLossPercent") >>,
     dAngle |-> << Value(o, "Grade.Perfect.MinAngle"), Value(o, "Grade.Good.MinAngle"),
                   Value(o, "Grade.Okay.MinAngle"), Value(o, "Grade.Bad.MinAngle") >>]

\* What may stand in the file, and what LoadHudOptions makes of it.
Words == {"left", "bottom"}
Values(k) == IF k \in CornerKeys THEN SUBSET Words ELSE Int
Limits(k) == IF k \in CornerKeys THEN SUBSET Words ELSE Load(k)[2]..Load(k)[3]
Within(o) == o = [k \in Keys |-> o[k]] /\ \A k \in Keys : o[k] \in Limits(k)

IsDialog(d) ==
    /\ d = [k \in Shown |-> d[k]]
    /\ \A k \in Shown : /\ d[k] \in Int
                        /\ k = "Corner" => d[k] \in 0..3
                        /\ k \in Flags => d[k] \in {0, 1}

FileType ==
    /\ file = [k \in Keys |-> file[k]]
    /\ \A k \in Keys : file[k] = Absent \/ file[k] \in Values(k)

EditorType ==
    /\ edits \in 0..MaxEdits /\ writing \subseteq Shown
    /\ writing # {} => dialog # None
    /\ dialog # None => IsDialog(dialog)
    /\ saved # None => IsDialog(saved)

IsReload(s) ==
    /\ s \in [step : {"idle", "read", "paint", "hook", "switch", "install"},
              unread : SUBSET Keys, read : {s.read},
              stop : BOOLEAN, lone : BOOLEAN, ok : BOOLEAN]
    /\ Within(s.read)

ReloadType ==
    reload = [r \in Reloaders |-> reload[r]] /\ \A r \in Reloaders : IsReload(reload[r])

PaintType ==
    /\ {success, build, emitter, hook, paint, applied, off} \subseteq BOOLEAN
    /\ emission # None => emission \in [step : {"check", "redirected"}, off : BOOLEAN]

\* Every variable keeps its type; the options that are installed, and those being
\* read, are always within their limits, whatever the file says and however it
\* changes between two keys.
TypeOK == FileType /\ EditorType /\ ReloadType /\ PaintType /\ Within(options)

\* "Saved. Press Ctrl+Alt+R in Momentum to apply" (Settings/main.c:126): a reload
\* that begins after a successful save, and overlaps no other reload, installs
\* exactly what the dialog showed, and the paint exception is as it says. Two
\* tables of limits, two of corners and 18 separate writes lie in between.
SavedIsApplied ==
    applied =>
        /\ \A k \in DOMAIN saved : options[k] = Text(k, saved[k])
        /\ "PaintInNoclip" \in DOMAIN saved => paint = (saved["PaintInNoclip"] = 1)

\* A ray that began after ConfigurePaint(FALSE) returned, even with an error, is
\* painted where the game wants it, unless the exception has been wanted since;
\* and rays are redirected on the verified build only.
RedirectIsWanted ==
    emission # None /\ emission.step = "redirected" => build /\ ~emission.off

\* Whatever options are installed, text lies on the panel, the panel in its
\* texture, and panel and yaw label in the game's frame, of whatever size.
PanelFits ==
    LET o == HudOptions(options)
    IN  /\ \A count \in 0..4 : TextFits(o, count)
        /\ \A w \in Widths, h \in Heights :
             /\ \A count \in 0..4 : Inside(PlaceHudPanel(o, PanelHeight(o, count), w, h), w, h)
             /\ Inside(PlaceHudPanel(YawPlacement(o), YawHeight(o), w, h), w, h)

\* Of two boards hit at the same speed, one that lost no more speed at an angle
\* no worse never gets the worse grade, however the thresholds are set.
BetterNeverGradesWorse ==
    LET o == HudOptions(options)
        boards == [loss : Losses, angle : Angles, incoming : Speeds, finite : {TRUE}]
    IN  \A b, c \in boards :
            b # c /\ Gradable(b) /\ Better(b, c) => GetHudGrade(b, o) <= GetHudGrade(c, o)

=============================================================================
