--------------------------- MODULE OptionsProofs ----------------------------
(***************************************************************************)
(* Theorems about Options, for any keys, reloaders, frames and boards.      *)
(***************************************************************************)
EXTENDS Options, TLAPS

\* What is written so far is in the file, and what is saved can be read back.
SaveInv ==
    /\ writing # {} => Accepted
    /\ writing # {} /\ success => \A k \in Shown \ writing : file[k] = Text(k, dialog[k])
    /\ saved # None =>
         /\ writing = {}
         /\ \A k \in Shown : /\ file[k] = Text(k, saved[k])
                             /\ k \in Numbers => saved[k] \in Accepts(k)

\* A reload that overlaps no other has read what the file still says.
LoneInv ==
    \A r \in Reloaders :
        /\ reload[r].step \notin {"idle", "read"} /\ ~reload[r].stop => reload[r].unread = {}
        /\ reload[r].lone =>
             /\ ~reload[r].stop
             /\ \A s \in Reloaders \ {r} : reload[s] = Idle
             /\ \A k \in Keys \ reload[r].unread : reload[r].read[k] = ReadKey(k, file[k])
             /\ reload[r].step = "install" => paint = Wants(r)

AppliedInv ==
    applied =>
        /\ saved # None
        /\ \A r \in Reloaders : reload[r] = Idle
        /\ \A k \in Keys : options[k] = ReadKey(k, file[k])
        /\ paint = (Value(options, "PaintInNoclip") = 1)

\* Only the owner of g_PaintLock finds the switch, and finds it off.
PaintInv ==
    /\ emitter => build
    /\ paint => build
    /\ off => ~paint
    /\ \A r \in Reloaders :
         /\ reload[r].step \in {"hook", "switch"} =>
              /\ ~paint
              /\ \A s \in Reloaders \ {r} : reload[s].step \notin {"hook", "switch"}
              /\ Wants(r) => ~off
         /\ reload[r].step = "switch" /\ reload[r].ok /\ Wants(r) => emitter
    /\ emission # None /\ emission.off => off
    /\ emission # None /\ emission.step = "redirected" => build /\ ~emission.off

-----------------------------------------------------------------------------
(* The tables.                                                             *)

\* Every number has a default between its least and its greatest value.
LEMMA LoadOrdered ==
    \A k \in AllKeys \ CornerKeys :
        /\ Load(k)[1] \in Int /\ Load(k)[2] \in Int /\ Load(k)[3] \in Int
        /\ Load(k)[2] <= Load(k)[1] /\ Load(k)[1] <= Load(k)[3]
  <1> SUFFICES ASSUME NEW k \in AllKeys \ CornerKeys
               PROVE  /\ Load(k)[1] \in Int /\ Load(k)[2] \in Int /\ Load(k)[3] \in Int
                      /\ Load(k)[2] <= Load(k)[1] /\ Load(k)[1] <= Load(k)[3]
    OBVIOUS
  <1>1. CASE k \in {"Scale"}
    <2>1. Load(k) = << 100, 50, 200 >> BY <1>1 DEF Load
    <2> QED BY <2>1
  <1>2. CASE k \in {"X", "Y", "YawX", "YawY"}
    <2>1. Load(k) = << -1, -1, 16384 >> BY <1>2 DEF Load
    <2> QED BY <2>1
  <1>3. CASE k \in {"Margin"}
    <2>1. Load(k) = << 24, 0, 1000 >> BY <1>3 DEF Load
    <2> QED BY <2>1
  <1>4. CASE k \in {"YawMargin"}
    <2>1. Load(k) = << 16, 0, 1000 >> BY <1>4 DEF Load
    <2> QED BY <2>1
  <1>5. CASE k \in {"YawFontSize"}
    <2>1. Load(k) = << 16, 8, 48 >> BY <1>5 DEF Load
    <2> QED BY <2>1
  <1>6. CASE k \in {"DurationMs"}
    <2>1. Load(k) = << 0, 0, 60000 >> BY <1>6 DEF Load
    <2> QED BY <2>1
  <1>7. CASE k \in {"History"}
    <2>1. Load(k) = << 3, 0, 3 >> BY <1>7 DEF Load
    <2> QED BY <2>1
  <1>8. CASE k \in {"Compact"}
    <2>1. Load(k) = << 0, 0, 2 >> BY <1>8 DEF Load
    <2> QED BY <2>1
  <1>9. CASE k \in {"CenterYOffset"}
    <2>1. Load(k) = << 0, -16384, 16384 >> BY <1>9 DEF Load
    <2> QED BY <2>1
  <1>10. CASE k \in {"ShowLoss", "ShowHorizontal", "PaintInNoclip", "ShowYawSpeed"}
    <2>1. Load(k) = << 0, 0, 1 >> BY <1>10 DEF Load
    <2> QED BY <2>1
  <1>11. CASE k \in {"ShowChange", "ShowRetention", "ShowAngle", "ShowSpeeds", "GradeColors",
                "GradeSpeedScale"}
    <2>1. Load(k) = << 1, 0, 1 >> BY <1>11 DEF Load
    <2> QED BY <2>1
  <1>12. CASE k \in GradeNumbers
    <2>1. k = "GradeReferenceSpeed" => Load(k) = << 1500, 1, 1000000 >> BY DEF Load
    <2>2. k = "Grade.Perfect.MaxLossPercent" => Load(k) = << 5, 0, 1000 >> BY DEF Load
    <2>3. k = "Grade.Good.MaxLossPercent" => Load(k) = << 15, 0, 1000 >> BY DEF Load
    <2>4. k = "Grade.Okay.MaxLossPercent" => Load(k) = << 30, 0, 1000 >> BY DEF Load
    <2>5. k = "Grade.Bad.MaxLossPercent" => Load(k) = << 50, 0, 1000 >> BY DEF Load
    <2>6. k = "Grade.Perfect.MinAngle" => Load(k) = << 85, 0, 90 >> BY DEF Load
    <2>7. k = "Grade.Good.MinAngle" => Load(k) = << 80, 0, 90 >> BY DEF Load
    <2>8. k = "Grade.Okay.MinAngle" => Load(k) = << 75, 0, 90 >> BY DEF Load
    <2>9. k = "Grade.Bad.MinAngle" => Load(k) = << 60, 0, 90 >> BY DEF Load
    <2> QED BY <1>12, <2>1, <2>2, <2>3, <2>4, <2>5, <2>6, <2>7, <2>8, <2>9 DEF GradeNumbers
  <1> QED
    BY <1>1, <1>2, <1>3, <1>4, <1>5, <1>6, <1>7, <1>8, <1>9, <1>10, <1>11, <1>12
    DEF AllKeys, Numbers, Flags, CornerKeys

LEMMA LoadCorner == \A k \in CornerKeys : Load(k)[1] \in SUBSET Words
  BY DEF CornerKeys, Load, Words

\* What the dialog accepts, the game takes as it is.
LEMMA LoadAccepted ==
    /\ \A k \in Numbers : Accepts(k) \subseteq Load(k)[2]..Load(k)[3]
    /\ \A k \in Flags : Load(k)[2] = 0 /\ Load(k)[3] = 1
    /\ (Numbers \cup Flags) \cap (GradeNumbers \cup CornerKeys) = {}
  <1>1. ASSUME NEW k \in Numbers PROVE Accepts(k) \subseteq Load(k)[2]..Load(k)[3]
    <2>1. CASE k = "X"
      <3>1. Load(k) = << -1, -1, 16384 >> BY <2>1 DEF Load
      <3>2. Accepts(k) = -1..16384 BY <2>1 DEF Accepts
      <3>3. Load(k)[2] = -1 /\ Load(k)[3] = 16384 BY <3>1
      <3> QED BY <3>2, <3>3
    <2>8. CASE k = "Y"
      <3>1. Load(k) = << -1, -1, 16384 >> BY <2>8 DEF Load
      <3>2. Accepts(k) = -1..16384 BY <2>8 DEF Accepts
      <3>3. Load(k)[2] = -1 /\ Load(k)[3] = 16384 BY <3>1
      <3> QED BY <3>2, <3>3
    <2>2. CASE k = "Scale"
      <3>1. Load(k) = << 100, 50, 200 >> BY <2>2 DEF Load
      <3>2. Accepts(k) = 50..200 BY <2>2 DEF Accepts
      <3>3. Load(k)[2] = 50 /\ Load(k)[3] = 200 BY <3>1
      <3> QED BY <3>2, <3>3
    <2>3. CASE k = "Margin"
      <3>1. Load(k) = << 24, 0, 1000 >> BY <2>3 DEF Load
      <3>2. Accepts(k) = 0..1000 BY <2>3 DEF Accepts
      <3>3. Load(k)[2] = 0 /\ Load(k)[3] = 1000 BY <3>1
      <3> QED BY <3>2, <3>3
    <2>4. CASE k = "DurationMs"
      <3>1. Load(k) = << 0, 0, 60000 >> BY <2>4 DEF Load
      <3>2. Accepts(k) = 0..60000 BY <2>4 DEF Accepts
      <3>3. Load(k)[2] = 0 /\ Load(k)[3] = 60000 BY <3>1
      <3> QED BY <3>2, <3>3
    <2>5. CASE k = "History"
      <3>1. Load(k) = << 3, 0, 3 >> BY <2>5 DEF Load
      <3>2. Accepts(k) = 0..3 BY <2>5 DEF Accepts
      <3>3. Load(k)[2] = 0 /\ Load(k)[3] = 3 BY <3>1
      <3> QED BY <3>2, <3>3
    <2>6. CASE k = "Compact"
      <3>1. Load(k) = << 0, 0, 2 >> BY <2>6 DEF Load
      <3>2. Accepts(k) = 0..2 BY <2>6 DEF Accepts
      <3>3. Load(k)[2] = 0 /\ Load(k)[3] = 2 BY <3>1
      <3> QED BY <3>2, <3>3
    <2>7. CASE k = "CenterYOffset"
      <3>1. Load(k) = << 0, -16384, 16384 >> BY <2>7 DEF Load
      <3>2. Accepts(k) = -16384..16384 BY <2>7 DEF Accepts
      <3>3. Load(k)[2] = -16384 /\ Load(k)[3] = 16384 BY <3>1
      <3> QED BY <3>2, <3>3
    <2> QED BY <2>1, <2>2, <2>3, <2>4, <2>5, <2>6, <2>7, <2>8 DEF Numbers
  <1>2. ASSUME NEW k \in Flags PROVE Load(k)[2] = 0 /\ Load(k)[3] = 1
    <2>1. CASE k \in {"ShowLoss", "ShowHorizontal", "PaintInNoclip", "ShowYawSpeed"}
      <3>1. Load(k) = << 0, 0, 1 >> BY <2>1 DEF Load
      <3> QED BY <3>1
    <2>2. CASE k \in {"ShowChange", "ShowRetention", "ShowAngle", "ShowSpeeds", "GradeColors"}
      <3>1. Load(k) = << 1, 0, 1 >> BY <2>2 DEF Load
      <3> QED BY <3>1
    <2> QED BY <2>1, <2>2 DEF Flags
  <1>3. (Numbers \cup Flags) \cap (GradeNumbers \cup CornerKeys) = {}
    BY DEF Flags, Numbers, GradeNumbers, CornerKeys
  <1> QED BY <1>1, <1>2, <1>3

\* Whatever is read is within its limits.
LEMMA ReadWithin ==
    ASSUME NEW k \in Keys, NEW v, v = Absent \/ v \in Values(k)
    PROVE  ReadKey(k, v) \in Limits(k)
  <1>1. CASE k \in CornerKeys
    BY <1>1, LoadCorner DEF ReadKey, ReadOption, Limits, Values
  <1>2. CASE k \notin CornerKeys
    <2>1. k \in AllKeys \ CornerKeys BY <1>2, KeysAssumption
    <2> DEFINE lo == Load(k)[2]  hi == Load(k)[3]  def == Load(k)[1]
    <2>2. lo \in Int /\ hi \in Int /\ def \in Int /\ lo <= def /\ def <= hi
      BY <2>1, LoadOrdered
    <2>3. v = Absent \/ v \in Int BY <1>2 DEF Values
    <2> HIDE DEF lo, hi, def
    <2>4. ReadKey(k, v) = IF v = Absent THEN def
                          ELSE IF k \notin GradeNumbers THEN Most(lo, Least(hi, v))
                          ELSE IF lo <= v /\ v <= hi THEN v ELSE def
      BY <1>2 DEF ReadKey, ReadOption, lo, hi, def
    <2>5. ReadKey(k, v) \in lo..hi
      BY <2>2, <2>3, <2>4 DEF Most, Least
    <2> QED BY <1>2, <2>5 DEF Limits, lo, hi
  <1> QED BY <1>1, <1>2

\* What the dialog writes is read back as it was shown.
LEMMA ReadsBack ==
    ASSUME NEW d, IsDialog(d), NEW k \in Shown, k \in Numbers => d[k] \in Accepts(k)
    PROVE  ReadKey(k, Text(k, d[k])) = Text(k, d[k])
  <1>1. CASE k = "Corner"
    <2>1. d[k] \in 0..3 BY <1>1 DEF IsDialog
    <2>2. Text(k, d[k]) \in SUBSET {"left", "bottom"}
      BY <1>1, <2>1 DEF Text, Corners
    <2> QED BY <1>1, <2>2, AbsentAssumption DEF ReadKey, ReadOption, CornerKeys
  <1>2. CASE k # "Corner"
    <2> DEFINE lo == Load(k)[2]  hi == Load(k)[3]  v == d[k]
    <2>1. k \in Numbers \cup Flags BY <1>2 DEF Shown
    <2>2. k \notin GradeNumbers /\ k \notin CornerKeys BY <2>1, LoadAccepted
    <2>3. lo \in Int /\ hi \in Int
      BY <2>1, <2>2, LoadOrdered DEF AllKeys
    <2>4. v \in Int /\ (k \in Flags => v \in {0, 1}) BY DEF IsDialog
    <2>5. v \in lo..hi BY <2>1, <2>4, LoadAccepted
    <2>6. Text(k, d[k]) = v BY <1>2 DEF Text
    <2>7. v # Absent BY <2>4, AbsentAssumption
    <2> HIDE DEF lo, hi, v
    <2>8. Most(lo, Least(hi, v)) = v BY <2>3, <2>4, <2>5 DEF Most, Least
    <2>9. ReadKey(k, v) = Most(lo, Least(hi, v))
      BY <2>2, <2>7 DEF ReadKey, ReadOption, lo, hi
    <2> QED BY <2>6, <2>8, <2>9
  <1> QED BY <1>1, <1>2

-----------------------------------------------------------------------------
(* Types.                                                                  *)

LEMMA DefaultsWithin == Within(Defaults)
  <1>1. \A k \in Keys : Load(k)[1] \in Limits(k)
    BY ReadWithin DEF ReadKey
  <1> QED BY <1>1 DEF Within, Defaults

LEMMA IdleType == IsReload(Idle)
  BY DefaultsWithin DEF IsReload, Idle

LEMMA OthersType ==
    ASSUME ReloadType
    PROVE  Others = [r \in Reloaders |-> Others[r]] /\ \A r \in Reloaders : IsReload(Others[r])
  BY DEF ReloadType, Others, IsReload

LEMMA CandidatesType == \A k \in Keys : Candidates(k) \subseteq Values(k)
  <1>1. ASSUME NEW k \in Keys, k \in CornerKeys PROVE Candidates(k) \subseteq Values(k)
    BY <1>1 DEF Candidates, Values, Corners, Words
  <1>2. ASSUME NEW k \in Keys, k \notin CornerKeys PROVE Candidates(k) \subseteq Values(k)
    <2>1. Load(k)[2] \in Int /\ Load(k)[3] \in Int
      BY <1>2, KeysAssumption, LoadOrdered
    <2> QED BY <1>2, <2>1 DEF Candidates, Values
  <1> QED BY <1>1, <1>2

LEMMA TypeInit == Init => TypeOK
  <1> SUFFICES ASSUME Init PROVE TypeOK OBVIOUS
  <1>1. FileType BY DEF Init, FileType
  <1>2. EditorType BY BoundsAssumption DEF Init, EditorType
  <1>3. ReloadType BY IdleType DEF Init, ReloadType
  <1>4. PaintType BY DEF Init, PaintType
  <1>5. Within(options) BY DefaultsWithin DEF Init
  <1> QED BY <1>1, <1>2, <1>3, <1>4, <1>5 DEF TypeOK

LEMMA TypeStep == TypeOK /\ [Next]_vars => TypeOK'
  <1> SUFFICES ASSUME TypeOK, [Next]_vars PROVE TypeOK' OBVIOUS
  <1> USE DEF TypeOK
  <1>1. ASSUME NEW k \in Keys, NEW v \in Candidates(k), EditByHand(k, v) PROVE TypeOK'
    <2>1. v \in Values(k) BY CandidatesType
    <2>2. FileType' BY <1>1, <2>1 DEF EditByHand, WriteKey, FileType
    <2>3. EditorType'
      BY <1>1, BoundsAssumption DEF EditByHand, EditorType, editorVars
    <2>4. ReloadType' BY <1>1, OthersType DEF EditByHand, WriteKey, ReloadType
    <2>5. PaintType' BY <1>1 DEF EditByHand, WriteKey, PaintType, editorVars, paintVars
    <2>6. Within(options)' BY <1>1 DEF EditByHand, Within
    <2> QED BY <2>2, <2>3, <2>4, <2>5, <2>6
  <1>2. ASSUME OpenDialog PROVE TypeOK'
    <2>1. IsDialog(dialog')
      <3>1. \A k \in Keys : ReadKey(k, file[k]) \in Limits(k) BY ReadWithin DEF FileType
      <3>2. ASSUME NEW k \in Shown, k = "Corner"
            PROVE  Show(k, ReadKey(k, file[k])) \in 0..3
        BY <3>1, <3>2 DEF Show, CornerIndex, Shown
      <3>3. ASSUME NEW k \in Shown, k # "Corner"
            PROVE  /\ Show(k, ReadKey(k, file[k])) \in Int
                   /\ k \in Flags => Show(k, ReadKey(k, file[k])) \in {0, 1}
        <4>1. k \in Numbers \cup Flags /\ k \in Keys BY <3>3 DEF Shown
        <4>2. k \notin CornerKeys BY <4>1, LoadAccepted
        <4>3. Load(k)[2] \in Int /\ Load(k)[3] \in Int BY <4>1, <4>2, LoadOrdered, KeysAssumption
        <4>4. ReadKey(k, file[k]) \in Load(k)[2]..Load(k)[3] BY <3>1, <4>1, <4>2 DEF Limits
        <4>5. k \in Flags => Load(k)[2] = 0 /\ Load(k)[3] = 1 BY LoadAccepted
        <4> QED BY <3>3, <4>3, <4>4, <4>5 DEF Show
      <3>4. "Corner" \notin Flags BY DEF Flags
      <3> QED BY <1>2, <3>2, <3>3, <3>4 DEF OpenDialog, IsDialog
    <2> QED BY <1>2, <2>1 DEF OpenDialog, FileType, EditorType, ReloadType, PaintType, Within, paintVars
  <1>3. ASSUME CloseDialog PROVE TypeOK'
    BY <1>3 DEF CloseDialog, FileType, EditorType, ReloadType, PaintType, Within, paintVars
  <1>4. ASSUME NEW k \in Shown, NEW v \in Entries(k), Change(k, v) PROVE TypeOK'
    <2>1. v \in Int /\ (k = "Corner" => v \in 0..3) /\ (k \in Flags => v \in {0, 1})
      <3>1. k \notin Flags /\ k # "Corner" => v \in Values(k) /\ k \notin CornerKeys
        BY CandidatesType, LoadAccepted DEF Entries, Shown
      <3>2. "Corner" \notin Flags BY DEF Flags
      <3> QED BY <3>1, <3>2 DEF Entries, Values
    <2>2. IsDialog(dialog') BY <1>4, <2>1 DEF Change, EditorType, IsDialog
    <2>3. EditorType' BY <1>4, <2>2, BoundsAssumption DEF Change, EditorType
    <2> QED BY <1>4, <2>3 DEF Change, FileType, ReloadType, PaintType, Within, paintVars
  <1>5. ASSUME SaveBegin PROVE TypeOK'
    BY <1>5 DEF SaveBegin, FileType, EditorType, ReloadType, PaintType, Within, paintVars
  <1>6. ASSUME SaveWrite PROVE TypeOK'
    <2>1. PICK k \in writing, written \in BOOLEAN :
            /\ writing' = writing \ {k}
            /\ IF written THEN WriteKey(k, Text(k, dialog[k]))
                          ELSE UNCHANGED <<file, reload, applied>>
            /\ success' = (writing' = {} \/ Success(written))
            /\ saved' = IF writing' = {} /\ Success(written) THEN dialog ELSE None
      BY <1>6 DEF SaveWrite
    <2>2. UNCHANGED <<edits, dialog, options, build, paintVars, emission, off>>
      BY <1>6 DEF SaveWrite
    <2>3. EditorType' BY <2>1, <2>2 DEF EditorType
    <2>4. PaintType' BY <2>1, <2>2 DEF PaintType, WriteKey, Success, paintVars
    <2>5. ReloadType' BY <2>1, OthersType DEF ReloadType, WriteKey
    <2>6. FileType'
      <3>1. IsDialog(dialog) /\ k \in Shown /\ k \in Keys BY DEF EditorType, Shown
      <3>2. CASE k = "Corner"
        <4>1. Text(k, dialog[k]) \in SUBSET {"left", "bottom"}
          BY <3>1, <3>2 DEF IsDialog, Text, Corners
        <4>2. Text(k, dialog[k]) \in Values(k)
          BY <3>2, <4>1 DEF Values, Words, CornerKeys
        <4> QED BY <2>1, <4>2 DEF FileType, WriteKey
      <3>3. CASE k # "Corner"
        <4>1. k \notin CornerKeys BY <3>1, <3>3, LoadAccepted DEF Shown
        <4>2. Text(k, dialog[k]) \in Values(k)
          BY <3>1, <3>3, <4>1 DEF IsDialog, Text, Values
        <4> QED BY <2>1, <4>2 DEF FileType, WriteKey
      <3> QED BY <3>2, <3>3
    <2> QED BY <2>2, <2>3, <2>4, <2>5, <2>6 DEF Within
  <1>7. ASSUME NEW r \in Reloaders, ReloadBegin(r) \/ StopBegin(r) PROVE TypeOK'
    <2> DEFINE lone == writing = {} /\ \A s \in Reloaders : reload[s] = Idle
               first == [Idle EXCEPT !.step = "read", !.unread = Keys, !.lone = lone]
               stop == [Idle EXCEPT !.step = "paint", !.stop = TRUE]
    <2>1. IsReload(first) /\ IsReload(stop) BY IdleType DEF IsReload, Idle
    <2>2. Begin(r, first) \/ Begin(r, stop) BY <1>7 DEF ReloadBegin, StopBegin
    <2> HIDE DEF first, stop
    <2>3. PICK s : Begin(r, s) /\ IsReload(s) BY <2>1, <2>2
    <2>4. ReloadType' BY <2>3, OthersType DEF Begin, ReloadType
    <2> QED BY <2>3, <2>4 DEF Begin, FileType, EditorType, PaintType, Within, paintVars, editorVars
  <1>8. ASSUME NEW r \in Reloaders, LoadHudOptions(r) PROVE TypeOK'
    <2>1. PICK k \in reload[r].unread :
            reload' = [reload EXCEPT ![r].unread = @ \ {k},
                                     ![r].read[k] = ReadKey(k, file[k]),
                                     ![r].step = IF reload[r].unread = {k} THEN "paint" ELSE @]
      BY <1>8 DEF LoadHudOptions
    <2>2. IsReload(reload[r]) /\ k \in Keys BY DEF ReloadType, IsReload
    <2>3. ReadKey(k, file[k]) \in Limits(k) BY <2>2, ReadWithin DEF FileType
    <2>4. IsReload(reload'[r]) BY <2>1, <2>2, <2>3 DEF IsReload, Within, ReloadType
    <2>5. ReloadType' BY <2>1, <2>4 DEF ReloadType
    <2> QED BY <1>8, <2>5 DEF LoadHudOptions, FileType, EditorType, PaintType, Within, paintVars, editorVars
  <1>9. ASSUME NEW r \in Reloaders, ConfigureOff(r) PROVE TypeOK'
    <2>1. ReloadType' BY <1>9 DEF ConfigureOff, ReloadType, IsReload
    <2>2. PaintType' BY <1>9 DEF ConfigureOff, PaintType, Off, editorVars, Wants
    <2> QED BY <1>9, <2>1, <2>2 DEF ConfigureOff, FileType, EditorType, Within, editorVars
  <1>10. ASSUME NEW r \in Reloaders, ConfigureHook(r) PROVE TypeOK'
    <2>1. ReloadType' BY <1>10 DEF ConfigureHook, ReloadType, IsReload
    <2>2. PaintType' BY <1>10 DEF ConfigureHook, PaintType, editorVars, Wants, Initializes
    <2> QED BY <1>10, <2>1, <2>2 DEF ConfigureHook, FileType, EditorType, Within, editorVars
  <1>11. ASSUME NEW r \in Reloaders, ConfigureDone(r) PROVE TypeOK'
    <2>1. ReloadType' BY <1>11, IdleType DEF ConfigureDone, ReloadType, IsReload
    <2>2. PaintType' BY <1>11 DEF ConfigureDone, PaintType, editorVars, Wants
    <2> QED BY <1>11, <2>1, <2>2 DEF ConfigureDone, FileType, EditorType, Within, editorVars
  <1>12. ASSUME NEW r \in Reloaders, Install(r) PROVE TypeOK'
    <2>1. ReloadType' BY <1>12, IdleType DEF Install, ReloadType
    <2>2. Within(options') BY <1>12 DEF Install, ReloadType, IsReload
    <2>3. PaintType' BY <1>12 DEF Install, PaintType, ReloadType, IsReload, editorVars, paintVars
    <2> QED BY <1>12, <2>1, <2>2, <2>3 DEF Install, FileType, EditorType, Within, editorVars
  <1>13. ASSUME EmitBegin \/ EmitCheck \/ EmitEnd PROVE TypeOK'
    <2>1. PaintType'
      BY <1>13 DEF EmitBegin, EmitCheck, EmitEnd, PaintType, editorVars, paintVars
    <2> QED BY <1>13, <2>1 DEF EmitBegin, EmitCheck, EmitEnd, FileType, EditorType, ReloadType,
                               Within, editorVars
  <1>14. ASSUME UNCHANGED vars PROVE TypeOK'
    BY <1>14 DEF vars, FileType, EditorType, ReloadType, PaintType, Within, editorVars, paintVars
  <1> QED
    BY <1>1, <1>2, <1>3, <1>4, <1>5, <1>6, <1>7, <1>8, <1>9, <1>10, <1>11, <1>12, <1>13, <1>14
    DEF Next, Editor, Reload

\* Options are always within their limits, whatever is written into the file and
\* whenever it is read.
THEOREM OptionsType == Spec => []TypeOK
  BY TypeInit, TypeStep, PTL DEF Spec

-----------------------------------------------------------------------------
(* The paint exception.                                                    *)

LEMMA PaintStep == TypeOK /\ PaintInv /\ [Next]_vars => PaintInv'
  <1> SUFFICES ASSUME TypeOK, PaintInv, [Next]_vars PROVE PaintInv' OBVIOUS
  <1>0. ReloadType /\ PaintType /\ TypeOK'
    BY TypeStep DEF TypeOK
  <1> DEFINE Kept == UNCHANGED <<build, paintVars, emission, off>>
  \* What a write, or a reload elsewhere, does to a reloader.
  <1>1. ASSUME Kept,
               \A r \in Reloaders :
                 /\ reload'[r].step = reload[r].step \/ reload'[r].step \notin {"hook", "switch"}
                 /\ reload[r].step \in {"hook", "switch"} =>
                      /\ reload'[r].read = reload[r].read /\ reload'[r].stop = reload[r].stop
                      /\ reload'[r].ok = reload[r].ok
        PROVE  PaintInv'
    BY <1>1 DEF PaintInv, Wants, Value, paintVars
  <1>2. ASSUME Kept, UNCHANGED reload \/ reload' = Others PROVE PaintInv'
    BY <1>0, <1>1, <1>2 DEF Others, ReloadType, IsReload
  <1>3. ASSUME NEW k \in Keys, NEW v \in Candidates(k), EditByHand(k, v) PROVE PaintInv'
    BY <1>2, <1>3 DEF EditByHand, WriteKey, editorVars
  <1>4. ASSUME Editor PROVE PaintInv'
    <2>1. Kept BY <1>4 DEF Editor, OpenDialog, CloseDialog, SaveBegin, SaveWrite, Change
    <2>2. UNCHANGED reload \/ reload' = Others
      BY <1>4 DEF Editor, OpenDialog, CloseDialog, SaveBegin, SaveWrite, Change, WriteKey
    <2> QED BY <1>2, <2>1, <2>2
  <1>5. ASSUME NEW r \in Reloaders, ReloadBegin(r) \/ StopBegin(r) PROVE PaintInv'
    <2> DEFINE lone == writing = {} /\ \A s \in Reloaders : reload[s] = Idle
               first == [Idle EXCEPT !.step = "read", !.unread = Keys, !.lone = lone]
               stop == [Idle EXCEPT !.step = "paint", !.stop = TRUE]
    <2>1. first.step = "read" /\ stop.step = "paint" BY DEF Idle
    <2>2. Begin(r, first) \/ Begin(r, stop) BY <1>5 DEF ReloadBegin, StopBegin
    <2> HIDE DEF first, stop
    <2>3. PICK s : Begin(r, s) /\ s.step \notin {"hook", "switch"} BY <2>1, <2>2
    <2> QED BY <1>0, <1>1, <2>3 DEF Begin, Others, ReloadType, IsReload, Idle
  <1>6. ASSUME NEW r \in Reloaders, LoadHudOptions(r) PROVE PaintInv'
    BY <1>0, <1>1, <1>6 DEF LoadHudOptions, ReloadType, IsReload
  <1>7. ASSUME NEW r \in Reloaders, ConfigureOff(r) PROVE PaintInv'
    BY <1>0, <1>7 DEF ConfigureOff, Off, PaintLockFree, PaintInv, ReloadType, IsReload, PaintType,
                      Wants, Value
  <1>8. ASSUME NEW r \in Reloaders, ConfigureHook(r) PROVE PaintInv'
    <2>1. /\ ~paint
          /\ Wants(r) => ~off
          /\ \A s \in Reloaders \ {r} : reload[s].step \notin {"hook", "switch"}
      BY <1>8 DEF ConfigureHook, PaintInv
    <2>2. UNCHANGED <<build, paint, emission, off>> BY <1>8 DEF ConfigureHook
    <2>3. /\ \A s \in Reloaders \ {r} : reload'[s] = reload[s]
          /\ reload'[r].read = reload[r].read /\ reload'[r].stop = reload[r].stop
      BY <1>0, <1>8 DEF ConfigureHook, ReloadType, IsReload
    <2>4. emitter' => build
      <3>1. emitter => build BY DEF PaintInv
      <3>2. \/ (emitter \/ Initializes \/ ~Wants(r)) /\ emitter' = (emitter \/ Wants(r))
            \/ emitter' = emitter
            \/ emitter' = (emitter \/ (Initializes /\ Wants(r)))
        BY <1>8 DEF ConfigureHook
      <3> QED BY <3>1, <3>2 DEF Initializes
    <2>5. reload'[r].ok /\ Wants(r) => emitter'
      <3>1. \/ emitter' = (emitter \/ Wants(r))
            \/ reload' = [reload EXCEPT ![r].step = "switch", ![r].ok = FALSE]
        BY <1>8 DEF ConfigureHook
      <3>2. ASSUME reload' = [reload EXCEPT ![r].step = "switch", ![r].ok = FALSE]
            PROVE  ~reload'[r].ok
        BY <1>0, <3>2 DEF ReloadType, IsReload
      <3> QED BY <3>1, <3>2
    <2>6. ASSUME NEW s \in Reloaders
          PROVE  /\ reload'[s].step \in {"hook", "switch"} =>
                      /\ ~paint'
                      /\ \A q \in Reloaders \ {s} : reload'[q].step \notin {"hook", "switch"}
                      /\ Wants(s)' => ~off'
                 /\ reload'[s].step = "switch" /\ reload'[s].ok /\ Wants(s)' => emitter'
      <3>1. CASE s = r
        <4>1. Wants(r)' <=> Wants(r) BY <2>3 DEF Wants, Value
        <4> QED BY <2>1, <2>2, <2>3, <2>5, <3>1, <4>1
      <3>2. CASE s # r BY <2>1, <2>3, <3>2
      <3> QED BY <3>1, <3>2
    <2> QED BY <2>1, <2>2, <2>4, <2>6 DEF PaintInv
  <1>9. ASSUME NEW r \in Reloaders, ConfigureDone(r) PROVE PaintInv'
    BY <1>0, <1>9 DEF ConfigureDone, PaintInv, ReloadType, IsReload, PaintType, Wants, Value, Idle
  <1>10. ASSUME NEW r \in Reloaders, Install(r) PROVE PaintInv'
    BY <1>0, <1>1, <1>10 DEF Install, ReloadType, IsReload, Idle
  <1>11. ASSUME EmitBegin \/ EmitCheck \/ EmitEnd PROVE PaintInv'
    BY <1>0, <1>11 DEF EmitBegin, EmitCheck, EmitEnd, PaintInv, PaintType, paintVars, Wants
  <1>12. ASSUME UNCHANGED vars PROVE PaintInv'
    BY <1>2, <1>12 DEF vars, paintVars
  <1> QED
    BY <1>3, <1>4, <1>5, <1>6, <1>7, <1>8, <1>9, <1>10, <1>11, <1>12 DEF Next, Reload

\* A ray is redirected only on the verified build, and never once the exception
\* was switched off before the ray began, although EmitCameraPaint takes no lock
\* and reloads overlap.
THEOREM PaintIsWanted == Spec => []RedirectIsWanted
  <1>1. Init => PaintInv BY DEF Init, PaintInv, Idle
  <1>2. PaintInv => RedirectIsWanted BY DEF PaintInv, RedirectIsWanted
  <1> QED BY <1>1, <1>2, PaintStep, OptionsType, PTL DEF Spec

-----------------------------------------------------------------------------
(* What is saved is what a reload applies.                                 *)

LEMMA SaveStep == TypeOK /\ SaveInv /\ [Next]_vars => SaveInv'
  <1> SUFFICES ASSUME TypeOK, SaveInv, [Next]_vars PROVE SaveInv' OBVIOUS
  <1>0. FileType /\ EditorType /\ PaintType BY DEF TypeOK
  <1>1. ASSUME UNCHANGED <<file, dialog, writing, success, saved>> PROVE SaveInv'
    BY <1>1 DEF SaveInv, Accepted
  <1>2. ASSUME NEW k \in Keys, NEW v \in Candidates(k), EditByHand(k, v) PROVE SaveInv'
    BY <1>2 DEF EditByHand, editorVars, SaveInv
  <1>3. ASSUME OpenDialog \/ CloseDialog \/ (\E k \in Shown : \E v \in Entries(k) : Change(k, v))
        PROVE  SaveInv'
    <2>1. writing = {} BY <1>0, <1>3 DEF OpenDialog, CloseDialog, Change, EditorType
    <2>2. UNCHANGED <<file, writing, saved>> BY <1>3 DEF OpenDialog, CloseDialog, Change
    <2> QED BY <2>1, <2>2 DEF SaveInv
  <1>4. ASSUME SaveBegin PROVE SaveInv'
    BY <1>4 DEF SaveBegin, SaveInv, Accepted
  <1>5. ASSUME SaveWrite PROVE SaveInv'
    <2>1. PICK k \in writing, written \in BOOLEAN :
            /\ writing' = writing \ {k}
            /\ IF written THEN WriteKey(k, Text(k, dialog[k]))
                          ELSE UNCHANGED <<file, reload, applied>>
            /\ success' = (writing' = {} \/ Success(written))
            /\ saved' = IF writing' = {} /\ Success(written) THEN dialog ELSE None
      BY <1>5 DEF SaveWrite
    <2>2. dialog' = dialog BY <1>5 DEF SaveWrite
    <2>3. Accepted /\ dialog # None /\ IsDialog(dialog) /\ k \in Shown /\ k \in Keys
      BY <1>0, <2>1 DEF SaveInv, EditorType, Shown
    <2>4. Success(written) => \A j \in Shown \ writing' : file'[j] = Text(j, dialog[j])
      BY <1>0, <2>1, <2>3 DEF SaveInv, Success, WriteKey, FileType, Shown
    <2>5. \A j \in Shown : j \in Numbers => dialog[j] \in Accepts(j)
      BY <2>3 DEF Accepted, IsDialog
    <2>6. saved' # None => /\ writing' = {}
                           /\ \A j \in Shown : /\ file'[j] = Text(j, saved'[j])
                                               /\ j \in Numbers => saved'[j] \in Accepts(j)
      BY <2>1, <2>4, <2>5
    <2>7. writing' # {} => Accepted' BY <2>2, <2>3 DEF Accepted
    <2>8. writing' # {} /\ success' => \A j \in Shown \ writing' : file'[j] = Text(j, dialog'[j])
      BY <2>1, <2>2, <2>4
    <2> QED BY <2>6, <2>7, <2>8 DEF SaveInv
  <1>6. ASSUME NEW r \in Reloaders, Reload(r) PROVE SaveInv'
    BY <1>1, <1>6 DEF Reload, ReloadBegin, StopBegin, Begin, LoadHudOptions, ConfigureOff,
                      ConfigureHook, ConfigureDone, Install, editorVars
  <1>7. ASSUME EmitBegin \/ EmitCheck \/ EmitEnd PROVE SaveInv'
    BY <1>1, <1>7 DEF EmitBegin, EmitCheck, EmitEnd, editorVars
  <1>8. ASSUME UNCHANGED vars PROVE SaveInv'
    BY <1>1, <1>8 DEF vars, editorVars
  <1> QED BY <1>2, <1>3, <1>4, <1>5, <1>6, <1>7, <1>8 DEF Next, Editor

LEMMA LoneStep == TypeOK /\ PaintInv /\ LoneInv /\ [Next]_vars => LoneInv'
  <1> SUFFICES ASSUME TypeOK, PaintInv, LoneInv, [Next]_vars PROVE LoneInv' OBVIOUS
  <1>0. ReloadType /\ PaintType /\ FileType BY DEF TypeOK
  <1>1. ASSUME UNCHANGED <<file, reload, paint>> PROVE LoneInv'
    BY <1>1 DEF LoneInv, Wants
  \* A write ends every reload's claim to be alone.
  <1>2. ASSUME reload' = Others PROVE LoneInv'
    BY <1>0, <1>2 DEF Others, LoneInv, ReloadType, IsReload
  <1>3. ASSUME NEW k \in Keys, NEW v \in Candidates(k), EditByHand(k, v) PROVE LoneInv'
    BY <1>2, <1>3 DEF EditByHand, WriteKey
  <1>4. ASSUME Editor PROVE LoneInv'
    BY <1>1, <1>2, <1>4 DEF Editor, OpenDialog, CloseDialog, SaveBegin, SaveWrite, Change, WriteKey,
                            paintVars
  <1>5. ASSUME NEW r \in Reloaders, StopBegin(r) PROVE LoneInv'
    <2>1. reload' = [Others EXCEPT ![r] = [Idle EXCEPT !.step = "paint", !.stop = TRUE]]
      BY <1>5 DEF StopBegin, Begin
    <2> QED BY <1>0, <2>1 DEF LoneInv, Others, ReloadType, IsReload, Idle
  <1>6. ASSUME NEW r \in Reloaders, ReloadBegin(r) PROVE LoneInv'
    <2> DEFINE lone == writing = {} /\ \A s \in Reloaders : reload[s] = Idle
               first == [Idle EXCEPT !.step = "read", !.unread = Keys, !.lone = lone]
    <2>1. reload' = [Others EXCEPT ![r] = first] BY <1>6 DEF ReloadBegin, Begin
    <2>2. /\ first.lone = lone /\ first.step = "read" /\ first.unread = Keys /\ ~first.stop
      BY DEF Idle
    <2> HIDE DEF first
    <2>3. reload'[r] = first BY <1>0, <2>1 DEF Others, ReloadType
    <2>4. ASSUME NEW s \in Reloaders, s # r PROVE reload'[s] = [reload[s] EXCEPT !.lone = FALSE]
      <3>1. Others[s] = [reload[s] EXCEPT !.lone = FALSE] BY DEF Others
      <3> QED BY <2>1, <2>4, <3>1 DEF Others
    <2>5. ASSUME NEW s \in Reloaders, s # r
          PROVE  /\ reload'[s].lone = FALSE /\ reload'[s].step = reload[s].step
                 /\ reload'[s].unread = reload[s].unread /\ reload'[s].stop = reload[s].stop
      BY <1>0, <2>4, <2>5 DEF ReloadType, IsReload
    <2>6. [Idle EXCEPT !.lone = FALSE] = Idle
      <3>1. Idle.lone = FALSE /\ Idle = [x \in DOMAIN Idle |-> Idle[x]] BY DEF Idle
      <3> QED BY <3>1
    <2>7. lone => \A s \in Reloaders \ {r} : reload'[s] = Idle BY <2>4, <2>6
    <2> QED BY <2>2, <2>3, <2>5, <2>7 DEF LoneInv
  \* The other actions of a reload leave the other reloaders alone.
  <1>7. ASSUME NEW r \in Reloaders, UNCHANGED file, reload[r] # Idle,
               reload' = [reload EXCEPT ![r] = reload'[r]],
               reload'[r].lone => reload[r].lone,
               reload'[r].step \notin {"idle", "read"} /\ ~reload'[r].stop => reload'[r].unread = {},
               reload'[r].lone =>
                 /\ ~reload'[r].stop
                 /\ \A k \in Keys \ reload'[r].unread : reload'[r].read[k] = ReadKey(k, file[k])
                 /\ reload'[r].step = "install" => paint' = Wants(r)'
        PROVE  LoneInv'
    <2>1. ASSUME NEW s \in Reloaders, s # r PROVE reload'[s] = reload[s]
      BY <1>0, <1>7, <2>1 DEF ReloadType
    <2>2. ASSUME NEW s \in Reloaders, s # r PROVE ~reload[s].lone
      BY <1>7, <2>2 DEF LoneInv
    <2> QED BY <1>0, <1>7, <2>1, <2>2 DEF LoneInv, ReloadType
  <1>8. ASSUME NEW r \in Reloaders, LoadHudOptions(r) PROVE LoneInv'
    <2>1. PICK k \in reload[r].unread :
            reload' = [reload EXCEPT ![r].unread = @ \ {k},
                                     ![r].read[k] = ReadKey(k, file[k]),
                                     ![r].step = IF reload[r].unread = {k} THEN "paint" ELSE @]
      BY <1>8 DEF LoadHudOptions
    <2>2. /\ UNCHANGED <<file, paint>> /\ reload[r].step = "read"
      BY <1>8 DEF LoadHudOptions, paintVars
    <2>3. IsReload(reload[r]) BY <1>0 DEF ReloadType
    <2>4. /\ reload' = [reload EXCEPT ![r] = reload'[r]]
          /\ reload'[r].lone = reload[r].lone /\ reload'[r].stop = reload[r].stop
          /\ reload'[r].unread = reload[r].unread \ {k}
          /\ reload'[r].step = IF reload[r].unread = {k} THEN "paint" ELSE "read"
          /\ reload'[r].read = [reload[r].read EXCEPT ![k] = ReadKey(k, file[k])]
      BY <1>0, <2>1, <2>2, <2>3 DEF ReloadType, IsReload
    <2>5. reload[r] # Idle BY <2>2 DEF Idle
    <2>6. ASSUME reload'[r].lone
          PROVE  \A j \in Keys \ reload'[r].unread : reload'[r].read[j] = ReadKey(j, file[j])
      BY <2>3, <2>4, <2>6 DEF LoneInv, IsReload, Within
    <2>7. reload'[r].lone => ~reload'[r].stop BY <2>4 DEF LoneInv
    <2> QED BY <1>7, <2>2, <2>4, <2>5, <2>6, <2>7
  <1>9. ASSUME NEW r \in Reloaders, ConfigureOff(r) \/ ConfigureHook(r) PROVE LoneInv'
    <2>1. /\ UNCHANGED file /\ reload[r].step \in {"paint", "hook"} /\ reload[r] # Idle
      BY <1>9 DEF ConfigureOff, ConfigureHook, Idle
    <2>2. /\ reload' = [reload EXCEPT ![r] = reload'[r]]
          /\ reload'[r].lone = reload[r].lone /\ reload'[r].stop = reload[r].stop
          /\ reload'[r].unread = reload[r].unread /\ reload'[r].read = reload[r].read
          /\ reload'[r].step \in {"hook", "switch"}
      BY <1>0, <1>9 DEF ConfigureOff, ConfigureHook, ReloadType, IsReload
    <2> QED BY <1>7, <2>1, <2>2 DEF LoneInv
  <1>10. ASSUME NEW r \in Reloaders, ConfigureDone(r) PROVE LoneInv'
    <2>1. /\ UNCHANGED file /\ reload[r].step = "switch" /\ reload[r] # Idle /\ ~paint
          /\ paint' = (paint \/ (reload[r].ok /\ Wants(r)))
      BY <1>10 DEF ConfigureDone, PaintInv, Idle
    <2>2. CASE reload[r].stop \/ ~reload[r].ok
      <3>1. reload' = [reload EXCEPT ![r] = Idle] BY <1>10, <2>2 DEF ConfigureDone
      <3> QED BY <1>0, <1>7, <2>1, <3>1 DEF Idle, ReloadType
    <2>3. CASE ~(reload[r].stop \/ ~reload[r].ok)
      <3>1. reload' = [reload EXCEPT ![r].step = "install"] BY <1>10, <2>3 DEF ConfigureDone
      <3>2. /\ reload' = [reload EXCEPT ![r] = reload'[r]]
            /\ reload'[r].lone = reload[r].lone /\ reload'[r].stop = reload[r].stop
            /\ reload'[r].unread = reload[r].unread /\ reload'[r].read = reload[r].read
        BY <1>0, <3>1 DEF ReloadType, IsReload
      <3>3. paint' = Wants(r)' BY <2>1, <2>3, <3>2 DEF Wants, Value
      <3> QED BY <1>7, <2>1, <3>2, <3>3 DEF LoneInv
    <2> QED BY <2>2, <2>3
  <1>11. ASSUME NEW r \in Reloaders, Install(r) PROVE LoneInv'
    <2>1. reload' = [reload EXCEPT ![r] = Idle] /\ UNCHANGED file /\ reload[r] # Idle
      BY <1>11 DEF Install, Idle
    <2> QED BY <1>0, <1>7, <2>1 DEF Idle, ReloadType
  <1>12. ASSUME EmitBegin \/ EmitCheck \/ EmitEnd PROVE LoneInv'
    BY <1>1, <1>12 DEF EmitBegin, EmitCheck, EmitEnd, paintVars
  <1>13. ASSUME UNCHANGED vars PROVE LoneInv'
    BY <1>1, <1>13 DEF vars, paintVars
  <1> QED
    BY <1>3, <1>4, <1>5, <1>6, <1>8, <1>9, <1>10, <1>11, <1>12, <1>13 DEF Next, Reload

LEMMA AppliedStep ==
    TypeOK /\ SaveInv /\ LoneInv /\ AppliedInv /\ [Next]_vars => AppliedInv'
  <1> SUFFICES ASSUME TypeOK, SaveInv, LoneInv, AppliedInv, [Next]_vars, applied'
               PROVE  AppliedInv'
    BY DEF AppliedInv
  <1>0. ReloadType /\ PaintType /\ FileType BY DEF TypeOK
  <1>1. ASSUME UNCHANGED <<file, options, reload, paint, saved, applied>> PROVE AppliedInv'
    BY <1>1 DEF AppliedInv
  <1>2. ASSUME Editor \/ (\E k \in Keys : \E v \in Candidates(k) : EditByHand(k, v))
        PROVE  AppliedInv'
    <2>1. ~SaveBegin /\ ~(\E k \in Keys : \E v \in Candidates(k) : EditByHand(k, v))
      BY DEF SaveBegin, EditByHand, WriteKey
    <2>2. ~SaveWrite
      BY DEF SaveWrite, WriteKey, AppliedInv, SaveInv
    <2> QED BY <1>1, <1>2, <2>1, <2>2 DEF Editor, OpenDialog, CloseDialog, Change, paintVars
  \* Nobody reloads once what is saved is applied, except by beginning anew.
  <1>3. ASSUME NEW r \in Reloaders, Reload(r) PROVE AppliedInv'
    <2>1. ~ReloadBegin(r) /\ ~StopBegin(r) BY DEF ReloadBegin, StopBegin, Begin
    <2>2. ~(LoadHudOptions(r) \/ ConfigureOff(r) \/ ConfigureHook(r) \/ ConfigureDone(r))
      <3>1. applied => reload[r].step = "idle" BY DEF AppliedInv, Idle
      <3> QED BY <3>1 DEF LoadHudOptions, ConfigureOff, ConfigureHook, ConfigureDone
    <2>3. Install(r) BY <1>3, <2>1, <2>2 DEF Reload
    <2>4. /\ reload[r].lone /\ saved' # None /\ UNCHANGED <<file, saved, paint>>
          /\ options' = reload[r].read /\ reload[r].step = "install"
          /\ reload' = [reload EXCEPT ![r] = Idle]
      BY <2>3 DEF Install, paintVars
    <2>5. /\ reload[r].unread = {}
          /\ \A s \in Reloaders \ {r} : reload[s] = Idle
          /\ \A k \in Keys : reload[r].read[k] = ReadKey(k, file[k])
          /\ paint = (Value(reload[r].read, "PaintInNoclip") = 1)
      BY <2>4 DEF LoneInv, Wants
    <2> QED BY <1>0, <2>4, <2>5 DEF AppliedInv, ReloadType
  <1>4. ASSUME EmitBegin \/ EmitCheck \/ EmitEnd \/ UNCHANGED vars PROVE AppliedInv'
    BY <1>1, <1>4 DEF EmitBegin, EmitCheck, EmitEnd, vars, paintVars
  <1> QED BY <1>2, <1>3, <1>4 DEF Next

\* After a successful save a reload that overlaps nothing installs what the
\* dialog showed, and the paint exception is as it says.
THEOREM SavedIsWhatReloads == Spec => []SavedIsApplied
  <1>1. Init => PaintInv /\ SaveInv /\ LoneInv /\ AppliedInv
    BY DEF Init, PaintInv, SaveInv, LoneInv, AppliedInv, Idle
  <1>2. TypeOK /\ SaveInv /\ AppliedInv => SavedIsApplied
    <2> SUFFICES ASSUME TypeOK, SaveInv, AppliedInv, applied PROVE SavedIsApplied
      BY DEF SavedIsApplied
    <2>1. IsDialog(saved) BY DEF TypeOK, EditorType, AppliedInv
    <2>2. DOMAIN saved = Shown BY <2>1 DEF IsDialog
    <2>3. ASSUME NEW k \in Shown PROVE options[k] = Text(k, saved[k])
      BY <2>1, ReadsBack DEF AppliedInv, SaveInv, Shown
    <2>4. ASSUME "PaintInNoclip" \in Shown PROVE paint = (saved["PaintInNoclip"] = 1)
      <3>1. options["PaintInNoclip"] = saved["PaintInNoclip"] BY <2>3, <2>4 DEF Text
      <3> QED BY <2>4, <3>1 DEF AppliedInv, Value, Shown
    <2> QED BY <2>2, <2>3, <2>4 DEF SavedIsApplied
  <1> QED
    BY <1>1, <1>2, PaintStep, SaveStep, LoneStep, AppliedStep, OptionsType, PTL DEF Spec

-----------------------------------------------------------------------------
(* Panels.                                                                 *)

\* The fields PlaceHudPanel looks at.
Placeable(o) ==
    o.iScale \in 50..200 /\ o.iX \in Int /\ o.iY \in Int /\ o.iMargin \in Int /\ o.iCenterY \in Int

LEMMA ClampInside ==
    ASSUME NEW v \in Int, NEW room \in Nat
    PROVE  Clamp(v, room) \in 0..room
  BY DEF Clamp, Most, Least

LEMMA MulDivPositive ==
    ASSUME NEW a \in Nat, a >= 16, NEW s \in 50..200
    PROVE  MulDiv(a, s, 100) \in Nat \ {0}
  <1>1. a * s \in Int /\ a * s >= 16 * 50 OBVIOUS
  <1>2. 100 \div 2 = 50 OBVIOUS
  <1> DEFINE n == a * s
  <1>3. (n + 50) \div 100 \in Int /\ (n + 50) \div 100 >= 1
    <2> HIDE DEF n
    <2> QED BY <1>1 DEF n
  <1> QED BY <1>2, <1>3 DEF MulDiv

LEMMA PlacedInside ==
    ASSUME NEW o, Placeable(o), NEW height \in Nat, height >= 16,
           NEW width \in Nat \ {0}, NEW screen \in Nat \ {0}
    PROVE  Inside(PlaceHudPanel(o, height, width, screen), width, screen)
  <1> DEFINE w == Least(width, MulDiv(PanelWidth, o.iScale, 100))
             h == Least(screen, MulDiv(height, o.iScale, 100))
             x == IF o.iX >= 0 THEN o.iX
                  ELSE IF o.iCompact = 2 THEN (width - w) \div 2
                  ELSE IF o.bLeft THEN o.iMargin ELSE width - w - o.iMargin
             y == IF o.iY >= 0 THEN o.iY
                  ELSE IF o.iCompact = 2 THEN ((screen - h) \div 2) + o.iCenterY
                  ELSE IF o.bBottom THEN screen - h - o.iMargin ELSE o.iMargin
  <1>1. w \in 1..width
    <2>1. PanelWidth \in Nat /\ PanelWidth >= 16 BY DEF PanelWidth
    <2>2. MulDiv(PanelWidth, o.iScale, 100) \in Nat \ {0}
      BY <2>1, MulDivPositive DEF Placeable
    <2> QED BY <2>2 DEF Least
  <1>2. h \in 1..screen
    <2>1. MulDiv(height, o.iScale, 100) \in Nat \ {0} BY MulDivPositive DEF Placeable
    <2> QED BY <2>1 DEF Least
  <1>3. PlaceHudPanel(o, height, width, screen)
          = [left |-> Clamp(x, width - w), top |-> Clamp(y, screen - h),
             right |-> Clamp(x, width - w) + w, bottom |-> Clamp(y, screen - h) + h]
    BY DEF PlaceHudPanel
  <1> HIDE DEF w, h
  <1>4. x \in Int /\ y \in Int BY <1>1, <1>2 DEF Placeable
  <1> HIDE DEF x, y
  <1>5. Clamp(x, width - w) \in 0..(width - w) BY <1>1, <1>4, ClampInside
  <1>6. Clamp(y, screen - h) \in 0..(screen - h) BY <1>2, <1>4, ClampInside
  <1> QED BY <1>1, <1>2, <1>3, <1>5, <1>6 DEF Inside

LEMMA HeightFits ==
    ASSUME NEW o, o.iHistory \in 0..3, NEW count \in 0..4
    PROVE  /\ TextFits(o, count)
           /\ PanelHeight(o, count) \in Nat /\ PanelHeight(o, count) >= 16
  <1>1. Previous(o, count) \in 0..3 BY DEF Previous, Least, Most
  <1>2. TextEnd(o, count) \in 48..338
    BY <1>1 DEF TextEnd, Rows
  <1> QED BY <1>2 DEF TextFits, LowestText, PanelHeight, PanelRows, Least

LEMMA ValueWithin ==
    ASSUME NEW o, Within(o), NEW k \in AllKeys \ CornerKeys
    PROVE  Value(o, k) \in Load(k)[2]..Load(k)[3]
  BY LoadOrdered DEF Value, Within, Limits

LEMMA HudOptionsPlaceable ==
    ASSUME NEW o, Within(o)
    PROVE  /\ Placeable(HudOptions(o)) /\ HudOptions(o).iHistory \in 0..3
           /\ Placeable(YawPlacement(HudOptions(o))) /\ HudOptions(o).iYawFontSize \in 8..48
  <1>1. ASSUME NEW k \in {"X", "Y", "Margin", "CenterYOffset", "YawX", "YawY", "YawMargin"}
        PROVE  Value(o, k) \in Int
    <2>1. k \in AllKeys \ CornerKeys BY DEF AllKeys, Numbers, CornerKeys
    <2> QED BY <2>1, ValueWithin, LoadOrdered
  <1>2. Value(o, "Scale") \in 50..200
    <2>1. "Scale" \in AllKeys \ CornerKeys BY DEF AllKeys, Numbers, CornerKeys
    <2>2. Load("Scale") = << 100, 50, 200 >> BY DEF Load
    <2> QED BY <2>1, <2>2, ValueWithin
  <1>3. Value(o, "History") \in 0..3
    <2>1. "History" \in AllKeys \ CornerKeys BY DEF AllKeys, Numbers, CornerKeys
    <2>2. Load("History") = << 3, 0, 3 >> BY DEF Load
    <2> QED BY <2>1, <2>2, ValueWithin
  <1>4. Value(o, "YawFontSize") \in 8..48
    <2>1. "YawFontSize" \in AllKeys \ CornerKeys BY DEF AllKeys, CornerKeys
    <2>2. Load("YawFontSize") = << 16, 8, 48 >> BY DEF Load
    <2> QED BY <2>1, <2>2, ValueWithin
  <1> QED BY <1>1, <1>2, <1>3, <1>4 DEF HudOptions, Placeable, YawPlacement

\* Whatever the file says, the text lies on the panel and both panels in the
\* frame, for a back buffer of any size.
THEOREM PanelsFit == Spec => []PanelFits
  <1>1. TypeOK => PanelFits
    <2> SUFFICES ASSUME TypeOK PROVE PanelFits OBVIOUS
    <2> DEFINE o == HudOptions(options)
    <2>1. /\ Placeable(o) /\ o.iHistory \in 0..3
          /\ Placeable(YawPlacement(o)) /\ o.iYawFontSize \in 8..48
      BY HudOptionsPlaceable DEF TypeOK
    <2> HIDE DEF o
    <2>2. YawHeight(o) \in Nat /\ YawHeight(o) >= 16 BY <2>1 DEF YawHeight
    <2>3. \A count \in 0..4 : TextFits(o, count) BY <2>1, HeightFits
    <2>4. ASSUME NEW width \in Widths, NEW screen \in Heights, NEW count \in 0..4
          PROVE  Inside(PlaceHudPanel(o, PanelHeight(o, count), width, screen), width, screen)
      BY <2>1, HeightFits, PlacedInside, BoundsAssumption
    <2>5. ASSUME NEW width \in Widths, NEW screen \in Heights
          PROVE  Inside(PlaceHudPanel(YawPlacement(o), YawHeight(o), width, screen), width, screen)
      BY <2>1, <2>2, PlacedInside, BoundsAssumption
    <2> QED BY <2>3, <2>4, <2>5 DEF PanelFits, o
  <1> QED BY <1>1, OptionsType, PTL

-----------------------------------------------------------------------------
(* Grades.                                                                 *)

\* A limit that is kept by a board is kept by one that lost no more.
LEMMA WithinLossMonotone ==
    ASSUME NEW o, o.dGradeSpeed \in Nat, NEW limit,
           NEW b, NEW c, b.loss \in Int, c.loss \in Int, b.loss <= c.loss,
           b.incoming = c.incoming, limit \in Int, b.incoming \in Int, WithinLoss(c, o, limit)
    PROVE  WithinLoss(b, o, limit)
  <1>1. CASE o.bGradeScale = 1 /\ b.loss > 0
    <2> DEFINE x == b.loss  y == c.loss  s == o.dGradeSpeed
    <2>1. y > 0 /\ y * y * s <= limit * limit * b.incoming BY <1>1 DEF WithinLoss
    <2>2. x * x * s <= y * y * s
      <3>1. x \in Nat /\ y \in Nat /\ s \in Nat /\ x <= y BY <1>1
      <3> HIDE DEF x, y, s
      <3>2. x * x <= y * y BY <3>1
      <3> DEFINE p == x * x  q == y * y
      <3>3. p \in Nat /\ q \in Nat BY <3>1
      <3> HIDE DEF p, q
      <3>4. p * s <= q * s BY <3>1, <3>2, <3>3 DEF p, q
      <3> QED BY <3>4 DEF p, q
    <2> QED BY <1>1, <2>1, <2>2 DEF WithinLoss
  <1>2. CASE ~(o.bGradeScale = 1 /\ b.loss > 0)
    BY <1>2 DEF WithinLoss
  <1> QED BY <1>1, <1>2

\* A gradable board meets its grade and none before it.
LEMMA GradeMeets ==
    ASSUME NEW b, NEW o, Gradable(b)
    PROVE  LET g == GetHudGrade(b, o)
           IN  /\ g \in 0..4 /\ (g < 4 => Meets(b, o, g))
               /\ \A j \in 0..3 : j < g => ~Meets(b, o, j)
  <1> DEFINE P(i) == (i < 4 => Meets(b, o, i)) /\ \A j \in 0..3 : j < i => ~Meets(b, o, j)
  <1>1. \E i \in 0..4 : P(i)
    <2> DEFINE m(i) == Meets(b, o, i)
    <2> HIDE DEF m
    <2>1. \E i \in 0..4 : (i < 4 => m(i)) /\ \A j \in 0..3 : j < i => ~m(j)
      <3>1. CASE m(0) BY <3>1
      <3>2. CASE ~m(0) /\ m(1) BY <3>2
      <3>3. CASE ~m(0) /\ ~m(1) /\ m(2) BY <3>3
      <3>4. CASE ~m(0) /\ ~m(1) /\ ~m(2) /\ m(3) BY <3>4
      <3>5. CASE ~m(0) /\ ~m(1) /\ ~m(2) /\ ~m(3) BY <3>5
      <3> QED BY <3>1, <3>2, <3>3, <3>4, <3>5
    <2> QED BY <2>1 DEF m
  <1>2. GetHudGrade(b, o) = CHOOSE i \in 0..4 : P(i) BY DEF GetHudGrade
  <1> HIDE DEF P
  <1>3. GetHudGrade(b, o) \in 0..4 /\ P(GetHudGrade(b, o)) BY <1>1, <1>2
  <1> QED BY <1>3 DEF P

\* The better of two boards at one speed never gets the worse grade, whatever the
\* thresholds are.
THEOREM BetterGradesBetter == Spec => []BetterNeverGradesWorse
  <1>1. TypeOK => BetterNeverGradesWorse
    <2> SUFFICES ASSUME TypeOK,
                        NEW b \in [loss : Losses, angle : Angles, incoming : Speeds, finite : {TRUE}],
                        NEW c \in [loss : Losses, angle : Angles, incoming : Speeds, finite : {TRUE}],
                        Gradable(b), Better(b, c)
                 PROVE  GetHudGrade(b, HudOptions(options)) <= GetHudGrade(c, HudOptions(options))
      BY DEF BetterNeverGradesWorse
    <2> DEFINE o == HudOptions(options)
    <2>1. o.dGradeSpeed \in Nat /\ \A i \in 1..4 : o.dLoss[i] \in Int /\ o.dAngle[i] \in Int
      <3>1. ASSUME NEW k \in GradeNumbers PROVE Value(options, k) \in Int
        <4>1. k \in AllKeys \ CornerKeys BY DEF AllKeys, GradeNumbers, CornerKeys
        <4> QED BY <4>1, ValueWithin, LoadOrdered DEF TypeOK
      <3>2. Value(options, "GradeReferenceSpeed") \in Nat
        <4>1. "GradeReferenceSpeed" \in AllKeys \ CornerKeys BY DEF AllKeys, GradeNumbers, CornerKeys
        <4>2. Load("GradeReferenceSpeed") = << 1500, 1, 1000000 >> BY DEF Load
        <4> QED BY <4>1, <4>2, ValueWithin DEF TypeOK
      <3> QED BY <3>1, <3>2 DEF HudOptions, GradeNumbers
    <2> HIDE DEF o
    <2>2. /\ b.loss \in Int /\ c.loss \in Int /\ b.angle \in Int /\ c.angle \in Int
          /\ b.incoming \in Int /\ b.loss <= c.loss /\ b.angle >= c.angle /\ b.incoming = c.incoming
      <3>1. /\ b.loss \in Losses /\ c.loss \in Losses /\ b.angle \in Angles /\ c.angle \in Angles
            /\ b.incoming \in Speeds
        OBVIOUS
      <3>2. b.loss <= c.loss /\ b.angle >= c.angle /\ b.incoming = c.incoming BY DEF Better
      <3>3. Losses \subseteq Int /\ Angles \subseteq Int /\ Speeds \subseteq Int
        BY BoundsAssumption
      <3>4. b.loss \in Int /\ c.loss \in Int BY <3>1, <3>3
      <3>5. b.angle \in Int /\ c.angle \in Int BY <3>1, <3>3
      <3>6. b.incoming \in Int BY <3>1, <3>3
      <3> QED BY <3>2, <3>4, <3>5, <3>6
    <2>3. ASSUME NEW j \in 0..3, Meets(c, o, j) PROVE Meets(b, o, j)
      <3>1. o.dLoss[j + 1] \in Int /\ o.dAngle[j + 1] \in Int BY <2>1
      <3>2. WithinLoss(b, o, o.dLoss[j + 1])
        BY <2>1, <2>2, <2>3, <3>1, WithinLossMonotone DEF Meets
      <3> QED BY <2>2, <2>3, <3>1, <3>2 DEF Meets
    <2>4. /\ GetHudGrade(b, o) \in 0..4
          /\ \A j \in 0..3 : j < GetHudGrade(b, o) => ~Meets(b, o, j)
      BY GradeMeets
    <2>5. CASE Gradable(c)
      <3>1. /\ GetHudGrade(c, o) \in 0..4
            /\ GetHudGrade(c, o) < 4 => Meets(c, o, GetHudGrade(c, o))
        BY <2>5, GradeMeets
      <3> QED BY <2>3, <2>4, <3>1 DEF o
    <2>6. CASE ~Gradable(c)
      <3>1. GetHudGrade(c, o) = 4 BY <2>6 DEF GetHudGrade
      <3> QED BY <2>4, <3>1 DEF o
    <2> QED BY <2>5, <2>6
  <1> QED BY <1>1, OptionsType, PTL
=============================================================================
