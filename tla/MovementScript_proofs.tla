------------------------ MODULE MovementScript_proofs -------------------------
(***************************************************************************)
(* Proofs about MovementScript for every flow, every limit of misses and   *)
(* of attempts, and every number of runs.                                  *)
(***************************************************************************)
EXTENDS MovementScript, TLAPS

\* Where the main thread is inside a step of the flow.
InStepPcs == {"holding", "center", "aim", "tapping"} \cup SearchPcs \cup FindPcs

\* The parts of the type invariant, with what makes them inductive.
ControlInv ==
  /\ pc \in Pcs /\ step \in 1..(Len(Flow) + 1)
  /\ pc \in InStepPcs => step \in 1..Len(Flow)
  /\ run \in 0..MaxRuns
  /\ pc # "off" => run # 0

CountInv ==
  /\ attempt \in 0..MaxAttempts /\ miss \in 0..(MissLimit - 1) /\ late \in BOOLEAN
  /\ searches \in Nat
  /\ searcher \in {"flow", "center"} /\ finder \in {"search", "center"}
  /\ config \in Configs /\ window \in BOOLEAN

DrawInv == FeedbackTypeOK /\ seen \in Positions \cup {NoPosition}

KeyInv == held \subseteq Keys /\ stuck \subseteq Keys /\ pressing \subseteq Keys

ResultInv ==
  /\ outcome \in Outcome \cup {NoResult}
  /\ pc \in SignalPcs => outcome \in Outcome
  /\ primary \in Signal \cup {NoSignal} /\ fallback \in Signal \cup {NoSignal}

LEMMA FlowFacts ==
  /\ Len(Flow) \in Nat
  /\ DOMAIN Flow = 1..Len(Flow)
  /\ \A i \in DOMAIN Flow : Flow[i].keys \subseteq Keys
  /\ {"Left", "Right"} \subseteq Keys
<1>1. Flow \in Seq([op : Ops, keys : SUBSET STRING])
  BY MovementAssumption
<1>2. Len(Flow) \in Nat /\ DOMAIN Flow = 1..Len(Flow)
  BY <1>1
<1>3. \A i \in DOMAIN Flow : Flow[i].keys \subseteq Keys
  BY Zenon DEF Keys
<1>4. {"Left", "Right"} \subseteq Keys
  BY DEF Keys
<1> QED
  BY <1>2, <1>3, <1>4

LEMMA LimitFacts ==
  /\ MissLimit \in Nat \ {0} /\ 0 \in 0..(MissLimit - 1)
  /\ MaxAttempts \in Nat /\ 0 \in 0..MaxAttempts
  /\ MaxRuns \in Nat
  BY MovementAssumption

\* Where the main thread is, and in which step of the flow.
LEMMA NextControl == ControlInv /\ [Next]_vars => ControlInv'
<1> SUFFICES ASSUME ControlInv, [Next]_vars PROVE ControlInv'
  OBVIOUS
<1> USE FlowFacts, LimitFacts DEF ControlInv, InStepPcs, EndPcs, FlowPcs,
    SearchPcs, FindPcs, SignalPcs, Pcs, world
<1>1. CASE Launch
  BY <1>1 DEF Launch, FeedbackReset
<1>2. CASE ZoomOut
  BY <1>2 DEF ZoomOut, AtStep, SetStatus, Advance, Goto
<1>3. CASE LetKeysGo
  BY <1>3 DEF LetKeysGo, KeysUp, Advance
<1>4. CASE ReleaseStep
  BY <1>4 DEF ReleaseStep, AtStep, ReleaseSpecialKeys, SetStatus, Advance
<1>5. CASE Found
  BY <1>5 DEF Found, ShowSpecialMarker, SetStatus, Advance, Goto
<1>6. CASE CenterGiveUp
  BY <1>6 DEF CenterGiveUp, SetStatus, Advance
<1>7. CASE Aim
  BY <1>7 DEF Aim, ShowSpecialMarker, SetStatus, Advance, KeysDown, Goto
<1>8. CASE PressKeys
  BY <1>8 DEF PressKeys, AtStep, SetStatus, KeysDown, Goto
<1>9. CASE SearchStep
  BY <1>9 DEF SearchStep, AtStep, SetStatus, BeginSearch, Goto
<1>10. CASE CenterStep
  BY <1>10 DEF CenterStep, AtStep, SetStatus, Goto
<1>11. CASE Finish
  BY <1>11 DEF Finish, ReleaseSpecialKeys, StopRunning, Report, HideSpecialMarker,
      Goto
<1>12. CASE SearchLoop
  BY <1>12 DEF SearchLoop, TimedOut, Goto
<1>13. CASE HangOnTolerance \/ RobloxNotFound \/ Boot \/ Enter \/ Fail \/
          SearchTimeout \/ Miss \/ Rotate \/ RotateEnd \/ Find \/ Read \/
          CenterLoop \/ TapEnd \/ DeleteSignal \/ CreateSignal \/ WriteSignal \/
          DeleteFallback \/ WriteFallback \/ MarkerThread \/ DeadlinePasses \/
          WindowChanges \/ Killed \/ UNCHANGED vars
  BY <1>13 DEF HangOnTolerance, Goto, RobloxNotFound, HideStatusOverlay, Report,
      HideSpecialMarker, Boot, StartRunning, Enter, Fail, ReleaseSpecialKeys,
      StopRunning, SearchTimeout, Miss, SetStatus, Rotate, KeysDown, RotateEnd,
      KeysUp, Find, HideForRead, BeginScreenRead, Read, EndScreenRead,
      BeginSearch, CenterLoop, TapEnd, DeleteSignal, CreateSignal, Appended,
      WriteSignal, DeleteFallback, WriteFallback, MarkerThread,
      AnimateSpecialMarker, DeadlinePasses, Searching, WindowChanges, Killed,
      FeedbackReset, vars
<1> QED
  BY <1>1, <1>2, <1>3, <1>4, <1>5, <1>6, <1>7, <1>8, <1>9, <1>10, <1>11, <1>12,
     <1>13 DEF Next, Script, MainThread, FlowStep, SearchPart, CenterPart,
     SignalPart

\* Attempts, misses and the calls of the search.
LEMMA NextCount == CountInv /\ [Next]_vars => CountInv'
<1> SUFFICES ASSUME CountInv, [Next]_vars PROVE CountInv'
  OBVIOUS
<1> USE LimitFacts DEF CountInv, search, locals, world
<1>1. CASE Launch
  BY <1>1 DEF Launch, FeedbackReset
<1>2. CASE SearchStep
  BY <1>2 DEF SearchStep, AtStep, SetStatus, BeginSearch, Goto
<1>3. CASE Miss
  BY <1>3 DEF Miss, SetStatus, Goto
<1>4. CASE RotateEnd
  BY <1>4 DEF RotateEnd, KeysUp, Goto
<1>5. CASE Read
  <2>1. UNCHANGED search \/ BeginSearch("center")
    BY <1>5 DEF Read
  <2>2. UNCHANGED <<attempt, finder, config, window>>
    BY <1>5 DEF Read
  <2>3. CASE UNCHANGED search
    BY <2>2, <2>3
  <2>4. CASE BeginSearch("center")
    <3>1. searches' \in Nat
      BY <2>4 DEF BeginSearch
    <3>2. miss' = 0 /\ late' = FALSE /\ searcher' = "center"
      BY <2>4 DEF BeginSearch
    <3> QED
      BY <2>2, <3>1, <3>2
  <2> QED
    BY <2>1, <2>3, <2>4
<1>6. CASE CenterStep
  BY <1>6 DEF CenterStep, AtStep, SetStatus, Goto
<1>7. CASE CenterLoop
  BY <1>7 DEF CenterLoop, Goto
<1>8. CASE DeadlinePasses
  BY <1>8 DEF DeadlinePasses, Searching
<1>9. CASE WindowChanges
  BY <1>9 DEF WindowChanges
<1>10. CASE HangOnTolerance \/ RobloxNotFound \/ Boot \/ Enter \/ ZoomOut \/
          PressKeys \/ LetKeysGo \/ ReleaseStep \/ Fail \/ Finish \/ SearchLoop \/
          SearchTimeout \/ Found \/ Rotate \/ Find \/ CenterGiveUp \/ Aim \/
          TapEnd \/ DeleteSignal \/ CreateSignal \/ WriteSignal \/ DeleteFallback
          \/ WriteFallback \/ MarkerThread \/ Killed \/ UNCHANGED vars
  BY <1>10 DEF HangOnTolerance, Goto, RobloxNotFound, HideStatusOverlay, Report,
      HideSpecialMarker, Boot, StartRunning, Enter, ZoomOut, AtStep, SetStatus,
      Advance, PressKeys, KeysDown, LetKeysGo, KeysUp, ReleaseStep,
      ReleaseSpecialKeys, Fail, StopRunning, Finish, SearchLoop, TimedOut,
      SearchTimeout, Found, ShowSpecialMarker, Rotate, Find, HideForRead,
      BeginScreenRead, CenterGiveUp, Aim, TapEnd, DeleteSignal, CreateSignal,
      Appended, WriteSignal, DeleteFallback, WriteFallback, MarkerThread,
      AnimateSpecialMarker, Killed, FeedbackReset, vars
<1> QED
  BY <1>1, <1>2, <1>3, <1>4, <1>5, <1>6, <1>7, <1>8, <1>9, <1>10 DEF Next, Script,
     MainThread, FlowStep, SearchPart, CenterPart, SignalPart

\* What is drawn, and where.
LEMMA NextDraw == DrawInv /\ [Next]_vars => DrawInv'
<1> SUFFICES ASSUME DrawInv, [Next]_vars PROVE DrawInv'
  OBVIOUS
<1> USE DEF DrawInv, FeedbackTypeOK, NoPosition, status, marks, screen, search,
    locals
<1>1. CASE Launch
  BY <1>1 DEF Launch, FeedbackReset
<1>2. CASE Found
  BY <1>2 DEF Found, ShowSpecialMarker, SetStatus, Advance, Goto
<1>3. CASE Aim
  BY <1>3 DEF Aim, ShowSpecialMarker, SetStatus, Advance, KeysDown, Goto
<1>4. CASE Read
  BY <1>4 DEF Read, EndScreenRead, BeginSearch, Goto
<1>5. CASE MarkerThread
  BY <1>5 DEF MarkerThread, AnimateSpecialMarker
<1>6. CASE Killed
  BY <1>6 DEF Killed, FeedbackReset, Goto
<1>7. CASE HangOnTolerance \/ RobloxNotFound \/ Boot \/ Enter \/ ZoomOut \/
          PressKeys \/ LetKeysGo \/ ReleaseStep \/ Fail \/ Finish \/ SearchStep \/
          SearchLoop \/ SearchTimeout \/ Miss \/ Rotate \/ RotateEnd \/ Find \/
          CenterStep \/ CenterLoop \/ CenterGiveUp \/ TapEnd \/ DeleteSignal \/
          CreateSignal \/ WriteSignal \/ DeleteFallback \/ WriteFallback \/
          DeadlinePasses \/ WindowChanges \/ UNCHANGED vars
  BY <1>7 DEF HangOnTolerance, Goto, RobloxNotFound, HideStatusOverlay, Report,
      HideSpecialMarker, Boot, StartRunning, Enter, ZoomOut, AtStep, SetStatus,
      Advance, PressKeys, KeysDown, LetKeysGo, KeysUp, ReleaseStep,
      ReleaseSpecialKeys, Fail, StopRunning, Finish, SearchStep, BeginSearch,
      SearchLoop, TimedOut, SearchTimeout, Miss, Rotate, RotateEnd, Find,
      HideForRead, BeginScreenRead, CenterStep, CenterLoop, CenterGiveUp, TapEnd,
      DeleteSignal, CreateSignal, Appended, WriteSignal, DeleteFallback,
      WriteFallback, DeadlinePasses, Searching, WindowChanges, vars
<1> QED
  BY <1>1, <1>2, <1>3, <1>4, <1>5, <1>6, <1>7 DEF Next, Script, MainThread,
     FlowStep, SearchPart, CenterPart, SignalPart

\* The keyboard.
LEMMA NextKey == KeyInv /\ [Next]_vars => KeyInv'
<1> SUFFICES ASSUME KeyInv, [Next]_vars PROVE KeyInv'
  OBVIOUS
<1> USE FlowFacts DEF KeyInv, keyboard, world
<1>1. CASE Launch
  BY <1>1 DEF Launch, FeedbackReset
<1>2. CASE PressKeys
  BY <1>2 DEF PressKeys, AtStep, SetStatus, KeysDown, Goto
<1>3. CASE Rotate
  BY <1>3 DEF Rotate, HideSpecialMarker, SetStatus, KeysDown, Goto
<1>4. CASE Aim
  BY <1>4 DEF Aim, ShowSpecialMarker, SetStatus, Advance, KeysDown, Goto
<1>5. CASE HangOnTolerance \/ RobloxNotFound \/ Boot \/ Enter \/ ZoomOut \/
          LetKeysGo \/ ReleaseStep \/ Fail \/ Finish \/ SearchStep \/ SearchLoop
          \/ SearchTimeout \/ Found \/ Miss \/ RotateEnd \/ Find \/ Read \/
          CenterStep \/ CenterLoop \/ CenterGiveUp \/ TapEnd \/ DeleteSignal \/
          CreateSignal \/ WriteSignal \/ DeleteFallback \/ WriteFallback \/
          MarkerThread \/ DeadlinePasses \/ WindowChanges \/ Killed \/ UNCHANGED
          vars
  BY <1>5 DEF HangOnTolerance, Goto, RobloxNotFound, HideStatusOverlay, Report,
      HideSpecialMarker, Boot, StartRunning, Enter, ZoomOut, AtStep, SetStatus,
      Advance, LetKeysGo, KeysUp, ReleaseStep, ReleaseSpecialKeys, Fail,
      StopRunning, Finish, SearchStep, BeginSearch, SearchLoop, TimedOut,
      SearchTimeout, Found, ShowSpecialMarker, Miss, RotateEnd, Find, HideForRead,
      BeginScreenRead, Read, EndScreenRead, CenterStep, CenterLoop, CenterGiveUp,
      TapEnd, DeleteSignal, CreateSignal, Appended, WriteSignal, DeleteFallback,
      WriteFallback, MarkerThread, AnimateSpecialMarker, DeadlinePasses,
      Searching, WindowChanges, Killed, FeedbackReset, vars
<1> QED
  BY <1>1, <1>2, <1>3, <1>4, <1>5 DEF Next, Script, MainThread, FlowStep,
     SearchPart, CenterPart, SignalPart

LEMMA AppendedType ==
  ASSUME NEW file \in Signal \cup {NoSignal}, NEW b \in BOOLEAN,
         outcome \in Outcome, run \in Nat \ {0}
  PROVE  Appended(file, b) \in Signal \cup {NoSignal}
  BY DEF Appended, Signal

\* The result, and the files it is written to.
LEMMA NextResult == ResultInv /\ ControlInv /\ [Next]_vars => ResultInv'
<1> SUFFICES ASSUME ResultInv, ControlInv, [Next]_vars PROVE ResultInv'
  OBVIOUS
<1> USE DEF ResultInv, NoResult, SignalPcs, signals
<1>0. pc \in SignalPcs => outcome \in Outcome /\ run \in Nat \ {0}
  BY LimitFacts DEF ControlInv
<1>1. CASE Launch
  BY <1>1 DEF Launch, FeedbackReset
<1>2. CASE RobloxNotFound
  BY <1>2 DEF Outcome, RobloxNotFound, HideStatusOverlay, Report,
      HideSpecialMarker, Goto
<1>3. CASE Fail
  BY <1>3 DEF Outcome, Fail, ReleaseSpecialKeys, StopRunning, Report,
      HideSpecialMarker, Goto
<1>4. CASE Finish
  BY <1>4 DEF Outcome, Finish, ReleaseSpecialKeys, StopRunning, Report,
      HideSpecialMarker, Goto
<1>5. CASE SearchTimeout
  BY <1>5 DEF Outcome, SearchTimeout, ReleaseSpecialKeys, HideStatusOverlay, Report,
      HideSpecialMarker, Goto
<1>6. CASE CreateSignal
  BY <1>6, <1>0, AppendedType DEF CreateSignal, Goto
<1>7. CASE WriteSignal
  BY <1>7, <1>0, AppendedType DEF WriteSignal, Goto
<1>8. CASE WriteFallback
  BY <1>8, <1>0, AppendedType DEF WriteFallback, Goto
<1>9. CASE HangOnTolerance \/ Boot \/ Enter \/ ZoomOut \/ PressKeys \/ LetKeysGo
          \/ ReleaseStep \/ SearchStep \/ SearchLoop \/ Found \/ Miss \/ Rotate \/
          RotateEnd \/ Find \/ Read \/ CenterStep \/ CenterLoop \/ CenterGiveUp \/
          Aim \/ TapEnd \/ DeleteSignal \/ DeleteFallback \/ MarkerThread \/
          DeadlinePasses \/ WindowChanges \/ Killed \/ UNCHANGED vars
  BY <1>9 DEF HangOnTolerance, Goto, Boot, StartRunning, Enter, ZoomOut, AtStep,
      SetStatus, Advance, PressKeys, KeysDown, LetKeysGo, KeysUp, ReleaseStep,
      ReleaseSpecialKeys, SearchStep, BeginSearch, SearchLoop, TimedOut, Found,
      ShowSpecialMarker, Miss, Rotate, HideSpecialMarker, RotateEnd, Find,
      HideForRead, BeginScreenRead, Read, EndScreenRead, CenterStep, CenterLoop,
      CenterGiveUp, Aim, TapEnd, DeleteSignal, DeleteFallback, MarkerThread,
      AnimateSpecialMarker, DeadlinePasses, Searching, WindowChanges, Killed,
      FeedbackReset, vars
<1> QED
  BY <1>1, <1>2, <1>3, <1>4, <1>5, <1>6, <1>7, <1>8, <1>9 DEF Next, Script,
     MainThread, FlowStep, SearchPart, CenterPart, SignalPart

TypeInv == ControlInv /\ CountInv /\ DrawInv /\ KeyInv /\ ResultInv

LEMMA InitTypeInv == Init => TypeInv
<1> SUFFICES ASSUME Init PROVE TypeInv
  OBVIOUS
<1> USE DEF Init, FeedbackInit
<1>1. ControlInv
  BY FlowFacts, LimitFacts
  DEF ControlInv, InStepPcs, EndPcs, FlowPcs, SearchPcs, FindPcs, SignalPcs, Pcs
<1>2. CountInv
  BY LimitFacts DEF CountInv
<1>3. DrawInv /\ KeyInv
  BY DEF DrawInv, FeedbackTypeOK, KeyInv
<1>4. ResultInv
  <2>1. Shipped \in Signal
    BY DEF Shipped, Signal, Outcome
  <2>2. pc = "off" /\ outcome = NoResult /\ primary \in {NoSignal, Shipped}
          /\ fallback = NoSignal
    OBVIOUS
  <2> QED
    BY <2>1, <2>2 DEF ResultInv, SignalPcs
<1> QED
  BY <1>1, <1>2, <1>3, <1>4 DEF TypeInv

LEMMA SpecTypeInv == Spec => []TypeInv
<1>1. TypeInv /\ [Next]_vars => TypeInv'
  BY NextControl, NextCount, NextDraw, NextKey, NextResult DEF TypeInv
<1> QED
  BY InitTypeInv, <1>1, PTL DEF Spec

\* The scripts' variables keep their types, whatever the flow and its limits.
THEOREM MovementTypes == Spec => []TypeOK
<1>1. TypeInv => TypeOK
  BY DEF TypeInv, ControlInv, CountInv, DrawInv, KeyInv, ResultInv, TypeOK
<1> QED
  BY SpecTypeInv, <1>1, PTL

\* A pulse that looks for the colour has not begun its search yet.
PulseInv ==
  /\ searches <= attempt
  /\ pc \in FindPcs /\ finder = "center" => searches < attempt

LEMMA NextPulse == CountInv /\ PulseInv /\ [Next]_vars => PulseInv'
<1> SUFFICES ASSUME CountInv, PulseInv, [Next]_vars PROVE PulseInv'
  OBVIOUS
<1>0. searches \in Nat /\ attempt \in Nat
  BY LimitFacts DEF CountInv
<1> USE <1>0 DEF PulseInv, FindPcs, search, locals
<1>1. CASE Launch
  BY <1>1 DEF Launch
<1>2. CASE SearchStep
  BY <1>2 DEF SearchStep, BeginSearch, Goto
<1>3. CASE Read
  BY <1>3 DEF Read, BeginSearch, Goto
<1>4. CASE CenterStep
  BY <1>4 DEF CenterStep, Goto
<1>5. CASE CenterLoop
  BY <1>5 DEF CenterLoop, Goto
<1>6. CASE HangOnTolerance \/ RobloxNotFound \/ Boot \/ Enter \/ ZoomOut \/
          PressKeys \/ LetKeysGo \/ ReleaseStep \/ Fail \/ Finish \/ SearchLoop
          \/ SearchTimeout \/ Found \/ Miss \/ Rotate \/ RotateEnd \/ Find \/
          CenterGiveUp \/ Aim \/ TapEnd \/ DeleteSignal \/ CreateSignal \/
          WriteSignal \/ DeleteFallback \/ WriteFallback \/ MarkerThread \/
          DeadlinePasses \/ WindowChanges \/ Killed \/ UNCHANGED vars
  BY <1>6 DEF HangOnTolerance, RobloxNotFound, Boot, Enter, ZoomOut, PressKeys,
      LetKeysGo, ReleaseStep, Fail, Finish, SearchLoop, SearchTimeout, Found,
      Miss, Rotate, RotateEnd, Find, CenterGiveUp, Aim, TapEnd, DeleteSignal,
      CreateSignal, WriteSignal, DeleteFallback, WriteFallback, MarkerThread,
      DeadlinePasses, WindowChanges, Killed, Goto, HideStatusOverlay, Report,
      HideSpecialMarker, StartRunning, AtStep, SetStatus, Advance, KeysDown,
      KeysUp, ReleaseSpecialKeys, StopRunning, TimedOut, ShowSpecialMarker,
      HideForRead, BeginScreenRead, AnimateSpecialMarker, Searching,
      FeedbackReset, vars
<1> QED
  BY <1>1, <1>2, <1>3, <1>4, <1>5, <1>6 DEF Next, Script, MainThread, FlowStep,
     SearchPart, CenterPart, SignalPart

\* Whatever the limits, a centring never begins more searches than pulses, so that
\* the time a run may take is bounded by its flow.
THEOREM SearchesAreBounded == Spec => []OneSearchPerPulse
<1>1. Init => PulseInv
  BY DEF Init, PulseInv, FindPcs
<1>2. CountInv /\ [Next]_vars => CountInv'
  BY NextCount
<1>3. Init => CountInv
  BY InitTypeInv DEF TypeInv
<1>4. PulseInv => OneSearchPerPulse
  BY DEF PulseInv, OneSearchPerPulse
<1> QED
  BY <1>1, <1>2, <1>3, <1>4, NextPulse, PTL DEF Spec

LEMMA NextClean == ScreenReadClean /\ [Next]_vars => ScreenReadClean'
<1> SUFFICES ASSUME ScreenReadClean, [Next]_vars PROVE ScreenReadClean'
  OBVIOUS
<1> USE DEF ScreenReadClean, marks, status, screen
<1>1. CASE Find
  BY <1>1 DEF Find, HideForRead, HideSpecialMarker, BeginScreenRead, Goto
<1>2. CASE MarkerThread
  BY <1>2 DEF MarkerThread, AnimateSpecialMarker
<1>3. CASE Launch \/ HangOnTolerance \/ RobloxNotFound \/ Boot \/ Enter \/ ZoomOut
          \/ PressKeys \/ LetKeysGo \/ ReleaseStep \/ Fail \/ Finish \/ SearchStep
          \/ SearchLoop \/ SearchTimeout \/ Found \/ Miss \/ Rotate \/ RotateEnd
          \/ Read \/ CenterStep \/ CenterLoop \/ CenterGiveUp \/ Aim \/ TapEnd \/
          DeleteSignal \/ CreateSignal \/ WriteSignal \/ DeleteFallback \/
          WriteFallback \/ DeadlinePasses \/ WindowChanges \/ Killed \/ UNCHANGED
          vars
  BY <1>3 DEF Launch, FeedbackReset, HangOnTolerance, Goto, RobloxNotFound,
      HideStatusOverlay, Report, HideSpecialMarker, Boot, StartRunning, Enter,
      ZoomOut, AtStep, SetStatus, Advance, PressKeys, KeysDown, LetKeysGo, KeysUp,
      ReleaseStep, ReleaseSpecialKeys, Fail, StopRunning, Finish, SearchStep,
      BeginSearch, SearchLoop, TimedOut, SearchTimeout, Found, ShowSpecialMarker,
      Miss, Rotate, RotateEnd, Read, EndScreenRead, CenterStep, CenterLoop,
      CenterGiveUp, Aim, TapEnd, DeleteSignal, CreateSignal, Appended,
      WriteSignal, DeleteFallback, WriteFallback, DeadlinePasses, Searching,
      WindowChanges, Killed, vars
<1> QED
  BY <1>1, <1>2, <1>3 DEF Next, Script, MainThread, FlowStep, SearchPart,
     CenterPart, SignalPart

\* No flow and no interruption by the timer thread lets a read see the overlay or
\* the marker.
THEOREM CleanScreenReads == Spec => []ScreenReadClean
<1>1. Init => ScreenReadClean
  BY DEF Init, ScreenReadClean
<1> QED
  BY <1>1, NextClean, PTL DEF Spec

\* Between two searches the marker stands where the last one found the colour.
SettledInv ==
  /\ MarkerSettled
  /\ pc \in {"reading", "searched"} => ~marker
  /\ pc = "aim" /\ marker => markerCur = seen

LEMMA NextSettled == SettledInv /\ [Next]_vars => SettledInv'
<1> SUFFICES ASSUME SettledInv, [Next]_vars PROVE SettledInv'
  OBVIOUS
<1> USE DEF SettledInv, MarkerSettled, marks, status, screen, locals
<1>1. CASE Launch
  BY <1>1 DEF Launch, FeedbackReset
<1>2. CASE Found
  BY <1>2 DEF Found, ShowSpecialMarker, SetStatus, Advance, Goto
<1>3. CASE Aim
  BY <1>3 DEF Aim, ShowSpecialMarker, SetStatus, Advance, KeysDown, Goto
<1>4. CASE Find
  BY <1>4 DEF Find, HideForRead, HideSpecialMarker, BeginScreenRead, Goto
<1>5. CASE Read
  BY <1>5 DEF Read, EndScreenRead, BeginSearch, Goto
<1>6. CASE MarkerThread
  BY <1>6 DEF MarkerThread, AnimateSpecialMarker
<1>7. CASE Killed
  BY <1>7 DEF Killed, FeedbackReset, Goto
<1>8. CASE HangOnTolerance \/ RobloxNotFound \/ Boot \/ Enter \/ ZoomOut \/
          PressKeys \/ LetKeysGo \/ ReleaseStep \/ Fail \/ Finish \/ SearchStep \/
          SearchLoop \/ SearchTimeout \/ Miss \/ Rotate \/ RotateEnd \/ CenterStep
          \/ CenterLoop \/ CenterGiveUp \/ TapEnd \/ DeleteSignal \/ CreateSignal
          \/ WriteSignal \/ DeleteFallback \/ WriteFallback \/ DeadlinePasses \/
          WindowChanges \/ UNCHANGED vars
  BY <1>8 DEF HangOnTolerance, Goto, RobloxNotFound, HideStatusOverlay, Report,
      HideSpecialMarker, Boot, StartRunning, Enter, ZoomOut, AtStep, SetStatus,
      Advance, PressKeys, KeysDown, LetKeysGo, KeysUp, ReleaseStep,
      ReleaseSpecialKeys, Fail, StopRunning, Finish, SearchStep, BeginSearch,
      SearchLoop, TimedOut, SearchTimeout, Miss, Rotate, RotateEnd, CenterStep,
      CenterLoop, CenterGiveUp, TapEnd, DeleteSignal, CreateSignal, Appended,
      WriteSignal, DeleteFallback, WriteFallback, DeadlinePasses, Searching,
      WindowChanges, vars
<1> QED
  BY <1>1, <1>2, <1>3, <1>4, <1>5, <1>6, <1>7, <1>8 DEF Next, Script, MainThread,
     FlowStep, SearchPart, CenterPart, SignalPart

\* The marker is never animated: the timer thread finds it at its target.
THEOREM MarkerIsSettled == Spec => []MarkerSettled
<1>1. Init => SettledInv
  BY DEF Init, FeedbackInit, SettledInv, MarkerSettled
<1>2. SettledInv => MarkerSettled
  BY DEF SettledInv
<1> QED
  BY <1>1, <1>2, NextSettled, PTL DEF Spec

LEMMA NextCleanSignal == ScreenCleanAtSignal /\ [Next]_vars => ScreenCleanAtSignal'
<1> SUFFICES ASSUME ScreenCleanAtSignal, [Next]_vars PROVE ScreenCleanAtSignal'
  OBVIOUS
<1> USE DEF ScreenCleanAtSignal, SignalPcs, marks, status, screen
<1>1. CASE RobloxNotFound
  BY <1>1 DEF RobloxNotFound, HideStatusOverlay, Report, HideSpecialMarker, Goto
<1>2. CASE Fail
  BY <1>2 DEF Fail, ReleaseSpecialKeys, StopRunning, Report, HideSpecialMarker,
      Goto
<1>3. CASE Finish
  BY <1>3 DEF Finish, ReleaseSpecialKeys, StopRunning, Report, HideSpecialMarker,
      Goto
<1>4. CASE SearchTimeout
  BY <1>4 DEF SearchTimeout, ReleaseSpecialKeys, HideStatusOverlay, Report,
      HideSpecialMarker, Goto
<1>5. CASE MarkerThread
  BY <1>5 DEF MarkerThread, AnimateSpecialMarker
<1>6. CASE Launch \/ HangOnTolerance \/ Boot \/ Enter \/ ZoomOut \/ PressKeys \/
          LetKeysGo \/ ReleaseStep \/ SearchStep \/ SearchLoop \/ Found \/ Miss \/
          Rotate \/ RotateEnd \/ Find \/ Read \/ CenterStep \/ CenterLoop \/
          CenterGiveUp \/ Aim \/ TapEnd \/ DeleteSignal \/ CreateSignal \/
          WriteSignal \/ DeleteFallback \/ WriteFallback \/ DeadlinePasses \/
          WindowChanges \/ Killed \/ UNCHANGED vars
  BY <1>6 DEF Launch, FeedbackReset, HangOnTolerance, Goto, Boot, StartRunning,
      Enter, ZoomOut, AtStep, SetStatus, Advance, PressKeys, KeysDown, LetKeysGo,
      KeysUp, ReleaseStep, ReleaseSpecialKeys, SearchStep, BeginSearch,
      SearchLoop, TimedOut, Found, ShowSpecialMarker, Miss, Rotate,
      HideSpecialMarker, RotateEnd, Find, HideForRead, BeginScreenRead, Read,
      EndScreenRead, CenterStep, CenterLoop, CenterGiveUp, Aim, TapEnd,
      DeleteSignal, CreateSignal, Appended, WriteSignal, DeleteFallback,
      WriteFallback, DeadlinePasses, Searching, WindowChanges, Killed, vars
<1> QED
  BY <1>1, <1>2, <1>3, <1>4, <1>5, <1>6 DEF Next, Script, MainThread, FlowStep,
     SearchPart, CenterPart, SignalPart

\* Every way to the signal file takes the overlay and the marker off the screen.
THEOREM CleanScreenAtSignal == Spec => []ScreenCleanAtSignal
<1>1. Init => ScreenCleanAtSignal
  BY DEF Init, ScreenCleanAtSignal, SignalPcs
<1> QED
  BY <1>1, NextCleanSignal, PTL DEF Spec

LEMMA NextKeysUp == KeysUpAtSignal /\ [Next]_vars => KeysUpAtSignal'
<1> SUFFICES ASSUME KeysUpAtSignal, [Next]_vars PROVE KeysUpAtSignal'
  OBVIOUS
<1> USE DEF KeysUpAtSignal, SignalPcs, keyboard, NoResult
<1>1. CASE RobloxNotFound
  BY <1>1 DEF RobloxNotFound, HideStatusOverlay, Report, HideSpecialMarker, Goto
<1>2. CASE Fail
  BY <1>2 DEF Fail, ReleaseSpecialKeys, StopRunning, Report, HideSpecialMarker,
      Goto
<1>3. CASE Finish
  BY <1>3 DEF Finish, ReleaseSpecialKeys, StopRunning, Report, HideSpecialMarker,
      Goto
<1>4. CASE SearchTimeout
  BY <1>4 DEF SearchTimeout, ReleaseSpecialKeys, HideStatusOverlay, Report,
      HideSpecialMarker, Goto
<1>5. CASE Launch \/ HangOnTolerance \/ Boot \/ Enter \/ ZoomOut \/ PressKeys \/
          LetKeysGo \/ ReleaseStep \/ SearchStep \/ SearchLoop \/ Found \/ Miss \/
          Rotate \/ RotateEnd \/ Find \/ Read \/ CenterStep \/ CenterLoop \/
          CenterGiveUp \/ Aim \/ TapEnd \/ DeleteSignal \/ CreateSignal \/
          WriteSignal \/ DeleteFallback \/ WriteFallback \/ MarkerThread \/
          DeadlinePasses \/ WindowChanges \/ Killed \/ UNCHANGED vars
  BY <1>5 DEF Launch, FeedbackReset, HangOnTolerance, Goto, Boot, StartRunning,
      Enter, ZoomOut, AtStep, SetStatus, Advance, PressKeys, KeysDown, LetKeysGo,
      KeysUp, ReleaseStep, ReleaseSpecialKeys, SearchStep, BeginSearch,
      SearchLoop, TimedOut, Found, ShowSpecialMarker, Miss, Rotate,
      HideSpecialMarker, RotateEnd, Find, HideForRead, BeginScreenRead, Read,
      EndScreenRead, CenterStep, CenterLoop, CenterGiveUp, Aim, TapEnd,
      DeleteSignal, CreateSignal, Appended, WriteSignal, DeleteFallback,
      WriteFallback, MarkerThread, AnimateSpecialMarker, DeadlinePasses,
      Searching, WindowChanges, Killed, vars
<1> QED
  BY <1>1, <1>2, <1>3, <1>4, <1>5 DEF Next, Script, MainThread, FlowStep,
     SearchPart, CenterPart, SignalPart

\* Every way to the signal file of a run that found the window lets go of the keys,
\* the ones that killed instances left down included.
THEOREM KeysAreUpAtSignal == Spec => []KeysUpAtSignal
<1>1. Init => KeysUpAtSignal
  BY DEF Init, KeysUpAtSignal, SignalPcs
<1> QED
  BY <1>1, NextKeysUp, PTL DEF Spec

\* A run that found the window reports with no key down but those that its flow uses
\* and its release list does not name, whatever earlier instances left.
OnlyUnnamedHeld ==
  pc \in SignalPcs /\ outcome.detail # "no_window" => held \subseteq Keys \ ReleasedKeys

THEOREM OnlyUnnamedStayDown == Spec => []OnlyUnnamedHeld
<1>1. TypeInv /\ KeysUpAtSignal => OnlyUnnamedHeld
  BY DEF TypeInv, KeyInv, KeysUpAtSignal, OnlyUnnamedHeld
<1> QED
  BY <1>1, SpecTypeInv, KeysAreUpAtSignal, PTL

\* A key that is down was down when the run started, or the current step holds it.
OwnKeysInv ==
  /\ held \subseteq stuck \cup pressing
  /\ pressing # {} => pc \in {"holding", "tapping", "rotating", "exited"}

LEMMA NextOwnKeys == OwnKeysInv /\ [Next]_vars => OwnKeysInv'
<1> SUFFICES ASSUME OwnKeysInv, [Next]_vars PROVE OwnKeysInv'
  OBVIOUS
<1> USE DEF OwnKeysInv, keyboard, world
<1>1. CASE Launch
  BY <1>1 DEF Launch, FeedbackReset
<1>2. CASE PressKeys
  BY <1>2 DEF PressKeys, AtStep, SetStatus, KeysDown, Goto
<1>3. CASE LetKeysGo
  BY <1>3 DEF LetKeysGo, KeysUp, Advance
<1>4. CASE Rotate
  BY <1>4 DEF Rotate, HideSpecialMarker, SetStatus, KeysDown, Goto
<1>5. CASE RotateEnd
  BY <1>5 DEF RotateEnd, KeysUp, Goto
<1>6. CASE Aim
  BY <1>6 DEF Aim, ShowSpecialMarker, SetStatus, Advance, KeysDown, Goto
<1>7. CASE TapEnd
  BY <1>7 DEF TapEnd, KeysUp, Goto
<1>8. CASE ReleaseStep
  BY <1>8 DEF ReleaseStep, AtStep, ReleaseSpecialKeys, SetStatus, Advance
<1>9. CASE Fail
  BY <1>9 DEF Fail, ReleaseSpecialKeys, StopRunning, Report, HideSpecialMarker,
      Goto
<1>10. CASE Finish
  BY <1>10 DEF Finish, ReleaseSpecialKeys, StopRunning, Report, HideSpecialMarker,
      Goto
<1>11. CASE SearchTimeout
  BY <1>11 DEF SearchTimeout, ReleaseSpecialKeys, HideStatusOverlay, Report,
      HideSpecialMarker, Goto
<1>12. CASE HangOnTolerance \/ RobloxNotFound \/ Boot \/ Enter \/ ZoomOut \/
          SearchStep \/ SearchLoop \/ Found \/ Miss \/ Find \/ Read \/ CenterStep
          \/ CenterLoop \/ CenterGiveUp \/ DeleteSignal \/ CreateSignal \/
          WriteSignal \/ DeleteFallback \/ WriteFallback \/ MarkerThread \/
          DeadlinePasses \/ WindowChanges \/ Killed \/ UNCHANGED vars
  BY <1>12 DEF HangOnTolerance, Goto, RobloxNotFound, HideStatusOverlay, Report,
      HideSpecialMarker, Boot, StartRunning, Enter, ZoomOut, AtStep, SetStatus,
      Advance, SearchStep, BeginSearch, SearchLoop, TimedOut, Found,
      ShowSpecialMarker, Miss, Find, HideForRead, BeginScreenRead, Read,
      EndScreenRead, CenterStep, CenterLoop, CenterGiveUp, DeleteSignal,
      CreateSignal, Appended, WriteSignal, DeleteFallback, WriteFallback,
      MarkerThread, AnimateSpecialMarker, DeadlinePasses, Searching,
      WindowChanges, Killed, FeedbackReset, vars
<1> QED
  BY <1>1, <1>2, <1>3, <1>4, <1>5, <1>6, <1>7, <1>8, <1>9, <1>10, <1>11, <1>12 DEF
     Next, Script, MainThread, FlowStep, SearchPart, CenterPart, SignalPart

\* The camera stands still while the screen is read.
THEOREM ReadsHaveKeysUp == Spec => []ReadsWithKeysUp
<1>1. Init => OwnKeysInv
  BY DEF Init, OwnKeysInv
<1>2. OwnKeysInv => ReadsWithKeysUp
  BY DEF OwnKeysInv, ReadsWithKeysUp, FindPcs
<1> QED
  BY <1>1, <1>2, NextOwnKeys, PTL DEF Spec

\* A run that reports leaves no key of its own down, whatever keys its flow uses.
THEOREM NoKeyIsLeftDown == Spec => []LeavesNoKeyDown
<1>1. Init => OwnKeysInv
  BY DEF Init, OwnKeysInv
<1>2. OwnKeysInv => LeavesNoKeyDown
  BY DEF OwnKeysInv, LeavesNoKeyDown, SignalPcs
<1> QED
  BY <1>1, <1>2, NextOwnKeys, PTL DEF Spec

\* The signal file is empty when FileAppend creates it.
AppendInv == (pc = "create" => primary = NoSignal) /\ SignalIsOurs

LEMMA NextAppend == AppendInv /\ [Next]_vars => AppendInv'
<1> SUFFICES ASSUME AppendInv, [Next]_vars PROVE AppendInv'
  OBVIOUS
<1> USE DEF AppendInv, SignalIsOurs, NoSignal, signals, world
<1>1. CASE DeleteSignal
  BY <1>1 DEF DeleteSignal, Goto
<1>2. CASE CreateSignal
  BY <1>2 DEF CreateSignal, Appended, Goto
<1>3. CASE WriteSignal
  BY <1>3 DEF WriteSignal, Appended, Goto
<1>4. CASE Launch \/ HangOnTolerance \/ RobloxNotFound \/ Boot \/ Enter \/ ZoomOut
          \/ PressKeys \/ LetKeysGo \/ ReleaseStep \/ Fail \/ Finish \/ SearchStep
          \/ SearchLoop \/ SearchTimeout \/ Found \/ Miss \/ Rotate \/ RotateEnd
          \/ Find \/ Read \/ CenterStep \/ CenterLoop \/ CenterGiveUp \/ Aim \/
          TapEnd \/ DeleteFallback \/ WriteFallback \/ MarkerThread \/
          DeadlinePasses \/ WindowChanges \/ Killed \/ UNCHANGED vars
  BY <1>4 DEF Launch, FeedbackReset, HangOnTolerance, Goto, RobloxNotFound,
      HideStatusOverlay, Report, HideSpecialMarker, Boot, StartRunning, Enter,
      ZoomOut, AtStep, SetStatus, Advance, PressKeys, KeysDown, LetKeysGo, KeysUp,
      ReleaseStep, ReleaseSpecialKeys, Fail, StopRunning, Finish, SearchStep,
      BeginSearch, SearchLoop, TimedOut, SearchTimeout, Found, ShowSpecialMarker,
      Miss, Rotate, RotateEnd, Find, HideForRead, BeginScreenRead, Read,
      EndScreenRead, CenterStep, CenterLoop, CenterGiveUp, Aim, TapEnd,
      DeleteFallback, WriteFallback, Appended, MarkerThread, AnimateSpecialMarker,
      DeadlinePasses, Searching, WindowChanges, Killed, vars
<1> QED
  BY <1>1, <1>2, <1>3, <1>4 DEF Next, Script, MainThread, FlowStep, SearchPart,
     CenterPart, SignalPart

\* A result is never appended to that of an earlier run.
THEOREM SignalIsOfThisRun == Spec => []SignalIsOurs
<1>1. Init => AppendInv
  BY DEF Init, AppendInv, SignalIsOurs
<1>2. AppendInv => SignalIsOurs
  BY DEF AppendInv
<1> QED
  BY <1>1, <1>2, NextAppend, PTL DEF Spec

\* Running is true from the entry point to the end of the flow.
RunningInv ==
  /\ pc \in {"enter", "flow", "fail"} \cup InStepPcs => running
  /\ pc # "finish"
  /\ NeverStopsItself

LEMMA NextRunning == RunningInv /\ [Next]_vars => RunningInv'
<1> SUFFICES ASSUME RunningInv, [Next]_vars PROVE RunningInv'
  OBVIOUS
<1> USE DEF RunningInv, NeverStopsItself, InStepPcs, SearchPcs, FindPcs, marks,
    status, screen
<1>1. CASE Launch
  BY <1>1 DEF Launch, FeedbackReset, NoResult
<1>2. CASE Boot
  BY <1>2 DEF Boot, StartRunning, Goto
<1>3. CASE RobloxNotFound
  BY <1>3 DEF RobloxNotFound, HideStatusOverlay, Report, HideSpecialMarker, Goto
<1>4. CASE Enter
  BY <1>4 DEF Enter, Goto
<1>5. CASE Fail
  BY <1>5 DEF Fail, ReleaseSpecialKeys, StopRunning, Report, HideSpecialMarker,
      Goto
<1>6. CASE Finish
  BY <1>6 DEF Finish, ReleaseSpecialKeys, StopRunning, Report, HideSpecialMarker,
      Goto
<1>7. CASE SearchLoop
  BY <1>7 DEF SearchLoop, TimedOut, Goto
<1>8. CASE SearchTimeout
  BY <1>8 DEF SearchTimeout, ReleaseSpecialKeys, HideStatusOverlay, Report,
      HideSpecialMarker, Goto
<1>9. CASE HangOnTolerance \/ ZoomOut \/ PressKeys \/ LetKeysGo \/ ReleaseStep \/
          SearchStep \/ Found \/ Miss \/ Rotate \/ RotateEnd \/ Find \/ Read \/
          CenterStep \/ CenterLoop \/ CenterGiveUp \/ Aim \/ TapEnd \/
          DeleteSignal \/ CreateSignal \/ WriteSignal \/ DeleteFallback \/
          WriteFallback \/ MarkerThread \/ DeadlinePasses \/ WindowChanges \/
          Killed \/ UNCHANGED vars
  BY <1>9 DEF HangOnTolerance, Goto, ZoomOut, AtStep, SetStatus, Advance,
      PressKeys, KeysDown, LetKeysGo, KeysUp, ReleaseStep, ReleaseSpecialKeys,
      SearchStep, BeginSearch, Found, ShowSpecialMarker, Miss, Rotate,
      HideSpecialMarker, RotateEnd, Find, HideForRead, BeginScreenRead, Read,
      EndScreenRead, CenterStep, CenterLoop, CenterGiveUp, Aim, TapEnd,
      DeleteSignal, CreateSignal, Appended, WriteSignal, DeleteFallback,
      WriteFallback, MarkerThread, AnimateSpecialMarker, DeadlinePasses,
      Searching, WindowChanges, Killed, FeedbackReset, vars
<1> QED
  BY <1>1, <1>2, <1>3, <1>4, <1>5, <1>6, <1>7, <1>8, <1>9 DEF Next, Script,
     MainThread, FlowStep, SearchPart, CenterPart, SignalPart

\* The results "movement_failed" and "Stopped by user." cannot be reported.
THEOREM NothingStopsTheFlow == Spec => []NeverStopsItself
<1>1. Init => RunningInv
  BY DEF Init, NoResult, RunningInv, NeverStopsItself, InStepPcs, SearchPcs,
      FindPcs
<1>2. RunningInv => NeverStopsItself
  BY DEF RunningInv
<1> QED
  BY <1>1, <1>2, NextRunning, PTL DEF Spec

-----------------------------------------------------------------------------
(* Progress.                                                               *)

MeasuresInNat ==
  StageLeft \in Nat /\ StepsLeft \in Nat /\ PulsesLeft \in Nat /\ PulseLeft \in Nat

LEMMA MeasuresAreNat == TypeInv => MeasuresInNat
<1> SUFFICES ASSUME TypeInv PROVE MeasuresInNat
  OBVIOUS
<1> USE FlowFacts, LimitFacts DEF TypeInv, ControlInv, CountInv
<1>1. StepsLeft \in Nat
  BY DEF StepsLeft
<1>2. PulsesLeft \in Nat
  BY DEF PulsesLeft
<1>3. StageLeft \in Nat /\ PulseLeft \in Nat
  BY DEF StageLeft, PulseLeft
<1> QED
  BY <1>1, <1>2, <1>3 DEF MeasuresInNat

\* A step that leaves the flow, or gets on outside it.
LEMMA StageNearer ==
  ASSUME HangOnTolerance \/ RobloxNotFound \/ Boot \/ Enter \/ Fail \/ Finish
           \/ SearchTimeout \/ SignalPart
  PROVE  Nearer
<1> USE DEF Nearer, StageLeft, EndPcs, Goto, Report
<1>1. CASE HangOnTolerance \/ RobloxNotFound \/ Boot \/ Enter
  BY <1>1 DEF HangOnTolerance, RobloxNotFound, Boot, Enter
<1>2. CASE Fail \/ Finish \/ SearchTimeout
  BY <1>2 DEF Fail, Finish, SearchTimeout
<1>3. CASE SignalPart
  <2>1. \/ pc = "delete" /\ pc' \in {"create", "fbDelete"}
        \/ pc = "create" /\ pc' \in {"write", "fbDelete"}
        \/ pc = "write" /\ pc' \in {"exited", "fbDelete"}
        \/ pc = "fbDelete" /\ pc' \in {"fbWrite", "exited"}
        \/ pc = "fbWrite" /\ pc' = "exited"
    BY <1>3, Zenon DEF SignalPart, DeleteSignal, CreateSignal, WriteSignal,
       DeleteFallback, WriteFallback
  <2> QED
    BY <2>1
<1> QED
  BY <1>1, <1>2, <1>3

\* A step of the flow that is done, or fails.
LEMMA AdvanceNearer ==
  ASSUME ControlInv, Advance \/ Goto("fail"),
         pc \in {"flow", "holding", "searched", "center", "aim"}
  PROVE  Nearer
<1>1. CASE Goto("fail") \/ (Advance /\ ~running)
  BY <1>1 DEF Goto, Advance, Nearer, StageLeft, EndPcs
<1>2. CASE Advance /\ running
  <2>1. StageLeft' = StageLeft
    BY <1>2 DEF Advance, StageLeft, EndPcs
  <2>2. StepsLeft' < StepsLeft
    BY <1>2, FlowFacts DEF Advance, StepsLeft, ControlInv
  <2> QED
    BY <2>1, <2>2 DEF Nearer
<1> QED
  BY <1>1, <1>2

\* A step of the flow that begins, and a pulse that begins.
LEMMA PulseBegins ==
  ASSUME CountInv, ControlInv, PressKeys \/ SearchStep \/ CenterStep \/ CenterLoop
  PROVE  Nearer
<1> USE LimitFacts DEF CountInv
<1>1. CASE CenterLoop /\ ~running
  BY <1>1 DEF CenterLoop, Goto, Nearer, StageLeft, EndPcs
<1>2. CASE PressKeys \/ SearchStep \/ CenterStep \/ (CenterLoop /\ running)
  <2>1. StageLeft' = StageLeft
    BY <1>2 DEF PressKeys, SearchStep, CenterStep, CenterLoop, AtStep, BeginSearch,
       Goto, StageLeft, EndPcs
  <2>2. StepsLeft' = StepsLeft
    BY <1>2 DEF PressKeys, SearchStep, CenterStep, CenterLoop, BeginSearch, Goto,
       StepsLeft
  <2>3. PulsesLeft' < PulsesLeft
    BY <1>2 DEF PressKeys, SearchStep, CenterStep, CenterLoop, AtStep, BeginSearch,
       Goto, PulsesLeft, locals
  <2> QED
    BY <2>1, <2>2, <2>3 DEF Nearer
<1> QED
  BY <1>1, <1>2

\* A step within a pulse, or within a round of the search.
LEMMA RoundGoesOn ==
  ASSUME Find \/ Read \/ Miss \/ RotateEnd \/ TapEnd
           \/ (Found /\ Goto("aim")) \/ (Rotate /\ Goto("rotating"))
           \/ (Aim /\ Goto("tapping"))
  PROVE  Nearer
<1> USE DEF Find, Read, Miss, RotateEnd, TapEnd, Found, Rotate, Aim, BeginSearch, Goto
<1>1. StageLeft' = StageLeft
  BY DEF StageLeft, EndPcs
<1>2. StepsLeft' = StepsLeft
  BY DEF StepsLeft
<1>3. PulsesLeft' = PulsesLeft
  BY DEF PulsesLeft, locals
<1>4. PulseLeft' < PulseLeft
  BY DEF PulseLeft, locals
<1> QED
  BY <1>1, <1>2, <1>3, <1>4 DEF Nearer

LEMMA StepNearer ==
  ASSUME TypeInv, MainThread, pc = "search" => late
  PROVE  Nearer
<1> USE DEF TypeInv
<1>1. CASE HangOnTolerance \/ RobloxNotFound \/ Boot \/ Enter \/ Fail \/ Finish
             \/ SearchTimeout \/ SignalPart
  BY <1>1, StageNearer
<1>2. CASE ZoomOut \/ LetKeysGo \/ ReleaseStep \/ CenterGiveUp
  BY <1>2, AdvanceNearer DEF ZoomOut, LetKeysGo, ReleaseStep, CenterGiveUp, AtStep
<1>3. CASE PressKeys \/ SearchStep \/ CenterStep \/ CenterLoop
  BY <1>3, PulseBegins
<1>4. CASE SearchLoop
  BY <1>4 DEF SearchLoop, TimedOut, Goto, Nearer, StageLeft, EndPcs
<1>5. CASE Find \/ Read \/ Miss \/ RotateEnd \/ TapEnd
  BY <1>5, RoundGoesOn
<1>6. CASE Found
  BY <1>6, AdvanceNearer, RoundGoesOn DEF Found
<1>7. CASE Rotate
  BY <1>7, AdvanceNearer, RoundGoesOn DEF Rotate
<1>8. CASE Aim
  BY <1>8, AdvanceNearer, RoundGoesOn DEF Aim
<1> QED
  BY <1>1, <1>2, <1>3, <1>4, <1>5, <1>6, <1>7, <1>8 DEF MainThread, FlowStep,
     SearchPart, CenterPart

\* Whatever its flow and its limits, a run goes round only in a search whose deadline
\* has not passed: every other operation makes a tuple of natural numbers smaller.
THEOREM RunNearsEnd == Spec => NearsEnd /\ []MeasuresInNat
<1>1. TypeInv /\ [Next]_vars => [MainThread /\ (pc = "search" => late) => Nearer]_vars
  BY StepNearer
<1>2. Spec => NearsEnd
  BY <1>1, SpecTypeInv, PTL DEF Spec, NearsEnd
<1>3. Spec => []MeasuresInNat
  BY SpecTypeInv, MeasuresAreNat, PTL
<1> QED
  BY <1>2, <1>3

-----------------------------------------------------------------------------
\* MovementScript implements MovementPromise: a start is Start, the choice of a
\* result is Decide, the last file operation is End, a kill is CutShort, and
\* everything else is invisible.
LEMMA StepInPromise == [Next]_vars => [Promise!Next]_(Promise!promised)
<1> SUFFICES ASSUME [Next]_vars PROVE [Promise!Next]_(Promise!promised)
  OBVIOUS
<1> USE DEF Promise!promised, Promise!Next, EndPcs, FlowPcs, SearchPcs, FindPcs,
        SignalPcs
<1>1. CASE Launch
  BY <1>1 DEF Launch, Promise!Start
<1>2. CASE RobloxNotFound \/ Fail \/ Finish \/ SearchTimeout
  BY <1>2 DEF RobloxNotFound, Fail, Finish, SearchTimeout, Report, Goto, Outcome,
      Promise!Decide
<1>3. CASE DeleteSignal \/ CreateSignal \/ WriteSignal \/ DeleteFallback
          \/ WriteFallback
  BY <1>3 DEF DeleteSignal, CreateSignal, WriteSignal, DeleteFallback, WriteFallback,
      Goto, Promise!End
<1>4. CASE Killed
  BY <1>4 DEF Killed, Goto, Promise!CutShort
<1>5. CASE HangOnTolerance \/ Boot \/ Enter \/ ZoomOut \/ PressKeys \/ LetKeysGo
          \/ ReleaseStep \/ SearchStep \/ SearchLoop \/ Found \/ Miss \/ Rotate \/
          RotateEnd \/ Find \/ Read \/ CenterStep \/ CenterLoop \/ CenterGiveUp \/
          Aim \/ TapEnd \/ MarkerThread \/ DeadlinePasses \/ WindowChanges \/
          UNCHANGED vars
  BY <1>5 DEF HangOnTolerance, Goto, Boot, StartRunning, Enter, ZoomOut, AtStep,
      SetStatus, Advance, PressKeys, KeysDown, LetKeysGo, KeysUp, ReleaseStep,
      ReleaseSpecialKeys, SearchStep, BeginSearch, SearchLoop, TimedOut, Found,
      ShowSpecialMarker, Miss, Rotate, HideSpecialMarker, RotateEnd, Find,
      HideForRead, BeginScreenRead, Read, EndScreenRead, CenterStep, CenterLoop,
      CenterGiveUp, Aim, TapEnd, MarkerThread, AnimateSpecialMarker,
      DeadlinePasses, Searching, WindowChanges, vars
<1> HIDE DEF Promise!promised, Promise!Next
<1> QED
  BY <1>1, <1>2, <1>3, <1>4, <1>5 DEF Next, Script, MainThread, FlowStep, SearchPart,
     CenterPart, SignalPart

\* Whatever its flow, a script reports one result per run and does not revise it.
THEOREM MovementKeepsPromise == Spec => StaysInPromise
<1>1. Init => Promise!Init
  BY DEF Init, Promise!Init, SignalPcs
<1> QED
  BY <1>1, StepInPromise, PTL DEF Spec, StaysInPromise, Promise!Spec
=============================================================================
