-------------------------- MODULE MissionCall_proofs ---------------------------
(***************************************************************************)
(* Proofs about the calls of the main program, overlapping ones included,  *)
(* for every script and every number of calls.                             *)
(***************************************************************************)
EXTENDS MissionCall, MovementScript_proofs

-----------------------------------------------------------------------------
(* The script under its caller, who removes the signal file at any time.   *)

ScriptInv ==
  /\ TypeInv /\ PulseInv /\ AppendInv /\ RunningInv
  /\ ScreenReadClean /\ SettledInv /\ ScreenCleanAtSignal
  /\ KeysUpAtSignal /\ OwnKeysInv

LEMMA ScriptKeepsInv == ScriptInv /\ [Next]_vars => ScriptInv'
<1> SUFFICES ASSUME ScriptInv, [Next]_vars PROVE ScriptInv'
  OBVIOUS
<1>1. TypeInv'
  BY NextControl, NextCount, NextDraw, NextKey, NextResult DEF ScriptInv, TypeInv
<1>2. PulseInv' /\ AppendInv' /\ RunningInv'
  BY NextPulse, NextAppend, NextRunning DEF ScriptInv, TypeInv
<1>3. ScreenReadClean' /\ SettledInv' /\ ScreenCleanAtSignal'
  BY NextClean, NextSettled, NextCleanSignal DEF ScriptInv
<1>4. KeysUpAtSignal' /\ OwnKeysInv'
  BY NextKeysUp, NextOwnKeys DEF ScriptInv
<1> QED
  BY <1>1, <1>2, <1>3, <1>4 DEF ScriptInv

LEMMA ClearKeepsInv == ScriptInv /\ ClearSignal => ScriptInv'
<1> SUFFICES ASSUME ScriptInv, ClearSignal PROVE ScriptInv'
  OBVIOUS
<1> USE DEF ClearSignal, BeginCall, ScriptInv, screen, status, marks, search, locals,
        keyboard, world
<1>1. TypeInv'
  <2>1. ControlInv' /\ CountInv' /\ DrawInv' /\ KeyInv'
    BY DEF TypeInv, ControlInv, CountInv, DrawInv, FeedbackTypeOK, KeyInv
  <2>2. ResultInv'
    BY DEF TypeInv, ResultInv
  <2> QED
    BY <2>1, <2>2 DEF TypeInv
<1>2. PulseInv' /\ AppendInv' /\ RunningInv'
  BY DEF PulseInv, AppendInv, SignalIsOurs, RunningInv, NeverStopsItself
<1>3. ScreenReadClean' /\ SettledInv' /\ ScreenCleanAtSignal'
  BY DEF ScreenReadClean, SettledInv, MarkerSettled, ScreenCleanAtSignal
<1>4. KeysUpAtSignal' /\ OwnKeysInv'
  BY DEF KeysUpAtSignal, OwnKeysInv
<1> QED
  BY <1>1, <1>2, <1>3, <1>4

LEMMA CallStep ==
  ASSUME [CallNext]_callVars
  PROVE  [Next]_vars \/ ClearSignal
BY DEF CallNext, StartScript, ReadSignal, GiveUp, ScriptStep, callVars, Next

LEMMA InitScriptInv == Init => ScriptInv
<1> SUFFICES ASSUME Init PROVE ScriptInv
  OBVIOUS
<1>1. TypeInv
  BY InitTypeInv
<1> QED
  BY <1>1 DEF Init, FeedbackInit, ScriptInv, PulseInv, AppendInv, SignalIsOurs,
     RunningInv, NeverStopsItself, NoResult, InStepPcs, SearchPcs, FindPcs, SignalPcs,
     ScreenReadClean, SettledInv, MarkerSettled, ScreenCleanAtSignal, KeysUpAtSignal,
     OwnKeysInv

LEMMA SpecScriptInv == CallSpec => []ScriptInv
<1>1. CallInit => ScriptInv
  BY InitScriptInv DEF CallInit
<1>2. ScriptInv /\ [CallNext]_callVars => ScriptInv'
  BY CallStep, ScriptKeepsInv, ClearKeepsInv
<1> QED
  BY <1>1, <1>2, PTL DEF CallSpec

\* A caller that removes the signal file under a running script, and starts it anew
\* whenever it likes, takes none of the script's guarantees away.
THEOREM CallsKeepScript ==
  CallSpec => [](/\ ScreenReadClean /\ MarkerSettled /\ ScreenCleanAtSignal
                 /\ KeysUpAtSignal /\ ReadsWithKeysUp /\ LeavesNoKeyDown
                 /\ SignalIsOurs /\ NeverStopsItself /\ OneSearchPerPulse)
<1>1. ScriptInv => /\ ScreenReadClean /\ MarkerSettled /\ ScreenCleanAtSignal
                   /\ KeysUpAtSignal /\ ReadsWithKeysUp /\ LeavesNoKeyDown
                   /\ SignalIsOurs /\ NeverStopsItself /\ OneSearchPerPulse
  BY DEF ScriptInv, SettledInv, OwnKeysInv, ReadsWithKeysUp, FindPcs, LeavesNoKeyDown,
     SignalPcs, AppendInv, RunningInv, PulseInv, OneSearchPerPulse
<1> QED
  BY <1>1, SpecScriptInv, PTL

\* Under any caller the script still reports one result per run and does not revise it.
THEOREM CallsKeepPromise == CallSpec => StaysInPromise
<1>1. CallInit => Promise!Init
  BY DEF CallInit, Init, Promise!Init, SignalPcs
<1>2. [CallNext]_callVars => [Promise!Next]_(Promise!promised)
  <2> SUFFICES ASSUME [CallNext]_callVars PROVE [Promise!Next]_(Promise!promised)
    OBVIOUS
  <2>1. CASE ClearSignal
    BY <2>1 DEF ClearSignal, BeginCall, Promise!promised
  <2> QED
    BY <2>1, CallStep, StepInPromise
<1> QED
  BY <1>1, <1>2, PTL DEF CallSpec, StaysInPromise, Promise!Spec

-----------------------------------------------------------------------------
(* What the main program reads.                                            *)

\* A run that writes to the signal file, or has done so, keeps its result.
ReportedPcs == {"write", "fbDelete", "fbWrite", "exited"}

\* s is the result of the last run, or the one that an overlapping call can get.
Latest(s)     == s.run = run /\ s.result = outcome /\ pc \in ReportedPcs
Acceptable(s) == Latest(s) \/ (overlapped /\ s.run + 1 = run)

\* If s is a complete result of the last run, it has left the game alone.
Quiet ==
  /\ pc = "exited" /\ ~overlay /\ ~marker
  /\ held \subseteq stuck
  /\ outcome.detail # "no_window" => held \cap ReleasedKeys = {}
LeftAlone(s) == s.whole /\ s.run = run => Quiet

\* The signal file and the answer in each phase of a call.
CallInv ==
  /\ CallTypeOK
  /\ phase \in {"idle", "cleared", "waiting"} => answer = NoSignal
  /\ phase = "cleared" =>
       /\ ~overlapped => ~Running /\ primary = NoSignal
       /\ primary # NoSignal => Latest(primary)
  /\ phase = "waiting" /\ primary # NoSignal => Acceptable(primary) /\ LeftAlone(primary)
  /\ phase = "answered" /\ answer # NoSignal => Acceptable(answer) /\ LeftAlone(answer)

\* A process that has ended does nothing more, and no step of a running one starts
\* another run, or changes a result that is being reported.
LEMMA ScriptFacts ==
  ASSUME Script
  PROVE  /\ UNCHANGED <<run, stuck>>
         /\ ~Running => UNCHANGED <<pc, held, overlay, marker, primary>>
         /\ pc \in ReportedPcs => pc' \in ReportedPcs /\ UNCHANGED outcome
<1> USE DEF Running, ReportedPcs, world, screen, status, marks, keyboard, signals, Goto
<1>1. CASE WindowChanges
  BY <1>1 DEF WindowChanges
<1>2. CASE FlowStep
  BY <1>2 DEF FlowStep, HangOnTolerance, RobloxNotFound, Boot, Enter, ZoomOut, AtStep,
     PressKeys, LetKeysGo, ReleaseStep, Fail, Finish
<1>3. CASE SearchPart
  BY <1>3 DEF SearchPart, SearchStep, AtStep, SearchLoop, SearchTimeout, Found, Miss,
     Rotate, RotateEnd, Find, Read
<1>4. CASE CenterPart
  BY <1>4 DEF CenterPart, CenterStep, AtStep, CenterLoop, CenterGiveUp, Aim, TapEnd
<1>5. CASE SignalPart
  BY <1>5 DEF SignalPart, DeleteSignal, CreateSignal, WriteSignal, DeleteFallback,
     WriteFallback
<1>6. CASE MarkerThread \/ DeadlinePasses \/ Killed
  BY <1>6 DEF MarkerThread, EndPcs, DeadlinePasses, Searching, SearchPcs, FindPcs,
     Killed
<1> QED
  BY <1>1, <1>2, <1>3, <1>4, <1>5, <1>6 DEF Script, MainThread

\* The signal file is only touched by the operations of WriteSignalAndExit.
LEMMA SignalWrites ==
  ASSUME Script
  PROVE  UNCHANGED primary \/ DeleteSignal \/ CreateSignal \/ WriteSignal
<1> USE DEF signals
<1>1. CASE WindowChanges \/ MarkerThread \/ DeadlinePasses \/ Killed
  BY <1>1 DEF WindowChanges, MarkerThread, DeadlinePasses, Killed
<1>2. CASE FlowStep
  BY <1>2 DEF FlowStep, HangOnTolerance, RobloxNotFound, Boot, Enter, ZoomOut,
     PressKeys, LetKeysGo, ReleaseStep, Fail, Finish
<1>3. CASE SearchPart
  BY <1>3 DEF SearchPart, SearchStep, SearchLoop, SearchTimeout, Found, Miss,
     Rotate, RotateEnd, Find, Read
<1>4. CASE CenterPart
  BY <1>4 DEF CenterPart, CenterStep, CenterLoop, CenterGiveUp, Aim, TapEnd
<1>5. CASE SignalPart
  BY <1>5 DEF SignalPart, DeleteFallback, WriteFallback
<1> QED
  BY <1>1, <1>2, <1>3, <1>4, <1>5 DEF Script, MainThread

\* What a step of the script finds or leaves in the signal file: what was there,
\* nothing, or its own result, complete only when the game has been left alone.
LEMMA FileAfterStep ==
  ASSUME Script, ScriptInv
  PROVE  \/ UNCHANGED primary
         \/ primary' = NoSignal
         \/ Latest(primary)' /\ LeftAlone(primary)'
<1>1. UNCHANGED primary \/ DeleteSignal \/ CreateSignal \/ WriteSignal
  BY SignalWrites
<1>2. CASE DeleteSignal
  BY <1>2 DEF DeleteSignal
<1>3. CASE CreateSignal
  BY <1>3 DEF CreateSignal, Appended, Latest, LeftAlone, ReportedPcs, Goto, world
<1>4. CASE WriteSignal
  <2>1. CASE primary.whole
    BY <1>4, <2>1 DEF WriteSignal, Appended
  <2>2. CASE ~primary.whole /\ primary' # primary
    <3>1. pc = "write" /\ pc' = "exited"
            /\ UNCHANGED <<run, stuck, held, overlay, marker, outcome>>
      BY <1>4, <2>2 DEF WriteSignal, Goto, screen, status, marks, keyboard, world
    <3>2. primary'.run = run /\ primary'.result = outcome
      BY <1>4, <2>2 DEF WriteSignal, Appended
    <3>3. Quiet'
      BY <3>1 DEF Quiet, ScriptInv, KeysUpAtSignal, ScreenCleanAtSignal, OwnKeysInv,
         SignalPcs
    <3> QED
      BY <3>1, <3>2, <3>3 DEF Latest, LeftAlone, ReportedPcs
  <2> QED
    BY <2>1, <2>2
<1> QED
  BY <1>1, <1>2, <1>3, <1>4

\* A signal stays acceptable, and the game stays left alone.
LEMMA ScriptKeepsSignal ==
  ASSUME Script, UNCHANGED overlapped, NEW s
  PROVE  /\ Latest(s) => Latest(s)'
         /\ Acceptable(s) => Acceptable(s)'
         /\ LeftAlone(s) => LeftAlone(s)'
<1>1. /\ UNCHANGED <<run, stuck>>
      /\ ~Running => UNCHANGED <<pc, held, overlay, marker, primary>>
      /\ pc \in ReportedPcs => pc' \in ReportedPcs /\ UNCHANGED outcome
  BY ScriptFacts
<1>2. Latest(s) => Latest(s)'
  BY <1>1 DEF Latest
<1>3. LeftAlone(s) => LeftAlone(s)'
  BY <1>1 DEF LeftAlone, Quiet, Running, ReportedPcs
<1> QED
  BY <1>1, <1>2, <1>3 DEF Acceptable

LEMMA ScriptKeepsCallInv ==
  ASSUME CallInv, ScriptInv, ScriptStep, CallTypeOK'
  PROVE  CallInv'
<1>1. Script /\ UNCHANGED <<phase, answer, overlapped>>
  BY DEF ScriptStep
<1>2. \A s : /\ Latest(s) => Latest(s)'
             /\ Acceptable(s) => Acceptable(s)'
             /\ LeftAlone(s) => LeftAlone(s)'
  BY <1>1, ScriptKeepsSignal
<1>3. \/ UNCHANGED primary
      \/ primary' = NoSignal
      \/ Latest(primary)' /\ LeftAlone(primary)'
  BY <1>1, FileAfterStep
<1>4. ~Running => ~Running' /\ UNCHANGED primary
  BY <1>1, ScriptFacts DEF Running
<1>5. phase' = "cleared" =>
        /\ ~overlapped' => ~Running' /\ primary' = NoSignal
        /\ primary' # NoSignal => Latest(primary)'
  BY <1>1, <1>2, <1>3, <1>4 DEF CallInv, Latest
<1>6. phase' = "waiting" /\ primary' # NoSignal =>
        Acceptable(primary)' /\ LeftAlone(primary)'
  BY <1>1, <1>2, <1>3 DEF CallInv, Acceptable, Latest, LeftAlone, Quiet
<1>7. phase' = "answered" /\ answer' # NoSignal =>
        Acceptable(answer)' /\ LeftAlone(answer)'
  BY <1>1, <1>2 DEF CallInv, Acceptable, Latest, LeftAlone, Quiet
<1> QED
  BY <1>1, <1>5, <1>6, <1>7 DEF CallInv

LEMMA NextCallInv == CallInv /\ ScriptInv /\ [CallNext]_callVars => CallInv'
<1> SUFFICES ASSUME CallInv, ScriptInv, [CallNext]_callVars PROVE CallInv'
  OBVIOUS
<1>0. TypeOK'
  BY CallStep, ScriptKeepsInv, ClearKeepsInv
  DEF ScriptInv, TypeInv, ControlInv, CountInv, DrawInv, KeyInv, ResultInv, TypeOK
<1> USE DEF NoSignal
<1>1. CASE ClearSignal
  BY <1>0, <1>1 DEF ClearSignal, BeginCall, CallInv, CallTypeOK, Running
<1>2. CASE StartScript
  <2>1. phase = "cleared" /\ phase' = "waiting" /\ run' = run + 1 /\ run \in Nat
          /\ UNCHANGED <<primary, answer, overlapped>>
    BY <1>2, LimitFacts DEF StartScript, Launch, signals, ScriptInv, TypeInv, ControlInv
  <2>2. primary # NoSignal => Latest(primary) /\ overlapped
    BY <2>1 DEF CallInv
  <2>3. primary' # NoSignal => Acceptable(primary)' /\ LeftAlone(primary)'
    BY <2>1, <2>2 DEF Acceptable, Latest, LeftAlone
  <2> QED
    BY <1>0, <2>1, <2>3 DEF CallInv, CallTypeOK
<1>3. CASE ReadSignal
  BY <1>0, <1>3 DEF ReadSignal, vars, CallInv, CallTypeOK, TypeOK, Acceptable, Latest,
     LeftAlone, Quiet, screen, status, marks, keyboard, signals, world
<1>4. CASE GiveUp
  BY <1>0, <1>4 DEF GiveUp, CallInv, CallTypeOK
<1>5. CASE ScriptStep
  BY <1>0, <1>5, ScriptKeepsCallInv DEF ScriptStep, CallInv, CallTypeOK
<1>6. CASE UNCHANGED callVars
  BY <1>0, <1>6 DEF callVars, vars, CallInv, CallTypeOK, Acceptable, Latest, LeftAlone,
     Quiet, Running, screen, status, marks, keyboard, signals, world
<1> QED
  BY <1>1, <1>2, <1>3, <1>4, <1>5, <1>6 DEF CallNext

LEMMA SpecCallInv == CallSpec => []CallInv
<1>1. CallInit => CallInv
  <2> SUFFICES ASSUME CallInit PROVE CallInv
    OBVIOUS
  <2>1. TypeOK
    BY InitTypeInv
    DEF CallInit, TypeInv, ControlInv, CountInv, DrawInv, KeyInv, ResultInv, TypeOK
  <2> QED
    BY <2>1 DEF CallInit, CallInv, CallTypeOK
<1> QED
  BY <1>1, NextCallInv, SpecScriptInv, PTL DEF CallSpec

\* The variables of a call keep their types.
THEOREM CallTypes == CallSpec => []CallTypeOK
<1>1. CallInv => CallTypeOK
  BY DEF CallInv
<1> QED
  BY <1>1, SpecCallInv, PTL

\* The main program is never given the result of another run than the one it started,
\* however late the file of an earlier one was written; only a call that overlaps the
\* last one can get that one's.
THEOREM AnswersAreOwn == CallSpec => []OwnAnswer
<1>1. CallInv => OwnAnswer
  BY DEF CallInv, CallTypeOK, OwnAnswer, Acceptable, Latest
<1> QED
  BY <1>1, SpecCallInv, PTL

\* A complete answer means that the script has let go of the game, whatever keys its
\* flow uses and however its run went.
THEOREM AnswersLeaveGameAlone == CallSpec => []AnswerLeavesGameAlone
<1>1. CallInv => AnswerLeavesGameAlone
  <2> SUFFICES ASSUME CallInv, answer.whole, answer.run = run
               PROVE  /\ ~overlay /\ ~marker /\ held \subseteq stuck
                      /\ answer.result.detail # "no_window" =>
                           held \cap ReleasedKeys = {}
    BY DEF AnswerLeavesGameAlone
  <2>1. run \in Nat
    BY LimitFacts DEF CallInv, CallTypeOK, TypeOK
  <2>2. answer # NoSignal /\ phase = "answered"
    BY DEF CallInv, CallTypeOK, NoSignal
  <2>3. Quiet /\ answer.result = outcome
    BY <2>1, <2>2 DEF CallInv, Acceptable, Latest, LeftAlone
  <2> QED
    BY <2>3 DEF Quiet
<1> QED
  BY <1>1, SpecCallInv, PTL
=============================================================================
