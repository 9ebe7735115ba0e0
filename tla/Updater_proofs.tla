---------------------------- MODULE Updater_proofs ----------------------------
(***************************************************************************)
(* Proofs about Updater for every number of retries and of sessions.       *)
(***************************************************************************)
EXTENDS Updater, TLAPS

Big(f) == f.kind \in {"cut", "whole"}

\* What is on the disk at each point of a session: the download is absent or
\* this session's from ClearTmp to MoveExe, and large enough after Validate, unless
\* the download of a killed session has written there.
TmpInv ==
  /\ pc # "idle" => session # 0
  /\ pc = "download" /\ ~overwritten => exeTmp = NoFile
  /\ pc \in {"validate", "measure"} /\ ~overwritten =>
       exeTmp = NoFile \/ exeTmp.from = session
  /\ pc \in {"replace", "move"} /\ ~overwritten =>
       exeTmp = NoFile \/ (exeTmp.from = session /\ Big(exeTmp))

\* The installed program at each point of a session.
ExeInv ==
  /\ pc \in {"relaunch", "warned"} \cup AhkSteps /\ ~overwritten =>
       exe.from = session /\ Big(exe)
  /\ exitCode = "0" => pc = "idle"
  /\ exitCode = "0" /\ ~overwritten => exe.from = session

\* The copies that survive, unless somebody else touched the download.
CopyInv ==
  /\ hadExe /\ pc \in {"wait", "clear", "download", "validate", "measure", "threw"} =>
       FileExist(exe)
  /\ pc \in {"replace", "move"} /\ Untouched => FileExist(exeTmp)
  /\ pc = "failed" /\ hadExe /\ Untouched => FileExist(exe) \/ CheckedDownload
  /\ KeepsACopy

\* What is installed is older than the session that is about to replace it.
AgeInv ==
  /\ exe.from <= session /\ exeTmp.from <= session
  /\ pc \in {"wait", "clear", "download", "validate", "measure", "replace", "failed",
              "threw"} => exe.from < session
  /\ pc = "move" => exe = NoFile
  /\ exitCode \in {"1", "error"} => pc = "idle"
  /\ FailureMeansNotUpdated

\* Only sessions that were killed leave a download behind.
OrphanInv == \A o \in orphans : o.from <= session

Inv == TypeOK /\ TmpInv /\ ExeInv /\ CopyInv /\ AgeInv /\ OrphanInv

\* Files are numbered by their session.
LEMMA FileFrom == \A f \in File : f.from \in Nat
  BY UpdaterAssumption DEF File, Download, NoFile, Original

LEMMA InitInv == Init => Inv
<1> SUFFICES ASSUME Init PROVE Inv
  OBVIOUS
<1>1. TypeOK
  <2>1. hadExe \in BOOLEAN /\ vanished \in BOOLEAN /\ overwritten \in BOOLEAN
    BY Zenon DEF Init
  <2> QED
    BY <2>1, UpdaterAssumption DEF Init, TypeOK, File, Original
<1>2. TmpInv /\ ExeInv /\ CopyInv
  BY DEF Init, TmpInv, ExeInv, CopyInv, KeepsACopy, AhkSteps, FileExist, Original
<1>3. AgeInv /\ OrphanInv
  <2>1. /\ exe.from = 0 /\ exeTmp.from = 0 /\ session = 0 /\ pc = "idle"
        /\ exitCode = "none" /\ orphans = {}
    BY DEF Init, Original, NoFile
  <2> QED
    BY <2>1 DEF AgeInv, OrphanInv, FailureMeansNotUpdated
<1> QED
  BY <1>1, <1>2, <1>3 DEF Inv

\* Every step preserves the invariant, action by action.
LEMMA NextInv == Inv /\ [Next]_vars => Inv'
<1> SUFFICES ASSUME Inv, [Next]_vars PROVE Inv'
  OBVIOUS
<1> USE UpdaterAssumption
        DEF Inv, TypeOK, TmpInv, ExeInv, CopyInv, AgeInv, OrphanInv, KeepsACopy,
            FailureMeansNotUpdated, Untouched, CheckedDownload, AhkSteps, File, Orphan,
            Download, Kind, NoFile, Original, FileExist, Big, files, observers
<1>1. CASE Launch
  <2>1. exe.from \in Nat /\ exeTmp.from \in Nat /\ session \in Nat
    BY FileFrom
  <2>2. AgeInv' /\ OrphanInv'
    <3>1. /\ exe' = exe /\ exeTmp' = exeTmp /\ session' = session + 1 /\ pc' = "wait"
          /\ exitCode' = "none" /\ orphans' = orphans
      BY <1>1 DEF Launch
    <3>2. exe'.from <= session' /\ exe'.from < session' /\ exeTmp'.from <= session'
      BY <2>1, <3>1
    <3>3. \A o \in orphans' : o.from <= session'
      BY <2>1, <3>1
    <3> QED
      BY <3>1, <3>2, <3>3
  <2>3. hadExe' \in BOOLEAN /\ vanished' \in BOOLEAN /\ overwritten' \in BOOLEAN
    BY <1>1, Zenon DEF Launch
  <2>4. TypeOK' /\ TmpInv' /\ ExeInv' /\ CopyInv'
    BY <1>1, <2>3 DEF Launch
  <2> QED
    BY <2>2, <2>4
<1>2. CASE WaitForMain
  BY <1>2 DEF WaitForMain
<1>3. CASE ClearTmp
  BY <1>3 DEF ClearTmp, Cleared
<1>4. CASE DownloadExe
  BY <1>4 DEF DownloadExe, Fetched
<1>5. CASE FindTmp
  BY <1>5 DEF FindTmp
<1>6. CASE Validate
  BY <1>6 DEF Validate, MinSizeOK
<1>7. CASE DeleteExe
  BY <1>7 DEF DeleteExe, AttemptFails, LastAttempt
<1>8. CASE MoveExe
  <2>1. pc = "move" /\ exe.from = 0 /\ session \in Nat /\ 0 < session
    BY <1>8 DEF MoveExe
  <2>2. CASE AttemptFails /\ UNCHANGED <<exe, exeTmp>>
    <3>1. exe' = exe /\ exeTmp' = exeTmp /\ session' = session
            /\ pc' \in {"failed", "replace"}
            /\ exitCode' = exitCode /\ exitCode \notin {"1", "error"} /\ orphans' = orphans
      BY <1>8, <2>1, <2>2 DEF MoveExe, AttemptFails
    <3>2. AgeInv' /\ OrphanInv'
      BY <2>1, <3>1
    <3>3. TypeOK'
      BY <1>8, <2>1, <2>2 DEF MoveExe, AttemptFails, LastAttempt
    <3>4. TmpInv' /\ ExeInv' /\ CopyInv'
      BY <1>8, <2>1, <2>2, <3>1 DEF MoveExe
    <3> QED
      BY <3>2, <3>3, <3>4
  <2>3. CASE ~(AttemptFails /\ UNCHANGED <<exe, exeTmp>>)
    <3>1. exe' = exeTmp /\ exeTmp' = NoFile /\ pc' = "ahkClear" /\ orphans' = orphans
            /\ exitCode' = exitCode /\ exitCode \notin {"1", "error"} /\ session' = session
      BY <1>8, <2>1, <2>3 DEF MoveExe
    <3>2. AgeInv' /\ OrphanInv'
      BY <2>1, <3>1
    <3>3. TypeOK' /\ TmpInv' /\ ExeInv' /\ CopyInv'
      BY <1>8, <2>3 DEF MoveExe
    <3> QED
      BY <3>2, <3>3
  <2> QED
    BY <2>2, <2>3
<1>9. CASE AhkClear
  BY <1>9 DEF AhkClear, OnAhkFailure
<1>10. CASE AhkDownload
  BY <1>10 DEF AhkDownload, Fetched, OnAhkFailure
<1>11. CASE AhkCheck
  BY <1>11 DEF AhkCheck, OnAhkFailure, NonEmpty
<1>12. CASE AhkMove
  BY <1>12 DEF AhkMove, OnAhkFailure
<1>13. CASE Relaunch
  BY <1>13 DEF Relaunch
<1>14. CASE Dismiss
  BY <1>14 DEF Dismiss
<1>15. CASE MainExits
  BY <1>15 DEF MainExits
<1>16. CASE UserStartsMain
  BY <1>16 DEF UserStartsMain
<1>17. CASE Crash
  BY <1>17 DEF Crash, LeftBehind
<1>18. CASE LateDownload
  <2>1. PICK o \in orphans, f \in {NoFile} \cup Download :
          /\ f = NoFile \/ f.from = o.from
          /\ \/ exeTmp' = f /\ overwritten' = TRUE /\ UNCHANGED ahkTmp
             \/ ahkTmp' = f /\ UNCHANGED <<exeTmp, overwritten>>
    BY <1>18, Zenon DEF LateDownload
  <2>2. UNCHANGED <<pc, session, tries, exe, ahk, main, exitCode, orphans, hadExe, vanished>>
    BY <1>18 DEF LateDownload
  <2>3. f \in File /\ f.from <= session
    BY <2>1
  <2>4. CASE exeTmp' = f /\ overwritten' = TRUE /\ UNCHANGED ahkTmp
    <3>1. TypeOK'
      BY <2>2, <2>3, <2>4
    <3>2. TmpInv' /\ ExeInv' /\ CopyInv'
      BY <2>2, <2>4
    <3>3. AgeInv' /\ OrphanInv'
      BY <2>2, <2>3, <2>4
    <3> QED
      BY <3>1, <3>2, <3>3
  <2>5. CASE ahkTmp' = f /\ UNCHANGED <<exeTmp, overwritten>>
    BY <2>2, <2>3, <2>5
  <2> QED
    BY <2>1, <2>4, <2>5
<1>19. CASE TmpVanishes
  BY <1>19 DEF TmpVanishes
<1>20. CASE UNCHANGED vars
  BY <1>20 DEF vars
<1>21. QED
  BY <1>1, <1>2, <1>3, <1>4, <1>5, <1>6, <1>7, <1>8, <1>9, <1>10, <1>11, <1>12,
     <1>13, <1>14, <1>15, <1>16, <1>17, <1>18, <1>19, <1>20 DEF Next, Step

LEMMA SpecInv == Spec => []Inv
  BY InitInv, NextInv, PTL DEF Spec

\* The types of the state, and the loop bounds, hold in every session.
THEOREM UpdaterTypes == Spec => []TypeOK
  BY SpecInv, PTL DEF Inv

\* Whatever the updater installs was downloaded by the same session and passed
\* the size test of the script, also after a crash between two operations.
THEOREM UpdaterFreshInstall == Spec => FreshInstall
<1>1. Inv /\ [Next]_vars =>
        [exe' # exe /\ FileExist(exe') /\ ~overwritten
           => exe'.from = session /\ exe'.kind \notin {"empty", "tiny"}]_vars
  <2> SUFFICES ASSUME Inv, Next, exe' # exe, FileExist(exe'), ~overwritten
               PROVE  exe'.from = session /\ exe'.kind \notin {"empty", "tiny"}
    OBVIOUS
  <2>1. CASE MoveExe
    BY <2>1 DEF MoveExe, Inv, TmpInv, Big, FileExist, NoFile
  <2>2. CASE DeleteExe
    BY <2>2 DEF DeleteExe, FileExist, NoFile
  <2>3. QED
    BY <2>1, <2>2 DEF Next, Step, Launch, WaitForMain, ClearTmp, DownloadExe,
       FindTmp, Validate, AhkClear, AhkDownload, AhkCheck, AhkMove, Relaunch, Dismiss,
       MainExits, UserStartsMain, Crash, LateDownload, TmpVanishes, files
<1>2. QED
  BY <1>1, SpecInv, PTL DEF Spec, FreshInstall

\* Exit code 0 is only reported once this session's program is installed.
THEOREM UpdaterExitZero == Spec => []ExitZeroMeansUpdated
<1>1. Inv => ExitZeroMeansUpdated
  BY DEF Inv, ExeInv, ExitZeroMeansUpdated
<1>2. QED
  BY <1>1, SpecInv, PTL

\* Unless somebody else touches its download, a session that starts with a program
\* installed never leaves the user without any copy of it.
THEOREM UpdaterKeepsACopy == Spec => []KeepsACopy
<1>1. Inv => KeepsACopy
  BY DEF Inv, CopyInv
<1>2. QED
  BY <1>1, SpecInv, PTL

\* Likewise the installed program is only deleted when a checked replacement
\* of this session is on the disk.
THEOREM UpdaterOldKept == Spec => OldKeptUntilChecked
<1>1. Inv /\ [Next]_vars =>
        [FileExist(exe) /\ ~FileExist(exe') /\ Untouched => CheckedDownload]_vars
  <2> SUFFICES ASSUME Inv, Next, FileExist(exe), ~FileExist(exe'), Untouched
               PROVE  CheckedDownload
    OBVIOUS
  <2>1. CASE DeleteExe
    BY <2>1 DEF DeleteExe, Inv, TmpInv, CopyInv, Big, FileExist, NoFile, Untouched,
       CheckedDownload
  <2>2. CASE MoveExe
    BY <2>2 DEF MoveExe
  <2>3. QED
    BY <2>1, <2>2 DEF Next, Step, Launch, WaitForMain, ClearTmp, DownloadExe,
       FindTmp, Validate, AhkClear, AhkDownload, AhkCheck, AhkMove, Relaunch, Dismiss,
       MainExits, UserStartsMain, Crash, LateDownload, TmpVanishes, files
<1>3. QED
  BY <1>1, SpecInv, PTL DEF Spec, OldKeptUntilChecked

\* A session that reports a failure leaves the program of before or, beside its place,
\* the checked new one.
THEOREM UpdaterFailure == Spec => []FailureMeansNotUpdated
<1>1. Inv => FailureMeansNotUpdated
  BY DEF Inv, AgeInv
<1>2. QED
  BY <1>1, SpecInv, PTL

\* Every operation leaves fewer to do.
LEMMA StepShrinks ==
  ASSUME Inv, Step
  PROVE  OperationsLeft' < OperationsLeft
<1> USE UpdaterAssumption DEF OperationsLeft, Inv, TypeOK
<1>1. CASE WaitForMain
  BY <1>1 DEF WaitForMain
<1>2. CASE ClearTmp \/ DownloadExe \/ FindTmp \/ Validate
  BY <1>2 DEF ClearTmp, DownloadExe, FindTmp, Validate
<1>3. CASE DeleteExe
  <2>1. pc = "replace" /\ tries \in 0..(ReplaceTries - 1)
    BY <1>3 DEF DeleteExe
  <2>2. \/ pc' = "move" /\ tries' = tries
        \/ pc' = "failed"
        \/ pc' = "replace" /\ tries' = tries + 1
    BY <1>3, Zenon DEF DeleteExe, AttemptFails
  <2> QED
    BY <2>1, <2>2
<1>4. CASE MoveExe
  <2>1. pc = "move" /\ tries \in 0..(ReplaceTries - 1)
    BY <1>4 DEF MoveExe
  <2>2. \/ pc' = "ahkClear" \/ pc' = "failed"
        \/ pc' = "replace" /\ tries' = tries + 1
    BY <1>4, Zenon DEF MoveExe, AttemptFails
  <2> QED
    BY <2>1, <2>2
<1>5. CASE AhkClear \/ AhkDownload \/ AhkCheck \/ AhkMove
  BY <1>5 DEF AhkClear, AhkDownload, AhkCheck, AhkMove, OnAhkFailure
<1>6. CASE Relaunch
  BY <1>6 DEF Relaunch
<1> QED
  BY <1>1, <1>2, <1>3, <1>4, <1>5, <1>6 DEF Step

\* However often operations fail, a session has at most the operations that the two
\* loops and the straight line around them add up to.
THEOREM UpdaterNeverGoesRound ==
  Spec => /\ NeverGoesRound
          /\ [](OperationsLeft \in 0..(2 * ReplaceTries + WaitTries + 11))
<1>1. Inv /\ [Next]_vars => [Step => OperationsLeft' < OperationsLeft]_vars
  BY StepShrinks
<1>2. Inv => OperationsLeft \in 0..(2 * ReplaceTries + WaitTries + 11)
  BY UpdaterAssumption DEF Inv, TypeOK, OperationsLeft
<1>3. Spec => NeverGoesRound
  BY <1>1, SpecInv, PTL DEF Spec, NeverGoesRound
<1>4. Spec => [](OperationsLeft \in 0..(2 * ReplaceTries + WaitTries + 11))
  BY <1>2, SpecInv, PTL
<1> QED
  BY <1>3, <1>4

\* What the name without its extension does to the wait loop, whatever its limit: it
\* never polls a second time, with the main program running or not.
NeverWaits == pc = "wait" => tries = 0

THEOREM UpdaterNeverWaits == Spec => []NeverWaits
<1>1. Init => NeverWaits
  BY DEF Init, NeverWaits
<1>2. NeverWaits /\ [Next]_vars => NeverWaits'
  <2> SUFFICES ASSUME NeverWaits, [Next]_vars PROVE NeverWaits'
    OBVIOUS
  <2> USE DEF NeverWaits
  <2>1. CASE Launch
    BY <2>1 DEF Launch
  <2>2. CASE WaitForMain
    BY <2>2 DEF WaitForMain, ProcessExist, exeBase, EXE_NAME
  <2>3. CASE ClearTmp \/ DownloadExe \/ FindTmp \/ Validate \/ DeleteExe \/ MoveExe
    BY <2>3 DEF ClearTmp, DownloadExe, FindTmp, Validate, DeleteExe, MoveExe, AttemptFails
  <2>4. CASE AhkClear \/ AhkDownload \/ AhkCheck \/ AhkMove \/ Relaunch \/ Dismiss
    BY <2>4 DEF AhkClear, AhkDownload, AhkCheck, AhkMove, OnAhkFailure, Relaunch,
       Dismiss
  <2>5. CASE MainExits \/ UserStartsMain \/ Crash \/ LateDownload \/ TmpVanishes
               \/ UNCHANGED vars
    BY <2>5 DEF MainExits, UserStartsMain, Crash, LateDownload, TmpVanishes, vars
  <2> QED
    BY <2>1, <2>2, <2>3, <2>4, <2>5 DEF Next, Step
<1> QED
  BY <1>1, <1>2, PTL DEF Spec

-----------------------------------------------------------------------------
(* The updater implements Installation.                                    *)

\* A step that touches neither the program, its replacement nor the observers is
\* not seen by Installation.
LEMMA UnseenStep ==
  ASSUME UNCHANGED <<exe, exeTmp, vanished, overwritten>>
  PROVE  UNCHANGED Promise!installation
BY DEF Promise!installation, FileExist, Replacement, Untouched

LEMMA StepInPromise == Inv /\ [Next]_vars => [Promise!Next]_(Promise!installation)
<1> SUFFICES ASSUME Inv, [Next]_vars PROVE [Promise!Next]_(Promise!installation)
  OBVIOUS
<1>0. exe.from \in Nat /\ exeTmp.from \in Nat
  BY FileFrom DEF Inv, TypeOK
<1> USE DEF Promise!Next, Promise!installation, Replacement, FileExist, NoFile, Untouched
<1>1. CASE Launch
  BY <1>1 DEF Launch, files, Promise!Meddle
<1>2. CASE ClearTmp
  BY <1>2 DEF ClearTmp, Cleared, observers, Promise!Lose
<1>3. CASE DownloadExe
  BY <1>3 DEF DownloadExe, Fetched, Kind, observers, Inv, TypeOK, TmpInv,
     Promise!Recover, Promise!Meddle
<1>4. CASE FindTmp \/ Validate
  BY <1>4 DEF FindTmp, Validate, MinSizeOK, files, observers
<1>5. CASE DeleteExe
  <2>1. UNCHANGED <<exeTmp, vanished, overwritten>>
    BY <1>5 DEF DeleteExe, observers
  <2>2. CASE exe' = exe
    BY <2>1, <2>2, UnseenStep
  <2>3. CASE exe' # exe
    <3>1. pc = "replace" /\ exe' = NoFile
      BY <1>5, <2>3 DEF DeleteExe
    <3>2. CASE ~FileExist(exe)
      BY <2>1, <3>1, <3>2
    <3>3. CASE FileExist(exe) /\ Big(exeTmp)
      <4>1. Untouched => exeTmp.from > exe.from
        BY <3>1, <3>3 DEF Inv, TmpInv, AgeInv, Big, TypeOK
      <4>2. Promise!Supersede
        BY <2>1, <3>1, <3>3, <4>1, <1>0 DEF Promise!Supersede, Big
      <4> QED
        BY <4>2
    <3>4. CASE FileExist(exe) /\ ~Big(exeTmp)
      <4>1. ~Untouched
        BY <3>1, <3>4 DEF Inv, TmpInv, CopyInv, Big
      <4>2. Promise!Lose
        BY <2>1, <3>1, <3>4, <4>1 DEF Promise!Lose, Big
      <4> QED
        BY <4>2
    <3> QED
      BY <3>2, <3>3, <3>4
  <2> QED
    BY <2>2, <2>3
<1>6. CASE MoveExe
  <2>1. UNCHANGED <<vanished, overwritten>>
    BY <1>6 DEF MoveExe, observers
  <2>2. CASE UNCHANGED <<exe, exeTmp>>
    BY <2>1, <2>2, UnseenStep
  <2>3. CASE ~UNCHANGED <<exe, exeTmp>>
    <3>1. pc = "move" /\ FileExist(exeTmp) /\ exe' = exeTmp /\ exeTmp' = NoFile
      BY <1>6, <2>3 DEF MoveExe
    <3>2. exe = NoFile
      BY <3>1 DEF Inv, AgeInv
    <3>3. Replacement \/ ~Untouched
      BY <3>1, <3>2 DEF Inv, TmpInv, Big
    <3>4. Promise!Install
      BY <1>0, <2>1, <3>1, <3>2, <3>3 DEF Promise!Install
    <3> QED
      BY <3>4
  <2> QED
    BY <2>2, <2>3
<1>7. CASE TmpVanishes
  BY <1>7 DEF TmpVanishes, Promise!Meddle
<1>8. CASE LateDownload
  <2>1. CASE UNCHANGED <<exeTmp, overwritten>>
    BY <1>8, <2>1, UnseenStep DEF LateDownload
  <2>2. CASE ~UNCHANGED <<exeTmp, overwritten>>
    <3>1. exe' = exe /\ overwritten' = TRUE /\ exeTmp' \in {NoFile} \cup Download
      BY <1>8, <2>2 DEF LateDownload
    <3>2. Promise!Meddle
      BY <3>1 DEF Promise!Meddle, Download
    <3> QED
      BY <3>2
  <2> QED
    BY <2>1, <2>2
<1>9. CASE WaitForMain \/ AhkClear \/ AhkDownload \/ AhkCheck \/ AhkMove \/ Relaunch
             \/ Dismiss \/ MainExits \/ UserStartsMain \/ Crash \/ UNCHANGED vars
  BY <1>9, UnseenStep DEF WaitForMain, AhkClear, AhkDownload, AhkCheck, AhkMove,
     Relaunch, Dismiss, MainExits, UserStartsMain, Crash, vars, files, observers
<1> QED
  BY <1>1, <1>2, <1>3, <1>4, <1>5, <1>6, <1>7, <1>8, <1>9 DEF Next, Step

\* The installation only moves forward, for any number of sessions and retries.
THEOREM UpdaterInstallsForward == Spec => InstallsForward
<1>1. Init => Promise!Init
  BY DEF Init, Promise!Init, FileExist, Original, Untouched
<1> QED
  BY <1>1, StepInPromise, SpecInv, PTL DEF Spec, InstallsForward, Promise!Spec
=============================================================================
