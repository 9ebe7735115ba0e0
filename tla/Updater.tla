------------------------------- MODULE Updater -------------------------------
(***************************************************************************)
(* updater.ahk: the script that the main program starts to replace itself  *)
(* by the latest release.  One action per file-system or process operation *)
(* of the script, so that a crash, a user or the main program can come     *)
(* between any two of them.  The files outlive the script: a later session *)
(* starts from what an earlier one left.                                   *)
(***************************************************************************)
EXTENDS Naturals

CONSTANTS
  WaitTries,     \* polls of the wait loop, 60 in the script
  ReplaceTries,  \* attempts of the replacement loop, 20 in the script
  MaxSessions,   \* bound of the model: how often the updater is started
  TmpMayVanish   \* environment: another program may remove the download

ASSUME UpdaterAssumption ==
  /\ WaitTries \in Nat
  /\ ReplaceTries \in Nat \ {0}
  /\ MaxSessions \in Nat
  /\ TmpMayVanish \in BOOLEAN

VARIABLES
  pc,        \* next operation of the script; "idle" when it is not running
  session,   \* number of the current (or last) run of the script
  tries,     \* iterations done in the loop the script is in
  exe,       \* the file exeDest
  exeTmp,    \* the file exeTmp
  ahk,       \* the file ahkDest
  ahkTmp,    \* the file ahkTmp
  main,      \* image of the running main program, NoFile when it is not running
  exitCode,  \* how the last session ended
  orphans,   \* downloads that go on after the session that began them was killed
  hadExe,    \* observer: exeDest existed when the session started
  vanished,  \* observer: another program removed the download since then
  overwritten  \* observer: an orphan wrote exeTmp since then

files     == <<exe, exeTmp, ahk, ahkTmp>>
observers == <<orphans, hadExe, vanished, overwritten>>
vars      == <<pc, session, tries, files, main, exitCode, observers>>

(***************************************************************************)
(* Files.  "tiny" is below MIN_EXE_BYTES (an error page, a redirect);      *)
(* "cut" is a release that lost its end and is still above it; "from" is   *)
(* the session that downloaded the file, 0 for what was installed before.  *)
(***************************************************************************)
Kind     == {"empty", "tiny", "cut", "whole"}
Download == [kind : Kind, from : 1..MaxSessions]
NoFile   == [kind |-> "none", from |-> 0]
Original == [kind |-> "whole", from |-> 0]
File     == Download \cup {NoFile, Original}

FileExist(f) == f.kind # "none"

Orphan == [dest : {"exeTmp", "ahkTmp"}, from : 1..MaxSessions]

AnySizeOK(f) == FileExist(f)  \* mutant: the size test is dropped
MinSizeOK(f) == f.kind \in {"cut", "whole"}
NonEmpty(f)  == f.kind \notin {"none", "empty"}

Init ==
  /\ pc = "idle"
  /\ session = 0
  /\ tries = 0
  /\ exe = Original
  /\ exeTmp = NoFile
  /\ ahk \in {NoFile, Original}
  /\ ahkTmp = NoFile
  /\ main = Original
  /\ exitCode = "none"
  /\ orphans = {}
  /\ hadExe = TRUE /\ vanished = FALSE /\ overwritten = FALSE

\* The main program, or a user, starts the script.
Launch ==
  /\ pc = "idle"
  /\ session < MaxSessions
  /\ pc' = "wait"
  /\ session' = session + 1
  /\ tries' = 0
  /\ exitCode' = "none"
  /\ hadExe' = FileExist(exe) /\ vanished' = FALSE /\ overwritten' = FALSE
  /\ UNCHANGED <<files, main, orphans>>

-----------------------------------------------------------------------------
(* 1. Wait for the main program.                                           *)

EXE_NAME == "InazumaMangoAW3.exe"
exeBase  == "InazumaMangoAW3"

\* AutoHotkey compares the name with the image name, extension included.
ProcessExist(name) == FileExist(main) /\ name = EXE_NAME

WaitForMain ==
  /\ pc = "wait"
  /\ IF ProcessExist(exeBase) /\ tries < WaitTries
       THEN tries' = tries + 1 /\ pc' = "wait"
       ELSE tries' = 0 /\ pc' = "clear"
  /\ UNCHANGED <<session, files, main, exitCode, observers>>

-----------------------------------------------------------------------------
(* 2. Download the program beside the installed one and check its size.    *)

\* PowerShell reports nothing to the script: the destination is left alone,
\* or holds what arrived.
Fetched(dest) == {dest} \cup [kind : Kind, from : {session}]

NotCleared(f) == f  \* mutant: the old download is left in place

\* What `if FileExist(f) FileDelete(f)` leaves when it does not throw.
Cleared(f) == NoFile

ClearTmp ==
  /\ pc = "clear"
  /\ \/ exeTmp' = Cleared(exeTmp) /\ pc' = "download"
     \/ FileExist(exeTmp) /\ pc' = "failed" /\ UNCHANGED exeTmp
  /\ UNCHANGED <<session, tries, exe, ahk, ahkTmp, main, exitCode, observers>>

DownloadExe ==
  /\ pc = "download"
  /\ \/ exeTmp' \in Fetched(exeTmp) /\ pc' = "validate"
     \/ pc' = "failed" /\ UNCHANGED exeTmp
  /\ UNCHANGED <<session, tries, exe, ahk, ahkTmp, main, exitCode, observers>>

FindTmp ==
  /\ pc = "validate"
  /\ pc' = IF FileExist(exeTmp) THEN "measure" ELSE "failed"
  /\ UNCHANGED <<session, tries, files, main, exitCode, observers>>

\* FileGetSize throws, outside any try, when the file has gone since.
Validate ==
  /\ pc = "measure"
  /\ \/ MinSizeOK(exeTmp) /\ pc' = "replace" /\ UNCHANGED exeTmp
     \/ /\ FileExist(exeTmp) /\ ~MinSizeOK(exeTmp)
        /\ pc' = "failed" /\ exeTmp' \in {NoFile, exeTmp}
     \/ ~FileExist(exeTmp) /\ pc' = "threw" /\ UNCHANGED exeTmp
  /\ UNCHANGED <<session, tries, exe, ahk, ahkTmp, main, exitCode, observers>>

-----------------------------------------------------------------------------
(* Replacement: delete, then move, with retries.                           *)

OneAttemptMore == tries = ReplaceTries  \* mutant: off by one
LastAttempt == tries + 1 = ReplaceTries

\* mutants: retry for ever; go on without testing replaceOk
RetryForever == pc' = "replace" /\ UNCHANGED tries
ProceedAnyway ==
  \/ LastAttempt /\ pc' = "ahkClear" /\ tries' = 0
  \/ ~LastAttempt /\ pc' = "replace" /\ tries' = tries + 1

\* The catch block of the loop, and the test after it.
AttemptFails ==
  \/ LastAttempt /\ pc' = "failed" /\ tries' = 0
  \/ ~LastAttempt /\ pc' = "replace" /\ tries' = tries + 1

\* Windows does not delete the image of a running process.
DeleteExe ==
  /\ pc = "replace"
  /\ \/ /\ ~FileExist(main)
        /\ exe' = NoFile
        /\ pc' = "move"
        /\ UNCHANGED tries
     \/ FileExist(exe) /\ AttemptFails /\ UNCHANGED exe
  /\ UNCHANGED <<session, exeTmp, ahk, ahkTmp, main, exitCode, observers>>

MoveExe ==
  /\ pc = "move"
  /\ \/ /\ FileExist(exeTmp)
        /\ exe' = exeTmp
        /\ exeTmp' = NoFile
        /\ pc' = "ahkClear"
        /\ tries' = 0
     \/ AttemptFails /\ UNCHANGED <<exe, exeTmp>>
  /\ UNCHANGED <<session, ahk, ahkTmp, main, exitCode, observers>>

-----------------------------------------------------------------------------
(* 3. AutoRamTrim.ahk: one try block, whose failures are swallowed.        *)

ReportAhkFailure == "failed"  \* mutant: a failure here fails the update
OnAhkFailure == "relaunch"

AhkClear ==
  /\ pc = "ahkClear"
  /\ \/ ahkTmp' = NoFile /\ pc' = "ahkDownload"
     \/ FileExist(ahkTmp) /\ pc' = OnAhkFailure /\ UNCHANGED ahkTmp
  /\ UNCHANGED <<session, tries, exe, exeTmp, ahk, main, exitCode, observers>>

AhkDownload ==
  /\ pc = "ahkDownload"
  /\ \/ ahkTmp' \in Fetched(ahkTmp) /\ pc' = "ahkCheck"
     \/ pc' = OnAhkFailure /\ UNCHANGED ahkTmp
  /\ UNCHANGED <<session, tries, exe, exeTmp, ahk, main, exitCode, observers>>

AhkCheck ==
  /\ pc = "ahkCheck"
  /\ \/ NonEmpty(ahkTmp) /\ ahk' = NoFile /\ pc' = "ahkMove" /\ UNCHANGED ahkTmp
     \/ /\ NonEmpty(ahkTmp) /\ FileExist(ahk)
        /\ pc' = OnAhkFailure /\ UNCHANGED <<ahk, ahkTmp>>
     \/ /\ ~NonEmpty(ahkTmp)
        /\ ahkTmp' \in {NoFile, ahkTmp} /\ pc' = "relaunch" /\ UNCHANGED ahk
  /\ UNCHANGED <<session, tries, exe, exeTmp, main, exitCode, observers>>

AhkMove ==
  /\ pc = "ahkMove"
  /\ \/ FileExist(ahkTmp) /\ ahk' = ahkTmp /\ ahkTmp' = NoFile /\ pc' = "relaunch"
     \/ pc' = OnAhkFailure /\ UNCHANGED <<ahk, ahkTmp>>
  /\ UNCHANGED <<session, tries, exe, exeTmp, main, exitCode, observers>>

-----------------------------------------------------------------------------
(* 4. Relaunch and exit.                                                   *)

Relaunch ==
  /\ pc = "relaunch"
  /\ \/ /\ FileExist(exe)
        /\ main' = exe
        /\ pc' = "idle"
        /\ exitCode' = "0"
     \/ pc' = "warned" /\ UNCHANGED <<main, exitCode>>
  /\ UNCHANGED <<session, tries, files, observers>>

\* The user closes the message box, or that of the error, and the script exits.
Dismiss ==
  /\ \/ pc = "failed" /\ exitCode' = "1"
     \/ pc = "threw"  /\ exitCode' = "error"
     \/ pc = "warned" /\ exitCode' = "0"
  /\ pc' = "idle"
  /\ UNCHANGED <<session, tries, files, main, observers>>

-----------------------------------------------------------------------------
(* The environment.                                                        *)

MainExits ==
  /\ FileExist(main)
  /\ main' = NoFile
  /\ UNCHANGED <<pc, session, tries, files, exitCode, observers>>

UserStartsMain ==
  /\ ~FileExist(main) /\ FileExist(exe)
  /\ main' = exe
  /\ UNCHANGED <<pc, session, tries, files, exitCode, observers>>

\* RunWait's child does not end with the script that waits for it.
Fetching == [exeTmp |-> "download", ahkTmp |-> "ahkDownload"]

LeftBehind == {o \in Orphan : o.from = session /\ pc = Fetching[o.dest]}

Crash ==
  /\ pc # "idle"
  /\ pc' = "idle"
  /\ exitCode' = "killed"
  /\ tries' = 0
  /\ orphans' \in {orphans, orphans \cup LeftBehind}
  /\ UNCHANGED <<session, files, main, hadExe, vanished, overwritten>>

\* An orphan creates its file, goes on writing it, or removes it when the connection
\* fails: at any time, also in the middle of a later session.
LateDownload ==
  /\ \E o \in orphans, f \in {NoFile} \cup Download :
       /\ f = NoFile \/ f.from = o.from
       /\ \/ /\ o.dest = "exeTmp"
             /\ exeTmp' = f /\ overwritten' = TRUE /\ UNCHANGED ahkTmp
          \/ /\ o.dest = "ahkTmp"
             /\ ahkTmp' = f /\ UNCHANGED <<exeTmp, overwritten>>
  /\ UNCHANGED <<pc, session, tries, exe, ahk, main, exitCode, orphans, hadExe, vanished>>

TmpVanishes ==
  /\ TmpMayVanish
  /\ FileExist(exeTmp)
  /\ exeTmp' = NoFile
  /\ vanished' = TRUE
  /\ UNCHANGED <<pc, session, tries, exe, ahk, ahkTmp, main, exitCode, orphans, hadExe,
                 overwritten>>

Step ==
  \/ WaitForMain \/ ClearTmp \/ DownloadExe \/ FindTmp \/ Validate
  \/ DeleteExe \/ MoveExe
  \/ AhkClear \/ AhkDownload \/ AhkCheck \/ AhkMove \/ Relaunch

Next ==
  \/ Launch \/ Step \/ Dismiss
  \/ MainExits \/ UserStartsMain \/ Crash \/ LateDownload \/ TmpVanishes

Spec     == Init /\ [][Next]_vars
\* Windows schedules the script; nothing obliges the user to close a dialog.
FairSpec == Spec /\ WF_vars(Step)
-----------------------------------------------------------------------------
(* Properties.                                                             *)

AhkSteps == {"ahkClear", "ahkDownload", "ahkCheck", "ahkMove"}

\* Types of the state, and the bound of each loop counter.
TypeOK ==
  /\ pc \in {"idle", "wait", "clear", "download", "validate", "measure", "replace",
             "move", "relaunch", "failed", "threw", "warned"} \cup AhkSteps
  /\ session \in 0..MaxSessions
  /\ tries \in 0..(IF pc = "wait" THEN WaitTries ELSE ReplaceTries - 1)
  /\ exe \in File /\ exeTmp \in File /\ main \in File
  /\ ahk \in File /\ ahkTmp \in File
  /\ exitCode \in {"none", "0", "1", "error", "killed"}
  /\ orphans \subseteq Orphan
  /\ hadExe \in BOOLEAN /\ vanished \in BOOLEAN /\ overwritten \in BOOLEAN

\* Nobody but the session has touched its download.
Untouched == ~vanished /\ ~overwritten

CheckedDownload == exeTmp.from = session /\ exeTmp.kind \in {"cut", "whole"}

\* What is installed was downloaded by the session that installs it and passed the size
\* test (62-104): no leftover of an earlier session, however that one ended, gets
\* installed when the download of this one brings nothing.  Only a download that
\* outlived the kill of its session, and writes the file later, can get past the test.
FreshInstall ==
  [][exe' # exe /\ FileExist(exe') /\ ~overwritten
       => exe'.from = session /\ exe'.kind \notin {"empty", "tiny"}]_vars

\* The installed program is deleted only once its replacement is on the disk,
\* downloaded by this session and large enough, if nobody else touched it since.
OldKeptUntilChecked ==
  [][FileExist(exe) /\ ~FileExist(exe') /\ Untouched => CheckedDownload]_vars

\* A session that finds a program installed leaves one, or its checked
\* replacement, wherever it stops: a failure, a crash, retries used up.  Only
\* somebody else who touches the download in between can prevent that.
KeepsACopy == hadExe /\ Untouched => FileExist(exe) \/ exeTmp.kind \in {"cut", "whole"}

\* Exit code 0 means that the program of this session is the installed one.
ExitZeroMeansUpdated == exitCode = "0" /\ ~overwritten => exe.from = session

\* Whoever sees the updater fail (70-73, 78-92, 110-113), or end with an error, still has
\* the program of before, or finds the new one, checked, beside where it was: a failure is
\* never reported once the new program has taken its place.
FailureMeansNotUpdated ==
  exitCode \in {"1", "error"} =>
    /\ exe.from < session
    /\ hadExe /\ Untouched => FileExist(exe) \/ CheckedDownload

\* Operations that a session may still have before it, at most.
OperationsLeft ==
  CASE pc = "wait"        -> 2 * ReplaceTries + WaitTries - tries + 11
    [] pc = "clear"       -> 2 * ReplaceTries + 10
    [] pc = "download"    -> 2 * ReplaceTries + 9
    [] pc = "validate"    -> 2 * ReplaceTries + 8
    [] pc = "measure"     -> 2 * ReplaceTries + 7
    [] pc = "replace"     -> 2 * (ReplaceTries - tries) + 6
    [] pc = "move"        -> 2 * (ReplaceTries - tries) + 5
    [] pc = "ahkClear"    -> 5
    [] pc = "ahkDownload" -> 4
    [] pc = "ahkCheck"    -> 3
    [] pc = "ahkMove"     -> 2
    [] pc = "relaunch"    -> 1
    [] OTHER              -> 0

\* No operation of the script, failing or not, and no retry (38-41, 97-112) takes a
\* session back: a session has at most 2 * ReplaceTries + WaitTries + 11 of them.
NeverGoesRound == [][Step => OperationsLeft' < OperationsLeft]_vars

\* A failure around AutoRamTrim.ahk does not stop the update of the program:
\* the script gets as far as relaunching it, unless it is killed.
AhkNeverBlocks ==
  (pc \in AhkSteps) ~> (exitCode \in {"0", "killed"} \/ pc = "warned")

\* Every session comes to its end or to a message box, also when the program
\* keeps running and the replacement fails each time.
Settles == (pc # "idle") ~> (pc \in {"idle", "failed", "threw", "warned"})

Replacement == ~FileExist(exe) /\ exeTmp.kind \in {"cut", "whole"}

Promise == INSTANCE Installation WITH
  stage   <- IF FileExist(exe) THEN "installed" ELSE IF Replacement THEN "replacing"
                                                                    ELSE "lost",
  version <- IF FileExist(exe) THEN exe.from ELSE IF Replacement THEN exeTmp.from ELSE 0,
  meddled <- ~Untouched

\* Over any number of sessions, crashes and failures the installation only moves
\* forward: a program gives way to a newer, checked one, which either takes its
\* place or is the last copy when a later session clears it away (62-113), as long as
\* nobody else touches the download.
InstallsForward == Promise!Spec

(* What the comments of the script say, and the script does not do.        *)

\* "Espera o processo principal fechar" (line 5), "ate 30s" (line 36).
WaitsForMain ==
  [][pc = "wait" /\ pc' = "clear" => ~FileExist(main) \/ tries = WaitTries]_vars

\* "rejeita [...] download incompleto" (lines 75-76).
RejectsIncomplete == exe.kind # "cut"

\* "se o download falhar, o exe atual nao e perdido" (lines 62-63).
FailureKeepsProgram == pc = "failed" => FileExist(exe) \/ FileExist(exeTmp)
=============================================================================
