---------------------------- MODULE MovementScript ----------------------------
(***************************************************************************)
(* wagon_move.ahk and alien_wagon_move.ahk: one process at a time, started *)
(* by the main program, that steers the game's character to the wagon with *)
(* the keyboard and reports its result in a signal file.  The two scripts  *)
(* share their code and differ in the constants below (see WagonMove and   *)
(* AlienWagonMove).                                                        *)
(*                                                                         *)
(* Line numbers in the comments are those of wagon_move.ahk.               *)
(***************************************************************************)
EXTENDS ScreenFeedback, Naturals, Sequences

CONSTANTS
  Flow,          \* SpecialMovementFlow: sequence of [op, keys] steps
  ReleasedKeys,  \* keys that ReleaseSpecialKeys lets go
  MissLimit,     \* checksBeforeRotate: misses before the camera turns
  MaxAttempts,   \* pulses of one centring
  Configs,       \* contents the .ini file can have
  MaxRuns        \* bound of the model: how often the script is started

Ops  == {"zoom", "search", "center", "keys", "release"}
Keys == {"Left", "Right"} \cup UNION {Flow[i].keys : i \in DOMAIN Flow}

ASSUME MovementAssumption ==
  /\ "none" \notin Positions
  /\ Flow \in Seq([op : Ops, keys : SUBSET STRING])
  /\ {"Left", "Right"} \subseteq ReleasedKeys
  /\ MissLimit \in Nat \ {0}
  /\ MaxAttempts \in Nat
  /\ Configs \subseteq {"valid", "badColor", "badTolerance"}
  /\ MaxRuns \in Nat

VARIABLES
  pc,        \* where the main thread is
  step,      \* index in Flow of the step it is at
  attempt,   \* centring pulses done
  miss,      \* missCount
  late,      \* the search has lasted searchTimeoutMs
  searcher,  \* who called SpecialSearchUntilFound: "flow" or "center"
  searches,  \* observer: searches begun in this centring
  finder,    \* who called SpecialFindTargetColor: "search" or "center"
  seen,      \* position the last PixelSearch returned, or NoPosition
  pressing,  \* keys that the step being executed has pressed
  outcome,   \* the status and detail to write to the signal file
  config,    \* what the .ini file contained when this run read it
  run,       \* number of this run of the script
  held,      \* keys that Windows sees as down; they outlive the process
  stuck,     \* observer: keys that were down when this run started
  window,    \* a Roblox window exists
  primary,   \* the file _SignalFile
  fallback   \* the file of the same name in A_Temp

search   == <<miss, late, searcher, searches>>
locals   == <<attempt, search, finder, seen>>
keyboard == <<pressing, held>>
signals  == <<primary, fallback>>
world    == <<config, run, stuck, window>>
vars     == <<screen, pc, step, locals, outcome, keyboard, signals, world>>

Outcome  == [status : {"ok", "error"},
             detail : {"movement_complete", "movement_failed", "timeout",
                       "exception", "no_window"}]
NoResult == [status |-> "none", detail |-> "none"]
Signal   == [run : Nat, result : Outcome, whole : BOOLEAN]
NoSignal == [run |-> 0, result |-> NoResult, whole |-> FALSE]

\* wagon_done.ini and alien_wagon_done.ini, as they come with the program.
Shipped  == [run |-> 0, result |-> [status |-> "ok", detail |-> "movement_complete"],
             whole |-> TRUE]

EndPcs    == {"off", "hung", "exited"}
FlowPcs   == {"boot", "enter", "flow", "holding", "center", "aim", "tapping"}
SearchPcs == {"search", "searched", "rotating"}
FindPcs   == {"find", "reading"}
SignalPcs == {"delete", "create", "write", "fbDelete", "fbWrite"}
Pcs == EndPcs \cup FlowPcs \cup SearchPcs \cup FindPcs \cup SignalPcs
         \cup {"fail", "finish"}

Init ==
  /\ FeedbackInit
  /\ pc = "off" /\ step = 1
  /\ attempt = 0 /\ miss = 0 /\ late = FALSE
  /\ searcher = "flow" /\ finder = "search" /\ seen = NoPosition /\ searches = 0
  /\ outcome = NoResult
  /\ config \in Configs /\ run = 0
  /\ pressing = {} /\ held = {} /\ stuck = {}
  /\ window \in BOOLEAN
  /\ primary \in {NoSignal, Shipped} /\ fallback = NoSignal

\* The main program starts the script.  #SingleInstance Force ends the instance
\* that is still running, wherever it is; what it holds down stays down.
Launch ==
  /\ run < MaxRuns
  /\ run' = run + 1
  /\ FeedbackReset
  /\ pc' = "boot" /\ step' = 1
  /\ attempt' = 0 /\ miss' = 0 /\ late' = FALSE
  /\ searcher' = "flow" /\ finder' = "search" /\ seen' = NoPosition /\ searches' = 0
  /\ outcome' = NoResult
  /\ config' \in Configs
  /\ stuck' = held /\ pressing' = {}
  /\ UNCHANGED <<held, window, signals>>

-----------------------------------------------------------------------------
(* Ways for the main thread to go on, and the keyboard.                     *)

Goto(label) == pc' = label /\ UNCHANGED step

\* The flow goes to its next step.  SpecialCheckStop() throws if it was stopped.
Advance ==
  /\ pc' = IF running THEN "flow" ELSE "fail"
  /\ step' = step + 1

\* WriteSignalAndExit(status, detail), up to its first file operation.
Report(result, detail) ==
  /\ HideSpecialMarker
  /\ outcome' = [status |-> result, detail |-> detail]
  /\ Goto("delete")

KeysDown(keys) == held' = held \cup keys /\ pressing' = keys

LeaveDown == UNCHANGED held /\ pressing' = {}  \* mutant: nothing is let go
KeysUp    == held' = held \ pressing /\ pressing' = {}

ReleaseNothing     == UNCHANGED keyboard  \* mutant
ReleaseSpecialKeys == held' = held \ ReleasedKeys /\ UNCHANGED pressing

-----------------------------------------------------------------------------
(* Entry point (24-75, 635-650).                                           *)

\* Integer() throws on a malformed Tolerance: the error ends the only thread,
\* and Persistent() keeps the process.
HangOnTolerance ==
  /\ pc = "boot" /\ config = "badTolerance"
  /\ Goto("hung")
  /\ UNCHANGED <<screen, locals, outcome, keyboard, signals, world>>

RobloxNotFound ==
  /\ pc = "boot" /\ config # "badTolerance" /\ ~window
  /\ HideStatusOverlay
  /\ Report("error", "no_window")
  /\ UNCHANGED <<locals, keyboard, signals, world>>

Boot ==
  /\ pc = "boot" /\ config # "badTolerance" /\ window
  /\ StartRunning
  /\ Goto("enter")
  /\ UNCHANGED <<marks, locals, outcome, keyboard, signals, world>>

\* The flow returns false when it is not running; ActivateRoblox throws without
\* a window.
Enter ==
  /\ pc = "enter"
  /\ Goto(IF ~running THEN "finish" ELSE IF window THEN "flow" ELSE "fail")
  /\ UNCHANGED <<screen, locals, outcome, keyboard, signals, world>>

-----------------------------------------------------------------------------
(* SpecialMovementFlow: the steps of the table.                             *)

AtStep(op) == pc = "flow" /\ step \in DOMAIN Flow /\ Flow[step].op = op

ZoomOut ==
  /\ AtStep("zoom")
  /\ SetStatus
  /\ IF window THEN Advance ELSE Goto("fail")
  /\ UNCHANGED <<marks, locals, outcome, keyboard, signals, world>>

PressKeys ==
  /\ AtStep("keys")
  /\ SetStatus
  /\ KeysDown(Flow[step].keys)
  /\ Goto("holding")
  /\ UNCHANGED <<marks, locals, outcome, signals, world>>

LetKeysGo ==
  /\ pc = "holding"
  /\ KeysUp
  /\ Advance
  /\ UNCHANGED <<screen, locals, outcome, signals, world>>

ReleaseStep ==
  /\ AtStep("release")
  /\ ReleaseSpecialKeys
  /\ SetStatus
  /\ Advance
  /\ UNCHANGED <<marks, locals, outcome, signals, world>>

-----------------------------------------------------------------------------
(* SpecialSearchUntilFound.                                                *)

BeginSearch(caller) ==
  /\ searcher' = caller
  /\ searches' = IF caller = "center" THEN searches + 1 ELSE searches
  /\ miss' = 0
  /\ late' = FALSE
  /\ Goto("search")

SearchStep ==
  /\ AtStep("search")
  /\ SetStatus
  /\ BeginSearch("flow")
  /\ UNCHANGED <<marks, attempt, finder, seen, outcome, keyboard, signals, world>>

NeverTimesOut == FALSE  \* mutant
TimedOut == late

\* Head of the loop: one more look at the screen.  A search that was stopped
\* returns false, which ends the flow, or the centring and then the flow.
SearchLoop ==
  /\ pc = "search" /\ (running => ~TimedOut)
  /\ finder' = "search"
  /\ Goto(IF running THEN "find" ELSE IF searcher = "flow" THEN "finish" ELSE "fail")
  /\ UNCHANGED <<screen, attempt, search, seen, outcome, keyboard, signals, world>>

SearchTimeout ==
  /\ pc = "search" /\ running /\ TimedOut
  /\ ReleaseSpecialKeys
  /\ HideStatusOverlay
  /\ Report("error", "timeout")
  /\ UNCHANGED <<locals, signals, world>>

Found ==
  /\ pc = "searched" /\ seen # NoPosition
  /\ ShowSpecialMarker(seen)
  /\ SetStatus
  /\ IF searcher = "flow" THEN Advance ELSE Goto("aim")
  /\ UNCHANGED <<locals, outcome, keyboard, signals, world>>

\* mutant: one miss too many before the camera turns
MissTooFar ==
  /\ pc = "searched" /\ seen = NoPosition /\ miss + 1 <= MissLimit
  /\ miss' = miss + 1
  /\ SetStatus
  /\ Goto("search")
  /\ UNCHANGED <<marks, attempt, late, searcher, searches, finder, seen, outcome,
                 keyboard, signals, world>>
Miss ==
  /\ pc = "searched" /\ seen = NoPosition /\ miss + 1 < MissLimit
  /\ miss' = miss + 1
  /\ SetStatus
  /\ Goto("search")
  /\ UNCHANGED <<marks, attempt, late, searcher, searches, finder, seen, outcome,
                 keyboard, signals, world>>

\* The last miss turns the camera; the activation throws without a window.
Rotate ==
  /\ pc = "searched" /\ seen = NoPosition /\ miss + 1 >= MissLimit
  /\ HideSpecialMarker
  /\ SetStatus
  /\ \/ window /\ KeysDown({"Left"}) /\ Goto("rotating")
     \/ ~window /\ Goto("fail") /\ UNCHANGED keyboard
  /\ UNCHANGED <<locals, outcome, signals, world>>

RotateEnd ==
  /\ pc = "rotating"
  /\ KeysUp
  /\ miss' = 0
  /\ Goto("search")
  /\ UNCHANGED <<screen, attempt, late, searcher, searches, finder, seen, outcome,
                 signals, world>>

-----------------------------------------------------------------------------
(* SpecialFindTargetColor: hide everything, read the screen, show it again. *)

KeepMarker  == UNCHANGED marks  \* mutant
HideForRead == HideSpecialMarker

Find ==
  /\ pc = "find"
  /\ HideForRead
  /\ BeginScreenRead
  /\ Goto("reading")
  /\ UNCHANGED <<locals, outcome, keyboard, signals, world>>

\* PixelSearch for the colour, in RGB or BGR order, anywhere in the window; the
\* whole screen when there is none.  A malformed colour is never found.
Read ==
  /\ pc = "reading"
  /\ seen' \in IF config = "badColor" THEN {NoPosition} ELSE Positions \cup {NoPosition}
  /\ EndScreenRead
  /\ \/ finder = "search" /\ Goto("searched") /\ UNCHANGED search
     \/ finder = "center" /\ seen' # NoPosition /\ Goto("aim") /\ UNCHANGED search
     \/ finder = "center" /\ seen' = NoPosition /\ BeginSearch("center")
  /\ UNCHANGED <<marks, attempt, finder, outcome, keyboard, signals, world>>

-----------------------------------------------------------------------------
(* SpecialCenterColorWithCamera.                                           *)

CenterStep ==
  /\ AtStep("center")
  /\ SetStatus
  /\ attempt' = 0 /\ searches' = 0
  /\ Goto("center")
  /\ UNCHANGED <<marks, miss, late, searcher, finder, seen, outcome, keyboard, signals, world>>

\* mutant: the attempts are not counted
CenterForever ==
  /\ pc = "center"
  /\ finder' = "center"
  /\ Goto("find")
  /\ UNCHANGED <<screen, attempt, search, seen, outcome, keyboard, signals, world>>
\* Stopped, it returns false, which the flow ignores: its next check throws.
CenterLoop ==
  /\ pc = "center" /\ attempt < MaxAttempts
  /\ finder' = "center"
  /\ attempt' = attempt + 1
  /\ Goto(IF running THEN "find" ELSE "fail")
  /\ UNCHANGED <<screen, search, seen, outcome, keyboard, signals, world>>

\* Attempts used up: the flow ignores the result and goes on.
CenterGiveUp ==
  /\ pc = "center" /\ attempt >= MaxAttempts
  /\ SetStatus
  /\ Advance
  /\ UNCHANGED <<marks, locals, outcome, keyboard, signals, world>>

\* The position is compared with the middle of the window as it is now, which
\* need not be where it was during the read.
Aim ==
  /\ pc = "aim"
  /\ ShowSpecialMarker(seen)
  /\ SetStatus
  /\ \/ Advance /\ UNCHANGED keyboard
     \/ \E key \in {"Left", "Right"} : KeysDown({key}) /\ Goto("tapping")
  /\ UNCHANGED <<locals, outcome, signals, world>>

TapEnd ==
  /\ pc = "tapping"
  /\ KeysUp
  /\ Goto("center")
  /\ UNCHANGED <<screen, locals, outcome, signals, world>>

-----------------------------------------------------------------------------
(* End of the run (650-672) and signal file (604-630).                     *)

Fail ==
  /\ pc = "fail"
  /\ ReleaseSpecialKeys
  /\ StopRunning
  /\ Report("error", "exception")
  /\ UNCHANGED <<locals, signals, world>>

\* The flow has returned: true at its end, false if it was stopped.
Finish ==
  /\ \/ pc = "flow" /\ step = Len(Flow) + 1
     \/ pc = "finish"
  /\ ReleaseSpecialKeys
  /\ StopRunning
  /\ IF pc = "flow" THEN Report("ok", "movement_complete")
                    ELSE Report("error", "movement_failed")
  /\ UNCHANGED <<locals, signals, world>>

\* FileAppend adds to what the file contains, and a reader takes the first
\* section.  It creates the file before it writes to it.
Appended(file, whole) ==
  IF file.whole THEN file ELSE [run |-> run, result |-> outcome, whole |-> whole]

\* mutant: the file is not deleted first
AppendOnly ==
  /\ pc = "delete"
  /\ Goto("create")
  /\ UNCHANGED <<screen, locals, outcome, keyboard, signals, world>>
DeleteSignal ==
  /\ pc = "delete"
  /\ \/ primary' = NoSignal /\ Goto("create")
     \/ primary # NoSignal /\ Goto("fbDelete") /\ UNCHANGED primary
  /\ UNCHANGED <<screen, locals, outcome, keyboard, fallback, world>>

CreateSignal ==
  /\ pc = "create"
  /\ \/ primary' = Appended(primary, FALSE) /\ Goto("write")
     \/ Goto("fbDelete") /\ UNCHANGED primary
  /\ UNCHANGED <<screen, locals, outcome, keyboard, fallback, world>>

\* mutant: no ExitApp, the caller of WriteSignalAndExit goes on
WriteAndGoOn ==
  /\ pc = "write"
  /\ primary' = Appended(primary, TRUE)
  /\ Goto("finish")
  /\ UNCHANGED <<screen, locals, outcome, keyboard, fallback, world>>
WriteSignal ==
  /\ pc = "write"
  /\ \/ primary' = Appended(primary, TRUE) /\ Goto("exited")
     \/ Goto("fbDelete") /\ UNCHANGED primary
  /\ UNCHANGED <<screen, locals, outcome, keyboard, fallback, world>>

\* Nothing tells that the fallback could not be written either.
DeleteFallback ==
  /\ pc = "fbDelete"
  /\ \/ fallback' = NoSignal /\ Goto("fbWrite")
     \/ fallback # NoSignal /\ Goto("exited") /\ UNCHANGED fallback
  /\ UNCHANGED <<screen, locals, outcome, keyboard, primary, world>>

WriteFallback ==
  /\ pc = "fbWrite"
  /\ fallback' \in {fallback, Appended(fallback, FALSE), Appended(fallback, TRUE)}
  /\ Goto("exited")
  /\ UNCHANGED <<screen, locals, outcome, keyboard, primary, world>>

-----------------------------------------------------------------------------
(* The timer thread and the environment.                                   *)

MarkerThread ==
  /\ pc \notin EndPcs
  /\ AnimateSpecialMarker
  /\ UNCHANGED <<pc, step, locals, outcome, keyboard, signals, world>>

Searching == pc \in SearchPcs \/ (pc \in FindPcs /\ finder = "search")

DeadlinePasses ==
  /\ Searching /\ ~late
  /\ late' = TRUE
  /\ UNCHANGED <<screen, pc, step, attempt, miss, searcher, searches, finder, seen,
                 outcome, keyboard, signals, world>>

\* Roblox is opened, or closes.
WindowChanges ==
  /\ window' = ~window
  /\ UNCHANGED <<screen, pc, step, locals, outcome, keyboard, signals, config, run,
                 stuck>>

\* Somebody ends the process: from its tray icon, or the main program.
Killed ==
  /\ pc \notin {"off", "exited"}
  /\ Goto("exited")
  /\ FeedbackReset
  /\ UNCHANGED <<locals, outcome, keyboard, signals, world>>

FlowStep   == HangOnTolerance \/ RobloxNotFound \/ Boot \/ Enter \/ ZoomOut
                \/ PressKeys \/ LetKeysGo \/ ReleaseStep \/ Fail \/ Finish
SearchPart == SearchStep \/ SearchLoop \/ SearchTimeout \/ Found \/ Miss \/ Rotate
                \/ RotateEnd \/ Find \/ Read
CenterPart == CenterStep \/ CenterLoop \/ CenterGiveUp \/ Aim \/ TapEnd
SignalPart == DeleteSignal \/ CreateSignal \/ WriteSignal \/ DeleteFallback
                \/ WriteFallback

MainThread == FlowStep \/ SearchPart \/ CenterPart \/ SignalPart
Script     == MainThread \/ MarkerThread \/ DeadlinePasses \/ WindowChanges \/ Killed
Next       == Launch \/ Script

Spec == Init /\ [][Next]_vars

\* The script keeps executing, and the clock keeps running.
FairSpec == Spec /\ WF_vars(MainThread) /\ WF_vars(DeadlinePasses)
-----------------------------------------------------------------------------
(* Properties.                                                             *)

\* Every variable has its type (42-75).
TypeOK ==
  /\ FeedbackTypeOK
  /\ pc \in Pcs /\ step \in 1..(Len(Flow) + 1)
  /\ attempt \in 0..MaxAttempts /\ miss \in 0..(MissLimit - 1) /\ late \in BOOLEAN
  /\ searches \in Nat
  /\ searcher \in {"flow", "center"} /\ finder \in {"search", "center"}
  /\ seen \in Positions \cup {NoPosition}
  /\ outcome \in Outcome \cup {NoResult}
  /\ config \in Configs /\ run \in 0..MaxRuns
  /\ held \subseteq Keys /\ stuck \subseteq Keys /\ pressing \subseteq Keys
  /\ window \in BOOLEAN
  /\ primary \in Signal \cup {NoSignal} /\ fallback \in Signal \cup {NoSignal}

\* The screen is never read while the script's own overlay or marker is on it,
\* whatever the timer thread does meanwhile (144-160, 326-377): the marker is
\* drawn over the colour that is searched.
ScreenReadClean == pc = "reading" => ~overlay /\ ~marker

\* A centring begins at most one search per pulse, however often it loses the colour
\* (437-456, 494-503): as each search has two minutes of its own, this is what bounds
\* the time a run may take, and the timeout its caller has to allow.
OneSearchPerPulse == searches <= attempt

\* While the screen is read no key of this run is down, so that the camera stands
\* still (402-414, 476-479): only one left down by a killed instance can be.
ReadsWithKeysUp == pc \in FindPcs => held \subseteq stuck

\* A run that reports leaves no key down that was not down when it started, the
\* ones that ReleaseSpecialKeys does not name included, like the "f" of
\* alien_wagon_move.ahk (402-414; alien 474-494).
LeavesNoKeyDown == pc \in SignalPcs => held \subseteq stuck

\* However it ends, a run that found the window lets go of every key that
\* ReleaseSpecialKeys names before it reports, including those that a killed
\* instance left down (452, 652, 660): the main program drives the game next.
KeysUpAtSignal ==
  pc \in SignalPcs /\ outcome.detail # "no_window" => held \cap ReleasedKeys = {}

\* The overlay and the marker are off the screen before the signal file exists
\* (604-607): the main program reads the same screen next.
ScreenCleanAtSignal == pc \in SignalPcs => ~overlay /\ ~marker /\ ~timer

\* What is in the signal file when it is written is this run's, not an earlier
\* one's to which it was appended (616-618).
SignalIsOurs == pc = "write" => primary.run = run

\* The flow is never stopped from inside (383-392, 641-644): no run ends with
\* "movement_failed".
NeverStopsItself == outcome.detail # "movement_failed"

Promise == INSTANCE MovementPromise WITH
  Results    <- Outcome,
  NotDecided <- NoResult,
  result     <- outcome,
  stage      <- CASE pc = "off" -> "idle"
                  [] pc = "exited" -> "over"
                  [] pc \in SignalPcs -> "reporting"
                  [] OTHER -> "working"

\* The script is what MovementPromise promises (604-672): one result per run,
\* decided on every path through searches, centrings and errors, and not revised
\* while or after it is reported.
KeepsPromise == Promise!FairSpec

\* ... its safety part, which needs no fairness.
StaysInPromise == Promise!Spec

(* How far a run is from its end: its stage, the steps of its flow, the pulses of a *)
(* centring, and what is left to do in a pulse or in a round of the search.         *)
StageLeft ==
  CASE pc = "boot"               -> 9
    [] pc = "enter"              -> 8
    [] pc \in {"fail", "finish"} -> 6
    [] pc = "delete"             -> 5
    [] pc = "create"             -> 4
    [] pc = "write"              -> 3
    [] pc = "fbDelete"           -> 2
    [] pc = "fbWrite"            -> 1
    [] pc \in EndPcs             -> 0
    [] OTHER                     -> 7

StepsLeft  == Len(Flow) + 1 - step
PulsesLeft == IF pc = "flow" THEN MaxAttempts + 1 ELSE MaxAttempts - attempt

PulseLeft ==
  CASE pc = "find" /\ finder = "center"    -> 10
    [] pc = "reading" /\ finder = "center" -> 9
    [] pc = "find"                         -> 8
    [] pc = "reading"                      -> 7
    [] pc = "searched"                     -> 6
    [] pc = "rotating"                     -> 5
    [] pc = "search"                       -> 4
    [] pc = "aim"                          -> 3
    [] pc = "tapping"                      -> 2
    [] pc = "center"                       -> 1
    [] OTHER                               -> 0

\* The step makes the first of the four that changes smaller.
Nearer ==
  \/ StageLeft' < StageLeft
  \/ /\ StageLeft' = StageLeft
     /\ \/ StepsLeft' < StepsLeft
        \/ /\ StepsLeft' = StepsLeft
           /\ \/ PulsesLeft' < PulsesLeft
              \/ PulsesLeft' = PulsesLeft /\ PulseLeft' < PulseLeft

\* Every operation of the main thread brings the run nearer to its end, except another
\* round of a search whose deadline has not passed (437-499): nothing else, no key, no
\* pulse, no error and no retry of the signal file, can make a run go round.
NearsEnd == [][MainThread /\ (pc = "search" => late) => Nearer]_vars

\* A run that was started ends, with its process (444-456, 493, 604-630; the
\* header's last step, 22).
EventuallyEnds == pc = "boot" ~> pc = "exited"
=============================================================================
