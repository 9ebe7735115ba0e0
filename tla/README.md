# Inazuma Mango AW3 in TLA+

The repository holds an automation suite for a Roblox game: a Python main program, shipped as an
executable, and AutoHotkey v2 scripts around it. This directory models the scripts, the only logic
whose source is in the repository, checks the models with TLC and proves their main safety
properties with TLAPS. Paths below are relative to `src/`; a number after a file is a line.

## 1. Inventory

| Component | Source | State it keeps | Operations |
|---|---|---|---|
| Updater | `updater.ahk` | four files: program, program's `.tmp`, trimmer, trimmer's `.tmp` | wait for the main program, download, check the size, delete and move with retries, the same for `AutoRamTrim.ahk`, relaunch |
| Wagon movement script | `detections/wagon_move.ahk` | `Running`, `StatusOverlaySuppressed`, overlay, marker and its timer, keys held, signal file | zoom, search, centre, walk and jump, report, exit |
| Alien wagon movement script | `detections/alien_wagon_move.ahk` | the same, and the last position found | the same with another flow, a double-key walk, a search near the last position |
| Status overlay placement | both scripts, `PositionStatusOverlay` | place of the overlay | place it relative to the window |
| RAM trimmer | `AutoRamTrim.ahk` | timer and its period, two ini files | schedule, list windows, test the session, open, measure, empty, measure, close, write |
| Main program's side of a call | comments of the movement scripts | signal file, what it read | clear, start, poll, give up |
| Main program | `InazumaMangoAW3.exe` | unknown | the file is a git-lfs pointer and no Python source is in the repository |
| Template database | `detections/detections.db` | images | data only |
| Pixel and colour arithmetic | both scripts | none | `RGBtoBGR`, `NormalizeHex`, `SpecialColorNear` |
| `Gdip_All.ahk`, `OCR.ahk`, `paddle_runtime/` | | | third party; of the first only start-up and shutdown are called, the second is never called |

How they interact:

    main program --starts--> wagon_move.ahk / alien_wagon_move.ahk --keyboard, screen--> Roblox
         ^                        |
         +---- polls wagon_done.ini, alien_wagon_done.ini
    main program --starts, exits--> updater.ahk --replaces, restarts--> main program
    main program's GUI --ram_trim_config.ini--> AutoRamTrim.ahk --ram_trim_result.ini--> GUI
                                                     +--OpenProcess, EmptyWorkingSet--> Roblox

Everything passes through resources that outlive the processes: files, the keyboard state that
Windows keeps, the screen. Nothing locks any of them. What is hard, and what makes each part
right:

* **Updater.** Files survive a kill, so a session starts from what another left, and so does the
  PowerShell that a killed session was waiting for. The installed program is deleted before the new
  one is moved. Downloads fail in silence. Right means: a copy of the program always survives, only
  what this session downloaded and checked gets installed, exit code 0 means updated, a reported
  failure means that the program of before is there or the new one beside its place, a failure
  around `AutoRamTrim.ahk` stops nothing, and the script settles.
* **Movement scripts.** A timer thread animates the marker and interrupts the main thread between
  any two statements. The script reads the pixels it draws over. Keys that are down stay down when
  the process is killed. Any activation of the window can throw. The result goes to a file that an
  earlier run wrote, or that came with the program. Right means: nothing of the script's own is on
  the screen when it reads it or when it reports, all keys are up by then, the result is this
  run's and only one, and the run ends.
* **Overlay and search region.** Three choices of place with tests at the edges of the screen;
  a rectangle of now around a position of a moment ago. Right means: beside the window whenever
  there is room, and readable; found in the window, and near the position that was followed.
* **Trimmer.** Windows, processes and identifiers come and go between the system calls of a cycle,
  and an error drops the rest of the cycle. Right means: the timer survives every error, handles
  are closed, no other session's processes are touched, an edited interval takes effect.

`PROJECT.json` lists each hazard at its line, with the properties that cover it, or the reason why
none does.

## 2. Modules

| Module | What it is |
|---|---|
| `Updater` | `updater.ahk` and its environment |
| `Installation` | abstract specification of it: a program only gives way to a newer, checked one |
| `ScreenFeedback` | overlay, marker and timer thread of the movement scripts, as operators |
| `MovementScript` | both movement scripts; the flow and the released keys are CONSTANTS |
| `WagonMove`, `AlienWagonMove` | the flow and the keys of each script |
| `MovementPromise` | abstract specification: one run, one result, never revised |
| `MissionCall` | caller and script together; `MCMissionCall` runs it with the alien flow |
| `GameWindow` | the window's rectangle as `GetRobloxClientRect` sees it, and the user who changes it |
| `OverlayPlacement` | `PositionStatusOverlay`, in pixels |
| `ColourSearch` | `SpecialFindTargetColor` of the alien script with its region of interest, in pixels |
| `GameScreen` | the two beside each other on one window; `MCGameScreen` has the windows to try |
| `AutoRamTrim` | the trimmer, its timer, Windows' processes and windows |
| `*_proofs` | theorems and proofs of the module they are named after; `Flows_proofs` is about `WagonMove` and `AlienWagonMove` |

A property carries the line numbers of the code it is about; those of `MovementScript` and
`ScreenFeedback`, and of `OverlayPlacement`, are of `wagon_move.ahk`. A definition marked `mutant`
is not part of a model: it is a plausible mistake in the definition next to it, which a run must
then detect (`mutants` in `PROJECT.json`).

### Updater

One action per file-system or process operation; `pc` is the next one. A file is a record of what
it contains (`empty`, `tiny` for an error page, `cut` for a truncated release above 1 MB, `whole`)
and which session downloaded it; 0 is the original. `Fetched` says what can be in the destination
after PowerShell, which reports nothing: what was there, or any content. A deletion or a move can
always fail; a deletion of the program must fail while the main program runs. The environment can
start and end the main program, kill the updater anywhere (`Crash`) and, with `TmpMayVanish`,
remove the download (an anti-virus does). A download that is gone between the test whether it is
there (`FindTmp`) and `FileGetSize` (`Validate`) is an error outside any `try`: a dialog, then the
end (`threw`). `ProcessExist` compares names as Windows does, extension included. The pauses are no
state of the model.

`RunWait` starts PowerShell and waits; a kill of the script leaves PowerShell running. Such a
download is in `orphans`, from a `Crash` at a download on, and `LateDownload` lets it create,
write or remove its file at any time, again and again, also during later sessions. When it stops
is left open. `hadExe`, `vanished` and `overwritten` are observers: a program was installed when
the session began; another program has removed the download since; an orphan has written it since.

`Installation` is what the user may expect of all sessions together: the program is installed,
or being replaced by a newer one that was checked, or lost, and it is lost only while it was being
replaced, or when somebody meddled. The mapping reads `stage` and `version` off the two files, and
`meddled` is `vanished` or `overwritten`: then the replacement may become an older program, or any
file, or none, but nobody except the updater touches what is installed. That `Lose` is a step of it
at all is the finding `updater_lost`.

### Movement scripts

`pc` is where the main thread is, `step` the index in `Flow`. One action stands for what runs
between two points where time passes or another actor matters: a key that goes down and its
release are two actions, because a kill between them leaves the key down; hiding and reading the
screen are two, because the timer thread runs between them; deleting, creating and writing the
signal file are three. `held` is what Windows sees as down; it survives `Launch` and `Killed`.
`stuck` is an observer: what was down when the run began. The screen position of a colour is a
value of `Positions`; PixelSearch returns any of them or none, so window moves, occlusion and
other players are all included. `late` is the two-minute deadline of a search: it may pass at any
moment of the search, and tests of it come where the code has them. The position-dependent outcome
of `Aim` (centred, turn left, turn right) is a free choice, for the same reason. `config` is what
the ini file holds: valid, a colour that is not one, a tolerance that is not a number. `primary`
starts empty or with the result that the repository ships (`wagon_done.ini`, `status=ok`).

The wagon flow and the alien flow are sequences of steps in the order of `SpecialMovementFlow` of
each script. Both search with `SpecialSearchUntilFound`; the alien one looks first in a region
around the last position, if that is at most 600 ms old (341-364), and then in the whole window.
What the region can return, any search can: `MovementScript` abstracts the region away, and
`ColourSearch` models it. The slow scan is unreachable: every call is a fast one.

`searches` is an observer: the searches that the current centring has begun. Each has two minutes
of its own, so that it bounds, with the pulses, how long a run can take.

### Call

`MissionCall` adds the caller. `escort.py` and `alien_invasion.py` are in the executable; the
scripts' comments say that it calls the script and that it detects the file
(`detections/wagon_move.ahk` 7, 609-611), which is `StartScript` and `ReadSignal`. That it removes
the old file before it starts the script (`ClearSignal`) is an assumption: no comment says so. The
script does not touch the file before it reports, and the repository ships one with `status=ok`,
so that a caller without it would take an earlier result for the new one (the mutant
`KeepsOldSignal` shows that). `OwnAnswer`, and its theorem, rest on this assumption; the other
properties do not. The caller may stop waiting at any time, and call again while the process of
the last call is still running: `ClearSignal` then races with that process's own operations on the
file, up to the moment in which `#SingleInstance Force` ends it. The one thing it cannot do is to
delete the file while the script is writing it (`pc = "write"`), which Windows refuses.
`overlapped` is an observer: the call began while a process was running. `OwnAnswer` says what
such a call can get instead of its own run's result: that of the run just before, and nothing
older. The map marks the caller's definitions as external.

### Overlay and search region

`GameWindow` holds the rectangle; the user changes it between any two steps of the script. In
`OverlayPlacement`, `TopOf` and `LeftOf` are the arithmetic of 105-121 over integers. `shownAt`
remembers the rectangle the function was given, since the window moves on afterwards.

In `ColourSearch`, `FindNear` and `FindAnywhere` are the two ways in which one call of
`SpecialFindTargetColor` finds the colour; a call that finds nothing changes nothing. The rectangle
is read anew in each call, `lastX` and `lastY` are of an earlier one. `From` and `To` clip the
region as 346-349 do. `PixelSearch` searches between two corners in whichever order they come,
which is what makes crossed limits dangerous instead of empty. `recent` is the age of the
position, up to 600 ms, after which it is not used (`Outdated`). `settled` is an observer: the
window has not changed since it was searched as a whole. Reading the rectangle and searching it is
one action: nothing the script does lies between the two. RGB and BGR order are searched alike.

### Trimmer

One action per system call of a cycle. `handle` is the session of the process behind `hProcess`,
so that a property can compare it with the session that was tested. `total` and `result` are in
units of working set, not bytes. `Wrap` is two's complement of `WordSize`. An AutoHotkey error in
a timer thread ends that thread and shows a dialog; the next tick waits for it (`Dismiss`).
Identifiers of dead processes are given away again, except while a handle keeps the process.
`reused` is an observer: that has happened to the tested identifier between `CheckSession` and
`OpenProcess`.

## 3. Runs

| Run | Shows |
|---|---|
| `updater_sessions` | `KeepsACopy`, `OldKeptUntilChecked`, `FreshInstall`, `ExitZeroMeansUpdated`, `FailureMeansNotUpdated`, `NeverGoesRound`, `InstallsForward` (refinement of `Installation`), `Settles`, `AhkNeverBlocks`: sessions that are killed, fail, use up their retries, lose their download to another program, or have it overwritten by that of a killed session |
| `updater_wait` | violation: the wait loop does not wait (section 5) |
| `updater_incomplete` | violation: a truncated download is installed |
| `updater_lost` | violation: two sessions leave no program |
| `wagon_screen` | `ScreenReadClean`, `MarkerSettled`, `ScreenCleanAtSignal`, `KeysUpAtSignal`, `ReadsWithKeysUp`, `SignalIsOurs`, `NeverStopsItself`, `OneSearchPerPulse`, `NearsEnd`, on the complete wagon flow, two runs, a malformed tolerance included |
| `wagon_promise` | `KeepsPromise` (refinement of `MovementPromise`, liveness included) and `EventuallyEnds`, a malformed colour included |
| `wagon_hangs` | violation: a malformed tolerance leaves a process that never ends |
| `call_answers` | `OwnAnswer`, `AnswerLeavesGameAlone`, `LeavesNoKeyDown`, `EventuallyEnds`, on the alien flow, three calls that may overlap |
| `call_incomplete` | violation: a poll can find an incomplete signal file |
| `screen_geometry` | `BesideWhenRoom`, `StatusVisible`, `FollowsInWindow`, `NearWhenSettled`, with a window that opens, closes, moves and changes its size between any two steps |
| `screen_region` | violation: after such a change the colour is found far from where it was, outside the window |
| `trim_cycle` | `TimerStaysArmed`, `NoHandleLeaks`, `SessionIsolation`, `IntervalTakesEffect`, `NearsItsEnd`, `CycleEnds` |

Bounds, and why they are enough:

* `MaxSessions` = 3 (2 in the violations), `MaxRuns` = 2: what survives a process is the files and
  the keyboard, and whatever one run can leave, the next one starts from. A third session of the
  updater meets the program that the second one installed. `call_answers` has `MaxRuns` = 3, so
  that a call that overlaps the last one is followed by one that does not, and an answer could be
  two runs old. The theorems hold for any number.
* `WaitTries` = 2, `ReplaceTries` = 2 or 3 (60 and 20 in the code): first, middle and last attempt
  are different cases, more of them are not.
* `MissLimit` = 5, as in the code, and `MaxAttempts` = 3 (40 and 80 in the code) in `wagon_screen`;
  2 and 2 where liveness is checked: a miss that turns the camera and one that does not; a first, a
  middle and a last pulse. Two `Positions`: the marker can have to move. `call_answers`, which is
  about files and processes, has one position and one pulse.
* `GameScreen` uses the real screen of 1920 x 1080, windows one pixel before, at and after each
  limit of the overlay's tests and partly outside the screen, the real margin of 60, and pixels in
  the window, just outside it and exactly a margin away, and far away.
* `AutoRamTrim` uses `Minute` = 2, limits 4 and 30, a word of 128: of the intervals 1, 6, 20 and 40
  one is below the lower limit, one is inside, one is above the upper limit, and one wraps around
  to a negative period. Two windows and two processes: one process with both, each with one, one of
  another session.

`CHECK_DEADLOCK FALSE` is set for the updater only: after `MaxSessions` with everything closed
nothing is left to happen. All other runs check for deadlock.

**Fairness.** `Updater`: weak fairness of the script's own steps. Closing a message box, starting
a session or closing the main program is nobody's obligation, and `Settles` therefore ends at the
box. `MovementScript`: weak fairness of the main thread, whose every wait is a bounded `Sleep`,
and of `DeadlinePasses`, which is the clock (`A_TickCount`) that runs on. A colour that appears, a
window that stays, a kill: none of these is assumed. `MissionCall`: the same, and no obligation of
the caller. `AutoRamTrim`: weak fairness of boot, timer and cycle; nobody has to close a dialog,
and `IntervalTakesEffect` says so. `MovementPromise!FairSpec` is what a caller may rely on, and
follows from the script's fairness.

## 4. Proofs

The theorems hold for all values of the constants that the `ASSUME`s admit: any number of retries,
sessions and runs, any flow, any positions, any screen, any ini values. Their assumptions are
`UpdaterAssumption`, `MovementAssumption`, `WindowAssumption`, `SearchAssumption` and
`TrimAssumption`, which TLC evaluates in the runs.

* **`Updater_proofs`**: `UpdaterTypes`, `UpdaterKeepsACopy`, `UpdaterFreshInstall`,
  `UpdaterExitZero`, `UpdaterFailure`, `UpdaterOldKept`, `UpdaterNeverGoesRound`,
  `UpdaterNeverWaits`, `UpdaterInstallsForward`. The inductive invariant is `TypeOK` with five
  parts: what the `.tmp` file can be at each `pc`, unless an orphan wrote it (`TmpInv`), where the
  installed program must be this session's (`ExeInv`), where a copy is, unless somebody else
  touched the download (`CopyInv`), where the installed program must be an earlier session's
  (`AgeInv`), and that no orphan is of a later session (`OrphanInv`). `KeepsACopy` alone is not
  inductive: that deleting the program is harmless depends on the size test two steps earlier and
  on nobody touching the download since. For the refinement, each step maps to a step of
  `Installation` or a stutter; `AgeInv` is what makes the replacement newer, and a reported
  failure mean that nothing was replaced. `UpdaterNeverGoesRound` bounds the operations of a
  session by `2 * ReplaceTries + WaitTries + 11`, however they fail. `UpdaterNeverWaits` is the
  cause of the first divergence of section 5: no limit makes the wait loop poll a second time.
* **`MovementScript_proofs`**: `MovementTypes`, `CleanScreenReads`, `MarkerIsSettled`,
  `CleanScreenAtSignal`, `KeysAreUpAtSignal`, `ReadsHaveKeysUp`, `NoKeyIsLeftDown`,
  `SignalIsOfThisRun`, `NothingStopsTheFlow`, `SearchesAreBounded`, `OnlyUnnamedStayDown`,
  `RunNearsEnd` and `MovementKeepsPromise`.
  The type invariant is split into control, counters, drawings, keys and results, since each
  action disturbs few of them (`ControlInv`, `CountInv`, `DrawInv`, `KeyInv`, `ResultInv`).
  `SettledInv` adds to `MarkerSettled` that no marker exists between hiding it and the next
  position; `OwnKeysInv` says that a key that is down is pressed by the current step or was down
  before the run, and at which `pc` a step presses keys; `AppendInv` follows the signal file
  through delete, create and write; `RunningInv` says where `Running` is true, from which a
  stopped flow is unreachable; `PulseInv` that a pulse which still looks for the colour has not
  begun its search. `MovementKeepsPromise` proves the safety part of the refinement: each step
  maps to a step of `MovementPromise` or a stutter.
  `RunNearsEnd` gives a run a measure of four natural numbers (stage, steps of the flow, pulses of
  the centring, what is left of the pulse) and shows that each operation of the main thread makes
  the first one that changes smaller, save another round of a search before its deadline.
* **`Flows_proofs`**: what `OnlyUnnamedStayDown` and `NoKeyIsLeftDown` mean for the two flows that
  there are. `WagonHoldsNothing`: `wagon_move.ahk` reports with no key down at all, also after
  instances that were killed while they held some. `AlienHoldsAtMostF`: `alien_wagon_move.ahk` can
  report with the `f` down that its release list does not name, but only one that was down when the
  run started. Both are for runs that found a window.
* **`MissionCall_proofs`**: `CallsKeepScript`, `CallsKeepPromise`, `CallTypes`, `AnswersAreOwn` and
  `AnswersLeaveGameAlone`, for the composition of caller and script. A caller's `ClearSignal` is a
  step that `MovementScript` does not know, so the script's theorems do not carry over by
  themselves. `ScriptInv` collects its invariants; `ScriptKeepsInv` takes their preservation by the
  script's steps from `MovementScript_proofs`, and `ClearKeepsInv` adds the step of the caller,
  which is where the guard `pc # "write"` is needed. Then `CallsKeepScript` and `CallsKeepPromise`
  follow. `CallInv` relates the caller's phase to the file: which runs a file found now, or the
  answer, can be of (`Acceptable`), and that a complete file of the current run (`Latest`) was
  written by a process that has ended and let go of screen and keyboard (`Quiet`, `LeftAlone`). Its
  proof goes through what a script's step can do to the file at all (`SignalWrites`).
* **`OverlayPlacement_proofs`**: `OverlayIsBeside`, `OverlayIsVisible`, for every screen. The
  invariant `PlaceInv` is the two properties with the types they need; only
  `PositionStatusOverlay` changes what they speak of, and the rest is linear arithmetic.
* **`ColourSearch_proofs`**: `SearchFollowsInWindow`, `SearchStaysNear`, for every screen, window
  and margin. The lemma `RegionBounds` says that the part in the window of an interval around a
  place in the window has uncrossed ends and is near the place.
* **`GameScreen_proofs`**: `ScreenIsBoth`, the composition implements both parts, and
  `ScreenIsKept`, their properties hold of it.
* **`AutoRamTrim_proofs`**: `TrimTimerStaysArmed` (for every content of the ini file and every
  word size), `TrimClosesHandles`, `TrimIsolatesSessions`, `TrimTypes` and `TrimNearsItsEnd`.
  `HandleInv` ties the open handle to `pc`, and the tested session to the process that will be
  opened, unless its identifier was `reused`: `SessionIsolation` is not inductive, since the
  process can end, and another start, after the test. `DataInv` has the types of what the loop
  computes. `TrimNearsItsEnd` bounds a cycle by eight steps for each window, with the cardinality
  of the list as the measure.

Only model-checked, because liveness is out of the prover's reach: `Settles`, `AhkNeverBlocks`,
`EventuallyEnds`, `IntervalTakesEffect`, `CycleEnds`, and the liveness part of `KeepsPromise`.
Every invariant and every other action property of the runs has a theorem. Three of these theorems
are the part of termination that needs no fairness: `UpdaterNeverGoesRound`, `RunNearsEnd` and
`TrimNearsItsEnd` say that a session, a run and a cycle cannot go round, for any number of
retries, steps and windows. That the next step is taken, and that a search's deadline passes, is
fairness. That the two flows are sequences of steps whose keys are strings (`MovementAssumption`)
is left to TLC too: the provers do not know that a literal is in `STRING`.

## 5. Where the code differs from what it says

With a run:

1. `updater.ahk` 39: `ProcessExist` is asked for the name without `.exe`, which no process has;
   the loop leaves at its first poll (`updater_wait`). The retries of the replacement cover a
   program that closes soon.
2. `updater.ahk` 83: only downloads below 1 MB are recognised as incomplete
   (`updater_incomplete`).
3. `updater.ahk` 68: a session killed between delete and move leaves the program in `.tmp` only;
   the next one deletes that before it downloads (`updater_lost`).
4. `detections/wagon_move.ahk` 65: a `Tolerance` that is not a number ends the only thread of a
   persistent process (`wagon_hangs`).
5. `detections/wagon_move.ahk` 618: the signal file exists before it has its contents, although
   609 calls the write atomic (`call_incomplete`).
6. `detections/alien_wagon_move.ahk` 346: the region around the last position is not a region
   around it when the window has changed since: its limits cross, and the colour can be found
   outside the window, although 318 says it is looked for near the position (`screen_region`).

Read off the source while modelling, without a run of their own: the replacement is two operations
and not atomic (`updater.ahk` 94); an overlay with no room above or below the window is shown over
it, although `wagon_move.ahk` 78 says it is outside; `alien_wagon_move.ahk` 717 zooms out before
the search, although 18 and 508 say it does not; a process identifier given away between session
test and `OpenProcess` makes `AutoRamTrim.ahk` 56 open another session's process, although 33-36
promise isolation (`SessionIsolation` names this as the only way); a download that outlives its
killed session can put another file in `.tmp` after the size test of the next one, which
`updater.ahk` 75 says rejects such a file (`FreshInstall` excepts it); and the smooth movement of
the marker that `wagon_move.ahk` 203-207 describes never moves anything, since each read hides the
marker and creates it anew at its target (`MarkerSettled`).

## 6. Not modelled

* The main program (`InazumaMangoAW3.exe`) and `detections.db`: the repository has a git-lfs
  pointer and data, and no source. The caller is therefore only what the scripts' comments say of
  it, and the assumption on `ClearSignal` (section 2).
* Third-party code: `Gdip_All.ahk`, `OCR.ahk`, and `paddle_runtime/`. Every `.py` file of the
  repository, more than nine thousand, is in `paddle_runtime/` and belongs to a published package
  (`paddleocr`, `numpy`, `scipy`, `pandas`, `tifffile` and the like); none is this program's own.
  Nothing in the repository's own code calls it: the executable does. The share of Python lines
  that these modules cover is therefore zero, and covering any would model other projects.
* `RGBtoBGR`, `NormalizeHex`, `SpecialColorNear`: stateless conversions of one line each, for which
  a reference definition would be the same line. What depends on them, whether a search can find
  anything, is a choice of the model.
* Functions that no call reaches: `SpecialCycleCenter`, `SpecialCheckColorVisible`, the slow scan.
* Texts of the overlay, frame arithmetic of the marker's animation (kept: whether it has arrived),
  real time (kept: whether a deadline has passed), sound.
* A result file of the trimmer that is older than the last cycle: nothing in the repository says
  what its reader makes of it.
* How exact that result is. A process with two windows is emptied and counted twice in a cycle,
  and one that ends between the two readings counts its whole memory as saved (`AutoRamTrim.ahk`
  47, 72); nothing in the repository says what the figure promises, so that no property does
  either.

What could follow with more of the source: the caller's handling of time-outs, of the fallback
file and of an answer that an overlapped call got from the run before, against the same
`MovementPromise`.
