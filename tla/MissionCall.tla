----------------------------- MODULE MissionCall ------------------------------
(***************************************************************************)
(* The main program's side of a movement script: it starts the script and  *)
(* polls for the signal file.  The main program (escort.py,                *)
(* alien_invasion.py) is not in the repository.  The scripts' comments say *)
(* that it calls the script and detects the file (wagon_move.ahk 7,        *)
(* 609-611).  That it removes the old file first is an assumption of this  *)
(* module that no comment states: the script itself leaves the file alone  *)
(* until it reports, so that without it a call would find the file of an   *)
(* earlier one, or the one with status=ok that the repository ships.  The  *)
(* caller may stop waiting, and call again while the last process runs.    *)
(***************************************************************************)
EXTENDS MovementScript

VARIABLES
  phase,      \* "idle", "cleared", "waiting" or "answered"
  answer,     \* what it read from the signal file
  overlapped  \* observer: the call began while the last process was running

callVars == <<vars, phase, answer, overlapped>>

CallInit == Init /\ phase = "idle" /\ answer = NoSignal /\ overlapped = FALSE

Running == pc \notin {"off", "exited"}

\* The assumed removal.  Windows does not delete a file that is being written.
BeginCall ==
  /\ phase \in {"idle", "answered"} /\ pc # "write"
  /\ phase' = "cleared"
  /\ overlapped' = Running
  /\ answer' = NoSignal
  /\ UNCHANGED <<screen, pc, step, locals, outcome, keyboard, fallback, world>>

KeepsOldSignal == BeginCall /\ UNCHANGED primary  \* mutant: the old file stays
ClearSignal    == BeginCall /\ primary' = NoSignal

StartScript ==
  /\ phase = "cleared"
  /\ phase' = "waiting"
  /\ Launch
  /\ UNCHANGED <<answer, overlapped>>

ReadSignal ==
  /\ phase = "waiting" /\ primary # NoSignal
  /\ phase' = "answered"
  /\ answer' = primary
  /\ UNCHANGED <<vars, overlapped>>

GiveUp ==
  /\ phase = "waiting"
  /\ phase' = "answered"
  /\ UNCHANGED <<vars, answer, overlapped>>

ScriptStep == Script /\ UNCHANGED <<phase, answer, overlapped>>

CallNext == ClearSignal \/ StartScript \/ ReadSignal \/ GiveUp \/ ScriptStep

CallSpec == CallInit /\ [][CallNext]_callVars

\* The main program is under no obligation to call, or to wait.
FairCallSpec == CallSpec /\ WF_vars(MainThread) /\ WF_vars(DeadlinePasses)
-----------------------------------------------------------------------------
(* Properties.                                                             *)

\* Every variable has its type, those of the script included.
CallTypeOK ==
  /\ TypeOK
  /\ phase \in {"idle", "cleared", "waiting", "answered"}
  /\ answer \in Signal \cup {NoSignal}
  /\ overlapped \in BOOLEAN

\* The answer to a call is the result that the run it started has decided on, although
\* results are files that outlive their runs and can be written late (612-630), provided
\* that the caller removes the old file before it starts the script (ClearSignal).  Only
\* a call that began while the last process was running can get that one's instead,
\* and none older.
OwnAnswer ==
  answer # NoSignal =>
    \/ answer.run = run /\ answer.result = outcome
    \/ overlapped /\ answer.run + 1 = run

\* Once the main program has a complete answer of the run it started, the script's
\* drawings are off the screen and no key is down that was not down at the start; none
\* at all of those that ReleaseSpecialKeys names, unless the run found no window
\* (604-607, 638, 652, 660): from then on the main program drives the game.
AnswerLeavesGameAlone ==
  answer.whole /\ answer.run = run =>
    /\ ~overlay /\ ~marker
    /\ held \subseteq stuck
    /\ answer.result.detail # "no_window" => held \cap ReleasedKeys = {}

\* wagon_move.ahk 609-611: the signal is written in one piece, atomically, so that
\* the reader never gets an incomplete one.
NeverIncomplete == answer # NoSignal => answer.whole
=============================================================================
