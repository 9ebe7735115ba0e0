----------------------------- MODULE AutoRamTrim ------------------------------
(***************************************************************************)
(* AutoRamTrim.ahk: a timer thread that empties the working set of the     *)
(* game's processes every few minutes.  Processes and windows come and go, *)
(* and the main program's GUI edits the interval, between any two system   *)
(* calls of a cycle.  A cycle is not interrupted by the next one: the      *)
(* timer does not start a thread while its last one is unfinished.         *)
(***************************************************************************)
EXTENDS Integers, FiniteSets

CONSTANTS
  Windows,     \* handles of the windows of RobloxPlayerBeta.exe
  Pids,        \* process identifiers
  IniValues,   \* numbers that IntervalMinutes can hold
  Malformed,   \* what it holds when Integer() throws
  Minute,      \* 60000
  MinPeriod,   \* 120000
  MaxPeriod,   \* 900000
  WordSize,    \* 2^64: AutoHotkey's integers wrap around
  MaxSize      \* bound of the model: largest working set

ASSUME TrimAssumption ==
  /\ IsFiniteSet(Windows)
  /\ IniValues \subseteq Int /\ IniValues # {} /\ Malformed \notin Int
  /\ Minute \in Nat \ {0} /\ MinPeriod \in Nat \ {0} /\ MaxPeriod \in Nat
  /\ MinPeriod <= MaxPeriod
  /\ WordSize \in Nat \ {0}
  /\ MaxSize \in Nat

VARIABLES
  pc,       \* "idle" while no thread runs; "dialog" while an error is shown
  period,   \* period of the timer, 0 when there is none
  config,   \* IntervalMinutes in ram_trim_config.ini
  todo,     \* windows of robloxList that the loop has not reached
  pid,      \* process of the current window, 0 before WinGetPID
  handle,   \* session of the process that hProcess refers to, or "none"
  before,   \* wssBefore
  total,    \* totalSavedBytes
  result,   \* SavedMB in ram_trim_result.ini
  owner,    \* process of each window, 0 when the window does not exist
  session,  \* of each process: "own", "other", or "unused", "dead"
  reused    \* observer: the identifier in pid went to a new process after the
            \* session test, before OpenProcess

timer == <<period, config>>
loop  == <<todo, pid, handle, before>>
sums  == <<total, result>>
world == <<owner, session, reused>>
vars  == <<pc, timer, loop, sums, world>>

NoPid == 0
Alive(p) == session[p] \in {"own", "other"}

Init ==
  /\ pc = "boot"
  /\ period = 0 /\ config \in IniValues \cup {Malformed}
  /\ todo = {} /\ pid = NoPid /\ handle = "none" /\ before = 0
  /\ total = 0 /\ result = 0
  /\ owner = [w \in Windows |-> NoPid]
  /\ session = [p \in Pids |-> "unused"]
  /\ reused = FALSE

-----------------------------------------------------------------------------
(* ScheduleTimer.                                                          *)

\* Two's complement.
Wrap(n) == ((n + WordSize \div 2) % WordSize) - WordSize \div 2

IntervalOf(minutes) ==
  LET ms == Wrap(minutes * Minute)
  IN  IF ms < MinPeriod THEN MinPeriod ELSE IF ms > MaxPeriod THEN MaxPeriod ELSE ms

\* Integer() throws before the old timer is deleted.
CancelFirst ==  \* mutant: the old timer is deleted first
  period' = IF config = Malformed THEN 0 ELSE IntervalOf(config)
KeepInterval == UNCHANGED period  \* mutant: the interval is read at boot only
ScheduleTimer ==
  IF config = Malformed THEN UNCHANGED period ELSE period' = IntervalOf(config)

\* An error at boot leaves no timer, and a script without one exits.
Boot ==
  /\ pc = "boot"
  /\ period' = IF config = Malformed THEN 0 ELSE IntervalOf(config)
  /\ pc' = IF config = Malformed THEN "exited" ELSE "idle"
  /\ UNCHANGED <<config, loop, sums, world>>

-----------------------------------------------------------------------------
(* AutoRamTrim.                                                            *)

Fire ==
  /\ pc = "idle" /\ period # 0
  /\ ScheduleTimer
  /\ pc' = IF config = Malformed THEN "dialog" ELSE "list"
  /\ UNCHANGED <<config, loop, sums, world>>

\* No window, no result: the file keeps that of an earlier cycle.
WinGetList ==
  /\ pc = "list"
  /\ todo' = {w \in Windows : owner[w] # NoPid}
  /\ total' = 0
  /\ pc' = IF todo' = {} THEN "idle" ELSE "next"
  /\ UNCHANGED <<timer, pid, handle, before, result, world>>

\* mutant: the window stays on the list
RetryWindow ==
  /\ pc = "next"
  /\ \E w \in todo :
       IF owner[w] = NoPid
         THEN pc' = "dialog" /\ todo' = {} /\ UNCHANGED pid
         ELSE pc' = "session" /\ pid' = owner[w] /\ UNCHANGED todo
  /\ UNCHANGED <<timer, handle, before, sums, world>>
\* WinGetPID throws when the window is gone; what is left of the loop is dropped.
NextWindow ==
  /\ pc = "next"
  /\ \E w \in todo :
       IF owner[w] = NoPid
         THEN pc' = "dialog" /\ todo' = {} /\ UNCHANGED pid
         ELSE pc' = "session" /\ todo' = todo \ {w} /\ pid' = owner[w]
  /\ UNCHANGED <<timer, handle, before, sums, world>>

\* A process that is gone has session 0, which is not that of a desktop.
AnySession(p) == TRUE  \* mutant: the test is dropped
SameSession(p) == session[p] = "own"

CheckSession ==
  /\ pc = "session"
  /\ pc' = IF SameSession(pid) THEN "open" ELSE "next?"
  /\ UNCHANGED <<timer, loop, sums, world>>

\* Access can be denied.
OpenProcess ==
  /\ pc = "open"
  /\ \/ /\ Alive(pid)
        /\ handle' = session[pid]
        /\ pc' = "before"
     \/ pc' = "next?" /\ UNCHANGED handle
  /\ UNCHANGED <<timer, todo, pid, before, sums, world>>

\* GetProcessMemoryInfo leaves 0 when it fails, and nobody looks whether it did.
ReadBefore ==
  /\ pc = "before"
  /\ before' \in 0..MaxSize
  /\ pc' = "empty"
  /\ UNCHANGED <<timer, todo, pid, handle, sums, world>>

EmptyWorkingSet ==
  /\ pc = "empty"
  /\ pc' = "after"
  /\ UNCHANGED <<timer, loop, sums, world>>

LeaveOpen == UNCHANGED handle  \* mutant: CloseHandle is forgotten
CloseHandle == handle' = "none"

\* mutant: a process that grew meanwhile counts against the others
AnySaving(saved) == total' = total + saved
AddSaving(saved) == total' = IF saved > 0 THEN total + saved ELSE total

ReadAfter ==
  /\ pc = "after"
  /\ CloseHandle
  /\ \E after \in 0..MaxSize : AddSaving(before - after)
  /\ pc' = "next?"
  /\ UNCHANGED <<timer, todo, pid, before, result, world>>

\* End of the loop's body.
Continue ==
  /\ pc = "next?"
  /\ pid' = NoPid /\ before' = 0
  /\ pc' = IF todo = {} THEN "write" ELSE "next"
  /\ reused' = FALSE
  /\ UNCHANGED <<timer, todo, handle, sums, owner, session>>

\* IniWrite throws when the file cannot be written.
WriteResult ==
  /\ pc = "write"
  /\ \/ result' = total /\ pc' = "idle"
     \/ pc' = "dialog" /\ UNCHANGED result
  /\ UNCHANGED <<timer, loop, total, world>>

Dismiss ==
  /\ pc = "dialog"
  /\ pc' = "idle"
  /\ UNCHANGED <<timer, loop, sums, world>>

-----------------------------------------------------------------------------
(* The environment.                                                        *)

GuiSavesInterval ==
  /\ config' \in IniValues \cup {Malformed}
  /\ UNCHANGED <<pc, period, loop, sums, world>>

\* The identifier of a dead process is given away, but not while a handle keeps
\* the process.
Reusable(p) == session[p] = "dead" /\ ~(handle # "none" /\ pid = p)

ProcessStarts ==
  /\ \E p \in Pids, s \in {"own", "other"}, ws \in SUBSET Windows :
       /\ session[p] = "unused" \/ Reusable(p)
       /\ \A w \in ws : owner[w] = NoPid
       /\ session' = [session EXCEPT ![p] = s]
       /\ owner' = [w \in Windows |-> IF w \in ws THEN p ELSE owner[w]]
       /\ reused' = (reused \/ (pc = "open" /\ pid = p))
  /\ UNCHANGED <<pc, timer, loop, sums>>

ProcessEnds ==
  /\ \E p \in Pids :
       /\ Alive(p)
       /\ session' = [session EXCEPT ![p] = "dead"]
       /\ owner' = [w \in Windows |-> IF owner[w] = p THEN NoPid ELSE owner[w]]
  /\ UNCHANGED <<pc, timer, loop, sums, reused>>

Cycle ==
  \/ WinGetList \/ NextWindow \/ CheckSession \/ OpenProcess \/ ReadBefore
  \/ EmptyWorkingSet \/ ReadAfter \/ Continue \/ WriteResult

Next ==
  \/ Boot \/ Fire \/ Cycle \/ Dismiss
  \/ GuiSavesInterval \/ ProcessStarts \/ ProcessEnds

Spec == Init /\ [][Next]_vars

\* The script is scheduled, and its timer fires.  Nobody has to close a dialog.
FairSpec == Spec /\ WF_vars(Boot) /\ WF_vars(Fire) /\ WF_vars(Cycle)
-----------------------------------------------------------------------------
(* Properties.                                                             *)

\* Types; the sum of the cycle's savings is never negative (77-79).
TypeOK ==
  /\ pc \in {"boot", "idle", "dialog", "exited", "list", "next", "session", "open",
             "before", "empty", "after", "next?", "write"}
  /\ period \in {0} \cup MinPeriod..MaxPeriod
  /\ config \in IniValues \cup {Malformed}
  /\ todo \subseteq Windows /\ pid \in Pids \cup {NoPid}
  /\ handle \in {"none", "own", "other"}
  /\ before \in 0..MaxSize
  /\ total \in Nat /\ result \in Nat
  /\ owner \in [Windows -> Pids \cup {NoPid}]
  /\ session \in [Pids -> {"unused", "own", "other", "dead"}]
  /\ reused \in BOOLEAN

\* Once booted the script always has its timer, with a period in the limits,
\* whatever is saved as the interval and wherever a cycle is cut short by an error
\* (11-31): a mistake in the ini file does not end the trimming.
TimerStaysArmed ==
  pc \notin {"boot", "exited"} => period \in MinPeriod..MaxPeriod

\* No cycle, however it ends, leaves a process handle open (56-58, 75).
NoHandleLeaks == pc \in {"idle", "dialog", "next", "write"} => handle = "none"

\* "Only trim Roblox processes that belong to the SAME Windows session as this
\* script" (33-36, 50-58), whatever processes end and start during a cycle.  There is
\* one way into the process of another session: the tested process ends, and its
\* identifier is given away, between the two calls that name it.
SessionIsolation == pc = "empty" => handle = "own" \/ reused

\* Interval changes take effect without a restart (5-6, 29-30): an interval that
\* stays is the timer's from some cycle on, unless an error waits to be dismissed
\* or the script did not boot.
IntervalTakesEffect ==
  \A minutes \in IniValues :
    <>[](config = minutes) =>
      <>[](period = IntervalOf(minutes)) \/ <>[](pc \in {"dialog", "exited"})

\* Steps that a cycle may still take once it has its list, at most.
StepsLeft ==
  8 * Cardinality(todo) +
  CASE pc = "session" -> 7 [] pc = "open"  -> 6 [] pc = "before" -> 5
    [] pc = "empty"   -> 4 [] pc = "after" -> 3 [] pc = "next?"  -> 2
    [] pc \in {"next", "write"} -> 1
    [] OTHER -> 0

\* Whatever appears or vanishes meanwhile, a cycle only goes through the windows of its
\* list (47-48): each step, failing or not, leaves it fewer to take.
NearsItsEnd == [][Cycle /\ pc # "list" => StepsLeft' < StepsLeft]_vars

\* A cycle comes to an end, although windows and processes vanish under it.
CycleEnds == pc = "list" ~> pc \in {"idle", "dialog"}
=============================================================================
