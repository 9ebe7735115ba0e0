-------------------------- MODULE AutoRamTrim_proofs --------------------------
(***************************************************************************)
(* Proofs about AutoRamTrim for every set of windows and of processes,     *)
(* every interval in the ini file and every width of integers.             *)
(***************************************************************************)
EXTENDS AutoRamTrim, FiniteSetTheorems, TLAPS

LEMMA IntervalInLimits ==
  ASSUME NEW minutes \in Int
  PROVE  IntervalOf(minutes) \in MinPeriod..MaxPeriod
<1> DEFINE ms == Wrap(minutes * Minute)
<1>1. ms \in Int
  BY TrimAssumption DEF Wrap
<1> HIDE DEF ms
<1>2. (IF ms < MinPeriod THEN MinPeriod ELSE IF ms > MaxPeriod THEN MaxPeriod ELSE ms)
        \in MinPeriod..MaxPeriod
  BY <1>1, TrimAssumption
<1> QED
  BY <1>2 DEF IntervalOf, ms

\* The timer has a period in the limits from the boot on.
ArmedInv ==
  /\ config \in IniValues \cup {Malformed}
  /\ pc = "boot" => period = 0
  /\ pc = "exited" => period = 0
  /\ TimerStaysArmed

LEMMA NextArmed == ArmedInv /\ [Next]_vars => ArmedInv'
<1> SUFFICES ASSUME ArmedInv, [Next]_vars PROVE ArmedInv'
  OBVIOUS
<1> USE DEF ArmedInv, TimerStaysArmed
<1>0. config # Malformed => IntervalOf(config) \in MinPeriod..MaxPeriod
  BY IntervalInLimits, TrimAssumption
<1>1. CASE Boot
  BY <1>0, <1>1 DEF Boot
<1>2. CASE Fire
  BY <1>0, <1>2 DEF Fire, ScheduleTimer
<1>3. CASE Cycle \/ Dismiss
  BY <1>3 DEF Cycle, WinGetList, NextWindow, CheckSession, OpenProcess, ReadBefore,
      EmptyWorkingSet, ReadAfter, Continue, WriteResult, Dismiss, timer
<1>4. CASE GuiSavesInterval \/ ProcessStarts \/ ProcessEnds \/ UNCHANGED vars
  BY <1>4 DEF GuiSavesInterval, ProcessStarts, ProcessEnds, timer, vars
<1> QED
  BY <1>1, <1>2, <1>3, <1>4 DEF Next

\* Whatever interval is saved, and wherever a cycle fails, the timer stays armed with
\* a period between the two limits.
THEOREM TrimTimerStaysArmed == Spec => []TimerStaysArmed
<1>1. Init => ArmedInv
  BY DEF Init, ArmedInv, TimerStaysArmed
<1>2. ArmedInv => TimerStaysArmed
  BY DEF ArmedInv
<1> QED
  BY <1>1, <1>2, NextArmed, PTL DEF Spec

-----------------------------------------------------------------------------
HandlePcs == {"before", "empty", "after"}

\* A handle is open exactly during the three calls that use it, and was opened for a
\* process of this session, unless its identifier was given away just before.
HandleInv ==
  /\ (handle # "none") <=> (pc \in HandlePcs)
  /\ pc = "open" => session[pid] \in {"own", "dead"} \/ reused
  /\ pc \in HandlePcs => handle = "own" \/ reused
  /\ pc = "session" => pid \in Pids
  /\ pc = "open" => pid \in Pids
  /\ session \in [Pids -> {"unused", "own", "other", "dead"}]
  /\ owner \in [Windows -> Pids \cup {NoPid}]
  /\ todo \subseteq Windows

LEMMA NextHandle == HandleInv /\ [Next]_vars => HandleInv'
<1> SUFFICES ASSUME HandleInv, [Next]_vars PROVE HandleInv'
  OBVIOUS
<1> USE DEF HandleInv, HandlePcs
<1>1. CASE Boot \/ Fire
  BY <1>1 DEF Boot, Fire, loop, world
<1>2. CASE WinGetList
  BY <1>2 DEF WinGetList, world
<1>3. CASE NextWindow
  BY <1>3 DEF NextWindow, world
<1>4. CASE CheckSession
  BY <1>4 DEF CheckSession, SameSession, loop, world
<1>5. CASE OpenProcess
  BY <1>5 DEF OpenProcess, Alive, world
<1>6. CASE ReadBefore \/ EmptyWorkingSet \/ ReadAfter
  BY <1>6 DEF ReadBefore, EmptyWorkingSet, ReadAfter, CloseHandle, loop, world
<1>7. CASE Continue \/ WriteResult \/ Dismiss
  BY <1>7 DEF Continue, WriteResult, Dismiss, loop, world
<1>8. CASE ProcessStarts
  <2>1. PICK p \in Pids, s \in {"own", "other"}, ws \in SUBSET Windows :
          /\ session[p] = "unused" \/ Reusable(p)
          /\ \A w \in ws : owner[w] = NoPid
          /\ session' = [session EXCEPT ![p] = s]
          /\ owner' = [w \in Windows |-> IF w \in ws THEN p ELSE owner[w]]
          /\ reused' = (reused \/ (pc = "open" /\ pid = p))
    BY <1>8, Zenon DEF ProcessStarts
  <2>2. UNCHANGED <<pc, loop>>
    BY <1>8 DEF ProcessStarts
  <2>3. session' \in [Pids -> {"unused", "own", "other", "dead"}]
          /\ owner' \in [Windows -> Pids \cup {NoPid}]
    BY <2>1
  <2>4. (reused => reused') /\ (pc = "open" /\ pid = p => reused')
    BY <2>1, Zenon
  <2>5. pc = "open" => session'[pid] \in {"own", "dead"} \/ reused'
    BY <2>1, <2>2, <2>4 DEF loop
  <2> QED
    BY <2>2, <2>3, <2>4, <2>5 DEF loop
<1>9. CASE ProcessEnds
  <2>1. PICK p \in Pids :
          /\ session' = [session EXCEPT ![p] = "dead"]
          /\ owner' = [w \in Windows |-> IF owner[w] = p THEN NoPid ELSE owner[w]]
    BY <1>9 DEF ProcessEnds
  <2>2. UNCHANGED <<pc, loop, reused>>
    BY <1>9 DEF ProcessEnds
  <2>3. session' \in [Pids -> {"unused", "own", "other", "dead"}]
          /\ owner' \in [Windows -> Pids \cup {NoPid}]
    BY <2>1
  <2>4. pc = "open" => session'[pid] \in {"own", "dead"} \/ reused
    BY <2>1
  <2> QED
    BY <2>2, <2>3, <2>4 DEF loop
<1>10. CASE GuiSavesInterval \/ UNCHANGED vars
  BY <1>10 DEF GuiSavesInterval, vars, loop, world
<1> QED
  BY <1>1, <1>2, <1>3, <1>4, <1>5, <1>6, <1>7, <1>8, <1>9, <1>10 DEF Next, Cycle

LEMMA SpecHandle == Spec => []HandleInv
<1>1. Init => HandleInv
  BY DEF Init, HandleInv, HandlePcs
<1> QED
  BY <1>1, NextHandle, PTL DEF Spec

\* No cycle leaves a handle open, whether it ends or is cut short.
THEOREM TrimClosesHandles == Spec => []NoHandleLeaks
<1>1. HandleInv => NoHandleLeaks
  BY DEF HandleInv, HandlePcs, NoHandleLeaks
<1> QED
  BY <1>1, SpecHandle, PTL

\* Only processes of the script's own session are trimmed, whatever processes end and
\* start, unless an identifier goes to another process between the session test and
\* OpenProcess.
THEOREM TrimIsolatesSessions == Spec => []SessionIsolation
<1>1. HandleInv => SessionIsolation
  BY DEF HandleInv, HandlePcs, SessionIsolation
<1> QED
  BY <1>1, SpecHandle, PTL

-----------------------------------------------------------------------------
\* What the loop computes, and where it is.
DataInv ==
  /\ pc \in {"boot", "idle", "dialog", "exited", "list", "next", "session", "open",
             "before", "empty", "after", "next?", "write"}
  /\ pid \in Pids \cup {NoPid}
  /\ handle \in {"none", "own", "other"}
  /\ before \in 0..MaxSize
  /\ total \in Nat /\ result \in Nat

LEMMA SavingIsNat ==
  ASSUME before \in 0..MaxSize, total \in Nat,
         NEW after \in 0..MaxSize, AddSaving(before - after)
  PROVE  total' \in Nat
  BY TrimAssumption DEF AddSaving

LEMMA NextData == DataInv /\ HandleInv /\ [Next]_vars => DataInv'
<1> SUFFICES ASSUME DataInv, HandleInv, [Next]_vars PROVE DataInv'
  OBVIOUS
<1> USE DEF DataInv
<1>1. CASE Boot \/ Fire
  BY <1>1 DEF Boot, Fire, loop, sums
<1>2. CASE WinGetList
  BY <1>2 DEF WinGetList
<1>3. CASE NextWindow
  <2>1. pid' \in Pids \cup {NoPid}
    BY <1>3 DEF NextWindow, HandleInv
  <2> QED
    BY <1>3, <2>1 DEF NextWindow, sums
<1>4. CASE CheckSession
  BY <1>4 DEF CheckSession, loop, sums
<1>5. CASE OpenProcess
  <2>1. handle' \in {"none", "own", "other"}
    <3>1. CASE Alive(pid) /\ handle' = session[pid]
      BY <3>1 DEF Alive
    <3>2. CASE UNCHANGED handle
      BY <3>2
    <3> QED
      BY <1>5, <3>1, <3>2 DEF OpenProcess
  <2> QED
    BY <1>5, <2>1 DEF OpenProcess, sums
<1>6. CASE ReadBefore
  BY <1>6 DEF ReadBefore, sums
<1>7. CASE EmptyWorkingSet
  BY <1>7 DEF EmptyWorkingSet, loop, sums
<1>8. CASE ReadAfter
  <2>1. total' \in Nat
    BY <1>8, SavingIsNat DEF ReadAfter
  <2> QED
    BY <1>8, <2>1 DEF ReadAfter, CloseHandle
<1>9. CASE Continue
  BY <1>9, TrimAssumption DEF Continue, sums
<1>10. CASE WriteResult \/ Dismiss
  BY <1>10 DEF WriteResult, Dismiss, loop, sums
<1>11. CASE GuiSavesInterval \/ ProcessStarts \/ ProcessEnds \/ UNCHANGED vars
  BY <1>11 DEF GuiSavesInterval, ProcessStarts, ProcessEnds, vars, loop, sums
<1> QED
  BY <1>1, <1>2, <1>3, <1>4, <1>5, <1>6, <1>7, <1>8, <1>9, <1>10, <1>11 DEF Next, Cycle

ReusedInv == reused \in BOOLEAN

LEMMA NextReused == ReusedInv /\ [Next]_vars => ReusedInv'
<1> SUFFICES ASSUME ReusedInv, [Next]_vars PROVE ReusedInv'
  OBVIOUS
<1>1. CASE ProcessStarts
  <2>1. PICK p \in Pids : reused' = (reused \/ (pc = "open" /\ pid = p))
    BY <1>1, Zenon DEF ProcessStarts
  <2> QED
    BY <2>1, Zenon DEF ReusedInv
<1>2. CASE Continue
  BY <1>2, Zenon DEF Continue, ReusedInv
<1>3. CASE ~ProcessStarts /\ ~Continue
  <2>1. reused' = reused
    BY <1>3 DEF Next, Cycle, Boot, Fire, WinGetList, NextWindow, CheckSession, OpenProcess,
       ReadBefore, EmptyWorkingSet, ReadAfter, WriteResult, Dismiss, GuiSavesInterval,
       ProcessEnds, vars, world
  <2> QED
    BY <2>1, Zenon DEF ReusedInv
<1> QED
  BY <1>1, <1>2, <1>3

\* The variables keep their types, and the sum of the savings stays a natural number
\* although single savings can be negative.
THEOREM TrimTypes == Spec => []TypeOK
<1>1. Init => DataInv /\ HandleInv /\ ArmedInv
  BY TrimAssumption
  DEF Init, DataInv, HandleInv, HandlePcs, ArmedInv, TimerStaysArmed
<1>2. Init => ReusedInv
  BY Zenon DEF Init, ReusedInv
<1>3. DataInv /\ HandleInv /\ ArmedInv /\ ReusedInv /\ [Next]_vars
        => DataInv' /\ HandleInv' /\ ArmedInv' /\ ReusedInv'
  BY NextData, NextHandle, NextArmed, NextReused
<1>4. DataInv /\ HandleInv /\ ArmedInv /\ ReusedInv => TypeOK
  BY DEF DataInv, HandleInv, ArmedInv, ReusedInv, TimerStaysArmed, TypeOK
<1> QED
  BY <1>1, <1>2, <1>3, <1>4, PTL DEF Spec

-----------------------------------------------------------------------------
(* What a cycle has left to do.                                            *)

LEMMA ListSize ==
  ASSUME NEW S \in SUBSET Windows
  PROVE  Cardinality(S) \in Nat /\ Cardinality(S) <= Cardinality(Windows)
<1>1. IsFiniteSet(S) /\ Cardinality(S) <= Cardinality(Windows)
  BY FS_Subset, TrimAssumption
<1> QED
  BY <1>1, FS_CardinalityType

LEMMA ListShrinks ==
  ASSUME NEW S \in SUBSET Windows, NEW w \in S
  PROVE  Cardinality(S \ {w}) = Cardinality(S) - 1
<1>1. IsFiniteSet(S)
  BY FS_Subset, TrimAssumption
<1> QED
  BY <1>1, FS_RemoveElement

\* What NextWindow does to the list and to the place in the loop.
LEMMA NextWindowTakesOne ==
  ASSUME HandleInv, NextWindow
  PROVE  /\ pc = "next"
         /\ \/ pc' = "dialog" /\ Cardinality(todo') = 0
            \/ pc' = "session" /\ Cardinality(todo') = Cardinality(todo) - 1
<1>1. PICK w \in todo :
        \/ pc' = "dialog" /\ todo' = {}
        \/ pc' = "session" /\ todo' = todo \ {w}
  BY DEF NextWindow
<1>2. pc = "next"
  BY DEF NextWindow
<1>3. CASE pc' = "dialog" /\ todo' = {}
  BY <1>2, <1>3, FS_EmptySet
<1>4. CASE pc' = "session" /\ todo' = todo \ {w}
  BY <1>2, <1>4, ListShrinks DEF HandleInv
<1> QED
  BY <1>1, <1>3, <1>4

\* Where each of the other calls of the loop leads; none touches the list.
LEMMA LoopMoves ==
  ASSUME Cycle, pc # "list", ~NextWindow
  PROVE  /\ todo' = todo
         /\ \/ pc = "session" /\ pc' \in {"open", "next?"}
            \/ pc = "open"    /\ pc' \in {"before", "next?"}
            \/ pc = "before"  /\ pc' = "empty"
            \/ pc = "empty"   /\ pc' = "after"
            \/ pc = "after"   /\ pc' = "next?"
            \/ pc = "next?"   /\ pc' = (IF todo = {} THEN "write" ELSE "next")
            \/ pc = "write"   /\ pc' \in {"idle", "dialog"}
  BY Zenon DEF Cycle, WinGetList, CheckSession, OpenProcess, ReadBefore, EmptyWorkingSet,
     ReadAfter, Continue, WriteResult, loop

LEMMA StepShrinks ==
  ASSUME HandleInv, Cycle, pc # "list"
  PROVE  StepsLeft' < StepsLeft
<1>1. Cardinality(todo) \in Nat
  BY ListSize DEF HandleInv
<1>2. CASE NextWindow
  <2>1. /\ pc = "next"
        /\ \/ pc' = "dialog" /\ Cardinality(todo') = 0
           \/ pc' = "session" /\ Cardinality(todo') = Cardinality(todo) - 1
    BY <1>2, NextWindowTakesOne
  <2> QED
    BY <1>1, <2>1 DEF StepsLeft
<1>3. CASE ~NextWindow
  <2>1. Cardinality(todo') = Cardinality(todo)
    BY <1>3, LoopMoves
  <2>2. \/ pc = "session" /\ pc' \in {"open", "next?"}
        \/ pc = "open"    /\ pc' \in {"before", "next?"}
        \/ pc = "before"  /\ pc' = "empty"
        \/ pc = "empty"   /\ pc' = "after"
        \/ pc = "after"   /\ pc' = "next?"
        \/ pc = "next?"   /\ pc' \in {"write", "next"}
        \/ pc = "write"   /\ pc' \in {"idle", "dialog"}
    <3>1. (IF todo = {} THEN "write" ELSE "next") \in {"write", "next"}
      OBVIOUS
    <3> QED
      BY <1>3, <3>1, LoopMoves, Zenon
  <2> HIDE <1>3
  <2> QED
    BY <1>1, <2>1, <2>2 DEF StepsLeft
<1> QED
  BY <1>2, <1>3

\* A cycle is over after at most eight steps for each window of its list and one more,
\* however the windows and processes come and go meanwhile.
THEOREM TrimNearsItsEnd ==
  Spec => NearsItsEnd /\ [](StepsLeft \in 0..(8 * Cardinality(Windows) + 7))
<1>1. HandleInv /\ [Next]_vars => [Cycle /\ pc # "list" => StepsLeft' < StepsLeft]_vars
  BY StepShrinks
<1>2. HandleInv => StepsLeft \in 0..(8 * Cardinality(Windows) + 7)
  <2> SUFFICES ASSUME HandleInv
               PROVE  StepsLeft \in 0..(8 * Cardinality(Windows) + 7)
    OBVIOUS
  <2>1. /\ Cardinality(todo) \in Nat
        /\ Cardinality(Windows) \in Nat
        /\ Cardinality(todo) <= Cardinality(Windows)
    BY ListSize DEF HandleInv
  <2> QED
    BY <2>1 DEF StepsLeft
<1>3. Spec => NearsItsEnd
  BY <1>1, SpecHandle, PTL DEF Spec, NearsItsEnd
<1>4. Spec => [](StepsLeft \in 0..(8 * Cardinality(Windows) + 7))
  BY <1>2, SpecHandle, PTL
<1> QED
  BY <1>3, <1>4
=============================================================================
