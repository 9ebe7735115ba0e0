---------------------------- MODULE ScreenFeedback ----------------------------
(***************************************************************************)
(* What the movement scripts draw over the game: the status overlay, the   *)
(* "DETECTED" marker, and the timer thread that animates the marker.       *)
(* MovementScript runs these operators from its main thread; the timer     *)
(* thread interrupts the main thread between any two of its actions.       *)
(***************************************************************************)
CONSTANT Positions   \* where on the screen the wagon's colour can be found

VARIABLES
  running,     \* Running: the flow is executing
  suppressed,  \* StatusOverlaySuppressed: the screen is being read
  overlay,     \* the status overlay is visible
  marker,      \* specialMarkerGui exists, and is visible
  markerCur,   \* specialMarkerCurX, specialMarkerCurY
  markerTgt,   \* specialMarkerTgtX, specialMarkerTgtY
  timer        \* the timer of _AnimateSpecialMarker is set

status == <<running, suppressed, overlay>>
marks  == <<marker, markerCur, markerTgt, timer>>
screen == <<status, marks>>

NoPosition == "none"

FeedbackTypeOK ==
  /\ running \in BOOLEAN /\ suppressed \in BOOLEAN /\ overlay \in BOOLEAN
  /\ marker \in BOOLEAN /\ timer \in BOOLEAN
  /\ markerCur \in Positions \cup {NoPosition}
  /\ markerTgt \in Positions \cup {NoPosition}

\* A process starts with nothing on the screen.
FeedbackInit ==
  /\ running = FALSE /\ suppressed = FALSE /\ overlay = FALSE
  /\ marker = FALSE /\ timer = FALSE
  /\ markerCur = NoPosition /\ markerTgt = NoPosition

\* ... and takes what it drew with it when it ends.
FeedbackReset ==
  /\ running' = FALSE /\ suppressed' = FALSE /\ overlay' = FALSE
  /\ marker' = FALSE /\ timer' = FALSE
  /\ markerCur' = NoPosition /\ markerTgt' = NoPosition

\* SetStatus, whose text is never empty here.
SetStatus ==
  /\ overlay' = (running /\ (overlay \/ ~suppressed))
  /\ UNCHANGED <<running, suppressed>>

StillShown == UNCHANGED status  \* mutant: the overlay stays up
HideStatusOverlay ==
  /\ overlay' = FALSE
  /\ UNCHANGED <<running, suppressed>>

\* Running := true and Running := false, with the SetStatus that follows.
NotRunning   == UNCHANGED status  \* mutant: the assignment is forgotten
StartRunning == running' = TRUE /\ overlay' = TRUE /\ UNCHANGED suppressed
StopRunning  == running' = FALSE /\ overlay' = FALSE /\ UNCHANGED suppressed

BeginScreenRead ==
  /\ suppressed' = TRUE
  /\ overlay' = FALSE
  /\ UNCHANGED running

EndScreenRead ==
  /\ suppressed' = FALSE
  /\ overlay' = (running \/ overlay)
  /\ UNCHANGED running

\* A marker that exists only gets a new target, for the timer to move it to.
ShowSpecialMarker(p) ==
  /\ markerTgt' = p
  /\ marker' = TRUE
  /\ \/ marker /\ timer' = TRUE /\ UNCHANGED markerCur
     \/ ~marker /\ markerCur' = p /\ UNCHANGED timer

KeepTimer == marker' = FALSE /\ UNCHANGED <<markerCur, markerTgt, timer>>  \* mutant
HideSpecialMarker ==
  /\ timer' = FALSE
  /\ marker' = FALSE
  /\ UNCHANGED <<markerCur, markerTgt>>

\* One run of the timer thread.  Each frame covers part of the distance, and the
\* last one stops the timer.
AnimateSpecialMarker ==
  /\ timer
  /\ IF marker /\ markerCur # markerTgt
       THEN markerCur' \in {markerCur, markerTgt} /\ UNCHANGED timer
       ELSE timer' = FALSE /\ UNCHANGED markerCur
  /\ UNCHANGED <<status, marker, markerTgt>>

\* The timer thread never runs without a marker to move, and never has a distance
\* to cover (162-229): a marker that has been shown is where the colour was last
\* found, because every search destroys it before the next position is shown.
MarkerSettled == (timer => marker) /\ (marker => markerCur = markerTgt)
=============================================================================
