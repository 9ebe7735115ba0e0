-------------------------- MODULE ColourSearch_proofs --------------------------
(***************************************************************************)
(* Proofs about ColourSearch for every screen, window, margin and colour.  *)
(***************************************************************************)
EXTENDS ColourSearch, TLAPS

MemoryInv ==
  /\ rx \in Int /\ ry \in Int /\ rw \in Nat \ {0} /\ rh \in Nat \ {0}
  /\ lastX \in Int /\ lastY \in Int
  /\ FollowsInWindow

\* Of an interval around a place in the window, the part in the window is near the
\* place, and its ends are not crossed.
LEMMA RegionBounds ==
  ASSUME NEW low \in Int, NEW high \in Int, NEW last \in low..high, NEW n \in Int,
         Between(n, From(low, last), To(high, last))
  PROVE  n \in low..high /\ n - last \in -Margin..Margin
  BY SearchAssumption DEF Between, From, To, Larger, Smaller

LEMMA BoundsAreInt ==
  MemoryInv => x1 \in Int /\ x2 \in Int /\ y1 \in Int /\ y2 \in Int
               /\ x1 <= x2 /\ y1 <= y2
  BY WindowAssumption DEF MemoryInv, x1, x2, y1, y2

\* A search of the region, while the window is as it was searched before.
LEMMA NearFind ==
  ASSUME MemoryInv, FindNear, settled
  PROVE  InWindow(lastX', lastY') /\ Near(lastX', lastY')
<1>1. PICK px \in Xs, py \in Ys :
        /\ Between(px, From(x1, lastX), To(x2, lastX))
        /\ Between(py, From(y1, lastY), To(y2, lastY))
        /\ lastX' = px /\ lastY' = py
  BY DEF FindNear, PixelSearch, Remember
<1>2. px \in Int /\ py \in Int
  BY SearchAssumption
<1>3. x1 \in Int /\ x2 \in Int /\ y1 \in Int /\ y2 \in Int
  BY BoundsAreInt
<1>4. lastX \in x1..x2 /\ lastY \in y1..y2
  BY DEF MemoryInv, FollowsInWindow, InWindow
<1>5. px \in x1..x2 /\ px - lastX \in -Margin..Margin
  BY <1>1, <1>2, <1>3, <1>4, RegionBounds
<1>6. py \in y1..y2 /\ py - lastY \in -Margin..Margin
  BY <1>1, <1>2, <1>3, <1>4, RegionBounds
<1> QED
  BY <1>1, <1>5, <1>6 DEF InWindow, Near

LEMMA NextMemory == MemoryInv /\ [SearchNext]_searchVars => MemoryInv'
<1> SUFFICES ASSUME MemoryInv, [SearchNext]_searchVars PROVE MemoryInv'
  OBVIOUS
<1>1. CASE FindNear
  <2>1. UNCHANGED window /\ UNCHANGED settled
    BY <1>1 DEF FindNear
  <2>2. lastX' \in Int /\ lastY' \in Int
    BY <1>1, SearchAssumption DEF FindNear, Remember
  <2>3. settled => InWindow(lastX', lastY')
    BY <1>1, NearFind
  <2>4. FollowsInWindow'
    BY <2>1, <2>3 DEF FollowsInWindow, InWindow, x1, x2, y1, y2, window
  <2> QED
    BY <2>1, <2>2, <2>4 DEF MemoryInv, window
<1>2. CASE FindAnywhere
  <2>1. UNCHANGED window
    BY <1>2 DEF FindAnywhere
  <2>2. PICK px \in Xs, py \in Ys :
          /\ Between(px, x1, x2) /\ Between(py, y1, y2)
          /\ lastX' = px /\ lastY' = py
    BY <1>2 DEF FindAnywhere, PixelSearch, Remember
  <2>3. px \in Int /\ py \in Int
    BY SearchAssumption
  <2>4. px \in x1..x2 /\ py \in y1..y2
    BY <2>2, <2>3, BoundsAreInt DEF Between
  <2>5. FollowsInWindow'
    BY <2>1, <2>2, <2>4 DEF FollowsInWindow, InWindow, x1, x2, y1, y2, window
  <2> QED
    BY <2>1, <2>2, <2>3, <2>5 DEF MemoryInv, window
<1>3. CASE Outdated
  BY <1>3 DEF Outdated, MemoryInv, FollowsInWindow, InWindow, x1, x2, y1, y2, window
<1>4. CASE WindowChanges /\ Unnoticed
  BY <1>4, WindowAssumption DEF WindowChanges, WindowMoves, WindowResizes,
     WindowOpensOrCloses, Unnoticed, MemoryInv, FollowsInWindow
<1>5. CASE UNCHANGED searchVars
  BY <1>5 DEF searchVars, window, memory, MemoryInv, FollowsInWindow, InWindow, x1, x2,
     y1, y2
<1> QED
  BY <1>1, <1>2, <1>3, <1>4, <1>5 DEF SearchNext

LEMMA SpecMemory == SearchSpec => []MemoryInv
<1>1. WindowInit /\ SearchInit => MemoryInv
  BY WindowAssumption DEF WindowInit, SearchInit, MemoryInv, FollowsInWindow
<1> QED
  BY <1>1, NextMemory, PTL DEF SearchSpec

\* However far the search follows the colour from region to region, it does not leave
\* a window that stays where it is, whatever the margin.
THEOREM SearchFollowsInWindow == SearchSpec => []FollowsInWindow
<1>1. MemoryInv => FollowsInWindow
  BY DEF MemoryInv
<1> QED
  BY <1>1, SpecMemory, PTL

\* ... and each find in a region is near the one before.
THEOREM SearchStaysNear == SearchSpec => NearWhenSettled
<1>1. MemoryInv /\ [SearchNext]_searchVars
        => [FindNear /\ settled => Near(lastX', lastY')]_searchVars
  BY NearFind
<1> QED
  BY <1>1, SpecMemory, PTL DEF SearchSpec, NearWhenSettled
=============================================================================
