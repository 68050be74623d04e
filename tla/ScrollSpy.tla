------------------------------- MODULE ScrollSpy -------------------------------
(***************************************************************************)
(* bootstrap.js, scrollspy: the entry of a navigation list that belongs to    *)
(* the part of the page on the screen.  The parts' offsets are read at a       *)
(* refresh and used at every scroll; the page's layout changes meanwhile.      *)
(***************************************************************************)
EXTENDS Transitions, Integers

CONSTANTS Layouts,     \* what the page may look like: its height, the parts in order
          ViewHeight,  \* of the part that is on the screen
          SpyOffset    \* options.offset
(* refresh sorts the parts by their offsets, and drops those that are not visible. *)
(* Only the first is at the very top: process takes the offset 0 of a next one for *)
(* none.                                                                          *)
ASSUME ScrollSpyAssumption ==
  /\ Layouts # {}
  /\ ViewHeight \in Nat /\ SpyOffset \in Nat
  /\ \A l \in Layouts : l.height \in Nat /\ l.height >= ViewHeight
                        /\ l.offsets \in Seq(Nat) /\ l.targets \in Seq(Nat \ {0})
                        /\ Len(l.offsets) = Len(l.targets)
                        /\ \A i, j \in 1..Len(l.offsets) :
                             i < j => l.offsets[i] <= l.offsets[j] /\ l.offsets[j] > 0

VARIABLES
  layout,  \* the page as it is
  spy      \* the scroll position, what the object knows of the page, its target

spyVars == <<layout, spy>>

NoTarget == 0
Tops(l) == 0..(l.height - ViewHeight)

SpyState == [top : UNION {Tops(l) : l \in Layouts},
             known : Layouts,             \* at the last refresh
             active : Nat,
             scrolls : 0..2]              \* history: since the page or known changed

lastOf(s) == IF s = <<>> THEN NoTarget ELSE s[Len(s)]
LimitOf(l, i) == IF i < Len(l.offsets) THEN l.offsets[i + 1] ELSE 0

-----------------------------------------------------------------------------
(* process over the offsets of l in a page of the given height: at the bottom   *)
(* the last target, above the first the first, else each target that is not     *)
(* the active one and whose part holds the position, from the last to the first. *)
process_unended(l, height, top, active) ==
  LET y == top + SpyOffset
      hit(i) == /\ l.targets[i] # active /\ y >= l.offsets[i]
                /\ LimitOf(l, i) = 0 \/ y <= LimitOf(l, i)
      hits == {i \in DOMAIN l.targets : hit(i)}
  IN  IF active # NoTarget /\ l.offsets # <<>> /\ y <= l.offsets[1]
        THEN l.targets[1]
      ELSE IF hits = {} THEN active
      ELSE l.targets[CHOOSE i \in hits : \A j \in hits : i <= j]

process(l, height, top, active) ==
  LET y == top + SpyOffset
      hit(i) == /\ l.targets[i] # active /\ y >= l.offsets[i]
                /\ LimitOf(l, i) = 0 \/ y <= LimitOf(l, i)
      hits == {i \in DOMAIN l.targets : hit(i)}
  IN  IF y >= SpyOffset + height - ViewHeight THEN lastOf(l.targets)
      ELSE IF active # NoTarget /\ l.offsets # <<>> /\ y <= l.offsets[1]
        THEN l.targets[1]
      ELSE IF hits = {} THEN active
      ELSE l.targets[CHOOSE i \in hits : \A j \in hits : i <= j]

(* A page of another height is read again, but this time the old offsets count. *)
processed_never(s, l, top) ==
  [top |-> top, known |-> s.known,
   active |-> process(s.known, l.height, top, s.active),
   scrolls |-> IF s.scrolls < 2 THEN s.scrolls + 1 ELSE 2]

processed(s, l, top) ==
  [top |-> top,
   known |-> IF s.known.height # l.height THEN l ELSE s.known,
   active |-> process(s.known, l.height, top, s.active),
   scrolls |-> IF s.scrolls < 2 THEN s.scrolls + 1 ELSE 2]

(* The constructor refreshes and processes. *)
ScrollSpyInit(all) ==
  /\ layout \in some(Layouts, all)
  /\ \E top \in some(Tops(layout), all) :
       spy = [top |-> top, known |-> layout, scrolls |-> 2,
              active |-> process(layout, layout.height, top, NoTarget)]

ScrollTo(top) ==
  /\ spy' = processed(spy, layout, top)
  /\ UNCHANGED layout

(* The page changes; a position it no longer has is left, with a scroll event. *)
Relayout(l) ==
  /\ l # layout
  /\ layout' = l
  /\ LET laid == [spy EXCEPT !.scrolls = 0]
     IN  spy' = IF spy.top \in Tops(l) THEN laid
                ELSE processed(laid, l, l.height - ViewHeight)

(* A script's scrollspy('refresh'). *)
CallRefresh ==
  /\ spy' = [spy EXCEPT !.known = layout, !.scrolls = 0]
  /\ UNCHANGED layout

ScrollSpyNext ==
  \/ \E top \in Tops(layout) : ScrollTo(top)
  \/ \E l \in Layouts : Relayout(l)
  \/ CallRefresh

-----------------------------------------------------------------------------
ScrollSpyTypeOK == layout \in Layouts /\ spy \in SpyState

(* The last target whose part begins at or above y. *)
Begun(l, y) == {i \in DOMAIN l.offsets : l.offsets[i] <= y}
Current(l, top) ==
  LET y == top + SpyOffset
  IN  IF top >= l.height - ViewHeight THEN lastOf(l.targets)
      ELSE l.targets[CHOOSE i \in Begun(l, y) : \A j \in Begun(l, y) : j <= i]

OnEdge(l, y) == \E i \in DOMAIN l.offsets : l.offsets[i] = y

(* Whatever has been scrolled and laid out before, the active entry is that of     *)
(* the part the reader is in by the second scroll in a page whose offsets are      *)
(* known, the first being processed with the old ones: except above the first     *)
(* part, and exactly where one part ends, where the code goes to and fro.         *)
ActiveIsCurrent ==
  LET y == spy.top + SpyOffset
  IN  spy.scrolls = 2 /\ spy.known = layout /\ ~OnEdge(layout, y)
        /\ (Begun(layout, y) # {} \/ spy.top >= layout.height - ViewHeight)
      => spy.active = Current(layout, spy.top)

(* A page that has grown or shrunk is noticed by its first scroll; one that is     *)
(* laid out anew at the same height is not, which takes a refresh.               *)
HeightNoticed == spy.scrolls > 0 => spy.known.height = layout.height
=============================================================================
