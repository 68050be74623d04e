-------------------------------- MODULE Tooltip --------------------------------
(***************************************************************************)
(* bootstrap.js, tooltip and popover: the tip of one element, shown and       *)
(* hidden by mouse and focus (a tooltip) or by clicks (a popover), with or    *)
(* without delays.  Showing and hiding both wait for transitions of the same   *)
(* tip, and what waits reads hoverState, which any later call may have set.    *)
(***************************************************************************)
EXTENDS Transitions, Integers

CONSTANT TipBound   \* callbacks that wait for the tip's transition
ASSUME TooltipAssumption == TipBound \in Nat \ {0}

VARIABLES
  tip,      \* the object and the classes of its tip
  over,     \* history: the mouse is on the element, or a click asked for the tip
  mishaps   \* history: what has gone wrong, see below

tooltipVars == <<tip, over, mishaps>>

(* flicker: the tip was shown again before it had come and gone; missed: a timer *)
(* rang and found that the end of a show had reset hoverState meanwhile;         *)
(* dropped: destroyed, without a transition, while it was asked for.            *)
Mishaps == {"flicker", "missed", "dropped"}

TipState == [
  hoverState : {"null", "in", "out"},
  timeout : {"none", "show", "hide"},       \* the one timer of enter or leave
  enabled : BOOLEAN,                        \* enabled, and there is content
  bound : BOOLEAN,                          \* not destroyed
  inDom : BOOLEAN,                          \* the element is in the page
  attached : BOOLEAN, in : BOOLEAN,         \* the tip is in the page; its class in
  fade : BOOLEAN,                           \* the class fade, given by the first show
  ends : Seq({"shown", "hidden"}),
  click : BOOLEAN, delay : SUBSET {"show", "hide"}]   \* options

TooltipInit(all) ==
  /\ tip \in some([hoverState : {"null"}, timeout : {"none"}, enabled : {TRUE},
                   bound : {TRUE}, inDom : {TRUE}, attached : {FALSE}, in : {FALSE},
                   fade : {FALSE}, ends : {<<>>}, click : BOOLEAN,
                   delay : SUBSET {"show", "hide"}], all)
  /\ over = FALSE /\ mishaps = {}

-----------------------------------------------------------------------------
complete_detach(t, wait) ==
  IF wait = "shown" THEN [t EXCEPT !.hoverState = "null"]
  ELSE [t EXCEPT !.attached = FALSE]

complete_stay(t, wait) ==
  IF wait = "shown" THEN [t EXCEPT !.hoverState = "null"]
  ELSE [t EXCEPT !.attached = @ /\ t.hoverState # "out"]

(* The two functions called complete. *)
complete(t, wait) ==
  IF wait = "shown" THEN [t EXCEPT !.hoverState = "null"]
  ELSE [t EXCEPT !.attached = @ /\ t.hoverState = "in"]

awaited(t, wait) ==
  IF transition /\ t.fade THEN [t EXCEPT !.ends = Append(@, wait)]
  ELSE complete(t, wait)

(* show: the tip is put in the page anew, with the classes fade and in. *)
showTip(t) ==
  IF ~t.enabled \/ ~t.inDom \/ isDefaultPrevented("show") THEN t
  ELSE awaited([t EXCEPT !.attached = TRUE, !.in = TRUE, !.fade = TRUE], "shown")

hideTip(t) ==
  IF isDefaultPrevented("hide") THEN t
  ELSE [awaited([t EXCEPT !.in = FALSE], "hidden") EXCEPT !.hoverState = "null"]

enter_unsaid(t) ==
  IF "show" \in t.delay THEN [t EXCEPT !.timeout = "show"]
  ELSE showTip([t EXCEPT !.hoverState = "in", !.timeout = "none"])

(* enter and leave clear the other's timer; without a delay they act at once. *)
enter(t) ==
  LET asked == [t EXCEPT !.hoverState = "in", !.timeout = "none"]
  IN  IF "show" \in t.delay THEN [asked EXCEPT !.timeout = "show"] ELSE showTip(asked)

leave(t) ==
  LET asked == [t EXCEPT !.hoverState = "out", !.timeout = "none"]
  IN  IF "hide" \in t.delay THEN [asked EXCEPT !.timeout = "hide"] ELSE hideTip(asked)

toggleTip(t) == IF t.in THEN leave(t) ELSE enter(t)

-----------------------------------------------------------------------------
HasWait(wait) == \E i \in DOMAIN tip.ends : tip.ends[i] = wait
Flickers(t) == t.ends # tip.ends /\ t.in /\ HasWait("shown") /\ HasWait("hidden")

TipBecomes(t, mishap) ==
  /\ Len(t.ends) <= TipBound
  /\ tip' = t
  /\ mishaps' = mishaps \cup mishap \cup (IF Flickers(t) THEN {"flicker"} ELSE {})

(* The mouse, or the focus, comes and goes. *)
PointerIn ==
  /\ tip.bound /\ tip.inDom /\ ~tip.click /\ ~over
  /\ TipBecomes(enter(tip), {})
  /\ over' = TRUE

PointerOut ==
  /\ tip.bound /\ tip.inDom /\ ~tip.click /\ over
  /\ TipBecomes(leave(tip), {})
  /\ over' = FALSE

(* A click on the element of a popover: what it does is read from the tip. *)
ClickTip ==
  /\ tip.bound /\ tip.inDom /\ tip.click
  /\ TipBecomes(toggleTip(tip), {})
  /\ over' = ~tip.in

TipTimer ==
  /\ tip.timeout # "none"
  /\ LET rung == [tip EXCEPT !.timeout = "none"]
     IN  TipBecomes(CASE tip.timeout = "show" /\ tip.hoverState = "in" -> showTip(rung)
                      [] tip.timeout = "hide" /\ tip.hoverState = "out" -> hideTip(rung)
                      [] OTHER -> rung,
                    IF tip.hoverState = "null" THEN {"missed"} ELSE {})
  /\ UNCHANGED over

(* The end of the tip's transition: all that waits runs, in order. *)
TipEnd ==
  /\ tip.ends # <<>>
  /\ LET after[i \in 0..Len(tip.ends)] ==
           IF i = 0 THEN [tip EXCEPT !.ends = <<>>]
           ELSE complete(after[i - 1], tip.ends[i])
     IN  tip' = after[Len(tip.ends)]
  /\ UNCHANGED <<over, mishaps>>

(* enable, disable, toggleEnabled; or the application gives and takes the content. *)
EnableTip ==
  /\ tip.bound
  /\ tip' = [tip EXCEPT !.enabled = ~@]
  /\ UNCHANGED <<over, mishaps>>

(* destroy: hide must go through for the object to be given up. *)
DestroyTip ==
  /\ tip.bound
  /\ TipBecomes([hideTip([tip EXCEPT !.timeout = "none"])
                   EXCEPT !.bound = isDefaultPrevented("hide")],
                IF tip.hoverState = "in" /\ ~(transition /\ tip.fade)
                THEN {"dropped"} ELSE {})
  /\ over' = FALSE

(* A new object for the element, once the old one's tip is gone. *)
MakeTip ==
  /\ ~tip.bound /\ ~tip.attached /\ tip.ends = <<>>
  /\ tip' = [tip EXCEPT !.bound = TRUE, !.hoverState = "null", !.enabled = TRUE,
                        !.in = FALSE, !.fade = FALSE]
  /\ UNCHANGED <<over, mishaps>>

(* The application takes the element away; nothing tells the tip. *)
RemoveElement ==
  /\ tip.inDom
  /\ tip' = [tip EXCEPT !.inDom = FALSE]
  /\ UNCHANGED <<over, mishaps>>

TooltipNext ==
  \/ PointerIn \/ PointerOut \/ ClickTip \/ TipTimer \/ TipEnd
  \/ EnableTip \/ DestroyTip \/ MakeTip \/ RemoveElement

TooltipFairness == WF_tooltipVars(TipTimer) /\ WF_tooltipVars(TipEnd)

-----------------------------------------------------------------------------
TooltipTypeOK ==
  /\ tip \in TipState
  /\ over \in BOOLEAN /\ mishaps \subseteq Mishaps

TipAtRest == tip.timeout = "none" /\ tip.ends = <<>>

(* When timers and transitions are over, a tip that nobody asks for is not in    *)
(* the page, however often it was asked for meanwhile, unless the application    *)
(* keeps it, the timer of leave has missed it, or it was destroyed at the one     *)
(* moment when that leaves it.                                                  *)
UnaskedTipGone ==
  TipAtRest /\ ~over /\ "hide" \notin veto /\ tip.inDom
    /\ mishaps \cap {"missed", "dropped"} = {} => ~tip.attached

(* While the tip is asked for, the end of an earlier fade-out does not take it     *)
(* out of the page after it has been shown again, but where the tip flickers.     *)
TipNotTaken ==
  [][over /\ over' /\ tip.attached /\ tip.in /\ tip'.in /\ "flicker" \notin mishaps'
       => tip'.attached]_tooltipVars

(* A tip whose delay runs is shown when it is over, unless nobody asks for it any   *)
(* more, it is disabled, or the timer misses it.                                 *)
AskedTipComes ==
  (tip.timeout = "show" /\ tip.enabled /\ tip.inDom /\ veto = {}) ~>
    (tip.in \/ ~over \/ ~tip.enabled \/ ~tip.inDom \/ "missed" \in mishaps)

(* A tip is there for who asks for it, and for nobody else.                          *)
TooltipSound == [](TooltipTypeOK /\ UnaskedTipGone) /\ TipNotTaken /\ AskedTipComes

-----------------------------------------------------------------------------
(***************************************************************************)
(* Where the tip goes.  It is put at a side of the element, at the opposite   *)
(* side if it is placed automatically and has no room there, is then pushed    *)
(* along that side into the viewport, and its arrow moved back by as much; the *)
(* arrow keeps its style between two shows.  No step of the tip above reads   *)
(* any of it.                                                                *)
(***************************************************************************)
CONSTANTS ViewWidth, ViewSide,  \* the window's width and height; the body is as wide
          ScrollTop,            \* of the body
          Padding,              \* options.viewport.padding
          Spots,                \* the coordinates the element may have
          Boxes                 \* the measures of its parent, when that is not the body
(* The element is 2 by 2, the tip 4 by 2, so that halves are whole numbers. *)
ASSUME TipPlacementAssumption ==
  /\ {ViewWidth, ViewSide, ScrollTop, Padding} \subseteq Nat /\ Spots \subseteq Nat
  /\ Boxes \subseteq [left : Nat, width : Nat, height : Nat, scroll : Nat]
(* A tip fits into the viewport: one that is larger sticks out at one end. *)
ASSUME ViewportAssumption ==
  ViewWidth >= 4 + 2 * Padding /\ ViewSide >= 4 + 2 * Padding

VARIABLE placed   \* the tip as it was placed last

placeVars == <<placed>>

Sides == {"top", "right", "bottom", "left"}
TipWidth == 4
TipHeight == 2
Size == 2

PlacedState == [side : Sides, left : Int, top : Int, height : Nat,
                x : Nat, y : Nat,                     \* the element, in the page
                arrow : [left : Int, top : Int],      \* its style, as a shift; 0 is none
                room : BOOLEAN,    \* history: automatic, and a side of the two has room
                                   \* where the parent tells as much as the window
                odd : BOOLEAN]     \* history: a style of the arrow is not this tip's

PlacementInit ==
  placed = [side |-> "top", left |-> Padding, top |-> ScrollTop,
            height |-> TipHeight, x |-> Padding + 1,
            y |-> ScrollTop + TipHeight, arrow |-> [left |-> 0, top |-> 0],
            room |-> FALSE, odd |-> FALSE]

-----------------------------------------------------------------------------
opposite == [top |-> "bottom", bottom |-> "top", left |-> "right", right |-> "left"]

(* getPosition of the parent: the body is measured as the window. *)
Body == [left |-> 0, width |-> ViewWidth, height |-> ViewSide, scroll |-> ScrollTop]

(* Mutant: the parent's scrolling is forgotten. *)
overflows_unscrolled(side, x, y, p) ==
  CASE side = "bottom" -> y + Size + TipHeight > p.height
    [] side = "top" -> y - TipHeight < 0
    [] side = "right" -> x + Size + TipWidth > p.width
    [] side = "left" -> x - TipWidth < p.left

(* Whether a tip of the first size goes over the edge of the element's parent p; *)
(* where that is a box of its own, its height and width count from the page's     *)
(* edge, and its scrolling is its own.                                          *)
overflows(side, x, y, p) ==
  CASE side = "bottom" -> y + Size + TipHeight - p.scroll > p.height
    [] side = "top" -> y - p.scroll - TipHeight < 0
    [] side = "right" -> x + Size + TipWidth > p.width
    [] side = "left" -> x - TipWidth < p.left

autoSide(side, auto, x, y, p) ==
  IF auto /\ overflows(side, x, y, p) THEN opposite[side] ELSE side

(* In the side's direction the parent's measures are those of the window. *)
AsWindow(side, p) ==
  IF side \in {"top", "bottom"} THEN p.scroll = ScrollTop /\ p.height = ViewSide
  ELSE p.left = 0 /\ p.width = ViewWidth

(* One of the two sides has room in the window. *)
WindowHasRoom(side, x, y) ==
  ~(overflows(side, x, y, Body) /\ overflows(opposite[side], x, y, Body))

getCalculatedOffset(side, x, y) ==
  CASE side = "bottom" -> [top |-> y + Size, left |-> x + (Size - TipWidth) \div 2]
    [] side = "top" -> [top |-> y - TipHeight, left |-> x + (Size - TipWidth) \div 2]
    [] side = "left" -> [top |-> y + (Size - TipHeight) \div 2, left |-> x - TipWidth]
    [] side = "right" -> [top |-> y + (Size - TipHeight) \div 2, left |-> x + Size]

(* How far the tip is pushed, down or up at the left or right, else sideways. *)
getViewportAdjustedDelta_loose(side, o, h) ==
  LET topEdge == o.top - ScrollTop
      bottomEdge == o.top - ScrollTop + h
      leftEdge == o.left
      rightEdge == o.left + TipWidth
  IN  IF side \in {"left", "right"}
      THEN [left |-> 0,
            top |-> IF topEdge < 0 THEN -topEdge
                    ELSE IF bottomEdge > ViewSide THEN ViewSide - bottomEdge ELSE 0]
      ELSE [top |-> 0,
            left |-> IF leftEdge < 0 THEN -leftEdge
                     ELSE IF rightEdge > ViewWidth THEN ViewWidth - rightEdge ELSE 0]

getViewportAdjustedDelta(side, o, h) ==
  LET topEdge == o.top - Padding - ScrollTop
      bottomEdge == o.top + Padding - ScrollTop + h
      leftEdge == o.left - Padding
      rightEdge == o.left + Padding + TipWidth
  IN  IF side \in {"left", "right"}
      THEN [left |-> 0,
            top |-> IF topEdge < 0 THEN -topEdge
                    ELSE IF bottomEdge > ViewSide THEN ViewSide - bottomEdge ELSE 0]
      ELSE [top |-> 0,
            left |-> IF leftEdge < 0 THEN -leftEdge
                     ELSE IF rightEdge > ViewWidth THEN ViewWidth - rightEdge ELSE 0]

(* replaceArrow styles one of the two: the other keeps what it had. *)
replaceArrow_once(arrow, d, h) ==
  IF d.left # 0 THEN [arrow EXCEPT !.left = d.left]
  ELSE [arrow EXCEPT !.top = d.top + h - TipHeight]

replaceArrow(arrow, d, h) ==
  IF d.left # 0 THEN [arrow EXCEPT !.left = 2 * d.left]
  ELSE [arrow EXCEPT !.top = 2 * d.top + h - TipHeight]

(* applyPlacement: h is the tip's height once it is there, its text may wrap     *)
(* otherwise; above the element the tip moves up by the difference.             *)
applyPlacement(side, x, y, h) ==
  LET o == getCalculatedOffset(side, x, y)
      moved == IF side = "top" THEN [o EXCEPT !.top = @ + TipHeight - h] ELSE o
      d == getViewportAdjustedDelta(side, moved, h)
      arrow == replaceArrow(placed.arrow, d, h)
  IN  [left |-> moved.left + d.left,
       top |-> IF d.left # 0 THEN moved.top ELSE moved.top + d.top,
       arrow |-> arrow,
       odd |-> IF d.left # 0 THEN arrow.top # 0
               ELSE arrow.left # 0 \/ (side \in {"top", "bottom"} /\ arrow.top # 0)]

(* The end of show. *)
Place(side, auto, x, y, h, p) ==
  LET s == autoSide(side, auto, x, y, p)
      at == applyPlacement(s, x, y, h)
  IN  placed' =
        [side |-> s, left |-> at.left, top |-> at.top, height |-> h, x |-> x, y |-> y,
         arrow |-> at.arrow, odd |-> at.odd,
         room |-> auto /\ AsWindow(side, p) /\ WindowHasRoom(side, x, y)]

(* The element is in sight, and as wide as its parent allows. *)
PlacementNext ==
  \E side \in Sides, auto \in BOOLEAN, x \in Spots, y \in Spots,
    h \in {TipHeight, 2 * TipHeight}, p \in Boxes \cup {Body} :
    /\ x >= p.left /\ x + Size <= p.left + p.width
    /\ x + Size <= ViewWidth /\ y >= ScrollTop /\ y + Size <= ScrollTop + ViewSide
    /\ Place(side, auto, x, y, h, p)

-----------------------------------------------------------------------------
PlacementTypeOK == placed \in PlacedState

Beside == placed.side \in {"left", "right"}

(* Wherever the element is, the tip does not stick out of the viewport sideways,  *)
(* or up and down if it is at the left or right, and keeps its distance.          *)
InViewport ==
  IF Beside
    THEN /\ placed.top >= ScrollTop + Padding
         /\ placed.top + placed.height <= ScrollTop + ViewSide - Padding
    ELSE /\ placed.left >= Padding
         /\ placed.left + TipWidth <= ViewWidth - Padding

(* A tip that chooses its side itself is not cut off by the edge of the window     *)
(* where the side asked for or the one opposite has room for it - if its element's *)
(* parent is the body, or measures as much as the window in that direction: a low  *)
(* or a scrolled box misleads it.                                                 *)
SideHasRoom ==
  placed.room /\ placed.height = TipHeight =>
    CASE placed.side = "top" -> placed.top >= ScrollTop
      [] placed.side = "bottom" -> placed.top + TipHeight <= ScrollTop + ViewSide
      [] placed.side = "left" -> placed.left >= 0
      [] placed.side = "right" -> placed.left + TipWidth <= ViewWidth

(* The arrow points at the middle of the element however far the tip was pushed     *)
(* and however its text wrapped, unless a style that an earlier showing, or the    *)
(* wrapping of a tip above or below, has left on it moves it away.                *)
ArrowPoints ==
  ~placed.odd =>
    IF Beside THEN 2 * placed.top + placed.height - placed.arrow.top = 2 * placed.y + Size
    ELSE 2 * placed.left + TipWidth - placed.arrow.left = 2 * placed.x + Size

(* A tip is put where it can be read and seen to belong.                            *)
PlacementSound == PlacementTypeOK /\ InViewport /\ SideHasRoom /\ ArrowPoints
=============================================================================
