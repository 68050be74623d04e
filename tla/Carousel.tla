------------------------------- MODULE Carousel -------------------------------
(***************************************************************************)
(* bootstrap.js, carousel: items shown in turn, by an interval, by buttons,  *)
(* keys, indicators and scripts.  A slide takes a transition; calls of       *)
(* next and prev are dropped while it lasts, a call of to is put off until   *)
(* the event slid, which comes in a timer after the end of the slide.        *)
(***************************************************************************)
EXTENDS Transitions

CONSTANTS Slides,       \* how many items there are
          WaitingBound  \* calls of to that wait for the event slid
ASSUME CarouselAssumption == Slides \in Nat \ {0} /\ WaitingBound \in Nat

VARIABLES
  carousel,  \* the object and the classes of its items
  hovered    \* history: the mouse is on it, and nobody has restarted it since

carouselVars == <<carousel, hovered>>

Item == 0..(Slides - 1)
NoItem == Slides

CarouselState == [
  active : SUBSET Item, coming : Item \cup {NoItem},  \* classes active; next or prev
  indicator : Item, sliding : BOOLEAN,
  ends : Seq([from : SUBSET Item, to : Item]),        \* slides that wait for their end
  paused : BOOLEAN, interval : BOOLEAN,
  live : Nat,                                         \* intervals the browser has
  waiting : Seq(Item), slid : BOOLEAN,                \* calls of to, the event to come
  wrap : BOOLEAN, always : BOOLEAN]                   \* options: wrap, an interval

CarouselInit(all) ==
  /\ carousel \in some([active : {{0}}, coming : {NoItem}, indicator : {0},
                        sliding : {FALSE}, ends : {<<>>}, paused : {FALSE},
                        interval : {FALSE}, live : {0}, waiting : {<<>>},
                        slid : {FALSE}, wrap : BOOLEAN, always : BOOLEAN], all)
  /\ hovered = FALSE

-----------------------------------------------------------------------------
clearInterval_again(c) == [c EXCEPT !.live = @ - 1, !.interval = FALSE]

clearInterval(c) ==
  [c EXCEPT !.live = IF c.interval THEN @ - 1 ELSE @, !.interval = FALSE]

cycle_leak(c, event) ==
  LET asked == [c EXCEPT !.paused = @ /\ event]
  IN  IF asked.always /\ ~asked.paused
      THEN [asked EXCEPT !.live = @ + 1, !.interval = TRUE] ELSE asked

(* cycle: as the handler of an event it does not end a pause. *)
cycle(c, event) ==
  LET asked == [clearInterval(c) EXCEPT !.paused = @ /\ event]
  IN  IF asked.always /\ ~asked.paused
      THEN [asked EXCEPT !.live = @ + 1, !.interval = TRUE] ELSE asked

(* pause: the end of transition it triggers is the carousel's, not the item's:  *)
(* nobody waits for it; the interval that cycle sets is cleared at once.        *)
pause(c, event) ==
  LET asked == [c EXCEPT !.paused = @ \/ ~event]
  IN  clearInterval(IF c.coming # NoItem /\ transition THEN cycle(asked, TRUE)
                    ELSE asked)

arrive_sliding(c, from, to) ==
  [c EXCEPT !.active = (@ \ from) \cup {to}, !.coming = NoItem]

arrive(c, from, to) ==
  [c EXCEPT !.active = (@ \ from) \cup {to}, !.coming = NoItem, !.sliding = FALSE]

slide_cycle(c, to) ==
  IF to = NoItem \/ isDefaultPrevented("show") \/ to \in c.active THEN c
  ELSE LET shown == [c EXCEPT !.indicator = to]
       IN  cycle(IF transition
                 THEN [shown EXCEPT !.sliding = TRUE, !.coming = to,
                         !.ends = Append(@, [from |-> c.active, to |-> to])]
                 ELSE arrive(shown, c.active, to), FALSE)

slide_late(c, to) ==
  IF to = NoItem \/ isDefaultPrevented("show") \/ to \in c.active THEN c
  ELSE IF transition
       THEN [c EXCEPT !.sliding = TRUE, !.coming = to,
                      !.ends = Append(@, [from |-> c.active, to |-> to])]
       ELSE arrive([c EXCEPT !.indicator = to], c.active, to)

(* slide: nothing where there is nowhere to go or the application prevents it;   *)
(* a carousel that was cycling starts its interval anew.                        *)
slide(c, to) ==
  IF to = NoItem THEN c
  ELSE IF to \in c.active THEN [c EXCEPT !.sliding = FALSE]
  ELSE IF isDefaultPrevented("show") THEN c
  ELSE LET held == IF c.interval THEN pause(c, FALSE) ELSE c
           shown == [held EXCEPT !.indicator = to]
           begun == IF transition
                    THEN [shown EXCEPT !.sliding = TRUE, !.coming = to,
                            !.ends = Append(@, [from |-> c.active, to |-> to])]
                    ELSE arrive(shown, c.active, to)
       IN  IF c.interval THEN cycle(begun, FALSE) ELSE begun

activeIndex(c) == CHOOSE i \in c.active : \A j \in c.active : i <= j

following(c) ==
  LET i == activeIndex(c) + 1
  IN  IF i < Slides THEN i ELSE IF c.wrap THEN 0 ELSE NoItem

preceding(c) ==
  LET i == activeIndex(c)
  IN  IF i > 0 THEN i - 1 ELSE IF c.wrap THEN Slides - 1 ELSE NoItem

(* next and prev. *)
step(c, type) ==
  IF c.sliding THEN c
  ELSE slide(c, IF type = "next" THEN following(c) ELSE preceding(c))

(* to(i): waits while a slide lasts; the active item only restarts the cycle. *)
to(c, i) ==
  IF c.sliding THEN [c EXCEPT !.waiting = Append(@, i)]
  ELSE IF activeIndex(c) = i THEN cycle(pause(c, FALSE), FALSE)
  ELSE slide(c, i)

-----------------------------------------------------------------------------
(* The buttons and the arrow keys. *)
ClickStep(type) ==
  /\ carousel' = step(carousel, type)
  /\ UNCHANGED hovered

(* An indicator, or a script's carousel(i). *)
ClickIndicator(i) ==
  /\ carousel.sliding => Len(carousel.waiting) < WaitingBound
  /\ carousel' = to(carousel, i)
  /\ hovered' = (hovered /\ (carousel.sliding \/ activeIndex(carousel) # i))

IntervalTick ==
  /\ carousel.live > 0
  /\ carousel' = step(carousel, "next")
  /\ UNCHANGED hovered

(* The mouse comes to the carousel, and leaves it. *)
MouseEnter == carousel' = pause(carousel, TRUE) /\ hovered' = TRUE
MouseLeave == carousel' = cycle(carousel, TRUE) /\ hovered' = FALSE

(* Scripts; the page itself starts the carousel with pause().cycle(). *)
CallCarousel(option) ==
  /\ carousel' = IF option = "pause" THEN pause(carousel, FALSE)
                 ELSE IF option = "cycle" THEN cycle(carousel, FALSE)
                 ELSE IF carousel.always THEN cycle(pause(carousel, FALSE), FALSE)
                 ELSE carousel
  /\ hovered' = (hovered /\ option = "pause")

SlideEnd_silent(c) == arrive(c, Head(c.ends).from, Head(c.ends).to)

SlideEnds(c) == [arrive(c, Head(c.ends).from, Head(c.ends).to) EXCEPT !.slid = TRUE]

(* The end of a slide; the timer of slid, set then, runs before another's end. *)
SlideEnd ==
  /\ carousel.ends # <<>> /\ ~carousel.slid
  /\ carousel' = [SlideEnds(carousel) EXCEPT !.ends = Tail(@)]
  /\ UNCHANGED hovered

(* The event slid: all that waited is called again, and may wait again. *)
Slid ==
  /\ carousel.slid
  /\ LET queue == carousel.waiting
         after[i \in 0..Len(queue)] ==
           IF i = 0 THEN [carousel EXCEPT !.waiting = <<>>, !.slid = FALSE]
           ELSE to(after[i - 1], queue[i])
         restarts == \E i \in DOMAIN queue :
           ~after[i - 1].sliding /\ activeIndex(after[i - 1]) = queue[i]
     IN  /\ carousel' = after[Len(queue)]
         /\ hovered' = (hovered /\ ~restarts)

CarouselNext ==
  \/ \E type \in {"next", "prev"} : ClickStep(type)
  \/ \E i \in Item : ClickIndicator(i)
  \/ \E option \in {"pause", "cycle", "ride"} : CallCarousel(option)
  \/ IntervalTick \/ MouseEnter \/ MouseLeave \/ SlideEnd \/ Slid

CarouselFairness == WF_carouselVars(SlideEnd) /\ WF_carouselVars(Slid)

-----------------------------------------------------------------------------
CarouselTypeOK == carousel \in CarouselState /\ hovered \in BOOLEAN

(* Whatever clicks, keys, ticks and calls come while an item slides, exactly    *)
(* one item is active, and the indicator is the item's that is shown or coming. *)
OneItemActive ==
  IF carousel.sliding
    THEN Cardinality(carousel.active) = 1 /\ carousel.coming = carousel.indicator
    ELSE carousel.active = {carousel.indicator}

(* No interval goes on that the object has lost hold of: the browser has one   *)
(* exactly while the object holds one, and a paused carousel has none.          *)
OneInterval ==
  /\ carousel.live = (IF carousel.interval THEN 1 ELSE 0)
  /\ carousel.paused => ~carousel.interval

(* While the mouse is on the carousel it does not go on by itself: clicks that  *)
(* move it do not start the interval again, only a call that restarts it does.  *)
HoverHolds == hovered => carousel.live = 0

(* A call of to that was put off is not forgotten: there is a slide that will   *)
(* end, or an event slid that is to come.                                       *)
WaitersHeard == carousel.waiting # <<>> => carousel.ends # <<>> \/ carousel.slid

(* A slide ends. *)
SlidesArrive == carousel.sliding ~> ~carousel.sliding

(* One item, one interval, none under the mouse, no call forgotten, no slide stuck.   *)
CarouselSound ==
  /\ [](CarouselTypeOK /\ OneItemActive /\ OneInterval /\ HoverHolds /\ WaitersHeard)
  /\ SlidesArrive
=============================================================================
