--------------------------------- MODULE Affix ---------------------------------
(***************************************************************************)
(* bootstrap.js, affix: an element that is in its place at the top of the      *)
(* page, fixed on the screen further down, and stops above the foot of the     *)
(* page.  Each check reads where the element is, and that depends on the        *)
(* check before.                                                             *)
(***************************************************************************)
EXTENDS Transitions, Integers

CONSTANTS PageHeights,    \* of the document, which grows and shrinks
          AffixHeight,    \* of the element
          OffsetTop, OffsetBottom,  \* options.offset
          StaticTop,      \* where the element is in the page when not fixed
          FixedTop,       \* and on the screen when fixed
          ScreenHeight

(* The head and the foot of the page do not meet on the screen. *)
ASSUME AffixAssumption ==
  /\ {AffixHeight, OffsetTop, OffsetBottom, StaticTop, FixedTop, ScreenHeight} \subseteq Nat
  /\ PageHeights # {}
  /\ \A h \in PageHeights :
       /\ h \in Nat /\ h >= ScreenHeight
       /\ OffsetTop + FixedTop + AffixHeight < h - OffsetBottom
       /\ StaticTop + AffixHeight < h - OffsetBottom

VARIABLES
  affix,     \* the page, the scroll position, the element's state
  settled    \* history: how often it was checked with the page as it is, up to 2

affixVars == <<affix, settled>>

AffixState == [affixed : {"null", "top", "false", "bottom"},
               unpin : BOOLEAN,                \* not null: the pinned offset, FixedTop
               cssTop : Nat,                   \* where offset() put the element
               scrollTop : Nat, height : PageHeights,
               visible : BOOLEAN, timer : BOOLEAN]

ScrollTops(h) == 0..(h - ScreenHeight)
Lower(a, b) == IF a <= b THEN a ELSE b

-----------------------------------------------------------------------------
positionTop(a) ==
  CASE a.affixed = "false" -> a.scrollTop + FixedTop
    [] a.affixed = "bottom" -> a.cssTop
    [] OTHER -> StaticTop

zone_unpinned(a) ==
  IF positionTop(a) + AffixHeight >= a.height - OffsetBottom THEN "bottom"
  ELSE IF a.scrollTop <= OffsetTop THEN "top"
  ELSE "false"

(* What the element should be, by where it is now; false is fixed. *)
zone(a) ==
  IF a.unpin /\ a.scrollTop + FixedTop <= positionTop(a) THEN "false"
  ELSE IF positionTop(a) + AffixHeight >= a.height - OffsetBottom THEN "bottom"
  ELSE IF a.scrollTop <= OffsetTop THEN "top"
  ELSE "false"

(* checkPosition: the application may prevent the change. *)
checkPosition(a) ==
  IF ~a.visible \/ zone(a) = a.affixed \/ isDefaultPrevented("show") THEN a
  ELSE [a EXCEPT !.affixed = zone(a), !.unpin = zone(a) = "bottom",
                 !.cssTop = IF zone(a) = "bottom"
                            THEN a.height - AffixHeight - OffsetBottom ELSE 0]

AffixInit(all) ==
  /\ \E h \in some(PageHeights, all) : \E s \in some(ScrollTops(h), all) :
       affix = checkPosition([affixed |-> "null", unpin |-> FALSE, cssTop |-> 0,
                              scrollTop |-> s, height |-> h, visible |-> TRUE,
                              timer |-> FALSE])
  /\ settled = 0

Again == IF settled < 2 THEN settled + 1 ELSE 2

(* A scroll event, of a scroll that moved or not. *)
AffixScroll(s) ==
  /\ affix' = checkPosition([affix EXCEPT !.scrollTop = s])
  /\ settled' = IF ~affix.visible THEN 0
                ELSE IF s = affix.scrollTop THEN Again ELSE 1

(* A click may change the page; the check comes in a timer after it. *)
AffixClick(h) ==
  /\ affix' = [affix EXCEPT !.height = h, !.timer = TRUE,
                            !.scrollTop = Lower(@, h - ScreenHeight)]
  /\ settled' = IF h = affix.height THEN settled ELSE 0

AffixTimer ==
  /\ affix.timer
  /\ affix' = checkPosition([affix EXCEPT !.timer = FALSE])
  /\ settled' = IF affix.visible THEN Again ELSE 0

(* The element is hidden, or shown again, by a style. *)
AffixVisible ==
  /\ affix' = [affix EXCEPT !.visible = ~@]
  /\ settled' = 0

AffixNext ==
  \/ \E s \in ScrollTops(affix.height) : AffixScroll(s)
  \/ \E h \in PageHeights : AffixClick(h)
  \/ AffixTimer \/ AffixVisible

AffixFairness == WF_affixVars(AffixTimer)

-----------------------------------------------------------------------------
AffixTypeOK == affix \in AffixState /\ settled \in 0..2

Bottom(a) == a.height - OffsetBottom - AffixHeight
Meets(a) == a.scrollTop + FixedTop = Bottom(a)

(* By the second check at one place, however far the jump to it and whatever the   *)
(* page's height was before, the element is what that place alone calls for; only  *)
(* where it exactly meets the foot it goes to and fro.                           *)
SettledByPlace ==
  settled = 2 /\ "show" \notin veto /\ ~Meets(affix) =>
    affix.affixed = (IF affix.scrollTop + FixedTop > Bottom(affix) THEN "bottom"
                     ELSE IF affix.scrollTop <= OffsetTop THEN "top" ELSE "false")

(* And then it does not lie over the foot of the page, but where the page has      *)
(* become a little shorter since it was put above the foot: checkPosition returns  *)
(* early and leaves it, yet never further down than it would be on the screen.     *)
FootFree ==
  settled = 2 /\ "show" \notin veto /\ ~Meets(affix) =>
    positionTop(affix) <= Bottom(affix) \/ positionTop(affix) < affix.scrollTop + FixedTop
=============================================================================
