--------------------------------- MODULE Modal ---------------------------------
(***************************************************************************)
(* bootstrap.js, modal: dialogs over the page.  Showing one puts up its       *)
(* backdrop, and when that has faded in the dialog, which traps the focus;    *)
(* hiding one fades the dialog out, then takes the backdrop away, in another   *)
(* transition.  Links, scripts and keys may come in between.                  *)
(***************************************************************************)
EXTENDS Transitions

CONSTANTS Modals,
          CurtainBound,  \* backdrops of one modal that the page holds at once
          HideBound      \* hides of one modal that wait for their transition
ASSUME ModalAssumption ==
  /\ IsFiniteSet(Modals) /\ "none" \notin Modals
  /\ CurtainBound \in Nat /\ HideBound \in Nat \ {0}

VARIABLES
  modal,      \* each modal: its object, its classes and what waits for a transition
  body,       \* the body's class and padding, whose focus trap is set
  hasty,      \* history: shown while it was going, or hidden while it was coming
  stacked     \* history: a modal was shown over another one

modalVars == <<modal, body, hasty, stacked>>

Curtain == 1..CurtainBound
Waits == Seq({"show", "hidden", "remove"})

ModalState == [
  isShown : BOOLEAN,
  visible : BOOLEAN, in : BOOLEAN,            \* of the element: displayed, class in
  useBackdrop : BOOLEAN,                      \* options.backdrop
  curtains : SUBSET Curtain,                  \* its backdrops in the page
  waits : [Curtain -> Waits],                 \* what waits for their transitions
  held : 0..CurtainBound,                     \* $backdrop
  hides : 0..HideBound,                       \* hideModal, waiting
  bar : BOOLEAN]                              \* scrollbarWidth is known

(* The page is longer than the window: it has a scroll bar but for the class. *)
BodyState == [open : BOOLEAN, padding : Nat, trap : Modals \cup {"none"}]

ModalInit(all) ==
  /\ \E used \in some(BOOLEAN, all) :
       modal = [m \in Modals |-> [
         isShown |-> FALSE, visible |-> FALSE, in |-> FALSE, useBackdrop |-> used,
         curtains |-> {}, waits |-> [i \in Curtain |-> <<>>], held |-> 0,
         hides |-> 0, bar |-> FALSE]]
  /\ body = [open |-> FALSE, padding |-> 0, trap |-> "none"]
  /\ hasty = FALSE /\ stacked = FALSE

-----------------------------------------------------------------------------
(* The operators below change a page: the modals and the body. *)
Page == [of |-> modal, body |-> body]

removeBackdrop(s) ==
  [s EXCEPT !.curtains = @ \ {s.held},
            !.waits = [i \in Curtain |-> IF i = s.held THEN <<>> ELSE @[i]],
            !.held = 0]

(* The end of show: the dialog appears and keeps the focus. *)
appear(g, m) ==
  [g EXCEPT !.of[m].visible = TRUE, !.of[m].in = TRUE, !.body.trap = m]

(* What waits for a backdrop: the end of show, or only the event hidden, or the *)
(* removal of the backdrop that the modal has by then.                         *)
run(g, m, wait) ==
  CASE wait = "show" -> appear(g, m)
    [] wait = "hidden" -> g
    [] wait = "remove" -> [g EXCEPT !.of[m] = removeBackdrop(@)]

Free(s) == Curtain \ s.curtains

raise_silent(s, wait) ==
  LET i == CHOOSE j \in Free(s) : \A k \in Free(s) : j <= k
  IN  [s EXCEPT !.curtains = @ \cup {i}, !.held = i]

raise(s, wait) ==
  LET i == CHOOSE j \in Free(s) : \A k \in Free(s) : j <= k
  IN  [s EXCEPT !.curtains = @ \cup {i}, !.held = i,
                !.waits[i] = IF transition THEN <<wait>> ELSE <<>>]

(* backdrop: the modal's state by then decides whether one comes or goes. *)
backdrop(g, m, wait) ==
  LET s == g.of[m]
      raised == [g EXCEPT !.of[m] = raise(@, wait)]
  IN  IF s.isShown /\ s.useBackdrop
        THEN IF transition THEN raised ELSE run(raised, m, wait)
      ELSE IF ~s.isShown /\ s.held # 0
        THEN IF transition
               THEN [g EXCEPT !.of[m].waits[s.held] = Append(@, "remove")]
               ELSE run(g, m, "remove")
      ELSE run(g, m, wait)

hideModal_bare(g, m) == [g EXCEPT !.of[m].visible = FALSE]

hideModal(g, m) == backdrop([g EXCEPT !.of[m].visible = FALSE], m, "hidden")

(* checkScrollbar and setScrollbar: the scroll bar that the class takes away. *)
setScrollbar(g, m) ==
  LET bar == g.of[m].bar \/ ~g.body.open
  IN  [g EXCEPT !.of[m].bar = bar, !.body.open = TRUE,
                !.body.padding = IF bar THEN @ + 1 ELSE @]

showModal(g, m) ==
  IF g.of[m].isShown \/ isDefaultPrevented("show") THEN g
  ELSE backdrop(setScrollbar([g EXCEPT !.of[m].isShown = TRUE], m), m, "show")

hideModalBegin_trap(g, m) ==
  IF ~g.of[m].isShown \/ isDefaultPrevented("hide") THEN g
  ELSE LET gone == [g EXCEPT !.of[m].isShown = FALSE, !.of[m].in = FALSE,
                             !.body.open = FALSE, !.body.padding = 0]
       IN  IF transition THEN [gone EXCEPT !.of[m].hides = @ + 1] ELSE hideModal(gone, m)

(* hide: everything but the dialog and the backdrop goes at once. *)
hideModalBegin(g, m) ==
  IF ~g.of[m].isShown \/ isDefaultPrevented("hide") THEN g
  ELSE LET gone == [g EXCEPT !.of[m].isShown = FALSE, !.of[m].in = FALSE,
                             !.body.open = FALSE, !.body.padding = 0,
                             !.body.trap = "none"]
       IN  IF transition THEN [gone EXCEPT !.of[m].hides = @ + 1]
           ELSE hideModal(gone, m)

toggleModal(g, m) == IF g.of[m].isShown THEN hideModalBegin(g, m) ELSE showModal(g, m)

-----------------------------------------------------------------------------
Going(m) == modal[m].hides > 0 \/ \E i \in Curtain : \E k \in DOMAIN modal[m].waits[i] :
                                    modal[m].waits[i][k] # "show"
Coming(m) == \E i \in Curtain : \E k \in DOMAIN modal[m].waits[i] :
               modal[m].waits[i][k] = "show"

(* The step to page g, within the bounds, and what it means for the histories. *)
Becomes(g, m) ==
  LET shown == g.of[m].isShown /\ ~modal[m].isShown
      hidden == ~g.of[m].isShown /\ modal[m].isShown
  IN  /\ shown /\ modal[m].useBackdrop => Free(modal[m]) # {}
      /\ modal' = g.of /\ body' = g.body
      /\ hasty' = (hasty \/ (shown /\ Going(m)) \/ (hidden /\ Coming(m)))
      /\ stacked' = (stacked \/ (shown /\ \E o \in Modals \ {m} : modal[o].isShown))

Room(m) ==
  /\ modal[m].isShown => modal[m].hides < HideBound
  /\ modal[m].useBackdrop /\ ~modal[m].isShown => Free(modal[m]) # {}

(* The data-api's links, and a script's $(modal).modal(option); a link whose    *)
(* modal has no object yet makes one and shows it, as toggle does then.        *)
CallModal(m, option) ==
  /\ Room(m)
  /\ Becomes(CASE option = "show" -> showModal(Page, m)
               [] option = "hide" -> hideModalBegin(Page, m)
               [] option = "toggle" -> toggleModal(Page, m), m)

(* Escape, the close button, or a click beside the dialog. *)
DismissModal(m) ==
  /\ modal[m].visible /\ modal[m].isShown /\ Room(m)
  /\ Becomes(hideModalBegin(Page, m), m)

(* The end of a backdrop's transition: all that waits runs, in order. *)
CurtainEnd(m, i) ==
  /\ modal[m].waits[i] # <<>>
  /\ LET queue == modal[m].waits[i]
         after[k \in 0..Len(queue)] ==
           IF k = 0 THEN [Page EXCEPT !.of[m].waits[i] = <<>>]
           ELSE run(after[k - 1], m, queue[k])
     IN  Becomes(after[Len(queue)], m)

HideEnd(m) ==
  /\ modal[m].hides > 0
  /\ modal[m].isShown /\ modal[m].useBackdrop => Cardinality(Free(modal[m])) >= modal[m].hides
  /\ LET after[k \in 0..modal[m].hides] ==
           IF k = 0 THEN [Page EXCEPT !.of[m].hides = 0] ELSE hideModal(after[k - 1], m)
     IN  Becomes(after[modal[m].hides], m)

ModalNext ==
  \E m \in Modals :
    \/ \E option \in {"show", "hide", "toggle"} : CallModal(m, option)
    \/ DismissModal(m)
    \/ \E i \in Curtain : CurtainEnd(m, i)
    \/ HideEnd(m)

ModalFairness ==
  \A m \in Modals :
    /\ WF_modalVars(HideEnd(m))
    /\ \A i \in Curtain : WF_modalVars(CurtainEnd(m, i))

-----------------------------------------------------------------------------
ModalTypeOK ==
  /\ modal \in [Modals -> ModalState]
  /\ body \in BodyState
  /\ hasty \in BOOLEAN /\ stacked \in BOOLEAN

ModalAtRest(m) == modal[m].hides = 0 /\ \A i \in Curtain : modal[m].waits[i] = <<>>

(* As long as each modal is let finish and none is put over another, a modal     *)
(* that rests is all there or all gone: dialog, class, one backdrop and no other. *)
(* That one modal may come while another goes is part of it.  In haste the code    *)
(* leaves backdrops that nothing removes, and a focus trap that nothing lifts.     *)
AllThereOrAllGone ==
  ~hasty => \A m \in Modals : ModalAtRest(m) =>
    /\ modal[m].visible = modal[m].isShown /\ modal[m].in = modal[m].isShown
    /\ modal[m].curtains = (IF modal[m].isShown /\ modal[m].useBackdrop
                            THEN {modal[m].held} ELSE {})

(* The page scrolls again, and has its padding back, exactly when no modal is     *)
(* shown, even in haste; and, but for haste, the focus is trapped by none that    *)
(* is not shown.                                                                 *)
PageGivenBack ==
  ~stacked =>
    /\ body.open <=> \E m \in Modals : modal[m].isShown
    /\ body.padding = (IF body.open THEN 1 ELSE 0)
    /\ body.trap # "none" /\ ~hasty => modal[body.trap].isShown

(* A modal that is shown and nobody hides is seen in the end, however soon after  *)
(* another one's hiding it was shown.                                            *)
ShownAppears ==
  \A m \in Modals : (modal[m].isShown /\ ~hasty) ~>
    ((modal[m].visible /\ modal[m].in) \/ ~modal[m].isShown \/ hasty)

(* A modal let finish is all there or all gone, the page is given back with the last,  *)
(* and one that is shown does appear.                                              *)
ModalSound == [](ModalTypeOK /\ AllThereOrAllGone /\ PageGivenBack) /\ ShownAppears
=============================================================================
