---------------------------- MODULE BootstrapPage ----------------------------
(***************************************************************************)
(* bootstrap.js as a page loads it: all the widgets, of which a behaviour      *)
(* follows one.  They share the transitions and the application's handlers,    *)
(* no state: what one widget does leaves the others as they are.               *)
(***************************************************************************)
EXTENDS Alert, Button, Dropdown, Tab, Carousel, Collapse, Modal, Tooltip,
        ScrollSpy, Affix

VARIABLE widget   \* the one the behaviour is about

Widgets == {"alert", "button", "dropdown", "tab", "carousel", "collapse", "modal",
            "tooltip", "placement", "scrollspy", "affix"}

vars == <<pageVars, alertVars, buttonVars, dropdownVars, tabVars, carouselVars,
          collapseVars, modalVars, tooltipVars, placeVars, spyVars, affixVars, widget>>

(* The events of a widget that can be prevented, and the widgets with transitions. *)
Prevented(w) ==
  CASE w \in {"dropdown", "collapse", "modal", "tooltip"} -> {"show", "hide"}
    [] w \in {"tab", "carousel", "affix"} -> {"show"}
    [] w = "alert" -> {"hide"}
    [] OTHER -> {}
Fading == {"alert", "tab", "carousel", "collapse", "modal", "tooltip"}

Init ==
  /\ widget \in Widgets
  /\ PageInit
  /\ veto \subseteq Prevented(widget) /\ (transition => widget \in Fading)
  /\ AlertInit
  /\ ButtonInit(widget = "button")
  /\ DropdownInit(widget = "dropdown")
  /\ TabInit(widget = "tab")
  /\ CarouselInit(widget = "carousel")
  /\ CollapseInit(widget = "collapse")
  /\ ModalInit(widget = "modal")
  /\ TooltipInit(widget = "tooltip")
  /\ PlacementInit
  /\ ScrollSpyInit(widget = "scrollspy")
  /\ AffixInit(widget = "affix")

(* The step of one widget. *)
Only(w, others) == widget = w /\ UNCHANGED <<pageVars, widget, others>>

AlertStep ==
  /\ Only("alert", <<buttonVars, dropdownVars, tabVars, carouselVars, collapseVars,
                     modalVars, tooltipVars, placeVars, spyVars, affixVars>>)
  /\ AlertNext
ButtonStep ==
  /\ Only("button", <<alertVars, dropdownVars, tabVars, carouselVars, collapseVars,
                      modalVars, tooltipVars, placeVars, spyVars, affixVars>>)
  /\ ButtonNext
DropdownStep ==
  /\ Only("dropdown", <<alertVars, buttonVars, tabVars, carouselVars, collapseVars,
                        modalVars, tooltipVars, placeVars, spyVars, affixVars>>)
  /\ DropdownNext
TabStep ==
  /\ Only("tab", <<alertVars, buttonVars, dropdownVars, carouselVars, collapseVars,
                   modalVars, tooltipVars, placeVars, spyVars, affixVars>>)
  /\ TabNext
CarouselStep ==
  /\ Only("carousel", <<alertVars, buttonVars, dropdownVars, tabVars, collapseVars,
                        modalVars, tooltipVars, placeVars, spyVars, affixVars>>)
  /\ CarouselNext
CollapseStep ==
  /\ Only("collapse", <<alertVars, buttonVars, dropdownVars, tabVars, carouselVars,
                        modalVars, tooltipVars, placeVars, spyVars, affixVars>>)
  /\ CollapseNext
ModalStep ==
  /\ Only("modal", <<alertVars, buttonVars, dropdownVars, tabVars, carouselVars,
                     collapseVars, tooltipVars, placeVars, spyVars, affixVars>>)
  /\ ModalNext
TooltipStep ==
  /\ Only("tooltip", <<alertVars, buttonVars, dropdownVars, tabVars, carouselVars,
                       collapseVars, modalVars, placeVars, spyVars, affixVars>>)
  /\ TooltipNext
PlacementStep ==
  /\ Only("placement", <<alertVars, buttonVars, dropdownVars, tabVars, carouselVars,
                         collapseVars, modalVars, tooltipVars, spyVars, affixVars>>)
  /\ PlacementNext
ScrollSpyStep ==
  /\ Only("scrollspy", <<alertVars, buttonVars, dropdownVars, tabVars, carouselVars,
                         collapseVars, modalVars, tooltipVars, placeVars, affixVars>>)
  /\ ScrollSpyNext
AffixStep ==
  /\ Only("affix", <<alertVars, buttonVars, dropdownVars, tabVars, carouselVars,
                     collapseVars, modalVars, tooltipVars, placeVars, spyVars>>)
  /\ AffixNext

Next ==
  \/ AlertStep \/ ButtonStep \/ DropdownStep \/ TabStep \/ CarouselStep
  \/ CollapseStep \/ ModalStep \/ TooltipStep \/ PlacementStep \/ ScrollSpyStep
  \/ AffixStep

(* Transitions end and timers ring, whatever the reader does meanwhile. *)
Fairness ==
  /\ AlertFairness /\ ButtonFairness /\ TabFairness /\ CarouselFairness
  /\ CollapseFairness /\ ModalFairness /\ TooltipFairness /\ AffixFairness

Spec == Init /\ [][Next]_vars /\ Fairness

(* The scroll spy and the pinned element follow the page's scrolling: at the second   *)
(* event of a place they are what the place alone calls for, whatever came before.    *)
ScrollFollowed ==
  /\ ScrollSpyTypeOK /\ ActiveIsCurrent /\ HeightNoticed
  /\ AffixTypeOK /\ SettledByPlace /\ FootFree
=============================================================================
