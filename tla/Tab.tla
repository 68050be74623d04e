---------------------------------- MODULE Tab ----------------------------------
(***************************************************************************)
(* bootstrap.js, tab: a list of tabs and the panes they show.  The tab is    *)
(* switched at once; the pane, when panes fade, only after the old one has   *)
(* faded out, and meanwhile other tabs may be clicked.                       *)
(***************************************************************************)
EXTENDS Transitions

CONSTANTS Tabs,
          SwitchBound   \* how many switches wait for one pane's transition
ASSUME TabAssumption == IsFiniteSet(Tabs) /\ SwitchBound \in Nat \ {0}

VARIABLES
  tabs,       \* the tabs whose list items have the class active
  pane,       \* each pane's classes and the switches that wait for its transition
  hurried     \* history: a tab was clicked while a pane faded

tabVars == <<tabs, pane, hurried>>

Switch == [from : SUBSET Tabs, to : Tabs]
PaneState == [active : BOOLEAN, in : BOOLEAN, fade : BOOLEAN, ends : Seq(Switch)]

(* The page comes with at most one tab active, and panes that all fade or none. *)
TabInit(all) ==
  /\ tabs \in some({{}} \cup {{t} : t \in Tabs}, all)
  /\ \E fade \in some(BOOLEAN, all) :
       pane = [t \in Tabs |-> [active |-> t \in tabs, in |-> t \in tabs,
                               fade |-> fade, ends |-> <<>>]]
  /\ hurried = FALSE

Shown(t) == pane[t].active /\ (pane[t].in \/ ~pane[t].fade)
TabsAtRest == \A t \in Tabs : pane[t].ends = <<>>

-----------------------------------------------------------------------------
next_keepFade(f, c, fading) ==
  [t \in Tabs |->
    [f[t] EXCEPT !.active = t = c.to \/ (@ /\ t \notin c.from),
                 !.in = @ \/ (t = c.to /\ fading)]]

(* next: from loses the class active and to gets it, in with it if panes fade; *)
(* without a transition the pane that comes loses the class fade for good.     *)
next(f, c, fading) ==
  [t \in Tabs |->
    [f[t] EXCEPT !.active = t = c.to \/ (@ /\ t \notin c.from),
                 !.in = @ \/ (t = c.to /\ fading),
                 !.fade = @ /\ ~(t = c.to /\ ~fading)]]

Fades(f, from) == transition /\ \E t \in from : f[t].fade

(* activate of a pane: each of the active panes waits, and all lose the class in. *)
activate(f, to) ==
  LET from == {t \in Tabs : f[t].active}
      c == [from |-> from, to |-> to]
      waiting == [t \in Tabs |->
        IF t \in from THEN [f[t] EXCEPT !.ends = Append(@, c)] ELSE f[t]]
      switched == IF Fades(f, from) THEN waiting ELSE next(f, c, FALSE)
  IN  [t \in Tabs |-> [switched[t] EXCEPT !.in = @ /\ t \notin from]]

(* The data-api, or a script's show: nothing for the active tab. *)
ShowTab(t) ==
  /\ t \notin tabs /\ ~isDefaultPrevented("show")
  /\ \A u \in Tabs : Len(pane[u].ends) < SwitchBound
  /\ tabs' = {t}
  /\ pane' = activate(pane, t)
  /\ hurried' = (hurried \/ ~TabsAtRest)

TabEnd(t) ==
  /\ pane[t].ends # <<>>
  /\ LET after[i \in 0..Len(pane[t].ends)] ==
           IF i = 0 THEN [pane EXCEPT ![t].ends = <<>>]
           ELSE next(after[i - 1], pane[t].ends[i], TRUE)
     IN  pane' = after[Len(pane[t].ends)]
  /\ UNCHANGED <<tabs, hurried>>

TabNext == \E t \in Tabs : ShowTab(t) \/ TabEnd(t)

TabFairness == \A t \in Tabs : WF_tabVars(TabEnd(t))

-----------------------------------------------------------------------------
TabTypeOK ==
  /\ tabs \in SUBSET Tabs
  /\ pane \in [Tabs -> PaneState]
  /\ hurried \in BOOLEAN

(* Once the transitions are over, the pane of the active tab is the one pane    *)
(* that is active, and it can be seen, if nobody clicked during a transition:   *)
(* a click in haste finds the old pane still active and leaves two.            *)
PaneOfTab ==
  TabsAtRest /\ ~hurried =>
    {t \in Tabs : pane[t].active} = tabs /\ \A t \in tabs : Shown(t)

(* However tabs are clicked, once a tab is active and the transitions are over  *)
(* some pane can be seen: no order of ends leaves an empty box.                 *)
SomethingShown ==
  TabsAtRest /\ tabs # {} => \E t \in Tabs : Shown(t)

(* As long as nobody hurries, the pane of a tab that stays active is shown in  *)
(* the end: its predecessor's transition does end, and hands over to it.       *)
TabComes ==
  \A t \in Tabs : (tabs = {t} /\ ~hurried) ~> (Shown(t) \/ tabs # {t} \/ hurried)

(* The panes keep up with the tabs: never an empty box at rest, the active tab's      *)
(* pane where nobody hurried, and it does come.                                     *)
TabSound == [](TabTypeOK /\ PaneOfTab /\ SomethingShown) /\ TabComes
=============================================================================
