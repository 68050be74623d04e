------------------------------- MODULE Collapse -------------------------------
(***************************************************************************)
(* bootstrap.js, collapse: the panels of one accordion, the links that      *)
(* toggle them and scripts that call the plugin.  A panel's Collapse object  *)
(* is made by whoever needs it first, and toggles the panel on being made;   *)
(* show() of a panel with a parent closes the open panels, and takes         *)
(* away again the objects it had to make for that.                          *)
(***************************************************************************)
EXTENDS Transitions

CONSTANT Panels   \* numbered in the order of the document
ASSUME PanelsAssumption == Panels \subseteq Nat /\ IsFiniteSet(Panels)

VARIABLES
  panel,      \* each panel's classes, its object, and who waits for its transition
  collapsed,  \* the links with the class collapsed
  haste,      \* history: a panel was opened while another one was on its way
  scripted    \* history: a script has called the plugin, or written the page so
              \* that several panels are open

collapseVars == <<panel, collapsed, haste, scripted>>

Complete == [op : {"show", "hide"},
             lost : BOOLEAN]   \* its object is no longer the panel's

PanelState == [in : BOOLEAN, collapsing : BOOLEAN,
               data : {"none", "idle", "transitioning"},
               parent : BOOLEAN,          \* the object knows its accordion
               ends : Seq(Complete)]

(* The panels of S are open in the page's HTML, their links without the class     *)
(* collapsed; no panel has an object yet.  A page of several open panels is none  *)
(* whose links alone were used.                                                  *)
CollapseInit(all) ==
  \E S \in some(SUBSET Panels, all) :
    /\ panel = [p \in Panels |->
         [in |-> p \in S, collapsing |-> FALSE, data |-> "none",
          parent |-> FALSE, ends |-> <<>>]]
    /\ collapsed = Panels \ S
    /\ haste = FALSE /\ scripted = (Cardinality(S) > 1)

-----------------------------------------------------------------------------
begin_unawaited(s, op) ==
  [s EXCEPT !.in = FALSE, !.collapsing = TRUE, !.data = "transitioning"]

begin(s, op) ==
  [s EXCEPT !.in = FALSE, !.collapsing = TRUE, !.data = "transitioning",
            !.ends = Append(@, [op |-> op, lost |-> FALSE])]

collapseComplete_stuck(s, c) ==
  [s EXCEPT !.collapsing = FALSE,
            !.in = (c.op = "show") \/ @]

(* The two functions called complete; a lost object is changed unseen. *)
collapseComplete(s, c) ==
  [s EXCEPT !.collapsing = FALSE,
            !.in = (c.op = "show") \/ @,
            !.data = IF c.lost THEN @ ELSE "idle"]

transit(s, op) ==
  IF transition THEN begin(s, op)
  ELSE collapseComplete([s EXCEPT !.in = FALSE], [op |-> op, lost |-> FALSE])

(* The guard that keeps a second toggle out while one is under way. *)
hide(s) ==
  IF s.data = "transitioning" \/ ~s.in \/ isDefaultPrevented("hide")
  THEN s ELSE transit(s, "hide")

actives(f) == {q \in DOMAIN f : f[q].in}
first(S) == CHOOSE q \in S : \A r \in S : q <= r

(* Plugin.call(actives, 'hide'): an object made here toggles, that is, hides. *)
closed(f) ==
  LET A == actives(f)
      hasData == f[first(A)].data # "none"
      made(s) == IF s.data = "none" THEN [s EXCEPT !.data = "idle", !.parent = FALSE] ELSE s
      dropped(s) == [s EXCEPT !.data = "none",
                              !.ends = [i \in DOMAIN @ |-> [@[i] EXCEPT !.lost = TRUE]]]
  IN  [q \in DOMAIN f |->
        IF q \notin A THEN f[q]
        ELSE IF hasData THEN hide(made(f[q])) ELSE dropped(hide(made(f[q])))]

show_alone(f, p) ==
  IF f[p].data = "transitioning" \/ f[p].in \/ isDefaultPrevented("show")
  THEN f ELSE [f EXCEPT ![p] = transit(@, "show")]

show(f, p) ==
  LET A == IF f[p].parent THEN actives(f) ELSE {}
      started == [f EXCEPT ![p] = transit(@, "show")]
  IN  IF f[p].data = "transitioning" \/ f[p].in \/ isDefaultPrevented("show")
      THEN f
      ELSE IF A = {} THEN started
      ELSE IF f[first(A)].data = "transitioning" THEN f
      ELSE [closed(f) EXCEPT ![p] = transit(@, "show")]

toggle(f, p) == IF f[p].in THEN [f EXCEPT ![p] = hide(@)] ELSE show(f, p)

call(f, p, option) ==
  CASE option = "show" -> show(f, p)
    [] option = "hide" -> [f EXCEPT ![p] = hide(@)]
    [] option = "toggle" -> toggle(f, p)
    [] option = "none" -> f

(* Plugin: DEFAULTS.toggle makes a new object toggle first, whatever is asked; *)
(* only a 'show' is then left out.                                            *)
Plugin(f, p, option, parent) ==
  IF f[p].data # "none" THEN call(f, p, option)
  ELSE LET new == [f EXCEPT ![p].data = "idle", ![p].parent = parent]
       IN  call(toggle(new, p), p, IF option = "show" THEN "none" ELSE option)

OnTheWay(f, p) == \E q \in DOMAIN f \ {p} : f[q].collapsing
Opens(p) == panel'[p].ends # panel[p].ends \/ panel'[p].in # panel[p].in

-----------------------------------------------------------------------------
relabelled_own(p) ==
  CASE panel[p].data = "transitioning" -> collapsed
    [] panel[p].data # "transitioning" /\ panel[p].in -> collapsed \cup {p}
    [] panel[p].data # "transitioning" /\ ~panel[p].in -> collapsed \ {p}

(* What the data-api does to the links of the accordion before the panel moves. *)
relabelled(p) ==
  CASE panel[p].data = "transitioning" -> collapsed
    [] panel[p].data # "transitioning" /\ panel[p].in -> Panels
    [] panel[p].data # "transitioning" /\ ~panel[p].in -> Panels \ {p}

(* A click on the link of panel p. *)
ClickToggle(p) ==
  /\ collapsed' = relabelled(p)
  /\ panel' = Plugin(panel, p,
                   IF panel[p].data = "none" THEN "none" ELSE "toggle", TRUE)
  /\ haste' = (haste \/ (OnTheWay(panel, p) /\ Opens(p)))
  /\ UNCHANGED scripted

(* A script's $(panel).collapse(option). *)
CallCollapse(p, option) ==
  /\ panel' = Plugin(panel, p, option, FALSE)
  /\ scripted' = TRUE
  /\ haste' = (haste \/ (OnTheWay(panel, p) /\ Opens(p)))
  /\ UNCHANGED collapsed

CollapseEnd(p) ==
  /\ panel[p].ends # <<>>
  /\ LET after[i \in 0..Len(panel[p].ends)] ==
           IF i = 0 THEN [panel[p] EXCEPT !.ends = <<>>]
           ELSE collapseComplete(after[i - 1], panel[p].ends[i])
     IN  panel' = [panel EXCEPT ![p] = after[Len(panel[p].ends)]]
  /\ UNCHANGED <<collapsed, haste, scripted>>

CollapseNext ==
  \E p \in Panels :
    \/ ClickToggle(p)
    \/ \E option \in {"show", "hide", "toggle"} : CallCollapse(p, option)
    \/ CollapseEnd(p)

CollapseFairness == \A p \in Panels : WF_collapseVars(CollapseEnd(p))

-----------------------------------------------------------------------------
CollapseTypeOK ==
  /\ panel \in [Panels -> PanelState]
  /\ collapsed \in SUBSET Panels
  /\ haste \in BOOLEAN /\ scripted \in BOOLEAN

(* An object that refuses calls because its panel is on the way is called back:     *)
(* a callback that will reach it waits, even where a panel's object was taken away  *)
(* in mid-transition and another one made, and there are never more than two.      *)
NeverStuck ==
  \A p \in Panels :
    /\ panel[p].data = "transitioning" =>
         \E i \in DOMAIN panel[p].ends : ~panel[p].ends[i].lost
    /\ Len(panel[p].ends) <= 2

(* An accordion whose links alone are used, one panel at a time, never has two     *)
(* panels open.  In haste it has: a panel on its way is not among the open ones.   *)
OneOpen ==
  ~haste /\ ~scripted /\ veto = {} =>
    Cardinality({p \in Panels : panel[p].in}) <= 1

(* There too, each link says what its panel is when the panel has come to rest.    *)
LinksAgree ==
  ~haste /\ ~scripted /\ veto = {} =>
    \A p \in Panels : panel[p].ends = <<>> => (p \in collapsed <=> ~panel[p].in)

(* A panel that moves comes to rest. *)
PanelsSettle == \A p \in Panels : panel[p].collapsing ~> ~panel[p].collapsing

(* No panel waits for what will not come, and an accordion used as such is one: one    *)
(* panel open, each link telling so, and every move ending.                         *)
CollapseSound == [](CollapseTypeOK /\ NeverStuck /\ OneOpen /\ LinksAgree) /\ PanelsSettle
=============================================================================
