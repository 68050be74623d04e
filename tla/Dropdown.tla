------------------------------- MODULE Dropdown -------------------------------
(***************************************************************************)
(* bootstrap.js, dropdown: the menus of a page, each opened by a toggle that *)
(* is a button or a link, with clicks handled where they end up (the         *)
(* document's handlers) and keys handled on the toggle and in the menu.      *)
(***************************************************************************)
EXTENDS Transitions

CONSTANTS Menus,
          Items    \* how many links each menu has
ASSUME DropdownAssumption == IsFiniteSet(Menus) /\ Items \in Nat \ {0}

VARIABLES
  dropdown,   \* the open menus, the backdrop, the disabled toggles
  focused     \* the menu with the focus and its item, 0 for the toggle; or nothing

dropdownVars == <<dropdown, focused>>

Nowhere == [menu |-> "none", item |-> 0]
Focus == [menu : Menus, item : 0..Items] \cup {Nowhere}

DropdownInit(all) ==
  /\ dropdown \in some([open : {{}}, backdrop : {FALSE}, disabled : {{}},
                         touch : BOOLEAN], all)
  /\ focused = Nowhere

-----------------------------------------------------------------------------
(* clearMenus: every menu whose handlers let it close, and every backdrop. *)
clearMenus_backdrop(d) ==
  [d EXCEPT !.open = IF isDefaultPrevented("hide") THEN @ ELSE {}]

clearMenus(d) ==
  [d EXCEPT !.backdrop = FALSE,
            !.open = IF isDefaultPrevented("hide") THEN @ ELSE {}]

(* Mutant: the other menus stay open. *)
toggleMenu_keep(d, m) ==
  IF m \in d.disabled \cup d.open \/ isDefaultPrevented("show") THEN clearMenus(d)
  ELSE [d EXCEPT !.backdrop = d.touch, !.open = @ \cup {m}]

(* Mutant: a click that opens nothing ends at the toggle all the same. *)
toggleMenu_stops(d, m) ==
  LET cleared == clearMenus(d)
      backed == [cleared EXCEPT !.backdrop = d.touch]
  IN  IF m \in d.disabled THEN d
      ELSE IF m \in d.open THEN cleared
      ELSE IF isDefaultPrevented("show") THEN backed
      ELSE [backed EXCEPT !.open = @ \cup {m}]

(* A click on a toggle.  toggle() closes the menus and puts up the backdrop, and   *)
(* the show event may still be prevented.  Only where a menu was opened or closed   *)
(* does it stop the click: from a disabled toggle, and after a show that was         *)
(* prevented, the click goes on to the document, which clears the menus too.         *)
toggleMenu(d, m) ==
  LET cleared == clearMenus(d)
      backed == [cleared EXCEPT !.backdrop = d.touch]
  IN  IF m \in d.disabled THEN clearMenus(d)
      ELSE IF m \in d.open THEN cleared
      ELSE IF isDefaultPrevented("show") THEN clearMenus(backed)
      ELSE [backed EXCEPT !.open = @ \cup {m}]

Opening(d, m) == m \notin d.disabled \cup d.open /\ ~isDefaultPrevented("show")

(* A menu that closes takes its items off the screen: the browser drops the focus. *)
stillShown(f, d) ==
  IF f.item > 0 /\ f.menu \notin d.open THEN Nowhere ELSE f

ClickMenu(m) ==
  /\ dropdown' = toggleMenu(dropdown, m)
  /\ focused' = IF Opening(dropdown, m) THEN [menu |-> m, item |-> 0]
                ELSE stillShown(focused, dropdown')

(* A click anywhere else, on an item too; one in a form of the menu stops there. *)
ClickDocument ==
  /\ dropdown' = clearMenus(dropdown)
  /\ focused' = stillShown(focused, dropdown')

-----------------------------------------------------------------------------
(* Where the arrows take the focus from place i of Items links, 0 being none. *)
arrow(i, key) ==
  CASE key = "up" /\ i > 1 -> i - 1
    [] key = "down" /\ i >= 1 /\ i < Items -> i + 1
    [] i = 0 -> 1
    [] OTHER -> i

keydown_lost(m, key) ==
  IF m \in dropdown.open /\ key # "escape"
    THEN focused' = [focused EXCEPT !.item = arrow(@, key)] /\ UNCHANGED dropdown
    ELSE dropdown' = clearMenus(dropdown) /\ focused' = stillShown(focused, dropdown')

(* On a closed menu any of the keys clicks what has the focus; escape closes,   *)
(* with the focus on the toggle; the arrows move among the links.             *)
keydown(m, key) ==
  LET active == m \in dropdown.open
      onToggle == focused.item = 0
      focus == IF key = "escape" THEN [menu |-> m, item |-> 0] ELSE focused
  IN  IF active /\ key # "escape"
        THEN /\ focused' = [focused EXCEPT !.item = arrow(@, key)]
             /\ UNCHANGED dropdown
        ELSE /\ dropdown' = IF onToggle THEN toggleMenu(dropdown, m)
                            ELSE clearMenus(dropdown)
             /\ focused' = stillShown(focus, dropdown')

Key(key) ==
  /\ focused # Nowhere
  /\ ~(focused.item = 0 /\ focused.menu \in dropdown.disabled)
  /\ keydown(focused.menu, key)

(* The application puts the class disabled on a toggle, or takes it off. *)
Disable(m) ==
  /\ dropdown' = [dropdown EXCEPT !.disabled = (@ \ {m}) \cup ({m} \ @)]
  /\ UNCHANGED focused

(* The tab key brings the focus to a toggle. *)
TabTo(m) ==
  /\ m \notin dropdown.disabled
  /\ focused' = [menu |-> m, item |-> 0]
  /\ UNCHANGED dropdown

DropdownNext ==
  \/ \E m \in Menus : ClickMenu(m) \/ Disable(m) \/ TabTo(m)
  \/ ClickDocument
  \/ \E key \in {"up", "down", "escape"} : Key(key)

-----------------------------------------------------------------------------
DropdownTypeOK ==
  /\ dropdown \in [open : SUBSET Menus, backdrop : BOOLEAN,
                   disabled : SUBSET Menus, touch : BOOLEAN]
  /\ focused \in Focus

(* Unless the application keeps a menu from closing, at most one is open,      *)
(* whatever toggles are clicked, disabled or reached with the keyboard.        *)
OneMenuOpen == "hide" \notin veto => Cardinality(dropdown.open) <= 1

(* A touch screen's backdrop never covers the page when no menu is open, also where *)
(* the application has kept one from opening; and where it keeps none from closing, *)
(* no menu is open without it.                                                      *)
BackdropIffOpen ==
  /\ dropdown.backdrop => dropdown.touch /\ dropdown.open # {}
  /\ "hide" \notin veto /\ dropdown.touch /\ dropdown.open # {} => dropdown.backdrop

(* Escape pressed in an open menu does not lose the reader's place: whatever   *)
(* becomes of the menu, the focus is on the menu's toggle.                     *)
EscapeKeepsFocus ==
  [][Key("escape") /\ focused.menu \in dropdown.open
       => focused' = [menu |-> focused.menu, item |-> 0]]_dropdownVars

(* One menu at a time, its backdrop with it, and no keyboard user left behind.       *)
DropdownSound == [](DropdownTypeOK /\ OneMenuOpen /\ BackdropIffOpen) /\ EscapeKeepsFocus
=============================================================================
