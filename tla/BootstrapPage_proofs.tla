------------------------- MODULE BootstrapPage_proofs -------------------------
(***************************************************************************)
(* Proofs about the widgets of BootstrapPage: the buttons, the placement of a  *)
(* tip, the scroll spy, the pinned element and the menus in full, and what is  *)
(* safety of the alerts, the carousel, the tabs, the tips, the panels and the *)
(* dialog; for pages, layouts and groups of any size, every bound on waiting. *)
(***************************************************************************)
EXTENDS BootstrapPage, FiniteSetTheorems, TLAPS

(* A widget that the behaviour is not about begins in one of its states too. *)
LEMMA SomeIsIn ==
  ASSUME NEW S, S # {}, NEW all
  PROVE  some(S, all) # {} /\ \A x \in some(S, all) : x \in S
<1>1. (CHOOSE s \in S : TRUE) \in S
  OBVIOUS
<1> QED BY <1>1 DEF some

-----------------------------------------------------------------------------
(* The buttons. *)

(* The pressed labels, and the radio buttons among them. *)
Consistent(g) ==
  /\ g.active = g.checked
  /\ g.type = "radio" => Cardinality(g.active) <= 1

(* What the timers that have not run will do: the last of them decides. *)
TimersAgree ==
  /\ submit.disabled = submit.isLoading
  /\ submit.timers = <<>> => (submit.disabled <=> submit.last = "loading")
  /\ submit.timers # <<>> => submit.timers[Len(submit.timers)] = submit.last
  /\ submit.resetText \in Texts \cup {NoText}
  /\ submit.resetText = NoText => submit.text \in Texts

(* DisabledIffLoading and ResetToOwnText are not inductive: TimersAgree says *)
(* more.                                                                     *)
ButtonInv == ButtonTypeOK /\ PressedIsChecked /\ TimersAgree

(* toggle keeps the type of a group. *)
LEMMA ToggleTyped ==
  ASSUME NEW g \in GroupState, NEW l \in Labels
  PROVE  toggleButton(g, l) \in GroupState /\ toggleButton(g, l).direct = g.direct
         /\ toggleButton(g, l).type = g.type
BY DEF toggleButton, check, toggleClass, GroupState

(* So does prop('checked', ...). *)
LEMMA CheckTyped ==
  ASSUME NEW g \in GroupState, NEW l \in Labels, NEW v \in BOOLEAN
  PROVE  check(g, l, v) \in GroupState
BY DEF check, GroupState

(* A toggled group looks as it is checked, radio buttons exclude each other. *)
LEMMA ToggleConsistent ==
  ASSUME NEW g \in GroupState, NEW l \in Labels, Consistent(g)
  PROVE  Consistent(toggleButton(g, l))
<1>1. CASE g.type = "radio" /\ l \in g.checked /\ l \in g.active
  BY <1>1 DEF toggleButton
<1>2. CASE g.type = "radio" /\ l \notin g.active
  <2>0. PICK h : h = toggleButton(g, l)
    OBVIOUS
  <2>1. h.active = {l} /\ h.checked = {l}
    BY <1>2, <2>0 DEF toggleButton, check, toggleClass, GroupState
  <2>2. Cardinality({l}) = 1
    BY FS_Singleton
  <2> QED BY <2>0, <2>1, <2>2 DEF Consistent
<1>3. CASE g.type # "radio"
  <2>0. PICK h : h = toggleButton(g, l)
    OBVIOUS
  <2>1. h.active = toggleClass(g.active, l) /\ h.type = g.type
    BY <1>3, <2>0 DEF toggleButton, check, GroupState
  <2>2. h.checked = IF l \in g.active THEN g.checked \ {l} ELSE g.checked \cup {l}
    BY <1>3, <2>0 DEF toggleButton, check, GroupState
  <2> QED BY <1>3, <2>0, <2>1, <2>2 DEF Consistent, toggleClass
<1> QED BY <1>1, <1>2, <1>3 DEF Consistent

(* The buttons as the page loads them. *)
LEMMA ButtonBegins ==
  ASSUME NEW all \in BOOLEAN, ButtonInit(all)
  PROVE  ButtonInv
<1> DEFINE S == {g \in GroupState : /\ g.active = g.checked /\ ~g.direct
                                    /\ g.type = "radio" => Cardinality(g.active) <= 1}
           e == [type |-> "checkbox", active |-> {}, checked |-> {}, direct |-> FALSE]
<1>1. e \in S
  BY DEF GroupState
<1>2. group \in some(S, all)
  BY DEF ButtonInit
<1> HIDE DEF S
<1>3. group \in S
  BY <1>1, <1>2, SomeIsIn
<1>4. group \in GroupState /\ PressedIsChecked
  BY <1>3 DEF S, PressedIsChecked
<1>5. submit = [text |-> "plain", resetText |-> NoText, disabled |-> FALSE,
               isLoading |-> FALSE, timers |-> <<>>, last |-> NoText]
  BY DEF ButtonInit
<1>6. submit \in SubmitState
  BY <1>5 DEF SubmitState, Texts, States, NoText
<1>7. TimersAgree
  BY <1>5 DEF TimersAgree, Texts, NoText
<1> QED BY <1>4, <1>6, <1>7 DEF ButtonInv, ButtonTypeOK

(* Every click, call, timer and text keeps the invariant of the buttons. *)
LEMMA ButtonKeeps ==
  ASSUME ButtonInv, ButtonNext
  PROVE  ButtonInv'
<1>t. group \in GroupState /\ submit \in SubmitState /\ PressedIsChecked /\ TimersAgree
  BY DEF ButtonInv, ButtonTypeOK
<1>g. ASSUME group' \in GroupState, PressedIsChecked', submit' = submit
      PROVE  ButtonInv'
  BY <1>t, <1>g DEF ButtonInv, ButtonTypeOK, TimersAgree
<1>s. ASSUME submit' \in SubmitState, TimersAgree', group' = group
      PROVE  ButtonInv'
  BY <1>t, <1>s DEF ButtonInv, ButtonTypeOK, PressedIsChecked
<1>1. ASSUME NEW l \in Labels, ClickLabel(l)
      PROVE  ButtonInv'
  <2>1. group' = toggleButton(group, l) /\ submit' = submit
    BY <1>1 DEF ClickLabel
  <2>2. group' \in GroupState /\ group'.direct = group.direct
    BY <1>t, <2>1, ToggleTyped
  <2>3. ~ group.direct => Consistent(group')
    BY <1>t, <2>1, ToggleConsistent DEF PressedIsChecked, Consistent
  <2>4. PressedIsChecked'
    BY <2>2, <2>3 DEF PressedIsChecked, Consistent
  <2> QED BY <1>g, <2>1, <2>2, <2>4
<1>2. ASSUME NEW l \in Labels, ActivateInput(l)
      PROVE  ButtonInv'
  <2>1. PICK p : /\ p = check(group, l, group.type = "radio" \/ l \notin group.checked)
                 /\ group' = [toggleButton(p, l) EXCEPT !.checked = group.checked, !.direct = TRUE]
    BY <1>2 DEF ActivateInput
  <2>2. p \in GroupState
    BY <1>t, <2>1, CheckTyped
  <2>3. PICK q : q = toggleButton(p, l) /\ q \in GroupState
    BY <2>2, ToggleTyped
  <2>4. group' = [[q EXCEPT !.checked = group.checked] EXCEPT !.direct = TRUE]
    BY <2>1, <2>3
  <2>5. group.checked \in SUBSET Labels
    BY <1>t DEF GroupState
  <2>6. group' \in GroupState /\ group'.direct
    BY <2>3, <2>4, <2>5 DEF GroupState
  <2>7. PressedIsChecked'
    BY <2>6 DEF PressedIsChecked
  <2> QED BY <1>2, <1>g, <2>6, <2>7 DEF ActivateInput
<1>3. ASSUME NEW state \in States, CallButton(state)
      PROVE  ButtonInv'
  <2> DEFINE k == IF submit.resetText = NoText THEN [submit EXCEPT !.resetText = submit.text]
                  ELSE submit
  <2>1. /\ k \in SubmitState /\ k.resetText \in Texts /\ k.timers = submit.timers
        /\ k.disabled = submit.disabled /\ k.isLoading = submit.isLoading
    BY <1>t DEF TimersAgree, SubmitState, Texts, NoText
  <2>2. submit' = [[[k EXCEPT !.text = textOf(k, state)] EXCEPT !.timers = Append(k.timers, state)]
                     EXCEPT !.last = state]
    BY <1>3 DEF CallButton, setState
  <2> HIDE DEF k
  <2>3. textOf(k, state) \in Texts \cup {"loading", "complete"}
    BY <2>1 DEF textOf, States
  <2>4. k.timers \in Seq(States)
    BY <2>1 DEF SubmitState
  <2>5. Append(k.timers, state) \in Seq(States) /\ Append(k.timers, state) # <<>>
        /\ Append(k.timers, state)[Len(Append(k.timers, state))] = state
    BY <2>4
  <2>6. submit' \in SubmitState
    BY <2>1, <2>2, <2>3, <2>5 DEF SubmitState
  <2>7. /\ submit'.timers = Append(k.timers, state) /\ submit'.last = state
        /\ submit'.resetText = k.resetText
        /\ submit'.disabled = k.disabled /\ submit'.isLoading = k.isLoading
    BY <2>1, <2>2 DEF SubmitState
  <2>8. k.resetText # NoText
    BY <2>1 DEF Texts, NoText
  <2>9. TimersAgree'
    BY <1>t, <2>1, <2>5, <2>7, <2>8 DEF TimersAgree
  <2> QED BY <1>3, <1>s, <2>6, <2>9 DEF CallButton
<1>4. CASE ButtonTimer
  <2>1. PICK t : t = timer(submit, Head(submit.timers))
    OBVIOUS
  <2>2. submit.timers # <<>> /\ submit.timers \in Seq(States)
        /\ submit' = [t EXCEPT !.timers = Tail(t.timers)]
    BY <1>4, <1>t, <2>1 DEF ButtonTimer, SubmitState
  <2>3. /\ t \in SubmitState /\ t.timers = submit.timers /\ t.last = submit.last
        /\ t.text = submit.text /\ t.resetText = submit.resetText
        /\ t.disabled = t.isLoading
        /\ t.disabled <=> Head(submit.timers) = "loading"
    BY <1>t, <2>1 DEF timer, SubmitState, TimersAgree
  <2>4. Tail(submit.timers) \in Seq(States) /\ Head(submit.timers) = submit.timers[1]
        /\ Len(submit.timers) \in Nat /\ Len(submit.timers) >= 1
        /\ Len(Tail(submit.timers)) = Len(submit.timers) - 1
        /\ \A i \in 1..(Len(submit.timers) - 1) : Tail(submit.timers)[i] = submit.timers[i + 1]
    BY <2>2
  <2>e. \A r \in Seq(States) : r = <<>> <=> Len(r) = 0
    OBVIOUS
  <2>5. /\ submit' \in SubmitState /\ submit'.timers = Tail(submit.timers)
        /\ submit'.last = submit.last /\ submit'.text = submit.text
        /\ submit'.resetText = submit.resetText
        /\ submit'.disabled = t.disabled /\ submit'.isLoading = t.isLoading
    BY <2>2, <2>3, <2>4 DEF SubmitState
  <2>6. submit.timers[Len(submit.timers)] = submit.last
    BY <1>t, <2>2 DEF TimersAgree
  <2>7. Tail(submit.timers) = <<>> => Head(submit.timers) = submit.last
    <3> SUFFICES ASSUME Tail(submit.timers) = <<>>
                 PROVE  Head(submit.timers) = submit.last
      OBVIOUS
    <3>1. Len(Tail(submit.timers)) = 0
      BY <2>4, <2>e
    <3>2. Len(submit.timers) = 1
      BY <2>4, <3>1
    <3> QED BY <2>4, <2>6, <3>2
  <2>8. Tail(submit.timers) # <<>> =>
          Tail(submit.timers)[Len(Tail(submit.timers))] = submit.last
    <3> SUFFICES ASSUME Tail(submit.timers) # <<>>
                 PROVE  Tail(submit.timers)[Len(Tail(submit.timers))] = submit.last
      OBVIOUS
    <3>1. Len(Tail(submit.timers)) # 0
      BY <2>4, <2>e
    <3>2. Len(submit.timers) - 1 \in 1..(Len(submit.timers) - 1)
      BY <2>4, <3>1
    <3>3. Tail(submit.timers)[Len(submit.timers) - 1] = submit.timers[Len(submit.timers) - 1 + 1]
      BY <2>4, <3>2
    <3>4. Len(submit.timers) - 1 + 1 = Len(submit.timers)
      BY <2>4
    <3> QED BY <2>4, <2>6, <3>3, <3>4
  <2>9. TimersAgree'
    BY <1>t, <2>3, <2>5, <2>7, <2>8 DEF TimersAgree
  <2> QED BY <1>4, <1>s, <2>5, <2>9 DEF ButtonTimer
<1>5. ASSUME NEW t \in Texts, WriteText(t)
      PROVE  ButtonInv'
  <2>1. submit' = [submit EXCEPT !.text = t] /\ group' = group
    BY <1>5 DEF WriteText
  <2>2. submit' \in SubmitState /\ submit'.text = t /\ submit'.timers = submit.timers
        /\ submit'.last = submit.last /\ submit'.resetText = submit.resetText
        /\ submit'.disabled = submit.disabled /\ submit'.isLoading = submit.isLoading
    BY <1>t, <2>1 DEF SubmitState
  <2>3. TimersAgree'
    BY <1>t, <2>2 DEF TimersAgree
  <2> QED BY <1>s, <2>1, <2>2, <2>3
<1> QED BY <1>1, <1>2, <1>3, <1>4, <1>5 DEF ButtonNext

(* It says all that ButtonSound says. *)
LEMMA ButtonInvSound == ButtonInv => ButtonSound
BY DEF ButtonInv, ButtonSound, TimersAgree, DisabledIffLoading, ResetToOwnText

-----------------------------------------------------------------------------
(* The placement of the tip. *)

(* getCalculatedOffset in numbers: where a tip of the usual size belongs. *)
LEMMA OffsetTyped ==
  ASSUME NEW side \in Sides, NEW x \in Nat, NEW y \in Nat
  PROVE  /\ getCalculatedOffset(side, x, y) \in [top : Int, left : Int]
         /\ side = "bottom" => getCalculatedOffset(side, x, y) = [top |-> y + 2, left |-> x - 1]
         /\ side = "top" => getCalculatedOffset(side, x, y) = [top |-> y - 2, left |-> x - 1]
         /\ side = "left" => getCalculatedOffset(side, x, y) = [top |-> y, left |-> x - 4]
         /\ side = "right" => getCalculatedOffset(side, x, y) = [top |-> y, left |-> x + 2]
<1>1. (Size - TipWidth) \div 2 = -1 /\ (Size - TipHeight) \div 2 = 0
  BY DEF Size, TipWidth, TipHeight
<1>2. CASE side = "bottom"
  BY <1>1, <1>2 DEF getCalculatedOffset, Size, TipWidth, TipHeight
<1>3. CASE side = "top"
  BY <1>1, <1>3 DEF getCalculatedOffset, Size, TipWidth, TipHeight
<1>4. CASE side = "left"
  BY <1>1, <1>4 DEF getCalculatedOffset, Size, TipWidth, TipHeight
<1>5. CASE side = "right"
  BY <1>1, <1>5 DEF getCalculatedOffset, Size, TipWidth, TipHeight
<1> QED BY <1>2, <1>3, <1>4, <1>5 DEF Sides

(* The adjusted tip is inside the viewport, moved along one axis only. *)
LEMMA AdjustedSound ==
  ASSUME NEW side \in Sides, NEW o \in [top : Int, left : Int], NEW h \in {2, 4},
         NEW d, d = getViewportAdjustedDelta(side, o, h)
  PROVE  /\ d \in [left : Int, top : Int]
         /\ side \in {"left", "right"} =>
              /\ d.left = 0
              /\ o.top + d.top >= ScrollTop + Padding
              /\ o.top + d.top + h <= ScrollTop + ViewSide - Padding
         /\ side \in {"top", "bottom"} =>
              /\ d.top = 0
              /\ o.left + d.left >= Padding
              /\ o.left + d.left + TipWidth <= ViewWidth - Padding
<1>1. /\ o.top \in Int /\ o.left \in Int
      /\ ViewWidth \in Nat /\ ViewSide \in Nat /\ ScrollTop \in Nat /\ Padding \in Nat
      /\ ViewWidth >= 4 + 2 * Padding /\ ViewSide >= 4 + 2 * Padding
  BY TipPlacementAssumption, ViewportAssumption
<1>2. CASE side \in {"left", "right"}
  <2>1. d = [left |-> 0,
             top |-> IF o.top - Padding - ScrollTop < 0 THEN -(o.top - Padding - ScrollTop)
                     ELSE IF o.top + Padding - ScrollTop + h > ViewSide
                       THEN ViewSide - (o.top + Padding - ScrollTop + h) ELSE 0]
    BY <1>2 DEF getViewportAdjustedDelta
  <2>2. d.left = 0 /\ d.top = IF o.top - Padding - ScrollTop < 0 THEN -(o.top - Padding - ScrollTop)
                     ELSE IF o.top + Padding - ScrollTop + h > ViewSide
                       THEN ViewSide - (o.top + Padding - ScrollTop + h) ELSE 0
    BY <2>1
  <2>3. d.top \in Int
    BY <1>1, <2>2
  <2>4. d \in [left : Int, top : Int]
    BY <2>1, <2>2, <2>3
  <2>5. o.top + d.top >= ScrollTop + Padding
        /\ o.top + d.top + h <= ScrollTop + ViewSide - Padding
    BY <1>1, <2>2
  <2> QED BY <1>2, <2>2, <2>4, <2>5
<1>3. CASE side \in {"top", "bottom"}
  <2>1. d = [top |-> 0,
             left |-> IF o.left - Padding < 0 THEN -(o.left - Padding)
                      ELSE IF o.left + Padding + TipWidth > ViewWidth
                        THEN ViewWidth - (o.left + Padding + TipWidth) ELSE 0]
    BY <1>3 DEF getViewportAdjustedDelta
  <2>2. d.top = 0 /\ d.left = IF o.left - Padding < 0 THEN -(o.left - Padding)
                      ELSE IF o.left + Padding + TipWidth > ViewWidth
                        THEN ViewWidth - (o.left + Padding + TipWidth) ELSE 0
    BY <2>1
  <2>3. d.left \in Int
    BY <1>1, <2>2 DEF TipWidth
  <2>4. d \in [left : Int, top : Int]
    BY <2>1, <2>2, <2>3
  <2>5. o.left + d.left >= Padding
        /\ o.left + d.left + TipWidth <= ViewWidth - Padding
    BY <1>1, <2>2 DEF TipWidth
  <2> QED BY <1>3, <2>2, <2>4, <2>5
<1> QED BY <1>2, <1>3 DEF Sides

(* replaceArrow sets one style of the arrow, to twice what the tip was moved. *)
LEMMA ArrowTyped ==
  ASSUME NEW a \in [left : Int, top : Int], NEW d \in [left : Int, top : Int], NEW h \in {2, 4}
  PROVE  /\ replaceArrow(a, d, h) \in [left : Int, top : Int]
         /\ d.left # 0 => replaceArrow(a, d, h).left = 2 * d.left
         /\ d.left = 0 => replaceArrow(a, d, h).top = 2 * d.top + h - 2
<1>1. d.left \in Int /\ d.top \in Int
  OBVIOUS
<1>2. 2 * d.left \in Int /\ 2 * d.top + h - 2 \in Int
  BY <1>1
<1>3. CASE d.left # 0
  BY <1>2, <1>3 DEF replaceArrow
<1>4. CASE d.left = 0
  BY <1>2, <1>4 DEF replaceArrow, TipHeight
<1> QED BY <1>3, <1>4

(* The tip before it is first shown. *)
LEMMA PlacementBegins == PlacementInit => PlacementSound
<1> SUFFICES ASSUME PlacementInit PROVE PlacementSound
  OBVIOUS
<1>1. placed = [side |-> "top", left |-> Padding, top |-> ScrollTop,
            height |-> 2, x |-> Padding + 1,
            y |-> ScrollTop + 2, arrow |-> [left |-> 0, top |-> 0],
            room |-> FALSE, odd |-> FALSE]
  BY DEF PlacementInit, TipHeight
<1>2. ViewWidth \in Nat /\ ViewSide \in Nat /\ ScrollTop \in Nat /\ Padding \in Nat
      /\ ViewWidth >= 4 + 2 * Padding
  BY TipPlacementAssumption, ViewportAssumption
<1>3. PlacementTypeOK
  BY <1>1, <1>2 DEF PlacementTypeOK, PlacedState, Sides
<1>4. InViewport
  BY <1>1, <1>2 DEF InViewport, Beside, TipWidth
<1>5. SideHasRoom
  BY <1>1 DEF SideHasRoom
<1>6. ArrowPoints
  BY <1>1, <1>2 DEF ArrowPoints, Beside, TipWidth, Size
<1> QED BY <1>3, <1>4, <1>5, <1>6 DEF PlacementSound

(* Every showing puts the tip, and its arrow, where they belong. *)
LEMMA PlacementKeeps ==
  ASSUME PlacementSound, PlacementNext
  PROVE  PlacementSound'
<1>1. PICK side \in Sides, auto \in BOOLEAN, x \in Spots, y \in Spots, h \in {2, 4},
           p \in Boxes \cup {Body} :
        /\ x + Size <= ViewWidth /\ y >= ScrollTop /\ y + Size <= ScrollTop + ViewSide
        /\ Place(side, auto, x, y, h, p)
  BY DEF PlacementNext, TipHeight
<1>2. x \in Nat /\ y \in Nat /\ ViewWidth \in Nat /\ ViewSide \in Nat /\ ScrollTop \in Nat
      /\ Padding \in Nat
  BY TipPlacementAssumption
<1>3. PICK s : s = autoSide(side, auto, x, y, p)
  OBVIOUS
<1>4. s \in Sides
  BY <1>3 DEF autoSide, Sides, opposite
<1>5. PICK o, moved, d, style :
        /\ o = getCalculatedOffset(s, x, y)
        /\ moved = IF s = "top" THEN [o EXCEPT !.top = @ + TipHeight - h] ELSE o
        /\ d = getViewportAdjustedDelta(s, moved, h)
        /\ style = replaceArrow(placed.arrow, d, h)
  OBVIOUS
<1>6. placed' =
        [side |-> s, left |-> moved.left + d.left,
         top |-> IF d.left # 0 THEN moved.top ELSE moved.top + d.top,
         height |-> h, x |-> x, y |-> y, arrow |-> style,
         odd |-> IF d.left # 0 THEN style.top # 0
                 ELSE style.left # 0 \/ (s \in {"top", "bottom"} /\ style.top # 0),
         room |-> auto /\ AsWindow(side, p) /\ WindowHasRoom(side, x, y)]
  BY <1>1, <1>3, <1>5 DEF Place, applyPlacement
<1>7. o \in [top : Int, left : Int]
  BY <1>2, <1>4, <1>5, OffsetTyped
<1>8. /\ moved \in [top : Int, left : Int] /\ moved.left = o.left
      /\ moved.top = IF s = "top" THEN o.top + 2 - h ELSE o.top
  BY <1>5, <1>7 DEF TipHeight
<1>9. placed.arrow \in [left : Int, top : Int]
  BY DEF PlacementSound, PlacementTypeOK, PlacedState
<1>10. /\ d \in [left : Int, top : Int]
       /\ s \in {"left", "right"} =>
            /\ d.left = 0
            /\ moved.top + d.top >= ScrollTop + Padding
            /\ moved.top + d.top + h <= ScrollTop + ViewSide - Padding
       /\ s \in {"top", "bottom"} =>
            /\ d.top = 0
            /\ moved.left + d.left >= Padding
            /\ moved.left + d.left + TipWidth <= ViewWidth - Padding
  BY <1>4, <1>5, <1>8, AdjustedSound
<1>11. /\ style \in [left : Int, top : Int]
       /\ d.left # 0 => style.left = 2 * d.left
       /\ d.left = 0 => style.top = 2 * d.top + h - 2
  <2>1. PICK w, e \in [left : Int, top : Int], k \in {2, 4} : w = placed.arrow /\ e = d /\ k = h
    BY <1>1, <1>9, <1>10 DEF TipHeight
  <2>2. style = replaceArrow(w, e, k)
    BY <1>5, <2>1
  <2> QED BY <2>1, <2>2, ArrowTyped
<1>12. /\ d.left \in Int /\ d.top \in Int /\ moved.left \in Int /\ moved.top \in Int
       /\ o.left \in Int /\ o.top \in Int /\ style.left \in Int /\ style.top \in Int
  BY <1>7, <1>8, <1>10, <1>11
<1>13. /\ placed'.side = s /\ placed'.left = moved.left + d.left /\ placed'.height = h
       /\ placed'.top = (IF d.left # 0 THEN moved.top ELSE moved.top + d.top)
       /\ placed'.x = x /\ placed'.y = y /\ placed'.arrow = style
       /\ placed'.odd = (IF d.left # 0 THEN style.top # 0
                         ELSE style.left # 0 \/ (s \in {"top", "bottom"} /\ style.top # 0))
       /\ placed'.room = (auto /\ AsWindow(side, p) /\ WindowHasRoom(side, x, y))
  BY <1>6
<1>14. PlacementTypeOK'
  <2>1. moved.left + d.left \in Int
        /\ (IF d.left # 0 THEN moved.top ELSE moved.top + d.top) \in Int
    BY <1>12
  <2>2. /\ (IF d.left # 0 THEN style.top # 0
            ELSE style.left # 0 \/ (s \in {"top", "bottom"} /\ style.top # 0)) \in BOOLEAN
        /\ (auto /\ AsWindow(side, p) /\ WindowHasRoom(side, x, y)) \in BOOLEAN
    BY DEF AsWindow, WindowHasRoom
  <2> QED BY <1>2, <1>4, <1>6, <1>11, <2>1, <2>2 DEF PlacementTypeOK, PlacedState
<1>15. s \in {"left", "right"} \/ s \in {"top", "bottom"}
  BY <1>4 DEF Sides
<1>16. InViewport'
  <2>1. CASE s \in {"left", "right"}
    BY <1>10, <1>13, <2>1 DEF InViewport, Beside
  <2>2. CASE s \in {"top", "bottom"}
    BY <1>10, <1>13, <2>2 DEF InViewport, Beside
  <2> QED BY <1>15, <2>1, <2>2
<1>17. /\ s = "bottom" => o = [top |-> y + 2, left |-> x - 1]
       /\ s = "top" => o = [top |-> y - 2, left |-> x - 1]
       /\ s = "left" => o = [top |-> y, left |-> x - 4]
       /\ s = "right" => o = [top |-> y, left |-> x + 2]
  BY <1>2, <1>4, <1>5, OffsetTyped
<1>18. SideHasRoom'
  <2> SUFFICES ASSUME placed'.room, h = 2
               PROVE  CASE s = "top" -> placed'.top >= ScrollTop
                        [] s = "bottom" -> placed'.top + TipHeight <= ScrollTop + ViewSide
                        [] s = "left" -> placed'.left >= 0
                        [] s = "right" -> placed'.left + TipWidth <= ViewWidth
    BY <1>13 DEF SideHasRoom, TipHeight
  <2>1. ~ overflows(s, x, y, Body)
    <3>1. auto /\ AsWindow(side, p) /\ WindowHasRoom(side, x, y)
      BY <1>13
    <3>2. overflows(side, x, y, p) <=> overflows(side, x, y, Body)
      BY <3>1 DEF AsWindow, overflows, Body, Sides
    <3> QED BY <1>3, <3>1, <3>2 DEF autoSide, WindowHasRoom
  <2>2. CASE s = "top"
    BY <1>2, <1>8, <1>10, <1>12, <1>13, <1>17, <2>1, <2>2 DEF overflows, Body, TipHeight
  <2>3. CASE s = "bottom"
    BY <1>2, <1>8, <1>10, <1>12, <1>13, <1>17, <2>1, <2>3 DEF overflows, Body, TipHeight, Size
  <2>4. CASE s = "left"
    BY <1>2, <1>8, <1>10, <1>12, <1>13, <1>17, <2>1, <2>4 DEF overflows, Body, TipWidth
  <2>5. CASE s = "right"
    BY <1>2, <1>8, <1>10, <1>12, <1>13, <1>17, <2>1, <2>5 DEF overflows, Body, TipWidth, Size
  <2> QED BY <1>15, <2>2, <2>3, <2>4, <2>5
<1>19. ArrowPoints'
  <2> SUFFICES ASSUME ~ placed'.odd
               PROVE  IF s \in {"left", "right"}
                        THEN 2 * placed'.top + h - style.top = 2 * y + Size
                        ELSE 2 * placed'.left + TipWidth - style.left = 2 * x + Size
    BY <1>13 DEF ArrowPoints, Beside
  <2>1. CASE s \in {"left", "right"}
    <3>1. d.left = 0 /\ style.top = 2 * d.top + h - 2 /\ moved.top = y
      BY <1>8, <1>10, <1>11, <1>17, <2>1
    <3>2. placed'.top = y + d.top
      BY <1>13, <3>1
    <3>3. 2 * (y + d.top) + h - (2 * d.top + h - 2) = 2 * y + 2
      BY <1>2, <1>12
    <3> QED BY <2>1, <3>1, <3>2, <3>3 DEF Size
  <2>2. CASE s \in {"top", "bottom"}
    <3>1. moved.left = x - 1
      BY <1>8, <1>17, <2>2
    <3>2. style.left = 2 * d.left
      <4>1. CASE d.left # 0
        BY <1>11, <4>1
      <4>2. CASE d.left = 0
        <5>1. style.left = 0
          BY <1>13, <4>2
        <5> QED BY <4>2, <5>1
      <4> QED BY <4>1, <4>2
    <3>3. 2 * (x - 1 + d.left) + 4 - 2 * d.left = 2 * x + 2
      BY <1>2, <1>12
    <3> QED BY <1>13, <2>2, <3>1, <3>2, <3>3 DEF Size, TipWidth
  <2> QED BY <1>15, <2>1, <2>2
<1> QED BY <1>14, <1>16, <1>18, <1>19 DEF PlacementSound

-----------------------------------------------------------------------------
(* The scroll spy. *)

(* What the assumption says of one layout. *)
LEMMA LayoutTyped ==
  ASSUME NEW l \in Layouts
  PROVE  /\ l.height \in Nat /\ l.height >= ViewHeight /\ ViewHeight \in Nat /\ SpyOffset \in Nat
         /\ l.offsets \in Seq(Nat) /\ l.targets \in Seq(Nat \ {0})
         /\ Len(l.offsets) \in Nat /\ Len(l.targets) = Len(l.offsets)
         /\ DOMAIN l.offsets = 1..Len(l.offsets) /\ DOMAIN l.targets = 1..Len(l.offsets)
         /\ \A i \in 1..Len(l.offsets) : l.offsets[i] \in Nat /\ l.targets[i] \in Nat
         /\ \A i, j \in 1..Len(l.offsets) :
              i < j => l.offsets[i] <= l.offsets[j] /\ l.offsets[j] > 0
<1>1. /\ l.height \in Nat /\ l.height >= ViewHeight /\ ViewHeight \in Nat /\ SpyOffset \in Nat
      /\ l.offsets \in Seq(Nat) /\ l.targets \in Seq(Nat \ {0})
      /\ Len(l.targets) = Len(l.offsets)
      /\ \A i, j \in 1..Len(l.offsets) :
           i < j => l.offsets[i] <= l.offsets[j] /\ l.offsets[j] > 0
  BY ScrollSpyAssumption
<1>2. /\ Len(l.offsets) \in Nat
      /\ DOMAIN l.offsets = 1..Len(l.offsets) /\ DOMAIN l.targets = 1..Len(l.targets)
      /\ \A i \in 1..Len(l.offsets) : l.offsets[i] \in Nat
      /\ \A i \in 1..Len(l.targets) : l.targets[i] \in Nat
  BY <1>1
<1> QED BY <1>1, <1>2

(* The least of some natural numbers. *)
LEMMA LeastOf ==
  ASSUME NEW S, S \subseteq Nat, S # {}
  PROVE  \E i \in S : \A j \in S : i <= j
<1> DEFINE R == {ss \in Nat \X Nat : ss[1] < ss[2]}
<1>1. IsWellFoundedOn(R, Nat)
  BY NatLessThanWellFounded DEF OpToRel
<1>2. \A i, j \in Nat : <<i, j>> \in R <=> i < j
  OBVIOUS
<1> HIDE DEF R
<1>3. PICK i \in S : \A j \in S : ~ (<<j, i>> \in R)
  BY <1>1, WFMin
<1>4. \A j \in S : ~ (j < i)
  BY <1>2, <1>3
<1>5. \A j \in S : i \in Nat /\ j \in Nat
  OBVIOUS
<1> QED BY ONLY i \in S, <1>4, <1>5

(* The smallest and the greatest of some places in a list. *)
LEMMA FirstPlace ==
  ASSUME NEW n \in Nat, NEW S, S \subseteq 1..n, S # {}
  PROVE  \E i \in S : \A j \in S : i <= j
<1>1. S \subseteq Nat
  OBVIOUS
<1> QED BY <1>1, LeastOf

(* And the greatest. *)
LEMMA LastPlace ==
  ASSUME NEW n \in Nat, NEW S, S \subseteq 1..n, S # {}
  PROVE  \E i \in S : \A j \in S : j <= i
<1> DEFINE T == {k \in 1..n : n + 1 - k \in S}
<1>1. \A k \in 1..n : n + 1 - k \in 1..n /\ n + 1 - (n + 1 - k) = k
  OBVIOUS
<1>2. T \subseteq 1..n /\ T # {}
  <2>1. PICK k \in S : TRUE
    OBVIOUS
  <2>2. n + 1 - k \in T
    BY <1>1, <2>1
  <2> QED BY <2>2
<1>3. PICK m \in T : \A k \in T : m <= k
  <2> HIDE DEF T
  <2> QED BY <1>2, FirstPlace
<1>4. n + 1 - m \in S
  BY <1>3
<1>5. ASSUME NEW j \in S PROVE j <= n + 1 - m
  <2>1. n + 1 - j \in T
    BY <1>1
  <2>2. m <= n + 1 - j /\ m \in 1..n /\ j \in 1..n
    BY <1>3, <2>1
  <2> QED BY <2>2
<1> QED BY <1>4, <1>5

(* The targets the loop of process would activate at y. *)
Hits(l, y, active) ==
  {i \in DOMAIN l.targets :
     /\ l.targets[i] # active /\ y >= l.offsets[i]
     /\ LimitOf(l, i) = 0 \/ y <= LimitOf(l, i)}

(* process, with those targets named. *)
LEMMA ProcessIs ==
  ASSUME NEW l, NEW height, NEW top, NEW active
  PROVE  process(l, height, top, active) =
           IF top + SpyOffset >= SpyOffset + height - ViewHeight THEN lastOf(l.targets)
           ELSE IF active # NoTarget /\ l.offsets # <<>> /\ top + SpyOffset <= l.offsets[1]
             THEN l.targets[1]
           ELSE IF Hits(l, top + SpyOffset, active) = {} THEN active
           ELSE l.targets[CHOOSE i \in Hits(l, top + SpyOffset, active) :
                            \A j \in Hits(l, top + SpyOffset, active) : i <= j]
BY Zenon DEF process, Hits

(* process yields a target, or none, or leaves the active one. *)
LEMMA ProcessTyped ==
  ASSUME NEW l \in Layouts, NEW height, NEW top, NEW active \in Nat
  PROVE  process(l, height, top, active) \in Nat
<1> DEFINE y == top + SpyOffset
           H == Hits(l, y, active)
<1>1. y = top + SpyOffset /\ H = Hits(l, y, active)
  OBVIOUS
<1>2. process(l, height, top, active) =
           IF y >= SpyOffset + height - ViewHeight THEN lastOf(l.targets)
           ELSE IF active # NoTarget /\ l.offsets # <<>> /\ y <= l.offsets[1]
             THEN l.targets[1]
           ELSE IF H = {} THEN active
           ELSE l.targets[CHOOSE i \in H : \A j \in H : i <= j]
  BY ProcessIs
<1> HIDE DEF y, H
<1>3. lastOf(l.targets) \in Nat
  <2>1. CASE l.targets = <<>>
    BY <2>1 DEF lastOf, NoTarget
  <2>2. CASE l.targets # <<>>
    <3>1. Len(l.targets) \in 1..Len(l.offsets)
      <4>1. l.targets \in Seq(Nat \ {0}) /\ Len(l.targets) = Len(l.offsets)
        BY LayoutTyped
      <4>2. Len(l.targets) # 0 /\ Len(l.targets) \in Nat
        BY <2>2, <4>1
      <4> QED BY <4>1, <4>2
    <3>2. l.targets[Len(l.targets)] \in Nat
      BY <3>1, LayoutTyped
    <3> QED BY <2>2, <3>2 DEF lastOf
  <2> QED BY <2>1, <2>2
<1>4. l.offsets # <<>> => l.targets[1] \in Nat
  <2> SUFFICES ASSUME l.offsets # <<>> PROVE l.targets[1] \in Nat
    OBVIOUS
  <2>1. Len(l.offsets) # 0
    <3>1. l.offsets \in Seq(Nat)
      BY LayoutTyped
    <3> QED BY <3>1
  <2>2. 1 \in 1..Len(l.offsets)
    BY <2>1, LayoutTyped
  <2> QED BY <2>2, LayoutTyped
<1>5. H # {} => l.targets[CHOOSE i \in H : \A j \in H : i <= j] \in Nat
  <2> SUFFICES ASSUME H # {} PROVE l.targets[CHOOSE i \in H : \A j \in H : i <= j] \in Nat
    OBVIOUS
  <2>1. H \subseteq 1..Len(l.offsets)
    BY <1>1, LayoutTyped DEF Hits
  <2>2. \E i \in H : \A j \in H : i <= j
    BY <2>1, LayoutTyped, FirstPlace
  <2>3. (CHOOSE i \in H : \A j \in H : i <= j) \in H
    BY <2>2
  <2> QED BY <2>1, <2>3, LayoutTyped
<1> QED BY <1>2, <1>3, <1>4, <1>5

(* Whatever was active, with the right offsets process finds the current part. *)
LEMMA ProcessFinds ==
  ASSUME NEW l \in Layouts, NEW top \in Nat, NEW active \in Nat,
         ~ OnEdge(l, top + SpyOffset),
         Begun(l, top + SpyOffset) # {} \/ top >= l.height - ViewHeight
  PROVE  process(l, l.height, top, active) = Current(l, top)
<1> DEFINE y == top + SpyOffset
           H == Hits(l, y, active)
<1>0. y = top + SpyOffset /\ H = Hits(l, y, active)
  OBVIOUS
<1>1. PICK n : y = top + SpyOffset /\ H = Hits(l, y, active) /\ n = Len(l.offsets)
  BY <1>0
<1>2. /\ y \in Nat /\ n \in Nat /\ l.height \in Nat /\ ViewHeight \in Nat /\ SpyOffset \in Nat
      /\ DOMAIN l.offsets = 1..n /\ DOMAIN l.targets = 1..n
      /\ \A i \in 1..n : l.offsets[i] \in Nat /\ l.targets[i] \in Nat
      /\ \A i, j \in 1..n : i < j => l.offsets[i] <= l.offsets[j] /\ l.offsets[j] > 0
  BY <1>1, LayoutTyped
<1>3. process(l, l.height, top, active) =
           IF y >= SpyOffset + l.height - ViewHeight THEN lastOf(l.targets)
           ELSE IF active # NoTarget /\ l.offsets # <<>> /\ y <= l.offsets[1]
             THEN l.targets[1]
           ELSE IF H = {} THEN active
           ELSE l.targets[CHOOSE i \in H : \A j \in H : i <= j]
  BY ProcessIs
<1> HIDE DEF y, H
<1>4. y >= SpyOffset + l.height - ViewHeight <=> top >= l.height - ViewHeight
  BY <1>1, <1>2
<1>5. CASE top >= l.height - ViewHeight
  BY <1>3, <1>4, <1>5 DEF Current
<1>6. CASE ~ (top >= l.height - ViewHeight)
  <2>1. PICK B : B = Begun(l, y) /\ B # {}
    BY <1>1, <1>6
  <2>2. B \subseteq 1..n /\ \A i \in 1..n : i \in B <=> l.offsets[i] <= y
    BY <1>2, <2>1 DEF Begun
  <2>3. Current(l, top) = l.targets[CHOOSE i \in B : \A j \in B : j <= i]
    BY <1>1, <1>6, <2>1 DEF Current
  <2>4. \E i \in B : \A j \in B : j <= i
    BY <1>2, <2>1, <2>2, LastPlace
  <2>5. PICK m : m = CHOOSE i \in B : \A j \in B : j <= i
    OBVIOUS
  <2>6. m \in B /\ \A j \in B : j <= m
    BY <2>4, <2>5
  <2>7. \A i \in 1..n : l.offsets[i] # y
    BY <1>1, <1>2 DEF OnEdge
  <2>8. m \in 1..n /\ l.offsets[m] < y
    BY <1>2, <2>2, <2>6, <2>7
  <2>9. ~ (y <= l.offsets[1])
    <3>1. 1 \in 1..n /\ (m = 1 \/ 1 < m)
      BY <1>2, <2>8
    <3>2. l.offsets[1] <= l.offsets[m]
      BY <1>2, <2>8, <3>1
    <3> QED BY <1>2, <2>8, <3>1, <3>2
  <2>10. \A i \in 1..n : LimitOf(l, i) = IF i < n THEN l.offsets[i + 1] ELSE 0
    BY <1>1 DEF LimitOf
  <2>11. \A i \in H : i = m
    <3> SUFFICES ASSUME NEW i \in H PROVE i = m
      OBVIOUS
    <3>1. i \in 1..n /\ y >= l.offsets[i] /\ (LimitOf(l, i) = 0 \/ y <= LimitOf(l, i))
      BY <1>1, <1>2 DEF Hits
    <3>2. i \in B /\ i <= m
      BY <1>2, <2>2, <2>6, <3>1
    <3>3. CASE i < m
      <4>1. i < n /\ i + 1 \in 1..n /\ LimitOf(l, i) = l.offsets[i + 1]
        BY <1>2, <2>8, <2>10, <3>1, <3>3
      <4>2. i + 1 = m \/ i + 1 < m
        BY <1>2, <2>8, <3>1, <3>3
      <4>3. l.offsets[i + 1] <= l.offsets[m]
        BY <1>2, <2>8, <4>1, <4>2
      <4>4. l.offsets[i + 1] > 0
        <5>1. i < i + 1
          BY <3>1
        <5> QED BY <1>2, <3>1, <4>1, <5>1
      <4> QED BY <1>2, <2>8, <3>1, <4>1, <4>3, <4>4
    <3> QED BY <1>2, <2>8, <3>1, <3>2, <3>3
  <2>12. l.targets[m] # active => m \in H
    <3> SUFFICES ASSUME l.targets[m] # active PROVE m \in H
      OBVIOUS
    <3>1. LimitOf(l, m) = 0 \/ y <= LimitOf(l, m)
      <4>1. CASE m < n
        <5>1. m + 1 \in 1..n /\ m + 1 \notin B
          BY <1>2, <2>2, <2>6, <2>8, <4>1
        <5>2. ~ (l.offsets[m + 1] <= y) /\ l.offsets[m + 1] \in Nat
          BY <1>2, <2>2, <5>1
        <5> QED BY <1>2, <2>8, <2>10, <4>1, <5>2
      <4>2. CASE ~ (m < n)
        BY <2>8, <2>10, <4>2
      <4> QED BY <4>1, <4>2
    <3>2. y >= l.offsets[m] /\ m \in DOMAIN l.targets
      BY <1>2, <2>8
    <3> QED BY <1>1, <3>1, <3>2 DEF Hits
  <2>13. CASE H = {}
    BY <1>3, <1>4, <1>6, <2>3, <2>5, <2>9, <2>12, <2>13
  <2>14. CASE H # {}
    <3>1. H = {m}
      BY <2>11, <2>14
    <3>2. m <= m
      BY <1>2, <2>8
    <3>3. (CHOOSE i \in H : \A j \in H : i <= j) = m
      BY <3>1, <3>2
    <3> QED BY <1>3, <1>4, <1>6, <2>3, <2>5, <2>9, <2>14, <3>3
  <2> QED BY <2>13, <2>14
<1> QED BY <1>5, <1>6

(* ActiveIsCurrent is not inductive: what the active entry is, it is because *)
(* process, run with the offsets as they are, has made it so.                *)
SpyInv ==
  /\ layout \in Layouts /\ spy \in SpyState
  /\ spy.top \in Tops(layout)
  /\ HeightNoticed
  /\ spy.scrolls = 2 /\ spy.known = layout =>
       \E active \in Nat : spy.active = process(layout, layout.height, spy.top, active)

(* Then the entry is the current one, by ProcessFinds. *)
LEMMA SpyInvSound == SpyInv => ScrollSpyTypeOK /\ ActiveIsCurrent /\ HeightNoticed
<1> SUFFICES ASSUME SpyInv PROVE ScrollSpyTypeOK /\ ActiveIsCurrent /\ HeightNoticed
  OBVIOUS
<1>1. ScrollSpyTypeOK /\ HeightNoticed
  BY DEF SpyInv, ScrollSpyTypeOK
<1>2. ActiveIsCurrent
  <2> SUFFICES ASSUME spy.scrolls = 2, spy.known = layout, ~ OnEdge(layout, spy.top + SpyOffset),
                      Begun(layout, spy.top + SpyOffset) # {} \/ spy.top >= layout.height - ViewHeight
               PROVE  spy.active = Current(layout, spy.top)
    BY DEF ActiveIsCurrent
  <2>1. PICK active \in Nat : spy.active = process(layout, layout.height, spy.top, active)
    BY DEF SpyInv
  <2>2. layout \in Layouts /\ spy.top \in Nat
    <3>1. spy.top \in 0..(layout.height - ViewHeight) /\ layout \in Layouts
      BY DEF SpyInv, Tops
    <3> QED BY <3>1
  <2> QED BY <2>1, <2>2, ProcessFinds
<1> QED BY <1>1, <1>2

(* A layout can be scrolled, to its end too. *)
LEMMA TopsSound ==
  ASSUME NEW l \in Layouts
  PROVE  /\ Tops(l) # {}
         /\ \A top \in Tops(l) : top \in UNION {Tops(k) : k \in Layouts}
         /\ l.height - ViewHeight \in Tops(l)
<1>1. l.height \in Nat /\ ViewHeight \in Nat /\ l.height >= ViewHeight
  BY LayoutTyped
<1>2. l.height - ViewHeight \in Tops(l)
  BY <1>1 DEF Tops
<1> QED BY <1>2

(* The constructor. *)
LEMMA SpyBegins ==
  ASSUME NEW all \in BOOLEAN, ScrollSpyInit(all)
  PROVE  SpyInv
<1>1. layout \in Layouts
  BY ScrollSpyAssumption, SomeIsIn DEF ScrollSpyInit
<1>2. PICK top \in some(Tops(layout), all) :
        spy = [top |-> top, known |-> layout, scrolls |-> 2,
               active |-> process(layout, layout.height, top, NoTarget)]
  BY DEF ScrollSpyInit
<1>3. top \in Tops(layout)
  BY <1>1, <1>2, TopsSound, SomeIsIn
<1>4. NoTarget \in Nat
  BY DEF NoTarget
<1>5. process(layout, layout.height, top, NoTarget) \in Nat
  BY <1>1, <1>4, ProcessTyped
<1>6. spy \in SpyState
  BY <1>1, <1>2, <1>3, <1>5, TopsSound DEF SpyState
<1> QED BY <1>1, <1>2, <1>3, <1>4, <1>6 DEF SpyInv, HeightNoticed

(* A scroll event, with the page as l. *)
LEMMA ProcessedSound ==
  ASSUME NEW s \in SpyState, NEW l \in Layouts, NEW top \in Tops(l),
         s.scrolls > 0 => s.known.height = l.height,
         NEW t, t = processed(s, l, top)
  PROVE  /\ t \in SpyState /\ t.top = top /\ t.scrolls > 0
         /\ t.known.height = l.height
         /\ t.scrolls = 2 /\ t.known = l => t.active = process(l, l.height, top, s.active)
<1>1. /\ s.known \in Layouts /\ s.active \in Nat /\ s.scrolls \in 0..2
  BY DEF SpyState
<1>2. process(s.known, l.height, top, s.active) \in Nat
  BY <1>1, ProcessTyped
<1>3. /\ t.top = top /\ t.known = IF s.known.height # l.height THEN l ELSE s.known
      /\ t.active = process(s.known, l.height, top, s.active)
      /\ t.scrolls = IF s.scrolls < 2 THEN s.scrolls + 1 ELSE 2
  BY DEF processed
<1>4. t \in SpyState
  <2>1. (IF s.scrolls < 2 THEN s.scrolls + 1 ELSE 2) \in 0..2
    BY <1>1
  <2> QED BY <1>1, <1>2, <2>1, TopsSound DEF SpyState, processed
<1>5. t.scrolls > 0 /\ t.known.height = l.height
  BY <1>1, <1>3
<1>6. t.scrolls = 2 => s.scrolls > 0
  BY <1>1, <1>3
<1>7. t.scrolls = 2 => t.known = s.known
  BY <1>3, <1>6
<1> QED BY <1>3, <1>4, <1>5, <1>7

(* Every scroll, every new layout and refresh keeps the invariant of the spy. *)
LEMMA SpyKeeps ==
  ASSUME SpyInv, ScrollSpyNext
  PROVE  SpyInv'
<1>t. layout \in Layouts /\ spy \in SpyState /\ spy.top \in Tops(layout)
      /\ (spy.scrolls > 0 => spy.known.height = layout.height)
  BY DEF SpyInv, HeightNoticed
<1>0. spy.known \in Layouts /\ spy.active \in Nat /\ spy.scrolls \in 0..2
      /\ spy.top \in UNION {Tops(l) : l \in Layouts}
  BY <1>t DEF SpyState
<1>1. ASSUME NEW top \in Tops(layout), ScrollTo(top)
      PROVE  SpyInv'
  <2>1. spy' = processed(spy, layout, top) /\ layout' = layout
    BY <1>1 DEF ScrollTo
  <2>2. /\ spy' \in SpyState /\ spy'.top = top /\ spy'.scrolls > 0
        /\ spy'.known.height = layout.height
        /\ spy'.scrolls = 2 /\ spy'.known = layout =>
             spy'.active = process(layout, layout.height, top, spy.active)
    BY <1>t, <2>1, ProcessedSound
  <2> QED BY <1>t, <1>0, <2>1, <2>2 DEF SpyInv, HeightNoticed
<1>2. ASSUME NEW l \in Layouts, Relayout(l)
      PROVE  SpyInv'
  <2>1. PICK laid : laid = [spy EXCEPT !.scrolls = 0]
    OBVIOUS
  <2>2. /\ laid \in SpyState /\ laid.scrolls = 0 /\ laid.top = spy.top
    BY <1>t, <2>1 DEF SpyState
  <2>3. layout' = l /\ spy' = IF spy.top \in Tops(l) THEN laid
                              ELSE processed(laid, l, l.height - ViewHeight)
    BY <1>2, <2>1 DEF Relayout
  <2>4. CASE spy.top \in Tops(l)
    BY <2>2, <2>3, <2>4 DEF SpyInv, HeightNoticed
  <2>5. CASE spy.top \notin Tops(l)
    <3>1. PICK top, t : top = l.height - ViewHeight /\ t = processed(laid, l, top)
      OBVIOUS
    <3>2. top \in Tops(l)
      BY <3>1, TopsSound
    <3>3. /\ t \in SpyState /\ t.top = top /\ t.scrolls > 0
          /\ t.known.height = l.height
          /\ t.scrolls = 2 /\ t.known = l => t.active = process(l, l.height, top, laid.active)
      BY <2>2, <3>1, <3>2, ProcessedSound
    <3>4. spy' = t /\ laid.active \in Nat
      BY <2>2, <2>3, <2>5, <3>1 DEF SpyState
    <3> QED BY <2>3, <3>2, <3>3, <3>4 DEF SpyInv, HeightNoticed
  <2> QED BY <2>4, <2>5
<1>3. CASE CallRefresh
  <2>1. spy' = [[spy EXCEPT !.known = layout] EXCEPT !.scrolls = 0] /\ layout' = layout
    BY <1>3 DEF CallRefresh
  <2>2. spy' \in SpyState /\ spy'.top = spy.top /\ spy'.scrolls = 0
    <3>1. PICK k : k = [spy EXCEPT !.known = layout]
      OBVIOUS
    <3>2. k \in SpyState /\ k.top = spy.top
      BY <1>t, <3>1 DEF SpyState
    <3>3. spy' = [k EXCEPT !.scrolls = 0]
      BY <2>1, <3>1
    <3> QED BY <3>2, <3>3 DEF SpyState
  <2> QED BY <1>t, <2>1, <2>2 DEF SpyInv, HeightNoticed
<1> QED BY <1>1, <1>2, <1>3 DEF ScrollSpyNext

-----------------------------------------------------------------------------
(* The pinned element. *)

(* By the first check at a place an element at the foot is as far down as the    *)
(* page allows, or further, and one at the top is where it belongs.              *)
Checked(a) ==
  ~ Meets(a) =>
    /\ a.affixed # "null"
    /\ a.affixed = "bottom" => /\ a.cssTop >= Bottom(a)
                               /\ a.scrollTop + FixedTop > a.cssTop
    /\ a.affixed = "top" => a.scrollTop <= OffsetTop

(* By the second it is what the place calls for. *)
Called(a) ==
  IF a.scrollTop + FixedTop > Bottom(a) THEN "bottom"
  ELSE IF a.scrollTop <= OffsetTop THEN "top" ELSE "false"
(* What a second check leaves. *)
Settled(a) == Checked(a) /\ (~ Meets(a) => a.affixed = Called(a))

(* SettledByPlace and FootFree are not inductive: the second check needs what *)
(* the first has left.                                                        *)
AffixInv ==
  /\ affix \in AffixState /\ settled \in 0..2
  /\ affix.scrollTop <= affix.height - ScreenHeight
  /\ affix.unpin <=> affix.affixed = "bottom"
  /\ settled \in {1, 2} /\ "show" \notin veto => Checked(affix)
  /\ settled = 2 /\ "show" \notin veto => Settled(affix)

(* The numbers of the page. *)
LEMMA AffixNumbers ==
  ASSUME NEW a \in AffixState
  PROVE  /\ a.height \in Nat /\ a.scrollTop \in Nat /\ a.cssTop \in Nat
         /\ AffixHeight \in Nat /\ OffsetTop \in Nat /\ OffsetBottom \in Nat
         /\ StaticTop \in Nat /\ FixedTop \in Nat /\ ScreenHeight \in Nat
         /\ a.height >= ScreenHeight /\ a.height \in PageHeights
         /\ OffsetTop + FixedTop < Bottom(a) /\ StaticTop < Bottom(a)
         /\ Bottom(a) = a.height - OffsetBottom - AffixHeight
<1>1. a.height \in PageHeights /\ a.scrollTop \in Nat /\ a.cssTop \in Nat
  BY DEF AffixState
<1>2. /\ a.height \in Nat /\ a.height >= ScreenHeight
      /\ AffixHeight \in Nat /\ OffsetTop \in Nat /\ OffsetBottom \in Nat
      /\ StaticTop \in Nat /\ FixedTop \in Nat /\ ScreenHeight \in Nat
      /\ OffsetTop + FixedTop + AffixHeight < a.height - OffsetBottom
      /\ StaticTop + AffixHeight < a.height - OffsetBottom
  BY <1>1, AffixAssumption
<1> QED BY <1>1, <1>2 DEF Bottom

(* A settled element is where its place calls for and free of the foot. *)
LEMMA AffixInvSound == AffixInv => AffixTypeOK /\ SettledByPlace /\ FootFree
<1> SUFFICES ASSUME AffixInv PROVE AffixTypeOK /\ SettledByPlace /\ FootFree
  OBVIOUS
<1>1. AffixTypeOK
  BY DEF AffixInv, AffixTypeOK
<1>2. SettledByPlace
  BY DEF AffixInv, SettledByPlace, Settled, Called
<1>3. FootFree
  <2> SUFFICES ASSUME settled = 2, "show" \notin veto, ~ Meets(affix)
               PROVE  \/ positionTop(affix) <= Bottom(affix)
                      \/ positionTop(affix) < affix.scrollTop + FixedTop
    BY DEF FootFree
  <2>1. Checked(affix) /\ affix.affixed = Called(affix) /\ affix \in AffixState
    BY DEF AffixInv, Settled
  <2>2. CASE affix.affixed = "bottom"
    <3>1. positionTop(affix) = affix.cssTop
      BY <2>2 DEF positionTop
    <3> QED BY <2>1, <2>2, <3>1, AffixNumbers DEF Checked
  <2>3. CASE affix.affixed = "false"
    <3>1. positionTop(affix) = affix.scrollTop + FixedTop
      BY <2>3 DEF positionTop
    <3>2. ~ (affix.scrollTop + FixedTop > Bottom(affix))
      BY <2>1, <2>3 DEF Called
    <3> QED BY <2>1, <3>1, <3>2, AffixNumbers
  <2>4. CASE affix.affixed = "top"
    <3>1. positionTop(affix) = StaticTop
      BY <2>4 DEF positionTop
    <3> QED BY <2>1, <3>1, AffixNumbers
  <2> QED BY <2>1, <2>2, <2>3, <2>4 DEF Called
<1> QED BY <1>1, <1>2, <1>3

(* Where an element is that has not met the foot since it was pinned. *)
Steady(a) == a \in AffixState /\ (a.unpin <=> a.affixed = "bottom")

(* zone by the state the element is in: the position that it reads depends on *)
(* it.                                                                        *)
LEMMA ZoneIs ==
  ASSUME NEW a, Steady(a)
  PROVE  /\ a.affixed = "bottom" =>
              zone(a) = IF a.scrollTop + FixedTop <= a.cssTop THEN "false"
                        ELSE IF a.cssTop >= Bottom(a) THEN "bottom"
                        ELSE IF a.scrollTop <= OffsetTop THEN "top" ELSE "false"
         /\ a.affixed = "false" =>
              zone(a) = IF a.scrollTop + FixedTop >= Bottom(a) THEN "bottom"
                        ELSE IF a.scrollTop <= OffsetTop THEN "top" ELSE "false"
         /\ a.affixed \in {"null", "top"} =>
              zone(a) = IF a.scrollTop <= OffsetTop THEN "top" ELSE "false"
<1>1. a \in AffixState /\ (a.unpin <=> a.affixed = "bottom")
  BY DEF Steady
<1>2. CASE a.affixed = "bottom"
  <2>1. positionTop(a) = a.cssTop
    BY <1>2 DEF positionTop
  <2> QED BY <1>1, <1>2, <2>1, AffixNumbers DEF zone
<1>3. CASE a.affixed = "false"
  <2>1. positionTop(a) = a.scrollTop + FixedTop
    BY <1>3 DEF positionTop
  <2> QED BY <1>1, <1>3, <2>1, AffixNumbers DEF zone
<1>4. CASE a.affixed \in {"null", "top"}
  <2>1. positionTop(a) = StaticTop
    BY <1>4 DEF positionTop
  <2> QED BY <1>1, <1>4, <2>1, AffixNumbers DEF zone
<1> QED BY <1>2, <1>3, <1>4

(* One check after another: whatever came before, the first leaves the *)
(* element Checked, and the second Settled.                            *)
LEMMA CheckSound ==
  ASSUME NEW a, Steady(a), NEW b, b = checkPosition(a)
  PROVE  /\ Steady(b)
         /\ b.scrollTop = a.scrollTop /\ b.height = a.height
         /\ a.visible /\ "show" \notin veto =>
              /\ Checked(b)
              /\ Checked(a) => Settled(b)
<1>1. a \in AffixState /\ (a.unpin <=> a.affixed = "bottom")
  BY DEF Steady
<1>2. PICK z : z = zone(a)
  OBVIOUS
<1>3. z \in {"false", "bottom", "top"}
  BY <1>2 DEF zone
<1>4. CASE ~ a.visible \/ z = a.affixed \/ "show" \in veto
  <2>1. b = a
    BY <1>2, <1>4 DEF checkPosition, isDefaultPrevented
  <2>2. ASSUME a.visible, "show" \notin veto
        PROVE  Checked(a) /\ Settled(a)
    <3>1. zone(a) = a.affixed
      BY <1>2, <1>4, <2>2
    <3>2. CASE a.affixed = "bottom"
      BY <1>1, <3>1, <3>2, ZoneIs, AffixNumbers DEF Checked, Settled, Called, Meets
    <3>3. CASE a.affixed = "false"
      BY <1>1, <3>1, <3>3, ZoneIs, AffixNumbers DEF Checked, Settled, Called, Meets
    <3>4. CASE a.affixed = "top"
      BY <1>1, <3>1, <3>4, ZoneIs, AffixNumbers DEF Checked, Settled, Called, Meets
    <3> QED BY <1>2, <1>3, <3>1, <3>2, <3>3, <3>4
  <2> QED BY <2>1, <2>2
<1>5. CASE a.visible /\ z # a.affixed /\ "show" \notin veto
  <2>1. b = [[[a EXCEPT !.affixed = z] EXCEPT !.unpin = (z = "bottom")]
               EXCEPT !.cssTop = IF z = "bottom" THEN a.height - AffixHeight - OffsetBottom ELSE 0]
    BY <1>2, <1>5 DEF checkPosition, isDefaultPrevented
  <2>2. (IF z = "bottom" THEN a.height - AffixHeight - OffsetBottom ELSE 0) \in Nat
    BY <1>1, AffixNumbers
  <2>3. /\ b.affixed = z /\ b.unpin = (z = "bottom") /\ b.scrollTop = a.scrollTop
        /\ b.height = a.height
        /\ z = "bottom" => b.cssTop = a.height - AffixHeight - OffsetBottom
    BY <1>1, <2>1 DEF AffixState
  <2>4. b \in AffixState
    BY <1>1, <1>3, <2>1, <2>2 DEF AffixState
  <2>5. Steady(b)
    BY <2>3, <2>4 DEF Steady
  <2>6. Bottom(b) = Bottom(a) /\ (Meets(b) <=> Meets(a)) /\ Called(b) = Called(a)
    BY <2>3 DEF Bottom, Meets, Called
  <2>7. z = "bottom" => b.cssTop = Bottom(a)
    BY <1>1, <2>3, AffixNumbers
  <2>8. Checked(b) /\ (Checked(a) => Settled(b))
    <3>1. CASE a.affixed = "bottom"
      BY <1>1, <1>2, <1>5, <2>3, <2>6, <2>7, <3>1, ZoneIs, AffixNumbers
         DEF Checked, Settled, Called, Meets
    <3>2. CASE a.affixed = "false"
      <4>1. /\ z = "bottom" => ~ (a.scrollTop + FixedTop < Bottom(a))
            /\ z = "top" => a.scrollTop <= OffsetTop /\ a.scrollTop + FixedTop < Bottom(a)
        <5>1. z = IF a.scrollTop + FixedTop >= Bottom(a) THEN "bottom"
                  ELSE IF a.scrollTop <= OffsetTop THEN "top" ELSE "false"
          BY <1>2, <3>2, ZoneIs
        <5>2. a.scrollTop + FixedTop \in Nat /\ Bottom(a) \in Int
          BY <1>1, AffixNumbers
        <5> QED BY <5>1, <5>2
      <4>2. CASE z = "bottom"
        BY <1>1, <2>3, <2>6, <2>7, <4>1, <4>2, AffixNumbers DEF Checked, Settled, Called, Meets
      <4>3. CASE z = "top"
        BY <1>1, <2>3, <2>6, <2>7, <4>1, <4>3, AffixNumbers DEF Checked, Settled, Called, Meets
      <4> QED BY <1>3, <1>5, <3>2, <4>2, <4>3
    <3>3. CASE a.affixed = "top"
      BY <1>1, <1>2, <1>5, <2>3, <2>6, <2>7, <3>3, ZoneIs, AffixNumbers
         DEF Checked, Settled, Called, Meets
    <3>4. CASE a.affixed = "null"
      <4>1. ~ Meets(a) => ~ Checked(a)
        BY <3>4 DEF Checked
      <4>2. z \in {"top", "false"} /\ (z = "top" => a.scrollTop <= OffsetTop)
        BY <1>2, <3>4, ZoneIs
      <4>3. Checked(b)
        BY <2>3, <4>2 DEF Checked
      <4> QED BY <2>6, <4>1, <4>3 DEF Settled
    <3> QED BY <1>1, <3>1, <3>2, <3>3, <3>4 DEF AffixState
  <2> QED BY <2>3, <2>5, <2>8
<1> QED BY <1>4, <1>5

(* The constructor checks the element once. *)
LEMMA AffixBegins ==
  ASSUME NEW all \in BOOLEAN, AffixInit(all)
  PROVE  AffixInv
<1>0. PICK h \in some(PageHeights, all) : \E s \in some(ScrollTops(h), all) :
        affix = checkPosition([affixed |-> "null", unpin |-> FALSE, cssTop |-> 0,
                               scrollTop |-> s, height |-> h, visible |-> TRUE,
                               timer |-> FALSE])
  BY DEF AffixInit
<1>1. PICK s \in some(ScrollTops(h), all) :
        affix = checkPosition([affixed |-> "null", unpin |-> FALSE, cssTop |-> 0,
                               scrollTop |-> s, height |-> h, visible |-> TRUE,
                               timer |-> FALSE])
  BY <1>0
<1>2. h \in PageHeights
  BY <1>0, AffixAssumption, SomeIsIn
<1>3. h \in Nat /\ ScreenHeight \in Nat /\ h >= ScreenHeight
  BY <1>2, AffixAssumption
<1>4. 0 \in ScrollTops(h)
  BY <1>3 DEF ScrollTops
<1>5. s \in ScrollTops(h)
  BY <1>1, <1>4, SomeIsIn
<1>6. s \in Nat /\ s <= h - ScreenHeight
  BY <1>3, <1>5 DEF ScrollTops
<1>7. PICK a : a = [affixed |-> "null", unpin |-> FALSE, cssTop |-> 0,
                    scrollTop |-> s, height |-> h, visible |-> TRUE, timer |-> FALSE]
  OBVIOUS
<1>8. Steady(a) /\ a.scrollTop = s /\ a.height = h
  BY <1>2, <1>6, <1>7 DEF Steady, AffixState
<1>9. affix = checkPosition(a)
  BY <1>1, <1>7
<1>10. Steady(affix) /\ affix.scrollTop = s /\ affix.height = h
  BY <1>8, <1>9, CheckSound
<1>11. settled = 0
  BY DEF AffixInit
<1> QED BY <1>6, <1>10, <1>11 DEF AffixInv, Steady

(* Every scroll, click, timer and style keeps the invariant of the element. *)
LEMMA AffixKeeps ==
  ASSUME AffixInv, AffixNext, veto' = veto
  PROVE  AffixInv'
<1>t. /\ affix \in AffixState /\ Steady(affix) /\ settled \in 0..2
      /\ affix.scrollTop <= affix.height - ScreenHeight
      /\ settled \in {1, 2} /\ "show" \notin veto => Checked(affix)
  BY DEF AffixInv, Steady
<1>n. /\ affix.height \in Nat /\ affix.scrollTop \in Nat /\ ScreenHeight \in Nat
      /\ affix.height >= ScreenHeight /\ affix.height \in PageHeights
  BY <1>t, AffixNumbers
<1>g. Again \in 0..2 /\ Again # 0 /\ (Again = 2 => settled \in {1, 2})
  BY <1>t DEF Again
<1>1. ASSUME NEW s \in ScrollTops(affix.height), AffixScroll(s)
      PROVE  AffixInv'
  <2>1. PICK a : a = [affix EXCEPT !.scrollTop = s]
    OBVIOUS
  <2>2. s \in Nat /\ s <= affix.height - ScreenHeight
    BY <1>n DEF ScrollTops
  <2>3. Steady(a) /\ a.scrollTop = s /\ a.height = affix.height /\ a.visible = affix.visible
    BY <1>t, <2>1, <2>2 DEF Steady, AffixState
  <2>4. affix' = checkPosition(a)
        /\ settled' = IF ~affix.visible THEN 0 ELSE IF s = affix.scrollTop THEN Again ELSE 1
    BY <1>1, <2>1 DEF AffixScroll
  <2>5. PICK b : b = affix'
    OBVIOUS
  <2>6. /\ Steady(b) /\ b.scrollTop = s /\ b.height = affix.height
        /\ a.visible /\ "show" \notin veto => Checked(b) /\ (Checked(a) => Settled(b))
    BY <2>3, <2>4, <2>5, CheckSound
  <2>7. settled' \in 0..2 /\ (settled' \in {1, 2} => affix.visible)
    BY <1>g, <2>4
  <2>8. settled' = 2 => s = affix.scrollTop /\ settled \in {1, 2}
    BY <1>g, <2>4
  <2>9. s = affix.scrollTop => a = affix
    BY <1>t, <2>1 DEF AffixState
  <2>10. settled' \in {1, 2} /\ "show" \notin veto => Checked(b)
    BY <2>3, <2>6, <2>7
  <2>11. settled' = 2 /\ "show" \notin veto => Settled(b)
    BY <1>t, <2>3, <2>6, <2>7, <2>8, <2>9
  <2> QED BY <2>2, <2>5, <2>6, <2>7, <2>10, <2>11 DEF AffixInv, Steady
<1>2. ASSUME NEW h \in PageHeights, AffixClick(h)
      PROVE  AffixInv'
  <2>1. /\ affix' = [[[affix EXCEPT !.height = h] EXCEPT !.timer = TRUE]
                       EXCEPT !.scrollTop = Lower(affix.scrollTop, h - ScreenHeight)]
        /\ settled' = IF h = affix.height THEN settled ELSE 0
    BY <1>2, <1>t DEF AffixClick, AffixState
  <2>2. h \in Nat /\ h >= ScreenHeight
    BY AffixAssumption
  <2>3. PICK s : s = Lower(affix.scrollTop, h - ScreenHeight)
    OBVIOUS
  <2>4. s \in Nat /\ s <= h - ScreenHeight /\ (h = affix.height => s = affix.scrollTop)
    BY <1>t, <1>n, <2>2, <2>3 DEF Lower
  <2>5. /\ affix' \in AffixState /\ affix'.scrollTop = s /\ affix'.height = h
        /\ affix'.affixed = affix.affixed /\ affix'.unpin = affix.unpin
        /\ affix'.cssTop = affix.cssTop
    BY <1>t, <2>1, <2>3, <2>4 DEF AffixState
  <2>6. h = affix.height =>
          /\ Checked(affix) <=> Checked(affix')
          /\ Settled(affix) <=> Settled(affix')
    BY <2>4, <2>5 DEF Checked, Settled, Called, Meets, Bottom
  <2>7. settled' # 0 => h = affix.height /\ settled' = settled
    BY <2>1
  <2>8. settled' \in 0..2
    BY <1>t, <2>1
  <2>9. settled' \in {1, 2} /\ "show" \notin veto => Checked(affix')
    BY <2>6, <2>7 DEF AffixInv
  <2>10. settled' = 2 /\ "show" \notin veto => Settled(affix')
    BY <2>6, <2>7 DEF AffixInv
  <2> QED BY <1>t, <2>4, <2>5, <2>8, <2>9, <2>10 DEF AffixInv, Steady
<1>3. CASE AffixTimer
  <2>1. PICK a : a = [affix EXCEPT !.timer = FALSE]
    OBVIOUS
  <2>3. /\ Steady(a) /\ a.scrollTop = affix.scrollTop /\ a.height = affix.height
        /\ a.visible = affix.visible /\ a.affixed = affix.affixed /\ a.cssTop = affix.cssTop
    BY <1>t, <2>1 DEF Steady, AffixState
  <2>4. affix' = checkPosition(a) /\ settled' = IF affix.visible THEN Again ELSE 0
    BY <1>3, <2>1 DEF AffixTimer
  <2>5. PICK b : b = affix'
    OBVIOUS
  <2>6. /\ Steady(b) /\ b.scrollTop = affix.scrollTop /\ b.height = affix.height
        /\ a.visible /\ "show" \notin veto => Checked(b) /\ (Checked(a) => Settled(b))
    BY <2>3, <2>4, <2>5, CheckSound
  <2>7. settled' \in 0..2 /\ (settled' \in {1, 2} => affix.visible)
        /\ (settled' = 2 => settled \in {1, 2})
    BY <1>g, <2>4
  <2>8. Checked(affix) => Checked(a)
    BY <2>3 DEF Checked, Meets, Bottom
  <2>9. settled' \in {1, 2} /\ "show" \notin veto => Checked(b)
    BY <2>3, <2>6, <2>7
  <2>10. settled' = 2 /\ "show" \notin veto => Settled(b)
    BY <1>t, <2>3, <2>6, <2>7, <2>8
  <2> QED BY <1>t, <2>5, <2>6, <2>7, <2>9, <2>10 DEF AffixInv, Steady
<1>4. CASE AffixVisible
  <2>1. affix' = [affix EXCEPT !.visible = ~affix.visible] /\ settled' = 0
    BY <1>4 DEF AffixVisible
  <2>2. /\ affix' \in AffixState /\ affix'.scrollTop = affix.scrollTop
        /\ affix'.height = affix.height /\ affix'.affixed = affix.affixed
        /\ affix'.unpin = affix.unpin
    BY <1>t, <2>1 DEF AffixState
  <2> QED BY <1>t, <2>1, <2>2 DEF AffixInv, Steady
<1> QED BY <1>1, <1>2, <1>3, <1>4 DEF AffixNext

-----------------------------------------------------------------------------
(* The menus. *)

(* The type of the record the widget keeps of its menus. *)
DropdownState == [open : SUBSET Menus, backdrop : BOOLEAN,
                  disabled : SUBSET Menus, touch : BOOLEAN]

(* What DropdownSound says of the menus of a page. *)
MenusSound(d) ==
  /\ d \in DropdownState
  /\ "hide" \notin veto => Cardinality(d.open) <= 1
  /\ d.backdrop => d.touch /\ d.open # {}
  /\ "hide" \notin veto /\ d.touch /\ d.open # {} => d.backdrop

(* DropdownSound's invariants are inductive as they stand: every handler *)
(* first clears the menus.                                               *)
DropdownInv == MenusSound(dropdown) /\ focused \in Focus

(* They are the same, of the variables instead of any record. *)
LEMMA DropdownInvSound == DropdownInv <=> DropdownTypeOK /\ OneMenuOpen /\ BackdropIffOpen
BY DEF DropdownInv, MenusSound, DropdownState, DropdownTypeOK, OneMenuOpen, BackdropIffOpen

(* clearMenus leaves no menu, or those that the application keeps. *)
LEMMA ClearSound ==
  ASSUME NEW d, MenusSound(d), NEW e, e = clearMenus(d)
  PROVE  /\ MenusSound(e) /\ e.disabled = d.disabled /\ e.touch = d.touch /\ ~ e.backdrop
         /\ "hide" \notin veto => e.open = {}
<1>1. PICK O : O = IF "hide" \in veto THEN d.open ELSE {}
  OBVIOUS
<1>2. e = [[d EXCEPT !.backdrop = FALSE] EXCEPT !.open = O]
  BY <1>1 DEF clearMenus, isDefaultPrevented
<1>3. d \in DropdownState /\ O \subseteq Menus
  BY <1>1 DEF MenusSound, DropdownState
<1>4. /\ e \in DropdownState /\ e.open = O /\ e.backdrop = FALSE
      /\ e.disabled = d.disabled /\ e.touch = d.touch
  BY <1>2, <1>3 DEF DropdownState
<1>5. "hide" \notin veto => Cardinality(O) <= 1
  BY <1>1, FS_EmptySet
<1>6. "hide" \notin veto => O = {}
  BY <1>1
<1> QED BY <1>1, <1>4, <1>5, <1>6 DEF MenusSound

(* toggle opens the one menu, or leaves none. *)
LEMMA ToggleMenuSound ==
  ASSUME NEW d, MenusSound(d), NEW m \in Menus
  PROVE  MenusSound(toggleMenu(d, m))
<1>1. CASE m \in d.disabled
  <2>1. toggleMenu(d, m) = clearMenus(d)
    BY <1>1 DEF toggleMenu
  <2> QED BY <2>1, ClearSound
<1>2. CASE m \notin d.disabled
  <2>1. PICK c : c = clearMenus(d)
    OBVIOUS
  <2>2. /\ MenusSound(c) /\ c.touch = d.touch /\ ("hide" \notin veto => c.open = {})
    BY <2>1, ClearSound
  <2>3. PICK b : b = [c EXCEPT !.backdrop = d.touch]
    OBVIOUS
  <2>4. /\ c \in DropdownState /\ d.touch \in BOOLEAN
    BY <2>2 DEF MenusSound, DropdownState
  <2>5. /\ b \in DropdownState /\ b.open = c.open /\ b.touch = c.touch /\ b.backdrop = d.touch
    BY <2>3, <2>4 DEF DropdownState
  <2>6. CASE m \in d.open
    BY <1>2, <2>1, <2>2, <2>6 DEF toggleMenu
  <2>7. CASE m \notin d.open /\ "show" \in veto
    <3>1. toggleMenu(d, m) = clearMenus(b)
      BY <1>2, <2>1, <2>3, <2>7 DEF toggleMenu, isDefaultPrevented
    <3>2. clearMenus(b) = clearMenus(c)
      <4>1. [b EXCEPT !.backdrop = FALSE] = [c EXCEPT !.backdrop = FALSE] /\ b.open = c.open
        BY <2>3, <2>4, <2>5 DEF DropdownState
      <4> QED BY <2>3, <2>4, <2>5, <4>1 DEF clearMenus, DropdownState
    <3> QED BY <2>2, <3>1, <3>2, ClearSound
  <2>8. CASE m \notin d.open /\ "show" \notin veto
    <3>1. PICK t : t = [b EXCEPT !.open = b.open \cup {m}]
      OBVIOUS
    <3>2. toggleMenu(d, m) = t
      BY <1>2, <2>1, <2>3, <2>8, <3>1 DEF toggleMenu, isDefaultPrevented
    <3>3. /\ t \in DropdownState /\ t.open = c.open \cup {m} /\ t.touch = d.touch
          /\ t.backdrop = d.touch
      BY <2>2, <2>5, <3>1 DEF DropdownState
    <3>4. "hide" \notin veto => t.open = {m}
      BY <2>2, <3>3
    <3>5. Cardinality({m}) = 1
      BY FS_Singleton
    <3>6. t.open # {}
      BY <3>3
    <3> QED BY <3>2, <3>3, <3>4, <3>5, <3>6 DEF MenusSound
  <2> QED BY <2>6, <2>7, <2>8
<1> QED BY <1>1, <1>2

(* A focus that is dropped is nowhere, not on an item of a closed menu. *)
LEMMA StillShownTyped ==
  ASSUME NEW f \in Focus, NEW d
  PROVE  stillShown(f, d) \in Focus
BY DEF stillShown, Focus

(* What the focus can be on. *)
LEMMA FocusTyped ==
  ASSUME NEW m \in Menus, NEW i \in 0..Items
  PROVE  [menu |-> m, item |-> i] \in Focus
BY DEF Focus

(* The menus as the page loads them. *)
LEMMA DropdownBegins ==
  ASSUME NEW all \in BOOLEAN, DropdownInit(all)
  PROVE  DropdownInv
<1> DEFINE S == [open : {{}}, backdrop : {FALSE}, disabled : {{}}, touch : BOOLEAN]
           e == [open |-> {}, backdrop |-> FALSE, disabled |-> {}, touch |-> FALSE]
<1>1. e \in S
  OBVIOUS
<1>2. dropdown \in some(S, all) /\ focused = Nowhere
  BY DEF DropdownInit
<1> HIDE DEF e
<1>3. dropdown \in S
  <2> HIDE DEF S
  <2> QED BY <1>1, <1>2, SomeIsIn
<1>4. dropdown \in DropdownState /\ dropdown.open = {} /\ dropdown.backdrop = FALSE
  BY <1>3 DEF DropdownState
<1>5. Cardinality(dropdown.open) <= 1
  BY <1>4, FS_EmptySet
<1> QED BY <1>2, <1>4, <1>5 DEF DropdownInv, MenusSound, Focus

(* Every click and key, and every toggle disabled meanwhile, keeps them *)
(* sound.                                                               *)
LEMMA DropdownKeeps ==
  ASSUME DropdownInv, DropdownNext, veto' = veto
  PROVE  DropdownInv'
<1>t. MenusSound(dropdown) /\ dropdown \in DropdownState /\ focused \in Focus
  BY DEF DropdownInv, MenusSound
<1>g. ASSUME NEW d, dropdown' = d, MenusSound(d), focused' \in Focus
      PROVE  DropdownInv'
  BY <1>g DEF DropdownInv, MenusSound
<1>1. ASSUME NEW m \in Menus, ClickMenu(m)
      PROVE  DropdownInv'
  <2>1. [menu |-> m, item |-> 0] \in Focus
    BY FocusTyped, DropdownAssumption
  <2>2. focused' \in Focus
    BY <1>t, <1>1, <2>1, StillShownTyped DEF ClickMenu
  <2>3. dropdown' = toggleMenu(dropdown, m)
    BY <1>1 DEF ClickMenu
  <2> QED BY <1>t, <1>g, <2>2, <2>3, ToggleMenuSound
<1>2. ASSUME NEW m \in Menus, Disable(m)
      PROVE  DropdownInv'
  <2>1. PICK D : D = (dropdown.disabled \ {m}) \cup ({m} \ dropdown.disabled)
    OBVIOUS
  <2>2. PICK d : d = [dropdown EXCEPT !.disabled = D]
    OBVIOUS
  <2>3. dropdown' = d /\ focused' = focused
    BY <1>2, <2>1, <2>2 DEF Disable
  <2>4. D \subseteq Menus
    BY <1>t, <2>1 DEF DropdownState
  <2>5. /\ d \in DropdownState /\ d.open = dropdown.open
        /\ d.backdrop = dropdown.backdrop /\ d.touch = dropdown.touch
    BY <1>t, <2>2, <2>4 DEF DropdownState
  <2>6. MenusSound(d)
    BY <1>t, <2>5 DEF MenusSound
  <2> QED BY <1>t, <1>g, <2>3, <2>6
<1>3. ASSUME NEW m \in Menus, TabTo(m)
      PROVE  DropdownInv'
  <2>1. [menu |-> m, item |-> 0] \in Focus
    BY FocusTyped, DropdownAssumption
  <2> QED BY <1>t, <1>g, <1>3, <2>1 DEF TabTo
<1>4. CASE ClickDocument
  BY <1>t, <1>g, <1>4, ClearSound, StillShownTyped DEF ClickDocument
<1>5. ASSUME NEW key \in {"up", "down", "escape"}, Key(key)
      PROVE  DropdownInv'
  <2>1. focused.menu \in Menus /\ focused.item \in 0..Items /\ focused \in [menu : Menus, item : 0..Items]
    BY <1>t, <1>5 DEF Key, Focus
  <2>2. CASE focused.menu \in dropdown.open /\ key # "escape"
    <3>1. focused' = [focused EXCEPT !.item = arrow(focused.item, key)] /\ dropdown' = dropdown
      BY <1>5, <2>2 DEF Key, keydown
    <3>2. arrow(focused.item, key) \in 0..Items
      BY <2>1, DropdownAssumption DEF arrow
    <3>3. focused' \in Focus
      BY <2>1, <3>1, <3>2 DEF Focus
    <3> QED BY <1>t, <1>g, <3>1, <3>3
  <2>3. CASE ~ (focused.menu \in dropdown.open /\ key # "escape")
    <3>1. PICK f : f = IF key = "escape" THEN [menu |-> focused.menu, item |-> 0] ELSE focused
      OBVIOUS
    <3>2. f \in Focus
      BY <1>t, <2>1, <3>1, FocusTyped, DropdownAssumption
    <3>3. /\ dropdown' = IF focused.item = 0 THEN toggleMenu(dropdown, focused.menu)
                         ELSE clearMenus(dropdown)
          /\ focused' = stillShown(f, dropdown')
      BY <1>5, <2>3, <3>1 DEF Key, keydown
    <3>4. focused' \in Focus
      BY <3>2, <3>3, StillShownTyped
    <3>5. PICK d : d = dropdown'
      OBVIOUS
    <3>6. MenusSound(d)
      BY <1>t, <2>1, <3>3, <3>5, ToggleMenuSound, ClearSound
    <3> QED BY <1>g, <3>4, <3>5, <3>6
  <2> QED BY <2>2, <2>3
<1> QED BY <1>1, <1>2, <1>3, <1>4, <1>5 DEF DropdownNext

(* Escape in an open menu brings the focus to the toggle, and no menu can take it. *)
LEMMA EscapeKeeps ==
  ASSUME Key("escape")
  PROVE  focused' = [menu |-> focused.menu, item |-> 0]
<1>1. focused' = stillShown([menu |-> focused.menu, item |-> 0], dropdown')
  BY DEF Key, keydown
<1> QED BY <1>1 DEF stillShown

-----------------------------------------------------------------------------
(* The alerts. *)

(* An alert that was removed is not heard of again, whoever still waits for its end. *)
AlertSafe(s) ==
  /\ s \in AlertState /\ s.heard = s.attached
  /\ s.closed = (IF s.attached THEN 0 ELSE 1)

(* ClosedOnce is not inductive: a removal that comes after the first is *)
(* harmless because nothing is bound to the alert any more.             *)
AlertInv ==
  /\ alert = [a \in Alerts |-> alert[a]]
  /\ \A a \in Alerts : AlertSafe(alert[a])

(* It says all that ClosedOnce says. *)
LEMMA AlertInvSound == AlertInv => AlertTypeOK /\ ClosedOnce
<1> SUFFICES ASSUME AlertInv PROVE AlertTypeOK /\ ClosedOnce
  OBVIOUS
<1>1. \A a \in Alerts : alert[a] \in AlertState
  BY DEF AlertInv, AlertSafe
<1>2. alert \in [Alerts -> AlertState]
  BY <1>1 DEF AlertInv
<1> QED BY <1>2 DEF AlertInv, AlertSafe, AlertTypeOK, ClosedOnce

(* removeElement tells whoever still listens, and nobody listens twice. *)
LEMMA RemoveSafe ==
  ASSUME NEW s, AlertSafe(s)
  PROVE  AlertSafe(removeElement(s)) /\ removeElement(s).ends = s.ends
<1>1. PICK r : r = removeElement(s)
  OBVIOUS
<1>2. PICK c : c = IF s.heard THEN s.closed + 1 ELSE s.closed
  OBVIOUS
<1>3. r = [[[s EXCEPT !.attached = FALSE] EXCEPT !.closed = c] EXCEPT !.heard = FALSE]
  BY <1>1, <1>2 DEF removeElement, AlertSafe, AlertState
<1>4. s \in AlertState /\ c = 1
  BY <1>2 DEF AlertSafe
<1>5. /\ r \in AlertState /\ ~ r.attached /\ ~ r.heard /\ r.closed = 1 /\ r.ends = s.ends
  BY <1>3, <1>4 DEF AlertState
<1> QED BY <1>1, <1>5 DEF AlertSafe, AlertState

(* close removes the alert at once or lets one more removal wait. *)
LEMMA CloseSafe ==
  ASSUME NEW s, AlertSafe(s), s.ends <= AlertBound
  PROVE  AlertSafe(close(s)) /\ close(s).ends <= s.ends + 1
<1>0. s \in AlertState /\ AlertBound \in Nat /\ s.ends \in Nat
  BY AlertAssumption DEF AlertSafe, AlertState
<1>1. CASE s.heard /\ "hide" \in veto
  BY <1>0, <1>1 DEF close, isDefaultPrevented
<1>2. CASE ~ (s.heard /\ "hide" \in veto)
  <2>1. PICK f : f = [s EXCEPT !.in = FALSE]
    OBVIOUS
  <2>2. AlertSafe(f) /\ f.ends = s.ends
    BY <1>0, <2>1 DEF AlertSafe, AlertState
  <2>3. CASE transition
    <3>1. close(s) = [f EXCEPT !.ends = f.ends + 1]
      BY <1>2, <2>1, <2>3 DEF close, isDefaultPrevented
    <3>2. f.ends + 1 \in 0..(AlertBound + 1)
      BY <1>0, <2>2
    <3>3. f \in AlertState
      BY <2>2 DEF AlertSafe
    <3>4. PICK c : c = close(s)
      OBVIOUS
    <3>5. /\ c \in AlertState /\ c.heard = f.heard /\ c.attached = f.attached
          /\ c.closed = f.closed /\ c.ends = f.ends + 1
      BY <3>1, <3>2, <3>3, <3>4 DEF AlertState
    <3> QED BY <1>0, <2>2, <3>4, <3>5 DEF AlertSafe
  <2>4. CASE ~ transition
    <3>1. close(s) = removeElement(f)
      BY <1>2, <2>1, <2>4 DEF close, isDefaultPrevented
    <3> QED BY <1>0, <2>2, <3>1, RemoveSafe
  <2> QED BY <2>3, <2>4
<1> QED BY <1>1, <1>2

(* The alerts as the page loads them. *)
LEMMA AlertBegins == AlertInit => AlertInv
<1> SUFFICES ASSUME AlertInit PROVE AlertInv
  OBVIOUS
<1>1. PICK s : s = [in |-> TRUE, attached |-> TRUE, made |-> FALSE, heard |-> TRUE,
                    ends |-> 0, closed |-> 0]
  OBVIOUS
<1>2. 0 \in 0..(AlertBound + 1)
  BY AlertAssumption
<1>3. s \in AlertState /\ s.heard = s.attached /\ s.attached /\ s.closed = 0
  BY <1>1, <1>2 DEF AlertState
<1>4. alert = [a \in Alerts |-> s]
  BY <1>1 DEF AlertInit
<1> QED BY <1>3, <1>4 DEF AlertInv, AlertSafe

(* Every click, call and end of a transition keeps every alert safe. *)
LEMMA AlertKeeps ==
  ASSUME AlertInv, AlertNext
  PROVE  AlertInv'
<1>0. AlertBound \in Nat \ {0}
  BY AlertAssumption
<1>t. \A a \in Alerts : AlertSafe(alert[a]) /\ alert[a] \in AlertState /\ alert[a].ends \in Nat
  BY <1>0 DEF AlertInv, AlertSafe, AlertState
<1>d. DOMAIN alert = Alerts
  BY DEF AlertInv
<1>g. ASSUME NEW a \in Alerts, NEW s, AlertSafe(s), alert' = [alert EXCEPT ![a] = s]
      PROVE  AlertInv'
  <2>1. alert' = [b \in Alerts |-> alert'[b]]
    BY <1>d, <1>g
  <2>2. \A b \in Alerts : alert'[b] = IF b = a THEN s ELSE alert[b]
    BY <1>d, <1>g
  <2>3. \A b \in Alerts : AlertSafe(alert'[b])
    BY <1>t, <1>g, <2>2
  <2> QED BY <2>1, <2>3 DEF AlertInv, AlertSafe
<1>1. ASSUME NEW a \in Alerts, DismissAlert(a)
      PROVE  AlertInv'
  <2>1. PICK s : s = alert[a]
    OBVIOUS
  <2>2. AlertSafe(s) /\ s.ends \in Nat /\ s.ends < AlertBound
    BY <1>t, <1>1, <2>1 DEF DismissAlert
  <2>3. PICK c : c = close(s)
    OBVIOUS
  <2>4. AlertSafe(c) /\ c.ends <= s.ends + 1
    BY <1>0, <2>2, <2>3, CloseSafe
  <2>5. c.ends \in Nat
    BY <1>0, <2>4 DEF AlertSafe, AlertState
  <2>6. AlertSafe(close(c))
    BY <1>0, <2>2, <2>4, <2>5, CloseSafe
  <2>7. alert' = [alert EXCEPT ![a] = IF s.made THEN close(c) ELSE c]
    BY <1>d, <1>1, <2>1, <2>3 DEF DismissAlert
  <2> QED BY <1>g, <2>4, <2>6, <2>7
<1>2. ASSUME NEW a \in Alerts, NEW option \in {"none", "close"}, CallAlert(a, option)
      PROVE  AlertInv'
  <2>1. PICK s : s = [alert[a] EXCEPT !.made = TRUE]
    OBVIOUS
  <2>2. AlertSafe(s) /\ s.ends = alert[a].ends
    BY <1>t, <2>1 DEF AlertSafe, AlertState
  <2>3. s.ends <= AlertBound
    BY <1>0, <1>t, <1>2, <2>2 DEF CallAlert
  <2>4. alert' = [alert EXCEPT ![a] = IF option = "close" THEN close(s) ELSE s]
    BY <1>2, <2>1 DEF CallAlert
  <2>5. AlertSafe(close(s))
    BY <2>2, <2>3, CloseSafe
  <2> QED BY <1>g, <2>2, <2>4, <2>5
<1>3. ASSUME NEW a \in Alerts, AlertEnd(a)
      PROVE  AlertInv'
  <2>1. PICK s : s = [alert[a] EXCEPT !.ends = 0]
    OBVIOUS
  <2>2. AlertSafe(s)
    BY <1>0, <1>t, <2>1 DEF AlertSafe, AlertState
  <2>3. PICK r : r = removeElement(s)
    OBVIOUS
  <2>4. AlertSafe(r) /\ AlertSafe(removeElement(r))
    BY <2>2, <2>3, RemoveSafe
  <2>5. alert' = [alert EXCEPT ![a] = IF alert[a].ends = 1 THEN r ELSE removeElement(r)]
    BY <1>d, <1>3, <2>1, <2>3 DEF AlertEnd
  <2> QED BY <1>g, <2>4, <2>5
<1> QED BY <1>1, <1>2, <1>3 DEF AlertNext

-----------------------------------------------------------------------------
(* Runs of a loop. *)

(* Induction over the integers of an interval, for a set instead of a *)
(* predicate.                                                         *)
LEMMA IntervalInduction ==
  ASSUME NEW a \in Int, NEW b \in Int, NEW S, a <= b, a \in S,
         \A j \in a..(b - 1) : j \in S => j + 1 \in S
  PROVE  \A j \in a..b : j \in S
<1> DEFINE T == {j \in a..b : j \notin S}
<1>1. ASSUME T # {}
      PROVE  FALSE
  <2> DEFINE U == {n \in 1..(b - a) : a + n \notin S}
  <2>1. PICK j \in a..b : j \notin S
    BY <1>1
  <2>2. j # a
    BY <2>1
  <2>3. j - a \in U
    BY <2>1, <2>2
  <2>4. U \subseteq 1..(b - a) /\ U # {} /\ b - a \in Nat
    <3>1. b - a \in Nat
      OBVIOUS
    <3>2. U \subseteq 1..(b - a)
      OBVIOUS
    <3> QED BY <2>3, <3>1, <3>2
  <2>5. \A n \in U : n \in 1..(b - a) /\ a + n \notin S
    OBVIOUS
  <2>6. \A n \in 1..(b - a) : a + n \notin S => n \in U
    OBVIOUS
  <2> HIDE DEF U
  <2>7. PICK n \in U : \A m \in U : n <= m
    BY <2>4, FirstPlace
  <2>8. n \in 1..(b - a) /\ a + n \notin S
    BY <2>5, <2>7
  <2>9. a + (n - 1) \in a..(b - 1) /\ (a + (n - 1)) + 1 = a + n
    BY <2>8
  <2>10. CASE n = 1
    <3>1. a + (n - 1) = a
      BY <2>8, <2>10
    <3> QED BY <2>8, <2>9, <3>1
  <2>11. CASE n # 1
    <3>1. n - 1 \in 1..(b - a) /\ ~ (n <= n - 1)
      BY <2>8, <2>11
    <3>2. n - 1 \notin U
      BY <2>7, <3>1
    <3>3. a + (n - 1) \in S
      BY <2>6, <3>1, <3>2
    <3> QED BY <2>8, <2>9, <3>3
  <2> QED BY <2>10, <2>11
<1> QED BY <1>1

(* What a loop does in each of n turns, and what it goes through from a. *)
IsLoop(n, S, g) == g \in [1..n -> [S -> S]]
(* The states such a loop goes through from a. *)
IsRun(n, S, a, g, h) ==
  h \in [0..n -> S] /\ h[0] = a /\ \A i \in 1..n : h[i] = g[i][h[i - 1]]

(* A function over an interval can be defined one place after the other. *)
LEMMA Iterated ==
  ASSUME NEW n \in Nat, NEW S, NEW a \in S, NEW g, IsLoop(n, S, g)
  PROVE  \E h : IsRun(n, S, a, g, h)
<1>0. g \in [1..n -> [S -> S]]
  BY DEF IsLoop
<1> DEFINE Good(k, h) == /\ h \in [0..n -> S] /\ h[0] = a
                         /\ \A i \in 1..k : h[i] = g[i][h[i - 1]]
           K == {k \in 0..n : \E h : Good(k, h)}
<1>1. 0 \in K
  <2> DEFINE h == [i \in 0..n |-> a]
  <2>1. Good(0, h)
    OBVIOUS
  <2> HIDE DEF h
  <2> QED BY <2>1
<1>2. ASSUME NEW k \in 0..(n - 1), k \in K
      PROVE  k + 1 \in K
  <2>1. PICK h : Good(k, h)
    BY <1>2
  <2>2. g[k + 1] \in [S -> S] /\ h[k] \in S
    BY <1>0, <2>1
  <2>3. PICK s : s = g[k + 1][h[k]]
    OBVIOUS
  <2>4. s \in S
    BY <2>2, <2>3
  <2>5. PICK f : f = [h EXCEPT ![k + 1] = s]
    OBVIOUS
  <2>6. f \in [0..n -> S] /\ \A i \in 0..n : f[i] = IF i = k + 1 THEN s ELSE h[i]
    BY <2>1, <2>4, <2>5
  <2>7. f[0] = a
    BY <2>1, <2>6
  <2>8. ASSUME NEW i \in 1..(k + 1)
        PROVE  f[i] = g[i][f[i - 1]]
    <3>1. i - 1 \in 0..k /\ i \in 0..n /\ i - 1 \in 0..n
      OBVIOUS
    <3>2. f[i - 1] = h[i - 1]
      BY <2>6, <3>1
    <3>3. CASE i = k + 1
      BY <2>3, <2>6, <3>1, <3>2, <3>3
    <3>4. CASE i # k + 1
      <4>1. i \in 1..k /\ f[i] = h[i]
        BY <2>6, <3>1, <3>4
      <4> QED BY <2>1, <3>2, <4>1
    <3> QED BY <3>3, <3>4
  <2>9. Good(k + 1, f)
    BY <2>6, <2>7, <2>8
  <2> QED BY <2>9
<1> HIDE DEF K
<1>3. n \in K
  <2>1. 0 \in Int /\ n \in Int /\ 0 <= n
    OBVIOUS
  <2>2. \A k \in 0..(n - 1) : k \in K => k + 1 \in K
    BY <1>2
  <2>3. \A k \in 0..n : k \in K
    BY ONLY <1>1, <2>1, <2>2, IntervalInduction
  <2> QED BY <2>1, <2>3
<1>4. PICK h : Good(n, h)
  BY <1>3 DEF K
<1> QED BY <1>4 DEF IsRun

(* Whoever follows the loop's rule turn by turn goes through its run. *)
LEMMA RunIs ==
  ASSUME NEW n \in Nat, NEW S, NEW a \in S, NEW g, IsLoop(n, S, g), NEW f,
         f = [i \in 0..n |-> f[i]], f[0] = a,
         \A i \in 1..n : f[i - 1] \in S => f[i] = g[i][f[i - 1]]
  PROVE  IsRun(n, S, a, g, f)
<1>1. g \in [1..n -> [S -> S]]
  BY DEF IsLoop
<1> DEFINE T == {i \in 0..n : f[i] \in S}
<1>2. 0 \in T
  OBVIOUS
<1>3. ASSUME NEW j \in 0..(n - 1), j \in T
      PROVE  j + 1 \in T
  <2>1. j + 1 \in 1..n /\ (j + 1) - 1 = j /\ f[j] \in S
    BY <1>3
  <2>2. f[j + 1] = g[j + 1][f[j]]
    BY <2>1
  <2>3. g[j + 1] \in [S -> S]
    BY <1>1, <2>1
  <2> QED BY <2>1, <2>2, <2>3
<1>4. \A i \in 0..n : i \in T
  <2> HIDE DEF T
  <2>1. 0 \in Int /\ n \in Int /\ 0 <= n
    OBVIOUS
  <2>2. \A j \in 0..(n - 1) : j \in T => j + 1 \in T
    BY <1>3
  <2> QED BY ONLY <1>2, <2>1, <2>2, IntervalInduction
<1>5. f \in [0..n -> S]
  BY <1>4
<1>6. ASSUME NEW i \in 1..n
      PROVE  f[i] = g[i][f[i - 1]]
  <2>1. i - 1 \in 0..n
    OBVIOUS
  <2>2. f[i - 1] \in S
    BY <1>5, <2>1
  <2> QED BY <2>2
<1> QED BY <1>5, <1>6 DEF IsRun

-----------------------------------------------------------------------------
(* The carousel. *)

(* The browser has an interval exactly while the object holds one. *)
IntervalHeld(c) == c.live = (IF c.interval THEN 1 ELSE 0)

(* And a paused carousel has none. *)
IntervalSound(c) == IntervalHeld(c) /\ (c.paused => ~c.interval)

(* Two carousels that differ in their intervals only. *)
Alike(c, d) ==
  /\ d \in CarouselState
  /\ d.active = c.active /\ d.coming = c.coming /\ d.indicator = c.indicator
  /\ d.sliding = c.sliding /\ d.ends = c.ends /\ d.waiting = c.waiting
  /\ d.slid = c.slid

(* OneItemActive and WaitersHeard are not inductive: a slide that lasts has one end   *)
(* to wait for, that of the item that comes, and a carousel at rest has none.         *)
SlideSound(c) ==
  IF c.sliding
    THEN /\ \E x \in Item : c.active = {x}
         /\ c.coming = c.indicator
         /\ c.ends = <<[from |-> c.active, to |-> c.indicator]>>
    ELSE c.active = {c.indicator} /\ c.coming = NoItem /\ c.ends = <<>>

(* All of this, and while a slide goes on one callback waits for its end. *)
CarouselSafe(c) ==
  /\ c \in CarouselState /\ IntervalSound(c) /\ SlideSound(c)
  /\ c.waiting # <<>> => c.ends # <<>> \/ c.slid

(* The properties are not inductive: which item is to come, and that whoever *)
(* waits has a slide to wait for, make them so.                              *)
CarouselInv ==
  /\ CarouselSafe(carousel) /\ hovered \in BOOLEAN
  /\ hovered => ~carousel.interval

(* The invariant says all of them. *)
LEMMA CarouselInvSound ==
  CarouselInv => /\ CarouselTypeOK /\ OneItemActive /\ OneInterval
                 /\ HoverHolds /\ WaitersHeard
<1> SUFFICES ASSUME CarouselInv
             PROVE  /\ CarouselTypeOK /\ OneItemActive /\ OneInterval
                    /\ HoverHolds /\ WaitersHeard
  OBVIOUS
<1>1. CarouselTypeOK /\ OneInterval /\ HoverHolds /\ WaitersHeard
  BY DEF CarouselInv, CarouselSafe, IntervalSound, IntervalHeld, CarouselTypeOK, OneInterval,
         HoverHolds, WaitersHeard
<1>2. OneItemActive
  <2>1. CASE carousel.sliding
    <3>1. PICK x \in Item : carousel.active = {x}
      BY <2>1 DEF CarouselInv, CarouselSafe, SlideSound
    <3>2. Cardinality(carousel.active) = 1
      BY <3>1, FS_Singleton
    <3> QED BY <2>1, <3>2 DEF CarouselInv, CarouselSafe, SlideSound, OneItemActive
  <2>2. CASE ~ carousel.sliding
    BY <2>2 DEF CarouselInv, CarouselSafe, SlideSound, OneItemActive
  <2> QED BY <2>1, <2>2
<1> QED BY <1>1, <1>2

(* Pausing and cycling do not touch the slide. *)
LEMMA AlikeSafe ==
  ASSUME NEW c, NEW d, CarouselSafe(c), Alike(c, d), IntervalSound(d)
  PROVE  CarouselSafe(d)
BY DEF CarouselSafe, Alike, SlideSound

(* Nor do two of them in a row. *)
LEMMA AlikeTwice ==
  ASSUME NEW c, NEW d, NEW e, Alike(c, d), Alike(d, e)
  PROVE  Alike(c, e)
BY DEF Alike

(* clearInterval takes away the interval the object holds. *)
LEMMA ClearIntervalSound ==
  ASSUME NEW c \in CarouselState, IntervalHeld(c), NEW d, d = clearInterval(c)
  PROVE  /\ Alike(c, d) /\ d.live = 0 /\ d.interval = FALSE /\ d.paused = c.paused
         /\ d.always = c.always
<1>1. PICK n : n = IF c.interval THEN c.live - 1 ELSE c.live
  OBVIOUS
<1>2. n = 0
  BY <1>1 DEF IntervalHeld, CarouselState
<1>3. d = [[c EXCEPT !.live = n] EXCEPT !.interval = FALSE]
  BY <1>1 DEF clearInterval, CarouselState
<1>4. PICK a : a = [c EXCEPT !.live = n]
  OBVIOUS
<1>5. /\ a \in CarouselState /\ a.live = 0 /\ a.paused = c.paused /\ a.always = c.always
      /\ Alike(c, a)
  BY <1>2, <1>4 DEF Alike, CarouselState
<1>6. d = [a EXCEPT !.interval = FALSE]
  BY <1>3, <1>4
<1>7. /\ d \in CarouselState /\ d.live = 0 /\ d.interval = FALSE /\ d.paused = a.paused
      /\ d.always = a.always /\ Alike(a, d)
  BY <1>5, <1>6 DEF Alike, CarouselState
<1>8. Alike(c, d)
  BY <1>5, <1>7, AlikeTwice
<1> QED BY <1>5, <1>7, <1>8

(* cycle clears the interval that runs before it starts another. *)
LEMMA CycleSound ==
  ASSUME NEW c \in CarouselState, IntervalHeld(c), NEW event \in BOOLEAN
  PROVE  LET d == cycle(c, event) IN
         /\ Alike(c, d) /\ IntervalSound(d) /\ d.paused = (c.paused /\ event)
<1>1. PICK b : b = clearInterval(c)
  OBVIOUS
<1>2. /\ Alike(c, b) /\ b.live = 0 /\ b.interval = FALSE /\ b.paused = c.paused
      /\ b.always = c.always
  BY <1>1, ClearIntervalSound
<1>3. PICK p : p = (b.paused /\ event)
  OBVIOUS
<1>4. PICK a : a = [b EXCEPT !.paused = p]
  OBVIOUS
<1>5. b \in CarouselState /\ p \in BOOLEAN
  BY <1>2, <1>3 DEF Alike
<1>6. /\ a \in CarouselState /\ a.paused = p /\ a.live = 0 /\ a.interval = FALSE
      /\ a.active = b.active /\ a.coming = b.coming /\ a.indicator = b.indicator
      /\ a.sliding = b.sliding /\ a.ends = b.ends /\ a.waiting = b.waiting
      /\ a.slid = b.slid
  BY <1>2, <1>4, <1>5 DEF CarouselState
<1>7. cycle(c, event) = IF a.always /\ ~a.paused
                        THEN [a EXCEPT !.live = @ + 1, !.interval = TRUE] ELSE a
  BY <1>1, <1>3, <1>4 DEF cycle
<1>8. CASE a.always /\ ~a.paused
  <2>1. PICK d : d = [[a EXCEPT !.live = 1] EXCEPT !.interval = TRUE]
    OBVIOUS
  <2>2. cycle(c, event) = d
    BY <1>6, <1>7, <1>8, <2>1 DEF CarouselState
  <2>3. /\ d \in CarouselState /\ d.paused = p /\ d.live = 1 /\ d.interval = TRUE
        /\ d.active = b.active /\ d.coming = b.coming /\ d.indicator = b.indicator
        /\ d.sliding = b.sliding /\ d.ends = b.ends /\ d.waiting = b.waiting
        /\ d.slid = b.slid
    BY <1>6, <2>1 DEF CarouselState
  <2> QED BY <1>2, <1>3, <1>6, <1>8, <2>2, <2>3 DEF Alike, IntervalSound, IntervalHeld
<1>9. CASE ~ (a.always /\ ~a.paused)
  <2>1. cycle(c, event) = a
    BY <1>7, <1>9
  <2> QED BY <1>2, <1>3, <1>6, <2>1 DEF Alike, IntervalSound, IntervalHeld
<1> QED BY <1>8, <1>9

(* pause leaves no interval, though in mid-slide it starts one for a moment. *)
LEMMA PauseSound ==
  ASSUME NEW c \in CarouselState, IntervalHeld(c), NEW event \in BOOLEAN
  PROVE  LET d == pause(c, event) IN
         /\ Alike(c, d) /\ IntervalSound(d) /\ ~ d.interval
<1>1. PICK p : p = (c.paused \/ ~event)
  OBVIOUS
<1>2. PICK a : a = [c EXCEPT !.paused = p]
  OBVIOUS
<1>3. p \in BOOLEAN
  BY <1>1 DEF CarouselState
<1>4. Alike(c, a) /\ IntervalHeld(a)
  BY <1>2, <1>3 DEF CarouselState, Alike, IntervalHeld
<1>5. PICK r : r = cycle(a, TRUE)
  OBVIOUS
<1>6. Alike(a, r) /\ IntervalSound(r)
  BY <1>4, <1>5, CycleSound DEF Alike
<1>7. PICK b : b = IF c.coming # NoItem /\ transition THEN r ELSE a
  OBVIOUS
<1>8. Alike(c, b) /\ IntervalHeld(b)
  BY <1>4, <1>6, <1>7, AlikeTwice DEF IntervalSound
<1>9. PICK d : d = clearInterval(b)
  OBVIOUS
<1>10. Alike(b, d) /\ d.live = 0 /\ d.interval = FALSE
  BY <1>8, <1>9, ClearIntervalSound DEF Alike
<1>11. pause(c, event) = d
  BY <1>1, <1>2, <1>4, <1>5, <1>7, <1>9 DEF pause, Alike
<1>12. Alike(c, d)
  BY <1>8, <1>10, AlikeTwice
<1> QED BY <1>10, <1>11, <1>12 DEF IntervalSound, IntervalHeld

(* The item that comes is active and the indicator follows. *)
LEMMA ArriveSound ==
  ASSUME NEW c \in CarouselState, IntervalSound(c), NEW i \in Item, c.indicator = i
  PROVE  LET d == arrive(c, c.active, i) IN
         /\ d \in CarouselState /\ IntervalSound(d)
         /\ d.indicator = i /\ d.coming = NoItem /\ d.sliding = FALSE /\ d.ends = c.ends
         /\ d.interval = c.interval /\ d.waiting = c.waiting /\ d.slid = c.slid
<1>d. PICK d : d = arrive(c, c.active, i)
  OBVIOUS
<1>1. PICK A : A = (c.active \ c.active) \cup {i}
  OBVIOUS
<1>2. A = {i} /\ c \in CarouselState /\ NoItem \in Item \cup {NoItem}
  BY <1>1 DEF CarouselSafe
<1>3. PICK a : a = [[c EXCEPT !.active = A] EXCEPT !.coming = NoItem]
  OBVIOUS
<1>4. /\ a \in CarouselState /\ a.active = {i} /\ a.indicator = i /\ a.coming = NoItem
      /\ a.ends = c.ends /\ a.interval = c.interval /\ a.waiting = c.waiting
      /\ a.slid = c.slid /\ a.live = c.live /\ a.paused = c.paused
  BY <1>2, <1>3 DEF CarouselState
<1>5. d = [a EXCEPT !.sliding = FALSE]
  BY <1>d, <1>1, <1>2, <1>3 DEF arrive, CarouselState
<1>6. /\ d \in CarouselState /\ d.active = {i} /\ d.indicator = i /\ d.coming = NoItem
      /\ d.ends = c.ends /\ d.interval = c.interval /\ d.waiting = c.waiting
      /\ d.slid = c.slid /\ d.live = c.live /\ d.paused = c.paused /\ d.sliding = FALSE
  BY <1>4, <1>5 DEF CarouselState
<1> QED BY <1>d, <1>6 DEF CarouselSafe, IntervalSound, IntervalHeld

(* slide refuses a second slide, so that one item moves at a time. *)
LEMMA SlideSafe ==
  ASSUME NEW c, CarouselSafe(c), ~ c.sliding, NEW i \in Item \cup {NoItem}
  PROVE  CarouselSafe(slide(c, i)) /\ (slide(c, i).interval => c.interval)
<1>1. /\ c \in CarouselState /\ IntervalSound(c) /\ c.active = {c.indicator} /\ c.ends = <<>>
      /\ c.coming = NoItem /\ c.indicator \in Item /\ (c.waiting # <<>> => c.slid)
  BY DEF CarouselSafe, SlideSound, CarouselState
<1>2. CASE i = NoItem
  BY <1>2 DEF slide
<1>3. CASE i # NoItem /\ i \in c.active
  <2>1. slide(c, i) = [c EXCEPT !.sliding = FALSE]
    BY <1>3 DEF slide
  <2>2. slide(c, i) = c
    BY <1>1, <2>1 DEF CarouselState
  <2> QED BY <2>2
<1>4. CASE i # NoItem /\ i \notin c.active /\ "show" \in veto
  BY <1>4 DEF slide, isDefaultPrevented
<1>5. CASE i # NoItem /\ i \notin c.active /\ "show" \notin veto
  <2>i. i \in Item
    BY <1>5
  <2>1. PICK h : h = IF c.interval THEN pause(c, FALSE) ELSE c
    OBVIOUS
  <2>2. CarouselSafe(h) /\ Alike(c, h) /\ ~ h.interval
    <3>1. CASE c.interval
      <4>1. Alike(c, h) /\ IntervalSound(h) /\ ~ h.interval
        BY <1>1, <2>1, <3>1, PauseSound DEF IntervalSound
      <4> QED BY <4>1, AlikeSafe
    <3>2. CASE ~ c.interval
      BY <1>1, <2>1, <3>2 DEF Alike
    <3> QED BY <3>1, <3>2
  <2>3. PICK s : s = [h EXCEPT !.indicator = i]
    OBVIOUS
  <2>4. /\ s \in CarouselState /\ s.indicator = i /\ s.active = c.active /\ s.ends = <<>>
        /\ s.coming = NoItem /\ s.waiting = c.waiting /\ s.slid = c.slid
        /\ IntervalSound(s) /\ ~ s.interval /\ s.sliding = FALSE
    <3>1. h \in CarouselState /\ IntervalSound(h)
      BY <2>2 DEF CarouselSafe
    <3>2. /\ s \in CarouselState /\ s.indicator = i /\ s.active = h.active /\ s.ends = h.ends
          /\ s.coming = h.coming /\ s.waiting = h.waiting /\ s.slid = h.slid
          /\ s.live = h.live /\ s.paused = h.paused /\ s.interval = h.interval
          /\ s.sliding = h.sliding
      BY <2>i, <2>3, <3>1 DEF CarouselState
    <3> QED BY <1>1, <2>2, <3>1, <3>2 DEF Alike, IntervalSound, IntervalHeld
  <2>5. PICK b : b = IF transition
                     THEN [s EXCEPT !.sliding = TRUE, !.coming = i,
                             !.ends = Append(@, [from |-> c.active, to |-> i])]
                     ELSE arrive(s, c.active, i)
    OBVIOUS
  <2>6. CarouselSafe(b) /\ ~ b.interval
    <3>1. CASE transition
      <4>1. PICK w : w = [from |-> c.active, to |-> i]
        OBVIOUS
      <4>2. w \in [from : SUBSET Item, to : Item]
        BY <1>1, <2>i, <4>1
      <4>3. PICK E : E = Append(s.ends, w)
        OBVIOUS
      <4>4. E = <<w>> /\ E \in Seq([from : SUBSET Item, to : Item])
        BY <2>4, <4>2, <4>3
      <4>5. PICK a : a = [[s EXCEPT !.sliding = TRUE] EXCEPT !.coming = i]
        OBVIOUS
      <4>6. /\ a \in CarouselState /\ a.sliding = TRUE /\ a.coming = i /\ a.indicator = i
            /\ a.active = c.active /\ a.live = s.live /\ a.paused = s.paused
            /\ a.interval = s.interval /\ a.ends = s.ends
        BY <2>i, <2>4, <4>5 DEF CarouselState
      <4>7. b = [a EXCEPT !.ends = E]
        BY <2>4, <2>5, <3>1, <4>1, <4>3, <4>5 DEF CarouselState
      <4>8. /\ b \in CarouselState /\ b.sliding = TRUE /\ b.coming = i /\ b.indicator = i
            /\ b.active = c.active /\ b.live = s.live /\ b.paused = s.paused
            /\ b.interval = s.interval /\ b.ends = <<w>>
        BY <4>4, <4>6, <4>7 DEF CarouselState
      <4>9. SlideSound(b)
        BY <1>1, <4>1, <4>8 DEF SlideSound
      <4>10. IntervalSound(b) /\ ~ b.interval
        BY <2>4, <4>8 DEF IntervalSound, IntervalHeld
      <4> QED BY <4>8, <4>9, <4>10 DEF CarouselSafe
    <3>2. CASE ~ transition
      <4>1. b = arrive(s, s.active, i)
        BY <2>4, <2>5, <3>2
      <4>2. /\ b \in CarouselState /\ IntervalSound(b)
            /\ b.indicator = i /\ b.coming = NoItem /\ b.sliding = FALSE /\ b.ends = s.ends
            /\ b.interval = s.interval /\ b.waiting = s.waiting /\ b.slid = s.slid
        <5>1. s \in CarouselState /\ IntervalSound(s) /\ s.indicator = i
          BY <2>4
        <5> QED BY ONLY <2>i, <4>1, <5>1, ArriveSound
      <4>3. b.active = {i}
        <5>1. PICK A : A = (s.active \ s.active) \cup {i}
          OBVIOUS
        <5>2. b = [s EXCEPT !.active = A, !.coming = NoItem, !.sliding = FALSE]
          BY <4>1, <5>1 DEF arrive
        <5>3. b.active = A
          BY <2>4, <5>2 DEF CarouselState
        <5> QED BY <5>1, <5>3
      <4> QED BY <1>1, <2>4, <4>2, <4>3 DEF CarouselSafe, SlideSound
    <3> QED BY <3>1, <3>2
  <2>7. slide(c, i) = IF c.interval THEN cycle(b, FALSE) ELSE b
    BY <1>5, <2>1, <2>3, <2>5 DEF slide, isDefaultPrevented
  <2>8. CASE c.interval
    <3>1. PICK d : d = cycle(b, FALSE)
      OBVIOUS
    <3>2. Alike(b, d) /\ IntervalSound(d)
      BY <2>6, <3>1, CycleSound DEF CarouselSafe, IntervalSound
    <3>3. CarouselSafe(d)
      BY <2>6, <3>2, AlikeSafe
    <3> QED BY <2>7, <2>8, <3>1, <3>3
  <2>9. CASE ~ c.interval
    BY <2>6, <2>7, <2>9
  <2> QED BY <2>8, <2>9
<1> QED BY <1>2, <1>3, <1>4, <1>5

(* The index is that of the one active item. *)
LEMMA ActiveIndexIs ==
  ASSUME NEW c, CarouselSafe(c), ~ c.sliding
  PROVE  activeIndex(c) = c.indicator /\ c.indicator \in Item
<1>1. c.active = {c.indicator} /\ c.indicator \in Item
  BY DEF CarouselSafe, SlideSound, CarouselState
<1>2. c.indicator \in c.active /\ (\A j \in c.active : c.indicator <= j)
  BY <1>1 DEF Item
<1>3. activeIndex(c) \in c.active
  BY <1>2 DEF activeIndex
<1> QED BY <1>1, <1>3

(* next and prev wait for the slide that goes on by refusing. *)
LEMMA StepSafe ==
  ASSUME NEW c, CarouselSafe(c), NEW type
  PROVE  CarouselSafe(step(c, type)) /\ (step(c, type).interval => c.interval)
<1>1. CASE c.sliding
  BY <1>1 DEF step
<1>2. CASE ~ c.sliding
  <2>1. activeIndex(c) \in Item
    BY <1>2, ActiveIndexIs
  <2>2. following(c) \in Item \cup {NoItem} /\ preceding(c) \in Item \cup {NoItem}
    BY <2>1, CarouselAssumption DEF following, preceding, Item, NoItem
  <2>3. PICK i : i = IF type = "next" THEN following(c) ELSE preceding(c)
    OBVIOUS
  <2>4. step(c, type) = slide(c, i)
    BY <1>2, <2>3 DEF step
  <2> QED BY <1>2, <2>2, <2>3, <2>4, SlideSafe
<1> QED BY <1>1, <1>2

(* The interval begins anew where it is asked to, and nowhere else. *)
Restarts(c, i) == ~c.sliding /\ activeIndex(c) = i

(* A call for the item that is active already starts the interval anew. *)
LEMMA RestartSafe ==
  ASSUME NEW c, CarouselSafe(c)
  PROVE  CarouselSafe(cycle(pause(c, FALSE), FALSE))
<1>1. PICK p : p = pause(c, FALSE)
  OBVIOUS
<1>2. Alike(c, p) /\ IntervalSound(p)
  BY <1>1, PauseSound DEF CarouselSafe, IntervalSound
<1>3. PICK d : d = cycle(p, FALSE)
  OBVIOUS
<1>4. Alike(p, d) /\ IntervalSound(d)
  BY <1>2, <1>3, CycleSound DEF Alike, IntervalSound
<1>5. CarouselSafe(d)
  BY <1>2, <1>4, AlikeSafe
<1> QED BY <1>1, <1>3, <1>5

(* to waits for the slide that goes on by a listener of slid. *)
LEMMA ToSafe ==
  ASSUME NEW c, CarouselSafe(c), NEW i \in Item
  PROVE  CarouselSafe(to(c, i)) /\ (to(c, i).interval => c.interval \/ Restarts(c, i))
<1>1. CASE c.sliding
  <2>1. PICK w : w = Append(c.waiting, i)
    OBVIOUS
  <2>2. c \in CarouselState /\ w \in Seq(Item) /\ c.waiting \in Seq(Item)
    BY <2>1 DEF CarouselSafe, CarouselState
  <2>3. PICK d : d = [c EXCEPT !.waiting = w]
    OBVIOUS
  <2>4. to(c, i) = d
    BY <1>1, <2>1, <2>2, <2>3 DEF to, CarouselState
  <2>5. /\ d \in CarouselState
        /\ d.active = c.active /\ d.coming = c.coming /\ d.indicator = c.indicator
        /\ d.sliding = c.sliding /\ d.ends = c.ends /\ d.live = c.live
        /\ d.interval = c.interval /\ d.paused = c.paused
    BY <2>2, <2>3 DEF CarouselState
  <2>6. SlideSound(d) /\ IntervalSound(d)
    BY <1>1, <2>5 DEF CarouselSafe, SlideSound, IntervalSound, IntervalHeld
  <2>7. d.ends # <<>>
    <3>1. PICK e : e = [from |-> c.active, to |-> c.indicator]
      OBVIOUS
    <3>2. d.ends = <<e>>
      BY <1>1, <2>5, <3>1 DEF CarouselSafe, SlideSound
    <3> QED BY <3>2
  <2> QED BY <2>4, <2>5, <2>6, <2>7 DEF CarouselSafe
<1>2. CASE ~ c.sliding /\ activeIndex(c) = i
  <2>1. to(c, i) = cycle(pause(c, FALSE), FALSE)
    BY <1>2 DEF to
  <2> QED BY <1>2, <2>1, RestartSafe DEF Restarts
<1>3. CASE ~ c.sliding /\ activeIndex(c) # i
  <2>1. to(c, i) = slide(c, i)
    BY <1>3 DEF to
  <2>2. i \in Item \cup {NoItem}
    OBVIOUS
  <2> QED BY <1>3, <2>1, <2>2, SlideSafe
<1> QED BY <1>1, <1>2, <1>3

(* All who listened to slid ask for their items, the first of them starts a *)
(* slide and the others wait again.                                         *)
LEMMA SlidSafe ==
  ASSUME CarouselInv, Slid
  PROVE  CarouselInv'
<1> DEFINE queue == carousel.waiting
           start == [carousel EXCEPT !.waiting = <<>>, !.slid = FALSE]
           after == CHOOSE f : f = [i \in 0..Len(queue) |->
                      IF i = 0 THEN [carousel EXCEPT !.waiting = <<>>, !.slid = FALSE]
                      ELSE to(f[i - 1], queue[i])]
<1>1. /\ carousel' = after[Len(queue)]
      /\ hovered' = (hovered /\ ~ \E i \in DOMAIN queue :
           ~after[i - 1].sliding /\ activeIndex(after[i - 1]) = queue[i])
  BY Zenon DEF Slid
<1>2. after = CHOOSE f : f = [i \in 0..Len(queue) |->
                IF i = 0 THEN start ELSE to(f[i - 1], queue[i])]
  BY Zenon
<1> HIDE DEF after, start
<1> DEFINE S == {c \in CarouselState : CarouselSafe(c)}
<1>3. CarouselSafe(carousel) /\ carousel \in CarouselState
  BY DEF CarouselInv, CarouselSafe
<1>4. queue \in Seq(Item) /\ Len(queue) \in Nat /\ DOMAIN queue = 1..Len(queue)
      /\ \A i \in 1..Len(queue) : queue[i] \in Item
  BY <1>3 DEF CarouselState
<1>5. PICK n \in Nat : n = Len(queue)
  BY <1>4
<1>6. CarouselSafe(start) /\ start.interval = carousel.interval
  <2>e. PICK e \in Seq(Item) : e = <<>>
    <3>1. <<>> \in Seq(Item)
      OBVIOUS
    <3> QED BY <3>1
  <2>1. PICK a : a = [carousel EXCEPT !.waiting = e]
    OBVIOUS
  <2>2. start = [a EXCEPT !.slid = FALSE]
    BY <2>e, <2>1 DEF start
  <2>3. /\ a \in CarouselState /\ a.waiting = e
        /\ a.active = carousel.active /\ a.coming = carousel.coming
        /\ a.indicator = carousel.indicator /\ a.sliding = carousel.sliding
        /\ a.ends = carousel.ends /\ a.live = carousel.live
        /\ a.interval = carousel.interval /\ a.paused = carousel.paused
    BY <1>3, <2>1 DEF CarouselState
  <2>4. /\ start \in CarouselState /\ start.waiting = e
        /\ start.active = carousel.active /\ start.coming = carousel.coming
        /\ start.indicator = carousel.indicator /\ start.sliding = carousel.sliding
        /\ start.ends = carousel.ends /\ start.live = carousel.live
        /\ start.interval = carousel.interval /\ start.paused = carousel.paused
    BY <2>2, <2>3 DEF CarouselState
  <2> QED BY <1>3, <2>e, <2>4 DEF CarouselSafe, SlideSound, IntervalSound, IntervalHeld
<1>7. \A c \in S : c \in CarouselState /\ CarouselSafe(c)
  OBVIOUS
<1>8. \A c : CarouselSafe(c) => c \in S
  BY DEF CarouselSafe
<1> HIDE DEF S
<1> DEFINE g == [i \in 1..n |-> [c \in S |-> to(c, queue[i])]]
<1>9. g \in [1..n -> [S -> S]] /\ \A i \in 1..n, c \in S : g[i][c] = to(c, queue[i])
  <2>1. ASSUME NEW i \in 1..n, NEW c \in S
        PROVE  to(c, queue[i]) \in S
    <3>1. queue[i] \in Item /\ CarouselSafe(c)
      BY <1>4, <1>5, <1>7
    <3> QED BY <1>8, <3>1, ToSafe
  <2> QED BY <2>1
<1> HIDE DEF g
<1>10. start \in S
  BY <1>6, <1>8
<1>11. PICK h \in [0..n -> S] : h[0] = start /\ \A i \in 1..n : h[i] = g[i][h[i - 1]]
  <2>1. PICK R, a, f : R = S /\ a = start /\ f = g
    OBVIOUS
  <2>2. n \in Nat /\ a \in R /\ IsLoop(n, R, f)
    BY <1>9, <1>10, <2>1 DEF IsLoop
  <2>3. PICK h : IsRun(n, R, a, f, h)
    BY ONLY <2>2, Iterated
  <2>4. h \in [0..n -> R] /\ h[0] = a /\ \A i \in 1..n : h[i] = f[i][h[i - 1]]
    BY <2>3 DEF IsRun
  <2> QED BY <2>1, <2>4
<1>12. h = [i \in 0..n |-> IF i = 0 THEN start ELSE to(h[i - 1], queue[i])]
  <2>1. ASSUME NEW i \in 0..n
        PROVE  h[i] = IF i = 0 THEN start ELSE to(h[i - 1], queue[i])
    <3>1. CASE i = 0
      BY <1>11, <3>1
    <3>2. CASE i # 0
      <4>1. i \in 1..n /\ h[i - 1] \in S
        BY <1>11, <3>2
      <4>2. h[i] = g[i][h[i - 1]]
        BY <1>11, <4>1
      <4> QED BY <1>9, <3>2, <4>1, <4>2
    <3> QED BY <3>1, <3>2
  <2> QED BY <1>11, <2>1
<1>13. after = [i \in 0..n |-> IF i = 0 THEN start ELSE to(after[i - 1], queue[i])]
  <2>1. \E f : f = [i \in 0..Len(queue) |-> IF i = 0 THEN start ELSE to(f[i - 1], queue[i])]
    BY <1>5, <1>12
  <2>2. after = [i \in 0..Len(queue) |-> IF i = 0 THEN start ELSE to(after[i - 1], queue[i])]
    BY <1>2, <2>1, Zenon
  <2> QED BY <1>5, <2>2
<1>14. after[0] = start /\ \A i \in 1..n : after[i] = to(after[i - 1], queue[i])
  <2>1. \A i \in 0..n : after[i] = IF i = 0 THEN start ELSE to(after[i - 1], queue[i])
    BY <1>13, Zenon
  <2> QED BY <2>1
<1> DEFINE T == {i \in 0..n : /\ CarouselSafe(after[i])
                              /\ hovered' => ~after[i].interval}
<1>15. 0 \in T
  BY <1>1, <1>6, <1>14 DEF CarouselInv
<1>16. ASSUME NEW j \in 0..(n - 1), j \in T
       PROVE  j + 1 \in T
  <2>1. j + 1 \in 1..n /\ (j + 1) - 1 = j
    OBVIOUS
  <2>2. PICK i \in 1..n : i = j + 1
    BY <2>1
  <2>3. PICK c : c = after[j]
    OBVIOUS
  <2>4. after[i] = to(c, queue[i]) /\ queue[i] \in Item /\ c = after[i - 1]
    BY <1>4, <1>5, <1>14, <2>2, <2>3
  <2>5. CarouselSafe(c) /\ (hovered' => ~c.interval)
    BY <1>16, <2>3
  <2>6. CarouselSafe(to(c, queue[i])) /\ (to(c, queue[i]).interval => c.interval \/ Restarts(c, queue[i]))
    BY <2>4, <2>5, ToSafe
  <2>7. hovered' => ~ Restarts(c, queue[i])
    BY <1>1, <1>4, <1>5, <2>4 DEF Restarts
  <2> QED BY <2>1, <2>2, <2>4, <2>5, <2>6, <2>7
<1>17. n \in T
  <2> HIDE DEF T
  <2>1. 0 \in Int /\ n \in Int /\ 0 <= n
    BY <1>5
  <2>2. \A j \in 0..(n - 1) : j \in T => j + 1 \in T
    BY <1>16
  <2>3. \A j \in 0..n : j \in T
    BY ONLY <1>15, <2>1, <2>2, IntervalInduction
  <2> QED BY <2>1, <2>3
<1>18. hovered' \in BOOLEAN
  BY <1>1
<1>19. carousel' = after[n]
  BY <1>1, <1>5
<1> QED BY <1>17, <1>18, <1>19 DEF CarouselInv, CarouselSafe, SlideSound, IntervalSound, IntervalHeld

(* The end of the transition makes the items change places. *)
LEMMA SlideEndSafe ==
  ASSUME CarouselInv, SlideEnd
  PROVE  CarouselInv'
<1>1. PICK c : c = carousel
  OBVIOUS
<1>2. /\ CarouselSafe(c) /\ c \in CarouselState /\ c.ends # <<>> /\ hovered' = hovered
      /\ hovered \in BOOLEAN /\ (hovered => ~c.interval)
  BY <1>1 DEF CarouselInv, CarouselSafe, SlideEnd
<1>3. PICK w : w = [from |-> c.active, to |-> c.indicator]
  OBVIOUS
<1>4. c.sliding /\ c.ends = <<w>> /\ c.indicator \in Item
  BY <1>2, <1>3 DEF CarouselSafe, SlideSound, CarouselState
<1>5. Head(c.ends) = w /\ Tail(c.ends) = <<>>
  BY <1>4
<1>6. PICK a : a = arrive(c, c.active, c.indicator)
  OBVIOUS
<1>7. carousel' = [[a EXCEPT !.slid = TRUE] EXCEPT !.ends = Tail(@)]
  <2>1. carousel' = [SlideEnds(c) EXCEPT !.ends = Tail(@)]
    BY <1>1 DEF SlideEnd
  <2>2. w.from = c.active /\ w.to = c.indicator
    BY <1>3
  <2>3. SlideEnds(c) = [arrive(c, w.from, w.to) EXCEPT !.slid = TRUE]
    BY <1>5 DEF SlideEnds
  <2> QED BY <1>6, <2>1, <2>2, <2>3
<1>8. /\ a \in CarouselState /\ IntervalSound(a)
      /\ a.indicator = c.indicator /\ a.coming = NoItem /\ a.sliding = FALSE /\ a.ends = c.ends
      /\ a.interval = c.interval
  BY <1>2, <1>4, <1>6, ArriveSound DEF CarouselSafe
<1>9. a.active = {c.indicator}
  <2>1. PICK A : A = (c.active \ c.active) \cup {c.indicator}
    OBVIOUS
  <2>2. a = [c EXCEPT !.active = A, !.coming = NoItem, !.sliding = FALSE]
    BY <1>6, <2>1 DEF arrive
  <2>3. a.active = A
    BY <1>2, <2>2 DEF CarouselState
  <2> QED BY <2>1, <2>3
<1>10. PICK b : b = [a EXCEPT !.slid = TRUE]
  OBVIOUS
<1>11. /\ b \in CarouselState /\ b.slid = TRUE /\ b.active = a.active /\ b.indicator = a.indicator
       /\ b.coming = a.coming /\ b.sliding = a.sliding /\ b.ends = a.ends
       /\ b.interval = a.interval /\ b.live = a.live /\ b.paused = a.paused
  BY <1>8, <1>10 DEF CarouselState
<1>e. PICK e \in Seq([from : SUBSET Item, to : Item]) : e = <<>>
  <2>1. <<>> \in Seq([from : SUBSET Item, to : Item])
    OBVIOUS
  <2> QED BY <2>1
<1>12. PICK d : d = [b EXCEPT !.ends = e]
  OBVIOUS
<1>13. carousel' = d
  BY <1>e, <1>5, <1>7, <1>8, <1>10, <1>11, <1>12
<1>14. /\ d \in CarouselState /\ d.slid = TRUE /\ d.active = a.active /\ d.indicator = a.indicator
       /\ d.coming = a.coming /\ d.sliding = a.sliding /\ d.ends = e
       /\ d.interval = a.interval /\ d.live = a.live /\ d.paused = a.paused
  BY <1>11, <1>12 DEF CarouselState
<1>15. CarouselSafe(d)
  BY <1>e, <1>8, <1>9, <1>14 DEF CarouselSafe, SlideSound, IntervalSound, IntervalHeld
<1> QED BY <1>2, <1>8, <1>13, <1>14, <1>15
        DEF CarouselInv, CarouselSafe, SlideSound, IntervalSound, IntervalHeld

(* The carousel as the page loads it. *)
LEMMA CarouselBegins ==
  ASSUME NEW all \in BOOLEAN, CarouselInit(all)
  PROVE  CarouselInv
<1> DEFINE S == [active : {{0}}, coming : {NoItem}, indicator : {0},
                 sliding : {FALSE}, ends : {<<>>}, paused : {FALSE},
                 interval : {FALSE}, live : {0}, waiting : {<<>>},
                 slid : {FALSE}, wrap : BOOLEAN, always : BOOLEAN]
           e == [active |-> {0}, coming |-> NoItem, indicator |-> 0,
                 sliding |-> FALSE, ends |-> <<>>, paused |-> FALSE,
                 interval |-> FALSE, live |-> 0, waiting |-> <<>>,
                 slid |-> FALSE, wrap |-> FALSE, always |-> FALSE]
<1>1. e \in S
  OBVIOUS
<1>2. carousel \in some(S, all) /\ hovered = FALSE
  BY DEF CarouselInit
<1> HIDE DEF e
<1>3. carousel \in S
  <2> HIDE DEF S
  <2> QED BY <1>1, <1>2, SomeIsIn
<1>4. /\ carousel.active = {0} /\ carousel.coming = NoItem /\ carousel.indicator = 0
      /\ carousel.sliding = FALSE /\ carousel.ends = <<>> /\ carousel.paused = FALSE
      /\ carousel.interval = FALSE /\ carousel.live = 0 /\ carousel.waiting = <<>>
      /\ carousel.slid = FALSE
  BY <1>3
<1>5. carousel \in CarouselState
  <2>1. 0 \in Item
    BY CarouselAssumption DEF Item
  <2>2. <<>> \in Seq([from : SUBSET Item, to : Item]) /\ <<>> \in Seq(Item)
    OBVIOUS
  <2>3. carousel.wrap \in BOOLEAN /\ carousel.always \in BOOLEAN
    BY <1>3
  <2>4. carousel = [
          active |-> carousel.active, coming |-> carousel.coming,
          indicator |-> carousel.indicator, sliding |-> carousel.sliding,
          ends |-> carousel.ends, paused |-> carousel.paused,
          interval |-> carousel.interval, live |-> carousel.live,
          waiting |-> carousel.waiting, slid |-> carousel.slid,
          wrap |-> carousel.wrap, always |-> carousel.always]
    BY <1>3
  <2> HIDE DEF S
  <2>5. /\ carousel.active \in SUBSET Item /\ carousel.coming \in Item \cup {NoItem}
        /\ carousel.indicator \in Item /\ carousel.live \in Nat
        /\ carousel.ends \in Seq([from : SUBSET Item, to : Item])
        /\ carousel.waiting \in Seq(Item)
    BY <1>4, <2>1, <2>2
  <2> QED BY <1>4, <2>3, <2>4, <2>5 DEF CarouselState
<1> QED BY <1>2, <1>4, <1>5 DEF CarouselInv, CarouselSafe, SlideSound, IntervalSound, IntervalHeld

(* Every click, call, tick, move of the mouse and end of a slide keeps it. *)
LEMMA CarouselKeeps ==
  ASSUME CarouselInv, CarouselNext
  PROVE  CarouselInv'
<1>t. /\ CarouselSafe(carousel) /\ carousel \in CarouselState /\ IntervalSound(carousel)
      /\ IntervalHeld(carousel) /\ hovered \in BOOLEAN /\ (hovered => ~carousel.interval)
  BY DEF CarouselInv, CarouselSafe, IntervalSound
<1>g. ASSUME NEW c, carousel' = c, CarouselSafe(c), hovered' \in BOOLEAN,
             hovered' => ~c.interval
      PROVE  CarouselInv'
  BY <1>g DEF CarouselInv, CarouselSafe, SlideSound, IntervalSound, IntervalHeld
<1>1. ASSUME NEW type \in {"next", "prev"}, ClickStep(type)
      PROVE  CarouselInv'
  <2>1. carousel' = step(carousel, type) /\ hovered' = hovered
    BY <1>1 DEF ClickStep
  <2> QED BY <1>g, <1>t, <2>1, StepSafe
<1>2. ASSUME NEW i \in Item, ClickIndicator(i)
      PROVE  CarouselInv'
  <2>1. carousel' = to(carousel, i) /\ hovered' = (hovered /\ ~ Restarts(carousel, i))
    BY <1>2 DEF ClickIndicator, Restarts
  <2> QED BY <1>g, <1>t, <2>1, ToSafe
<1>3. ASSUME NEW option \in {"pause", "cycle", "ride"}, CallCarousel(option)
      PROVE  CarouselInv'
  <2>1. CASE option = "pause"
    <3>1. PICK d : d = pause(carousel, FALSE)
      OBVIOUS
    <3>2. Alike(carousel, d) /\ IntervalSound(d) /\ ~d.interval
      BY <1>t, <3>1, PauseSound
    <3>3. carousel' = d /\ hovered' = hovered
      BY <1>3, <1>t, <2>1, <3>1 DEF CallCarousel
    <3> QED BY <1>g, <1>t, <3>2, <3>3, AlikeSafe
  <2>2. CASE option = "cycle"
    <3>1. PICK d : d = cycle(carousel, FALSE)
      OBVIOUS
    <3>2. Alike(carousel, d) /\ IntervalSound(d)
      BY <1>t, <3>1, CycleSound
    <3>3. carousel' = d /\ hovered' = FALSE
      BY <1>3, <2>2, <3>1 DEF CallCarousel
    <3> QED BY <1>g, <1>t, <3>2, <3>3, AlikeSafe
  <2>3. CASE option = "ride"
    <3>1. PICK d : d = IF carousel.always THEN cycle(pause(carousel, FALSE), FALSE)
                       ELSE carousel
      OBVIOUS
    <3>2. CarouselSafe(d)
      BY <1>t, <3>1, RestartSafe
    <3>3. carousel' = d /\ hovered' = FALSE
      BY <1>3, <2>3, <3>1 DEF CallCarousel
    <3> QED BY <1>g, <3>2, <3>3
  <2> QED BY <1>3, <2>1, <2>2, <2>3
<1>4. CASE IntervalTick
  <2>1. carousel' = step(carousel, "next") /\ hovered' = hovered
    BY <1>4 DEF IntervalTick
  <2> QED BY <1>g, <1>t, <2>1, StepSafe
<1>5. CASE MouseEnter
  <2>1. PICK d : d = pause(carousel, TRUE)
    OBVIOUS
  <2>2. Alike(carousel, d) /\ IntervalSound(d) /\ ~d.interval
    BY <1>t, <2>1, PauseSound
  <2>3. carousel' = d /\ hovered' = TRUE
    BY <1>5, <2>1 DEF MouseEnter
  <2> QED BY <1>g, <1>t, <2>2, <2>3, AlikeSafe
<1>6. CASE MouseLeave
  <2>1. PICK d : d = cycle(carousel, TRUE)
    OBVIOUS
  <2>2. Alike(carousel, d) /\ IntervalSound(d)
    BY <1>t, <2>1, CycleSound
  <2>3. carousel' = d /\ hovered' = FALSE
    BY <1>6, <2>1 DEF MouseLeave
  <2> QED BY <1>g, <1>t, <2>2, <2>3, AlikeSafe
<1>7. CASE SlideEnd
  BY <1>7, SlideEndSafe
<1>8. CASE Slid
  BY <1>8, SlidSafe
<1> QED BY <1>1, <1>2, <1>3, <1>4, <1>5, <1>6, <1>7, <1>8 DEF CarouselNext

(* The carousel's invariant speaks of its own variables only. *)
LEMMA CarouselStays == CarouselInv /\ UNCHANGED carouselVars => CarouselInv'
<1> SUFFICES ASSUME CarouselInv, UNCHANGED carouselVars PROVE CarouselInv'
  OBVIOUS
<1>1. carousel' = carousel /\ hovered' = hovered
  BY DEF carouselVars
<1> QED BY <1>1 DEF CarouselInv, CarouselSafe, SlideSound, IntervalSound, IntervalHeld

-----------------------------------------------------------------------------
(* The tabs. *)

(* The panes that are active, and whether one of a state of the panes can be seen. *)
ActiveOf(f) == {t \in Tabs : f[t].active}
(* Seen, that is, active and faded in. *)
SeenIn(f, t) == f[t].active /\ (f[t].in \/ ~f[t].fade)

(* Nobody hurries: the panes are at rest, and the tab's is active and seen, or one    *)
(* pane fades out and waits to hand over to the tab's.                                *)
PanesResting ==
  /\ \A t \in Tabs : pane[t].ends = <<>>
  /\ ActiveOf(pane) = tabs /\ \A t \in tabs : SeenIn(pane, t)

(* One pane fades out and one waits to follow it. *)
PaneMoving ==
  \E u, t \in Tabs :
    /\ tabs = {t} /\ ActiveOf(pane) = {u}
    /\ pane[u].ends = <<[from |-> {u}, to |-> t]>>
    /\ \A v \in Tabs \ {u} : pane[v].ends = <<>>

(* PaneOfTab is not inductive: what happens while a pane fades is PaneMoving.         *)
TabInv ==
  /\ TabTypeOK /\ SomethingShown
  /\ ~hurried => /\ tabs = {} \/ \E t \in Tabs : tabs = {t}
                 /\ PanesResting \/ PaneMoving

(* The invariant says what a rest of the tabs needs. *)
LEMMA TabInvSound == TabInv => TabTypeOK /\ PaneOfTab /\ SomethingShown
<1> SUFFICES ASSUME TabInv, TabsAtRest, ~hurried
             PROVE  {t \in Tabs : pane[t].active} = tabs /\ \A t \in tabs : Shown(t)
  BY DEF TabInv, PaneOfTab
<1>1. ~ PaneMoving
  <2>1. ASSUME NEW u \in Tabs, NEW t \in Tabs, pane[u].ends = <<[from |-> {u}, to |-> t]>>
        PROVE  FALSE
    <3>1. PICK w : w = [from |-> {u}, to |-> t]
      OBVIOUS
    <3>2. pane[u].ends = <<w>> /\ pane[u].ends = <<>>
      BY <2>1, <3>1 DEF TabsAtRest
    <3> QED BY <3>2
  <2> QED BY <2>1 DEF PaneMoving
<1> QED BY <1>1 DEF TabInv, PanesResting, ActiveOf, SeenIn, Shown

(* next in terms of single panes. *)
LEMMA NextIs ==
  ASSUME NEW f \in [Tabs -> PaneState], NEW c \in Switch, NEW fading \in BOOLEAN
  PROVE  LET g == next(f, c, fading) IN
         /\ g \in [Tabs -> PaneState]
         /\ \A t \in Tabs :
              /\ g[t].active = (t = c.to \/ (f[t].active /\ t \notin c.from))
              /\ g[t].in = (f[t].in \/ (t = c.to /\ fading))
              /\ g[t].fade = (f[t].fade /\ ~(t = c.to /\ ~fading))
              /\ g[t].ends = f[t].ends
<1>1. PICK g : g = next(f, c, fading)
  OBVIOUS
<1>2. ASSUME NEW t \in Tabs
      PROVE  /\ g[t] \in PaneState
             /\ g[t].active = (t = c.to \/ (f[t].active /\ t \notin c.from))
             /\ g[t].in = (f[t].in \/ (t = c.to /\ fading))
             /\ g[t].fade = (f[t].fade /\ ~(t = c.to /\ ~fading))
             /\ g[t].ends = f[t].ends
  <2>1. PICK s \in PaneState : s = f[t]
    OBVIOUS
  <2>2. PICK a \in BOOLEAN, b \in BOOLEAN, d \in BOOLEAN :
          /\ a = (t = c.to \/ (s.active /\ t \notin c.from))
          /\ b = (s.in \/ (t = c.to /\ fading))
          /\ d = (s.fade /\ ~(t = c.to /\ ~fading))
    OBVIOUS
  <2>3. PICK r : r = [[[s EXCEPT !.active = a] EXCEPT !.in = b] EXCEPT !.fade = d]
    OBVIOUS
  <2>4. g[t] = r
    BY <1>1, <2>1, <2>2, <2>3 DEF next, PaneState
  <2>5. /\ r \in PaneState /\ r.active = a /\ r.in = b /\ r.fade = d /\ r.ends = s.ends
    BY <2>1, <2>3 DEF PaneState
  <2> QED BY <2>1, <2>2, <2>4, <2>5
<1>3. g = [t \in Tabs |-> g[t]]
  BY <1>1 DEF next
<1> QED BY <1>1, <1>2, <1>3

(* activate of a pane at once, where nothing fades. *)
LEMMA ActivateAtOnce ==
  ASSUME NEW f \in [Tabs -> PaneState], NEW u \in Tabs, ~ Fades(f, ActiveOf(f))
  PROVE  LET g == activate(f, u) IN
         /\ g \in [Tabs -> PaneState]
         /\ \A t \in Tabs : /\ g[t].active = (t = u)
                            /\ g[t].ends = f[t].ends
         /\ ~ g[u].fade
<1>1. PICK A : A = ActiveOf(f)
  OBVIOUS
<1>2. PICK c : c = [from |-> A, to |-> u]
  OBVIOUS
<1>3. c \in Switch /\ c.from = A /\ c.to = u
  BY <1>1, <1>2 DEF Switch, ActiveOf
<1>p. PICK p \in BOOLEAN : ~ p /\ p = FALSE
  OBVIOUS
<1>4. PICK h : h = next(f, c, p)
  OBVIOUS
<1>5. /\ h \in [Tabs -> PaneState]
      /\ \A t \in Tabs :
           /\ h[t].active = (t = c.to \/ (f[t].active /\ t \notin c.from))
           /\ h[t].fade = (f[t].fade /\ ~(t = c.to /\ ~p))
           /\ h[t].ends = f[t].ends
  BY <1>3, <1>p, <1>4, NextIs
<1>6. PICK g : g = activate(f, u)
  OBVIOUS
<1>7. g = [t \in Tabs |-> [h[t] EXCEPT !.in = @ /\ t \notin A]]
  BY <1>1, <1>2, <1>p, <1>4, <1>6 DEF activate, ActiveOf
<1>8. ASSUME NEW t \in Tabs
      PROVE  /\ g[t] \in PaneState /\ g[t].active = h[t].active /\ g[t].fade = h[t].fade
             /\ g[t].ends = h[t].ends
  <2>1. PICK s \in PaneState : s = h[t]
    BY <1>5
  <2>2. PICK b \in BOOLEAN : b = (s.in /\ t \notin A)
    OBVIOUS
  <2>3. PICK r : r = [s EXCEPT !.in = b]
    OBVIOUS
  <2>4. g[t] = r
    BY <1>7, <2>1, <2>2, <2>3 DEF PaneState
  <2>5. r \in PaneState /\ r.active = s.active /\ r.fade = s.fade /\ r.ends = s.ends
    BY <2>1, <2>3 DEF PaneState
  <2> QED BY <2>1, <2>4, <2>5
<1>9. g = [t \in Tabs |-> g[t]]
  BY <1>7
<1>10. \A t \in Tabs : f[t].active => t \in A
  BY <1>1 DEF ActiveOf
<1>11. \A t \in Tabs : g[t].active = (t = u) /\ g[t].ends = f[t].ends
  BY <1>3, <1>5, <1>8, <1>10
<1>12. ~ g[u].fade
  BY <1>3, <1>p, <1>5, <1>8
<1> QED BY <1>6, <1>8, <1>9, <1>11, <1>12

(* activate of a pane where the active ones have to fade out first. *)
LEMMA ActivateLater ==
  ASSUME NEW f \in [Tabs -> PaneState], NEW u \in Tabs, Fades(f, ActiveOf(f))
  PROVE  LET g == activate(f, u) IN
         /\ g \in [Tabs -> PaneState]
         /\ \A t \in Tabs :
              /\ g[t].active = f[t].active
              /\ g[t].ends = IF t \in ActiveOf(f)
                             THEN Append(f[t].ends, [from |-> ActiveOf(f), to |-> u])
                             ELSE f[t].ends
<1>1. PICK A : A = ActiveOf(f)
  OBVIOUS
<1>2. PICK c : c = [from |-> A, to |-> u]
  OBVIOUS
<1>3. c \in Switch
  BY <1>1, <1>2 DEF Switch, ActiveOf
<1>4. PICK h : h = [t \in Tabs |-> IF t \in A THEN [f[t] EXCEPT !.ends = Append(@, c)] ELSE f[t]]
  OBVIOUS
<1>5. PICK g : g = activate(f, u)
  OBVIOUS
<1>6. g = [t \in Tabs |-> [h[t] EXCEPT !.in = @ /\ t \notin A]]
  BY <1>1, <1>2, <1>4, <1>5 DEF activate, ActiveOf
<1>7. ASSUME NEW t \in Tabs
      PROVE  /\ g[t] \in PaneState /\ g[t].active = f[t].active
             /\ g[t].ends = IF t \in A THEN Append(f[t].ends, c) ELSE f[t].ends
  <2>1. PICK s \in PaneState : s = f[t]
    OBVIOUS
  <2>2. PICK e : e = Append(s.ends, c)
    OBVIOUS
  <2>3. e \in Seq(Switch)
    BY <1>3, <2>1, <2>2 DEF PaneState
  <2>4. PICK r : r = IF t \in A THEN [s EXCEPT !.ends = e] ELSE s
    OBVIOUS
  <2>5. /\ r \in PaneState /\ r.active = s.active
        /\ r.ends = IF t \in A THEN e ELSE s.ends
    BY <2>1, <2>3, <2>4 DEF PaneState
  <2>6. h[t] = r
    BY <1>4, <2>1, <2>2, <2>4 DEF PaneState
  <2>7. PICK b \in BOOLEAN : b = (r.in /\ t \notin A)
    OBVIOUS
  <2>8. PICK q : q = [r EXCEPT !.in = b]
    OBVIOUS
  <2>9. g[t] = q
    BY <1>6, <2>6, <2>7, <2>8 DEF PaneState
  <2>10. q \in PaneState /\ q.active = r.active /\ q.ends = r.ends
    BY <2>5, <2>8 DEF PaneState
  <2> QED BY <2>1, <2>2, <2>5, <2>9, <2>10
<1>8. g = [t \in Tabs |-> g[t]]
  BY <1>6
<1> QED BY <1>1, <1>2, <1>5, <1>7, <1>8

(* The last of n switches that waited for a pane is made, in a state of the panes     *)
(* where the others have been.                                                        *)
HandsOver(t, n) ==
  /\ n \in Nat \ {0} /\ UNCHANGED <<tabs, hurried>>
  /\ \E f \in [Tabs -> PaneState] :
       /\ pane' = next(f, pane[t].ends[n], TRUE) /\ pane[t].ends[n] \in Switch
       /\ \A v \in Tabs : f[v].ends = IF v = t THEN <<>> ELSE pane[v].ends
       /\ n = 1 => \A v \in Tabs : f[v].active = pane[v].active

(* What waited for a pane's transition hands over, one switch after the other. *)
LEMMA TabEndIs ==
  ASSUME NEW t \in Tabs, TabTypeOK, TabEnd(t)
  PROVE  HandsOver(t, Len(pane[t].ends))
<1>n. PICK n : n = Len(pane[t].ends)
  OBVIOUS
<1> DEFINE start == [pane EXCEPT ![t].ends = <<>>]
           after == CHOOSE f : f = [i \in 0..Len(pane[t].ends) |->
                      IF i = 0 THEN [pane EXCEPT ![t].ends = <<>>]
                      ELSE next(f[i - 1], pane[t].ends[i], TRUE)]
<1>1. pane' = after[Len(pane[t].ends)] /\ UNCHANGED <<tabs, hurried>> /\ pane[t].ends # <<>>
  BY Zenon DEF TabEnd
<1>2. after = CHOOSE f : f = [i \in 0..Len(pane[t].ends) |->
                IF i = 0 THEN start ELSE next(f[i - 1], pane[t].ends[i], TRUE)]
  BY Zenon
<1> HIDE DEF after, start
<1> DEFINE S == {f \in [Tabs -> PaneState] :
                   \A v \in Tabs : f[v].ends = IF v = t THEN <<>> ELSE pane[v].ends}
<1>3. PICK q \in Seq(Switch) : q = pane[t].ends
  BY DEF TabTypeOK, PaneState
<1>4. n \in Nat \ {0} /\ \A i \in 1..n : q[i] \in Switch
  BY <1>n, <1>1, <1>3
<1>5. start \in S /\ \A v \in Tabs : start[v].active = pane[v].active
  <2>1. PICK e \in Seq(Switch) : e = <<>>
    <3>1. <<>> \in Seq(Switch)
      OBVIOUS
    <3> QED BY <3>1
  <2>2. PICK s \in PaneState : s = pane[t]
    BY DEF TabTypeOK
  <2>3. PICK r : r = [s EXCEPT !.ends = e]
    OBVIOUS
  <2>4. r \in PaneState /\ r.ends = e /\ r.active = s.active
    BY <2>2, <2>3 DEF PaneState
  <2>5. pane \in [Tabs -> PaneState]
    BY DEF TabTypeOK
  <2>6. start = [pane EXCEPT ![t] = r]
    BY <2>1, <2>2, <2>3, <2>5 DEF start
  <2>7. /\ start \in [Tabs -> PaneState]
        /\ \A v \in Tabs : start[v] = IF v = t THEN r ELSE pane[v]
    BY <2>4, <2>5, <2>6
  <2> QED BY <2>1, <2>2, <2>4, <2>7
<1>6. \A f \in S : /\ f \in [Tabs -> PaneState]
                   /\ \A v \in Tabs : f[v].ends = IF v = t THEN <<>> ELSE pane[v].ends
  OBVIOUS
<1>7. ASSUME NEW f \in S, NEW c \in Switch
      PROVE  next(f, c, TRUE) \in S
  <2>1. PICK p \in BOOLEAN : p = TRUE
    OBVIOUS
  <2>2. PICK h : h = next(f, c, p)
    OBVIOUS
  <2>3. h \in [Tabs -> PaneState] /\ \A v \in Tabs : h[v].ends = f[v].ends
    BY <1>6, <2>2, NextIs
  <2> QED BY <1>6, <2>1, <2>2, <2>3
<1> HIDE DEF S
<1> DEFINE g == [i \in 1..n |-> [f \in S |-> next(f, q[i], TRUE)]]
<1>8. IsLoop(n, S, g) /\ \A i \in 1..n, f \in S : g[i][f] = next(f, q[i], TRUE)
  BY <1>4, <1>7 DEF IsLoop
<1> HIDE DEF g
<1>9. after = [i \in 0..n |-> IF i = 0 THEN start ELSE next(after[i - 1], q[i], TRUE)]
  <2>1. PICK R, a, l : R = S /\ a = start /\ l = g
    OBVIOUS
  <2>2. n \in Nat /\ a \in R /\ IsLoop(n, R, l)
    BY <1>4, <1>5, <1>8, <2>1
  <2>3. PICK h : IsRun(n, R, a, l, h)
    BY ONLY <2>2, Iterated
  <2>4. h \in [0..n -> R] /\ h[0] = a /\ \A i \in 1..n : h[i] = l[i][h[i - 1]]
    BY <2>3 DEF IsRun
  <2>5. ASSUME NEW i \in 0..n
        PROVE  h[i] = IF i = 0 THEN start ELSE next(h[i - 1], q[i], TRUE)
    <3>1. CASE i = 0
      BY <2>1, <2>4, <3>1
    <3>2. CASE i # 0
      <4>1. i \in 1..n /\ h[i - 1] \in S
        BY <1>4, <2>1, <2>4, <3>2
      <4> QED BY <1>8, <2>1, <2>4, <3>2, <4>1
    <3> QED BY <3>1, <3>2
  <2>6. h = [i \in 0..n |-> IF i = 0 THEN start ELSE next(h[i - 1], q[i], TRUE)]
    BY <2>4, <2>5
  <2>7. \E f : f = [i \in 0..Len(pane[t].ends) |->
                 IF i = 0 THEN start ELSE next(f[i - 1], pane[t].ends[i], TRUE)]
    BY <1>n, <1>3, <2>6
  <2>8. after = [i \in 0..Len(pane[t].ends) |->
                   IF i = 0 THEN start ELSE next(after[i - 1], pane[t].ends[i], TRUE)]
    BY <1>2, <2>7, Zenon
  <2> QED BY <1>n, <1>3, <2>8
<1>10. /\ after = [i \in 0..n |-> after[i]] /\ after[0] = start
       /\ \A i \in 1..n : after[i] = next(after[i - 1], q[i], TRUE)
  <2>1. \A i \in 0..n : after[i] = IF i = 0 THEN start ELSE next(after[i - 1], q[i], TRUE)
    BY <1>9, Zenon
  <2>2. DOMAIN after = 0..n /\ after = [i \in DOMAIN after |-> after[i]]
    BY <1>9, Zenon
  <2> QED BY <1>4, <2>1, <2>2
<1>11. after \in [0..n -> S]
  <2>1. PICK R, a, l, f : R = S /\ a = start /\ l = g /\ f = after
    OBVIOUS
  <2>2. n \in Nat /\ a \in R /\ IsLoop(n, R, l)
    BY <1>4, <1>5, <1>8, <2>1
  <2>3. f = [i \in 0..n |-> f[i]] /\ f[0] = a
    BY <1>10, <2>1
  <2>4. \A i \in 1..n : f[i - 1] \in R => f[i] = l[i][f[i - 1]]
    BY <1>8, <1>10, <2>1
  <2>5. IsRun(n, R, a, l, f)
    BY ONLY <2>2, <2>3, <2>4, RunIs
  <2> QED BY <2>1, <2>5 DEF IsRun
<1>12. PICK f : f = after[n - 1]
  OBVIOUS
<1>13. f \in S /\ pane' = next(f, q[n], TRUE) /\ q[n] \in Switch
  <2>1. n - 1 \in 0..n /\ n \in 1..n
    BY <1>4
  <2>2. f \in S
    BY <1>11, <1>12, <2>1
  <2>3. after[n] = next(f, q[n], TRUE)
    BY <1>10, <1>12, <2>1
  <2>4. pane' = after[n]
    BY <1>n, <1>1
  <2> QED BY <1>4, <2>1, <2>2, <2>3, <2>4
<1>14. n = 1 => f = start
  BY <1>10, <1>12
<1>15. /\ f \in [Tabs -> PaneState]
       /\ \A v \in Tabs : f[v].ends = IF v = t THEN <<>> ELSE pane[v].ends
  BY <1>6, <1>13
<1> QED BY <1>n, <1>1, <1>3, <1>4, <1>5, <1>13, <1>14, <1>15 DEF HandsOver

(* The end of a fade brings in the pane that was waited for, and in haste at *)
(* least some pane.                                                          *)
LEMMA TabEndKeeps ==
  ASSUME NEW t \in Tabs, TabInv, TabEnd(t)
  PROVE  TabInv'
<1>1. PICK n : n = Len(pane[t].ends)
  OBVIOUS
<1>2. TabTypeOK
  BY DEF TabInv
<1>h. HandsOver(t, Len(pane[t].ends))
  BY <1>2, TabEndIs
<1>3. /\ n \in Nat \ {0} /\ UNCHANGED <<tabs, hurried>>
      /\ \E f \in [Tabs -> PaneState] :
           /\ pane' = next(f, pane[t].ends[n], TRUE) /\ pane[t].ends[n] \in Switch
           /\ \A v \in Tabs : f[v].ends = IF v = t THEN <<>> ELSE pane[v].ends
           /\ n = 1 => \A v \in Tabs : f[v].active = pane[v].active
  BY <1>1, <1>h DEF HandsOver
<1>4. PICK f \in [Tabs -> PaneState] :
        /\ pane' = next(f, pane[t].ends[n], TRUE) /\ pane[t].ends[n] \in Switch
        /\ \A v \in Tabs : f[v].ends = IF v = t THEN <<>> ELSE pane[v].ends
        /\ n = 1 => \A v \in Tabs : f[v].active = pane[v].active
  BY <1>3
<1>5. PICK c \in Switch : c = pane[t].ends[n]
  BY <1>4
<1>6. PICK p \in BOOLEAN : p = TRUE
  OBVIOUS
<1>7. PICK g : g = next(f, c, p)
  OBVIOUS
<1>8. /\ g \in [Tabs -> PaneState]
      /\ \A v \in Tabs :
           /\ g[v].active = (v = c.to \/ (f[v].active /\ v \notin c.from))
           /\ g[v].in = (f[v].in \/ (v = c.to /\ p))
           /\ g[v].ends = f[v].ends
  BY <1>4, <1>7, NextIs
<1>9. pane' = g /\ tabs' = tabs /\ hurried' = hurried
  BY <1>3, <1>4, <1>5, <1>6, <1>7
<1>10. c.to \in Tabs /\ g[c.to].active /\ g[c.to].in
  BY <1>6, <1>8 DEF Switch
<1>11. TabTypeOK'
  BY <1>2, <1>8, <1>9 DEF TabTypeOK
<1>12. SomethingShown'
  BY <1>9, <1>10 DEF SomethingShown, Shown
<1>13. ASSUME ~ hurried
       PROVE  tabs = {} \/ (\E v \in Tabs : tabs = {v})
  BY <1>13 DEF TabInv
<1>14. ASSUME ~ hurried
       PROVE  PanesResting'
  <2>1. ~ PanesResting
    <3>1. pane[t].ends # <<>>
      BY <1>1, <1>3
    <3> QED BY <3>1 DEF PanesResting
  <2>2. PICK u \in Tabs, w \in Tabs :
          /\ tabs = {w} /\ ActiveOf(pane) = {u}
          /\ pane[u].ends = <<[from |-> {u}, to |-> w]>>
          /\ \A v \in Tabs \ {u} : pane[v].ends = <<>>
    BY <1>14, <2>1 DEF TabInv, PaneMoving
  <2>3. u = t
    BY <1>1, <1>3, <2>2
  <2>4. PICK d : d = [from |-> {u}, to |-> w]
    OBVIOUS
  <2>5. d.from = {u} /\ d.to = w
    BY <2>4
  <2>6. n = 1 /\ c = d
    <3>1. pane[t].ends = <<d>>
      BY <2>2, <2>3, <2>4
    <3>2. n = 1
      BY <1>1, <3>1
    <3> QED BY <1>5, <3>1, <3>2
  <2>7. \A v \in Tabs : f[v].active => v = u
    BY <1>4, <2>2, <2>6 DEF ActiveOf
  <2>8. \A v \in Tabs : g[v].active = (v = w)
    BY <1>8, <2>5, <2>6, <2>7
  <2>9. \A v \in Tabs : g[v].ends = <<>>
    BY <1>4, <1>8, <2>2, <2>3
  <2>10. g[w].in
    BY <1>10, <2>5, <2>6
  <2> QED BY <1>9, <2>2, <2>8, <2>9, <2>10 DEF PanesResting, ActiveOf, SeenIn
<1> QED BY <1>9, <1>11, <1>12, <1>13, <1>14 DEF TabInv

(* A click on a tab starts a fade, or shows its pane at once. *)
LEMMA ShowTabKeeps ==
  ASSUME NEW u \in Tabs, TabInv, ShowTab(u)
  PROVE  TabInv'
<1>1. /\ pane \in [Tabs -> PaneState] /\ tabs \in SUBSET Tabs /\ hurried \in BOOLEAN
      /\ tabs' = {u} /\ pane' = activate(pane, u) /\ hurried' = (hurried \/ ~TabsAtRest)
  BY DEF TabInv, TabTypeOK, ShowTab
<1>2. PICK A : A = ActiveOf(pane)
  OBVIOUS
<1>3. PICK f \in [Tabs -> PaneState] : f = pane
  BY <1>1
<1>4. PICK g : g = activate(f, u)
  OBVIOUS
<1>5. pane' = g
  BY <1>1, <1>3, <1>4
<1>6. ASSUME ~ hurried'
      PROVE  /\ ~ hurried /\ TabsAtRest /\ PanesResting
             /\ tabs = {} \/ \E t \in Tabs : tabs = {t}
  <2>1. ~ hurried /\ TabsAtRest
    BY <1>1, <1>6
  <2>2. ~ PaneMoving
    <3>1. ASSUME NEW v \in Tabs, NEW t \in Tabs, pane[v].ends = <<[from |-> {v}, to |-> t]>>
          PROVE  FALSE
      <4>1. PICK w : w = [from |-> {v}, to |-> t]
        OBVIOUS
      <4>2. pane[v].ends = <<w>> /\ pane[v].ends = <<>>
        BY <2>1, <3>1, <4>1 DEF TabsAtRest
      <4>3. <<w>> # <<>>
        OBVIOUS
      <4> QED BY ONLY <4>2, <4>3
    <3> QED BY <3>1 DEF PaneMoving
  <2> QED BY <2>1, <2>2 DEF TabInv
<1>7. CASE Fades(f, ActiveOf(f))
  <2>1. /\ g \in [Tabs -> PaneState]
        /\ \A t \in Tabs :
             /\ g[t].active = f[t].active
             /\ g[t].ends = IF t \in ActiveOf(f)
                            THEN Append(f[t].ends, [from |-> ActiveOf(f), to |-> u])
                            ELSE f[t].ends
    BY <1>3, <1>4, <1>7, ActivateLater
  <2>2. PICK v \in ActiveOf(f) : TRUE
    BY <1>7 DEF Fades
  <2>3. v \in Tabs /\ f[v].ends \in Seq(Switch)
    BY <1>3, <2>2 DEF ActiveOf, PaneState
  <2>4. PICK c : c = [from |-> ActiveOf(f), to |-> u]
    OBVIOUS
  <2>5. g[v].ends = Append(f[v].ends, c)
    BY <2>1, <2>2, <2>3, <2>4
  <2>6. g[v].ends # <<>>
    BY <2>3, <2>5
  <2>7. TabTypeOK'
    BY <1>1, <1>5, <2>1 DEF TabTypeOK, TabsAtRest
  <2>8. SomethingShown'
    BY <1>5, <2>3, <2>6 DEF SomethingShown, TabsAtRest
  <2>9. ASSUME ~ hurried'
        PROVE  PaneMoving'
    <3>1. /\ \A t \in Tabs : f[t].ends = <<>>
          /\ ActiveOf(f) = tabs /\ (tabs = {} \/ \E t \in Tabs : tabs = {t})
      BY <1>3, <1>6, <2>9 DEF PanesResting
    <3>2. ActiveOf(f) = {v}
      BY <2>2, <3>1
    <3>3. g[v].ends = <<c>>
      <4>1. f[v].ends = <<>>
        BY <2>3, <3>1
      <4>2. Append(<<>>, c) = <<c>>
        OBVIOUS
      <4> QED BY <2>5, <4>1, <4>2
    <3>4. \A t \in Tabs \ {v} : g[t].ends = <<>>
      BY <2>1, <3>1, <3>2
    <3>5. ActiveOf(g) = {v}
      BY <2>1, <3>2 DEF ActiveOf
    <3>6. c = [from |-> {v}, to |-> u]
      BY <2>4, <3>2
    <3>7. /\ tabs' = {u} /\ ActiveOf(pane') = {v}
          /\ pane'[v].ends = <<[from |-> {v}, to |-> u]>>
          /\ \A t \in Tabs \ {v} : pane'[t].ends = <<>>
      BY <1>1, <1>5, <3>3, <3>4, <3>5, <3>6
    <3> QED BY <2>3, <3>7 DEF PaneMoving, ActiveOf
  <2> QED BY <1>1, <2>7, <2>8, <2>9 DEF TabInv
<1>8. CASE ~ Fades(f, ActiveOf(f))
  <2>1. /\ g \in [Tabs -> PaneState]
        /\ \A t \in Tabs : g[t].active = (t = u) /\ g[t].ends = f[t].ends
        /\ ~ g[u].fade
    BY <1>3, <1>4, <1>8, ActivateAtOnce
  <2>2. TabTypeOK'
    BY <1>1, <1>5, <2>1 DEF TabTypeOK, TabsAtRest
  <2>3. SomethingShown'
    BY <1>5, <2>1 DEF SomethingShown, Shown
  <2>4. ASSUME ~ hurried'
        PROVE  PanesResting'
    <3>1. \A t \in Tabs : f[t].ends = <<>>
      BY <1>3, <1>6, <2>4 DEF PanesResting
    <3> QED BY <1>1, <1>5, <2>1, <3>1 DEF PanesResting, ActiveOf, SeenIn
  <2> QED BY <1>1, <2>2, <2>3, <2>4 DEF TabInv
<1> QED BY <1>7, <1>8

(* The tabs as the page loads them. *)
LEMMA TabBegins ==
  ASSUME NEW all \in BOOLEAN, TabInit(all)
  PROVE  TabInv
<1> DEFINE S == {{}} \cup {{t} : t \in Tabs}
<1>1. {} \in S /\ \A x \in S : x = {} \/ \E t \in Tabs : x = {t}
  OBVIOUS
<1>2. tabs \in some(S, all) /\ hurried = FALSE
  BY DEF TabInit
<1>3. tabs \in S
  <2> HIDE DEF S
  <2> QED BY <1>1, <1>2, SomeIsIn
<1>4. tabs = {} \/ \E t \in Tabs : tabs = {t}
  BY <1>1, <1>3
<1>5. PICK fade \in some(BOOLEAN, all) :
        pane = [t \in Tabs |-> [active |-> t \in tabs, in |-> t \in tabs,
                                fade |-> fade, ends |-> <<>>]]
  BY DEF TabInit
<1>6. fade \in BOOLEAN
  BY <1>5, SomeIsIn
<1>7. PICK e \in Seq(Switch) : e = <<>>
  <2>1. <<>> \in Seq(Switch)
    OBVIOUS
  <2> QED BY <2>1
<1>8. ASSUME NEW t \in Tabs
      PROVE  /\ pane[t] \in PaneState /\ pane[t].active = (t \in tabs)
             /\ pane[t].in = (t \in tabs) /\ pane[t].ends = <<>>
  BY <1>5, <1>6, <1>7 DEF PaneState
<1>9. TabTypeOK
  <2>1. pane = [t \in Tabs |-> pane[t]]
    BY <1>5
  <2> QED BY <1>2, <1>4, <1>8, <2>1 DEF TabTypeOK
<1>10. SomethingShown
  BY <1>4, <1>8 DEF SomethingShown, Shown
<1>11. PanesResting
  BY <1>4, <1>8 DEF PanesResting, ActiveOf, SeenIn
<1> QED BY <1>4, <1>9, <1>10, <1>11 DEF TabInv

(* Every step of the tabs keeps them sound. *)
LEMMA TabKeeps ==
  ASSUME TabInv, TabNext
  PROVE  TabInv'
BY ShowTabKeeps, TabEndKeeps DEF TabNext

(* The tabs' invariant speaks of its own variables only. *)
LEMMA TabStays == TabInv /\ UNCHANGED tabVars => TabInv'
<1> SUFFICES ASSUME TabInv, UNCHANGED tabVars PROVE TabInv'
  OBVIOUS
<1>1. tabs' = tabs /\ pane' = pane /\ hurried' = hurried
  BY DEF tabVars
<1> QED BY <1>1 DEF TabInv, TabTypeOK, SomethingShown, Shown, TabsAtRest, PanesResting,
                     PaneMoving, ActiveOf, SeenIn

-----------------------------------------------------------------------------
(* The tooltip. *)

(* Whether something waits, and whether the end of a show may come before a hide's. *)
Waiting(t, wait) == \E i \in DOMAIN t.ends : t.ends[i] = wait
(* The end of a hide is not behind that of a show. *)
HidesFirst(t) ==
  \A i, j \in DOMAIN t.ends : i < j /\ t.ends[i] = "shown" => t.ends[j] # "hidden"

(* Nothing has happened that excuses a tip for staying. *)
Fine(t, ms) == "hide" \notin veto /\ t.inDom /\ ms \cap {"missed", "dropped"} = {}

(* UnaskedTipGone is not inductive: an unasked tip that is still there has a timer or *)
(* a transition to come that takes it away, and hoverState does not stop that.        *)
Forgotten(t, ms) ==
  Fine(t, ms) => /\ t.hoverState # "in" /\ t.timeout # "show"
                 /\ t.attached => t.timeout = "hide" \/ Waiting(t, "hidden")

(* Nor is TipNotTaken a matter of one step: a tip that is asked for and in has         *)
(* hoverState in as long as an earlier hide has not ended, and that ends first.         *)
TipSafe(t, asked, ms) ==
  /\ t \in TipState /\ (~transition => t.ends = <<>>)
  /\ ~asked => Forgotten(t, ms)
  /\ t.in /\ "flicker" \notin ms =>
       /\ HidesFirst(t)
       /\ asked /\ Waiting(t, "hidden") => t.hoverState = "in"

(* The tip is safe as things are. *)
TooltipInv == TipSafe(tip, over, mishaps) /\ over \in BOOLEAN /\ mishaps \subseteq Mishaps

(* At rest nothing is to come that takes an unasked tip away, so it is gone. *)
LEMMA TooltipInvSound == TooltipInv => TooltipTypeOK /\ UnaskedTipGone
<1> SUFFICES ASSUME TooltipInv PROVE TooltipTypeOK /\ UnaskedTipGone
  OBVIOUS
<1>1. TooltipTypeOK
  BY DEF TooltipInv, TipSafe, TooltipTypeOK
<1>2. tip.ends = <<>> => ~ Waiting(tip, "hidden")
  BY DEF Waiting
<1>3. UnaskedTipGone
  BY <1>2 DEF TooltipInv, TipSafe, Forgotten, Fine, UnaskedTipGone, TipAtRest
<1> QED BY <1>1, <1>3

(* What the steps of a tip leave as it is. *)
Kept(t, c) ==
  /\ c \in TipState
  /\ c.enabled = t.enabled /\ c.bound = t.bound /\ c.inDom = t.inDom
  /\ c.click = t.click /\ c.delay = t.delay

(* What the end of a transition does to a tip. *)
LEMMA CompleteIs ==
  ASSUME NEW t \in TipState, NEW wait \in {"shown", "hidden"}
  PROVE  LET c == complete(t, wait) IN
         /\ Kept(t, c) /\ c.timeout = t.timeout /\ c.in = t.in /\ c.fade = t.fade
         /\ c.ends = t.ends
         /\ c.hoverState = (IF wait = "shown" THEN "null" ELSE t.hoverState)
         /\ c.attached = (t.attached /\ (wait = "shown" \/ t.hoverState = "in"))
<1>1. PICK c : c = complete(t, wait)
  OBVIOUS
<1>2. CASE wait = "shown"
  <2>1. c = [t EXCEPT !.hoverState = "null"]
    BY <1>1, <1>2 DEF complete
  <2> QED BY <1>1, <1>2, <2>1 DEF TipState, Kept
<1>3. CASE wait = "hidden"
  <2>1. PICK b \in BOOLEAN : b = (t.attached /\ t.hoverState = "in")
    OBVIOUS
  <2>2. c = [t EXCEPT !.attached = b]
    BY <1>1, <1>3, <2>1 DEF complete, TipState
  <2>3. /\ Kept(t, c) /\ c.timeout = t.timeout /\ c.in = t.in /\ c.fade = t.fade
        /\ c.ends = t.ends /\ c.hoverState = t.hoverState /\ c.attached = b
    BY <2>1, <2>2 DEF TipState, Kept
  <2>4. wait # "shown"
    BY <1>3
  <2> QED BY <1>1, <2>1, <2>3, <2>4
<1> QED BY <1>2, <1>3

(* What show makes of a tip that it does not refuse. *)
ShownAs(t, c) ==
  /\ Kept(t, c) /\ c.timeout = t.timeout /\ c.attached /\ c.in
  /\ IF transition THEN c.ends = Append(t.ends, "shown") /\ c.hoverState = t.hoverState
     ELSE c.ends = t.ends /\ c.hoverState = "null"

(* show is refused or puts the tip in the page. *)
LEMMA ShowTipIs ==
  ASSUME NEW t \in TipState
  PROVE  showTip(t) = t \/ ShownAs(t, showTip(t))
<1>1. PICK c : c = showTip(t)
  OBVIOUS
<1>2. CASE ~t.enabled \/ ~t.inDom \/ "show" \in veto
  BY <1>2 DEF showTip, isDefaultPrevented
<1>3. CASE ~(~t.enabled \/ ~t.inDom \/ "show" \in veto)
  <2>1. PICK s : s = [[[t EXCEPT !.attached = TRUE] EXCEPT !.in = TRUE] EXCEPT !.fade = TRUE]
    OBVIOUS
  <2>2. /\ Kept(t, s) /\ s.timeout = t.timeout /\ s.attached = TRUE /\ s.in = TRUE
        /\ s.fade = TRUE /\ s.ends = t.ends /\ s.hoverState = t.hoverState
    BY <2>1 DEF TipState, Kept
  <2>3. c = awaited(s, "shown")
    BY <1>1, <1>3, <2>1 DEF showTip, isDefaultPrevented
  <2>4. CASE transition
    <3>1. PICK e : e = Append(s.ends, "shown")
      OBVIOUS
    <3>2. e \in Seq({"shown", "hidden"})
      BY <2>2, <3>1 DEF Kept, TipState
    <3>3. c = [s EXCEPT !.ends = e]
      BY <2>2, <2>3, <2>4, <3>1 DEF awaited, Kept, TipState
    <3>4. /\ c \in TipState /\ c.enabled = s.enabled /\ c.bound = s.bound
          /\ c.inDom = s.inDom /\ c.click = s.click /\ c.delay = s.delay
          /\ c.timeout = s.timeout /\ c.attached = s.attached /\ c.in = s.in
          /\ c.ends = e /\ c.hoverState = s.hoverState
      BY <2>2, <3>2, <3>3 DEF Kept, TipState
    <3> QED BY <1>1, <2>2, <2>4, <3>1, <3>4 DEF ShownAs, Kept
  <2>5. CASE ~ transition
    <3>1. c = complete(s, "shown")
      BY <2>3, <2>5 DEF awaited
    <3>2. PICK w \in {"shown", "hidden"} : w = "shown"
      OBVIOUS
    <3>3. /\ Kept(s, c) /\ c.timeout = s.timeout /\ c.in = s.in /\ c.ends = s.ends
          /\ c.hoverState = "null" /\ c.attached = s.attached
      <4>1. s \in TipState /\ c = complete(s, w)
        BY <2>2, <3>1, <3>2 DEF Kept
      <4>2. /\ Kept(s, c) /\ c.timeout = s.timeout /\ c.in = s.in /\ c.ends = s.ends
            /\ c.hoverState = (IF w = "shown" THEN "null" ELSE s.hoverState)
            /\ c.attached = (s.attached /\ (w = "shown" \/ s.hoverState = "in"))
        BY <4>1, CompleteIs
      <4> QED BY <2>2, <3>2, <4>2
    <3> QED BY <1>1, <2>2, <2>5, <3>3 DEF ShownAs, Kept
  <2> QED BY <2>4, <2>5
<1> QED BY <1>2, <1>3

(* What hide makes of a tip, unless the application prevents it. *)
HiddenAs(t, c) ==
  /\ Kept(t, c) /\ c.timeout = t.timeout /\ ~c.in /\ c.hoverState = "null"
  /\ IF transition /\ t.fade THEN c.ends = Append(t.ends, "hidden") /\ c.attached = t.attached
     ELSE c.ends = t.ends /\ c.attached = (t.attached /\ t.hoverState = "in")

(* hide is prevented or takes the tip's class in and forgets who asked. *)
LEMMA HideTipIs ==
  ASSUME NEW t \in TipState
  PROVE  IF "hide" \in veto THEN hideTip(t) = t ELSE HiddenAs(t, hideTip(t))
<1>1. PICK c : c = hideTip(t)
  OBVIOUS
<1>2. CASE "hide" \in veto
  BY <1>2 DEF hideTip, isDefaultPrevented
<1>3. CASE "hide" \notin veto
  <2>1. PICK s : s = [t EXCEPT !.in = FALSE]
    OBVIOUS
  <2>2. /\ Kept(t, s) /\ s.timeout = t.timeout /\ s.attached = t.attached /\ s.in = FALSE
        /\ s.fade = t.fade /\ s.ends = t.ends /\ s.hoverState = t.hoverState
    BY <2>1 DEF TipState, Kept
  <2>3. PICK a : a = awaited(s, "hidden")
    OBVIOUS
  <2>4. c = [a EXCEPT !.hoverState = "null"]
    BY <1>1, <1>3, <2>1, <2>3 DEF hideTip, isDefaultPrevented
  <2>5. /\ a \in TipState /\ Kept(s, a) /\ a.timeout = s.timeout /\ a.in = FALSE
        /\ IF transition /\ t.fade THEN a.ends = Append(t.ends, "hidden") /\ a.attached = t.attached
           ELSE a.ends = t.ends /\ a.attached = (t.attached /\ t.hoverState = "in")
    <3>1. CASE transition /\ t.fade
      <4>1. PICK e : e = Append(s.ends, "hidden")
        OBVIOUS
      <4>2. e \in Seq({"shown", "hidden"})
        BY <2>2, <4>1 DEF Kept, TipState
      <4>3. a = [s EXCEPT !.ends = e]
        BY <2>2, <2>3, <3>1, <4>1 DEF awaited, Kept, TipState
      <4>4. /\ a \in TipState /\ a.enabled = s.enabled /\ a.bound = s.bound
            /\ a.inDom = s.inDom /\ a.click = s.click /\ a.delay = s.delay
            /\ a.timeout = s.timeout /\ a.attached = s.attached /\ a.in = s.in
            /\ a.ends = e
        BY <2>2, <4>2, <4>3 DEF Kept, TipState
      <4> QED BY <2>2, <3>1, <4>1, <4>4 DEF Kept
    <3>2. CASE ~ (transition /\ t.fade)
      <4>1. a = complete(s, "hidden")
        BY <2>2, <2>3, <3>2 DEF awaited
      <4>2. PICK w \in {"shown", "hidden"} : w = "hidden"
        OBVIOUS
      <4>3. s \in TipState /\ a = complete(s, w)
        BY <2>2, <4>1, <4>2 DEF Kept
      <4>4. /\ Kept(s, a) /\ a.timeout = s.timeout /\ a.in = s.in /\ a.ends = s.ends
            /\ a.attached = (s.attached /\ (w = "shown" \/ s.hoverState = "in"))
        BY <4>3, CompleteIs
      <4> QED BY <2>2, <3>2, <4>2, <4>4 DEF Kept
    <3> QED BY <3>1, <3>2
  <2>6. /\ c \in TipState /\ c.enabled = a.enabled /\ c.bound = a.bound
        /\ c.inDom = a.inDom /\ c.click = a.click /\ c.delay = a.delay
        /\ c.timeout = a.timeout /\ c.in = a.in /\ c.ends = a.ends
        /\ c.attached = a.attached /\ c.hoverState = "null"
    BY <2>4, <2>5 DEF TipState
  <2> QED BY <1>1, <1>3, <2>2, <2>5, <2>6 DEF HiddenAs, Kept
<1> QED BY <1>2, <1>3

(* A tip that is asked for is as safe after a show, or a show that was refused. *)
LEMMA ShowSafe ==
  ASSUME NEW t \in TipState, NEW asked \in BOOLEAN, NEW ms, NEW ns, t.hoverState = "in",
         ~transition => t.ends = <<>>,
         asked \/ ~Fine(t, ns), ms \subseteq ns,
         t.in /\ "flicker" \notin ms => HidesFirst(t),
         NEW c, c = showTip(t),
         c.ends # t.ends /\ c.in /\ Waiting(t, "shown") /\ Waiting(t, "hidden")
           => "flicker" \in ns
  PROVE  TipSafe(c, asked, ns)
<1>1. t.ends \in Seq({"shown", "hidden"})
  BY DEF TipState
<1>2. CASE c = t
  BY <1>2 DEF TipSafe, Forgotten
<1>3. CASE c # t
  <2>1. ShownAs(t, c)
    BY <1>3, ShowTipIs
  <2>2. c \in TipState /\ c.inDom = t.inDom
    BY <2>1 DEF ShownAs, Kept
  <2>3. ~asked => Forgotten(c, ns)
    BY <2>2 DEF Forgotten, Fine
  <2>4. CASE transition
    <3>1. c.ends = Append(t.ends, "shown") /\ c.hoverState = "in"
      BY <2>1, <2>4 DEF ShownAs
    <3>2. PICK n \in Nat : n = Len(t.ends)
      BY <1>1
    <3>3. /\ DOMAIN c.ends = 1..(n + 1) /\ DOMAIN t.ends = 1..n
          /\ \A i \in 1..(n + 1) : c.ends[i] = IF i = n + 1 THEN "shown" ELSE t.ends[i]
      BY <1>1, <3>1, <3>2
    <3>4. c.ends # t.ends
      <4>1. (n + 1) \in DOMAIN c.ends /\ (n + 1) \notin DOMAIN t.ends
        BY <3>3
      <4> QED BY <4>1
    <3>5. ASSUME "flicker" \notin ns
          PROVE  HidesFirst(c)
      <4>1. ~ Waiting(t, "shown") \/ ~ Waiting(t, "hidden")
        BY <2>1, <3>4, <3>5 DEF ShownAs
      <4>2. SUFFICES ASSUME NEW i \in 1..(n + 1), NEW j \in 1..(n + 1), i < j,
                            c.ends[i] = "shown", c.ends[j] = "hidden"
                     PROVE  FALSE
        BY <3>3 DEF HidesFirst
      <4>3. i \in 1..n /\ t.ends[i] = "shown"
        BY <3>3, <4>2
      <4>4. j # n + 1
        BY <3>3, <4>2
      <4>5. j \in 1..n /\ t.ends[j] = "hidden"
        BY <3>3, <4>2, <4>4
      <4> QED BY <3>3, <4>1, <4>3, <4>5 DEF Waiting
    <3> QED BY <2>2, <2>3, <2>4, <3>1, <3>5 DEF TipSafe
  <2>5. CASE ~ transition
    <3>1. c.ends = <<>>
      BY <2>1, <2>5 DEF ShownAs
    <3>2. HidesFirst(c) /\ ~ Waiting(c, "hidden")
      BY <3>1 DEF HidesFirst, Waiting
    <3> QED BY <2>2, <2>3, <2>5, <3>1, <3>2 DEF TipSafe
  <2> QED BY <2>4, <2>5
<1> QED BY <1>2, <1>3

(* A tip that is no longer asked for is safe after a hide, also a prevented one. *)
LEMMA HideSafe ==
  ASSUME NEW t \in TipState, NEW asked \in BOOLEAN, NEW ns,
         ~transition => t.ends = <<>>, t.timeout # "show",
         t.hoverState # "in" \/ (transition /\ t.fade) \/ "dropped" \in ns,
         "hide" \in veto => TipSafe(t, asked, ns),
         NEW c, c = hideTip(t)
  PROVE  TipSafe(c, asked, ns)
<1>1. t.ends \in Seq({"shown", "hidden"})
  BY DEF TipState
<1>2. CASE "hide" \in veto
  BY <1>2, HideTipIs
<1>3. CASE "hide" \notin veto
  <2>1. HiddenAs(t, c)
    BY <1>3, HideTipIs
  <2>2. c \in TipState /\ c.hoverState = "null" /\ ~c.in /\ c.timeout # "show"
        /\ c.inDom = t.inDom
    BY <2>1 DEF HiddenAs, Kept
  <2>3. ~transition => c.ends = <<>>
    BY <2>1 DEF HiddenAs
  <2>4. CASE transition /\ t.fade
    <3>1. c.ends = Append(t.ends, "hidden")
      BY <2>1, <2>4 DEF HiddenAs
    <3>2. PICK n \in Nat : n = Len(t.ends)
      BY <1>1
    <3>3. (n + 1) \in DOMAIN c.ends /\ c.ends[n + 1] = "hidden"
      BY <1>1, <3>1, <3>2
    <3>4. Waiting(c, "hidden")
      BY <3>3 DEF Waiting
    <3> QED BY <2>2, <2>3, <3>4 DEF TipSafe, Forgotten
  <2>5. CASE ~ (transition /\ t.fade)
    <3>1. c.attached => t.hoverState = "in"
      BY <2>1, <2>5 DEF HiddenAs
    <3>2. Fine(c, ns) => ~ c.attached
      BY <2>5, <3>1 DEF Fine
    <3> QED BY <2>2, <2>3, <3>2 DEF TipSafe, Forgotten
  <2> QED BY <2>4, <2>5
<1> QED BY <1>2, <1>3

(* What the tip goes through when all that waited for its transition runs. *)
TipRun(n, f) ==
  /\ n \in Nat /\ DOMAIN tip.ends = 1..n /\ tip' = f[n]
  /\ \A i \in 1..n : tip.ends[i] \in {"shown", "hidden"}
  /\ \A i \in 0..n : /\ Kept(tip, f[i]) /\ f[i].timeout = tip.timeout
                     /\ f[i].in = tip.in /\ f[i].ends = <<>>
  /\ f[0].hoverState = tip.hoverState /\ f[0].attached = tip.attached
  /\ \A i \in 1..n :
       /\ f[i].hoverState = (IF tip.ends[i] = "shown" THEN "null" ELSE f[i - 1].hoverState)
       /\ f[i].attached = (f[i - 1].attached
                             /\ (tip.ends[i] = "shown" \/ f[i - 1].hoverState = "in"))

(* The loop over what waits has such a run. *)
LEMMA TipEndIs ==
  ASSUME tip \in TipState, TipEnd
  PROVE  \E n, f : TipRun(n, f)
<1> DEFINE start == [tip EXCEPT !.ends = <<>>]
           after == CHOOSE f : f = [i \in 0..Len(tip.ends) |->
                      IF i = 0 THEN [tip EXCEPT !.ends = <<>>]
                      ELSE complete(f[i - 1], tip.ends[i])]
<1>1. tip' = after[Len(tip.ends)]
  BY Zenon DEF TipEnd
<1>2. after = CHOOSE f : f = [i \in 0..Len(tip.ends) |->
                IF i = 0 THEN start ELSE complete(f[i - 1], tip.ends[i])]
  BY Zenon
<1> HIDE DEF after, start
<1> DEFINE S == {c \in TipState : /\ Kept(tip, c) /\ c.timeout = tip.timeout
                                  /\ c.in = tip.in /\ c.ends = <<>>}
<1>3. PICK q \in Seq({"shown", "hidden"}) : q = tip.ends
  BY DEF TipState
<1>n. PICK n : n = Len(q)
  OBVIOUS
<1>4. n \in Nat /\ (\A i \in 1..n : q[i] \in {"shown", "hidden"}) /\ DOMAIN q = 1..n
  BY <1>3, <1>n
<1>5. start \in S /\ start.hoverState = tip.hoverState /\ start.attached = tip.attached
  <2>1. PICK e \in Seq({"shown", "hidden"}) : e = <<>>
    <3>1. <<>> \in Seq({"shown", "hidden"})
      OBVIOUS
    <3> QED BY <3>1
  <2>2. start = [tip EXCEPT !.ends = e]
    BY <2>1 DEF start
  <2>3. /\ start \in TipState /\ start.enabled = tip.enabled /\ start.bound = tip.bound
        /\ start.inDom = tip.inDom /\ start.click = tip.click /\ start.delay = tip.delay
        /\ start.timeout = tip.timeout /\ start.in = tip.in /\ start.ends = e
        /\ start.hoverState = tip.hoverState /\ start.attached = tip.attached
    BY <2>2 DEF TipState
  <2> QED BY <2>1, <2>3 DEF Kept
<1>6. \A c \in S : /\ c \in TipState /\ Kept(tip, c) /\ c.timeout = tip.timeout
                   /\ c.in = tip.in /\ c.ends = <<>>
  OBVIOUS
<1>7. ASSUME NEW c \in S, NEW w \in {"shown", "hidden"}
      PROVE  complete(c, w) \in S
  <2>1. PICK d : d = complete(c, w)
    OBVIOUS
  <2>2. c \in TipState
    BY <1>6
  <2>3. /\ Kept(c, d) /\ d.timeout = c.timeout /\ d.in = c.in /\ d.ends = c.ends
    BY <2>1, <2>2, CompleteIs
  <2>4. d \in TipState /\ Kept(tip, d)
    BY <1>6, <2>3 DEF Kept
  <2> QED BY <1>6, <2>1, <2>3, <2>4
<1> HIDE DEF S
<1> DEFINE g == [i \in 1..n |-> [c \in S |-> complete(c, q[i])]]
<1>8. IsLoop(n, S, g) /\ \A i \in 1..n, c \in S : g[i][c] = complete(c, q[i])
  BY <1>4, <1>7 DEF IsLoop
<1> HIDE DEF g
<1>9. after = [i \in 0..n |-> IF i = 0 THEN start ELSE complete(after[i - 1], q[i])]
  <2>1. PICK R, a, l : R = S /\ a = start /\ l = g
    OBVIOUS
  <2>2. n \in Nat /\ a \in R /\ IsLoop(n, R, l)
    BY <1>4, <1>5, <1>8, <2>1
  <2>3. PICK h : IsRun(n, R, a, l, h)
    BY ONLY <2>2, Iterated
  <2>4. h \in [0..n -> R] /\ h[0] = a /\ \A i \in 1..n : h[i] = l[i][h[i - 1]]
    BY <2>3 DEF IsRun
  <2>5. ASSUME NEW i \in 0..n
        PROVE  h[i] = IF i = 0 THEN start ELSE complete(h[i - 1], q[i])
    <3>1. CASE i = 0
      BY <2>1, <2>4, <3>1
    <3>2. CASE i # 0
      <4>1. i \in 1..n /\ h[i - 1] \in S
        BY <1>4, <2>1, <2>4, <3>2
      <4> QED BY <1>8, <2>1, <2>4, <3>2, <4>1
    <3> QED BY <3>1, <3>2
  <2>6. h = [i \in 0..n |-> IF i = 0 THEN start ELSE complete(h[i - 1], q[i])]
    BY <2>4, <2>5
  <2>7. \E f : f = [i \in 0..Len(tip.ends) |->
                 IF i = 0 THEN start ELSE complete(f[i - 1], tip.ends[i])]
    BY <1>n, <1>3, <2>6
  <2>8. after = [i \in 0..Len(tip.ends) |->
                   IF i = 0 THEN start ELSE complete(after[i - 1], tip.ends[i])]
    BY <1>2, <2>7, Zenon
  <2> QED BY <1>n, <1>3, <2>8
<1>10. /\ after = [i \in 0..n |-> after[i]] /\ after[0] = start
       /\ \A i \in 1..n : after[i] = complete(after[i - 1], q[i])
  <2>1. \A i \in 0..n : after[i] = IF i = 0 THEN start ELSE complete(after[i - 1], q[i])
    BY <1>9, Zenon
  <2>2. DOMAIN after = 0..n /\ after = [i \in DOMAIN after |-> after[i]]
    BY <1>9, Zenon
  <2> QED BY <1>4, <2>1, <2>2
<1>11. after \in [0..n -> S]
  <2>1. PICK R, a, l, f : R = S /\ a = start /\ l = g /\ f = after
    OBVIOUS
  <2>2. n \in Nat /\ a \in R /\ IsLoop(n, R, l)
    BY <1>4, <1>5, <1>8, <2>1
  <2>3. f = [i \in 0..n |-> f[i]] /\ f[0] = a
    BY <1>10, <2>1
  <2>4. \A i \in 1..n : f[i - 1] \in R => f[i] = l[i][f[i - 1]]
    BY <1>8, <1>10, <2>1
  <2>5. IsRun(n, R, a, l, f)
    BY ONLY <2>2, <2>3, <2>4, RunIs
  <2> QED BY <2>1, <2>5 DEF IsRun
<1>12. PICK f : f = after
  OBVIOUS
<1>13. ASSUME NEW i \in 0..n
       PROVE  /\ Kept(tip, f[i]) /\ f[i].timeout = tip.timeout
              /\ f[i].in = tip.in /\ f[i].ends = <<>> /\ f[i] \in TipState
  BY <1>6, <1>11, <1>12
<1>14. ASSUME NEW i \in 1..n
       PROVE  /\ f[i].hoverState = (IF q[i] = "shown" THEN "null" ELSE f[i - 1].hoverState)
              /\ f[i].attached = (f[i - 1].attached
                                    /\ (q[i] = "shown" \/ f[i - 1].hoverState = "in"))
  <2>1. PICK c : c = f[i - 1]
    OBVIOUS
  <2>2. PICK w \in {"shown", "hidden"} : w = q[i]
    BY <1>4
  <2>3. i - 1 \in 0..n
    BY <1>4
  <2>4. c \in TipState
    BY <1>13, <2>1, <2>3
  <2>5. f[i] = complete(c, w)
    BY <1>10, <1>12, <2>1, <2>2
  <2> QED BY <2>1, <2>2, <2>4, <2>5, CompleteIs
<1>15. tip' = f[n] /\ f[0] = start
  BY <1>1, <1>n, <1>3, <1>10, <1>12
<1>16. TipRun(n, f)
  BY <1>3, <1>4, <1>5, <1>13, <1>14, <1>15 DEF TipRun
<1> QED BY <1>16

(* At the end of its transition a tip that nobody asks for goes, if it waited for     *)
(* that; one that is asked for and in stays.                                           *)
LEMMA TipEndKeeps ==
  ASSUME TooltipInv, TipEnd, transition' = transition, veto' = veto
  PROVE  TooltipInv'
<1>1. TipSafe(tip, over, mishaps) /\ tip \in TipState
  BY DEF TooltipInv, TipSafe
<1>2. over' = over /\ mishaps' = mishaps /\ over \in BOOLEAN /\ mishaps \subseteq Mishaps
  BY DEF TipEnd, TooltipInv
<1>3. PICK n, f : TipRun(n, f)
  BY <1>1, TipEndIs
<1>4. /\ n \in Nat /\ tip' = f[n] /\ n \in 0..n
      /\ Kept(tip, f[n]) /\ f[n].timeout = tip.timeout /\ f[n].ends = <<>>
      /\ f[n] \in TipState /\ f[n].inDom = tip.inDom
  BY <1>3 DEF TipRun, Kept
<1>5. HidesFirst(f[n]) /\ ~ Waiting(f[n], "hidden") /\ ~ Waiting(f[n], "shown")
  BY <1>4 DEF HidesFirst, Waiting
<1>6. ASSUME ~over, Fine(tip, mishaps)
      PROVE  /\ f[n].hoverState # "in"
             /\ f[n].attached => tip.timeout = "hide"
  <2>1. /\ tip.hoverState # "in"
        /\ tip.attached => tip.timeout = "hide" \/ Waiting(tip, "hidden")
    BY <1>1, <1>6 DEF TipSafe, Forgotten
  <2> DEFINE T == {i \in 0..n : /\ f[i].hoverState # "in"
                                /\ f[i].attached => tip.attached
                                /\ f[i].attached => \A k \in 1..i : tip.ends[k] # "hidden"}
  <2>2. 0 \in T
    BY <1>3, <2>1 DEF TipRun
  <2>3. ASSUME NEW j \in 0..(n - 1), j \in T
        PROVE  j + 1 \in T
    <3>1. PICK i \in 1..n : i = j + 1
      BY <1>4
    <3>2. /\ f[i].hoverState = (IF tip.ends[i] = "shown" THEN "null" ELSE f[j].hoverState)
          /\ f[i].attached = (f[j].attached
                                /\ (tip.ends[i] = "shown" \/ f[j].hoverState = "in"))
      BY <1>3, <3>1 DEF TipRun
    <3>3. f[i].hoverState # "in" /\ (f[i].attached => tip.attached)
      BY <2>3, <3>2
    <3>4. ASSUME f[i].attached, NEW k \in 1..i
          PROVE  tip.ends[k] # "hidden"
      <4>1. f[j].attached /\ tip.ends[i] = "shown"
        BY <2>3, <3>2, <3>4
      <4>2. \A l \in 1..j : tip.ends[l] # "hidden"
        BY <2>3, <4>1
      <4>3. k = i \/ k \in 1..j
        BY <1>4, <3>1
      <4> QED BY <4>1, <4>2, <4>3
    <3> QED BY <1>4, <3>1, <3>3, <3>4
  <2>4. n \in T
    <3> HIDE DEF T
    <3>1. 0 \in Int /\ n \in Int /\ 0 <= n
      BY <1>4
    <3>2. \A j \in 0..(n - 1) : j \in T => j + 1 \in T
      BY <2>3
    <3>3. \A j \in 0..n : j \in T
      BY ONLY <2>2, <3>1, <3>2, IntervalInduction
    <3> QED BY <1>4, <3>3
  <2>5. Waiting(tip, "hidden") => \E k \in 1..n : tip.ends[k] = "hidden"
    BY <1>3 DEF TipRun, Waiting
  <2> QED BY <2>1, <2>4, <2>5
<1>7. ~over => Forgotten(f[n], mishaps)
  <2>1. Fine(f[n], mishaps) => Fine(tip, mishaps)
    BY <1>4 DEF Fine
  <2>2. ~over /\ Fine(tip, mishaps) => tip.timeout # "show"
    BY <1>1 DEF TipSafe, Forgotten
  <2> QED BY <1>4, <1>6, <2>1, <2>2 DEF Forgotten
<1>8. TipSafe(f[n], over, mishaps)
  BY <1>4, <1>5, <1>7 DEF TipSafe
<1> QED BY <1>2, <1>4, <1>8 DEF TooltipInv, TipSafe, Forgotten, Fine, HidesFirst, Waiting

(* While it is asked for, what an earlier hide has left waiting finds *)
(* hoverState in.                                                     *)
LEMMA TipEndStays ==
  ASSUME TooltipInv, TipEnd, over, tip.attached, tip.in, "flicker" \notin mishaps
  PROVE  tip'.attached
<1>1. /\ tip \in TipState /\ HidesFirst(tip)
      /\ Waiting(tip, "hidden") => tip.hoverState = "in"
  BY DEF TooltipInv, TipSafe
<1>2. PICK n, f : TipRun(n, f)
  BY <1>1, TipEndIs
<1>3. n \in Nat /\ tip' = f[n] /\ n \in 0..n /\ DOMAIN tip.ends = 1..n
  BY <1>2 DEF TipRun
<1> DEFINE T == {i \in 0..n : /\ f[i].attached
                              /\ (\E k \in (i + 1)..n : tip.ends[k] = "hidden")
                                   => f[i].hoverState = "in"}
<1>4. 0 \in T
  <2>1. f[0].attached /\ f[0].hoverState = tip.hoverState
    BY <1>2 DEF TipRun
  <2>2. (\E k \in (0 + 1)..n : tip.ends[k] = "hidden") => Waiting(tip, "hidden")
    BY <1>3 DEF Waiting
  <2>3. 0 \in 0..n
    BY <1>3
  <2> QED BY <1>1, <2>1, <2>2, <2>3
<1>5. ASSUME NEW j \in 0..(n - 1), j \in T
      PROVE  j + 1 \in T
  <2>1. PICK i \in 1..n : i = j + 1
    BY <1>3
  <2>2. /\ f[i].hoverState = (IF tip.ends[i] = "shown" THEN "null" ELSE f[j].hoverState)
        /\ f[i].attached = (f[j].attached
                              /\ (tip.ends[i] = "shown" \/ f[j].hoverState = "in"))
        /\ tip.ends[i] \in {"shown", "hidden"}
    BY <1>2, <2>1 DEF TipRun
  <2>3. CASE tip.ends[i] = "shown"
    <3>1. f[i].attached
      BY <1>5, <2>2, <2>3
    <3>2. \A k \in (i + 1)..n : tip.ends[k] # "hidden"
      <4>1. ASSUME NEW k \in (i + 1)..n
            PROVE  tip.ends[k] # "hidden"
        <5>1. k \in 1..n /\ i < k
          BY <1>3, <2>1
        <5> QED BY <1>1, <1>3, <2>3, <5>1 DEF HidesFirst
      <4> QED BY <4>1
    <3> QED BY <1>3, <2>1, <3>1, <3>2
  <2>4. CASE tip.ends[i] = "hidden"
    <3>1. f[j].hoverState = "in"
      BY <1>3, <1>5, <2>1, <2>4
    <3>2. f[i].attached /\ f[i].hoverState = "in"
      BY <1>5, <2>2, <2>4, <3>1
    <3> QED BY <1>3, <2>1, <3>2
  <2> QED BY <2>2, <2>3, <2>4
<1>6. n \in T
  <2> HIDE DEF T
  <2>1. 0 \in Int /\ n \in Int /\ 0 <= n
    BY <1>3
  <2>2. \A j \in 0..(n - 1) : j \in T => j + 1 \in T
    BY <1>5
  <2>3. \A j \in 0..n : j \in T
    BY ONLY <1>4, <2>1, <2>2, IntervalInduction
  <2> QED BY <1>3, <2>3
<1> QED BY <1>3, <1>6

(* A tip of which only other things change is as safe as it was. *)
LEMMA SameSafe ==
  ASSUME NEW t, NEW asked \in BOOLEAN, NEW ms, TipSafe(t, asked, ms),
         NEW c \in TipState, NEW ns, ms \subseteq ns,
         c.ends = t.ends, c.in = t.in, c.hoverState = t.hoverState, c.timeout = t.timeout,
         c.attached = t.attached, c.inDom => t.inDom
  PROVE  TipSafe(c, asked, ns)
BY DEF TipSafe, Forgotten, Fine, HidesFirst, Waiting

(* enter asks for the tip, by a timer or at once. *)
LEMMA EnterSafe ==
  ASSUME TooltipInv, NEW ns, mishaps \subseteq ns,
         Flickers(enter(tip)) => "flicker" \in ns
  PROVE  TipSafe(enter(tip), TRUE, ns)
<1>1. TipSafe(tip, over, mishaps) /\ tip \in TipState
  BY DEF TooltipInv, TipSafe
<1>2. PICK t : t = [[tip EXCEPT !.hoverState = "in"] EXCEPT !.timeout = "none"]
  OBVIOUS
<1>3. /\ t \in TipState /\ t.hoverState = "in" /\ t.ends = tip.ends /\ t.in = tip.in
      /\ t.delay = tip.delay
  BY <1>1, <1>2 DEF TipState
<1>4. CASE "show" \in tip.delay
  <2>1. PICK c : c = [t EXCEPT !.timeout = "show"]
    OBVIOUS
  <2>2. enter(tip) = c
    BY <1>1, <1>2, <1>4, <2>1 DEF enter, TipState
  <2>3. c \in TipState /\ c.hoverState = "in" /\ c.ends = tip.ends /\ c.in = tip.in
    BY <1>3, <2>1 DEF TipState
  <2>4. (~transition => tip.ends = <<>>) /\ (tip.in /\ "flicker" \notin ns => HidesFirst(tip))
    BY <1>1 DEF TipSafe
  <2>5. HidesFirst(tip) => HidesFirst(c)
    BY <2>3 DEF HidesFirst
  <2> QED BY <2>2, <2>3, <2>4, <2>5 DEF TipSafe
<1>5. CASE "show" \notin tip.delay
  <2>1. PICK c : c = showTip(t)
    OBVIOUS
  <2>2. enter(tip) = c
    BY <1>2, <1>3, <1>5, <2>1 DEF enter
  <2>3. c.ends # t.ends /\ c.in /\ Waiting(t, "shown") /\ Waiting(t, "hidden")
          => "flicker" \in ns
    BY <1>3, <2>2 DEF Flickers, HasWait, Waiting
  <2>4. (~transition => t.ends = <<>>)
    BY <1>1, <1>3 DEF TipSafe
  <2>5. t.in /\ "flicker" \notin mishaps => HidesFirst(t)
    BY <1>1, <1>3 DEF TipSafe, HidesFirst
  <2>6. PICK b \in BOOLEAN : b = TRUE
    OBVIOUS
  <2>7. TipSafe(c, b, ns)
    BY <1>3, <2>1, <2>3, <2>4, <2>5, <2>6, ShowSafe
  <2> QED BY <2>2, <2>6, <2>7
<1> QED BY <1>4, <1>5

(* leave gives it up, by a timer or at once. *)
LEMMA LeaveSafe ==
  ASSUME TooltipInv, NEW ns, mishaps \subseteq ns
  PROVE  TipSafe(leave(tip), FALSE, ns)
<1>1. TipSafe(tip, over, mishaps) /\ tip \in TipState
  BY DEF TooltipInv, TipSafe
<1>2. PICK t : t = [[tip EXCEPT !.hoverState = "out"] EXCEPT !.timeout = "none"]
  OBVIOUS
<1>3. /\ t \in TipState /\ t.hoverState = "out" /\ t.ends = tip.ends /\ t.in = tip.in
      /\ t.delay = tip.delay /\ t.timeout = "none"
  BY <1>1, <1>2 DEF TipState
<1>4. (~transition => tip.ends = <<>>) /\ (tip.in /\ "flicker" \notin ns => HidesFirst(tip))
  BY <1>1 DEF TipSafe
<1>5. CASE "hide" \in tip.delay
  <2>1. PICK c : c = [t EXCEPT !.timeout = "hide"]
    OBVIOUS
  <2>2. leave(tip) = c
    BY <1>1, <1>2, <1>5, <2>1 DEF leave, TipState
  <2>3. /\ c \in TipState /\ c.hoverState = "out" /\ c.ends = tip.ends /\ c.in = tip.in
        /\ c.timeout = "hide"
    BY <1>3, <2>1 DEF TipState
  <2>4. HidesFirst(tip) => HidesFirst(c)
    BY <2>3 DEF HidesFirst
  <2> QED BY <1>4, <2>2, <2>3, <2>4 DEF TipSafe, Forgotten
<1>6. CASE "hide" \notin tip.delay
  <2>1. PICK c : c = hideTip(t)
    OBVIOUS
  <2>2. leave(tip) = c
    BY <1>2, <1>3, <1>6, <2>1 DEF leave
  <2>3. PICK b \in BOOLEAN : b = FALSE
    OBVIOUS
  <2>4. HidesFirst(tip) => HidesFirst(t)
    BY <1>3 DEF HidesFirst
  <2>5. "hide" \in veto => TipSafe(t, b, ns)
    BY <1>3, <1>4, <2>3, <2>4 DEF TipSafe, Forgotten, Fine
  <2>6. (~transition => t.ends = <<>>) /\ t.timeout # "show" /\ t.hoverState # "in"
    BY <1>3, <1>4
  <2>7. TipSafe(c, b, ns)
    BY <1>3, <2>1, <2>3, <2>5, <2>6, HideSafe
  <2> QED BY <2>2, <2>3, <2>7
<1> QED BY <1>5, <1>6

(* The tip's object as it is made. *)
LEMMA TooltipBegins ==
  ASSUME NEW all \in BOOLEAN, TooltipInit(all), transition \in BOOLEAN
  PROVE  TooltipInv
<1> DEFINE S == [hoverState : {"null"}, timeout : {"none"}, enabled : {TRUE},
                 bound : {TRUE}, inDom : {TRUE}, attached : {FALSE}, in : {FALSE},
                 fade : {FALSE}, ends : {<<>>}, click : BOOLEAN,
                 delay : SUBSET {"show", "hide"}]
<1>1. tip \in some(S, all) /\ over = FALSE /\ mishaps = {}
  BY DEF TooltipInit
<1>2. S # {}
  <2>1. [hoverState |-> "null", timeout |-> "none", enabled |-> TRUE, bound |-> TRUE,
         inDom |-> TRUE, attached |-> FALSE, in |-> FALSE, fade |-> FALSE,
         ends |-> <<>>, click |-> FALSE, delay |-> {}] \in S
    OBVIOUS
  <2> QED BY <2>1
<1>3. tip \in S
  <2> HIDE DEF S
  <2> QED BY <1>1, <1>2, SomeIsIn
<1>4. <<>> \in Seq({"shown", "hidden"})
  OBVIOUS
<1>5. /\ tip \in TipState /\ tip.ends = <<>> /\ tip.attached = FALSE
      /\ tip.in = FALSE /\ tip.hoverState = "null" /\ tip.timeout = "none"
  BY <1>3, <1>4 DEF TipState
<1>6. TipSafe(tip, over, mishaps)
  BY <1>1, <1>5 DEF TipSafe, Forgotten
<1> QED BY <1>1, <1>6 DEF TooltipInv

(* The timer of a tip: it shows it, hides it, or comes too late for either. *)
LEMMA TimerSafe ==
  ASSUME TooltipInv, TipTimer
  PROVE  TipSafe(tip', over, mishaps')
<1>1. TipSafe(tip, over, mishaps) /\ tip \in TipState /\ over \in BOOLEAN
  BY DEF TooltipInv, TipSafe
<1>2. PICK r : r = [tip EXCEPT !.timeout = "none"]
  OBVIOUS
<1>3. PICK w : w = IF tip.hoverState = "null" THEN {"missed"} ELSE {}
  OBVIOUS
<1>4. PICK ns : ns = mishaps'
  OBVIOUS
<1>5. /\ r \in TipState /\ r.timeout = "none" /\ r.ends = tip.ends /\ r.in = tip.in
      /\ r.attached = tip.attached /\ r.hoverState = tip.hoverState
      /\ r.inDom = tip.inDom
  BY <1>1, <1>2 DEF TipState
<1>6. TipBecomes(CASE tip.timeout = "show" /\ tip.hoverState = "in" -> showTip(r)
                   [] tip.timeout = "hide" /\ tip.hoverState = "out" -> hideTip(r)
                   [] OTHER -> r, w)
  BY <1>2, <1>3 DEF TipTimer
<1>7. PICK c : c = tip'
  OBVIOUS
<1>8. /\ mishaps \subseteq ns /\ w \subseteq ns
      /\ Flickers(c) => "flicker" \in ns
      /\ c = CASE tip.timeout = "show" /\ tip.hoverState = "in" -> showTip(r)
               [] tip.timeout = "hide" /\ tip.hoverState = "out" -> hideTip(r)
               [] OTHER -> r
  BY <1>4, <1>6, <1>7 DEF TipBecomes
<1>9. /\ ~transition => r.ends = <<>>
      /\ r.in /\ "flicker" \notin mishaps => HidesFirst(r)
      /\ ~over /\ Fine(r, ns) => /\ tip.hoverState # "in" /\ tip.timeout # "show"
                                 /\ tip.attached => tip.timeout = "hide" \/ Waiting(r, "hidden")
      /\ r.in /\ over /\ "flicker" \notin ns /\ Waiting(r, "hidden") => r.hoverState = "in"
  BY <1>1, <1>5, <1>8 DEF TipSafe, Forgotten, Fine, HidesFirst, Waiting
<1>10. CASE tip.timeout = "show" /\ tip.hoverState = "in"
  <2>1. c = showTip(r)
    BY <1>8, <1>10
  <2>2. c.ends # r.ends /\ c.in /\ Waiting(r, "shown") /\ Waiting(r, "hidden")
          => "flicker" \in ns
    BY <1>5, <1>8 DEF Flickers, HasWait, Waiting
  <2>3. over \/ ~Fine(r, ns)
    BY <1>9, <1>10
  <2> QED BY <1>1, <1>4, <1>5, <1>7, <1>8, <1>9, <1>10, <2>1, <2>2, <2>3, ShowSafe
<1>11. CASE tip.timeout = "hide" /\ tip.hoverState = "out"
  <2>1. c = hideTip(r)
    BY <1>8, <1>11
  <2>2. "hide" \in veto => TipSafe(r, over, ns)
    BY <1>5, <1>8, <1>9 DEF TipSafe, Forgotten, Fine
  <2>3. r.hoverState # "in" /\ r.timeout # "show"
    BY <1>5, <1>11
  <2> QED BY <1>1, <1>4, <1>5, <1>7, <1>9, <2>1, <2>2, <2>3, HideSafe
<1>12. CASE /\ ~(tip.timeout = "show" /\ tip.hoverState = "in")
            /\ ~(tip.timeout = "hide" /\ tip.hoverState = "out")
  <2>1. c = r
    BY <1>8, <1>12
  <2>2. tip.timeout \in {"show", "hide"} /\ tip.hoverState \in {"null", "in", "out"}
    BY <1>1 DEF TipTimer, TipState
  <2>3. tip.hoverState = "null" => ~Fine(r, ns)
    BY <1>3, <1>8 DEF Fine
  <2>4. ~over => Forgotten(r, ns)
    BY <1>5, <1>9, <1>12, <2>2, <2>3 DEF Forgotten
  <2>5. TipSafe(r, over, ns)
    BY <1>5, <1>8, <1>9, <2>4 DEF TipSafe
  <2> QED BY <1>4, <1>7, <2>1, <2>5
<1> QED BY <1>10, <1>11, <1>12

(* An object that is given up has no timer, and no tip that would stay. *)
LEMMA DestroySafe ==
  ASSUME TooltipInv, DestroyTip
  PROVE  TipSafe(tip', over', mishaps')
<1>1. TipSafe(tip, over, mishaps) /\ tip \in TipState
  BY DEF TooltipInv, TipSafe
<1>2. PICK r : r = [tip EXCEPT !.timeout = "none"]
  OBVIOUS
<1>3. PICK w : w = IF tip.hoverState = "in" /\ ~(transition /\ tip.fade)
                   THEN {"dropped"} ELSE {}
  OBVIOUS
<1>4. PICK h : h = hideTip(r)
  OBVIOUS
<1>5. PICK b \in BOOLEAN : b = ("hide" \in veto)
  <2>1. ("hide" \in veto) \in BOOLEAN
    OBVIOUS
  <2> QED BY <2>1, Zenon
<1>6. TipBecomes([h EXCEPT !.bound = b], w) /\ over' = FALSE
  BY <1>2, <1>3, <1>4, <1>5 DEF DestroyTip, isDefaultPrevented
<1>7. PICK c, ns : c = tip' /\ ns = mishaps'
  OBVIOUS
<1>8. c = [h EXCEPT !.bound = b] /\ w \subseteq ns /\ mishaps \subseteq ns
  BY <1>6, <1>7 DEF TipBecomes
<1>9. /\ r \in TipState /\ r.timeout = "none" /\ r.ends = tip.ends /\ r.in = tip.in
      /\ r.hoverState = tip.hoverState /\ r.fade = tip.fade
  BY <1>1, <1>2 DEF TipState
<1>10. /\ ~transition => r.ends = <<>>
       /\ r.in /\ "flicker" \notin mishaps => HidesFirst(r)
  BY <1>1, <1>9 DEF TipSafe, HidesFirst
<1>11. PICK o \in BOOLEAN : o = FALSE
  OBVIOUS
<1>12. "hide" \in veto => TipSafe(r, o, ns)
  BY <1>8, <1>9, <1>10, <1>11 DEF TipSafe, Forgotten, Fine
<1>13. r.hoverState # "in" \/ (transition /\ r.fade) \/ "dropped" \in ns
  BY <1>3, <1>8, <1>9
<1>14. TipSafe(h, o, ns)
  BY <1>4, <1>9, <1>10, <1>12, <1>13, HideSafe
<1>15. h \in TipState
  BY <1>14 DEF TipSafe
<1>16. /\ c \in TipState /\ c.ends = h.ends /\ c.in = h.in /\ c.timeout = h.timeout
       /\ c.hoverState = h.hoverState /\ c.attached = h.attached /\ c.inDom = h.inDom
  BY <1>8, <1>15 DEF TipState
<1>17. TipSafe(c, o, ns)
  BY <1>14, <1>16, SameSafe
<1> QED BY <1>6, <1>7, <1>11, <1>17

(* A new object begins with nothing that is to come. *)
LEMMA MakeSafe ==
  ASSUME TooltipInv, MakeTip
  PROVE  TipSafe(tip', over', mishaps')
<1>1. TipSafe(tip, over, mishaps) /\ tip \in TipState
  BY DEF TooltipInv, TipSafe
<1>2. PICK c : c = [[[[[tip EXCEPT !.bound = TRUE] EXCEPT !.hoverState = "null"]
                         EXCEPT !.enabled = TRUE] EXCEPT !.in = FALSE] EXCEPT !.fade = FALSE]
  OBVIOUS
<1>3. /\ c \in TipState /\ c.ends = <<>> /\ c.hoverState = "null" /\ c.in = FALSE
      /\ c.attached = FALSE /\ c.timeout = tip.timeout /\ c.inDom = tip.inDom
  BY <1>1, <1>2 DEF TipState, MakeTip
<1>4. tip' = c
  BY <1>1, <1>2 DEF MakeTip, TipState
<1>5. over' = over /\ mishaps' = mishaps
  BY DEF MakeTip
<1>6. ~over => Forgotten(c, mishaps)
  BY <1>1, <1>3 DEF TipSafe, Forgotten, Fine
<1>7. TipSafe(c, over, mishaps)
  BY <1>3, <1>6 DEF TipSafe
<1> QED BY <1>4, <1>5, <1>7

(* Every move of the mouse, call, timer and end of a transition keeps the tip *)
(* safe.                                                                      *)
LEMMA TooltipKeeps ==
  ASSUME TooltipInv, TooltipNext, transition' = transition, veto' = veto
  PROVE  TooltipInv'
<1>1. TipSafe(tip, over, mishaps) /\ tip \in TipState /\ over \in BOOLEAN
      /\ mishaps \subseteq Mishaps
  BY DEF TooltipInv, TipSafe
<1>2. SUFFICES ASSUME ~TipEnd
               PROVE  TipSafe(tip', over', mishaps') /\ over' \in BOOLEAN
                      /\ mishaps' \subseteq Mishaps
  BY TipEndKeeps DEF TooltipInv, TipSafe, Forgotten, Fine, HidesFirst, Waiting
<1>3. ASSUME NEW t, NEW w \in SUBSET Mishaps, TipBecomes(t, w)
      PROVE  /\ tip' = t /\ mishaps \subseteq mishaps' /\ mishaps' \subseteq Mishaps
             /\ Flickers(t) => "flicker" \in mishaps'
  BY <1>1, <1>3 DEF TipBecomes, Mishaps
<1>4. PICK w \in SUBSET Mishaps : w = {}
  OBVIOUS
<1>5. ASSUME TipBecomes(enter(tip), {}), over' = TRUE
      PROVE  TipSafe(tip', over', mishaps') /\ mishaps' \subseteq Mishaps
  <2>1. PICK t, ns : t = enter(tip) /\ ns = mishaps'
    OBVIOUS
  <2>2. TipBecomes(t, w)
    BY <1>4, <1>5, <2>1
  <2>3. /\ tip' = t /\ mishaps \subseteq ns /\ ns \subseteq Mishaps
        /\ Flickers(t) => "flicker" \in ns
    BY <1>3, <2>1, <2>2
  <2>4. TipSafe(enter(tip), TRUE, ns)
    BY <2>1, <2>3, EnterSafe
  <2> QED BY <1>5, <2>1, <2>3, <2>4
<1>6. ASSUME TipBecomes(leave(tip), {}), over' = FALSE
      PROVE  TipSafe(tip', over', mishaps') /\ mishaps' \subseteq Mishaps
  <2>1. PICK t, ns : t = leave(tip) /\ ns = mishaps'
    OBVIOUS
  <2>2. TipBecomes(t, w)
    BY <1>4, <1>6, <2>1
  <2>3. tip' = t /\ mishaps \subseteq ns /\ ns \subseteq Mishaps
    BY <1>3, <2>1, <2>2
  <2>4. TipSafe(leave(tip), FALSE, ns)
    BY <2>1, <2>3, LeaveSafe
  <2> QED BY <1>6, <2>1, <2>3, <2>4
<1>7. CASE PointerIn
  BY <1>5, <1>7 DEF PointerIn
<1>8. CASE PointerOut
  BY <1>6, <1>8 DEF PointerOut
<1>9. CASE ClickTip
  <2>1. tip.in \in BOOLEAN
    BY <1>1 DEF TipState
  <2>2. CASE tip.in
    BY <1>6, <1>9, <2>2 DEF ClickTip, toggleTip
  <2>3. CASE ~tip.in
    BY <1>5, <1>9, <2>3 DEF ClickTip, toggleTip
  <2> QED BY <2>1, <2>2, <2>3
<1>10. CASE TipTimer
  <2>1. TipSafe(tip', over', mishaps') /\ over' = over
    BY <1>10, TimerSafe DEF TipTimer
  <2>2. mishaps' \subseteq Mishaps
    BY <1>1, <1>10 DEF TipTimer, TipBecomes, Mishaps
  <2> QED BY <1>1, <2>1, <2>2
<1>11. CASE EnableTip
  <2>1. PICK b \in BOOLEAN : b = ~tip.enabled
    OBVIOUS
  <2>2. PICK c : c = [tip EXCEPT !.enabled = b]
    OBVIOUS
  <2>3. tip' = c /\ over' = over /\ mishaps' = mishaps
    BY <1>1, <1>11, <2>1, <2>2 DEF EnableTip, TipState
  <2>4. /\ c \in TipState /\ c.ends = tip.ends /\ c.in = tip.in /\ c.timeout = tip.timeout
        /\ c.hoverState = tip.hoverState /\ c.attached = tip.attached /\ c.inDom = tip.inDom
    BY <1>1, <2>2 DEF TipState
  <2> QED BY <1>1, <2>3, <2>4, SameSafe
<1>12. CASE RemoveElement
  <2>1. PICK c : c = [tip EXCEPT !.inDom = FALSE]
    OBVIOUS
  <2>2. tip' = c /\ over' = over /\ mishaps' = mishaps
    BY <1>12, <2>1 DEF RemoveElement
  <2>3. /\ c \in TipState /\ c.ends = tip.ends /\ c.in = tip.in /\ c.timeout = tip.timeout
        /\ c.hoverState = tip.hoverState /\ c.attached = tip.attached /\ ~c.inDom
    BY <1>1, <2>1 DEF TipState
  <2> QED BY <1>1, <2>2, <2>3, SameSafe
<1>13. CASE DestroyTip
  <2>1. TipSafe(tip', over', mishaps') /\ over' = FALSE
    BY <1>13, DestroySafe DEF DestroyTip
  <2>2. mishaps' \subseteq Mishaps
    BY <1>1, <1>13 DEF DestroyTip, TipBecomes, Mishaps
  <2> QED BY <2>1, <2>2
<1>14. CASE MakeTip
  <2>1. TipSafe(tip', over', mishaps') /\ over' = over /\ mishaps' = mishaps
    BY <1>14, MakeSafe DEF MakeTip
  <2> QED BY <1>1, <2>1
<1> QED
  BY <1>2, <1>7, <1>8, <1>9, <1>10, <1>11, <1>12, <1>13, <1>14 DEF TooltipNext,
     PointerIn, PointerOut, ClickTip

(* Only the end of a transition takes away a tip that is in and stays in. *)
LEMMA TooltipTakesNot ==
  ASSUME TooltipInv, TooltipNext, over, over', tip.attached, tip.in, tip'.in,
         "flicker" \notin mishaps'
  PROVE  tip'.attached
<1>1. tip \in TipState
  BY DEF TooltipInv, TipSafe
<1>2. ASSUME NEW t \in TipState, t.attached, showTip(t).in
      PROVE  showTip(t).attached
  BY <1>2, ShowTipIs DEF ShownAs
<1>3. CASE TipEnd
  BY <1>3, TipEndStays DEF TipEnd
<1>4. CASE TipTimer
  <2>1. PICK r : r = [tip EXCEPT !.timeout = "none"]
    OBVIOUS
  <2>2. r \in TipState /\ r.attached
    BY <1>1, <2>1 DEF TipState
  <2>3. tip' \in {showTip(r), hideTip(r), r}
    BY <1>4, <2>1 DEF TipTimer, TipBecomes
  <2>4. hideTip(r) = r \/ ~hideTip(r).in
    BY <2>2, HideTipIs DEF HiddenAs
  <2> QED BY <1>2, <2>2, <2>3, <2>4
<1>5. CASE ClickTip
  BY <1>5 DEF ClickTip
<1>6. CASE EnableTip \/ RemoveElement
  BY <1>1, <1>6 DEF EnableTip, RemoveElement, TipState
<1>7. CASE PointerIn \/ PointerOut \/ DestroyTip \/ MakeTip
  BY <1>7 DEF PointerIn, PointerOut, DestroyTip, MakeTip
<1> QED BY <1>3, <1>4, <1>5, <1>6, <1>7 DEF TooltipNext

(* The tip's invariant speaks of its own variables and of the page's. *)
LEMMA TooltipStays ==
  ASSUME TooltipInv, UNCHANGED <<tooltipVars, transition, veto>>
  PROVE  TooltipInv'
BY DEF TooltipInv, TipSafe, Forgotten, Fine, HidesFirst, Waiting, tooltipVars

-----------------------------------------------------------------------------
(* The accordion. *)

(* NeverStuck is not inductive: an object is taken away in mid-transition only from    *)
(* a panel that was open, and so had nothing waiting before, which is why two wait at  *)
(* most; and only the last of them can be of the object that refuses calls.            *)
PanelSafe(s) ==
  /\ s \in PanelState
  /\ s.in \/ ~transition => s.ends = <<>>
  /\ IF s.data = "transitioning"
       THEN Len(s.ends) \in 1..2 /\ ~s.ends[Len(s.ends)].lost
       ELSE Len(s.ends) <= 1 /\ \A i \in DOMAIN s.ends : s.ends[i].lost

(* Every panel is. *)
PanelsSafe(f) == f \in [Panels -> PanelState] /\ \A q \in Panels : PanelSafe(f[q])

(* A panel that is open, or will be at the end of its transition. *)
Opened(s) == s.in \/ \E i \in DOMAIN s.ends : s.ends[i].op = "show"

(* In an accordion whose links alone are used, every object a panel keeps has been     *)
(* made by a click and knows the accordion; one that was made to close a panel of the  *)
(* page's HTML is taken away while it moves, and has nothing to do but that.           *)
PanelCalm(s) ==
  /\ s.data # "none" => s.parent
  /\ s.data = "idle" => s.ends = <<>>
  /\ s.ends # <<>> => s.collapsing
  /\ \A i \in DOMAIN s.ends : s.ends[i].lost => s.ends[i].op = "hide"

(* OneOpen and LinksAgree are not inductive: they say nothing of panels on the way.    *)
AccordionCalm ==
  /\ \A q \in Panels : PanelCalm(panel[q])
  /\ \A q, r \in Panels : Opened(panel[q]) /\ Opened(panel[r]) => q = r
  /\ \A q \in Panels : q \in collapsed <=> ~Opened(panel[q])

(* The panels are safe under any use, and calm where the links alone are *)
(* used.                                                                 *)
CollapseInv ==
  /\ PanelsSafe(panel) /\ CollapseTypeOK
  /\ ~haste /\ ~scripted /\ veto = {} => AccordionCalm

(* The invariant says all that the properties do. *)
LEMMA CollapseInvSound == CollapseInv => CollapseTypeOK /\ NeverStuck /\ OneOpen /\ LinksAgree
<1> SUFFICES ASSUME CollapseInv PROVE CollapseTypeOK /\ NeverStuck /\ OneOpen /\ LinksAgree
  OBVIOUS
<1>1. NeverStuck
  <2>1. SUFFICES ASSUME NEW p \in Panels
                 PROVE  /\ panel[p].data = "transitioning" =>
                             \E i \in DOMAIN panel[p].ends : ~panel[p].ends[i].lost
                        /\ Len(panel[p].ends) <= 2
    BY DEF NeverStuck
  <2>2. PICK s : s = panel[p]
    OBVIOUS
  <2>3. PanelSafe(s) /\ s.ends \in Seq(Complete)
    BY <2>2 DEF CollapseInv, PanelsSafe, PanelSafe, PanelState
  <2>4. CASE s.data = "transitioning"
    <3>1. PICK n \in 1..2 : n = Len(s.ends)
      BY <2>3, <2>4 DEF PanelSafe
    <3>2. n \in DOMAIN s.ends /\ ~s.ends[n].lost
      BY <2>3, <2>4, <3>1 DEF PanelSafe
    <3> QED BY <2>2, <3>1, <3>2
  <2>5. CASE s.data # "transitioning"
    <3>1. Len(s.ends) <= 1 /\ Len(s.ends) \in Nat
      BY <2>3, <2>5 DEF PanelSafe
    <3> QED BY <2>2, <2>5, <3>1
  <2> QED BY <2>4, <2>5
<1>2. OneOpen
  <2>1. SUFFICES ASSUME AccordionCalm
                 PROVE  Cardinality({p \in Panels : panel[p].in}) <= 1
    BY DEF CollapseInv, OneOpen
  <2>2. PICK S : S = {p \in Panels : panel[p].in}
    OBVIOUS
  <2>3. \A q, r \in S : q = r
    BY <2>1, <2>2 DEF AccordionCalm, Opened
  <2>4. S = {} \/ \E q : S = {q}
    BY <2>3
  <2>5. Cardinality(S) <= 1
    <3>1. Cardinality({}) = 0 /\ \A q : Cardinality({q}) = 1
      BY FS_EmptySet, FS_Singleton
    <3>2. Cardinality(S) = 0 \/ Cardinality(S) = 1
      BY <2>4, <3>1
    <3> QED BY <3>2
  <2> QED BY <2>2, <2>5
<1>3. LinksAgree
  <2>1. SUFFICES ASSUME AccordionCalm, NEW p \in Panels, panel[p].ends = <<>>
                 PROVE  p \in collapsed <=> ~panel[p].in
    BY DEF CollapseInv, LinksAgree
  <2>2. Opened(panel[p]) <=> panel[p].in
    BY <2>1 DEF Opened
  <2> QED BY <2>1, <2>2 DEF AccordionCalm
<1> QED BY <1>1, <1>2, <1>3 DEF CollapseInv

(* What begin, or the same without a transition, makes of a panel. *)
LEMMA TransitIs ==
  ASSUME NEW s \in PanelState, NEW op \in {"show", "hide"}
  PROVE  LET d == transit(s, op) IN
         /\ d \in PanelState /\ d.parent = s.parent
         /\ IF transition
              THEN /\ ~d.in /\ d.collapsing /\ d.data = "transitioning"
                   /\ d.ends = Append(s.ends, [op |-> op, lost |-> FALSE])
              ELSE /\ d.in <=> op = "show"
                   /\ d.data = "idle" /\ d.ends = s.ends
<1>1. PICK d : d = transit(s, op)
  OBVIOUS
<1>2. CASE transition
  <2>1. PICK c : c = [op |-> op, lost |-> FALSE]
    OBVIOUS
  <2>2. PICK e : e = Append(s.ends, c)
    OBVIOUS
  <2>3. e \in Seq(Complete)
    BY <2>1, <2>2 DEF Complete, PanelState
  <2>4. d = [[[[s EXCEPT !.in = FALSE] EXCEPT !.collapsing = TRUE]
                EXCEPT !.data = "transitioning"] EXCEPT !.ends = e]
    BY <1>1, <1>2, <2>1, <2>2 DEF transit, begin, PanelState
  <2>5. /\ d \in PanelState /\ d.parent = s.parent /\ d.in = FALSE /\ d.collapsing = TRUE
        /\ d.data = "transitioning" /\ d.ends = e
    BY <2>3, <2>4 DEF PanelState
  <2> QED BY <1>1, <1>2, <2>1, <2>2, <2>5
<1>3. CASE ~transition
  <2>1. PICK b \in BOOLEAN : b = (op = "show")
    <3>1. (op = "show") \in BOOLEAN
      OBVIOUS
    <3> QED BY <3>1, Zenon
  <2>2. d = [[[[s EXCEPT !.in = FALSE] EXCEPT !.collapsing = FALSE] EXCEPT !.in = b]
               EXCEPT !.data = "idle"]
    BY <1>1, <1>3, <2>1 DEF transit, collapseComplete, PanelState
  <2>3. d \in PanelState /\ d.parent = s.parent /\ d.in = b /\ d.data = "idle"
        /\ d.ends = s.ends
    BY <2>2 DEF PanelState
  <2> QED BY <1>1, <1>3, <2>1, <2>3
<1> QED BY <1>2, <1>3

(* A panel that does not move already may begin to. *)
LEMMA TransitSafe ==
  ASSUME NEW s, PanelSafe(s), s.data # "transitioning", NEW op \in {"show", "hide"}
  PROVE  PanelSafe(transit(s, op))
<1>1. s \in PanelState /\ s.ends \in Seq(Complete)
  BY DEF PanelSafe, PanelState
<1>2. PICK d : d = transit(s, op)
  OBVIOUS
<1>3. CASE transition
  <2>1. PICK c : c = [op |-> op, lost |-> FALSE]
    OBVIOUS
  <2>2. /\ d \in PanelState /\ ~d.in /\ d.data = "transitioning"
        /\ d.ends = Append(s.ends, c)
    BY <1>1, <1>2, <1>3, <2>1, TransitIs
  <2>3. PICK n \in Nat : n = Len(s.ends)
    BY <1>1
  <2>4. n <= 1
    BY <2>3 DEF PanelSafe
  <2>5. Len(d.ends) = n + 1 /\ d.ends[n + 1] = c
    BY <1>1, <2>2, <2>3
  <2>6. n + 1 \in 1..2 /\ ~c.lost
    BY <2>1, <2>4
  <2>7. Len(d.ends) \in 1..2 /\ ~d.ends[Len(d.ends)].lost
    BY <2>5, <2>6
  <2> QED BY <1>2, <1>3, <2>2, <2>7 DEF PanelSafe
<1>4. CASE ~transition
  <2>1. d \in PanelState /\ d.data = "idle" /\ d.ends = s.ends
    BY <1>1, <1>2, <1>4, TransitIs
  <2> QED BY <1>2, <1>4, <2>1 DEF PanelSafe
<1> QED BY <1>3, <1>4

(* hide does nothing, or makes an open panel that does not move begin to. *)
LEMMA HidePanelSafe ==
  ASSUME NEW s, PanelSafe(s)
  PROVE  /\ PanelSafe(hide(s)) /\ (hide(s).data = "none" => s.data = "none")
         /\ hide(s) = s \/ (s.in /\ s.data # "transitioning" /\ hide(s) = transit(s, "hide"))
<1>1. CASE s.data = "transitioning" \/ ~s.in \/ isDefaultPrevented("hide")
  <2>1. hide(s) = s
    BY <1>1 DEF hide
  <2> QED BY <2>1
<1>2. CASE ~(s.data = "transitioning" \/ ~s.in \/ isDefaultPrevented("hide"))
  <2>1. hide(s) = transit(s, "hide")
    BY <1>2 DEF hide
  <2>2. PICK op \in {"show", "hide"} : op = "hide"
    OBVIOUS
  <2>3. PICK d : d = transit(s, op)
    OBVIOUS
  <2>4. PanelSafe(d)
    BY <1>2, <2>3, TransitSafe
  <2>5. s \in PanelState
    BY DEF PanelSafe
  <2>6. d.data # "none"
    BY <2>3, <2>5, TransitIs
  <2> QED BY <1>2, <2>1, <2>2, <2>3, <2>4, <2>6
<1> QED BY <1>1, <1>2

(* The object that closed makes for an open panel without one, and the panel once it   *)
(* has been taken away.                                                                *)
MadeObject(s) == [s EXCEPT !.data = "idle", !.parent = FALSE]
Dropped(s) == [s EXCEPT !.data = "none",
                        !.ends = [i \in DOMAIN @ |-> [@[i] EXCEPT !.lost = TRUE]]]

(* A panel that is open does not move. *)
LEMMA OpenAtRest ==
  ASSUME NEW s, PanelSafe(s), s.in
  PROVE  s \in PanelState /\ s.ends = <<>> /\ s.data # "transitioning"
<1>1. s \in PanelState /\ s.ends = <<>>
  BY DEF PanelSafe
<1>2. ~(Len(s.ends) \in 1..2)
  BY <1>1
<1> QED BY <1>1, <1>2 DEF PanelSafe

(* Its new object changes nothing else. *)
LEMMA MadeIs ==
  ASSUME NEW s, PanelSafe(s), s.in
  PROVE  LET d == MadeObject(s) IN
         PanelSafe(d) /\ d.data = "idle" /\ d.in /\ d.ends = <<>>
<1>1. s \in PanelState /\ s.ends = <<>>
  BY OpenAtRest
<1>2. PICK d : d = [[s EXCEPT !.data = "idle"] EXCEPT !.parent = FALSE]
  OBVIOUS
<1>3. MadeObject(s) = d
  BY <1>1, <1>2 DEF MadeObject, PanelState
<1>4. d \in PanelState /\ d.data = "idle" /\ d.ends = <<>> /\ d.in
  BY <1>1, <1>2 DEF PanelState
<1> QED BY <1>3, <1>4 DEF PanelSafe

(* What waits for a panel whose object is taken away is lost, and else as it was. *)
LEMMA DroppedIs ==
  ASSUME NEW s, PanelSafe(s)
  PROVE  LET d == Dropped(s) IN
         /\ d \in PanelState /\ d.data = "none" /\ d.in = s.in
         /\ d.collapsing = s.collapsing
         /\ Len(d.ends) = Len(s.ends) /\ DOMAIN d.ends = DOMAIN s.ends
         /\ \A i \in DOMAIN s.ends : d.ends[i].lost /\ d.ends[i].op = s.ends[i].op
<1>1. PICK n \in Nat : n = Len(s.ends)
  BY DEF PanelSafe, PanelState
<1>2. PICK e : e = [i \in DOMAIN s.ends |-> [s.ends[i] EXCEPT !.lost = TRUE]]
  OBVIOUS
<1>3. s.ends \in Seq(Complete) /\ DOMAIN s.ends = 1..n
      /\ \A i \in 1..n : s.ends[i] \in Complete
  BY <1>1 DEF PanelSafe, PanelState
<1>4. ASSUME NEW i \in 1..n
      PROVE  e[i] \in Complete /\ e[i].lost /\ e[i].op = s.ends[i].op
  <2>1. PICK c \in Complete : c = s.ends[i]
    BY <1>3
  <2>2. e[i] = [c EXCEPT !.lost = TRUE]
    BY <1>2, <1>3, <2>1
  <2> QED BY <2>1, <2>2 DEF Complete
<1>5. e \in [1..n -> Complete]
  BY <1>2, <1>3, <1>4
<1>6. e \in Seq(Complete) /\ Len(e) = n /\ DOMAIN e = 1..n
  BY <1>5
<1>7. PICK d : d = [[s EXCEPT !.data = "none"] EXCEPT !.ends = e]
  OBVIOUS
<1>8. s \in PanelState
  BY DEF PanelSafe
<1>9. Dropped(s) = d
  BY <1>2, <1>7, <1>8 DEF Dropped, PanelState
<1>10. /\ d \in PanelState /\ d.data = "none" /\ d.ends = e /\ d.in = s.in
       /\ d.collapsing = s.collapsing
  BY <1>6, <1>7, <1>8 DEF PanelState
<1> QED BY <1>1, <1>3, <1>4, <1>6, <1>9, <1>10

(* closed hides the open panels; an object made for that is taken away again. *)
LEMMA ClosedIs ==
  ASSUME NEW f, PanelsSafe(f)
  PROVE  LET g == closed(f) IN
         /\ PanelsSafe(g) /\ \A q \in Panels : ~f[q].in => g[q] = f[q]
         /\ (\A q, r \in Panels : f[q].in /\ f[r].in => q = r) =>
              \A q \in Panels : f[q].in =>
                g[q] = IF f[q].data = "none" THEN Dropped(hide(MadeObject(f[q])))
                       ELSE hide(f[q])
<1> DEFINE A == actives(f)
           hasData == f[first(A)].data # "none"
           made(s) == IF s.data = "none" THEN MadeObject(s) ELSE s
           dropped(s) == Dropped(s)
<1>1. closed(f) = [q \in DOMAIN f |->
                     IF q \notin A THEN f[q]
                     ELSE IF hasData THEN hide(made(f[q])) ELSE dropped(hide(made(f[q])))]
  BY DEF closed, MadeObject, Dropped
<1>2. f \in [Panels -> PanelState] /\ \A q \in Panels : PanelSafe(f[q])
  BY DEF PanelsSafe
<1>3. A \subseteq Panels /\ \A q \in Panels : q \in A <=> f[q].in
  BY <1>2 DEF actives
<1>4. ASSUME NEW s, PanelSafe(s), s.in
      PROVE  PanelSafe(made(s)) /\ made(s).ends = <<>>
  BY <1>4, OpenAtRest, MadeIs
<1>5. ASSUME NEW s, PanelSafe(s), Len(s.ends) <= 1
      PROVE  PanelSafe(dropped(s))
  <2>1. PICK d : d = Dropped(s)
    OBVIOUS
  <2>2. /\ d \in PanelState /\ d.data = "none" /\ d.in = s.in
        /\ Len(d.ends) = Len(s.ends) /\ \A i \in DOMAIN d.ends : d.ends[i].lost
    BY <1>5, <2>1, DroppedIs
  <2>3. s.in \/ ~transition => d.ends = <<>>
    <3>1. s.in \/ ~transition => s.ends = <<>>
      BY <1>5 DEF PanelSafe
    <3>2. d.ends \in Seq(Complete) /\ Len(<<>>) = 0
      BY <2>2 DEF PanelState
    <3>3. Len(d.ends) = 0 => d.ends = <<>>
      BY <3>2
    <3> QED BY <2>2, <3>1, <3>2, <3>3
  <2>4. PanelSafe(d)
    BY <1>5, <2>2, <2>3 DEF PanelSafe
  <2> QED BY <2>1, <2>4
<1>6. ASSUME NEW s, PanelSafe(s), s.ends = <<>>
      PROVE  PanelSafe(hide(s)) /\ Len(hide(s).ends) <= 1
  <2>1. PICK h : h = hide(s)
    OBVIOUS
  <2>2. PanelSafe(h) /\ (h = s \/ h = transit(s, "hide")) /\ s \in PanelState
    BY <1>6, <2>1, HidePanelSafe DEF PanelSafe
  <2>3. Len(<<>>) = 0
    OBVIOUS
  <2>4. ASSUME h = transit(s, "hide")
        PROVE  Len(h.ends) <= 1
    <3>1. PICK op \in {"show", "hide"} : op = "hide"
      OBVIOUS
    <3>2. PICK c : c = [op |-> op, lost |-> FALSE]
      OBVIOUS
    <3>3. h.ends = Append(<<>>, c) \/ h.ends = <<>>
      BY <1>6, <2>2, <2>4, <3>1, <3>2, TransitIs
    <3>4. Len(Append(<<>>, c)) = 1
      OBVIOUS
    <3>5. PICK n \in 0..1 : n = Len(h.ends)
      <4>1. 0 \in 0..1 /\ 1 \in 0..1
        OBVIOUS
      <4> QED BY <2>3, <3>3, <3>4, <4>1
    <3>6. n <= 1
      OBVIOUS
    <3> QED BY <3>5, <3>6
  <2>5. ASSUME h = s
        PROVE  Len(h.ends) <= 1
    <3>1. Len(h.ends) = 0
      BY <1>6, <2>3, <2>5
    <3> QED BY <3>1
  <2>6. Len(h.ends) <= 1
    BY <2>2, <2>4, <2>5
  <2> QED BY <2>1, <2>2, <2>6
<1> DEFINE g == closed(f)
<1>7. /\ g = [q \in Panels |-> g[q]]
      /\ \A q \in Panels : g[q] = IF q \notin A THEN f[q]
                                  ELSE IF hasData THEN hide(made(f[q]))
                                  ELSE dropped(hide(made(f[q])))
  <2> HIDE DEF made, dropped, hasData, A
  <2>1. DOMAIN f = Panels
    BY <1>2
  <2>2. g = [q \in Panels |->
               IF q \notin A THEN f[q]
               ELSE IF hasData THEN hide(made(f[q])) ELSE dropped(hide(made(f[q])))]
    BY <1>1, <2>1
  <2> QED BY <2>2
<1> HIDE DEF made, dropped, A, g, hasData
<1>8. ASSUME NEW q \in Panels
      PROVE  PanelSafe(g[q])
  <2>1. CASE q \in A
    <3>1. PICK s : s = made(f[q])
      OBVIOUS
    <3>2. PanelSafe(s) /\ s.ends = <<>>
      BY <1>2, <1>3, <1>4, <2>1, <3>1
    <3>3. PICK h : h = hide(s)
      OBVIOUS
    <3>4. PanelSafe(h) /\ Len(h.ends) <= 1
      BY <1>6, <3>2, <3>3
    <3>5. PanelSafe(dropped(h))
      BY <1>5, <3>4
    <3> QED BY <1>7, <2>1, <3>1, <3>3, <3>4, <3>5
  <2>2. CASE q \notin A
    BY <1>2, <1>7, <2>2
  <2> QED BY <2>1, <2>2
<1>9. g \in [Panels -> PanelState]
  BY <1>7, <1>8 DEF PanelSafe
<1>10. \A q \in Panels : ~f[q].in => g[q] = f[q]
  BY <1>3, <1>7
<1>11. ASSUME \A q, r \in Panels : f[q].in /\ f[r].in => q = r, NEW q \in Panels, f[q].in
       PROVE  g[q] = IF f[q].data = "none" THEN Dropped(hide(MadeObject(f[q])))
                     ELSE hide(f[q])
  <2>1. A # {} /\ A \subseteq Nat
    BY <1>3, <1>11, PanelsAssumption
  <2>2. PICK n \in A : \A m \in A : n <= m
    BY <2>1, LeastOf
  <2>3. first(A) \in A
    BY <2>2 DEF first
  <2>4. first(A) = q
    BY <1>3, <1>11, <2>3
  <2>5. hasData <=> f[q].data # "none"
    BY <2>4 DEF hasData
  <2>6. made(f[q]) = (IF f[q].data = "none" THEN MadeObject(f[q]) ELSE f[q])
    BY DEF made
  <2>7. dropped(hide(made(f[q]))) = Dropped(hide(made(f[q])))
    BY DEF dropped
  <2> QED BY <1>3, <1>7, <1>11, <2>5, <2>6, <2>7
<1>12. PanelsSafe(g)
  BY <1>8, <1>9 DEF PanelsSafe
<1> QED BY <1>10, <1>11, <1>12 DEF g

(* Of panels that are safe, one is replaced by one that is. *)
LEMMA OneReplaced ==
  ASSUME NEW f, PanelsSafe(f), NEW p \in Panels, NEW s, PanelSafe(s)
  PROVE  LET g == [f EXCEPT ![p] = s] IN
         PanelsSafe(g) /\ \A q \in Panels : g[q] = IF q = p THEN s ELSE f[q]
<1>1. f \in [Panels -> PanelState] /\ s \in PanelState
  BY DEF PanelsSafe, PanelSafe
<1>2. PICK g : g = [f EXCEPT ![p] = s]
  OBVIOUS
<1>3. g \in [Panels -> PanelState] /\ \A q \in Panels : g[q] = IF q = p THEN s ELSE f[q]
  BY <1>1, <1>2
<1>4. PanelsSafe(g)
  BY <1>3 DEF PanelsSafe
<1> QED BY <1>2, <1>3, <1>4

(* show opens a panel that does not move, and closes those of its accordion. *)
LEMMA ShowPanelSafe ==
  ASSUME NEW f, PanelsSafe(f), NEW p \in Panels
  PROVE  PanelsSafe(show(f, p))
<1> DEFINE A == IF f[p].parent THEN actives(f) ELSE {}
<1>1. CASE f[p].data = "transitioning" \/ f[p].in \/ isDefaultPrevented("show")
  BY <1>1 DEF show
<1>2. CASE ~(f[p].data = "transitioning" \/ f[p].in \/ isDefaultPrevented("show"))
  <2>1. PICK op \in {"show", "hide"} : op = "show"
    OBVIOUS
  <2>2. PICK d : d = transit(f[p], op)
    OBVIOUS
  <2>3. f \in [Panels -> PanelState] /\ PanelSafe(f[p])
    BY DEF PanelsSafe
  <2>4. PanelSafe(d)
    BY <1>2, <2>2, <2>3, TransitSafe
  <2>5. PICK c : c = closed(f)
    OBVIOUS
  <2>6. PanelsSafe(c) /\ c[p] = f[p]
    BY <1>2, <2>5, ClosedIs
  <2>7. show(f, p) \in {f, [f EXCEPT ![p] = d], [c EXCEPT ![p] = d]}
    <3>1. [f EXCEPT ![p] = transit(@, "show")] = [f EXCEPT ![p] = d]
      BY <2>1, <2>2
    <3>2. c \in [Panels -> PanelState]
      BY <2>6 DEF PanelsSafe
    <3>3. [c EXCEPT ![p] = transit(@, "show")] = [c EXCEPT ![p] = d]
      BY <2>1, <2>2, <2>6, <3>2
    <3>4. show(f, p) = IF A = {} THEN [f EXCEPT ![p] = transit(@, "show")]
                       ELSE IF f[first(A)].data = "transitioning" THEN f
                       ELSE [c EXCEPT ![p] = transit(@, "show")]
      BY <1>2, <2>5 DEF show
    <3> QED BY <3>1, <3>3, <3>4
  <2> QED BY <2>4, <2>6, <2>7, OneReplaced
<1> QED BY <1>1, <1>2

(* toggle shows or hides. *)
LEMMA TogglePanelSafe ==
  ASSUME NEW f, PanelsSafe(f), NEW p \in Panels
  PROVE  PanelsSafe(toggle(f, p)) /\ PanelsSafe([f EXCEPT ![p] = hide(f[p])])
<1>1. f \in [Panels -> PanelState] /\ PanelSafe(f[p])
  BY DEF PanelsSafe
<1>2. PICK d : d = hide(f[p])
  OBVIOUS
<1>3. PanelSafe(d)
  BY <1>1, <1>2, HidePanelSafe
<1>4. PanelsSafe([f EXCEPT ![p] = d])
  BY <1>3, OneReplaced
<1>5. toggle(f, p) = IF f[p].in THEN [f EXCEPT ![p] = d] ELSE show(f, p)
  BY <1>1, <1>2 DEF toggle
<1> QED BY <1>2, <1>4, <1>5, ShowPanelSafe

(* What the plugin is asked, by a link or a script. *)
LEMMA CallSafe ==
  ASSUME NEW f, PanelsSafe(f), NEW p \in Panels,
         NEW option \in {"none", "show", "hide", "toggle"}
  PROVE  PanelsSafe(call(f, p, option))
<1>1. f \in [Panels -> PanelState]
  BY DEF PanelsSafe
<1>2. call(f, p, option) \in {f, show(f, p), toggle(f, p), [f EXCEPT ![p] = hide(f[p])]}
  <2>1. CASE option = "show"
    BY <2>1 DEF call
  <2>2. CASE option = "hide"
    BY <1>1, <2>2 DEF call
  <2>3. CASE option = "toggle"
    BY <2>3 DEF call
  <2>4. CASE option = "none"
    BY <2>4 DEF call
  <2> QED BY <2>1, <2>2, <2>3, <2>4
<1> QED BY <1>2, ShowPanelSafe, TogglePanelSafe

(* The new object of a panel without one. *)
NewObject(f, p, parent) == [f EXCEPT ![p].data = "idle", ![p].parent = parent]

(* The panel with its new object is as safe as it was. *)
LEMMA NewObjectIs ==
  ASSUME NEW f, PanelsSafe(f), NEW p \in Panels, NEW parent \in BOOLEAN, f[p].data = "none"
  PROVE  LET g == NewObject(f, p, parent) IN
         /\ PanelsSafe(g) /\ \A q \in Panels \ {p} : g[q] = f[q]
         /\ g[p].data = "idle" /\ g[p].parent = parent /\ g[p].in = f[p].in
         /\ g[p].ends = f[p].ends
<1>1. PICK s : s = f[p]
  OBVIOUS
<1>2. f \in [Panels -> PanelState] /\ PanelSafe(s) /\ s \in PanelState
  BY <1>1 DEF PanelsSafe, PanelSafe
<1>3. PICK d : d = [[s EXCEPT !.data = "idle"] EXCEPT !.parent = parent]
  OBVIOUS
<1>4. /\ d \in PanelState /\ d.data = "idle" /\ d.parent = parent /\ d.in = s.in
      /\ d.ends = s.ends
  BY <1>2, <1>3 DEF PanelState
<1>5. PanelSafe(d)
  BY <1>1, <1>2, <1>4 DEF PanelSafe
<1>6. NewObject(f, p, parent) = [f EXCEPT ![p] = d]
  BY <1>1, <1>2, <1>3 DEF NewObject, PanelState
<1>7. PICK g : g = [f EXCEPT ![p] = d]
  OBVIOUS
<1>8. g \in [Panels -> PanelState] /\ \A q \in Panels : g[q] = IF q = p THEN d ELSE f[q]
  BY <1>2, <1>4, <1>7
<1>9. PanelsSafe(g)
  BY <1>5, <1>8 DEF PanelsSafe
<1> QED BY <1>1, <1>4, <1>6, <1>7, <1>8, <1>9

(* An object that is made toggles first, and then does what is asked. *)
LEMMA PluginSafe ==
  ASSUME NEW f, PanelsSafe(f), NEW p \in Panels, NEW parent \in BOOLEAN,
         NEW option \in {"none", "show", "hide", "toggle"}
  PROVE  PanelsSafe(Plugin(f, p, option, parent))
<1>1. CASE f[p].data # "none"
  BY <1>1, CallSafe DEF Plugin
<1>2. CASE f[p].data = "none"
  <2>1. PICK g : g = NewObject(f, p, parent)
    OBVIOUS
  <2>2. PICK o \in {"none", "show", "hide", "toggle"} :
          o = IF option = "show" THEN "none" ELSE option
    OBVIOUS
  <2>3. PICK h : h = toggle(g, p)
    OBVIOUS
  <2>4. Plugin(f, p, option, parent) = call(h, p, o)
    BY <1>2, <2>1, <2>2, <2>3 DEF Plugin, NewObject
  <2>5. PanelsSafe(g)
    BY <1>2, <2>1, NewObjectIs
  <2>6. PanelsSafe(h)
    BY <2>3, <2>5, TogglePanelSafe
  <2> QED BY <2>4, <2>6, CallSafe
<1> QED BY <1>1, <1>2

(* Where no handler prevents anything and one panel at most is open, a toggle moves    *)
(* the panel that does not move, and hides the one that is open where it is shown.     *)
LEMMA ToggleIs ==
  ASSUME NEW f, PanelsSafe(f), \A q, r \in Panels : f[q].in /\ f[r].in => q = r,
         NEW p \in Panels, f[p].data # "transitioning", f[p].parent, veto = {}
  PROVE  LET g == toggle(f, p) IN
         /\ g[p] = transit(f[p], IF f[p].in THEN "hide" ELSE "show")
         /\ \A q \in Panels \ {p} :
              g[q] = IF ~(f[q].in /\ ~f[p].in) THEN f[q]
                     ELSE IF f[q].data = "none" THEN Dropped(hide(MadeObject(f[q])))
                     ELSE transit(f[q], "hide")
<1>1. PICK g : g = toggle(f, p)
  OBVIOUS
<1>2. f \in [Panels -> PanelState] /\ \A q \in Panels : PanelSafe(f[q])
  BY DEF PanelsSafe
<1>3. ASSUME NEW q \in Panels, f[q].in
      PROVE  hide(f[q]) = transit(f[q], "hide")
  <2>1. f[q].data # "transitioning" /\ ~isDefaultPrevented("hide")
    BY <1>2, <1>3, OpenAtRest DEF isDefaultPrevented
  <2> QED BY <1>3, <2>1 DEF hide
<1>4. CASE f[p].in
  <2>1. g = [f EXCEPT ![p] = hide(f[p])]
    BY <1>1, <1>2, <1>4 DEF toggle
  <2>2. g[p] = transit(f[p], "hide") /\ \A q \in Panels \ {p} : g[q] = f[q]
    BY <1>2, <1>3, <1>4, <2>1
  <2> QED BY <1>1, <1>4, <2>2
<1>5. CASE ~f[p].in
  <2> DEFINE A == actives(f)
  <2>1. A \subseteq Panels /\ \A q \in Panels : q \in A <=> f[q].in
    BY <1>2 DEF actives
  <2>2. PICK c : c = closed(f)
    OBVIOUS
  <2>3. /\ c \in [Panels -> PanelState]
        /\ \A q \in Panels :
             c[q] = IF ~f[q].in THEN f[q]
                    ELSE IF f[q].data = "none" THEN Dropped(hide(MadeObject(f[q])))
                    ELSE transit(f[q], "hide")
    BY <1>3, <2>2, ClosedIs DEF PanelsSafe
  <2>4. g = IF A = {} THEN [f EXCEPT ![p] = transit(@, "show")]
            ELSE IF f[first(A)].data = "transitioning" THEN f
            ELSE [c EXCEPT ![p] = transit(@, "show")]
    BY <1>1, <1>5, <2>2 DEF toggle, show, isDefaultPrevented
  <2> HIDE DEF A
  <2>5. CASE A = {}
    <3>1. g = [f EXCEPT ![p] = transit(f[p], "show")]
      BY <1>2, <2>4, <2>5
    <3>2. g[p] = transit(f[p], "show") /\ \A q \in Panels \ {p} : g[q] = f[q]
      BY <1>2, <3>1
    <3> QED BY <1>1, <1>5, <2>1, <2>5, <3>2
  <2>6. CASE A # {}
    <3>1. PICK n \in A : \A m \in A : n <= m
      BY <2>1, <2>6, PanelsAssumption, LeastOf
    <3>2. first(A) \in A
      BY <3>1 DEF first
    <3>3. f[first(A)].data # "transitioning"
      BY <1>2, <2>1, <3>2, OpenAtRest
    <3>4. c[p] = f[p]
      BY <1>5, <2>3
    <3>5. g = [c EXCEPT ![p] = transit(f[p], "show")]
      BY <2>3, <2>4, <2>6, <3>3, <3>4
    <3>6. g[p] = transit(f[p], "show") /\ \A q \in Panels \ {p} : g[q] = c[q]
      BY <2>3, <3>5
    <3> QED BY <1>1, <1>5, <2>3, <3>6
  <2> QED BY <2>5, <2>6
<1> QED BY <1>4, <1>5

(* A panel that is moved is in its place, and its move can be told; one that is shown  *)
(* may still be on the way to where an object that was taken away has sent it.         *)
LEMMA MovesCalmly ==
  ASSUME NEW s, PanelSafe(s), s.data # "transitioning", s.parent, NEW op \in {"show", "hide"},
         op = "hide" => s.ends = <<>>,
         \A i \in DOMAIN s.ends : s.ends[i].lost => s.ends[i].op = "hide"
  PROVE  LET d == transit(s, op) IN
         /\ PanelCalm(d) /\ (Opened(d) <=> op = "show")
         /\ (s.in <=> op = "hide") => d.ends # s.ends \/ d.in # s.in
<1>1. PICK d : d = transit(s, op)
  OBVIOUS
<1>2. PICK c : c = [op |-> op, lost |-> FALSE]
  OBVIOUS
<1>3. s \in PanelState
  BY DEF PanelSafe
<1>4. d \in PanelState /\ d.parent
  BY <1>1, <1>3, TransitIs
<1>5. CASE transition
  <2>1. ~d.in /\ d.collapsing /\ d.data = "transitioning" /\ d.ends = Append(s.ends, c)
    BY <1>1, <1>2, <1>3, <1>5, TransitIs
  <2>2. PICK n \in Nat : n = Len(s.ends)
    BY <1>3 DEF PanelState
  <2>3. s.ends \in Seq(Complete) /\ c \in Complete
    BY <1>2, <1>3 DEF PanelState, Complete
  <2>4. /\ Len(d.ends) = n + 1 /\ DOMAIN d.ends = 1..(n + 1) /\ DOMAIN s.ends = 1..n
        /\ d.ends[n + 1] = c /\ \A i \in 1..n : d.ends[i] = s.ends[i]
    BY <2>1, <2>2, <2>3
  <2>5. d.ends # s.ends /\ d.ends # <<>>
    BY <2>2, <2>4
  <2>6. \A i \in DOMAIN d.ends : d.ends[i].lost => d.ends[i].op = "hide"
    <3>1. ~c.lost /\ \A i \in 1..(n + 1) : i = n + 1 \/ i \in 1..n
      BY <1>2
    <3> QED BY <2>4, <3>1
  <2>7. PanelCalm(d)
    BY <1>4, <2>1, <2>6 DEF PanelCalm
  <2>8. Opened(d) <=> op = "show"
    <3>1. c.op = op /\ n + 1 \in DOMAIN d.ends
      BY <1>2, <2>4
    <3>2. ASSUME op = "hide"
          PROVE  ~Opened(d)
      <4>1. n = 0 /\ DOMAIN d.ends = {n + 1}
        BY <2>2, <2>4, <3>2
      <4> QED BY <2>1, <2>4, <3>1, <3>2, <4>1 DEF Opened
    <3> QED BY <2>4, <3>1, <3>2 DEF Opened
  <2> QED BY <1>1, <2>5, <2>7, <2>8
<1>6. CASE ~transition
  <2>1. (d.in <=> op = "show") /\ d.data = "idle" /\ d.ends = <<>>
    BY <1>1, <1>3, <1>6, TransitIs DEF PanelSafe
  <2>2. PanelCalm(d)
    BY <1>4, <2>1 DEF PanelCalm
  <2>3. Opened(d) <=> op = "show"
    BY <2>1 DEF Opened
  <2> QED BY <1>1, <2>1, <2>2, <2>3
<1> QED BY <1>5, <1>6

(* An open panel of the page's HTML is closed by an object that is gone at once. *)
LEMMA CloseCalm ==
  ASSUME NEW s, PanelSafe(s), s.in, veto = {}
  PROVE  LET d == Dropped(hide(MadeObject(s))) IN PanelCalm(d) /\ ~Opened(d)
<1>1. PICK m : m = MadeObject(s)
  OBVIOUS
<1>2. PanelSafe(m) /\ m.data = "idle" /\ m.in /\ m.ends = <<>> /\ m \in PanelState
  BY <1>1, MadeIs DEF PanelSafe
<1>3. PICK op \in {"show", "hide"} : op = "hide"
  OBVIOUS
<1>4. PICK h : h = transit(m, op)
  OBVIOUS
<1>5. hide(m) = h
  BY <1>2, <1>3, <1>4 DEF hide, isDefaultPrevented
<1>6. PanelSafe(h)
  BY <1>2, <1>4, TransitSafe
<1>7. PICK c : c = [op |-> op, lost |-> FALSE]
  OBVIOUS
<1>8. ~h.in /\ (h.ends = <<>> \/ (h.collapsing /\ h.ends = <<c>>))
  <2>1. Append(<<>>, c) = <<c>>
    OBVIOUS
  <2> QED BY <1>2, <1>3, <1>4, <1>7, <2>1, TransitIs
<1>9. PICK d : d = Dropped(h)
  OBVIOUS
<1>10. /\ d \in PanelState /\ d.data = "none" /\ ~d.in /\ d.collapsing = h.collapsing
       /\ Len(d.ends) = Len(h.ends) /\ DOMAIN d.ends = DOMAIN h.ends
       /\ \A i \in DOMAIN h.ends : d.ends[i].lost /\ d.ends[i].op = h.ends[i].op
  BY <1>6, <1>8, <1>9, DroppedIs
<1>11. \A i \in DOMAIN d.ends : d.ends[i].op = "hide"
  <2>1. DOMAIN <<>> = {} /\ DOMAIN <<c>> = {1} /\ <<c>>[1] = c
    OBVIOUS
  <2> QED BY <1>3, <1>7, <1>8, <1>10, <2>1
<1>12. d.ends # <<>> => d.collapsing
  <2>1. h.ends = <<>> => d.ends = <<>>
    <3>1. d.ends \in Seq(Complete) /\ Len(<<>>) = 0
      BY <1>10 DEF PanelState
    <3>2. Len(d.ends) = 0 => d.ends = <<>>
      BY <3>1
    <3> QED BY <1>10, <3>1, <3>2
  <2> QED BY <1>8, <1>10, <2>1
<1>13. PanelCalm(d)
  BY <1>10, <1>11, <1>12 DEF PanelCalm
<1>14. ~Opened(d)
  BY <1>10, <1>11 DEF Opened
<1> QED BY <1>1, <1>5, <1>9, <1>13, <1>14

(* A click on a link in such an accordion leaves it calm. *)
LEMMA ClickCalm ==
  ASSUME CollapseInv, AccordionCalm, veto = {}, NEW p \in Panels, ClickToggle(p), ~haste'
  PROVE  AccordionCalm'
<1>1. PanelsSafe(panel) /\ \A q \in Panels : PanelSafe(panel[q]) /\ PanelCalm(panel[q])
  BY DEF CollapseInv, PanelsSafe, AccordionCalm
<1>2. CASE panel[p].data = "transitioning"
  <2>1. ~panel[p].in
    BY <1>1, <1>2, OpenAtRest
  <2>2. show(panel, p) = panel
    BY <1>2 DEF show
  <2>3. panel' = toggle(panel, p)
    BY <1>2 DEF ClickToggle, Plugin, call
  <2>4. panel' = panel
    BY <2>1, <2>2, <2>3 DEF toggle
  <2>5. collapsed' = collapsed
    BY <1>2 DEF ClickToggle, relabelled
  <2> QED BY <2>4, <2>5 DEF AccordionCalm, PanelCalm, Opened
<1>3. CASE panel[p].data # "transitioning"
  <2>1. \A q, r \in Panels : panel[q].in /\ panel[r].in => q = r
    BY DEF AccordionCalm, Opened
  <2>2. PICK b \in BOOLEAN : b = TRUE
    OBVIOUS
  <2>3. PICK f : f = IF panel[p].data = "none" THEN NewObject(panel, p, b) ELSE panel
    OBVIOUS
  <2>4. /\ PanelsSafe(f) /\ \A q \in Panels \ {p} : f[q] = panel[q]
        /\ f[p].data # "none" /\ f[p].data # "transitioning" /\ f[p].parent
        /\ f[p].in = panel[p].in /\ f[p].ends = panel[p].ends
    <3>1. CASE panel[p].data = "none"
      <4>1. f = NewObject(panel, p, b)
        BY <2>3, <3>1
      <4>2. /\ PanelsSafe(f) /\ \A q \in Panels \ {p} : f[q] = panel[q]
            /\ f[p].data = "idle" /\ f[p].parent = b /\ f[p].in = panel[p].in
            /\ f[p].ends = panel[p].ends
        BY <1>1, <3>1, <4>1, NewObjectIs
      <4> QED BY <2>2, <4>2
    <3>2. CASE panel[p].data # "none"
      BY <1>1, <1>3, <2>3, <3>2 DEF PanelCalm
    <3> QED BY <3>1, <3>2
  <2>5. panel' = toggle(f, p)
    <3>1. CASE panel[p].data = "none"
      BY <2>2, <2>3, <3>1 DEF ClickToggle, Plugin, call, NewObject
    <3>2. CASE panel[p].data # "none"
      BY <2>3, <3>2 DEF ClickToggle, Plugin, call
    <3> QED BY <3>1, <3>2
  <2>6. PICK g : g = panel'
    OBVIOUS
  <2>7. PICK op \in {"show", "hide"} : op = IF panel[p].in THEN "hide" ELSE "show"
    OBVIOUS
  <2>8. \A q, r \in Panels : f[q].in /\ f[r].in => q = r
    <3>1. \A q \in Panels : f[q].in = panel[q].in
      BY <2>4
    <3> QED BY <2>1, <3>1
  <2>9. /\ g[p] = transit(f[p], op)
        /\ \A q \in Panels \ {p} :
             g[q] = IF ~(panel[q].in /\ ~panel[p].in) THEN panel[q]
                    ELSE IF panel[q].data = "none" THEN Dropped(hide(MadeObject(panel[q])))
                    ELSE transit(panel[q], "hide")
    BY <2>4, <2>5, <2>6, <2>7, <2>8, ToggleIs
  <2>10. /\ PanelSafe(f[p]) /\ f[p].in \in BOOLEAN
         /\ op = "hide" => f[p].ends = <<>>
         /\ \A i \in DOMAIN f[p].ends : f[p].ends[i].lost => f[p].ends[i].op = "hide"
    <3>1. PanelSafe(f[p]) /\ f[p].in \in BOOLEAN
      BY <2>4 DEF PanelsSafe, PanelSafe, PanelState
    <3>2. op = "hide" => f[p].ends = <<>>
      BY <2>4, <2>7, <3>1, OpenAtRest
    <3> QED BY <1>1, <2>4, <3>1, <3>2 DEF PanelCalm
  <2>11. /\ PanelCalm(g[p]) /\ (Opened(g[p]) <=> op = "show")
         /\ g[p].ends # panel[p].ends \/ g[p].in # panel[p].in
    BY <2>4, <2>7, <2>9, <2>10, MovesCalmly
  <2>12. \A q \in Panels \ {p} : panel[q].ends = <<>>
    <3>1. Opens(p)
      BY <2>6, <2>11 DEF Opens
    <3>2. ~OnTheWay(panel, p) /\ DOMAIN panel = Panels
      BY <1>1, <3>1 DEF ClickToggle, PanelsSafe
    <3> QED BY <1>1, <3>2 DEF OnTheWay, PanelCalm
  <2>13. ASSUME NEW q \in Panels \ {p}
         PROVE  PanelCalm(g[q]) /\ ~Opened(g[q])
    <3>1. CASE panel[q].in /\ ~panel[p].in /\ panel[q].data # "none"
      <4>1. PICK o \in {"show", "hide"} : o = "hide"
        OBVIOUS
      <4>2. g[q] = transit(panel[q], o)
        BY <2>9, <3>1, <4>1
      <4>3. panel[q].parent /\ panel[q].data # "transitioning"
        BY <1>1, <3>1, OpenAtRest DEF PanelCalm
      <4>4. \A i \in DOMAIN panel[q].ends : panel[q].ends[i].lost => panel[q].ends[i].op = "hide"
        BY <1>1 DEF PanelCalm
      <4> QED BY <1>1, <2>12, <4>1, <4>2, <4>3, <4>4, MovesCalmly
    <3>2. CASE panel[q].in /\ ~panel[p].in /\ panel[q].data = "none"
      BY <1>1, <2>9, <3>2, CloseCalm
    <3>3. CASE ~(panel[q].in /\ ~panel[p].in)
      <4>1. g[q] = panel[q]
        BY <2>9, <3>3
      <4>2. ~panel[q].in
        BY <2>1, <3>3
      <4>3. ~Opened(panel[q])
        <5>1. DOMAIN <<>> = {}
          OBVIOUS
        <5> QED BY <2>12, <4>2, <5>1 DEF Opened
      <4> QED BY <1>1, <4>1, <4>3
    <3> QED BY <3>1, <3>2, <3>3
  <2>14. collapsed' = IF op = "show" THEN Panels \ {p} ELSE Panels
    BY <1>3, <2>7 DEF ClickToggle, relabelled
  <2>15. \A q \in Panels : PanelCalm(g[q]) /\ (Opened(g[q]) <=> q = p /\ op = "show")
    BY <2>11, <2>13
  <2> QED BY <2>6, <2>14, <2>15 DEF AccordionCalm, PanelCalm, Opened
<1> QED BY <1>2, <1>3

(* What a panel goes through when all that waited for its transition runs. *)
PanelRun(p, n, f) ==
  /\ n \in Nat \ {0} /\ n = Len(panel[p].ends) /\ panel' = [panel EXCEPT ![p] = f[n]]
  /\ \A i \in 0..n : f[i] \in PanelState /\ f[i].ends = <<>> /\ f[i].parent = panel[p].parent
  /\ f[0].data = panel[p].data /\ f[0].in = panel[p].in
  /\ \A i \in 1..n :
       /\ f[i].data = (IF panel[p].ends[i].lost THEN f[i - 1].data ELSE "idle")
       /\ f[i].in <=> panel[p].ends[i].op = "show" \/ f[i - 1].in

(* The end of one move. *)
LEMMA CollapseCompleteIs ==
  ASSUME NEW s \in PanelState, NEW c \in Complete
  PROVE  LET d == collapseComplete(s, c) IN
         /\ d \in PanelState /\ d.parent = s.parent /\ d.ends = s.ends
         /\ d.data = (IF c.lost THEN s.data ELSE "idle")
         /\ d.in <=> c.op = "show" \/ s.in
<1>1. PICK d : d = collapseComplete(s, c)
  OBVIOUS
<1>2. PICK b \in BOOLEAN : b = (c.op = "show" \/ s.in)
  <2>1. (c.op = "show" \/ s.in) \in BOOLEAN
    OBVIOUS
  <2> QED BY <2>1, Zenon
<1>3. PICK a : a = IF c.lost THEN s.data ELSE "idle"
  OBVIOUS
<1>4. d = [[[s EXCEPT !.collapsing = FALSE] EXCEPT !.in = b] EXCEPT !.data = a]
  BY <1>1, <1>2, <1>3 DEF collapseComplete, PanelState
<1>5. a \in {"none", "idle", "transitioning"}
  BY <1>3 DEF PanelState
<1>6. /\ d \in PanelState /\ d.parent = s.parent /\ d.ends = s.ends /\ d.data = a
      /\ d.in = b
  BY <1>4, <1>5 DEF PanelState
<1> QED BY <1>1, <1>2, <1>3, <1>6

(* The loop over what waits goes through such a run. *)
LEMMA CollapseEndIs ==
  ASSUME PanelsSafe(panel), NEW p \in Panels, CollapseEnd(p)
  PROVE  \E n, f : PanelRun(p, n, f)
<1>n. PICK n : n = Len(panel[p].ends)
  OBVIOUS
<1> DEFINE start == [panel[p] EXCEPT !.ends = <<>>]
           after == CHOOSE f : f = [i \in 0..Len(panel[p].ends) |->
                      IF i = 0 THEN [panel[p] EXCEPT !.ends = <<>>]
                      ELSE collapseComplete(f[i - 1], panel[p].ends[i])]
<1>1. panel' = [panel EXCEPT ![p] = after[Len(panel[p].ends)]] /\ panel[p].ends # <<>>
  BY Zenon DEF CollapseEnd
<1>2. after = CHOOSE f : f = [i \in 0..Len(panel[p].ends) |->
                IF i = 0 THEN start ELSE collapseComplete(f[i - 1], panel[p].ends[i])]
  BY Zenon
<1> HIDE DEF after, start
<1>t. panel[p] \in PanelState
  BY DEF PanelsSafe
<1> DEFINE S == {s \in PanelState : s.ends = <<>> /\ s.parent = panel[p].parent}
<1>3. PICK q \in Seq(Complete) : q = panel[p].ends
  BY <1>t DEF PanelState
<1>4. n \in Nat \ {0} /\ \A i \in 1..n : q[i] \in Complete
  BY <1>n, <1>1, <1>3
<1>5. start \in S /\ start.data = panel[p].data /\ start.in = panel[p].in
  <2>1. PICK e \in Seq(Complete) : e = <<>>
    <3>1. <<>> \in Seq(Complete)
      OBVIOUS
    <3> QED BY <3>1
  <2>2. start = [panel[p] EXCEPT !.ends = e]
    BY <2>1 DEF start
  <2>3. /\ start \in PanelState /\ start.ends = e /\ start.data = panel[p].data
        /\ start.in = panel[p].in /\ start.parent = panel[p].parent
    BY <1>t, <2>2 DEF PanelState
  <2> QED BY <2>1, <2>3
<1>6. \A s \in S : s \in PanelState /\ s.ends = <<>> /\ s.parent = panel[p].parent
  OBVIOUS
<1>7. ASSUME NEW s \in S, NEW c \in Complete
      PROVE  collapseComplete(s, c) \in S
  <2>1. PICK d : d = collapseComplete(s, c)
    OBVIOUS
  <2>2. d \in PanelState /\ d.parent = s.parent /\ d.ends = s.ends
    BY <1>6, <2>1, CollapseCompleteIs
  <2> QED BY <1>6, <2>1, <2>2
<1> HIDE DEF S
<1> DEFINE g == [i \in 1..n |-> [s \in S |-> collapseComplete(s, q[i])]]
<1>8. IsLoop(n, S, g) /\ \A i \in 1..n, s \in S : g[i][s] = collapseComplete(s, q[i])
  BY <1>4, <1>7 DEF IsLoop
<1> HIDE DEF g
<1>9. after = [i \in 0..n |-> IF i = 0 THEN start ELSE collapseComplete(after[i - 1], q[i])]
  <2>1. PICK R, a, l : R = S /\ a = start /\ l = g
    OBVIOUS
  <2>2. n \in Nat /\ a \in R /\ IsLoop(n, R, l)
    BY <1>4, <1>5, <1>8, <2>1
  <2>3. PICK h : IsRun(n, R, a, l, h)
    BY ONLY <2>2, Iterated
  <2>4. h \in [0..n -> R] /\ h[0] = a /\ \A i \in 1..n : h[i] = l[i][h[i - 1]]
    BY <2>3 DEF IsRun
  <2>5. ASSUME NEW i \in 0..n
        PROVE  h[i] = IF i = 0 THEN start ELSE collapseComplete(h[i - 1], q[i])
    <3>1. CASE i = 0
      BY <2>1, <2>4, <3>1
    <3>2. CASE i # 0
      <4>1. i \in 1..n /\ h[i - 1] \in S
        BY <1>4, <2>1, <2>4, <3>2
      <4> QED BY <1>8, <2>1, <2>4, <3>2, <4>1
    <3> QED BY <3>1, <3>2
  <2>6. h = [i \in 0..n |-> IF i = 0 THEN start ELSE collapseComplete(h[i - 1], q[i])]
    BY <2>4, <2>5
  <2>7. \E f : f = [i \in 0..Len(panel[p].ends) |->
                 IF i = 0 THEN start ELSE collapseComplete(f[i - 1], panel[p].ends[i])]
    BY <1>n, <1>3, <2>6
  <2>8. after = [i \in 0..Len(panel[p].ends) |->
                   IF i = 0 THEN start ELSE collapseComplete(after[i - 1], panel[p].ends[i])]
    BY <1>2, <2>7, Zenon
  <2> QED BY <1>n, <1>3, <2>8
<1>10. /\ after = [i \in 0..n |-> after[i]] /\ after[0] = start
       /\ \A i \in 1..n : after[i] = collapseComplete(after[i - 1], q[i])
  <2>1. \A i \in 0..n : after[i] = IF i = 0 THEN start ELSE collapseComplete(after[i - 1], q[i])
    BY <1>9, Zenon
  <2>2. DOMAIN after = 0..n /\ after = [i \in DOMAIN after |-> after[i]]
    BY <1>9, Zenon
  <2> QED BY <1>4, <2>1, <2>2
<1>11. after \in [0..n -> S]
  <2>1. PICK R, a, l, f : R = S /\ a = start /\ l = g /\ f = after
    OBVIOUS
  <2>2. n \in Nat /\ a \in R /\ IsLoop(n, R, l)
    BY <1>4, <1>5, <1>8, <2>1
  <2>3. f = [i \in 0..n |-> f[i]] /\ f[0] = a
    BY <1>10, <2>1
  <2>4. \A i \in 1..n : f[i - 1] \in R => f[i] = l[i][f[i - 1]]
    BY <1>8, <1>10, <2>1
  <2>5. IsRun(n, R, a, l, f)
    BY ONLY <2>2, <2>3, <2>4, RunIs
  <2> QED BY <2>1, <2>5 DEF IsRun
<1>12. PICK f : f = after
  OBVIOUS
<1>13. ASSUME NEW i \in 0..n
       PROVE  f[i] \in PanelState /\ f[i].ends = <<>> /\ f[i].parent = panel[p].parent
  BY <1>6, <1>11, <1>12
<1>14. ASSUME NEW i \in 1..n
       PROVE  /\ f[i].data = (IF q[i].lost THEN f[i - 1].data ELSE "idle")
              /\ f[i].in <=> q[i].op = "show" \/ f[i - 1].in
  <2>1. PICK s : s = f[i - 1]
    OBVIOUS
  <2>2. PICK c \in Complete : c = q[i]
    BY <1>4
  <2>3. i - 1 \in 0..n
    BY <1>4
  <2>4. s \in PanelState
    BY <1>13, <2>1, <2>3
  <2>5. f[i] = collapseComplete(s, c)
    BY <1>10, <1>12, <2>1, <2>2
  <2> QED BY <2>1, <2>2, <2>4, <2>5, CollapseCompleteIs
<1>15. panel' = [panel EXCEPT ![p] = f[n]] /\ f[0] = start
  BY <1>1, <1>n, <1>10, <1>12
<1>16. PanelRun(p, n, f)
  BY <1>n, <1>3, <1>4, <1>5, <1>13, <1>14, <1>15 DEF PanelRun
<1> QED BY <1>16

(* At the end of its moves a panel refuses nothing any more, and is where the last one  *)
(* has taken it.                                                                       *)
LEMMA CollapseEndKeeps ==
  ASSUME CollapseInv, NEW p \in Panels, CollapseEnd(p), transition' = transition, veto' = veto
  PROVE  CollapseInv'
<1>1. PanelsSafe(panel) /\ PanelSafe(panel[p]) /\ panel \in [Panels -> PanelState]
  BY DEF CollapseInv, PanelsSafe
<1>2. PICK n, f : PanelRun(p, n, f)
  BY <1>1, CollapseEndIs
<1>3. PICK d : d = f[n]
  OBVIOUS
<1>4. /\ n \in Nat \ {0} /\ n = Len(panel[p].ends) /\ panel' = [panel EXCEPT ![p] = d]
      /\ d \in PanelState /\ d.ends = <<>> /\ d.parent = panel[p].parent
      /\ d.data = (IF panel[p].ends[n].lost THEN f[n - 1].data ELSE "idle")
      /\ d.in <=> panel[p].ends[n].op = "show" \/ f[n - 1].in
  <2>1. n \in Nat \ {0}
    BY <1>2 DEF PanelRun
  <2>2. n \in 0..n /\ n \in 1..n
    BY <2>1
  <2> QED BY <1>2, <1>3, <2>2 DEF PanelRun
<1>5. n = 1 => f[n - 1].data = panel[p].data /\ f[n - 1].in = panel[p].in
  BY <1>2 DEF PanelRun
<1>6. d.data # "transitioning"
  <2>1. CASE panel[p].data = "transitioning"
    BY <1>1, <1>4, <2>1 DEF PanelSafe
  <2>2. CASE panel[p].data # "transitioning"
    <3>1. n <= 1
      BY <1>1, <1>4, <2>2 DEF PanelSafe
    <3>2. n = 1
      <4>1. n \in Nat /\ n # 0
        BY <1>4
      <4> QED BY ONLY <3>1, <4>1
    <3> QED BY <1>4, <1>5, <2>2, <3>2
  <2> QED BY <2>1, <2>2
<1>7. PanelSafe(d)
  <2>1. Len(<<>>) = 0 /\ DOMAIN <<>> = {}
    OBVIOUS
  <2>2. Len(d.ends) <= 1 /\ \A i \in DOMAIN d.ends : d.ends[i].lost
    BY <1>4, <2>1
  <2> QED BY <1>4, <1>6, <2>2 DEF PanelSafe
<1>8. /\ panel' \in [Panels -> PanelState]
      /\ \A q \in Panels : panel'[q] = IF q = p THEN d ELSE panel[q]
  BY <1>1, <1>4
<1>9. PanelsSafe(panel') /\ (PanelsSafe(panel))'
  <2>1. \A q \in Panels : PanelSafe(panel'[q])
    BY <1>1, <1>7, <1>8 DEF PanelsSafe
  <2> QED BY <1>8, <2>1 DEF PanelsSafe, PanelSafe
<1>10. CollapseTypeOK' /\ UNCHANGED <<collapsed, haste, scripted>>
  BY <1>8 DEF CollapseEnd, CollapseInv, CollapseTypeOK
<1>11. ASSUME AccordionCalm
       PROVE  AccordionCalm'
  <2>1. PanelCalm(panel[p])
    BY <1>11 DEF AccordionCalm
  <2>2. panel[p].ends # <<>>
    BY DEF CollapseEnd
  <2>3. ~panel[p].in
    BY <1>1, <2>2, OpenAtRest
  <2>4. n \in 1..2 /\ DOMAIN panel[p].ends = 1..n
    <3>1. PICK e \in Seq(Complete) : e = panel[p].ends
      BY <1>1 DEF PanelSafe, PanelState
    <3>2. DOMAIN e = 1..n
      BY <1>4, <3>1
    <3>3. n \in 1..2
      <4>1. n \in 1..2 \/ n <= 1
        BY <1>1, <1>4 DEF PanelSafe
      <4>2. n \in Nat /\ n # 0
        BY <1>4
      <4> QED BY ONLY <4>1, <4>2
    <3> QED BY <3>1, <3>2, <3>3
  <2>5. d.in <=> Opened(panel[p])
    <3>1. /\ f[0].in = panel[p].in
          /\ \A i \in 1..n : f[i].in <=> panel[p].ends[i].op = "show" \/ f[i - 1].in
      BY <1>2 DEF PanelRun
    <3>2. CASE n = 1
      <4>1. d.in <=> panel[p].ends[1].op = "show"
        BY <1>4, <1>5, <2>3, <3>2
      <4>2. 1..n = {1}
        BY <3>2
      <4> QED BY <2>3, <2>4, <4>1, <4>2 DEF Opened
    <3>3. CASE n = 2
      <4>1. f[1].in <=> panel[p].ends[1].op = "show"
        BY <2>3, <3>1, <3>3
      <4>2. d.in <=> panel[p].ends[2].op = "show" \/ f[1].in
        BY <1>4, <3>3
      <4>3. 1..n = {1, 2}
        BY <3>3
      <4> QED BY <2>3, <2>4, <4>1, <4>2, <4>3 DEF Opened
    <3> QED BY <2>4, <3>2, <3>3
  <2>6. d.data # "none" => d.parent
    <3>1. CASE panel[p].data = "transitioning"
      BY <1>4, <2>1, <3>1 DEF PanelCalm
    <3>2. CASE panel[p].data # "transitioning"
      <4>1. panel[p].data = "none"
        BY <1>1, <2>1, <2>2, <3>2 DEF PanelCalm, PanelSafe, PanelState
      <4>2. n = 1 /\ panel[p].ends[n].lost
        <5>1. n <= 1 /\ \A i \in DOMAIN panel[p].ends : panel[p].ends[i].lost
          BY <1>1, <1>4, <3>2 DEF PanelSafe
        <5>2. n \in Nat /\ n # 0
          BY <1>4
        <5>3. n = 1
          BY ONLY <5>1, <5>2
        <5> QED BY <2>4, <5>1, <5>3
      <4> QED BY <1>4, <1>5, <4>1, <4>2
    <3> QED BY <3>1, <3>2
  <2>7. DOMAIN <<>> = {}
    OBVIOUS
  <2>8. Opened(d) <=> d.in
    BY <1>4, <2>7 DEF Opened
  <2>10. PanelCalm(d)
    BY <1>4, <2>6, <2>7 DEF PanelCalm
  <2>11. \A q \in Panels : PanelCalm(panel'[q]) /\ (Opened(panel'[q]) <=> Opened(panel[q]))
    BY <1>8, <2>5, <2>8, <2>10, <1>11 DEF AccordionCalm
  <2> QED BY <1>10, <1>11, <2>11 DEF AccordionCalm, PanelCalm, Opened
<1> QED BY <1>9, <1>10, <1>11 DEF CollapseInv

(* The panels as the page loads them. *)
LEMMA CollapseBegins ==
  ASSUME NEW all \in BOOLEAN, CollapseInit(all)
  PROVE  CollapseInv
<1>1. PICK e \in Seq(Complete) : e = <<>>
  <2>1. <<>> \in Seq(Complete)
    OBVIOUS
  <2> QED BY <2>1
<1>2. PICK S \in some(SUBSET Panels, all) :
        /\ panel = [p \in Panels |-> [in |-> p \in S, collapsing |-> FALSE, data |-> "none",
                                      parent |-> FALSE, ends |-> e]]
        /\ collapsed = Panels \ S /\ haste = FALSE /\ scripted = (Cardinality(S) > 1)
  BY <1>1, Zenon DEF CollapseInit
<1>3. S \subseteq Panels
  <2>1. {} \in SUBSET Panels
    OBVIOUS
  <2> QED BY <1>2, <2>1, SomeIsIn
<1>4. ASSUME NEW q \in Panels
      PROVE  /\ panel[q] \in PanelState /\ panel[q].data = "none" /\ panel[q].ends = <<>>
             /\ panel[q].in <=> q \in S
  <2>1. PICK b \in BOOLEAN : b = (q \in S)
    <3>1. (q \in S) \in BOOLEAN
      OBVIOUS
    <3> QED BY <3>1, Zenon
  <2>2. panel[q] = [in |-> b, collapsing |-> FALSE, data |-> "none", parent |-> FALSE,
                    ends |-> e]
    BY <1>2, <2>1
  <2>3. PICK s : s = [in |-> b, collapsing |-> FALSE, data |-> "none", parent |-> FALSE,
                      ends |-> e]
    OBVIOUS
  <2>4. s \in PanelState /\ s.data = "none" /\ s.ends = e /\ s.in = b
    BY <2>3 DEF PanelState
  <2> QED BY <1>1, <2>1, <2>2, <2>3, <2>4
<1>5. Len(<<>>) = 0 /\ DOMAIN <<>> = {}
  OBVIOUS
<1>6. ASSUME NEW q \in Panels
      PROVE  PanelSafe(panel[q]) /\ PanelCalm(panel[q]) /\ (Opened(panel[q]) <=> q \in S)
  <2>1. Len(panel[q].ends) <= 1 /\ \A i \in DOMAIN panel[q].ends : panel[q].ends[i].lost
    BY <1>4, <1>5
  <2>2. PanelSafe(panel[q])
    BY <1>4, <2>1 DEF PanelSafe
  <2> QED BY <1>4, <1>5, <2>2 DEF PanelCalm, Opened
<1>7. PanelsSafe(panel) /\ CollapseTypeOK
  <2>1. panel \in [Panels -> PanelState]
    <3>1. panel = [q \in Panels |-> panel[q]]
      BY <1>2
    <3> QED BY <1>4, <3>1
  <2>2. scripted \in BOOLEAN
    <3>1. (Cardinality(S) > 1) \in BOOLEAN
      OBVIOUS
    <3> QED BY <1>2, <3>1, Zenon
  <2> QED BY <1>2, <1>6, <2>1, <2>2 DEF PanelsSafe, CollapseTypeOK
<1>8. ASSUME ~scripted
      PROVE  AccordionCalm
  <2>1. IsFiniteSet(S) /\ Cardinality(S) \in Nat
    BY <1>3, PanelsAssumption, FS_Subset, FS_CardinalityType
  <2>2. ASSUME NEW q \in S, NEW r \in S, q # r
        PROVE  FALSE
    <3>1. IsFiniteSet(S \ {q}) /\ Cardinality(S \ {q}) = Cardinality(S) - 1
      BY <2>1, FS_RemoveElement
    <3>2. Cardinality(S \ {q}) # 0
      BY <2>2, <3>1, FS_EmptySet
    <3>3. Cardinality(S \ {q}) \in Nat
      BY <3>1, FS_CardinalityType
    <3>4. Cardinality(S) > 1
      BY <2>1, <3>1, <3>2, <3>3
    <3> QED BY <1>2, <1>8, <3>4
  <2> QED BY <1>2, <1>6, <2>2 DEF AccordionCalm
<1> QED BY <1>7, <1>8 DEF CollapseInv

(* Every click, call and end of a transition keeps the panels sound. *)
LEMMA CollapseKeeps ==
  ASSUME CollapseInv, CollapseNext, transition' = transition, veto' = veto
  PROVE  CollapseInv'
<1>1. PanelsSafe(panel) /\ CollapseTypeOK
  BY DEF CollapseInv
<1>2. ASSUME NEW p \in Panels, NEW option \in {"none", "show", "hide", "toggle"},
             NEW parent \in BOOLEAN, panel' = Plugin(panel, p, option, parent),
             collapsed' \subseteq Panels, scripted' \in BOOLEAN,
             haste' = (haste \/ (OnTheWay(panel, p) /\ Opens(p)))
      PROVE  (PanelsSafe(panel))' /\ CollapseTypeOK'
  <2>1. PICK g : g = panel'
    OBVIOUS
  <2>2. PanelsSafe(g)
    BY <1>1, <1>2, <2>1, PluginSafe
  <2>3. (PanelsSafe(panel))' /\ panel' \in [Panels -> PanelState]
    BY <2>1, <2>2 DEF PanelsSafe, PanelSafe
  <2>4. haste' \in BOOLEAN
    BY <1>1, <1>2 DEF CollapseTypeOK
  <2> QED BY <1>2, <2>3, <2>4 DEF CollapseTypeOK
<1>3. ASSUME NEW p \in Panels, ClickToggle(p)
      PROVE  CollapseInv'
  <2>1. PICK option \in {"none", "show", "hide", "toggle"} :
          option = IF panel[p].data = "none" THEN "none" ELSE "toggle"
    OBVIOUS
  <2>2. PICK b \in BOOLEAN : b = TRUE
    OBVIOUS
  <2>3. panel' = Plugin(panel, p, option, b)
    BY <1>3, <2>1, <2>2 DEF ClickToggle
  <2>4. collapsed' \subseteq Panels /\ scripted' = scripted /\ scripted \in BOOLEAN
    BY <1>1, <1>3 DEF ClickToggle, relabelled, CollapseTypeOK
  <2>5. (PanelsSafe(panel))' /\ CollapseTypeOK'
    BY <1>2, <1>3, <2>3, <2>4 DEF ClickToggle
  <2>6. ~haste' /\ ~scripted' /\ veto' = {} => AccordionCalm'
    <3> SUFFICES ASSUME ~haste', ~scripted', veto' = {}
                 PROVE  AccordionCalm'
      OBVIOUS
    <3>1. ~haste
      BY <1>3 DEF ClickToggle
    <3>2. AccordionCalm
      BY <2>4, <3>1 DEF CollapseInv
    <3> QED BY <1>3, <3>2, ClickCalm
  <2> QED BY <2>5, <2>6 DEF CollapseInv
<1>4. ASSUME NEW p \in Panels, NEW option \in {"show", "hide", "toggle"},
             CallCollapse(p, option)
      PROVE  CollapseInv'
  <2>1. PICK o \in {"none", "show", "hide", "toggle"} : o = option
    OBVIOUS
  <2>2. PICK b \in BOOLEAN : b = FALSE
    OBVIOUS
  <2>3. panel' = Plugin(panel, p, o, b)
    BY <1>4, <2>1, <2>2 DEF CallCollapse
  <2>4. collapsed' \subseteq Panels /\ scripted' = TRUE
    BY <1>1, <1>4 DEF CallCollapse, CollapseTypeOK
  <2>5. (PanelsSafe(panel))' /\ CollapseTypeOK'
    BY <1>2, <1>4, <2>3, <2>4 DEF CallCollapse
  <2> QED BY <2>4, <2>5 DEF CollapseInv
<1> QED BY <1>3, <1>4, CollapseEndKeeps DEF CollapseNext

(* The accordion's invariant speaks of its own variables and of the page's. *)
LEMMA CollapseStays ==
  ASSUME CollapseInv, UNCHANGED <<collapseVars, transition, veto>>
  PROVE  CollapseInv'
BY DEF CollapseInv, CollapseTypeOK, PanelsSafe, PanelSafe, AccordionCalm, PanelCalm, Opened,
       collapseVars

-----------------------------------------------------------------------------
(* The dialogs. *)

(* Nothing waits for the backdrops of a modal but w for the one that is held. *)
Awaits(s, w) ==
  \A i \in Curtain : s.waits[i] = (IF i = s.held THEN w ELSE <<>>)

(* The backdrops of a modal that has been shown. *)
Curtained(s) ==
  IF s.useBackdrop THEN s.held \in Curtain /\ s.curtains = {s.held}
  ELSE s.held = 0 /\ s.curtains = {}

(* What a modal goes through when nobody is hasty: all gone. *)
ModalGone(s) ==
  /\ ~s.isShown /\ ~s.visible /\ ~s.in /\ s.hides = 0
  /\ s.held = 0 /\ s.curtains = {} /\ Awaits(s, <<>>)

(* Its backdrop fades in and the dialog waits for that. *)
ModalComing(s) ==
  /\ s.isShown /\ ~s.visible /\ ~s.in /\ s.hides = 0
  /\ s.useBackdrop /\ Curtained(s) /\ Awaits(s, <<"show">>)

(* All there. *)
ModalThere(s) ==
  /\ s.isShown /\ s.visible /\ s.in /\ s.hides = 0 /\ Curtained(s) /\ Awaits(s, <<>>)

(* The dialog fades out. *)
ModalLeaving(s) ==
  /\ ~s.isShown /\ s.visible /\ ~s.in /\ s.hides = 1 /\ Curtained(s) /\ Awaits(s, <<>>)

(* The dialog is out of sight and its backdrop fades out. *)
ModalLifting(s) ==
  /\ ~s.isShown /\ ~s.visible /\ ~s.in /\ s.hides = 0
  /\ s.useBackdrop /\ Curtained(s) /\ Awaits(s, <<"remove">>)

(* AllThereOrAllGone speaks of rest only; it is kept because each wait finds the modal *)
(* in one of these states.                                                             *)
ModalOrderly(s) ==
  ModalGone(s) \/ ModalComing(s) \/ ModalThere(s) \/ ModalLeaving(s) \/ ModalLifting(s)

(* The focus is trapped by none that is not shown. *)
TrapHeld(f, b) == b.trap # "none" => f[b.trap].isShown

(* What the page owes to the one modal that is shown, or to none. *)
Given(f, b) ==
  /\ \A m, o \in Modals : f[m].isShown /\ f[o].isShown => m = o
  /\ b.open <=> \E m \in Modals : f[m].isShown
  /\ b.padding = (IF b.open THEN 1 ELSE 0)

(* Orderly but for haste, and the page given back but where they are stacked. *)
ModalInv ==
  /\ ModalTypeOK
  /\ ~hasty => (\A m \in Modals : ModalOrderly(modal[m])) /\ TrapHeld(modal, body)
  /\ ~stacked => Given(modal, body)

(* The invariant says all that the properties do. *)
LEMMA ModalInvSound == ModalInv => ModalTypeOK /\ AllThereOrAllGone /\ PageGivenBack
<1> SUFFICES ASSUME ModalInv PROVE ModalTypeOK /\ AllThereOrAllGone /\ PageGivenBack
  OBVIOUS
<1>1. PageGivenBack
  BY DEF ModalInv, Given, TrapHeld, PageGivenBack
<1>2. AllThereOrAllGone
  <2>1. SUFFICES ASSUME ~hasty, NEW m \in Modals, ModalAtRest(m)
                 PROVE  /\ modal[m].visible = modal[m].isShown /\ modal[m].in = modal[m].isShown
                        /\ modal[m].curtains = (IF modal[m].isShown /\ modal[m].useBackdrop
                                                THEN {modal[m].held} ELSE {})
    BY DEF AllThereOrAllGone
  <2>2. PICK s : s = modal[m]
    OBVIOUS
  <2>3. /\ s.hides = 0 /\ \A i \in Curtain : s.waits[i] = <<>>
        /\ s.isShown \in BOOLEAN /\ s.visible \in BOOLEAN /\ s.in \in BOOLEAN
    BY <2>1, <2>2 DEF ModalAtRest, ModalInv, ModalTypeOK, ModalState
  <2>4. ~ModalComing(s) /\ ~ModalLifting(s)
    <3>1. <<>> # <<"show">> /\ <<>> # <<"remove">>
      OBVIOUS
    <3> QED BY <2>3, <3>1 DEF ModalComing, ModalLifting, Curtained, Awaits
  <2>5. ModalGone(s) \/ ModalThere(s)
    BY <2>1, <2>2, <2>3, <2>4 DEF ModalInv, ModalOrderly, ModalLeaving
  <2> QED BY <2>2, <2>3, <2>5 DEF ModalGone, ModalThere, Curtained
<1> QED BY <1>1, <1>2 DEF ModalInv

(* Pages, and what the steps of a modal leave as it is in the others. *)
PageType == [of : [Modals -> ModalState], body : BodyState]
(* A page that differs in one modal and the body at most. *)
Moves(g, m, h) == h \in PageType /\ \A o \in Modals \ {m} : h.of[o] = g.of[o]

(* The page with one modal and the body replaced. *)
LEMMA PutIs ==
  ASSUME NEW g \in PageType, NEW m \in Modals, NEW s \in ModalState, NEW b \in BodyState
  PROVE  LET h == [of |-> [g.of EXCEPT ![m] = s], body |-> b] IN
         Moves(g, m, h) /\ h.of[m] = s /\ h.body = b
BY DEF PageType, Moves

(* What no end of a transition changes in the page. *)
Unmoved(g, m, h) ==
  /\ Moves(g, m, h) /\ h.of[m].isShown = g.of[m].isShown
  /\ h.of[m].useBackdrop = g.of[m].useBackdrop /\ h.of[m].hides = g.of[m].hides
  /\ h.body.open = g.body.open /\ h.body.padding = g.body.padding

(* The dialog appears. *)
LEMMA AppearIs ==
  ASSUME NEW g \in PageType, NEW m \in Modals
  PROVE  LET h == appear(g, m) IN
         /\ Unmoved(g, m, h) /\ h.body.trap = m
         /\ h.of[m].visible /\ h.of[m].in /\ h.of[m].held = g.of[m].held
         /\ h.of[m].curtains = g.of[m].curtains /\ h.of[m].waits = g.of[m].waits
<1>1. PICK h : h = appear(g, m)
  OBVIOUS
<1>2. PICK s \in ModalState, b \in BodyState : s = g.of[m] /\ b = g.body
  BY DEF PageType
<1>3. PICK d : d = [[s EXCEPT !.visible = TRUE] EXCEPT !.in = TRUE]
  OBVIOUS
<1>4. PICK c : c = [b EXCEPT !.trap = m]
  OBVIOUS
<1>5. /\ d \in ModalState /\ d.isShown = s.isShown /\ d.useBackdrop = s.useBackdrop
      /\ d.hides = s.hides /\ d.visible = TRUE /\ d.in = TRUE /\ d.held = s.held
      /\ d.curtains = s.curtains /\ d.waits = s.waits
  BY <1>3 DEF ModalState
<1>6. c \in BodyState /\ c.trap = m /\ c.open = b.open /\ c.padding = b.padding
  BY <1>4 DEF BodyState
<1>7. h = [of |-> [g.of EXCEPT ![m] = d], body |-> c]
  BY <1>1, <1>2, <1>3, <1>4 DEF appear, PageType, ModalState, BodyState
<1>8. Moves(g, m, h) /\ h.of[m] = d /\ h.body = c
  BY <1>5, <1>6, <1>7, PutIs
<1> QED BY <1>1, <1>2, <1>5, <1>6, <1>8 DEF Unmoved

(* removeBackdrop takes away the backdrop that is held, and what waits for it. *)
LEMMA RemoveIs ==
  ASSUME NEW s \in ModalState
  PROVE  LET d == removeBackdrop(s) IN
         /\ d \in ModalState /\ d.isShown = s.isShown /\ d.useBackdrop = s.useBackdrop
         /\ d.hides = s.hides /\ d.visible = s.visible /\ d.in = s.in
         /\ d.held = 0 /\ d.curtains = s.curtains \ {s.held}
         /\ \A i \in Curtain : d.waits[i] = IF i = s.held THEN <<>> ELSE s.waits[i]
<1>1. PICK d : d = removeBackdrop(s)
  OBVIOUS
<1>2. PICK C : C = s.curtains \ {s.held}
  OBVIOUS
<1>3. PICK w : w = [i \in Curtain |-> IF i = s.held THEN <<>> ELSE s.waits[i]]
  OBVIOUS
<1>4. <<>> \in Waits
  BY DEF Waits
<1>5. w \in [Curtain -> Waits] /\ C \subseteq Curtain
  BY <1>2, <1>3, <1>4 DEF ModalState
<1>6. d = [[[s EXCEPT !.curtains = C] EXCEPT !.waits = w] EXCEPT !.held = 0]
  BY <1>1, <1>2, <1>3 DEF removeBackdrop, ModalState
<1>7. 0 \in 0..CurtainBound
  BY ModalAssumption
<1>8. /\ d \in ModalState /\ d.isShown = s.isShown /\ d.useBackdrop = s.useBackdrop
      /\ d.hides = s.hides /\ d.visible = s.visible /\ d.in = s.in
      /\ d.held = 0 /\ d.curtains = C /\ d.waits = w
  BY <1>5, <1>6, <1>7 DEF ModalState
<1> QED BY <1>1, <1>2, <1>3, <1>8

(* What waits runs. *)
LEMMA WaitRuns ==
  ASSUME NEW g \in PageType, NEW m \in Modals, NEW wait \in {"show", "hidden", "remove"}
  PROVE  LET h == run(g, m, wait) IN
         /\ Unmoved(g, m, h)
         /\ wait = "show" => h = appear(g, m)
         /\ wait = "hidden" => h = g
         /\ wait = "remove" => h.of[m] = removeBackdrop(g.of[m]) /\ h.body = g.body
<1>1. PICK h : h = run(g, m, wait)
  OBVIOUS
<1>2. CASE wait = "show"
  <2>1. h = appear(g, m)
    BY <1>1, <1>2 DEF run
  <2> QED BY <1>1, <1>2, <2>1, AppearIs
<1>3. CASE wait = "hidden"
  <2>1. h = g
    BY <1>1, <1>3 DEF run
  <2> QED BY <1>1, <1>3, <2>1 DEF Unmoved, Moves
<1>4. CASE wait = "remove"
  <2>1. PICK s \in ModalState, b \in BodyState : s = g.of[m] /\ b = g.body
    BY DEF PageType
  <2>2. PICK d : d = removeBackdrop(s)
    OBVIOUS
  <2>3. /\ d \in ModalState /\ d.isShown = s.isShown /\ d.useBackdrop = s.useBackdrop
        /\ d.hides = s.hides
    BY <2>2, RemoveIs
  <2>4. h = [of |-> [g.of EXCEPT ![m] = d], body |-> b]
    BY <1>1, <1>4, <2>1, <2>2 DEF run, PageType
  <2>5. Moves(g, m, h) /\ h.of[m] = d /\ h.body = b
    BY <2>3, <2>4, PutIs
  <2> QED BY <1>1, <1>4, <2>1, <2>2, <2>3, <2>5 DEF Unmoved
<1> QED BY <1>2, <1>3, <1>4

(* A backdrop that comes takes a free place. *)
LEMMA RaiseIs ==
  ASSUME NEW s \in ModalState, Free(s) # {}, NEW wait \in {"show", "hidden"}
  PROVE  LET d == raise(s, wait) IN
         /\ d \in ModalState /\ d.isShown = s.isShown /\ d.useBackdrop = s.useBackdrop
         /\ d.hides = s.hides /\ d.visible = s.visible /\ d.in = s.in
         /\ d.held \in Free(s) /\ d.curtains = s.curtains \cup {d.held}
         /\ \A i \in Curtain : d.waits[i] = IF i # d.held THEN s.waits[i]
                                            ELSE IF transition THEN <<wait>> ELSE <<>>
<1>1. PICK d : d = raise(s, wait)
  OBVIOUS
<1>2. PICK i : i = CHOOSE j \in Free(s) : \A k \in Free(s) : j <= k
  OBVIOUS
<1>3. i \in Free(s) /\ i \in Curtain
  <2>1. Free(s) \subseteq Curtain /\ Curtain \subseteq Nat
    BY ModalAssumption DEF Free, Curtain
  <2>2. PICK n \in Free(s) : \A k \in Free(s) : n <= k
    BY <2>1, LeastOf
  <2> QED BY <1>2, <2>1, <2>2
<1>4. PICK e \in Waits : e = IF transition THEN <<wait>> ELSE <<>>
  <2>1. <<>> \in Waits /\ <<wait>> \in Waits
    BY DEF Waits
  <2> QED BY <2>1
<1>5. PICK w : w = [s.waits EXCEPT ![i] = e]
  OBVIOUS
<1>6. PICK C : C = s.curtains \cup {i}
  OBVIOUS
<1>7. /\ w \in [Curtain -> Waits] /\ C \subseteq Curtain
      /\ \A k \in Curtain : w[k] = IF k = i THEN e ELSE s.waits[k]
  BY <1>3, <1>4, <1>5, <1>6 DEF ModalState
<1>8. d = [[[s EXCEPT !.curtains = C] EXCEPT !.held = i] EXCEPT !.waits = w]
  BY <1>1, <1>2, <1>3, <1>4, <1>5, <1>6 DEF raise, ModalState
<1>9. i \in 0..CurtainBound
  BY <1>3, ModalAssumption DEF Curtain
<1>10. /\ d \in ModalState /\ d.isShown = s.isShown /\ d.useBackdrop = s.useBackdrop
       /\ d.hides = s.hides /\ d.visible = s.visible /\ d.in = s.in
       /\ d.held = i /\ d.curtains = C /\ d.waits = w
  BY <1>7, <1>8, <1>9 DEF ModalState
<1> QED BY <1>1, <1>3, <1>4, <1>6, <1>7, <1>10

(* The removal of a backdrop waits behind what waits for it already. *)
LEMMA LiftIs ==
  ASSUME NEW s \in ModalState, s.held # 0
  PROVE  LET d == [s EXCEPT !.waits[s.held] = Append(@, "remove")] IN
         /\ d \in ModalState /\ d.isShown = s.isShown /\ d.useBackdrop = s.useBackdrop
         /\ d.hides = s.hides /\ d.visible = s.visible /\ d.in = s.in
         /\ d.held = s.held /\ d.curtains = s.curtains
         /\ s.held \in Curtain
         /\ \A i \in Curtain : d.waits[i] = IF i # s.held THEN s.waits[i]
                                            ELSE Append(s.waits[i], "remove")
<1>1. PICK d : d = [s EXCEPT !.waits[s.held] = Append(@, "remove")]
  OBVIOUS
<1>2. PICK i : i = s.held
  OBVIOUS
<1>3. i \in Curtain
  BY <1>2, ModalAssumption DEF ModalState, Curtain
<1>4. PICK q : q = s.waits[i]
  OBVIOUS
<1>5. q \in Seq({"show", "hidden", "remove"})
  BY <1>3, <1>4 DEF ModalState, Waits
<1>6. PICK e : e = Append(q, "remove")
  OBVIOUS
<1>7. e \in Waits
  BY <1>5, <1>6 DEF Waits
<1>8. PICK w : w = [s.waits EXCEPT ![i] = e]
  OBVIOUS
<1>9. /\ w \in [Curtain -> Waits]
      /\ \A k \in Curtain : w[k] = IF k # i THEN s.waits[k] ELSE e
  BY <1>3, <1>7, <1>8 DEF ModalState
<1>10. d = [s EXCEPT !.waits = w]
  BY <1>1, <1>2, <1>4, <1>6, <1>8 DEF ModalState
<1>11. /\ d \in ModalState /\ d.isShown = s.isShown /\ d.useBackdrop = s.useBackdrop
       /\ d.hides = s.hides /\ d.visible = s.visible /\ d.in = s.in
       /\ d.held = s.held /\ d.curtains = s.curtains /\ d.waits = w
  BY <1>9, <1>10 DEF ModalState
<1> QED BY <1>1, <1>2, <1>3, <1>4, <1>6, <1>9, <1>11

(* What backdrop comes to in each of its cases. *)
BackdropCases(g, m, wait, h) ==
  LET s == g.of[m]
  IN  /\ s.isShown /\ s.useBackdrop /\ (transition \/ wait = "hidden") =>
           h.of[m] = raise(s, wait) /\ h.body = g.body
      /\ s.isShown /\ s.useBackdrop /\ ~transition /\ wait = "show" =>
           \E q \in PageType : Moves(g, m, q) /\ q.of[m] = raise(s, wait)
                               /\ q.body = g.body /\ h = appear(q, m)
      /\ ~s.isShown /\ s.held # 0 /\ transition =>
           h.of[m] = [s EXCEPT !.waits[s.held] = Append(@, "remove")] /\ h.body = g.body
      /\ ~s.isShown /\ s.held # 0 /\ ~transition =>
           h.of[m] = removeBackdrop(s) /\ h.body = g.body
      /\ s.isShown /\ ~s.useBackdrop => h = run(g, m, wait)
      /\ ~s.isShown /\ s.held = 0 => h = run(g, m, wait)

(* backdrop is one of them, and changes nothing else of the page. *)
LEMMA BackdropIs ==
  ASSUME NEW g \in PageType, NEW m \in Modals, NEW wait \in {"show", "hidden"},
         g.of[m].isShown /\ g.of[m].useBackdrop => Free(g.of[m]) # {}
  PROVE  LET h == backdrop(g, m, wait) IN Unmoved(g, m, h) /\ BackdropCases(g, m, wait, h)
<1>1. PICK h : h = backdrop(g, m, wait)
  OBVIOUS
<1>2. PICK s \in ModalState, b \in BodyState : s = g.of[m] /\ b = g.body
  BY DEF PageType
<1>3. g.of \in [Modals -> ModalState] /\ g = [of |-> g.of, body |-> g.body]
  BY DEF PageType
<1>4. s.isShown \in BOOLEAN /\ s.useBackdrop \in BOOLEAN
  BY DEF ModalState
<1>5. CASE s.isShown /\ s.useBackdrop
  <2>1. PICK d : d = raise(s, wait)
    OBVIOUS
  <2>2. /\ d \in ModalState /\ d.isShown = s.isShown /\ d.useBackdrop = s.useBackdrop
        /\ d.hides = s.hides
    BY <1>2, <1>5, <2>1, RaiseIs
  <2>3. PICK q : q = [g EXCEPT !.of[m] = raise(@, wait)]
    OBVIOUS
  <2>4. q = [of |-> [g.of EXCEPT ![m] = d], body |-> b]
    BY <1>2, <1>3, <2>1, <2>3
  <2>5. Moves(g, m, q) /\ q.of[m] = d /\ q.body = b
    BY <2>2, <2>4, PutIs
  <2>6. q \in PageType
    BY <2>5 DEF Moves
  <2>7. h = IF transition THEN q ELSE run(q, m, wait)
    BY <1>1, <1>2, <1>5, <2>3 DEF backdrop
  <2>8. CASE transition
    BY <1>1, <1>2, <1>5, <2>1, <2>2, <2>5, <2>7, <2>8 DEF Unmoved, BackdropCases
  <2>9. CASE ~transition
    <3>1. h = run(q, m, wait)
      BY <2>7, <2>9
    <3>2. Unmoved(q, m, h) /\ (wait = "show" => h = appear(q, m)) /\ (wait = "hidden" => h = q)
      BY <2>6, <3>1, WaitRuns
    <3>3. Unmoved(g, m, h)
      BY <1>2, <2>2, <2>5, <3>2 DEF Unmoved, Moves
    <3>4. BackdropCases(g, m, wait, h)
      BY <1>2, <1>5, <2>1, <2>5, <2>6, <2>9, <3>2 DEF BackdropCases
    <3> QED BY <1>1, <3>3, <3>4
  <2> QED BY <2>8, <2>9
<1>6. CASE ~s.isShown /\ s.held # 0
  <2>1. CASE transition
    <3>1. PICK d : d = [s EXCEPT !.waits[s.held] = Append(@, "remove")]
      OBVIOUS
    <3>2. /\ d \in ModalState /\ d.isShown = s.isShown /\ d.useBackdrop = s.useBackdrop
          /\ d.hides = s.hides
      BY <1>6, <3>1, LiftIs
    <3>3. h = [g EXCEPT !.of[m].waits[s.held] = Append(@, "remove")]
      BY <1>1, <1>2, <1>6, <2>1 DEF backdrop
    <3>4. h = [of |-> [g.of EXCEPT ![m] = d], body |-> b]
      BY <1>2, <1>3, <3>1, <3>3
    <3>5. Moves(g, m, h) /\ h.of[m] = d /\ h.body = b
      BY <3>2, <3>4, PutIs
    <3> QED BY <1>1, <1>2, <1>6, <2>1, <3>1, <3>2, <3>5 DEF Unmoved, BackdropCases
  <2>2. CASE ~transition
    <3>1. h = run(g, m, "remove")
      BY <1>1, <1>2, <1>6, <2>2 DEF backdrop
    <3>2. Unmoved(g, m, h) /\ h.of[m] = removeBackdrop(g.of[m]) /\ h.body = g.body
      BY <3>1, WaitRuns
    <3> QED BY <1>1, <1>2, <1>6, <2>2, <3>2 DEF BackdropCases
  <2> QED BY <2>1, <2>2
<1>7. CASE (s.isShown /\ ~s.useBackdrop) \/ (~s.isShown /\ s.held = 0)
  <2>1. h = run(g, m, wait)
    BY <1>1, <1>2, <1>7 DEF backdrop
  <2>2. Unmoved(g, m, h)
    BY <2>1, WaitRuns
  <2> QED BY <1>1, <1>2, <1>7, <2>1, <2>2 DEF BackdropCases
<1> QED BY <1>4, <1>5, <1>6, <1>7

(* A modal that has left, but for its backdrop. *)
Left(s) ==
  ~s.isShown /\ ~s.in /\ s.hides = 0 /\ Curtained(s) /\ Awaits(s, <<>>)

(* With the dialog out of sight its backdrop goes, at once or in a transition; where  *)
(* the modal has been shown again meanwhile, another one comes.                        *)
LEMMA HideModalIs ==
  ASSUME NEW g \in PageType, NEW m \in Modals,
         g.of[m].isShown /\ g.of[m].useBackdrop => Free(g.of[m]) # {}
  PROVE  LET h == hideModal(g, m) IN
         /\ Unmoved(g, m, h) /\ h.body = g.body
         /\ Left(g.of[m]) => ModalGone(h.of[m]) \/ ModalLifting(h.of[m])
         /\ g.of[m].isShown /\ g.of[m].useBackdrop =>
              \E i \in Free(g.of[m]) : Free(h.of[m]) = Free(g.of[m]) \ {i}
<1>1. PICK h : h = hideModal(g, m)
  OBVIOUS
<1>2. PICK s \in ModalState, b \in BodyState : s = g.of[m] /\ b = g.body
  BY DEF PageType
<1>3. g.of \in [Modals -> ModalState] /\ g = [of |-> g.of, body |-> g.body]
  BY DEF PageType
<1>4. PICK v : v = [s EXCEPT !.visible = FALSE]
  OBVIOUS
<1>5. /\ v \in ModalState /\ v.isShown = s.isShown /\ v.useBackdrop = s.useBackdrop
      /\ v.hides = s.hides /\ v.visible = FALSE /\ v.in = s.in /\ v.held = s.held
      /\ v.curtains = s.curtains /\ v.waits = s.waits
  BY <1>4 DEF ModalState
<1>6. PICK q : q = [g EXCEPT !.of[m].visible = FALSE]
  OBVIOUS
<1>7. q = [of |-> [g.of EXCEPT ![m] = v], body |-> b]
  BY <1>2, <1>3, <1>4, <1>6
<1>8. Moves(g, m, q) /\ q.of[m] = v /\ q.body = b
  BY <1>5, <1>7, PutIs
<1>9. q \in PageType /\ h = backdrop(q, m, "hidden")
  BY <1>1, <1>6, <1>8 DEF hideModal, Moves
<1>10. Free(v) = Free(s)
  BY <1>5 DEF Free
<1>11. Unmoved(q, m, h) /\ BackdropCases(q, m, "hidden", h)
  BY <1>2, <1>5, <1>8, <1>9, <1>10, BackdropIs
<1>12. Unmoved(g, m, h)
  BY <1>2, <1>5, <1>8, <1>11 DEF Unmoved, Moves
<1>13. s.isShown \in BOOLEAN /\ s.useBackdrop \in BOOLEAN
  BY DEF ModalState
<1>14. h = run(q, m, "hidden") => h = q
  BY DEF run
<1>15. h.body = g.body
  BY <1>2, <1>5, <1>8, <1>11, <1>13, <1>14 DEF BackdropCases
<1>16. ASSUME s.isShown, s.useBackdrop
       PROVE  \E i \in Free(s) : Free(h.of[m]) = Free(s) \ {i}
  <2>1. h.of[m] = raise(v, "hidden")
    BY <1>5, <1>8, <1>11, <1>16 DEF BackdropCases
  <2>2. Free(v) # {}
    BY <1>2, <1>10, <1>16
  <2>3. PICK d : d = raise(v, "hidden")
    OBVIOUS
  <2>4. d.held \in Free(v) /\ d.curtains = v.curtains \cup {d.held}
    BY <1>5, <2>2, <2>3, RaiseIs
  <2>5. Free(d) = Free(v) \ {d.held}
    BY <2>4 DEF Free
  <2> QED BY <1>10, <2>1, <2>3, <2>4, <2>5
<1>17. ASSUME Left(s)
       PROVE  ModalGone(h.of[m]) \/ ModalLifting(h.of[m])
  <2>1. PICK t : t = h.of[m]
    OBVIOUS
  <2>2. Left(v)
    BY <1>5, <1>17 DEF Left, Curtained, Awaits
  <2>3. ~v.isShown
    BY <2>2 DEF Left
  <2>4. CASE v.held # 0 /\ transition
    <3>1. t = [v EXCEPT !.waits[v.held] = Append(@, "remove")]
      BY <1>8, <1>11, <2>1, <2>3, <2>4 DEF BackdropCases
    <3>2. /\ t.isShown = v.isShown /\ t.useBackdrop = v.useBackdrop
          /\ t.hides = v.hides /\ t.visible = v.visible /\ t.in = v.in
          /\ t.held = v.held /\ t.curtains = v.curtains /\ v.held \in Curtain
          /\ \A i \in Curtain : t.waits[i] = IF i # v.held THEN v.waits[i]
                                             ELSE Append(v.waits[i], "remove")
      BY <1>5, <2>4, <3>1, LiftIs
    <3>3. Append(<<>>, "remove") = <<"remove">>
      OBVIOUS
    <3>4. Awaits(t, <<"remove">>)
      BY <2>2, <3>2, <3>3 DEF Left, Awaits
    <3>5. v.useBackdrop
      BY <2>2, <2>4 DEF Left, Curtained
    <3>6. ModalLifting(t)
      BY <1>5, <2>2, <3>2, <3>4, <3>5 DEF Left, ModalLifting, Curtained
    <3> QED BY <2>1, <3>6
  <2>5. CASE v.held # 0 /\ ~transition
    <3>1. t = removeBackdrop(v)
      BY <1>8, <1>11, <2>1, <2>3, <2>5 DEF BackdropCases
    <3>2. /\ t.isShown = v.isShown /\ t.hides = v.hides /\ t.visible = v.visible
          /\ t.in = v.in /\ t.held = 0 /\ t.curtains = v.curtains \ {v.held}
          /\ \A i \in Curtain : t.waits[i] = IF i = v.held THEN <<>> ELSE v.waits[i]
      BY <1>5, <3>1, RemoveIs
    <3>3. t.curtains = {}
      BY <2>2, <2>5, <3>2 DEF Left, Curtained
    <3>4. Awaits(t, <<>>)
      BY <2>2, <3>2 DEF Left, Awaits
    <3>5. ModalGone(t)
      BY <1>5, <2>2, <3>2, <3>3, <3>4 DEF Left, ModalGone
    <3> QED BY <2>1, <3>5
  <2>6. CASE v.held = 0
    <3>1. h = q
      BY <1>8, <1>11, <1>14, <2>3, <2>6 DEF BackdropCases
    <3>2. v.curtains = {}
      <4>1. 0 \notin Curtain
        BY ModalAssumption DEF Curtain
      <4> QED BY <2>2, <2>6, <4>1 DEF Left, Curtained
    <3>3. ModalGone(v)
      BY <1>5, <2>2, <2>6, <3>2 DEF Left, ModalGone
    <3> QED BY <1>8, <3>1, <3>3
  <2> QED BY <2>4, <2>5, <2>6
<1> QED BY <1>1, <1>2, <1>12, <1>15, <1>16, <1>17

(* hide leaves the page scrolling and the focus free, and the dialog to its transition. *)
LEMMA HideBeginIs ==
  ASSUME NEW g \in PageType, NEW m \in Modals, g.of[m].isShown => g.of[m].hides < HideBound
  PROVE  LET h == hideModalBegin(g, m) IN
         \/ h = g
         \/ /\ g.of[m].isShown /\ Moves(g, m, h)
            /\ ~h.of[m].isShown
            /\ ~h.body.open /\ h.body.padding = 0 /\ h.body.trap = "none"
            /\ ModalThere(g.of[m]) => ModalOrderly(h.of[m])
<1>1. PICK h : h = hideModalBegin(g, m)
  OBVIOUS
<1>2. PICK s \in ModalState, b \in BodyState : s = g.of[m] /\ b = g.body
  BY DEF PageType
<1>3. g.of \in [Modals -> ModalState] /\ g = [of |-> g.of, body |-> g.body]
  BY DEF PageType
<1>4. SUFFICES ASSUME s.isShown, ~isDefaultPrevented("hide")
               PROVE  /\ g.of[m].isShown /\ Moves(g, m, h)
                      /\ ~h.of[m].isShown
                      /\ ~h.body.open /\ h.body.padding = 0 /\ h.body.trap = "none"
                      /\ ModalThere(g.of[m]) => ModalOrderly(h.of[m])
  <2>1. s.isShown \in BOOLEAN
    BY DEF ModalState
  <2> QED BY <1>1, <1>2, <1>4, <2>1 DEF hideModalBegin
<1>5. PICK v : v = [[s EXCEPT !.isShown = FALSE] EXCEPT !.in = FALSE]
  OBVIOUS
<1>6. /\ v \in ModalState /\ v.isShown = FALSE /\ v.useBackdrop = s.useBackdrop
      /\ v.hides = s.hides /\ v.visible = s.visible /\ v.in = FALSE /\ v.held = s.held
      /\ v.curtains = s.curtains /\ v.waits = s.waits
  BY <1>5 DEF ModalState
<1>7. PICK c : c = [[[b EXCEPT !.open = FALSE] EXCEPT !.padding = 0] EXCEPT !.trap = "none"]
  OBVIOUS
<1>8. c \in BodyState /\ c.open = FALSE /\ c.padding = 0 /\ c.trap = "none"
  BY <1>7 DEF BodyState
<1>9. PICK gone : gone = [g EXCEPT !.of[m].isShown = FALSE, !.of[m].in = FALSE,
                                   !.body.open = FALSE, !.body.padding = 0,
                                   !.body.trap = "none"]
  OBVIOUS
<1>10. gone = [of |-> [g.of EXCEPT ![m] = v], body |-> c]
  BY <1>2, <1>3, <1>5, <1>7, <1>9
<1>11. Moves(g, m, gone) /\ gone.of[m] = v /\ gone.body = c
  BY <1>6, <1>8, <1>10, PutIs
<1>12. gone \in PageType
  BY <1>11 DEF Moves
<1>13. h = IF transition THEN [gone EXCEPT !.of[m].hides = @ + 1] ELSE hideModal(gone, m)
  BY <1>1, <1>2, <1>4, <1>9 DEF hideModalBegin
<1>14. CASE transition
  <2>1. PICK k \in Nat : k = s.hides /\ k + 1 \in 0..HideBound
    BY <1>2, <1>4, ModalAssumption DEF ModalState
  <2>2. PICK d : d = [v EXCEPT !.hides = k + 1]
    OBVIOUS
  <2>3. /\ d \in ModalState /\ d.isShown = FALSE /\ d.useBackdrop = s.useBackdrop
        /\ d.hides = k + 1 /\ d.visible = s.visible /\ d.in = FALSE /\ d.held = s.held
        /\ d.curtains = s.curtains /\ d.waits = s.waits
    BY <1>6, <2>1, <2>2 DEF ModalState
  <2>4. h = [of |-> [gone.of EXCEPT ![m] = d], body |-> c]
    BY <1>6, <1>11, <1>12, <1>13, <1>14, <2>1, <2>2 DEF PageType
  <2>5. Moves(gone, m, h) /\ h.of[m] = d /\ h.body = c
    BY <1>8, <1>12, <2>3, <2>4, PutIs
  <2>6. Moves(g, m, h)
    BY <1>11, <2>5 DEF Moves
  <2>7. ModalThere(s) => ModalLeaving(d)
    BY <2>1, <2>3 DEF ModalThere, ModalLeaving, Curtained, Awaits
  <2> QED BY <1>2, <1>4, <1>8, <2>3, <2>5, <2>6, <2>7 DEF ModalOrderly
<1>15. CASE ~transition
  <2>1. h = hideModal(gone, m)
    BY <1>13, <1>15
  <2>2. /\ Unmoved(gone, m, h) /\ h.body = gone.body
        /\ Left(v) => ModalGone(h.of[m]) \/ ModalLifting(h.of[m])
    BY <1>6, <1>11, <1>12, <2>1, HideModalIs
  <2>3. Moves(g, m, h) /\ ~h.of[m].isShown
    BY <1>6, <1>11, <2>2 DEF Unmoved, Moves
  <2>4. ModalThere(s) => Left(v)
    BY <1>6 DEF ModalThere, Left, Curtained, Awaits
  <2> QED BY <1>2, <1>4, <1>8, <1>11, <2>2, <2>3, <2>4 DEF ModalOrderly
<1> QED BY <1>14, <1>15

(* show stops the page from scrolling and brings the backdrop, and the dialog too when *)
(* there is nothing to wait for.                                                        *)
LEMMA ShowIs ==
  ASSUME NEW g \in PageType, NEW m \in Modals,
         g.of[m].useBackdrop /\ ~g.of[m].isShown => Free(g.of[m]) # {}
  PROVE  LET h == showModal(g, m) IN
         \/ h = g
         \/ /\ ~g.of[m].isShown /\ Moves(g, m, h)
            /\ h.of[m].isShown /\ h.body.open
            /\ ~g.body.open /\ g.body.padding = 0 => h.body.padding = 1
            /\ h.body.trap \in {g.body.trap, m}
            /\ ModalGone(g.of[m]) => ModalOrderly(h.of[m])
<1>1. PICK h : h = showModal(g, m)
  OBVIOUS
<1>2. PICK s \in ModalState, b \in BodyState : s = g.of[m] /\ b = g.body
  BY DEF PageType
<1>3. g.of \in [Modals -> ModalState] /\ g = [of |-> g.of, body |-> g.body]
  BY DEF PageType
<1>4. SUFFICES ASSUME ~s.isShown, ~isDefaultPrevented("show")
               PROVE  /\ ~g.of[m].isShown /\ Moves(g, m, h)
                      /\ h.of[m].isShown /\ h.body.open
                      /\ ~g.body.open /\ g.body.padding = 0 => h.body.padding = 1
                      /\ h.body.trap \in {g.body.trap, m}
                      /\ ModalGone(g.of[m]) => ModalOrderly(h.of[m])
  <2>1. s.isShown \in BOOLEAN
    BY DEF ModalState
  <2> QED BY <1>1, <1>2, <1>4, <2>1 DEF showModal
<1>5. PICK bar \in BOOLEAN : bar = (s.bar \/ ~b.open)
  <2>1. (s.bar \/ ~b.open) \in BOOLEAN
    OBVIOUS
  <2> QED BY <2>1, Zenon
<1>6. PICK v : v = [[s EXCEPT !.isShown = TRUE] EXCEPT !.bar = bar]
  OBVIOUS
<1>7. /\ v \in ModalState /\ v.isShown = TRUE /\ v.useBackdrop = s.useBackdrop
      /\ v.hides = s.hides /\ v.visible = s.visible /\ v.in = s.in /\ v.held = s.held
      /\ v.curtains = s.curtains /\ v.waits = s.waits
  BY <1>6 DEF ModalState
<1>8. PICK n \in Nat : n = IF bar THEN b.padding + 1 ELSE b.padding
  <2>1. b.padding \in Nat
    BY DEF BodyState
  <2> QED BY <2>1
<1>9. PICK c : c = [[b EXCEPT !.open = TRUE] EXCEPT !.padding = n]
  OBVIOUS
<1>10. c \in BodyState /\ c.open = TRUE /\ c.padding = n /\ c.trap = b.trap
  BY <1>9 DEF BodyState
<1>11. ~b.open /\ b.padding = 0 => n = 1
  <2>1. SUFFICES ASSUME ~b.open, b.padding = 0
                 PROVE  n = 1
    OBVIOUS
  <2>2. bar
    BY <1>5, <2>1
  <2>3. n = 0 + 1
    BY <1>8, <2>1, <2>2
  <2> QED BY <2>3
<1>12. PICK r : r = [g EXCEPT !.of[m].isShown = TRUE]
  OBVIOUS
<1>13. PICK u : u = [s EXCEPT !.isShown = TRUE]
  OBVIOUS
<1>14. u \in ModalState /\ u.bar = s.bar
  BY <1>13 DEF ModalState
<1>15. r = [of |-> [g.of EXCEPT ![m] = u], body |-> b]
  BY <1>2, <1>3, <1>12, <1>13
<1>16. r \in PageType /\ r.of[m] = u /\ r.body = b /\ Moves(g, m, r)
  BY <1>14, <1>15, PutIs DEF Moves
<1>17. PICK q : q = setScrollbar(r, m)
  OBVIOUS
<1>18. q = [r EXCEPT !.of[m].bar = bar, !.body.open = TRUE, !.body.padding = n]
  <2>1. (r.of[m].bar \/ ~r.body.open) = bar
    BY <1>5, <1>14, <1>16, Zenon
  <2>2. q = [r EXCEPT !.of[m].bar = bar, !.body.open = TRUE,
                      !.body.padding = IF bar THEN @ + 1 ELSE @]
    BY <1>17, <2>1, Zenon DEF setScrollbar
  <2> QED BY <1>8, <1>16, <2>2
<1>19. q = [of |-> [r.of EXCEPT ![m] = v], body |-> c]
  BY <1>6, <1>9, <1>13, <1>16, <1>18 DEF PageType
<1>20. Moves(r, m, q) /\ q.of[m] = v /\ q.body = c
  BY <1>7, <1>10, <1>16, <1>19, PutIs
<1>21. q \in PageType /\ Moves(g, m, q) /\ Free(v) = Free(s)
  BY <1>7, <1>16, <1>20 DEF Moves, Free
<1>22. h = backdrop(q, m, "show")
  BY <1>1, <1>2, <1>4, <1>12, <1>17 DEF showModal
<1>23. Free(v) # {} \/ ~v.useBackdrop
  BY <1>2, <1>4, <1>7, <1>21
<1>24. Unmoved(q, m, h) /\ BackdropCases(q, m, "show", h)
  BY <1>20, <1>21, <1>22, <1>23, BackdropIs
<1>25. /\ Moves(g, m, h) /\ h.of[m].isShown /\ h.body.open
       /\ ~b.open /\ b.padding = 0 => h.body.padding = 1
  BY <1>7, <1>10, <1>11, <1>20, <1>21, <1>24 DEF Unmoved, Moves
<1>26. PICK t : t = h.of[m]
  OBVIOUS
<1>27. CASE v.useBackdrop /\ transition
  <2>1. t = raise(v, "show") /\ h.body = c
    BY <1>7, <1>20, <1>24, <1>26, <1>27 DEF BackdropCases
  <2>2. Free(v) # {}
    BY <1>23, <1>27
  <2>3. /\ t.isShown = v.isShown /\ t.useBackdrop = v.useBackdrop
        /\ t.hides = v.hides /\ t.visible = v.visible /\ t.in = v.in
        /\ t.held \in Free(v) /\ t.curtains = v.curtains \cup {t.held}
        /\ \A i \in Curtain : t.waits[i] = IF i # t.held THEN v.waits[i]
                                           ELSE IF transition THEN <<"show">> ELSE <<>>
    BY <1>7, <2>1, <2>2, RaiseIs
  <2>4. ASSUME ModalGone(s)
        PROVE  ModalComing(t)
    <3>1. Awaits(t, <<"show">>)
      BY <1>7, <1>27, <2>3, <2>4 DEF ModalGone, Awaits
    <3> QED BY <1>7, <1>27, <2>3, <2>4, <3>1 DEF ModalGone, ModalComing, Curtained, Free
  <2> QED BY <1>2, <1>4, <1>10, <1>25, <1>26, <2>1, <2>4 DEF ModalOrderly
<1>28. CASE v.useBackdrop /\ ~transition
  <2>1. PICK p \in PageType : /\ Moves(q, m, p) /\ p.of[m] = raise(v, "show")
                              /\ p.body = c /\ h = appear(p, m)
    BY <1>7, <1>20, <1>24, <1>28 DEF BackdropCases
  <2>2. Free(v) # {}
    BY <1>23, <1>28
  <2>3. PICK d : d = raise(v, "show")
    OBVIOUS
  <2>4. /\ d.isShown = v.isShown /\ d.useBackdrop = v.useBackdrop
        /\ d.hides = v.hides /\ d.visible = v.visible /\ d.in = v.in
        /\ d.held \in Free(v) /\ d.curtains = v.curtains \cup {d.held}
        /\ \A i \in Curtain : d.waits[i] = IF i # d.held THEN v.waits[i]
                                           ELSE IF transition THEN <<"show">> ELSE <<>>
    BY <1>7, <2>2, <2>3, RaiseIs
  <2>5. /\ Unmoved(p, m, h) /\ h.body.trap = m
        /\ t.visible /\ t.in /\ t.held = d.held
        /\ t.curtains = d.curtains /\ t.waits = d.waits
    BY <1>26, <2>1, <2>3, AppearIs
  <2>6. t.isShown = d.isShown /\ t.useBackdrop = d.useBackdrop /\ t.hides = d.hides
    BY <1>26, <2>1, <2>3, <2>5 DEF Unmoved
  <2>7. ASSUME ModalGone(s)
        PROVE  ModalThere(t)
    <3>1. Awaits(t, <<>>)
      BY <1>7, <1>28, <2>4, <2>5, <2>7 DEF ModalGone, Awaits
    <3> QED BY <1>7, <1>28, <2>4, <2>5, <2>6, <2>7, <3>1
            DEF ModalGone, ModalThere, Curtained, Free
  <2> QED BY <1>2, <1>4, <1>25, <1>26, <2>5, <2>7 DEF ModalOrderly
<1>29. CASE ~v.useBackdrop
  <2>1. h = run(q, m, "show")
    BY <1>7, <1>20, <1>24, <1>29 DEF BackdropCases
  <2>2. h = appear(q, m)
    BY <2>1 DEF run
  <2>3. /\ Unmoved(q, m, h) /\ h.body.trap = m
        /\ t.visible /\ t.in /\ t.held = v.held
        /\ t.curtains = v.curtains /\ t.waits = v.waits
    BY <1>20, <1>21, <1>26, <2>2, AppearIs
  <2>4. t.isShown = v.isShown /\ t.useBackdrop = v.useBackdrop /\ t.hides = v.hides
    BY <1>20, <1>26, <2>3 DEF Unmoved
  <2>5. ModalGone(s) => ModalThere(t)
    BY <1>7, <1>29, <2>3, <2>4 DEF ModalGone, ModalThere, Curtained, Awaits
  <2> QED BY <1>2, <1>4, <1>25, <1>26, <2>3, <2>5 DEF ModalOrderly
<1> QED BY <1>27, <1>28, <1>29

(* What the end of a transition leaves as it is, and that what is orderly stays so.   *)
Ends(g, m, h) ==
  /\ Moves(g, m, h) /\ h.of[m].isShown = g.of[m].isShown
  /\ h.body.open = g.body.open /\ h.body.padding = g.body.padding
  /\ ModalOrderly(g.of[m]) => /\ ModalOrderly(h.of[m])
                              /\ h.body.trap = g.body.trap
                                 \/ (h.body.trap = m /\ h.of[m].isShown)

(* The page's two parts. *)
LEMMA PageIs ==
  ASSUME ModalTypeOK
  PROVE  Page \in PageType /\ Page.of = modal /\ Page.body = body
BY DEF ModalTypeOK, Page, PageType

(* What waits for the backdrop is taken out before it runs. *)
LEMMA TakenOut ==
  ASSUME ModalTypeOK, NEW m \in Modals, NEW i \in Curtain
  PROVE  LET g == [Page EXCEPT !.of[m].waits[i] = <<>>]
             s == modal[m]
             v == g.of[m] IN
         /\ g \in PageType /\ Moves(Page, m, g) /\ g.body = body
         /\ v.isShown = s.isShown /\ v.useBackdrop = s.useBackdrop /\ v.hides = s.hides
         /\ v.visible = s.visible /\ v.in = s.in /\ v.held = s.held
         /\ v.curtains = s.curtains
         /\ \A k \in Curtain : v.waits[k] = IF k = i THEN <<>> ELSE s.waits[k]
<1>1. PICK g : g = [Page EXCEPT !.of[m].waits[i] = <<>>]
  OBVIOUS
<1>2. PICK s \in ModalState, b \in BodyState : s = modal[m] /\ b = body
  BY DEF ModalTypeOK
<1>3. modal \in [Modals -> ModalState] /\ Page = [of |-> modal, body |-> b]
  BY <1>2 DEF ModalTypeOK, Page
<1>4. PICK e \in Waits : e = <<>>
  <2>1. <<>> \in Waits
    BY DEF Waits
  <2> QED BY <2>1
<1>5. PICK w : w = [s.waits EXCEPT ![i] = e]
  OBVIOUS
<1>6. /\ w \in [Curtain -> Waits]
      /\ \A k \in Curtain : w[k] = IF k = i THEN e ELSE s.waits[k]
  BY <1>5 DEF ModalState
<1>7. PICK v : v = [s EXCEPT !.waits = w]
  OBVIOUS
<1>8. /\ v \in ModalState /\ v.isShown = s.isShown /\ v.useBackdrop = s.useBackdrop
      /\ v.hides = s.hides /\ v.visible = s.visible /\ v.in = s.in /\ v.held = s.held
      /\ v.curtains = s.curtains /\ v.waits = w
  BY <1>6, <1>7 DEF ModalState
<1>9. g = [of |-> [Page.of EXCEPT ![m] = v], body |-> b]
  BY <1>1, <1>2, <1>3, <1>4, <1>5, <1>7 DEF ModalState
<1>10. Page \in PageType
  BY PageIs
<1>11. Moves(Page, m, g) /\ g.of[m] = v /\ g.body = b
  BY <1>8, <1>9, <1>10, PutIs
<1> QED BY <1>1, <1>2, <1>4, <1>6, <1>8, <1>11 DEF Moves

(* An orderly modal has one callback waiting for its backdrop, and it finds the modal  *)
(* as it was left.                                                                     *)
LEMMA CurtainOrderly ==
  ASSUME ModalTypeOK, NEW m \in Modals, NEW i \in Curtain, modal[m].waits[i] # <<>>,
         ModalOrderly(modal[m]),
         NEW a, a = [Page EXCEPT !.of[m].waits[i] = <<>>],
         NEW h, h = run(a, m, modal[m].waits[i][1])
  PROVE  /\ Len(modal[m].waits[i]) = 1 /\ ModalOrderly(h.of[m])
         /\ h.body.trap = body.trap \/ (h.body.trap = m /\ h.of[m].isShown)
<1>1. PICK s \in ModalState : s = modal[m]
  BY DEF ModalTypeOK
<1>2. PICK v : v = a.of[m]
  OBVIOUS
<1>3. /\ a \in PageType /\ a.body = body
      /\ v.isShown = s.isShown /\ v.useBackdrop = s.useBackdrop /\ v.hides = s.hides
      /\ v.visible = s.visible /\ v.in = s.in /\ v.held = s.held
      /\ v.curtains = s.curtains
      /\ \A k \in Curtain : v.waits[k] = IF k = i THEN <<>> ELSE s.waits[k]
  BY <1>1, <1>2, TakenOut
<1>4. PICK t : t = h.of[m]
  OBVIOUS
<1>5. ~ModalGone(s) /\ ~ModalThere(s) /\ ~ModalLeaving(s)
  BY <1>1 DEF ModalGone, ModalThere, ModalLeaving, Awaits
<1>6. CASE ModalComing(s)
  <2>1. s.waits[i] = <<"show">> /\ i = s.held
    BY <1>1, <1>6 DEF ModalComing, Awaits
  <2>2. PICK q : q = <<"show">>
    OBVIOUS
  <2>3. q[1] = "show" /\ Len(q) = 1
    BY <2>2
  <2>4. h = appear(a, m)
    <3>1. h = run(a, m, "show")
      BY <1>1, <2>1, <2>2, <2>3
    <3> QED BY <3>1 DEF run
  <2>5. /\ Unmoved(a, m, h) /\ h.body.trap = m
        /\ t.visible /\ t.in /\ t.held = v.held
        /\ t.curtains = v.curtains /\ t.waits = v.waits
    <3>1. PICK p \in PageType : p = a
      BY <1>3
    <3>2. h = appear(p, m)
      BY <2>4, <3>1
    <3>3. /\ Unmoved(p, m, h) /\ h.body.trap = m
          /\ h.of[m].visible /\ h.of[m].in /\ h.of[m].held = p.of[m].held
          /\ h.of[m].curtains = p.of[m].curtains /\ h.of[m].waits = p.of[m].waits
      BY ONLY <3>2, AppearIs
    <3> QED BY <1>2, <1>4, <3>1, <3>3
  <2>6. t.isShown = v.isShown /\ t.useBackdrop = v.useBackdrop /\ t.hides = v.hides
    BY <1>2, <1>4, <2>5 DEF Unmoved
  <2>7. Awaits(t, <<>>)
    BY <1>3, <1>6, <2>1, <2>5 DEF ModalComing, Awaits
  <2>8. ModalThere(t)
    BY <1>3, <1>6, <2>5, <2>6, <2>7 DEF ModalComing, ModalThere, Curtained
  <2> QED BY <1>1, <1>3, <1>4, <1>6, <2>1, <2>2, <2>3, <2>5, <2>6, <2>8
          DEF ModalOrderly, ModalComing
<1>7. CASE ModalLifting(s)
  <2>1. s.waits[i] = <<"remove">> /\ i = s.held
    BY <1>1, <1>7 DEF ModalLifting, Awaits
  <2>2. PICK q : q = <<"remove">>
    OBVIOUS
  <2>3. q[1] = "remove" /\ Len(q) = 1
    BY <2>2
  <2>4. t = removeBackdrop(v) /\ h.body = a.body
    <3>1. h = run(a, m, "remove")
      BY <1>1, <2>1, <2>2, <2>3
    <3> QED BY <1>2, <1>3, <1>4, <3>1, WaitRuns
  <2>5. v \in ModalState
    BY <1>2, <1>3 DEF PageType
  <2>6. /\ t.isShown = v.isShown /\ t.hides = v.hides /\ t.visible = v.visible
        /\ t.in = v.in /\ t.held = 0 /\ t.curtains = v.curtains \ {v.held}
        /\ \A k \in Curtain : t.waits[k] = IF k = v.held THEN <<>> ELSE v.waits[k]
    BY <2>4, <2>5, RemoveIs
  <2>7. t.curtains = {}
    BY <1>3, <1>7, <2>6 DEF ModalLifting, Curtained
  <2>8. Awaits(t, <<>>)
    BY <1>3, <1>7, <2>1, <2>6 DEF ModalLifting, Awaits
  <2>9. ModalGone(t)
    BY <1>3, <1>7, <2>6, <2>7, <2>8 DEF ModalLifting, ModalGone
  <2> QED BY <1>1, <1>3, <1>4, <2>1, <2>2, <2>3, <2>4, <2>9 DEF ModalOrderly
<1> QED BY <1>1, <1>5, <1>6, <1>7 DEF ModalOrderly

(* Whatever waits for a backdrop, the end of the transition goes through all of it.    *)
LEMMA CurtainEndIs ==
  ASSUME ModalTypeOK, NEW m \in Modals, NEW i \in Curtain, CurtainEnd(m, i)
  PROVE  \E g : Ends(Page, m, g) /\ Becomes(g, m)
<1>n. PICK n : n = Len(modal[m].waits[i])
  OBVIOUS
<1> DEFINE a == [Page EXCEPT !.of[m].waits[i] = <<>>]
           after == CHOOSE f : f = [k \in 0..Len(modal[m].waits[i]) |->
                      IF k = 0 THEN [Page EXCEPT !.of[m].waits[i] = <<>>]
                      ELSE run(f[k - 1], m, modal[m].waits[i][k])]
<1>1. Becomes(after[Len(modal[m].waits[i])], m) /\ modal[m].waits[i] # <<>>
  BY Zenon DEF CurtainEnd
<1>2. after = CHOOSE f : f = [k \in 0..Len(modal[m].waits[i]) |->
                IF k = 0 THEN a ELSE run(f[k - 1], m, modal[m].waits[i][k])]
  BY Zenon
<1> HIDE DEF after
<1>3. PICK q \in Seq({"show", "hidden", "remove"}) : q = modal[m].waits[i]
  BY DEF ModalTypeOK, ModalState, Waits
<1>4. n \in Nat \ {0} /\ \A k \in 1..n : q[k] \in {"show", "hidden", "remove"}
  BY <1>n, <1>1, <1>3
<1>5. /\ a \in PageType /\ Moves(Page, m, a) /\ a.body = body
      /\ a.of[m].isShown = modal[m].isShown
  BY TakenOut
<1> DEFINE S == {h \in PageType : Unmoved(a, m, h)}
<1>6. a \in S
  BY <1>5 DEF Unmoved, Moves
<1>7. ASSUME NEW s \in S, NEW c \in {"show", "hidden", "remove"}
      PROVE  run(s, m, c) \in S
  <2>1. PICK d : d = run(s, m, c)
    OBVIOUS
  <2>2. Unmoved(s, m, d)
    BY <2>1, WaitRuns
  <2>3. Unmoved(a, m, s)
    OBVIOUS
  <2>4. Unmoved(a, m, d) /\ d \in PageType
    BY <2>2, <2>3 DEF Unmoved, Moves
  <2> QED BY <2>1, <2>4
<1>8. \A s \in S : Unmoved(a, m, s) /\ s \in PageType
  OBVIOUS
<1> HIDE DEF S, a
<1> DEFINE g == [k \in 1..n |-> [s \in S |-> run(s, m, q[k])]]
<1>9. IsLoop(n, S, g) /\ \A k \in 1..n, s \in S : g[k][s] = run(s, m, q[k])
  BY <1>4, <1>7 DEF IsLoop
<1> HIDE DEF g
<1>10. after = [k \in 0..n |-> IF k = 0 THEN a ELSE run(after[k - 1], m, q[k])]
  <2>1. PICK R, b, l : R = S /\ b = a /\ l = g
    OBVIOUS
  <2>2. n \in Nat /\ b \in R /\ IsLoop(n, R, l)
    BY <1>4, <1>6, <1>9, <2>1
  <2>3. PICK h : IsRun(n, R, b, l, h)
    BY ONLY <2>2, Iterated
  <2>4. h \in [0..n -> R] /\ h[0] = b /\ \A k \in 1..n : h[k] = l[k][h[k - 1]]
    BY <2>3 DEF IsRun
  <2>5. ASSUME NEW k \in 0..n
        PROVE  h[k] = IF k = 0 THEN a ELSE run(h[k - 1], m, q[k])
    <3>1. CASE k = 0
      BY <2>1, <2>4, <3>1
    <3>2. CASE k # 0
      <4>1. k \in 1..n /\ h[k - 1] \in S
        BY <1>4, <2>1, <2>4, <3>2
      <4> QED BY <1>9, <2>1, <2>4, <3>2, <4>1
    <3> QED BY <3>1, <3>2
  <2>6. h = [k \in 0..n |-> IF k = 0 THEN a ELSE run(h[k - 1], m, q[k])]
    BY <2>4, <2>5
  <2>7. \E f : f = [k \in 0..Len(modal[m].waits[i]) |->
                 IF k = 0 THEN a ELSE run(f[k - 1], m, modal[m].waits[i][k])]
    BY <1>n, <1>3, <2>6
  <2>8. after = [k \in 0..Len(modal[m].waits[i]) |->
                   IF k = 0 THEN a ELSE run(after[k - 1], m, modal[m].waits[i][k])]
    BY <1>2, <2>7, Zenon
  <2> QED BY <1>n, <1>3, <2>8
<1>11. /\ after = [k \in 0..n |-> after[k]] /\ after[0] = a
       /\ \A k \in 1..n : after[k] = run(after[k - 1], m, q[k])
  <2>1. \A k \in 0..n : after[k] = IF k = 0 THEN a ELSE run(after[k - 1], m, q[k])
    BY <1>10, Zenon
  <2>2. DOMAIN after = 0..n /\ after = [k \in DOMAIN after |-> after[k]]
    BY <1>10, Zenon
  <2>3. 0 \in 0..n /\ \A k \in 1..n : k \in 0..n /\ k # 0
    BY <1>4
  <2>4. after = [k \in 0..n |-> after[k]]
    BY <2>2, Zenon
  <2>5. after[0] = a
    BY <2>1, <2>3, Zenon
  <2>6. \A k \in 1..n : after[k] = run(after[k - 1], m, q[k])
    BY <2>1, <2>3, Zenon
  <2> QED BY <2>4, <2>5, <2>6
<1>12. after \in [0..n -> S]
  <2>1. PICK R, b, l, f : R = S /\ b = a /\ l = g /\ f = after
    OBVIOUS
  <2>2. n \in Nat /\ b \in R /\ IsLoop(n, R, l)
    BY <1>4, <1>6, <1>9, <2>1
  <2>3. f = [k \in 0..n |-> f[k]] /\ f[0] = b
    BY <1>11, <2>1
  <2>4. \A k \in 1..n : f[k - 1] \in R => f[k] = l[k][f[k - 1]]
    BY <1>9, <1>11, <2>1
  <2>5. IsRun(n, R, b, l, f)
    BY ONLY <2>2, <2>3, <2>4, RunIs
  <2> QED BY <2>1, <2>5 DEF IsRun
<1>13. PICK h : h = after[n]
  OBVIOUS
<1>14. Unmoved(a, m, h)
  BY <1>4, <1>8, <1>12, <1>13
<1>15. Page.of = modal /\ Page.body = body
  BY PageIs
<1>16. /\ Moves(Page, m, h) /\ h.of[m].isShown = Page.of[m].isShown
       /\ h.body.open = Page.body.open /\ h.body.padding = Page.body.padding
  BY <1>5, <1>14, <1>15 DEF Unmoved, Moves
<1>17. ASSUME ModalOrderly(modal[m])
       PROVE  /\ ModalOrderly(h.of[m])
              /\ h.body.trap = body.trap \/ (h.body.trap = m /\ h.of[m].isShown)
  <2>1. PICK e : e = run(a, m, modal[m].waits[i][1])
    OBVIOUS
  <2>2. /\ Len(modal[m].waits[i]) = 1 /\ ModalOrderly(e.of[m])
        /\ e.body.trap = body.trap \/ (e.body.trap = m /\ e.of[m].isShown)
    BY <1>1, <1>17, <2>1, CurtainOrderly DEF a
  <2>3. n = 1
    BY <1>n, <2>2
  <2>4. h = run(a, m, q[1])
    <3>1. after[1] = run(after[1 - 1], m, q[1])
      BY <1>11, <2>3
    <3>2. 1 - 1 = 0
      OBVIOUS
    <3> QED BY <1>11, <1>13, <2>3, <3>1, <3>2
  <2> QED BY <1>3, <2>1, <2>2, <2>4
<1>18. Ends(Page, m, h)
  BY <1>15, <1>16, <1>17 DEF Ends
<1>19. Becomes(h, m)
  BY <1>1, <1>n, <1>13
<1> QED BY <1>18, <1>19

(* Where j hides are still to come there is room for the backdrops they may raise.    *)
TurnSafe(a, m, j, h) ==
  /\ h \in PageType /\ Unmoved(a, m, h) /\ h.body = a.body
  /\ a.of[m].isShown /\ a.of[m].useBackdrop => Cardinality(Free(h.of[m])) >= j

(* A backdrop that is raised finds a place. *)
Roomy(h, m) == h.of[m].isShown /\ h.of[m].useBackdrop => Free(h.of[m]) # {}

(* So the next hide finds one. *)
LEMMA TurnRoomy ==
  ASSUME NEW a \in PageType, NEW m \in Modals, NEW j \in Nat \ {0}, NEW h, TurnSafe(a, m, j, h)
  PROVE  Roomy(h, m)
<1>1. SUFFICES ASSUME h.of[m].isShown, h.of[m].useBackdrop, Free(h.of[m]) = {}
               PROVE  FALSE
  BY DEF Roomy
<1>2. Cardinality(Free(h.of[m])) >= j
  BY <1>1 DEF TurnSafe, Unmoved
<1>3. Cardinality(Free(h.of[m])) = 0
  BY <1>1, FS_EmptySet
<1> QED BY <1>2, <1>3

(* One of them. *)
LEMMA TurnKeeps ==
  ASSUME NEW a \in PageType, NEW m \in Modals, NEW j \in Nat \ {0}, NEW h, TurnSafe(a, m, j, h),
         NEW d, d = hideModal(h, m)
  PROVE  TurnSafe(a, m, j - 1, d)
<1>1. PICK p \in PageType : p = h
  BY DEF TurnSafe
<1>2. Roomy(h, m)
  BY TurnRoomy
<1>3. /\ Unmoved(p, m, d) /\ d.body = p.body
      /\ p.of[m].isShown /\ p.of[m].useBackdrop =>
           \E i \in Free(p.of[m]) : Free(d.of[m]) = Free(p.of[m]) \ {i}
  BY <1>1, <1>2, HideModalIs DEF Roomy
<1>4. d \in PageType /\ Unmoved(a, m, d) /\ d.body = a.body
  BY <1>1, <1>3 DEF TurnSafe, Unmoved, Moves
<1>5. ASSUME a.of[m].isShown, a.of[m].useBackdrop
      PROVE  Cardinality(Free(d.of[m])) >= j - 1
  <2>1. PICK F, E : F = Free(p.of[m]) /\ E = Free(d.of[m])
    OBVIOUS
  <2>2. Cardinality(F) >= j
    BY <1>1, <1>5, <2>1 DEF TurnSafe
  <2>3. PICK i \in F : E = F \ {i}
    BY <1>1, <1>3, <1>5, <2>1 DEF TurnSafe, Unmoved
  <2>4. IsFiniteSet(F)
    <3>1. CurtainBound \in Nat
      BY ModalAssumption
    <3>2. IsFiniteSet(1..CurtainBound)
      BY <3>1, FS_Interval
    <3>3. F \subseteq 1..CurtainBound
      BY <2>1 DEF Free, Curtain
    <3> QED BY <3>2, <3>3, FS_Subset
  <2>5. Cardinality(E) = Cardinality(F) - 1
    BY <2>3, <2>4, FS_RemoveElement
  <2>6. Cardinality(F) \in Nat
    BY <2>4, FS_CardinalityType
  <2>7. Cardinality(E) >= j - 1
    BY <2>2, <2>5, <2>6
  <2> QED BY <2>1, <2>7
<1> QED BY <1>4, <1>5 DEF TurnSafe

(* All of them, one after the other. *)
LEMMA TurnsSafe ==
  ASSUME NEW a \in PageType, NEW m \in Modals, NEW n \in Nat, TurnSafe(a, m, n, a),
         NEW f, f[0] = a,
         \A k \in 1..n : f[k - 1] \in PageType /\ Roomy(f[k - 1], m) =>
                           f[k] = hideModal(f[k - 1], m)
  PROVE  \A k \in 0..n : TurnSafe(a, m, n - k, f[k])
<1> DEFINE T == {k \in 0..n : TurnSafe(a, m, n - k, f[k])}
<1>1. 0 \in T
  <2>1. n - 0 = n /\ 0 \in 0..n
    OBVIOUS
  <2> QED BY <2>1
<1>2. ASSUME NEW k \in 0..(n - 1), k \in T
      PROVE  k + 1 \in T
  <2>1. /\ k + 1 \in 1..n /\ k + 1 \in 0..n /\ (k + 1) - 1 = k
        /\ n - k \in Nat \ {0} /\ n - (k + 1) = (n - k) - 1
    OBVIOUS
  <2>2. TurnSafe(a, m, n - k, f[k])
    BY <1>2
  <2>3. Roomy(f[k], m) /\ f[k] \in PageType
    BY <2>1, <2>2, TurnRoomy DEF TurnSafe
  <2>4. f[k + 1] = hideModal(f[k], m)
    BY <2>1, <2>3
  <2>5. TurnSafe(a, m, (n - k) - 1, f[k + 1])
    BY <2>1, <2>2, <2>4, TurnKeeps
  <2> QED BY <2>1, <2>5
<1> HIDE DEF T
<1>3. 0 \in Int /\ n \in Int /\ 0 <= n
  OBVIOUS
<1>4. \A k \in 0..(n - 1) : k \in T => k + 1 \in T
  BY <1>2
<1>5. \A k \in 0..n : k \in T
  BY ONLY <1>1, <1>3, <1>4, IntervalInduction
<1> QED BY <1>5 DEF T

(* The hides are taken out before they run. *)
LEMMA HidesTaken ==
  ASSUME ModalTypeOK, NEW m \in Modals
  PROVE  LET g == [Page EXCEPT !.of[m].hides = 0]
             s == modal[m]
             v == g.of[m] IN
         /\ g \in PageType /\ Moves(Page, m, g) /\ g.body = body
         /\ v.isShown = s.isShown /\ v.useBackdrop = s.useBackdrop /\ v.hides = 0
         /\ v.visible = s.visible /\ v.in = s.in /\ v.held = s.held
         /\ v.curtains = s.curtains /\ v.waits = s.waits
<1>1. PICK g : g = [Page EXCEPT !.of[m].hides = 0]
  OBVIOUS
<1>2. PICK s \in ModalState, b \in BodyState : s = modal[m] /\ b = body
  BY DEF ModalTypeOK
<1>3. modal \in [Modals -> ModalState] /\ Page = [of |-> modal, body |-> b]
  BY <1>2 DEF ModalTypeOK, Page
<1>4. 0 \in 0..HideBound
  BY ModalAssumption
<1>5. PICK v : v = [s EXCEPT !.hides = 0]
  OBVIOUS
<1>6. /\ v \in ModalState /\ v.isShown = s.isShown /\ v.useBackdrop = s.useBackdrop
      /\ v.visible = s.visible /\ v.in = s.in /\ v.held = s.held
      /\ v.curtains = s.curtains /\ v.waits = s.waits /\ v.hides = 0
  BY <1>4, <1>5 DEF ModalState
<1>7. g = [of |-> [Page.of EXCEPT ![m] = v], body |-> b]
  BY <1>1, <1>2, <1>3, <1>5
<1>8. Page \in PageType
  BY PageIs
<1>9. Moves(Page, m, g) /\ g.of[m] = v /\ g.body = b
  BY <1>6, <1>7, <1>8, PutIs
<1> QED BY <1>1, <1>2, <1>6, <1>9 DEF Moves

(* The end of a fade-out goes through all the hides that waited for it. *)
LEMMA HideEndIs ==
  ASSUME ModalTypeOK, NEW m \in Modals, HideEnd(m)
  PROVE  \E g : Ends(Page, m, g) /\ Becomes(g, m)
<1>n. PICK n \in Nat \ {0} : n = modal[m].hides
  BY ModalAssumption DEF ModalTypeOK, ModalState, HideEnd
<1> DEFINE a == [Page EXCEPT !.of[m].hides = 0]
           after == CHOOSE f : f = [k \in 0..modal[m].hides |->
                      IF k = 0 THEN [Page EXCEPT !.of[m].hides = 0] ELSE hideModal(f[k - 1], m)]
<1>1. /\ Becomes(after[modal[m].hides], m)
      /\ modal[m].isShown /\ modal[m].useBackdrop =>
           Cardinality(Free(modal[m])) >= modal[m].hides
  BY Zenon DEF HideEnd
<1>2. after = CHOOSE f : f = [k \in 0..modal[m].hides |->
                IF k = 0 THEN a ELSE hideModal(f[k - 1], m)]
  BY Zenon
<1> HIDE DEF after
<1>3. /\ a \in PageType /\ Moves(Page, m, a) /\ a.body = body
      /\ a.of[m].isShown = modal[m].isShown /\ a.of[m].useBackdrop = modal[m].useBackdrop
      /\ a.of[m].hides = 0 /\ a.of[m].visible = modal[m].visible /\ a.of[m].in = modal[m].in
      /\ a.of[m].held = modal[m].held /\ a.of[m].curtains = modal[m].curtains
      /\ a.of[m].waits = modal[m].waits
  BY HidesTaken
<1> HIDE DEF a
<1>4. Unmoved(a, m, a)
  BY <1>3 DEF Unmoved, Moves
<1>5. TurnSafe(a, m, n, a)
  <2>1. Free(a.of[m]) = Free(modal[m])
    BY <1>3 DEF Free
  <2> QED BY <1>n, <1>1, <1>3, <1>4, <2>1 DEF TurnSafe
<1> DEFINE S == {h \in PageType : Unmoved(a, m, h)}
           turn(h) == IF Roomy(h, m) THEN hideModal(h, m) ELSE h
<1>6. a \in S
  BY <1>3, <1>4
<1>7. ASSUME NEW s \in S
      PROVE  turn(s) \in S
  <2>1. CASE Roomy(s, m)
    <3>1. PICK d : d = hideModal(s, m)
      OBVIOUS
    <3>2. Unmoved(s, m, d)
      BY <2>1, <3>1, HideModalIs DEF Roomy
    <3>3. Unmoved(a, m, s)
      OBVIOUS
    <3>4. Unmoved(a, m, d) /\ d \in PageType
      BY <3>2, <3>3 DEF Unmoved, Moves
    <3> QED BY <2>1, <3>1, <3>4
  <2>2. CASE ~Roomy(s, m)
    BY <2>2
  <2> QED BY <2>1, <2>2
<1> HIDE DEF S
<1> DEFINE g == [k \in 1..n |-> [s \in S |-> turn(s)]]
<1>8. IsLoop(n, S, g) /\ \A k \in 1..n, s \in S : Roomy(s, m) => g[k][s] = hideModal(s, m)
  BY <1>7 DEF IsLoop
<1> HIDE DEF g
<1>9. \E f : f = [k \in 0..n |-> IF k = 0 THEN a ELSE hideModal(f[k - 1], m)]
  <2>1. PICK R, b, l : R = S /\ b = a /\ l = g
    OBVIOUS
  <2>2. n \in Nat /\ b \in R /\ IsLoop(n, R, l)
    BY <1>6, <1>8, <2>1
  <2>3. PICK h : IsRun(n, R, b, l, h)
    BY ONLY <2>2, Iterated
  <2>4. h \in [0..n -> R] /\ h[0] = b /\ \A k \in 1..n : h[k] = l[k][h[k - 1]]
    BY <2>3 DEF IsRun
  <2>5. ASSUME NEW k \in 1..n
        PROVE  Roomy(h[k - 1], m) => h[k] = hideModal(h[k - 1], m)
    <3>1. k - 1 \in 0..n
      OBVIOUS
    <3>2. h[k - 1] \in S
      BY <2>1, <2>4, <3>1
    <3> QED BY <1>8, <2>1, <2>4, <3>2
  <2>6. \A k \in 1..n : h[k - 1] \in PageType /\ Roomy(h[k - 1], m) =>
                          h[k] = hideModal(h[k - 1], m)
    BY <2>5
  <2>7. h[0] = a
    BY <2>1, <2>4
  <2>8. \A k \in 0..n : TurnSafe(a, m, n - k, h[k])
    BY ONLY <1>3, m \in Modals, n \in Nat \ {0}, <1>5, <2>6, <2>7, TurnsSafe
  <2>9. ASSUME NEW k \in 0..n
        PROVE  h[k] = IF k = 0 THEN a ELSE hideModal(h[k - 1], m)
    <3>1. CASE k = 0
      BY <2>7, <3>1
    <3>2. CASE k # 0
      <4>1. k \in 1..n /\ k - 1 \in 0..n /\ n - (k - 1) \in Nat \ {0}
        BY <3>2
      <4>2. TurnSafe(a, m, n - (k - 1), h[k - 1])
        BY <2>8, <4>1
      <4>3. Roomy(h[k - 1], m)
        BY <1>3, <4>1, <4>2, TurnRoomy
      <4> QED BY <2>5, <3>2, <4>1, <4>3
    <3> QED BY <3>1, <3>2
  <2>10. h = [k \in 0..n |-> IF k = 0 THEN a ELSE hideModal(h[k - 1], m)]
    BY <2>4, <2>9
  <2> QED BY <2>10
<1>10. after = [k \in 0..n |-> IF k = 0 THEN a ELSE hideModal(after[k - 1], m)]
  <2>1. \E f : f = [k \in 0..modal[m].hides |-> IF k = 0 THEN a ELSE hideModal(f[k - 1], m)]
    BY <1>n, <1>9
  <2>2. after = [k \in 0..modal[m].hides |-> IF k = 0 THEN a ELSE hideModal(after[k - 1], m)]
    BY <1>2, <2>1, Zenon
  <2> QED BY <1>n, <2>2
<1>11. after[0] = a /\ \A k \in 1..n : after[k] = hideModal(after[k - 1], m)
  <2>1. \A k \in 0..n : after[k] = IF k = 0 THEN a ELSE hideModal(after[k - 1], m)
    BY <1>10, Zenon
  <2>2. 0 \in 0..n /\ \A k \in 1..n : k \in 0..n /\ k # 0
    OBVIOUS
  <2>3. after[0] = a
    BY <2>1, <2>2, Zenon
  <2>4. \A k \in 1..n : after[k] = hideModal(after[k - 1], m)
    BY <2>1, <2>2, Zenon
  <2> QED BY <2>3, <2>4
<1>12. \A k \in 0..n : TurnSafe(a, m, n - k, after[k])
  <2>1. PICK f : f = after
    OBVIOUS
  <2>2. f[0] = a /\ \A k \in 1..n : f[k - 1] \in PageType /\ Roomy(f[k - 1], m) =>
                                      f[k] = hideModal(f[k - 1], m)
    BY <1>11, <2>1
  <2>3. \A k \in 0..n : TurnSafe(a, m, n - k, f[k])
    BY ONLY <1>3, m \in Modals, n \in Nat \ {0}, <1>5, <2>2, TurnsSafe
  <2> QED BY <2>1, <2>3
<1>13. PICK h : h = after[n]
  OBVIOUS
<1>14. Unmoved(a, m, h) /\ h.body = a.body
  BY <1>12, <1>13 DEF TurnSafe
<1>15. Page.of = modal /\ Page.body = body
  BY PageIs
<1>16. /\ Moves(Page, m, h) /\ h.of[m].isShown = Page.of[m].isShown
       /\ h.body.open = Page.body.open /\ h.body.padding = Page.body.padding
  BY <1>3, <1>14, <1>15 DEF Unmoved, Moves
<1>17. ASSUME ModalOrderly(modal[m])
       PROVE  ModalOrderly(h.of[m])
  <2>1. ModalLeaving(modal[m])
    BY <1>n, <1>17 DEF ModalOrderly, ModalGone, ModalComing, ModalThere, ModalLifting
  <2>2. n = 1
    BY <1>n, <2>1 DEF ModalLeaving
  <2>3. h = hideModal(a, m)
    <3>1. after[1] = hideModal(after[1 - 1], m)
      BY <1>11, <2>2
    <3>2. 1 - 1 = 0
      OBVIOUS
    <3> QED BY <1>11, <1>13, <2>2, <3>1, <3>2
  <2>4. Left(a.of[m])
    BY <1>3, <2>1 DEF ModalLeaving, Left, Curtained, Awaits
  <2>5. ~a.of[m].isShown
    BY <2>4 DEF Left
  <2>6. ModalGone(h.of[m]) \/ ModalLifting(h.of[m])
    BY <1>3, <2>3, <2>4, <2>5, HideModalIs
  <2> QED BY <2>6 DEF ModalOrderly
<1>18. Ends(Page, m, h)
  BY <1>3, <1>14, <1>15, <1>16, <1>17 DEF Ends
<1>19. Becomes(h, m)
  BY <1>1, <1>n, <1>13
<1> QED BY <1>18, <1>19

(* A step within the bounds that changes no more than the end of a transition does.    *)
LEMMA EndKeeps ==
  ASSUME ModalInv, NEW m \in Modals, NEW g, Ends(Page, m, g), Becomes(g, m)
  PROVE  ModalInv'
<1>1. Page.of = modal /\ Page.body = body /\ ModalTypeOK
  BY PageIs DEF ModalInv
<1>2. /\ modal' = g.of /\ body' = g.body
      /\ hasty' = (hasty \/ ((g.of[m].isShown /\ ~modal[m].isShown) /\ Going(m))
                         \/ ((~g.of[m].isShown /\ modal[m].isShown) /\ Coming(m)))
      /\ stacked' = (stacked \/ ((g.of[m].isShown /\ ~modal[m].isShown)
                                 /\ \E o \in Modals \ {m} : modal[o].isShown))
  BY DEF Becomes
<1>3. /\ g \in PageType /\ \A o \in Modals \ {m} : g.of[o] = modal[o]
      /\ g.of[m].isShown = modal[m].isShown
      /\ g.body.open = body.open /\ g.body.padding = body.padding
      /\ ModalOrderly(modal[m]) => /\ ModalOrderly(g.of[m])
                                   /\ g.body.trap = body.trap
                                      \/ (g.body.trap = m /\ g.of[m].isShown)
  BY <1>1 DEF Ends, Moves
<1>4. hasty' = hasty /\ stacked' = stacked
  <2>1. hasty \in BOOLEAN /\ stacked \in BOOLEAN
    BY <1>1 DEF ModalTypeOK
  <2> QED BY <1>2, <1>3, <2>1
<1>5. ModalTypeOK'
  BY <1>1, <1>2, <1>3, <1>4 DEF ModalTypeOK, PageType
<1>6. ~hasty => (\A o \in Modals : ModalOrderly(g.of[o])) /\ TrapHeld(g.of, g.body)
  <2>1. SUFFICES ASSUME ~hasty
                 PROVE  (\A o \in Modals : ModalOrderly(g.of[o])) /\ TrapHeld(g.of, g.body)
    OBVIOUS
  <2>2. (\A o \in Modals : ModalOrderly(modal[o])) /\ TrapHeld(modal, body)
    BY <2>1 DEF ModalInv
  <2>3. body.trap \in Modals \cup {"none"}
    BY <1>1 DEF ModalTypeOK, BodyState
  <2> QED BY <1>3, <2>2, <2>3 DEF TrapHeld
<1>7. ~stacked => Given(g.of, g.body)
  <2>1. \A o \in Modals : g.of[o].isShown = modal[o].isShown
    BY <1>3
  <2> QED BY <1>3, <2>1 DEF ModalInv, Given
<1> QED BY <1>2, <1>4, <1>5, <1>6, <1>7 DEF ModalInv

(* A dialog is shown: nobody is hasty if it was gone, and none is stacked if no other   *)
(* was shown.                                                                          *)
LEMMA ShowKeeps ==
  ASSUME ModalInv, NEW m \in Modals, NEW g, Becomes(g, m), Moves(Page, m, g),
         ~modal[m].isShown, g.of[m].isShown, g.body.open,
         ~body.open /\ body.padding = 0 => g.body.padding = 1,
         g.body.trap \in {body.trap, m},
         ModalGone(modal[m]) => ModalOrderly(g.of[m])
  PROVE  ModalInv'
<1>1. Page.of = modal /\ Page.body = body /\ ModalTypeOK
  BY PageIs DEF ModalInv
<1>2. /\ modal' = g.of /\ body' = g.body
      /\ hasty' = (hasty \/ ((g.of[m].isShown /\ ~modal[m].isShown) /\ Going(m))
                         \/ ((~g.of[m].isShown /\ modal[m].isShown) /\ Coming(m)))
      /\ stacked' = (stacked \/ ((g.of[m].isShown /\ ~modal[m].isShown)
                                 /\ \E o \in Modals \ {m} : modal[o].isShown))
  BY DEF Becomes
<1>3. g \in PageType /\ \A o \in Modals \ {m} : g.of[o] = modal[o]
  BY <1>1 DEF Moves
<1>4. /\ hasty' \in BOOLEAN /\ stacked' \in BOOLEAN
      /\ ~hasty' => ~hasty /\ ~Going(m)
      /\ ~stacked' => ~stacked /\ \A o \in Modals \ {m} : ~modal[o].isShown
  BY <1>2
<1>5. ModalTypeOK'
  BY <1>2, <1>3, <1>4 DEF ModalTypeOK, PageType
<1>6. ~hasty' => (\A o \in Modals : ModalOrderly(g.of[o])) /\ TrapHeld(g.of, g.body)
  <2>1. SUFFICES ASSUME ~hasty, ~Going(m)
                 PROVE  (\A o \in Modals : ModalOrderly(g.of[o])) /\ TrapHeld(g.of, g.body)
    BY <1>4
  <2>2. (\A o \in Modals : ModalOrderly(modal[o])) /\ TrapHeld(modal, body)
    BY <2>1 DEF ModalInv
  <2>3. PICK s : s = modal[m]
    OBVIOUS
  <2>4. ModalGone(s)
    <3>1. ~ModalComing(s) /\ ~ModalThere(s)
      BY <2>3 DEF ModalComing, ModalThere
    <3>2. ~ModalLeaving(s)
      BY <2>1, <2>3 DEF ModalLeaving, Going
    <3>3. ASSUME ModalLifting(s)
          PROVE  FALSE
      <4>1. s.held \in Curtain /\ s.waits[s.held] = <<"remove">>
        BY <3>3 DEF ModalLifting, Curtained, Awaits
      <4>2. PICK q : q = <<"remove">>
        OBVIOUS
      <4>3. 1 \in DOMAIN q /\ q[1] # "show"
        BY <4>2
      <4> QED BY <2>1, <2>3, <4>1, <4>2, <4>3 DEF Going
    <3> QED BY <2>2, <2>3, <3>1, <3>2, <3>3 DEF ModalOrderly
  <2>5. \A o \in Modals : ModalOrderly(g.of[o])
    BY <1>3, <2>2, <2>3, <2>4
  <2>6. body.trap \in Modals \cup {"none"}
    BY <1>1 DEF ModalTypeOK, BodyState
  <2>7. TrapHeld(g.of, g.body)
    BY <1>3, <2>2, <2>6 DEF TrapHeld
  <2> QED BY <2>5, <2>7
<1>7. ~stacked' => Given(g.of, g.body)
  <2>1. SUFFICES ASSUME ~stacked, \A o \in Modals \ {m} : ~modal[o].isShown
                 PROVE  Given(g.of, g.body)
    BY <1>4
  <2>2. Given(modal, body)
    BY <2>1 DEF ModalInv
  <2>3. ~body.open
    BY <2>1, <2>2 DEF Given
  <2>4. body.padding = 0
    BY <2>2, <2>3 DEF Given
  <2>5. \A o \in Modals \ {m} : ~g.of[o].isShown
    BY <1>3, <2>1
  <2>6. g.body.open /\ g.body.padding = 1
    BY <2>3, <2>4
  <2> QED BY <2>5, <2>6 DEF Given
<1> QED BY <1>2, <1>4, <1>5, <1>6, <1>7 DEF ModalInv

(* A dialog is hidden: nobody is hasty if it was there, and it was the only one unless *)
(* they were stacked.                                                                  *)
LEMMA HideKeeps ==
  ASSUME ModalInv, NEW m \in Modals, NEW g, Becomes(g, m), Moves(Page, m, g),
         modal[m].isShown, ~g.of[m].isShown, ~g.body.open, g.body.padding = 0,
         g.body.trap = "none", ModalThere(modal[m]) => ModalOrderly(g.of[m])
  PROVE  ModalInv'
<1>1. Page.of = modal /\ Page.body = body /\ ModalTypeOK
  BY PageIs DEF ModalInv
<1>2. /\ modal' = g.of /\ body' = g.body
      /\ hasty' = (hasty \/ ((g.of[m].isShown /\ ~modal[m].isShown) /\ Going(m))
                         \/ ((~g.of[m].isShown /\ modal[m].isShown) /\ Coming(m)))
      /\ stacked' = (stacked \/ ((g.of[m].isShown /\ ~modal[m].isShown)
                                 /\ \E o \in Modals \ {m} : modal[o].isShown))
  BY DEF Becomes
<1>3. g \in PageType /\ \A o \in Modals \ {m} : g.of[o] = modal[o]
  BY <1>1 DEF Moves
<1>4. /\ hasty' \in BOOLEAN /\ stacked' \in BOOLEAN
      /\ ~hasty' => ~hasty /\ ~Coming(m)
      /\ ~stacked' => ~stacked
  BY <1>2
<1>5. ModalTypeOK'
  BY <1>2, <1>3, <1>4 DEF ModalTypeOK, PageType
<1>6. ~hasty' => (\A o \in Modals : ModalOrderly(g.of[o])) /\ TrapHeld(g.of, g.body)
  <2>1. SUFFICES ASSUME ~hasty, ~Coming(m)
                 PROVE  \A o \in Modals : ModalOrderly(g.of[o])
    BY <1>4 DEF TrapHeld
  <2>2. \A o \in Modals : ModalOrderly(modal[o])
    BY <2>1 DEF ModalInv
  <2>3. PICK s : s = modal[m]
    OBVIOUS
  <2>4. ModalThere(s)
    <3>1. ~ModalGone(s) /\ ~ModalLeaving(s) /\ ~ModalLifting(s)
      BY <2>3 DEF ModalGone, ModalLeaving, ModalLifting
    <3>2. ASSUME ModalComing(s)
          PROVE  FALSE
      <4>1. s.held \in Curtain /\ s.waits[s.held] = <<"show">>
        BY <3>2 DEF ModalComing, Curtained, Awaits
      <4>2. PICK q : q = <<"show">>
        OBVIOUS
      <4>3. 1 \in DOMAIN q /\ q[1] = "show"
        BY <4>2
      <4> QED BY <2>1, <2>3, <4>1, <4>2, <4>3 DEF Coming
    <3> QED BY <2>2, <2>3, <3>1, <3>2 DEF ModalOrderly
  <2> QED BY <1>3, <2>2, <2>3, <2>4
<1>7. ~stacked' => Given(g.of, g.body)
  <2>1. SUFFICES ASSUME ~stacked
                 PROVE  Given(g.of, g.body)
    BY <1>4
  <2>2. Given(modal, body)
    BY <2>1 DEF ModalInv
  <2>3. \A o \in Modals : ~g.of[o].isShown
    BY <1>3, <2>2 DEF Given
  <2> QED BY <2>3 DEF Given
<1> QED BY <1>2, <1>4, <1>5, <1>6, <1>7 DEF ModalInv

(* A step that leaves the page as it is. *)
LEMMA NothingEnds ==
  ASSUME ModalTypeOK, NEW m \in Modals
  PROVE  Ends(Page, m, Page)
BY PageIs DEF Ends, Moves

(* show and hide, refused, prevented or done. *)
LEMMA ShowModalKeeps ==
  ASSUME ModalInv, NEW m \in Modals, Room(m), Becomes(showModal(Page, m), m)
  PROVE  ModalInv'
<1>1. Page \in PageType /\ Page.of = modal /\ Page.body = body /\ ModalTypeOK
  BY PageIs DEF ModalInv
<1>2. PICK g : g = showModal(Page, m)
  OBVIOUS
<1>3. \/ g = Page
      \/ /\ ~modal[m].isShown /\ Moves(Page, m, g)
         /\ g.of[m].isShown /\ g.body.open
         /\ ~body.open /\ body.padding = 0 => g.body.padding = 1
         /\ g.body.trap \in {body.trap, m}
         /\ ModalGone(modal[m]) => ModalOrderly(g.of[m])
  BY <1>1, <1>2, ShowIs DEF Room
<1>4. Becomes(g, m)
  BY <1>2
<1>5. CASE g = Page
  BY <1>1, <1>4, <1>5, NothingEnds, EndKeeps
<1>6. CASE g # Page
  BY <1>3, <1>4, <1>6, ShowKeeps
<1> QED BY <1>5, <1>6

(* And hide. *)
LEMMA HideModalKeeps ==
  ASSUME ModalInv, NEW m \in Modals, Room(m), Becomes(hideModalBegin(Page, m), m)
  PROVE  ModalInv'
<1>1. Page \in PageType /\ Page.of = modal /\ Page.body = body /\ ModalTypeOK
  BY PageIs DEF ModalInv
<1>2. PICK g : g = hideModalBegin(Page, m)
  OBVIOUS
<1>3. \/ g = Page
      \/ /\ modal[m].isShown /\ Moves(Page, m, g)
         /\ ~g.of[m].isShown
         /\ ~g.body.open /\ g.body.padding = 0 /\ g.body.trap = "none"
         /\ ModalThere(modal[m]) => ModalOrderly(g.of[m])
  BY <1>1, <1>2, HideBeginIs DEF Room
<1>4. Becomes(g, m)
  BY <1>2
<1>5. CASE g = Page
  BY <1>1, <1>4, <1>5, NothingEnds, EndKeeps
<1>6. CASE g # Page
  BY <1>3, <1>4, <1>6, HideKeeps
<1> QED BY <1>5, <1>6

(* The dialogs as the page loads them. *)
LEMMA ModalBegins ==
  ASSUME NEW all \in BOOLEAN, ModalInit(all)
  PROVE  ModalInv
<1>1. PICK used \in BOOLEAN :
        modal = [m \in Modals |-> [
          isShown |-> FALSE, visible |-> FALSE, in |-> FALSE, useBackdrop |-> used,
          curtains |-> {}, waits |-> [i \in Curtain |-> <<>>], held |-> 0,
          hides |-> 0, bar |-> FALSE]]
  <2>1. \A u \in some(BOOLEAN, all) : u \in BOOLEAN
    BY SomeIsIn
  <2> QED BY <2>1 DEF ModalInit
<1>2. PICK e \in Waits : e = <<>>
  <2>1. <<>> \in Waits
    BY DEF Waits
  <2> QED BY <2>1
<1>3. PICK w : w = [i \in Curtain |-> e]
  OBVIOUS
<1>4. PICK s : s = [isShown |-> FALSE, visible |-> FALSE, in |-> FALSE, useBackdrop |-> used,
                    curtains |-> {}, waits |-> w, held |-> 0, hides |-> 0, bar |-> FALSE]
  OBVIOUS
<1>5. modal = [m \in Modals |-> s]
  BY <1>1, <1>2, <1>3, <1>4
<1>6. 0 \in 0..CurtainBound /\ 0 \in 0..HideBound /\ 0 \notin Curtain
  BY ModalAssumption DEF Curtain
<1>7. s \in ModalState
  BY <1>3, <1>4, <1>6 DEF ModalState
<1>8. ModalGone(s)
  BY <1>2, <1>3, <1>4 DEF ModalGone, Awaits
<1>9. PICK b : b = [open |-> FALSE, padding |-> 0, trap |-> "none"]
  OBVIOUS
<1>10. body = b /\ hasty = FALSE /\ stacked = FALSE
  BY <1>9 DEF ModalInit
<1>11. b \in BodyState
  <2>1. "none" \in Modals \cup {"none"} /\ 0 \in Nat
    OBVIOUS
  <2> QED BY <1>9, <2>1 DEF BodyState
<1>12. ModalTypeOK
  BY <1>5, <1>7, <1>10, <1>11 DEF ModalTypeOK
<1>13. \A m \in Modals : ModalOrderly(modal[m]) /\ ~modal[m].isShown
  BY <1>4, <1>5, <1>8 DEF ModalOrderly
<1>14. TrapHeld(modal, body)
  BY <1>9, <1>10 DEF TrapHeld
<1>15. Given(modal, body)
  BY <1>9, <1>10, <1>13 DEF Given
<1> QED BY <1>12, <1>13, <1>14, <1>15 DEF ModalInv

(* Every link, call, key and end of a transition keeps the dialogs in order. *)
LEMMA ModalKeeps ==
  ASSUME ModalInv, ModalNext, transition' = transition, veto' = veto
  PROVE  ModalInv'
<1>0. ModalTypeOK
  BY DEF ModalInv
<1>1. PICK m \in Modals :
        \/ \E option \in {"show", "hide", "toggle"} : CallModal(m, option)
        \/ DismissModal(m)
        \/ \E i \in Curtain : CurtainEnd(m, i)
        \/ HideEnd(m)
  BY DEF ModalNext
<1>2. ASSUME NEW option \in {"show", "hide", "toggle"}, CallModal(m, option)
      PROVE  ModalInv'
  <2>1. CASE option = "show"
    BY <1>2, <2>1, ShowModalKeeps DEF CallModal
  <2>2. CASE option = "hide"
    BY <1>2, <2>2, HideModalKeeps DEF CallModal
  <2>3. CASE option = "toggle"
    <3>1. Room(m) /\ Becomes(toggleModal(Page, m), m)
      BY <1>2, <2>3 DEF CallModal
    <3>2. toggleModal(Page, m) = hideModalBegin(Page, m)
          \/ toggleModal(Page, m) = showModal(Page, m)
      BY DEF toggleModal
    <3>3. CASE toggleModal(Page, m) = hideModalBegin(Page, m)
      BY <3>1, <3>3, HideModalKeeps
    <3>4. CASE toggleModal(Page, m) = showModal(Page, m)
      BY <3>1, <3>4, ShowModalKeeps
    <3> QED BY <3>2, <3>3, <3>4
  <2> QED BY <2>1, <2>2, <2>3
<1>3. ASSUME DismissModal(m)
      PROVE  ModalInv'
  BY <1>3, HideModalKeeps DEF DismissModal
<1>4. ASSUME NEW i \in Curtain, CurtainEnd(m, i)
      PROVE  ModalInv'
  BY <1>0, <1>4, CurtainEndIs, EndKeeps
<1>5. ASSUME HideEnd(m)
      PROVE  ModalInv'
  BY <1>0, <1>5, HideEndIs, EndKeeps
<1> QED BY <1>1, <1>2, <1>3, <1>4, <1>5

(* And a step of another widget. *)
LEMMA ModalStays ==
  ASSUME ModalInv, UNCHANGED modalVars
  PROVE  ModalInv'
<1>1. modal' = modal /\ body' = body /\ hasty' = hasty /\ stacked' = stacked
  BY DEF modalVars
<1> QED BY <1>1 DEF ModalInv, ModalTypeOK

-----------------------------------------------------------------------------
(* The page. *)

(* A widget's invariant speaks of its own variables only. *)
LEMMA ButtonStays == ButtonInv /\ UNCHANGED buttonVars => ButtonInv'
<1> SUFFICES ASSUME ButtonInv, UNCHANGED buttonVars PROVE ButtonInv'
  OBVIOUS
<1>1. group' = group /\ submit' = submit
  BY DEF buttonVars
<1> QED BY <1>1 DEF ButtonInv, ButtonTypeOK, PressedIsChecked, TimersAgree

(* So does the tip's. *)
LEMMA PlacementStays == PlacementSound /\ UNCHANGED placeVars => PlacementSound'
<1> SUFFICES ASSUME PlacementSound, UNCHANGED placeVars PROVE PlacementSound'
  OBVIOUS
<1>1. placed' = placed
  BY DEF placeVars
<1>2. PlacementTypeOK'
  BY <1>1 DEF PlacementSound, PlacementTypeOK
<1>3. InViewport'
  BY <1>1 DEF PlacementSound, InViewport, Beside
<1>4. SideHasRoom'
  BY <1>1 DEF PlacementSound, SideHasRoom
<1>5. ArrowPoints'
  BY <1>1 DEF PlacementSound, ArrowPoints, Beside
<1> QED BY <1>2, <1>3, <1>4, <1>5 DEF PlacementSound

(* The scroll spy's. *)
LEMMA SpyStays == SpyInv /\ UNCHANGED spyVars => SpyInv'
<1> SUFFICES ASSUME SpyInv, UNCHANGED spyVars PROVE SpyInv'
  OBVIOUS
<1>1. layout' = layout /\ spy' = spy
  BY DEF spyVars
<1> QED BY <1>1 DEF SpyInv, HeightNoticed

(* And the pinned element's, of what the application prevents too. *)
LEMMA AffixStays == AffixInv /\ UNCHANGED <<affixVars, veto>> => AffixInv'
<1> SUFFICES ASSUME AffixInv, UNCHANGED <<affixVars, veto>> PROVE AffixInv'
  OBVIOUS
<1>1. affix' = affix /\ settled' = settled /\ veto' = veto
  BY DEF affixVars
<1> QED BY <1>1 DEF AffixInv

(* The menus', of what the application prevents too. *)
LEMMA DropdownStays == DropdownInv /\ UNCHANGED <<dropdownVars, veto>> => DropdownInv'
<1> SUFFICES ASSUME DropdownInv, UNCHANGED <<dropdownVars, veto>> PROVE DropdownInv'
  OBVIOUS
<1>1. dropdown' = dropdown /\ focused' = focused /\ veto' = veto
  BY DEF dropdownVars
<1> QED BY <1>1 DEF DropdownInv, MenusSound

(* And the alerts'. *)
LEMMA AlertStays == AlertInv /\ UNCHANGED alertVars => AlertInv'
<1> SUFFICES ASSUME AlertInv, UNCHANGED alertVars PROVE AlertInv'
  OBVIOUS
<1>1. alert' = alert
  BY DEF alertVars
<1> QED BY <1>1 DEF AlertInv, AlertSafe

(* The invariants of the eleven widgets together. *)
PageInv ==
  /\ ButtonInv /\ PlacementSound /\ SpyInv /\ AffixInv /\ DropdownInv /\ AlertInv
  /\ CarouselInv /\ TabInv /\ TooltipInv /\ CollapseInv /\ ModalInv

(* A step that leaves alone all that they speak of. *)
LEMMA PageStays ==
  ASSUME PageInv, UNCHANGED <<pageVars, buttonVars, placeVars, spyVars, affixVars,
                              dropdownVars, alertVars, carouselVars, tabVars, tooltipVars,
                              collapseVars, modalVars>>
  PROVE  PageInv'
<1>1. transition' = transition /\ veto' = veto
  BY DEF pageVars
<1>2. ButtonInv' /\ PlacementSound' /\ SpyInv' /\ AffixInv'
  BY <1>1, ButtonStays, PlacementStays, SpyStays, AffixStays DEF PageInv
<1>3. DropdownInv' /\ AlertInv' /\ CarouselInv' /\ TabInv'
  BY <1>1, DropdownStays, AlertStays, CarouselStays, TabStays DEF PageInv
<1>4. TooltipInv' /\ CollapseInv' /\ ModalInv'
  BY <1>1, TooltipStays, CollapseStays, ModalStays DEF PageInv
<1> QED BY <1>2, <1>3, <1>4 DEF PageInv

(* The page as it loads, whichever widget the behaviour is about. *)
LEMMA PageBegins == Init => PageInv
<1> SUFFICES ASSUME Init PROVE PageInv
  OBVIOUS
<1>1. ButtonInit(widget = "button") /\ (widget = "button") \in BOOLEAN
  BY DEF Init
<1>2. ScrollSpyInit(widget = "scrollspy") /\ (widget = "scrollspy") \in BOOLEAN
  BY DEF Init
<1>3. AffixInit(widget = "affix") /\ (widget = "affix") \in BOOLEAN
  BY DEF Init
<1>4. PlacementInit
  BY DEF Init
<1>5. ButtonInv
  BY <1>1, ButtonBegins
<1>6. SpyInv
  BY <1>2, SpyBegins
<1>7. AffixInv
  BY <1>3, AffixBegins
<1>8. DropdownInit(widget = "dropdown") /\ (widget = "dropdown") \in BOOLEAN
  BY DEF Init
<1>9. AlertInit
  BY DEF Init
<1>10. DropdownInv
  BY <1>8, DropdownBegins
<1>11. CarouselInit(widget = "carousel") /\ (widget = "carousel") \in BOOLEAN
  BY DEF Init
<1>12. CarouselInv
  BY <1>11, CarouselBegins
<1>13. TabInit(widget = "tab") /\ (widget = "tab") \in BOOLEAN
  BY DEF Init
<1>14. TabInv
  BY <1>13, TabBegins
<1>15. TooltipInit(widget = "tooltip") /\ (widget = "tooltip") \in BOOLEAN
  BY DEF Init
<1>16. transition \in BOOLEAN
  BY DEF Init, PageInit
<1>17. TooltipInv
  BY <1>15, <1>16, TooltipBegins
<1>c. CollapseInit(widget = "collapse") /\ (widget = "collapse") \in BOOLEAN
  BY DEF Init
<1>18. ModalInit(widget = "modal") /\ (widget = "modal") \in BOOLEAN
  BY DEF Init
<1>19. CollapseInv
  BY <1>c, CollapseBegins
<1>20. ModalInv
  BY <1>18, ModalBegins
<1> QED BY <1>4, <1>5, <1>6, <1>7, <1>9, <1>10, <1>12, <1>14, <1>17, <1>19, <1>20,
           PlacementBegins, AlertBegins DEF PageInv

(* Every step of any widget keeps them. *)
LEMMA PageKeeps == PageInv /\ [Next]_vars => PageInv'
<1> SUFFICES ASSUME PageInv, [Next]_vars PROVE PageInv'
  OBVIOUS
<1> USE DEF PageInv
<1>1. CASE ButtonStep
  <2>1. ButtonNext /\ transition' = transition /\ veto' = veto
    BY <1>1 DEF ButtonStep, Only, pageVars
  <2>2. UNCHANGED <<placeVars, spyVars, affixVars, dropdownVars, alertVars,
                    carouselVars, tabVars, tooltipVars, collapseVars, modalVars>>
    BY <1>1 DEF ButtonStep, Only
  <2>3. ButtonInv'
    BY <2>1, ButtonKeeps
  <2>4. PlacementSound' /\ SpyInv' /\ AffixInv' /\ DropdownInv'
    BY <2>1, <2>2, PlacementStays, SpyStays, AffixStays, DropdownStays
  <2>5. AlertInv' /\ CarouselInv' /\ TabInv' /\ TooltipInv'
    BY <2>1, <2>2, AlertStays, CarouselStays, TabStays, TooltipStays
  <2>6. CollapseInv' /\ ModalInv'
    BY <2>1, <2>2, CollapseStays, ModalStays
  <2> QED BY <2>3, <2>4, <2>5, <2>6
<1>2. CASE PlacementStep
  <2>1. PlacementNext /\ transition' = transition /\ veto' = veto
    BY <1>2 DEF PlacementStep, Only, pageVars
  <2>2. UNCHANGED <<buttonVars, spyVars, affixVars, dropdownVars, alertVars,
                    carouselVars, tabVars, tooltipVars, collapseVars, modalVars>>
    BY <1>2 DEF PlacementStep, Only
  <2>3. PlacementSound'
    BY <2>1, PlacementKeeps
  <2>4. ButtonInv' /\ SpyInv' /\ AffixInv' /\ DropdownInv'
    BY <2>1, <2>2, ButtonStays, SpyStays, AffixStays, DropdownStays
  <2>5. AlertInv' /\ CarouselInv' /\ TabInv' /\ TooltipInv'
    BY <2>1, <2>2, AlertStays, CarouselStays, TabStays, TooltipStays
  <2>6. CollapseInv' /\ ModalInv'
    BY <2>1, <2>2, CollapseStays, ModalStays
  <2> QED BY <2>3, <2>4, <2>5, <2>6
<1>3. CASE ScrollSpyStep
  <2>1. ScrollSpyNext /\ transition' = transition /\ veto' = veto
    BY <1>3 DEF ScrollSpyStep, Only, pageVars
  <2>2. UNCHANGED <<buttonVars, placeVars, affixVars, dropdownVars, alertVars,
                    carouselVars, tabVars, tooltipVars, collapseVars, modalVars>>
    BY <1>3 DEF ScrollSpyStep, Only
  <2>3. SpyInv'
    BY <2>1, SpyKeeps
  <2>4. ButtonInv' /\ PlacementSound' /\ AffixInv' /\ DropdownInv'
    BY <2>1, <2>2, ButtonStays, PlacementStays, AffixStays, DropdownStays
  <2>5. AlertInv' /\ CarouselInv' /\ TabInv' /\ TooltipInv'
    BY <2>1, <2>2, AlertStays, CarouselStays, TabStays, TooltipStays
  <2>6. CollapseInv' /\ ModalInv'
    BY <2>1, <2>2, CollapseStays, ModalStays
  <2> QED BY <2>3, <2>4, <2>5, <2>6
<1>4. CASE AffixStep
  <2>1. AffixNext /\ transition' = transition /\ veto' = veto
    BY <1>4 DEF AffixStep, Only, pageVars
  <2>2. UNCHANGED <<buttonVars, placeVars, spyVars, dropdownVars, alertVars,
                    carouselVars, tabVars, tooltipVars, collapseVars, modalVars>>
    BY <1>4 DEF AffixStep, Only
  <2>3. AffixInv'
    BY <2>1, AffixKeeps
  <2>4. ButtonInv' /\ PlacementSound' /\ SpyInv' /\ DropdownInv'
    BY <2>1, <2>2, ButtonStays, PlacementStays, SpyStays, DropdownStays
  <2>5. AlertInv' /\ CarouselInv' /\ TabInv' /\ TooltipInv'
    BY <2>1, <2>2, AlertStays, CarouselStays, TabStays, TooltipStays
  <2>6. CollapseInv' /\ ModalInv'
    BY <2>1, <2>2, CollapseStays, ModalStays
  <2> QED BY <2>3, <2>4, <2>5, <2>6
<1>5. CASE DropdownStep
  <2>1. DropdownNext /\ transition' = transition /\ veto' = veto
    BY <1>5 DEF DropdownStep, Only, pageVars
  <2>2. UNCHANGED <<buttonVars, placeVars, spyVars, affixVars, alertVars, carouselVars,
                    tabVars, tooltipVars, collapseVars, modalVars>>
    BY <1>5 DEF DropdownStep, Only
  <2>3. DropdownInv'
    BY <2>1, DropdownKeeps
  <2>4. ButtonInv' /\ PlacementSound' /\ SpyInv' /\ AffixInv'
    BY <2>1, <2>2, ButtonStays, PlacementStays, SpyStays, AffixStays
  <2>5. AlertInv' /\ CarouselInv' /\ TabInv' /\ TooltipInv'
    BY <2>1, <2>2, AlertStays, CarouselStays, TabStays, TooltipStays
  <2>6. CollapseInv' /\ ModalInv'
    BY <2>1, <2>2, CollapseStays, ModalStays
  <2> QED BY <2>3, <2>4, <2>5, <2>6
<1>6. CASE AlertStep
  <2>1. AlertNext /\ transition' = transition /\ veto' = veto
    BY <1>6 DEF AlertStep, Only, pageVars
  <2>2. UNCHANGED <<buttonVars, placeVars, spyVars, affixVars, dropdownVars,
                    carouselVars, tabVars, tooltipVars, collapseVars, modalVars>>
    BY <1>6 DEF AlertStep, Only
  <2>3. AlertInv'
    BY <2>1, AlertKeeps
  <2>4. ButtonInv' /\ PlacementSound' /\ SpyInv' /\ AffixInv'
    BY <2>1, <2>2, ButtonStays, PlacementStays, SpyStays, AffixStays
  <2>5. DropdownInv' /\ CarouselInv' /\ TabInv' /\ TooltipInv'
    BY <2>1, <2>2, DropdownStays, CarouselStays, TabStays, TooltipStays
  <2>6. CollapseInv' /\ ModalInv'
    BY <2>1, <2>2, CollapseStays, ModalStays
  <2> QED BY <2>3, <2>4, <2>5, <2>6
<1>7. CASE CarouselStep
  <2>1. CarouselNext /\ transition' = transition /\ veto' = veto
    BY <1>7 DEF CarouselStep, Only, pageVars
  <2>2. UNCHANGED <<buttonVars, placeVars, spyVars, affixVars, dropdownVars, alertVars,
                    tabVars, tooltipVars, collapseVars, modalVars>>
    BY <1>7 DEF CarouselStep, Only
  <2>3. CarouselInv'
    BY <2>1, CarouselKeeps
  <2>4. ButtonInv' /\ PlacementSound' /\ SpyInv' /\ AffixInv'
    BY <2>1, <2>2, ButtonStays, PlacementStays, SpyStays, AffixStays
  <2>5. DropdownInv' /\ AlertInv' /\ TabInv' /\ TooltipInv'
    BY <2>1, <2>2, DropdownStays, AlertStays, TabStays, TooltipStays
  <2>6. CollapseInv' /\ ModalInv'
    BY <2>1, <2>2, CollapseStays, ModalStays
  <2> QED BY <2>3, <2>4, <2>5, <2>6
<1>8. CASE TabStep
  <2>1. TabNext /\ transition' = transition /\ veto' = veto
    BY <1>8 DEF TabStep, Only, pageVars
  <2>2. UNCHANGED <<buttonVars, placeVars, spyVars, affixVars, dropdownVars, alertVars,
                    carouselVars, tooltipVars, collapseVars, modalVars>>
    BY <1>8 DEF TabStep, Only
  <2>3. TabInv'
    BY <2>1, TabKeeps
  <2>4. ButtonInv' /\ PlacementSound' /\ SpyInv' /\ AffixInv'
    BY <2>1, <2>2, ButtonStays, PlacementStays, SpyStays, AffixStays
  <2>5. DropdownInv' /\ AlertInv' /\ CarouselInv' /\ TooltipInv'
    BY <2>1, <2>2, DropdownStays, AlertStays, CarouselStays, TooltipStays
  <2>6. CollapseInv' /\ ModalInv'
    BY <2>1, <2>2, CollapseStays, ModalStays
  <2> QED BY <2>3, <2>4, <2>5, <2>6
<1>9. CASE TooltipStep
  <2>1. TooltipNext /\ transition' = transition /\ veto' = veto
    BY <1>9 DEF TooltipStep, Only, pageVars
  <2>2. UNCHANGED <<buttonVars, placeVars, spyVars, affixVars, dropdownVars, alertVars,
                    carouselVars, tabVars, collapseVars, modalVars>>
    BY <1>9 DEF TooltipStep, Only
  <2>3. TooltipInv'
    BY <2>1, TooltipKeeps
  <2>4. ButtonInv' /\ PlacementSound' /\ SpyInv' /\ AffixInv'
    BY <2>1, <2>2, ButtonStays, PlacementStays, SpyStays, AffixStays
  <2>5. DropdownInv' /\ AlertInv' /\ CarouselInv' /\ TabInv'
    BY <2>1, <2>2, DropdownStays, AlertStays, CarouselStays, TabStays
  <2>6. CollapseInv' /\ ModalInv'
    BY <2>1, <2>2, CollapseStays, ModalStays
  <2> QED BY <2>3, <2>4, <2>5, <2>6
<1>10. CASE CollapseStep
  <2>1. CollapseNext /\ transition' = transition /\ veto' = veto
    BY <1>10 DEF CollapseStep, Only, pageVars
  <2>2. UNCHANGED <<buttonVars, placeVars, spyVars, affixVars, dropdownVars, alertVars,
                    carouselVars, tabVars, tooltipVars, modalVars>>
    BY <1>10 DEF CollapseStep, Only
  <2>3. CollapseInv'
    BY <2>1, CollapseKeeps
  <2>4. ButtonInv' /\ PlacementSound' /\ SpyInv' /\ AffixInv'
    BY <2>1, <2>2, ButtonStays, PlacementStays, SpyStays, AffixStays
  <2>5. DropdownInv' /\ AlertInv' /\ CarouselInv' /\ TabInv'
    BY <2>1, <2>2, DropdownStays, AlertStays, CarouselStays, TabStays
  <2>6. TooltipInv' /\ ModalInv'
    BY <2>1, <2>2, TooltipStays, ModalStays
  <2> QED BY <2>3, <2>4, <2>5, <2>6
<1>11. CASE ModalStep
  <2>1. ModalNext /\ transition' = transition /\ veto' = veto
    BY <1>11 DEF ModalStep, Only, pageVars
  <2>2. UNCHANGED <<buttonVars, placeVars, spyVars, affixVars, dropdownVars, alertVars,
                    carouselVars, tabVars, tooltipVars, collapseVars>>
    BY <1>11 DEF ModalStep, Only
  <2>3. ModalInv'
    BY <2>1, ModalKeeps
  <2>4. ButtonInv' /\ PlacementSound' /\ SpyInv' /\ AffixInv'
    BY <2>1, <2>2, ButtonStays, PlacementStays, SpyStays, AffixStays
  <2>5. DropdownInv' /\ AlertInv' /\ CarouselInv' /\ TabInv'
    BY <2>1, <2>2, DropdownStays, AlertStays, CarouselStays, TabStays
  <2>6. TooltipInv' /\ CollapseInv'
    BY <2>1, <2>2, TooltipStays, CollapseStays
  <2> QED BY <2>3, <2>4, <2>5, <2>6
<1>12. CASE UNCHANGED vars
  BY <1>12, PageStays DEF vars
<1> QED BY <1>1, <1>2, <1>3, <1>4, <1>5, <1>6, <1>7, <1>8, <1>9, <1>10, <1>11, <1>12
       DEF Next

(* So they hold always. *)
LEMMA PageAlways == Spec => []PageInv
BY PageBegins, PageKeeps, PTL DEF Spec

(* Whatever labels are clicked, states asked for and timers run: what looks pressed  *)
(* is checked, a button is disabled exactly in loading, reset gives its own text.    *)
THEOREM ButtonsTellTheTruth == Spec => []ButtonSound
<1>1. PageInv => ButtonSound
  BY ButtonInvSound DEF PageInv
<1> QED BY <1>1, PageAlways, PTL

(* A tip that fits is inside the viewport, on a side with room, its arrow at the     *)
(* element: for every viewport, padding and place of the element.                    *)
THEOREM TipsArePlaced == Spec => []PlacementSound
<1>1. PageInv => PlacementSound
  BY DEF PageInv
<1> QED BY <1>1, PageAlways, PTL

(* At the second event of a place the scroll spy and the pinned element are what     *)
(* the place alone calls for: for every set of layouts and of page heights.          *)
THEOREM ScrollIsFollowed == Spec => []ScrollFollowed
<1>1. PageInv => ScrollFollowed
  BY SpyInvSound, AffixInvSound DEF PageInv, ScrollFollowed
<1> QED BY <1>1, PageAlways, PTL

(* One menu open at a time and the backdrop with it, and Escape leaves the focus on  *)
(* the toggle: for every number of menus and of items, whatever handlers prevent.    *)
THEOREM MenusStaySound == Spec => DropdownSound
<1>1. PageInv => DropdownTypeOK /\ OneMenuOpen /\ BackdropIffOpen
  BY DropdownInvSound DEF PageInv
<1>2. [Key("escape") /\ focused.menu \in dropdown.open
         => focused' = [menu |-> focused.menu, item |-> 0]]_dropdownVars
  BY EscapeKeeps
<1>3. Spec => [](DropdownTypeOK /\ OneMenuOpen /\ BackdropIffOpen)
  BY <1>1, PageAlways, PTL
<1>4. EscapeKeepsFocus
  BY <1>2, PTL DEF EscapeKeepsFocus
<1> QED BY <1>3, <1>4 DEF DropdownSound

(* However often and by whatever way an alert is dismissed while it fades, its       *)
(* closed event is heard once: for every set of alerts and bound on what waits.      *)
THEOREM AlertsCloseOnce == Spec => [](AlertTypeOK /\ ClosedOnce)
<1>1. PageInv => AlertTypeOK /\ ClosedOnce
  BY AlertInvSound DEF PageInv
<1> QED BY <1>1, PageAlways, PTL

(* One item of a carousel is active and its indicator with it, whatever slides, one   *)
(* interval runs at most and none under the mouse, and whoever waits for a slide is   *)
(* heard: for every number of items and every bound on what waits.                   *)
THEOREM CarouselStaysSound ==
  Spec => [](CarouselTypeOK /\ OneItemActive /\ OneInterval /\ HoverHolds /\ WaitersHeard)
<1>1. PageInv => CarouselTypeOK /\ OneItemActive /\ OneInterval /\ HoverHolds /\ WaitersHeard
  BY CarouselInvSound DEF PageInv
<1> QED BY <1>1, PageAlways, PTL

(* When the tabs rest, the pane that is seen is that of the tab, and not none: for     *)
(* every set of tabs, however the clicks fall into the transitions of the panes.      *)
THEOREM TabsStaySound == Spec => [](TabTypeOK /\ PaneOfTab /\ SomethingShown)
<1>1. PageInv => TabTypeOK /\ PaneOfTab /\ SomethingShown
  BY TabInvSound DEF PageInv
<1> QED BY <1>1, PageAlways, PTL

(* A tip that nobody asks for is gone when its timers and transitions are over, and   *)
(* one that is asked for is not taken away by the end of an earlier fade-out: for     *)
(* every bound on the callbacks that wait, all delays, whatever handlers prevent.     *)
THEOREM TipsComeAndGo == Spec => [](TooltipTypeOK /\ UnaskedTipGone) /\ TipNotTaken
<1>1. PageInv => TooltipTypeOK /\ UnaskedTipGone
  BY TooltipInvSound DEF PageInv
<1>2. PageInv /\ [Next]_vars =>
        [over /\ over' /\ tip.attached /\ tip.in /\ tip'.in /\ "flicker" \notin mishaps'
           => tip'.attached]_tooltipVars
  <2> SUFFICES ASSUME PageInv, [Next]_vars, over, over', tip.attached, tip.in, tip'.in,
                      "flicker" \notin mishaps', UNCHANGED tooltipVars => FALSE
               PROVE  tip'.attached
    OBVIOUS
  <2>1. TooltipStep
    BY DEF Next, vars, Only, AlertStep, ButtonStep, DropdownStep, TabStep, CarouselStep,
           CollapseStep, ModalStep, PlacementStep, ScrollSpyStep, AffixStep
  <2> QED BY <2>1, TooltipTakesNot DEF TooltipStep, PageInv
<1>3. Spec => [](TooltipTypeOK /\ UnaskedTipGone)
  BY <1>1, PageAlways, PTL
<1>4. Spec => TipNotTaken
  BY <1>2, PageAlways, PTL DEF Spec, TipNotTaken
<1> QED BY <1>3, <1>4

(* No panel waits for what will not come, and an accordion whose links alone are used *)
(* is one: one panel open at most and each link telling so.  For every set of panels. *)
THEOREM AccordionsStaySound ==
  Spec => [](CollapseTypeOK /\ NeverStuck /\ OneOpen /\ LinksAgree)
<1>1. PageInv => CollapseTypeOK /\ NeverStuck /\ OneOpen /\ LinksAgree
  BY CollapseInvSound DEF PageInv
<1> QED BY <1>1, PageAlways, PTL

(* A dialog let finish is all there or all gone, and the page is given back with the   *)
(* last: for every set of dialogs, and every bound on the backdrops that stay and the *)
(* hides that wait, whatever is shown again while it goes or hidden while it comes.    *)
THEOREM DialogsGiveThePageBack ==
  Spec => [](ModalTypeOK /\ AllThereOrAllGone /\ PageGivenBack)
<1>1. PageInv => ModalTypeOK /\ AllThereOrAllGone /\ PageGivenBack
  BY ModalInvSound DEF PageInv
<1> QED BY <1>1, PageAlways, PTL
=============================================================================
