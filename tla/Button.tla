-------------------------------- MODULE Button --------------------------------
(***************************************************************************)
(* bootstrap.js, button: a group of radio buttons or check boxes whose       *)
(* labels are the buttons, and a button with states: setState changes its    *)
(* text at once, and disables or enables it in a timer of its own.           *)
(***************************************************************************)
EXTENDS Transitions

CONSTANTS Labels,
          TimerBound   \* setState timers that have not run
ASSUME ButtonAssumption == IsFiniteSet(Labels) /\ TimerBound \in Nat

VARIABLES
  group,   \* the type of the inputs, the labels with class active, the checked inputs
  submit   \* the button with states

buttonVars == <<group, submit>>

Texts == {"plain", "other"}   \* what the application writes on the button
States == {"loading", "reset", "complete"}
NoText == "null"

GroupState == [type : {"radio", "checkbox"},
               active : SUBSET Labels, checked : SUBSET Labels,
               direct : BOOLEAN]   \* history: an input itself was activated

SubmitState == [text : Texts \cup {"loading", "complete"},
                resetText : Texts \cup {NoText, "loading", "complete"},
                disabled : BOOLEAN, isLoading : BOOLEAN,
                timers : Seq(States),
                last : States \cup {NoText}]   \* history: the state asked for last

ButtonInit(all) ==
  /\ group \in some({g \in GroupState :
                      /\ g.active = g.checked /\ ~g.direct
                      /\ g.type = "radio" => Cardinality(g.active) <= 1}, all)
  /\ submit = [text |-> "plain", resetText |-> NoText, disabled |-> FALSE,
               isLoading |-> FALSE, timers |-> <<>>, last |-> NoText]

-----------------------------------------------------------------------------
(* prop('checked', v) of an input; the browser keeps radio inputs exclusive. *)
check(g, l, v) ==
  IF ~v THEN [g EXCEPT !.checked = @ \ {l}]
  ELSE IF g.type = "radio" THEN [g EXCEPT !.checked = {l}]
  ELSE [g EXCEPT !.checked = @ \cup {l}]

toggleClass(S, l) == IF l \in S THEN S \ {l} ELSE S \cup {l}

toggleButton_keep(g, l) ==
  IF g.type = "radio" /\ l \in g.checked /\ l \in g.active THEN g
  ELSE [check(g, l, l \notin g.active) EXCEPT !.active = toggleClass(@, l)]

(* toggle: a radio button that is on stays on, any other puts the rest out. *)
toggleButton(g, l) ==
  IF g.type = "radio" /\ l \in g.checked /\ l \in g.active THEN g
  ELSE LET others == IF g.type = "radio" THEN [g EXCEPT !.active = {}] ELSE g
       IN  [check(others, l, l \notin others.active)
              EXCEPT !.active = toggleClass(@, l)]

(* A click on a label: preventDefault keeps the browser from checking too. *)
ClickLabel(l) ==
  /\ group' = toggleButton(group, l)
  /\ UNCHANGED submit

(* A click on the input itself, as the space bar makes it: the browser checks *)
(* it, the handler toggles, and preventDefault takes the check state back.    *)
ActivateInput(l) ==
  LET before == group.checked
      pressed == check(group, l, group.type = "radio" \/ l \notin group.checked)
  IN  /\ group' = [toggleButton(pressed, l) EXCEPT !.checked = before, !.direct = TRUE]
      /\ UNCHANGED submit

-----------------------------------------------------------------------------
(* The text of a state: of reset, what was kept when setState first ran. *)
textOf(s, state) == IF state = "reset" THEN s.resetText ELSE state

setState_overwrite(s, state) ==
  LET kept == [s EXCEPT !.resetText = s.text]
  IN  [kept EXCEPT !.text = textOf(kept, state),
                   !.timers = Append(@, state), !.last = state]

setState(s, state) ==
  LET kept == IF s.resetText = NoText THEN [s EXCEPT !.resetText = s.text] ELSE s
  IN  [kept EXCEPT !.text = textOf(kept, state),
                   !.timers = Append(@, state), !.last = state]

CallButton(state) ==
  /\ Len(submit.timers) < TimerBound
  /\ submit' = setState(submit, state)
  /\ UNCHANGED group

timer_always(s, state) ==
  IF state = "loading" THEN [s EXCEPT !.isLoading = TRUE, !.disabled = TRUE]
  ELSE s

(* What the timer does: only what loading disabled is enabled again. *)
timer(s, state) ==
  IF state = "loading" THEN [s EXCEPT !.isLoading = TRUE, !.disabled = TRUE]
  ELSE IF s.isLoading THEN [s EXCEPT !.isLoading = FALSE, !.disabled = FALSE]
  ELSE s

ButtonTimer ==
  /\ submit.timers # <<>>
  /\ submit' = [timer(submit, Head(submit.timers)) EXCEPT !.timers = Tail(@)]
  /\ UNCHANGED group

(* The application writes on the button itself. *)
WriteText(t) ==
  /\ submit.text # t
  /\ submit' = [submit EXCEPT !.text = t]
  /\ UNCHANGED group

ButtonNext ==
  \/ \E l \in Labels : ClickLabel(l) \/ ActivateInput(l)
  \/ \E state \in States : CallButton(state)
  \/ ButtonTimer
  \/ \E t \in Texts : WriteText(t)

ButtonFairness == WF_buttonVars(ButtonTimer)

-----------------------------------------------------------------------------
ButtonTypeOK ==
  /\ group \in GroupState
  /\ submit \in SubmitState

(* As long as labels are clicked, and no input itself, the labels that look    *)
(* pressed are those of the checked inputs, and radio buttons exclude each     *)
(* other, whatever was checked when the page came.                             *)
PressedIsChecked ==
  ~group.direct =>
    /\ group.active = group.checked
    /\ group.type = "radio" => Cardinality(group.active) <= 1

(* However calls and timers mix, once the timers have run the button is       *)
(* disabled exactly if loading was the last state asked for.                   *)
DisabledIffLoading ==
  submit.timers = <<>> => (submit.disabled <=> submit.last = "loading")

(* What the button gets back on reset is a text the application wrote, never   *)
(* the text of a state.                                                        *)
ResetToOwnText == submit.resetText \in Texts \cup {NoText}

(* Groups and buttons with states tell the truth: what looks pressed is checked, a   *)
(* button is disabled exactly in loading, and it gets its own text back.             *)
ButtonSound == ButtonTypeOK /\ PressedIsChecked /\ DisabledIffLoading /\ ResetToOwnText
=============================================================================
