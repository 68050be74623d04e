-------------------------------- MODULE Alert --------------------------------
(***************************************************************************)
(* bootstrap.js, alert: the alerts of a page and the buttons that dismiss    *)
(* them.  A click reaches close through the document, and once more through  *)
(* the alert if a script has made it an Alert; a dismissed alert may be      *)
(* dismissed again while it fades.                                           *)
(***************************************************************************)
EXTENDS Transitions

CONSTANTS Alerts,
          AlertBound   \* how many transitions of an alert are waited for at once
ASSUME AlertAssumption == IsFiniteSet(Alerts) /\ AlertBound \in Nat \ {0}

VARIABLE alert

alertVars == <<alert>>

AlertState == [in : BOOLEAN,             \* the class in: not faded out
               attached : BOOLEAN,
               made : BOOLEAN,           \* new Alert(el) listens for clicks
               heard : BOOLEAN,          \* the application's handlers are bound
               ends : 0..(AlertBound + 1),  \* removeElement waiting for the transition
               closed : Nat]             \* how often they heard closed.bs.alert

AlertInit ==
  alert = [a \in Alerts |->
    [in |-> TRUE, attached |-> TRUE, made |-> FALSE, heard |-> TRUE,
     ends |-> 0, closed |-> 0]]

-----------------------------------------------------------------------------
(* detach, trigger closed, remove: nothing bound to the alert survives remove. *)
removeElement_detach(s) ==
  [s EXCEPT !.attached = FALSE,
            !.closed = IF s.heard THEN @ + 1 ELSE @]

removeElement(s) ==
  [s EXCEPT !.attached = FALSE,
            !.closed = IF s.heard THEN @ + 1 ELSE @,
            !.heard = FALSE]

close_unawaited(s) ==
  IF s.heard /\ isDefaultPrevented("hide") THEN s
  ELSE LET faded == [s EXCEPT !.in = FALSE]
       IN  IF transition THEN faded ELSE removeElement(faded)

close(s) ==
  IF s.heard /\ isDefaultPrevented("hide") THEN s
  ELSE LET faded == [s EXCEPT !.in = FALSE]
       IN  IF transition THEN [faded EXCEPT !.ends = @ + 1]
           ELSE removeElement(faded)

-----------------------------------------------------------------------------
(* A click on the dismiss button, inside the alert. *)
DismissAlert(a) ==
  /\ alert[a].attached /\ alert[a].ends < AlertBound
  /\ alert' = [alert EXCEPT ![a] = IF @.made THEN close(close(@)) ELSE close(@)]

(* $(alert).alert() or .alert('close'), also of an alert that is gone. *)
CallAlert(a, option) ==
  /\ alert[a].ends < AlertBound
  /\ LET made == [alert[a] EXCEPT !.made = TRUE]
     IN  alert' = [alert EXCEPT ![a] = IF option = "close" THEN close(made) ELSE made]

(* All that waited runs, though the first removal unbinds the others. *)
AlertEnd(a) ==
  /\ alert[a].ends > 0
  /\ alert' = [alert EXCEPT ![a] =
       LET once == removeElement([@ EXCEPT !.ends = 0])
       IN  IF @.ends = 1 THEN once ELSE removeElement(once)]

AlertNext ==
  \E a \in Alerts :
    \/ DismissAlert(a)
    \/ \E option \in {"none", "close"} : CallAlert(a, option)
    \/ AlertEnd(a)

AlertFairness == \A a \in Alerts : WF_alertVars(AlertEnd(a))

-----------------------------------------------------------------------------
AlertTypeOK == alert \in [Alerts -> AlertState]

(* However often an alert is dismissed while it fades, by clicks that may each *)
(* be handled twice or by scripts, its closed event is heard exactly once, and *)
(* it is out of the page exactly then.                                         *)
ClosedOnce == \A a \in Alerts : alert[a].closed = (IF alert[a].attached THEN 0 ELSE 1)

(* An alert that has been faded out does not stay in the page as an invisible *)
(* block: its removal comes.                                                   *)
FadedAlertGoes ==
  \A a \in Alerts : (alert[a].attached /\ ~alert[a].in) ~> ~alert[a].attached

(* What an alert promises: it is closed once, and, begun to be closed, it goes. *)
AlertSound == [](AlertTypeOK /\ ClosedOnce) /\ FadedAlertGoes
=============================================================================
