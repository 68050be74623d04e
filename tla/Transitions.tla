----------------------------- MODULE Transitions -----------------------------
(***************************************************************************)
(* What the widgets of bootstrap.js share: CSS transitions and the events    *)
(* that the application's handlers may prevent.                              *)
(*                                                                         *)
(* A widget that starts a transition registers a callback for               *)
(* 'bsTransitionEnd' of an element and a timer (emulateTransitionEnd) that  *)
(* triggers the event should the browser not send it.  The event names no    *)
(* transition: whatever waits for the end on that element, from this       *)
(* transition or an earlier one, is called, in the order of registration.   *)
(* The event comes some time after the registration, from the browser or     *)
(* from the timer; when is not part of the model, that it comes is.          *)
(***************************************************************************)
EXTENDS Naturals, Sequences, FiniteSets

VARIABLES
  transition,   \* $.support.transition, and the elements have the class fade
  veto          \* the events that handlers of the application prevent

pageVars == <<transition, veto>>

Vetoable == {"show", "hide"}

(* A widget that the behaviour is not about begins in one of its states. *)
some(S, all) == IF all THEN S ELSE {CHOOSE s \in S : TRUE}

(* Events are all let through, or all of one kind are prevented. *)
PageInit ==
  /\ transition \in BOOLEAN
  /\ veto \in {{}} \cup {{e} : e \in Vetoable}

isDefaultPrevented(e) == e \in veto
=============================================================================
