----------------------------- MODULE RemoteCall -----------------------------
(***************************************************************************)
(* What the remote-operation machinery of web-server promises to the socket *)
(* controller, with no channel, queue, thread or correlation table in it:   *)
(* an accepted operation is executed on the cache engine exactly once, and  *)
(* then exactly one answer, made of the outcome of that execution, goes to  *)
(* the page that asked; an operation that is refused is never executed.     *)
(***************************************************************************)

CONSTANT Ops            \* the remote operations the pages ask for

VARIABLES status,       \* how far each operation got
          outcome       \* what came of it

callVars == <<status, outcome>>

Statuses == {"idle", "called", "executed", "answered"}
Outcomes == {"none", "value", "exception", "refused"}

CallTypeOK ==
  /\ status \in [Ops -> Statuses]
  /\ outcome \in [Ops -> Outcomes]

CallInit ==
  /\ status = [o \in Ops |-> "idle"]
  /\ outcome = [o \in Ops |-> "none"]

Call(o) ==
  /\ status[o] = "idle"
  /\ status' = [status EXCEPT ![o] = "called"]
  /\ UNCHANGED outcome

Refuse(o) ==
  /\ status[o] = "idle"
  /\ status' = [status EXCEPT ![o] = "answered"]
  /\ outcome' = [outcome EXCEPT ![o] = "refused"]

Execute(o) ==
  /\ status[o] = "called"
  /\ status' = [status EXCEPT ![o] = "executed"]
  /\ \E r \in {"value", "exception"} : outcome' = [outcome EXCEPT ![o] = r]

Answer(o) ==
  /\ status[o] = "executed"
  /\ status' = [status EXCEPT ![o] = "answered"]
  /\ UNCHANGED outcome

CallNext == \E o \in Ops : Call(o) \/ Refuse(o) \/ Execute(o) \/ Answer(o)

CallFairness == \A o \in Ops : WF_callVars(Execute(o) \/ Answer(o))

CallSpec == CallInit /\ [][CallNext]_callVars /\ CallFairness
=============================================================================
