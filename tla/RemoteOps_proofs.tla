--------------------------- MODULE RemoteOps_proofs ---------------------------
(***************************************************************************)
(* Proofs about RemoteOps for every set of messages, pages and sessions,    *)
(* every pool size and every worker count.                                  *)
(***************************************************************************)
EXTENDS RemoteOps, FiniteSetTheorems, TLAPS

(* A thread holds an operation exactly while it is not idle, and an outcome    *)
(* from the moment the operation was applied.                                  *)
WorkersBusy ==
  \A t \in Threads :
    /\ worker[t].at # "idle" => worker[t].op \in Ops
    /\ worker[t].at \in {"applied", "gotResponse", "removed"}
         => worker[t].kind \in Kinds

(* Requests and responses under way belong to operations that were sent, and  *)
(* a future exists from the registration on.                                  *)
UnderWay(o) ==
  \/ \E i \in 1..Len(f2c) : f2c[i] = o
  \/ \E i \in 1..Len(c2f) : c2f[i].op = o
  \/ \E t \in Threads : worker[t].at # "idle" /\ worker[t].op = o

(* AsyncMessageClient.send creates the future at the registration. *)
FuturesRegistered ==
  \A o \in Ops : pc[o] \in {"new", "refused", "authenticated"} => future[o] = "none"

(* Nothing is under way for an operation that was not sent. *)
OnlySentUnderWay ==
  \A o \in Ops : UnderWay(o) => pc[o] \notin {"new", "refused", "authenticated", "registered"}

(* Nobody logs in before the servlets are there. *)
SessionsAfterServlets == active # {} => boot = "ready"

(* The inductive invariant of the start-up and of the correlation table. *)
IInv ==
  /\ TypeOK
  /\ WorkersBusy
  /\ FuturesRegistered
  /\ OnlySentUnderWay
  /\ SessionsAfterServlets
  /\ CorrelationsMatchPending
  /\ NoRequestBeforeService

(* A sequence that is not empty: its first element and the rest. *)
LEMMA HeadAndTail ==
  ASSUME NEW S, NEW s \in Seq(S), s # << >>
  PROVE  /\ 1 \in 1..Len(s) /\ Head(s) = s[1] /\ s[1] \in S
         /\ Tail(s) \in Seq(S)
         /\ \A i \in 1..Len(Tail(s)) :
              i + 1 \in 1..Len(s) /\ Tail(s)[i] = s[i + 1]
OBVIOUS

(* The first response of the queue back to the front, and the rest. *)
LEMMA FirstResponse ==
  ASSUME TypeOK, c2f # << >>
  PROVE  /\ 1 \in 1..Len(c2f) /\ Head(c2f) = c2f[1] /\ c2f[1] \in Response
         /\ Tail(c2f) \in Seq(Response)
         /\ \A i \in 1..Len(Tail(c2f)) :
              i + 1 \in 1..Len(c2f) /\ Tail(c2f)[i] = c2f[i + 1]
<1>1. c2f \in Seq(Response)
  BY DEF TypeOK
<1> QED BY <1>1, HeadAndTail

(* It holds before the first bean is built. *)
LEMMA InitInv == Init => IInv
BY DEF Init, IInv, TypeOK, WorkersBusy, FuturesRegistered, OnlySentUnderWay,
       UnderWay, SessionsAfterServlets, CorrelationsMatchPending,
       NoRequestBeforeService, ServiceSubscribed, Worker, Idle, Kinds, Boots,
       Response

(* Every step keeps the invariant: start-up only moves towards the subscribed  *)
(* service, a session needs the servlets, a message a session, a request a     *)
(* message that was sent, and the header is registered before that.            *)
LEMMA NextInv == IInv /\ [Next]_vars => IInv'
<1> SUFFICES ASSUME IInv, [Next]_vars PROVE IInv'
  OBVIOUS
<1> USE NoOpAssumption, WorkersAssumption
<1> USE DEF IInv, TypeOK, WorkersBusy, FuturesRegistered, OnlySentUnderWay,
       UnderWay, SessionsAfterServlets, CorrelationsMatchPending,
       NoRequestBeforeService, ServiceSubscribed, Worker, Idle, Kinds, Boots,
       Response, bootVars, authVars, handlerVars, become
<1>1. CASE CreateRequestChannel
  BY <1>1 DEF CreateRequestChannel, initWorkers, bootStep
<1>2. CASE CreateResponseChannel
  BY <1>2 DEF CreateResponseChannel, initWorkers, bootStep
<1>3. CASE StartSocketServer
  BY <1>3 DEF StartSocketServer, bootStep
<1>4. CASE SubscribeService
  BY <1>4 DEF SubscribeService, bootStep
<1>5. CASE StartServlets
  BY <1>5 DEF StartServlets, bootStep
<1>6. ASSUME NEW s \in Sessions, Login(s) PROVE IInv'
  BY <1>6 DEF Login
<1>7. ASSUME NEW s \in Sessions, Logout(s) PROVE IInv'
  BY <1>7 DEF Logout
<1>8. ASSUME NEW o \in Ops, NEW s \in Sessions, Authenticate(o, s) PROVE IInv'
  BY <1>8 DEF Authenticate, CanHandle, isValidSession
<1>9. ASSUME NEW o \in Ops, NEW s \in Sessions, Refuse(o, s) PROVE IInv'
  BY <1>9 DEF Refuse, CanHandle
<1>r. ASSUME NEW o \in Ops, SendRefusal(o) PROVE IInv'
  BY <1>r DEF SendRefusal, sendEvent, disconnect
<1>l. ASSUME NEW c \in Clients, Leave(c) PROVE IInv'
  <2>1. /\ UNCHANGED <<bootVars, authVars, handlerVars, f2c, c2f, worker, future, answer>>
        /\ connected' \subseteq Clients /\ gone' \subseteq Clients
    BY <1>l DEF Leave
  <2> QED BY <2>1
<1>10. ASSUME NEW o \in Ops, Register(o) PROVE IInv'
  <2>1. TypeOK' /\ WorkersBusy' /\ FuturesRegistered' /\ OnlySentUnderWay'
    BY <1>10 DEF Register
  <2>2. CorrelationsMatchPending'
    BY <1>10 DEF Register
  <2>3. SessionsAfterServlets' /\ NoRequestBeforeService'
    BY <1>10 DEF Register
  <2> QED BY <2>1, <2>2, <2>3
<1>11. ASSUME NEW o \in Ops, Send(o) PROVE IInv'
  BY <1>11 DEF Send
<1>12. ASSUME NEW o \in Ops, Attach(o) PROVE IInv'
  BY <1>12 DEF Attach
<1>13. ASSUME NEW o \in Ops, MapValue(o) PROVE IInv'
  BY <1>13 DEF MapValue
<1>14. ASSUME NEW o \in Ops, SendSuccess(o) PROVE IInv'
  BY <1>14 DEF SendSuccess, sendEvent
<1>15. ASSUME NEW o \in Ops, SendError(o) PROVE IInv'
  BY <1>15 DEF SendError, sendEvent, disconnect
<1>16. ASSUME NEW t \in Threads, TakeRequest(t) PROVE IInv'
  BY <1>16 DEF TakeRequest
<1>17. ASSUME NEW t \in Threads, ReceiveRequest(t) PROVE IInv'
  <2>1. CASE ServiceSubscribed
    <3>1. PICK k \in {"value", "exception"} :
            worker' = [worker EXCEPT ![t] = [at |-> "applied",
                                             op |-> worker[t].op, kind |-> k]]
      BY <1>17, <2>1 DEF ReceiveRequest
    <3>2. /\ worker[t].at = "gotRequest"
          /\ UNCHANGED <<bootVars, authVars, handlerVars, f2c, c2f, future,
                         answer, connected, gone>>
      BY <1>17 DEF ReceiveRequest
    <3>3. TypeOK' /\ WorkersBusy'
      BY <3>1, <3>2
    <3> QED BY <3>1, <3>2, <3>3
  <2>2. CASE ~ServiceSubscribed
    <3>1. worker' = [worker EXCEPT ![t] = Idle]
      BY <1>17, <2>2 DEF ReceiveRequest
    <3>2. /\ worker[t].at = "gotRequest"
          /\ UNCHANGED <<bootVars, authVars, handlerVars, f2c, c2f, future,
                         answer, connected, gone>>
      BY <1>17 DEF ReceiveRequest
    <3>3. TypeOK' /\ WorkersBusy'
      BY <3>1, <3>2
    <3> QED BY <3>1, <3>2, <3>3
  <2> QED BY <2>1, <2>2
<1>18. ASSUME NEW t \in Threads, SendResponse(t) PROVE IInv'
  BY <1>18 DEF SendResponse
<1>19. ASSUME NEW t \in Threads, TakeResponse(t) PROVE IInv'
  <2>1. c2f # << >>
    BY <1>19 DEF TakeResponse
  <2>2. /\ 1 \in 1..Len(c2f) /\ Head(c2f) = c2f[1] /\ c2f[1] \in Response
        /\ Tail(c2f) \in Seq(Response)
        /\ \A i \in 1..Len(Tail(c2f)) :
             i + 1 \in 1..Len(c2f) /\ Tail(c2f)[i] = c2f[i + 1]
    BY <2>1, FirstResponse
  <2>3. TypeOK' /\ WorkersBusy'
    BY <1>19, <2>2 DEF TakeResponse
  <2>4. OnlySentUnderWay'
    BY <1>19, <2>1, <2>2 DEF TakeResponse
  <2>5. /\ FuturesRegistered' /\ SessionsAfterServlets'
        /\ CorrelationsMatchPending' /\ NoRequestBeforeService'
    BY <1>19, <2>2 DEF TakeResponse
  <2> QED BY <2>3, <2>4, <2>5
<1>20. ASSUME NEW t \in Threads, ReceiveResponse(t) PROVE IInv'
  BY <1>20 DEF ReceiveResponse
<1>21. ASSUME NEW t \in Threads, Complete(t) PROVE IInv'
  BY <1>21 DEF Complete
<1>22. CASE UNCHANGED vars
  BY <1>22 DEF vars
<1> QED
  BY <1>1, <1>2, <1>3, <1>4, <1>5, <1>6, <1>7, <1>8, <1>9, <1>10, <1>11,
     <1>12, <1>13, <1>14, <1>15, <1>16, <1>17, <1>18, <1>19, <1>20, <1>21,
     <1>22, <1>r, <1>l
  DEF Next, Boot, Servlets, Arrive, Handler, Callback, Loop, CacheLoop,
      FrontLoop, Quiet

(* IInv holds throughout. *)
THEOREM Invariant == SafetySpec => []IInv
BY InitInv, NextInv, PTL DEF SafetySpec

(* Type correctness of the channels, the correlations and the worker loops. *)
THEOREM TypeCorrect == SafetySpec => []TypeOK
<1>1. IInv => TypeOK
  BY DEF IInv
<1> QED BY <1>1, Invariant, PTL

(* AsyncMessageClient never leaks a correlation and never misses one: a header *)
(* is in the table exactly while its future is pending and unclaimed.          *)
THEOREM CorrelationsCorrect == SafetySpec => []CorrelationsMatchPending
<1>1. IInv => CorrelationsMatchPending
  BY DEF IInv
<1> QED BY <1>1, Invariant, PTL

(* No request is ever taken while the cache service has not subscribed, though *)
(* the socket and the worker loops run before it does.                         *)
THEOREM StartupSafe == SafetySpec => []NoRequestBeforeService
<1>1. IInv => NoRequestBeforeService
  BY DEF IInv
<1> QED BY <1>1, Invariant, PTL

-----------------------------------------------------------------------------
(* A thread that waits holds nothing; a request that is not applied has no outcome. *)
WorkersEmpty ==
  \A t \in Threads :
    /\ worker[t].at = "idle" => worker[t].op = NoOp
    /\ worker[t].at \in {"idle", "gotRequest"} => worker[t].kind = "none"

(* No operation is in two places at once. *)
NoneTwice ==
  /\ \A i, j \in 1..Len(f2c) : f2c[i] = f2c[j] => i = j
  /\ \A i, j \in 1..Len(c2f) : c2f[i].op = c2f[j].op => i = j
  /\ \A t, u \in Threads : worker[t].op \in Ops /\ worker[t].op = worker[u].op => t = u
  /\ \A i \in 1..Len(f2c), j \in 1..Len(c2f) : f2c[i] # c2f[j].op
  /\ \A i \in 1..Len(f2c), t \in Threads : f2c[i] # worker[t].op
  /\ \A j \in 1..Len(c2f), t \in Threads : c2f[j].op # worker[t].op

(* A request or response is under way exactly while the future of an *)
(* operation that was sent is pending.                               *)
UnderWayWhilePending ==
  \A o \in Ops : UnderWay(o) <=> Sent(o) /\ future[o] = "pending"

(* How far the handler of an operation is, what became of its future, and what the *)
(* page was told.                                                                 *)
HandlersAgree ==
  \A o \in Ops :
    /\ pc[o] \in {"registered", "sent", "attached"} => future[o] # "none"
    /\ pc[o] = "registered" => future[o] = "pending"
    /\ pc[o] = "mapped" => future[o] = "value"
    /\ pc[o] # "done" => answer[o] = "none"
    /\ pc[o] = "done" =>
         \/ answer[o] \in {"refused", "undelivered"} /\ future[o] = "none"
         \/ answer[o] \in {"success", "undelivered"} /\ future[o] = "value"
         \/ answer[o] \in {"error", "undelivered"} /\ future[o] = "exception"

(* A page that is not connected has left, or was told of an error or a refusal, and *)
(* only such a page misses an answer.                                              *)
PagesToldBefore ==
  /\ \A c \in Clients \ connected :
       c \in gone \/ \E p \in Ops : Owner[p] = c /\ answer[p] \in {"error", "refused"}
  /\ \A o \in Ops : answer[o] = "undelivered" => Owner[o] \notin connected

(* What IInv says nothing of: each operation is in one place only. Neither *)
(* half of NoneLostOrDoubled is inductive without it: that no worker       *)
(* duplicates an operation depends on what the idle workers hold, on where *)
(* the queues end and on how far the handlers are.                         *)
FlightInv ==
  /\ WorkersEmpty
  /\ NoneTwice
  /\ UnderWayWhilePending
  /\ HandlersAgree
  /\ PagesToldBefore

(* Nothing is under way at the start. *)
LEMMA InitFlight == Init => FlightInv
BY OwnerAssumption, NoOpAssumption
DEF Init, FlightInv, WorkersEmpty, NoneTwice, UnderWayWhilePending, UnderWay, HandlersAgree,
    PagesToldBefore, Sent, Idle

(* What the first element of a queue that is not empty leaves behind. *)
LEMMA RestMoves ==
  ASSUME NEW S, NEW s \in Seq(S), s # << >>
  PROVE  /\ Len(Tail(s)) = Len(s) - 1 /\ Len(s) \in Nat \ {0}
         /\ \A i \in 1..Len(s) : i # 1 =>
              i - 1 \in 1..Len(Tail(s)) /\ Tail(s)[i - 1] = s[i]
OBVIOUS

(* Every step moves an operation whole: out of a queue into the hands of the *)
(* worker that took it, out of its hands into the next queue or into the     *)
(* future.                                                                   *)
LEMMA NextFlight == IInv /\ FlightInv /\ [Next]_vars => FlightInv'
<1> SUFFICES ASSUME IInv, FlightInv, [Next]_vars PROVE FlightInv'
  OBVIOUS
<1> USE NoOpAssumption, OwnerAssumption
<1>a. UNCHANGED <<f2c, c2f, worker>> =>
        WorkersEmpty' /\ NoneTwice' /\ \A q \in Ops : UnderWay(q)' <=> UnderWay(q)
  BY DEF FlightInv, WorkersEmpty, NoneTwice, UnderWay
<1>b. /\ UNCHANGED <<pc, future, answer>> => HandlersAgree'
      /\ UNCHANGED <<answer, connected, gone>> => PagesToldBefore'
  BY DEF FlightInv, HandlersAgree, PagesToldBefore
<1>c. UNCHANGED <<pc, future>> /\ (\A q \in Ops : UnderWay(q)' <=> UnderWay(q))
        => UnderWayWhilePending'
  BY DEF FlightInv, UnderWayWhilePending, Sent
<1>d. /\ WorkersEmpty /\ NoneTwice /\ UnderWayWhilePending /\ HandlersAgree
      /\ PagesToldBefore /\ TypeOK /\ WorkersBusy /\ OnlySentUnderWay
      /\ FuturesRegistered /\ CorrelationsMatchPending /\ NoRequestBeforeService
  BY DEF FlightInv, IInv
<1>e. /\ f2c \in Seq(Ops) /\ c2f \in Seq(Response) /\ worker \in [Threads -> Worker]
      /\ pc \in [Ops -> {"new", "refused", "authenticated", "registered", "sent", "attached",
                     "mapped", "done"}]
      /\ future \in [Ops -> {"none", "pending", "value", "exception"}]
      /\ answer \in [Ops -> {"none", "success", "error", "refused", "undelivered"}]
  BY <1>d DEF TypeOK, Kinds
<1>f. /\ \A i \in 1..Len(f2c) : f2c[i] \in Ops
      /\ \A j \in 1..Len(c2f) : c2f[j] \in Response /\ c2f[j].op \in Ops
  <2>1. \A j \in 1..Len(c2f) : c2f[j] \in Response
    BY <1>e
  <2>2. \A r \in Response : r.op \in Ops
    BY DEF Response
  <2> QED BY <1>e, <2>1, <2>2
<1>1. CASE Boot
  <2>1. UNCHANGED <<f2c, c2f, worker, pc, future, answer, connected, gone>>
    BY <1>1 DEF Boot, CreateRequestChannel, CreateResponseChannel, StartSocketServer,
        SubscribeService, StartServlets, bootStep, handlerVars
  <2> QED BY <2>1, <1>a, <1>b, <1>c DEF FlightInv
<1>2. CASE Servlets
  <2>1. UNCHANGED <<f2c, c2f, worker, pc, future, answer, connected, gone>>
    BY <1>2 DEF Servlets, Login, Logout, handlerVars
  <2> QED BY <2>1, <1>a, <1>b, <1>c DEF FlightInv
<1>3. ASSUME NEW o \in Ops, NEW s \in Sessions, Authenticate(o, s) PROVE FlightInv'
  <2>1. /\ UNCHANGED <<f2c, c2f, worker, future, answer, connected, gone>>
        /\ pc[o] = "new" /\ pc' = [pc EXCEPT ![o] = "authenticated"]
    BY <1>3 DEF Authenticate, CanHandle
  <2>2. UnderWayWhilePending'
    BY <1>a, <1>d, <1>e, <2>1 DEF UnderWayWhilePending, Sent
  <2>3. HandlersAgree'
    BY <1>d, <1>e, <2>1 DEF HandlersAgree
  <2> QED BY <2>1, <2>2, <2>3, <1>a, <1>b DEF FlightInv
<1>4. ASSUME NEW o \in Ops, NEW s \in Sessions, Refuse(o, s) PROVE FlightInv'
  <2>1. /\ UNCHANGED <<f2c, c2f, worker, future, answer, connected, gone>>
        /\ pc[o] = "new" /\ pc' = [pc EXCEPT ![o] = "refused"]
    BY <1>4 DEF Refuse, CanHandle
  <2>2. UnderWayWhilePending'
    BY <1>a, <1>d, <1>e, <2>1 DEF UnderWayWhilePending, Sent
  <2>3. HandlersAgree'
    BY <1>d, <1>e, <2>1 DEF HandlersAgree
  <2> QED BY <2>1, <2>2, <2>3, <1>a, <1>b DEF FlightInv
<1>r. ASSUME NEW o \in Ops, SendRefusal(o) PROVE FlightInv'
  <2>1. /\ UNCHANGED <<f2c, c2f, worker, future, gone>>
        /\ pc[o] = "refused" /\ pc' = [pc EXCEPT ![o] = "done"]
        /\ answer' = [answer EXCEPT ![o] =
              IF Owner[o] \in connected THEN "refused" ELSE "undelivered"]
        /\ connected' = connected \ {Owner[o]}
    BY <1>r DEF SendRefusal, sendEvent, disconnect
  <2>2. future[o] = "none" /\ answer[o] = "none"
    BY <1>d, <2>1 DEF FuturesRegistered, HandlersAgree
  <2>3. UnderWayWhilePending'
    BY <1>a, <1>d, <1>e, <2>1, <2>2 DEF UnderWayWhilePending, Sent
  <2>4. HandlersAgree'
    BY <1>d, <1>e, <2>1, <2>2 DEF HandlersAgree
  <2>5. PagesToldBefore'
    BY <1>d, <1>e, <2>1, <2>2 DEF PagesToldBefore
  <2> QED BY <2>1, <2>3, <2>4, <2>5, <1>a DEF FlightInv
<1>l. ASSUME NEW c \in Clients, Leave(c) PROVE FlightInv'
  <2>1. /\ UNCHANGED <<f2c, c2f, worker, pc, future, answer>>
        /\ connected' = connected \ {c} /\ gone' = gone \cup {c}
    BY <1>l DEF Leave, handlerVars
  <2>2. PagesToldBefore'
    BY <1>d, <2>1 DEF PagesToldBefore
  <2> QED BY <2>1, <2>2, <1>a, <1>b, <1>c DEF FlightInv
<1>5. ASSUME NEW o \in Ops, Register(o) PROVE FlightInv'
  <2>1. /\ UNCHANGED <<f2c, c2f, worker, answer, connected, gone>>
        /\ pc[o] = "authenticated" /\ pc' = [pc EXCEPT ![o] = "registered"]
        /\ future' = [future EXCEPT ![o] = "pending"]
    BY <1>5 DEF Register
  <2>2. future[o] = "none"
    BY <1>d, <2>1 DEF FuturesRegistered
  <2>3. UnderWayWhilePending'
    BY <1>a, <1>d, <1>e, <2>1, <2>2 DEF UnderWayWhilePending, Sent
  <2>4. HandlersAgree'
    BY <1>d, <1>e, <2>1 DEF HandlersAgree
  <2> QED BY <2>1, <2>3, <2>4, <1>a, <1>b DEF FlightInv
<1>6. ASSUME NEW o \in Ops, Send(o) PROVE FlightInv'
  <2>1. /\ UNCHANGED <<c2f, worker, answer, future, connected, gone>>
        /\ pc[o] = "registered" /\ pc' = [pc EXCEPT ![o] = "sent"]
        /\ f2c' = Append(f2c, o)
    BY <1>6 DEF Send
  <2>2. future[o] = "pending"
    BY <1>d, <2>1 DEF HandlersAgree
  <2>3. ~UnderWay(o)
    BY <1>d, <2>1 DEF OnlySentUnderWay
  <2>4. /\ Len(f2c') = Len(f2c) + 1 /\ Len(f2c) \in Nat /\ f2c'[Len(f2c) + 1] = o
        /\ \A i \in 1..Len(f2c) : f2c'[i] = f2c[i]
    BY <1>e, <2>1
  <2>5. \A q \in Ops : UnderWay(q)' <=> UnderWay(q) \/ q = o
    BY <2>1, <2>4 DEF UnderWay
  <2>6. UnderWayWhilePending'
    BY <1>d, <1>e, <2>1, <2>2, <2>5 DEF UnderWayWhilePending, Sent
  <2>7. HandlersAgree'
    BY <1>d, <1>e, <2>1, <2>2 DEF HandlersAgree
  <2>8. WorkersEmpty'
    BY <1>d, <2>1 DEF WorkersEmpty
  <2>9. \A t \in Threads : worker[t].op # o
    BY <1>d, <2>3 DEF UnderWay, WorkersEmpty
  <2>10. /\ \A i \in 1..Len(f2c) : f2c[i] # o
         /\ \A j \in 1..Len(c2f) : c2f[j].op # o
    BY <2>3 DEF UnderWay
  <2>11. NoneTwice'
    BY <1>d, <2>1, <2>4, <2>9, <2>10 DEF NoneTwice
  <2> QED BY <2>1, <2>6, <2>7, <2>8, <2>11, <1>b DEF FlightInv
<1>7. ASSUME NEW o \in Ops, Attach(o) PROVE FlightInv'
  <2>1. /\ UNCHANGED <<f2c, c2f, worker, future, answer, connected, gone>>
        /\ pc[o] = "sent" /\ pc' = [pc EXCEPT ![o] = "attached"]
    BY <1>7 DEF Attach
  <2>2. UnderWayWhilePending'
    BY <1>a, <1>d, <1>e, <2>1 DEF UnderWayWhilePending, Sent
  <2>3. HandlersAgree'
    BY <1>d, <1>e, <2>1 DEF HandlersAgree
  <2> QED BY <2>1, <2>2, <2>3, <1>a, <1>b DEF FlightInv
<1>8. ASSUME NEW o \in Ops, MapValue(o) PROVE FlightInv'
  <2>1. /\ UNCHANGED <<f2c, c2f, worker, future, answer, connected, gone>>
        /\ pc[o] = "attached" /\ pc' = [pc EXCEPT ![o] = "mapped"]
        /\ future[o] = "value"
    BY <1>8 DEF MapValue
  <2>2. UnderWayWhilePending'
    BY <1>a, <1>d, <1>e, <2>1 DEF UnderWayWhilePending, Sent
  <2>3. HandlersAgree'
    BY <1>d, <1>e, <2>1 DEF HandlersAgree
  <2> QED BY <2>1, <2>2, <2>3, <1>a, <1>b DEF FlightInv
<1>9. ASSUME NEW o \in Ops, SendSuccess(o) PROVE FlightInv'
  <2>1. /\ UNCHANGED <<f2c, c2f, worker, future, connected, gone>>
        /\ pc[o] = "mapped" /\ pc' = [pc EXCEPT ![o] = "done"]
        /\ answer' = [answer EXCEPT ![o] =
              IF Owner[o] \in connected THEN "success" ELSE "undelivered"]
    BY <1>9 DEF SendSuccess, sendEvent
  <2>2. future[o] = "value" /\ answer[o] = "none"
    BY <1>d, <2>1 DEF HandlersAgree
  <2>3. UnderWayWhilePending'
    BY <1>a, <1>d, <1>e, <2>1 DEF UnderWayWhilePending, Sent
  <2>4. HandlersAgree'
    BY <1>d, <1>e, <2>1, <2>2 DEF HandlersAgree
  <2>5. PagesToldBefore'
    BY <1>d, <1>e, <2>1, <2>2 DEF PagesToldBefore
  <2> QED BY <2>1, <2>3, <2>4, <2>5, <1>a DEF FlightInv
<1>10. ASSUME NEW o \in Ops, SendError(o) PROVE FlightInv'
  <2>1. /\ UNCHANGED <<f2c, c2f, worker, future, gone>>
        /\ pc[o] = "attached" /\ pc' = [pc EXCEPT ![o] = "done"]
        /\ future[o] = "exception"
        /\ answer' = [answer EXCEPT ![o] =
              IF Owner[o] \in connected THEN "error" ELSE "undelivered"]
        /\ connected' = connected \ {Owner[o]}
    BY <1>10 DEF SendError, sendEvent, disconnect
  <2>2. answer[o] = "none"
    BY <1>d, <2>1 DEF HandlersAgree
  <2>3. UnderWayWhilePending'
    BY <1>a, <1>d, <1>e, <2>1 DEF UnderWayWhilePending, Sent
  <2>4. HandlersAgree'
    BY <1>d, <1>e, <2>1, <2>2 DEF HandlersAgree
  <2>5. PagesToldBefore'
    BY <1>d, <1>e, <2>1, <2>2 DEF PagesToldBefore
  <2> QED BY <2>1, <2>3, <2>4, <2>5, <1>a DEF FlightInv
<1>11. ASSUME NEW t \in Threads, TakeRequest(t) PROVE FlightInv'
  <2> DEFINE o == f2c[1]
  <2>1. /\ UNCHANGED <<c2f, pc, answer, future, connected, gone>>
        /\ worker[t].at = "idle" /\ f2c # << >> /\ f2c' = Tail(f2c)
        /\ worker' = [worker EXCEPT ![t] = [at |-> "gotRequest", op |-> Head(f2c), kind |-> "none"]]
    BY <1>11 DEF TakeRequest, become, handlerVars
  <2>2. /\ Head(f2c) = f2c[1] /\ o \in Ops /\ 1 \in 1..Len(f2c)
        /\ \A i \in 1..Len(f2c') : i + 1 \in 1..Len(f2c) /\ i + 1 # 1 /\ f2c'[i] = f2c[i + 1]
        /\ \A i \in 1..Len(f2c) : i # 1 => i - 1 \in 1..Len(f2c') /\ f2c'[i - 1] = f2c[i]
    BY <1>e, <2>1, HeadAndTail, RestMoves
  <2>3. /\ worker'[t] = [at |-> "gotRequest", op |-> o, kind |-> "none"]
        /\ \A u \in Threads : u # t => worker'[u] = worker[u]
        /\ worker[t].op = NoOp
    BY <1>d, <1>e, <2>1, <2>2 DEF WorkersEmpty
  <2>4. \A i \in 1..Len(f2c) : i # 1 => f2c[i] # o
    BY <1>d, <2>2 DEF NoneTwice
  <2>5. /\ \A j \in 1..Len(c2f) : c2f[j].op # o
        /\ \A u \in Threads : worker[u].op # o
    BY <1>d, <2>2 DEF NoneTwice
  <2> HIDE DEF o
  <2>6. \A q \in Ops : UnderWay(q)' <=> UnderWay(q)
    <3> SUFFICES ASSUME NEW q \in Ops PROVE UnderWay(q)' <=> UnderWay(q)
      OBVIOUS
    <3>1. CASE q = o
      BY <3>1, <2>2, <2>3 DEF UnderWay, o
    <3>2. CASE q # o
      <4>1. (\E i \in 1..Len(f2c') : f2c'[i] = q) <=> (\E i \in 1..Len(f2c) : f2c[i] = q)
        BY <3>2, <2>2 DEF o
      <4>2. (\E u \in Threads : worker'[u].at # "idle" /\ worker'[u].op = q)
             <=> (\E u \in Threads : worker[u].at # "idle" /\ worker[u].op = q)
        BY <3>2, <2>3, <2>1
      <4> QED BY <4>1, <4>2, <2>1 DEF UnderWay
    <3> QED BY <3>1, <3>2
  <2>7. WorkersEmpty'
    BY <1>d, <2>3 DEF WorkersEmpty
  <2>8. NoneTwice'
    BY <1>d, <2>1, <2>2, <2>3, <2>4, <2>5 DEF NoneTwice
  <2> QED BY <2>1, <2>6, <2>7, <2>8, <1>b, <1>c DEF FlightInv
<1>12. ASSUME NEW t \in Threads, ReceiveRequest(t) PROVE FlightInv'
  <2>1. /\ UNCHANGED <<f2c, c2f, pc, answer, future, connected, gone>>
        /\ worker[t].at = "gotRequest"
    BY <1>12 DEF ReceiveRequest, handlerVars
  <2>2. worker[t].op \in Ops /\ UnderWay(worker[t].op)
    BY <1>d, <2>1 DEF WorkersBusy, UnderWay
  <2>3. ServiceSubscribed
    BY <1>d, <2>2, <2>1 DEF ServiceSubscribed, NoRequestBeforeService, UnderWayWhilePending, HandlersAgree, Sent
  <2>4. PICK k \in Kinds :
           worker' = [worker EXCEPT ![t] = [at |-> "applied", op |-> worker[t].op, kind |-> k]]
    BY <1>12, <2>3 DEF ReceiveRequest, become
  <2>5. /\ worker'[t] = [at |-> "applied", op |-> worker[t].op, kind |-> k]
        /\ \A u \in Threads : u # t => worker'[u] = worker[u]
    BY <1>e, <2>4
  <2>6. /\ \A q \in Ops : UnderWay(q)' <=> UnderWay(q)
        /\ WorkersEmpty' /\ NoneTwice'
    BY <1>d, <2>1, <2>5 DEF UnderWay, WorkersEmpty, NoneTwice
  <2> QED BY <2>1, <2>6, <1>b, <1>c DEF FlightInv
<1>13. ASSUME NEW t \in Threads, SendResponse(t) PROVE FlightInv'
  <2> DEFINE o == worker[t].op
             r == [op |-> o, kind |-> worker[t].kind]
  <2>1. /\ UNCHANGED <<f2c, pc, answer, future, connected, gone>>
        /\ worker[t].at = "applied"
        /\ c2f' = Append(c2f, r)
        /\ worker' = [worker EXCEPT ![t] = Idle]
    BY <1>13 DEF SendResponse, become, handlerVars
  <2>2. o \in Ops /\ r \in Response /\ r.op = o
    BY <1>d, <2>1 DEF WorkersBusy, Response
  <2>3. /\ worker'[t] = Idle
        /\ \A u \in Threads : u # t => worker'[u] = worker[u]
        /\ Idle.at = "idle" /\ Idle.op = NoOp /\ Idle.kind = "none"
    BY <1>e, <2>1 DEF Idle
  <2> HIDE DEF r
  <2>4. /\ Len(c2f') = Len(c2f) + 1 /\ Len(c2f) \in Nat /\ c2f'[Len(c2f) + 1] = r
        /\ \A i \in 1..Len(c2f) : c2f'[i] = c2f[i]
    BY <1>e, <2>1, <2>2
  <2>5. /\ \A i \in 1..Len(c2f) : c2f[i].op # o
        /\ \A i \in 1..Len(f2c) : f2c[i] # o
        /\ \A u \in Threads : u # t => worker[u].op # o
    BY <1>d, <2>2 DEF NoneTwice
  <2> HIDE DEF o
  <2>6. \A q \in Ops : UnderWay(q)' <=> UnderWay(q)
    <3> SUFFICES ASSUME NEW q \in Ops PROVE UnderWay(q)' <=> UnderWay(q)
      OBVIOUS
    <3>1. CASE q = o
      BY <3>1, <2>1, <2>2, <2>4 DEF UnderWay, o
    <3>2. CASE q # o
      <4>1. (\E i \in 1..Len(c2f') : c2f'[i].op = q) <=> (\E i \in 1..Len(c2f) : c2f[i].op = q)
        BY <3>2, <2>2, <2>4
      <4>2. (\E u \in Threads : worker'[u].at # "idle" /\ worker'[u].op = q)
             <=> (\E u \in Threads : worker[u].at # "idle" /\ worker[u].op = q)
        BY <3>2, <2>3 DEF o
      <4> QED BY <4>1, <4>2, <2>1 DEF UnderWay
    <3> QED BY <3>1, <3>2
  <2>7. WorkersEmpty'
    BY <1>d, <2>3 DEF WorkersEmpty
  <2>8. NoneTwice'
    <3>1. \A i, j \in 1..Len(c2f') : c2f'[i].op = c2f'[j].op => i = j
      BY <1>d, <2>2, <2>4, <2>5 DEF NoneTwice
    <3>2. \A u, v \in Threads : worker'[u].op \in Ops /\ worker'[u].op = worker'[v].op => u = v
      BY <1>d, <2>3 DEF NoneTwice
    <3>3. \A i \in 1..Len(f2c'), j \in 1..Len(c2f') : f2c'[i] # c2f'[j].op
      BY <1>d, <2>1, <2>2, <2>4, <2>5 DEF NoneTwice
    <3>4. \A i \in 1..Len(f2c') : f2c'[i] \in Ops
      BY <1>e, <2>1
    <3>5. \A i \in 1..Len(f2c'), u \in Threads : f2c'[i] # worker'[u].op
      BY <1>d, <2>1, <2>3, <3>4 DEF NoneTwice
    <3>6. \A j \in 1..Len(c2f') : c2f'[j].op \in Ops
      BY <1>f, <2>2, <2>4
    <3>7. \A j \in 1..Len(c2f'), u \in Threads : c2f'[j].op # worker'[u].op
      BY <1>d, <2>1, <2>2, <2>3, <2>4, <2>5, <3>6 DEF NoneTwice
    <3> QED BY <1>d, <2>1, <3>1, <3>2, <3>3, <3>5, <3>7 DEF NoneTwice
  <2> QED BY <2>1, <2>6, <2>7, <2>8, <1>b, <1>c DEF FlightInv
<1>14. ASSUME NEW t \in Threads, TakeResponse(t) PROVE FlightInv'
  <2> DEFINE o == c2f[1].op
             k == c2f[1].kind
  <2>1. /\ UNCHANGED <<f2c, pc, answer, future, connected, gone>>
        /\ worker[t].at = "idle" /\ c2f # << >> /\ c2f' = Tail(c2f)
        /\ worker' = [worker EXCEPT ![t] = [at |-> "gotResponse", op |-> Head(c2f).op, kind |-> Head(c2f).kind]]
    BY <1>14 DEF TakeResponse, become, handlerVars
  <2>2. /\ Head(c2f) = c2f[1] /\ c2f[1] \in Response /\ 1 \in 1..Len(c2f)
        /\ \A i \in 1..Len(c2f') : i + 1 \in 1..Len(c2f) /\ i + 1 # 1 /\ c2f'[i] = c2f[i + 1]
        /\ \A i \in 1..Len(c2f) : i # 1 => i - 1 \in 1..Len(c2f') /\ c2f'[i - 1] = c2f[i]
    BY <1>e, <2>1, HeadAndTail, RestMoves
  <2>a. o \in Ops /\ k \in Kinds
    BY <2>2 DEF Response
  <2>3. /\ worker'[t] = [at |-> "gotResponse", op |-> o, kind |-> k]
        /\ \A u \in Threads : u # t => worker'[u] = worker[u]
        /\ worker[t].op = NoOp
    BY <1>d, <1>e, <2>1, <2>2 DEF WorkersEmpty
  <2>4. \A i \in 1..Len(c2f) : i # 1 => c2f[i].op # o
    BY <1>d, <2>2 DEF NoneTwice
  <2>5. /\ \A j \in 1..Len(f2c) : f2c[j] # o
        /\ \A u \in Threads : worker[u].op # o
    BY <1>d, <2>2 DEF NoneTwice
  <2> HIDE DEF o, k
  <2>6. \A q \in Ops : UnderWay(q)' <=> UnderWay(q)
    <3> SUFFICES ASSUME NEW q \in Ops PROVE UnderWay(q)' <=> UnderWay(q)
      OBVIOUS
    <3>1. CASE q = o
      BY <3>1, <2>2, <2>3 DEF UnderWay, o
    <3>2. CASE q # o
      <4>1. (\E i \in 1..Len(c2f') : c2f'[i].op = q) <=> (\E i \in 1..Len(c2f) : c2f[i].op = q)
        BY <3>2, <2>2 DEF o
      <4>2. (\E u \in Threads : worker'[u].at # "idle" /\ worker'[u].op = q)
             <=> (\E u \in Threads : worker[u].at # "idle" /\ worker[u].op = q)
        BY <3>2, <2>3, <2>1
      <4> QED BY <4>1, <4>2, <2>1 DEF UnderWay
    <3> QED BY <3>1, <3>2
  <2>7. WorkersEmpty'
    BY <1>d, <2>3 DEF WorkersEmpty
  <2>8. NoneTwice'
    BY <1>d, <2>1, <2>2, <2>3, <2>4, <2>5 DEF NoneTwice
  <2> QED BY <2>1, <2>6, <2>7, <2>8, <1>b, <1>c DEF FlightInv
<1>15. ASSUME NEW t \in Threads, ReceiveResponse(t) PROVE FlightInv'
  <2>1. /\ UNCHANGED <<f2c, c2f, pc, answer, future, connected, gone>>
        /\ worker[t].at = "gotResponse"
    BY <1>15 DEF ReceiveResponse
  <2>2. worker[t].op \in Ops /\ UnderWay(worker[t].op)
    BY <1>d, <2>1 DEF WorkersBusy, UnderWay
  <2>3. future[worker[t].op] = "pending"
    BY <1>d, <2>2 DEF UnderWayWhilePending
  <2>4. ~\E u \in Threads : worker[u].op = worker[t].op /\ worker[u].at = "removed"
    BY <1>d, <2>1, <2>2 DEF NoneTwice
  <2>5. worker[t].op \in messageCorrelations
    BY <1>d, <2>2, <2>3, <2>4 DEF CorrelationsMatchPending
  <2>6. /\ worker'[t] = [worker[t] EXCEPT !.at = "removed"]
        /\ \A u \in Threads : u # t => worker'[u] = worker[u]
    BY <1>15, <1>e, <2>5 DEF ReceiveResponse, become
  <2>7. /\ worker'[t].op = worker[t].op /\ worker'[t].at = "removed"
    BY <1>e, <2>6 DEF Worker
  <2>8. /\ \A u \in Threads : worker'[u].op = worker[u].op
        /\ \A u \in Threads : worker'[u].at = "idle" <=> worker[u].at = "idle"
    BY <2>1, <2>6, <2>7
  <2>9. \A q \in Ops : UnderWay(q)' <=> UnderWay(q)
    BY <2>1, <2>8 DEF UnderWay
  <2>10. WorkersEmpty'
    BY <1>d, <2>6, <2>7 DEF WorkersEmpty
  <2>11. NoneTwice'
    BY <1>d, <2>1, <2>8 DEF NoneTwice
  <2> QED BY <2>1, <2>9, <2>10, <2>11, <1>b, <1>c DEF FlightInv
<1>16. ASSUME NEW t \in Threads, Complete(t) PROVE FlightInv'
  <2> DEFINE o == worker[t].op
             k == worker[t].kind
  <2>1. /\ UNCHANGED <<f2c, c2f, pc, answer, connected, gone>>
        /\ worker[t].at = "removed"
        /\ worker' = [worker EXCEPT ![t] = Idle]
        /\ future' = [future EXCEPT ![o] = IF @ = "pending" THEN k ELSE @]
    BY <1>16 DEF Complete, become, handlerVars
  <2>2. o \in Ops /\ UnderWay(o) /\ k \in {"value", "exception"}
    BY <1>d, <2>1 DEF WorkersBusy, UnderWay, Kinds
  <2>3. future[o] = "pending" /\ Sent(o)
    BY <1>d, <2>2 DEF UnderWayWhilePending
  <2>4. /\ worker'[t] = Idle
        /\ \A u \in Threads : u # t => worker'[u] = worker[u]
        /\ Idle.at = "idle" /\ Idle.op = NoOp /\ Idle.kind = "none"
    BY <1>e, <2>1 DEF Idle
  <2>5. future' = [future EXCEPT ![o] = k]
    BY <1>e, <2>1, <2>3
  <2>6. /\ \A i \in 1..Len(c2f) : c2f[i].op # o
        /\ \A i \in 1..Len(f2c) : f2c[i] # o
        /\ \A u \in Threads : u # t => worker[u].op # o
    BY <1>d, <2>2 DEF NoneTwice
  <2> HIDE DEF k
  <2>7. \A q \in Ops : UnderWay(q)' <=> UnderWay(q) /\ q # o
    BY <2>1, <2>4, <2>6 DEF UnderWay
  <2> HIDE DEF o
  <2>8. UnderWayWhilePending'
    BY <1>d, <1>e, <2>1, <2>2, <2>5, <2>7 DEF UnderWayWhilePending, Sent
  <2>9. HandlersAgree'
    BY <1>d, <1>e, <2>1, <2>2, <2>3, <2>5 DEF HandlersAgree, Sent
  <2>10. WorkersEmpty'
    BY <1>d, <2>4 DEF WorkersEmpty
  <2>12. NoneTwice'
    BY <1>d, <1>f, <2>1, <2>4 DEF NoneTwice
  <2> QED BY <2>1, <2>8, <2>9, <2>10, <2>12, <1>b DEF FlightInv
<1>17. CASE UNCHANGED vars
  BY <1>17, <1>a, <1>b, <1>c DEF vars, FlightInv
<1> QED
  BY <1>1, <1>2, <1>3, <1>4, <1>5, <1>6, <1>7, <1>8, <1>9, <1>10, <1>11,
     <1>12, <1>13, <1>14, <1>15, <1>16, <1>17, <1>r, <1>l
  DEF Next, Arrive, Handler, Callback, Loop, CacheLoop,
      FrontLoop, Quiet

(* With no operation in two places, the copies of one are one or none. *)
LEMMA CopiesCounted ==
  ASSUME TypeOK, WorkersEmpty, WorkersBusy, NoneTwice, NEW o \in Ops
  PROVE  Copies(o) = IF UnderWay(o) THEN 1 ELSE 0
<1> USE NoOpAssumption
<1> DEFINE A == {i \in DOMAIN f2c : f2c[i] = o}
           B == {i \in DOMAIN c2f : c2f[i].op = o}
           C == {t \in Threads : worker[t].op = o}
<1>1. /\ f2c \in Seq(Ops) /\ c2f \in Seq(Response)
      /\ DOMAIN f2c = 1..Len(f2c) /\ DOMAIN c2f = 1..Len(c2f)
  BY DEF TypeOK
<1>2. /\ A = {} \/ \E i : A = {i}
      /\ B = {} \/ \E i : B = {i}
      /\ C = {} \/ \E i : C = {i}
  <2>1. \A i, j \in A : i = j
    BY <1>1 DEF NoneTwice
  <2>2. \A i, j \in B : i = j
    BY <1>1 DEF NoneTwice
  <2>3. \A i, j \in C : i = j
    BY DEF NoneTwice
  <2> HIDE DEF A, B, C
  <2> QED BY <2>1, <2>2, <2>3
<1>3. /\ A # {} => B = {} /\ C = {}
      /\ B # {} => C = {}
  BY <1>1 DEF NoneTwice
<1>4. UnderWay(o) <=> A # {} \/ B # {} \/ C # {}
  BY <1>1 DEF UnderWay, WorkersBusy, WorkersEmpty
<1>5. Copies(o) = Cardinality(A) + Cardinality(B) + Cardinality(C)
  BY DEF Copies
<1>6. Cardinality({}) = 0 /\ \A i : Cardinality({i}) = 1
  BY FS_EmptySet, FS_Singleton
<1> HIDE DEF A, B, C
<1>7. \A D : D = {} \/ (\E i : D = {i}) => Cardinality(D) = IF D = {} THEN 0 ELSE 1
  BY <1>6
<1>8. /\ Cardinality(A) = IF A = {} THEN 0 ELSE 1
      /\ Cardinality(B) = IF B = {} THEN 0 ELSE 1
      /\ Cardinality(C) = IF C = {} THEN 0 ELSE 1
  BY <1>2, <1>7
<1> QED BY <1>3, <1>4, <1>5, <1>8

(* Both invariants hold throughout. *)
THEOREM FlightInvariant == SafetySpec => [](IInv /\ FlightInv)
<1>1. Init => IInv /\ FlightInv
  BY InitInv, InitFlight
<1>2. IInv /\ FlightInv /\ [Next]_vars => IInv' /\ FlightInv'
  BY NextInv, NextFlight
<1> QED BY <1>1, <1>2, PTL DEF SafetySpec

(* No request or response is lost or doubled between the page and the cache   *)
(* service, whichever pages leave and when; and an answer fails to arrive only *)
(* at a page that has left or that another message of its own disconnected.    *)
THEOREM NothingLostOrDoubled == SafetySpec => []NoneLostOrDoubled
<1>1. IInv /\ FlightInv => OneCopyInFlight
  BY CopiesCounted DEF IInv, FlightInv, OneCopyInFlight, UnderWayWhilePending
<1>2. IInv /\ FlightInv => UndeliveredOnlyToGone
  BY OwnerAssumption DEF FlightInv, PagesToldBefore, UndeliveredOnlyToGone
<1> QED BY <1>1, <1>2, FlightInvariant, PTL DEF NoneLostOrDoubled

-----------------------------------------------------------------------------
(* The operation ran and came out as k. *)
Ran(o, k) ==
  \/ future[o] = k
  \/ \E t \in Threads : worker[t].op = o /\ worker[t].kind = k
  \/ \E i \in 1..Len(c2f) : c2f[i].op = o /\ c2f[i].kind = k

(* A page was told, or would have been had it stayed, that it must log in. *)
Refused(o) == answer[o] # "none" /\ future[o] = "none"

(* An operation that ran was sent, was not refused, and came out in one way. *)
LEMMA RanOnce ==
  IInv /\ FlightInv =>
    \A o \in Ops, k \in Kinds : Ran(o, k) =>
      Sent(o) /\ ~Refused(o) /\ \A l \in Kinds : Ran(o, l) => l = k
<1> SUFFICES ASSUME IInv, FlightInv, NEW o \in Ops, NEW k \in Kinds, Ran(o, k)
             PROVE  /\ Sent(o) /\ ~Refused(o)
                    /\ \A l \in Kinds : Ran(o, l) => l = k
  OBVIOUS
<1>0. /\ WorkersEmpty /\ NoneTwice /\ UnderWayWhilePending /\ HandlersAgree /\ TypeOK
      /\ WorkersBusy /\ FuturesRegistered /\ OnlySentUnderWay
  BY DEF IInv, FlightInv
<1>1. pc[o] \in {"new", "refused", "authenticated", "registered", "sent", "attached", "mapped", "done"}
  BY <1>0 DEF TypeOK
<1>2. CASE future[o] = k
  <2>1. future[o] \in {"value", "exception"}
    BY <1>2 DEF Kinds
  <2>2. ~UnderWay(o)
    BY <1>0, <2>1 DEF UnderWayWhilePending
  <2>3. Sent(o) /\ ~Refused(o)
    BY <1>0, <1>1, <2>1 DEF Sent, HandlersAgree, FuturesRegistered, Refused
  <2>4. ASSUME NEW l \in Kinds, Ran(o, l) PROVE l = k
    BY <1>0, <1>2, <2>2, <2>4, NoOpAssumption
    DEF UnderWay, Ran, WorkersEmpty, Kinds
  <2> QED BY <2>3, <2>4
<1>3. CASE future[o] # k
  <2>1. UnderWay(o)
    BY <1>0, <1>3, NoOpAssumption DEF UnderWay, Ran, WorkersEmpty
  <2>2. future[o] = "pending" /\ Sent(o)
    BY <1>0, <2>1 DEF UnderWayWhilePending
  <2>3. ~Refused(o)
    BY <2>2 DEF Refused
  <2>4. ASSUME NEW l \in Kinds, Ran(o, l) PROVE l = k
    BY <1>0, <1>3, <2>2, <2>4 DEF Ran, Kinds, NoneTwice
  <2> QED BY <2>2, <2>3, <2>4
<1> QED BY <1>2, <1>3

(* The abstract state, read off what ran. *)
ReadOff(o) ==
  /\ Refused(o) => Outcome(o) = "refused"
  /\ \A k \in Kinds : Ran(o, k) => Outcome(o) = k
  /\ ~Refused(o) /\ ~(\E k \in Kinds : Ran(o, k)) => Outcome(o) = "none"
  /\ answer[o] # "none" => Status(o) = "answered"
  /\ answer[o] = "none" /\ (\E k \in Kinds : Ran(o, k)) => Status(o) = "executed"
  /\ answer[o] = "none" /\ ~(\E k \in Kinds : Ran(o, k)) =>
       Status(o) = IF Sent(o) THEN "called" ELSE "idle"

(* So it is for every operation. *)
AllReadOff == \A o \in Ops : ReadOff(o)

(* The refinement mapping in terms of Ran, for every operation. *)
LEMMA AbstractState == IInv /\ FlightInv => AllReadOff
<1> SUFFICES ASSUME IInv, FlightInv, NEW o \in Ops PROVE ReadOff(o)
  BY DEF AllReadOff
<1>0. /\ WorkersEmpty /\ NoneTwice /\ UnderWayWhilePending /\ HandlersAgree /\ TypeOK
      /\ WorkersBusy /\ FuturesRegistered /\ OnlySentUnderWay
  BY DEF IInv, FlightInv
<1>1. /\ answer[o] \in {"none", "success", "error", "refused", "undelivered"}
      /\ pc[o] \in {"new", "refused", "authenticated", "registered", "sent", "attached", "mapped", "done"}
      /\ c2f \in Seq(Response) /\ DOMAIN c2f = 1..Len(c2f)
  BY <1>0 DEF TypeOK
<1>2. \A i \in DOMAIN c2f : c2f[i].kind \in Kinds
  <2>1. \A i \in DOMAIN c2f : c2f[i] \in Response
    BY <1>1
  <2> QED BY <2>1 DEF Response
<1>3. Executed(o) <=> \E k \in Kinds : Ran(o, k)
  BY <1>1, <1>2 DEF Executed, Ran
<1>4. /\ answer[o] # "none" => Status(o) = "answered"
      /\ answer[o] = "none" /\ Executed(o) => Status(o) = "executed"
      /\ answer[o] = "none" /\ ~Executed(o) =>
           Status(o) = IF Sent(o) THEN "called" ELSE "idle"
  BY DEF Status
<1>a. answer[o] \in {"success", "error"} \/ Refused(o) =>
        /\ \A t \in Threads : ~(worker[t].op = o /\ worker[t].kind \in Kinds)
        /\ \A i \in DOMAIN c2f : c2f[i].op # o
  <2>1. answer[o] \in {"success", "error"} \/ Refused(o) => future[o] # "pending"
    BY <1>0, <1>1 DEF HandlersAgree, Refused
  <2> QED BY <1>0, <1>1, <2>1, NoOpAssumption
       DEF UnderWayWhilePending, UnderWay, WorkersEmpty, Kinds
<1>5. Refused(o) => Outcome(o) = "refused"
  <2>1. answer[o] \in {"success", "error"} => future[o] # "none"
    BY <1>0, <1>1 DEF HandlersAgree
  <2> QED BY <1>a, <2>1 DEF Outcome, Refused, Kinds
<1>6. ~Refused(o) /\ ~Executed(o) => Outcome(o) = "none"
  <2>1. answer[o] \in {"success", "error"} => future[o] \in Kinds
    BY <1>0, <1>1 DEF HandlersAgree, Kinds
  <2>2. answer[o] = "refused" => future[o] = "none"
    BY <1>0, <1>1 DEF HandlersAgree
  <2> QED BY <1>1, <2>1, <2>2 DEF Outcome, Executed, Refused
<1>7. ASSUME NEW k \in Kinds, Ran(o, k) PROVE Outcome(o) = k
  <2>1. /\ ~Refused(o) /\ \A l \in Kinds : Ran(o, l) => l = k
    BY <1>7, RanOnce
  <2>2. CASE answer[o] = "success"
    <3>1. future[o] = "value"
      BY <1>0, <1>1, <2>2 DEF HandlersAgree
    <3>2. k = "value"
      BY <2>1, <3>1 DEF Kinds, Ran
    <3> QED BY <1>a, <2>2, <3>2 DEF Outcome
  <2>3. CASE answer[o] = "error"
    <3>1. future[o] = "exception"
      BY <1>0, <1>1, <2>3 DEF HandlersAgree
    <3>2. k = "exception"
      BY <2>1, <3>1 DEF Kinds, Ran
    <3> QED BY <1>a, <2>3, <3>2 DEF Outcome
  <2>4. CASE answer[o] \in {"none", "undelivered"} /\ future[o] \in Kinds
    <3>1. future[o] = k
      BY <2>1, <2>4 DEF Ran
    <3>2. \A t \in Threads : ~(worker[t].op = o /\ worker[t].kind \in Kinds)
      BY <1>0, <2>4, NoOpAssumption DEF UnderWayWhilePending, UnderWay, WorkersEmpty, Kinds
    <3>3. \A i \in DOMAIN c2f : c2f[i].op # o
      BY <1>0, <1>1, <2>4 DEF UnderWayWhilePending, UnderWay, Kinds
    <3> QED BY <2>4, <3>1, <3>2, <3>3 DEF Outcome
  <2>5. CASE answer[o] \in {"none", "undelivered"} /\ future[o] \notin Kinds
    <3> DEFINE P(t) == t \in Threads /\ worker[t].op = o /\ worker[t].kind \in Kinds
               Q(i) == i \in DOMAIN c2f /\ c2f[i].op = o
    <3>1. CASE \E t \in Threads : worker[t].op = o /\ worker[t].kind \in Kinds
      <4> DEFINE u == CHOOSE t \in Threads : worker[t].op = o /\ worker[t].kind \in Kinds
      <4>1. u \in Threads /\ worker[u].op = o /\ worker[u].kind \in Kinds
        BY <3>1
      <4> HIDE DEF u
      <4>2. worker[u].kind = k
        BY <2>1, <4>1 DEF Ran
      <4>3. \A i \in DOMAIN c2f : c2f[i].op # o
        BY <1>0, <1>1, <4>1 DEF NoneTwice
      <4>4. Outcome(o) = worker[u].kind
        BY <2>5, <3>1, <4>3 DEF Outcome, u
      <4> QED BY <4>2, <4>4
    <3>2. CASE ~\E t \in Threads : worker[t].op = o /\ worker[t].kind \in Kinds
      <4> DEFINE j == CHOOSE i \in DOMAIN c2f : c2f[i].op = o
      <4>1. \E i \in DOMAIN c2f : c2f[i].op = o
        BY <1>1, <1>7, <2>5, <3>2 DEF Ran
      <4>2. j \in DOMAIN c2f /\ c2f[j].op = o
        BY <4>1
      <4> HIDE DEF j
      <4>3. c2f[j].kind = k
        BY <1>1, <1>2, <2>1, <4>2 DEF Ran
      <4>4. Outcome(o) = c2f[j].kind
        BY <2>5, <3>2, <4>1 DEF Outcome, j
      <4> QED BY <4>3, <4>4
    <3> QED BY <3>1, <3>2
  <2>6. answer[o] # "refused"
    BY <1>0, <1>1, <2>1 DEF HandlersAgree, Refused
  <2> QED BY <1>1, <2>2, <2>3, <2>4, <2>5, <2>6
<1> QED BY <1>3, <1>4, <1>5, <1>6, <1>7 DEF ReadOff

(* The same after a step. *)
LEMMA AbstractStateNext == IInv' /\ FlightInv' => AllReadOff'
BY AbstractState, PTL

(* What did not happen to an operation leaves its abstract state alone. *)
LEMMA AbstractSame ==
  ASSUME IInv, FlightInv, IInv', FlightInv', NEW o \in Ops,
         answer'[o] = answer[o], Sent(o)' <=> Sent(o),
         \A k \in Kinds : Ran(o, k)' <=> Ran(o, k)
  PROVE  Status(o)' = Status(o) /\ Outcome(o)' = Outcome(o)
<1>1. ReadOff(o) /\ ReadOff(o)'
  BY AbstractState, AbstractStateNext DEF AllReadOff
<1>2. Refused(o)' <=> Refused(o)
  <2>1. answer[o] # "none" => pc[o] = "done" /\ pc'[o] = "done"
    BY DEF FlightInv, HandlersAgree
  <2> QED BY <2>1 DEF Refused, Sent
<1> QED BY <1>1, <1>2 DEF ReadOff

(* A step that changes the abstract state of no operation. *)
LEMMA Stutters ==
  ASSUME \A q \in Ops : Status(q)' = Status(q) /\ Outcome(q)' = Outcome(q)
  PROVE  UNCHANGED Abstract!callVars
BY DEF Abstract!callVars

(* Sending is the call, the worker that applies the request executes it,  *)
(* sending the event to the page answers it, a refusal refuses, and every *)
(* other step is invisible.                                               *)
LEMMA AbstractStep ==
  IInv /\ FlightInv /\ [Next]_vars => [Abstract!CallNext]_(Abstract!callVars)
<1> SUFFICES ASSUME IInv, FlightInv, [Next]_vars
             PROVE  [Abstract!CallNext]_(Abstract!callVars)
  OBVIOUS
<1> USE NoOpAssumption
<1>a. IInv' /\ FlightInv'
  BY NextInv, NextFlight
<1>b. AllReadOff /\ AllReadOff'
  BY <1>a, AbstractState, AbstractStateNext
<1>c. ASSUME answer' = answer,
             \A q \in Ops : Sent(q)' <=> Sent(q),
             \A q \in Ops, k \in Kinds : Ran(q, k)' <=> Ran(q, k)
      PROVE  UNCHANGED Abstract!callVars
  BY <1>a, <1>c, AbstractSame, Stutters
<1>e. /\ WorkersEmpty /\ NoneTwice /\ UnderWayWhilePending /\ HandlersAgree
      /\ TypeOK /\ WorkersBusy /\ OnlySentUnderWay
      /\ FuturesRegistered /\ CorrelationsMatchPending /\ NoRequestBeforeService
  BY DEF FlightInv, IInv
<1>f. /\ f2c \in Seq(Ops) /\ c2f \in Seq(Response) /\ worker \in [Threads -> Worker]
      /\ pc \in [Ops -> {"new", "refused", "authenticated", "registered", "sent", "attached",
                     "mapped", "done"}]
      /\ future \in [Ops -> {"none", "pending", "value", "exception"}]
      /\ answer \in [Ops -> {"none", "success", "error", "refused", "undelivered"}]
  BY <1>e DEF TypeOK, Kinds
<1>g. UNCHANGED <<future, worker, c2f>> => \A q \in Ops, k \in Kinds : Ran(q, k)' <=> Ran(q, k)
  BY DEF Ran
<1>h. UNCHANGED <<pc, future>> => \A q \in Ops : Sent(q)' <=> Sent(q)
  BY DEF Sent
<1>1. CASE Boot
  <2>1. UNCHANGED <<c2f, worker, pc, future, answer>>
    BY <1>1 DEF Boot, CreateRequestChannel, CreateResponseChannel, StartSocketServer,
        SubscribeService, StartServlets, bootStep, handlerVars
  <2> QED BY <2>1, <1>c, <1>g, <1>h
<1>2. CASE Servlets
  <2>1. UNCHANGED <<c2f, worker, pc, future, answer>>
    BY <1>2 DEF Servlets, Login, Logout, handlerVars
  <2> QED BY <2>1, <1>c, <1>g, <1>h
<1>3. ASSUME NEW o \in Ops, NEW s \in Sessions, Authenticate(o, s)
      PROVE  UNCHANGED Abstract!callVars
  <2>1. /\ UNCHANGED <<c2f, worker, future, answer>>
        /\ pc[o] = "new" /\ pc' = [pc EXCEPT ![o] = "authenticated"]
    BY <1>3 DEF Authenticate, CanHandle
  <2>2. \A q \in Ops : Sent(q)' <=> Sent(q)
    BY <1>f, <2>1 DEF Sent
  <2> QED BY <2>1, <2>2, <1>c, <1>g
<1>4. ASSUME NEW o \in Ops, NEW s \in Sessions, Refuse(o, s)
      PROVE  UNCHANGED Abstract!callVars
  <2>1. /\ UNCHANGED <<c2f, worker, future, answer>>
        /\ pc[o] = "new" /\ pc' = [pc EXCEPT ![o] = "refused"]
    BY <1>4 DEF Refuse, CanHandle
  <2>2. \A q \in Ops : Sent(q)' <=> Sent(q)
    BY <1>f, <2>1 DEF Sent
  <2> QED BY <2>1, <2>2, <1>c, <1>g
<1>r. ASSUME NEW o \in Ops, SendRefusal(o)
      PROVE  Abstract!Refuse(o)
  <2>1. /\ UNCHANGED <<c2f, worker, future>>
        /\ pc[o] = "refused" /\ pc' = [pc EXCEPT ![o] = "done"]
        /\ answer' = [answer EXCEPT ![o] =
              IF Owner[o] \in connected THEN "refused" ELSE "undelivered"]
    BY <1>r DEF SendRefusal, sendEvent, disconnect
  <2>2. ~Sent(o) /\ answer[o] = "none" /\ future[o] = "none"
    BY <1>e, <2>1 DEF Sent, HandlersAgree, FuturesRegistered
  <2>3. ~\E k \in Kinds : Ran(o, k)
    BY <2>2, RanOnce
  <2>4. Status(o) = "idle"
    BY <1>b, <2>2, <2>3 DEF AllReadOff, ReadOff, Refused
  <2>5. Refused(o)' /\ answer'[o] # "none"
    BY <1>f, <2>1, <2>2 DEF Refused
  <2>6. Status(o)' = "answered" /\ Outcome(o)' = "refused"
    BY <1>b, <2>5 DEF AllReadOff, ReadOff
  <2>7. ASSUME NEW q \in Ops, q # o PROVE Status(q)' = Status(q) /\ Outcome(q)' = Outcome(q)
    <3>1. answer'[q] = answer[q] /\ (Sent(q)' <=> Sent(q))
      BY <1>f, <2>1, <2>7 DEF Sent
    <3> QED BY <1>a, <1>g, <2>1, <3>1, AbstractSame
  <2> QED BY <2>4, <2>6, <2>7 DEF Abstract!Refuse
<1>l. ASSUME NEW c \in Clients, Leave(c) PROVE UNCHANGED Abstract!callVars
  <2>1. UNCHANGED <<c2f, worker, pc, future, answer>>
    BY <1>l DEF Leave, handlerVars
  <2> QED BY <2>1, <1>c, <1>g, <1>h
<1>5. ASSUME NEW o \in Ops, Register(o) PROVE UNCHANGED Abstract!callVars
  <2>1. /\ UNCHANGED <<c2f, worker, answer>>
        /\ pc[o] = "authenticated" /\ pc' = [pc EXCEPT ![o] = "registered"]
        /\ future' = [future EXCEPT ![o] = "pending"]
    BY <1>5 DEF Register
  <2>2. future[o] = "none"
    BY <1>e, <2>1 DEF FuturesRegistered
  <2>3. \A q \in Ops : Sent(q)' <=> Sent(q)
    BY <1>f, <2>1 DEF Sent
  <2>4. \A q \in Ops, k \in Kinds : Ran(q, k)' <=> Ran(q, k)
    BY <1>f, <2>1, <2>2 DEF Ran, Kinds
  <2> QED BY <2>1, <2>3, <2>4, <1>c
<1>6. ASSUME NEW o \in Ops, Send(o) PROVE Abstract!Call(o)
  <2>1. /\ UNCHANGED <<c2f, worker, answer, future>>
        /\ pc[o] = "registered" /\ pc' = [pc EXCEPT ![o] = "sent"]
    BY <1>6 DEF Send
  <2>2. ~Sent(o) /\ answer[o] = "none" /\ future[o] = "pending"
    BY <1>e, <2>1 DEF Sent, HandlersAgree
  <2>3. ~\E k \in Kinds : Ran(o, k)
    BY <2>2, RanOnce
  <2>4. Status(o) = "idle" /\ Outcome(o) = "none"
    BY <1>b, <2>2, <2>3 DEF AllReadOff, ReadOff, Refused
  <2>5. Sent(o)'
    BY <1>f, <2>1, <2>2 DEF Sent
  <2>6. ~(\E k \in Kinds : Ran(o, k))'
    BY <1>g, <2>1, <2>3
  <2>7. Status(o)' = "called" /\ Outcome(o)' = "none"
    BY <1>b, <2>1, <2>2, <2>5, <2>6 DEF AllReadOff, ReadOff, Refused
  <2>8. ASSUME NEW q \in Ops, q # o PROVE Status(q)' = Status(q) /\ Outcome(q)' = Outcome(q)
    <3>1. answer'[q] = answer[q] /\ (Sent(q)' <=> Sent(q))
      BY <1>f, <2>1, <2>8 DEF Sent
    <3> QED BY <1>a, <1>g, <2>1, <3>1, AbstractSame
  <2> QED BY <2>4, <2>7, <2>8 DEF Abstract!Call
<1>7. ASSUME NEW o \in Ops, Attach(o) PROVE UNCHANGED Abstract!callVars
  <2>1. /\ UNCHANGED <<c2f, worker, future, answer>>
        /\ pc[o] = "sent" /\ pc' = [pc EXCEPT ![o] = "attached"]
    BY <1>7 DEF Attach
  <2>2. \A q \in Ops : Sent(q)' <=> Sent(q)
    BY <1>f, <2>1 DEF Sent
  <2> QED BY <2>1, <2>2, <1>c, <1>g
<1>8. ASSUME NEW o \in Ops, MapValue(o) PROVE UNCHANGED Abstract!callVars
  <2>1. /\ UNCHANGED <<c2f, worker, future, answer>>
        /\ pc[o] = "attached" /\ pc' = [pc EXCEPT ![o] = "mapped"]
    BY <1>8 DEF MapValue
  <2>2. \A q \in Ops : Sent(q)' <=> Sent(q)
    BY <1>f, <2>1 DEF Sent
  <2> QED BY <2>1, <2>2, <1>c, <1>g
<1>i. ASSUME NEW o \in Ops, NEW a \in {"success", "error", "undelivered"},
             UNCHANGED <<c2f, worker, future>>,
             pc[o] \in {"attached", "mapped"}, pc' = [pc EXCEPT ![o] = "done"],
             future[o] \in Kinds,
             answer' = [answer EXCEPT ![o] = a]
      PROVE  Abstract!Answer(o)
  <2>1. answer[o] = "none"
    BY <1>e, <1>i DEF HandlersAgree
  <2>2. Ran(o, future[o]) /\ Ran(o, future[o])'
    BY <1>i DEF Ran
  <2>3. Status(o) = "executed" /\ Outcome(o) = future[o]
    BY <1>b, <1>i, <2>1, <2>2 DEF AllReadOff, ReadOff
  <2>4. answer'[o] # "none"
    BY <1>f, <1>i
  <2>5. Status(o)' = "answered" /\ Outcome(o)' = future[o]
    BY <1>b, <1>i, <2>2, <2>4 DEF AllReadOff, ReadOff
  <2>6. ASSUME NEW q \in Ops, q # o PROVE Status(q)' = Status(q) /\ Outcome(q)' = Outcome(q)
    <3>1. answer'[q] = answer[q] /\ (Sent(q)' <=> Sent(q))
      BY <1>f, <1>i, <2>6 DEF Sent
    <3> QED BY <1>a, <1>g, <1>i, <3>1, AbstractSame
  <2> QED BY <2>3, <2>5, <2>6 DEF Abstract!Answer
<1>9. ASSUME NEW o \in Ops, SendSuccess(o) PROVE Abstract!Answer(o)
  <2>1. /\ UNCHANGED <<c2f, worker, future>>
        /\ pc[o] = "mapped" /\ pc' = [pc EXCEPT ![o] = "done"]
        /\ answer' = [answer EXCEPT ![o] =
              IF Owner[o] \in connected THEN "success" ELSE "undelivered"]
    BY <1>9 DEF SendSuccess, sendEvent
  <2>2. future[o] \in Kinds
    BY <1>e, <2>1 DEF HandlersAgree, Kinds
  <2> QED BY <1>i, <2>1, <2>2
<1>10. ASSUME NEW o \in Ops, SendError(o) PROVE Abstract!Answer(o)
  <2>1. /\ UNCHANGED <<c2f, worker, future>>
        /\ pc[o] = "attached" /\ pc' = [pc EXCEPT ![o] = "done"]
        /\ future[o] = "exception"
        /\ answer' = [answer EXCEPT ![o] =
              IF Owner[o] \in connected THEN "error" ELSE "undelivered"]
    BY <1>10 DEF SendError, sendEvent
  <2>2. future[o] \in Kinds
    BY <2>1 DEF Kinds
  <2> QED BY <1>i, <2>1, <2>2
<1>11. ASSUME NEW t \in Threads, TakeRequest(t) PROVE UNCHANGED Abstract!callVars
  <2>1. /\ UNCHANGED <<c2f, pc, answer, future>>
        /\ worker[t].at = "idle"
        /\ worker' = [worker EXCEPT ![t] = [at |-> "gotRequest", op |-> Head(f2c), kind |-> "none"]]
    BY <1>11 DEF TakeRequest, become, handlerVars
  <2>2. worker[t].kind = "none" /\ worker'[t].kind = "none"
    BY <1>e, <1>f, <2>1 DEF WorkersEmpty
  <2>3. \A u \in Threads : u # t => worker'[u] = worker[u]
    BY <1>f, <2>1
  <2>4. \A q \in Ops, k \in Kinds : Ran(q, k)' <=> Ran(q, k)
    BY <2>1, <2>2, <2>3 DEF Ran, Kinds
  <2> QED BY <2>1, <2>4, <1>c, <1>h
<1>12. ASSUME NEW t \in Threads, ReceiveRequest(t)
       PROVE  \E o \in Ops : Abstract!Execute(o)
  <2> DEFINE o == worker[t].op
  <2>1. /\ UNCHANGED <<c2f, pc, answer, future>>
        /\ worker[t].at = "gotRequest"
    BY <1>12 DEF ReceiveRequest, handlerVars
  <2>2. o \in Ops /\ UnderWay(o)
    BY <1>e, <2>1 DEF WorkersBusy, UnderWay
  <2>3. Sent(o) /\ future[o] = "pending"
    BY <1>e, <2>2 DEF UnderWayWhilePending
  <2>4. ServiceSubscribed
    BY <1>e, <2>2, <2>3 DEF ServiceSubscribed, NoRequestBeforeService, HandlersAgree, Sent
  <2>5. PICK k \in Kinds :
           worker' = [worker EXCEPT ![t] = [at |-> "applied", op |-> worker[t].op, kind |-> k]]
    BY <1>12, <2>4 DEF ReceiveRequest, become
  <2>6. /\ worker'[t] = [at |-> "applied", op |-> worker[t].op, kind |-> k]
        /\ \A u \in Threads : u # t => worker'[u] = worker[u]
    BY <1>f, <2>5
  <2>7. answer[o] = "none"
    BY <1>e, <1>f, <2>2, <2>3 DEF HandlersAgree
  <2>8. ~\E l \in Kinds : Ran(o, l)
    <3>1. worker[t].kind = "none"
      BY <1>e, <2>1 DEF WorkersEmpty
    <3> QED BY <1>e, <2>2, <2>3, <3>1 DEF Ran, NoneTwice, Kinds
  <2>9. Status(o) = "called" /\ Outcome(o) = "none"
    BY <1>b, <2>2, <2>3, <2>7, <2>8 DEF AllReadOff, ReadOff, Refused
  <2>10. ASSUME NEW q \in Ops, q # o PROVE Status(q)' = Status(q) /\ Outcome(q)' = Outcome(q)
    <3>1. \A l \in Kinds : Ran(q, l)' <=> Ran(q, l)
      BY <2>1, <2>6, <2>10 DEF Ran
    <3> QED BY <1>a, <1>h, <2>1, <3>1, AbstractSame
  <2> HIDE DEF o
  <2>11. PICK q : q = o
    OBVIOUS
  <2>12. Ran(q, k)'
    BY <2>6, <2>11 DEF Ran, o
  <2>13. Status(q)' = "executed" /\ Outcome(q)' = k
    BY <1>b, <2>1, <2>2, <2>7, <2>11, <2>12 DEF AllReadOff, ReadOff
  <2>14. Abstract!Execute(q)
    BY <2>2, <2>9, <2>10, <2>11, <2>13 DEF Abstract!Execute, Kinds
  <2> QED BY <2>2, <2>11, <2>14
<1>13. ASSUME NEW t \in Threads, SendResponse(t) PROVE UNCHANGED Abstract!callVars
  <2> DEFINE r == [op |-> worker[t].op, kind |-> worker[t].kind]
  <2>1. /\ UNCHANGED <<pc, answer, future>>
        /\ worker[t].at = "applied"
        /\ c2f' = Append(c2f, r)
        /\ worker' = [worker EXCEPT ![t] = Idle]
    BY <1>13 DEF SendResponse, become, handlerVars
  <2>2. r \in Response /\ r.op = worker[t].op /\ r.kind = worker[t].kind
    BY <1>e, <2>1 DEF WorkersBusy, Response
  <2>3. /\ worker'[t].kind = "none"
        /\ \A u \in Threads : u # t => worker'[u] = worker[u]
    BY <1>f, <2>1 DEF Idle
  <2> HIDE DEF r
  <2>4. /\ Len(c2f') = Len(c2f) + 1 /\ Len(c2f) \in Nat /\ c2f'[Len(c2f) + 1] = r
        /\ \A i \in 1..Len(c2f) : c2f'[i] = c2f[i]
    BY <1>f, <2>1, <2>2
  <2>5. ASSUME NEW q \in Ops, NEW k \in Kinds PROVE Ran(q, k)' <=> Ran(q, k)
    <3>1. (\E i \in 1..Len(c2f') : c2f'[i].op = q /\ c2f'[i].kind = k)
            <=> \/ \E i \in 1..Len(c2f) : c2f[i].op = q /\ c2f[i].kind = k
                \/ worker[t].op = q /\ worker[t].kind = k
      BY <2>2, <2>4
    <3>2. (\E u \in Threads : worker'[u].op = q /\ worker'[u].kind = k)
            <=> \E u \in Threads \ {t} : worker[u].op = q /\ worker[u].kind = k
      BY <2>3 DEF Kinds
    <3> QED BY <2>1, <3>1, <3>2 DEF Ran
  <2> QED BY <2>1, <2>5, <1>c, <1>h
<1>14. ASSUME NEW t \in Threads, TakeResponse(t) PROVE UNCHANGED Abstract!callVars
  <2>1. /\ UNCHANGED <<pc, answer, future>>
        /\ worker[t].at = "idle" /\ c2f # << >> /\ c2f' = Tail(c2f)
        /\ worker' = [worker EXCEPT ![t] = [at |-> "gotResponse", op |-> Head(c2f).op, kind |-> Head(c2f).kind]]
    BY <1>14 DEF TakeResponse, become, handlerVars
  <2>2. /\ Head(c2f) = c2f[1] /\ c2f[1] \in Response /\ 1 \in 1..Len(c2f)
        /\ \A i \in 1..Len(c2f') : i + 1 \in 1..Len(c2f) /\ i + 1 # 1 /\ c2f'[i] = c2f[i + 1]
        /\ \A i \in 1..Len(c2f) : i # 1 => i - 1 \in 1..Len(c2f') /\ c2f'[i - 1] = c2f[i]
    BY <1>f, <2>1, HeadAndTail, RestMoves
  <2>3. /\ worker'[t].op = c2f[1].op /\ worker'[t].kind = c2f[1].kind
        /\ \A u \in Threads : u # t => worker'[u] = worker[u]
        /\ worker[t].kind = "none"
    BY <1>e, <1>f, <2>1, <2>2 DEF WorkersEmpty
  <2>5. ASSUME NEW q \in Ops, NEW k \in Kinds PROVE Ran(q, k)' <=> Ran(q, k)
    <3>1. (\E i \in 1..Len(c2f) : c2f[i].op = q /\ c2f[i].kind = k)
            <=> \/ \E i \in 1..Len(c2f') : c2f'[i].op = q /\ c2f'[i].kind = k
                \/ c2f[1].op = q /\ c2f[1].kind = k
      BY <2>2
    <3>2. (\E u \in Threads : worker[u].op = q /\ worker[u].kind = k)
            <=> \E u \in Threads \ {t} : worker'[u].op = q /\ worker'[u].kind = k
      BY <2>3 DEF Kinds
    <3> QED BY <2>1, <2>3, <3>1, <3>2 DEF Ran
  <2> QED BY <2>1, <2>5, <1>c, <1>h
<1>15. ASSUME NEW t \in Threads, ReceiveResponse(t) PROVE UNCHANGED Abstract!callVars
  <2>1. /\ UNCHANGED <<c2f, pc, answer, future>>
        /\ worker[t].at = "gotResponse"
    BY <1>15 DEF ReceiveResponse
  <2>2. worker[t].op \in Ops /\ UnderWay(worker[t].op)
    BY <1>e, <2>1 DEF WorkersBusy, UnderWay
  <2>3. future[worker[t].op] = "pending"
    BY <1>e, <2>2 DEF UnderWayWhilePending
  <2>4. ~\E u \in Threads : worker[u].op = worker[t].op /\ worker[u].at = "removed"
    BY <1>e, <2>1, <2>2 DEF NoneTwice
  <2>5. worker[t].op \in messageCorrelations
    BY <1>e, <2>2, <2>3, <2>4 DEF CorrelationsMatchPending
  <2>6. /\ worker'[t] = [worker[t] EXCEPT !.at = "removed"]
        /\ \A u \in Threads : u # t => worker'[u] = worker[u]
    BY <1>15, <1>f, <2>5 DEF ReceiveResponse, become
  <2>7. /\ worker'[t].op = worker[t].op /\ worker'[t].kind = worker[t].kind
    BY <1>f, <2>6 DEF Worker
  <2>8. \A u \in Threads : worker'[u].op = worker[u].op /\ worker'[u].kind = worker[u].kind
    BY <2>6, <2>7
  <2>9. \A q \in Ops, k \in Kinds : Ran(q, k)' <=> Ran(q, k)
    BY <2>1, <2>8 DEF Ran
  <2> QED BY <2>1, <2>9, <1>c, <1>h
<1>16. ASSUME NEW t \in Threads, Complete(t) PROVE UNCHANGED Abstract!callVars
  <2>1. /\ UNCHANGED <<c2f, pc, answer>>
        /\ worker[t].at = "removed"
        /\ worker' = [worker EXCEPT ![t] = Idle]
        /\ future' = [future EXCEPT ![worker[t].op] = IF @ = "pending" THEN worker[t].kind ELSE @]
    BY <1>16 DEF Complete, become, handlerVars
  <2>2. worker[t].op \in Ops /\ UnderWay(worker[t].op) /\ worker[t].kind \in {"value", "exception"}
    BY <1>e, <2>1 DEF WorkersBusy, UnderWay, Kinds
  <2>3. future[worker[t].op] = "pending" /\ Sent(worker[t].op)
    BY <1>e, <2>2 DEF UnderWayWhilePending
  <2>4. /\ worker'[t].kind = "none"
        /\ \A u \in Threads : u # t => worker'[u] = worker[u]
    BY <1>f, <2>1 DEF Idle
  <2>5. future' = [future EXCEPT ![worker[t].op] = worker[t].kind]
    BY <1>f, <2>1, <2>3
  <2>6. \A q \in Ops : future'[q] = IF q = worker[t].op THEN worker[t].kind ELSE future[q]
    BY <1>f, <2>5
  <2>7. \A q \in Ops : Sent(q)' <=> Sent(q)
    BY <2>1, <2>2, <2>3, <2>6 DEF Sent
  <2>8. ASSUME NEW q \in Ops, NEW k \in Kinds PROVE Ran(q, k)' <=> Ran(q, k)
    <3>1. (\E u \in Threads : worker'[u].op = q /\ worker'[u].kind = k)
            <=> \E u \in Threads \ {t} : worker[u].op = q /\ worker[u].kind = k
      BY <2>4 DEF Kinds
    <3>2. future'[q] = k <=> future[q] = k \/ (worker[t].op = q /\ worker[t].kind = k)
      BY <2>3, <2>6 DEF Kinds
    <3> QED BY <2>1, <3>1, <3>2 DEF Ran
  <2> QED BY <2>1, <2>7, <2>8, <1>c
<1>17. CASE UNCHANGED vars
  BY <1>17, <1>c, <1>g, <1>h DEF vars
<1> QED
  BY <1>1, <1>2, <1>3, <1>4, <1>5, <1>6, <1>7, <1>8, <1>9, <1>10, <1>11,
     <1>12, <1>13, <1>14, <1>15, <1>16, <1>17, <1>r, <1>l
  DEF Next, Arrive, Handler, Callback, Loop, CacheLoop, FrontLoop, Quiet, Abstract!CallNext

(* Every operation starts idle. *)
LEMMA AbstractInit == Init => Abstract!CallInit
<1> SUFFICES ASSUME Init PROVE Abstract!CallInit
  OBVIOUS
<1>1. AllReadOff
  BY InitInv, InitFlight, AbstractState
<1>2. \A o \in Ops : /\ answer[o] = "none" /\ ~Sent(o)
                     /\ ~\E k \in Kinds : Ran(o, k)
  BY NoOpAssumption DEF Init, Sent, Ran, Kinds, Idle
<1>3. \A o \in Ops : Status(o) = "idle" /\ Outcome(o) = "none"
  BY <1>1, <1>2 DEF AllReadOff, ReadOff, Refused
<1> QED BY <1>3 DEF Abstract!CallInit

(* The machinery of sockets, channels, worker loops and futures implements  *)
(* the abstract remote call as far as safety goes: every operation that was *)
(* called is executed at most once, with one outcome, and answered with no  *)
(* outcome but that one.                                                    *)
THEOREM RemoteCallSafety ==
  SafetySpec => Abstract!CallInit /\ [][Abstract!CallNext]_(Abstract!callVars)
BY AbstractInit, AbstractStep, FlightInvariant, PTL DEF SafetySpec
=============================================================================
