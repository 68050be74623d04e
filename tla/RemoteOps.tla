------------------------------ MODULE RemoteOps ------------------------------
(***************************************************************************)
(* The remote operations of web-server: socket controller, CommandInvoker   *)
(* and sessions, AsyncMessageClient, the two BlockingQueueChannels with     *)
(* their worker loops on one fixed thread pool, and the remote cache        *)
(* service that answers.  An operation o \in Ops stands for one UI message  *)
(* and for the request and the Header (a fresh UUID) made from it.          *)
(***************************************************************************)
EXTENDS Naturals, Sequences, FiniteSets

CONSTANTS
  Ops,            \* the UI messages, each one remote operation
  Clients,        \* the socket.io clients (pages)
  Owner,          \* the page that sends each operation
  Sessions,       \* the session ids that may be presented
  PoolSize,       \* workersPool.size
  CacheWorkers,   \* cacheEngine.queue.workers.count
  FrontWorkers,   \* frontend.queue.workers.count
  NoOp            \* no operation

ASSUME OwnerAssumption == Owner \in [Ops -> Clients]
ASSUME WorkersAssumption ==
  /\ CacheWorkers \in Nat \ {0}
  /\ FrontWorkers \in Nat \ {0}
ASSUME PoolAssumption == PoolSize \in Nat \ {0}
ASSUME NoOpAssumption == NoOp \notin Ops

VARIABLES
  boot,       \* how far WebServerConfiguration has built the beans
  loops,      \* the worker loops submitted to the pool, in order
  active,     \* StubAuthServiceImpl.activeSessions
  issued,     \* the session ids given out so far (UUIDs are never reused)
  pc,         \* the socket handler of each operation
  messageCorrelations, \* AsyncMessageClient: the headers with a pending future
  f2c,        \* frontendToCacheEngineQueue
  c2f,        \* cacheEngineToFrontendQueue
  worker,     \* what each pool thread is doing
  future,     \* the CompletableFuture of each operation
  answer,     \* the event that went to the page
  connected,  \* the pages still connected
  gone        \* history: the pages that have left by themselves

bootVars == <<boot, loops>>
authVars == <<active, issued>>
handlerVars == <<pc, messageCorrelations>>
vars == <<boot, loops, active, issued, pc, messageCorrelations,
          f2c, c2f, worker, future, answer, connected, gone>>

Threads == 1..PoolSize
Kinds == {"value", "exception"}
Response == [op : Ops, kind : Kinds]
Boots == {"start", "requestChannel", "responseChannel", "socket", "service",
          "ready"}

Idle == [at |-> "idle", op |-> NoOp, kind |-> "none"]
Worker == [at : {"idle", "gotRequest", "applied", "gotResponse", "removed"},
           op : Ops \cup {NoOp}, kind : Kinds \cup {"none"}]

TypeOK ==
  /\ boot \in Boots
  /\ loops \in Seq({"f2c", "c2f"})
  /\ active \subseteq Sessions
  /\ issued \subseteq Sessions
  /\ pc \in [Ops -> {"new", "refused", "authenticated", "registered", "sent",
                     "attached", "mapped", "done"}]
  /\ messageCorrelations \subseteq Ops
  /\ f2c \in Seq(Ops)
  /\ c2f \in Seq(Response)
  /\ worker \in [Threads -> Worker]
  /\ future \in [Ops -> {"none", "pending"} \cup Kinds]
  /\ answer \in [Ops -> {"none", "success", "error", "refused", "undelivered"}]
  /\ connected \subseteq Clients
  /\ gone \subseteq Clients

Init ==
  /\ boot = "start"
  /\ loops = << >>
  /\ active = {}
  /\ issued = {}
  /\ pc = [o \in Ops |-> "new"]
  /\ messageCorrelations = {}
  /\ f2c = << >>
  /\ c2f = << >>
  /\ worker = [t \in Threads |-> Idle]
  /\ future = [o \in Ops |-> "none"]
  /\ answer = [o \in Ops |-> "none"]
  /\ connected = Clients
  /\ gone = {}

-----------------------------------------------------------------------------
(* Start-up: the main thread builds the beans in the order Spring does. *)

(* Mutant: one loop more than the code starts. *)
initWorkers_more(channel, workersCount) ==
  loops' = loops \o [i \in 1..(workersCount + 2) |-> channel]

(* WorkerUtils.initWorkers: range(0, workersCount + 1) endless loops go to the *)
(* pool; a fixed pool runs the first PoolSize of them and queues the rest.     *)
initWorkers(channel, workersCount) ==
  loops' = loops \o [i \in 1..(workersCount + 1) |-> channel]

Serves(t, channel) == t \in DOMAIN loops /\ loops[t] = channel

bootStep(from, to) ==
  /\ boot = from
  /\ boot' = to
  /\ UNCHANGED <<authVars, handlerVars, f2c, c2f, worker, future, answer,
                 connected, gone>>

CreateRequestChannel ==
  /\ bootStep("start", "requestChannel")
  /\ initWorkers("f2c", CacheWorkers)

(* The front duplex channel and the AsyncMessageClient subscribe here too. *)
CreateResponseChannel ==
  /\ bootStep("requestChannel", "responseChannel")
  /\ initWorkers("c2f", FrontWorkers)

StartSocketServer ==
  /\ bootStep("responseChannel", "socket")
  /\ UNCHANGED loops

(* cacheEngineDuplexChannel, MessageClient and AbstractService subscribe, one  *)
(* to the other; a request reaches the service once the last of them has.      *)
SubscribeService ==
  /\ bootStep("socket", "service")
  /\ UNCHANGED loops

(* Jetty accepts HTTP once the application context is complete. *)
StartServlets ==
  /\ bootStep("service", "ready")
  /\ UNCHANGED loops

SocketStarted == boot \in {"socket", "service", "ready"}
ServiceSubscribed == boot \in {"service", "ready"}

-----------------------------------------------------------------------------
(* Sessions: LoginServlet and LogoutServlet through CommandInvoker. *)

Login(s) ==
  /\ boot = "ready"
  /\ s \notin issued
  /\ active' = active \cup {s}
  /\ issued' = issued \cup {s}
  /\ UNCHANGED <<bootVars, handlerVars, f2c, c2f, worker, future, answer,
                 connected, gone>>

Logout(s) ==
  /\ boot = "ready"
  /\ s \in active
  /\ active' = active \ {s}
  /\ UNCHANGED <<bootVars, issued, handlerVars, f2c, c2f, worker, future,
                 answer, connected, gone>>

(* Mutant: any session id will do. *)
isValidSession_any(s) == s \in Sessions

isValidSession(s) == s \in active

-----------------------------------------------------------------------------
(* The page: what the socket library does with an event for a client. *)

InHandler(o) == pc[o] \in {"refused", "authenticated", "registered", "sent"}

(* sendSuccess and sendError: nothing arrives at a page that is gone. *)
sendEvent(o, event) ==
  answer' = [answer EXCEPT ![o] =
               IF Owner[o] \in connected THEN event ELSE "undelivered"]

disconnect(o) == connected' = connected \ {Owner[o]}

(* The page closes its socket, at any time.  The controller listens for connects   *)
(* only: handlers, requests and callbacks of the page go on as if it were there.   *)
Leave(c) ==
  /\ SocketStarted
  /\ c \in connected
  /\ connected' = connected \ {c}
  /\ gone' = gone \cup {c}
  /\ UNCHANGED <<bootVars, authVars, handlerVars, f2c, c2f, worker, future,
                 answer>>

-----------------------------------------------------------------------------
(* GetCacheStatsSocketController: the handler of one UI message.  The socket  *)
(* library calls it for one message of a client at a time.                    *)

CanHandle(o) ==
  /\ SocketStarted
  /\ pc[o] = "new"
  /\ Owner[o] \in connected
  /\ \A p \in Ops : Owner[p] = Owner[o] => ~InHandler(p)

(* CommandInvoker.authenticate answers OK: RemoteOpsCommand will be executed. *)
Authenticate(o, s) ==
  /\ CanHandle(o)
  /\ isValidSession(s)
  /\ pc' = [pc EXCEPT ![o] = "authenticated"]
  /\ UNCHANGED <<bootVars, authVars, messageCorrelations, f2c, c2f, worker,
                 future, answer, connected, gone>>

(* NotAuthModelResult. *)
Refuse(o, s) ==
  /\ CanHandle(o)
  /\ ~isValidSession(s)
  /\ pc' = [pc EXCEPT ![o] = "refused"]
  /\ UNCHANGED <<bootVars, authVars, messageCorrelations, f2c, c2f, worker,
                 future, answer, connected, gone>>

(* The page gets the error and is disconnected. *)
SendRefusal(o) ==
  /\ pc[o] = "refused"
  /\ pc' = [pc EXCEPT ![o] = "done"]
  /\ sendEvent(o, "refused")
  /\ disconnect(o)
  /\ UNCHANGED <<bootVars, authVars, messageCorrelations, f2c, c2f, worker,
                 future, gone>>

(* AsyncMessageClient.send up to messageCorrelations.put. *)
Register(o) ==
  /\ pc[o] = "authenticated"
  /\ future' = [future EXCEPT ![o] = "pending"]
  /\ messageCorrelations' = messageCorrelations \cup {o}
  /\ pc' = [pc EXCEPT ![o] = "registered"]
  /\ UNCHANGED <<bootVars, authVars, f2c, c2f, worker, answer,
                 connected, gone>>

(* channel.send: inQueue.offer on an unbounded queue. *)
Send(o) ==
  /\ pc[o] = "registered"
  /\ f2c' = Append(f2c, o)
  /\ pc' = [pc EXCEPT ![o] = "sent"]
  /\ UNCHANGED <<bootVars, authVars, messageCorrelations, c2f, worker,
                 future, answer, connected, gone>>

(* thenApplyAsync, thenAcceptAsync, exceptionally: the handler returns. *)
Attach(o) ==
  /\ pc[o] = "sent"
  /\ pc' = [pc EXCEPT ![o] = "attached"]
  /\ UNCHANGED <<bootVars, authVars, messageCorrelations, f2c, c2f,
                 worker, future, answer, connected, gone>>

-----------------------------------------------------------------------------
(* The worker loops. *)

become(t, state) == worker' = [worker EXCEPT ![t] = state]

(* Mutant: the worker looks at the head of the queue without removing it. *)
TakeRequest_peek(t) ==
  /\ Serves(t, "f2c")
  /\ worker[t].at = "idle"
  /\ f2c # << >>
  /\ become(t, [at |-> "gotRequest", op |-> Head(f2c), kind |-> "none"])
  /\ UNCHANGED <<bootVars, authVars, handlerVars, f2c, c2f, future, answer,
                 connected, gone>>

TakeRequest(t) ==
  /\ Serves(t, "f2c")
  /\ worker[t].at = "idle"
  /\ f2c # << >>
  /\ become(t, [at |-> "gotRequest", op |-> Head(f2c), kind |-> "none"])
  /\ f2c' = Tail(f2c)
  /\ UNCHANGED <<bootVars, authVars, handlerVars, c2f, future, answer,
                 connected, gone>>

(* observers.forEach: with nobody subscribed the request is gone; otherwise   *)
(* AbstractService.receive applies the operation to the engine, where getStats *)
(* may throw (SoftReferenceCacheImpl.remove of a key that is gone).           *)
ReceiveRequest(t) ==
  /\ worker[t].at = "gotRequest"
  /\ IF ServiceSubscribed
       THEN \E k \in Kinds :
              become(t, [at |-> "applied", op |-> worker[t].op, kind |-> k])
       ELSE become(t, Idle)
  /\ UNCHANGED <<bootVars, authVars, handlerVars, f2c, c2f, future, answer,
                 connected, gone>>

(* Mutant: the response gets a header of its own. *)
SendResponse_newHeader(t) ==
  /\ worker[t].at = "applied"
  /\ c2f' = Append(c2f, [op |-> NoOp, kind |-> worker[t].kind])
  /\ become(t, Idle)
  /\ UNCHANGED <<bootVars, authVars, handlerVars, f2c, future, answer,
                 connected, gone>>

(* sendSuccessResult or sendException: a response with the request's header. *)
SendResponse(t) ==
  /\ worker[t].at = "applied"
  /\ c2f' = Append(c2f, [op |-> worker[t].op, kind |-> worker[t].kind])
  /\ become(t, Idle)
  /\ UNCHANGED <<bootVars, authVars, handlerVars, f2c, future, answer,
                 connected, gone>>

TakeResponse(t) ==
  /\ Serves(t, "c2f")
  /\ worker[t].at = "idle"
  /\ c2f # << >>
  /\ become(t, [at |-> "gotResponse", op |-> Head(c2f).op,
                kind |-> Head(c2f).kind])
  /\ c2f' = Tail(c2f)
  /\ UNCHANGED <<bootVars, authVars, handlerVars, f2c, future, answer,
                 connected, gone>>

(* Mutant: messageCorrelations.get in place of remove. *)
ReceiveResponse_get(t) ==
  /\ worker[t].at = "gotResponse"
  /\ become(t, IF worker[t].op \in messageCorrelations
                 THEN [worker[t] EXCEPT !.at = "removed"] ELSE Idle)
  /\ UNCHANGED <<bootVars, authVars, handlerVars, f2c, c2f, future, answer,
                 connected, gone>>

(* AsyncMessageClient.receive: messageCorrelations.remove; a response that has *)
(* no correlation is rejected.                                                *)
ReceiveResponse(t) ==
  /\ worker[t].at = "gotResponse"
  /\ messageCorrelations' = messageCorrelations \ {worker[t].op}
  /\ become(t, IF worker[t].op \in messageCorrelations
                 THEN [worker[t] EXCEPT !.at = "removed"] ELSE Idle)
  /\ UNCHANGED <<bootVars, authVars, pc, f2c, c2f, future, answer,
                 connected, gone>>

(* complete or completeExceptionally; a future is completed once. *)
Complete(t) ==
  /\ worker[t].at = "removed"
  /\ future' = [future EXCEPT ![worker[t].op] =
                  IF @ = "pending" THEN worker[t].kind ELSE @]
  /\ become(t, Idle)
  /\ UNCHANGED <<bootVars, authVars, handlerVars, f2c, c2f, answer, connected, gone>>

-----------------------------------------------------------------------------
(* The callbacks chained on the future, once attached and completed. *)

(* getResponseValue, on the common pool. *)
MapValue(o) ==
  /\ pc[o] = "attached"
  /\ future[o] = "value"
  /\ pc' = [pc EXCEPT ![o] = "mapped"]
  /\ UNCHANGED <<bootVars, authVars, messageCorrelations, f2c, c2f,
                 worker, future, answer, connected, gone>>

(* Mutant: the page is disconnected after a success as well. *)
SendSuccess_disconnect(o) ==
  /\ pc[o] = "mapped"
  /\ pc' = [pc EXCEPT ![o] = "done"]
  /\ sendEvent(o, "success")
  /\ disconnect(o)
  /\ UNCHANGED <<bootVars, authVars, messageCorrelations, f2c, c2f, worker,
                 future, gone>>

SendSuccess(o) ==
  /\ pc[o] = "mapped"
  /\ pc' = [pc EXCEPT ![o] = "done"]
  /\ sendEvent(o, "success")
  /\ UNCHANGED <<bootVars, authVars, messageCorrelations, f2c, c2f,
                 worker, future, connected, gone>>

SendError(o) ==
  /\ pc[o] = "attached"
  /\ future[o] = "exception"
  /\ pc' = [pc EXCEPT ![o] = "done"]
  /\ sendEvent(o, "error")
  /\ disconnect(o)
  /\ UNCHANGED <<bootVars, authVars, messageCorrelations, f2c, c2f,
                 worker, future, gone>>

-----------------------------------------------------------------------------

Boot ==
  \/ CreateRequestChannel
  \/ CreateResponseChannel
  \/ StartSocketServer
  \/ SubscribeService
  \/ StartServlets

Servlets == \E s \in Sessions : Login(s) \/ Logout(s)

Arrive(o) == \E s \in Sessions : Authenticate(o, s) \/ Refuse(o, s)

Handler(o) == SendRefusal(o) \/ Register(o) \/ Send(o) \/ Attach(o)

CacheLoop(t) == TakeRequest(t) \/ ReceiveRequest(t) \/ SendResponse(t)

FrontLoop(t) == TakeResponse(t) \/ ReceiveResponse(t) \/ Complete(t)

Loop(t) == CacheLoop(t) \/ FrontLoop(t)

Callback(o) == MapValue(o) \/ SendSuccess(o) \/ SendError(o)

(* Every message has been dealt with or its page is gone: the loops wait in *)
(* take() for messages beyond Ops.                                         *)
Quiet ==
  /\ boot = "ready"
  /\ \A o \in Ops : pc[o] = "done" \/ (pc[o] = "new" /\ Owner[o] \notin connected)
  /\ UNCHANGED vars

Next ==
  \/ Boot
  \/ Servlets
  \/ \E c \in Clients : Leave(c)
  \/ \E o \in Ops : Arrive(o) \/ Handler(o) \/ Callback(o)
  \/ \E t \in Threads : Loop(t)
  \/ Quiet

(* The main thread goes on building beans; a handler that was entered, a pool *)
(* thread that has something to do and a callback that is due go on running.  *)
(* Pages, logins and logouts come as they please.                             *)
Fairness ==
  /\ WF_vars(Boot)
  /\ \A o \in Ops : WF_vars(Handler(o)) /\ WF_vars(Callback(o))
  /\ \A t \in Threads : WF_vars(Loop(t))

SafetySpec == Init /\ [][Next]_vars
Spec == SafetySpec /\ Fairness

-----------------------------------------------------------------------------
(* Properties. *)

Sent(o) == pc[o] \in {"sent", "attached", "mapped", "done"} /\ future[o] # "none"

(* The copies of an operation's request or response that are under way. *)
Copies(o) ==
    Cardinality({i \in DOMAIN f2c : f2c[i] = o})
  + Cardinality({i \in DOMAIN c2f : c2f[i].op = o})
  + Cardinality({t \in Threads : worker[t].op = o})

(* Nothing is lost and nothing is doubled: an operation that was sent and whose *)
(* future is still pending has exactly one request or response under way, in a *)
(* queue or in the hands of a worker, and no other operation has any            *)
(* (BlockingQueueChannel, AsyncMessageClient.send and receive).                 *)
OneCopyInFlight ==
  \A o \in Ops : Copies(o) = IF Sent(o) /\ future[o] = "pending" THEN 1 ELSE 0

(* The correlation table neither leaks nor forgets: a header is in it from the *)
(* registration until a worker has taken the response out for completion, and  *)
(* a response that waits to be matched always finds its future                 *)
(* (AsyncMessageClient.send registers before it sends).                        *)
CorrelationsMatchPending ==
  \A o \in Ops :
    o \in messageCorrelations <=>
      /\ future[o] = "pending"
      /\ ~\E t \in Threads : worker[t].op = o /\ worker[t].at = "removed"

(* The worker loops run, and the socket accepts messages, before the cache     *)
(* service has subscribed; no request may be under way while observers.forEach *)
(* would drop it.  What prevents it is CommandInvoker.authenticate: there is no *)
(* session before the servlets start.                                          *)
NoRequestBeforeService ==
  (\E o \in Ops : pc[o] \notin {"new", "refused", "done"}) \/ f2c # << >>
    => ServiceSubscribed

(* A page loses an answer only because it has left, or because another of its  *)
(* own messages failed and had it disconnected (sendError); what becomes of the *)
(* messages of one page takes no answer from another.                          *)
UndeliveredOnlyToGone ==
  \A o \in Ops : answer[o] = "undelivered" =>
    \/ Owner[o] \in gone
    \/ \E p \in Ops \ {o} : Owner[p] = Owner[o] /\ answer[p] \in {"error", "refused"}

(* What came of an operation, wherever its response is now. *)
Executed(o) ==
  \/ future[o] \in Kinds
  \/ \E t \in Threads : worker[t].op = o /\ worker[t].kind \in Kinds
  \/ \E i \in DOMAIN c2f : c2f[i].op = o

Outcome(o) ==
  CASE answer[o] # "none" /\ future[o] = "none" -> "refused"
    [] answer[o] = "success" -> "value"
    [] answer[o] = "error" -> "exception"
    [] answer[o] \in {"none", "undelivered"} /\ future[o] \in Kinds -> future[o]
    [] \E t \in Threads : worker[t].op = o /\ worker[t].kind \in Kinds ->
         worker[CHOOSE t \in Threads :
                  worker[t].op = o /\ worker[t].kind \in Kinds].kind
    [] \E i \in DOMAIN c2f : c2f[i].op = o ->
         c2f[CHOOSE i \in DOMAIN c2f : c2f[i].op = o].kind
    [] OTHER -> "none"

Status(o) ==
  CASE answer[o] # "none" -> "answered"
    [] answer[o] = "none" /\ Executed(o) -> "executed"
    [] answer[o] = "none" /\ ~Executed(o) /\ Sent(o) -> "called"
    [] OTHER -> "idle"

Abstract == INSTANCE RemoteCall WITH
  status <- [o \in Ops |-> Status(o)],
  outcome <- [o \in Ops |-> Outcome(o)]

(* The machinery implements the abstract remote call: executed once, answered *)
(* once with the outcome of that execution, and, with the fairness above,     *)
(* every operation that was called is executed and answered.                  *)
ImplementsRemoteCall == Abstract!CallSpec

(* No message is lost or doubled between a page and the service, whoever leaves, and on   *)
(* the way back only a page that has left or was disconnected for an error misses one.  *)
NoneLostOrDoubled == OneCopyInFlight /\ UndeliveredOnlyToGone
=============================================================================
