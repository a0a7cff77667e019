------------------------------- MODULE Gateway -------------------------------
(***************************************************************************)
(* An HTTP request on its way: through the gateway, as one gRPC call to the*)
(* order or the inventory service, and back, while its deadlines pass, its *)
(* client hangs up, the connection to the service breaks, and the three    *)
(* processes stop, die and start again.                                    *)
(*                                                                         *)
(* What a service does with a call it has accepted is Promise, composed    *)
(* here as Svc: OrderIntake shows that CreateOrder keeps it.               *)
(***************************************************************************)
EXTENDS Integers

CONSTANTS
  Requests,
  NoRequest,    \* no request
  Mixes,        \* the routes that requests may take together
  NoKey, Key,   \* Key[r]: the idempotency key of a CreateOrder, or NoKey
  MaxStops      \* bound on how often a process stops or dies

Services == {"order", "inventory"}

VARIABLES
  gate,     \* the gateway process: "up", "draining" after SIGTERM, or "down"
  service,  \* service[s]: the same of a service
  stops,    \* how often a process was stopped or killed so far
  severed,  \* requests whose call lost the connection, or its service by a kill
  route,    \* the route a request takes
  pc,       \* where a request is in the gateway
  clock,    \* the last deadline of a request that is over
  call,     \* the RPC of a request: "none", "sent", "running" or the code it
            \* ended with
  status,   \* the HTTP status written for a request, 0 before, and when nobody
            \* will read it
  done, told \* of Svc: the calls whose work is done, what a handler returned

processes == <<gate, service, stops>>
vars == <<gate, service, stops, severed, route, pc, clock, call, status, done, told>>


Svc == INSTANCE Promise WITH Calls <- Requests, NoCall <- NoRequest,
  key <- [r \in Requests |-> IF route[r] = "OrderCreate" THEN Key[r] ELSE NoKey]

-----------------------------------------------------------------------------
(* Routes.  A handler of the gateway reads a body, needs a query parameter,*)
(* or neither, calls one RPC and answers its success.                       *)

\* The codes by which a handler of a service says that it did nothing, and the
\* code of any other error.
RPC(s, refusals, failure) == [service |-> s, refusals |-> refusals, failure |-> failure]

CreateOrderRPC == RPC("order", {"InvalidArgument", "NotFound", "FailedPrecondition"}, "Internal")
GetOrderRPC    == RPC("order", {"InvalidArgument", "NotFound"}, "Internal")
ListOrdersRPC  == RPC("order", {"InvalidArgument"}, "Internal")

\* Every error but NotFound is FailedPrecondition, that of the SELECT after the
\* UPDATE too.
CancelOrderRPC == RPC("order", {"InvalidArgument", "NotFound", "FailedPrecondition"}, "FailedPrecondition")

CreateProductRPC  == RPC("inventory", {"InvalidArgument"}, "Internal")
UpdateProductRPC  == RPC("inventory", {"InvalidArgument", "NotFound"}, "Internal")
GetProductRPC     == RPC("inventory", {"InvalidArgument", "NotFound"}, "Internal")
ListProductsRPC   == RPC("inventory", {}, "Internal")
SearchProductsRPC == RPC("inventory", {"InvalidArgument"}, "Internal")

Handles(needs, rpc, success) == [needs |-> needs, rpc |-> rpc, success |-> success]

OrderCreate == Handles("body", CreateOrderRPC, 201)
OrderGet    == Handles("nothing", GetOrderRPC, 200)
OrderList   == Handles("query", ListOrdersRPC, 200)
OrderCancel == Handles("nothing", CancelOrderRPC, 200)

ProductCreate == Handles("body", CreateProductRPC, 201)
ProductGet    == Handles("nothing", GetProductRPC, 200)
ProductUpdate == Handles("body", UpdateProductRPC, 200)
ProductList   == Handles("nothing", ListProductsRPC, 200)
ProductSearch == Handles("query", SearchProductsRPC, 200)

Router ==
  [ProductCreate |-> ProductCreate, ProductList |-> ProductList, ProductSearch |-> ProductSearch,
   ProductGet |-> ProductGet, ProductUpdate |-> ProductUpdate,
   OrderCreate |-> OrderCreate, OrderList |-> OrderList, OrderGet |-> OrderGet,
   OrderCancel |-> OrderCancel]

Routes == DOMAIN Router

ASSUME GatewayAssumption ==
  /\ NoRequest \notin Requests
  /\ Mixes \subseteq [Requests -> Routes]
  /\ MaxStops \in Nat

Handler(r) == Router[route[r]]
Callee(r) == Handler(r).rpc.service

\* Mutant of HTTPStatus: errors of the server blamed on the client.
BlamesClient(c) == IF c = "Internal" THEN 400 ELSE 503

\* The codes a call ends with.
Codes == {"OK", "InvalidArgument", "NotFound", "FailedPrecondition", "Internal", "Unavailable"}

\* The rows of codes that no service answers with are left out.
HTTPStatus(c) ==
  CASE c = "InvalidArgument" -> 400
    [] c = "NotFound" -> 404
    [] c = "FailedPrecondition" -> 422
    [] c = "Unavailable" -> 503
    [] c = "DeadlineExceeded" -> 504
    [] OTHER -> 500

-----------------------------------------------------------------------------
(* The gateway.  Of the two deadlines that start with a request, that of    *)
(* writes passes first: the connection has it when the headers are read, the*)
(* context gets its timer in the middleware.                                *)

InTime == 0
ReadOver == 1     \* ReadTimeout, 10 s: the body cannot be read any more
WriteOver == 2    \* WriteTimeout, 30 s: nothing written reaches the client
ContextOver == 3  \* middleware.Timeout, 30 s: the context ends; so it does, and
                  \* so ends the connection, when the client hangs up

\* Mutant of ContextEnded: no Timeout middleware, and calls with a context of
\* their own.
ContextLives(r) == FALSE

ContextEnded(r) == clock[r] = ContextOver

InFlight(r) == pc[r] \in {"handler", "calling", "writing"}

Receive(r) ==
  /\ gate = "up" /\ pc[r] = "idle"
  /\ pc' = [pc EXCEPT ![r] = "handler"]
  /\ UNCHANGED <<processes, severed, route, clock, call, status, done, told>>

Write(r, s) ==
  /\ status' = [status EXCEPT ![r] = s]
  /\ pc' = [pc EXCEPT ![r] = "writing"]

\* The body is not JSON or came too late, or the parameter is missing.
BadRequest(r) ==
  /\ pc[r] = "handler" /\ Handler(r).needs # "nothing"
  /\ Write(r, 400)
  /\ UNCHANGED <<processes, severed, route, clock, call, done, told>>

\* The call has the request's context: none is sent when that has ended.
Call(r) ==
  /\ pc[r] = "handler"
  /\ Handler(r).needs = "body" => clock[r] < ReadOver
  /\ pc' = [pc EXCEPT ![r] = "calling"]
  /\ call' = IF ContextEnded(r) THEN call ELSE [call EXCEPT ![r] = "sent"]
  /\ UNCHANGED <<processes, severed, route, clock, status, done, told>>

Respond(r) ==
  /\ pc[r] = "calling" /\ call[r] \in Codes
  /\ Write(r, IF call[r] = "OK" THEN Handler(r).success ELSE HTTPStatus(call[r]))
  /\ UNCHANGED <<processes, severed, route, clock, call, done, told>>

\* The context ends first.  What the service does with the call is open.
GiveUp(r) ==
  /\ pc[r] = "calling" /\ ContextEnded(r)
  /\ \E c \in {"DeadlineExceeded", "Canceled"} : Write(r, HTTPStatus(c))
  /\ UNCHANGED <<processes, severed, route, clock, call, done, told>>

\* The connection to the service breaks, or the stream is reset, while the call or
\* its answer is on the way: the client reports Unavailable and calls no second
\* time.  The service, alive or not, goes on with whatever has reached it.
Disconnected(r) ==
  /\ pc[r] = "calling" /\ call[r] # "none"
  /\ Write(r, HTTPStatus("Unavailable"))
  /\ severed' = severed \cup {r}
  /\ UNCHANGED <<processes, route, clock, call, done, told>>

\* The response leaves the buffer of the connection, or the connection is closed;
\* the timers of the request end with it.
Flush(r) ==
  /\ pc[r] = "writing"
  /\ IF clock[r] < WriteOver
     THEN pc' = [pc EXCEPT ![r] = "answered"] /\ UNCHANGED status
     ELSE pc' = [pc EXCEPT ![r] = "cut"] /\ status' = [status EXCEPT ![r] = 0]
  /\ clock' = [clock EXCEPT ![r] = InTime]
  /\ UNCHANGED <<processes, severed, route, call, done, told>>

\* The deadlines a request can still meet: that of reading until its body is
\* read, that of the context until the handler is through.
Meets(r) ==
  {WriteOver} \cup (IF pc[r] = "handler" /\ Handler(r).needs = "body" THEN {ReadOver} ELSE {})
              \cup (IF pc[r] # "writing" THEN {ContextOver} ELSE {})

\* The next of them passes.
TimePasses(r) ==
  /\ InFlight(r)
  /\ \E t \in Meets(r) :
       /\ clock[r] < t /\ \A u \in Meets(r) : clock[r] < u => t <= u
       /\ clock' = [clock EXCEPT ![r] = t]
  /\ UNCHANGED <<processes, severed, route, pc, call, status, done, told>>

HangUp(r) ==
  /\ InFlight(r)
  /\ clock' = [clock EXCEPT ![r] = ContextOver]
  /\ UNCHANGED <<processes, severed, route, pc, call, status, done, told>>

-----------------------------------------------------------------------------
(* A service *)

Ends(r, c) == call' = [call EXCEPT ![r] = c]

CallsOf(s) == {r \in Requests : call[r] = "running" /\ Callee(r) = s}

Accept(r) ==
  /\ call[r] = "sent" /\ service[Callee(r)] = "up"
  /\ call' = [call EXCEPT ![r] = "running"]
  /\ UNCHANGED <<processes, severed, route, pc, clock, status, done, told>>

\* The connection is refused, or closed by a server that has not accepted the call.
Refuse(r) ==
  /\ call[r] = "sent" /\ service[Callee(r)] # "up"
  /\ Ends(r, "Unavailable")
  /\ UNCHANGED <<processes, severed, route, pc, clock, status, done, told>>

\* The statement that does what the call asks for commits.
Work(r) ==
  /\ call[r] = "running"
  /\ Svc!Do(r)
  /\ UNCHANGED <<processes, severed, route, pc, clock, call, status>>

Return(r) ==
  /\ call[r] = "running"
  /\ \/ Svc!Confirm(r) /\ Ends(r, "OK")
     \/ Svc!Refuse(r) /\ \E c \in Handler(r).rpc.refusals : Ends(r, c)
     \/ Svc!Fail(r) /\ Ends(r, Handler(r).rpc.failure)
  /\ UNCHANGED <<processes, severed, route, pc, clock, status>>

\* A handler panics, at any point of its work; the interceptor answers.
Panic(r) ==
  /\ call[r] = "running"
  /\ Svc!Fail(r)
  /\ Ends(r, "Internal")
  /\ UNCHANGED <<processes, severed, route, pc, clock, status>>

-----------------------------------------------------------------------------
(* The processes *)

MayStop == stops < MaxStops /\ stops' = stops + 1

\* Shutdown closes the listener and waits for requests, ten seconds at most.
StopGateway ==
  /\ gate = "up" /\ MayStop
  /\ gate' = "draining"
  /\ UNCHANGED <<service, severed, route, pc, clock, call, status, done, told>>

\* main returns, or is killed: requests in flight are cut, their contexts end.
GatewayEnds ==
  /\ gate' = "down"
  /\ pc' = [r \in Requests |-> IF InFlight(r) THEN "cut" ELSE pc[r]]
  /\ status' = [r \in Requests |-> IF InFlight(r) THEN 0 ELSE status[r]]
  /\ clock' = [r \in Requests |-> InTime]
  /\ UNCHANGED <<service, severed, route, call, done, told>>

ExitGateway == gate = "draining" /\ GatewayEnds /\ UNCHANGED stops
KillGateway == gate = "up" /\ MayStop /\ GatewayEnds

StartGateway ==
  /\ gate = "down"
  /\ gate' = "up"
  /\ UNCHANGED <<service, stops, severed, route, pc, clock, call, status, done, told>>

\* SIGTERM: GracefulStop accepts no more calls.
StopService(s) ==
  /\ service[s] = "up" /\ MayStop
  /\ service' = [service EXCEPT ![s] = "draining"]
  /\ UNCHANGED <<gate, severed, route, pc, clock, call, status, done, told>>

\* Mutant of Drained: Stop where the code has GracefulStop.
DrainedAtOnce(s) == TRUE

\* It returns when the handlers have.
Drained(s) == CallsOf(s) = {}

\* main returns, and whatever still runs dies with it.
ProcessEnds(s) ==
  /\ service' = [service EXCEPT ![s] = "down"]
  /\ call' = [r \in Requests |-> IF r \in CallsOf(s) THEN "Unavailable" ELSE call[r]]
  /\ UNCHANGED <<gate, route, pc, clock, status, done, told>>

ExitService(s) == service[s] = "draining" /\ Drained(s) /\ ProcessEnds(s) /\ UNCHANGED <<stops, severed>>
KillService(s) == service[s] # "down" /\ MayStop /\ ProcessEnds(s) /\ severed' = severed \cup CallsOf(s)

StartService(s) ==
  /\ service[s] = "down"
  /\ service' = [service EXCEPT ![s] = "up"]
  /\ UNCHANGED <<gate, stops, severed, route, pc, clock, call, status, done, told>>

-----------------------------------------------------------------------------

Init ==
  /\ gate = "up" /\ service = [s \in Services |-> "up"]
  /\ stops = 0 /\ severed = {}
  /\ route \in Mixes
  /\ pc = [r \in Requests |-> "idle"]
  /\ clock = [r \in Requests |-> InTime]
  /\ call = [r \in Requests |-> "none"]
  /\ status = [r \in Requests |-> 0]
  /\ Svc!Init

\* What the gateway does for a request without waiting for anybody.
Step(r) == BadRequest(r) \/ Call(r) \/ Respond(r) \/ GiveUp(r) \/ Flush(r)

Next ==
  \/ \E r \in Requests :
       \/ Receive(r) \/ Step(r) \/ Disconnected(r) \/ TimePasses(r) \/ HangUp(r)
       \/ Accept(r) \/ Refuse(r) \/ Work(r) \/ Return(r) \/ Panic(r)
  \/ StopGateway \/ ExitGateway \/ KillGateway \/ StartGateway
  \/ \E s \in Services : StopService(s) \/ ExitService(s) \/ KillService(s) \/ StartService(s)

\* Mutant of HandlerEnded: the handler's work has a context of its own.
HandlerNeverEnded(r) == FALSE

\* The handler's context ends when the gateway does not wait for the call any
\* more: canceled, its connection gone, or at the deadline sent with the call.
HandlerEnded(r) == pc[r] # "calling"

\* Time passes and the gateway's handlers go on.  A service may be slow without
\* end, but a handler whose context has ended returns, and so does main.
Fairness ==
  /\ \A r \in Requests :
       /\ WF_vars(Step(r)) /\ WF_vars(TimePasses(r))
       /\ WF_vars(HandlerEnded(r) /\ Return(r))
  /\ \A s \in Services : WF_vars(ExitService(s))

Spec == Init /\ [][Next]_vars
FairSpec == Spec /\ Fairness

-----------------------------------------------------------------------------
(* Properties *)

Statuses == {0, 200, 201, 400, 404, 422, 500, 503, 504}

\* Every variable keeps its type.
TypeOK ==
  /\ gate \in {"up", "draining", "down"}
  /\ service \in [Services -> {"up", "draining", "down"}]
  /\ stops \in 0 .. MaxStops /\ severed \subseteq Requests
  /\ route \in [Requests -> Routes]
  /\ pc \in [Requests -> {"idle", "handler", "calling", "writing", "answered", "cut"}]
  /\ clock \in [Requests -> InTime .. ContextOver]
  /\ call \in [Requests -> {"none", "sent", "running"} \cup Codes]
  /\ status \in [Requests -> Statuses]
  /\ done \subseteq Requests
  /\ told \in [Requests -> Svc!Answers]

Answered(r) == pc[r] = "answered"

\* What a client is answered holds of the databases, now and later: a 2xx means
\* that the work was done, by this request or a duplicate, a 4xx that this
\* request did nothing and, late as its call may be, never will.  (The 422 of
\* a cancellation is the exception, see CancelRefusalsAreClean.)
AnswerTellsEffect ==
  \A r \in Requests : Answered(r) =>
    /\ status[r] \in {200, 201} => Svc!Twins(r) \cap done # {}
    /\ \/ status[r] \in {400, 404}
       \/ status[r] = 422 /\ route[r] # "OrderCancel"
       => r \notin done

\* A 503 is no reason to doubt, so that even a POST /products may be repeated,
\* unless this very call lost its connection or its service was killed under it:
\* a stop, however timed, and a panic in a handler never cut a call that has begun.
RestartsLeaveNoDoubt ==
  \A r \in Requests : Answered(r) /\ status[r] = 503 /\ r \in done => r \in severed

\* Every request ends, with an answer or a closed connection, whatever the
\* services do: down, draining or in a handler that never returns.
EveryRequestEnds == \A r \in Requests : pc[r] = "handler" ~> pc[r] \in {"answered", "cut"}

\* A service that was asked to stop does: the calls it waits for end with the
\* deadline the gateway gave them, or with the gateway.
StopsEnd == \A s \in Services : service[s] = "draining" ~> service[s] = "down"

-----------------------------------------------------------------------------
(* Promises of documents and comments that the code does not keep *)

\* A request that takes 30 seconds is answered 504.
TimeoutsAreAnswered ==
  \A r \in Requests : pc[r] = "writing" /\ status[r] = 504 => clock[r] < WriteOver

\* A cancellation answered 422 did not happen.
CancelRefusalsAreClean ==
  \A r \in Requests : Answered(r) /\ route[r] = "OrderCancel" /\ status[r] = 422 => r \notin done
=============================================================================
