---------------------------- MODULE GatewayProofs ----------------------------
(***************************************************************************)
(* For any requests, routes and stops of the processes: what a client is   *)
(* answered through the gateway holds of the databases.                    *)
(***************************************************************************)
EXTENDS Gateway, TLAPS

\* The 422 of a cancellation says nothing.
Refusal(r, c) ==
  \/ c \in {"InvalidArgument", "NotFound"}
  \/ c = "FailedPrecondition" /\ route[r] # "OrderCancel"

\* What the state of a call says of its work.
CallFits(r) ==
  /\ call[r] \in {"none", "sent"} => r \notin done
  /\ call[r] \in {"none", "sent", "running"} => told[r] = Svc!Untold
  /\ call[r] = "OK" => Svc!Twins(r) \cap done # {}
  /\ Refusal(r, call[r]) => r \notin done
  /\ call[r] = "Unavailable" /\ r \in done => r \in severed

\* A status but 500 and 504 comes from the code of the call, or a 503 from its
\* broken connection; a request that the gateway refused itself has no code.
StatusFits(r) ==
  /\ pc[r] \in {"idle", "handler"} => call[r] = "none"
  /\ pc[r] \in {"writing", "answered"} =>
       /\ status[r] \in {200, 201} => call[r] = "OK"
       /\ status[r] = 400 => call[r] \in {"none", "InvalidArgument"}
       /\ status[r] = 404 => call[r] = "NotFound"
       /\ status[r] = 422 => call[r] = "FailedPrecondition"
       /\ status[r] = 503 => call[r] = "Unavailable" \/ r \in severed

IInv == TypeOK /\ \A r \in Requests : CallFits(r) /\ StatusFits(r)

-----------------------------------------------------------------------------

\* What the table of routes gives for a request.
LEMMA Handled ==
  ASSUME TypeOK, NEW r \in Requests
  PROVE  /\ Handler(r).success \in {200, 201}
         /\ Handler(r).rpc.refusals \subseteq {"InvalidArgument", "NotFound", "FailedPrecondition"}
         /\ Handler(r).rpc.failure \in {"Internal", "FailedPrecondition"}
         /\ Handler(r).rpc.failure = "FailedPrecondition" => route[r] = "OrderCancel"
         /\ Callee(r) \in Services
<1>1. route[r] \in {"ProductCreate", "ProductList", "ProductSearch", "ProductGet", "ProductUpdate",
                    "OrderCreate", "OrderList", "OrderGet", "OrderCancel"}
  BY DEF TypeOK, Routes, Router
<1> QED BY <1>1 DEF Handler, Callee, Router, Services, Handles, RPC,
      OrderCreate, OrderGet, OrderList, OrderCancel, ProductCreate, ProductGet, ProductUpdate,
      ProductList, ProductSearch, CreateOrderRPC, GetOrderRPC, ListOrdersRPC, CancelOrderRPC,
      CreateProductRPC, UpdateProductRPC, GetProductRPC, ListProductsRPC, SearchProductsRPC

\* The HTTP status of a code.
LEMMA StatusOfCode ==
  ASSUME NEW c \in Codes \cup {"DeadlineExceeded", "Canceled"}
  PROVE  /\ HTTPStatus(c) \in Statuses \ {0, 200, 201}
         /\ HTTPStatus(c) = 400 => c = "InvalidArgument"
         /\ HTTPStatus(c) = 404 => c = "NotFound"
         /\ HTTPStatus(c) = 422 => c = "FailedPrecondition"
         /\ HTTPStatus(c) = 503 => c = "Unavailable"
  BY DEF HTTPStatus, Codes, Statuses

\* What Promise may say is an answer.
LEMMA ToldTyped ==
  /\ Svc!Untold \in Svc!Answers /\ Svc!Refused \in Svc!Answers /\ Svc!Failed \in Svc!Answers
  /\ \A q \in Requests : Svc!Done(q) \in Svc!Answers
  BY DEF Svc!Answers, Svc!Untold, Svc!Refused, Svc!Failed, Svc!Done

\* The initial state has its types.
LEMMA InitTyped == Init => TypeOK
<1> SUFFICES ASSUME Init PROVE TypeOK
  OBVIOUS
<1>1. route \in [Requests -> Routes] /\ stops \in 0 .. MaxStops
  BY GatewayAssumption DEF GatewayAssumption, Init
<1>2. done \subseteq Requests /\ told \in [Requests -> Svc!Answers]
  BY ToldTyped DEF Init, Svc!Init
<1>3. severed \subseteq Requests
  BY DEF Init
<1>4. clock \in [Requests -> InTime .. ContextOver] /\ status \in [Requests -> Statuses]
  BY DEF Init, Statuses, InTime, ContextOver
<1> QED BY <1>1, <1>2, <1>3, <1>4 DEF Init, TypeOK

\* The actions that touch what a service or Promise holds, and those that do not.
Waits(r) ==
  \/ Receive(r) \/ TimePasses(r) \/ HangUp(r) \/ BadRequest(r) \/ Respond(r)
  \/ GiveUp(r) \/ Disconnected(r) \/ Flush(r)
Serves(r) == Accept(r) \/ Refuse(r) \/ Work(r) \/ Return(r) \/ Panic(r)
GatewayStops == StopGateway \/ ExitGateway \/ KillGateway \/ StartGateway
ServiceStops(s) == StopService(s) \/ ExitService(s) \/ KillService(s) \/ StartService(s)

\* Every step keeps the types.
LEMMA NextTyped == ASSUME TypeOK, [Next]_vars PROVE TypeOK'
<1> USE DEF TypeOK, InTime, ReadOver, WriteOver, ContextOver, processes
<1>1. ASSUME NEW r \in Requests, Waits(r) PROVE TypeOK'
  <2>1. CASE Receive(r) \/ TimePasses(r) \/ HangUp(r)
    BY <2>1 DEF Receive, TimePasses, Meets, HangUp
  <2>2. CASE BadRequest(r) \/ Flush(r)
    BY <2>2 DEF BadRequest, Flush, Write, Statuses
  <2>3. CASE Respond(r)
    BY <2>3, Handled, StatusOfCode DEF Respond, Write, Statuses
  <2>4. CASE GiveUp(r)
    BY <2>4, StatusOfCode DEF GiveUp, Write
  <2>5. CASE Disconnected(r)
    BY <2>5, StatusOfCode DEF Disconnected, Write, Codes
  <2> QED BY <1>1, <2>1, <2>2, <2>3, <2>4, <2>5 DEF Waits
<1>2. ASSUME NEW r \in Requests, Call(r) PROVE TypeOK'
  BY <1>2 DEF Call
<1>3. ASSUME NEW r \in Requests, Serves(r) PROVE TypeOK'
  <2>1. CASE Accept(r) \/ Refuse(r)
    BY <2>1 DEF Accept, Refuse, Ends, Codes
  <2>2. CASE Work(r)
    BY <2>2 DEF Work, Svc!Do, Svc!Does
  <2>3. CASE Return(r)
    <3>1. call' \in [Requests -> {"none", "sent", "running"} \cup Codes]
      BY <2>3, Handled DEF Return, Ends, Codes
    <3>2. done' \subseteq Requests /\ told' \in [Requests -> Svc!Answers]
      BY <2>3, ToldTyped DEF Return, Svc!Confirm, Svc!Refuse, Svc!Fail, Svc!Says, Svc!Does
    <3> QED BY <2>3, <3>1, <3>2 DEF Return
  <2>4. CASE Panic(r)
    BY <2>4, ToldTyped DEF Panic, Ends, Codes, Svc!Fail, Svc!Says, Svc!Does
  <2> QED BY <1>3, <2>1, <2>2, <2>3, <2>4 DEF Serves
<1>4. CASE GatewayStops
  <2>1. stops' \in 0 .. MaxStops
    BY <1>4, GatewayAssumption
    DEF GatewayAssumption, GatewayStops, StopGateway, ExitGateway, KillGateway, StartGateway, MayStop, GatewayEnds
  <2> QED BY <1>4, <2>1
      DEF GatewayStops, StopGateway, ExitGateway, KillGateway, StartGateway, GatewayEnds, Statuses
<1>5. ASSUME NEW s \in Services, ServiceStops(s) PROVE TypeOK'
  <2>1. stops' \in 0 .. MaxStops
    BY <1>5, GatewayAssumption
    DEF GatewayAssumption, ServiceStops, StopService, ExitService, KillService, StartService, MayStop, ProcessEnds
  <2>2. CASE StopService(s) \/ StartService(s)
    BY <2>1, <2>2 DEF StopService, StartService
  <2>3. CASE ExitService(s)
    BY <2>1, <2>3 DEF ExitService, ProcessEnds, Codes
  <2>4. CASE KillService(s)
    <3>1. severed' \subseteq Requests
      BY <2>4 DEF KillService, CallsOf
    <3>2. call' \in [Requests -> {"none", "sent", "running"} \cup Codes]
      BY <2>4 DEF KillService, ProcessEnds, Codes
    <3>3. service' \in [Services -> {"up", "draining", "down"}]
      BY <2>4 DEF KillService, ProcessEnds
    <3> QED BY <2>1, <2>4, <3>1, <3>2, <3>3 DEF KillService, ProcessEnds
  <2> QED BY <1>5, <2>2, <2>3, <2>4 DEF ServiceStops
<1>6. CASE UNCHANGED vars
  BY <1>6 DEF vars
<1> QED BY <1>1, <1>2, <1>3, <1>4, <1>5, <1>6 DEF Next, Step, Waits, Serves, GatewayStops, ServiceStops

-----------------------------------------------------------------------------

\* A step that leaves calls and their work alone.
LEMMA CallsStay ==
  ASSUME NEW q \in Requests, CallFits(q), UNCHANGED <<route, call, done, told>>, severed \subseteq severed'
  PROVE  CallFits(q)'
  BY DEF CallFits, Refusal, Svc!Twins, Svc!Untold

\* Work that another request does never takes any away.
LEMMA OthersWork ==
  ASSUME NEW q \in Requests, CallFits(q), UNCHANGED <<route, severed>>,
         call'[q] = call[q], told'[q] = told[q],
         done \subseteq done', q \in done' => q \in done
  PROVE  CallFits(q)'
  BY DEF CallFits, Refusal, Svc!Twins, Svc!Untold

\* Every step keeps what calls say of their work.
LEMMA NextCalls ==
  ASSUME IInv, [Next]_vars, NEW q \in Requests
  PROVE  CallFits(q)'
<1> USE DEF IInv, TypeOK
<1>1. ASSUME NEW r \in Requests, Waits(r) PROVE CallFits(q)'
  BY <1>1, CallsStay DEF Waits, Receive, TimePasses, HangUp, BadRequest, Respond, GiveUp, Disconnected, Flush, processes
<1>2. ASSUME NEW r \in Requests, Call(r) PROVE CallFits(q)'
  <2>1. CASE call' = call
    BY <1>2, <2>1, CallsStay DEF Call, processes
  <2>2. CASE call' = [call EXCEPT ![r] = "sent"] /\ q = r
    BY <1>2, <2>2 DEF Call, CallFits, StatusFits, Refusal, Svc!Untold
  <2>3. CASE call' = [call EXCEPT ![r] = "sent"] /\ q # r
    BY <1>2, <2>3, OthersWork DEF Call, processes
  <2> QED BY <1>2, <2>1, <2>2, <2>3 DEF Call
<1>3. ASSUME NEW r \in Requests, Serves(r) PROVE CallFits(q)'
  <2>1. done \subseteq done' /\ done' \subseteq done \cup {r} /\ UNCHANGED <<route, severed>>
    BY <1>3 DEF Serves, Accept, Refuse, Work, Return, Panic, processes,
                Svc!Do, Svc!Does, Svc!Confirm, Svc!Refuse, Svc!Fail
  <2>2. CASE q # r
    BY <1>3, <2>1, <2>2, OthersWork
    DEF Serves, Accept, Refuse, Work, Return, Panic, Ends, Svc!Do, Svc!Confirm, Svc!Refuse, Svc!Fail, Svc!Says
  <2>3. CASE q = r
    <3>1. CASE Accept(r) \/ Refuse(r)
      BY <2>3, <3>1 DEF Accept, Refuse, Ends, CallFits, Refusal, Svc!Untold
    <3>2. CASE Work(r)
      BY <2>3, <3>2 DEF Work, Svc!Do, CallFits, Refusal, Svc!Untold
    <3>3. CASE Panic(r)
      BY <2>3, <3>3 DEF Panic, Ends, CallFits, Refusal
    <3>4. CASE Return(r) /\ Svc!Confirm(r)
      <4>1. Svc!Twins(r)' = Svc!Twins(r)
        BY <2>1 DEF Svc!Twins
      <4>2. call'[r] = "OK" /\ Svc!Twins(r) \cap done' # {}
        BY <3>4 DEF Return, Ends, Svc!Confirm, Svc!Refuse, Svc!Fail, Svc!Says,
                    Svc!Open, Svc!Done, Svc!Untold, Svc!Refused, Svc!Failed
      <4> QED BY <2>3, <4>1, <4>2 DEF CallFits, Refusal
    <3>5. CASE Svc!Refuse(r) /\ \E c \in Handler(r).rpc.refusals : Ends(r, c)
      BY <2>3, <3>5, Handled DEF Ends, Svc!Refuse, CallFits, Refusal
    <3>6. CASE Svc!Fail(r) /\ Ends(r, Handler(r).rpc.failure)
      BY <2>1, <2>3, <3>6, Handled DEF Ends, CallFits, Refusal
    <3> QED BY <1>3, <3>1, <3>2, <3>3, <3>4, <3>5, <3>6 DEF Serves, Return
  <2> QED BY <2>2, <2>3
<1>4. CASE GatewayStops
  BY <1>4, CallsStay DEF GatewayStops, StopGateway, ExitGateway, KillGateway, StartGateway, GatewayEnds
<1>5. ASSUME NEW s \in Services, ServiceStops(s) PROVE CallFits(q)'
  <2>1. CASE StopService(s) \/ StartService(s)
    BY <2>1, CallsStay DEF StopService, StartService
  <2>2. CASE ExitService(s)
    BY <2>2, CallsStay DEF ExitService, ProcessEnds, Drained
  <2>3. CASE KillService(s)
    <3>1. /\ UNCHANGED <<route, done, told>> /\ severed \subseteq severed'
          /\ severed' = severed \cup CallsOf(s)
          /\ call'[q] = IF q \in CallsOf(s) THEN "Unavailable" ELSE call[q]
      BY <2>3 DEF KillService, ProcessEnds
    <3>2. CASE q \in CallsOf(s)
      BY <3>1, <3>2 DEF CallFits, Refusal
    <3>3. CASE q \notin CallsOf(s)
      BY <3>1, <3>3 DEF CallFits, Refusal, Svc!Twins, Svc!Untold
    <3> QED BY <3>2, <3>3
  <2> QED BY <1>5, <2>1, <2>2, <2>3 DEF ServiceStops
<1>6. CASE UNCHANGED vars
  BY <1>6, CallsStay DEF vars, processes
<1> QED BY <1>1, <1>2, <1>3, <1>4, <1>5, <1>6 DEF Next, Step, Waits, Serves, GatewayStops, ServiceStops

\* Every step keeps what statuses say of calls.
LEMMA NextStatuses ==
  ASSUME IInv, [Next]_vars, NEW q \in Requests
  PROVE  StatusFits(q)'
<1> USE DEF IInv, TypeOK
<1>1. ASSUME NEW r \in Requests, Receive(r) \/ TimePasses(r) \/ HangUp(r) \/ Flush(r) PROVE StatusFits(q)'
  BY <1>1 DEF Receive, TimePasses, HangUp, Flush, StatusFits
<1>2. ASSUME NEW r \in Requests, BadRequest(r) PROVE StatusFits(q)'
  BY <1>2 DEF BadRequest, Write, StatusFits
<1>3. ASSUME NEW r \in Requests, Respond(r) PROVE StatusFits(q)'
  <2>1. CASE q # r
    BY <1>3, <2>1 DEF Respond, Write, StatusFits
  <2>2. CASE q = r /\ call[r] = "OK"
    BY <1>3, <2>2, Handled DEF Respond, Write, StatusFits
  <2>3. CASE q = r /\ call[r] # "OK"
    <3>1. status'[r] = HTTPStatus(call[r]) /\ call[r] \in Codes /\ call' = call /\ pc'[r] = "writing"
      BY <1>3, <2>3 DEF Respond, Write
    <3> QED BY <2>3, <3>1, StatusOfCode DEF StatusFits
  <2> QED BY <2>1, <2>2, <2>3
<1>4. ASSUME NEW r \in Requests, GiveUp(r) PROVE StatusFits(q)'
  <2>1. PICK c \in {"DeadlineExceeded", "Canceled"} : Write(r, HTTPStatus(c))
    BY <1>4 DEF GiveUp
  <2>2. HTTPStatus(c) \notin {200, 201, 400, 404, 422, 503}
    BY StatusOfCode
  <2> QED BY <1>4, <2>1, <2>2 DEF GiveUp, Write, StatusFits
<1>5. ASSUME NEW r \in Requests, Disconnected(r) PROVE StatusFits(q)'
  <2>1. HTTPStatus("Unavailable") = 503
    BY DEF HTTPStatus
  <2> QED BY <1>5, <2>1 DEF Disconnected, Write, StatusFits
<1>6. ASSUME NEW r \in Requests, Call(r) PROVE StatusFits(q)'
  BY <1>6 DEF Call, StatusFits
<1>7. ASSUME NEW r \in Requests, Serves(r) PROVE StatusFits(q)'
  BY <1>7 DEF Serves, Accept, Refuse, Work, Return, Panic, Ends, StatusFits, Svc!Do
<1>8. CASE GatewayStops
  BY <1>8 DEF GatewayStops, StopGateway, ExitGateway, KillGateway, StartGateway, GatewayEnds, InFlight, StatusFits
<1>9. ASSUME NEW s \in Services, ServiceStops(s) PROVE StatusFits(q)'
  BY <1>9 DEF ServiceStops, StopService, ExitService, KillService, StartService, ProcessEnds, CallsOf, StatusFits
<1>10. CASE UNCHANGED vars
  BY <1>10 DEF vars, StatusFits
<1> QED BY <1>1, <1>2, <1>3, <1>4, <1>6, <1>7, <1>8, <1>9, <1>10, <1>5
        DEF Next, Step, Serves, GatewayStops, ServiceStops

-----------------------------------------------------------------------------

\* The inductive invariant holds initially.
LEMMA InitIInv == Init => IInv
  BY InitTyped DEF IInv, Init, CallFits, StatusFits, Refusal, Svc!Init, Svc!Untold

\* Every step keeps it.
LEMMA NextIInv == IInv /\ [Next]_vars => IInv'
  BY NextTyped, NextCalls, NextStatuses DEF IInv

\* The types of Gateway.
THEOREM GatewayTyped == Spec => []TypeOK
<1>1. IInv => TypeOK
  BY DEF IInv
<1> QED BY InitIInv, NextIInv, <1>1, PTL DEF Spec

\* A client that is answered 2xx or 4xx knows what was done, whatever stops,
\* dies or is late on the way.
THEOREM AnswersTellEffect == Spec => []AnswerTellsEffect
<1>1. IInv => AnswerTellsEffect
  BY DEF IInv, CallFits, StatusFits, Refusal, AnswerTellsEffect, Answered
<1> QED BY InitIInv, NextIInv, <1>1, PTL DEF Spec

\* Stops of the services and panics in their handlers leave no client in doubt:
\* who is answered 503 for work that was done had lost the connection of this very
\* call on its way, or the service to a kill.
THEOREM StopsLeaveNoDoubt == Spec => []RestartsLeaveNoDoubt
<1>1. IInv => RestartsLeaveNoDoubt
  BY DEF IInv, CallFits, StatusFits, RestartsLeaveNoDoubt, Answered
<1> QED BY InitIInv, NextIInv, <1>1, PTL DEF Spec
=============================================================================
