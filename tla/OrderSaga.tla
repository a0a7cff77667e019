------------------------------ MODULE OrderSaga ------------------------------
(***************************************************************************)
(* The saga the order service runs for every order it creates, composed    *)
(* with the stock tables of the inventory service.                         *)
(*                                                                         *)
(* A process is either the request handler of an order, which runs         *)
(* SagaOrchestrator.Execute, or a replica of the order service, which runs *)
(* SagaOrchestrator.Resume before it serves.  Each step of a process is    *)
(* one statement on the order database or one leg of a call to the         *)
(* inventory service.  A write of the saga whose error the code ignores    *)
(* may be lost; a call may lose its request or its reply, is retried when  *)
(* the error is transient, and a request the client gave up on may still   *)
(* be executed later; a replica may crash between any two steps; the       *)
(* context of a handler may end while it runs.  Each kind of fault has a   *)
(* budget.                                                                 *)
(*                                                                         *)
(* saga_state.current_step is written by updateStep and read by no code:   *)
(* the column and that write are left out.                                 *)
(***************************************************************************)
EXTENDS Integers

CONSTANTS
  Products, Orders, Demand, InitialStock, MaxBatches,   \* see Inventory
  Replicas,        \* the replicas of the order service
  MaxRetries,      \* DialOptions.MaxRetries
  PaymentResults,  \* what processPayment may answer, a subset of {"ok", "error"}
  Budget           \* bound: Budget[f] faults of kind f in a behaviour

\* call: a call to the inventory service fails on the way there or back
\* db: a write of the order service is lost     crash: a replica dies
\* timeout: the context of a handler ends       cancel: a CancelOrder request
Faults == {"call", "db", "crash", "timeout", "cancel"}

Procs == Orders \cup Replicas

VARIABLES
  listed, active, available, reserved, rows,  \* the tables of Inventory
  orders,      \* orders.status, "NONE" before the INSERT
  saga,        \* the saga_state row of an order: its status ("NONE" before the
               \* INSERT) and whether reservation_id is set
  pc,          \* what a process does next
  call,        \* the call of a process: "none", "sent", or a status code
  tries,       \* retries of that call
  stray,       \* requests whose client stopped waiting
  home,        \* the replica that runs the handler of an order
  ended,       \* orders whose handler's context has ended
  todo,        \* Resume: the rows its SELECT returned and it has not handled
  work,        \* Resume: the order whose saga it handles
  cancelling,  \* orders a CancelOrder has read and may still update
  events,      \* orders published to the analytics channel
  budget       \* faults that may still happen

stock == <<listed, active, available, reserved, rows>>
control == <<pc, call, tries, todo, work>>
vars == <<stock, orders, saga, control, stray, home, ended, cancelling, events, budget>>

Stock == INSTANCE Inventory

ASSUME SagaAssumption ==
  /\ Stock!StockConstants
  /\ Orders # {} /\ Replicas # {}
  /\ Orders \cap Replicas = {}
  /\ MaxRetries \in Nat
  /\ PaymentResults \subseteq {"ok", "error"}
  /\ Budget \in [Faults -> Nat]

-----------------------------------------------------------------------------
(* Processes *)

Calls == {"reserve", "confirm", "release"}

HandlerSteps ==
  Calls \cup {"idle", "createSaga", "reserving", "setReservation", "paying",
              "payment", "confirming", "completed", "completeSaga", "publish",
              "failSaga", "failOrder", "done", "dead"}
ReplicaSteps == {"down", "resume", "release", "failSaga", "failOrder", "serving"}

OrderOf(q) == IF q \in Orders THEN q ELSE work[q]

Working(o) == pc[o] \notin {"idle", "done", "dead"}

\* The codes a call may end with.  Unavailable is transient, so is the
\* DeadlineExceeded of a context that has ended.
Codes == Stock!Codes \cup {"Internal", "Unavailable", "DeadlineExceeded"}
Transient == {"Unavailable", "DeadlineExceeded"}

\* q goes on to step s.  A call made with an ended context fails at once.
Goto(q, s) ==
  /\ pc' = [pc EXCEPT ![q] = s]
  /\ call' = [call EXCEPT ![q] =
                IF s \notin Calls THEN "none"
                ELSE IF q \in ended THEN "DeadlineExceeded" ELSE "sent"]
  /\ tries' = [tries EXCEPT ![q] = 0]

Spend(f) == budget[f] > 0 /\ budget' = [budget EXCEPT ![f] = @ - 1]

\* A statement of q has no effect: its context has ended, or the database
\* returned an error.
StatementLost(q) ==
  \/ q \in ended /\ UNCHANGED budget
  \/ q \notin ended /\ Spend("db")

WriteOrder(q, status) ==
  \/ /\ q \notin ended
     /\ orders' = [orders EXCEPT ![OrderOf(q)] = status]
     /\ UNCHANGED budget
  \/ StatementLost(q) /\ UNCHANGED orders

WriteSaga(q, field, value) ==
  \/ /\ q \notin ended
     /\ saga' = [saga EXCEPT ![OrderOf(q)][field] = value]
     /\ UNCHANGED budget
  \/ StatementLost(q) /\ UNCHANGED saga

-----------------------------------------------------------------------------
(* Calls to the inventory service *)

\* What the service does with a request of step s for order o.
StockCall(s, o, code) ==
  \/ s = "reserve" /\ Stock!ReserveStock(o, code)
  \/ s = "confirm" /\ Stock!DecrementStock(o, code)
  \/ s = "release" /\ Stock!ReleaseStock(o, code)

Request(q) == <<pc[q], OrderOf(q), tries[q]>>

InFlight == {q \in Procs : pc[q] \in Calls /\ call[q] = "sent"}

\* The inventory service runs the transaction of q's request and replies.
Serve(q) ==
  /\ q \in InFlight
  /\ \E code \in Stock!Codes :
        /\ StockCall(pc[q], OrderOf(q), code)
        /\ call' = [call EXCEPT ![q] = code]
  /\ UNCHANGED <<orders, saga, pc, tries, todo, work, stray, home, ended,
                 cancelling, events, budget>>

\* The client of q gets an error instead of the answer.  The request may
\* have been executed, may be executed later, or never.
CallFails(q) ==
  /\ pc[q] \in Calls
  /\ call[q] \in Stock!Codes \cup {"sent"}
  /\ Spend("call")
  /\ \E code \in {"Unavailable", "Internal"} : call' = [call EXCEPT ![q] = code]
  /\ stray' \in {stray} \cup (IF q \in InFlight THEN {stray \cup {Request(q)}} ELSE {})
  /\ UNCHANGED <<stock, orders, saga, pc, tries, todo, work, home, ended,
                 cancelling, events>>

\* A request nobody waits for reaches the service after all.
ServeStray(m) ==
  /\ m \in stray
  /\ \E code \in Stock!Codes : StockCall(m[1], m[2], code)
  /\ stray' = stray \ {m}
  /\ UNCHANGED <<orders, saga, control, home, ended, cancelling, events, budget>>

MayRetry(q) == call[q] \in Transient /\ tries[q] < MaxRetries /\ q \notin ended

Retry(q) ==
  /\ pc[q] \in Calls
  /\ MayRetry(q)
  /\ call' = [call EXCEPT ![q] = "sent"]
  /\ tries' = [tries EXCEPT ![q] = @ + 1]
  /\ UNCHANGED <<stock, orders, saga, pc, todo, work, stray, home, ended,
                 cancelling, events, budget>>

\* The call of q at step s is over: `ok` says whether it succeeded.
Returned(q, s, ok) ==
  /\ pc[q] = s
  /\ call[q] \notin {"none", "sent"}
  /\ ~ MayRetry(q)
  /\ ok = (call[q] = "OK")

-----------------------------------------------------------------------------
(* CreateOrder and SagaOrchestrator.Execute *)

\* A handler's step that touches no table and no other process.
Advance(o, s) ==
  /\ Goto(o, s)
  /\ UNCHANGED <<stock, orders, saga, todo, work, stray, home, ended,
                 cancelling, events, budget>>

\* The INSERT of CreateOrder commits; the products were found and active.
CreateOrder(o, r) ==
  /\ pc[o] = "idle" /\ pc[r] = "serving"
  /\ DOMAIN Demand[o] \subseteq active
  /\ orders' = [orders EXCEPT ![o] = "PENDING"]
  /\ home' = [home EXCEPT ![o] = r]
  /\ Goto(o, "createSaga")
  /\ UNCHANGED <<stock, saga, todo, work, stray, ended, cancelling, events, budget>>

\* Execute: no saga of this order exists, and one is inserted.  An error of
\* either statement ends Execute, whose result CreateOrder drops.
CreateSaga(o) ==
  /\ pc[o] = "createSaga"
  /\ saga[o].status = "NONE"
  /\ \/ /\ o \notin ended
        /\ saga' = [saga EXCEPT ![o] = [status |-> "IN_PROGRESS", rid |-> FALSE]]
        /\ Goto(o, "reserving")
        /\ UNCHANGED budget
     \/ /\ StatementLost(o)
        /\ Goto(o, "done")
        /\ UNCHANGED saga
  /\ UNCHANGED <<stock, orders, todo, work, stray, home, ended, cancelling, events>>

\* An UPDATE of the order's status, whose error is ignored, between two steps.
SetOrderStatus(o, here, status, next) ==
  /\ pc[o] = here
  /\ WriteOrder(o, status)
  /\ Goto(o, next)
  /\ UNCHANGED <<stock, saga, todo, work, stray, home, ended, cancelling, events>>

\* Mutant of Reserving: a status no other code knows.
ReservingMisnamed(o) == SetOrderStatus(o, "reserving", "RESERVED", "reserve")

Reserving(o)  == SetOrderStatus(o, "reserving", "RESERVING", "reserve")
Paying(o)     == SetOrderStatus(o, "paying", "PAYING", "payment")
Confirming(o) == SetOrderStatus(o, "confirming", "CONFIRMING", "confirm")
Completed(o)  == SetOrderStatus(o, "completed", "COMPLETED", "completeSaga")

\* An error of ReserveStock fails the saga, with nothing to compensate.
Reserved(o) ==
  \/ Returned(o, "reserve", TRUE) /\ Advance(o, "setReservation")
  \/ Returned(o, "reserve", FALSE) /\ Advance(o, "failSaga")

SetReservationID(o) ==
  /\ pc[o] = "setReservation"
  /\ WriteSaga(o, "rid", TRUE)
  /\ Goto(o, "paying")
  /\ UNCHANGED <<stock, orders, todo, work, stray, home, ended, cancelling, events>>

\* Mutant of ProcessPayment: no compensation.
PaymentUncompensated(o) ==
  /\ pc[o] = "payment"
  /\ \E result \in PaymentResults :
        Advance(o, IF result = "ok" THEN "confirming" ELSE "failSaga")

ProcessPayment(o) ==
  /\ pc[o] = "payment"
  /\ \E result \in PaymentResults :
        Advance(o, IF result = "ok" THEN "confirming" ELSE "release")

\* Mutant of Confirmed: the error of DecrementStock is ignored.
ConfirmedAnyway(o) == \E ok \in BOOLEAN : Returned(o, "confirm", ok) /\ Advance(o, "completed")

Confirmed(o) ==
  \/ Returned(o, "confirm", TRUE) /\ Advance(o, "completed")
  \/ Returned(o, "confirm", FALSE) /\ Advance(o, "release")

CompleteSaga(o) ==
  /\ pc[o] = "completeSaga"
  /\ WriteSaga(o, "status", "COMPLETED")
  /\ Goto(o, "publish")
  /\ UNCHANGED <<stock, orders, todo, work, stray, home, ended, cancelling, events>>

Publish(o) ==
  /\ pc[o] = "publish"
  /\ events' = events \cup {o}
  /\ Goto(o, "done")
  /\ UNCHANGED <<stock, orders, saga, todo, work, stray, home, ended, cancelling, budget>>

-----------------------------------------------------------------------------
(* Compensation and failure, of a handler or of a resuming replica *)

\* compensateReserve only logs an error of ReleaseStock.
Released(q) ==
  /\ \E ok \in BOOLEAN : Returned(q, "release", ok)
  /\ Advance(q, "failSaga")

\* Mutant of FailSaga: the order is left as it is.
FailSagaOnly(q) ==
  /\ pc[q] = "failSaga"
  /\ WriteSaga(q, "status", "FAILED")
  /\ Goto(q, IF q \in Orders THEN "done" ELSE "resume")
  /\ UNCHANGED <<stock, orders, todo, work, stray, home, ended, cancelling, events>>

FailSaga(q) ==
  /\ pc[q] = "failSaga"
  /\ WriteSaga(q, "status", "FAILED")
  /\ Goto(q, "failOrder")
  /\ UNCHANGED <<stock, orders, todo, work, stray, home, ended, cancelling, events>>

FailOrder(q) ==
  /\ pc[q] = "failOrder"
  /\ WriteOrder(q, "FAILED")
  /\ Goto(q, IF q \in Orders THEN "done" ELSE "resume")
  /\ UNCHANGED <<stock, saga, todo, work, stray, home, ended, cancelling, events>>

-----------------------------------------------------------------------------
(* Replicas: start, SagaOrchestrator.Resume, crash *)

\* Mutant of InProgress: the query without its WHERE clause.
EverySaga == {o \in Orders : saga[o].status # "NONE"}

InProgress == {o \in Orders : saga[o].status = "IN_PROGRESS"}

\* Mutant of Unfinished: skips the sagas without a reservation.
UnfinishedReserved == {[order |-> o, rid |-> TRUE] : o \in {x \in InProgress : saga[x].rid}}

\* The rows Resume reads: the order and whether reservation_id is valid.
Unfinished == {[order |-> o, rid |-> saga[o].rid] : o \in InProgress}

\* Mutant of Start: main does not call Resume.
StartWithoutResume(r) ==
  /\ pc[r] = "down"
  /\ Goto(r, "serving")
  /\ UNCHANGED <<stock, orders, saga, todo, work, stray, home, ended, cancelling, events, budget>>

\* main: Resume reads the sagas in progress, then works through them; when
\* its query fails main logs the error and serves.
Start(r) ==
  /\ pc[r] = "down"
  /\ \/ /\ todo' = [todo EXCEPT ![r] = Unfinished]
        /\ Goto(r, "resume")
        /\ UNCHANGED budget
     \/ /\ Spend("db")
        /\ Goto(r, "serving")
        /\ UNCHANGED todo
  /\ UNCHANGED <<stock, orders, saga, work, stray, home, ended, cancelling, events>>

\* Mutant of ResumeNext: fails the saga without compensation.
ResumeUncompensated(r) ==
  /\ pc[r] = "resume"
  /\ \E t \in todo[r] :
        /\ todo' = [todo EXCEPT ![r] = @ \ {t}]
        /\ work' = [work EXCEPT ![r] = t.order]
        /\ Goto(r, "failSaga")
  /\ UNCHANGED <<stock, orders, saga, stray, home, ended, cancelling, events, budget>>

\* The next saga: released if the row read at the start named a reservation.
ResumeNext(r) ==
  /\ pc[r] = "resume"
  /\ \E t \in todo[r] :
        /\ todo' = [todo EXCEPT ![r] = @ \ {t}]
        /\ work' = [work EXCEPT ![r] = t.order]
        /\ Goto(r, IF t.rid THEN "release" ELSE "failSaga")
  /\ UNCHANGED <<stock, orders, saga, stray, home, ended, cancelling, events, budget>>

BeginServing(r) ==
  /\ pc[r] = "resume"
  /\ todo[r] = {}
  /\ Advance(r, "serving")

\* The replica and the handlers it runs die; a request they had in flight
\* may still be executed.
Victims(r) == {r} \cup {o \in Orders : home[o] = r /\ Working(o)}

Crash(r) ==
  /\ pc[r] # "down"
  /\ Spend("crash")
  /\ pc' = [q \in Procs |->
              IF q = r THEN "down" ELSE IF q \in Victims(r) THEN "dead" ELSE pc[q]]
  /\ call' = [q \in Procs |-> IF q \in Victims(r) THEN "none" ELSE call[q]]
  /\ tries' = [q \in Procs |-> IF q \in Victims(r) THEN 0 ELSE tries[q]]
  /\ todo' = [todo EXCEPT ![r] = {}]
  /\ \E lost \in SUBSET (Victims(r) \cap InFlight) :
        stray' = stray \cup {Request(q) : q \in lost}
  /\ UNCHANGED <<stock, orders, saga, work, home, ended, cancelling, events>>

-----------------------------------------------------------------------------
(* Clients *)

\* The context of the handler of o ends (the gateway's timeout, or a client
\* that went away).  A call it waits for fails.
ContextEnds(o) ==
  /\ Working(o) /\ o \notin ended
  /\ Spend("timeout")
  /\ ended' = ended \cup {o}
  /\ call' = [call EXCEPT ![o] = IF pc[o] \in Calls THEN "DeadlineExceeded" ELSE @]
  /\ stray' \in {stray} \cup (IF o \in InFlight THEN {stray \cup {Request(o)}} ELSE {})
  /\ UNCHANGED <<stock, orders, saga, pc, tries, todo, work, home, cancelling, events>>

\* CancelOrder reads the order; only a PENDING or FAILED one is cancelled.
Cancellable(status) == status \in {"PENDING", "FAILED"}

CancelOrder(o) ==
  /\ o \notin cancelling
  /\ \E r \in Replicas : pc[r] = "serving"
  /\ Cancellable(orders[o])
  /\ Spend("cancel")
  /\ cancelling' = cancelling \cup {o}
  /\ UNCHANGED <<stock, orders, saga, control, stray, home, ended, events>>

\* ... and its UPDATE, which does not look at the status again.
Cancelled(o) ==
  /\ o \in cancelling
  /\ orders' = [orders EXCEPT ![o] = "CANCELLED"]
  /\ cancelling' = cancelling \ {o}
  /\ UNCHANGED <<stock, saga, control, stray, home, ended, events, budget>>

-----------------------------------------------------------------------------

Init ==
  /\ Stock!Init /\ listed = Products
  /\ orders = [o \in Orders |-> "NONE"]
  /\ saga = [o \in Orders |-> [status |-> "NONE", rid |-> FALSE]]
  /\ pc = [q \in Procs |-> IF q \in Orders THEN "idle" ELSE "down"]
  /\ call = [q \in Procs |-> "none"]
  /\ tries = [q \in Procs |-> 0]
  /\ stray = {}
  /\ home \in [Orders -> {CHOOSE r \in Replicas : TRUE}]
  /\ ended = {}
  /\ todo = [r \in Replicas |-> {}]
  /\ work \in [Replicas -> {CHOOSE o \in Orders : TRUE}]
  /\ cancelling = {}
  /\ events = {}
  /\ budget = Budget

\* What the handler of o does by itself once it has the order.
Execute(o) ==
  \/ CreateSaga(o) \/ Reserving(o) \/ Reserved(o) \/ SetReservationID(o)
  \/ Paying(o) \/ ProcessPayment(o) \/ Confirming(o) \/ Confirmed(o)
  \/ Completed(o) \/ CompleteSaga(o) \/ Publish(o)

\* The steps a handler and a resuming replica share.
Compensate(q) == Serve(q) \/ Retry(q) \/ Released(q) \/ FailSaga(q) \/ FailOrder(q)

Resume(r) == Start(r) \/ ResumeNext(r) \/ BeginServing(r)

Environment ==
  \/ \E o \in Orders, r \in Replicas : CreateOrder(o, r)
  \/ \E o \in Orders : ContextEnds(o) \/ CancelOrder(o) \/ Cancelled(o)
  \/ \E q \in Procs : CallFails(q)
  \/ \E m \in stray : ServeStray(m)
  \/ \E r \in Replicas : Crash(r)

Next ==
  \/ \E o \in Orders : Execute(o)
  \/ \E q \in Procs : Compensate(q)
  \/ \E r \in Replicas : Resume(r)
  \/ Environment

\* Every process that runs goes on, a service that is up answers, and a
\* replica that is down is started again; nothing makes a client or a fault act.
Fairness ==
  /\ \A o \in Orders : WF_vars(Execute(o))
  /\ \A q \in Procs : WF_vars(Compensate(q))
  /\ \A r \in Replicas : WF_vars(Resume(r))

Spec == Init /\ [][Next]_vars
FairSpec == Spec /\ Fairness

-----------------------------------------------------------------------------
(* The abstract checkout this implements *)

\* The phase of an order as its reservation rows tell it.
Phase ==
  [o \in Orders |-> IF rows[o]["DECREMENTED"] > 0 THEN "sold"
                    ELSE IF rows[o]["RESERVED"] > 0 THEN "held"
                    ELSE IF rows[o]["RELEASED"] > 0 THEN "returned" ELSE "new"]

Goods == INSTANCE Checkout WITH
  Need   <- [o \in Orders |-> [p \in Products |-> Stock!Quantity(o, p)]],
  Supply <- InitialStock,
  phase  <- Phase,
  free   <- [p \in Products |-> Stock!Free(p)]

-----------------------------------------------------------------------------
(* Properties *)

OrderStatus == {"NONE", "PENDING", "RESERVING", "PAYING", "CONFIRMING",
                "COMPLETED", "FAILED", "CANCELLED"}
SagaStatus == {"NONE", "IN_PROGRESS", "COMPLETED", "FAILED"}

OrderTypeOK ==
  /\ orders \in [Orders -> OrderStatus]
  /\ saga \in [Orders -> [status : SagaStatus, rid : BOOLEAN]]
  /\ pc \in [Procs -> HandlerSteps \cup ReplicaSteps]
  /\ call \in [Procs -> Codes \cup {"none", "sent"}]
  /\ tries \in [Procs -> Nat]
  /\ stray \subseteq Calls \X Orders \X Nat
  /\ home \in [Orders -> Replicas]
  /\ ended \subseteq Orders
  /\ todo \in [Replicas -> SUBSET [order : Orders, rid : BOOLEAN]]
  /\ work \in [Replicas -> Orders]
  /\ cancelling \subseteq Orders
  /\ events \subseteq Orders
  /\ budget \in [Faults -> Nat]

\* Every variable of the two services keeps its type.
TypeOK == Stock!TypeOK /\ OrderTypeOK

\* Whatever fails, no order is shown, recorded or reported to analytics as
\* completed unless the inventory service has taken its stock.
CompletedIsSold ==
  \A o \in Orders :
     (orders[o] = "COMPLETED" \/ saga[o].status = "COMPLETED" \/ o \in events)
        => rows[o]["DECREMENTED"] > 0

\* Whatever fails, the sagas never reserve more of a product than there is.
NeverOversold == Stock!NoOversell

\* When the handler of an order has returned, the saga has completed and the
\* stock is sold once, or the saga has failed and no stock is held or sold;
\* the order says the same unless a CancelOrder overwrote it.
AllOrNothing ==
  \A o \in Orders : pc[o] = "done" =>
     /\ \/ /\ saga[o].status = "COMPLETED"
           /\ rows[o] = [RESERVED |-> 0, RELEASED |-> 0, DECREMENTED |-> 1]
        \/ /\ saga[o].status = "FAILED"
           /\ rows[o]["RESERVED"] = 0 /\ rows[o]["DECREMENTED"] = 0
     /\ orders[o] \in {saga[o].status, "CANCELLED"}

\* A fault of one of the kinds F has happened.
Happened(F) == \E f \in F : budget[f] < Budget[f]

\* At rest no handler and no Resume runs and no request is under way.
AtRest ==
  /\ \A o \in Orders : ~ Working(o)
  /\ \A r \in Replicas : pc[r] = "serving"
  /\ stray = {}

\* While no call was lost, no context ended and no replica crashed, no stock is
\* reserved at rest, although replicas may have resumed sagas whose handlers
\* were alive and status writes may have been lost.
NoStockHeldAtRest ==
  AtRest /\ ~ Happened({"call", "timeout", "crash"})
     => \A o \in Orders : rows[o]["RESERVED"] = 0

\* A saga that has completed or failed keeps that outcome.
SagaOutcomeIsFinal ==
  [][\A o \in Orders : saga[o].status \in {"COMPLETED", "FAILED"}
                          => saga'[o].status = saga[o].status]_vars

\* Once the service has restarted, every saga in progress has a handler that
\* runs, Resume has left none behind, unless a status write was lost.
NoOrphanSaga ==
  ~ Happened({"db", "timeout"}) =>
    \A r \in Replicas : pc[r] = "serving" => \A o \in InProgress : Working(o)

\* A failed saga whose row names its reservation holds no stock, wherever
\* the crashes struck.
RecordedReservationReturned ==
  \A o \in Orders :
     saga[o].status = "FAILED" /\ saga[o].rid => rows[o]["RESERVED"] = 0

\* Without faults the services keep the promise of Checkout, payments that
\* fail and orders that compete included: goods held are sold or returned.
KeepsPromise == Goods!Spec

\* With crashes they still take an order's goods together and at most once.
TakesGoodsOnce == Goods!SafeSpec

\* Every order created reaches a final status and keeps to final ones,
\* although CancelOrder and the saga write the same column.
Final == {"COMPLETED", "FAILED", "CANCELLED"}

EveryOrderEnds ==
  \A o \in Orders : orders[o] # "NONE" ~> [](orders[o] \in Final)

\* Every saga that starts completes or fails, unless a status write was lost.
EverySagaEnds ==
  \A o \in Orders :
     saga[o].status = "IN_PROGRESS"
       ~> saga[o].status # "IN_PROGRESS" \/ Happened({"db", "timeout"})

-----------------------------------------------------------------------------
(* Promises of documents and comments that the code does not keep *)

\* An order's stock is taken at most once.
SoldAtMostOnce == \A o \in Orders : rows[o]["DECREMENTED"] <= 1

\* A handler that returned without completing its saga has run the
\* compensating action: it holds no stock.
ReturnsCompensated ==
  \A o \in Orders :
     pc[o] = "done" /\ saga[o].status # "COMPLETED" => rows[o]["RESERVED"] = 0

\* A failed saga has returned the stock it reserved.
FailedHoldsNothing ==
  \A o \in Orders : saga[o].status = "FAILED" => rows[o]["RESERVED"] = 0

\* A failed saga is rolled back: it has not taken the order's stock.
FailedSellsNothing ==
  \A o \in Orders : saga[o].status = "FAILED" => rows[o]["DECREMENTED"] = 0

\* CancelOrder cancels no order in a status it refuses to cancel.
CancelsOnlyCancellable ==
  [][\A o \in Orders : orders'[o] = "CANCELLED" /\ orders[o] # "CANCELLED"
                          => Cancellable(orders[o])]_vars

\* Resume fails only sagas that a crash interrupted.
ResumesOnlyInterrupted ==
  [][\A r \in Replicas : pc[r] = "failSaga" /\ pc'[r] = "failOrder"
                            => ~ Working(work[r])]_vars
=============================================================================
