--------------------------- MODULE OrderSagaProofs ---------------------------
(***************************************************************************)
(* Proofs about the saga, for any number of orders, replicas, retries and  *)
(* faults.                                                                 *)
(***************************************************************************)
EXTENDS OrderSaga, TLAPS

StockTheorems == INSTANCE InventoryProofs

-----------------------------------------------------------------------------
(* Types of the order service's state *)

\* A process works for an order.
LEMMA OrderOfType ==
  ASSUME OrderTypeOK, NEW q \in Procs
  PROVE  OrderOf(q) \in Orders
  BY DEF OrderTypeOK, Procs, OrderOf

\* Going to a step keeps the control variables' types.
LEMMA GotoTyped ==
  ASSUME OrderTypeOK, NEW q \in Procs, NEW s \in HandlerSteps \cup ReplicaSteps, Goto(q, s)
  PROVE  /\ pc' \in [Procs -> HandlerSteps \cup ReplicaSteps]
         /\ call' \in [Procs -> Codes \cup {"none", "sent"}]
         /\ tries' \in [Procs -> Nat]
<1>1. pc' \in [Procs -> HandlerSteps \cup ReplicaSteps]
  BY DEF OrderTypeOK, Goto
<1>2. call' \in [Procs -> Codes \cup {"none", "sent"}]
  BY DEF OrderTypeOK, Goto, Codes
<1>3. tries' \in [Procs -> Nat]
  BY DEF OrderTypeOK, Goto
<1> QED
  BY <1>1, <1>2, <1>3

\* A fault leaves the budget a budget.
LEMMA SpendTyped ==
  ASSUME OrderTypeOK, NEW f \in Faults, Spend(f)
  PROVE  budget' \in [Faults -> Nat]
  BY DEF OrderTypeOK, Spend

LEMMA StatementLostTyped ==
  ASSUME OrderTypeOK, NEW q \in Procs, StatementLost(q)
  PROVE  budget' \in [Faults -> Nat]
<1>1. "db" \in Faults
  BY DEF Faults
<1> QED
  BY <1>1, SpendTyped DEF OrderTypeOK, StatementLost

\* Writes keep the types of the two tables, whether they are lost or not.
LEMMA WriteOrderTyped ==
  ASSUME OrderTypeOK, NEW q \in Procs, NEW status \in OrderStatus, WriteOrder(q, status)
  PROVE  orders' \in [Orders -> OrderStatus] /\ budget' \in [Faults -> Nat]
<1>1. CASE orders' = [orders EXCEPT ![OrderOf(q)] = status] /\ UNCHANGED budget
  BY <1>1, OrderOfType DEF OrderTypeOK
<1>2. CASE StatementLost(q) /\ UNCHANGED orders
  BY <1>2, StatementLostTyped DEF OrderTypeOK
<1> QED
  BY <1>1, <1>2 DEF WriteOrder

LEMMA WriteRidTyped ==
  ASSUME OrderTypeOK, NEW q \in Procs, WriteSaga(q, "rid", TRUE)
  PROVE  /\ saga' \in [Orders -> [status : SagaStatus, rid : BOOLEAN]]
         /\ budget' \in [Faults -> Nat]
<1>1. CASE saga' = [saga EXCEPT ![OrderOf(q)]["rid"] = TRUE] /\ UNCHANGED budget
  BY <1>1, OrderOfType DEF OrderTypeOK
<1>2. CASE StatementLost(q) /\ UNCHANGED saga
  BY <1>2, StatementLostTyped DEF OrderTypeOK
<1> QED
  BY <1>1, <1>2 DEF WriteSaga

LEMMA WriteStatusTyped ==
  ASSUME OrderTypeOK, NEW q \in Procs, NEW status \in SagaStatus, WriteSaga(q, "status", status)
  PROVE  /\ saga' \in [Orders -> [status : SagaStatus, rid : BOOLEAN]]
         /\ budget' \in [Faults -> Nat]
<1>1. CASE saga' = [saga EXCEPT ![OrderOf(q)]["status"] = status] /\ UNCHANGED budget
  BY <1>1, OrderOfType DEF OrderTypeOK
<1>2. CASE StatementLost(q) /\ UNCHANGED saga
  BY <1>2, StatementLostTyped DEF OrderTypeOK
<1> QED
  BY <1>1, <1>2 DEF WriteSaga

\* The request of a process in a call is one the inventory service knows.
LEMMA RequestType ==
  ASSUME OrderTypeOK, NEW q \in Procs, pc[q] \in Calls
  PROVE  Request(q) \in Calls \X Orders \X Nat
  BY OrderOfType DEF OrderTypeOK, Request

\* The steps a handler takes alone keep the types.
LEMMA ExecuteTyped ==
  ASSUME OrderTypeOK, NEW o \in Orders, Execute(o)
  PROVE  OrderTypeOK'
<1>0. o \in Procs
  BY DEF Procs
<1>1. ASSUME NEW s \in HandlerSteps, Advance(o, s)
      PROVE  OrderTypeOK'
  BY <1>0, <1>1, GotoTyped DEF OrderTypeOK, Advance
<1>2. ASSUME NEW here, NEW status \in OrderStatus, NEW next \in HandlerSteps,
             SetOrderStatus(o, here, status, next)
      PROVE  OrderTypeOK'
  BY <1>0, <1>2, GotoTyped, WriteOrderTyped DEF OrderTypeOK, SetOrderStatus
<1>3. CASE CreateSaga(o)
  <2>1. CASE /\ saga' = [saga EXCEPT ![o] = [status |-> "IN_PROGRESS", rid |-> FALSE]]
             /\ Goto(o, "reserving")
             /\ UNCHANGED budget
    <3>1. "reserving" \in HandlerSteps
      BY DEF HandlerSteps
    <3>2. saga' \in [Orders -> [status : SagaStatus, rid : BOOLEAN]]
      BY <2>1 DEF OrderTypeOK, SagaStatus
    <3> QED
      BY <1>0, <1>3, <2>1, <3>1, <3>2, GotoTyped DEF OrderTypeOK, CreateSaga
  <2>2. CASE StatementLost(o) /\ Goto(o, "done") /\ UNCHANGED saga
    <3>1. "done" \in HandlerSteps
      BY DEF HandlerSteps
    <3> QED
      BY <1>0, <1>3, <2>2, <3>1, GotoTyped, StatementLostTyped DEF OrderTypeOK, CreateSaga
  <2> QED
    BY <1>3, <2>1, <2>2 DEF CreateSaga
<1>4. CASE Reserving(o) \/ Paying(o) \/ Confirming(o) \/ Completed(o)
  BY <1>2, <1>4 DEF Reserving, Paying, Confirming, Completed, OrderStatus, HandlerSteps, Calls
<1>5. CASE Reserved(o) \/ Confirmed(o) \/ ProcessPayment(o)
  BY <1>1, <1>5 DEF Reserved, Confirmed, ProcessPayment, HandlerSteps, Calls
<1>6. CASE SetReservationID(o)
  <2>1. "paying" \in HandlerSteps
    BY DEF HandlerSteps
  <2> QED
    BY <1>0, <1>6, <2>1, GotoTyped, WriteRidTyped DEF OrderTypeOK, SetReservationID
<1>7. CASE CompleteSaga(o)
  <2>1. "publish" \in HandlerSteps /\ "COMPLETED" \in SagaStatus
    BY DEF HandlerSteps, SagaStatus
  <2> QED
    BY <1>0, <1>7, <2>1, GotoTyped, WriteStatusTyped DEF OrderTypeOK, CompleteSaga
<1>8. CASE Publish(o)
  <2>1. "done" \in HandlerSteps
    BY DEF HandlerSteps
  <2> QED
    BY <1>0, <1>8, <2>1, GotoTyped DEF OrderTypeOK, Publish
<1> QED
  BY <1>3, <1>4, <1>5, <1>6, <1>7, <1>8 DEF Execute

\* The steps handlers and resuming replicas share keep the types.
LEMMA CompensateTyped ==
  ASSUME OrderTypeOK, NEW q \in Procs, Compensate(q)
  PROVE  OrderTypeOK'
<1>1. CASE Serve(q)
  <2>1. PICK code \in Stock!Codes : call' = [call EXCEPT ![q] = code]
    BY <1>1 DEF Serve
  <2>2. call' \in [Procs -> Codes \cup {"none", "sent"}]
    BY <2>1 DEF OrderTypeOK, Codes
  <2> QED
    BY <1>1, <2>2 DEF Serve, OrderTypeOK
<1>2. CASE Retry(q)
  <2>1. call' \in [Procs -> Codes \cup {"none", "sent"}] /\ tries' \in [Procs -> Nat]
    BY <1>2 DEF Retry, OrderTypeOK
  <2> QED
    BY <1>2, <2>1 DEF Retry, OrderTypeOK
<1>3. CASE Released(q)
  <2>1. "failSaga" \in HandlerSteps
    BY DEF HandlerSteps
  <2> QED
    BY <1>3, <2>1, GotoTyped DEF OrderTypeOK, Released, Advance
<1>4. CASE FailSaga(q)
  <2>1. "failOrder" \in HandlerSteps /\ "FAILED" \in SagaStatus
    BY DEF HandlerSteps, SagaStatus
  <2> QED
    BY <1>4, <2>1, GotoTyped, WriteStatusTyped DEF OrderTypeOK, FailSaga
<1>5. CASE FailOrder(q)
  <2>1. "done" \in HandlerSteps /\ "resume" \in ReplicaSteps /\ "FAILED" \in OrderStatus
    BY DEF HandlerSteps, ReplicaSteps, OrderStatus
  <2> QED
    BY <1>5, <2>1, GotoTyped, WriteOrderTyped DEF OrderTypeOK, FailOrder
<1> QED
  BY <1>1, <1>2, <1>3, <1>4, <1>5 DEF Compensate

\* The steps of a replica that starts keep the types.
LEMMA ResumeTyped ==
  ASSUME OrderTypeOK, NEW r \in Replicas, Resume(r)
  PROVE  OrderTypeOK'
<1>0. r \in Procs
  BY DEF Procs
<1>1. "resume" \in ReplicaSteps /\ "serving" \in ReplicaSteps
      /\ "release" \in ReplicaSteps /\ "failSaga" \in ReplicaSteps
  BY DEF ReplicaSteps
<1>2. CASE Start(r)
  <2>1. Unfinished \subseteq [order : Orders, rid : BOOLEAN]
    BY DEF Unfinished, InProgress, OrderTypeOK
  <2>2. "db" \in Faults
    BY DEF Faults
  <2>3. CASE todo' = [todo EXCEPT ![r] = Unfinished] /\ Goto(r, "resume") /\ UNCHANGED budget
    BY <1>0, <1>1, <1>2, <2>1, <2>3, GotoTyped DEF OrderTypeOK, Start
  <2>4. CASE Spend("db") /\ Goto(r, "serving") /\ UNCHANGED todo
    BY <1>0, <1>1, <1>2, <2>2, <2>4, GotoTyped, SpendTyped DEF OrderTypeOK, Start
  <2> QED
    BY <1>2, <2>3, <2>4 DEF Start
<1>3. CASE ResumeNext(r)
  <2>1. PICK t \in todo[r] :
           /\ todo' = [todo EXCEPT ![r] = @ \ {t}]
           /\ work' = [work EXCEPT ![r] = t.order]
           /\ Goto(r, IF t.rid THEN "release" ELSE "failSaga")
    BY <1>3 DEF ResumeNext
  <2>2. todo' \in [Replicas -> SUBSET [order : Orders, rid : BOOLEAN]]
        /\ work' \in [Replicas -> Orders]
    BY <2>1 DEF OrderTypeOK
  <2> QED
    BY <1>0, <1>1, <1>3, <2>1, <2>2, GotoTyped DEF OrderTypeOK, ResumeNext
<1>4. CASE BeginServing(r)
  BY <1>0, <1>1, <1>4, GotoTyped DEF OrderTypeOK, BeginServing, Advance
<1> QED
  BY <1>2, <1>3, <1>4 DEF Resume

\* Clients and faults keep the types.
LEMMA EnvironmentTyped ==
  ASSUME OrderTypeOK, Environment
  PROVE  OrderTypeOK'
<1>0. Faults = {"call", "db", "crash", "timeout", "cancel"}
  BY DEF Faults
<1>1. ASSUME NEW o \in Orders, NEW r \in Replicas, CreateOrder(o, r)
      PROVE  OrderTypeOK'
  <2>1. o \in Procs /\ "createSaga" \in HandlerSteps /\ "PENDING" \in OrderStatus
    BY DEF Procs, HandlerSteps, OrderStatus
  <2>2. orders' \in [Orders -> OrderStatus] /\ home' \in [Orders -> Replicas]
    BY <1>1, <2>1 DEF OrderTypeOK, CreateOrder
  <2> QED
    BY <1>1, <2>1, <2>2, GotoTyped DEF OrderTypeOK, CreateOrder
<1>2. ASSUME NEW o \in Orders, ContextEnds(o)
      PROVE  OrderTypeOK'
  <2>1. o \in Procs
    BY DEF Procs
  <2>2. call' \in [Procs -> Codes \cup {"none", "sent"}]
    BY <1>2 DEF OrderTypeOK, ContextEnds, Codes
  <2>3. stray' \subseteq Calls \X Orders \X Nat
    BY <1>2, <2>1, RequestType DEF OrderTypeOK, ContextEnds, InFlight
  <2>4. budget' \in [Faults -> Nat]
    BY <1>0, <1>2, SpendTyped DEF ContextEnds
  <2> QED
    BY <1>2, <2>2, <2>3, <2>4 DEF OrderTypeOK, ContextEnds
<1>3. ASSUME NEW o \in Orders, CancelOrder(o)
      PROVE  OrderTypeOK'
  <2>1. budget' \in [Faults -> Nat]
    BY <1>0, <1>3, SpendTyped DEF CancelOrder
  <2> QED
    BY <1>3, <2>1 DEF OrderTypeOK, CancelOrder, control
<1>4. ASSUME NEW o \in Orders, Cancelled(o)
      PROVE  OrderTypeOK'
  <2>1. orders' \in [Orders -> OrderStatus]
    BY <1>4 DEF OrderTypeOK, Cancelled, OrderStatus
  <2> QED
    BY <1>4, <2>1 DEF OrderTypeOK, Cancelled, control
<1>5. ASSUME NEW q \in Procs, CallFails(q)
      PROVE  OrderTypeOK'
  <2>1. call' \in [Procs -> Codes \cup {"none", "sent"}]
    BY <1>5 DEF OrderTypeOK, CallFails, Codes
  <2>2. stray' \subseteq Calls \X Orders \X Nat
    BY <1>5, RequestType DEF OrderTypeOK, CallFails
  <2>3. budget' \in [Faults -> Nat]
    BY <1>0, <1>5, SpendTyped DEF CallFails
  <2> QED
    BY <1>5, <2>1, <2>2, <2>3 DEF OrderTypeOK, CallFails
<1>6. ASSUME NEW m \in stray, ServeStray(m)
      PROVE  OrderTypeOK'
  BY <1>6 DEF OrderTypeOK, ServeStray, control
<1>7. ASSUME NEW r \in Replicas, Crash(r)
      PROVE  OrderTypeOK'
  <2>1. /\ pc' \in [Procs -> HandlerSteps \cup ReplicaSteps]
        /\ call' \in [Procs -> Codes \cup {"none", "sent"}]
        /\ tries' \in [Procs -> Nat]
    BY <1>7 DEF OrderTypeOK, Crash, HandlerSteps, ReplicaSteps
  <2>2. stray' \subseteq Calls \X Orders \X Nat
    <3>1. PICK lost \in SUBSET (Victims(r) \cap InFlight) :
             stray' = stray \cup {Request(q) : q \in lost}
      BY <1>7 DEF Crash
    <3>2. \A q \in lost : q \in Procs /\ pc[q] \in Calls
      BY <3>1 DEF InFlight
    <3> QED
      BY <3>1, <3>2, RequestType DEF OrderTypeOK
  <2>3. budget' \in [Faults -> Nat]
    BY <1>0, <1>7, SpendTyped DEF Crash
  <2>4. todo' \in [Replicas -> SUBSET [order : Orders, rid : BOOLEAN]]
    BY <1>7 DEF OrderTypeOK, Crash
  <2> QED
    BY <1>7, <2>1, <2>2, <2>3, <2>4 DEF OrderTypeOK, Crash
<1> QED
  BY <1>1, <1>2, <1>3, <1>4, <1>5, <1>6, <1>7 DEF Environment

\* Every variable of the order service keeps its type.
THEOREM OrderTyped == Spec => []OrderTypeOK
<1>1. Init => OrderTypeOK
  <2> SUFFICES ASSUME Init PROVE OrderTypeOK
    OBVIOUS
  <2>1. (CHOOSE r \in Replicas : TRUE) \in Replicas /\ (CHOOSE o \in Orders : TRUE) \in Orders
    BY SagaAssumption
  <2>2. home \in [Orders -> Replicas] /\ work \in [Replicas -> Orders]
    BY <2>1 DEF Init
  <2>3. pc \in [Procs -> HandlerSteps \cup ReplicaSteps]
    BY DEF Init, HandlerSteps, ReplicaSteps
  <2>4. budget \in [Faults -> Nat]
    BY SagaAssumption DEF Init
  <2>5. /\ orders \in [Orders -> OrderStatus]
        /\ saga \in [Orders -> [status : SagaStatus, rid : BOOLEAN]]
        /\ todo \in [Replicas -> SUBSET [order : Orders, rid : BOOLEAN]]
    BY DEF Init, OrderStatus, SagaStatus
  <2> QED
    BY <2>2, <2>3, <2>4, <2>5 DEF Init, OrderTypeOK
<1>2. OrderTypeOK /\ [Next]_vars => OrderTypeOK'
  <2> SUFFICES ASSUME OrderTypeOK, [Next]_vars PROVE OrderTypeOK'
    OBVIOUS
  <2>1. CASE UNCHANGED vars
    BY <2>1 DEF vars, control, OrderTypeOK
  <2>2. CASE Next
    BY <2>2, ExecuteTyped, CompensateTyped, ResumeTyped, EnvironmentTyped DEF Next
  <2> QED
    BY <2>1, <2>2
<1> QED
  BY <1>1, <1>2, PTL DEF Spec

-----------------------------------------------------------------------------
(* The saga uses the inventory service only through its RPCs *)

\* A request that is executed is a step of the inventory service.
LEMMA StockCallStep ==
  ASSUME NEW s, NEW o \in Orders, NEW code \in Stock!Codes, StockCall(s, o, code)
  PROVE  Stock!Next
  BY DEF StockCall, Stock!Next

\* Every step of the saga runs one RPC of the inventory service or leaves the
\* stock tables alone.
LEMMA StockSteps ==
  ASSUME OrderTypeOK, [Next]_vars
  PROVE  \/ UNCHANGED stock
         \/ \E s \in Calls, o \in Orders, code \in Stock!Codes : StockCall(s, o, code)
<1>1. CASE UNCHANGED vars
  BY <1>1 DEF vars
<1>2. ASSUME NEW o \in Orders, Execute(o)
      PROVE  UNCHANGED stock
  BY <1>2 DEF Execute, CreateSaga, Reserving, Reserved, SetReservationID, Paying,
              ProcessPayment, Confirming, Confirmed, Completed, CompleteSaga, Publish,
              SetOrderStatus, Advance
<1>3. ASSUME NEW q \in Procs, Compensate(q)
      PROVE  \/ UNCHANGED stock
             \/ \E s \in Calls, o \in Orders, code \in Stock!Codes : StockCall(s, o, code)
  <2>1. CASE Serve(q)
    BY <2>1, OrderOfType DEF Serve, InFlight
  <2>2. CASE Retry(q) \/ Released(q) \/ FailSaga(q) \/ FailOrder(q)
    BY <2>2 DEF Retry, Released, FailSaga, FailOrder, Advance
  <2> QED
    BY <1>3, <2>1, <2>2 DEF Compensate
<1>4. ASSUME NEW r \in Replicas, Resume(r)
      PROVE  UNCHANGED stock
  BY <1>4 DEF Resume, Start, ResumeNext, BeginServing, Advance
<1>5. CASE Environment
  <2>1. ASSUME NEW m \in stray, ServeStray(m)
        PROVE  \E s \in Calls, o \in Orders, code \in Stock!Codes : StockCall(s, o, code)
    <3>1. m[1] \in Calls /\ m[2] \in Orders
      BY DEF OrderTypeOK
    <3> QED
      BY <2>1, <3>1 DEF ServeStray
  <2>2. CASE ~ \E m \in stray : ServeStray(m)
    BY <1>5, <2>2 DEF Environment, CreateOrder, ContextEnds, CancelOrder, Cancelled,
                      CallFails, Crash
  <2> QED
    BY <2>1, <2>2
<1> QED
  BY <1>1, <1>2, <1>3, <1>4, <1>5 DEF Next

\* The saga implements the inventory service: it starts with its initial
\* tables, and each of its steps is a step of the service or a stutter.
THEOREM UsesStockRPCs == Spec => Stock!Spec
<1>1. Init => Stock!Init
  BY DEF Init
<1>2. OrderTypeOK /\ [Next]_vars => [Stock!Next]_(Stock!vars)
  BY StockSteps, StockCallStep DEF stock, Stock!vars
<1> QED
  BY <1>1, <1>2, OrderTyped, PTL DEF Spec, Stock!Spec

\* The instance of Inventory the theorems speak of is the one the saga uses.
LEMMA SameStock == Stock!Spec => StockTheorems!Spec
<1> USE DEF Stock!RowStatus, StockTheorems!RowStatus
<1>1. Stock!Init => StockTheorems!Init
  BY DEF Stock!Init, StockTheorems!Init
<1>2. ASSUME NEW p \in Products
      PROVE  /\ Stock!CreateProduct(p) => StockTheorems!CreateProduct(p)
             /\ Stock!UpdateProduct(p) => StockTheorems!UpdateProduct(p)
  BY DEF Stock!CreateProduct, StockTheorems!CreateProduct,
         Stock!UpdateProduct, StockTheorems!UpdateProduct
<1>3. ASSUME NEW o \in Orders, NEW code
      PROVE  Stock!ReserveStock(o, code) => StockTheorems!ReserveStock(o, code)
  BY DEF Stock!ReserveStock, StockTheorems!ReserveStock,
         Stock!Enough, StockTheorems!Enough, Stock!Free, StockTheorems!Free,
         Stock!Quantity, StockTheorems!Quantity, Stock!Reserve, StockTheorems!Reserve
<1>4. ASSUME NEW o \in Orders, NEW code
      PROVE  /\ Stock!ReleaseStock(o, code) => StockTheorems!ReleaseStock(o, code)
             /\ Stock!DecrementStock(o, code) => StockTheorems!DecrementStock(o, code)
  BY DEF Stock!ReleaseStock, StockTheorems!ReleaseStock,
         Stock!DecrementStock, StockTheorems!DecrementStock,
         Stock!Held, StockTheorems!Held, Stock!Quantity, StockTheorems!Quantity,
         Stock!MoveRows, StockTheorems!MoveRows,
         Stock!NothingReserved, StockTheorems!NothingReserved
<1>5. [Stock!Next]_(Stock!vars) => [StockTheorems!Next]_(StockTheorems!vars)
  BY <1>2, <1>3, <1>4 DEF Stock!Next, StockTheorems!Next, Stock!vars, StockTheorems!vars,
                          Stock!Codes, StockTheorems!Codes
<1> QED
  BY <1>1, <1>5, PTL DEF Stock!Spec, StockTheorems!Spec

LEMMA StockConstantsHold == StockTheorems!StockConstants
<1>1. Stock!StockConstants
  BY SagaAssumption
<1> QED
  BY <1>1 DEF Stock!StockConstants, StockTheorems!StockConstants

\* Whatever is lost, repeated, late or restarted, no product ever has more
\* reserved than it has.
THEOREM SagaNeverOversells == Spec => []NeverOversold
<1>1. StockTheorems!Spec => []StockTheorems!NoOversell
  BY StockConstantsHold, StockTheorems!NeverOversells
<1>2. StockTheorems!NoOversell => NeverOversold
  BY DEF StockTheorems!NoOversell, NeverOversold, Stock!NoOversell
<1> QED
  BY <1>1, <1>2, SameStock, UsesStockRPCs, PTL

\* Every variable of the two services keeps its type.
THEOREM SagaTyped == Spec => []TypeOK
<1>1. StockTheorems!Spec => []StockTheorems!TypeOK
  BY StockConstantsHold, StockTheorems!StockTyped
<1>2. StockTheorems!TypeOK /\ OrderTypeOK => TypeOK
  BY DEF StockTheorems!TypeOK, StockTheorems!RowStatus, Stock!TypeOK, Stock!RowStatus, TypeOK
<1> QED
  BY <1>1, <1>2, SameStock, UsesStockRPCs, OrderTyped, PTL

-----------------------------------------------------------------------------
(* A completed order is sold *)

Sold(o) == rows[o]["DECREMENTED"] > 0

\* What is sold stays sold, and a DecrementStock that succeeds sells.
LEMMA StockCallSells ==
  ASSUME Stock!TypeOK, NEW s, NEW o \in Orders, NEW code, StockCall(s, o, code)
  PROVE  /\ \A x \in Orders : Sold(x) => Sold(x)'
         /\ s = "confirm" /\ code = "OK" => Sold(o)'
<1> USE DEF Stock!TypeOK, Stock!RowStatus, Sold
<1>1. CASE s = "reserve" /\ Stock!ReserveStock(o, code)
  BY <1>1 DEF Stock!ReserveStock, Stock!Reserve
<1>2. CASE s = "release" /\ Stock!ReleaseStock(o, code)
  BY <1>2 DEF Stock!ReleaseStock, Stock!MoveRows, Stock!NothingReserved
<1>3. CASE s = "confirm" /\ Stock!DecrementStock(o, code)
  BY <1>3 DEF Stock!DecrementStock, Stock!MoveRows, Stock!NothingReserved
<1> QED
  BY <1>1, <1>2, <1>3 DEF StockCall

\* The inductive invariant: besides what the tables show, a handler that is
\* past its confirmation, or holds the OK of its DecrementStock, has sold.
Confirmation(o) ==
  \/ orders[o] = "COMPLETED" \/ saga[o].status = "COMPLETED" \/ o \in events
  \/ pc[o] \in {"completed", "completeSaga", "publish"}
  \/ pc[o] = "confirm" /\ call[o] = "OK"

ConfirmedSold == \A o \in Orders : Confirmation(o) => Sold(o)

\* Going to a step other than the last three keeps the invariant when no
\* table is touched: a call starts with no answer or a failure.
LEMMA GotoConfirms ==
  ASSUME OrderTypeOK, ConfirmedSold, NEW q \in Procs, NEW s, Goto(q, s),
         s \notin {"completed", "completeSaga", "publish"},
         UNCHANGED <<rows, events>>,
         \A o \in Orders : orders'[o] = "COMPLETED" => orders[o] = "COMPLETED",
         \A o \in Orders : saga'[o].status = "COMPLETED" => saga[o].status = "COMPLETED"
  PROVE  ConfirmedSold'
<1> SUFFICES ASSUME NEW o \in Orders, Confirmation(o)' PROVE Sold(o)'
  BY DEF ConfirmedSold
<1>1. Sold(o)' = Sold(o)
  BY DEF Sold
<1>2. o \in Procs
  BY DEF Procs
<1>3. Confirmation(o)
  BY <1>2 DEF Confirmation, Goto, OrderTypeOK
<1> QED
  BY <1>1, <1>3 DEF ConfirmedSold

\* A write of any other status leaves no new order or saga completed.
LEMMA WriteOrderOther ==
  ASSUME OrderTypeOK, NEW q \in Procs, NEW status, status # "COMPLETED", WriteOrder(q, status)
  PROVE  \A o \in Orders : orders'[o] = "COMPLETED" => orders[o] = "COMPLETED"
  BY OrderOfType DEF OrderTypeOK, WriteOrder

LEMMA WriteRidOther ==
  ASSUME OrderTypeOK, NEW q \in Procs, WriteSaga(q, "rid", TRUE)
  PROVE  \A o \in Orders : saga'[o].status = "COMPLETED" => saga[o].status = "COMPLETED"
<1> SUFFICES ASSUME NEW o \in Orders PROVE saga'[o].status = "COMPLETED" => saga[o].status = "COMPLETED"
  OBVIOUS
<1>1. saga \in [Orders -> [status : SagaStatus, rid : BOOLEAN]] /\ OrderOf(q) \in Orders
  BY OrderOfType DEF OrderTypeOK
<1>2. CASE UNCHANGED saga
  BY <1>2
<1>3. CASE saga' = [saga EXCEPT ![OrderOf(q)]["rid"] = TRUE]
  <2>1. saga'[o] = IF o = OrderOf(q) THEN [saga[o] EXCEPT !["rid"] = TRUE] ELSE saga[o]
    BY <1>1, <1>3
  <2>2. saga[o] \in [status : SagaStatus, rid : BOOLEAN]
    BY <1>1
  <2> QED BY <2>1, <2>2
<1> QED BY <1>2, <1>3 DEF WriteSaga

LEMMA WriteFailedOther ==
  ASSUME OrderTypeOK, NEW q \in Procs, WriteSaga(q, "status", "FAILED")
  PROVE  \A o \in Orders : saga'[o].status = "COMPLETED" => saga[o].status = "COMPLETED"
<1> SUFFICES ASSUME NEW o \in Orders PROVE saga'[o].status = "COMPLETED" => saga[o].status = "COMPLETED"
  OBVIOUS
<1>1. saga \in [Orders -> [status : SagaStatus, rid : BOOLEAN]] /\ OrderOf(q) \in Orders
  BY OrderOfType DEF OrderTypeOK
<1>2. CASE UNCHANGED saga
  BY <1>2
<1>3. CASE saga' = [saga EXCEPT ![OrderOf(q)]["status"] = "FAILED"]
  <2>1. saga'[o] = IF o = OrderOf(q) THEN [saga[o] EXCEPT !["status"] = "FAILED"] ELSE saga[o]
    BY <1>1, <1>3
  <2>2. saga[o] \in [status : SagaStatus, rid : BOOLEAN]
    BY <1>1
  <2> QED BY <2>1, <2>2
<1> QED BY <1>2, <1>3 DEF WriteSaga

LEMMA ExecuteConfirms ==
  ASSUME OrderTypeOK, ConfirmedSold, NEW o \in Orders, Execute(o)
  PROVE  ConfirmedSold'
<1>0. o \in Procs /\ OrderOf(o) = o
  BY DEF Procs, OrderOf
<1>1. ASSUME NEW s, s \notin {"completed", "completeSaga", "publish"}, Advance(o, s)
      PROVE  ConfirmedSold'
  BY <1>0, <1>1, GotoConfirms DEF Advance, stock
<1>2. ASSUME NEW here, NEW status, NEW next, status # "COMPLETED",
             next \notin {"completed", "completeSaga", "publish"},
             SetOrderStatus(o, here, status, next)
      PROVE  ConfirmedSold'
  BY <1>0, <1>2, GotoConfirms, WriteOrderOther DEF SetOrderStatus, stock
<1>3. CASE CreateSaga(o)
  <2>1. \A x \in Orders : saga'[x].status = "COMPLETED" => saga[x].status = "COMPLETED"
    <3>1. CASE UNCHANGED saga
      BY <3>1
    <3>2. CASE saga' = [saga EXCEPT ![o] = [status |-> "IN_PROGRESS", rid |-> FALSE]]
      BY <3>2 DEF OrderTypeOK
    <3> QED
      BY <1>3, <3>1, <3>2 DEF CreateSaga
  <2> QED
    BY <1>0, <1>3, <2>1, GotoConfirms DEF CreateSaga, stock
<1>4. CASE Reserving(o) \/ Paying(o) \/ Confirming(o)
  BY <1>2, <1>4 DEF Reserving, Paying, Confirming
<1>5. CASE Reserved(o) \/ ProcessPayment(o) \/ (Returned(o, "confirm", FALSE) /\ Advance(o, "release"))
  BY <1>1, <1>5 DEF Reserved, ProcessPayment
<1>6. CASE Returned(o, "confirm", TRUE) /\ Advance(o, "completed")
  <2>1. Sold(o)
    BY <1>6 DEF Returned, ConfirmedSold, Confirmation
  <2> QED
    BY <1>0, <1>6, <2>1 DEF ConfirmedSold, Confirmation, Sold, Advance, Goto, stock, OrderTypeOK, Procs
<1>7. CASE SetReservationID(o)
  BY <1>0, <1>7, GotoConfirms, WriteRidOther DEF SetReservationID, stock
<1>8. CASE Completed(o)
  <2>1. Sold(o)
    BY <1>8 DEF Completed, SetOrderStatus, ConfirmedSold, Confirmation
  <2> QED
    BY <1>0, <1>8, <2>1 DEF ConfirmedSold, Confirmation, Sold, Completed, SetOrderStatus,
                            WriteOrder, Goto, stock, OrderTypeOK, Procs
<1>9. CASE CompleteSaga(o)
  <2>1. Sold(o)
    BY <1>9 DEF CompleteSaga, ConfirmedSold, Confirmation
  <2> QED
    BY <1>0, <1>9, <2>1 DEF ConfirmedSold, Confirmation, Sold, CompleteSaga,
                            WriteSaga, Goto, stock, OrderTypeOK, Procs
<1>10. CASE Publish(o)
  <2>1. Sold(o)
    BY <1>10 DEF Publish, ConfirmedSold, Confirmation
  <2> QED
    BY <1>0, <1>10, <2>1 DEF ConfirmedSold, Confirmation, Sold, Publish, Goto, stock,
                             OrderTypeOK, Procs
<1> QED
  BY <1>3, <1>4, <1>5, <1>6, <1>7, <1>8, <1>9, <1>10 DEF Execute, Confirmed

LEMMA CompensateConfirms ==
  ASSUME Stock!TypeOK, OrderTypeOK, ConfirmedSold, NEW q \in Procs, Compensate(q)
  PROVE  ConfirmedSold'
<1>1. CASE Serve(q)
  <2> SUFFICES ASSUME NEW o \in Orders, Confirmation(o)' PROVE Sold(o)'
    BY DEF ConfirmedSold
  <2>1. PICK code \in Stock!Codes : /\ StockCall(pc[q], OrderOf(q), code)
                                    /\ call' = [call EXCEPT ![q] = code]
    BY <1>1 DEF Serve
  <2>2. OrderOf(q) \in Orders
    BY OrderOfType
  <2>3. CASE Confirmation(o)
    BY <2>1, <2>2, <2>3, StockCallSells DEF ConfirmedSold
  <2>4. CASE ~ Confirmation(o)
    <3>1. q = o /\ pc[q] = "confirm" /\ code = "OK"
      BY <1>1, <2>1, <2>4 DEF Confirmation, Serve, OrderTypeOK, Procs
    <3>2. OrderOf(q) = o
      BY <3>1 DEF OrderOf
    <3> QED
      BY <2>1, <3>1, <3>2, StockCallSells
  <2> QED
    BY <2>3, <2>4
<1>2. CASE Retry(q)
  BY <1>2 DEF Retry, ConfirmedSold, Confirmation, Sold, stock, OrderTypeOK, Procs
<1>3. CASE Released(q)
  BY <1>3, GotoConfirms DEF Released, Advance, stock
<1>4. CASE FailSaga(q)
  BY <1>4, GotoConfirms, WriteFailedOther DEF FailSaga, stock
<1>5. CASE FailOrder(q)
  BY <1>5, GotoConfirms, WriteOrderOther DEF FailOrder, stock
<1> QED
  BY <1>1, <1>2, <1>3, <1>4, <1>5 DEF Compensate

LEMMA ResumeConfirms ==
  ASSUME OrderTypeOK, ConfirmedSold, NEW r \in Replicas, Resume(r)
  PROVE  ConfirmedSold'
<1>0. r \in Procs
  BY DEF Procs
<1>1. CASE Start(r)
  BY <1>0, <1>1, GotoConfirms DEF Start, stock
<1>2. CASE ResumeNext(r)
  BY <1>0, <1>2, GotoConfirms DEF ResumeNext, stock
<1>3. CASE BeginServing(r)
  BY <1>0, <1>3, GotoConfirms DEF BeginServing, Advance, stock
<1> QED
  BY <1>1, <1>2, <1>3 DEF Resume

LEMMA EnvironmentConfirms ==
  ASSUME Stock!TypeOK, OrderTypeOK, ConfirmedSold, Environment
  PROVE  ConfirmedSold'
<1> USE DEF ConfirmedSold
<1>1. ASSUME NEW o \in Orders, NEW r \in Replicas, CreateOrder(o, r)
      PROVE  ConfirmedSold'
  <2>1. o \in Procs /\ \A x \in Orders : orders'[x] = "COMPLETED" => orders[x] = "COMPLETED"
    BY <1>1 DEF Procs, CreateOrder, OrderTypeOK
  <2> QED
    BY <1>1, <2>1, GotoConfirms DEF CreateOrder, stock
<1>2. ASSUME NEW o \in Orders, ContextEnds(o)
      PROVE  ConfirmedSold'
  BY <1>2 DEF ContextEnds, Confirmation, Sold, stock, OrderTypeOK, Procs
<1>3. ASSUME NEW o \in Orders, CancelOrder(o) \/ Cancelled(o)
      PROVE  ConfirmedSold'
  BY <1>3 DEF CancelOrder, Cancelled, Confirmation, Sold, stock, control, OrderTypeOK
<1>4. ASSUME NEW q \in Procs, CallFails(q)
      PROVE  ConfirmedSold'
  BY <1>4 DEF CallFails, Confirmation, Sold, stock, OrderTypeOK, Procs
<1>5. ASSUME NEW m \in stray, ServeStray(m)
      PROVE  ConfirmedSold'
  <2>1. PICK code \in Stock!Codes : StockCall(m[1], m[2], code)
    BY <1>5 DEF ServeStray
  <2>2. m[2] \in Orders
    BY DEF OrderTypeOK
  <2>3. \A o \in Orders : Confirmation(o)' => Confirmation(o)
    BY <1>5 DEF ServeStray, Confirmation, control
  <2> QED
    BY <2>1, <2>2, <2>3, StockCallSells
<1>6. ASSUME NEW r \in Replicas, Crash(r)
      PROVE  ConfirmedSold'
  BY <1>6 DEF Crash, Confirmation, Sold, stock, OrderTypeOK, Procs
<1> QED
  BY <1>1, <1>2, <1>3, <1>4, <1>5, <1>6 DEF Environment

\* Whatever fails, no order is shown, recorded or reported as completed
\* unless the inventory service has taken its stock.
THEOREM CompletedOrdersAreSold == Spec => []CompletedIsSold
<1>1. Init => ConfirmedSold
  BY DEF Init, ConfirmedSold, Confirmation, Procs
<1>2. TypeOK /\ ConfirmedSold /\ [Next]_vars => ConfirmedSold'
  <2> SUFFICES ASSUME TypeOK, ConfirmedSold, [Next]_vars PROVE ConfirmedSold'
    OBVIOUS
  <2>1. CASE UNCHANGED vars
    BY <2>1 DEF vars, stock, control, ConfirmedSold, Confirmation, Sold
  <2>2. CASE Next
    BY <2>2, ExecuteConfirms, CompensateConfirms, ResumeConfirms, EnvironmentConfirms
       DEF Next, TypeOK
  <2> QED
    BY <2>1, <2>2
<1>3. ConfirmedSold => CompletedIsSold
  BY DEF ConfirmedSold, Confirmation, Sold, CompletedIsSold
<1> QED
  BY <1>1, <1>2, <1>3, SagaTyped, PTL DEF Spec

-----------------------------------------------------------------------------
(* The control flow of a process and what its steps write: the form in     *)
(* which the invariants below look at a step.                              *)

HandlerEdges ==
  { <<"idle", "createSaga">>, <<"createSaga", "reserving">>, <<"createSaga", "done">>,
    <<"reserving", "reserve">>, <<"reserve", "setReservation">>, <<"reserve", "failSaga">>,
    <<"setReservation", "paying">>, <<"paying", "payment">>, <<"payment", "confirming">>,
    <<"payment", "release">>, <<"confirming", "confirm">>, <<"confirm", "completed">>,
    <<"confirm", "release">>, <<"completed", "completeSaga">>, <<"completeSaga", "publish">>,
    <<"publish", "done">>, <<"release", "failSaga">>, <<"failSaga", "failOrder">>,
    <<"failOrder", "done">> }

ReplicaEdges ==
  { <<"down", "resume">>, <<"down", "serving">>, <<"resume", "release">>,
    <<"resume", "failSaga">>, <<"resume", "serving">>, <<"release", "failSaga">>,
    <<"failSaga", "failOrder">>, <<"failOrder", "resume">> }

\* The faults other than lost writes, and those that do not happen in a step.
OtherFaults == {"call", "crash", "timeout"}
Kept(F) == \A f \in F : budget'[f] = budget[f]

\* A statement of q may have been lost in this step.
LostWrite(q) == q \in ended \/ budget'["db"] < budget["db"]

\* What q writes to the saga of its order when it goes on to s.
SagaWrite(q, s) ==
  LET o == OrderOf(q)
  IN  \/ /\ saga' = saga
         /\ pc[q] \in {"setReservation", "completeSaga", "failSaga"} => LostWrite(q)
         /\ s # "reserving"
      \/ /\ \A x \in Orders \ {o} : saga'[x] = saga[x]
         /\ \/ /\ pc[q] = "createSaga" /\ s = "reserving" /\ saga[o].status = "NONE"
               /\ saga'[o] = [status |-> "IN_PROGRESS", rid |-> FALSE]
            \/ /\ pc[q] = "setReservation" /\ q \notin ended
               /\ saga'[o] = [status |-> saga[o].status, rid |-> TRUE]
            \/ /\ pc[q] = "completeSaga" /\ q \notin ended
               /\ saga'[o] = [status |-> "COMPLETED", rid |-> saga[o].rid]
            \/ /\ pc[q] = "failSaga" /\ q \notin ended
               /\ saga'[o] = [status |-> "FAILED", rid |-> saga[o].rid]

\* ... to the status of its order, as far as the last statuses go.
OrderWrite(q) ==
  LET o == OrderOf(q)
  IN  /\ \A x \in Orders \ {o} : orders'[x] = orders[x]
      /\ pc[q] = "completed" => orders'[o] = "COMPLETED" \/ LostWrite(q)
      /\ pc[q] = "failOrder" => orders'[o] = "FAILED" \/ LostWrite(q)
      /\ pc[q] \in {"completeSaga", "publish"} => orders' = orders

\* ... and to the list of what Resume has still to do.
ListWrite(q, s) ==
  \/ /\ pc[q] \notin {"down", "resume"}
     /\ todo' = todo /\ work' = work
  \/ /\ pc[q] = "down" /\ s = "resume"
     /\ todo' = [todo EXCEPT ![q] = Unfinished] /\ work' = work
  \/ /\ pc[q] = "down" /\ s = "serving" /\ budget'["db"] < budget["db"]
     /\ todo' = todo /\ work' = work
  \/ /\ pc[q] = "resume" /\ s = "serving" /\ todo[q] = {}
     /\ todo' = todo /\ work' = work
  \/ /\ pc[q] = "resume" /\ s # "serving"
     /\ \E t \in todo[q] :
          /\ todo' = [todo EXCEPT ![q] = @ \ {t}]
          /\ work' = [work EXCEPT ![q] = t.order]
          /\ s = IF t.rid THEN "release" ELSE "failSaga"

\* q goes on to s.
Moves(q, s) ==
  /\ Goto(q, s)
  /\ \/ q \in Orders /\ <<pc[q], s>> \in HandlerEdges
     \/ q \in Replicas /\ <<pc[q], s>> \in ReplicaEdges
  /\ pc[q] \in Calls => call[q] \notin {"none", "sent"} /\ ~ MayRetry(q)
  /\ <<pc[q], s>> \in {<<"reserve", "setReservation">>, <<"confirm", "completed">>} => call[q] = "OK"
  /\ <<pc[q], s>> \in {<<"reserve", "failSaga">>, <<"confirm", "release">>} => call[q] # "OK"
  /\ <<pc[q], s>> = <<"createSaga", "done">> => LostWrite(q)
  /\ pc[q] = "idle" => \E r \in Replicas : pc[r] = "serving"
  /\ SagaWrite(q, s) /\ OrderWrite(q) /\ ListWrite(q, s)
  /\ UNCHANGED <<stock, stray, ended>>
  /\ Kept(OtherFaults) /\ budget'["db"] <= budget["db"]

\* Going on changes the control state of q only.
LEMMA GotoEffect ==
  ASSUME OrderTypeOK, NEW q \in Procs, NEW s, Goto(q, s)
  PROVE  /\ pc'[q] = s
         /\ call'[q] = IF s \notin Calls THEN "none"
                       ELSE IF q \in ended THEN "DeadlineExceeded" ELSE "sent"
         /\ tries'[q] = 0
         /\ \A x \in Procs \ {q} : pc'[x] = pc[x] /\ call'[x] = call[x] /\ tries'[x] = tries[x]
  BY DEF OrderTypeOK, Goto

\* A write reaches its row or is lost.
LEMMA SagaWriteEffect ==
  ASSUME OrderTypeOK, NEW q \in Procs, NEW field \in {"rid", "status"}, NEW value,
         WriteSaga(q, field, value)
  PROVE  \/ /\ q \notin ended
            /\ \A x \in Orders \ {OrderOf(q)} : saga'[x] = saga[x]
            /\ field = "rid" => saga'[OrderOf(q)] = [status |-> saga[OrderOf(q)].status, rid |-> value]
            /\ field = "status" => saga'[OrderOf(q)] = [status |-> value, rid |-> saga[OrderOf(q)].rid]
         \/ saga' = saga /\ StatementLost(q)
<1>1. saga \in [Orders -> [status : SagaStatus, rid : BOOLEAN]] /\ OrderOf(q) \in Orders
  BY OrderOfType DEF OrderTypeOK
<1>2. CASE StatementLost(q) /\ UNCHANGED saga
  BY <1>2
<1>3. CASE q \notin ended /\ saga' = [saga EXCEPT ![OrderOf(q)][field] = value]
  <2>1. /\ \A x \in Orders \ {OrderOf(q)} : saga'[x] = saga[x]
        /\ saga'[OrderOf(q)] = [saga[OrderOf(q)] EXCEPT ![field] = value]
    BY <1>1, <1>3
  <2>2. saga[OrderOf(q)] \in [status : SagaStatus, rid : BOOLEAN]
    BY <1>1
  <2>3. /\ field = "rid" => saga'[OrderOf(q)] = [status |-> saga[OrderOf(q)].status, rid |-> value]
        /\ field = "status" => saga'[OrderOf(q)] = [status |-> value, rid |-> saga[OrderOf(q)].rid]
    BY <2>1, <2>2
  <2> QED BY <1>3, <2>1, <2>3
<1> QED BY <1>2, <1>3 DEF WriteSaga

\* The same for the status of an order.
LEMMA OrderWriteEffect ==
  ASSUME OrderTypeOK, NEW q \in Procs, NEW status, WriteOrder(q, status)
  PROVE  /\ \A x \in Orders \ {OrderOf(q)} : orders'[x] = orders[x]
         /\ orders'[OrderOf(q)] = status \/ (orders' = orders /\ StatementLost(q))
  BY OrderOfType DEF OrderTypeOK, WriteOrder

\* A lost statement may cost a fault of the database, and no other.
LEMMA LostEffect ==
  ASSUME OrderTypeOK, NEW q \in Procs, StatementLost(q)
  PROVE  LostWrite(q) /\ Kept(OtherFaults) /\ budget'["db"] <= budget["db"]
  BY DEF OrderTypeOK, Faults, StatementLost, Spend, LostWrite, Kept, OtherFaults

\* So may a write, which happens or is lost.
LEMMA BudgetEffect ==
  ASSUME OrderTypeOK, NEW q \in Procs,
         \/ UNCHANGED budget
         \/ \E status : WriteOrder(q, status)
         \/ \E field, value : WriteSaga(q, field, value)
  PROVE  Kept(OtherFaults) /\ budget'["db"] <= budget["db"]
  BY LostEffect DEF OrderTypeOK, Faults, WriteOrder, WriteSaga, Kept, OtherFaults

\* What a handler does by itself moves it along an edge of its control flow.
LEMMA ExecuteMoves ==
  ASSUME OrderTypeOK, NEW o \in Orders, Execute(o)
  PROVE  \E s \in HandlerSteps : Moves(o, s)
<1>0. /\ o \in Procs /\ OrderOf(o) = o
      /\ Calls = {"reserve", "confirm", "release"}
  BY DEF Procs, OrderOf, Calls
<1>1. ASSUME NEW s, Advance(o, s)
      PROVE  /\ Goto(o, s)
             /\ UNCHANGED <<stock, stray, ended, orders, saga, todo, work>>
             /\ Kept(OtherFaults) /\ budget'["db"] <= budget["db"]
  BY <1>0, <1>1, BudgetEffect DEF Advance
<1> USE DEF Moves, HandlerEdges, HandlerSteps, SagaWrite, OrderWrite, ListWrite
<1>2. CASE CreateSaga(o)
  <2>1. CASE /\ saga' = [saga EXCEPT ![o] = [status |-> "IN_PROGRESS", rid |-> FALSE]]
             /\ Goto(o, "reserving")
             /\ UNCHANGED budget
    <3>1. /\ \A x \in Orders \ {o} : saga'[x] = saga[x]
          /\ saga'[o] = [status |-> "IN_PROGRESS", rid |-> FALSE]
      BY <2>1 DEF OrderTypeOK
    <3> QED BY <1>0, <1>2, <2>1, <3>1, BudgetEffect DEF CreateSaga
  <2>2. CASE StatementLost(o) /\ Goto(o, "done") /\ UNCHANGED saga
    BY <1>0, <1>2, <2>2, LostEffect DEF CreateSaga
  <2> QED BY <1>2, <2>1, <2>2 DEF CreateSaga
<1>3. CASE Reserving(o) \/ Paying(o) \/ Confirming(o) \/ Completed(o)
  BY <1>0, <1>3, BudgetEffect, OrderWriteEffect, LostEffect
     DEF Reserving, Paying, Confirming, Completed, SetOrderStatus
<1>4. CASE Reserved(o)
  BY <1>0, <1>1, <1>4 DEF Reserved, Returned
<1>5. CASE Confirmed(o)
  BY <1>0, <1>1, <1>5 DEF Confirmed, Returned
<1>6. CASE ProcessPayment(o)
  BY <1>0, <1>1, <1>6 DEF ProcessPayment
<1>7. CASE SetReservationID(o)
  BY <1>0, <1>7, BudgetEffect, SagaWriteEffect, LostEffect DEF SetReservationID
<1>8. CASE CompleteSaga(o)
  BY <1>0, <1>8, BudgetEffect, SagaWriteEffect, LostEffect DEF CompleteSaga
<1>9. CASE Publish(o)
  BY <1>0, <1>9, BudgetEffect DEF Publish
<1> QED BY <1>2, <1>3, <1>4, <1>5, <1>6, <1>7, <1>8, <1>9 DEF Execute

\* So do compensation, for a handler or a replica,
LEMMA FailureMoves ==
  ASSUME OrderTypeOK, NEW q \in Procs, Released(q) \/ FailSaga(q) \/ FailOrder(q)
  PROVE  \E s \in HandlerSteps \cup ReplicaSteps : Moves(q, s)
<1>0. /\ q \in Orders \/ q \in Replicas
      /\ OrderOf(q) \in Orders
      /\ Calls = {"reserve", "confirm", "release"}
      /\ Orders \cap Replicas = {}
  BY OrderOfType, SagaAssumption DEF Procs, Calls
<1> USE DEF Moves, HandlerEdges, HandlerSteps, ReplicaEdges, ReplicaSteps, SagaWrite, OrderWrite, ListWrite
<1>1. CASE Released(q)
  BY <1>0, <1>1, BudgetEffect DEF Released, Returned, Advance
<1>2. CASE FailSaga(q)
  BY <1>0, <1>2, BudgetEffect, SagaWriteEffect, LostEffect DEF FailSaga
<1>3. CASE FailOrder(q)
  BY <1>0, <1>3, BudgetEffect, OrderWriteEffect, LostEffect DEF FailOrder
<1> QED BY <1>1, <1>2, <1>3

\* the start of a replica,
LEMMA ResumeMoves ==
  ASSUME OrderTypeOK, NEW r \in Replicas, Resume(r)
  PROVE  \E s \in ReplicaSteps : Moves(r, s)
<1>0. /\ r \in Procs /\ r \notin Orders
      /\ Calls = {"reserve", "confirm", "release"}
  BY SagaAssumption DEF Procs, Calls
<1> USE DEF Moves, ReplicaEdges, ReplicaSteps, SagaWrite, OrderWrite, ListWrite
<1>1. CASE Start(r)
  <2>1. CASE todo' = [todo EXCEPT ![r] = Unfinished] /\ Goto(r, "resume") /\ UNCHANGED budget
    BY <1>0, <1>1, <2>1, BudgetEffect DEF Start
  <2>2. CASE Spend("db") /\ Goto(r, "serving") /\ UNCHANGED todo
    <3>1. Kept(OtherFaults) /\ budget'["db"] < budget["db"] /\ budget'["db"] <= budget["db"]
      BY <2>2 DEF OrderTypeOK, Faults, Spend, Kept, OtherFaults
    <3> QED BY <1>0, <1>1, <2>2, <3>1 DEF Start
  <2> QED BY <1>1, <2>1, <2>2 DEF Start
<1>2. CASE ResumeNext(r)
  BY <1>0, <1>2, BudgetEffect DEF ResumeNext
<1>3. CASE BeginServing(r)
  BY <1>0, <1>3, BudgetEffect DEF BeginServing, Advance
<1> QED BY <1>1, <1>2, <1>3 DEF Resume

\* and the creation of an order.
LEMMA CreateMoves ==
  ASSUME OrderTypeOK, NEW o \in Orders, NEW r \in Replicas, CreateOrder(o, r)
  PROVE  Moves(o, "createSaga")
<1>0. /\ o \in Procs /\ OrderOf(o) = o
      /\ Calls = {"reserve", "confirm", "release"}
  BY DEF Procs, OrderOf, Calls
<1>1. \A x \in Orders \ {o} : orders'[x] = orders[x]
  BY DEF CreateOrder, OrderTypeOK
<1> QED BY <1>0, <1>1, BudgetEffect
        DEF CreateOrder, Moves, HandlerEdges, SagaWrite, OrderWrite, ListWrite

\* A CancelOrder touches the status of its order, and no process.
Cancels ==
  /\ UNCHANGED <<stock, saga, control, stray, ended>>
  /\ Kept(OtherFaults \cup {"db"})
  /\ \A x \in Orders : orders'[x] \in {orders[x], "CANCELLED"}

\* A step moves a process, is one of a call, or one of the environment.
LEMMA StepsOf ==
  ASSUME OrderTypeOK, Next
  PROVE  \/ \E q \in Procs, s \in HandlerSteps \cup ReplicaSteps : Moves(q, s)
         \/ \E q \in Procs : Serve(q) \/ Retry(q) \/ CallFails(q)
         \/ \E m \in stray : ServeStray(m)
         \/ \E r \in Replicas : Crash(r)
         \/ \E o \in Orders : ContextEnds(o)
         \/ Cancels
<1> DEFINE Moved == \E q \in Procs, s \in HandlerSteps \cup ReplicaSteps : Moves(q, s)
<1>0. Orders \subseteq Procs /\ Replicas \subseteq Procs
  BY DEF Procs
<1>1. ASSUME NEW o \in Orders, Execute(o) PROVE Moved
  BY <1>0, <1>1, ExecuteMoves
<1>2. ASSUME NEW q \in Procs, Released(q) \/ FailSaga(q) \/ FailOrder(q) PROVE Moved
  BY <1>2, FailureMoves
<1>3. ASSUME NEW r \in Replicas, Resume(r) PROVE Moved
  BY <1>0, <1>3, ResumeMoves
<1>4. ASSUME NEW o \in Orders, NEW r \in Replicas, CreateOrder(o, r) PROVE Moved
  <2>1. Moves(o, "createSaga") /\ "createSaga" \in HandlerSteps
    BY <1>4, CreateMoves DEF HandlerSteps
  <2> QED BY <1>0, <2>1
<1>5. ASSUME NEW o \in Orders, CancelOrder(o) \/ Cancelled(o) PROVE Cancels
  BY <1>5 DEF CancelOrder, Cancelled, Cancels, Spend, Kept, OtherFaults, OrderTypeOK, Faults
<1> HIDE DEF Moved
<1>6. \/ Moved
      \/ \E q \in Procs : Serve(q) \/ Retry(q) \/ CallFails(q)
      \/ \E m \in stray : ServeStray(m)
      \/ \E r \in Replicas : Crash(r)
      \/ \E o \in Orders : ContextEnds(o)
      \/ Cancels
  BY <1>1, <1>2, <1>3, <1>4, <1>5 DEF Next, Compensate, Environment
<1> QED BY <1>6 DEF Moved

-----------------------------------------------------------------------------
(* Handlers take the steps of handlers, replicas those of replicas; what a *)
(* call does to the rows of orders.                                        *)

ProcsTyped ==
  /\ \A o \in Orders : pc[o] \in HandlerSteps
  /\ \A r \in Replicas : pc[r] \in ReplicaSteps

\* Every edge of the control flow stays among the steps of its process.
LEMMA ProcsTypedKept ==
  ASSUME OrderTypeOK, ProcsTyped, [Next]_vars
  PROVE  ProcsTyped'
<1>0. Orders \cap Replicas = {} /\ Procs = Orders \cup Replicas
  BY SagaAssumption DEF Procs
<1>1. ASSUME NEW q \in Procs, NEW s, Moves(q, s) PROVE ProcsTyped'
  <2>1. q \in Orders => s \in HandlerSteps
    BY <1>0, <1>1 DEF Moves, HandlerEdges, HandlerSteps, Calls
  <2>2. q \in Replicas => s \in ReplicaSteps
    BY <1>0, <1>1 DEF Moves, ReplicaEdges, ReplicaSteps
  <2> QED BY <1>0, <1>1, <2>1, <2>2, GotoEffect DEF Moves, ProcsTyped
<1>2. ASSUME NEW r \in Replicas, Crash(r) PROVE ProcsTyped'
  BY <1>0, <1>2 DEF Crash, ProcsTyped, Victims, HandlerSteps, ReplicaSteps
<1>3. CASE UNCHANGED pc
  BY <1>3 DEF ProcsTyped
<1> QED BY <1>1, <1>2, <1>3, StepsOf
        DEF vars, control, Serve, Retry, CallFails, ServeStray, ContextEnds, Cancels

\* Hence every process is always at a step of its kind.
LEMMA ProcsAreTyped == Spec => []ProcsTyped
<1>1. Init => ProcsTyped
  BY SagaAssumption DEF Init, ProcsTyped, Procs, HandlerSteps, ReplicaSteps
<1> QED BY <1>1, ProcsTypedKept, OrderTyped, PTL DEF Spec

\* What a call of step s does to the rows of o.
RowsEffect(s, o, code) ==
  \/ /\ s = "reserve" /\ code = "OK"
     /\ rows'[o]["RESERVED"] = rows[o]["RESERVED"] + 1
     /\ rows'[o]["RELEASED"] = rows[o]["RELEASED"]
     /\ rows'[o]["DECREMENTED"] = rows[o]["DECREMENTED"]
  \/ /\ s = "release" /\ code = "OK"
     /\ rows[o]["RESERVED"] > 0 /\ rows'[o]["RESERVED"] = 0
     /\ rows'[o]["RELEASED"] = rows[o]["RELEASED"] + rows[o]["RESERVED"]
     /\ rows'[o]["DECREMENTED"] = rows[o]["DECREMENTED"]
  \/ /\ s = "confirm" /\ code = "OK"
     /\ rows[o]["RESERVED"] > 0 /\ rows'[o]["RESERVED"] = 0
     /\ rows'[o]["RELEASED"] = rows[o]["RELEASED"]
     /\ rows'[o]["DECREMENTED"] = rows[o]["DECREMENTED"] + rows[o]["RESERVED"]
  \/ /\ rows' = rows /\ code \in Stock!Codes \ {"OK"}
     /\ s \in {"release", "confirm"} => rows[o]["RESERVED"] = 0

\* An executed request changes the rows of its order as its step says.
LEMMA StockCallEffect ==
  ASSUME Stock!TypeOK, NEW s \in Calls, NEW o \in Orders, NEW code, StockCall(s, o, code)
  PROVE  /\ RowsEffect(s, o, code)
         /\ \A x \in Orders \ {o} : rows'[x] = rows[x]
<1> USE DEF Stock!TypeOK, Stock!RowStatus, RowsEffect, Stock!Codes
<1>1. CASE s = "reserve" /\ Stock!ReserveStock(o, code)
  BY <1>1 DEF Stock!ReserveStock, Stock!Reserve
<1>2. CASE s = "release" /\ Stock!ReleaseStock(o, code)
  BY <1>2 DEF Stock!ReleaseStock, Stock!MoveRows, Stock!NothingReserved
<1>3. CASE s = "confirm" /\ Stock!DecrementStock(o, code)
  BY <1>3 DEF Stock!DecrementStock, Stock!MoveRows, Stock!NothingReserved
<1> QED BY <1>1, <1>2, <1>3 DEF StockCall

\* A call that is served: by its client, or after the client gave up on it.
LEMMA ServeEffect ==
  ASSUME Stock!TypeOK, OrderTypeOK, NEW q \in Procs, Serve(q)
  PROVE  /\ pc[q] \in Calls /\ call[q] = "sent"
         /\ \E code \in Stock!Codes :
              /\ RowsEffect(pc[q], OrderOf(q), code)
              /\ call'[q] = code
         /\ \A x \in Orders \ {OrderOf(q)} : rows'[x] = rows[x]
         /\ \A x \in Procs \ {q} : call'[x] = call[x]
<1>1. PICK code \in Stock!Codes : StockCall(pc[q], OrderOf(q), code) /\ call' = [call EXCEPT ![q] = code]
  BY DEF Serve
<1>2. pc[q] \in Calls /\ call[q] = "sent"
  BY DEF Serve, InFlight
<1>3. call'[q] = code /\ \A x \in Procs \ {q} : call'[x] = call[x]
  BY <1>1 DEF OrderTypeOK
<1>4. /\ RowsEffect(pc[q], OrderOf(q), code)
      /\ \A x \in Orders \ {OrderOf(q)} : rows'[x] = rows[x]
  BY <1>1, <1>2, OrderOfType, StockCallEffect
<1> QED BY <1>2, <1>3, <1>4

\* ... after the client gave up on it.
LEMMA StrayEffect ==
  ASSUME Stock!TypeOK, OrderTypeOK, NEW m \in stray, ServeStray(m)
  PROVE  /\ m[1] \in Calls /\ m[2] \in Orders
         /\ \E code \in Stock!Codes : RowsEffect(m[1], m[2], code)
         /\ \A x \in Orders \ {m[2]} : rows'[x] = rows[x]
<1>1. m[1] \in Calls /\ m[2] \in Orders
  BY DEF OrderTypeOK
<1> QED BY <1>1, StockCallEffect DEF ServeStray

-----------------------------------------------------------------------------
(* Faults are counted down: one that has happened has happened for good.   *)

SomeFaults == OtherFaults \cup {"db"}

BudgetBound == \A f \in SomeFaults : budget[f] <= Budget[f]

\* No step gives a fault back.
LEMMA FaultsCount ==
  ASSUME OrderTypeOK, OrderTypeOK', BudgetBound, [Next]_vars
  PROVE  /\ BudgetBound'
         /\ \A F \in SUBSET SomeFaults : Happened(F) => Happened(F)'
<1>0. /\ \A f \in SomeFaults : /\ budget[f] \in Nat /\ budget'[f] \in Nat
                               /\ Budget[f] \in Nat /\ budget[f] <= Budget[f]
      /\ SomeFaults = {"call", "crash", "timeout", "db"}
      /\ SomeFaults \subseteq Faults
  BY SagaAssumption DEF OrderTypeOK, BudgetBound, Faults, OtherFaults, SomeFaults
<1>1. \A f \in SomeFaults : budget'[f] <= budget[f]
  <2>1. ASSUME NEW q \in Procs, NEW s, Moves(q, s)
        PROVE  \A f \in SomeFaults : budget'[f] <= budget[f]
    BY <1>0, <2>1 DEF Moves, Kept, OtherFaults
  <2>2. ASSUME NEW f \in SomeFaults, Spend(f) PROVE \A g \in SomeFaults : budget'[g] <= budget[g]
    BY <1>0, <2>2 DEF Spend, OrderTypeOK
  <2>3. UNCHANGED budget => \A f \in SomeFaults : budget'[f] <= budget[f]
    BY <1>0
  <2>4. Cancels => \A f \in SomeFaults : budget'[f] <= budget[f]
    BY <1>0 DEF Cancels, Kept, SomeFaults
  <2>5. ASSUME NEW q \in Procs, Serve(q) \/ Retry(q) \/ CallFails(q)
        PROVE  \A f \in SomeFaults : budget'[f] <= budget[f]
    BY <1>0, <2>2, <2>3, <2>5 DEF Serve, Retry, CallFails
  <2>6. ASSUME NEW r \in Replicas, Crash(r)
        PROVE  \A f \in SomeFaults : budget'[f] <= budget[f]
    BY <1>0, <2>2, <2>6 DEF Crash
  <2>7. ASSUME NEW o \in Orders, ContextEnds(o)
        PROVE  \A f \in SomeFaults : budget'[f] <= budget[f]
    BY <1>0, <2>2, <2>7 DEF ContextEnds
  <2> QED BY <2>1, <2>3, <2>4, <2>5, <2>6, <2>7, StepsOf DEF vars, ServeStray
<1>2. BudgetBound'
  BY <1>0, <1>1 DEF BudgetBound
<1>3. ASSUME NEW F \in SUBSET SomeFaults, Happened(F) PROVE Happened(F)'
  BY <1>0, <1>1, <1>3 DEF Happened
<1> QED BY <1>2, <1>3

\* A step of a fault makes it one that has happened.
LEMMA FaultHappens ==
  ASSUME OrderTypeOK, BudgetBound, NEW f \in SomeFaults, Spend(f)
  PROVE  \A F \in SUBSET SomeFaults : f \in F => Happened(F)'
<1>1. /\ budget[f] \in Nat /\ budget[f] > 0 /\ budget'[f] = budget[f] - 1
      /\ Budget[f] \in Nat /\ budget[f] <= Budget[f]
  BY SagaAssumption DEF OrderTypeOK, BudgetBound, Faults, OtherFaults, SomeFaults, Spend
<1> QED BY <1>1 DEF Happened

\* There are never more faults to come than there were at first.
LEMMA BudgetIsBound == Spec => []BudgetBound
<1>1. Init => BudgetBound
  BY SagaAssumption DEF Init, BudgetBound, SomeFaults, OtherFaults, Faults
<1> QED BY <1>1, FaultsCount, OrderTyped, PTL DEF Spec

-----------------------------------------------------------------------------
(* No stock is held at rest                                                *)

\* Between the OK of its ReserveStock and the answer of the call that settles.
Holding(o) ==
  \/ pc[o] = "reserve" /\ call[o] = "OK"
  \/ pc[o] \in {"setReservation", "paying", "payment", "confirming"}
  \/ pc[o] \in {"confirm", "release"} /\ call[o] = "sent"

\* While calls arrive, contexts last and replicas live, held stock has a
\* handler that will settle it.
HeldIsHandled ==
  /\ stray = {} /\ ended = {}
  /\ \A q \in Procs : call[q] \in Stock!Codes \cup {"none", "sent"}
  /\ \A o \in Orders : rows[o]["RESERVED"] > 0 => Holding(o)

\* Every step but a fault keeps held stock in the hands of a handler.
LEMMA HeldKept ==
  ASSUME Stock!TypeOK, OrderTypeOK, ProcsTyped, BudgetBound, HeldIsHandled,
         Next, ~ Happened(OtherFaults)'
  PROVE  HeldIsHandled'
<1> USE DEF HeldIsHandled
<1>0. /\ Calls = {"reserve", "confirm", "release"} /\ Orders \subseteq Procs
      /\ OtherFaults \subseteq SomeFaults /\ OtherFaults = {"call", "crash", "timeout"}
      /\ Stock!Codes \cap Transient = {} /\ "OK" \in Stock!Codes
      /\ \A o \in Orders : rows[o]["RESERVED"] \in Nat
  BY DEF Calls, Procs, OtherFaults, SomeFaults, Stock!Codes, Transient, Stock!TypeOK, Stock!RowStatus
<1>1. ASSUME NEW q \in Procs, NEW s, Moves(q, s) PROVE HeldIsHandled'
  <2>1. rows' = rows /\ stray' = {} /\ ended' = {}
    BY <1>1 DEF Moves, stock
  <2>2. \A x \in Procs : call'[x] \in Stock!Codes \cup {"none", "sent"}
    BY <1>1, GotoEffect DEF Moves
  <2>3. ASSUME NEW o \in Orders, rows[o]["RESERVED"] > 0 PROVE Holding(o)'
    <3>1. Holding(o)
      BY <2>3
    <3>2. CASE o # q
      BY <1>0, <1>1, <3>1, <3>2, GotoEffect DEF Moves, Holding
    <3>3. CASE o = q
      <4>1. <<pc[o], s>> \in HandlerEdges /\ pc'[o] = s /\ (s \in Calls => call'[o] = "sent")
        BY <1>0, <1>1, <3>3, GotoEffect, SagaAssumption DEF Moves
      <4> QED BY <1>0, <1>1, <3>1, <3>3, <4>1 DEF Moves, Holding, HandlerEdges
    <3> QED BY <3>2, <3>3
  <2> QED BY <2>1, <2>2, <2>3
<1>2. ASSUME NEW q \in Procs, Serve(q) PROVE HeldIsHandled'
  <2>1. /\ \A x \in Procs : call'[x] \in Stock!Codes \cup {"none", "sent"}
        /\ UNCHANGED <<stray, ended, pc>>
    BY <1>2, ServeEffect DEF Serve
  <2>2. ASSUME NEW o \in Orders, rows'[o]["RESERVED"] > 0 PROVE Holding(o)'
    <3>1. CASE o # q
      <4>1. rows[o]["RESERVED"] > 0
        BY <1>0, <1>2, <2>2, <3>1, ServeEffect, OrderOfType DEF RowsEffect, OrderOf, ProcsTyped, ReplicaSteps, Procs
      <4> QED BY <1>0, <1>2, <2>1, <3>1, <4>1, ServeEffect DEF Holding
    <3>2. CASE o = q
      <4>1. OrderOf(q) = o
        BY <3>2 DEF OrderOf
      <4> QED BY <1>0, <1>2, <2>1, <2>2, <3>2, <4>1, ServeEffect DEF Holding, RowsEffect
    <3> QED BY <3>1, <3>2
  <2> QED BY <2>1, <2>2
<1>3. ASSUME NEW q \in Procs, Retry(q) PROVE FALSE
  BY <1>0, <1>3 DEF Retry, MayRetry, Transient
<1>4. ASSUME NEW q \in Procs, CallFails(q) PROVE FALSE
  BY <1>0, <1>4, FaultHappens DEF CallFails
<1>5. ASSUME NEW r \in Replicas, Crash(r) PROVE FALSE
  BY <1>0, <1>5, FaultHappens DEF Crash
<1>6. ASSUME NEW o \in Orders, ContextEnds(o) PROVE FALSE
  BY <1>0, <1>6, FaultHappens DEF ContextEnds
<1>7. CASE Cancels
  BY <1>7 DEF Cancels, stock, control, Holding
<1> QED BY <1>1, <1>2, <1>3, <1>4, <1>5, <1>6, <1>7, StepsOf

\* No stock stays reserved at rest until a call is lost, a context ends or a
\* replica crashes, however many replicas resume sagas whose handlers live.
THEOREM RestHoldsNothing == Spec => []NoStockHeldAtRest
<1> DEFINE IInv == ~ Happened(OtherFaults) => HeldIsHandled
<1>1. Init => IInv
  BY DEF Init, Stock!Init, HeldIsHandled, Stock!RowStatus
<1>2. TypeOK /\ TypeOK' /\ ProcsTyped /\ BudgetBound /\ IInv /\ [Next]_vars => IInv'
  <2> SUFFICES ASSUME TypeOK, TypeOK', ProcsTyped, BudgetBound, IInv, [Next]_vars,
                      ~ Happened(OtherFaults)'
               PROVE  HeldIsHandled'
    OBVIOUS
  <2>1. HeldIsHandled
    BY FaultsCount DEF TypeOK, SomeFaults
  <2>2. CASE UNCHANGED vars
    BY <2>1, <2>2 DEF vars, stock, control, HeldIsHandled, Holding
  <2>3. CASE Next
    BY <2>1, <2>3, HeldKept DEF TypeOK
  <2> QED BY <2>2, <2>3
<1>3. TypeOK /\ IInv => NoStockHeldAtRest
  <2> SUFFICES ASSUME TypeOK, IInv, AtRest, ~ Happened({"call", "timeout", "crash"}), NEW o \in Orders
               PROVE  rows[o]["RESERVED"] = 0
    BY DEF NoStockHeldAtRest
  <2>1. {"call", "timeout", "crash"} = OtherFaults
    BY DEF OtherFaults
  <2>2. ~ Holding(o)
    BY DEF AtRest, Working, Holding
  <2>3. rows[o]["RESERVED"] \in Nat
    BY DEF TypeOK, Stock!TypeOK, Stock!RowStatus
  <2> QED BY <2>1, <2>2, <2>3 DEF HeldIsHandled
<1> QED BY <1>1, <1>2, <1>3, SagaTyped, ProcsAreTyped, BudgetIsBound, PTL DEF Spec

-----------------------------------------------------------------------------
(* Every order's goods are taken at most once, when no call is lost        *)

\* When no call is lost a client gets the answer of the service unless its
\* context ends, and nothing is sent twice.
CallsArrive ==
  /\ budget["call"] = 0
  /\ \A q \in Procs :
       /\ call[q] \in Stock!Codes \cup {"none", "sent", "DeadlineExceeded"}
       /\ call[q] = "DeadlineExceeded" => q \in ended
       /\ tries[q] = 0
  /\ stray \subseteq Calls \X Orders \X {0}

\* No step loses a call when none may be lost.
LEMMA CallsArriveKept ==
  ASSUME OrderTypeOK, CallsArrive, [Next]_vars
  PROVE  CallsArrive'
<1> USE DEF CallsArrive
<1>0. /\ Calls = {"reserve", "confirm", "release"} /\ Orders \subseteq Procs
      /\ Stock!Codes = {"OK", "NotFound", "FailedPrecondition"}
      /\ Transient = {"Unavailable", "DeadlineExceeded"}
      /\ "call" \in OtherFaults /\ "call" \in Faults
  BY DEF Calls, Procs, Stock!Codes, Transient, OtherFaults, Faults
<1>1. ASSUME NEW q \in Procs, NEW s, Moves(q, s) PROVE CallsArrive'
  <2>1. budget'["call"] = 0 /\ stray' = stray /\ ended' = ended
    BY <1>0, <1>1 DEF Moves, Kept
  <2>2. ASSUME NEW x \in Procs
        PROVE  /\ call'[x] \in Stock!Codes \cup {"none", "sent", "DeadlineExceeded"}
               /\ call'[x] = "DeadlineExceeded" => x \in ended
               /\ tries'[x] = 0
    BY <1>1, GotoEffect DEF Moves
  <2> QED BY <2>1, <2>2
<1>2. ASSUME NEW q \in Procs, Serve(q) PROVE CallsArrive'
  BY <1>0, <1>2, ServeEffect DEF Serve
<1>3. ASSUME NEW q \in Procs, Retry(q) PROVE FALSE
  BY <1>0, <1>3 DEF Retry, MayRetry
<1>4. ASSUME NEW q \in Procs, CallFails(q) PROVE FALSE
  BY <1>0, <1>4 DEF CallFails, Spend
<1>5. ASSUME NEW m \in stray, ServeStray(m) PROVE CallsArrive'
  BY <1>5 DEF ServeStray, control
<1>6. ASSUME NEW x \in InFlight PROVE Request(x) \in Calls \X Orders \X {0}
  BY <1>6, OrderOfType DEF InFlight, Request
<1>7. ASSUME NEW r \in Replicas, Crash(r) PROVE CallsArrive'
  <2>1. budget'["call"] = 0 /\ ended' = ended
    BY <1>0, <1>7 DEF Crash, Spend, OrderTypeOK
  <2>2. \A x \in Procs : call'[x] \in {call[x], "none"} /\ tries'[x] \in {tries[x], 0}
    BY <1>7 DEF Crash
  <2>3. stray' \subseteq Calls \X Orders \X {0}
    BY <1>6, <1>7 DEF Crash
  <2> QED BY <2>1, <2>2, <2>3
<1>8. ASSUME NEW o \in Orders, ContextEnds(o) PROVE CallsArrive'
  <2>1. budget'["call"] = 0 /\ ended' = ended \cup {o} /\ tries' = tries
    BY <1>0, <1>8 DEF ContextEnds, Spend, OrderTypeOK
  <2>2. \A x \in Procs : call'[x] = call[x] \/ (x = o /\ call'[x] = "DeadlineExceeded")
    BY <1>8 DEF ContextEnds, OrderTypeOK
  <2>3. stray' \subseteq Calls \X Orders \X {0}
    BY <1>6, <1>8 DEF ContextEnds
  <2> QED BY <2>1, <2>2, <2>3
<1>9. CASE Cancels
  BY <1>0, <1>9 DEF Cancels, control, Kept
<1>10. CASE UNCHANGED vars
  BY <1>10 DEF vars, control
<1> QED BY <1>1, <1>2, <1>3, <1>4, <1>5, <1>7, <1>8, <1>9, <1>10, StepsOf

\* Hence calls arrive in every behaviour without lost calls.
LEMMA CallsDoArrive ==
  ASSUME Budget["call"] = 0
  PROVE  Spec => []CallsArrive
<1>1. Init => CallsArrive
  BY DEF Init, CallsArrive
<1> QED BY <1>1, CallsArriveKept, OrderTyped, PTL DEF Spec

\* The batches of an order in any status.
Batches(o) == rows[o]["RESERVED"] + rows[o]["RELEASED"] + rows[o]["DECREMENTED"]

\* A handler may still reserve; its request to reserve is on its way alone.
Before(o) == \/ pc[o] \in {"idle", "createSaga", "reserving"}
             \/ pc[o] = "reserve" /\ call[o] = "sent"
Straying(o) == \E m \in stray : m[1] = "reserve" /\ m[2] = o

ReservesOnce ==
  \A o \in Orders :
     /\ Batches(o) <= 1
     /\ Before(o) \/ Straying(o) => Batches(o) = 0
     /\ ~ (Before(o) /\ Straying(o))

\* Settling keeps the number of batches.
LEMMA BatchesEffect ==
  ASSUME Stock!TypeOK, NEW s, NEW o \in Orders, NEW code, RowsEffect(s, o, code)
  PROVE  \/ Batches(o)' = Batches(o)
         \/ s = "reserve" /\ code = "OK" /\ Batches(o)' = Batches(o) + 1
<1>1. \A st \in Stock!RowStatus : rows[o][st] \in Nat
  BY DEF Stock!TypeOK
<1> QED BY <1>1 DEF RowsEffect, Batches, Stock!RowStatus

\* A second reservation would need a second request: no step makes one.
LEMMA ReservesOnceKept ==
  ASSUME Stock!TypeOK, OrderTypeOK, ProcsTyped, CallsArrive, ReservesOnce, [Next]_vars
  PROVE  ReservesOnce'
<1> USE DEF ReservesOnce
<1>0. /\ Calls = {"reserve", "confirm", "release"} /\ Procs = Orders \cup Replicas
      /\ Orders \cap Replicas = {}
      /\ Stock!Codes = {"OK", "NotFound", "FailedPrecondition"}
      /\ \A r \in Replicas : pc[r] # "reserve"
      /\ \A o \in Orders : Batches(o) \in Nat
  BY SagaAssumption DEF Calls, Procs, Stock!Codes, ProcsTyped, ReplicaSteps,
                        Batches, Stock!TypeOK, Stock!RowStatus
<1>1. ASSUME NEW q \in Procs, NEW s, Moves(q, s) PROVE ReservesOnce'
  <2>1. rows' = rows /\ stray' = stray
    BY <1>1 DEF Moves, stock
  <2>2. ASSUME NEW o \in Orders, Before(o)' PROVE Before(o)
    <3>1. CASE o # q
      BY <1>0, <1>1, <2>2, <3>1, GotoEffect DEF Moves, Before
    <3>2. CASE o = q
      <4>1. <<pc[o], pc'[o]>> \in HandlerEdges
        BY <1>0, <1>1, <3>2, GotoEffect DEF Moves
      <4> QED BY <2>2, <4>1 DEF Before, HandlerEdges
    <3> QED BY <3>1, <3>2
  <2> QED BY <2>1, <2>2 DEF Batches, Straying
<1>2. ASSUME NEW q \in Procs, Serve(q) PROVE ReservesOnce'
  <2>1. PICK code \in Stock!Codes : RowsEffect(pc[q], OrderOf(q), code) /\ call'[q] = code
    BY <1>2, ServeEffect
  <2>2. /\ pc[q] \in Calls /\ call[q] = "sent" /\ pc' = pc /\ stray' = stray
        /\ \A x \in Orders \ {OrderOf(q)} : rows'[x] = rows[x]
        /\ \A x \in Procs \ {q} : call'[x] = call[x]
    BY <1>2, ServeEffect DEF Serve
  <2>3. ASSUME NEW o \in Orders, Before(o)' PROVE Before(o) /\ o # q
    BY <1>0, <2>1, <2>2, <2>3 DEF Before
  <2>4. ASSUME NEW o \in Orders, Batches(o)' # Batches(o)
        PROVE  o = q /\ pc[q] = "reserve" /\ Batches(o)' = Batches(o) + 1
    <3>1. o = OrderOf(q)
      BY <2>2, <2>4 DEF Batches
    <3>2. pc[q] = "reserve" /\ Batches(o)' = Batches(o) + 1
      BY <2>1, <2>4, <3>1, BatchesEffect
    <3> QED BY <1>0, <3>1, <3>2 DEF OrderOf
  <2> QED BY <1>0, <2>2, <2>3, <2>4 DEF Before, Straying
<1>3. ASSUME NEW q \in Procs, Retry(q) \/ CallFails(q) PROVE FALSE
  BY <1>3 DEF Retry, MayRetry, CallFails, Spend, CallsArrive, Transient, Stock!Codes
<1>4. ASSUME NEW m \in stray, ServeStray(m) PROVE ReservesOnce'
  <2>1. pc' = pc /\ call' = call /\ stray' = stray \ {m}
    BY <1>4 DEF ServeStray, control
  <2>2. PICK code \in Stock!Codes : RowsEffect(m[1], m[2], code)
    BY <1>4, StrayEffect
  <2>3. ASSUME NEW o \in Orders, Batches(o)' # Batches(o)
        PROVE  o = m[2] /\ m[1] = "reserve" /\ Batches(o)' = Batches(o) + 1
    <3>1. o = m[2]
      BY <1>4, <2>3, StrayEffect DEF Batches
    <3> QED BY <2>2, <2>3, <3>1, BatchesEffect
  <2>4. ASSUME NEW o \in Orders, o = m[2], m[1] = "reserve" PROVE ~ Straying(o)'
    <3>1. ASSUME NEW x \in stray, x[1] = "reserve", x[2] = o PROVE x = m
      BY <2>4, <3>1 DEF CallsArrive
    <3> QED BY <2>1, <3>1 DEF Straying
  <2>5. \A o \in Orders : (Before(o)' => Before(o)) /\ (Straying(o)' => Straying(o))
    BY <2>1 DEF Before, Straying
  <2>6. ASSUME NEW o \in Orders, o = m[2], m[1] = "reserve" PROVE Straying(o)
    BY <2>6 DEF Straying
  <2> QED BY <1>0, <2>3, <2>4, <2>5, <2>6
<1>5. ASSUME rows' = rows,
             \A o \in Orders : Before(o)' => Before(o),
             \A o \in Orders : Straying(o)' => Straying(o) \/ (Before(o) /\ ~ Before(o)')
      PROVE  ReservesOnce'
  BY <1>5 DEF Batches
<1>6. ASSUME NEW x \in InFlight, NEW o \in Orders, Request(x)[1] = "reserve", Request(x)[2] = o
      PROVE  x = o /\ pc[o] = "reserve" /\ Before(o)
  BY <1>0, <1>6 DEF InFlight, Request, OrderOf, Before
<1>7. ASSUME NEW r \in Replicas, Crash(r) PROVE ReservesOnce'
  <2>1. ASSUME NEW o \in Orders
        PROVE  /\ Before(o)' => Before(o)
               /\ o \in Victims(r) => ~ Before(o)'
    BY <1>0, <1>7 DEF Crash, Before
  <2>2. ASSUME NEW o \in Orders, Straying(o)'
        PROVE  Straying(o) \/ (Before(o) /\ ~ Before(o)')
    <3>1. PICK lost \in SUBSET (Victims(r) \cap InFlight) : stray' = stray \cup {Request(q) : q \in lost}
      BY <1>7 DEF Crash
    <3>2. PICK m \in stray' : m[1] = "reserve" /\ m[2] = o
      BY <2>2 DEF Straying
    <3>3. CASE m \in stray
      BY <3>2, <3>3 DEF Straying
    <3>4. ASSUME NEW x \in lost, m = Request(x) PROVE Before(o) /\ ~ Before(o)'
      BY <1>6, <2>1, <3>2, <3>4
    <3> QED BY <3>1, <3>3, <3>4
  <2>3. rows' = rows
    BY <1>7 DEF Crash, stock
  <2> QED BY <1>5, <2>1, <2>2, <2>3
<1>8. ASSUME NEW c \in Orders, ContextEnds(c) PROVE ReservesOnce'
  <2>1. /\ rows' = rows /\ pc' = pc
        /\ pc[c] \in Calls => call'[c] = "DeadlineExceeded"
        /\ \A x \in Procs : call'[x] \in {call[x], "DeadlineExceeded"}
    BY <1>0, <1>8 DEF ContextEnds, stock, OrderTypeOK
  <2>2. \A o \in Orders : Before(o)' => Before(o)
    BY <1>0, <2>1 DEF Before
  <2>3. ASSUME NEW o \in Orders, Straying(o)'
        PROVE  Straying(o) \/ (Before(o) /\ ~ Before(o)')
    <3>1. PICK m \in stray' : m[1] = "reserve" /\ m[2] = o
      BY <2>3 DEF Straying
    <3>2. CASE m \in stray
      BY <3>1, <3>2 DEF Straying
    <3>3. CASE c \in InFlight /\ m = Request(c)
      BY <1>0, <1>6, <2>1, <3>1, <3>3 DEF Before
    <3> QED BY <1>8, <3>1, <3>2, <3>3 DEF ContextEnds
  <2> QED BY <1>5, <2>1, <2>2, <2>3
<1>9. CASE Cancels \/ UNCHANGED vars
  BY <1>9 DEF Cancels, vars, stock, control, Batches, Before, Straying
<1> QED BY <1>1, <1>2, <1>3, <1>4, <1>7, <1>8, <1>9, StepsOf

\* Hence no order reserves twice.
LEMMA ReservesAtMostOnce ==
  ASSUME Budget["call"] = 0
  PROVE  Spec => []ReservesOnce
<1>1. Init => ReservesOnce
  BY DEF Init, Stock!Init, Stock!RowStatus, ReservesOnce, Batches, Straying
<1> QED BY <1>1, ReservesOnceKept, CallsDoArrive, SagaTyped, ProcsAreTyped, PTL DEF Spec, TypeOK

\* What a call that is executed does to the goods: it takes them, sells them,
\* returns them, or nothing.
LEMMA GoodsEffect ==
  ASSUME Stock!TypeOK, ReservesOnce, NEW s, NEW o \in Orders, NEW code \in Stock!Codes,
         StockCall(s, o, code), s = "reserve" => Batches(o) = 0
  PROVE  Goods!Next \/ UNCHANGED <<available, reserved, rows>>
<1> DEFINE FreeStock == [p \in Products |-> Stock!Free(p)]
           Need(p) == Stock!Quantity(o, p)
<1>1. /\ \A st \in Stock!RowStatus : rows[o][st] \in Nat
      /\ Stock!RowStatus = {"RESERVED", "RELEASED", "DECREMENTED"}
      /\ Batches(o) <= 1
      /\ rows \in [Orders -> [Stock!RowStatus -> Nat]]
      /\ \A p \in Products : available[p] \in Int /\ reserved[p] \in Int /\ Need(p) \in Nat
  BY SagaAssumption DEF Stock!TypeOK, Stock!RowStatus, ReservesOnce, Stock!Quantity, Stock!StockConstants
<1>2. CASE s = "reserve" /\ code = "OK" /\ Stock!ReserveStock(o, code)
  <2>1. /\ rows[o]["RESERVED"] = 0 /\ rows[o]["RELEASED"] = 0 /\ rows[o]["DECREMENTED"] = 0
    BY <1>1, <1>2 DEF Batches
  <2>2. /\ Stock!Enough(o) /\ available' = available
        /\ reserved' = [p \in Products |-> reserved[p] + Need(p)]
        /\ rows' = [rows EXCEPT ![o]["RESERVED"] = @ + 1]
    BY <1>2 DEF Stock!ReserveStock, Stock!Reserve, Stock!Codes
  <2>3. Phase[o] = "new" /\ Phase' = [Phase EXCEPT ![o] = "held"]
    <3>1. /\ rows'[o]["RESERVED"] = 1 /\ rows'[o]["DECREMENTED"] = 0
          /\ \A x \in Orders \ {o} : rows'[x] = rows[x]
      BY <1>1, <2>1, <2>2
    <3>2. Phase'[o] = "held" /\ \A x \in Orders \ {o} : Phase'[x] = Phase[x]
      BY <3>1 DEF Phase
    <3>3. Phase = [x \in Orders |-> Phase[x]] /\ Phase' = [x \in Orders |-> Phase'[x]] /\ Phase[o] = "new"
      BY <2>1 DEF Phase
    <3> QED BY <3>2, <3>3
  <2>4. FreeStock' = [p \in Products |-> FreeStock[p] - Need(p)]
    BY <1>1, <2>2 DEF Stock!Free
  <2>5. \A p \in Products : Need(p) <= FreeStock[p]
    BY <2>2 DEF Stock!Enough, Stock!Free
  <2> QED BY <2>3, <2>4, <2>5 DEF Goods!Next, Goods!Take
<1>3. CASE s \in {"confirm", "release"} /\ rows[o]["RESERVED"] > 0
  <2>1. /\ rows[o]["RESERVED"] = 1 /\ rows[o]["RELEASED"] = 0 /\ rows[o]["DECREMENTED"] = 0
    BY <1>1, <1>3 DEF Batches
  <2>2. \A p \in Products : Stock!Held(o, p) = Need(p)
    <3>1. \A n \in Nat : 1 * n = n
      OBVIOUS
    <3> QED BY <1>1, <2>1, <3>1 DEF Stock!Held
  <2>3. Phase[o] = "held"
    BY <1>1, <2>1 DEF Phase
  <2>4. CASE s = "release"
    <3>1. /\ reserved' = [p \in Products |-> reserved[p] - Stock!Held(o, p)]
          /\ available' = available
          /\ rows' = [rows EXCEPT ![o]["RESERVED"] = 0,
                                  ![o]["RELEASED"] = @ + rows[o]["RESERVED"]]
      BY <1>3, <2>4 DEF StockCall, Stock!ReleaseStock, Stock!MoveRows, Stock!NothingReserved
    <3>2. Phase' = [Phase EXCEPT ![o] = "returned"]
      BY <1>1, <2>1, <3>1 DEF Phase
    <3>3. FreeStock' = [p \in Products |-> FreeStock[p] + Need(p)]
      BY <1>1, <2>2, <3>1 DEF Stock!Free
    <3> QED BY <2>3, <3>2, <3>3 DEF Goods!Next, Goods!Return
  <2>5. CASE s = "confirm"
    <3>1. /\ reserved' = [p \in Products |-> reserved[p] - Stock!Held(o, p)]
          /\ available' = [p \in Products |-> available[p] - Stock!Held(o, p)]
          /\ rows' = [rows EXCEPT ![o]["RESERVED"] = 0,
                                  ![o]["DECREMENTED"] = @ + rows[o]["RESERVED"]]
      BY <1>3, <2>5 DEF StockCall, Stock!DecrementStock, Stock!MoveRows, Stock!NothingReserved
    <3>2. Phase' = [Phase EXCEPT ![o] = "sold"]
      BY <1>1, <2>1, <3>1 DEF Phase
    <3>3. FreeStock' = FreeStock
      BY <1>1, <2>2, <3>1 DEF Stock!Free
    <3> QED BY <2>3, <3>2, <3>3 DEF Goods!Next, Goods!Sell
  <2> QED BY <1>3, <2>4, <2>5
<1>4. CASE s \in {"confirm", "release"} /\ ~ (rows[o]["RESERVED"] > 0)
  BY <1>4 DEF StockCall, Stock!DecrementStock, Stock!ReleaseStock, Stock!NothingReserved
<1>5. CASE s = "reserve" /\ code # "OK" /\ Stock!ReserveStock(o, code)
  BY <1>5 DEF Stock!ReserveStock
<1> QED BY <1>2, <1>3, <1>4, <1>5 DEF StockCall

\* With any number of replicas that crash, contexts that end and writes that
\* are lost, but no lost call, the services implement Checkout: an order's
\* goods are taken all together, once, and then sold or returned at most once.
THEOREM GoodsTakenOnce ==
  ASSUME Budget["call"] = 0
  PROVE  Spec => TakesGoodsOnce
<1>1. Init => Goods!Init
  <2> SUFFICES ASSUME Init PROVE Goods!Init
    OBVIOUS
  <2>1. Phase = [o \in Orders |-> "new"]
    BY DEF Init, Stock!Init, Stock!RowStatus, Phase
  <2>2. InitialStock \in [Products -> Nat]
    BY SagaAssumption DEF Stock!StockConstants
  <2>3. \A p \in Products : Stock!Free(p) = InitialStock[p]
    <3>1. \A p \in Products : available[p] = InitialStock[p] /\ reserved[p] = 0
      BY DEF Init, Stock!Init
    <3>2. \A n \in Nat : n - 0 = n
      OBVIOUS
    <3> QED BY <2>2, <3>1, <3>2 DEF Stock!Free
  <2> QED BY <2>1, <2>2, <2>3 DEF Goods!Init
<1>2. TypeOK /\ ProcsTyped /\ ReservesOnce /\ [Next]_vars => [Goods!Next]_(Goods!vars)
  <2> SUFFICES ASSUME TypeOK, ProcsTyped, ReservesOnce, [Next]_vars
               PROVE  Goods!Next \/ UNCHANGED <<available, reserved, rows>>
    BY DEF Goods!vars, Phase, Stock!Free
  <2> USE DEF TypeOK
  <2>1. ASSUME NEW q \in Procs, Serve(q)
        PROVE  Goods!Next \/ UNCHANGED <<available, reserved, rows>>
    <3>1. pc[q] \in Calls /\ call[q] = "sent" /\ OrderOf(q) \in Orders
      BY <2>1, ServeEffect, OrderOfType
    <3>2. pc[q] = "reserve" => Batches(OrderOf(q)) = 0
      BY <3>1 DEF ReservesOnce, Before, OrderOf, ProcsTyped, ReplicaSteps, Procs
    <3> QED BY <2>1, <3>1, <3>2, GoodsEffect DEF Serve
  <2>2. ASSUME NEW m \in stray, ServeStray(m)
        PROVE  Goods!Next \/ UNCHANGED <<available, reserved, rows>>
    <3>1. m[2] \in Orders /\ (m[1] = "reserve" => Batches(m[2]) = 0)
      BY <2>2, StrayEffect DEF ReservesOnce, Straying
    <3> QED BY <2>2, <3>1, GoodsEffect DEF ServeStray
  <2>3. CASE UNCHANGED stock
    BY <2>3 DEF stock
  <2> QED BY <2>1, <2>2, <2>3, StepsOf DEF vars, Moves, Retry, CallFails, Crash, ContextEnds, Cancels
<1> QED BY <1>1, <1>2, SagaTyped, ProcsAreTyped, ReservesAtMostOnce, PTL
        DEF Spec, TakesGoodsOnce, Goods!SafeSpec
-----------------------------------------------------------------------------
(* One replica: handlers and Resume never work at the same time, and only  *)
(* one process works on a saga in progress.                                *)

SingleReplica == \A r, s \in Replicas : r = s

\* The steps of a handler that has inserted its saga and not finished it.
Started(o) == pc[o] \in HandlerSteps \ {"idle", "createSaga", "publish", "failOrder", "done", "dead"}

HandlersServed == \A o \in Orders, r \in Replicas : Working(o) => pc[r] = "serving"

HandlerSagas ==
  \A o \in Orders : /\ pc[o] \in {"idle", "createSaga"} => saga[o].status = "NONE"
                    /\ Started(o) => saga[o].status = "IN_PROGRESS"

ReplicaSagas ==
  \A r \in Replicas :
     /\ pc[r] \in {"down", "serving"} => todo[r] = {}
     /\ \A t \in todo[r] : saga[t.order].status = "IN_PROGRESS" /\ saga[t.order].rid = t.rid
     /\ pc[r] \in {"release", "failSaga"} =>
          /\ saga[work[r]].status = "IN_PROGRESS"
          /\ \A t \in todo[r] : t.order # work[r]

OneAtATime == HandlersServed /\ HandlerSagas /\ ReplicaSagas

\* A handler moves while no replica starts, and keeps to its own saga.
LEMMA HandlerMovesAlone ==
  ASSUME SingleReplica, OrderTypeOK, ProcsTyped, OneAtATime,
         NEW o \in Orders, NEW s, Moves(o, s)
  PROVE  OneAtATime'
<1>0. /\ o \in Procs /\ OrderOf(o) = o /\ o \notin Replicas
      /\ Procs = Orders \cup Replicas
      /\ <<pc[o], s>> \in HandlerEdges
      /\ Calls = {"reserve", "confirm", "release"}
  BY SagaAssumption DEF Procs, OrderOf, Moves, Calls
<1>1. /\ pc'[o] = s
      /\ \A x \in Procs \ {o} : pc'[x] = pc[x]
      /\ \A x \in Orders \ {o} : saga'[x] = saga[x]
  BY <1>0, GotoEffect DEF Moves, SagaWrite
<1>2. \A r \in Replicas : pc[r] = "serving" /\ pc'[r] = "serving"
  <2>1. CASE pc[o] = "idle"
    BY <1>0, <1>1, <2>1 DEF SingleReplica, Moves
  <2>2. CASE pc[o] # "idle"
    <3>1. Working(o)
      BY <1>0, <2>2 DEF Working, HandlerEdges
    <3> QED BY <1>0, <1>1, <3>1 DEF OneAtATime, HandlersServed
  <2> QED BY <2>1, <2>2
<1>3. HandlersServed'
  BY <1>2 DEF HandlersServed
<1>4. HandlerSagas'
  <2>1. ASSUME NEW x \in Orders \ {o}
        PROVE  /\ pc'[x] \in {"idle", "createSaga"} => saga'[x].status = "NONE"
               /\ Started(x)' => saga'[x].status = "IN_PROGRESS"
    BY <1>0, <1>1 DEF OneAtATime, HandlerSagas, Started
  <2>2. /\ s \in {"idle", "createSaga"} => saga'[o].status = "NONE"
        /\ Started(o)' => saga'[o].status = "IN_PROGRESS"
    <3>1. CASE pc[o] \in {"idle", "createSaga"}
      BY <1>0, <1>1, <3>1 DEF OneAtATime, HandlerSagas, Started, Moves, SagaWrite, HandlerEdges, HandlerSteps
    <3>2. CASE pc[o] \notin {"idle", "createSaga"} /\ Started(o)'
      <4>1. Started(o)
        BY <1>0, <1>1, <3>2 DEF Started, HandlerEdges, HandlerSteps
      <4>2. pc[o] \notin {"completeSaga", "failSaga"}
        BY <1>0, <1>1, <3>2 DEF Started, HandlerEdges, HandlerSteps
      <4> QED BY <1>0, <1>1, <3>2, <4>1, <4>2 DEF OneAtATime, HandlerSagas, Moves, SagaWrite, HandlerEdges
    <3>3. CASE pc[o] \notin {"idle", "createSaga"} /\ ~ Started(o)'
      BY <1>0, <1>1, <3>3 DEF HandlerEdges
    <3> QED BY <3>1, <3>2, <3>3
  <2> QED BY <1>1, <2>1, <2>2 DEF HandlerSagas
<1>5. ReplicaSagas'
  <2>1. todo' = todo
    BY <1>0 DEF Moves, ListWrite, HandlerEdges
  <2> QED BY <1>2, <2>1 DEF OneAtATime, ReplicaSagas
<1> QED BY <1>3, <1>4, <1>5 DEF OneAtATime

\* A replica that starts moves while no handler works.
LEMMA ReplicaMovesAlone ==
  ASSUME SingleReplica, OrderTypeOK, ProcsTyped, OneAtATime,
         NEW r \in Replicas, NEW s, Moves(r, s)
  PROVE  OneAtATime'
<1>0. /\ r \in Procs /\ OrderOf(r) = work[r] /\ r \notin Orders /\ work[r] \in Orders
      /\ Procs = Orders \cup Replicas
      /\ <<pc[r], s>> \in ReplicaEdges
      /\ todo[r] \subseteq [order : Orders, rid : BOOLEAN]
      /\ \A x \in Replicas : x = r
      /\ Calls = {"reserve", "confirm", "release"}
  BY SagaAssumption DEF Procs, OrderOf, Moves, OrderTypeOK, SingleReplica, Calls
<1>1. /\ pc'[r] = s
      /\ \A x \in Orders : pc'[x] = pc[x]
      /\ \A x \in Orders \ {work[r]} : saga'[x] = saga[x]
      /\ pc[r] # "failSaga" => saga' = saga
  BY <1>0, GotoEffect DEF Moves, SagaWrite, ReplicaEdges
<1>2. \A o \in Orders : ~ Working(o) /\ ~ Working(o)'
  BY <1>0, <1>1 DEF OneAtATime, HandlersServed, Working, ReplicaEdges
<1>3. HandlersServed'
  BY <1>2 DEF HandlersServed
<1>4. HandlerSagas'
  <2>1. ASSUME NEW o \in Orders, pc'[o] \in {"idle", "createSaga"} PROVE saga'[o].status = "NONE"
    <3>1. saga[o].status = "NONE"
      BY <1>1, <2>1 DEF OneAtATime, HandlerSagas
    <3>2. CASE pc[r] = "failSaga"
      BY <1>0, <1>1, <3>1, <3>2 DEF OneAtATime, ReplicaSagas
    <3> QED BY <1>1, <3>1, <3>2
  <2>2. \A o \in Orders : ~ Started(o)'
    BY <1>2 DEF Started, Working
  <2> QED BY <2>1, <2>2 DEF HandlerSagas
<1>5. ReplicaSagas'
  <2> SUFFICES /\ s \in {"down", "serving"} => todo'[r] = {}
               /\ \A t \in todo'[r] : saga'[t.order].status = "IN_PROGRESS" /\ saga'[t.order].rid = t.rid
               /\ s \in {"release", "failSaga"} =>
                    /\ saga'[work'[r]].status = "IN_PROGRESS"
                    /\ \A t \in todo'[r] : t.order # work'[r]
    BY <1>0, <1>1 DEF ReplicaSagas
  <2>1. CASE pc[r] = "down"
    <3>1. CASE s = "resume"
      <4>1. todo'[r] = Unfinished
        BY <1>0, <2>1, <3>1 DEF Moves, ListWrite, OrderTypeOK
      <4> QED BY <1>1, <2>1, <3>1, <4>1 DEF Unfinished, InProgress
    <3>2. CASE s # "resume"
      <4>1. todo' = todo /\ todo[r] = {} /\ s = "serving"
        BY <1>0, <2>1, <3>2 DEF Moves, ListWrite, ReplicaEdges, OneAtATime, ReplicaSagas
      <4> QED BY <4>1
    <3> QED BY <3>1, <3>2
  <2>2. CASE pc[r] = "resume" /\ s = "serving"
    BY <2>2 DEF Moves, ListWrite
  <2>3. CASE pc[r] = "resume" /\ s # "serving"
    <3>1. PICK t \in todo[r] : /\ todo' = [todo EXCEPT ![r] = @ \ {t}]
                               /\ work' = [work EXCEPT ![r] = t.order]
      BY <2>3 DEF Moves, ListWrite
    <3>2. todo'[r] = todo[r] \ {t} /\ work'[r] = t.order /\ saga' = saga
      BY <1>1, <2>3, <3>1 DEF OrderTypeOK
    <3>3. \A u \in todo[r] : saga[u.order].status = "IN_PROGRESS" /\ saga[u.order].rid = u.rid
      BY DEF OneAtATime, ReplicaSagas
    <3>4. \A u \in todo[r] \ {t} : u.order # t.order
      BY <1>0, <3>3
    <3>5. s \notin {"down", "serving"}
      BY <1>0, <2>3 DEF ReplicaEdges
    <3> QED BY <3>2, <3>3, <3>4, <3>5
  <2>4. CASE pc[r] = "release"
    <3>1. todo' = todo /\ work' = work /\ saga' = saga /\ s = "failSaga"
      BY <1>0, <1>1, <2>4 DEF Moves, ListWrite, ReplicaEdges
    <3> QED BY <2>4, <3>1 DEF OneAtATime, ReplicaSagas
  <2>5. CASE pc[r] = "failSaga"
    <3>1. todo' = todo /\ s = "failOrder"
      BY <1>0, <2>5 DEF Moves, ListWrite, ReplicaEdges
    <3> QED BY <1>0, <1>1, <2>5, <3>1 DEF OneAtATime, ReplicaSagas
  <2>6. CASE pc[r] = "failOrder"
    <3>1. todo' = todo /\ saga' = saga /\ s = "resume"
      BY <1>0, <1>1, <2>6 DEF Moves, ListWrite, ReplicaEdges
    <3> QED BY <3>1 DEF OneAtATime, ReplicaSagas
  <2> QED BY <1>0, <2>1, <2>2, <2>3, <2>4, <2>5, <2>6 DEF ReplicaEdges
<1> QED BY <1>3, <1>4, <1>5 DEF OneAtATime

\* A crash of the only replica takes all handlers with it.
LEMMA OneAtATimeKept ==
  ASSUME SingleReplica, OrderTypeOK, ProcsTyped, OneAtATime, [Next]_vars
  PROVE  OneAtATime'
<1>1. ASSUME NEW q \in Procs, NEW s, Moves(q, s) PROVE OneAtATime'
  BY <1>1, HandlerMovesAlone, ReplicaMovesAlone DEF Procs
<1>2. ASSUME NEW r \in Replicas, Crash(r) PROVE OneAtATime'
  <2>1. ASSUME NEW o \in Orders PROVE ~ Working(o)' /\ pc'[o] \in {pc[o], "dead"}
    <3>1. o \in Procs /\ o # r /\ home[o] = r
      BY SagaAssumption DEF Procs, OrderTypeOK, SingleReplica
    <3> QED BY <1>2, <3>1 DEF Crash, Victims, Working
  <2>2. saga' = saga /\ \A x \in Replicas : todo'[x] = {} /\ pc'[x] = "down"
    BY <1>2 DEF Crash, SingleReplica, OrderTypeOK, Procs
  <2>3. \A o \in Orders : ~ Started(o)'
    BY <2>1 DEF Started, Working
  <2> QED BY <2>1, <2>2, <2>3 DEF OneAtATime, HandlersServed, HandlerSagas, ReplicaSagas
<1>3. CASE UNCHANGED <<pc, saga, todo, work>>
  BY <1>3 DEF OneAtATime, HandlersServed, HandlerSagas, ReplicaSagas, Working, Started
<1> QED BY <1>1, <1>2, <1>3, StepsOf
        DEF vars, control, Serve, Retry, CallFails, ServeStray, ContextEnds, Cancels

\* Hence with one replica a saga in progress has one process at a time.
LEMMA SagasAreHandledOnce ==
  ASSUME SingleReplica
  PROVE  Spec => []OneAtATime
<1>1. Init => OneAtATime
  BY SagaAssumption DEF Init, Procs, Working, Started, OneAtATime, HandlersServed, HandlerSagas, ReplicaSagas
<1> QED BY <1>1, OneAtATimeKept, OrderTyped, ProcsAreTyped, PTL DEF Spec

\* With one replica a saga that has completed or failed keeps that outcome,
\* whatever fails: neither its handler nor a Resume after a crash writes the
\* status of a saga that is not in progress.
THEOREM OutcomesAreFinal ==
  ASSUME SingleReplica
  PROVE  Spec => SagaOutcomeIsFinal
<1>1. ASSUME TypeOK, ProcsTyped, OneAtATime, [Next]_vars, NEW o \in Orders,
             saga[o].status \in {"COMPLETED", "FAILED"}
      PROVE  saga'[o].status = saga[o].status
  <2>1. ASSUME NEW q \in Procs, NEW s, Moves(q, s) PROVE saga'[o] = saga[o] \/ pc[q] = "setReservation"
    <3>1. CASE OrderOf(q) # o
      BY <2>1, <3>1 DEF Moves, SagaWrite
    <3>2. CASE OrderOf(q) = o /\ q \in Orders
      <4>1. ~ Started(o) /\ q = o
        BY <1>1, <3>2 DEF OneAtATime, HandlerSagas, OrderOf
      <4> QED BY <1>1, <2>1, <3>2, <4>1 DEF Moves, SagaWrite, Started, HandlerSteps
    <3>3. CASE OrderOf(q) = o /\ q \notin Orders
      <4>1. q \in Replicas /\ o = work[q] /\ pc[q] \notin {"createSaga", "completeSaga", "failSaga"}
        BY <1>1, <3>3 DEF OneAtATime, ReplicaSagas, OrderOf, Procs, ProcsTyped, ReplicaSteps
      <4> QED BY <1>1, <2>1, <3>3, <4>1 DEF Moves, SagaWrite
    <3> QED BY <3>1, <3>2, <3>3
  <2>2. ASSUME NEW q \in Procs, NEW s, Moves(q, s), pc[q] = "setReservation"
        PROVE  saga'[o].status = saga[o].status
    BY <1>1, <2>2, OrderOfType DEF Moves, SagaWrite
  <2> QED BY <1>1, <2>1, <2>2, StepsOf
          DEF TypeOK, vars, Serve, Retry, CallFails, ServeStray, Crash, ContextEnds, Cancels
<1>2. TypeOK /\ ProcsTyped /\ OneAtATime /\ [Next]_vars
        => [\A o \in Orders : saga[o].status \in {"COMPLETED", "FAILED"}
                                => saga'[o].status = saga[o].status]_vars
  BY <1>1
<1> QED BY <1>2, SagaTyped, ProcsAreTyped, SagasAreHandledOnce, PTL DEF Spec, SagaOutcomeIsFinal
-----------------------------------------------------------------------------
(* No saga in progress is left behind by a restart                         *)

\* A write that is lost while the contexts last is a fault that has happened.
LEMMA NothingLost ==
  ASSUME OrderTypeOK, OrderTypeOK', BudgetBound, ended = {}, ~ Happened({"db"})', NEW q
  PROVE  ~ LostWrite(q)
<1>1. /\ budget["db"] \in Nat /\ budget'["db"] \in Nat /\ Budget["db"] \in Nat
      /\ budget["db"] <= Budget["db"]
  BY SagaAssumption DEF OrderTypeOK, BudgetBound, SomeFaults, Faults
<1> QED BY <1>1 DEF LostWrite, Happened

\* A saga in progress has a handler that runs, or a replica that starts has
\* it on its list or in its hands.
Attended(o, r) ==
  \/ Working(o) \/ pc[r] = "down"
  \/ \E t \in todo[r] : t.order = o
  \/ pc[r] \in {"release", "failSaga"} /\ work[r] = o

AllAttended ==
  /\ ended = {}
  /\ \A o \in Orders : pc[o] \in {"publish", "failOrder"} => saga[o].status # "IN_PROGRESS"
  /\ \A o \in InProgress, r \in Replicas : Attended(o, r)

\* A handler that goes on leaves its saga only when it is finished.
LEMMA HandlerAttends ==
  ASSUME OrderTypeOK, AllAttended, NEW q \in Orders, NEW s, Moves(q, s), ~ LostWrite(q)
  PROVE  AllAttended'
<1> USE DEF AllAttended, InProgress
<1>0. /\ q \in Procs /\ OrderOf(q) = q /\ <<pc[q], s>> \in HandlerEdges /\ q \notin Replicas
      /\ Calls = {"reserve", "confirm", "release"} /\ Procs = Orders \cup Replicas
  BY SagaAssumption DEF Procs, OrderOf, Moves, Calls
<1>1. /\ pc'[q] = s /\ \A x \in Procs \ {q} : pc'[x] = pc[x]
      /\ \A x \in Orders \ {q} : saga'[x] = saga[x]
      /\ todo' = todo /\ work' = work /\ ended' = ended
  BY <1>0, GotoEffect DEF Moves, SagaWrite, ListWrite, HandlerEdges
<1>2. s \in {"publish", "failOrder", "done"} => saga'[q].status # "IN_PROGRESS"
  <2>1. CASE s = "done"
    BY <1>0, <2>1 DEF Moves, SagaWrite, HandlerEdges
  <2>2. CASE s \in {"publish", "failOrder"}
    BY <1>0, <2>2 DEF Moves, SagaWrite, HandlerEdges
  <2> QED BY <2>1, <2>2
<1>3. ASSUME NEW o \in InProgress', NEW r \in Replicas PROVE Attended(o, r)'
  <2>1. CASE o = q
    <3>1. s \notin {"idle", "done", "dead"}
      BY <1>0, <1>2, <1>3, <2>1 DEF HandlerEdges
    <3> QED BY <1>1, <2>1, <3>1 DEF Attended, Working
  <2>2. CASE o # q
    <3>1. Attended(o, r)
      BY <1>1, <1>3, <2>2
    <3> QED BY <1>0, <1>1, <1>3, <2>2, <3>1 DEF Attended, Working
  <2> QED BY <2>1, <2>2
<1> QED BY <1>0, <1>1, <1>2, <1>3

\* A replica that starts takes every unfinished saga and drops none.
LEMMA ReplicaAttends ==
  ASSUME SingleReplica, OrderTypeOK, AllAttended, NEW q \in Replicas, NEW s, Moves(q, s), ~ LostWrite(q)
  PROVE  AllAttended'
<1> USE DEF AllAttended, InProgress
<1>0. /\ q \in Procs /\ OrderOf(q) = work[q] /\ <<pc[q], s>> \in ReplicaEdges /\ q \notin Orders
      /\ Calls = {"reserve", "confirm", "release"} /\ Procs = Orders \cup Replicas
      /\ work[q] \in Orders
      /\ todo \in [Replicas -> SUBSET [order : Orders, rid : BOOLEAN]]
  BY SagaAssumption DEF Procs, OrderOf, Moves, Calls, OrderTypeOK
<1>1. /\ pc'[q] = s /\ \A x \in Orders : pc'[x] = pc[x]
      /\ \A x \in Orders : \/ saga'[x] = saga[x]
                           \/ pc[q] = "failSaga" /\ x = work[q] /\ saga'[x].status = "FAILED"
      /\ pc[q] = "failSaga" => saga'[work[q]].status = "FAILED"
      /\ ended' = ended
  BY <1>0, GotoEffect DEF Moves, SagaWrite, ReplicaEdges
<1>2. ASSUME NEW o \in InProgress' PROVE Attended(o, q)'
  <2>1. o \in InProgress /\ Attended(o, q) /\ ~ (pc[q] = "failSaga" /\ o = work[q])
    BY <1>1, <1>2
  <2>2. CASE Working(o)
    BY <1>1, <2>2 DEF Attended, Working
  <2>3. CASE pc[q] = "down"
    <3>1. s = "resume" /\ todo' = [todo EXCEPT ![q] = Unfinished]
      BY <1>0, <2>3 DEF Moves, ListWrite, LostWrite
    <3>2. todo'[q] = Unfinished
      BY <1>0, <3>1
    <3>3. [order |-> o, rid |-> saga[o].rid] \in todo'[q]
      BY <2>1, <3>2 DEF Unfinished
    <3>4. [order |-> o, rid |-> saga[o].rid].order = o
      OBVIOUS
    <3> QED BY <3>3, <3>4 DEF Attended
  <2>4. CASE \E t \in todo[q] : t.order = o
    <3>1. PICK t \in todo[q] : t.order = o
      BY <2>4
    <3>2. CASE todo' = todo
      BY <3>1, <3>2 DEF Attended
    <3>3. CASE pc[q] = "resume" /\ s # "serving"
      <4>1. PICK u \in todo[q] : /\ todo' = [todo EXCEPT ![q] = @ \ {u}]
                                 /\ work' = [work EXCEPT ![q] = u.order]
        BY <3>3 DEF Moves, ListWrite
      <4>2. todo'[q] = todo[q] \ {u} /\ work'[q] = u.order /\ s \in {"release", "failSaga"}
        BY <1>0, <3>3, <4>1 DEF OrderTypeOK, ReplicaEdges
      <4> QED BY <1>1, <3>1, <4>2 DEF Attended
    <3> QED BY <1>0, <2>3, <3>2, <3>3 DEF Moves, ListWrite
  <2>5. CASE pc[q] \in {"release", "failSaga"} /\ work[q] = o
    <3>1. pc[q] = "release" /\ s = "failSaga" /\ work' = work
      BY <1>0, <2>1, <2>5 DEF Moves, ListWrite, ReplicaEdges
    <3> QED BY <1>1, <2>5, <3>1 DEF Attended
  <2> QED BY <2>1, <2>2, <2>3, <2>4, <2>5 DEF Attended
<1> QED BY <1>1, <1>2 DEF SingleReplica

\* Hence no step leaves a saga in progress unattended.
LEMMA AttendedKept ==
  ASSUME SingleReplica, OrderTypeOK, OrderTypeOK', BudgetBound, AllAttended,
         [Next]_vars, ~ Happened({"db", "timeout"})'
  PROVE  AllAttended'
<1>0. ~ Happened({"db"})' /\ {"db", "timeout"} \in SUBSET SomeFaults /\ "timeout" \in SomeFaults
  BY DEF Happened, SomeFaults, OtherFaults
<1>1. ASSUME NEW q \in Procs, NEW s, Moves(q, s) PROVE AllAttended'
  <2>1. ~ LostWrite(q)
    BY <1>0, NothingLost DEF AllAttended
  <2> QED BY <1>1, <2>1, HandlerAttends, ReplicaAttends DEF Procs
<1>2. ASSUME NEW r \in Replicas, Crash(r) PROVE AllAttended'
  <2>1. /\ saga' = saga /\ ended' = ended /\ \A x \in Replicas : pc'[x] = "down"
        /\ \A o \in Orders : pc'[o] \in {pc[o], "dead"}
    BY <1>2, SagaAssumption DEF Crash, SingleReplica, Procs
  <2> QED BY <2>1 DEF AllAttended, Attended, InProgress
<1>3. ASSUME NEW o \in Orders, ContextEnds(o) PROVE FALSE
  BY <1>0, <1>3, FaultHappens DEF ContextEnds
<1>4. CASE UNCHANGED <<pc, saga, todo, work, ended>>
  BY <1>4 DEF AllAttended, Attended, InProgress, Working
<1> QED BY <1>1, <1>2, <1>3, <1>4, StepsOf
        DEF vars, control, Serve, Retry, CallFails, ServeStray, Cancels

\* With one replica, until a write is lost or a context ends, a service that
\* has started has left no saga in progress behind, however often it crashed.
THEOREM RestartsLeaveNoOrphan ==
  ASSUME SingleReplica
  PROVE  Spec => []NoOrphanSaga
<1> DEFINE IInv == ~ Happened({"db", "timeout"}) => AllAttended
<1>1. Init => IInv
  BY SagaAssumption DEF Init, AllAttended, InProgress, Procs
<1>2. OrderTypeOK /\ OrderTypeOK' /\ BudgetBound /\ IInv /\ [Next]_vars => IInv'
  <2> SUFFICES ASSUME OrderTypeOK, OrderTypeOK', BudgetBound, IInv, [Next]_vars,
                      ~ Happened({"db", "timeout"})'
               PROVE  AllAttended'
    OBVIOUS
  <2>1. ~ Happened({"db", "timeout"})
    BY FaultsCount DEF SomeFaults, OtherFaults
  <2> QED BY <2>1, AttendedKept
<1>3. OneAtATime /\ IInv => NoOrphanSaga
  BY DEF OneAtATime, ReplicaSagas, AllAttended, Attended, NoOrphanSaga
<1> QED BY <1>1, <1>2, <1>3, OrderTyped, BudgetIsBound, SagasAreHandledOnce, PTL DEF Spec
-----------------------------------------------------------------------------
(* A failed saga whose row names its reservation holds no stock            *)

\* A process that handles the saga of its order.
Busy(q) == \/ q \in Orders /\ Working(q)
           \/ q \in Replicas /\ pc[q] \in {"release", "failSaga"}

\* With one replica no two processes handle the saga of one order.
LEMMA BusyAlone ==
  ASSUME SingleReplica, OneAtATime, NEW x \in Procs, NEW y \in Procs,
         Busy(x), Busy(y), OrderOf(x) = OrderOf(y)
  PROVE  x = y
  BY SagaAssumption DEF SingleReplica, OneAtATime, HandlersServed, Busy, OrderOf, Procs

\* Nothing is reserved for o, unless its saga does not name a reservation.
Cleared(o) == saga[o].rid => rows[o]["RESERVED"] = 0

\* q has the answer to its release, or goes on to fail the saga.
Settled(q) == \/ pc[q] = "failSaga" /\ q \notin ended
              \/ pc[q] = "release" /\ call[q] \in Stock!Codes

Unrecorded(o) == pc[o] \in {"idle", "createSaga", "reserving", "reserve", "setReservation"}

\* What makes the claim inductive: a process that is about to fail a saga has
\* cleared it, and a request to reserve that may still be executed belongs to
\* a handler that will not record its reservation any more.
Recorded ==
  /\ \A o \in Orders :
       /\ saga[o].status = "FAILED" => Cleared(o)
       /\ Unrecorded(o) => ~ saga[o].rid
       /\ Straying(o) => ~ saga[o].rid /\ (o \in ended \/ pc[o] = "dead")
  /\ \A q \in Procs : Settled(q) => Cleared(OrderOf(q))

\* A step of the service that reserves for o reserves for a saga without a
\* recorded reservation.
LEMMA CallsKeepRecorded ==
  ASSUME Stock!TypeOK, OrderTypeOK, Recorded, NEW s, NEW o \in Orders, NEW code,
         RowsEffect(s, o, code), \A x \in Orders \ {o} : rows'[x] = rows[x],
         s = "reserve" => ~ saga[o].rid, saga' = saga
  PROVE  /\ \A x \in Orders : Cleared(x) => Cleared(x)'
         /\ s = "release" => Cleared(o)'
<1>1. rows[o]["RESERVED"] \in Nat
  BY DEF Stock!TypeOK, Stock!RowStatus
<1> QED BY <1>1 DEF RowsEffect, Cleared

\* Going on keeps the claim: who fails a saga has cleared it before.
LEMMA MovesKeepRecorded ==
  ASSUME SingleReplica, OrderTypeOK, ProcsTyped, CallsArrive, OneAtATime, Recorded,
         NEW q \in Procs, NEW s, Moves(q, s)
  PROVE  Recorded'
<1> USE DEF Recorded
<1> DEFINE o == OrderOf(q)
<1>0. /\ o \in Orders /\ Procs = Orders \cup Replicas /\ Orders \cap Replicas = {}
      /\ Calls = {"reserve", "confirm", "release"}
      /\ Stock!Codes = {"OK", "NotFound", "FailedPrecondition"}
      /\ q \in Orders => <<pc[q], s>> \in HandlerEdges /\ o = q
      /\ q \in Replicas => <<pc[q], s>> \in ReplicaEdges
  BY OrderOfType, SagaAssumption DEF Procs, Calls, Stock!Codes, Moves, OrderOf
<1>1. /\ rows' = rows /\ stray' = stray /\ ended' = ended
      /\ pc'[q] = s /\ \A x \in Procs \ {q} : pc'[x] = pc[x] /\ call'[x] = call[x]
      /\ \A x \in Orders \ {o} : saga'[x] = saga[x]
      /\ s \in Calls => call'[q] \in {"sent", "DeadlineExceeded"}
  BY <1>0, GotoEffect DEF Moves, SagaWrite, stock
<1>2. Busy(q) \/ saga' = saga
  BY <1>0 DEF Moves, SagaWrite, Busy, Working, HandlerEdges, ReplicaEdges
<1>3. ASSUME NEW x \in Orders PROVE saga'[x].status = "FAILED" => Cleared(x)'
  <2>1. CASE x # o
    BY <1>1, <2>1 DEF Cleared
  <2>2. CASE x = o /\ pc[q] = "failSaga" /\ q \notin ended
    <3>1. Cleared(o)
      BY <2>2 DEF Settled
    <3> QED BY <1>1, <2>2, <3>1 DEF Moves, SagaWrite, Cleared
  <2>3. CASE x = o /\ pc[q] = "setReservation"
    <3>1. q \in Orders /\ o = q /\ saga[o].status = "IN_PROGRESS"
      BY <1>0, <2>3 DEF OneAtATime, HandlerSagas, Started, HandlerSteps, ProcsTyped, ReplicaSteps
    <3> QED BY <2>3, <3>1 DEF Moves, SagaWrite
  <2>4. CASE x = o /\ ~ (pc[q] = "failSaga" /\ q \notin ended) /\ pc[q] # "setReservation"
    <3>1. saga'[o] = saga[o] \/ saga'[o].status # "FAILED"
      BY <2>4 DEF Moves, SagaWrite
    <3> QED BY <1>1, <2>4, <3>1 DEF Cleared
  <2> QED BY <2>1, <2>2, <2>3, <2>4
<1>4. ASSUME NEW x \in Orders PROVE Unrecorded(x)' => ~ saga'[x].rid
  <2>1. CASE x = q
    <3>1. Unrecorded(x)' => Unrecorded(x) /\ pc[x] # "setReservation"
      BY <1>0, <1>1, <2>1 DEF Unrecorded, HandlerEdges
    <3> QED BY <1>0, <2>1, <3>1 DEF Moves, SagaWrite, Unrecorded
  <2>2. CASE x # q
    <3>1. saga'[x] = saga[x] \/ (saga'[x].rid = saga[x].rid /\ q \in Replicas)
      BY <1>0, <1>1, <2>2 DEF Moves, SagaWrite, ReplicaEdges
    <3> QED BY <1>0, <1>1, <2>2, <3>1 DEF Unrecorded
  <2> QED BY <2>1, <2>2
<1>5. ASSUME NEW x \in Orders, Straying(x)'
      PROVE  ~ saga'[x].rid /\ (x \in ended' \/ pc'[x] = "dead")
  <2>1. ~ saga[x].rid /\ (x \in ended \/ pc[x] = "dead")
    BY <1>1, <1>5 DEF Straying
  <2>2. pc[x] = "dead" => x # q
    BY <1>0 DEF HandlerEdges
  <2>3. ~ saga'[x].rid
    <3>1. CASE x # o
      BY <1>1, <2>1, <3>1
    <3>2. CASE x = o /\ pc[q] = "setReservation"
      <4>1. q \in Orders /\ x = q
        BY <1>0, <3>2 DEF ProcsTyped, ReplicaSteps
      <4> QED BY <2>1, <2>2, <3>2, <4>1 DEF Moves, SagaWrite
    <3>3. CASE x = o /\ pc[q] # "setReservation"
      BY <2>1, <3>3 DEF Moves, SagaWrite
    <3> QED BY <3>1, <3>2, <3>3
  <2> QED BY <1>0, <1>1, <2>1, <2>2, <2>3
<1>6. ASSUME NEW x \in Procs, Settled(x)' PROVE Cleared(OrderOf(x))'
  <2>1. CASE x # q
    <3>1. Settled(x) /\ OrderOf(x)' = OrderOf(x)
      BY <1>0, <1>1, <1>6, <2>1 DEF Settled, OrderOf, Moves, ListWrite, SingleReplica, OrderTypeOK, HandlerEdges
    <3>2. Busy(x) \/ x \in Orders
      BY <1>0, <3>1 DEF Settled, Busy
    <3>3. Busy(x)
      BY <3>1, <3>2 DEF Settled, Busy, Working
    <3>4. saga'[OrderOf(x)] = saga[OrderOf(x)]
      BY <1>1, <1>2, <2>1, <3>3, BusyAlone, OrderOfType
    <3> QED BY <1>1, <3>1, <3>4 DEF Cleared
  <2>2. CASE x = q
    <3>1. s = "failSaga" /\ q \notin ended
      BY <1>0, <1>1, <1>6, <2>2 DEF Settled
    <3>2. saga' = saga
      BY <1>0, <3>1 DEF Moves, SagaWrite, HandlerEdges, ReplicaEdges
    <3>3. CASE pc[q] = "release"
      <4>1. call[q] \in Stock!Codes
        BY <1>0, <3>1, <3>3 DEF Moves, CallsArrive
      <4>2. Cleared(o) /\ OrderOf(q)' = o
        BY <3>3, <4>1 DEF Settled, Moves, ListWrite, OrderOf
      <4> QED BY <1>1, <2>2, <3>2, <4>2 DEF Cleared
    <3>4. CASE pc[q] = "reserve"
      <4>1. q \in Orders /\ ~ saga[q].rid
        BY <1>0, <3>4 DEF ProcsTyped, ReplicaSteps, Unrecorded
      <4> QED BY <2>2, <3>2, <4>1 DEF Cleared, OrderOf
    <3>5. CASE pc[q] = "resume"
      <4>1. q \in Replicas
        BY <1>0, <3>1, <3>5 DEF HandlerEdges
      <4>2. PICK t \in todo[q] : work' = [work EXCEPT ![q] = t.order] /\ ~ t.rid
        BY <3>1, <3>5 DEF Moves, ListWrite
      <4>3. OrderOf(q)' = t.order /\ ~ saga[t.order].rid
        BY <1>0, <4>1, <4>2 DEF OrderOf, OrderTypeOK, OneAtATime, ReplicaSagas
      <4> QED BY <2>2, <3>2, <4>3 DEF Cleared
    <3> QED BY <1>0, <3>1, <3>3, <3>4, <3>5 DEF HandlerEdges, ReplicaEdges
  <2> QED BY <2>1, <2>2
<1> QED BY <1>3, <1>4, <1>5, <1>6

\* So do calls, executed late or not, crashes and contexts that end.
LEMMA RecordedKept ==
  ASSUME SingleReplica, Stock!TypeOK, OrderTypeOK, ProcsTyped, CallsArrive, OneAtATime, Recorded,
         [Next]_vars
  PROVE  Recorded'
<1> USE DEF Recorded
<1>0. /\ Procs = Orders \cup Replicas /\ Orders \cap Replicas = {}
      /\ Calls = {"reserve", "confirm", "release"}
      /\ Stock!Codes = {"OK", "NotFound", "FailedPrecondition"}
      /\ \A r \in Replicas : pc[r] # "reserve"
      /\ \A q \in Procs : OrderOf(q) \in Orders
  BY OrderOfType, SagaAssumption DEF Procs, Calls, Stock!Codes, ProcsTyped, ReplicaSteps
<1>1. ASSUME NEW q \in Procs, NEW s, Moves(q, s) PROVE Recorded'
  BY <1>1, MovesKeepRecorded
<1>2. ASSUME saga' = saga, work' = work, \A x \in Orders : Cleared(x) => Cleared(x)',
             \A x \in Orders : Unrecorded(x)' => Unrecorded(x),
             \A x \in Orders : Straying(x)' => Straying(x) \/ ~ saga[x].rid,
             \A x \in Orders : Straying(x)' => x \in ended' \/ pc'[x] = "dead",
             \A q \in Procs, o \in Orders :
                Settled(q)' /\ o = OrderOf(q) => Settled(q) \/ Cleared(o)'
      PROVE  Recorded'
  <2>1. ASSUME NEW q \in Procs, Settled(q)' PROVE Cleared(OrderOf(q))'
    BY <1>0, <1>2, <2>1 DEF OrderOf, Cleared
  <2> QED BY <1>2, <2>1
<1>3. ASSUME NEW q \in Procs, Serve(q) PROVE Recorded'
  <2>1. PICK code \in Stock!Codes : RowsEffect(pc[q], OrderOf(q), code) /\ call'[q] = code
    BY <1>3, ServeEffect
  <2>2. /\ pc[q] \in Calls /\ call[q] = "sent"
        /\ \A x \in Orders \ {OrderOf(q)} : rows'[x] = rows[x]
        /\ \A x \in Procs \ {q} : call'[x] = call[x]
        /\ UNCHANGED <<pc, saga, work, stray, ended>>
    BY <1>3, ServeEffect DEF Serve
  <2>3. pc[q] = "reserve" => ~ saga[OrderOf(q)].rid
    BY <1>0 DEF OrderOf, Unrecorded
  <2>4. /\ \A x \in Orders : Cleared(x) => Cleared(x)'
        /\ \A x \in Orders : pc[q] = "release" /\ x = OrderOf(q) => Cleared(x)'
    BY <1>0, <2>1, <2>2, <2>3, CallsKeepRecorded
  <2>5. \A x \in Procs, o \in Orders :
           Settled(x)' /\ o = OrderOf(x) => Settled(x) \/ Cleared(o)'
    BY <1>0, <2>2, <2>4 DEF Settled
  <2> QED BY <1>2, <2>2, <2>4, <2>5 DEF Unrecorded, Straying
<1>4. ASSUME NEW q \in Procs, Retry(q) \/ CallFails(q) PROVE FALSE
  BY <1>4 DEF Retry, MayRetry, CallFails, Spend, CallsArrive, Transient, Stock!Codes
<1>5. ASSUME NEW m \in stray, ServeStray(m) PROVE Recorded'
  <2>1. PICK code \in Stock!Codes : RowsEffect(m[1], m[2], code)
    BY <1>5, StrayEffect
  <2>2. /\ m[1] \in Calls /\ m[2] \in Orders
        /\ \A x \in Orders \ {m[2]} : rows'[x] = rows[x]
        /\ UNCHANGED <<pc, call, saga, work, ended>> /\ stray' \subseteq stray
    BY <1>5, StrayEffect DEF ServeStray, control
  <2>3. m[1] = "reserve" => ~ saga[m[2]].rid
    BY <2>2 DEF Straying
  <2>4. \A x \in Orders : Cleared(x) => Cleared(x)'
    BY <2>1, <2>2, <2>3, CallsKeepRecorded
  <2> QED BY <1>2, <2>2, <2>4 DEF Unrecorded, Straying, Settled
<1>6. ASSUME NEW x \in InFlight, NEW o \in Orders, Request(x)[1] = "reserve", Request(x)[2] = o
      PROVE  x = o /\ pc[o] = "reserve" /\ ~ saga[o].rid
  BY <1>0, <1>6 DEF InFlight, Request, OrderOf, Unrecorded
<1>7. ASSUME NEW r \in Replicas, Crash(r) PROVE Recorded'
  <2>1. /\ UNCHANGED <<rows, saga, work, ended>>
        /\ \A x \in Orders : pc'[x] = IF x \in Victims(r) THEN "dead" ELSE pc[x]
        /\ \A x \in Procs : pc'[x] \in {pc[x], "dead", "down"} /\ call'[x] \in {call[x], "none"}
    BY <1>0, <1>7 DEF Crash, stock
  <2>2. PICK lost \in SUBSET (Victims(r) \cap InFlight) : stray' = stray \cup {Request(x) : x \in lost}
    BY <1>7 DEF Crash
  <2>3. ASSUME NEW o \in Orders, Straying(o)'
        PROVE  (Straying(o) \/ ~ saga[o].rid) /\ (o \in ended' \/ pc'[o] = "dead")
    <3>1. PICK m \in stray' : m[1] = "reserve" /\ m[2] = o
      BY <2>3 DEF Straying
    <3>2. CASE m \in stray
      BY <2>1, <3>1, <3>2 DEF Straying
    <3>3. ASSUME NEW x \in lost, m = Request(x)
          PROVE  (Straying(o) \/ ~ saga[o].rid) /\ (o \in ended' \/ pc'[o] = "dead")
      BY <1>6, <2>1, <3>1, <3>3
    <3> QED BY <2>2, <3>1, <3>2, <3>3
  <2>4. \A x \in Procs : Settled(x)' => Settled(x)
    BY <1>0, <2>1 DEF Settled
  <2> QED BY <1>2, <2>1, <2>3, <2>4 DEF Cleared, Unrecorded
<1>8. ASSUME NEW c \in Orders, ContextEnds(c) PROVE Recorded'
  <2>1. /\ UNCHANGED <<rows, saga, work, pc>> /\ ended' = ended \cup {c}
        /\ \A x \in Procs : call'[x] \in {call[x], "DeadlineExceeded"}
    BY <1>8 DEF ContextEnds, stock, OrderTypeOK
  <2>2. ASSUME NEW o \in Orders, Straying(o)'
        PROVE  (Straying(o) \/ ~ saga[o].rid) /\ (o \in ended' \/ pc'[o] = "dead")
    <3>1. PICK m \in stray' : m[1] = "reserve" /\ m[2] = o
      BY <2>2 DEF Straying
    <3>2. CASE m \in stray
      BY <2>1, <3>1, <3>2 DEF Straying
    <3>3. CASE c \in InFlight /\ m = Request(c)
      BY <1>6, <2>1, <3>1, <3>3
    <3> QED BY <1>8, <3>1, <3>2, <3>3 DEF ContextEnds
  <2>3. \A x \in Procs : Settled(x)' => Settled(x)
    BY <1>0, <2>1 DEF Settled
  <2> QED BY <1>2, <2>1, <2>2, <2>3 DEF Cleared, Unrecorded
<1>9. CASE Cancels \/ UNCHANGED vars
  BY <1>9 DEF Cancels, vars, stock, control, Cleared, Unrecorded, Straying, Settled, OrderOf
<1> QED BY <1>1, <1>3, <1>4, <1>5, <1>7, <1>8, <1>9, StepsOf

\* With one replica and no lost call, wherever crashes strike, contexts end and
\* writes are lost, a failed saga whose row names its reservation holds none.
THEOREM RecordedIsReturned ==
  ASSUME SingleReplica, Budget["call"] = 0
  PROVE  Spec => []RecordedReservationReturned
<1>1. Init => Recorded
  BY DEF Init, Recorded, Cleared, Straying, Settled
<1>2. Recorded => RecordedReservationReturned
  BY DEF Recorded, Cleared, RecordedReservationReturned
<1> QED BY <1>1, <1>2, RecordedKept, SagaTyped, ProcsAreTyped, CallsDoArrive, SagasAreHandledOnce,
           PTL DEF Spec, TypeOK
-----------------------------------------------------------------------------
(* All or nothing, as long as nothing fails but payments and reservations  *)

\* The batches of o: a reserved, b released and c decremented.
Counts(o, a, b, c) ==
  rows[o]["RESERVED"] = a /\ rows[o]["RELEASED"] = b /\ rows[o]["DECREMENTED"] = c

\* What the tables say of o at each step of its handler.
Ledger(o) ==
  /\ pc[o] \in {"idle", "createSaga", "reserving"} \/ (pc[o] = "reserve" /\ call[o] # "OK")
       => Counts(o, 0, 0, 0)
  /\ Holding(o) => Counts(o, 1, 0, 0)
  /\ pc[o] = "confirm" => call[o] \in {"sent", "OK"}
  /\ (pc[o] = "confirm" /\ call[o] = "OK") \/ pc[o] \in {"completed", "completeSaga", "publish"}
       => Counts(o, 0, 0, 1)
  /\ (pc[o] = "release" /\ call[o] # "sent") \/ pc[o] \in {"failSaga", "failOrder"}
       => rows[o]["RESERVED"] = 0 /\ rows[o]["DECREMENTED"] = 0
  /\ pc[o] \in {"completeSaga", "publish"} => orders[o] \in {"COMPLETED", "CANCELLED"}
  /\ pc[o] = "publish" => saga[o].status = "COMPLETED"
  /\ pc[o] = "failOrder" => saga[o].status = "FAILED"
  /\ pc[o] = "done" =>
       /\ \/ saga[o].status = "COMPLETED" /\ Counts(o, 0, 0, 1)
          \/ saga[o].status = "FAILED" /\ rows[o]["RESERVED"] = 0 /\ rows[o]["DECREMENTED"] = 0
       /\ orders[o] \in {saga[o].status, "CANCELLED"}

\* Resume finds nothing to do: a replica starts before the first order.
FaultFree ==
  /\ stray = {} /\ ended = {}
  /\ \A q \in Procs : call[q] \in Stock!Codes \cup {"none", "sent"}
  /\ \A r \in Replicas : /\ pc[r] \in {"down", "resume", "serving"} /\ todo[r] = {}
                         /\ pc[r] # "serving" => \A o \in Orders : pc[o] = "idle"
  /\ \A o \in Orders : Ledger(o)

\* Each step of a handler keeps its order's ledger,
LEMMA HandlerKeepsLedger ==
  ASSUME OrderTypeOK, FaultFree, NEW o \in Orders, NEW s, Moves(o, s), ~ LostWrite(o)
  PROVE  \A x \in Orders : Ledger(x)'
<1>0. /\ o \in Procs /\ OrderOf(o) = o /\ Orders \subseteq Procs /\ <<pc[o], s>> \in HandlerEdges
      /\ Calls = {"reserve", "confirm", "release"}
  BY SagaAssumption DEF Procs, OrderOf, Moves, Calls
<1>1. /\ rows' = rows /\ pc'[o] = s
      /\ s \in Calls => call'[o] = "sent"
      /\ \A x \in Orders \ {o} : /\ pc'[x] = pc[x] /\ call'[x] = call[x]
                                 /\ saga'[x] = saga[x] /\ orders'[x] = orders[x]
  BY <1>0, GotoEffect DEF Moves, SagaWrite, OrderWrite, stock, FaultFree
<1>2. ASSUME NEW x \in Orders \ {o} PROVE Ledger(x)'
  BY <1>1 DEF FaultFree, Ledger, Counts, Holding
<1>3. Ledger(o)'
  <2>1. Ledger(o)
    BY DEF FaultFree
  <2>2. CASE s \notin {"completeSaga", "publish", "failOrder", "done"}
    BY <1>0, <1>1, <2>1, <2>2 DEF Ledger, Counts, Holding, Moves, HandlerEdges
  <2>3. CASE s = "completeSaga"
    <3>1. pc[o] = "completed" /\ orders'[o] = "COMPLETED"
      BY <1>0, <2>3 DEF Moves, OrderWrite, HandlerEdges
    <3> QED BY <1>1, <2>1, <2>3, <3>1 DEF Ledger, Counts, Holding
  <2>4. CASE s = "publish"
    <3>1. pc[o] = "completeSaga" /\ orders' = orders /\ saga'[o].status = "COMPLETED"
      BY <1>0, <2>4 DEF Moves, OrderWrite, SagaWrite, HandlerEdges
    <3> QED BY <1>1, <2>1, <2>4, <3>1 DEF Ledger, Counts, Holding
  <2>5. CASE s = "failOrder"
    <3>1. pc[o] = "failSaga" /\ saga'[o].status = "FAILED"
      BY <1>0, <2>5 DEF Moves, SagaWrite, HandlerEdges
    <3> QED BY <1>1, <2>1, <2>5, <3>1 DEF Ledger, Counts, Holding
  <2>6. CASE s = "done" /\ pc[o] = "publish"
    <3>1. orders' = orders /\ saga' = saga
      BY <1>0, <2>6 DEF Moves, SagaWrite, OrderWrite
    <3> QED BY <1>1, <2>1, <2>6, <3>1 DEF Ledger, Counts, Holding
  <2>7. CASE s = "done" /\ pc[o] = "failOrder"
    <3>1. orders'[o] = "FAILED" /\ saga' = saga
      BY <1>0, <2>7 DEF Moves, SagaWrite, OrderWrite
    <3> QED BY <1>1, <2>1, <2>7, <3>1 DEF Ledger, Counts, Holding
  <2> QED BY <1>0, <2>2, <2>3, <2>4, <2>5, <2>6, <2>7 DEF Moves, HandlerEdges
<1> QED BY <1>2, <1>3

\* and so does each call that is served.
LEMMA ServeKeepsLedger ==
  ASSUME Stock!TypeOK, OrderTypeOK, FaultFree, NEW o \in Orders, Serve(o)
  PROVE  \A x \in Orders : Ledger(x)'
<1>0. /\ o \in Procs /\ OrderOf(o) = o /\ Orders \subseteq Procs
      /\ Calls = {"reserve", "confirm", "release"}
      /\ Stock!Codes = {"OK", "NotFound", "FailedPrecondition"}
      /\ \A st \in {"RESERVED", "RELEASED", "DECREMENTED"} : rows[o][st] \in Nat
  BY DEF Procs, OrderOf, Calls, Stock!Codes, Stock!TypeOK, Stock!RowStatus
<1>1. PICK code \in Stock!Codes : RowsEffect(pc[o], o, code) /\ call'[o] = code
  BY <1>0, ServeEffect
<1>2. /\ pc[o] \in Calls /\ call[o] = "sent" /\ UNCHANGED <<pc, saga, orders>>
      /\ \A x \in Orders \ {o} : rows'[x] = rows[x] /\ call'[x] = call[x]
  BY <1>0, ServeEffect DEF Serve
<1>3. ASSUME NEW x \in Orders \ {o} PROVE Ledger(x)'
  BY <1>2 DEF FaultFree, Ledger, Counts, Holding
<1>4. Ledger(o)'
  <2>1. Ledger(o)
    BY DEF FaultFree
  <2>2. CASE pc[o] = "reserve"
    BY <1>0, <1>1, <1>2, <2>1, <2>2 DEF Ledger, Counts, Holding, RowsEffect
  <2>3. CASE pc[o] = "confirm"
    BY <1>0, <1>1, <1>2, <2>1, <2>3 DEF Ledger, Counts, Holding, RowsEffect
  <2>4. CASE pc[o] = "release"
    BY <1>0, <1>1, <1>2, <2>1, <2>4 DEF Ledger, Counts, Holding, RowsEffect
  <2> QED BY <1>0, <1>2, <2>2, <2>3, <2>4
<1> QED BY <1>3, <1>4

\* Hence only a fault breaks the ledger.
LEMMA FaultFreeKept ==
  ASSUME SingleReplica, Stock!TypeOK, OrderTypeOK, OrderTypeOK', BudgetBound, OneAtATime, FaultFree,
         [Next]_vars, ~ Happened({"call", "db", "timeout", "crash"})'
  PROVE  FaultFree'
<1>0. /\ Calls = {"reserve", "confirm", "release"} /\ Procs = Orders \cup Replicas
      /\ Orders \cap Replicas = {}
      /\ SomeFaults = {"call", "db", "timeout", "crash"}
      /\ Stock!Codes \cap Transient = {}
      /\ ~ Happened({"db"})'
  BY SagaAssumption DEF Calls, Procs, SomeFaults, OtherFaults, Stock!Codes, Transient, Happened
<1>1. ASSUME NEW q \in Orders, NEW s, Moves(q, s) PROVE FaultFree'
  <2>1. ~ LostWrite(q)
    BY <1>0, NothingLost DEF FaultFree
  <2>2. /\ stray' = {} /\ ended' = {}
        /\ \A x \in Procs : call'[x] \in Stock!Codes \cup {"none", "sent"}
        /\ \A r \in Replicas : pc'[r] = pc[r] /\ todo'[r] = todo[r]
    BY <1>0, <1>1, GotoEffect DEF FaultFree, Moves, ListWrite, HandlerEdges
  <2>3. \A r \in Replicas : pc[r] = "serving"
    <3>1. CASE pc[q] = "idle"
      BY <1>1, <3>1 DEF Moves, SingleReplica
    <3>2. CASE pc[q] # "idle"
      BY <3>2 DEF FaultFree
    <3> QED BY <3>1, <3>2
  <2>4. \A x \in Orders : Ledger(x)'
    BY <1>1, <2>1, HandlerKeepsLedger
  <2> QED BY <2>2, <2>3, <2>4 DEF FaultFree
<1>2. ASSUME NEW q \in Replicas, NEW s, Moves(q, s) PROVE FaultFree'
  <2>1. /\ pc[q] \in {"down", "resume"} /\ todo[q] = {} /\ <<pc[q], s>> \in ReplicaEdges
        /\ \A r \in Replicas : r = q
        /\ \A o \in Orders : pc[o] = "idle" /\ saga[o].status = "NONE"
    BY <1>0, <1>2 DEF FaultFree, Moves, ReplicaEdges, OneAtATime, HandlerSagas, SingleReplica
  <2>2. todo'[q] = {} /\ s \in {"resume", "serving"}
    <3>1. Unfinished = {}
      BY <2>1 DEF Unfinished, InProgress
    <3> QED BY <1>0, <1>2, <2>1, <3>1 DEF Moves, ListWrite, ReplicaEdges, OrderTypeOK
  <2>3. /\ stray' = {} /\ ended' = {} /\ rows' = rows /\ saga' = saga
        /\ \A x \in Procs : call'[x] \in Stock!Codes \cup {"none", "sent"}
        /\ pc'[q] = s /\ \A o \in Orders : pc'[o] = pc[o] /\ call'[o] = call[o]
    BY <1>0, <1>2, <2>1, <2>2, GotoEffect DEF FaultFree, Moves, SagaWrite, stock
  <2>4. \A o \in Orders : Ledger(o)'
    BY <2>1, <2>3 DEF FaultFree, Ledger, Counts, Holding
  <2> QED BY <2>1, <2>2, <2>3, <2>4 DEF FaultFree
<1>3. ASSUME NEW q \in Procs, Serve(q) PROVE FaultFree'
  <2>1. q \in Orders
    BY <1>0, <1>3, ServeEffect DEF FaultFree
  <2>2. \A x \in Orders : Ledger(x)'
    BY <1>3, <2>1, ServeKeepsLedger
  <2>3. /\ \A x \in Procs : call'[x] \in Stock!Codes \cup {"none", "sent"}
        /\ UNCHANGED <<stray, ended, pc, todo>>
    BY <1>3, ServeEffect DEF Serve, FaultFree
  <2> QED BY <2>2, <2>3 DEF FaultFree
<1>4. ASSUME NEW q \in Procs, Retry(q) PROVE FALSE
  BY <1>0, <1>4 DEF Retry, MayRetry, Transient, FaultFree
<1>5. ASSUME NEW q \in Procs, CallFails(q) PROVE FALSE
  BY <1>0, <1>5, FaultHappens DEF CallFails
<1>6. ASSUME NEW r \in Replicas, Crash(r) PROVE FALSE
  BY <1>0, <1>6, FaultHappens DEF Crash
<1>7. ASSUME NEW o \in Orders, ContextEnds(o) PROVE FALSE
  BY <1>0, <1>7, FaultHappens DEF ContextEnds
<1>8. CASE Cancels
  BY <1>8 DEF Cancels, stock, control, FaultFree, Ledger, Counts, Holding
<1>9. CASE UNCHANGED vars
  BY <1>9 DEF vars, stock, control, FaultFree, Ledger, Counts, Holding
<1> QED BY <1>0, <1>1, <1>2, <1>3, <1>4, <1>5, <1>6, <1>7, <1>8, <1>9, StepsOf DEF FaultFree

\* Until something fails other than a payment or a reservation, a handler that
\* has returned has sold the order's stock once and completed its saga, or
\* holds none of it and has failed the saga, and the order says the same.
THEOREM SagasAreAtomic ==
  ASSUME SingleReplica
  PROVE  Spec => [](~ Happened({"call", "db", "timeout", "crash"}) => AllOrNothing)
<1> DEFINE Quiet == ~ Happened({"call", "db", "timeout", "crash"})
           IInv == Quiet => FaultFree
<1>1. Init => IInv
  BY SagaAssumption DEF Init, Stock!Init, Stock!RowStatus, FaultFree, Ledger, Counts, Holding, Procs
<1>2. TypeOK /\ TypeOK' /\ BudgetBound /\ OneAtATime /\ IInv /\ [Next]_vars => IInv'
  <2> SUFFICES ASSUME TypeOK, TypeOK', BudgetBound, OneAtATime, IInv, [Next]_vars, Quiet'
               PROVE  FaultFree'
    OBVIOUS
  <2>1. Quiet
    BY FaultsCount DEF SomeFaults, OtherFaults, TypeOK
  <2> QED BY <2>1, FaultFreeKept DEF TypeOK
<1>3. TypeOK /\ IInv => (Quiet => AllOrNothing)
  <2> SUFFICES ASSUME Stock!TypeOK, FaultFree, NEW o \in Orders, pc[o] = "done"
               PROVE  /\ \/ /\ saga[o].status = "COMPLETED"
                            /\ rows[o] = [RESERVED |-> 0, RELEASED |-> 0, DECREMENTED |-> 1]
                         \/ /\ saga[o].status = "FAILED"
                            /\ rows[o]["RESERVED"] = 0 /\ rows[o]["DECREMENTED"] = 0
                      /\ orders[o] \in {saga[o].status, "CANCELLED"}
    BY DEF AllOrNothing, TypeOK
  <2>1. Counts(o, 0, 0, 1) => rows[o] = [RESERVED |-> 0, RELEASED |-> 0, DECREMENTED |-> 1]
    BY DEF Counts, Stock!TypeOK, Stock!RowStatus
  <2> QED BY <2>1 DEF FaultFree, Ledger
<1> QED BY <1>1, <1>2, <1>3, SagaTyped, BudgetIsBound, SagasAreHandledOnce, PTL DEF Spec
=============================================================================
