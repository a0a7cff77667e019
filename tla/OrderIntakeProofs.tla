-------------------------- MODULE OrderIntakeProofs --------------------------
(***************************************************************************)
(* For any number of requests and keys and any faults: OrderIntake keeps   *)
(* its types, there is one order per idempotency key, and all answers for  *)
(* a key name it.                                                          *)
(***************************************************************************)
EXTENDS OrderIntake, TLAPS

\* A handler that uses Redis has a key, one between INSERT and COMMIT holds
\* its index entry, and one that runs the saga or reads again has an order.
HandlersHold ==
  /\ \A r \in Requests : pc[r] \in {"cached", "set"} => Keyed(r)
  /\ \A r \in Requests : pc[r] = "items" => r \in open
  /\ \A r \in Requests : pc[r] \in {"saga", "refetch"} => r \in Stored

\* The index holds a key once, entries of open transactions included.
IndexUnique ==
  \A o, q \in Stored \cup open : Keyed(o) /\ Key[o] = Key[q] => o = q

\* An answer, sent, about to be cached or cached, names an order that is
\* stored with the key it answers.
Names(a, k) == a.code = "OK" => a.order \in Stored /\ Key[a.order] = k

AnswersNameOrders ==
  /\ \A r \in Requests : Names(answer[r], Key[r])
  /\ \A k \in Keys : Names(cache[k], k)

IInv == TypeOK /\ HandlersHold /\ IndexUnique /\ AnswersNameOrders

-----------------------------------------------------------------------------

\* What a request can be answered with, or Redis hold, is an answer.
LEMMA AnswersTyped ==
  ASSUME TypeOK
  PROVE  /\ Miss \in Answers
         /\ \A code \in {"NotFound", "FailedPrecondition", "Internal"} : Error(code) \in Answers
         /\ DbError \in Answers
         /\ \A o \in Stored : Ok(o) \in Answers
  BY DEF TypeOK, Answers, Miss, Error, DbError, Ok, Stored

\* The initial state has its types.
LEMMA InitTyped == IntakeAssumption /\ Init => TypeOK
  BY DEF IntakeAssumption, Init, TypeOK, Answers, Miss, Error, Steps

\* Every step keeps the types.
LEMMA NextTyped ==
  ASSUME IntakeAssumption, TypeOK, HandlersHold, [Next]_vars
  PROVE  TypeOK'
<1> USE DEF TypeOK, Steps
<1>1. ASSUME NEW r \in Requests, Receive(r) PROVE TypeOK'
  BY <1>1 DEF Receive, Goto
<1>2. ASSUME NEW r \in Requests, Step(r) PROVE TypeOK'
  <2>1. CASE GetIdempotencyResult(r)
    <3>1. CacheKey(r) \in Keys
      BY <2>1 DEF GetIdempotencyResult, HandlersHold, Keyed, CacheKey, IntakeAssumption
    <3>2. cache[CacheKey(r)] \in Answers
      BY <3>1
    <3> QED BY <2>1, <3>2 DEF GetIdempotencyResult, Goto, Answer
  <2>2. ASSUME NEW p \in Products, GetProduct(r, p) PROVE TypeOK'
    BY <2>2, AnswersTyped DEF GetProduct, Goto, Answer
  <2>3. CASE SelectByKey(r)
    BY <2>3, AnswersTyped DEF SelectByKey, Goto, Answer, Rollback, WithKey
  <2>4. CASE Insert(r)
    BY <2>4, AnswersTyped DEF Insert, Goto, Answer, Rollback
  <2>5. CASE Commit(r)
    BY <2>5, AnswersTyped DEF Commit, Goto, Answer, Rollback, Inserted, Statuses
  <2>6. CASE SagaWorks(r) \/ SagaEnds(r)
    BY <2>6 DEF SagaWorks, SagaEnds, Goto, Statuses
  <2>7. CASE GetOrder(r)
    BY <2>7, AnswersTyped DEF GetOrder, Goto, Answer, HandlersHold
  <2>8. CASE SetIdempotencyResult(r)
    BY <2>8 DEF SetIdempotencyResult, Goto
  <2> QED BY <1>2, <2>1, <2>2, <2>3, <2>4, <2>5, <2>6, <2>7, <2>8 DEF Step
<1>3. ASSUME NEW r \in Requests, Resumed(r) \/ Cancelled(r) \/ ContextEnds(r) \/ Crash(r) PROVE TypeOK'
  BY <1>3 DEF Resumed, Cancelled, ContextEnds, Crash, Goto, Statuses
<1>4. ASSUME NEW k \in Keys, Expire(k) PROVE TypeOK'
  BY <1>4, AnswersTyped DEF Expire
<1>5. ASSUME NEW p \in Products, CreateProduct(p) \/ UpdateProduct(p) PROVE TypeOK'
  BY <1>5 DEF CreateProduct, UpdateProduct
<1>6. CASE UNCHANGED vars
  BY <1>6 DEF vars
<1> QED BY <1>1, <1>2, <1>3, <1>4, <1>5, <1>6 DEF Next

\* Every step keeps what HandlersHold says.
LEMMA NextHolds ==
  ASSUME TypeOK, HandlersHold, [Next]_vars
  PROVE  HandlersHold'
<1> USE DEF TypeOK, HandlersHold, Keyed, Stored
<1>1. ASSUME NEW r \in Requests, Receive(r) PROVE HandlersHold'
  BY <1>1 DEF Receive, Goto
<1>2. ASSUME NEW r \in Requests, Step(r) PROVE HandlersHold'
  <2>1. CASE GetIdempotencyResult(r)
    BY <2>1 DEF GetIdempotencyResult, Goto, Answer
  <2>2. ASSUME NEW p \in Products, GetProduct(r, p) PROVE HandlersHold'
    BY <2>2 DEF GetProduct, Goto, Answer
  <2>3. CASE SelectByKey(r)
    BY <2>3 DEF SelectByKey, Goto, Answer, Rollback
  <2>4. CASE Insert(r)
    BY <2>4 DEF Insert, Goto, Answer, Rollback
  <2>5. CASE Commit(r)
    BY <2>5 DEF Commit, Goto, Answer, Rollback, Inserted
  <2>6. CASE SagaWorks(r) \/ SagaEnds(r)
    BY <2>6 DEF SagaWorks, SagaEnds, Goto
  <2>7. CASE GetOrder(r)
    BY <2>7 DEF GetOrder, Goto, Answer
  <2>8. CASE SetIdempotencyResult(r)
    BY <2>8 DEF SetIdempotencyResult, Goto
  <2> QED BY <1>2, <2>1, <2>2, <2>3, <2>4, <2>5, <2>6, <2>7, <2>8 DEF Step
<1>3. ASSUME NEW r \in Requests, Resumed(r) \/ Cancelled(r) \/ ContextEnds(r) \/ Crash(r)
      PROVE HandlersHold'
  BY <1>3 DEF Resumed, Cancelled, ContextEnds, Crash, Goto
<1>4. ASSUME NEW k \in Keys, Expire(k) PROVE HandlersHold'
  BY <1>4 DEF Expire
<1>5. ASSUME NEW p \in Products, CreateProduct(p) \/ UpdateProduct(p) PROVE HandlersHold'
  BY <1>5 DEF CreateProduct, UpdateProduct
<1>6. CASE UNCHANGED vars
  BY <1>6 DEF vars
<1> QED BY <1>1, <1>2, <1>3, <1>4, <1>5, <1>6 DEF Next

\* The entries of the index.
Entries == Stored \cup open

\* A step that adds no entry keeps the index unique.
LEMMA NoNewEntry == ASSUME IndexUnique, Entries' \subseteq Entries PROVE IndexUnique'
  BY DEF IndexUnique, Entries, Keyed

\* Only INSERT adds an entry, and it looks for the key first.
LEMMA NextUnique ==
  ASSUME TypeOK, HandlersHold, IndexUnique, [Next]_vars
  PROVE  IndexUnique'
<1> USE DEF TypeOK
<1>1. ASSUME NEW r \in Requests, Insert(r) PROVE IndexUnique'
  <2>1. CASE open' = open \cup {r} /\ ~ Taken(r) /\ UNCHANGED status
    BY <2>1 DEF IndexUnique, Taken, Stored, Keyed
  <2>2. CASE Rollback(r)
    BY <2>2, NoNewEntry DEF Rollback, Entries, Stored
  <2> QED BY <1>1, <2>1, <2>2 DEF Insert
<1>2. ASSUME NEW r \in Requests, Commit(r) PROVE IndexUnique'
  <2>1. r \in open
    BY <1>2 DEF Commit, HandlersHold
  <2>2. Entries' \subseteq Entries
    BY <1>2, <2>1 DEF Commit, Rollback, Entries, Stored
  <2> QED BY <2>2, NoNewEntry
<1>3. ASSUME NEW r \in Requests, SagaWorks(r) \/ SagaEnds(r) PROVE IndexUnique'
  <2>1. r \in Stored
    BY <1>3 DEF SagaWorks, SagaEnds, HandlersHold
  <2>2. Entries' \subseteq Entries
    BY <1>3, <2>1 DEF SagaWorks, SagaEnds, Entries, Stored
  <2> QED BY <2>2, NoNewEntry
<1>4. ASSUME NEW r \in Requests,
             \/ Receive(r) \/ GetIdempotencyResult(r) \/ \E p \in Products : GetProduct(r, p)
             \/ SelectByKey(r) \/ GetOrder(r) \/ SetIdempotencyResult(r)
      PROVE IndexUnique'
  <2>1. Entries' \subseteq Entries
    BY <1>4 DEF Receive, GetIdempotencyResult, GetProduct, SelectByKey, Rollback, GetOrder,
                SetIdempotencyResult, Entries, Stored
  <2> QED BY <2>1, NoNewEntry
<1>5. ASSUME NEW r \in Requests, Resumed(r) \/ Cancelled(r) \/ ContextEnds(r) \/ Crash(r)
      PROVE IndexUnique'
  <2>1. Entries' \subseteq Entries
    BY <1>5 DEF Resumed, Cancelled, ContextEnds, Crash, Entries, Stored
  <2> QED BY <2>1, NoNewEntry
<1>6. ASSUME \/ \E k \in Keys : Expire(k)
             \/ \E p \in Products : CreateProduct(p) \/ UpdateProduct(p)
             \/ UNCHANGED vars
      PROVE IndexUnique'
  <2>1. Entries' \subseteq Entries
    BY <1>6 DEF Expire, CreateProduct, UpdateProduct, vars, Entries, Stored
  <2> QED BY <2>1, NoNewEntry
<1> QED BY <1>1, <1>2, <1>3, <1>4, <1>5, <1>6 DEF Next, Step

\* An order that is stored stays stored.
LEMMA OrdersStay ==
  ASSUME TypeOK, HandlersHold, [Next]_vars
  PROVE  Stored \subseteq Stored'
<1> USE DEF TypeOK, Stored
<1>1. ASSUME NEW r \in Requests, Receive(r) \/ Step(r) PROVE Stored \subseteq Stored'
  BY <1>1 DEF Receive, Step, GetIdempotencyResult, GetProduct, SelectByKey, Insert, Rollback,
              Commit, Inserted, SagaWorks, SagaEnds, GetOrder, SetIdempotencyResult
<1>2. ASSUME NEW r \in Requests, Resumed(r) \/ Cancelled(r) \/ ContextEnds(r) \/ Crash(r)
      PROVE Stored \subseteq Stored'
  BY <1>2 DEF Resumed, Cancelled, ContextEnds, Crash
<1>3. ASSUME \/ \E k \in Keys : Expire(k)
             \/ \E p \in Products : CreateProduct(p) \/ UpdateProduct(p)
             \/ UNCHANGED vars
      PROVE Stored \subseteq Stored'
  BY <1>3 DEF Expire, CreateProduct, UpdateProduct, vars
<1> QED BY <1>1, <1>2, <1>3 DEF Next

\* Every step keeps AnswersNameOrders.
LEMMA NextNames ==
  ASSUME IntakeAssumption, TypeOK, HandlersHold, AnswersNameOrders, [Next]_vars
  PROVE  AnswersNameOrders'
<1> USE OrdersStay DEF TypeOK, AnswersNameOrders, Names
<1>1. ASSUME NEW r \in Requests, Rollback(r) PROVE AnswersNameOrders'
  BY <1>1 DEF Rollback, Answer, Error, DbError
<1>2. ASSUME NEW r \in Requests, Step(r) PROVE AnswersNameOrders'
  <2>1. CASE GetIdempotencyResult(r)
    <3>1. CacheKey(r) \in Keys /\ CacheKey(r) = Key[r]
      BY <2>1 DEF GetIdempotencyResult, HandlersHold, Keyed, CacheKey, IntakeAssumption
    <3> QED BY <2>1, <3>1 DEF GetIdempotencyResult, Answer
  <2>2. ASSUME NEW p \in Products, GetProduct(r, p) PROVE AnswersNameOrders'
    BY <2>2 DEF GetProduct, Answer, Error
  <2>3. CASE SelectByKey(r)
    <3>1. ASSUME NEW o \in WithKey(Key[r]), Answer(r, Ok(o)), UNCHANGED cache PROVE AnswersNameOrders'
      BY <3>1 DEF WithKey, Answer, Ok
    <3> QED BY <2>3, <3>1, <1>1 DEF SelectByKey
  <2>4. CASE Insert(r)
    BY <2>4, <1>1 DEF Insert
  <2>5. CASE Commit(r)
    BY <2>5, <1>1 DEF Commit, Answer, Error, DbError
  <2>6. CASE SagaWorks(r) \/ SagaEnds(r)
    BY <2>6 DEF SagaWorks, SagaEnds
  <2>7. CASE GetOrder(r)
    BY <2>7 DEF GetOrder, Answer, Error, DbError, Ok, HandlersHold
  <2>8. CASE SetIdempotencyResult(r)
    BY <2>8 DEF SetIdempotencyResult, CacheKey
  <2> QED BY <1>2, <2>1, <2>2, <2>3, <2>4, <2>5, <2>6, <2>7, <2>8 DEF Step
<1>3. ASSUME NEW r \in Requests,
             Receive(r) \/ Resumed(r) \/ Cancelled(r) \/ ContextEnds(r) \/ Crash(r)
      PROVE AnswersNameOrders'
  BY <1>3 DEF Receive, Resumed, Cancelled, ContextEnds, Crash
<1>4. ASSUME NEW k \in Keys, Expire(k) PROVE AnswersNameOrders'
  BY <1>4 DEF Expire, Miss, Error
<1>5. ASSUME (\E p \in Products : CreateProduct(p) \/ UpdateProduct(p)) \/ UNCHANGED vars PROVE AnswersNameOrders'
  BY <1>5 DEF CreateProduct, UpdateProduct, vars
<1> QED BY <1>2, <1>3, <1>4, <1>5 DEF Next

-----------------------------------------------------------------------------

\* The inductive invariant holds initially.
LEMMA InitIInv == IntakeAssumption /\ Init => IInv
<1> SUFFICES ASSUME IntakeAssumption, Init PROVE IInv
  OBVIOUS
<1>1. TypeOK
  BY InitTyped
<1>2. HandlersHold /\ IndexUnique /\ AnswersNameOrders
  BY DEF Init, HandlersHold, IndexUnique, Stored, AnswersNameOrders, Names, Miss, Error
<1> QED BY <1>1, <1>2 DEF IInv

\* Every step keeps it.
LEMMA NextIInv == IntakeAssumption /\ IInv /\ [Next]_vars => IInv'
  BY NextTyped, NextHolds, NextUnique, NextNames DEF IInv

\* The types of OrderIntake, for any number of requests and keys.
THEOREM IntakeTyped == Spec => []TypeOK
<1>1. IInv => TypeOK
  BY DEF IInv
<1> QED BY IntakeAssumption, InitIInv, NextIInv, <1>1, PTL DEF Spec

\* CreateOrder never stores a second order for an idempotency key, whatever
\* the number of concurrent duplicates and whatever fails.
THEOREM KeysAreUnique == Spec => []OneOrderPerKey
<1>1. IInv => OneOrderPerKey
  BY DEF IInv, IndexUnique, OneOrderPerKey
<1> QED BY IntakeAssumption, InitIInv, NextIInv, <1>1, PTL DEF Spec

\* All clients of one key that are answered are answered with one order,
\* from whichever of the three sources.
THEOREM OneAnswerPerKey == Spec => []AnswersAgree
<1>1. IInv => AnswersAgree
  <2> SUFFICES ASSUME IInv, NEW k \in Keys, NEW r \in Accepted(k), NEW q \in Accepted(k)
               PROVE  answer[r].order = answer[q].order
    BY DEF AnswersAgree
  <2>1. /\ answer[r].order \in Stored /\ Key[answer[r].order] = k
        /\ answer[q].order \in Stored /\ Key[answer[q].order] = k
    BY DEF IInv, AnswersNameOrders, Names, Accepted
  <2> QED BY <2>1, IntakeAssumption DEF IInv, IndexUnique, Keyed, IntakeAssumption
<1> QED BY IntakeAssumption, InitIInv, NextIInv, <1>1, PTL DEF Spec

-----------------------------------------------------------------------------
(* OrderIntake implements Promise *)

\* A request that has not committed has no order, and one whose answer is
\* cached, or about to be, has an order to name.
Early == {"idle", "cached", "lookup", "insert", "items"}

Placed ==
  /\ \A r \in Requests : pc[r] \in Early => r \notin Stored
  /\ \A r \in Requests : pc[r] = "set" => answer[r].code = "OK"
  /\ \A k \in Keys : cache[k] # Miss => cache[k].code = "OK"

\* Every step keeps Placed.
LEMMA NextPlaced ==
  ASSUME IntakeAssumption, IInv, Placed, [Next]_vars
  PROVE  Placed'
<1> USE DEF IInv, TypeOK, Placed, Early
<1>1. ASSUME NEW r \in Requests, Receive(r) PROVE Placed'
  BY <1>1 DEF Receive, Goto, Stored
<1>2. ASSUME NEW r \in Requests, Step(r) PROVE Placed'
  <2>1. CASE GetIdempotencyResult(r)
    BY <2>1 DEF GetIdempotencyResult, Goto, Answer, Stored
  <2>2. ASSUME NEW p \in Products, GetProduct(r, p) PROVE Placed'
    BY <2>2 DEF GetProduct, Goto, Answer, Stored
  <2>3. CASE SelectByKey(r)
    BY <2>3 DEF SelectByKey, Goto, Answer, Rollback, Stored
  <2>4. CASE Insert(r)
    BY <2>4 DEF Insert, MayInsert, Goto, Answer, Rollback, Stored
  <2>5. CASE Commit(r)
    BY <2>5 DEF Commit, Goto, Answer, Rollback, Stored
  <2>6. CASE SagaWorks(r) \/ SagaEnds(r)
    BY <2>6 DEF SagaWorks, SagaEnds, Goto, Stored
  <2>7. CASE GetOrder(r)
    BY <2>7 DEF GetOrder, Goto, Answer, Ok, Stored
  <2>8. CASE SetIdempotencyResult(r)
    BY <2>8 DEF SetIdempotencyResult, Goto, Stored, CacheKey, Miss, Error
  <2> QED BY <1>2, <2>1, <2>2, <2>3, <2>4, <2>5, <2>6, <2>7, <2>8 DEF Step
<1>3. ASSUME NEW r \in Requests, Resumed(r) \/ Cancelled(r) \/ ContextEnds(r) \/ Crash(r) PROVE Placed'
  BY <1>3 DEF Resumed, Cancelled, ContextEnds, Crash, Goto, Stored
<1>4. ASSUME \/ \E k \in Keys : Expire(k)
             \/ \E p \in Products : CreateProduct(p) \/ UpdateProduct(p)
             \/ UNCHANGED vars
      PROVE Placed'
  BY <1>4 DEF Expire, CreateProduct, UpdateProduct, vars, Stored, Miss, Error
<1> QED BY <1>1, <1>2, <1>3, <1>4 DEF Next

\* A step that answers nobody and stores nothing is none of Promise.
LEMMA Stutters ==
  ASSUME Stored' = Stored, \A r \in Requests : ToldTo(r)' = ToldTo(r)
  PROVE  UNCHANGED Promised!vars
  BY DEF Promised!vars

\* A step that answers r tells r what its answer says, and the others nothing.
LEMMA AnswerTells ==
  ASSUME TypeOK, NEW r \in Requests, pc[r] # "answered",
         pc' = [pc EXCEPT ![r] = "answered"],
         \A o \in Requests \ {r} : answer'[o] = answer[o]
  PROVE  Promised!Open(r) /\ Promised!Says(r, ToldTo(r)')
<1>1. \A o \in Requests \ {r} : ToldTo(o)' = ToldTo(o)
  BY DEF TypeOK, ToldTo
<1>2. [o \in Requests |-> ToldTo(o)]' = [[o \in Requests |-> ToldTo(o)] EXCEPT ![r] = ToldTo(r)']
  BY <1>1
<1> QED BY <1>2 DEF Promised!Open, Promised!Says, Promised!Untold, ToldTo

\* An answer that is OK and names an order with the key, or the request's own.
LEMMA ConfirmStep ==
  ASSUME TypeOK, NEW r \in Requests, pc[r] # "answered", Stored' = Stored,
         pc' = [pc EXCEPT ![r] = "answered"],
         \A o \in Requests \ {r} : answer'[o] = answer[o],
         answer'[r].code = "OK", answer'[r].order \in Stored,
         answer'[r].order = r \/ (Keyed(r) /\ Key[answer'[r].order] = Key[r])
  PROVE  Promised!Confirm(r)
<1> DEFINE d == answer'[r].order
<1>1. d \in Promised!Twins(r) \cap Stored
  BY DEF Promised!Twins, Keyed, Stored
<1>2. ToldTo(r)' = Promised!Done(d)
  BY DEF ToldTo, Promised!Done, TypeOK
<1>3. Promised!Open(r) /\ Promised!Says(r, Promised!Done(d))
  BY <1>2, AnswerTells
<1> QED BY <1>1, <1>3 DEF Promised!Confirm

\* A failed statement, before its transaction has stored anything.
LEMMA RollbackStep ==
  ASSUME TypeOK, NEW r \in Requests, pc[r] # "answered", Rollback(r)
  PROVE  Promised!Fail(r)
<1>1. ToldTo(r)' = Promised!Failed
  BY DEF Rollback, Answer, Goto, DbError, Error, ToldTo, Promised!Failed, TypeOK
<1>2. Stored' = Stored /\ pc' = [pc EXCEPT ![r] = "answered"] /\ \A o \in Requests \ {r} : answer'[o] = answer[o]
  BY DEF Rollback, Answer, Goto, Stored, TypeOK
<1> QED BY <1>1, <1>2, AnswerTells DEF Promised!Fail

\* Every step is one of Promise or none.
LEMMA NextPromised ==
  ASSUME IntakeAssumption, IInv, Placed, [Next]_vars
  PROVE  [Promised!Next]_(Promised!vars)
<1> USE DEF IInv
<1>1. ASSUME NEW r \in Requests, Receive(r) PROVE UNCHANGED Promised!vars
  BY <1>1, Stutters DEF Receive, Goto, Stored, ToldTo, TypeOK
<1>2. ASSUME NEW r \in Requests, GetIdempotencyResult(r) PROVE Promised!Confirm(r) \/ UNCHANGED Promised!vars
  <2>1. CASE Goto(r, "lookup") /\ UNCHANGED answer
    BY <1>2, <2>1, Stutters DEF GetIdempotencyResult, Goto, Stored, ToldTo, TypeOK
  <2>2. CASE cache[CacheKey(r)] # Miss /\ Answer(r, cache[CacheKey(r)])
    <3>1. Keyed(r) /\ CacheKey(r) \in Keys /\ CacheKey(r) = Key[r]
      BY <1>2 DEF GetIdempotencyResult, HandlersHold, Keyed, CacheKey, IntakeAssumption
    <3>2. /\ cache[CacheKey(r)].code = "OK" /\ cache[CacheKey(r)].order \in Stored
          /\ Key[cache[CacheKey(r)].order] = Key[r]
      BY <2>2, <3>1 DEF Placed, AnswersNameOrders, Names
    <3> QED BY <1>2, <2>2, <3>1, <3>2, ConfirmStep DEF GetIdempotencyResult, Answer, Goto, Stored, TypeOK
  <2> QED BY <1>2, <2>1, <2>2 DEF GetIdempotencyResult
<1>3. ASSUME NEW r \in Requests, NEW p \in Products, GetProduct(r, p)
      PROVE  Promised!Refuse(r) \/ Promised!Fail(r) \/ UNCHANGED Promised!vars
  <2>1. CASE UNCHANGED <<pc, answer>>
    BY <1>3, <2>1, Stutters DEF GetProduct, Stored, ToldTo
  <2>2. ASSUME NEW code \in {"NotFound", "FailedPrecondition", "Internal"}, Answer(r, Error(code))
        PROVE  Promised!Refuse(r) \/ Promised!Fail(r)
    <3>1. /\ r \notin Stored /\ Stored' = Stored /\ pc[r] # "answered"
          /\ pc' = [pc EXCEPT ![r] = "answered"] /\ \A o \in Requests \ {r} : answer'[o] = answer[o]
      BY <1>3, <2>2 DEF GetProduct, Placed, Early, Stored, Answer, Goto, TypeOK
    <3>2. ToldTo(r)' \in {Promised!Refused, Promised!Failed}
      BY <2>2 DEF Answer, Goto, Error, ToldTo, Promised!Refused, Promised!Failed, TypeOK
    <3> QED BY <3>1, <3>2, AnswerTells DEF Promised!Refuse, Promised!Fail
  <2> QED BY <1>3, <2>1, <2>2 DEF GetProduct
<1>4. ASSUME NEW r \in Requests, SelectByKey(r)
      PROVE  Promised!Confirm(r) \/ Promised!Fail(r) \/ UNCHANGED Promised!vars
  <2>1. ASSUME NEW o \in WithKey(Key[r]), Keyed(r), Answer(r, Ok(o)), UNCHANGED status PROVE Promised!Confirm(r)
    <3>1. o \in Stored /\ Key[o] = Key[r]
      BY DEF WithKey
    <3> QED BY <1>4, <2>1, <3>1, ConfirmStep DEF SelectByKey, Answer, Goto, Ok, Stored, TypeOK
  <2>2. CASE Goto(r, "insert") /\ UNCHANGED <<status, answer>>
    BY <1>4, <2>2, Stutters DEF SelectByKey, Goto, Stored, ToldTo, TypeOK
  <2>3. CASE Rollback(r)
    BY <1>4, <2>3, RollbackStep DEF SelectByKey
  <2> QED BY <1>4, <2>1, <2>2, <2>3 DEF SelectByKey
<1>5. ASSUME NEW r \in Requests, Insert(r) PROVE Promised!Fail(r) \/ UNCHANGED Promised!vars
  <2>1. CASE Goto(r, "items") /\ UNCHANGED <<status, answer>>
    BY <1>5, <2>1, Stutters DEF Insert, MayInsert, Goto, Stored, ToldTo, TypeOK
  <2>2. CASE Rollback(r)
    BY <1>5, <2>2, RollbackStep DEF Insert, MayInsert
  <2> QED BY <1>5, <2>1, <2>2 DEF Insert
<1>6. ASSUME NEW r \in Requests, Commit(r) PROVE Promised!Do(r) \/ Promised!Fail(r)
  <2>1. pc[r] = "items" /\ r \in open
    BY <1>6 DEF Commit, HandlersHold
  <2>2. CASE Rollback(r)
    BY <2>1, <2>2, RollbackStep
  <2>3. CASE status' = [status EXCEPT ![r] = Inserted]
    <3>1. Stored' = Stored \cup {r}
      BY <2>3 DEF Stored, Inserted, TypeOK
    <3>2. Promised!Twins(r) \cap Stored = {}
      BY <2>1 DEF Promised!Twins, IndexUnique, Keyed, Placed, Early, Stored
    <3>3. Promised!Does(r)
      BY <3>1, <3>2 DEF Promised!Does
    <3>4. CASE Goto(r, "saga") /\ UNCHANGED answer
      <4>1. \A o \in Requests : ToldTo(o)' = ToldTo(o)
        BY <2>1, <3>4 DEF Goto, ToldTo, TypeOK
      <4> QED BY <2>1, <3>3, <4>1 DEF Promised!Do, Promised!Open, Promised!Untold, ToldTo
    <3>5. CASE Answer(r, DbError)
      <4>1. ToldTo(r)' = Promised!Failed
        BY <3>5 DEF Answer, Goto, DbError, Error, ToldTo, Promised!Failed, TypeOK
      <4>2. Promised!Open(r) /\ Promised!Says(r, ToldTo(r)')
        BY <2>1, <3>5, AnswerTells DEF Answer, Goto, TypeOK
      <4> QED BY <3>3, <4>1, <4>2 DEF Promised!Fail
    <3> QED BY <1>6, <2>3, <3>4, <3>5, <2>2 DEF Commit
  <2> QED BY <1>6, <2>2, <2>3 DEF Commit
<1>7. ASSUME NEW r \in Requests, SagaWorks(r) \/ SagaEnds(r) PROVE UNCHANGED Promised!vars
  <2>1. r \in Stored
    BY <1>7 DEF SagaWorks, SagaEnds, HandlersHold
  <2> QED BY <1>7, <2>1, Stutters DEF SagaWorks, SagaEnds, Goto, Stored, ToldTo, TypeOK
<1>8. ASSUME NEW r \in Requests, GetOrder(r)
      PROVE  Promised!Confirm(r) \/ Promised!Fail(r) \/ UNCHANGED Promised!vars
  <2>1. r \in Stored /\ Stored' = Stored /\ pc[r] = "refetch"
    BY <1>8 DEF GetOrder, HandlersHold, Stored
  <2>2. CASE answer' = [answer EXCEPT ![r] = Ok(r)] /\ Goto(r, "set")
    BY <2>1, <2>2, Stutters DEF Goto, ToldTo, TypeOK
  <2>3. CASE answer' = [answer EXCEPT ![r] = Ok(r)] /\ Goto(r, "answered")
    BY <2>1, <2>3, ConfirmStep DEF Goto, Ok, TypeOK
  <2>4. CASE Answer(r, DbError)
    <3>1. ToldTo(r)' = Promised!Failed
      BY <2>4 DEF Answer, Goto, DbError, Error, ToldTo, Promised!Failed, TypeOK
    <3> QED BY <2>1, <2>4, <3>1, AnswerTells DEF Answer, Goto, TypeOK, Promised!Fail
  <2> QED BY <1>8, <2>2, <2>3, <2>4 DEF GetOrder
<1>9. ASSUME NEW r \in Requests, SetIdempotencyResult(r) PROVE Promised!Confirm(r)
  <2>1. /\ Keyed(r) /\ answer[r].code = "OK" /\ answer[r].order \in Stored
        /\ Key[answer[r].order] = Key[r]
    BY <1>9 DEF SetIdempotencyResult, HandlersHold, Placed, AnswersNameOrders, Names
  <2> QED BY <1>9, <2>1, ConfirmStep DEF SetIdempotencyResult, Goto, Stored, TypeOK
<1>10. ASSUME NEW r \in Requests, Resumed(r) \/ Cancelled(r) \/ ContextEnds(r) \/ Crash(r)
       PROVE  UNCHANGED Promised!vars
  BY <1>10, Stutters DEF Resumed, Cancelled, ContextEnds, Crash, Running, Goto, Stored, ToldTo, TypeOK
<1>11. ASSUME \/ \E k \in Keys : Expire(k)
              \/ \E p \in Products : CreateProduct(p) \/ UpdateProduct(p)
              \/ UNCHANGED vars
       PROVE  UNCHANGED Promised!vars
  BY <1>11, Stutters DEF Expire, CreateProduct, UpdateProduct, vars, Stored, ToldTo
<1> QED BY <1>1, <1>2, <1>3, <1>4, <1>5, <1>6, <1>7, <1>8, <1>9, <1>10, <1>11
        DEF Next, Step, Promised!Next

\* CreateOrder, with its cache, transaction and saga and whatever fails in them,
\* implements Promise: one order per key, placed while its client waits, and
\* answers that fit.
THEOREM IntakeKeepsPromise == Spec => KeepsPromise
<1>1. Init => Placed
  BY DEF Init, Placed, Stored
<1>2. IInv /\ Placed /\ [Next]_vars => Placed'
  BY NextPlaced, IntakeAssumption
<1>3. Init => Promised!Init
  BY DEF Init, Promised!Init, Stored, ToldTo, Promised!Untold
<1>4. IInv /\ Placed /\ [Next]_vars => [Promised!Next]_(Promised!vars)
  BY NextPromised, IntakeAssumption
<1> QED BY IntakeAssumption, InitIInv, NextIInv, <1>1, <1>2, <1>3, <1>4, PTL
        DEF Spec, KeepsPromise, Promised!Spec
=============================================================================
