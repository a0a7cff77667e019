----------------------------- MODULE OrderIntake -----------------------------
(***************************************************************************)
(* CreateOrder from the request to the answer: the idempotency cache in    *)
(* Redis, the product lookups, the transaction that inserts the order, the *)
(* saga, the second read and the write of the cache.  Requests run in      *)
(* parallel on any replica; requests with one key are duplicates.          *)
(*                                                                         *)
(* An order is named by the request that inserts it.  What the saga does   *)
(* is in OrderSaga; here it moves the order through the statuses it may    *)
(* leave behind.  Each fault in Faults may happen at every step.           *)
(* Promise says what all this comes to for the caller.                     *)
(***************************************************************************)
EXTENDS FiniteSets

CONSTANTS
  Requests,
  Keys, NoKey,      \* idempotency keys; NoKey for a request without one
  Key,              \* Key[r]: the idempotency key of request r
  Products, Items,  \* Items[r]: the products r asks for
  NoOrder,          \* no order
  Faults            \* the kinds of fault that happen, see FaultKinds

\* redis: a Redis command fails        call: GetProduct fails
\* db: a statement fails, or the answer to COMMIT is lost
\* context: the context of a request ends    crash: a handler dies
FaultKinds == {"redis", "call", "db", "context", "crash"}

ASSUME IntakeAssumption ==
  /\ NoKey \notin Keys /\ NoOrder \notin Requests
  /\ Key \in [Requests -> Keys \cup {NoKey}]
  /\ Items \in [Requests -> SUBSET Products]
  /\ Faults \subseteq FaultKinds

VARIABLES
  product,  \* a product is "unlisted", "active" or "inactive"
  status,   \* orders.status of the order a request inserts, "NONE" before
            \* its transaction commits
  open,     \* requests whose transaction has inserted and not yet ended
  cache,    \* what Redis holds for a key: an answer or Miss
  pc,       \* what a request does next
  unseen,   \* products a request has still to look up
  answer,   \* the answer of a request: a code, an order and its status
  ended     \* requests whose context has ended

vars == <<product, status, open, cache, pc, unseen, answer, ended>>

\* RESERVING, PAYING and CONFIRMING are one here.
Statuses == {"PENDING", "WORKING", "COMPLETED", "FAILED", "CANCELLED"}

Stored == {o \in Requests : status[o] # "NONE"}
WithKey(k) == {o \in Stored : Key[o] = k}
Keyed(r) == Key[r] # NoKey

Ok(o) == [code |-> "OK", order |-> o, status |-> status[o]]
Error(code) == [code |-> code, order |-> NoOrder, status |-> "NONE"]
Miss == Error("none")

Goto(r, s) == pc' = [pc EXCEPT ![r] = s]

Answer(r, a) ==
  /\ Goto(r, "answered")
  /\ answer' = [answer EXCEPT ![r] = a]

\* The context of r lives on; a call or statement of r fails.
Works(r) == r \notin ended
Fails(r, f) == f \in Faults \/ r \in ended

-----------------------------------------------------------------------------
(* Before the order exists *)

Receive(r) ==
  /\ pc[r] = "idle"
  /\ Goto(r, IF Keyed(r) THEN "cached" ELSE "lookup")
  /\ UNCHANGED <<product, status, open, cache, unseen, answer, ended>>

CacheKey(r) == Key[r]

\* A hit is the answer; a miss or an error of Redis goes on.
GetIdempotencyResult(r) ==
  /\ pc[r] = "cached"
  /\ LET hit == cache[CacheKey(r)] IN
       \/ hit # Miss /\ Works(r) /\ Answer(r, hit)
       \/ (hit = Miss \/ Fails(r, "redis")) /\ Goto(r, "lookup") /\ UNCHANGED answer
  /\ UNCHANGED <<product, status, open, cache, unseen, ended>>

GetProduct(r, p) ==
  /\ pc[r] = "lookup" /\ p \in unseen[r]
  /\ \/ /\ Works(r) /\ product[p] = "active"
        /\ unseen' = [unseen EXCEPT ![r] = @ \ {p}]
        /\ UNCHANGED <<pc, answer>>
     \/ /\ Works(r) /\ product[p] # "active"
        /\ Answer(r, Error(IF product[p] = "inactive" THEN "FailedPrecondition" ELSE "NotFound"))
        /\ UNCHANGED unseen
     \/ /\ Fails(r, "call")
        /\ Answer(r, Error("Internal"))
        /\ UNCHANGED unseen
  /\ UNCHANGED <<product, status, open, cache, ended>>

-----------------------------------------------------------------------------
(* Repository.CreateOrder: one transaction *)

\* Mutant of DbError: a statement that fails reads as a refusal.
DbErrorRefuses == Error("FailedPrecondition")

\* The answer when a statement fails, done or not.
DbError == Error("Internal")

\* Mutant of Rollback: the deferred Rollback is missing.
RollbackForgotten(r) ==
  /\ Answer(r, DbError)
  /\ UNCHANGED <<product, status, open, cache, unseen, ended>>

\* An error ends the transaction and the request.
Rollback(r) ==
  /\ Answer(r, DbError)
  /\ open' = open \ {r}
  /\ UNCHANGED <<product, status, cache, unseen, ended>>

\* The SELECT by key finds the order, which is the answer, or none.
SelectByKey(r) ==
  /\ pc[r] = "lookup" /\ unseen[r] = {}
  /\ \/ /\ Works(r) /\ Keyed(r)
        /\ \E o \in WithKey(Key[r]) : Answer(r, Ok(o))
        /\ UNCHANGED <<product, status, open, cache, unseen, ended>>
     \/ /\ Works(r) /\ (Keyed(r) => WithKey(Key[r]) = {})
        /\ Goto(r, "insert")
        /\ UNCHANGED <<product, status, open, cache, unseen, answer, ended>>
     \/ Fails(r, "db") /\ Rollback(r)

\* Mutant of Taken: no UNIQUE on idempotency_key.
NeverTaken(r) == FALSE

\* The unique index has an entry with the key of r; NULLs all differ.
Taken(r) == Keyed(r) /\ \E o \in Stored \cup open : Key[o] = Key[r]

\* The INSERT waits while another transaction has inserted the key.
MayInsert(r) == pc[r] = "insert" /\ (Keyed(r) => \A q \in open : Key[q] # Key[r])

Insert(r) ==
  /\ MayInsert(r)
  /\ \/ /\ Works(r) /\ ~ Taken(r)
        /\ open' = open \cup {r}
        /\ Goto(r, "items")
        /\ UNCHANGED <<product, status, cache, unseen, answer, ended>>
     \/ (Taken(r) \/ Fails(r, "db")) /\ Rollback(r)

\* Mutant of Inserted: the status column gets another name's value.
InsertedAs == "NEW"

\* The status of a new order.
Inserted == "PENDING"

\* The INSERTs of the items and COMMIT.  The order may be there although
\* the request is answered with an error.
Commit(r) ==
  /\ pc[r] = "items"
  /\ \/ /\ status' = [status EXCEPT ![r] = Inserted]
        /\ open' = open \ {r}
        /\ \/ Works(r) /\ Goto(r, "saga") /\ UNCHANGED answer
           \/ Fails(r, "db") /\ Answer(r, DbError)
        /\ UNCHANGED <<product, cache, unseen, ended>>
     \/ Fails(r, "db") /\ Rollback(r)

-----------------------------------------------------------------------------
(* The saga, and what else changes the order *)

SagaWorks(r) ==
  /\ pc[r] = "saga" /\ Works(r)
  /\ status[r] # "WORKING"
  /\ status' = [status EXCEPT ![r] = "WORKING"]
  /\ UNCHANGED <<product, open, cache, pc, unseen, answer, ended>>

\* Execute returns; CreateOrder drops its error.
SagaEnds(r) ==
  /\ pc[r] = "saga"
  /\ Goto(r, "refetch")
  /\ \/ Works(r) /\ \E s \in {"COMPLETED", "FAILED"} : status' = [status EXCEPT ![r] = s]
     \/ Fails(r, "db") /\ UNCHANGED status
  /\ UNCHANGED <<product, open, cache, unseen, answer, ended>>

\* The Resume of a replica fails the order of a handler that died, or of one
\* that runs on another replica.
Resumed(o) ==
  /\ pc[o] \in {"saga", "dead"} /\ o \in Stored
  /\ status' = [status EXCEPT ![o] = "FAILED"]
  /\ UNCHANGED <<product, open, cache, pc, unseen, answer, ended>>

\* The UPDATE of CancelOrder, whatever the saga has done since its SELECT.
Cancelled(o) ==
  /\ o \in Stored
  /\ status' = [status EXCEPT ![o] = "CANCELLED"]
  /\ UNCHANGED <<product, open, cache, pc, unseen, answer, ended>>

-----------------------------------------------------------------------------
(* After the saga *)

GetOrder(r) ==
  /\ pc[r] = "refetch"
  /\ \/ /\ Works(r)
        /\ answer' = [answer EXCEPT ![r] = Ok(r)]
        /\ Goto(r, IF Keyed(r) THEN "set" ELSE "answered")
     \/ Fails(r, "db") /\ Answer(r, DbError)
  /\ UNCHANGED <<product, status, open, cache, unseen, ended>>

SetIdempotencyResult(r) ==
  /\ pc[r] = "set"
  /\ Goto(r, "answered")
  /\ \/ Works(r) /\ cache' = [cache EXCEPT ![CacheKey(r)] = answer[r]]
     \/ Fails(r, "redis") /\ UNCHANGED cache
  /\ UNCHANGED <<product, status, open, unseen, answer, ended>>

-----------------------------------------------------------------------------
(* Environment *)

\* An entry is gone after 24 hours.
Expire(k) ==
  /\ cache' = [cache EXCEPT ![k] = Miss]
  /\ UNCHANGED <<product, status, open, pc, unseen, answer, ended>>

CreateProduct(p) ==
  /\ product[p] = "unlisted"
  /\ product' = [product EXCEPT ![p] = "active"]
  /\ UNCHANGED <<status, open, cache, pc, unseen, answer, ended>>

UpdateProduct(p) ==
  /\ product[p] # "unlisted"
  /\ \E flag \in {"active", "inactive"} : product' = [product EXCEPT ![p] = flag]
  /\ UNCHANGED <<status, open, cache, pc, unseen, answer, ended>>

Running(r) == pc[r] \notin {"idle", "answered", "dead"}

ContextEnds(r) ==
  /\ "context" \in Faults
  /\ Running(r)
  /\ ended' = ended \cup {r}
  /\ UNCHANGED <<product, status, open, cache, pc, unseen, answer>>

\* PostgreSQL rolls back the transaction of a connection that is gone.
Crash(r) ==
  /\ "crash" \in Faults
  /\ Running(r)
  /\ Goto(r, "dead")
  /\ open' = open \ {r}
  /\ UNCHANGED <<product, status, cache, unseen, answer, ended>>

-----------------------------------------------------------------------------

Init ==
  /\ product = [p \in Products |-> "unlisted"]
  /\ status = [o \in Requests |-> "NONE"]
  /\ open = {}
  /\ cache = [k \in Keys |-> Miss]
  /\ pc = [r \in Requests |-> "idle"]
  /\ unseen = Items
  /\ answer = [r \in Requests |-> Miss]
  /\ ended = {}

Step(r) ==
  \/ GetIdempotencyResult(r) \/ \E p \in Products : GetProduct(r, p)
  \/ SelectByKey(r) \/ Insert(r) \/ Commit(r)
  \/ SagaWorks(r) \/ SagaEnds(r) \/ GetOrder(r) \/ SetIdempotencyResult(r)

Next ==
  \/ \E r \in Requests :
        Receive(r) \/ Step(r) \/ Resumed(r) \/ Cancelled(r) \/ ContextEnds(r) \/ Crash(r)
  \/ \E k \in Keys : Expire(k)
  \/ \E p \in Products : CreateProduct(p) \/ UpdateProduct(p)

\* A handler goes on whenever it is not waiting for a lock, and the saga
\* returns (OrderSaga).
Fairness == \A r \in Requests : WF_vars(Step(r)) /\ WF_vars(SagaEnds(r))

Spec == Init /\ [][Next]_vars
FairSpec == Spec /\ Fairness

-----------------------------------------------------------------------------
(* Properties *)

Steps == {"idle", "cached", "lookup", "insert", "items", "saga", "refetch", "set",
          "answered", "dead"}
Answers == [code : {"none", "OK", "NotFound", "FailedPrecondition", "Internal"},
            order : Requests \cup {NoOrder}, status : Statuses \cup {"NONE"}]

\* Every variable keeps its type.
TypeOK ==
  /\ product \in [Products -> {"unlisted", "active", "inactive"}]
  /\ status \in [Requests -> Statuses \cup {"NONE"}]
  /\ open \subseteq Requests
  /\ cache \in [Keys -> Answers]
  /\ pc \in [Requests -> Steps]
  /\ unseen \in [Requests -> SUBSET Products]
  /\ answer \in [Requests -> Answers]
  /\ ended \subseteq Requests

\* However many requests carry a key at once, and whatever fails, there is
\* one order with it, and so one saga.
OneOrderPerKey ==
  \A o, q \in Stored : Keyed(o) /\ Key[o] = Key[q] => o = q

Accepted(k) == {r \in Requests : pc[r] = "answered" /\ answer[r].code = "OK" /\ Key[r] = k}

\* What an answer says of the order, in the terms of Promise.
ToldTo(r) ==
  LET code == answer[r].code IN
    IF pc[r] # "answered" THEN [as |-> "untold", by |-> NoOrder]
    ELSE CASE code = "OK" -> [as |-> "done", by |-> answer[r].order]
           [] code \in {"NotFound", "FailedPrecondition"} -> [as |-> "refused", by |-> NoOrder]
           [] OTHER -> [as |-> "failed", by |-> NoOrder]

\* The cache, the SELECT and the handler that runs the saga never tell the
\* clients of one key different orders.
AnswersAgree ==
  \A k \in Keys : \A r, q \in Accepted(k) : answer[r].order = answer[q].order

Promised == INSTANCE Promise WITH
  Calls <- Requests, NoCall <- NoOrder, key <- Key, done <- Stored,
  told <- [r \in Requests |-> ToldTo(r)]

\* CreateOrder keeps the promise of Promise: an order is placed once for a key
\* and while its client waits, an answer names an order that is there, and a
\* NotFound or FailedPrecondition means that this request placed none.
KeepsPromise == Promised!Spec

\* Every request is answered, although INSERTs wait for each other.
EveryRequestAnswered ==
  \A r \in Requests : pc[r] # "idle" ~> pc[r] \in {"answered", "dead"}

-----------------------------------------------------------------------------
(* Promises of documents and comments that the code does not keep *)

\* Duplicate requests return the original order.
DuplicatesAnswered ==
  \A r \in Requests : answer[r].code # "Internal"

\* ... also when a product was deactivated since: a refused duplicate has no
\* original.
RefusedHasNoOrder ==
  \A r \in Requests :
    Keyed(r) /\ answer[r].code = "FailedPrecondition" => WithKey(Key[r]) = {}
=============================================================================
