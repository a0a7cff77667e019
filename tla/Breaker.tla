------------------------------- MODULE Breaker -------------------------------
(***************************************************************************)
(* The gRPC client of the inventory service: the retry interceptor around  *)
(* the circuit breaker that all calls of a process share.                  *)
(*                                                                         *)
(* The breaker is sony/gobreaker: a count of consecutive failures while it *)
(* is closed, a number of probes while it is half-open, and results of an  *)
(* earlier generation are ignored, so a generation is kept as the set of   *)
(* its calls in flight.  Time passes in nanoseconds, the unit in which the *)
(* code gives the breaker's timeout.                                       *)
(***************************************************************************)
EXTENDS Integers

CONSTANTS
  Callers,      \* calls to the service; with Reuse a caller calls again
  Reuse,
  Replies,      \* codes of the service while it is up
  MaxRetries,   \* DialOptions.MaxRetries
  Second        \* bound: nanoseconds in a second, as far as runs count them

\* Codes of the service: success, an error that is its answer (NotFound,
\* FailedPrecondition ...), a transient error.  Rejected is the Unavailable
\* of the breaker itself.
Codes == {"OK", "NotFound", "Unavailable"}

\* Settings of NewCircuitBreaker.
MaxRequests == 3
Timeout == 10

BreakerConstants ==
  /\ Reuse \in BOOLEAN
  /\ Replies \subseteq {"OK", "NotFound"} /\ Replies # {}
  /\ MaxRetries \in Nat
  /\ Second \in Nat /\ Timeout < 10 * Second

ASSUME BreakerAssumption == BreakerConstants

VARIABLES
  state,      \* of the breaker
  failures,   \* consecutive failures, while it is closed
  probes,     \* requests admitted since it is half-open
  successes,  \* how many of these succeeded
  current,    \* calls in flight that were admitted in this generation
  age,        \* nanoseconds since it opened, counted up to ten seconds
  pc, code,   \* what a call does next, and how its last attempt ended
  tries,      \* retries of a call
  foreign,    \* callers whose call did not cause all the failures counted
  up          \* does the service answer?

breaker == <<state, failures, probes, successes, current, age, foreign>>
vars == <<breaker, pc, code, tries, up>>

TripsAt(n) == n >= 5

Expired == age > Timeout

-----------------------------------------------------------------------------
(* The call and its retries *)

Transient == {"Unavailable", "Rejected"}

\* Mutant of MayRetry: one attempt more.
OneMore(c) == tries[c] <= MaxRetries

MayRetry(c) == tries[c] < MaxRetries

\* The attempt of c ended with error or success x.
Returns(c, x) ==
  /\ code' = [code EXCEPT ![c] = x]
  /\ pc' = [pc EXCEPT ![c] = IF x \in Transient /\ MayRetry(c) THEN "backoff" ELSE "done"]

Call(c) ==
  /\ pc[c] \in IF Reuse THEN {"idle", "done"} ELSE {"idle"}
  /\ pc' = [pc EXCEPT ![c] = "attempt"]
  /\ code' = [code EXCEPT ![c] = "none"]
  /\ tries' = [tries EXCEPT ![c] = 0]
  /\ foreign' = IF failures > 0 THEN foreign \cup {c} ELSE foreign
  /\ UNCHANGED <<state, failures, probes, successes, current, age, up>>

\* Mutant of Retry: the attempt is not counted.
RetryUncounted(c) ==
  /\ pc[c] = "backoff"
  /\ pc' = [pc EXCEPT ![c] = "attempt"]
  /\ UNCHANGED <<breaker, tries, code, up>>

\* The delay is over.
Retry(c) ==
  /\ pc[c] = "backoff"
  /\ pc' = [pc EXCEPT ![c] = "attempt"]
  /\ tries' = [tries EXCEPT ![c] = @ + 1]
  /\ UNCHANGED <<breaker, code, up>>

\* The context ends during the delay.
GiveUp(c) ==
  /\ pc[c] = "backoff"
  /\ pc' = [pc EXCEPT ![c] = "done"]
  /\ UNCHANGED <<breaker, code, tries, up>>

-----------------------------------------------------------------------------
(* The circuit breaker *)

Send(c) == pc' = [pc EXCEPT ![c] = "sent"] /\ UNCHANGED <<code, tries, up>>

AdmitClosed(c) ==
  /\ pc[c] = "attempt" /\ state = "closed"
  /\ current' = current \cup {c}
  /\ Send(c)
  /\ UNCHANGED <<state, failures, probes, successes, age, foreign>>

\* The first call after the timeout finds the breaker half-open.
AdmitFirstProbe(c) ==
  /\ pc[c] = "attempt" /\ state = "open" /\ Expired
  /\ state' = "half-open"
  /\ current' = {c}
  /\ probes' = 1 /\ successes' = 0
  /\ Send(c)
  /\ UNCHANGED <<failures, age, foreign>>

AdmitProbe(c) ==
  /\ pc[c] = "attempt" /\ state = "half-open" /\ probes < MaxRequests
  /\ current' = current \cup {c}
  /\ probes' = probes + 1
  /\ Send(c)
  /\ UNCHANGED <<state, failures, successes, age, foreign>>

Reject(c) ==
  /\ pc[c] = "attempt"
  /\ \/ state = "open" /\ ~ Expired
     \/ state = "half-open" /\ probes >= MaxRequests
  /\ Returns(c, "Rejected")
  /\ UNCHANGED <<breaker, tries, up>>

\* A call that got an answer, or none before its deadline.
Answered(c, x) ==
  /\ pc[c] = "sent"
  /\ x \in IF up THEN Replies ELSE Codes
  /\ pc' = [pc EXCEPT ![c] = "answered"]
  /\ code' = [code EXCEPT ![c] = x]
  /\ UNCHANGED <<breaker, tries, up>>

\* A generation begins with all counts at zero.
Become(s) ==
  /\ state' = s
  /\ failures' = 0 /\ probes' = 0 /\ successes' = 0
  /\ current' = {} /\ foreign' = {}
  /\ age' = 0

\* Mutant of Counted: nothing counts as a success.
CountedBad(x) == "failure"

\* The interceptor returns an error to the breaker for every error, wrapped
\* or not, and the breaker counts every error.
Counted(x) == IF x = "OK" THEN "success" ELSE "failure"

Success(c) ==
  /\ Counted(code[c]) = "success"
  /\ \/ /\ state = "closed"
        /\ failures' = 0 /\ foreign' = {}
        /\ current' = current \ {c}
        /\ UNCHANGED <<state, probes, successes, age>>
     \/ /\ state = "half-open" /\ successes + 1 < MaxRequests
        /\ successes' = successes + 1
        /\ current' = current \ {c}
        /\ UNCHANGED <<state, failures, probes, age, foreign>>
     \/ state = "half-open" /\ successes + 1 >= MaxRequests /\ Become("closed")

Failure(c) ==
  /\ Counted(code[c]) = "failure"
  /\ \/ /\ state = "closed" /\ ~ TripsAt(failures + 1)
        /\ failures' = failures + 1 /\ foreign' = foreign \cup (Callers \ {c})
        /\ current' = current \ {c}
        /\ UNCHANGED <<state, probes, successes, age>>
     \/ state = "closed" /\ TripsAt(failures + 1) /\ Become("open")
     \/ state = "half-open" /\ Become("open")

\* The breaker records the result, unless it is of an earlier generation.
Record(c) ==
  /\ pc[c] = "answered"
  /\ \/ c \in current /\ (Success(c) \/ Failure(c))
     \/ c \notin current /\ UNCHANGED breaker
  /\ Returns(c, code[c])
  /\ UNCHANGED <<tries, up>>

-----------------------------------------------------------------------------
(* Environment *)

Tick ==
  /\ state = "open" /\ age < 10 * Second
  /\ age' = age + 1
  /\ UNCHANGED <<state, failures, probes, successes, current, foreign, pc, code, tries, up>>

GoesUpOrDown == up' = ~ up /\ UNCHANGED <<breaker, pc, code, tries>>

Init ==
  /\ state = "closed" /\ failures = 0 /\ probes = 0 /\ successes = 0
  /\ current = {} /\ foreign = {} /\ age = 0
  /\ pc = [c \in Callers |-> "idle"]
  /\ code = [c \in Callers |-> "none"]
  /\ tries = [c \in Callers |-> 0]
  /\ up \in BOOLEAN

Step(c) ==
  \/ AdmitClosed(c) \/ AdmitFirstProbe(c) \/ AdmitProbe(c) \/ Reject(c)
  \/ \E x \in Codes : Answered(c, x)
  \/ Record(c) \/ Retry(c) \/ GiveUp(c)

Next ==
  \/ \E c \in Callers : Call(c) \/ Step(c)
  \/ Tick \/ GoesUpOrDown

\* A call goes on: gRPC answers or fails it, its delay ends.  Time passes.
Fairness == WF_vars(Tick) /\ \A c \in Callers : WF_vars(Step(c))

Spec == Init /\ [][Next]_vars
FairSpec == Spec /\ Fairness

\* New requests keep coming.
BusySpec == FairSpec /\ \A c \in Callers : WF_vars(Call(c))

-----------------------------------------------------------------------------
(* Properties *)

\* Every variable keeps its type.
TypeOK ==
  /\ state \in {"closed", "open", "half-open"}
  /\ failures \in 0 .. 4
  /\ probes \in 0 .. MaxRequests /\ successes \in 0 .. MaxRequests
  /\ current \subseteq Callers /\ foreign \subseteq Callers
  /\ age \in 0 .. 10 * Second
  /\ pc \in [Callers -> {"idle", "attempt", "sent", "answered", "backoff", "done"}]
  /\ code \in [Callers -> Codes \cup {"none", "Rejected"}]
  /\ tries \in [Callers -> Nat]
  /\ up \in BOOLEAN

\* The retries of one call do not trip the breaker for all: whenever a call
\* trips it, some of the failures counted were of other calls.
OneCallCannotTrip ==
  [][state = "closed" /\ state' = "open" =>
       \A c \in Callers : pc[c] = "answered" /\ pc'[c] # "answered" => c \in foreign]_vars

\* Every call returns, whatever the breaker and the service do.
EveryCallEnds ==
  \A c \in Callers : pc[c] = "attempt" ~> pc[c] = "done"

\* When the service stays up and answers without error, the breaker closes,
\* however often probes met a service that was down.
Healthy == up /\ \A c \in Callers : code[c] # "NotFound"

Recovers == <>[]Healthy => <>[](state = "closed")

-----------------------------------------------------------------------------
(* Promises of documents and comments that the code does not keep *)

\* Only transient errors trip the breaker.
TripsOnTransientOnly ==
  [][state = "closed" /\ state' = "open" =>
       \E c \in Callers : pc[c] = "answered" /\ pc'[c] # "answered" /\ code[c] = "Unavailable"]_vars

\* The breaker stays open for ten seconds before it tries half-open.
FailsFastForTenSeconds ==
  [][state = "open" /\ state' = "half-open" => age >= 10 * Second]_vars

\* Retries stop when the circuit opens.
RetriesStopWhenOpen ==
  [][\A c \in Callers : pc[c] = "backoff" /\ code[c] = "Rejected" => pc'[c] # "attempt"]_vars
=============================================================================
