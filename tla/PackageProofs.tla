---------------------------- MODULE PackageProofs ----------------------------
(***************************************************************************)
(* Proofs about the two packages of pkg/ that keep state of their own, for *)
(* any clients, callers and retries: the lock of pkg/redis, which one      *)
(* client has as long as no TTL has ended in its hands, and the circuit    *)
(* breaker of pkg/grpcutil, which the retries of one call do not trip.     *)
(***************************************************************************)
EXTENDS RedisLock, Integers, TLAPS

-----------------------------------------------------------------------------
(* The lock *)

\* Whoever holds the lock has set the key, and it is still there.  Without
\* this the release of one client could delete the key of another.
HoldersKey ==
  /\ TypeOK
  /\ ~ overrun => \A c \in Clients : pc[c] = "holding" => key = c

\* It holds initially.
LEMMA InitHoldersKey == Init => HoldersKey
<1> SUFFICES ASSUME Init PROVE HoldersKey
  OBVIOUS
<1>1. overrun \in BOOLEAN /\ Nobody \notin Clients
  BY LockAssumption DEF Init
<1>2. tries \in [Clients -> 0 .. MaxRetries]
  BY LockAssumption DEF Init
<1> QED BY <1>1, <1>2 DEF Init, HoldersKey, TypeOK, Holders

\* Every step keeps it.
LEMMA NextHoldersKey == HoldersKey /\ [Next]_vars => HoldersKey'
<1> SUFFICES ASSUME HoldersKey, [Next]_vars PROVE HoldersKey'
  OBVIOUS
<1> USE DEF HoldersKey, TypeOK, Holders, Goto
<1>1. ASSUME NEW c \in Clients, LockWithRetry(c) PROVE HoldersKey'
  <2>1. tries' \in [Clients -> 0 .. MaxRetries]
    BY <1>1, LockAssumption DEF LockWithRetry
  <2> QED BY <1>1, <2>1 DEF LockWithRetry
<1>2. ASSUME NEW c \in Clients, Acquire(c) PROVE HoldersKey'
  BY <1>2, LockAssumption DEF Acquire, MaySet
<1>3. ASSUME NEW c \in Clients, Refused(c) PROVE HoldersKey'
  <2> SUFFICES tries' \in [Clients -> 0 .. MaxRetries]
    BY <1>3 DEF Refused
  <2> QED BY <1>3, LockAssumption DEF Refused, Retried
<1>4. ASSUME NEW c \in Clients, LockFails(c) PROVE HoldersKey'
  BY <1>4, LockAssumption DEF LockFails, MaySet
<1>5. ASSUME NEW c \in Clients, Release(c) PROVE HoldersKey'
  BY <1>5 DEF Release, Deleted
<1>6. CASE Expire
  BY <1>6 DEF Expire
<1>7. CASE UNCHANGED vars
  BY <1>7 DEF vars
<1> QED BY <1>1, <1>2, <1>3, <1>4, <1>5, <1>6, <1>7 DEF Next

\* One client has the lock as long as no TTL has ended in the hands of its
\* client.
THEOREM LockExcludes == Spec => []OneHolder
<1>1. HoldersKey => OneHolder
  BY DEF HoldersKey, OneHolder, Holders
<1> QED BY InitHoldersKey, <1>1, NextHoldersKey, PTL DEF Spec

\* No client tries more often than MaxRetries allows, and only a client that has
\* the lock has outlived its TTL.
THEOREM LockTyped == Spec => []TypeOK
<1>1. HoldersKey => TypeOK
  BY DEF HoldersKey
<1> QED BY InitHoldersKey, <1>1, NextHoldersKey, PTL DEF Spec

-----------------------------------------------------------------------------
(* The breaker *)

CONSTANTS Callers, Reuse, Replies, CallRetries, Second
VARIABLES state, failures, probes, successes, current, age, step, code, retries, foreign, up

CB == INSTANCE Breaker WITH MaxRetries <- CallRetries, pc <- step, tries <- retries

\* The attempts of the call of c that have ended.
Attempts(c) == IF step[c] \in {"backoff", "done"} THEN retries[c] + 1 ELSE retries[c]

\* A call uses no more retries than it has, and one that may have caused every
\* failure counted has ended as many attempts.  Without the second part nothing
\* would relate the failures counted to the retries of a call.
OwnFailures ==
  /\ \A c \in Callers : retries[c] <= CallRetries
  /\ \A c \in Callers : step[c] = "backoff" => retries[c] < CallRetries
  /\ \A c \in Callers : step[c] = "answered" => code[c] \in CB!Codes
  /\ \A c \in Callers \ foreign : failures <= Attempts(c)

\* It holds initially.
LEMMA InitBreaker ==
  ASSUME CB!BreakerConstants
  PROVE  CB!Init => CB!TypeOK /\ OwnFailures
  BY DEF CB!BreakerConstants, CB!Init, CB!TypeOK, OwnFailures, Attempts, CB!MaxRequests

\* How the result of call c changes the breaker.
Recorded(c) ==
  /\ state' \in {"closed", "open", "half-open"}
  /\ failures' \in 0 .. 4
  /\ probes' \in 0 .. CB!MaxRequests /\ successes' \in 0 .. CB!MaxRequests
  /\ current' \subseteq Callers /\ foreign' \subseteq Callers
  /\ age' \in 0 .. 10 * Second
  /\ \/ failures' = 0
     \/ failures' = failures /\ foreign' = foreign
     \/ failures' = failures + 1 /\ foreign' = foreign \cup (Callers \ {c})

LEMMA RecordedResult ==
  ASSUME CB!BreakerConstants, CB!TypeOK, NEW c \in Callers, CB!Success(c) \/ CB!Failure(c)
  PROVE  Recorded(c)
<1> USE DEF CB!BreakerConstants, CB!TypeOK, CB!MaxRequests, Recorded
<1>1. 0 \in 0 .. 10 * Second
  OBVIOUS
<1>2. CASE CB!Success(c)
  BY <1>1, <1>2 DEF CB!Success, CB!Become
<1>3. CASE CB!Failure(c)
  BY <1>1, <1>3 DEF CB!Failure, CB!Become, CB!TripsAt
<1> QED BY <1>2, <1>3

\* What a call that returns an error or success does next.
LEMMA ReturnsTyped ==
  ASSUME CB!TypeOK, NEW c \in Callers, NEW x \in CB!Codes \cup {"Rejected"},
         CB!Returns(c, x)
  PROVE  /\ step' \in [Callers -> {"idle", "attempt", "sent", "answered", "backoff", "done"}]
         /\ code' \in [Callers -> CB!Codes \cup {"none", "Rejected"}]
         /\ step'[c] \in {"backoff", "done"}
         /\ step'[c] = "backoff" => retries[c] < CallRetries
         /\ \A d \in Callers \ {c} : step'[d] = step[d]
  BY DEF CB!TypeOK, CB!Returns, CB!MayRetry, CB!Codes

\* Every step keeps it.
LEMMA NextBreaker ==
  ASSUME CB!BreakerConstants
  PROVE  CB!TypeOK /\ OwnFailures /\ [CB!Next]_(CB!vars) => CB!TypeOK' /\ OwnFailures'
<1> SUFFICES ASSUME CB!TypeOK, OwnFailures, [CB!Next]_(CB!vars)
             PROVE  CB!TypeOK' /\ OwnFailures'
  OBVIOUS
<1> USE DEF CB!TypeOK, OwnFailures, Attempts
<1>1. ASSUME NEW c \in Callers, CB!Call(c) PROVE CB!TypeOK' /\ OwnFailures'
  BY <1>1 DEF CB!BreakerConstants, CB!Call
<1>2. ASSUME NEW c \in Callers, CB!Retry(c) \/ CB!GiveUp(c) PROVE CB!TypeOK' /\ OwnFailures'
  BY <1>2 DEF CB!BreakerConstants, CB!Retry, CB!GiveUp, CB!breaker
<1>3. ASSUME NEW c \in Callers, CB!AdmitClosed(c) \/ CB!AdmitFirstProbe(c) \/ CB!AdmitProbe(c)
      PROVE  CB!TypeOK' /\ OwnFailures'
  BY <1>3 DEF CB!AdmitClosed, CB!AdmitFirstProbe, CB!AdmitProbe, CB!Send, CB!MaxRequests
<1>4. ASSUME NEW c \in Callers, CB!Reject(c) PROVE CB!TypeOK' /\ OwnFailures'
  <2>1. CB!Returns(c, "Rejected") /\ step[c] = "attempt"
        /\ UNCHANGED <<state, failures, probes, successes, current, age, foreign, retries, up>>
    BY <1>4 DEF CB!Reject, CB!breaker
  <2>2. /\ step' \in [Callers -> {"idle", "attempt", "sent", "answered", "backoff", "done"}]
        /\ code' \in [Callers -> CB!Codes \cup {"none", "Rejected"}]
        /\ step'[c] \in {"backoff", "done"} /\ (step'[c] = "backoff" => retries[c] < CallRetries)
        /\ \A d \in Callers \ {c} : step'[d] = step[d]
    BY <2>1, ReturnsTyped
  <2>3. \A d \in Callers \ {c} : code'[d] = code[d]
    BY <2>1 DEF CB!Returns
  <2> QED BY <2>1, <2>2, <2>3
<1>5. ASSUME NEW c \in Callers, NEW x \in CB!Codes, CB!Answered(c, x)
      PROVE  CB!TypeOK' /\ OwnFailures'
  BY <1>5 DEF CB!Answered, CB!breaker
<1>6. ASSUME NEW c \in Callers, CB!Record(c) PROVE CB!TypeOK' /\ OwnFailures'
  <2>1. /\ code[c] \in CB!Codes \cup {"Rejected"} /\ CB!Returns(c, code[c]) /\ step[c] = "answered"
        /\ UNCHANGED <<retries, up>>
    BY <1>6 DEF CB!Record
  <2>2. /\ step' \in [Callers -> {"idle", "attempt", "sent", "answered", "backoff", "done"}]
        /\ code' \in [Callers -> CB!Codes \cup {"none", "Rejected"}]
        /\ step'[c] \in {"backoff", "done"} /\ (step'[c] = "backoff" => retries[c] < CallRetries)
        /\ \A d \in Callers \ {c} : step'[d] = step[d]
    BY <2>1, ReturnsTyped
  <2>3. \A d \in Callers \ {c} : code'[d] = code[d]
    BY <2>1 DEF CB!Returns
  <2>4. CASE CB!Success(c) \/ CB!Failure(c)
    <3>1. Recorded(c)
      BY <2>4, RecordedResult
    <3>2. CB!TypeOK'
      BY <2>1, <2>2, <3>1 DEF Recorded
    <3>3. \A d \in Callers \ foreign' : failures' <= Attempts(d)'
      BY <2>1, <2>2, <3>1 DEF Recorded
    <3> QED BY <2>1, <2>2, <2>3, <3>2, <3>3
  <2>5. CASE UNCHANGED CB!breaker
    BY <2>1, <2>2, <2>3, <2>5 DEF CB!breaker
  <2> QED BY <1>6, <2>4, <2>5 DEF CB!Record
<1>7. CASE CB!Tick
  BY <1>7 DEF CB!BreakerConstants, CB!Tick
<1>8. CASE CB!GoesUpOrDown
  BY <1>8 DEF CB!GoesUpOrDown, CB!breaker
<1>9. CASE UNCHANGED CB!vars
  BY <1>9 DEF CB!vars, CB!breaker
<1> QED BY <1>1, <1>2, <1>3, <1>4, <1>5, <1>6, <1>7, <1>8, <1>9 DEF CB!Next, CB!Step

\* The counts of the breaker stay below their limits: it never counts a fifth
\* failure, nor more probes or successes than MaxRequests.
THEOREM BreakerTyped ==
  ASSUME CB!BreakerConstants
  PROVE  CB!Spec => []CB!TypeOK
  BY InitBreaker, NextBreaker, PTL DEF CB!Spec

\* The retries of one call do not trip the breaker for all, as long as a call
\* makes fewer attempts than it takes failures: four are less than five.
THEOREM TripsTakeTwo ==
  ASSUME CB!BreakerConstants, \A n \in Nat : CB!TripsAt(n) => CallRetries + 1 < n
  PROVE  CB!Spec => CB!OneCallCannotTrip
<1> DEFINE Trip == state = "closed" /\ state' = "open" =>
             \A c \in Callers : step[c] = "answered" /\ step'[c] # "answered" => c \in foreign
<1>1. ASSUME CB!TypeOK, OwnFailures, CB!Next PROVE Trip
  <2> SUFFICES ASSUME state = "closed", state' = "open",
                      NEW c \in Callers, step[c] = "answered", step'[c] # "answered"
               PROVE  c \in foreign
    OBVIOUS
  <2>1. PICK d \in Callers : CB!Record(d)
    BY <1>1 DEF CB!Next, CB!Step, CB!Call, CB!AdmitClosed, CB!AdmitFirstProbe,
                CB!AdmitProbe, CB!Reject, CB!Answered, CB!Retry, CB!GiveUp, CB!Tick,
                CB!GoesUpOrDown, CB!breaker
  <2>2. d = c
    BY <1>1, <2>1 DEF CB!Record, CB!Returns, CB!TypeOK
  <2>3. CB!Failure(c) /\ CB!TripsAt(failures + 1)
    BY <2>1, <2>2 DEF CB!Record, CB!Success, CB!Failure, CB!Become, CB!breaker
  <2>4. CallRetries + 1 < failures + 1
    BY <1>1, <2>3 DEF CB!TypeOK
  <2> QED BY <1>1, <2>4 DEF CB!BreakerConstants, CB!TypeOK, OwnFailures, Attempts
<1>2. CB!TypeOK /\ OwnFailures /\ [CB!Next]_(CB!vars) => [Trip]_(CB!vars)
  BY <1>1
<1> QED BY InitBreaker, NextBreaker, <1>2, PTL DEF CB!Spec, CB!OneCallCannotTrip
=============================================================================
