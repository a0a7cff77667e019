------------------------------ MODULE RedisLock ------------------------------
(***************************************************************************)
(* pkg/redis: Lock, LockWithRetry and the release function, on one key.    *)
(* The key has a value that is the same for all, and a TTL.                *)
(***************************************************************************)
EXTENDS Naturals

CONSTANTS
  Clients,
  MaxRetries,  \* what LockWithRetry is asked for
  Nobody       \* the key does not exist

ASSUME LockAssumption == MaxRetries \in Nat /\ Nobody \notin Clients

VARIABLES
  key,      \* the client that set the key, or Nobody
  pc,       \* what a client does
  tries,    \* retries of a client's LockWithRetry
  refused,  \* clients that failed because another had the lock
  lapsed,   \* holders whose TTL is over
  overrun   \* has a TTL ever ended in the hands of a client?

vars == <<key, pc, tries, refused, lapsed, overrun>>

Goto(c, s) == pc' = [pc EXCEPT ![c] = s]

-----------------------------------------------------------------------------

LockWithRetry(c) ==
  /\ pc[c] \in {"idle", "released", "failed"}
  /\ Goto(c, "lock")
  /\ tries' = [tries EXCEPT ![c] = 0]
  /\ refused' = refused \ {c}
  /\ UNCHANGED <<key, lapsed, overrun>>

\* Mutant of MaySet: SET without NX.
SetsAlways == TRUE

\* SET NX
MaySet == key = Nobody

Acquire(c) ==
  /\ pc[c] = "lock" /\ MaySet
  /\ key' = c
  /\ Goto(c, "holding")
  /\ UNCHANGED <<tries, refused, lapsed, overrun>>

\* What Lock returns if SET NX had no effect. Redis answers nil, which
\* SetArgs returns as the error redis.Nil and Lock before it looks at ok.
LockError == "redis.Nil"

Retried(c) == LockError = "ErrLockNotAcquired" /\ tries[c] < MaxRetries

Refused(c) ==
  /\ pc[c] = "lock" /\ ~ MaySet
  /\ IF Retried(c)
       THEN tries' = [tries EXCEPT ![c] = @ + 1] /\ UNCHANGED <<pc, refused>>
       ELSE Goto(c, "failed") /\ refused' = refused \cup {c} /\ UNCHANGED <<tries>>
  /\ UNCHANGED <<key, lapsed, overrun>>

\* An error of Redis, after which the key may have been set.
LockFails(c) ==
  /\ pc[c] = "lock"
  /\ Goto(c, "failed")
  /\ key' \in IF MaySet THEN {key, c} ELSE {key}
  /\ UNCHANGED <<tries, refused, lapsed, overrun>>

Deleted == Nobody

\* DEL, whoever has set the key; an error is ignored.
Release(c) ==
  /\ pc[c] = "holding"
  /\ key' \in {Deleted, key}
  /\ Goto(c, "released")
  /\ lapsed' = lapsed \ {c}
  /\ UNCHANGED <<tries, refused, overrun>>

\* The TTL ends: Redis removes the key; who set it does not notice.
Expire ==
  /\ key # Nobody
  /\ key' = Nobody
  /\ lapsed' = lapsed \cup {c \in {key} : pc[c] = "holding"}
  /\ overrun' = (overrun \/ pc[key] = "holding")
  /\ UNCHANGED <<pc, tries, refused>>

Init ==
  /\ key = Nobody
  /\ pc = [c \in Clients |-> "idle"]
  /\ tries = [c \in Clients |-> 0]
  /\ refused = {} /\ lapsed = {} /\ overrun = FALSE

Next ==
  \/ \E c \in Clients :
       LockWithRetry(c) \/ Acquire(c) \/ Refused(c) \/ LockFails(c) \/ Release(c)
  \/ Expire

Spec == Init /\ [][Next]_vars

-----------------------------------------------------------------------------
(* Properties *)

Holders == {c \in Clients : pc[c] = "holding"}

\* Every variable keeps its type.
TypeOK ==
  /\ key \in Clients \cup {Nobody}
  /\ pc \in [Clients -> {"idle", "lock", "holding", "released", "failed"}]
  /\ tries \in [Clients -> 0..MaxRetries]
  /\ refused \subseteq Clients
  /\ lapsed \subseteq Holders
  /\ overrun \in BOOLEAN

\* As long as no TTL has ended in the hands of its client, one client has the
\* lock, whatever answers and releases are lost.
OneHolder == ~ overrun => \A c, d \in Holders : c = d

-----------------------------------------------------------------------------
(* Promises of documents and comments that the code does not keep *)

\* A client that acquired the lock has it until its TTL is over.
HeldUntilTTL == \A c, d \in Holders \ lapsed : c = d

\* LockWithRetry gives up on a lock that another client has when it has used
\* its retries, not before.
RefusedRetries == \A c \in refused : tries[c] = MaxRetries
=============================================================================
