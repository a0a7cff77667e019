------------------------------- MODULE Promise -------------------------------
(***************************************************************************)
(* What a service promises the callers of its RPCs, with no statement, no  *)
(* saga and no fault in sight: a call does its work once or not at all, and*)
(* what its caller is told fits what was done.  Calls with one key are     *)
(* duplicates: one of them does the work for all.                          *)
(***************************************************************************)
CONSTANTS
  Calls,
  NoKey,    \* of a call that has no duplicates
  NoCall    \* no call

VARIABLES
  key,      \* key[c]: the idempotency key of call c, which does not change
  done,     \* the calls that did their work
  told      \* what the caller of c was told

vars == <<done, told>>

Untold  == [as |-> "untold", by |-> NoCall]
Done(d) == [as |-> "done", by |-> d]         \* the work was done, by call d
Refused == [as |-> "refused", by |-> NoCall] \* this call did nothing
Failed  == [as |-> "failed", by |-> NoCall]  \* it may have been done or not

Answers == [as : {"untold", "done", "refused", "failed"}, by : Calls \cup {NoCall}]

\* The calls whose work counts for c.
Twins(c) == {d \in Calls : d = c \/ (key[c] # NoKey /\ key[d] = key[c])}

Open(c) == told[c] = Untold

Says(c, a) == told' = [told EXCEPT ![c] = a]

\* The work happens while its caller waits, unless a duplicate has done it.
Does(c) ==
  /\ Twins(c) \cap done = {}
  /\ done' = done \cup {c}

Do(c) == Open(c) /\ Does(c) /\ UNCHANGED told

Confirm(c) ==
  /\ Open(c)
  /\ \E d \in Twins(c) \cap done : Says(c, Done(d))
  /\ UNCHANGED done

Refuse(c) ==
  /\ Open(c) /\ c \notin done
  /\ Says(c, Refused)
  /\ UNCHANGED done

\* The last statement of the work may fail after it took effect.
Fail(c) ==
  /\ Open(c)
  /\ Says(c, Failed)
  /\ Does(c) \/ UNCHANGED done

Init ==
  /\ done = {}
  /\ told = [c \in Calls |-> Untold]

Next == \E c \in Calls : Do(c) \/ Confirm(c) \/ Refuse(c) \/ Fail(c)

Spec == Init /\ [][Next]_vars
=============================================================================
