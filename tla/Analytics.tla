------------------------------ MODULE Analytics ------------------------------
(***************************************************************************)
(* The way of a completed order to ClickHouse: handlers publish it to a    *)
(* bounded channel, a consumer collects batches and inserts them, a        *)
(* materialized view sums the revenue per day; on SIGTERM the server stops *)
(* its handlers and Close drains the channel.  A SIGKILL may end the       *)
(* process at any time; another one starts with an empty channel.  A       *)
(* process that does not reach ClickHouse at its start works without       *)
(* analytics, one that cannot create the tables without the missing ones.  *)
(*                                                                         *)
(* Nothing depends on the order of the channel and of a batch: both are    *)
(* sets.  A row of order_events is counted, so that one inserted twice     *)
(* shows.                                                                  *)
(***************************************************************************)
EXTENDS Integers, FiniteSets, Functions

CONSTANTS
  Events,          \* completed orders
  Cents, Days, Day,  \* Cents[e], Day[e]: the total and the day of an event
  Capacity,        \* of the channel
  BatchSize

ASSUME AnalyticsAssumption ==
  /\ Cents \in [Events -> Nat]
  /\ Day \in [Events -> Days]
  /\ Capacity \in Nat \ {0} /\ BatchSize \in Nat \ {0}

VARIABLES
  completed, \* orders whose saga has completed
  running,   \* handlers that will publish their order
  channel,
  batch,
  schema,    \* what CreateTables has created so far
  table,     \* order_events: how many rows an event has
  revenue,   \* revenue_daily: rows with their orders
  failed,    \* events dropped, and events of inserts that logged an error
  unviewed,  \* events inserted without an error while there was no view
  lost,      \* completed orders a killed process had in its memory, and those
             \* of a process without analytics
  main,      \* what main does: serve, GracefulStop, Close
  done,      \* is the channel done closed?
  consumer   \* what the consumer does, or "disabled": there is none

clickhouse == <<schema, table, revenue, unviewed>>
vars == <<completed, running, channel, batch, clickhouse, failed, lost,
          main, done, consumer>>

\* CreateTables stops at the first statement that fails, and so do those of later
\* processes, IF NOT EXISTS: nothing, order_events alone (with or without
\* revenue_daily), or all of it with the view.
NoTables == 0
EventsOnly == 1
WithView == 2

CreateTables(s) == s .. WithView

\* Orders that only the process knows of.
InMemory == running \cup channel \cup batch

-----------------------------------------------------------------------------
(* Handlers *)

\* The saga of order e completes: this happens to an order once.
Complete(e) ==
  /\ main = "serving"
  /\ e \notin completed
  /\ completed' = completed \cup {e}
  /\ running' = running \cup {e}
  /\ UNCHANGED <<lost, channel, batch, clickhouse, failed, main, done, consumer>>

\* Never waits: an event that finds the channel full is dropped.
Publish(e) ==
  /\ e \in running /\ consumer # "disabled"
  /\ running' = running \ {e}
  /\ \/ Cardinality(channel) < Capacity /\ channel' = channel \cup {e} /\ UNCHANGED failed
     \/ Cardinality(channel) = Capacity /\ failed' = failed \cup {e} /\ UNCHANGED channel
  /\ UNCHANGED <<completed, lost, batch, clickhouse, main, done, consumer>>

\* Without analytics the saga has nobody to publish to.
PublishNothing(e) ==
  /\ e \in running /\ consumer = "disabled"
  /\ running' = running \ {e}
  /\ lost' = lost \cup {e}
  /\ UNCHANGED <<completed, channel, batch, clickhouse, failed, main, done, consumer>>

-----------------------------------------------------------------------------
(* The consumer *)

Full(b) == Cardinality(b) >= BatchSize

Receive(e) ==
  /\ consumer = "select" /\ e \in channel
  /\ channel' = channel \ {e}
  /\ batch' = batch \cup {e}
  /\ consumer' = IF Full(batch') THEN "flush" ELSE "select"
  /\ UNCHANGED <<completed, lost, running, clickhouse, failed, main, done>>

\* Mutant of Tick: flushes full batches only.
TickFull ==
  /\ consumer = "select" /\ Full(batch)
  /\ consumer' = "flush"
  /\ UNCHANGED <<completed, lost, running, channel, batch, clickhouse, failed, main, done>>

Tick ==
  /\ consumer = "select" /\ batch # {}
  /\ consumer' = "flush"
  /\ UNCHANGED <<completed, lost, running, channel, batch, clickhouse, failed, main, done>>

SeesDone ==
  /\ consumer = "select" /\ done
  /\ consumer' = "drain"
  /\ UNCHANGED <<completed, lost, running, channel, batch, clickhouse, failed, main, done>>

Drain(e) ==
  /\ consumer = "drain" /\ e \in channel
  /\ channel' = channel \ {e}
  /\ batch' = batch \cup {e}
  /\ UNCHANGED <<completed, lost, running, clickhouse, failed, main, done, consumer>>

\* Mutant of Drained: does not wait for the channel to be empty.
DrainedAtOnce ==
  /\ consumer = "drain"
  /\ consumer' = IF batch = {} THEN "stopped" ELSE "lastFlush"
  /\ UNCHANGED <<completed, lost, running, channel, batch, clickhouse, failed, main, done>>

Drained ==
  /\ consumer = "drain" /\ channel = {}
  /\ consumer' = IF batch = {} THEN "stopped" ELSE "lastFlush"
  /\ UNCHANGED <<completed, lost, running, channel, batch, clickhouse, failed, main, done>>

\* Mutant of Reset: the slice is used on as it is.
Kept == batch

\* batch[:0]
Reset == {}

TotalOf(s) == SumFunctionOnSet(Cents, s)

\* The rows the view makes of one insert, one per day, and a merge of rows
\* of a day: SummingMergeTree adds up every column that is no key.
Row(d, s) ==
  [day |-> d, orders |-> s, total |-> TotalOf(s), count |-> Cardinality(s),
   average |-> TotalOf(s) \div Cardinality(s)]

ViewRows(s) == {Row(d, {e \in s : Day[e] = d}) : d \in {Day[e] : e \in s}}

\* Mutant of Merged: the newer row replaces the older, as in ReplacingMergeTree.
Replaced(a, b) == [b EXCEPT !.orders = @ \cup a.orders]

Merged(a, b) ==
  [day |-> a.day, orders |-> a.orders \cup b.orders, total |-> a.total + b.total,
   count |-> a.count + b.count, average |-> a.average + b.average]

Stored == [e \in Events |-> IF e \in batch THEN table[e] + 1 ELSE table[e]]

\* The INSERT is executed; with the view, if there is one, it makes its rows.
Inserts ==
  /\ schema # NoTables
  /\ table' = Stored
  /\ IF schema = WithView
     THEN revenue' = revenue \cup ViewRows(batch) /\ UNCHANGED unviewed
     ELSE unviewed' = unviewed \cup batch /\ UNCHANGED revenue
  /\ UNCHANGED failed

\* PrepareBatch, Append or Send fails, and the error is logged: nothing was executed,
\* or all of it and the answer did not arrive, or order_events or the view alone has
\* the rows.
InsertFails ==
  /\ failed' = failed \cup batch
  /\ table' \in {table} \cup (IF schema # NoTables THEN {Stored} ELSE {})
  /\ revenue' \in {revenue} \cup (IF schema = WithView THEN {revenue \cup ViewRows(batch)} ELSE {})
  /\ UNCHANGED unviewed

\* The batch is over in any case.
Flush ==
  /\ consumer \in {"flush", "lastFlush"}
  /\ Inserts \/ InsertFails
  /\ batch' = Reset
  /\ consumer' = IF consumer = "flush" THEN "select" ELSE "stopped"
  /\ UNCHANGED <<completed, lost, running, channel, schema, main, done>>

\* ClickHouse merges parts in the background.
Merge(a, b) ==
  /\ a.day = b.day
  /\ revenue' = (revenue \ {a, b}) \cup {Merged(a, b)}
  /\ UNCHANGED <<completed, lost, running, channel, batch, schema, table, unviewed, failed,
                 main, done, consumer>>

-----------------------------------------------------------------------------
(* main *)

Sigterm ==
  /\ main = "serving"
  /\ main' = "stopping"
  /\ UNCHANGED <<completed, lost, running, channel, batch, clickhouse, failed, done, consumer>>

\* Mutant of Stopped: Stop instead of GracefulStop.
StoppedAtOnce == main = "stopping"

\* GracefulStop has waited for the handlers.
Stopped == main = "stopping" /\ running = {}

\* Mutant of Close: does not close done.
CloseUnsignalled ==
  /\ Stopped /\ consumer # "disabled"
  /\ main' = "closing"
  /\ UNCHANGED <<completed, lost, running, channel, batch, clickhouse, failed, done, consumer>>

\* Deferred only when there is a client.
Close ==
  /\ Stopped /\ consumer # "disabled"
  /\ main' = "closing"
  /\ done' = TRUE
  /\ UNCHANGED <<completed, lost, running, channel, batch, clickhouse, failed, consumer>>

\* main ends: wg.Wait has returned, or there is nobody to wait for.
Exit ==
  /\ \/ main = "closing" /\ consumer = "stopped"
     \/ Stopped /\ consumer = "disabled"
  /\ main' = "exited"
  /\ UNCHANGED <<completed, lost, running, channel, batch, clickhouse, failed, done, consumer>>

\* SIGKILL, or the machine fails.
Kill ==
  /\ main \notin {"exited", "killed"}
  /\ main' = "killed"
  /\ lost' = lost \cup InMemory
  /\ running' = {} /\ channel' = {} /\ batch' = {}
  /\ consumer' = "stopped"
  /\ UNCHANGED <<completed, clickhouse, failed, done>>

\* The next process: NewClickHouseClient has no address or fails, or CreateTables
\* gets as far as it gets and StartConsumer follows.
Start ==
  /\ main \in {"exited", "killed"}
  /\ main' = "serving" /\ done' = FALSE
  /\ \/ consumer' = "disabled" /\ UNCHANGED schema
     \/ consumer' = "select" /\ schema' \in CreateTables(schema)
  /\ running' = {} /\ channel' = {} /\ batch' = {}
  /\ UNCHANGED <<completed, table, revenue, unviewed, failed, lost>>

-----------------------------------------------------------------------------

Init ==
  /\ completed = {} /\ lost = {}
  /\ running = {} /\ channel = {} /\ batch = {} /\ failed = {} /\ unviewed = {}
  /\ table = [e \in Events |-> 0]
  /\ revenue = {}
  /\ main = "serving" /\ done = FALSE
  /\ \/ consumer = "disabled" /\ schema = NoTables
     \/ consumer = "select" /\ schema \in CreateTables(NoTables)

Consume ==
  \/ \E e \in Events : Receive(e) \/ Drain(e)
  \/ Tick \/ SeesDone \/ Drained \/ Flush

Next ==
  \/ \E e \in Events : Complete(e) \/ Publish(e) \/ PublishNothing(e)
  \/ Consume
  \/ \E a, b \in revenue : a # b /\ Merge(a, b)
  \/ Sigterm \/ Close \/ Exit \/ Kill \/ Start

\* Handlers return, the ticker ticks, an insert ends within its ten seconds,
\* main goes on.
Fairness ==
  /\ \A e \in Events : WF_vars(Publish(e)) /\ WF_vars(PublishNothing(e))
  /\ WF_vars(Consume)
  /\ WF_vars(Close) /\ WF_vars(Exit)

Spec == Init /\ [][Next]_vars
FairSpec == Spec /\ Fairness

-----------------------------------------------------------------------------
(* Properties *)

\* Every variable keeps its type, the channel its capacity and, until the
\* drain, the batch its size.
TypeOK ==
  /\ completed \subseteq Events /\ running \subseteq Events
  /\ failed \subseteq Events /\ lost \subseteq Events /\ unviewed \subseteq Events
  /\ channel \subseteq Events /\ Cardinality(channel) <= Capacity
  /\ batch \subseteq Events
  /\ consumer \in {"select", "flush"} => Cardinality(batch) <= BatchSize
  /\ schema \in NoTables .. WithView /\ table \in [Events -> Nat]
  /\ main \in {"serving", "stopping", "closing", "exited", "killed"}
  /\ done \in BOOLEAN
  /\ consumer \in {"select", "flush", "drain", "lastFlush", "stopped", "disabled"}

\* No order is counted twice, whatever happens to the batches.
StoredAtMostOnce == \A e \in Events : table[e] <= 1

\* When main exits no completed order is left in a handler, the channel or the
\* batch: what became of it is settled, see NoneLostSilently.
NothingLeftBehind ==
  main = "exited" => InMemory = {}

\* No completed order disappears but in the ways it must: it is in memory, in
\* order_events, or the log tells that it was dropped or its insert failed; a kill
\* costs what was in memory then, a process without analytics what it completed.
NoneLostSilently ==
  \A e \in completed : e \in InMemory \cup failed \cup lost \/ table[e] > 0

Inserted(d) == {e \in Events : table[e] > 0 /\ Day[e] = d}

\* What the view has for a day.
Revenue(d) == SumFunction([row \in {r \in revenue : r.day = d} |-> row.total])

\* The revenue of a day is that of its orders in order_events, however the view's
\* rows were merged: it lacks at most the orders whose insert logged an error or
\* went before the view, and has beyond them at most orders whose insert logged an
\* error; nothing is summed twice.
RevenueAgrees ==
  \A d \in Days :
    /\ TotalOf(Inserted(d) \ (failed \cup unviewed)) <= Revenue(d)
    /\ Revenue(d) <= TotalOf(Inserted(d) \cup {e \in failed : Day[e] = d})

\* What Publish accepted is inserted, or its insert fails: it does not wait
\* for a batch that never fills.
AcceptedIsFlushed == \A e \in Events : e \in channel ~> e \notin channel \cup batch

\* SIGTERM ends the process.
ShutdownEnds == main = "stopping" ~> main \in {"exited", "killed"}

-----------------------------------------------------------------------------
(* Promises of documents and comments that the code does not keep *)

\* The revenue of a day is that of its orders in order_events.
RevenueIsExact == \A d \in Days : Revenue(d) = TotalOf(Inserted(d))

\* avg_order_value is the average of the day's orders.
AverageIsAverage == \A row \in revenue : row.average * row.count = row.total
=============================================================================
