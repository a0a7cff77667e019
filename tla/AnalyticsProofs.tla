--------------------------- MODULE AnalyticsProofs ---------------------------
(***************************************************************************)
(* For any orders, totals, capacity and batch size: no order is inserted   *)
(* twice, main exits with nothing left behind, every completed order is    *)
(* accounted for, and the revenue of a day is the sum over its orders but  *)
(* for those that a failed insert or a missing view concerns.              *)
(***************************************************************************)
EXTENDS Analytics, FiniteSetTheorems, TLAPS

\* The tables and sets of events; what TypeOK says of them but for sizes.
Typed ==
  /\ running \subseteq Events /\ channel \subseteq Events
  /\ batch \subseteq Events /\ failed \subseteq Events
  /\ completed \subseteq Events
  /\ table \in [Events -> Nat]

\* An event is in one place, and not in the table before its batch is flushed.
InOnePlace ==
  \A e \in Events :
    /\ table[e] \in {0, 1}
    /\ e \in running => e \notin channel \cup batch
    /\ e \in channel => e \notin batch
    /\ e \in InMemory => e \in completed /\ table[e] = 0
    /\ e \in failed => e \in completed /\ e \notin InMemory
    /\ table[e] = 0 \/ e \in completed

\* How far the shutdown is tells what is empty.
Shutdown ==
  /\ consumer \in {"select", "flush", "drain", "lastFlush", "stopped", "disabled"}
  /\ consumer \in {"drain", "lastFlush", "stopped"} => done \/ main = "killed"
  /\ done => main \in {"closing", "exited", "killed"}
  /\ main \in {"closing", "exited", "killed"} => running = {}
  /\ main = "killed" => consumer = "stopped"
  /\ consumer \in {"lastFlush", "stopped", "disabled"} => channel = {}
  /\ consumer \in {"stopped", "disabled"} => batch = {}
  /\ main = "exited" => consumer \in {"stopped", "disabled"}

IInv == Typed /\ InOnePlace /\ Shutdown /\ NoneLostSilently

-----------------------------------------------------------------------------

\* The invariant holds initially.
LEMMA InitIInv == Init => IInv
  BY DEF Init, IInv, Typed, InOnePlace, Shutdown, InMemory, NoneLostSilently

\* What a flush leaves: the rows of the batch are in order_events or the log has an
\* error for them, and they are in the view unless it has one or there is no view.
LEMMA FlushOutcomes ==
  ASSUME Flush
  PROVE  /\ completed' = completed
         /\ failed' \in {failed, failed \cup batch}
         /\ unviewed' \in {unviewed, unviewed \cup batch}
         /\ revenue' \in {revenue, revenue \cup ViewRows(batch)}
         /\ table' \in {table, Stored}
         /\ table' = Stored \/ failed' = failed \cup batch
         /\ \/ revenue' = revenue \cup ViewRows(batch)
            \/ failed' = failed \cup batch
            \/ unviewed' = unviewed \cup batch
<1>1. CASE Inserts
  BY <1>1 DEF Flush, Inserts
<1>2. CASE InsertFails
  BY <1>2 DEF Flush, InsertFails
<1> QED BY <1>1, <1>2 DEF Flush

\* Every step keeps it.
LEMMA NextIInv == IInv /\ [Next]_vars => IInv'
<1> SUFFICES ASSUME IInv, [Next]_vars PROVE IInv'
  OBVIOUS
<1> USE DEF IInv, Typed, InOnePlace, Shutdown, InMemory, NoneLostSilently, clickhouse
<1>1. ASSUME NEW e \in Events, Complete(e) PROVE IInv'
  BY <1>1 DEF Complete
<1>2. ASSUME NEW e \in Events, Publish(e) \/ PublishNothing(e) PROVE IInv'
  <2>1. /\ e \in running /\ running' = running \ {e}
        /\ UNCHANGED <<completed, batch, table, main, done, consumer>>
        /\ \/ channel' = channel \cup {e} /\ consumer # "disabled" /\ failed' = failed /\ lost' = lost
           \/ failed' = failed \cup {e} /\ channel' = channel /\ lost' = lost
           \/ lost' = lost \cup {e} /\ channel' = channel /\ failed' = failed
    BY <1>2 DEF Publish, PublishNothing, clickhouse
  <2>2. Typed' /\ InOnePlace'
    BY <2>1
  <2>3. Shutdown'
    BY <2>1
  <2>4. NoneLostSilently'
    BY <2>1
  <2> QED BY <2>2, <2>3, <2>4
<1>3. ASSUME NEW e \in Events, Receive(e) PROVE IInv'
  BY <1>3 DEF Receive
<1>4. ASSUME NEW e \in Events, Drain(e) PROVE IInv'
  BY <1>4 DEF Drain
<1>5. CASE Tick \/ SeesDone \/ Drained
  BY <1>5 DEF Tick, SeesDone, Drained
<1>6. CASE Flush
  <2>1. /\ batch' = {}
        /\ UNCHANGED <<completed, running, channel, lost, main, done>>
        /\ consumer' = IF consumer = "flush" THEN "select" ELSE "stopped"
    BY <1>6 DEF Flush, Reset
  <2>2. /\ failed' \in {failed, failed \cup batch}
        /\ \/ table' = [e \in Events |-> IF e \in batch THEN table[e] + 1 ELSE table[e]]
           \/ table' = table /\ failed' = failed \cup batch
    BY <1>6, FlushOutcomes DEF Stored
  <2>3. Typed'
    BY <2>1, <2>2
  <2>4. InOnePlace'
    BY <2>1, <2>2
  <2>5. NoneLostSilently'
    <3> SUFFICES ASSUME NEW e \in completed
                 PROVE  e \in InMemory' \cup failed' \cup lost' \/ table'[e] > 0
      BY <2>1
    <3>1. CASE e \in batch
      BY <3>1, <2>2
    <3>2. CASE e \notin batch
      BY <3>2, <2>1, <2>2
    <3> QED BY <3>1, <3>2
  <2>6. Shutdown'
    BY <1>6, <2>1 DEF Flush
  <2> QED BY <2>3, <2>4, <2>5, <2>6
<1>7. ASSUME NEW a, NEW b, Merge(a, b) PROVE IInv'
  BY <1>7 DEF Merge
<1>8. CASE Sigterm \/ Close \/ Exit
  BY <1>8 DEF Sigterm, Close, Stopped, Exit
<1>9. CASE Kill \/ Start
  BY <1>9 DEF Kill, Start
<1>10. CASE UNCHANGED vars
  BY <1>10 DEF vars
<1> QED BY <1>1, <1>2, <1>3, <1>4, <1>5, <1>6, <1>7, <1>8, <1>10, <1>9 DEF Next, Consume

\* No completed order is inserted twice, for any channel and batch size.
THEOREM InsertedOnce == Spec => []StoredAtMostOnce
<1>1. IInv => StoredAtMostOnce
  BY DEF IInv, InOnePlace, StoredAtMostOnce
<1> QED BY InitIInv, NextIInv, <1>1, PTL DEF Spec

\* However SIGTERM meets handlers, consumer and inserts, main exits with
\* nothing left in a handler, the channel or the batch.
THEOREM ExitIsClean == Spec => []NothingLeftBehind
<1>1. IInv => NothingLeftBehind
  BY DEF IInv, Shutdown, NothingLeftBehind, InMemory
<1> QED BY InitIInv, NextIInv, <1>1, PTL DEF Spec

\* Every completed order is in memory, in order_events or in the log, but for those
\* a kill caught in memory or a process without analytics completed.
THEOREM LossesAreKnown == Spec => []NoneLostSilently
<1>1. IInv => NoneLostSilently
  BY DEF IInv
<1> QED BY InitIInv, NextIInv, <1>1, PTL DEF Spec


-----------------------------------------------------------------------------
(* Sums *)

\* The lemmas about sums of InventoryProofs are about no stock in particular:
\* this is the stock without products and orders.
Sums == INSTANCE InventoryProofs WITH
  Products <- {}, Orders <- {}, Demand <- <<>>, InitialStock <- [p \in {} |-> 0],
  MaxBatches <- 0, listed <- {}, active <- {}, available <- <<>>, reserved <- <<>>,
  rows <- <<>>

LEMMA SumsApply ==
  /\ Sums!StockConstants
  /\ \A f, S : Sums!SumFunctionOnSet(f, S) = SumFunctionOnSet(f, S)
  /\ \A S : Sums!IsFiniteSet(S) <=> IsFiniteSet(S)
<1>1. Sums!StockConstants
  BY DEF Sums!StockConstants
<1>2. ASSUME NEW f, NEW S PROVE Sums!SumFunctionOnSet(f, S) = SumFunctionOnSet(f, S)
  BY DEF Sums!SumFunctionOnSet, SumFunctionOnSet, Sums!FoldFunctionOnSet, FoldFunctionOnSet,
         Sums!MapThenFoldSet, MapThenFoldSet
<1>3. ASSUME NEW S PROVE Sums!IsFiniteSet(S) <=> IsFiniteSet(S)
  BY DEF Sums!IsFiniteSet, IsFiniteSet
<1> QED BY <1>1, <1>2, <1>3

\* A sum of natural numbers is one, and that of an empty set is zero.
LEMMA SumType ==
  ASSUME NEW S, IsFiniteSet(S), NEW f, \A x \in S : f[x] \in Nat
  PROVE  /\ SumFunctionOnSet(f, S) \in Nat
         /\ S = {} => SumFunctionOnSet(f, S) = 0
  BY SumsApply, Sums!SumOfNats

\* An element adds its value.
LEMMA SumRemove ==
  ASSUME NEW S, IsFiniteSet(S), NEW f, \A x \in S : f[x] \in Nat, NEW x \in S
  PROVE  SumFunctionOnSet(f, S) = f[x] + SumFunctionOnSet(f, S \ {x})
  BY SumsApply, Sums!SumRemove

LEMMA SumUnion ==
  ASSUME NEW S, IsFiniteSet(S), NEW f, \A x \in S : f[x] \in Nat, NEW T \in SUBSET S
  PROVE  SumFunctionOnSet(f, S) = SumFunctionOnSet(f, T) + SumFunctionOnSet(f, S \ T)
  BY SumsApply, Sums!SumUnion

LEMMA SumSame ==
  ASSUME NEW S, IsFiniteSet(S), NEW f, NEW g, \A x \in S : g[x] = f[x]
  PROVE  SumFunctionOnSet(g, S) = SumFunctionOnSet(f, S)
  BY SumsApply, Sums!SumSame

-----------------------------------------------------------------------------
(* The revenue *)

DayTotal(R) == SumFunctionOnSet([row \in R |-> row.total], R)

RowsOf(d) == {row \in revenue : row.day = d}

\* The orders in those rows.
Shown(d) == UNION {row.orders : row \in RowsOf(d)}

\* The rows of the view are of orders whose insert was executed or logged an error,
\* no order is in two rows, and an order of order_events is in one of its day unless
\* its insert logged an error or there was no view.
Booked ==
  /\ IsFiniteSet(completed) /\ IsFiniteSet(revenue)
  /\ \A a \in revenue :
       /\ a.total \in Nat
       /\ a.orders # {}
       /\ \A e \in a.orders : e \in Events /\ Day[e] = a.day /\ (table[e] > 0 \/ e \in failed)
       /\ \A b \in revenue : a # b => a.orders \cap b.orders = {}
  /\ \A e \in Events :
       table[e] > 0 /\ e \notin failed \cup unviewed => \E a \in revenue : e \in a.orders

\* The view adds up what it shows.
Tallied == \A d \in Days : DayTotal(RowsOf(d)) = TotalOf(Shown(d))

\* The total of a set of rows without one of them.
LEMMA DayTotalRemove ==
  ASSUME NEW R, IsFiniteSet(R), \A row \in R : row.total \in Nat, NEW a \in R
  PROVE  /\ DayTotal(R) = a.total + DayTotal(R \ {a})
         /\ DayTotal(R \ {a}) \in Nat
<1> DEFINE f == [row \in R |-> row.total]
           g == [row \in R \ {a} |-> row.total]
<1>1. (\A x \in R : f[x] \in Nat) /\ f[a] = a.total
  OBVIOUS
<1>2. (\A x \in R \ {a} : g[x] = f[x]) /\ (\A x \in R \ {a} : g[x] \in Nat)
  OBVIOUS
<1>3. IsFiniteSet(R \ {a})
  BY FS_RemoveElement
<1> HIDE DEF f, g
<1>4. SumFunctionOnSet(f, R) = f[a] + SumFunctionOnSet(f, R \ {a})
  BY <1>1, SumRemove
<1>5. SumFunctionOnSet(g, R \ {a}) = SumFunctionOnSet(f, R \ {a})
  BY <1>2, <1>3, SumSame
<1>6. SumFunctionOnSet(g, R \ {a}) \in Nat
  BY <1>2, <1>3, SumType
<1> QED BY <1>1, <1>4, <1>5, <1>6 DEF DayTotal, f, g

\* The total of a set of orders.
LEMMA TotalOfUnion ==
  ASSUME NEW s, NEW t, s \subseteq Events, t \subseteq Events, s \cap t = {},
         IsFiniteSet(s \cup t)
  PROVE  /\ TotalOf(s \cup t) = TotalOf(s) + TotalOf(t)
         /\ TotalOf(t) \in Nat
<1>1. \A e \in s \cup t : Cents[e] \in Nat
  BY AnalyticsAssumption
<1>2. s \in SUBSET (s \cup t) /\ (s \cup t) \ s = t
  OBVIOUS
<1>3. IsFiniteSet(t) /\ \A e \in t : Cents[e] \in Nat
  BY <1>1, FS_Subset
<1>4. SumFunctionOnSet(Cents, t) \in Nat
  BY <1>3, SumType
<1>5. SumFunctionOnSet(Cents, s \cup t)
        = SumFunctionOnSet(Cents, s) + SumFunctionOnSet(Cents, (s \cup t) \ s)
  BY <1>1, <1>2, SumUnion
<1> QED BY <1>2, <1>4, <1>5 DEF TotalOf

\* What an insert adds is one row for each of its days.
LEMMA ViewRowsFacts ==
  ASSUME NEW s, IsFiniteSet(s), s \subseteq Events, NEW d
  PROVE  LET t == {e \in s : Day[e] = d}
         IN  /\ IsFiniteSet(ViewRows(s))
             /\ {row \in ViewRows(s) : row.day = d} = IF t = {} THEN {} ELSE {Row(d, t)}
<1> DEFINE day(x) == {e \in s : Day[e] = x}
           rowOf == [e \in s |-> Row(Day[e], day(Day[e]))]
<1>1. rowOf \in Surjection(s, ViewRows(s))
  <2>1. \A e \in s : rowOf[e] \in ViewRows(s)
    BY DEF ViewRows
  <2>2. \A r \in ViewRows(s) : \E e \in s : rowOf[e] = r
    BY DEF ViewRows
  <2> HIDE DEF rowOf
  <2>3. rowOf \in [s -> ViewRows(s)]
    BY <2>1 DEF rowOf
  <2> QED BY <2>2, <2>3 DEF Surjection
<1>2. IsFiniteSet(ViewRows(s))
  BY <1>1, FS_Surjection
<1>3. \A x : Row(x, day(x)).day = x
  BY DEF Row
<1>4. {row \in ViewRows(s) : row.day = d} = IF day(d) = {} THEN {} ELSE {Row(d, day(d))}
  <2> DEFINE R(x) == Row(x, day(x))
  <2>1. ViewRows(s) = {R(x) : x \in {Day[e] : e \in s}}
    BY DEF ViewRows
  <2>2. \A x : R(x).day = x
    BY <1>3
  <2>3. d \in {Day[e] : e \in s} <=> day(d) # {}
    OBVIOUS
  <2> HIDE DEF R, day
  <2>4. {row \in ViewRows(s) : row.day = d} = IF d \in {Day[e] : e \in s} THEN {R(d)} ELSE {}
    BY <2>1, <2>2
  <2> QED BY <2>3, <2>4 DEF R
<1> QED BY <1>2, <1>4

\* Steps that leave the view alone; what they insert goes into the log's errors or
\* before the view.
LEMMA BookedStays ==
  ASSUME Booked, revenue' = revenue,
         completed' = completed \/ \E e \in Events : completed' = completed \cup {e},
         failed \subseteq failed', unviewed \subseteq unviewed',
         \A e \in Events : table'[e] = table[e] \/ (table'[e] > 0 /\ e \in failed' \cup unviewed')
  PROVE  Booked'
<1>1. IsFiniteSet(completed')
  <2>1. IsFiniteSet(completed)
    BY DEF Booked
  <2>2. \A e : IsFiniteSet(completed \cup {e})
    BY <2>1, FS_AddElement
  <2> QED BY <2>1, <2>2
<1>2. \A a \in revenue' : \A e \in a.orders :
        e \in Events /\ Day[e] = a.day /\ (table'[e] > 0 \/ e \in failed')
  BY DEF Booked
<1>3. \A e \in Events :
        table'[e] > 0 /\ e \notin failed' \cup unviewed' => \E a \in revenue' : e \in a.orders
  BY DEF Booked
<1>4. \A a \in revenue' :
        a.total \in Nat /\ a.orders # {} /\ \A b \in revenue' : a # b => a.orders \cap b.orders = {}
  BY DEF Booked
<1>5. IsFiniteSet(revenue')
  BY DEF Booked
<1> QED BY <1>1, <1>2, <1>3, <1>4, <1>5 DEF Booked

LEMMA TalliedStays ==
  ASSUME Tallied, revenue' = revenue
  PROVE  Tallied'
  BY DEF Tallied, DayTotal, RowsOf, Shown, TotalOf

\* An insert whose rows arrive in the view, with or without an error.
LEMMA InsertBooks ==
  ASSUME IInv, Booked, Tallied, completed' = completed,
         revenue' = revenue \cup ViewRows(batch),
         failed' \in {failed, failed \cup batch}, unviewed \subseteq unviewed',
         table' \in {table, Stored}, table' = Stored \/ failed' = failed \cup batch
  PROVE  Booked' /\ Tallied'
<1>1. /\ batch \subseteq completed /\ completed \subseteq Events
      /\ \A e \in batch : table[e] = 0 /\ e \notin failed
      /\ \A e \in Events : table[e] \in Nat
  BY DEF IInv, Typed, InOnePlace, InMemory
<1>2. IsFiniteSet(batch) /\ batch \subseteq Events
  BY <1>1, FS_Subset DEF Booked
<1>3. /\ \A e \in batch : table'[e] > 0 \/ e \in failed'
      /\ \A e \in Events \ batch : table'[e] = table[e] /\ (e \in failed' <=> e \in failed)
      /\ \A e \in Events : table[e] > 0 => table'[e] > 0
      /\ failed \subseteq failed'
  <2>1. \A e \in Events : Stored[e] = IF e \in batch THEN table[e] + 1 ELSE table[e]
    BY DEF Stored
  <2> QED BY <1>1, <1>2, <2>1
<1>4. IsFiniteSet(ViewRows(batch)) /\ IsFiniteSet(revenue')
  BY <1>2, ViewRowsFacts, FS_Union DEF Booked
<1> DEFINE day(x) == {e \in batch : Day[e] = x}
<1>5. ASSUME NEW d PROVE TotalOf(day(d)) \in Nat /\ day(d) \subseteq batch
  <2>1. IsFiniteSet({} \cup day(d)) /\ day(d) \subseteq Events
    BY <1>2, FS_Subset
  <2>2. {} \subseteq Events /\ {} \cap day(d) = {}
    OBVIOUS
  <2> HIDE DEF day
  <2>3. TotalOf(day(d)) \in Nat
    BY <2>1, <2>2, TotalOfUnion
  <2> QED BY <2>3 DEF day
<1>6. \A a \in ViewRows(batch) :
        a.total \in Nat /\ a.orders = day(a.day) /\ a.orders # {} /\ a = Row(a.day, day(a.day))
  <2> SUFFICES ASSUME NEW a \in ViewRows(batch)
               PROVE  a.total \in Nat /\ a.orders = day(a.day) /\ a.orders # {}
                      /\ a = Row(a.day, day(a.day))
    OBVIOUS
  <2>1. PICK e \in batch : a = Row(Day[e], day(Day[e]))
    BY DEF ViewRows
  <2>2. e \in day(Day[e])
    OBVIOUS
  <2> HIDE DEF day
  <2>3. a.day = Day[e] /\ a.orders = day(Day[e]) /\ a.total = TotalOf(day(Day[e]))
    BY <2>1 DEF Row
  <2> QED BY <1>5, <2>1, <2>2, <2>3
<1>7. \A a \in revenue' : \A e \in a.orders :
        e \in Events /\ Day[e] = a.day /\ (table'[e] > 0 \/ e \in failed')
  <2>1. ASSUME NEW a \in revenue, NEW e \in a.orders
        PROVE  e \in Events /\ Day[e] = a.day /\ (table'[e] > 0 \/ e \in failed')
    <3>1. e \in Events /\ Day[e] = a.day /\ (table[e] > 0 \/ e \in failed)
      BY <2>1 DEF Booked
    <3> QED BY <1>3, <3>1
  <2>2. ASSUME NEW a \in ViewRows(batch), NEW e \in a.orders
        PROVE  e \in Events /\ Day[e] = a.day /\ (table'[e] > 0 \/ e \in failed')
    <3>1. e \in batch /\ Day[e] = a.day
      BY <1>6, <2>2
    <3> QED BY <1>2, <1>3, <3>1
  <2> QED BY <2>1, <2>2
<1>8. \A a \in revenue : \A b \in ViewRows(batch) : a.orders \cap b.orders = {}
  <2>1. \A a \in revenue : \A e \in a.orders : e \notin batch
    BY <1>1 DEF Booked
  <2> QED BY <1>6, <2>1
<1>9. \A a, b \in ViewRows(batch) : a # b => a.orders \cap b.orders = {}
  <2> SUFFICES ASSUME NEW a \in ViewRows(batch), NEW b \in ViewRows(batch),
                      NEW e \in a.orders, e \in b.orders
               PROVE  a = b
    OBVIOUS
  <2>1. a.day = Day[e] /\ b.day = Day[e]
    BY <1>6
  <2>2. a = Row(a.day, day(a.day)) /\ b = Row(b.day, day(b.day))
    BY <1>6
  <2> HIDE DEF day
  <2> QED BY <2>1, <2>2
<1>10. \A e \in batch : \E a \in revenue' : e \in a.orders
  <2> SUFFICES ASSUME NEW e \in batch PROVE \E a \in ViewRows(batch) : e \in a.orders
    OBVIOUS
  <2>1. Row(Day[e], day(Day[e])) \in ViewRows(batch) /\ e \in day(Day[e])
    BY DEF ViewRows
  <2> HIDE DEF day
  <2> QED BY <2>1 DEF Row
<1>11. Booked'
  <2> HIDE DEF day
  <2>1. \A a \in revenue' : a.total \in Nat /\ a.orders # {}
    BY <1>6 DEF Booked
  <2>2. \A a, b \in revenue' : a # b => a.orders \cap b.orders = {}
    BY <1>8, <1>9 DEF Booked
  <2>3. \A e \in Events :
          table'[e] > 0 /\ e \notin failed' \cup unviewed' => \E a \in revenue' : e \in a.orders
    <3> SUFFICES ASSUME NEW e \in Events, table'[e] > 0, e \notin failed' \cup unviewed'
                 PROVE  \E a \in revenue' : e \in a.orders
      OBVIOUS
    <3>1. CASE e \in batch
      BY <1>10, <3>1
    <3>2. CASE e \notin batch
      <4>1. table[e] > 0 /\ e \notin failed \cup unviewed
        BY <1>3, <3>2
      <4>2. PICK a \in revenue : e \in a.orders
        BY <4>1 DEF Booked
      <4> QED BY <4>2
    <3> QED BY <3>1, <3>2
  <2>4. IsFiniteSet(completed')
    BY DEF Booked
  <2> QED BY <1>4, <1>7, <2>1, <2>2, <2>3, <2>4 DEF Booked
<1>12. ASSUME NEW d \in Days PROVE DayTotal(RowsOf(d)') = TotalOf(Shown(d)')
  <2>1. Shown(d) \subseteq completed /\ Shown(d) \cap batch = {}
    <3> SUFFICES ASSUME NEW e \in Shown(d) PROVE e \in completed /\ e \notin batch
      OBVIOUS
    <3>1. e \in Events /\ (table[e] > 0 \/ e \in failed)
      BY DEF Shown, RowsOf, Booked
    <3> QED BY <1>1, <3>1 DEF IInv, InOnePlace
  <2>2. /\ IsFiniteSet(Shown(d) \cup day(d)) /\ Shown(d) \subseteq Events /\ day(d) \subseteq Events
        /\ Shown(d) \cap day(d) = {}
    <3>1. Shown(d) \cup day(d) \subseteq completed
      BY <1>1, <2>1
    <3> QED BY <1>1, <2>1, <3>1, FS_Subset DEF Booked
  <2>3. DayTotal(RowsOf(d)) = TotalOf(Shown(d))
    BY DEF Tallied
  <2>4. RowsOf(d)' = RowsOf(d) \cup IF day(d) = {} THEN {} ELSE {Row(d, day(d))}
    <3>1. {row \in ViewRows(batch) : row.day = d} = IF day(d) = {} THEN {} ELSE {Row(d, day(d))}
      BY <1>2, ViewRowsFacts
    <3> HIDE DEF day
    <3> QED BY <3>1 DEF RowsOf
  <2>5. Shown(d)' = Shown(d) \cup day(d)
    <3>1. Row(d, day(d)).orders = day(d)
      BY DEF Row
    <3> HIDE DEF day
    <3> QED BY <2>4, <3>1 DEF Shown
  <2>6. TotalOf(Shown(d)') = TotalOf(Shown(d)) + TotalOf(day(d))
    <3> HIDE DEF day
    <3> QED BY <2>2, <2>5, TotalOfUnion
  <2>7. CASE day(d) = {}
    <3>1. Shown(d)' = Shown(d) /\ RowsOf(d)' = RowsOf(d)
      BY <2>4, <2>5, <2>7
    <3> QED BY <2>3, <3>1
  <2>8. CASE day(d) # {}
    <3> DEFINE a == Row(d, day(d))
               R == RowsOf(d)'
    <3>1. a \in ViewRows(batch)
      BY <2>8 DEF ViewRows
    <3>2. a \notin RowsOf(d)
      BY <1>6, <1>8, <3>1 DEF RowsOf
    <3>3. IsFiniteSet(R) /\ \A row \in R : row.total \in Nat
      <4>1. R \subseteq revenue'
        BY DEF RowsOf
      <4> QED BY <1>4, <1>11, <4>1, FS_Subset DEF Booked
    <3>4. a \in R /\ R \ {a} = RowsOf(d)
      BY <2>4, <2>8, <3>2
    <3>5. a.total = TotalOf(day(d))
      BY DEF Row
    <3> HIDE DEF a, R, day
    <3>6. DayTotal(R) = a.total + DayTotal(RowsOf(d)) /\ DayTotal(RowsOf(d)) \in Nat
      BY <3>3, <3>4, DayTotalRemove
    <3>7. TotalOf(day(d)) \in Nat
      BY <1>5
    <3> QED BY <2>6, <2>3, <3>5, <3>6, <3>7 DEF R
  <2> QED BY <2>7, <2>8
<1>13. Tallied'
  <2>1. (\A d \in Days : DayTotal(RowsOf(d)') = TotalOf(Shown(d)')) => Tallied'
    BY DEF Tallied, DayTotal, TotalOf
  <2> QED BY <1>12, <2>1
<1> QED BY <1>11, <1>13

\* A merge of two rows of a day.
LEMMA MergeBooks ==
  ASSUME Booked, Tallied, NEW a \in revenue, NEW b \in revenue, a # b, Merge(a, b)
  PROVE  Booked' /\ Tallied'
<1> DEFINE m == Merged(a, b)
           rest == revenue \ {a, b}
<1>1. /\ m.day = a.day /\ m.orders = a.orders \cup b.orders /\ m.total = a.total + b.total
      /\ b.day = a.day /\ revenue' = rest \cup {m} /\ UNCHANGED <<table, failed, unviewed, completed>>
  BY DEF Merge, Merged
<1>2. m \notin rest
  BY <1>1 DEF Booked
<1> HIDE DEF m
<1>3. IsFiniteSet(rest) /\ IsFiniteSet(revenue')
  BY <1>1, FS_Subset, FS_AddElement DEF Booked
<1>4. Booked'
  <2>1. IsFiniteSet(completed')
    BY <1>1 DEF Booked
  <2>2. \A r \in revenue' : r.total \in Nat /\ r.orders # {}
    BY <1>1 DEF Booked
  <2>3. \A r \in revenue' : \A e \in r.orders :
          e \in Events /\ Day[e] = r.day /\ (table'[e] > 0 \/ e \in failed')
    BY <1>1 DEF Booked
  <2>4. \A e \in Events :
          table'[e] > 0 /\ e \notin failed' \cup unviewed' => \E r \in revenue' : e \in r.orders
    <3>1. \A r \in revenue : \E q \in revenue' : r.orders \subseteq q.orders
      BY <1>1
    <3> QED BY <1>1, <3>1 DEF Booked
  <2>5. \A r, q \in revenue' : r # q => r.orders \cap q.orders = {}
    BY <1>1 DEF Booked
  <2> QED BY <1>3, <2>1, <2>2, <2>3, <2>4, <2>5 DEF Booked
<1>5. ASSUME NEW d \in Days PROVE DayTotal(RowsOf(d)') = DayTotal(RowsOf(d))
  <2> DEFINE R == RowsOf(d)
             T == RowsOf(d)'
  <2>1. IsFiniteSet(R) /\ IsFiniteSet(T)
    <3>1. R \subseteq revenue /\ T \subseteq revenue'
      BY DEF RowsOf
    <3> QED BY <1>3, <3>1, FS_Subset DEF Booked
  <2>2. (\A r \in R : r.total \in Nat) /\ (\A r \in T : r.total \in Nat)
    BY <1>4 DEF Booked, RowsOf
  <2>3. CASE a.day = d
    <3>1. a \in R /\ b \in R \ {a} /\ m \in T /\ T \ {m} = (R \ {a}) \ {b}
      BY <1>1, <1>2, <2>3 DEF RowsOf
    <3>2. IsFiniteSet(R \ {a})
      BY <2>1, FS_RemoveElement
    <3> HIDE DEF R, T, rest
    <3>3. DayTotal(R) = a.total + DayTotal(R \ {a})
      BY <2>1, <2>2, <3>1, DayTotalRemove
    <3>4. /\ DayTotal(R \ {a}) = b.total + DayTotal((R \ {a}) \ {b})
          /\ DayTotal((R \ {a}) \ {b}) \in Nat
      BY <2>2, <3>1, <3>2, DayTotalRemove
    <3>5. DayTotal(T) = m.total + DayTotal(T \ {m})
      BY <2>1, <2>2, <3>1, DayTotalRemove
    <3>6. a.total \in Nat /\ b.total \in Nat
      BY DEF Booked
    <3>7. DayTotal(T \ {m}) = DayTotal((R \ {a}) \ {b}) /\ m.total = a.total + b.total
      BY <1>1, <3>1
    <3>8. DayTotal(T) = DayTotal(R)
      BY <3>3, <3>4, <3>5, <3>6, <3>7
    <3> QED BY <3>8 DEF R, T
  <2>4. CASE a.day # d
    <3>1. T = R
      BY <1>1, <2>4 DEF RowsOf
    <3> QED BY <3>1
  <2> QED BY <2>3, <2>4
<1>6. \A d : Shown(d)' = Shown(d)
  <2> SUFFICES ASSUME NEW d, NEW e PROVE e \in Shown(d)' <=> e \in Shown(d)
    OBVIOUS
  <2>1. e \in Shown(d) <=> \E r \in revenue : r.day = d /\ e \in r.orders
    BY DEF Shown, RowsOf
  <2>2. e \in Shown(d)' <=> \E r \in revenue' : r.day = d /\ e \in r.orders
    BY DEF Shown, RowsOf
  <2> QED BY <1>1, <2>1, <2>2
<1>7. Tallied'
  <2>1. (\A d \in Days : DayTotal(RowsOf(d)') = TotalOf(Shown(d)')) => Tallied'
    BY DEF Tallied, DayTotal, TotalOf
  <2> QED BY <1>5, <1>6, <2>1 DEF Tallied
<1> QED BY <1>4, <1>7

\* More orders, more cents.
LEMMA TotalOfGrows ==
  ASSUME NEW s, NEW t, s \subseteq t, t \subseteq Events, IsFiniteSet(t)
  PROVE  TotalOf(s) <= TotalOf(t)
<1>1. /\ s \cup (t \ s) = t /\ s \cap (t \ s) = {}
      /\ s \subseteq Events /\ t \ s \subseteq Events
  OBVIOUS
<1>2. TotalOf(t) = TotalOf(s) + TotalOf(t \ s) /\ TotalOf(t \ s) \in Nat
  BY <1>1, TotalOfUnion
<1>3. (t \ s) \cup s = t /\ (t \ s) \cap s = {}
  OBVIOUS
<1>4. TotalOf(s) \in Nat
  BY <1>1, <1>3, TotalOfUnion
<1> QED BY <1>2, <1>4

\* What the view shows lies between the bounds.
LEMMA BookedAgrees ==
  ASSUME IInv, Booked, Tallied
  PROVE  RevenueAgrees
<1> SUFFICES ASSUME NEW d \in Days
             PROVE  /\ TotalOf(Inserted(d) \ (failed \cup unviewed)) <= Revenue(d)
                    /\ Revenue(d) <= TotalOf(Inserted(d) \cup {e \in failed : Day[e] = d})
  BY DEF RevenueAgrees
<1> DEFINE most == Inserted(d) \cup {e \in failed : Day[e] = d}
           least == Inserted(d) \ (failed \cup unviewed)
<1>1. Revenue(d) = TotalOf(Shown(d))
  <2>1. Revenue(d) = DayTotal(RowsOf(d))
    BY DEF Revenue, SumFunction, DayTotal, RowsOf
  <2> QED BY <2>1 DEF Tallied
<1>2. most \subseteq completed /\ completed \subseteq Events
  BY DEF IInv, Typed, InOnePlace, Inserted
<1>3. Shown(d) \subseteq most
  BY DEF Shown, RowsOf, Booked, Inserted
<1>4. least \subseteq Shown(d)
  <2> SUFFICES ASSUME NEW e \in least PROVE e \in Shown(d)
    OBVIOUS
  <2>1. e \in Events /\ Day[e] = d /\ \E a \in revenue : e \in a.orders
    BY DEF Inserted, Booked
  <2> QED BY <2>1 DEF Booked, Shown, RowsOf
<1> HIDE DEF most, least
<1>5. IsFiniteSet(most) /\ IsFiniteSet(Shown(d)) /\ most \subseteq Events /\ Shown(d) \subseteq Events
  <2>1. IsFiniteSet(completed)
    BY DEF Booked
  <2>2. IsFiniteSet(most)
    BY <1>2, <2>1, FS_Subset
  <2> QED BY <1>2, <1>3, <2>2, FS_Subset
<1>6. TotalOf(least) <= TotalOf(Shown(d)) /\ TotalOf(Shown(d)) <= TotalOf(most)
  BY <1>3, <1>4, <1>5, TotalOfGrows
<1> QED BY <1>1, <1>6 DEF most, least

\* However inserts, failed ones too, merges, kills and starts with or without
\* ClickHouse and its view follow each other, the revenue of a day is that of its
\* orders in order_events, but for the orders of failed inserts and those inserted
\* before the view.
THEOREM RevenueIsSum == Spec => []RevenueAgrees
<1>1. Init => Booked /\ Tallied
  <2> SUFFICES ASSUME Init PROVE Booked /\ Tallied
    OBVIOUS
  <2>1. Booked
    BY FS_EmptySet DEF Init, Booked
  <2>2. ASSUME NEW d \in Days PROVE DayTotal(RowsOf(d)) = TotalOf(Shown(d))
    <3>1. RowsOf(d) = {} /\ Shown(d) = {}
      BY DEF Init, RowsOf, Shown
    <3>2. TotalOf({}) = 0
      BY FS_EmptySet, SumType DEF TotalOf
    <3>3. DayTotal({}) = 0
      BY FS_EmptySet, SumType DEF DayTotal
    <3> QED BY <3>1, <3>2, <3>3
  <2> QED BY <2>1, <2>2 DEF Tallied
<1>2. IInv /\ Booked /\ Tallied /\ [Next]_vars => Booked' /\ Tallied'
  <2> SUFFICES ASSUME IInv, Booked, Tallied, [Next]_vars PROVE Booked' /\ Tallied'
    OBVIOUS
  <2>1. CASE /\ UNCHANGED <<table, revenue, unviewed>> /\ failed \subseteq failed'
             /\ completed' = completed \/ \E e \in Events : completed' = completed \cup {e}
    <3>1. revenue' = revenue /\ unviewed \subseteq unviewed'
      BY <2>1
    <3>2. \A e \in Events : table'[e] = table[e] \/ (table'[e] > 0 /\ e \in failed' \cup unviewed')
      BY <2>1
    <3>3. Booked'
      BY <2>1, <3>1, <3>2, BookedStays
    <3> QED BY <3>1, <3>3, TalliedStays
  <2>2. ASSUME NEW e \in Events, Complete(e) \/ Publish(e) \/ PublishNothing(e) \/ Receive(e) \/ Drain(e)
        PROVE  Booked' /\ Tallied'
    BY <2>1, <2>2 DEF Complete, Publish, PublishNothing, Receive, Drain, clickhouse
  <2>3. CASE Tick \/ SeesDone \/ Drained \/ Sigterm \/ Close \/ Exit \/ Kill \/ Start \/ UNCHANGED vars
    BY <2>1, <2>3 DEF Tick, SeesDone, Drained, Sigterm, Close, Exit, Kill, Start, vars, clickhouse
  <2>4. CASE Flush
    <3>1. CASE revenue' = revenue \cup ViewRows(batch)
      BY <2>4, <3>1, FlushOutcomes, InsertBooks
    <3>2. CASE revenue' # revenue \cup ViewRows(batch)
      <4>1. revenue' = revenue /\ completed' = completed
        BY <2>4, <3>2, FlushOutcomes
      <4>2. batch \subseteq failed' \cup unviewed' /\ failed \subseteq failed' /\ unviewed \subseteq unviewed'
        BY <2>4, <3>2, FlushOutcomes
      <4>3. \A e \in Events : table'[e] = table[e] \/ (table'[e] > 0 /\ e \in batch)
        BY <2>4, FlushOutcomes DEF Stored, IInv, Typed
      <4>4. \A e \in Events : table'[e] = table[e] \/ (table'[e] > 0 /\ e \in failed' \cup unviewed')
        BY <4>2, <4>3
      <4>5. Booked'
        BY <4>1, <4>2, <4>4, BookedStays
      <4> QED BY <4>1, <4>5, TalliedStays
    <3> QED BY <3>1, <3>2
  <2>5. ASSUME NEW a \in revenue, NEW b \in revenue, a # b, Merge(a, b)
        PROVE  Booked' /\ Tallied'
    BY <2>5, MergeBooks
  <2> QED BY <2>2, <2>3, <2>4, <2>5 DEF Next, Consume
<1>3. IInv /\ Booked /\ Tallied => RevenueAgrees
  BY BookedAgrees
<1> QED BY InitIInv, NextIInv, <1>1, <1>2, <1>3, PTL DEF Spec
=============================================================================
