----------------------- MODULE SnapshotPipelineProofs -----------------------
(***************************************************************************)
(* Proofs about SnapshotPipeline, for every value of its constants.  The  *)
(* queries of mysql_snapshot_extractor.rs return the rows ORDER BY the    *)
(* order column; Sorted, which models that order, is shown to list every  *)
(* row of its argument once, in that order.  On it rest the type          *)
(* invariant; for an order column without NULLs, that no row is pushed    *)
(* twice and the bound on the queries; and, NULLs included, that every    *)
(* row reaches a sinker before the driver's loop ends.                    *)
(***************************************************************************)
EXTENDS SnapshotPipeline, FiniteSetTheorems, SequenceTheorems, TLAPS

(* The 1-based place of row r in the ORDER BY of the rows M. *)
RankIn(M, r) == Cardinality({q \in M : Before(q, r)}) + 1

(* The order values a table may hold. *)
ValueOf == OrderValues \cup {NullValue}

USE SnapshotAssumption, DriverAssumption

-----------------------------------------------------------------------------
(* Every table the source may hold maps its rows to order values. *)
LEMMA TablesType ==
  ASSUME NEW t \in Tables
  PROVE  /\ DOMAIN t = 1..Len(t)
         /\ t \in [DOMAIN t -> ValueOf]
         /\ Len(t) \in 0..MaxRows
         /\ \A r, q \in DOMAIN t : r # q /\ t[r] # NullValue => t[r] # t[q]
         /\ ~OrderNullable => \A r \in DOMAIN t : t[r] \in OrderValues
<1>1. PICK n \in 0..MaxRows :
        /\ t \in [1..n -> OrderValues \cup (IF OrderNullable THEN {NullValue} ELSE {})]
        /\ \A r, q \in 1..n : r # q /\ t[r] # NullValue => t[r] # t[q]
  BY DEF Tables
<1>2. DOMAIN t = 1..n /\ Len(t) = n
  BY <1>1
<1> QED
  BY <1>1, <1>2 DEF ValueOf, OrderValues

(***************************************************************************)
(* ORDER BY order_col ASC over a table: a strict total order on its rows. *)
(***************************************************************************)
LEMMA BeforeOrder ==
  ASSUME table \in [Rows -> Nat], Rows \subseteq Nat
  PROVE  /\ \A r \in Rows : ~Before(r, r)
         /\ \A r, q, s \in Rows : Before(r, q) /\ Before(q, s) => Before(r, s)
         /\ \A r, q \in Rows : r # q => Before(r, q) \/ Before(q, r)
         /\ \A r, q \in Rows : Before(r, q) => ~Before(q, r)
BY DEF Before

(* A row placed before r in the order is placed earlier by RankIn. *)
LEMMA RankLess ==
  ASSUME table \in [Rows -> Nat], Rows \subseteq Nat,
         NEW M \in SUBSET Rows, IsFiniteSet(M),
         NEW q \in M, NEW r \in M, Before(q, r)
  PROVE  RankIn(M, q) < RankIn(M, r)
<1> DEFINE Aq == {x \in M : Before(x, q)}
           Ar == {x \in M : Before(x, r)}
<1>1. Aq \cup {q} \subseteq Ar /\ q \notin Aq
  BY BeforeOrder
<1>2. IsFiniteSet(Aq) /\ IsFiniteSet(Ar)
  BY FS_Subset
<1>3. Cardinality(Aq \cup {q}) = Cardinality(Aq) + 1
  BY <1>1, <1>2, FS_AddElement
<1>4. IsFiniteSet(Aq \cup {q}) /\ Cardinality(Aq \cup {q}) <= Cardinality(Ar)
  BY <1>1, <1>2, FS_Subset
<1>5. Cardinality(Aq) \in Nat /\ Cardinality(Ar) \in Nat
  BY <1>2, FS_CardinalityType
<1> QED
  BY <1>3, <1>4, <1>5 DEF RankIn

(* RankIn places the rows of M at 1..Cardinality(M). *)
LEMMA RankRange ==
  ASSUME table \in [Rows -> Nat], Rows \subseteq Nat,
         NEW M \in SUBSET Rows, IsFiniteSet(M), NEW r \in M
  PROVE  RankIn(M, r) \in 1..Cardinality(M)
<1> DEFINE Ar == {x \in M : Before(x, r)}
<1>1. Ar \subseteq M \ {r}
  BY BeforeOrder
<1>2. IsFiniteSet(M \ {r}) /\ Cardinality(M \ {r}) = Cardinality(M) - 1
  BY FS_RemoveElement, FS_Subset
<1>3. IsFiniteSet(Ar) /\ Cardinality(Ar) <= Cardinality(M) - 1
  BY <1>1, <1>2, FS_Subset
<1>4. Cardinality(Ar) \in Nat /\ Cardinality(M) \in Nat
  BY <1>3, FS_CardinalityType
<1> QED
  BY <1>3, <1>4 DEF RankIn


(***************************************************************************)
(* The rows of M in ORDER BY order: Sorted(M) lists every row of M once,  *)
(* each before the rows the order puts after it.  The ranks of the rows   *)
(* are distinct and lie in 1..Cardinality(M), so every place has its row. *)
(***************************************************************************)
LEMMA SortedSpec ==
  ASSUME table \in [Rows -> Nat], Rows \subseteq Nat,
         NEW M \in SUBSET Rows, IsFiniteSet(M)
  PROVE  /\ Sorted(M) \in [1..Cardinality(M) -> M]
         /\ \A i, j \in 1..Cardinality(M) : i < j => Before(Sorted(M)[i], Sorted(M)[j])
         /\ \A r \in M : \E i \in 1..Cardinality(M) : Sorted(M)[i] = r
<1> DEFINE n == Cardinality(M)
           f == [r \in M |-> RankIn(M, r)]
<1>1. n \in Nat
  BY FS_CardinalityType
<1>2. \A a, b \in M : a # b => RankIn(M, a) # RankIn(M, b)
  <2> TAKE a, b \in M
  <2>1. CASE Before(a, b)
    <3>1. RankIn(M, a) < RankIn(M, b)
      BY <2>1, RankLess
    <3> QED
      BY <3>1, RankRange
  <2>2. CASE Before(b, a)
    <3>1. RankIn(M, b) < RankIn(M, a)
      BY <2>2, RankLess
    <3> QED
      BY <3>1, RankRange
  <2> QED
    BY <2>1, <2>2, BeforeOrder
<1>3. f \in Injection(M, 1..n)
  BY <1>2, RankRange DEF Injection, IsInjective
<1>4. IsFiniteSet(1..n) /\ Cardinality(1..n) = n
  BY <1>1, FS_Interval
<1>5. f \in Surjection(M, 1..n)
  BY <1>3, <1>4, FS_Injection
<1>6. \A i \in 1..n : \E r \in M : RankIn(M, r) = i
  BY <1>5 DEF Surjection
<1>7. Sorted(M) = [i \in 1..n |-> CHOOSE r \in M : RankIn(M, r) = i]
  BY DEF Sorted, RankIn
<1>8. \A i \in 1..n : Sorted(M)[i] \in M /\ RankIn(M, Sorted(M)[i]) = i
  BY <1>6, <1>7
<1>9. Sorted(M) \in [1..n -> M]
  BY <1>7, <1>8
<1>10. \A i, j \in 1..n : i < j => Before(Sorted(M)[i], Sorted(M)[j])
  <2> TAKE i, j \in 1..n
  <2> HAVE i < j
  <2>1. Sorted(M)[i] # Sorted(M)[j]
    BY <1>8
  <2>2. ~Before(Sorted(M)[j], Sorted(M)[i])
    <3> DEFINE a == Sorted(M)[i]
               b == Sorted(M)[j]
    <3>1. a \in M /\ b \in M /\ RankIn(M, a) = i /\ RankIn(M, b) = j
      BY <1>8
    <3>2. Before(b, a) => RankIn(M, b) < RankIn(M, a)
      BY <3>1, RankLess
    <3> QED
      BY <3>1, <3>2
  <2> QED
    BY <1>8, <2>1, <2>2, BeforeOrder
<1>11. \A r \in M : \E i \in 1..n : Sorted(M)[i] = r
  <2> TAKE r \in M
  <2>1. RankIn(M, r) \in 1..n
    BY RankRange
  <2> QED
    BY <1>2, <1>8, <2>1
<1> QED
  BY <1>9, <1>10, <1>11


(* Under the assumptions on the constants, a table's rows are 1..n and    *)
(* its order values naturals.                                              *)
LEMMA TableFacts ==
  ASSUME table \in Tables
  PROVE  /\ table \in [Rows -> Nat]
         /\ Rows = 1..Len(table) /\ Len(table) \in Nat
         /\ Rows \subseteq Nat /\ IsFiniteSet(Rows)
         /\ \A r \in Rows : table[r] \in ValueOf
<1>1. /\ DOMAIN table = 1..Len(table) /\ Len(table) \in 0..MaxRows
      /\ table \in [DOMAIN table -> ValueOf]
  BY TablesType
<1>2. ValueOf \subseteq Nat
  BY DEF ValueOf, OrderValues, NullValue
<1>3. IsFiniteSet(Rows)
  <2>1. Len(table) \in Nat
    BY <1>1
  <2>2. IsFiniteSet(1..Len(table))
    BY <2>1, FS_Interval
  <2> QED
    BY <1>1, <2>2 DEF Rows
<1> QED
  BY <1>1, <1>2, <1>3 DEF Rows

(* A function on 1..n is a sequence. *)
LEMMA FunSeq ==
  ASSUME NEW X, NEW n \in Nat, NEW f \in [1..n -> X]
  PROVE  f \in Seq(X)
OBVIOUS

(* A sequence that follows the order lists no row twice. *)
LEMMA OrderedInjective ==
  ASSUME table \in [Rows -> Nat], Rows \subseteq Nat,
         NEW s \in Seq(Rows),
         \A i, j \in DOMAIN s : i < j => Before(s[i], s[j])
  PROVE  \A i, j \in DOMAIN s : i # j => s[i] # s[j]
<1> TAKE i, j \in DOMAIN s
<1> HAVE i # j
<1>1. s[i] \in Rows /\ s[j] \in Rows /\ i \in Nat /\ j \in Nat
  BY ElementOfSeq
<1> QED
  BY <1>1, BeforeOrder

(***************************************************************************)
(* A slice query returns at most slice_size rows, in the order, each one  *)
(* after start_value when start_value is Some (sql2's order_col > ?).     *)
(***************************************************************************)
LEMMA SliceRowsSpec ==
  ASSUME table \in Tables, NEW start \in Nat
  PROVE  /\ SliceRows(start) \in Seq(Rows)
         /\ Len(SliceRows(start)) <= SliceSize
         /\ \A i, j \in DOMAIN SliceRows(start) :
              i < j => Before(SliceRows(start)[i], SliceRows(start)[j])
         /\ \A i \in DOMAIN SliceRows(start) :
              start # NullValue => table[SliceRows(start)[i]] > start
<1> DEFINE M == IF start = NullValue THEN Rows
                ELSE {r \in Rows : table[r] # NullValue /\ table[r] > start}
           S == Sorted(M)
           k == IF Len(S) < SliceSize THEN Len(S) ELSE SliceSize
<1>1. table \in [Rows -> Nat] /\ Rows \subseteq Nat /\ IsFiniteSet(Rows)
  BY TableFacts
<1>2. M \subseteq Rows /\ IsFiniteSet(M)
  BY <1>1, FS_Subset
<1>3. /\ S \in [1..Cardinality(M) -> M]
      /\ \A i, j \in 1..Cardinality(M) : i < j => Before(S[i], S[j])
  BY <1>1, <1>2, SortedSpec
<1>4. Cardinality(M) \in Nat /\ Len(S) = Cardinality(M)
  BY <1>2, <1>3, FS_CardinalityType
<1>5. k \in 0..Len(S) /\ k <= SliceSize
  BY <1>4
<1>6. SliceRows(start) = [i \in 1..k |-> S[i]]
  BY DEF SliceRows
<1>7. \A i \in 1..k : S[i] \in M
  <2> TAKE i \in 1..k
  <2>1. i \in 1..Cardinality(M)
    BY <1>4, <1>5
  <2> QED
    BY <1>3, <2>1
<1>8. SliceRows(start) \in Seq(Rows) /\ Len(SliceRows(start)) = k
  <2>1. [i \in 1..k |-> S[i]] \in [1..k -> Rows]
    BY <1>2, <1>7
  <2>2. k \in Nat
    BY <1>5
  <2>3. \A i \in 1..k : S[i] \in Rows
    BY <1>2, <1>7
  <2>4. [i \in 1..k |-> S[i]] \in Seq(Rows)
    BY <2>1, <2>2, FunSeq
  <2> QED
    BY <1>6, <2>1, <2>2, <2>4
<1>9. \A i, j \in DOMAIN SliceRows(start) :
        i < j => Before(SliceRows(start)[i], SliceRows(start)[j])
  <2> TAKE i, j \in DOMAIN SliceRows(start)
  <2> HAVE i < j
  <2>1. i \in 1..Cardinality(M) /\ j \in 1..Cardinality(M)
    BY <1>4, <1>5, <1>6
  <2>2. SliceRows(start)[i] = S[i] /\ SliceRows(start)[j] = S[j]
    BY <1>6
  <2>3. Before(S[i], S[j])
    BY <1>3, <2>1
  <2> QED
    BY <2>2, <2>3
<1>10. \A i \in DOMAIN SliceRows(start) :
         start # NullValue => table[SliceRows(start)[i]] > start
  BY <1>6, <1>7
<1> QED
  BY <1>5, <1>8, <1>9, <1>10

(***************************************************************************)
(* The inductive invariant of the type: in a slice, the rows pushed and   *)
(* the rows still to push fit slice_size, which is why slice_count stays  *)
(* within it.                                                              *)
(***************************************************************************)
TInv ==
  /\ TypeOK
  /\ ext = "fetch" => sliceCount + Len(pending) <= SliceSize

LEMMA InitTInv ==
  ASSUME Init
  PROVE  TInv
<1>1. table \in Tables /\ Rows \subseteq Nat
  BY TableFacts DEF Init
<1>2. NullValue \in OrderValues \cup {NullValue}
  BY DEF NullValue
<1>3. /\ pending \in Seq(Rows) /\ pushed \in Seq(Rows)
      /\ buffer \in Seq(Item(Rows)) /\ batch \in Seq(Item(Rows))
      /\ Len(buffer) <= QueueCapacity
  BY EmptySeq DEF Init, DriverInit
<1>4. /\ sliceCount \in 0..SliceSize /\ queries \in 0..MaxQueries
      /\ startValue \in OrderValues \cup {NullValue}
  BY <1>2 DEF Init
<1> QED
  BY <1>1, <1>3, <1>4 DEF Init, DriverInit, TInv, TypeOK

(* The driver's steps keep the queue, the batch and what was delivered    *)
(* within the table's rows.                                                *)
LEMMA DriverTInv ==
  ASSUME TInv,
         \/ \E e \in BOOLEAN : Tick(e) /\ UNCHANGED extVars
         \/ \E c \in BOOLEAN : Sink(c) /\ UNCHANGED extVars
         \/ Exit /\ UNCHANGED extVars
  PROVE  TInv'
<1>1. UNCHANGED extVars /\ UNCHANGED shutDown
  BY DEF Tick, Sink, Exit, extVars
<1>2. /\ batch' \in Seq(Item(Rows))' /\ buffer' \in Seq(Item(Rows))'
      /\ Len(buffer') <= QueueCapacity
      /\ phase' \in {"idle", "sinking", "stopped"}
      /\ delivered' \subseteq Rows'
  <2>1. CASE \E e \in BOOLEAN : Tick(e) /\ UNCHANGED extVars
    <3>1. /\ \/ batch' = <<>> /\ buffer' = buffer
             \/ batch' = buffer /\ buffer' = <<>>
          /\ phase' = "sinking" /\ UNCHANGED delivered
      BY <2>1 DEF Tick
    <3>2. <<>> \in Seq(Item(Rows)) /\ Len(<<>>) = 0
      BY EmptySeq
    <3>3. Rows' = Rows
      BY <1>1 DEF extVars, Rows
    <3>4. batch' \in Seq(Item(Rows)) /\ buffer' \in Seq(Item(Rows))
          /\ Len(buffer') <= QueueCapacity
      <4>1. buffer \in Seq(Item(Rows)) /\ Len(buffer) <= QueueCapacity
            /\ Len(<<>>) <= QueueCapacity
        BY <3>2 DEF TInv, TypeOK
      <4> QED
        BY <3>1, <3>2, <4>1, Zenon
    <3> QED
      BY <3>1, <3>3, <3>4 DEF TInv, TypeOK
  <2>2. CASE \E c \in BOOLEAN : Sink(c) /\ UNCHANGED extVars
    <3>1. Payload(batch, SinkMethod(batch)) \subseteq Rows
      <4>1. \A i \in DOMAIN batch : batch[i] \in Item(Rows)
        BY ElementOfSeq DEF TInv, TypeOK
      <4> QED
        BY <4>1 DEF Payload, Item
    <3> QED
      BY <1>1, <2>2, <3>1, EmptySeq DEF Sink, TInv, TypeOK, extVars, Rows
  <2>3. CASE Exit /\ UNCHANGED extVars
    BY <1>1, <2>3 DEF Exit, TInv, TypeOK, extVars, Rows
  <2> QED
    BY <2>1, <2>2, <2>3
<1> QED
  BY <1>1, <1>2 DEF TInv, TypeOK, extVars, Rows


(* get_tb_meta: with no order column, the full scan's single query        *)
(* returns the whole table in order.                                       *)
LEMMA GetMetaTInv ==
  ASSUME TInv, GetMeta
  PROVE  TInv'
<1>1. table \in [Rows -> Nat] /\ Rows \subseteq Nat /\ IsFiniteSet(Rows)
  BY TableFacts DEF TInv, TypeOK
<1>2. Sorted(Rows) \in Seq(Rows)
  <2>1. Sorted(Rows) \in [1..Cardinality(Rows) -> Rows]
    BY <1>1, SortedSpec
  <2>2. Cardinality(Rows) \in Nat
    BY <1>1, FS_CardinalityType
  <2> QED
    BY <2>1, <2>2, FunSeq
<1>3. /\ UNCHANGED <<driverVars, table, hasOrderCol, startValue, sliceCount,
                     queries, pushed>>
      /\ ext' \in {"query", "full"}
      /\ pending' \in {pending, Sorted(Rows)}
  BY DEF GetMeta
<1> QED
  BY <1>2, <1>3 DEF TInv, TypeOK, driverVars, Rows

(* A slice query: its rows fit slice_size and slice_count restarts at 0. *)
LEMMA QueryTInv ==
  ASSUME TInv, Query
  PROVE  TInv'
<1>1. startValue \in Nat /\ table \in Tables
  BY DEF TInv, TypeOK, OrderValues, NullValue
<1>2. SliceRows(startValue) \in Seq(Rows) /\ Len(SliceRows(startValue)) <= SliceSize
  BY <1>1, SliceRowsSpec
<1>3. /\ pending' = SliceRows(startValue) /\ sliceCount' = 0
      /\ queries' = queries + 1 /\ queries < MaxQueries /\ ext' = "fetch"
      /\ UNCHANGED <<driverVars, table, hasOrderCol, startValue, pushed>>
  BY DEF Query
<1> QED
  BY <1>2, <1>3 DEF TInv, TypeOK, driverVars, Rows

(***************************************************************************)
(* push_row_to_buffer: the row at the head of the result goes to the      *)
(* queue, which has room; in a slice, slice_count counts it and           *)
(* start_value takes its order value.                                      *)
(***************************************************************************)
LEMMA PushRowTInv ==
  ASSUME TInv, PushRow
  PROVE  TInv'
<1> DEFINE h == Head(pending)
           it == [kind |-> "Dml", pos |-> h]
<1>1. /\ pending \in Seq(Rows) /\ pending # <<>>
      /\ pushed \in Seq(Rows) /\ buffer \in Seq(Item(Rows))
      /\ table \in Tables
  BY DEF PushRow, TInv, TypeOK
<1>2. /\ h \in Rows /\ Tail(pending) \in Seq(Rows)
      /\ Len(Tail(pending)) = Len(pending) - 1 /\ Len(pending) \in Nat \ {0}
  BY <1>1, HeadTailProperties, EmptySeq
<1>3. it \in Item(Rows)
  BY <1>2 DEF Item, Kinds
<1>4. /\ Append(buffer, it) \in Seq(Item(Rows))
      /\ Len(Append(buffer, it)) = Len(buffer) + 1
  BY <1>1, <1>3, AppendProperties, Zenon
<1>5. Append(pushed, h) \in Seq(Rows)
  BY <1>1, <1>2, AppendProperties
<1>6. table[h] \in OrderValues \cup {NullValue}
  BY <1>1, <1>2, TableFacts DEF ValueOf
<1>7. /\ buffer' = Append(buffer, it) /\ pushed' = Append(pushed, h)
      /\ pending' = Tail(pending) /\ Len(buffer) < QueueCapacity
      /\ ext \in {"fetch", "full"}
      /\ UNCHANGED <<batch, phase, delivered, shutDown, table, hasOrderCol,
                     ext, queries>>
  BY DEF PushRow
<1>8. CASE ext = "fetch"
  <2>1. startValue' = table[h] /\ sliceCount' = sliceCount + 1
    BY <1>8 DEF PushRow
  <2>2. sliceCount \in Nat /\ sliceCount + Len(pending) <= SliceSize
    BY <1>8 DEF TInv, TypeOK
  <2> QED
    BY <1>2, <1>4, <1>5, <1>6, <1>7, <1>8, <2>1, <2>2 DEF TInv, TypeOK, Rows
<1>9. CASE ext = "full"
  <2>1. UNCHANGED <<startValue, sliceCount>>
    BY <1>9 DEF PushRow
  <2> QED
    BY <1>2, <1>4, <1>5, <1>7, <1>9, <2>1 DEF TInv, TypeOK, Rows
<1> QED
  BY <1>7, <1>8, <1>9

(* The ends of a slice, of the full scan and of the wait loop change only *)
(* where the extractor is and the shut_down flag.                          *)
LEMMA EndTInv ==
  ASSUME TInv, EndSlice \/ EndFull \/ SetShutDown
  PROVE  TInv'
<1>1. /\ UNCHANGED <<buffer, batch, phase, delivered, table, hasOrderCol,
                     pending, startValue, sliceCount, queries, pushed>>
      /\ ext' \in {"query", "wait", "done"}
      /\ shutDown' \in BOOLEAN
  BY DEF EndSlice, EndFull, SetShutDown, driverVars, TInv, TypeOK
<1> QED
  BY <1>1 DEF TInv, TypeOK, Rows

(* Every step of the snapshot pipeline preserves TInv. *)
LEMMA NextTInv ==
  ASSUME TInv, [Next]_vars
  PROVE  TInv'
<1>1. CASE GetMeta
  BY <1>1, GetMetaTInv
<1>2. CASE Query
  BY <1>2, QueryTInv
<1>3. CASE PushRow
  BY <1>3, PushRowTInv
<1>4. CASE EndSlice \/ EndFull \/ SetShutDown
  BY <1>4, EndTInv
<1>5. CASE \/ \E e \in BOOLEAN : Tick(e) /\ UNCHANGED extVars
           \/ \E c \in BOOLEAN : Sink(c) /\ UNCHANGED extVars
           \/ Exit /\ UNCHANGED extVars
  BY <1>5, DriverTInv
<1>6. CASE UNCHANGED vars
  BY <1>6 DEF vars, driverVars, TInv, TypeOK, Rows
<1> QED
  BY <1>1, <1>2, <1>3, <1>4, <1>5, <1>6 DEF Next

(***************************************************************************)
(* Type correctness of the snapshot pipeline, for every table size, slice *)
(* size, queue capacity and query bound: every query result, queue item   *)
(* and delivered position is a row of the table, the queue stays within   *)
(* its capacity and slice_count within slice_size.                         *)
(***************************************************************************)
THEOREM TypeCorrect == Spec => []TypeOK
<1>1. TInv => TypeOK
  BY DEF TInv
<1> QED
  BY InitTInv, NextTInv, <1>1, PTL DEF Spec


-----------------------------------------------------------------------------
(***************************************************************************)
(* No row pushed twice, for an order column without NULLs.                *)
(***************************************************************************)

(* Without NULLs, the order values are distinct and ORDER BY sorts by     *)
(* them.                                                                   *)
LEMMA BeforeValue ==
  ASSUME ~OrderNullable, table \in Tables,
         NEW r \in Rows, NEW q \in Rows, Before(r, q)
  PROVE  table[r] < table[q]
<1>1. /\ \A x, y \in Rows : x # y /\ table[x] # NullValue => table[x] # table[y]
      /\ \A x \in Rows : table[x] \in OrderValues
  BY TablesType DEF Rows
<1>2. table[r] \in OrderValues /\ table[r] # NullValue
  BY <1>1 DEF OrderValues, NullValue
<1>3. Rows \subseteq Nat
  BY TableFacts
<1> QED
  BY <1>1, <1>2, <1>3 DEF Before

(***************************************************************************)
(* The inductive invariant of PushedOnce: the rows pushed and the rows    *)
(* still to push are each listed once and have no row in common.  In the *)
(* slice scan every pushed row has an order value at most start_value,    *)
(* and the rows of the current slice follow start_value in increasing     *)
(* order -- which is what makes the next query's `order_col > ?` skip     *)
(* exactly the rows already pushed.                                        *)
(***************************************************************************)
PInv ==
  /\ IsInjective(pushed)
  /\ IsInjective(pending)
  /\ \A i \in DOMAIN pending, j \in DOMAIN pushed : pending[i] # pushed[j]
  /\ ext = "meta" => pushed = <<>>
  /\ ext = "full" => ~hasOrderCol
  /\ ext \in {"query", "fetch"} => hasOrderCol
  /\ hasOrderCol => \A j \in DOMAIN pushed : table[pushed[j]] <= startValue
  /\ ext = "fetch" => \A i \in DOMAIN pending : startValue < table[pending[i]]
  /\ ext = "fetch" =>
       \A i, j \in DOMAIN pending : i < j => table[pending[i]] < table[pending[j]]

LEMMA InitPInv ==
  ASSUME Init
  PROVE  PInv
BY DEF Init, PInv, IsInjective

(* get_tb_meta: nothing is pushed yet; the full scan's rows are listed    *)
(* once each.                                                              *)
LEMMA GetMetaPInv ==
  ASSUME TInv, PInv, GetMeta
  PROVE  PInv'
<1>1. table \in [Rows -> Nat] /\ Rows \subseteq Nat /\ IsFiniteSet(Rows)
  BY TableFacts DEF TInv, TypeOK
<1>2. IsInjective(Sorted(Rows))
  <2>1. /\ Sorted(Rows) \in [1..Cardinality(Rows) -> Rows]
        /\ \A i, j \in 1..Cardinality(Rows) :
             i < j => Before(Sorted(Rows)[i], Sorted(Rows)[j])
    BY <1>1, SortedSpec
  <2>2. Cardinality(Rows) \in Nat
    BY <1>1, FS_CardinalityType
  <2>3. Sorted(Rows) \in Seq(Rows)
    BY <2>1, <2>2, FunSeq
  <2> QED
    BY <1>1, <2>1, <2>3, OrderedInjective DEF IsInjective
<1>3. pushed = <<>> /\ pushed' = <<>>
  BY DEF GetMeta, PInv
<1>4. CASE hasOrderCol
  <2>1. ext' = "query" /\ UNCHANGED <<pending, hasOrderCol>>
    BY <1>4 DEF GetMeta
  <2>2. IsInjective(pushed') /\ IsInjective(pending')
    BY <1>3, <2>1 DEF PInv, IsInjective
  <2>3. /\ \A i \in DOMAIN pending', j \in DOMAIN pushed' : pending'[i] # pushed'[j]
        /\ \A j \in DOMAIN pushed' : table'[pushed'[j]] <= startValue'
    BY <1>3
  <2> QED
    BY <1>4, <2>1, <2>2, <2>3 DEF PInv
<1>5. CASE ~hasOrderCol
  <2>1. ext' = "full" /\ pending' = Sorted(Rows) /\ UNCHANGED hasOrderCol
    BY <1>5 DEF GetMeta
  <2> QED
    BY <1>2, <1>3, <1>5, <2>1 DEF PInv, IsInjective
<1> QED
  BY <1>4, <1>5

(***************************************************************************)
(* A slice query: every row it returns has an order value above           *)
(* start_value, so above that of every row pushed; the rows come once     *)
(* each, in increasing order.                                              *)
(***************************************************************************)
LEMMA QueryPInv ==
  ASSUME ~OrderNullable, TInv, PInv, Query
  PROVE  PInv'
<1> DEFINE S == SliceRows(startValue)
<1>1. startValue \in Nat /\ table \in Tables
  BY DEF TInv, TypeOK, OrderValues, NullValue
<1>2. /\ S \in Seq(Rows)
      /\ \A i, j \in DOMAIN S : i < j => Before(S[i], S[j])
      /\ \A i \in DOMAIN S : startValue # NullValue => table[S[i]] > startValue
  BY <1>1, SliceRowsSpec
<1> HIDE DEF S
<1>3. table \in [Rows -> Nat] /\ Rows \subseteq Nat
  BY <1>1, TableFacts
<1>4. IsInjective(S)
  BY <1>2, <1>3, OrderedInjective DEF IsInjective
<1>5. \A i \in DOMAIN S : S[i] \in Rows
  BY <1>2, ElementOfSeq
<1>6. \A i \in DOMAIN S : startValue < table[S[i]]
  <2> TAKE i \in DOMAIN S
  <2>1. table[S[i]] \in OrderValues
    BY <1>1, <1>5, TablesType DEF Rows
  <2> QED
    BY <1>2, <2>1 DEF OrderValues, NullValue
<1>7. \A i, j \in DOMAIN S : i < j => table[S[i]] < table[S[j]]
  BY <1>1, <1>2, <1>5, BeforeValue
<1>8. /\ pending' = S /\ ext' = "fetch" /\ ext = "query"
      /\ UNCHANGED <<table, hasOrderCol, startValue, pushed>>
  BY DEF Query, S
<1>9. \A i \in DOMAIN S, j \in DOMAIN pushed : S[i] # pushed[j]
  <2> TAKE i \in DOMAIN S, j \in DOMAIN pushed
  <2>1. pushed \in Seq(Rows)
    BY DEF TInv, TypeOK
  <2>2. pushed[j] \in Rows
    BY <2>1, ElementOfSeq
  <2>3. table[pushed[j]] <= startValue
    BY <1>8 DEF PInv
  <2>4. startValue < table[S[i]] /\ table[S[i]] \in Nat /\ table[pushed[j]] \in Nat
    BY <1>3, <1>5, <1>6, <2>2
  <2>5. table[S[i]] # table[pushed[j]]
    BY <1>1, <2>3, <2>4
  <2> QED
    BY <2>5
<1> QED
  BY <1>4, <1>6, <1>7, <1>8, <1>9 DEF PInv


(***************************************************************************)
(* push_row_to_buffer: the head of the result, which no pushed row        *)
(* equals, joins the rows pushed.  In a slice it becomes start_value, the *)
(* rest of the slice lying above it.                                       *)
(***************************************************************************)
LEMMA PushRowPInv ==
  ASSUME TInv, PInv, PushRow
  PROVE  PInv'
<1> DEFINE h == Head(pending)
           T == Tail(pending)
<1>1. /\ pending \in Seq(Rows) /\ pending # <<>> /\ pushed \in Seq(Rows)
      /\ table \in Tables
  BY DEF PushRow, TInv, TypeOK
<1>2. /\ table \in [Rows -> Nat] /\ Rows \subseteq Nat
  BY <1>1, TableFacts
<1>3. /\ h = pending[1] /\ h \in Rows /\ T \in Seq(Rows)
      /\ Len(pending) \in Nat \ {0} /\ DOMAIN pending = 1..Len(pending)
      /\ Len(T) = Len(pending) - 1 /\ DOMAIN T = 1..Len(T)
      /\ \A i \in DOMAIN T : T[i] = pending[i + 1]
  BY <1>1, HeadTailProperties, EmptySeq, LenProperties
<1>4. /\ Len(pushed) \in Nat /\ DOMAIN pushed = 1..Len(pushed)
      /\ DOMAIN Append(pushed, h) = 1..Len(pushed) + 1
      /\ \A j \in 1..Len(pushed) : Append(pushed, h)[j] = pushed[j]
      /\ Append(pushed, h)[Len(pushed) + 1] = h
  BY <1>1, <1>3, AppendProperties, LenProperties
<1>5. /\ pushed' = Append(pushed, h) /\ pending' = T
      /\ ext \in {"fetch", "full"}
      /\ UNCHANGED <<table, hasOrderCol, ext>>
  BY DEF PushRow
<1>6. \A j \in DOMAIN pushed : h # pushed[j]
  BY <1>3 DEF PInv
<1>7. IsInjective(pushed')
  BY <1>4, <1>5, <1>6 DEF PInv, IsInjective
<1>8. IsInjective(pending')
  BY <1>3, <1>5 DEF PInv, IsInjective
<1>9. \A i \in DOMAIN pending', j \in DOMAIN pushed' : pending'[i] # pushed'[j]
  <2> SUFFICES ASSUME NEW i \in DOMAIN T, NEW j \in 1..Len(pushed) + 1
               PROVE  T[i] # Append(pushed, h)[j]
    BY <1>4, <1>5
  <2>1. CASE j \in 1..Len(pushed)
    BY <1>3, <1>4, <2>1 DEF PInv
  <2>2. CASE j = Len(pushed) + 1
    <3>1. pending[i + 1] # pending[1]
      BY <1>3 DEF PInv, IsInjective
    <3> QED
      BY <1>3, <1>4, <2>2, <3>1
  <2> QED
    BY <1>4, <2>1, <2>2
<1>10. CASE ext = "fetch"
  <2>1. startValue' = table[h] /\ hasOrderCol /\ ext' = "fetch"
    BY <1>5, <1>10 DEF PushRow, PInv
  <2>2. /\ startValue \in Nat
        /\ \A i \in DOMAIN pending : table[pending[i]] \in Nat
        /\ \A i \in DOMAIN pushed : table[pushed[i]] \in Nat
    <3>1. startValue \in Nat
      BY DEF TInv, TypeOK, OrderValues, NullValue
    <3>2. \A i \in DOMAIN pending : pending[i] \in Rows
      BY <1>1, <1>3, ElementOfSeq
    <3>3. \A i \in DOMAIN pushed : pushed[i] \in Rows
      BY <1>1, <1>4, ElementOfSeq
    <3> QED
      BY <1>2, <3>1, <3>2, <3>3
  <2>3. \A j \in DOMAIN pushed' : table'[pushed'[j]] <= startValue'
    <3> SUFFICES ASSUME NEW j \in 1..Len(pushed) + 1
                 PROVE  table[Append(pushed, h)[j]] <= table[h]
      BY <1>4, <1>5, <2>1
    <3>1. CASE j \in 1..Len(pushed)
      <4>1. table[pushed[j]] <= startValue /\ startValue < table[h]
        BY <1>3, <1>10, <2>1, <3>1 DEF PInv
      <4> QED
        BY <1>3, <1>4, <2>2, <3>1, <4>1
    <3>2. CASE j = Len(pushed) + 1
      BY <1>2, <1>3, <1>4, <3>2
    <3> QED
      BY <1>4, <3>1, <3>2
  <2>4. \A i \in DOMAIN pending' : startValue' < table'[pending'[i]]
    <3> SUFFICES ASSUME NEW i \in DOMAIN T
                 PROVE  table[pending[1]] < table[pending[i + 1]]
      BY <1>3, <1>5, <2>1
    <3>1. 1 \in DOMAIN pending /\ i + 1 \in DOMAIN pending /\ 1 < i + 1
      BY <1>3
    <3> QED
      BY <1>10, <3>1 DEF PInv
  <2>5. \A i, j \in DOMAIN pending' : i < j => table'[pending'[i]] < table'[pending'[j]]
    BY <1>3, <1>5, <1>10 DEF PInv
  <2> QED
    BY <1>5, <1>7, <1>8, <1>9, <2>1, <2>3, <2>4, <2>5 DEF PInv
<1>11. CASE ext = "full"
  <2>1. ~hasOrderCol /\ ext' = "full"
    BY <1>5, <1>11 DEF PInv
  <2> QED
    BY <1>5, <1>7, <1>8, <1>9, <2>1 DEF PInv
<1> QED
  BY <1>5, <1>10, <1>11


(* The ends of a slice, of the full scan and of the wait loop leave the   *)
(* rows alone; a slice goes on only from a slice.                          *)
LEMMA EndPInv ==
  ASSUME PInv, EndSlice \/ EndFull \/ SetShutDown
  PROVE  PInv'
<1>1. /\ UNCHANGED <<table, hasOrderCol, pending, startValue, pushed>>
      /\ ext' \in {"query", "wait", "done"}
      /\ ext' = "query" => ext = "fetch"
  BY DEF EndSlice, EndFull, SetShutDown
<1> QED
  BY <1>1 DEF PInv

(* Every step of the snapshot pipeline preserves PInv. *)
LEMMA NextPInv ==
  ASSUME ~OrderNullable, TInv, PInv, [Next]_vars
  PROVE  PInv'
<1>1. CASE GetMeta
  BY <1>1, GetMetaPInv
<1>2. CASE Query
  BY <1>2, QueryPInv
<1>3. CASE PushRow
  BY <1>3, PushRowPInv
<1>4. CASE EndSlice \/ EndFull \/ SetShutDown
  BY <1>4, EndPInv
<1>5. CASE \/ \E e \in BOOLEAN : Tick(e) /\ UNCHANGED extVars
           \/ \E c \in BOOLEAN : Sink(c) /\ UNCHANGED extVars
           \/ Exit /\ UNCHANGED extVars
           \/ UNCHANGED vars
  <2>1. UNCHANGED extVars
    BY <1>5 DEF vars, extVars
  <2> QED
    BY <2>1 DEF extVars, PInv, IsInjective
<1> QED
  BY <1>1, <1>2, <1>3, <1>4, <1>5 DEF Next

(***************************************************************************)
(* No row is pushed twice, for every table, slice size, queue capacity    *)
(* and query bound, when the order column admits no NULL: each slice      *)
(* query of extract_by_slices starts strictly after the last row of the   *)
(* previous slice, and the full scan lists every row once.  The           *)
(* snapshot_null_order run shows the property failing with NULLs.         *)
(***************************************************************************)
THEOREM PushedOnceHolds ==
  ASSUME ~OrderNullable
  PROVE  Spec => []PushedOnce
<1>1. Init => TInv /\ PInv
  BY InitTInv, InitPInv
<1>2. TInv /\ PInv /\ [Next]_vars => TInv' /\ PInv'
  BY NextTInv, NextPInv
<1>3. PInv => PushedOnce
  BY DEF PInv, PushedOnce, IsInjective
<1> QED
  BY <1>1, <1>2, <1>3, PTL DEF Spec


-----------------------------------------------------------------------------
(***************************************************************************)
(* The bound on the slice queries, for an order column without NULLs.     *)
(***************************************************************************)

(***************************************************************************)
(* The invariant of QueryBound: every slice before the current one was    *)
(* full (a short slice ends the scan), so the rows pushed count           *)
(* slice_size per earlier query plus slice_count.                          *)
(***************************************************************************)
QInv ==
  /\ ~hasOrderCol => queries = 0
  /\ ext = "meta" => queries = 0
  /\ hasOrderCol /\ ext = "query" => queries * SliceSize = Len(pushed)
  /\ hasOrderCol /\ ext \in {"fetch", "wait", "done"} =>
       /\ queries > 0
       /\ (queries - 1) * SliceSize + sliceCount = Len(pushed)

(* A sequence of rows that lists no row twice is no longer than the table. *)
LEMMA PushedLen ==
  ASSUME TInv, PInv
  PROVE  Len(pushed) <= Cardinality(Rows)
<1>1. pushed \in Seq(Rows) /\ table \in Tables
  BY DEF TInv, TypeOK
<1>2. IsFiniteSet(Rows)
  BY <1>1, TableFacts
<1>3. Len(pushed) \in Nat /\ pushed \in [1..Len(pushed) -> Rows]
  BY <1>1, LenProperties
<1>4. pushed \in Injection(1..Len(pushed), Rows)
  BY <1>3 DEF PInv, Injection, IsInjective
<1>5. Cardinality(1..Len(pushed)) <= Cardinality(Rows)
  BY <1>2, <1>4, FS_Injection
<1>6. Cardinality(1..Len(pushed)) = Len(pushed)
  BY <1>3, FS_Interval
<1> QED
  BY <1>5, <1>6

(* a slices of s rows fit in b rows only if a is at most ceil(b / s). *)
LEMMA CeilBound ==
  ASSUME NEW a \in Nat, NEW b \in Nat, NEW s \in Nat \ {0}, a * s <= b
  PROVE  a <= (b + s - 1) \div s
<1>1. b \div s \in Nat /\ b < (b \div s + 1) * s
  OBVIOUS
<1>2. a <= b \div s
  <2> SUFFICES ASSUME a > b \div s PROVE FALSE
    OBVIOUS
  <2>1. a * s >= (b \div s + 1) * s
    BY <1>1
  <2> QED
    BY <1>1, <2>1
<1>3. b \div s <= (b + s - 1) \div s
  OBVIOUS
<1> QED
  BY <1>2, <1>3

LEMMA InitQInv ==
  ASSUME Init
  PROVE  QInv
BY DEF Init, QInv

(* Every step of the snapshot pipeline preserves QInv. *)
LEMMA NextQInv ==
  ASSUME TInv, PInv, QInv, [Next]_vars
  PROVE  QInv'
<1>0. sliceCount \in 0..SliceSize /\ queries \in Nat /\ pushed \in Seq(Rows)
      /\ Len(pushed) \in Nat
  BY LenProperties DEF TInv, TypeOK
<1>1. CASE GetMeta
  <2>1. queries = 0 /\ pushed = <<>>
    BY <1>1 DEF GetMeta, QInv, PInv
  <2>2. UNCHANGED <<queries, pushed, hasOrderCol>>
        /\ ext' = IF hasOrderCol THEN "query" ELSE "full"
    BY <1>1 DEF GetMeta
  <2> QED
    BY <2>1, <2>2 DEF QInv
<1>2. CASE Query
  <2>1. /\ hasOrderCol /\ ext = "query" /\ ext' = "fetch"
        /\ queries' = queries + 1 /\ sliceCount' = 0
        /\ UNCHANGED <<hasOrderCol, pushed>>
    BY <1>2 DEF Query, PInv
  <2> QED
    BY <1>0, <2>1 DEF QInv
<1>3. CASE PushRow
  <2>1. /\ pushed' = Append(pushed, Head(pending))
        /\ UNCHANGED <<hasOrderCol, ext, queries>>
        /\ ext \in {"fetch", "full"}
    BY <1>3 DEF PushRow
  <2>2. Len(pushed') = Len(pushed) + 1
    BY <1>0, <2>1
  <2>3. CASE ext = "fetch"
    <3>1. sliceCount' = sliceCount + 1 /\ hasOrderCol
      BY <1>3, <2>3 DEF PushRow, PInv
    <3> QED
      BY <1>0, <2>1, <2>2, <2>3, <3>1 DEF QInv
  <2>4. CASE ext = "full"
    <3>1. ~hasOrderCol
      BY <2>4 DEF PInv
    <3> QED
      BY <2>1, <2>4, <3>1 DEF QInv
  <2> QED
    BY <2>1, <2>3, <2>4
<1>4. CASE EndSlice
  <2>1. /\ ext = "fetch" /\ hasOrderCol
        /\ ext' = IF sliceCount < SliceSize THEN "wait" ELSE "query"
        /\ UNCHANGED <<hasOrderCol, queries, sliceCount, pushed>>
    BY <1>4 DEF EndSlice, PInv
  <2>2. queries > 0 /\ (queries - 1) * SliceSize + sliceCount = Len(pushed)
    BY <2>1 DEF QInv
  <2>3. ~(sliceCount < SliceSize) => queries * SliceSize = Len(pushed)
    BY <1>0, <2>2
  <2> QED
    BY <2>1, <2>2, <2>3 DEF QInv
<1>5. CASE EndFull \/ SetShutDown
  <2>1. /\ ext \in {"full", "wait"} /\ ext' \in {"wait", "done"}
        /\ UNCHANGED <<hasOrderCol, queries, sliceCount, pushed>>
    BY <1>5 DEF EndFull, SetShutDown
  <2> QED
    BY <2>1 DEF QInv, PInv
<1>6. CASE \/ \E e \in BOOLEAN : Tick(e) /\ UNCHANGED extVars
           \/ \E c \in BOOLEAN : Sink(c) /\ UNCHANGED extVars
           \/ Exit /\ UNCHANGED extVars
           \/ UNCHANGED vars
  <2>1. UNCHANGED extVars
    BY <1>6 DEF vars, extVars
  <2> QED
    BY <2>1 DEF extVars, QInv
<1> QED
  BY <1>1, <1>2, <1>3, <1>4, <1>5, <1>6 DEF Next

(***************************************************************************)
(* The slice scan issues at most ceil(rows / slice_size) + 1 queries, for *)
(* every table, slice size and query budget, when the order column admits *)
(* no NULL: no row comes twice, every slice but the last is full, and the *)
(* last may be empty.  With NULLs the scan can repeat its first slice     *)
(* until the query budget runs out.                                        *)
(***************************************************************************)
THEOREM QueryBoundHolds ==
  ASSUME ~OrderNullable
  PROVE  Spec => []QueryBound
<1>1. Init => TInv /\ PInv /\ QInv
  BY InitTInv, InitPInv, InitQInv
<1>2. TInv /\ PInv /\ QInv /\ [Next]_vars => TInv' /\ PInv' /\ QInv'
  BY NextTInv, NextPInv, NextQInv
<1>3. TInv /\ PInv /\ QInv => QueryBound
  <2> SUFFICES ASSUME TInv, PInv, QInv
               PROVE  QueryBound
    OBVIOUS
  <2> DEFINE N == Cardinality(Rows)
  <2>1. /\ Len(pushed) <= N /\ Len(pushed) \in Nat /\ N \in Nat
        /\ queries \in Nat /\ sliceCount \in Nat
    <3>1. table \in Tables /\ pushed \in Seq(Rows)
      BY DEF TInv, TypeOK
    <3>2. IsFiniteSet(Rows)
      BY <3>1, TableFacts
    <3> QED
      BY <3>1, <3>2, PushedLen, LenProperties, FS_CardinalityType DEF TInv, TypeOK
  <2>2. (N + SliceSize - 1) \div SliceSize \in Nat
    <3>1. N + SliceSize - 1 \in Nat /\ SliceSize \in Nat \ {0}
      BY <2>1
    <3> QED
      BY <3>1
  <2>3. CASE hasOrderCol /\ ext = "query"
    <3>1. queries * SliceSize <= N
      BY <2>1, <2>3 DEF QInv
    <3>2. queries <= (N + SliceSize - 1) \div SliceSize
      BY <2>1, <3>1, CeilBound
    <3> QED
      BY <2>1, <2>2, <3>2 DEF QueryBound
  <2>4. CASE hasOrderCol /\ ext \in {"fetch", "wait", "done"}
    <3>1. queries - 1 \in Nat /\ (queries - 1) * SliceSize <= N
      BY <2>1, <2>4 DEF QInv
    <3>2. queries - 1 <= (N + SliceSize - 1) \div SliceSize
      BY <2>1, <3>1, CeilBound
    <3> QED
      BY <2>1, <2>2, <3>2 DEF QueryBound
  <2>5. CASE ~hasOrderCol \/ ext \in {"meta", "full"}
    <3>1. queries = 0
      BY <2>5 DEF QInv, PInv
    <3> QED
      BY <2>2, <3>1 DEF QueryBound
  <2> QED
    BY <2>3, <2>4, <2>5 DEF TInv, TypeOK
<1> QED
  BY <1>1, <1>2, <1>3, PTL DEF Spec


-----------------------------------------------------------------------------
(***************************************************************************)
(* Every row reaches a sinker before the driver's loop ends -- for every  *)
(* order column, NULLs included.                                           *)
(***************************************************************************)

(* The row pushed last: start_value in the slice scan is its order value. *)
LastPushed == pushed[Len(pushed)]

(* The positions of the items of a queue or a batch. *)
Positions(s) == {s[i].pos : i \in DOMAIN s}

(***************************************************************************)
(* The inductive invariant of StoppedAllDelivered, in two parts.         *)
(* ScanInv, the scan: start_value is the order value of the row pushed    *)
(* last (None before the first); no row the order puts before that row is *)
(* left unpushed; every row the order puts before a row of the current    *)
(* result is pushed or earlier in the result; a short slice, and the full *)
(* scan's single result, hold every row not yet pushed; so once the scan  *)
(* ends every row is pushed.  FlowInv, the driver: a pushed row is in the *)
(* queue, in the drained batch or delivered; every item is an Insert; the *)
(* batch is empty at the loop head; shut_down is stored only by the       *)
(* extractor's last step.                                                  *)
(***************************************************************************)
ScanInv ==
  /\ ext \in {"query", "fetch"} => hasOrderCol
  /\ ext = "full" => ~hasOrderCol
  /\ hasOrderCol =>
       IF pushed = <<>> THEN startValue = NullValue
       ELSE startValue = table[LastPushed]
  /\ hasOrderCol /\ pushed # <<>> =>
       \A r \in Rows : Before(r, LastPushed) => r \in Range(pushed)
  /\ ext = "fetch" =>
       \A i \in DOMAIN pending, r \in Rows :
         Before(r, pending[i]) =>
           r \in Range(pushed) \/ \E j \in 1..i-1 : pending[j] = r
  /\ ext = "fetch" /\ sliceCount + Len(pending) < SliceSize =>
       Rows \subseteq Range(pushed) \cup Range(pending)
  /\ ext = "full" => Rows \subseteq Range(pushed) \cup Range(pending)
  /\ ext \in {"wait", "done"} => Rows \subseteq Range(pushed)

FlowInv ==
  /\ Range(pushed) \subseteq delivered \cup Positions(buffer) \cup Positions(batch)
  /\ \A i \in DOMAIN buffer : buffer[i].kind = "Dml"
  /\ \A i \in DOMAIN batch : batch[i].kind = "Dml"
  /\ phase = "idle" => batch = <<>>
  /\ shutDown => ext = "done"
  /\ phase = "stopped" => shutDown /\ buffer = <<>> /\ batch = <<>>

AInv == ScanInv /\ FlowInv

(* A step that leaves the extractor's variables alone keeps ScanInv. *)
LEMMA ScanUnchanged ==
  ASSUME ScanInv, UNCHANGED extVars
  PROVE  ScanInv'
BY DEF ScanInv, extVars, Rows, LastPushed, Before

(* Appending x to a sequence adds x to its range and makes x its last.    *)
LEMMA RangeAppend ==
  ASSUME NEW X, NEW s \in Seq(X), NEW x \in X
  PROVE  /\ Range(Append(s, x)) = Range(s) \cup {x}
         /\ Append(s, x)[Len(Append(s, x))] = x
         /\ Append(s, x) # <<>>
<1>1. /\ Len(Append(s, x)) = Len(s) + 1
      /\ \A i \in 1..Len(s) : Append(s, x)[i] = s[i]
      /\ Append(s, x)[Len(s) + 1] = x
      /\ Len(s) \in Nat
  BY AppendProperties
<1> QED
  BY <1>1 DEF Range

(* The range of a non-empty sequence is its head and its tail's range.    *)
LEMMA RangeTail ==
  ASSUME NEW X, NEW s \in Seq(X), s # <<>>
  PROVE  Range(s) = Range(Tail(s)) \cup {Head(s)}
<1>1. /\ Len(s) \in Nat \ {0}
      /\ Len(Tail(s)) = Len(s) - 1
      /\ Head(s) = s[1]
      /\ \A i \in 1..Len(s) - 1 : Tail(s)[i] = s[i + 1]
      /\ DOMAIN s = 1..Len(s) /\ DOMAIN Tail(s) = 1..Len(s) - 1
  BY HeadTailProperties, EmptySeq
<1>2. \A y \in Range(s) : y \in Range(Tail(s)) \cup {Head(s)}
  <2> TAKE y \in Range(s)
  <2>1. PICK i \in 1..Len(s) : s[i] = y
    BY DEF Range
  <2>2. CASE i = 1
    BY <1>1, <2>1, <2>2
  <2>3. CASE i # 1
    <3>1. i - 1 \in DOMAIN Tail(s) /\ Tail(s)[i - 1] = y
      BY <1>1, <2>1, <2>3
    <3> QED
      BY <3>1 DEF Range
  <2> QED
    BY <2>2, <2>3
<1>3. Range(Tail(s)) \cup {Head(s)} \subseteq Range(s)
  <2>1. Head(s) \in Range(s)
    BY <1>1 DEF Range
  <2>2. \A i \in DOMAIN Tail(s) : i + 1 \in DOMAIN s /\ Tail(s)[i] = s[i + 1]
    BY <1>1
  <2> QED
    BY <2>1, <2>2 DEF Range
<1> QED
  BY <1>2, <1>3

(* Appending an item to a queue adds its position. *)
LEMMA PositionsAppend ==
  ASSUME NEW X, NEW s \in Seq(X), NEW x \in X
  PROVE  Positions(Append(s, x)) = Positions(s) \cup {x.pos}
<1>1. /\ Len(Append(s, x)) = Len(s) + 1
      /\ \A i \in 1..Len(s) : Append(s, x)[i] = s[i]
      /\ Append(s, x)[Len(s) + 1] = x
      /\ Len(s) \in Nat
  BY AppendProperties
<1> QED
  BY <1>1 DEF Positions

(***************************************************************************)
(* get_sink_method of a batch of Inserts is Dml (Raw when it is empty),   *)
(* and fetch_dml hands the sinkers every row of it.                        *)
(***************************************************************************)
LEMMA DmlPayload ==
  ASSUME NEW X, NEW b \in Seq(Item(X)),
         \A i \in DOMAIN b : b[i].kind = "Dml"
  PROVE  Payload(b, SinkMethod(b)) = Positions(b)
<1> DEFINE P == {i \in DOMAIN b : b[i].kind \notin {"Begin", "Commit"}}
<1>1. P = DOMAIN b
  <2>1. \A i \in DOMAIN b : b[i].kind \notin {"Begin", "Commit"}
    OBVIOUS
  <2> QED
    BY <2>1, Zenon
<1>2. CASE b = <<>>
  BY <1>2 DEF Payload, Positions
<1>3. CASE b # <<>>
  <2>1. 1 \in DOMAIN b /\ DOMAIN b \subseteq Nat
    BY <1>3, EmptySeq
  <2>2. FirstOf(P) \in DOMAIN b
    BY <1>1, <2>1 DEF FirstOf
  <2>3. b[FirstOf(P)].kind = "Dml"
    BY <2>2
  <2>4. SinkMethod(b) = "Dml"
    BY <1>1, <2>1, <2>3 DEF SinkMethod
  <2> QED
    BY <2>4 DEF Payload, Kept, Positions
<1> QED
  BY <1>2, <1>3

(* The rows a slice query selects: sql1 all of them, sql2 those after start. *)
Selected(start) ==
  IF start = NullValue THEN Rows
  ELSE {r \in Rows : table[r] # NullValue /\ table[r] > start}

(***************************************************************************)
(* A slice query's result is a run of the order over the rows it selects: *)
(* every selected row before one of the result is earlier in the result,  *)
(* and a result shorter than LIMIT slice_size holds every selected row.    *)
(***************************************************************************)
LEMMA SliceRowsComplete ==
  ASSUME table \in Tables, NEW start \in Nat
  PROVE  /\ \A i \in DOMAIN SliceRows(start), r \in Selected(start) :
              Before(r, SliceRows(start)[i]) =>
                \E j \in 1..i-1 : SliceRows(start)[j] = r
         /\ Len(SliceRows(start)) < SliceSize =>
              Selected(start) \subseteq Range(SliceRows(start))
<1> DEFINE M == Selected(start)
           S == Sorted(M)
           k == IF Len(S) < SliceSize THEN Len(S) ELSE SliceSize
<1>1. table \in [Rows -> Nat] /\ Rows \subseteq Nat /\ IsFiniteSet(Rows)
  BY TableFacts
<1>2. M \subseteq Rows /\ IsFiniteSet(M)
  BY <1>1, FS_Subset DEF Selected
<1>3. /\ S \in [1..Cardinality(M) -> M]
      /\ \A i, j \in 1..Cardinality(M) : i < j => Before(S[i], S[j])
      /\ \A r \in M : \E i \in 1..Cardinality(M) : S[i] = r
  BY <1>1, <1>2, SortedSpec
<1>4. Cardinality(M) \in Nat /\ Len(S) = Cardinality(M)
  BY <1>2, <1>3, FS_CardinalityType
<1>5. SliceRows(start) = [i \in 1..k |-> S[i]] /\ k \in 0..Cardinality(M)
  BY <1>4 DEF SliceRows, Selected
<1> HIDE DEF S
<1>6. \A i \in DOMAIN SliceRows(start), r \in M :
        Before(r, SliceRows(start)[i]) => \E j \in 1..i-1 : SliceRows(start)[j] = r
  <2> TAKE i \in DOMAIN SliceRows(start), r \in M
  <2> HAVE Before(r, SliceRows(start)[i])
  <2>1. i \in 1..k /\ SliceRows(start)[i] = S[i]
    BY <1>5
  <2>2. PICK j \in 1..Cardinality(M) : S[j] = r
    BY <1>3
  <2>0. i \in 1..Cardinality(M)
    BY <1>4, <1>5, <2>1
  <2>3. S[i] \in Rows /\ r \in Rows
    <3>1. S[i] \in M
      BY <1>3, <2>0
    <3> QED
      BY <1>2, <3>1
  <2>4. ~(i <= j)
    <3>1. CASE i = j
      BY <1>1, <2>1, <2>2, <2>3, <3>1, BeforeOrder
    <3>2. CASE i < j
      <4>1. Before(S[i], S[j])
        BY <1>3, <2>0, <3>2
      <4>2. Before(S[i], r)
        BY <2>2, <4>1
      <4> QED
        BY <1>1, <2>1, <2>3, <4>2, BeforeOrder
    <3> QED
      BY <3>1, <3>2, <1>5, <2>1
  <2>5. j \in 1..i-1 /\ SliceRows(start)[j] = r
    BY <1>5, <2>1, <2>2, <2>4
  <2> QED
    BY <2>5
<1>7. Len(SliceRows(start)) < SliceSize => M \subseteq Range(SliceRows(start))
  <2> HAVE Len(SliceRows(start)) < SliceSize
  <2>1. k = Cardinality(M)
    BY <1>4, <1>5
  <2>2. \A r \in M : \E j \in DOMAIN SliceRows(start) : SliceRows(start)[j] = r
    BY <1>3, <1>5, <2>1
  <2> QED
    BY <2>2 DEF Range
<1> QED
  BY <1>6, <1>7

(***************************************************************************)
(* Once start_value is Some, every row sql2 does not select -- a NULL, or *)
(* an order value at most start_value -- is pushed: it is the row pushed  *)
(* last or, the order values being unique, the order puts it before that  *)
(* row.                                                                    *)
(***************************************************************************)
LEMMA UnselectedPushed ==
  ASSUME TInv, AInv, hasOrderCol, startValue # NullValue,
         NEW r \in Rows, r \notin Selected(startValue)
  PROVE  r \in Range(pushed)
<1>1. /\ pushed # <<>> /\ startValue = table[LastPushed]
      /\ \A q \in Rows : Before(q, LastPushed) => q \in Range(pushed)
  BY DEF AInv, ScanInv, FlowInv
<1>2. /\ pushed \in Seq(Rows) /\ table \in Tables
      /\ startValue \in OrderValues
  BY DEF TInv, TypeOK
<1>3. /\ LastPushed \in Rows /\ LastPushed \in Range(pushed)
  BY <1>1, <1>2, EmptySeq DEF LastPushed, Range
<1>4. /\ table \in [Rows -> Nat] /\ Rows \subseteq Nat
      /\ \A x, y \in Rows : x # y /\ table[x] # NullValue => table[x] # table[y]
  BY <1>2, TableFacts, TablesType DEF Rows
<1>5. CASE r = LastPushed
  BY <1>3, <1>5
<1>6. CASE r # LastPushed
  <2>1. table[r] = NullValue \/ table[r] <= startValue
    <3>1. table[r] \in Nat /\ startValue \in Nat
      BY <1>2, <1>4 DEF OrderValues
    <3> QED
      BY <3>1 DEF Selected
  <2>2. table[r] # startValue \/ table[r] = NullValue
    BY <1>1, <1>3, <1>4, <1>6
  <2>3. table[r] < table[LastPushed]
    BY <1>1, <1>2, <1>4, <2>1, <2>2 DEF OrderValues, NullValue
  <2> QED
    BY <1>1, <1>3, <2>3 DEF Before
<1> QED
  BY <1>5, <1>6

LEMMA InitAInv ==
  ASSUME Init
  PROVE  AInv
<1>1. Range(<<>>) = {} /\ Positions(<<>>) = {}
  BY DEF Range, Positions
<1> QED
  BY <1>1 DEF Init, DriverInit, AInv, ScanInv, FlowInv

(***************************************************************************)
(* get_tb_meta: nothing is pushed yet; with no order column the full      *)
(* scan's single query returns every row.                                  *)
(***************************************************************************)
LEMMA GetMetaAInv ==
  ASSUME TInv, AInv, GetMeta
  PROVE  AInv'
<1>1. /\ UNCHANGED <<driverVars, table, hasOrderCol, startValue, sliceCount,
                     queries, pushed>>
      /\ ext = "meta"
  BY DEF GetMeta
<1>2. ~shutDown /\ phase # "stopped"
  BY <1>1 DEF AInv, ScanInv, FlowInv
<1>3. CASE hasOrderCol
  <2>1. ext' = "query" /\ pending' = pending
    BY <1>3 DEF GetMeta
  <2> QED
    BY <1>1, <1>2, <1>3, <2>1 DEF AInv, ScanInv, FlowInv, driverVars, Rows, LastPushed, Before
<1>4. CASE ~hasOrderCol
  <2>1. ext' = "full" /\ pending' = Sorted(Rows)
    BY <1>4 DEF GetMeta
  <2>2. Rows \subseteq Range(Sorted(Rows))
    <3>1. table \in [Rows -> Nat] /\ Rows \subseteq Nat /\ IsFiniteSet(Rows)
      BY TableFacts DEF TInv, TypeOK
    <3>2. /\ Sorted(Rows) \in [1..Cardinality(Rows) -> Rows]
          /\ \A r \in Rows : \E i \in 1..Cardinality(Rows) : Sorted(Rows)[i] = r
      BY <3>1, SortedSpec
    <3> QED
      BY <3>2 DEF Range
  <2> QED
    BY <1>1, <1>2, <1>4, <2>1, <2>2 DEF AInv, ScanInv, FlowInv, driverVars, Rows, LastPushed, Before
<1> QED
  BY <1>3, <1>4

(***************************************************************************)
(* A slice query: sql1 selects every row, sql2 those after start_value,   *)
(* the rest being pushed already; the result is a run of the order over   *)
(* the rows selected, and a short one holds every row selected.            *)
(***************************************************************************)
LEMMA QueryAInv ==
  ASSUME TInv, AInv, Query
  PROVE  AInv'
<1> DEFINE R == SliceRows(startValue)
<1>1. /\ pending' = R /\ sliceCount' = 0 /\ ext' = "fetch" /\ ext = "query"
      /\ UNCHANGED <<driverVars, table, hasOrderCol, startValue, pushed>>
  BY DEF Query
<1>2. /\ hasOrderCol /\ ~shutDown /\ phase # "stopped"
  BY <1>1 DEF AInv, ScanInv, FlowInv
<1>3. table \in Tables /\ startValue \in Nat
  BY DEF TInv, TypeOK, OrderValues, NullValue
<1>4. \A r \in Rows : r \notin Selected(startValue) => r \in Range(pushed)
  <2> TAKE r \in Rows
  <2> HAVE r \notin Selected(startValue)
  <2>1. startValue # NullValue
    BY DEF Selected
  <2> QED
    BY <1>2, <2>1, UnselectedPushed
<1>5. /\ \A i \in DOMAIN R, r \in Selected(startValue) :
           Before(r, R[i]) => \E j \in 1..i-1 : R[j] = r
      /\ Len(R) < SliceSize => Selected(startValue) \subseteq Range(R)
  BY <1>3, SliceRowsComplete
<1>6. \A i \in DOMAIN R, r \in Rows :
        Before(r, R[i]) => r \in Range(pushed) \/ \E j \in 1..i-1 : R[j] = r
  BY <1>4, <1>5
<1>7. 0 + Len(R) < SliceSize => Rows \subseteq Range(pushed) \cup Range(R)
  <2>1. Len(R) \in Nat
    BY <1>3, SliceRowsSpec
  <2> QED
    BY <1>4, <1>5, <2>1
<1> HIDE DEF R
<1> QED
  BY <1>1, <1>2, <1>6, <1>7 DEF AInv, ScanInv, FlowInv, driverVars, Rows, LastPushed, Before

(***************************************************************************)
(* push_row_to_buffer: the head of the result moves to the queue and to   *)
(* the rows pushed.  In a slice, no row the order puts before it is left  *)
(* unpushed, so it becomes the row pushed last with start_value its order *)
(* value; the rest of the result stays a run of the order.                 *)
(***************************************************************************)
LEMMA PushRowAInv ==
  ASSUME TInv, AInv, PushRow
  PROVE  AInv'
<1> DEFINE h == Head(pending)
           it == [kind |-> "Dml", pos |-> h]
<1>1. /\ buffer' = Append(buffer, it) /\ pushed' = Append(pushed, h)
      /\ pending' = Tail(pending) /\ pending # <<>>
      /\ ext \in {"fetch", "full"}
      /\ UNCHANGED <<batch, phase, delivered, shutDown, table, hasOrderCol,
                     ext, queries>>
  BY DEF PushRow
<1>2. /\ pending \in Seq(Rows) /\ pushed \in Seq(Rows)
      /\ buffer \in Seq(Item(Rows))
  BY DEF TInv, TypeOK
<1>3. /\ h \in Rows /\ h = pending[1]
      /\ Len(pending) \in Nat \ {0}
      /\ Len(Tail(pending)) = Len(pending) - 1
      /\ DOMAIN Tail(pending) = 1..Len(pending) - 1
      /\ \A i \in 1..Len(pending) - 1 : Tail(pending)[i] = pending[i + 1]
      /\ DOMAIN pending = 1..Len(pending)
  BY <1>1, <1>2, HeadTailProperties, EmptySeq
<1>4. it \in Item(Rows)
  BY <1>3 DEF Item, Kinds
<1>5. /\ Range(pushed') = Range(pushed) \cup {h}
      /\ LastPushed' = h /\ pushed' # <<>>
  BY <1>1, <1>2, <1>3, RangeAppend DEF LastPushed
<1>6. Range(pending) = Range(pending') \cup {h}
  BY <1>1, <1>2, RangeTail
<1>7. /\ Positions(buffer') = Positions(buffer) \cup {h}
      /\ \A i \in DOMAIN buffer' : buffer'[i].kind = "Dml"
  <2>1. Positions(buffer') = Positions(buffer) \cup {h}
    BY <1>1, <1>2, <1>4, PositionsAppend
  <2>2. /\ DOMAIN buffer' = 1..Len(buffer) + 1
        /\ \A i \in 1..Len(buffer) : buffer'[i] = buffer[i]
        /\ buffer'[Len(buffer) + 1] = it
        /\ DOMAIN buffer = 1..Len(buffer) /\ Len(buffer) \in Nat
    BY <1>1, <1>2, <1>4, AppendProperties
  <2>3. \A i \in DOMAIN buffer : buffer[i].kind = "Dml"
    BY DEF AInv, ScanInv, FlowInv
  <2> QED
    BY <2>1, <2>2, <2>3
<1>8. /\ ~shutDown /\ phase # "stopped"
      /\ Range(pushed) \subseteq delivered \cup Positions(buffer) \cup Positions(batch)
  BY <1>1 DEF AInv, ScanInv, FlowInv
<1>9. Range(pushed') \subseteq delivered' \cup Positions(buffer') \cup Positions(batch')
  BY <1>1, <1>5, <1>7, <1>8
<1>10. Range(pushed') \cup Range(pending') = Range(pushed) \cup Range(pending)
  BY <1>5, <1>6
<1>11. CASE ext = "full"
  <2>1. ~hasOrderCol /\ Rows \subseteq Range(pushed) \cup Range(pending)
    BY <1>11 DEF AInv, ScanInv, FlowInv
  <2>2. UNCHANGED <<startValue, sliceCount>>
    BY <1>11 DEF PushRow
  <2>3. ScanInv'
    BY <1>1, <1>10, <1>11, <2>1, <2>2 DEF AInv, ScanInv, Rows
  <2>4. FlowInv'
    BY <1>1, <1>7, <1>8, <1>9 DEF AInv, FlowInv
  <2> QED
    BY <2>3, <2>4 DEF AInv
<1>12. CASE ext = "fetch"
  <2>1. startValue' = table[h] /\ sliceCount' = sliceCount + 1
    BY <1>12 DEF PushRow
  <2>2. /\ hasOrderCol
        /\ \A i \in DOMAIN pending, r \in Rows :
             Before(r, pending[i]) =>
               r \in Range(pushed) \/ \E j \in 1..i-1 : pending[j] = r
        /\ sliceCount + Len(pending) < SliceSize =>
             Rows \subseteq Range(pushed) \cup Range(pending)
    BY <1>12 DEF AInv, ScanInv, FlowInv
  <2>3. \A r \in Rows : Before(r, h) => r \in Range(pushed')
    <3> TAKE r \in Rows
    <3> HAVE Before(r, h)
    <3>1. r \in Range(pushed) \/ \E j \in 1..0 : pending[j] = r
      BY <1>3, <2>2
    <3> QED
      BY <1>5, <3>1
  <2>4. \A i \in DOMAIN pending', r \in Rows :
          Before(r, pending'[i]) =>
            r \in Range(pushed') \/ \E j \in 1..i-1 : pending'[j] = r
    <3> TAKE i \in DOMAIN pending', r \in Rows
    <3> HAVE Before(r, pending'[i])
    <3>1. i + 1 \in DOMAIN pending /\ pending'[i] = pending[i + 1] /\ i \in Nat
      BY <1>1, <1>3
    <3>2. r \in Range(pushed) \/ \E j \in 1..i : pending[j] = r
      BY <2>2, <3>1
    <3>3. CASE r \in Range(pushed)
      BY <1>5, <3>3
    <3>4. CASE \E j \in 1..i : pending[j] = r
      <4>1. PICK j \in 1..i : pending[j] = r
        BY <3>4
      <4>2. CASE j = 1
        BY <1>3, <1>5, <4>1, <4>2
      <4>3. CASE j # 1
        <5>1. j - 1 \in 1..i-1 /\ pending'[j - 1] = r
          BY <1>1, <1>3, <3>1, <4>1, <4>3
        <5> QED
          BY <5>1
      <4> QED
        BY <4>2, <4>3
    <3> QED
      BY <3>2, <3>3, <3>4
  <2>5. sliceCount' + Len(pending') < SliceSize =>
          Rows \subseteq Range(pushed') \cup Range(pending')
    <3>1. sliceCount' + Len(pending') = sliceCount + Len(pending)
      BY <1>1, <1>3, <2>1 DEF TInv, TypeOK
    <3> QED
      BY <1>10, <2>2, <3>1
  <2>6. ScanInv'
    BY <1>1, <1>5, <1>12, <2>1, <2>2, <2>3, <2>4, <2>5 DEF ScanInv, Rows, Before
  <2>7. FlowInv'
    BY <1>1, <1>7, <1>8, <1>9 DEF AInv, FlowInv
  <2> QED
    BY <2>6, <2>7 DEF AInv
<1> QED
  BY <1>1, <1>11, <1>12

(***************************************************************************)
(* The ends of the scan: a short slice, or the full scan's result, once   *)
(* exhausted leaves no row unpushed; shut_down is stored last, with the   *)
(* queue empty.                                                            *)
(***************************************************************************)
LEMMA EndAInv ==
  ASSUME TInv, AInv, EndSlice \/ EndFull \/ SetShutDown
  PROVE  AInv'
<1>1. Range(<<>>) = {}
  BY DEF Range
<1>2. CASE EndSlice
  <2>1. /\ ext = "fetch" /\ pending = <<>>
        /\ ext' = IF sliceCount < SliceSize THEN "wait" ELSE "query"
        /\ UNCHANGED <<driverVars, table, hasOrderCol, pending, startValue,
                       sliceCount, queries, pushed>>
    BY <1>2 DEF EndSlice
  <2>2. sliceCount < SliceSize => Rows \subseteq Range(pushed)
    <3>1. sliceCount \in Nat /\ Len(pending) = 0
      BY <2>1, EmptySeq DEF TInv, TypeOK
    <3> QED
      BY <1>1, <2>1, <3>1 DEF AInv, ScanInv, FlowInv
  <2> QED
    BY <2>1, <2>2 DEF AInv, ScanInv, FlowInv, driverVars, Rows, LastPushed, Before
<1>3. CASE EndFull
  <2>1. /\ ext = "full" /\ pending = <<>> /\ ext' = "wait"
        /\ UNCHANGED <<driverVars, table, hasOrderCol, pending, startValue,
                       sliceCount, queries, pushed>>
    BY <1>3 DEF EndFull
  <2> QED
    BY <1>1, <2>1 DEF AInv, ScanInv, FlowInv, driverVars, Rows, LastPushed, Before
<1>4. CASE SetShutDown
  <2>1. /\ ext = "wait" /\ buffer = <<>> /\ ext' = "done" /\ shutDown'
        /\ UNCHANGED <<buffer, batch, phase, delivered, table, hasOrderCol,
                       pending, startValue, sliceCount, queries, pushed>>
    BY <1>4 DEF SetShutDown
  <2>2. phase # "stopped"
    BY <2>1 DEF AInv, ScanInv, FlowInv
  <2> QED
    BY <2>1, <2>2 DEF AInv, ScanInv, FlowInv, Rows, LastPushed, Before
<1> QED
  BY <1>2, <1>3, <1>4

(***************************************************************************)
(* The driver's steps: a drain moves the whole queue into the batch, a    *)
(* successful sink hands every Insert of the batch to the sinkers         *)
(* (get_sink_method is Dml), and the loop ends only with the queue and    *)
(* the batch empty and shut_down stored.                                   *)
(***************************************************************************)
LEMMA DriverAInv ==
  ASSUME TInv, AInv,
         \/ \E e \in BOOLEAN : Tick(e) /\ UNCHANGED extVars
         \/ \E c \in BOOLEAN : Sink(c) /\ UNCHANGED extVars
         \/ Exit /\ UNCHANGED extVars
  PROVE  AInv'
<1>1. UNCHANGED extVars /\ ScanInv'
  BY ScanUnchanged DEF extVars, AInv
<1>2. Positions(<<>>) = {} /\ DOMAIN <<>> = {}
  BY DEF Positions
<1>3. CASE \E e \in BOOLEAN : Tick(e) /\ UNCHANGED extVars
  <2>1. /\ \/ batch' = <<>> /\ buffer' = buffer
           \/ batch' = buffer /\ buffer' = <<>>
        /\ phase = "idle" /\ phase' = "sinking"
        /\ UNCHANGED <<delivered, shutDown>>
    BY <1>3 DEF Tick
  <2>2. batch = <<>>
    BY <2>1 DEF AInv, ScanInv, FlowInv
  <2>3. /\ Positions(buffer') \cup Positions(batch') = Positions(buffer)
        /\ \A i \in DOMAIN buffer' : buffer'[i].kind = "Dml"
        /\ \A i \in DOMAIN batch' : batch'[i].kind = "Dml"
    <3>1. \A i \in DOMAIN buffer : buffer[i].kind = "Dml"
      BY DEF AInv, ScanInv, FlowInv
    <3> QED
      BY <1>2, <2>1, <3>1, Zenon
  <2>4. FlowInv'
    BY <1>1, <1>2, <2>1, <2>2, <2>3 DEF AInv, FlowInv, extVars
  <2> QED
    BY <1>1, <2>4 DEF AInv
<1>4. CASE \E c \in BOOLEAN : Sink(c) /\ UNCHANGED extVars
  <2>1. /\ delivered' = delivered \cup Payload(batch, SinkMethod(batch))
        /\ batch' = <<>> /\ phase' = "idle"
        /\ UNCHANGED <<buffer, shutDown>>
    BY <1>4 DEF Sink
  <2>2. Payload(batch, SinkMethod(batch)) = Positions(batch)
    <3>1. batch \in Seq(Item(Rows))
      BY DEF TInv, TypeOK
    <3>2. \A i \in DOMAIN batch : batch[i].kind = "Dml"
      BY DEF AInv, ScanInv, FlowInv
    <3> QED
      BY <3>1, <3>2, DmlPayload
  <2>3. FlowInv'
    BY <1>1, <1>2, <2>1, <2>2 DEF AInv, FlowInv, extVars
  <2> QED
    BY <1>1, <2>3 DEF AInv
<1>5. CASE Exit /\ UNCHANGED extVars
  <2>1. /\ phase = "idle" /\ shutDown /\ buffer = <<>> /\ phase' = "stopped"
        /\ UNCHANGED <<buffer, batch, delivered, shutDown>>
    BY <1>5 DEF Exit
  <2>2. FlowInv'
    BY <1>1, <2>1 DEF AInv, FlowInv, extVars
  <2> QED
    BY <1>1, <2>2 DEF AInv
<1> QED
  BY <1>3, <1>4, <1>5

(* Every step of the snapshot pipeline preserves AInv. *)
LEMMA NextAInv ==
  ASSUME TInv, AInv, [Next]_vars
  PROVE  AInv'
<1>1. CASE GetMeta
  BY <1>1, GetMetaAInv
<1>2. CASE Query
  BY <1>2, QueryAInv
<1>3. CASE PushRow
  BY <1>3, PushRowAInv
<1>4. CASE EndSlice \/ EndFull \/ SetShutDown
  BY <1>4, EndAInv
<1>5. CASE \/ \E e \in BOOLEAN : Tick(e) /\ UNCHANGED extVars
           \/ \E c \in BOOLEAN : Sink(c) /\ UNCHANGED extVars
           \/ Exit /\ UNCHANGED extVars
  BY <1>5, DriverAInv
<1>6. CASE UNCHANGED vars
  <2>1. UNCHANGED extVars /\ UNCHANGED driverVars
    BY <1>6 DEF vars, extVars
  <2>2. ScanInv'
    BY <2>1, ScanUnchanged DEF AInv
  <2>3. FlowInv'
    BY <2>1 DEF AInv, FlowInv, driverVars, extVars
  <2> QED
    BY <2>2, <2>3 DEF AInv
<1> QED
  BY <1>1, <1>2, <1>3, <1>4, <1>5, <1>6 DEF Next

(***************************************************************************)
(* When the driver's loop has ended, every row of the table has been      *)
(* handed to a sinker -- for every table, slice size, queue capacity and  *)
(* interval, NULLs in the order column included: shut_down is stored only *)
(* after the scan has pushed every row and the queue has drained, and the *)
(* loop ends only with the queue and the batch empty.                      *)
(***************************************************************************)
THEOREM StoppedAllDeliveredHolds == Spec => []StoppedAllDelivered
<1>1. Init => TInv /\ AInv
  BY InitTInv, InitAInv
<1>2. TInv /\ AInv /\ [Next]_vars => TInv' /\ AInv'
  BY NextTInv, NextAInv
<1>3. TInv /\ AInv => StoppedAllDelivered
  <2> SUFFICES ASSUME TInv, AInv, phase = "stopped"
               PROVE  delivered = Rows
    BY DEF StoppedAllDelivered
  <2>1. /\ shutDown /\ buffer = <<>> /\ batch = <<>>
        /\ Range(pushed) \subseteq delivered \cup Positions(buffer) \cup Positions(batch)
    BY DEF AInv, ScanInv, FlowInv
  <2>2. ext = "done" /\ Rows \subseteq Range(pushed)
    BY <2>1 DEF AInv, ScanInv, FlowInv
  <2>3. Positions(<<>>) = {} /\ delivered \subseteq Rows
    BY DEF Positions, TInv, TypeOK
  <2> QED
    BY <2>1, <2>2, <2>3
<1> QED
  BY <1>1, <1>2, <1>3, PTL DEF Spec

=============================================================================
