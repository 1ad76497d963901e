-------------------------- MODULE SnapshotPipeline --------------------------
(***************************************************************************)
(* The MySQL snapshot extractor of src/extractor/mysql_snapshot_extractor *)
(* .rs feeding the pipeline driver.  The extractor scans one table, by    *)
(* slices of the order column when the table has one (extract_by_slices)  *)
(* and in one query otherwise (extract_all), pushes every row as an       *)
(* Insert, waits for the queue to drain and sets shut_down, after which   *)
(* the driver's loop ends.                                                 *)
(*                                                                         *)
(* Rows are identified by 1..n; table[r] is the order column's value of   *)
(* row r, NullValue standing for SQL NULL.  A pushed row is the queue item *)
(* [kind |-> "Dml", pos |-> r].                                            *)
(***************************************************************************)
EXTENDS PipelineDriver, FiniteSets

CONSTANTS
  MaxRows,        \* the table has at most this many rows
  SliceSize,      \* slice_size
  OrderNullable,  \* whether the order column admits NULL
  MaxQueries      \* bound on the number of slice queries of one run

ASSUME SnapshotAssumption ==
  /\ MaxRows \in Nat
  /\ SliceSize \in Nat \ {0}
  /\ OrderNullable \in BOOLEAN
  /\ MaxQueries \in Nat

VARIABLES
  table,        \* the table's rows and their order-column values
  hasOrderCol,  \* tb_meta.order_col is Some
  ext,          \* where extract_internal is: "meta", "query", "fetch",
                \* "full", "wait", "done"
  pending,      \* rows of the current query's result not yet pushed
  startValue,   \* start_value, NullValue being ColValue::None
  sliceCount,   \* slice_count
  queries,      \* number of queries issued
  pushed        \* every row pushed so far, in push order

vars == <<driverVars, table, hasOrderCol, ext, pending, startValue,
          sliceCount, queries, pushed>>

extVars == <<table, hasOrderCol, ext, pending, startValue, sliceCount,
             queries, pushed>>

(* get_col_value returns ColValue::None for NULL, the value the loop also *)
(* starts from.                                                           *)
NullValue == 0

OrderValues == 1..MaxRows

Rows == DOMAIN table

(* The tables the source may hold: a unique key admits any number of      *)
(* NULLs but no two equal values.                                          *)
Tables ==
  UNION {{t \in [1..n -> OrderValues \cup (IF OrderNullable THEN {NullValue} ELSE {})] :
            \A r, q \in 1..n : r # q /\ t[r] # NullValue => t[r] # t[q]}
         : n \in 0..MaxRows}

(* ORDER BY order_col ASC: NULLs first, ties in row order. *)
Before(r, q) ==
  \/ table[r] < table[q]
  \/ table[r] = table[q] /\ r < q

(* The rows of M sorted by Before. *)
Sorted(M) ==
  LET Rank(r) == Cardinality({q \in M : Before(q, r)}) + 1
  IN  [i \in 1..Cardinality(M) |-> CHOOSE r \in M : Rank(r) = i]

(* Mutant: sql2 written with `order_col >= ?`. *)
SliceRowsGe(start) ==
  LET M == IF start = NullValue THEN Rows
           ELSE {r \in Rows : table[r] # NullValue /\ table[r] >= start}
      S == Sorted(M)
  IN  [i \in 1..IF Len(S) < SliceSize THEN Len(S) ELSE SliceSize |-> S[i]]

(***************************************************************************)
(* The rows a slice query returns: sql1 when start_value is None, else    *)
(* sql2, whose `order_col > ?` no NULL satisfies; LIMIT slice_size.        *)
(***************************************************************************)
SliceRows(start) ==
  LET M == IF start = NullValue THEN Rows
           ELSE {r \in Rows : table[r] # NullValue /\ table[r] > start}
      S == Sorted(M)
  IN  [i \in 1..IF Len(S) < SliceSize THEN Len(S) ELSE SliceSize |-> S[i]]

-----------------------------------------------------------------------------
(* get_tb_meta, then the choice between the slice scan and the full scan. *)
GetMeta ==
  /\ ext = "meta"
  /\ IF hasOrderCol
       THEN /\ ext' = "query"
            /\ UNCHANGED pending
       ELSE /\ ext' = "full"
            /\ pending' = Sorted(Rows)
  /\ UNCHANGED <<driverVars, table, hasOrderCol, startValue, sliceCount,
                 queries, pushed>>

(* One slice query of extract_by_slices. *)
Query ==
  /\ ext = "query"
  /\ queries < MaxQueries
  /\ pending' = SliceRows(startValue)
  /\ sliceCount' = 0
  /\ queries' = queries + 1
  /\ ext' = "fetch"
  /\ UNCHANGED <<driverVars, table, hasOrderCol, startValue, pushed>>

(* Mutant: the push without the spin on is_full. *)
PushRowNoSpin ==
  /\ ext \in {"fetch", "full"}
  /\ pending # <<>>
  /\ buffer' = Append(buffer, [kind |-> "Dml", pos |-> Head(pending)])
  /\ pushed' = Append(pushed, Head(pending))
  /\ pending' = Tail(pending)
  /\ IF ext = "fetch"
       THEN /\ startValue' = table[Head(pending)]
            /\ sliceCount' = sliceCount + 1
       ELSE UNCHANGED <<startValue, sliceCount>>
  /\ UNCHANGED <<batch, phase, delivered, received, committed, lastCommit,
                 shutDown, table, hasOrderCol, ext, queries>>

(***************************************************************************)
(* push_row_to_buffer for the next row of the result, once the queue has  *)
(* room; in a slice, start_value becomes the row's order value.            *)
(***************************************************************************)
PushRow ==
  /\ ext \in {"fetch", "full"}
  /\ pending # <<>>
  /\ Len(buffer) < QueueCapacity
  /\ buffer' = Append(buffer, [kind |-> "Dml", pos |-> Head(pending)])
  /\ pushed' = Append(pushed, Head(pending))
  /\ pending' = Tail(pending)
  /\ IF ext = "fetch"
       THEN /\ startValue' = table[Head(pending)]
            /\ sliceCount' = sliceCount + 1
       ELSE UNCHANGED <<startValue, sliceCount>>
  /\ UNCHANGED <<batch, phase, delivered, received, committed, lastCommit,
                 shutDown, table, hasOrderCol, ext, queries>>

(* Mutant: the end-of-data test `slice_count <= slice_size`. *)
EndSliceLe ==
  /\ ext = "fetch"
  /\ pending = <<>>
  /\ ext' = IF sliceCount <= SliceSize THEN "query" ELSE "wait"
  /\ UNCHANGED <<driverVars, table, hasOrderCol, pending, startValue,
                 sliceCount, queries, pushed>>

(* The slice's rows are exhausted: a short slice ends the scan. *)
EndSlice ==
  /\ ext = "fetch"
  /\ pending = <<>>
  /\ ext' = IF sliceCount < SliceSize THEN "wait" ELSE "query"
  /\ UNCHANGED <<driverVars, table, hasOrderCol, pending, startValue,
                 sliceCount, queries, pushed>>

(* The full scan's rows are exhausted. *)
EndFull ==
  /\ ext = "full"
  /\ pending = <<>>
  /\ ext' = "wait"
  /\ UNCHANGED <<driverVars, table, hasOrderCol, pending, startValue,
                 sliceCount, queries, pushed>>

(* Mutant: shut_down stored without waiting for the queue to drain. *)
SetShutDownEarly ==
  /\ ext \in {"query", "fetch", "full", "wait"}
  /\ ~shutDown
  /\ shutDown' = TRUE
  /\ UNCHANGED <<buffer, batch, phase, delivered, received, committed,
                 lastCommit, extVars>>

(* Mutant: the wait loop's test inverted (`while is_empty`). *)
SetShutDownInverted ==
  /\ ext = "wait"
  /\ buffer # <<>>
  /\ shutDown' = TRUE
  /\ ext' = "done"
  /\ UNCHANGED <<buffer, batch, phase, delivered, received, committed,
                 lastCommit, table, hasOrderCol, pending, startValue,
                 sliceCount, queries, pushed>>

(* Once the queue is empty, the extractor stores shut_down and returns. *)
SetShutDown ==
  /\ ext = "wait"
  /\ buffer = <<>>
  /\ shutDown' = TRUE
  /\ ext' = "done"
  /\ UNCHANGED <<buffer, batch, phase, delivered, received, committed,
                 lastCommit, table, hasOrderCol, pending, startValue,
                 sliceCount, queries, pushed>>

Init ==
  /\ DriverInit
  /\ table \in Tables
  /\ hasOrderCol \in BOOLEAN
  /\ ext = "meta"
  /\ pending = <<>>
  /\ startValue = NullValue
  /\ sliceCount = 0
  /\ queries = 0
  /\ pushed = <<>>

Next ==
  \/ GetMeta \/ Query \/ PushRow \/ EndSlice \/ EndFull \/ SetShutDown
  \/ \E e \in BOOLEAN : Tick(e) /\ UNCHANGED extVars
  \/ \E c \in BOOLEAN : Sink(c) /\ UNCHANGED extVars
  \/ Exit /\ UNCHANGED extVars

(***************************************************************************)
(* Fairness: both tasks run until they return; ticks whose interval has   *)
(* elapsed recur as time passes (strong fairness, as in CdcPipeline).     *)
(***************************************************************************)
Fairness ==
  /\ WF_vars(GetMeta \/ Query \/ PushRow \/ EndSlice \/ EndFull \/ SetShutDown)
  /\ SF_vars(Tick(TRUE) /\ UNCHANGED extVars)
  /\ WF_vars(\E c \in BOOLEAN : Sink(c) /\ UNCHANGED extVars)
  /\ WF_vars(Exit /\ UNCHANGED extVars)

Spec == Init /\ [][Next]_vars

FairSpec == Spec /\ Fairness

-----------------------------------------------------------------------------
(* The type invariant. *)
TypeOK ==
  /\ table \in Tables
  /\ hasOrderCol \in BOOLEAN
  /\ ext \in {"meta", "query", "fetch", "full", "wait", "done"}
  /\ pending \in Seq(Rows)
  /\ startValue \in OrderValues \cup {NullValue}
  /\ sliceCount \in 0..SliceSize
  /\ queries \in 0..MaxQueries
  /\ pushed \in Seq(Rows)
  /\ buffer \in Seq(Item(Rows))
  /\ Len(buffer) <= QueueCapacity
  /\ batch \in Seq(Item(Rows))
  /\ phase \in {"idle", "sinking", "stopped"}
  /\ delivered \subseteq Rows
  /\ shutDown \in BOOLEAN

(***************************************************************************)
(* No row is pushed twice: each slice query starts strictly after the     *)
(* last row of the previous slice (spec section 8).                        *)
(***************************************************************************)
PushedOnce ==
  \A i, j \in DOMAIN pushed : i # j => pushed[i] # pushed[j]

(***************************************************************************)
(* The slice scan issues at most ceil(rows / slice_size) + 1 queries      *)
(* (spec section 8).                                                       *)
(***************************************************************************)
QueryBound ==
  queries <= (Cardinality(Rows) + SliceSize - 1) \div SliceSize + 1

(***************************************************************************)
(* When the driver's loop has ended, every row of the table has reached a *)
(* sinker: the extractor's wait for an empty queue and the driver's loop  *)
(* condition together never stop the pipeline with a row still to sink.   *)
(***************************************************************************)
StoppedAllDelivered ==
  phase = "stopped" => delivered = Rows

(* The snapshot task ends: the driver's loop returns. *)
Terminates == <>(phase = "stopped")

=============================================================================
