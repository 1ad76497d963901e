-------------------------- MODULE StarRocksSinker --------------------------
(***************************************************************************)
(* The StarRocks sinker of dt-connector/src/sinker/starrocks/             *)
(* starrocks_sinker.rs sinking one DML batch: sink_dml chooses the serial *)
(* path or the batched path by the flag and by the row type of data[0];   *)
(* the batched path cuts the batch into windows with call_batch_fn        *)
(* (sinker/base_sinker.rs); send_data builds one stream load per window,  *)
(* taking every row's `before` (a delete load) or `after` (an upsert      *)
(* load) according to the type of the window's first row.                 *)
(*                                                                         *)
(* A row is abstracted to its type and its primary key; the target table  *)
(* to the set of keys present, as a function Keys -> BOOLEAN.              *)
(***************************************************************************)
EXTENDS Naturals, Sequences

CONSTANTS
  Keys,          \* primary-key values
  MaxRows,       \* the batch has at most this many rows
  BatchSize,     \* batch_size of the sinker
  BatchModes,    \* the values the caller passes as `batch`
  Mixed,         \* whether a batch may hold rows of different types
  HttpFailures   \* whether a stream load may fail

ASSUME StarRocksAssumption ==
  /\ Keys # {}
  /\ MaxRows \in Nat
  /\ BatchSize \in Nat
  /\ BatchModes \subseteq BOOLEAN
  /\ BatchModes # {}
  /\ Mixed \in BOOLEAN
  /\ HttpFailures \in BOOLEAN

VARIABLES
  data,      \* the Vec<RowData> handed to sink_dml
  batch,     \* the `batch` argument
  pc,        \* "start", "batch" (call_batch_fn loop), "serial" (serial_sink
             \* loop), "done" (Ok returned), "unwrapNone", "httpError" (panics)
  sent,      \* sinked_count of call_batch_fn, or the loop index of serial_sink
  target,    \* the target table: which keys are present
  initial,   \* the target table before the call
  loaded,    \* the indices of the rows whose load the target applied, in order
  records    \* the Records counter of the monitor

vars == <<data, batch, pc, sent, target, initial, loaded, records>>

RowTypes == {"Insert", "Update", "Delete"}

Row == [type : RowTypes, key : Keys]

(* The batches the parallelizer may hand over. *)
Inputs ==
  {s \in UNION {[1..n -> Row] : n \in 0..MaxRows} :
     Mixed \/ \A i, j \in DOMAIN s : s[i].type = s[j].type}

(***************************************************************************)
(* RowData's image rule: an Insert has only `after`, a Delete only        *)
(* `before`, an Update both; unwrap on the missing one panics.             *)
(***************************************************************************)
HasImage(rd, useBefore) ==
  IF useBefore THEN rd.type # "Insert" ELSE rd.type # "Delete"

(* Mutant: build_request never adding the columns: __op='delete' header. *)
StreamLoadUpsertOnly(t, W, del) ==
  [k \in Keys |-> IF \E i \in DOMAIN W : W[i].key = k THEN TRUE ELSE t[k]]

(***************************************************************************)
(* A stream load of window W: with the header columns: __op='delete'     *)
(* every key of W is deleted, without it every key of W is upserted.      *)
(***************************************************************************)
StreamLoad(t, W, del) ==
  [k \in Keys |-> IF \E i \in DOMAIN W : W[i].key = k THEN ~del ELSE t[k]]

(* What one row should do to the target: upsert its after, delete its before. *)
ApplyRow(t, rd) == [t EXCEPT ![rd.key] = (rd.type # "Delete")]

(***************************************************************************)
(* The target after the rows of s applied to t one by one with ApplyRow:  *)
(* a key no row names keeps its value, any other is present exactly when  *)
(* the last row naming it is not a Delete.  MCStarRocksSinker checks this *)
(* against the left fold of ApplyRow over every batch of the runs' size.   *)
(***************************************************************************)
ApplyRows(t, s) ==
  [k \in Keys |->
     IF \E i \in DOMAIN s : s[i].key = k
       THEN \E i \in DOMAIN s :
              /\ s[i].key = k
              /\ s[i].type # "Delete"
              /\ \A j \in DOMAIN s : j > i => s[j].key # k
       ELSE t[k]]

(***************************************************************************)
(* What the source's log can hold: an Update or a Delete names a key that *)
(* is present once the rows before it are applied.  An Insert may name    *)
(* any key: a replayed snapshot slice inserts rows the target has.         *)
(***************************************************************************)
SourceConsistent(t, s) ==
  \A i \in DOMAIN s :
     s[i].type # "Insert" => ApplyRows(t, SubSeq(s, 1, i - 1))[s[i].key]

(* The target after the whole batch applied row by row. *)
Expected == ApplyRows(initial, data)

(***************************************************************************)
(* The stream load request of window W (rows start..) is executed and its *)
(* response checked, both unwrapped: success applies the load and the     *)
(* loop goes on at cont; a transport error, a status other than 200 or a  *)
(* Status other than "Success" panics, the load applied or not (a lost    *)
(* response).                                                              *)
(***************************************************************************)
StreamLoadRequest(W, del, start, cont) ==
  LET Apply == /\ target' = StreamLoad(target, W, del)
               /\ loaded' = loaded \o [i \in 1..Len(W) |-> start + i - 1]
  IN  \/ Apply /\ pc' = cont
      \/ /\ HttpFailures
         /\ pc' = "httpError"
         /\ Apply \/ UNCHANGED <<target, loaded>>

(* Mutant: send_data choosing the image by `row_type != Delete`. *)
SendDataImageInverted(start, size, cont) ==
  LET W   == SubSeq(data, start, start + size - 1)
      del == data[start].type = "Delete"
  IN  \/ /\ \E i \in DOMAIN W : ~HasImage(W[i], ~del)
         /\ pc' = "unwrapNone"
         /\ UNCHANGED <<target, loaded>>
      \/ /\ \A i \in DOMAIN W : HasImage(W[i], ~del)
         /\ StreamLoadRequest(W, del, start, cont)

(***************************************************************************)
(* send_data(data, start, size): the body takes `before` of every row of  *)
(* the window when the window's first row is a Delete and `after`         *)
(* otherwise, unwrapping it; then the request is executed and the         *)
(* response checked, both unwrapped.  A load that fails may still have    *)
(* been applied when only the response was lost.                           *)
(***************************************************************************)
SendData(start, size, cont) ==
  LET W   == SubSeq(data, start, start + size - 1)
      del == data[start].type = "Delete"
  IN  \/ /\ \E i \in DOMAIN W : ~HasImage(W[i], del)
         /\ pc' = "unwrapNone"
         /\ UNCHANGED <<target, loaded>>
      \/ /\ \A i \in DOMAIN W : HasImage(W[i], del)
         /\ StreamLoadRequest(W, del, start, cont)

(* update_batch_monitor and update_serial_monitor: the Records counter. *)
UpdateBatchMonitor(n) == records' = records + n

UpdateSerialMonitor(n) == records' = records + n

(* Mutant: batch_sink updating the monitor whatever the load's outcome. *)
BatchSinkMonitorFirst(start, size) ==
  /\ SendData(start, size, "batch")
  /\ UpdateBatchMonitor(size)

(* batch_sink: one window's load, then update_batch_monitor. *)
BatchSink(start, size) ==
  /\ SendData(start, size, "batch")
  /\ IF pc' = "batch" THEN UpdateBatchMonitor(size) ELSE UNCHANGED records

-----------------------------------------------------------------------------
(***************************************************************************)
(* sink_dml: an empty batch returns at once; otherwise the serial path    *)
(* unless batching is asked for and data[0] is an Insert or a Delete.     *)
(***************************************************************************)
SinkDml ==
  /\ pc = "start"
  /\ pc' = IF data = <<>> THEN "done"
           ELSE IF batch /\ data[1].type \in {"Insert", "Delete"} THEN "batch"
           ELSE "serial"
  /\ UNCHANGED <<data, batch, sent, target, initial, loaded, records>>

(* Mutant: call_batch_fn advancing sinked_count by one row per window. *)
BatchStepAdvanceOne ==
  /\ pc = "batch"
  /\ LET size == IF Len(data) - sent < BatchSize THEN Len(data) - sent ELSE BatchSize
     IN  \/ /\ size = 0
            /\ pc' = "done"
            /\ UNCHANGED <<sent, target, loaded, records>>
         \/ /\ size > 0
            /\ BatchSink(sent + 1, size)
            /\ sent' = sent + 1
  /\ UNCHANGED <<data, batch, initial>>

(***************************************************************************)
(* One pass of call_batch_fn's loop with batch_sink: the window is        *)
(* batch_size rows, or what is left; an empty window ends the loop; after *)
(* the load, update_batch_monitor counts the window.                       *)
(***************************************************************************)
BatchStep ==
  /\ pc = "batch"
  /\ LET size == IF Len(data) - sent < BatchSize THEN Len(data) - sent ELSE BatchSize
     IN  \/ /\ size = 0
            /\ pc' = "done"
            /\ UNCHANGED <<sent, target, loaded, records>>
         \/ /\ size > 0
            /\ BatchSink(sent + 1, size)
            /\ sent' = sent + size
  /\ UNCHANGED <<data, batch, initial>>

(* Mutant: update_serial_monitor called for every row as well. *)
SerialStepMonitorPerRow ==
  /\ pc = "serial"
  /\ \/ /\ sent = Len(data)
        /\ pc' = "done"
        /\ UpdateSerialMonitor(Len(data))
        /\ UNCHANGED <<sent, target, loaded>>
     \/ /\ sent < Len(data)
        /\ SendData(sent + 1, 1, "serial")
        /\ sent' = sent + 1
        /\ records' = records + 1
  /\ UNCHANGED <<data, batch, initial>>

(***************************************************************************)
(* One pass of serial_sink's loop: a one-row load of row i; after the     *)
(* last row, update_serial_monitor counts the whole batch.                 *)
(***************************************************************************)
SerialStep ==
  /\ pc = "serial"
  /\ \/ /\ sent = Len(data)
        /\ pc' = "done"
        /\ UpdateSerialMonitor(Len(data))
        /\ UNCHANGED <<sent, target, loaded>>
     \/ /\ sent < Len(data)
        /\ SendData(sent + 1, 1, "serial")
        /\ sent' = sent + 1
        /\ UNCHANGED records
  /\ UNCHANGED <<data, batch, initial>>

Init ==
  /\ data \in Inputs
  /\ batch \in BatchModes
  /\ pc = "start"
  /\ sent = 0
  /\ target \in [Keys -> BOOLEAN]
  /\ initial = target
  /\ SourceConsistent(initial, data)
  /\ loaded = <<>>
  /\ records = 0

Next == SinkDml \/ BatchStep \/ SerialStep

Spec == Init /\ [][Next]_vars

-----------------------------------------------------------------------------
(* The type invariant. *)
TypeOK ==
  /\ data \in Inputs
  /\ batch \in BOOLEAN
  /\ pc \in {"start", "batch", "serial", "done", "unwrapNone", "httpError"}
  /\ sent \in 0..Len(data)
  /\ target \in [Keys -> BOOLEAN]
  /\ loaded \in Seq(1..Len(data))
  /\ records \in 0..Len(data)

(***************************************************************************)
(* When sink_dml returns Ok, the target holds what applying the batch row *)
(* by row gives: every Insert and Update upserted, every Delete deleted,  *)
(* the last row of a key deciding (spec section 4.6).                      *)
(***************************************************************************)
TargetMatches == pc = "done" => target = Expected

(***************************************************************************)
(* The loads the target applied took the rows in batch order, none twice  *)
(* and none skipped, and a call that returns Ok has loaded every row.      *)
(***************************************************************************)
LoadedInOrder ==
  /\ loaded = [i \in 1..Len(loaded) |-> i]
  /\ pc = "done" => Len(loaded) = Len(data)

(***************************************************************************)
(* sink_dml never panics on a well-formed batch: only a failed stream     *)
(* load aborts it (the unwraps of before/after in send_data).              *)
(***************************************************************************)
NoUnwrapPanic == pc # "unwrapNone"

(***************************************************************************)
(* The Records counter of the monitor never counts a row whose load has   *)
(* not reached the target: batch_sink counts a window only after its load *)
(* and its response were unwrapped, serial_sink counts the batch only     *)
(* after its last row; and a call that returns Ok has counted every row.   *)
(***************************************************************************)
RecordsMatchLoads ==
  /\ records <= Len(loaded)
  /\ pc = "done" => records = Len(data)

-----------------------------------------------------------------------------
(* The call's outcome as the contract sees it. *)
Status ==
  CASE pc \in {"start", "batch", "serial"} -> "running"
    [] pc = "done"                         -> "ok"
    [] OTHER                               -> "failed"

SerialSink == INSTANCE SinkContract
                WITH tgt <- target, applied <- Len(loaded), status <- Status

(***************************************************************************)
(* sink_dml implements the batching sinker contract of spec section 4.6:  *)
(* every stream load, whether call_batch_fn's windows or serial_sink's    *)
(* single rows, has the effect of the next rows of the batch applied one  *)
(* by one, and Ok comes only after the last row.                           *)
(***************************************************************************)
ImplementsSinkContract == SerialSink!Spec

=============================================================================
