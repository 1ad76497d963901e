---------------------------- MODULE KafkaSinker ----------------------------
(***************************************************************************)
(* The Kafka sinker of dt-connector/src/sinker/kafka/rdkafka_sinker.rs    *)
(* sinking one DML batch, and the pipeline around it sinking the same     *)
(* batch again after a failure.                                            *)
(*                                                                         *)
(* send_avro converts every row to an Avro key and value (either can     *)
(* fail with `?`) and pushes an `async move` block that calls             *)
(* producer.send; then it awaits the blocks one by one, bailing on the    *)
(* first Err, and updates the batch monitor.  An async block does nothing *)
(* until it is awaited, so the send of row r happens when the second loop *)
(* reaches it, after the sends of rows 1..r-1 have completed.             *)
(*                                                                         *)
(* A delivery error is either a record the broker never wrote (queue full *)
(* after queue_timeout, a rejected record) or one whose acknowledgement   *)
(* was lost (message timeout after the write).  base_pipeline unwraps the *)
(* sinker's error, so the task dies without moving its positions, and the *)
(* restarted task extracts and sinks the same rows again.                 *)
(*                                                                         *)
(* A row is abstracted to its index in the batch; the topic (one          *)
(* partition) to the sequence of records written, each the row index and  *)
(* the attempt that wrote it.                                              *)
(***************************************************************************)
EXTENDS Naturals, Sequences, FiniteSets

CONSTANTS
  MaxRows,          \* the batch has at most this many rows
  MaxAttempts,      \* bound on the number of times the batch is sunk
  AvroFailures      \* whether the Avro conversion of a row may fail

ASSUME KafkaAssumption ==
  /\ MaxRows \in Nat
  /\ MaxAttempts \in Nat \ {0}
  /\ AvroFailures \in BOOLEAN

VARIABLES
  batchLen,    \* data.len() of the batch
  pc,          \* "start", "convert" (first loop), "await" (second loop),
               \* "ok" (Ok returned), "convertError", "deliveryError"
  converted,   \* rows converted and pushed to `futures` so far
  awaited,     \* futures whose await returned Ok
  dispatched,  \* calls of producer.send in this attempt
  topic,       \* the records the broker wrote: Seq([row, att])
  records,     \* the Records counter of the monitor
  attempt      \* the number of the current call of sink_dml

vars == <<batchLen, pc, converted, awaited, dispatched, topic, records, attempt>>

(* A record of row r written by attempt a. *)
Rec(r, a) == [row |-> r, att |-> a]

-----------------------------------------------------------------------------
(* sink_dml: an empty batch returns Ok at once; otherwise send_avro. *)
SinkDml ==
  /\ pc = "start"
  /\ pc' = IF batchLen = 0 THEN "ok" ELSE "convert"
  /\ UNCHANGED <<batchLen, converted, awaited, dispatched, topic, records,
                 attempt>>

(* Mutant: the first loop ending one row early (an off-by-one on len). *)
ConvertRowEarly ==
  /\ pc = "convert"
  /\ \/ /\ AvroFailures
        /\ pc' = "convertError"
        /\ UNCHANGED converted
     \/ /\ converted' = converted + 1
        /\ pc' = IF converted + 2 >= batchLen THEN "await" ELSE "convert"
  /\ UNCHANGED <<batchLen, awaited, dispatched, topic, records, attempt>>

(***************************************************************************)
(* One pass of the first loop: row_data_to_avro_key and                   *)
(* row_data_to_avro_value, whose errors return from send_avro, then the   *)
(* async block pushed to `futures` -- nothing is sent.  After the last    *)
(* row the second loop starts.                                             *)
(***************************************************************************)
ConvertRow ==
  /\ pc = "convert"
  /\ \/ /\ AvroFailures
        /\ pc' = "convertError"
        /\ UNCHANGED converted
     \/ /\ converted' = converted + 1
        /\ pc' = IF converted + 1 = batchLen THEN "await" ELSE "convert"
  /\ UNCHANGED <<batchLen, awaited, dispatched, topic, records, attempt>>

(* update_batch_monitor: the Records counter counts the batch. *)
UpdateBatchMonitor(n) == records' = records + n

(* Mutant: the second loop running one pass past the last future. *)
AwaitFuturePastEnd ==
  /\ pc = "await"
  /\ \/ /\ awaited <= converted
        /\ dispatched' = dispatched + 1
        /\ \/ /\ topic' = Append(topic, Rec(awaited + 1, attempt))
              /\ awaited' = awaited + 1
              /\ UNCHANGED pc
           \/ /\ pc' = "deliveryError"
              /\ \/ topic' = Append(topic, Rec(awaited + 1, attempt))
                 \/ UNCHANGED topic
              /\ UNCHANGED awaited
        /\ UNCHANGED records
     \/ /\ awaited = converted
        /\ pc' = "ok"
        /\ UpdateBatchMonitor(batchLen)
        /\ UNCHANGED <<awaited, dispatched, topic>>
  /\ UNCHANGED <<batchLen, converted, attempt>>

(* Mutant: the second loop logging a delivery error and going on. *)
AwaitFutureContinue ==
  /\ pc = "await"
  /\ \/ /\ awaited < converted
        /\ dispatched' = dispatched + 1
        /\ \/ topic' = Append(topic, Rec(awaited + 1, attempt))
           \/ UNCHANGED topic
        /\ awaited' = awaited + 1
        /\ UNCHANGED <<pc, records>>
     \/ /\ awaited = converted
        /\ pc' = "ok"
        /\ UpdateBatchMonitor(batchLen)
        /\ UNCHANGED <<awaited, dispatched, topic>>
  /\ UNCHANGED <<batchLen, converted, attempt>>

(***************************************************************************)
(* One pass of the second loop: awaiting the next future runs its async   *)
(* block, which calls producer.send and waits for the delivery report.    *)
(* Ok: the record is written.  Err: bail -- the record was not written,   *)
(* or written with its acknowledgement lost.  After the last future,      *)
(* update_batch_monitor and Ok.                                            *)
(***************************************************************************)
AwaitFuture ==
  /\ pc = "await"
  /\ \/ /\ awaited < converted
        /\ dispatched' = dispatched + 1
        /\ \/ /\ topic' = Append(topic, Rec(awaited + 1, attempt))
              /\ awaited' = awaited + 1
              /\ UNCHANGED pc
           \/ /\ pc' = "deliveryError"
              /\ \/ topic' = Append(topic, Rec(awaited + 1, attempt))
                 \/ UNCHANGED topic
              /\ UNCHANGED awaited
        /\ UNCHANGED records
     \/ /\ awaited = converted
        /\ pc' = "ok"
        /\ UpdateBatchMonitor(batchLen)
        /\ UNCHANGED <<awaited, dispatched, topic>>
  /\ UNCHANGED <<batchLen, converted, attempt>>

(***************************************************************************)
(* base_pipeline unwraps the error and the task dies with its positions   *)
(* unmoved and its in-memory monitor lost; the restarted task sinks the    *)
(* same rows again.                                                        *)
(***************************************************************************)
Restart ==
  /\ pc \in {"convertError", "deliveryError"}
  /\ attempt < MaxAttempts
  /\ pc' = "start"
  /\ attempt' = attempt + 1
  /\ converted' = 0
  /\ awaited' = 0
  /\ dispatched' = 0
  /\ records' = 0
  /\ UNCHANGED <<batchLen, topic>>

Init ==
  /\ batchLen \in 0..MaxRows
  /\ pc = "start"
  /\ converted = 0
  /\ awaited = 0
  /\ dispatched = 0
  /\ topic = <<>>
  /\ records = 0
  /\ attempt = 1

Next == SinkDml \/ ConvertRow \/ AwaitFuture \/ Restart

Spec == Init /\ [][Next]_vars

-----------------------------------------------------------------------------
(* The type invariant. *)
TypeOK ==
  /\ batchLen \in 0..MaxRows
  /\ pc \in {"start", "convert", "await", "ok", "convertError", "deliveryError"}
  /\ converted \in 0..batchLen
  /\ awaited \in 0..converted
  /\ dispatched \in 0..converted
  /\ topic \in Seq([row : 1..batchLen, att : 1..attempt])
  /\ records \in 0..batchLen
  /\ attempt \in 1..MaxAttempts

(* The number of records of attempt a among the first n of the topic. *)
WrittenBy(a, n) == Cardinality({y \in 1..n : topic[y].att = a})

(***************************************************************************)
(* Every attempt writes to the topic a prefix of the batch, in batch      *)
(* order, with no row skipped or written twice -- a lost acknowledgement  *)
(* and the bail on the first delivery error included: what a consumer of  *)
(* the partition needs for the last record of a key to be its newest.     *)
(***************************************************************************)
InOrderPerAttempt ==
  \A x \in 1..Len(topic) : topic[x].row = WrittenBy(topic[x].att, x - 1) + 1

(***************************************************************************)
(* When sink_dml returns Ok (and base_pipeline moves its positions on),   *)
(* every row of the batch is in the topic, written by that very call.     *)
(***************************************************************************)
BatchDelivered ==
  pc = "ok" => \A r \in 1..batchLen : \E x \in 1..Len(topic) : topic[x] = Rec(r, attempt)

=============================================================================
