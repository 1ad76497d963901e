# TLA+ models of the replication engine

This directory holds TLA+ specifications of the streaming core of the data
replication engine under `src/`. It has three parts:

- TLC configurations that model-check the specifications on small instances;
- TLAPS proofs of the main CDC pipeline invariants and of the PostgreSQL
  extractor's invariants, valid for every value of the constants;
- an abstract specification of the batching sinker contract, which the
  StarRocks sinker is checked to implement;
- `PROJECT.json`, the machine-readable index of all of the above. It lists the
  components and their status, the runs, the mutants, the map from every
  definition to the source lines it translates, the findings, the hazards and
  the theorems.

## The system and how its parts interact

```
  extractor task ──push (spin while full)──► bounded queue ──drain──► pipeline driver ──► sinker(s)
  (snapshot / CDC)                                                  (base_pipeline.rs)   (StarRocks, Kafka, ...)
        ▲                                                                   │
        └────── shut_down flag (snapshot) ◄─────── syncer: received / committed position
```

**Extractor.** The extractor produces rows into a `ConcurrentQueue` and spins
1 ms at a time while the queue is full. There are two extractors here:

- `mysql_snapshot_extractor.rs` scans a table in slices of its order column.
  It then waits for the queue to drain and sets `shut_down`.
- `pg_cdc_extractor.rs` tails a logical replication slot. It answers keepalive
  requests with a standby status update.

**Pipeline driver.** The driver (`base_pipeline.rs`, `BasePipeline::start`)
loops while `shut_down` is unset or the queue is non-empty. Each pass:

1. drains the queue, when the sink interval has elapsed or the queue is full;
2. classifies the drain (`get_sink_method`);
3. extracts payloads and positions (`fetch_dml` / `fetch_ddl` / `fetch_raw`);
4. hands the payloads to the sinkers, unwrapping their result;
5. updates the syncer's received position;
6. records the checkpoint (`record_checkpoint`) once its interval has elapsed.

**Sinkers.** A sinker writes a batch to the target. The StarRocks sinker
(`starrocks_sinker.rs`) cuts a batch into windows with `call_batch_fn`
(`base_sinker.rs`) and loads each window with an HTTP stream load.

**Version mismatches.** The sources in this snapshot of the repository come
from different versions:

- The two extractors push `RowData` with no position.
- The driver drains `DtItem`s (a `DtData` variant plus a position).
- `serial_sink` and `batch_sink` call the monitor helpers with four arguments,
  while `base_sinker.rs` declares three.

The models follow each file as written. The spec's CDC extractor interleaves
`Begin`/`Commit` items that carry positions, and it exists in no file under
`src/`. It is modelled from the spec, and those definitions are marked
`spec_modelled` in the map.

## Modules

| module | models | state (variables) | actions |
|---|---|---|---|
| `PipelineDriver` | `base_pipeline.rs`: `start`, `stop`, `get_sink_method`, `fetch_*`, `sink_*`, `record_checkpoint` | `buffer`, `batch`, `phase`, `delivered`, `received`, `committed`, `lastCommit`, `shutDown` | `Tick(elapsed)` (loop head and drain), `Sink(ckpt)` (rest of the pass on success), `SinkFail` (an unwrap panics), `Exit` |
| `CdcPipeline` | the driver composed with a CDC source, its extractor and a restarting supervisor | adds `log`, `cursor`, `restarts` | `SourceWrite`, `Extract` (push with spin), `Restart` (spec_modelled) |
| `SnapshotPipeline` | the driver composed with the MySQL snapshot extractor | adds `table`, `hasOrderCol`, `ext`, `pending`, `startValue`, `sliceCount`, `queries`, `pushed` | `GetMeta`, `Query`, `PushRow`, `EndSlice`, `EndFull`, `SetShutDown` |
| `StarRocksSinker` | `sink_dml`, `serial_sink`, `batch_sink`, `send_data`, `build_request`, `check_response`, `call_batch_fn`, the Records monitor counter | `data`, `batch`, `pc`, `sent`, `target`, `initial`, `loaded`, `records` | `SinkDml`, `BatchStep` (one pass of `call_batch_fn`), `SerialStep` (one pass of `serial_sink`) |
| `PgCdcExtractor` | `extract_internal`'s loop, `decode_relation`, `decode_insert/update/delete`, `push_row_to_buf`, the keepalive reply, crashes and restarts | `wal`, `pos`, `described`, `metas`, `decoded`, `buffer`, `delivered`, `slotFlushed`, `phase`, `restarts` | `SourceWrite`, `DecodeRelation`, `DecodeEvent`, `PushRow`, `KeepAlive(reply)`, `Consume`, `Crash`, `Restart` |
| `KafkaSinker` | `rdkafka_sinker.rs`: `sink_dml`, `send_avro` (conversion loop, lazy send futures, await loop with `bail!`), the monitor update, and the task restart after the `unwrap` in `base_pipeline.rs` | `batchLen`, `pc`, `converted`, `awaited`, `dispatched`, `topic`, `records`, `attempt` | `SinkDml`, `ConvertRow`, `AwaitFuture` (runs one async block: `producer.send` and its delivery report), `Restart` (spec_modelled) |
| `SinkContract` | the batching sinker contract of spec section 4.6: contiguous windows applied in batch order, Ok only after the last row | `data`, `tgt`, `applied`, `status` | `ApplyWindow`, `Finish`, `Fail` |
| `CdcPipelineProofs` | TLAPS proofs about `CdcPipeline` | | |
| `PgCdcExtractorProofs` | TLAPS proofs about `PgCdcExtractor` | | |
| `KafkaSinkerProofs` | TLAPS proofs about `KafkaSinker` | | |
| `SnapshotPipelineProofs` | TLAPS proofs about `SnapshotPipeline` | | |
| `StarRocksSinkerProofs` | TLAPS proofs about `StarRocksSinker` and its refinement of `SinkContract` | | |
| `MC*` | TLC instantiation (model values for keys and relations) | | |

### Abstractions

Data is abstracted to what the properties tell apart:

- A queue item is a `[kind, pos]` record, and a sinker's payload is the set of
  positions delivered.
- A snapshot row is its index plus its order-column value, with 0 for NULL.
- A StarRocks row is its type and key, and the target table is the set of keys
  present.
- A PostgreSQL change is its kind and relation OID, and its LSN is its index in
  the WAL.
- A Kafka row is its index in the batch. The topic is one partition, the
  sequence of the records written, each the row and the attempt that wrote it.
  A delivery error either left the record unwritten or wrote it with its
  acknowledgement lost.

Time is not a clock. `elapsed().as_secs() < interval` is a nondeterministic
Boolean. It is always false when the interval is 0 (`Elapsed`).

The control that decides what reaches the target or the checkpoint is kept:

- a failed `unwrap` in the driver is `SinkFail`;
- in the sinker, an `unwrap` of a missing `before`/`after` leads to
  `pc = "unwrapNone"`, and a failed request or response check to
  `pc = "httpError"`;
- in the PG extractor, an unknown OID leads to `phase = "failed"`, and the
  loop's panics are `Crash`.

Some control is left out of the snapshot model. That model has no
driver failure (`SinkFail` is in `CdcPipeline` only). It omits
`get_col_value`'s `_ => {}` arm (`mysql_snapshot_extractor.rs:280-282`),
because the order column's type is not modelled. It also omits the unwraps
at lines 71-72 and 115-117, because the model's queries and rows always
decode.

The StarRocks model takes its input from the source's log. `Init` requires
`SourceConsistent(initial, data)`: an Update or a Delete names a key that is
present once the rows before it are applied. An Insert may name any key,
because a replayed snapshot slice re-inserts rows (spec section 4.4).

## Runs

| run | cfg | expect | what it shows |
|---|---|---|---|
| cdc_dml | `CdcPipelineDml.cfg` | pass | Queue of 2, log of 7 events, 2 restarts, fair scheduling. Checks `TypeOK`, `CommittedDelivered`, `CommittedNotAhead`, `ReceivedMonotone` and `CheckpointProgress`. |
| cdc_redis | `CdcPipelineRedis.cfg` | pass | A Redis source with PINGs through `fetch_raw`: the checkpoint never covers an undelivered entry. |
| cdc_mixed_ddl_dml | `CdcPipelineMixed.cfg` | violation | A drain led by a DML transaction that also holds a DDL transaction is sunk by `fetch_dml`. Its catch-all arm drops the Ddl item, and the checkpoint passes it. |
| snapshot | `SnapshotPipeline.cfg` | pass | Up to 4 rows in slices of 2 or in one scan. Checks `PushedOnce`, `QueryBound`, `StoppedAllDelivered` and `Terminates` (the driver's loop ends). |
| snapshot_null_order | `SnapshotNullOrder.cfg` | violation | A NULL order value restarts the slice scan, so rows are pushed twice. |
| starrocks_homogeneous | `StarRocksHomogeneous.cfg` | pass | Batches of one row type (up to 4 rows over 2 keys), both paths, windows of 2, failing loads. Checks `TargetMatches`, `LoadedInOrder` and `NoUnwrapPanic`. Also checks the refinement `ImplementsSinkContract`: the instance `SerialSink` of `SinkContract`, under the mapping `tgt <- target`, `applied <- Len(loaded)` and `status <- Status`. |
| starrocks_mixed_order | `StarRocksMixedOrder.cfg` | pass | Mixed batches on either path, with failing loads and unwrap panics (up to 3 rows, windows of 2). Checks `RecordsMatchLoads`: the Records counter never counts a row whose load has not reached the target, and an Ok call has counted every row. |
| starrocks_mixed_batch | `StarRocksMixed.cfg` | violation | On a log the source can write (Delete k1, then Update k2, with both keys present), the Delete-led window loads the Update as a delete. k2 is lost, and `sink_dml` still returns Ok. |
| pg_lsn_behind | `PgCdcBehind.cfg` | pass | The reply LSN lies before the stream (2 relations, one filtered, WAL of 4, queue of 1, 2 restarts): no change is skipped. Under `FairSpec` it also checks the liveness property `Delivered`: every unfiltered change after `start_sln` is eventually sunk. |
| pg_lsn_hardcoded | `PgCdcHardCodedLsn.cfg` | violation | The reply LSN lies inside the WAL: a restart resumes past changes that were never sunk. |
| pg_slot_stuck | `PgCdcSlotStuck.cfg` | violation | Liveness `SlotAdvances`: with the reply LSN at 0 the slot never passes a sunk change, even with keepalives answered under strong fairness. |
| kafka_sinker | `KafkaSinker.cfg` | pass | Batches of up to 3 rows, Avro errors, delivery errors with and without a write, 3 attempts. Checks `InOrderPerAttempt` (each attempt writes a gap-free prefix in order) and `BatchDelivered` (Ok means the attempt wrote every row). |

### Bounds

The bounds are the smallest that make each interesting case happen:

- **cdc_dml.** A queue of 2 fills and forces a drain. A log of 7 holds two
  transactions, enough that a drain can split one. Two restarts allow a crash
  after a restart.
- **snapshot.** Slices of 2 over up to 4 rows give full slices, a short slice
  and the extra empty query.
- **StarRocks.** Windows of 2 over up to 4 rows give a full window and a short
  one.
- **pg_lsn_behind.** A queue of 1 makes the extractor spin. Two
  relations, one filtered, and a WAL of 4 let a restart land between changes.
- **kafka_sinker.** Three rows give an error on a middle row, with rows before
  and after it. Three attempts give a restart after a restart, so the topic
  holds the records of several attempts.

Each passing run reaches between 600 and 56,000 distinct states, and each
finishes in seconds.

### Mutants

Every property of every passing run has a mutant in `PROJECT.json`. A mutant is
a plausible bug in the mapped code, and TLC finds the property violated under
the run's own configuration. Examples:

- the push without its spin on `is_full`;
- `>=` instead of `>` in `sql2`;
- `last_commit_position` declared inside the loop;
- a missing `__op='delete'` header;
- `sinked_count += 1` in place of `+= batch_size`;
- the keepalive replying with the read position;
- the Kafka await loop going on after an error instead of bailing;
- push_row_to_buf's filter test inverted (this breaks `Delivered`).

## Fairness

- **CDC and snapshot.**
  - The extractor and the driver are tokio tasks that are never starved, so
    they get weak fairness. The supervisor's restart gets weak fairness too.
  - A tick that finds its interval elapsed gets strong fairness. Time advances
    while the loop spins, so such a tick recurs, but it is enabled only at the
    loop head.
  - The source database is under no obligation to write.
- **PG extractor (`FairSpec`).**
  - The extractor's decode and push steps, the pipeline's `Consume` and the
    supervisor's `Restart` get weak fairness. They are tokio tasks on a
    runtime that runs every ready task, and the spin in `push_row_to_buf`
    sleeps and retries.
  - `KeepAlive(TRUE)` gets strong fairness. The server asks for a reply at
    least every `wal_sender_timeout / 2`, but the loop reads a keepalive only
    when it is not spinning in a push.
  - `Crash` and the source's writes get no fairness.
  - `KeepAliveReplyRead`, the mutant that replies with the read position,
    satisfies `SlotAdvances` under this fairness. The violation in
    pg_slot_stuck therefore comes from the constant, not from the fairness.
- **StarRocks and Kafka runs.** These check safety only. Their configurations
  disable the deadlock check where the modelled call really stops: `sink_dml`
  returns, or the snapshot task ends.

## What is proved (TLAPS)

### `CdcPipelineProofs`

The proofs rest on the constant assumptions `DriverAssumption`
(`QueueCapacity ∈ Nat \ {0}`, intervals in `Nat`) and `CdcAssumption`. Five
theorems are proved:

- `IInvHolds`: `Spec => []IInv`.
- `TypeCorrect`: `Spec => []TypeOK`.
- `CommittedNotAheadHolds`: `Spec => []CommittedNotAhead`.
- `ReceivedMonotoneHolds`: `Spec => [][phase # "crashed" => received' >= received]_vars`.
- `CommittedDeliveredHolds`: under `ASSUME Homogeneous`,
  `Spec => []CommittedDelivered`.

`CommittedNotAhead` is not inductive by itself. A sink step sets the received
position to the last position of the drain, and the committed position to the
last commit, possibly one held over from an earlier drain. The step is safe
only because of three facts:

- positions increase through `batch` and then through `buffer`;
- every position still in the batch or the queue lies strictly after
  `received` and at or before `cursor`;
- `lastCommit <= received`.

`IInv` adds these facts to `TypeOK`, plus `phase = "crashed" => restarts < MaxRestarts`
for the restart step. TLC checked `IInv` as an invariant of all three CDC
configurations before it was proved. The proof has three parts:

- `Init => IInv`;
- one lemma per action showing that it preserves `IInv`;
- the `PTL` step.

It rests on these lemmas about the operators:

- `LastOfSpec`, `FirstOfSpec`: proved by well-founded induction on `Nat`;
- `LastPosSpec`: `LastPos` returns `NoPosition` or the position of the last
  matching item;
- `PayloadPos`, `SeqItemPos`, `AppendIncreasing`.

`CommittedDelivered` is proved only for a homogeneous source: a DML-only
or a DDL-only relational source, or a Redis source (`Homogeneous`). This is
not a weakening. For a source that mixes DDL and DML in its log the property
is false, and the run cdc_mixed_ddl_dml shows TLC finding it violated.
`get_sink_method` picks the method from the first payload of the batch, and
`fetch_*` drops every payload of another kind. With one kind of payload,
the method chosen keeps every payload that must be delivered (lemma
`HomogeneousKept`).

The property is not inductive. A sink step delivers only what is in the
batch, and a restart rewinds the cursor to the checkpoint. The inductive
argument is `IInv /\ DInv`, where `DInv` says:

- at the loop head the batch is empty;
- every log event is a variant of the source's (`SourceKinds`);
- every item of the batch and of the queue carries its log event's variant
  (`Faithful`);
- every payload up to the cursor that must be delivered and is held by
  neither the batch nor the queue has been delivered.

`CommittedDelivered` then follows from the `Pending` facts of `IInv`:
nothing held lies at or before `received`, and `committed <= received`.
TLC checked `DInv` with `IInv` before the proof, in the DML, DDL and Redis
configurations. The proof has one lemma per action, combined in `NextDInv`.

Beyond the reach of the prover, and checked only by TLC:

- the liveness properties (`CheckpointProgress`, `Terminates`, the PG
  liveness properties): the prover does not reason about `ENABLED` and
  fairness;
- `Terminates` of the snapshot module;
- `LastRowWinsIsFold` of `MCStarRocksSinker`, which says that the closed form
  `ApplyRows` is the left fold of `ApplyRow`. Proving it for every batch would
  be an induction over the data, which the installed provers cannot
  instantiate.

### `KafkaSinkerProofs`

These proofs rest on `KafkaAssumption`. Four theorems are proved for every
batch length, every attempt budget and either setting of `AvroFailures`.
The last three are the properties the kafka_sinker run checks:

- `KInvHolds`: `Spec => []KInv`.
- `TypeCorrect`: `Spec => []TypeOK`.
- `BatchDeliveredHolds`: `Spec => []BatchDelivered`.
- `InOrderPerAttemptHolds`: `Spec => []InOrderPerAttempt`.

`KInv` adds to `TypeOK` the facts that tie the two loops of `send_avro` to
the topic:

- the second loop starts only when every row is converted, and returns Ok
  only when every future was awaited;
- every send of the call was awaited Ok, unless the call bailed on a
  delivery error;
- the monitor counts the batch only after Ok;
- rows `1..awaited` are in the topic, written by the current attempt;
- unless a send failed after its write, those are all the records the
  attempt wrote (`Count(topic, attempt, Len(topic)) = awaited`);
- the topic is in order per attempt (`InOrder`, `InOrderPerAttempt` with
  the topic as a parameter).

The counting fact is what makes the next append the row `awaited + 1` of
its attempt. It is also what a restart needs: a new attempt has written
nothing yet (`CountNone`). TLC checked `KInv` as an invariant before it
was proved, with up to 4 rows. The counting lemmas
(`CountAppend`, `CountStep`, `CountAppendLast`, `CountNone`) rest on
`FS_Interval`, `FS_Subset` and `FS_AddElement` of `FiniteSetTheorems`.
The topic lemmas (`TopicGrows`, `InOrderAppend`) rest on `SeqMonotonic`
of `SequenceTheorems`.

### `SnapshotPipelineProofs`

These proofs rest on `SnapshotAssumption` and `DriverAssumption`. Four
theorems are proved for every table size, slice size, queue capacity, query
bound and pair of intervals, and all four state properties of the snapshot run:

- `TypeCorrect`: `Spec => []TypeOK`.
- `PushedOnceHolds`: under `ASSUME ~OrderNullable`, `Spec => []PushedOnce`.
- `QueryBoundHolds`: under `ASSUME ~OrderNullable`, `Spec => []QueryBound`.
- `StoppedAllDeliveredHolds`: `Spec => []StoppedAllDelivered`, NULLs in the
  order column included.

Everything rests on one fact about the model of `ORDER BY`: `Sorted(M)` lists
every row of `M` exactly once, in the order `Before` (lemma `SortedSpec`).
The rank of a row is one more than the number of rows before it. Ranks are
distinct and lie in `1..Cardinality(M)`, so rank is an injection of `M` into
that interval. `FS_Injection` of `FiniteSetTheorems` makes it a surjection,
so every place has its row. `SliceRowsSpec` and `SliceRowsComplete` then
describe a slice query's result. It holds at most `slice_size` rows and
lists them in order. It is a run of the order over the rows the query
selects (`Selected`). A result shorter than the limit holds every selected
row.

Each invariant was TLC-checked before it was proved, on tables of 4 and 5
rows in slices of 2 and 3. `AInv` was also checked on nullable tables of 3
rows in slices of 1 and 2:

- `TInv` is `TypeOK` plus `sliceCount + Len(pending) <= SliceSize` in a
  slice. This is what keeps `slice_count` within `slice_size`.
- `PInv` (for `PushedOnce`) says three things. The rows pushed and the rows
  pending are each listed once and are disjoint. Every pushed row has an
  order value at most `start_value`. The pending rows follow `start_value`
  in increasing order. Without NULLs, `order_col > ?` therefore skips exactly
  the rows pushed.
- `QInv` (for `QueryBound`) relates `queries` to `Len(pushed)`: every query
  but the last returned a full slice. `PInv` bounds `Len(pushed)` by the
  table's size (`PushedLen`). The bound follows by `CeilBound`.
- `AInv` (for `StoppedAllDelivered`) covers the scan and the driver. For the
  scan: `start_value` is the order value of the row pushed last. Every row
  the order puts before that row is pushed. Every row the order puts before
  a pending row is pushed or pending earlier. A short slice, and the full
  scan's result, hold every row not yet pushed. For the driver: a pushed row
  is queued, in the batch or delivered. Every item is an Insert, so
  `get_sink_method` is `Dml` and the sink hands over the whole batch
  (`DmlPayload`). The batch is empty at the loop head, and `shut_down` is
  stored only at the end of the scan.

The hypothesis `~OrderNullable` of the second and third theorems is not a
weakening. With NULLs both properties fail: snapshot_null_order shows
`PushedOnce` violated, and TLC finds `QueryBound` violated as well. A NULL
order value resets `start_value` to None, so the scan starts over.
`StoppedAllDelivered` needs no such hypothesis. A restarted scan pushes
rows again, but it never skips one. `Before` puts NULLs first and breaks
ties by row, so `UnselectedPushed` holds either way: once `start_value` is
Some, every row that sql2 does not select has been pushed.

### `PgCdcExtractorProofs`

These proofs rest on `PgAssumption`. Two theorems are proved, and both
are also checked by pg_lsn_behind:

- `TypeCorrect`: `Spec => []TypeOK`.
- `NoChangeSkippedHolds`: under `ASSUME HardCodedLsn <= StartLsn`,
  `Spec => []NoChangeSkipped`.

The first follows from `TInv`, which is `TypeOK` plus three facts:

- `described \subseteq metas`: the server describes a relation only through
  `decode_relation`, which stores its meta;
- `phase # "failed"`;
- a crashed task is one the restart budget still allows.

`NoChangeSkipped` is not inductive alone. A `Restart` must land at or before
every change it has lost, and a change the source appends must lie after the
stream. `IInv` therefore adds two facts:

- `slotFlushed <= StartLsn`, which is where the hypothesis on the reply LSN is
  used;
- `pos <= Len(wal) \/ pos = StartLsn`.

A `TInv` that also held this second fact was found violated by TLC with a reply
LSN of 3. That is why the fact belongs to `IInv` only. TLC checked both
invariants before they were proved. The proof of each step has one case per
action, and under `Consume` and `PushRow` it follows the change's index in the
queue. The lemmas `WalEntry` and `SeqOfLsnGrows` carry the sequence facts,
together with `ElementOfSeq` and `HeadTailProperties` of `SequenceTheorems`.

### `StarRocksSinkerProofs`

These proofs rest on `StarRocksAssumption`. Six theorems are proved. Five
state the invariants and the refinement that starrocks_homogeneous checks,
and `RecordsMatchLoadsHolds` states the invariant that
starrocks_mixed_order checks:

- `TypeCorrect`: `Spec => []TypeOK`, for every value of the constants.
- `LoadedInOrderHolds`: under `ASSUME BatchSize > 0`,
  `Spec => []LoadedInOrder`.
- `NoUnwrapPanicHolds`: under `ASSUME ~Mixed`, `Spec => []NoUnwrapPanic`.
- `TargetMatchesHolds`: under `ASSUME ~Mixed, BatchSize > 0`,
  `Spec => []TargetMatches`.
- `ImplementsSinkContractHolds`: under the same two hypotheses,
  `Spec => ImplementsSinkContract`, the refinement of `SinkContract`.
- `RecordsMatchLoadsHolds`: under `ASSUME BatchSize > 0`,
  `Spec => []RecordsMatchLoads`, for mixed batches and failing loads too.
  Its invariant `RInv` is `records <= Len(loaded)`, plus two more facts. In
  the batched loop and at Ok, `records = sent`. `RInv` is inductive with
  `GInv`: a failed load or a panic leaves `records` and can only extend
  `loaded`. `DInv` then turns `records = sent` at Ok into
  `records = Len(data)`.

The reference result is a closed form rather than a fold. `ApplyRows(t, s)`
(and `ApplyAll` of `SinkContract`) leaves a key no row names as it is in
`t`. Any other key is present exactly when the last row naming it is not a
Delete. The fold `FoldLeft` of the community modules is `RECURSIVE`, which
would keep the prover out of the module. `MCStarRocksSinker` states as an
`ASSUME` (`LastRowWinsIsFold`) that the closed form equals the left fold of
`ApplyRow` (and of `ApplyOne`). TLC evaluates this on every start table and
every batch of the runs' size.

Three invariants carry the proofs, and TLC checked each one before it was
proved. `GInv` was checked on the homogeneous, mixed and batch_size-0
configurations, `DInv` with a positive batch size, and `MInv` without mixed
batches:

- `GInv` (for `TypeOK`) is `TypeOK` plus four groups of facts:
  - the loaded rows are `1..Len(loaded)`, a prefix of the `sent` rows;
  - they are all the sent rows while the call runs or after Ok;
  - Records does not exceed `sent` and is 0 in the serial loop;
  - the batched loop runs only on a batch that opens with an Insert or a
    Delete.
- `DInv`: after Ok, `sent = Len(data)`. An empty window ends
  `call_batch_fn`'s loop only when no row is left, and this needs
  `batch_size > 0`.
- `MInv`: no unwrap panic, and the target is always
  `ApplyRows(initial, SubSeq(data, 1, Len(loaded)))`.

The step of `MInv` is lemma `WindowMInv`, which combines two facts:

- a stream load of a window whose rows all have the same type is the
  window's rows applied one by one (`StreamLoadHomogeneous`, which uses
  `MaxIndex`, a well-founded-induction fact on `Nat`);
- applying rows `1..a` and then `a+1..b` is applying `1..b`
  (`ApplyRowsConcat`).

The refinement proof maps the steps as follows:

- the dispatch of `sink_dml` is a stutter, or `Finish` on an empty batch;
- a window's load is `ApplyWindow` or `Fail`, with the window applied or not
  (`WindowRefines`);
- an unwrap panic is `Fail` with nothing applied;
- the end of either loop is `Finish`, because `DInv` makes
  `Len(loaded) = Len(data)` there.

The refinement proof needs `GInv` and `DInv`, but not `MInv`.

The hypotheses are not weakenings. Each theorem fails without them:

- With mixed batches, `TargetMatches` is violated (starrocks_mixed_batch,
  finding 3), and so are `NoUnwrapPanic` and the refinement.
- With `batch_size` 0, `LoadedInOrder`, `TargetMatches` and the refinement
  are violated (finding 6): `call_batch_fn` returns Ok at once.
- `TypeOK` needs neither hypothesis. Without mixed batches, `NoUnwrapPanic`
  holds for every `batch_size`.

For the prover, `SinkDml` dispatches with nested `IF`s in the order of the
code. The empty-batch return comes first, then the test of `batch` and
`data[0]`. A `CASE` with overlapping arms would leave the choice open on an
empty batch.

## Findings

1. **Mixed DDL/DML drains lose the DDL** (`base_pipeline.rs:243`).
   `get_sink_method` classifies a drain by its first payload. When that is a
   Dml, `fetch_dml`'s catch-all arm drops the Ddl item, and its Commit arm
   moves the checkpoint past it. Spec section 4.2 says the first Ddl makes the
   drain Ddl. Section 9 says mixed items are re-classified on the next tick.
2. **A NULL order value restarts the slice scan**
   (`mysql_snapshot_extractor.rs:107`). Rows are pushed again, and a table with
   `slice_size` NULLs never ends.
3. **StarRocks mixed windows** (`starrocks_sinker.rs:85`). After a Delete in
   the same window, an Update is loaded as a delete, and an Insert/Delete mix
   panics. The log is one the source can write: Delete k1, then Update k2. Spec section 4.6 says to batch by row type.
4. **The PostgreSQL keepalive replies with a constant LSN**
   (`pg_cdc_extractor.rs:112`). Depending on where that LSN falls, a restart
   skips unsunk changes (pg_lsn_hardcoded) or the slot never advances and the
   server keeps its WAL forever (pg_slot_stuck, a liveness violation).
Two more observations are not kept as runs, because the project holds at most
twelve:

5. **Kafka sends are not dispatched up front** (`rdkafka_sinker.rs:57`). The
   async blocks are lazy. Rows are sent one at a time as the second loop
   awaits them, and the rows after a delivery error are never sent. The comment
   and spec section 4.6 say otherwise. The behaviour is safe: each attempt
   writes a gap-free prefix (kafka_sinker). It is slower than described, and
   a retry duplicates only that prefix. The variable `dispatched` of
   `KafkaSinker` counts the `producer.send` calls. The invariant
   `pc = "deliveryError" => dispatched = batchLen` fails on a batch of two
   whose first send fails.
6. **`batch_size = 0`** (`base_sinker.rs:61`). `call_batch_fn` returns at once,
   and the StarRocks sinker reports success having loaded nothing. Nothing in
   the spec or the code rules this value out. `LoadedInOrder` fails at once
   under `BatchSize = 0`.

## Not modelled

- **Kafka topic routing and Avro encoding.** A row is its index, and a
  conversion is a step that can fail.
- **Column value conversion and `UnchangedToast`.** Rows carry no values in the
  models.
- **Monitor counters other than Records, logging, and the data marker.**
- **Precheck fetchers.** They are out of the spec's scope.
- **The DDL type enum.**
- **Configuration parsing.** The `batch_size = 0` case is finding 6.
- **The data marker's origin node** (`base_pipeline.rs:92`). It matters only
  to two-way replication, which no module composes. It is listed as a hazard.
