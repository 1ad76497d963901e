--------------------------- MODULE PipelineDriver ---------------------------
(***************************************************************************)
(* The pipeline driver of dt-pipeline/src/base_pipeline.rs: the loop of    *)
(* BasePipeline::start that drains the bounded queue, classifies the       *)
(* drained batch (get_sink_method), extracts payloads and positions        *)
(* (fetch_dml / fetch_ddl / fetch_raw), hands the payloads to the sinkers  *)
(* and records the received and the checkpointed position in the Syncer.   *)
(*                                                                         *)
(* A queue item is a record [kind, pos]: the DtData variant and the        *)
(* position of the item in its source.  Positions are positive naturals,   *)
(* increasing in source order; NoPosition stands for Option::None.         *)
(* The payload handed to the sinkers is abstracted to the set of the       *)
(* positions delivered.  The producer of the queue, the shutdown flag's    *)
(* writer and crash recovery belong to the modules that compose this one.  *)
(***************************************************************************)
EXTENDS Naturals, Sequences

CONSTANTS
  QueueCapacity,       \* capacity of the ConcurrentQueue<DtItem> buffer
  BatchSinkInterval,   \* batch_sink_interval_secs
  CheckpointInterval   \* checkpoint_interval_secs

ASSUME DriverAssumption ==
  /\ QueueCapacity \in Nat \ {0}
  /\ BatchSinkInterval \in Nat
  /\ CheckpointInterval \in Nat

VARIABLES
  buffer,      \* the queue shared with the extractor: Seq(Item)
  batch,       \* the items drained in the current tick, not yet sunk
  phase,       \* "idle" (at the loop head), "sinking", "crashed", "stopped"
  delivered,   \* positions whose payload some sinker has received
  received,    \* syncer.received_position
  committed,   \* syncer.committed_position
  lastCommit,  \* the loop-local last_commit_position
  shutDown     \* the AtomicBool shut_down

driverVars == <<buffer, batch, phase, delivered, received, committed, lastCommit, shutDown>>

NoPosition == 0

(* The DtData variants.  "Ping" is a Redis entry whose command is PING.   *)
Kinds == {"Begin", "Commit", "Dml", "Ddl", "Redis", "Ping"}

Item(P) == [kind : Kinds, pos : P]

(***************************************************************************)
(* Time is not modelled as a clock.  `elapsed().as_secs() < interval` is  *)
(* false whatever the time when the interval is 0, and otherwise can be    *)
(* either at any tick: the timer is reset whenever it is found elapsed.    *)
(***************************************************************************)
Elapsed(interval) == IF interval = 0 THEN {TRUE} ELSE BOOLEAN

(* The SinkMethod variants. *)
Methods == {"Raw", "Ddl", "Dml"}

(* The last element of a non-empty finite set of naturals. *)
LastOf(S) == CHOOSE i \in S : \A j \in S : j <= i

(* The first element of a non-empty finite set of naturals. *)
FirstOf(S) == CHOOSE i \in S : \A j \in S : i <= j

(***************************************************************************)
(* get_sink_method: the variant of the first item that is neither Begin   *)
(* nor Commit decides; a batch without one is Raw.                         *)
(***************************************************************************)
SinkMethod(b) ==
  LET P == {i \in DOMAIN b : b[i].kind \notin {"Begin", "Commit"}}
  IN  IF P = {} THEN "Raw"
      ELSE CASE b[FirstOf(P)].kind = "Ddl" -> "Ddl"
             [] b[FirstOf(P)].kind = "Dml" -> "Dml"
             [] OTHER                      -> "Raw"

(* Mutant: the PING test of fetch_raw inverted, so PINGs are kept and     *)
(* every other Redis entry dropped.                                       *)
KeptPingInverted == [Dml |-> {"Dml"}, Ddl |-> {"Ddl"}, Raw |-> {"Dml", "Ddl", "Ping"}]

(***************************************************************************)
(* fetch_dml, fetch_ddl and fetch_raw, one row per method: the variants    *)
(* kept as payload, the variants that set last_received_position and the  *)
(* variants that set last_commit_position.  Every other variant is         *)
(* dropped by the match's catch-all arm.                                   *)
(***************************************************************************)
Kept == [Dml |-> {"Dml"}, Ddl |-> {"Ddl"}, Raw |-> {"Dml", "Ddl", "Redis"}]

(* Mutants: the Commit arm of fetch_dml, or the Redis arm of fetch_raw,    *)
(* that sets last_commit_position but not last_received_position.         *)
ReceivedKindsCommitArm ==
  [Dml |-> {"Dml"}, Ddl |-> {"Commit", "Ddl"},
   Raw |-> {"Commit", "Dml", "Ddl", "Redis", "Ping"}]

ReceivedKindsRedisArm ==
  [Dml |-> {"Commit", "Dml"}, Ddl |-> {"Commit", "Ddl"},
   Raw |-> {"Commit", "Dml", "Ddl"}]

ReceivedKinds ==
  [Dml |-> {"Commit", "Dml"}, Ddl |-> {"Commit", "Ddl"},
   Raw |-> {"Commit", "Dml", "Ddl", "Redis", "Ping"}]

CommitKinds ==
  [Dml |-> {"Commit"}, Ddl |-> {"Commit"}, Raw |-> {"Commit", "Redis", "Ping"}]

(* The position of the last item of b whose variant is in K, or None. *)
LastPos(b, K) ==
  LET I == {i \in DOMAIN b : b[i].kind \in K}
  IN  IF I = {} THEN NoPosition ELSE b[LastOf(I)].pos

(* The positions of the payloads the fetch hands to the parallelizer. *)
Payload(b, m) == {b[i].pos : i \in {j \in DOMAIN b : b[j].kind \in Kept[m]}}

-----------------------------------------------------------------------------
(***************************************************************************)
(* One pass of the while loop up to the drain: the loop condition, then   *)
(* the decision to drain (interval elapsed or queue full) and the drain   *)
(* itself.  The drain takes the whole queue, in FIFO order.                *)
(***************************************************************************)
Tick(elapsed) ==
  /\ phase = "idle"
  /\ ~shutDown \/ buffer # <<>>
  /\ elapsed \in Elapsed(BatchSinkInterval)
  /\ IF ~elapsed /\ Len(buffer) < QueueCapacity
       THEN /\ batch' = <<>>
            /\ UNCHANGED buffer
       ELSE /\ batch' = buffer
            /\ buffer' = <<>>
  /\ phase' = "sinking"
  /\ UNCHANGED <<delivered, received, committed, lastCommit, shutDown>>

(***************************************************************************)
(* record_checkpoint: once the checkpoint interval has elapsed, the       *)
(* syncer's committed position becomes last_commit_position if it is     *)
(* Some; otherwise nothing changes.                                        *)
(***************************************************************************)
RecordCheckpoint(ckpt, lc) == IF ckpt /\ lc # NoPosition THEN lc ELSE committed

(* Mutant: the syncer's received position overwritten even when the tick  *)
(* received nothing (the `if let Some` of start dropped).                 *)
SinkReceivedUnconditional(ckpt) ==
  /\ phase = "sinking"
  /\ ckpt \in Elapsed(CheckpointInterval)
  /\ LET m  == SinkMethod(batch)
         c  == LastPos(batch, CommitKinds[m])
         lc == IF c = NoPosition THEN lastCommit ELSE c
     IN  /\ delivered' = delivered \cup Payload(batch, m)
         /\ received' = LastPos(batch, ReceivedKinds[m])
         /\ lastCommit' = lc
         /\ committed' = RecordCheckpoint(ckpt, lc)
  /\ batch' = <<>>
  /\ phase' = "idle"
  /\ UNCHANGED <<buffer, shutDown>>

(* Mutant: last_commit_position declared inside the loop, so a commit     *)
(* drained in a tick whose checkpoint interval has not elapsed is lost.   *)
SinkLocalCommit(ckpt) ==
  /\ phase = "sinking"
  /\ ckpt \in Elapsed(CheckpointInterval)
  /\ LET m  == SinkMethod(batch)
         r  == LastPos(batch, ReceivedKinds[m])
         c  == LastPos(batch, CommitKinds[m])
     IN  /\ delivered' = delivered \cup Payload(batch, m)
         /\ received' = IF r = NoPosition THEN received ELSE r
         /\ lastCommit' = c
         /\ committed' = RecordCheckpoint(ckpt, c)
  /\ batch' = <<>>
  /\ phase' = "idle"
  /\ UNCHANGED <<buffer, shutDown>>

(***************************************************************************)
(* The rest of the pass, when the sinkers succeed: sink_ddl / sink_dml /  *)
(* sink_raw deliver the payloads, the syncer's received position follows  *)
(* last_received when it is Some, last_commit_position follows last_commit *)
(* when it is Some, and record_checkpoint commits last_commit_position to *)
(* the syncer when the checkpoint interval has elapsed.                    *)
(***************************************************************************)
Sink(ckpt) ==
  /\ phase = "sinking"
  /\ ckpt \in Elapsed(CheckpointInterval)
  /\ LET m  == SinkMethod(batch)
         r  == LastPos(batch, ReceivedKinds[m])
         c  == LastPos(batch, CommitKinds[m])
         lc == IF c = NoPosition THEN lastCommit ELSE c
     IN  /\ delivered' = delivered \cup Payload(batch, m)
         /\ received' = IF r = NoPosition THEN received ELSE r
         /\ lastCommit' = lc
         /\ committed' = RecordCheckpoint(ckpt, lc)
  /\ batch' = <<>>
  /\ phase' = "idle"
  /\ UNCHANGED <<buffer, shutDown>>

(* Mutant: the sinker's error swallowed instead of unwrapped: the tick     *)
(* goes on and moves the positions past what was not delivered.           *)
SinkFailSwallowed ==
  /\ phase = "sinking"
  /\ Payload(batch, SinkMethod(batch)) # {}
  /\ \E D \in SUBSET Payload(batch, SinkMethod(batch)) :
       delivered' = delivered \cup D
  /\ LET m  == SinkMethod(batch)
         r  == LastPos(batch, ReceivedKinds[m])
         c  == LastPos(batch, CommitKinds[m])
         lc == IF c = NoPosition THEN lastCommit ELSE c
     IN  /\ received' = IF r = NoPosition THEN received ELSE r
         /\ lastCommit' = lc
         /\ committed' = IF lc # NoPosition THEN lc ELSE committed
  /\ batch' = <<>>
  /\ phase' = "idle"
  /\ UNCHANGED <<buffer, shutDown>>

(***************************************************************************)
(* A sinker, the parallelizer or refresh_meta returns an error: the       *)
(* unwrap in sink_* panics and the pipeline task ends.  The branches that *)
(* had already succeeded keep their effect, so any part of the payload    *)
(* may have reached the target; no position moves.                         *)
(***************************************************************************)
SinkFail ==
  /\ phase = "sinking"
  /\ Payload(batch, SinkMethod(batch)) # {}
  /\ \E D \in SUBSET Payload(batch, SinkMethod(batch)) :
       delivered' = delivered \cup D
  /\ phase' = "crashed"
  /\ UNCHANGED <<buffer, batch, received, committed, lastCommit, shutDown>>

(***************************************************************************)
(* The loop condition fails (shut_down set and the queue empty): start    *)
(* returns, and stop closes every sinker and the parallelizer.            *)
(***************************************************************************)
Exit ==
  /\ phase = "idle"
  /\ shutDown
  /\ buffer = <<>>
  /\ phase' = "stopped"
  /\ UNCHANGED <<buffer, batch, delivered, received, committed, lastCommit, shutDown>>

DriverInit ==
  /\ buffer = <<>>
  /\ batch = <<>>
  /\ phase = "idle"
  /\ delivered = {}
  /\ received = NoPosition
  /\ committed = NoPosition
  /\ lastCommit = NoPosition
  /\ shutDown = FALSE

=============================================================================
