---------------------------- MODULE CdcPipeline ----------------------------
(***************************************************************************)
(* A CDC extractor feeding the pipeline driver through the bounded queue, *)
(* with a sink failure ending the process and a restart that resumes the  *)
(* source from the checkpointed position.                                  *)
(*                                                                         *)
(* The source's change log is the sequence `log` of DtData variants; the  *)
(* position of an event is its index.  The source database appends to it  *)
(* in transactions (Begin, payloads, Commit); the extractor reads it at   *)
(* `cursor` and pushes every event to the queue, spinning while the queue *)
(* is full (push_row_to_buf).                                              *)
(***************************************************************************)
EXTENDS PipelineDriver

CONSTANTS
  PayloadKinds,   \* the payload variants this source emits
  MaxLog,         \* bound on the number of source events
  MaxRestarts     \* bound on the number of process restarts

ASSUME CdcAssumption ==
  /\ PayloadKinds \subseteq {"Dml", "Ddl", "Redis", "Ping"}
  /\ PayloadKinds # {}
  /\ MaxLog \in Nat
  /\ MaxRestarts \in Nat

VARIABLES
  log,        \* the source's change log, Seq(Kinds)
  cursor,     \* number of log events the extractor has pushed
  restarts    \* number of restarts so far

vars == <<driverVars, log, cursor, restarts>>

(***************************************************************************)
(* The variants the source may append after `l`.  A Redis source streams  *)
(* entries without transactions.  A relational source streams             *)
(* transactions: a Begin, then either one Ddl (a DDL statement commits on *)
(* its own) or one or more other payloads, then a Commit.                  *)
(***************************************************************************)
RedisSource == PayloadKinds \subseteq {"Redis", "Ping"}

NextKinds(l) ==
  CASE RedisSource                          -> PayloadKinds
    [] l = <<>> \/ l[Len(l)] = "Commit"     -> {"Begin"}
    [] l[Len(l)] = "Begin"                  -> PayloadKinds
    [] l[Len(l)] = "Ddl"                    -> {"Commit"}
    [] OTHER                                -> (PayloadKinds \ {"Ddl"}) \cup {"Commit"}

(* The source database writes one more event of its log. *)
SourceWrite(k) ==
  /\ Len(log) < MaxLog
  /\ k \in NextKinds(log)
  /\ log' = Append(log, k)
  /\ UNCHANGED <<driverVars, cursor, restarts>>

(* Mutant: the push without the spin on is_full. *)
ExtractNoSpin ==
  /\ cursor < Len(log)
  /\ buffer' = Append(buffer, [kind |-> log[cursor + 1], pos |-> cursor + 1])
  /\ cursor' = cursor + 1
  /\ UNCHANGED <<batch, phase, delivered, received, committed, lastCommit,
                 shutDown, log, restarts>>

(***************************************************************************)
(* The extractor takes the next event of the replication stream and      *)
(* pushes it, once the queue has room.  Only this task pushes, so the     *)
(* room seen by is_full is still there at push.                            *)
(***************************************************************************)
Extract ==
  /\ cursor < Len(log)
  /\ Len(buffer) < QueueCapacity
  /\ buffer' = Append(buffer, [kind |-> log[cursor + 1], pos |-> cursor + 1])
  /\ cursor' = cursor + 1
  /\ UNCHANGED <<batch, phase, delivered, received, committed, lastCommit,
                 shutDown, log, restarts>>

(***************************************************************************)
(* After the pipeline task has panicked, the task is started again: the   *)
(* queue and the loop's locals are lost, the extractor resumes after the  *)
(* checkpointed position, and the new syncer starts from that position.   *)
(***************************************************************************)
Restart ==
  /\ phase = "crashed"
  /\ buffer' = <<>>
  /\ batch' = <<>>
  /\ phase' = "idle"
  /\ cursor' = committed
  /\ received' = committed
  /\ lastCommit' = NoPosition
  /\ restarts' = restarts + 1
  /\ UNCHANGED <<delivered, committed, shutDown, log>>

Init ==
  /\ DriverInit
  /\ log = <<>>
  /\ cursor = 0
  /\ restarts = 0

Next ==
  \/ \E k \in Kinds : SourceWrite(k)
  \/ Extract
  \/ \E e \in BOOLEAN : Tick(e) /\ UNCHANGED <<log, cursor, restarts>>
  \/ \E c \in BOOLEAN : Sink(c) /\ UNCHANGED <<log, cursor, restarts>>
  \/ restarts < MaxRestarts /\ SinkFail /\ UNCHANGED <<log, cursor, restarts>>
  \/ Restart

(***************************************************************************)
(* Fairness.  The extractor and the driver are tokio tasks that are never *)
(* starved; the restart is the supervisor's.  Time advances while the     *)
(* loop spins, so a tick, and a checkpoint, that find their interval      *)
(* elapsed come infinitely often: that needs strong fairness, as such a   *)
(* tick is enabled only at the loop head.  The source database is under   *)
(* no obligation to write.                                                 *)
(***************************************************************************)
Fairness ==
  /\ WF_vars(Extract)
  /\ SF_vars(Tick(TRUE) /\ UNCHANGED <<log, cursor, restarts>>)
  /\ SF_vars(Sink(TRUE) /\ UNCHANGED <<log, cursor, restarts>>)
  /\ WF_vars(Restart)

Spec == Init /\ [][Next]_vars

FairSpec == Spec /\ Fairness

-----------------------------------------------------------------------------
(* The type invariant. *)
TypeOK ==
  /\ log \in Seq(Kinds)
  /\ Len(log) <= MaxLog
  /\ cursor \in 0..Len(log)
  /\ restarts \in 0..MaxRestarts
  /\ buffer \in Seq(Item(1..MaxLog))
  /\ Len(buffer) <= QueueCapacity
  /\ batch \in Seq(Item(1..MaxLog))
  /\ phase \in {"idle", "sinking", "crashed", "stopped"}
  /\ delivered \subseteq 1..MaxLog
  /\ received \in 0..MaxLog
  /\ committed \in 0..MaxLog
  /\ lastCommit \in 0..MaxLog
  /\ shutDown \in BOOLEAN

(* The payload variants that must reach a sinker (a PING is dropped). *)
MustDeliver == {"Dml", "Ddl", "Redis"}

(***************************************************************************)
(* At-least-once delivery: every payload at or before the checkpointed    *)
(* position has reached a sinker, so a restart from the checkpoint loses  *)
(* nothing.  About the classification and the fetch_* loops of            *)
(* base_pipeline.rs, which drop what the chosen method does not handle,   *)
(* and about sink failures that leave part of a batch undelivered.        *)
(***************************************************************************)
CommittedDelivered ==
  \A p \in 1..committed : log[p] \in MustDeliver => p \in delivered

(***************************************************************************)
(* The checkpointed position never passes the received position          *)
(* (spec section 8), across ticks, checkpoints and restarts.               *)
(***************************************************************************)
CommittedNotAhead == committed <= received

(***************************************************************************)
(* A tick never moves the received position backwards; only a restart    *)
(* rewinds it, to the checkpoint.                                          *)
(***************************************************************************)
ReceivedMonotone ==
  [][phase # "crashed" => received' >= received]_vars

(***************************************************************************)
(* Every committed source transaction is eventually checkpointed.         *)
(***************************************************************************)
CheckpointProgress ==
  \A p \in 1..MaxLog :
    (p <= Len(log) /\ log[p] = "Commit") ~> (committed >= p)

=============================================================================
