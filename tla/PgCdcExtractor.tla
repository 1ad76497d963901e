--------------------------- MODULE PgCdcExtractor ---------------------------
(***************************************************************************)
(* The PostgreSQL CDC extractor of src/extractor/pg/pg_cdc_extractor.rs   *)
(* on a logical replication slot: the loop of extract_internal reading    *)
(* XLogData and PrimaryKeepAlive messages, the decode_* handlers pushing  *)
(* RowData to the bounded queue (spinning while it is full), the standby  *)
(* status reply with its hard-coded LSN, and, around it, a consumer       *)
(* draining the queue, the process dying and being started again.         *)
(*                                                                         *)
(* The server's WAL is the sequence `wal`; the LSN of an event is its      *)
(* index.  On a new session the server streams from the later of the      *)
(* requested start LSN and the slot's confirmed flush LSN, and sends a     *)
(* Relation message for a table before its first change in the session.   *)
(* A pushed RowData is abstracted to the LSN of its change.                *)
(***************************************************************************)
EXTENDS Naturals, Sequences

CONSTANTS
  Rels,             \* relation OIDs
  Filtered,         \* the relations RdbFilter filters out
  EventKinds,       \* the XLogData variants the source produces here
  MaxWal,           \* bound on the length of the WAL
  PgQueueCapacity,  \* capacity of the ConcurrentQueue<RowData>
  HardCodedLsn,     \* the LSN "0/2C280E70" of the reply, on this WAL's scale
  StartLsn,         \* start_sln of the configuration
  MaxRestarts       \* bound on the number of process restarts

RowKinds == {"Insert", "Update", "Delete"}

ASSUME PgAssumption ==
  /\ Filtered \subseteq Rels
  /\ EventKinds \subseteq RowKinds \cup {"Begin", "Commit", "Truncate", "Origin", "Type"}
  /\ EventKinds \cap RowKinds # {}
  /\ MaxWal \in Nat
  /\ PgQueueCapacity \in Nat \ {0}
  /\ HardCodedLsn \in Nat
  /\ StartLsn \in Nat
  /\ MaxRestarts \in Nat

VARIABLES
  wal,          \* the server's WAL: Seq([kind, rel])
  pos,          \* LSN of the last event the stream has delivered
  described,    \* relations the server has described in this session
  metas,        \* the meta manager's relations, by OID
  decoded,      \* LSN of the row push_row_to_buf is spinning on, or 0
  buffer,       \* the queue: LSNs of the RowData pushed
  delivered,    \* LSNs whose RowData the consumer has taken
  slotFlushed,  \* the slot's confirmed flush LSN
  phase,        \* "running", "failed" (extract returned an error), "crashed"
  restarts      \* number of restarts so far

vars == <<wal, pos, described, metas, decoded, buffer, delivered, slotFlushed,
          phase, restarts>>

(* The next event of the stream. *)
NextEvent == wal[pos + 1]

(* The server sends a Relation message first when the next change is on a *)
(* relation not yet described in the session.                              *)
NeedsRelation ==
  pos < Len(wal) /\ NextEvent.kind \in RowKinds /\ NextEvent.rel \notin described

-----------------------------------------------------------------------------
(* The source database writes one more event of its WAL. *)
SourceWrite(k, r) ==
  /\ Len(wal) < MaxWal
  /\ wal' = Append(wal, [kind |-> k, rel |-> r])
  /\ UNCHANGED <<pos, described, metas, decoded, buffer, delivered,
                 slotFlushed, phase, restarts>>

(* XLogData(Relation): decode_relation stores the table's meta by OID. *)
DecodeRelation ==
  /\ phase = "running"
  /\ decoded = 0
  /\ NeedsRelation
  /\ described' = described \cup {NextEvent.rel}
  /\ metas' = metas \cup {NextEvent.rel}
  /\ UNCHANGED <<wal, pos, decoded, buffer, delivered, slotFlushed, phase,
                 restarts>>

(* Mutant: push_row_to_buf's filter test inverted. *)
DecodeRowFilterInverted(p) ==
  CASE wal[p].rel \notin metas   -> phase' = "failed" /\ UNCHANGED decoded
    [] wal[p].rel \notin Filtered -> UNCHANGED <<decoded, phase>>
    [] OTHER                      -> decoded' = p /\ UNCHANGED phase

(***************************************************************************)
(* decode_insert, decode_update and decode_delete for the change at LSN  *)
(* p: the meta of its OID (get_tb_meta_by_oid fails on an unknown OID,    *)
(* ending extract), then push_row_to_buf, which drops a filtered row and  *)
(* otherwise starts pushing it.                                            *)
(***************************************************************************)
DecodeRow(p) ==
  CASE wal[p].rel \notin metas -> phase' = "failed" /\ UNCHANGED decoded
    [] wal[p].rel \in Filtered -> UNCHANGED <<decoded, phase>>
    [] OTHER                   -> decoded' = p /\ UNCHANGED phase

(***************************************************************************)
(* The next XLogData of the loop: Begin, Commit, Origin, Truncate and     *)
(* Type are consumed without effect; Insert, Update and Delete decoded.   *)
(***************************************************************************)
DecodeEvent ==
  /\ phase = "running"
  /\ decoded = 0
  /\ pos < Len(wal)
  /\ ~NeedsRelation
  /\ pos' = pos + 1
  /\ IF NextEvent.kind \in RowKinds
       THEN DecodeRow(pos + 1)
       ELSE UNCHANGED <<decoded, phase>>
  /\ UNCHANGED <<wal, described, metas, buffer, delivered, slotFlushed,
                 restarts>>

(* Mutant: the push without the spin on is_full. *)
PushRowNoSpin ==
  /\ phase = "running"
  /\ decoded # 0
  /\ buffer' = Append(buffer, decoded)
  /\ decoded' = 0
  /\ UNCHANGED <<wal, pos, described, metas, delivered, slotFlushed, phase,
                 restarts>>

(* The spin of push_row_to_buf ends when the queue has room: the push. *)
PushRow ==
  /\ phase = "running"
  /\ decoded # 0
  /\ Len(buffer) < PgQueueCapacity
  /\ buffer' = Append(buffer, decoded)
  /\ decoded' = 0
  /\ UNCHANGED <<wal, pos, described, metas, delivered, slotFlushed, phase,
                 restarts>>

(* Mutant: the reply carrying the LSN the stream has reached. *)
KeepAliveReplyRead(reply) ==
  /\ phase = "running"
  /\ decoded = 0
  /\ slotFlushed' = IF reply /\ pos > slotFlushed THEN pos ELSE slotFlushed
  /\ UNCHANGED <<wal, pos, described, metas, decoded, buffer, delivered,
                 phase, restarts>>

(***************************************************************************)
(* PrimaryKeepAlive: when the server asks for a reply, the standby status *)
(* update reports "0/2C280E70" as written, flushed and applied.  The slot *)
(* never moves its confirmed flush LSN backwards.                          *)
(***************************************************************************)
KeepAlive(reply) ==
  /\ phase = "running"
  /\ decoded = 0
  /\ slotFlushed' = IF reply /\ HardCodedLsn > slotFlushed THEN HardCodedLsn ELSE slotFlushed
  /\ UNCHANGED <<wal, pos, described, metas, decoded, buffer, delivered,
                 phase, restarts>>

(* The pipeline takes the queue's oldest row and sinks it. *)
Consume ==
  /\ phase = "running"
  /\ buffer # <<>>
  /\ delivered' = delivered \cup {Head(buffer)}
  /\ buffer' = Tail(buffer)
  /\ UNCHANGED <<wal, pos, described, metas, decoded, slotFlushed, phase,
                 restarts>>

(***************************************************************************)
(* The process dies: a stream error or end (the panics of the loop), the  *)
(* server ending a session that left its keepalive unanswered while the   *)
(* extractor spun on a full queue, or the sink side panicking.  The queue *)
(* and the extractor's state are lost.                                     *)
(***************************************************************************)
Crash ==
  /\ phase \in {"running", "failed"}
  /\ restarts < MaxRestarts
  /\ phase' = "crashed"
  /\ buffer' = <<>>
  /\ decoded' = 0
  /\ UNCHANGED <<wal, pos, described, metas, delivered, slotFlushed, restarts>>

(***************************************************************************)
(* The task is started again from start_sln with an empty meta manager;  *)
(* the server streams from the slot's confirmed flush LSN when that is     *)
(* later, and describes every relation anew.                               *)
(***************************************************************************)
Restart ==
  /\ phase = "crashed"
  /\ pos' = IF slotFlushed > StartLsn THEN slotFlushed ELSE StartLsn
  /\ described' = {}
  /\ metas' = {}
  /\ phase' = "running"
  /\ restarts' = restarts + 1
  /\ UNCHANGED <<wal, decoded, buffer, delivered, slotFlushed>>

Init ==
  /\ wal = <<>>
  /\ pos = StartLsn
  /\ described = {}
  /\ metas = {}
  /\ decoded = 0
  /\ buffer = <<>>
  /\ delivered = {}
  /\ slotFlushed = 0
  /\ phase = "running"
  /\ restarts = 0

Next ==
  \/ \E k \in EventKinds, r \in Rels : SourceWrite(k, r)
  \/ DecodeRelation
  \/ DecodeEvent
  \/ PushRow
  \/ \E reply \in BOOLEAN : KeepAlive(reply)
  \/ Consume
  \/ Crash
  \/ Restart

Spec == Init /\ [][Next]_vars

(***************************************************************************)
(* The extractor task loops on the stream and the pipeline task drains    *)
(* the queue on every tick, both on the tokio runtime, which runs every   *)
(* ready task; the task supervisor starts a dead task again; the server   *)
(* asks for a standby status reply at least every wal_sender_timeout / 2, *)
(* between the XLogData it streams.  Crashes and the source's writes are  *)
(* not fair: they may or may not happen.                                   *)
(***************************************************************************)
Fairness ==
  /\ WF_vars(DecodeRelation)
  /\ WF_vars(DecodeEvent)
  /\ WF_vars(PushRow)
  /\ WF_vars(Consume)
  /\ WF_vars(Restart)
  /\ SF_vars(KeepAlive(TRUE))

FairSpec == Spec /\ Fairness

-----------------------------------------------------------------------------
(* The type invariant. *)
TypeOK ==
  /\ wal \in Seq([kind : EventKinds, rel : Rels])
  /\ Len(wal) <= MaxWal
  /\ pos \in Nat
  /\ described \subseteq Rels
  /\ metas \subseteq Rels
  /\ decoded \in 0..Len(wal)
  /\ buffer \in Seq(1..Len(wal))
  /\ Len(buffer) <= PgQueueCapacity
  /\ delivered \subseteq 1..Len(wal)
  /\ slotFlushed \in Nat
  /\ phase \in {"running", "failed", "crashed"}
  /\ restarts \in 0..MaxRestarts

(* The LSNs of the changes the pipeline must carry. *)
Wanted == {p \in 1..Len(wal) : wal[p].kind \in RowKinds /\ wal[p].rel \notin Filtered}

(***************************************************************************)
(* No change is skipped: while the extractor runs, every unfiltered row   *)
(* change after start_sln that the stream has passed has been sunk, is in *)
(* the queue or is being pushed -- across crashes and restarts, which     *)
(* resume at the slot's confirmed LSN (spec section 9: the reply must     *)
(* carry the committed position).                                          *)
(***************************************************************************)
NoChangeSkipped ==
  phase = "running" =>
    \A p \in Wanted :
      StartLsn < p /\ p <= pos =>
        p \in delivered \/ p = decoded \/ \E i \in DOMAIN buffer : buffer[i] = p

(***************************************************************************)
(* Every unfiltered row change after start_sln that the source writes is  *)
(* eventually taken by the pipeline, however the process crashes (a       *)
(* bounded number of times) and wherever the restarted stream resumes.    *)
(***************************************************************************)
Delivered ==
  \A p \in 1..MaxWal : (p \in Wanted /\ StartLsn < p) ~> p \in delivered

(***************************************************************************)
(* Spec section 9: once a change has been sunk, the standby status reply  *)
(* eventually reports it, so that the slot's confirmed flush LSN passes   *)
(* it and the server may recycle its WAL.                                  *)
(***************************************************************************)
SlotAdvances ==
  \A p \in 1..MaxWal : p \in delivered ~> slotFlushed >= p

=============================================================================
