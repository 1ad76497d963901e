------------------------- MODULE CdcPipelineProofs -------------------------
(***************************************************************************)
(* Proofs about CdcPipeline, for every value of its constants: the type   *)
(* invariant and the invariant that the checkpointed position never       *)
(* passes the received position.  Both rest on the inductive invariant    *)
(* IInv, which records how the positions in the queue and in the drained  *)
(* batch relate to the extractor's cursor and to the syncer.  At the end, *)
(* at-least-once delivery below the checkpoint for a homogeneous source,  *)
(* from IInv and the delivery invariant DInv.                              *)
(***************************************************************************)
EXTENDS CdcPipeline, WellFoundedInduction, TLAPS

USE DriverAssumption, CdcAssumption

(***************************************************************************)
(* The positions of the items of s increase along s: the extractor pushes *)
(* log events in log order and the drain keeps the queue's FIFO order.    *)
(***************************************************************************)
Increasing(s) == \A i, j \in DOMAIN s : i < j => s[i].pos < s[j].pos

(* Every item of s lies after the received position and at most at the   *)
(* cursor.                                                                 *)
Pending(s) == \A i \in DOMAIN s : received < s[i].pos /\ s[i].pos <= cursor

(***************************************************************************)
(* The inductive invariant.  The batch precedes the queue in the log, and *)
(* both lie between the received position and the cursor; the loop's     *)
(* last_commit_position and the checkpoint never pass the received        *)
(* position; a crashed task is one the restart budget still allows.       *)
(***************************************************************************)
IInv ==
  /\ TypeOK
  /\ phase = "crashed" => restarts < MaxRestarts
  /\ Increasing(batch)
  /\ Increasing(buffer)
  /\ \A i \in DOMAIN batch, j \in DOMAIN buffer : batch[i].pos < buffer[j].pos
  /\ Pending(batch)
  /\ Pending(buffer)
  /\ lastCommit <= received
  /\ committed <= received
  /\ received <= cursor

-----------------------------------------------------------------------------
(* LastOf picks the greatest element of a non-empty set of naturals       *)
(* bounded by n.                                                           *)
LEMMA LastOfSpec ==
  ASSUME NEW n \in Nat, NEW S \in SUBSET (1..n), S # {}
  PROVE  /\ LastOf(S) \in S
         /\ \A j \in S : j <= LastOf(S)
<1> DEFINE T == {n - s : s \in S}
<1>1. T \subseteq Nat /\ T # {}
  <2>1. \A s \in S : n - s \in Nat
    OBVIOUS
  <2> QED
    BY <2>1, Zenon DEF T
<1>2. \E x \in T : \A y \in T : ~(<<y, x>> \in OpToRel(<, Nat))
  BY <1>1, NatLessThanWellFounded, WFMin DEF T
<1>3. \E i \in S : \A j \in S : j <= i
  <2>1. PICK x \in T : \A y \in T : ~(<<y, x>> \in OpToRel(<, Nat))
    BY <1>2
  <2>2. PICK i \in S : x = n - i
    BY <2>1 DEF T
  <2>3. \A j \in S : j <= i
    <3> TAKE j \in S
    <3>1. ~(<<n - j, n - i>> \in OpToRel(<, Nat))
      BY <2>1, <2>2 DEF T
    <3>2. n - j \in Nat /\ n - i \in Nat
      OBVIOUS
    <3> QED
      BY <3>1, <3>2 DEF OpToRel
  <2> QED
    BY <2>3
<1> QED
  BY <1>3 DEF LastOf

(* FirstOf picks the least element of a non-empty set of naturals. *)
LEMMA FirstOfSpec ==
  ASSUME NEW S \in SUBSET Nat, S # {}
  PROVE  /\ FirstOf(S) \in S
         /\ \A j \in S : FirstOf(S) <= j
<1>1. \E x \in S : \A y \in S : ~(<<y, x>> \in OpToRel(<, Nat))
  BY NatLessThanWellFounded, WFMin
<1>2. \E i \in S : \A j \in S : i <= j
  <2>1. PICK x \in S : \A y \in S : ~(<<y, x>> \in OpToRel(<, Nat))
    BY <1>1
  <2>2. \A j \in S : x <= j
    <3> TAKE j \in S
    <3>1. ~(<<j, x>> \in OpToRel(<, Nat))
      BY <2>1
    <3> QED
      BY <3>1 DEF OpToRel
  <2> QED
    BY <2>2
<1> QED
  BY <1>2 DEF FirstOf

(***************************************************************************)
(* LastPos(b, K) is None when no item of b has a variant in K, and else   *)
(* the position of the last such item.                                     *)
(***************************************************************************)
LEMMA LastPosSpec ==
  ASSUME NEW P, NEW b \in Seq(Item(P)), NEW K
  PROVE  \/ /\ \A i \in DOMAIN b : b[i].kind \notin K
            /\ LastPos(b, K) = NoPosition
         \/ \E i \in DOMAIN b :
              /\ b[i].kind \in K
              /\ LastPos(b, K) = b[i].pos
              /\ \A j \in DOMAIN b : b[j].kind \in K => j <= i
<1> DEFINE I == {i \in DOMAIN b : b[i].kind \in K}
<1>1. CASE I = {}
  BY <1>1 DEF LastPos
<1>2. CASE I # {}
  <2>1. Len(b) \in Nat /\ I \in SUBSET (1..Len(b))
    OBVIOUS
  <2>2. LastOf(I) \in I /\ \A j \in I : j <= LastOf(I)
    BY <1>2, <2>1, LastOfSpec, Zenon
  <2>3. LastPos(b, K) = b[LastOf(I)].pos
    BY <1>2 DEF LastPos
  <2> QED
    BY <2>2, <2>3
<1> QED
  BY <1>1, <1>2

(* get_sink_method answers one of the three methods. *)
LEMMA SinkMethodType ==
  ASSUME NEW b
  PROVE  SinkMethod(b) \in Methods
BY DEF SinkMethod, Methods

(***************************************************************************)
(* Every variant that sets last_commit_position in a fetch also sets      *)
(* last_received_position: the fact CommittedNotAhead rests on.            *)
(***************************************************************************)
LEMMA CommitKindsReceived ==
  \A m \in Methods : CommitKinds[m] \subseteq ReceivedKinds[m]
BY DEF Methods, CommitKinds, ReceivedKinds

-----------------------------------------------------------------------------
(* The initial state satisfies the inductive invariant. *)
LEMMA InitIInv == Init => IInv
<1> SUFFICES ASSUME Init PROVE IInv
  OBVIOUS
<1>1. shutDown \in BOOLEAN
  BY DEF Init, DriverInit
<1>2. /\ log \in Seq(Kinds) /\ Len(log) <= MaxLog /\ cursor \in 0..Len(log)
      /\ restarts \in 0..MaxRestarts
      /\ buffer \in Seq(Item(1..MaxLog)) /\ Len(buffer) <= QueueCapacity
      /\ batch \in Seq(Item(1..MaxLog))
      /\ phase \in {"idle", "sinking", "crashed", "stopped"}
      /\ delivered \subseteq 1..MaxLog
      /\ {received, committed, lastCommit} \subseteq 0..MaxLog
  BY DEF Init, DriverInit, NoPosition
<1>3. TypeOK
  BY <1>1, <1>2, Zenon DEF TypeOK
<1> QED
  BY <1>3 DEF Init, DriverInit, IInv, Increasing, Pending, NoPosition

(* A source write changes only the log, which it keeps within its bound. *)
LEMMA SourceWriteIInv ==
  ASSUME IInv, NEW k \in Kinds, SourceWrite(k)
  PROVE  IInv'
BY DEF IInv, TypeOK, Increasing, Pending, SourceWrite, driverVars

(* The position of every item of a sequence of items lies in P. *)
LEMMA SeqItemPos ==
  ASSUME NEW P, NEW b \in Seq(Item(P))
  PROVE  \A i \in DOMAIN b : b[i].pos \in P
<1> TAKE i \in DOMAIN b
<1>1. b[i] \in Item(P)
  OBVIOUS
<1> QED
  BY <1>1 DEF Item

(* Under the invariant, the positions of the queue and of the batch are   *)
(* log positions.                                                          *)
LEMMA IInvPos ==
  ASSUME IInv
  PROVE  /\ \A i \in DOMAIN buffer : buffer[i].pos \in 1..MaxLog
         /\ \A i \in DOMAIN batch : batch[i].pos \in 1..MaxLog
BY SeqItemPos DEF IInv, TypeOK

(* Appending an item that follows every item keeps a sequence increasing. *)
LEMMA AppendIncreasing ==
  ASSUME NEW P \in SUBSET Int, NEW s \in Seq(Item(P)), Increasing(s),
         NEW x \in Item(P), \A i \in DOMAIN s : s[i].pos < x.pos
  PROVE  Increasing(Append(s, x))
BY DEF Increasing, Item

(***************************************************************************)
(* The extractor pushes the event after the cursor: it follows every item *)
(* of the batch and of the queue, and the room test keeps the queue        *)
(* within its capacity.                                                    *)
(***************************************************************************)
LEMMA ExtractIInv ==
  ASSUME IInv, Extract
  PROVE  IInv'
<1> DEFINE e == [kind |-> log[cursor + 1], pos |-> cursor + 1]
<1>1. TypeOK'
  BY DEF IInv, TypeOK, Extract, Item, Kinds
<1>2. /\ cursor + 1 \in 1..MaxLog
      /\ log[cursor + 1] \in Kinds
      /\ received < cursor + 1
      /\ buffer' = Append(buffer, e)
  BY DEF IInv, TypeOK, Extract, e
<1>6. e \in Item(1..MaxLog) /\ e.pos = cursor + 1
  BY <1>2 DEF Item, e
<1>7. /\ \A i \in DOMAIN buffer : buffer[i].pos < e.pos
      /\ \A i \in DOMAIN batch : batch[i].pos < e.pos
  BY <1>6, IInvPos DEF IInv, TypeOK, Pending
<1>3. Increasing(buffer')
  BY <1>2, <1>6, <1>7, AppendIncreasing DEF IInv, TypeOK
<1>4. \A i \in DOMAIN batch', j \in DOMAIN buffer' : batch'[i].pos < buffer'[j].pos
  BY <1>2, <1>7 DEF IInv, TypeOK, Extract
<1>8. UNCHANGED <<phase, restarts, lastCommit, committed, received, batch>>
      /\ cursor' = cursor + 1
  BY DEF Extract
<1>5. Pending(batch)'
  BY <1>8, IInvPos DEF IInv, TypeOK, Pending
<1>9. Pending(buffer)'
  <2> SUFFICES ASSUME NEW i \in DOMAIN buffer'
               PROVE  received < buffer'[i].pos /\ buffer'[i].pos <= cursor + 1
    BY <1>8 DEF Pending
  <2>1. CASE i \in DOMAIN buffer
    BY <1>2, <2>1, IInvPos DEF IInv, TypeOK, Pending
  <2>2. CASE i = Len(buffer) + 1
    BY <1>2, <1>6, <2>2 DEF IInv, TypeOK
  <2> QED
    BY <1>2, <2>1, <2>2 DEF IInv, TypeOK
<1>10. Increasing(batch)'
  BY <1>8 DEF IInv, Increasing
<1>11. /\ lastCommit' <= received' /\ committed' <= received'
       /\ received' <= cursor'
       /\ phase' = "crashed" => restarts' < MaxRestarts
  BY <1>8 DEF IInv, TypeOK
<1> QED
  BY <1>1, <1>3, <1>4, <1>5, <1>9, <1>10, <1>11 DEF IInv

(***************************************************************************)
(* A tick either drains nothing or drains the whole queue into the batch: *)
(* the batch inherits the queue's order and bounds.                        *)
(***************************************************************************)
LEMMA TickIInv ==
  ASSUME IInv, NEW e \in BOOLEAN, Tick(e), UNCHANGED <<log, cursor, restarts>>
  PROVE  IInv'
<1>1. UNCHANGED <<delivered, received, committed, lastCommit, shutDown>>
      /\ phase' = "sinking"
  BY DEF Tick
<1>2. /\ lastCommit' <= received' /\ committed' <= received'
      /\ received' <= cursor'
      /\ phase' = "crashed" => restarts' < MaxRestarts
  BY <1>1 DEF IInv, TypeOK
<1>3. CASE ~e /\ Len(buffer) < QueueCapacity
  <2>1. batch' = <<>> /\ buffer' = buffer
    BY <1>3 DEF Tick
  <2>2. TypeOK'
    BY <1>1, <2>1 DEF IInv, TypeOK
  <2> QED
    BY <1>1, <1>2, <2>1, <2>2 DEF IInv, Increasing, Pending
<1>4. CASE ~(~e /\ Len(buffer) < QueueCapacity)
  <2>1. batch' = buffer /\ buffer' = <<>>
    BY <1>4 DEF Tick
  <2>2. TypeOK'
    BY <1>1, <2>1 DEF IInv, TypeOK
  <2> QED
    BY <1>1, <1>2, <2>1, <2>2 DEF IInv, Increasing, Pending
<1> QED
  BY <1>3, <1>4

(***************************************************************************)
(* The payload a fetch hands to the sinkers holds positions of the batch. *)
(***************************************************************************)
LEMMA PayloadPos ==
  ASSUME NEW P, NEW b \in Seq(Item(P)), NEW m
  PROVE  Payload(b, m) \subseteq P
BY SeqItemPos DEF Payload

(***************************************************************************)
(* A successful sink.  The received position moves to the last item of    *)
(* the batch that fetch_* counts as received, or stays; the commit         *)
(* position, when the batch has one, is that of an item no later than it, *)
(* because every variant that sets last_commit_position also sets          *)
(* last_received_position and positions increase along the batch.         *)
(***************************************************************************)
LEMMA SinkIInv ==
  ASSUME IInv, NEW c \in BOOLEAN, Sink(c), UNCHANGED <<log, cursor, restarts>>
  PROVE  IInv' /\ received <= received'
<1> DEFINE m  == SinkMethod(batch)
<1> DEFINE r  == LastPos(batch, ReceivedKinds[m])
<1> DEFINE cm == LastPos(batch, CommitKinds[m])
<1> DEFINE lc == IF cm = NoPosition THEN lastCommit ELSE cm
<1>1. /\ delivered' = delivered \cup Payload(batch, m)
      /\ received' = IF r = NoPosition THEN received ELSE r
      /\ lastCommit' = lc
      /\ committed' = IF c /\ lc # NoPosition THEN lc ELSE committed
      /\ batch' = <<>> /\ phase' = "idle"
      /\ UNCHANGED <<buffer, shutDown>>
  BY DEF Sink, RecordCheckpoint, m, r, cm, lc
<1>2. /\ batch \in Seq(Item(1..MaxLog))
      /\ \A i \in DOMAIN batch : batch[i].pos \in 1..MaxLog
      /\ CommitKinds[m] \subseteq ReceivedKinds[m]
  BY IInvPos, SinkMethodType, CommitKindsReceived DEF IInv, TypeOK
(* The received position: it only moves forward, stays at most the       *)
(* cursor and stays before every item of the queue.                        *)
<1>3. /\ received' \in 0..MaxLog
      /\ received <= received'
      /\ received' <= cursor
      /\ \A j \in DOMAIN buffer : received' < buffer[j].pos
  <2>1. CASE /\ \A i \in DOMAIN batch : batch[i].kind \notin ReceivedKinds[m]
             /\ r = NoPosition
    BY <1>1, <2>1, IInvPos DEF IInv, TypeOK, Pending
  <2>2. CASE \E i \in DOMAIN batch : /\ batch[i].kind \in ReceivedKinds[m]
                                      /\ r = batch[i].pos
    <3>a. PICK i \in DOMAIN batch : r = batch[i].pos
      BY <2>2
    <3>b. r \in 1..MaxLog /\ received' = r
      BY <1>1, <1>2, <3>a DEF NoPosition
    <3> QED
      BY <1>2, <3>a, <3>b, IInvPos DEF IInv, TypeOK, Pending
  <2> QED
    BY <1>2, <2>1, <2>2, LastPosSpec
(* The loop's commit position never passes the new received position. *)
<1>4. lc \in 0..MaxLog /\ lc <= received'
  <2>1. CASE cm = NoPosition
    BY <1>3, <2>1 DEF IInv, TypeOK, lc
  <2>2. CASE cm # NoPosition
    <3>a. PICK ic \in DOMAIN batch : /\ batch[ic].kind \in CommitKinds[m]
                                     /\ cm = batch[ic].pos
      BY <1>2, <2>2, LastPosSpec
    <3>b. PICK ir \in DOMAIN batch :
            /\ batch[ir].kind \in ReceivedKinds[m]
            /\ r = batch[ir].pos
            /\ \A j \in DOMAIN batch : batch[j].kind \in ReceivedKinds[m] => j <= ir
      BY <1>2, <3>a, LastPosSpec
    <3>c. ic <= ir
      BY <1>2, <3>a, <3>b
    <3>d. cm <= r
      BY <1>2, <3>a, <3>b, <3>c DEF IInv, Increasing
    <3>e. r # NoPosition /\ received' = r
      BY <1>1, <1>2, <3>b DEF NoPosition
    <3> QED
      BY <1>2, <2>2, <3>a, <3>d, <3>e DEF lc
  <2> QED
    BY <2>1, <2>2
<1>5. TypeOK'
  <2>1. delivered' \subseteq 1..MaxLog
    BY <1>1, <1>2, PayloadPos DEF IInv, TypeOK
  <2>2. committed' \in 0..MaxLog
    BY <1>1, <1>4 DEF IInv, TypeOK
  <2> QED
    BY <1>1, <1>3, <1>4, <2>1, <2>2 DEF IInv, TypeOK
<1>6. committed' <= received'
  BY <1>1, <1>3, <1>4 DEF IInv, TypeOK
<1> QED
  BY <1>1, <1>3, <1>4, <1>5, <1>6 DEF IInv, TypeOK, Increasing, Pending

(***************************************************************************)
(* A failing sink only adds to what was delivered and marks the task       *)
(* crashed, which Next allows while the restart budget lasts.              *)
(***************************************************************************)
LEMMA SinkFailIInv ==
  ASSUME IInv, restarts < MaxRestarts, SinkFail,
         UNCHANGED <<log, cursor, restarts>>
  PROVE  IInv'
<1>1. /\ UNCHANGED <<buffer, batch, received, committed, lastCommit, shutDown>>
      /\ phase' = "crashed"
      /\ delivered' \subseteq delivered \cup Payload(batch, SinkMethod(batch))
  BY DEF SinkFail
<1>2. delivered' \subseteq 1..MaxLog
  BY <1>1, PayloadPos DEF IInv, TypeOK
<1>3. TypeOK'
  BY <1>1, <1>2 DEF IInv, TypeOK
<1> QED
  BY <1>1, <1>3 DEF IInv, Increasing, Pending

(***************************************************************************)
(* The restart empties the queue and the batch and rewinds the cursor and *)
(* the received position to the checkpoint, which is at most the cursor.  *)
(***************************************************************************)
LEMMA RestartIInv ==
  ASSUME IInv, Restart
  PROVE  IInv'
<1>1. /\ buffer' = <<>> /\ batch' = <<>> /\ phase' = "idle"
      /\ cursor' = committed /\ received' = committed /\ lastCommit' = 0
      /\ restarts' = restarts + 1 /\ restarts < MaxRestarts
      /\ UNCHANGED <<delivered, committed, shutDown, log>>
  BY DEF Restart, IInv, NoPosition
<1>2. TypeOK'
  BY <1>1 DEF IInv, TypeOK
<1> QED
  BY <1>1, <1>2 DEF IInv, TypeOK, Increasing, Pending

(* A stuttering step leaves the invariant as it is. *)
LEMMA StutterIInv ==
  ASSUME IInv, UNCHANGED vars
  PROVE  IInv'
BY DEF vars, driverVars, IInv, TypeOK, Increasing, Pending

-----------------------------------------------------------------------------
(* Every step of the pipeline preserves the inductive invariant. *)
LEMMA NextIInv ==
  ASSUME IInv, [Next]_vars
  PROVE  IInv'
<1>1. CASE \E k \in Kinds : SourceWrite(k)
  BY <1>1, SourceWriteIInv
<1>2. CASE Extract
  BY <1>2, ExtractIInv
<1>3. CASE \E e \in BOOLEAN : Tick(e) /\ UNCHANGED <<log, cursor, restarts>>
  BY <1>3, TickIInv
<1>4. CASE \E c \in BOOLEAN : Sink(c) /\ UNCHANGED <<log, cursor, restarts>>
  BY <1>4, SinkIInv
<1>5. CASE restarts < MaxRestarts /\ SinkFail /\ UNCHANGED <<log, cursor, restarts>>
  BY <1>5, SinkFailIInv
<1>6. CASE Restart
  BY <1>6, RestartIInv
<1>7. CASE UNCHANGED vars
  BY <1>7, StutterIInv
<1> QED
  BY <1>1, <1>2, <1>3, <1>4, <1>5, <1>6, <1>7 DEF Next

(* IInv holds in every reachable state, whatever the constants. *)
THEOREM IInvHolds == Spec => []IInv
BY InitIInv, NextIInv, PTL DEF Spec

(***************************************************************************)
(* Type correctness of the pipeline: the queue never exceeds its capacity *)
(* and every position the driver and the syncer hold is a log position.   *)
(***************************************************************************)
THEOREM TypeCorrect == Spec => []TypeOK
<1>1. IInv => TypeOK
  BY DEF IInv
<1> QED
  BY <1>1, IInvHolds, PTL

(***************************************************************************)
(* The checkpointed position never passes the received position, for     *)
(* every queue capacity, interval, source and restart budget: the         *)
(* record_checkpoint of base_pipeline.rs only commits a position that     *)
(* fetch_* has also received.                                              *)
(***************************************************************************)
THEOREM CommittedNotAheadHolds == Spec => []CommittedNotAhead
<1>1. IInv => CommittedNotAhead
  BY DEF IInv, CommittedNotAhead
<1> QED
  BY <1>1, IInvHolds, PTL

(* No step but a restart moves the received position backwards. *)
LEMMA NextReceived ==
  ASSUME IInv, [Next]_vars
  PROVE  [phase # "crashed" => received' >= received]_vars
<1>1. received \in Nat
  BY DEF IInv, TypeOK
<1>2. CASE \E c \in BOOLEAN : Sink(c) /\ UNCHANGED <<log, cursor, restarts>>
  <2>1. PICK c \in BOOLEAN : Sink(c) /\ UNCHANGED <<log, cursor, restarts>>
    BY <1>2
  <2> QED
    BY <1>1, <2>1, SinkIInv
<1>3. CASE Restart
  BY <1>3 DEF Restart
<1>4. CASE ~(\E c \in BOOLEAN : Sink(c) /\ UNCHANGED <<log, cursor, restarts>>)
           /\ ~Restart
  <2>1. received' = received
    BY <1>4 DEF Next, SourceWrite, Extract, Tick, SinkFail, vars, driverVars
  <2> QED
    BY <1>1, <2>1
<1> QED
  BY <1>2, <1>3, <1>4

(***************************************************************************)
(* ReceivedMonotone for every value of the constants: no step of the      *)
(* driver moves the syncer's received position backwards; only the        *)
(* restart of a crashed task rewinds it, to the checkpoint.                *)
(***************************************************************************)
THEOREM ReceivedMonotoneHolds == Spec => ReceivedMonotone
BY NextReceived, IInvHolds, PTL DEF Spec, ReceivedMonotone

-----------------------------------------------------------------------------
(***************************************************************************)
(* At-least-once delivery below the checkpoint holds for a source whose   *)
(* transactions carry one kind of payload: a DML-only or a DDL-only        *)
(* relational source, or a Redis source.  The cdc_mixed_ddl_dml run shows *)
(* it failing for a source that mixes DDL and DML.                         *)
(***************************************************************************)
Homogeneous == PayloadKinds \in {{"Dml"}, {"Ddl"}} \/ RedisSource

(* The variants a source appends to its log. *)
SourceKinds == PayloadKinds \cup {"Begin", "Commit"}

(* Some item of s is the event at log position p. *)
Holds(s, p) == \E i \in DOMAIN s : s[i].pos = p

(* Every item of s carries the variant of its log event. *)
Faithful(s) == \A i \in DOMAIN s : s[i].kind = log[s[i].pos]

(***************************************************************************)
(* The invariant of delivery: every payload the extractor has read and    *)
(* that is neither in the drained batch nor in the queue has reached a    *)
(* sinker.  A batch exists only while the driver is in a tick.            *)
(***************************************************************************)
DInv ==
  /\ phase = "idle" => batch = <<>>
  /\ \A p \in 1..Len(log) : log[p] \in SourceKinds
  /\ Faithful(batch)
  /\ Faithful(buffer)
  /\ \A p \in 1..cursor :
       log[p] \in MustDeliver /\ ~Holds(batch, p) /\ ~Holds(buffer, p) => p \in delivered


(***************************************************************************)
(* For a homogeneous source, get_sink_method picks a method whose fetch_* *)
(* keeps every payload of the batch that must reach a sinker: the first   *)
(* payload of the batch has the kind of all the others.                    *)
(***************************************************************************)
LEMMA HomogeneousKept ==
  ASSUME Homogeneous, NEW P, NEW b \in Seq(Item(P)),
         \A i \in DOMAIN b : b[i].kind \in SourceKinds,
         NEW i \in DOMAIN b, b[i].kind \in MustDeliver
  PROVE  b[i].pos \in Payload(b, SinkMethod(b))
<1> DEFINE Q == {j \in DOMAIN b : b[j].kind \notin {"Begin", "Commit"}}
           f == FirstOf(Q)
<1>1. i \in Q /\ Q \in SUBSET Nat
  BY DEF MustDeliver
<1>2. f \in Q
  BY <1>1, FirstOfSpec
<1>3. b[f].kind \in PayloadKinds /\ b[i].kind \in PayloadKinds
  BY <1>1, <1>2 DEF SourceKinds, MustDeliver
<1>4. b[i].kind \in Kept[SinkMethod(b)]
  <2>1. CASE PayloadKinds = {"Dml"}
    <3>1. SinkMethod(b) = "Dml"
      BY <1>1, <1>3, <2>1 DEF SinkMethod
    <3> QED
      BY <1>3, <2>1, <3>1 DEF Kept
  <2>2. CASE PayloadKinds = {"Ddl"}
    <3>1. SinkMethod(b) = "Ddl"
      BY <1>1, <1>3, <2>2 DEF SinkMethod
    <3> QED
      BY <1>3, <2>2, <3>1 DEF Kept
  <2>3. CASE RedisSource
    <3>1. SinkMethod(b) = "Raw"
      BY <1>1, <1>3, <2>3 DEF SinkMethod, RedisSource
    <3> QED
      BY <1>3, <2>3, <3>1 DEF Kept, RedisSource, MustDeliver
  <2> QED
    BY <2>1, <2>2, <2>3 DEF Homogeneous
<1> QED
  BY <1>4 DEF Payload


(* Every variant a source may write next is one of its variants. *)
LEMMA NextKindsSource ==
  ASSUME NEW l
  PROVE  NextKinds(l) \subseteq SourceKinds
BY Zenon DEF NextKinds, SourceKinds

(* The initial state has read nothing and holds nothing. *)
LEMMA InitDInv == Init => DInv
BY DEF Init, DriverInit, DInv, Faithful, Holds

(***************************************************************************)
(* A source write appends to the log a variant of the source's; every     *)
(* position the extractor has read, and so every item held, keeps its     *)
(* event.                                                                  *)
(***************************************************************************)
LEMMA SourceWriteDInv ==
  ASSUME IInv, DInv, NEW k \in Kinds, SourceWrite(k)
  PROVE  DInv'
<1>1. /\ log' = Append(log, k) /\ k \in SourceKinds
      /\ UNCHANGED <<buffer, batch, phase, delivered, received, cursor>>
  BY NextKindsSource DEF SourceWrite, driverVars
<1>2. \A p \in 1..cursor : log'[p] = log[p]
  BY <1>1 DEF IInv, TypeOK
<1>3. \A p \in 1..Len(log') : log'[p] \in SourceKinds
  BY <1>1 DEF IInv, TypeOK, DInv
<1>4. \A s \in {batch, buffer} : \A i \in DOMAIN s : s[i].pos \in 1..cursor
  BY IInvPos DEF IInv, Pending
<1>5. Faithful(batch)' /\ Faithful(buffer)'
  <2>1. Faithful(batch)'
    BY <1>1, <1>2, <1>4 DEF DInv, Faithful
  <2>2. Faithful(buffer)'
    BY <1>1, <1>2, <1>4 DEF DInv, Faithful
  <2> QED
    BY <2>1, <2>2
<1> QED
  BY <1>1, <1>2, <1>3, <1>5 DEF DInv, Holds

(***************************************************************************)
(* The extractor reads the event after the cursor into the queue, with    *)
(* its variant: the newly read position is held by the queue.             *)
(***************************************************************************)
LEMMA ExtractDInv ==
  ASSUME IInv, DInv, Extract
  PROVE  DInv'
<1> DEFINE e == [kind |-> log[cursor + 1], pos |-> cursor + 1]
<1>1. /\ buffer' = Append(buffer, e) /\ cursor' = cursor + 1
      /\ UNCHANGED <<batch, phase, delivered, log>>
      /\ buffer \in Seq(Item(1..MaxLog))
  BY DEF Extract, IInv, TypeOK
<1>2. /\ \A i \in DOMAIN buffer : buffer'[i] = buffer[i]
      /\ DOMAIN buffer' = DOMAIN buffer \cup {Len(buffer) + 1}
      /\ buffer'[Len(buffer) + 1] = e
  BY <1>1
<1>3. Faithful(buffer)'
  BY <1>1, <1>2 DEF DInv, Faithful
<1>4. \A p \in 1..cursor' :
        log'[p] \in MustDeliver /\ ~Holds(batch, p)' /\ ~Holds(buffer, p)'
          => p \in delivered'
  <2> SUFFICES ASSUME NEW p \in 1..cursor + 1, log[p] \in MustDeliver,
                      ~Holds(batch, p)', ~Holds(buffer, p)'
               PROVE  p \in delivered
    BY <1>1
  <2>1. p # cursor + 1
    BY <1>2 DEF Holds
  <2>2. ~Holds(batch, p) /\ ~Holds(buffer, p)
    BY <1>1, <1>2 DEF Holds
  <2> QED
    BY <2>1, <2>2 DEF DInv, IInv, TypeOK
<1> QED
  BY <1>1, <1>3, <1>4 DEF DInv, Faithful

(***************************************************************************)
(* A tick at the loop head, where the batch is empty, drains nothing or   *)
(* moves the whole queue into the batch.                                   *)
(***************************************************************************)
LEMMA TickDInv ==
  ASSUME IInv, DInv, NEW e \in BOOLEAN, Tick(e), UNCHANGED <<log, cursor, restarts>>
  PROVE  DInv'
<1>1. /\ batch = <<>> /\ phase' = "sinking" /\ UNCHANGED delivered
      /\ \/ batch' = <<>> /\ buffer' = buffer
         \/ batch' = buffer /\ buffer' = <<>>
  BY DEF Tick, DInv
<1>2. \A p : Holds(batch, p)' \/ Holds(buffer, p)' <=> Holds(buffer, p)
  BY <1>1 DEF Holds
<1>3. Faithful(batch)' /\ Faithful(buffer)'
  BY <1>1 DEF DInv, Faithful
<1> QED
  BY <1>1, <1>2, <1>3 DEF DInv, Holds

(***************************************************************************)
(* A successful sink: fetch_* of a homogeneous source keeps every payload *)
(* of the batch that must be delivered, so what leaves the batch reaches  *)
(* a sinker.                                                               *)
(***************************************************************************)
LEMMA SinkDInv ==
  ASSUME Homogeneous, IInv, DInv, NEW c \in BOOLEAN, Sink(c),
         UNCHANGED <<log, cursor, restarts>>
  PROVE  DInv'
<1>1. /\ delivered' = delivered \cup Payload(batch, SinkMethod(batch))
      /\ batch' = <<>> /\ phase' = "idle" /\ UNCHANGED buffer
  BY DEF Sink
<1>2. batch \in Seq(Item(1..MaxLog))
  BY DEF IInv, TypeOK
<1>3. \A i \in DOMAIN batch : batch[i].pos \in 1..Len(log)
  BY <1>2, SeqItemPos DEF IInv, TypeOK, Pending
<1>4. \A i \in DOMAIN batch : batch[i].kind \in SourceKinds
  BY <1>3 DEF DInv, Faithful
<1>5. \A p \in 1..cursor :
        log[p] \in MustDeliver /\ ~Holds(buffer, p) => p \in delivered'
  <2> SUFFICES ASSUME NEW p \in 1..cursor, log[p] \in MustDeliver,
                      ~Holds(buffer, p)
               PROVE  p \in delivered'
    OBVIOUS
  <2>1. CASE ~Holds(batch, p)
    BY <1>1, <2>1 DEF DInv
  <2>2. CASE Holds(batch, p)
    <3>1. PICK i \in DOMAIN batch : batch[i].pos = p
      BY <2>2 DEF Holds
    <3>2. batch[i].kind \in MustDeliver
      BY <3>1 DEF DInv, Faithful
    <3>3. batch[i].pos \in Payload(batch, SinkMethod(batch))
      BY <1>2, <1>4, <3>2, HomogeneousKept
    <3> QED
      BY <1>1, <3>1, <3>3
  <2> QED
    BY <2>1, <2>2
<1> QED
  BY <1>1, <1>5 DEF DInv, Faithful, Holds

(* A failing sink crashes the task: it holds what it held and only adds   *)
(* to what was delivered.                                                  *)
LEMMA SinkFailDInv ==
  ASSUME DInv, SinkFail, UNCHANGED <<log, cursor, restarts>>
  PROVE  DInv'
<1>1. /\ UNCHANGED <<buffer, batch>> /\ phase' = "crashed"
      /\ delivered \subseteq delivered'
  BY DEF SinkFail
<1> QED
  BY <1>1 DEF DInv, Faithful, Holds

(***************************************************************************)
(* The restart drops the queue and the batch and rewinds the cursor to    *)
(* the checkpoint: every item held lay after the received position, so    *)
(* every payload up to the checkpoint was already delivered.              *)
(***************************************************************************)
LEMMA RestartDInv ==
  ASSUME IInv, DInv, Restart
  PROVE  DInv'
<1>1. /\ buffer' = <<>> /\ batch' = <<>> /\ phase' = "idle"
      /\ cursor' = committed
      /\ UNCHANGED <<delivered, log>>
  BY DEF Restart
<1>2. \A p \in 1..committed : ~Holds(batch, p) /\ ~Holds(buffer, p)
  BY DEF IInv, Pending, Holds, TypeOK
<1>3. \A p \in 1..committed :
        log[p] \in MustDeliver => p \in delivered
  BY <1>2 DEF DInv, IInv, TypeOK
<1> QED
  BY <1>1, <1>3 DEF DInv, Faithful, Holds

(* A stuttering step leaves the delivery invariant as it is. *)
LEMMA StutterDInv ==
  ASSUME DInv, UNCHANGED vars
  PROVE  DInv'
BY DEF vars, driverVars, DInv, Faithful, Holds

(* Every step of a homogeneous pipeline preserves the delivery invariant. *)
LEMMA NextDInv ==
  ASSUME Homogeneous, IInv, DInv, [Next]_vars
  PROVE  DInv'
<1>1. CASE \E k \in Kinds : SourceWrite(k)
  BY <1>1, SourceWriteDInv
<1>2. CASE Extract
  BY <1>2, ExtractDInv
<1>3. CASE \E e \in BOOLEAN : Tick(e) /\ UNCHANGED <<log, cursor, restarts>>
  BY <1>3, TickDInv
<1>4. CASE \E c \in BOOLEAN : Sink(c) /\ UNCHANGED <<log, cursor, restarts>>
  BY <1>4, SinkDInv
<1>5. CASE restarts < MaxRestarts /\ SinkFail /\ UNCHANGED <<log, cursor, restarts>>
  BY <1>5, SinkFailDInv
<1>6. CASE Restart
  BY <1>6, RestartDInv
<1>7. CASE UNCHANGED vars
  BY <1>7, StutterDInv
<1> QED
  BY <1>1, <1>2, <1>3, <1>4, <1>5, <1>6, <1>7 DEF Next

(***************************************************************************)
(* At-least-once delivery for every queue capacity, interval and restart  *)
(* budget, for a DML-only, a DDL-only or a Redis source: every payload up *)
(* to the checkpoint of base_pipeline.rs has reached a sinker, so the     *)
(* restart from the checkpoint loses nothing.                              *)
(***************************************************************************)
THEOREM CommittedDeliveredHolds ==
  ASSUME Homogeneous
  PROVE  Spec => []CommittedDelivered
<1>1. Init => IInv /\ DInv
  BY InitIInv, InitDInv
<1>2. IInv /\ DInv /\ [Next]_vars => IInv' /\ DInv'
  BY NextIInv, NextDInv
<1>3. IInv /\ DInv => CommittedDelivered
  <2> SUFFICES ASSUME IInv, DInv, NEW p \in 1..committed, log[p] \in MustDeliver
               PROVE  p \in delivered
    BY DEF CommittedDelivered
  <2>1. ~Holds(batch, p) /\ ~Holds(buffer, p)
    BY DEF IInv, Pending, Holds, TypeOK
  <2> QED
    BY <2>1 DEF DInv, IInv, TypeOK
<1> QED
  BY <1>1, <1>2, <1>3, PTL DEF Spec

=============================================================================
