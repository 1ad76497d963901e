------------------------ MODULE PgCdcExtractorProofs ------------------------
(***************************************************************************)
(* Proofs about PgCdcExtractor, for every value of its constants: the     *)
(* type invariant, that the extractor never meets an OID its meta manager *)
(* does not know, and -- when the hard-coded reply LSN lies at or before  *)
(* start_sln -- that no unfiltered change is skipped across crashes and   *)
(* restarts.                                                               *)
(***************************************************************************)
EXTENDS PgCdcExtractor, SequenceTheorems, TLAPS

USE PgAssumption

(***************************************************************************)
(* The invariant that holds for every reply LSN.  The server describes a  *)
(* relation only through decode_relation, which stores its meta, and a    *)
(* restart empties both; a crashed task is one the restart budget still   *)
(* allows.                                                                 *)
(***************************************************************************)
TInv ==
  /\ TypeOK
  /\ phase = "crashed" => restarts < MaxRestarts
  /\ described \subseteq metas
  /\ phase # "failed"

(***************************************************************************)
(* The inductive invariant of NoChangeSkipped: the slot's confirmed LSN   *)
(* never passes start_sln, so that every restart resumes at start_sln,    *)
(* and the stream is never past the WAL except where it started, so that  *)
(* a change the source appends lies after the stream's position.           *)
(***************************************************************************)
IInv ==
  /\ TInv
  /\ slotFlushed <= StartLsn
  /\ pos <= Len(wal) \/ pos = StartLsn
  /\ NoChangeSkipped

-----------------------------------------------------------------------------
(* Appending to the WAL keeps every sequence of its LSNs one. *)
LEMMA SeqOfLsnGrows ==
  ASSUME NEW n \in Nat, NEW s \in Seq(1..n)
  PROVE  s \in Seq(1..(n + 1))
<1>1. \A i \in 1..Len(s) : s[i] \in 1..(n + 1)
  OBVIOUS
<1> QED
  BY <1>1

(* Every event of a well-typed WAL is a record of a kind and a relation. *)
LEMMA WalEntry ==
  ASSUME TypeOK, NEW i \in 1..Len(wal)
  PROVE  wal[i].kind \in EventKinds /\ wal[i].rel \in Rels
<1>1. wal[i] \in [kind : EventKinds, rel : Rels]
  BY ElementOfSeq DEF TypeOK
<1> QED
  BY <1>1, Zenon

LEMMA InitTInv == Init => TInv
BY DEF Init, TInv, TypeOK

(* The step of each action preserves TInv. *)
LEMMA NextTInv == TInv /\ [Next]_vars => TInv'
<1> SUFFICES ASSUME TInv, [Next]_vars PROVE TInv'
  OBVIOUS
<1>1. CASE \E k \in EventKinds, r \in Rels : SourceWrite(k, r)
  <2>1. PICK k \in EventKinds, r \in Rels : SourceWrite(k, r)
    BY <1>1
  <2>2. Len(wal') = Len(wal) + 1 /\ Len(wal) \in Nat
    BY <2>1 DEF SourceWrite, TInv, TypeOK
  <2>3. wal' \in Seq([kind : EventKinds, rel : Rels]) /\ Len(wal') <= MaxWal
    BY <2>1 DEF SourceWrite, TInv, TypeOK
  <2>4. buffer' \in Seq(1..Len(wal'))
    BY <2>1, <2>2, SeqOfLsnGrows DEF SourceWrite, TInv, TypeOK
  <2> QED
    BY <2>1, <2>2, <2>3, <2>4 DEF SourceWrite, TInv, TypeOK
<1>2. CASE DecodeRelation
  <2>1. pos + 1 \in 1..Len(wal)
    BY <1>2 DEF DecodeRelation, NeedsRelation, TInv, TypeOK
  <2>2. NextEvent.rel \in Rels
    BY <2>1, WalEntry DEF NextEvent, TInv
  <2> QED
    BY <1>2, <2>2 DEF DecodeRelation, TInv, TypeOK
<1>3. CASE DecodeEvent
  <2>1. pos + 1 \in 1..Len(wal) /\ pos' = pos + 1
    BY <1>3 DEF DecodeEvent, TInv, TypeOK
  <2>2. wal[pos + 1].kind \in EventKinds /\ wal[pos + 1].rel \in Rels
    BY <2>1, WalEntry DEF TInv
  <2>3. wal[pos + 1].kind \in RowKinds => wal[pos + 1].rel \in metas
    BY <1>3, <2>1 DEF DecodeEvent, NeedsRelation, NextEvent, TInv
  <2>4. CASE wal[pos + 1].kind \in RowKinds
    <3>1. DecodeRow(pos + 1)
      BY <1>3, <2>4 DEF DecodeEvent, NextEvent
    <3>2. decoded' \in 0..Len(wal) /\ phase' = phase
      BY <3>1, <2>1, <2>3, <2>4 DEF DecodeRow, TInv, TypeOK
    <3> QED
      BY <1>3, <2>1, <3>2 DEF DecodeEvent, TInv, TypeOK
  <2>5. CASE wal[pos + 1].kind \notin RowKinds
    BY <1>3, <2>1, <2>5 DEF DecodeEvent, NextEvent, TInv, TypeOK
  <2> QED
    BY <2>4, <2>5
<1>4. CASE PushRow
  <2>1. decoded \in 1..Len(wal) /\ Len(buffer) < PgQueueCapacity
    BY <1>4 DEF PushRow, TInv, TypeOK
  <2>2. buffer' \in Seq(1..Len(wal)) /\ Len(buffer') <= PgQueueCapacity
    BY <1>4, <2>1 DEF PushRow, TInv, TypeOK
  <2> QED
    BY <1>4, <2>2 DEF PushRow, TInv, TypeOK
<1>5. CASE \E reply \in BOOLEAN : KeepAlive(reply)
  BY <1>5 DEF KeepAlive, TInv, TypeOK
<1>6. CASE Consume
  <2>1. buffer # <<>> /\ buffer \in Seq(1..Len(wal))
    BY <1>6 DEF Consume, TInv, TypeOK
  <2>2. /\ Head(buffer) \in 1..Len(wal)
        /\ Tail(buffer) \in Seq(1..Len(wal))
        /\ Len(Tail(buffer)) < Len(buffer)
    BY <2>1, HeadTailProperties
  <2>3. wal' = wal /\ delivered' = delivered \cup {Head(buffer)} /\ buffer' = Tail(buffer)
    BY <1>6 DEF Consume
  <2>4. delivered' \subseteq 1..Len(wal')
    BY <2>2, <2>3 DEF TInv, TypeOK
  <2>5. buffer' \in Seq(1..Len(wal')) /\ Len(buffer') <= PgQueueCapacity
    BY <2>2, <2>3 DEF TInv, TypeOK
  <2> QED
    BY <1>6, <2>4, <2>5 DEF Consume, TInv, TypeOK
<1>7. CASE Crash
  BY <1>7 DEF Crash, TInv, TypeOK
<1>8. CASE Restart
  BY <1>8 DEF Restart, TInv, TypeOK
<1>9. CASE UNCHANGED vars
  BY <1>9 DEF vars, TInv, TypeOK
<1> QED
  BY <1>1, <1>2, <1>3, <1>4, <1>5, <1>6, <1>7, <1>8, <1>9 DEF Next

THEOREM TInvHolds == Spec => []TInv
BY InitTInv, NextTInv, PTL DEF Spec

(***************************************************************************)
(* Type correctness of the extractor: the queue never exceeds its         *)
(* capacity, and every LSN it holds is one of the WAL.                     *)
(***************************************************************************)
THEOREM TypeCorrect == Spec => []TypeOK
<1>1. TInv => TypeOK
  BY DEF TInv
<1> QED
  BY <1>1, TInvHolds, PTL

-----------------------------------------------------------------------------
(* The change at LSN p is accounted for: sunk, being pushed or queued. *)
Held(p) == p \in delivered \/ p = decoded \/ \E i \in DOMAIN buffer : buffer[i] = p

LEMMA InitIInv == Init => IInv
<1> SUFFICES ASSUME Init PROVE IInv
  OBVIOUS
<1>1. TInv
  BY InitTInv
<1>2. NoChangeSkipped
  BY DEF Init, NoChangeSkipped, Wanted
<1> QED
  BY <1>1, <1>2 DEF Init, IInv

(***************************************************************************)
(* Each step keeps every wanted change the stream has passed accounted    *)
(* for, provided the reply LSN never takes the slot past start_sln.        *)
(***************************************************************************)
LEMMA NextIInv ==
  ASSUME HardCodedLsn <= StartLsn, IInv, [Next]_vars
  PROVE  IInv'
<1>1. TInv'
  BY NextTInv DEF IInv
<1>2. TypeOK /\ pos \in Nat /\ slotFlushed \in Nat
  BY DEF IInv, TInv, TypeOK
<1>3. slotFlushed' <= StartLsn /\ (pos' <= Len(wal') \/ pos' = StartLsn)
  <2>1. slotFlushed <= StartLsn /\ (pos <= Len(wal) \/ pos = StartLsn)
    BY DEF IInv
  <2>2. CASE \E k \in EventKinds, r \in Rels : SourceWrite(k, r)
    <3>1. PICK k \in EventKinds, r \in Rels : SourceWrite(k, r)
      BY <2>2
    <3>2. Len(wal') = Len(wal) + 1
      BY <3>1, <1>2 DEF SourceWrite, TypeOK
    <3> QED
      BY <3>1, <3>2, <2>1, <1>2 DEF SourceWrite
  <2>3. CASE DecodeRelation
    BY <2>3, <2>1 DEF DecodeRelation
  <2>4. CASE DecodeEvent
    BY <2>4, <2>1, <1>2 DEF DecodeEvent
  <2>5. CASE PushRow
    BY <2>5, <2>1 DEF PushRow
  <2>6. CASE \E reply \in BOOLEAN : KeepAlive(reply)
    BY <2>6, <2>1, <1>2 DEF KeepAlive
  <2>7. CASE Consume
    BY <2>7, <2>1 DEF Consume
  <2>8. CASE Crash
    BY <2>8, <2>1 DEF Crash
  <2>9. CASE Restart
    BY <2>9, <2>1, <1>2 DEF Restart
  <2>10. CASE UNCHANGED vars
    BY <2>10, <2>1 DEF vars
  <2> QED
    BY <2>2, <2>3, <2>4, <2>5, <2>6, <2>7, <2>8, <2>9, <2>10 DEF Next
<1>5. NoChangeSkipped'
  <2> SUFFICES ASSUME phase' = "running", NEW p \in Wanted',
                      StartLsn < p, p <= pos'
               PROVE  Held(p)'
    BY DEF NoChangeSkipped, Held
  <2>1. ASSUME NEW q \in Wanted, phase = "running", StartLsn < q, q <= pos
        PROVE  Held(q)
    BY <2>1 DEF IInv, NoChangeSkipped, Held
  <2>2. CASE \E k \in EventKinds, r \in Rels : SourceWrite(k, r)
    <3>1. PICK k \in EventKinds, r \in Rels : SourceWrite(k, r)
      BY <2>2
    <3>2. p \in 1..Len(wal)
      BY <3>1, <1>2 DEF SourceWrite, Wanted, IInv, TypeOK
    <3>3. p \in Wanted
      BY <3>1, <3>2 DEF SourceWrite, Wanted
    <3> QED
      BY <3>1, <3>3, <2>1 DEF SourceWrite, Held
  <2>3. CASE DecodeRelation
    BY <2>3, <2>1 DEF DecodeRelation, Wanted, Held
  <2>4. CASE DecodeEvent
    <3>1. pos' = pos + 1 /\ pos + 1 \in 1..Len(wal) /\ wal' = wal
          /\ UNCHANGED <<buffer, delivered, phase>>
      BY <2>4, <1>2 DEF DecodeEvent
    <3>2. CASE p <= pos
      <4>1. p \in Wanted
        BY <3>1 DEF Wanted
      <4> QED
        BY <3>1, <3>2, <4>1, <2>1, <2>4 DEF DecodeEvent, Held
    <3>3. CASE p = pos + 1
      <4>1. wal[p].kind \in RowKinds /\ wal[p].rel \notin Filtered
        BY <3>1, <3>3 DEF Wanted
      <4>2. wal[p].rel \in metas
        BY <2>4, <3>3, <4>1 DEF DecodeEvent, NeedsRelation, NextEvent, IInv, TInv
      <4>3. DecodeRow(p)
        BY <2>4, <3>3, <4>1 DEF DecodeEvent, NextEvent
      <4>4. decoded' = p
        BY <4>1, <4>2, <4>3 DEF DecodeRow
      <4> QED
        BY <4>4 DEF Held
    <3>4. p \in Nat
      BY <3>1 DEF Wanted
    <3> QED
      BY <3>1, <3>2, <3>3, <3>4, <1>2
  <2>5. CASE PushRow
    <3>1. p \in Wanted /\ phase = "running" /\ p <= pos
      BY <2>5 DEF PushRow, Wanted
    <3>2. Held(p)
      BY <3>1, <2>1
    <3>3. buffer \in Seq(1..Len(wal)) /\ buffer' = Append(buffer, decoded)
      BY <2>5, <1>2 DEF PushRow, TypeOK
    <3>4. \A i \in DOMAIN buffer : buffer'[i] = buffer[i]
      BY <3>3
    <3>5. buffer'[Len(buffer) + 1] = decoded /\ Len(buffer) + 1 \in DOMAIN buffer'
      BY <3>3
    <3>6. DOMAIN buffer \subseteq DOMAIN buffer'
      BY <3>3
    <3> QED
      BY <2>5, <3>2, <3>4, <3>5, <3>6 DEF PushRow, Held
  <2>6. CASE \E reply \in BOOLEAN : KeepAlive(reply)
    BY <2>6, <2>1 DEF KeepAlive, Wanted, Held
  <2>7. CASE Consume
    <3>1. p \in Wanted /\ phase = "running" /\ p <= pos
      BY <2>7 DEF Consume, Wanted
    <3>2. Held(p)
      BY <3>1, <2>1
    <3>3. buffer \in Seq(1..Len(wal)) /\ buffer # <<>>
          /\ buffer' = Tail(buffer) /\ delivered' = delivered \cup {Head(buffer)}
      BY <2>7, <1>2 DEF Consume, TypeOK
    <3>4. ASSUME NEW i \in DOMAIN buffer, buffer[i] = p
          PROVE  Held(p)'
      <4>1. CASE i = 1
        BY <3>3, <3>4, <4>1 DEF Held
      <4>2. CASE i > 1
        <5>1. i - 1 \in DOMAIN buffer' /\ buffer'[i - 1] = p
          BY <3>3, <3>4, <4>2
        <5> QED
          BY <5>1 DEF Held
      <4> QED
        BY <4>1, <4>2, <3>3
    <3> QED
      BY <2>7, <3>2, <3>3, <3>4 DEF Consume, Held
  <2>8. CASE Crash
    BY <2>8 DEF Crash
  <2>9. CASE Restart
    <3>1. slotFlushed <= StartLsn
      BY DEF IInv
    <3>2. pos' = StartLsn
      BY <2>9, <3>1, <1>2 DEF Restart
    <3>3. p \in Nat
      BY DEF Wanted
    <3> QED
      BY <3>2, <3>3
  <2>10. CASE UNCHANGED vars
    BY <2>10, <2>1 DEF vars, Wanted, Held
  <2> QED
    BY <2>2, <2>3, <2>4, <2>5, <2>6, <2>7, <2>8, <2>9, <2>10 DEF Next
<1> QED
  BY <1>1, <1>3, <1>5 DEF IInv

(***************************************************************************)
(* No unfiltered change after start_sln is skipped, for every WAL, queue  *)
(* capacity, filter and restart budget, as long as the LSN the keepalive  *)
(* reply hard-codes lies at or before start_sln: every restart then       *)
(* resumes the stream at start_sln, so a change the crash took out of the *)
(* queue is streamed again.  The run pg_lsn_hardcoded shows the converse. *)
(***************************************************************************)
THEOREM NoChangeSkippedHolds ==
  ASSUME HardCodedLsn <= StartLsn
  PROVE  Spec => []NoChangeSkipped
<1>1. IInv /\ [Next]_vars => IInv'
  BY NextIInv
<1>2. IInv => NoChangeSkipped
  BY DEF IInv
<1> QED
  BY InitIInv, <1>1, <1>2, PTL DEF Spec

=============================================================================
