------------------------- MODULE KafkaSinkerProofs -------------------------
(***************************************************************************)
(* Proofs about KafkaSinker, for every batch length, every bound on the   *)
(* attempts and whether or not the Avro conversion may fail: the type     *)
(* invariant, that an Ok of sink_dml means the whole batch is in the      *)
(* topic, written by that call, and that every attempt writes a gap-free  *)
(* prefix of the batch in batch order.                                     *)
(***************************************************************************)
EXTENDS KafkaSinker, FiniteSetTheorems, SequenceTheorems, TLAPS

(* The number of records of attempt a among the first n of s. *)
Count(s, a, n) == Cardinality({y \in 1..n : s[y].att = a})

(* The records of s are in order per attempt (InOrderPerAttempt of s). *)
InOrder(s) == \A x \in 1..Len(s) : s[x].row = Count(s, s[x].att, x - 1) + 1

(***************************************************************************)
(* The inductive invariant.  The second loop starts once every row is     *)
(* converted and ends Ok once every future is awaited; every send of this *)
(* call but a failed one was awaited Ok; the monitor counts the batch     *)
(* only after Ok; the rows awaited Ok are in the topic, written by this   *)
(* call, and are all it wrote unless a send failed after a write.          *)
(***************************************************************************)
KInv ==
  /\ TypeOK
  /\ pc = "start" => converted = 0
  /\ pc = "convert" => converted < batchLen
  /\ pc = "await" => converted = batchLen
  /\ pc = "ok" => awaited = batchLen
  /\ pc # "deliveryError" => dispatched = awaited
  /\ records = IF pc = "ok" THEN batchLen ELSE 0
  /\ \A r \in 1..awaited : \E x \in 1..Len(topic) : topic[x] = Rec(r, attempt)
  /\ pc # "deliveryError" => Count(topic, attempt, Len(topic)) = awaited
  /\ InOrder(topic)

-----------------------------------------------------------------------------
(* Appending to s leaves the records among its first n alone. *)
LEMMA CountAppend ==
  ASSUME NEW S, NEW s \in Seq(S), NEW e \in S, NEW a, NEW n \in 0..Len(s)
  PROVE  Count(Append(s, e), a, n) = Count(s, a, n)
<1>1. {y \in 1..n : Append(s, e)[y].att = a} = {y \in 1..n : s[y].att = a}
  OBVIOUS
<1> QED
  BY <1>1 DEF Count

(* One more record counts one more exactly when it is of attempt a. *)
LEMMA CountStep ==
  ASSUME NEW S, NEW s \in Seq(S), NEW a, NEW n \in Nat, n < Len(s)
  PROVE  Count(s, a, n + 1) = IF s[n + 1].att = a THEN Count(s, a, n) + 1
                                                   ELSE Count(s, a, n)
<1> DEFINE A == {y \in 1..n : s[y].att = a}
<1>1. IsFiniteSet(A) /\ (n + 1) \notin A
  <2>1. IsFiniteSet(1..n)
    BY FS_Interval
  <2>2. A \subseteq 1..n
    OBVIOUS
  <2> QED
    BY <2>1, <2>2, FS_Subset
<1>2. CASE s[n + 1].att = a
  <2>1. {y \in 1..(n + 1) : s[y].att = a} = A \cup {n + 1}
    BY <1>2
  <2> QED
    BY <1>1, <1>2, <2>1, FS_AddElement DEF Count
<1>3. CASE s[n + 1].att # a
  <2>1. {y \in 1..(n + 1) : s[y].att = a} = A
    BY <1>3
  <2> QED
    BY <1>3, <2>1 DEF Count
<1> QED
  BY <1>2, <1>3

(* No record of attempt a among the first n counts zero. *)
LEMMA CountNone ==
  ASSUME NEW s, NEW a, NEW n \in Nat, \A y \in 1..n : s[y].att # a
  PROVE  Count(s, a, n) = 0
<1>1. {y \in 1..n : s[y].att = a} = {}
  OBVIOUS
<1> QED
  BY <1>1, FS_EmptySet DEF Count

(* A topic of an earlier attempt is one of a later attempt. *)
LEMMA TopicGrows ==
  ASSUME NEW R, NEW a \in Nat, NEW t \in Seq([row : R, att : 1..a])
  PROVE  t \in Seq([row : R, att : 1..(a + 1)])
<1>1. [row : R, att : 1..a] \subseteq [row : R, att : 1..(a + 1)]
  OBVIOUS
<1> QED
  BY <1>1, SeqMonotonic

(* Appending a record counts it for its attempt. *)
LEMMA CountAppendLast ==
  ASSUME NEW S, NEW s \in Seq(S), NEW e \in S, NEW a
  PROVE  Count(Append(s, e), a, Len(s) + 1) =
           IF e.att = a THEN Count(s, a, Len(s)) + 1 ELSE Count(s, a, Len(s))
<1> DEFINE t == Append(s, e)
<1>1. t \in Seq(S) /\ Len(s) \in Nat /\ Len(s) < Len(t) /\ t[Len(s) + 1] = e
  OBVIOUS
<1>2. Count(t, a, Len(s) + 1) =
        IF t[Len(s) + 1].att = a THEN Count(t, a, Len(s)) + 1 ELSE Count(t, a, Len(s))
  BY <1>1, CountStep
<1>3. Count(t, a, Len(s)) = Count(s, a, Len(s))
  BY CountAppend
<1> QED
  BY <1>1, <1>2, <1>3

LEMMA InOrderDef ==
  /\ InOrderPerAttempt <=> InOrder(topic)
  /\ InOrderPerAttempt' <=> InOrder(topic')
BY DEF InOrderPerAttempt, InOrder, WrittenBy, Count

(***************************************************************************)
(* A record of the next row of attempt a, appended after all that attempt *)
(* has written, keeps every attempt's records in order, and counts one    *)
(* more for a.                                                             *)
(***************************************************************************)
LEMMA InOrderAppend ==
  ASSUME NEW S, NEW s \in Seq(S), NEW a, NEW k \in Nat,
         [row |-> k + 1, att |-> a] \in S, InOrder(s), Count(s, a, Len(s)) = k
  PROVE  /\ InOrder(Append(s, [row |-> k + 1, att |-> a]))
         /\ Count(Append(s, [row |-> k + 1, att |-> a]), a, Len(s) + 1) = k + 1
<1> DEFINE e == [row |-> k + 1, att |-> a]
           t == Append(s, e)
<1>1. t \in Seq(S) /\ Len(t) = Len(s) + 1 /\ Len(s) \in Nat
  OBVIOUS
<1>2. \A x \in 1..Len(s) : t[x] = s[x]
  OBVIOUS
<1>3. t[Len(s) + 1] = e
  OBVIOUS
<1>4. \A b : \A n \in 0..Len(s) : Count(t, b, n) = Count(s, b, n)
  BY CountAppend
<1>5. Count(t, a, Len(s) + 1) = k + 1
  BY CountAppendLast
<1>6. InOrder(t)
  <2> SUFFICES ASSUME NEW x \in 1..Len(t)
               PROVE  t[x].row = Count(t, t[x].att, x - 1) + 1
    BY DEF InOrder
  <2>1. CASE x \in 1..Len(s)
    <3>1. s[x].row = Count(s, s[x].att, x - 1) + 1
      BY <2>1 DEF InOrder
    <3>2. Count(t, s[x].att, x - 1) = Count(s, s[x].att, x - 1)
      BY <2>1, <1>4
    <3> QED
      BY <2>1, <3>1, <3>2, <1>2
  <2>2. CASE x = Len(s) + 1
    BY <2>2, <1>3, <1>4
  <2> QED
    BY <2>1, <2>2, <1>1
<1> QED
  BY <1>5, <1>6

(* InOrderAppend for the topic and the next row of the current attempt. *)
LEMMA AppendRecord ==
  ASSUME NEW S, awaited \in Nat, topic \in Seq(S),
         [row |-> awaited + 1, att |-> attempt] \in S,
         InOrder(topic), Count(topic, attempt, Len(topic)) = awaited
  PROVE  /\ InOrder(Append(topic, [row |-> awaited + 1, att |-> attempt]))
         /\ Count(Append(topic, [row |-> awaited + 1, att |-> attempt]),
                  attempt, Len(topic) + 1) = awaited + 1
BY InOrderAppend

(* The record the second loop appends keeps the topic in order. *)
LEMMA AppendNext ==
  ASSUME TypeOK, awaited < converted, InOrder(topic),
         Count(topic, attempt, Len(topic)) = awaited
  PROVE  /\ InOrder(Append(topic, Rec(awaited + 1, attempt)))
         /\ Count(Append(topic, Rec(awaited + 1, attempt)), attempt, Len(topic) + 1)
              = awaited + 1
<1>0. awaited \in Nat
  BY KafkaAssumption DEF TypeOK
<1>1. /\ topic \in Seq([row : 1..batchLen, att : 1..attempt])
      /\ [row |-> awaited + 1, att |-> attempt] \in [row : 1..batchLen, att : 1..attempt]
  BY KafkaAssumption DEF TypeOK
<1>2. /\ InOrder(Append(topic, [row |-> awaited + 1, att |-> attempt]))
      /\ Count(Append(topic, [row |-> awaited + 1, att |-> attempt]),
               attempt, Len(topic) + 1) = awaited + 1
  BY <1>0, <1>1, AppendRecord, Zenon
<1> QED
  BY <1>2 DEF Rec

-----------------------------------------------------------------------------
LEMMA InitKInv == Init => KInv
<1> SUFFICES ASSUME Init PROVE KInv
  OBVIOUS
<1>1. Count(topic, attempt, 0) = 0
  BY CountNone DEF Init
<1> QED
  BY <1>1, KafkaAssumption DEF Init, KInv, TypeOK, InOrder

(* The step of each action preserves KInv. *)
LEMMA NextKInv == KInv /\ [Next]_vars => KInv'
<1> SUFFICES ASSUME KInv, [Next]_vars PROVE KInv'
  OBVIOUS
<1>0. /\ TypeOK /\ Len(topic) \in Nat
      /\ {batchLen, converted, awaited, dispatched, attempt} \subseteq Nat
  BY KafkaAssumption DEF KInv, TypeOK
<1>1. CASE SinkDml
  BY <1>0, <1>1, KafkaAssumption DEF SinkDml, KInv, TypeOK
<1>2. CASE ConvertRow
  BY <1>0, <1>2, KafkaAssumption DEF ConvertRow, KInv, TypeOK
<1>3. CASE AwaitFuture
  <2>1. pc = "await" /\ UNCHANGED <<batchLen, converted, attempt>>
    BY <1>3 DEF AwaitFuture
  <2>2. CASE awaited = converted /\ pc' = "ok" /\ UpdateBatchMonitor(batchLen)
             /\ UNCHANGED <<awaited, dispatched, topic>>
    BY <1>0, <2>1, <2>2 DEF UpdateBatchMonitor, KInv, TypeOK
  <2>3. CASE /\ awaited < converted
             /\ dispatched' = dispatched + 1
             /\ topic' = Append(topic, Rec(awaited + 1, attempt))
             /\ UNCHANGED records
    <3> DEFINE e == Rec(awaited + 1, attempt)
               S == [row : 1..batchLen, att : 1..attempt]
    <3>1. topic \in Seq(S) /\ e \in S /\ e = [row |-> awaited + 1, att |-> attempt]
      BY <1>0, <2>1, <2>3 DEF KInv, TypeOK, Rec
    <3>2. Count(topic, attempt, Len(topic)) = awaited /\ InOrder(topic)
      BY <2>1 DEF KInv
    <3>3. InOrder(topic') /\ Count(topic', attempt, Len(topic')) = awaited + 1
      <4>1. Len(topic') = Len(topic) + 1
        BY <2>3, <3>1
      <4> QED
        BY <4>1, <2>3, <2>1, AppendNext DEF KInv
    <3>4. \A r \in 1..(awaited + 1) : \E x \in 1..Len(topic') : topic'[x] = Rec(r, attempt)
      <4> TAKE r \in 1..(awaited + 1)
      <4>1. CASE r \in 1..awaited
        <5>1. PICK x \in 1..Len(topic) : topic[x] = Rec(r, attempt)
          BY <4>1 DEF KInv
        <5> QED
          BY <5>1, <3>1, <2>3
      <4>2. CASE r = awaited + 1
        <5>1. /\ Len(topic) + 1 \in 1..Len(topic')
              /\ topic'[Len(topic) + 1] = Rec(r, attempt)
          BY <4>2, <3>1, <2>3, <1>0
        <5> QED
          BY <5>1
      <4> QED
        BY <4>1, <4>2, <1>0 DEF KInv, TypeOK
    <3>5. \A r \in 1..awaited : \E x \in 1..Len(topic') : topic'[x] = Rec(r, attempt)
      <4> TAKE r \in 1..awaited
      <4>1. r \in 1..(awaited + 1)
        BY <1>0
      <4> QED
        BY <4>1, <3>4
    <3>6. topic' \in Seq(S) /\ dispatched' <= converted
      BY <3>1, <2>3, <2>1 DEF KInv, TypeOK
    <3>7. CASE awaited' = awaited + 1 /\ UNCHANGED pc
      <4>1. TypeOK'
        BY <1>0, <2>1, <2>3, <3>6, <3>7 DEF KInv, TypeOK
      <4>2. dispatched' = awaited' /\ records' = 0
        BY <1>0, <2>1, <2>3, <3>7 DEF KInv
      <4> QED
        BY <4>1, <4>2, <2>1, <3>3, <3>4, <3>7 DEF KInv
    <3>8. CASE pc' = "deliveryError" /\ UNCHANGED awaited
      <4>1. TypeOK'
        BY <1>0, <2>1, <2>3, <3>6, <3>8 DEF KInv, TypeOK
      <4>2. records' = 0
        BY <1>0, <2>1, <2>3 DEF KInv
      <4> QED
        BY <4>1, <4>2, <2>1, <3>3, <3>5, <3>8 DEF KInv
    <3> QED
      BY <1>3, <2>1, <2>3, <3>7, <3>8 DEF AwaitFuture
  <2>4. CASE /\ awaited < converted
             /\ dispatched' = dispatched + 1
             /\ pc' = "deliveryError"
             /\ UNCHANGED <<topic, awaited, records>>
    BY <1>0, <2>1, <2>4 DEF KInv, TypeOK
  <2> QED
    BY <1>3, <2>2, <2>3, <2>4 DEF AwaitFuture
<1>4. CASE Restart
  <2>1. \A y \in 1..Len(topic) : topic[y].att # attempt + 1
    <3> TAKE y \in 1..Len(topic)
    <3>1. topic[y] \in [row : 1..batchLen, att : 1..attempt]
      BY <1>0, ElementOfSeq DEF TypeOK
    <3> QED
      BY <3>1, <1>0 DEF TypeOK
  <2>2. Count(topic, attempt + 1, Len(topic)) = 0
    BY <2>1, <1>0, CountNone
  <2>3. topic \in Seq([row : 1..batchLen, att : 1..(attempt + 1)])
    BY <1>0, TopicGrows DEF TypeOK
  <2>4. topic' = topic /\ attempt' = attempt + 1 /\ pc' = "start" /\ awaited' = 0
    BY <1>4 DEF Restart
  <2>5. InOrder(topic') /\ Count(topic', attempt', Len(topic')) = awaited'
    BY <2>2, <2>4 DEF KInv
  <2>6. TypeOK'
    BY <1>0, <1>4, <2>3, KafkaAssumption DEF Restart, KInv, TypeOK
  <2> QED
    BY <1>4, <2>4, <2>5, <2>6 DEF Restart, KInv
<1>5. CASE UNCHANGED vars
  BY <1>5 DEF vars, KInv, TypeOK, InOrder, Count
<1> QED
  BY <1>1, <1>2, <1>3, <1>4, <1>5 DEF Next

(* The inductive invariant holds in every reachable state of the sinker. *)
THEOREM KInvHolds == Spec => []KInv
BY InitKInv, NextKInv, PTL DEF Spec

(***************************************************************************)
(* Type correctness of the sinker: no attempt converts, sends or awaits   *)
(* more than the batch's rows, and the Records monitor never counts more  *)
(* than the batch.                                                         *)
(***************************************************************************)
THEOREM TypeCorrect == Spec => []TypeOK
<1>1. KInv => TypeOK
  BY DEF KInv
<1> QED
  BY <1>1, KInvHolds, PTL

(***************************************************************************)
(* When sink_dml returns Ok, every row of the batch is in the topic,      *)
(* written by that call: the second loop awaits every future of the       *)
(* first, and an Err anywhere bails before Ok.                             *)
(***************************************************************************)
THEOREM BatchDeliveredHolds == Spec => []BatchDelivered
<1>1. KInv => BatchDelivered
  BY DEF KInv, BatchDelivered
<1> QED
  BY <1>1, KInvHolds, PTL

(***************************************************************************)
(* Every call of sink_dml writes a gap-free prefix of the batch to the    *)
(* topic, in batch order, whatever the delivery errors, lost              *)
(* acknowledgements and restarts before it.                                *)
(***************************************************************************)
THEOREM InOrderPerAttemptHolds == Spec => []InOrderPerAttempt
<1>1. KInv => InOrderPerAttempt
  BY InOrderDef DEF KInv
<1> QED
  BY <1>1, KInvHolds, PTL

=============================================================================
