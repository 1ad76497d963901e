----------------------- MODULE StarRocksSinkerProofs -----------------------
(***************************************************************************)
(* Proofs about StarRocksSinker: the type invariant for every value of the *)
(* constants; the loads taken in batch order and every row loaded by Ok   *)
(* when batch_size is positive; no unwrap panic, the target right on Ok   *)
(* and the refinement of SinkContract for batches of one row type.         *)
(***************************************************************************)
EXTENDS StarRocksSinker, SequenceTheorems, WellFoundedInduction, TLAPS

(* Some row of s names key k. *)
Names(s, k) == \E i \in DOMAIN s : s[i].key = k

(* The last row of s naming k is not a Delete. *)
LastKept(s, k) ==
  \E i \in DOMAIN s :
     /\ s[i].key = k
     /\ s[i].type # "Delete"
     /\ \A j \in DOMAIN s : j > i => s[j].key # k

(* A batch of Inputs is a sequence of rows. *)
LEMMA InputsSeq ==
  ASSUME NEW s \in Inputs
  PROVE  /\ s \in Seq(Row)
         /\ Len(s) \in 0..MaxRows
<1>1. PICK n \in 0..MaxRows : s \in [1..n -> Row]
  BY DEF Inputs
<1>2. s \in Seq(Row) /\ Len(s) = n
  BY <1>1, StarRocksAssumption
<1> QED
  BY <1>1, <1>2

(* ApplyRows key by key. *)
LEMMA ApplyRowsAt ==
  ASSUME NEW t, NEW s, NEW k \in Keys
  PROVE  ApplyRows(t, s)[k] = IF Names(s, k) THEN LastKept(s, k) ELSE t[k]
BY DEF ApplyRows, Names, LastKept

(* Two results of ApplyRows are equal when they agree on every key. *)
LEMMA ApplyRowsExt ==
  ASSUME NEW t1, NEW s1, NEW t2, NEW s2,
         \A k \in Keys : ApplyRows(t1, s1)[k] = ApplyRows(t2, s2)[k]
  PROVE  ApplyRows(t1, s1) = ApplyRows(t2, s2)
BY DEF ApplyRows

(* A non-empty set of indices bounded by n has a greatest element. *)
LEMMA MaxIndex ==
  ASSUME NEW n \in Nat, NEW S \in SUBSET (1..n), S # {}
  PROVE  \E i \in S : \A j \in S : j <= i
<1> DEFINE T == {n - s : s \in S}
<1>1. T \subseteq Nat /\ T # {}
  <2>1. \A s \in S : n - s \in Nat
    OBVIOUS
  <2> QED
    BY <2>1, Zenon DEF T
<1>2. PICK x \in T : \A y \in T : ~(<<y, x>> \in OpToRel(<, Nat))
  BY <1>1, NatLessThanWellFounded, WFMin DEF T
<1>3. PICK i \in S : x = n - i
  BY <1>2 DEF T
<1>4. \A j \in S : j <= i
  <2> TAKE j \in S
  <2>1. ~(<<n - j, n - i>> \in OpToRel(<, Nat))
    BY <1>2, <1>3 DEF T
  <2>2. n - j \in Nat /\ n - i \in Nat
    OBVIOUS
  <2> QED
    BY <2>1, <2>2 DEF OpToRel
<1> QED
  BY <1>4

(***************************************************************************)
(* A stream load of a window whose rows are all Deletes (del) or all not  *)
(* Deletes (~del) has the effect of the window's rows applied one by one. *)
(***************************************************************************)
LEMMA StreamLoadHomogeneous ==
  ASSUME NEW t \in [Keys -> BOOLEAN], NEW W \in Seq(Row), NEW del \in BOOLEAN,
         \A i \in DOMAIN W : (W[i].type = "Delete") = del
  PROVE  StreamLoad(t, W, del) = ApplyRows(t, W)
<1> SUFFICES ASSUME NEW k \in Keys
             PROVE  StreamLoad(t, W, del)[k] = ApplyRows(t, W)[k]
  BY DEF StreamLoad, ApplyRows
<1>1. CASE ~Names(W, k)
  BY <1>1, ApplyRowsAt DEF StreamLoad, Names
<1>2. CASE Names(W, k)
  <2>1. StreamLoad(t, W, del)[k] = ~del
    BY <1>2 DEF StreamLoad, Names
  <2>2. ApplyRows(t, W)[k] = LastKept(W, k)
    BY <1>2, ApplyRowsAt
  <2>3. CASE del
    <3>1. ~LastKept(W, k)
      BY <2>3 DEF LastKept
    <3>2. StreamLoad(t, W, del)[k] = FALSE
      BY <2>1, <2>3
    <3>3. ApplyRows(t, W)[k] = FALSE
      BY <2>2, <3>1
    <3> QED
      BY <3>2, <3>3
  <2>4. CASE ~del
    <3> DEFINE S == {i \in DOMAIN W : W[i].key = k}
    <3>1. Len(W) \in Nat /\ DOMAIN W = 1..Len(W)
      BY LenProperties
    <3>2. S \in SUBSET (1..Len(W)) /\ S # {}
      BY <1>2, <3>1 DEF Names
    <3>3. PICK i \in S : \A j \in S : j <= i
      BY <3>1, <3>2, MaxIndex
    <3>4. LastKept(W, k)
      <4>1. \A j \in DOMAIN W : j > i => W[j].key # k
        BY <3>1, <3>3
      <4>2. W[i].type # "Delete"
        BY <2>4
      <4> QED
        BY <4>1, <4>2 DEF LastKept
    <3> QED
      BY <2>1, <2>2, <2>4, <3>4
  <2> QED
    BY <2>3, <2>4
<1> QED
  BY <1>1, <1>2

(***************************************************************************)
(* Applying the rows 1..a of d and then the rows a+1..b is applying the   *)
(* rows 1..b: the load of the next window continues the row-by-row        *)
(* application of the batch.                                               *)
(***************************************************************************)
LEMMA ApplyRowsConcat ==
  ASSUME NEW t \in [Keys -> BOOLEAN], NEW d \in Seq(Row),
         NEW a \in 0..Len(d), NEW b \in a..Len(d)
  PROVE  ApplyRows(ApplyRows(t, SubSeq(d, 1, a)), SubSeq(d, a + 1, b))
           = ApplyRows(t, SubSeq(d, 1, b))
<1> DEFINE P == SubSeq(d, 1, a)
           Q == SubSeq(d, a + 1, b)
           R == SubSeq(d, 1, b)
<1>0. Len(d) \in Nat /\ a \in Nat /\ b \in Nat
  BY LenProperties
<1>1. /\ DOMAIN P = 1..a /\ \A i \in 1..a : P[i] = d[i]
      /\ DOMAIN Q = 1..(b - a) /\ \A i \in 1..(b - a) : Q[i] = d[a + i]
      /\ DOMAIN R = 1..b /\ \A i \in 1..b : R[i] = d[i]
  BY <1>0
<1> SUFFICES ASSUME NEW k \in Keys
             PROVE  ApplyRows(ApplyRows(t, P), Q)[k] = ApplyRows(t, R)[k]
  BY ApplyRowsExt
<1>2. ApplyRows(ApplyRows(t, P), Q)[k]
        = IF Names(Q, k) THEN LastKept(Q, k) ELSE ApplyRows(t, P)[k]
  BY ApplyRowsAt
<1>3. ApplyRows(t, P)[k] = IF Names(P, k) THEN LastKept(P, k) ELSE t[k]
  BY ApplyRowsAt
<1>4. ApplyRows(t, R)[k] = IF Names(R, k) THEN LastKept(R, k) ELSE t[k]
  BY ApplyRowsAt
<1>5. CASE Names(Q, k)
  <2>1. Names(R, k)
    <3>1. PICK i \in 1..(b - a) : Q[i].key = k
      BY <1>1, <1>5 DEF Names
    <3>2. a + i \in 1..b /\ R[a + i].key = k
      BY <1>0, <1>1, <3>1
    <3> QED
      BY <1>1, <3>2 DEF Names
  <2>2. LastKept(Q, k) => LastKept(R, k)
    <3> HAVE LastKept(Q, k)
    <3>1. PICK i \in 1..(b - a) :
            /\ Q[i].key = k /\ Q[i].type # "Delete"
            /\ \A j \in 1..(b - a) : j > i => Q[j].key # k
      BY <1>1 DEF LastKept
    <3>2. \A j \in 1..b : j > a + i => R[j].key # k
      <4> TAKE j \in 1..b
      <4>1. j > a + i => j - a \in 1..(b - a) /\ j - a > i /\ Q[j - a] = R[j]
        BY <1>0, <1>1
      <4> QED
        BY <3>1, <4>1
    <3>3. a + i \in 1..b /\ R[a + i] = Q[i]
      BY <1>0, <1>1
    <3> QED
      BY <1>1, <3>1, <3>2, <3>3 DEF LastKept
  <2>3. LastKept(R, k) => LastKept(Q, k)
    <3> HAVE LastKept(R, k)
    <3>1. PICK i \in 1..b :
            /\ R[i].key = k /\ R[i].type # "Delete"
            /\ \A j \in 1..b : j > i => R[j].key # k
      BY <1>1 DEF LastKept
    <3>2. PICK i0 \in 1..(b - a) : Q[i0].key = k
      BY <1>1, <1>5 DEF Names
    <3>3. i > a
      BY <1>0, <1>1, <3>1, <3>2
    <3>4. i - a \in 1..(b - a) /\ Q[i - a] = R[i]
      BY <1>0, <1>1, <3>3
    <3>5. \A j \in 1..(b - a) : j > i - a => Q[j].key # k
      BY <1>0, <1>1, <3>1
    <3> QED
      BY <1>1, <3>1, <3>4, <3>5 DEF LastKept
  <2>4. ApplyRows(ApplyRows(t, P), Q)[k] = LastKept(Q, k)
    BY <1>2, <1>5
  <2>5. ApplyRows(t, R)[k] = LastKept(R, k)
    BY <1>4, <2>1
  <2>6. CASE LastKept(Q, k)
    <3>1. ApplyRows(ApplyRows(t, P), Q)[k] = TRUE /\ ApplyRows(t, R)[k] = TRUE
      BY <2>2, <2>4, <2>5, <2>6
    <3> QED
      BY <3>1
  <2>7. CASE ~LastKept(Q, k)
    <3>1. ApplyRows(ApplyRows(t, P), Q)[k] = FALSE /\ ApplyRows(t, R)[k] = FALSE
      BY <2>3, <2>4, <2>5, <2>7
    <3> QED
      BY <3>1
  <2> QED
    BY <2>6, <2>7
<1>6. CASE ~Names(Q, k)
  <2>1. \A i \in 1..b : R[i].key = k => i <= a
    <3> TAKE i \in 1..b
    <3> SUFFICES ASSUME R[i].key = k, i > a PROVE FALSE
      BY <1>0
    <3>1. i - a \in DOMAIN Q /\ Q[i - a] = R[i]
      BY <1>0, <1>1
    <3>2. Names(Q, k)
      BY <3>1 DEF Names
    <3> QED
      BY <1>6, <3>2
  <2>2. Names(R, k) <=> Names(P, k)
    BY <1>0, <1>1, <2>1 DEF Names
  <2>3. LastKept(R, k) <=> LastKept(P, k)
    <3>1. LastKept(P, k) => LastKept(R, k)
      <4> HAVE LastKept(P, k)
      <4>1. PICK i \in 1..a :
              /\ P[i].key = k /\ P[i].type # "Delete"
              /\ \A j \in 1..a : j > i => P[j].key # k
        BY <1>1 DEF LastKept
      <4>2. \A j \in 1..b : j > i => R[j].key # k
        BY <1>0, <1>1, <2>1, <4>1
      <4> QED
        BY <1>0, <1>1, <4>1, <4>2 DEF LastKept
    <3>2. LastKept(R, k) => LastKept(P, k)
      <4> HAVE LastKept(R, k)
      <4>1. PICK i \in 1..b :
              /\ R[i].key = k /\ R[i].type # "Delete"
              /\ \A j \in 1..b : j > i => R[j].key # k
        BY <1>1 DEF LastKept
      <4>2. i \in 1..a
        BY <1>0, <2>1, <4>1
      <4>3. \A j \in 1..a : j > i => P[j].key # k
        BY <1>0, <1>1, <4>1
      <4> QED
        BY <1>1, <4>1, <4>2, <4>3 DEF LastKept
    <3> QED
      BY <3>1, <3>2
  <2>4. ApplyRows(ApplyRows(t, P), Q)[k] = ApplyRows(t, P)[k]
    BY <1>2, <1>6
  <2>5. CASE Names(P, k)
    <3>1. ApplyRows(t, P)[k] = LastKept(P, k)
      BY <1>3, <2>5
    <3>2. ApplyRows(t, R)[k] = LastKept(R, k)
      BY <1>4, <2>2, <2>5
    <3>3. CASE LastKept(P, k)
      <4>1. ApplyRows(t, P)[k] = TRUE /\ ApplyRows(t, R)[k] = TRUE
        BY <2>3, <3>1, <3>2, <3>3
      <4> QED
        BY <2>4, <4>1
    <3>4. CASE ~LastKept(P, k)
      <4>1. ApplyRows(t, P)[k] = FALSE /\ ApplyRows(t, R)[k] = FALSE
        BY <2>3, <3>1, <3>2, <3>4
      <4> QED
        BY <2>4, <4>1
    <3> QED
      BY <3>3, <3>4
  <2>6. CASE ~Names(P, k)
    BY <1>3, <1>4, <2>2, <2>4, <2>6
  <2> QED
    BY <2>5, <2>6
<1> QED
  BY <1>5, <1>6

(* Appending the indices of the next window to 1..n gives 1..n+m. *)
LEMMA AppendIndices ==
  ASSUME NEW n \in Nat, NEW m \in Nat
  PROVE  [i \in 1..n |-> i] \o [i \in 1..m |-> (n + 1) + i - 1]
           = [i \in 1..(n + m) |-> i]
<1> DEFINE u == [i \in 1..n |-> i]
           v == [i \in 1..m |-> (n + 1) + i - 1]
<1>1. u \in Seq(Nat) /\ Len(u) = n /\ v \in Seq(Nat) /\ Len(v) = m
  OBVIOUS
<1>2. /\ Len(u \o v) = n + m
      /\ \A i \in 1..(n + m) : (u \o v)[i] = IF i <= n THEN u[i] ELSE v[i - n]
  BY <1>1, ConcatProperties
<1>3. u \o v \in Seq(Nat)
  BY <1>1, ConcatProperties
<1>4. DOMAIN (u \o v) = 1..(n + m)
  BY <1>2, <1>3, LenProperties
<1>5. \A i \in 1..(n + m) : (u \o v)[i] = i
  BY <1>2
<1> QED
  BY <1>4, <1>5, <1>3

(***************************************************************************)
(* SubSeq(d, 1, Len(d)) is d: the whole batch is the rows 1..Len(d).       *)
(***************************************************************************)
LEMMA SubSeqWhole ==
  ASSUME NEW d \in Seq(Row)
  PROVE  SubSeq(d, 1, Len(d)) = d
<1>1. Len(d) \in Nat /\ DOMAIN d = 1..Len(d)
  BY LenProperties
<1>2. /\ SubSeq(d, 1, Len(d)) \in Seq(Row)
      /\ Len(SubSeq(d, 1, Len(d))) = Len(d)
      /\ \A i \in 1..Len(d) : SubSeq(d, 1, Len(d))[i] = d[i]
  BY <1>1, SubSeqProperties
<1> QED
  BY <1>1, <1>2, LenProperties

(* The window of size z after the first s rows of d. *)
LEMMA WindowFacts ==
  ASSUME NEW d \in Seq(Row), NEW s \in Nat, NEW z \in 1..(Len(d) - s)
  PROVE  /\ (s + 1) + z - 1 = s + z
         /\ SubSeq(d, s + 1, s + z) \in Seq(Row)
         /\ Len(SubSeq(d, s + 1, s + z)) = z
         /\ DOMAIN SubSeq(d, s + 1, s + z) = 1..z
         /\ \A i \in 1..z : SubSeq(d, s + 1, s + z)[i] = d[s + i]
<1>1. Len(d) \in Nat /\ d \in [1..Len(d) -> Row]
  BY LenProperties
<1>2. \A i \in (s + 1)..(s + z) : d[i] \in Row
  BY <1>1
<1>3. /\ SubSeq(d, s + 1, s + z) \in Seq(Row)
      /\ Len(SubSeq(d, s + 1, s + z)) = z
      /\ \A i \in 1..z : SubSeq(d, s + 1, s + z)[i] = d[s + i]
  BY <1>1, <1>2, SubSeqProperties
<1> QED
  BY <1>3, LenProperties

-----------------------------------------------------------------------------
(***************************************************************************)
(* The inductive invariant behind the type invariant and the loads' order:*)
(* the loaded rows are 1..Len(loaded), a prefix of the sent rows, all of   *)
(* them while the call runs; the serial loop starts with Records at 0; the *)
(* batched loop runs only on a non-empty batch opening with an Insert or a *)
(* Delete.                                                                  *)
(***************************************************************************)
GInv ==
  /\ TypeOK
  /\ initial \in [Keys -> BOOLEAN]
  /\ records <= sent
  /\ loaded = [i \in 1..Len(loaded) |-> i]
  /\ Len(loaded) <= sent
  /\ pc \in {"start", "batch", "serial", "done"} => Len(loaded) = sent
  /\ pc = "start" => sent = 0 /\ records = 0
  /\ pc = "serial" => records = 0
  /\ pc = "batch" => data # <<>> /\ data[1].type \in {"Insert", "Delete"}

(* The three outcomes of send_data: an unwrap panic, the load applied (and *)
(* its response checked or lost), the load failed.                         *)
LEMMA SendDataSteps ==
  ASSUME NEW start, NEW size, NEW cont, SendData(start, size, cont)
  PROVE  LET W   == SubSeq(data, start, start + size - 1)
             del == data[start].type = "Delete"
         IN  \/ /\ pc' = "unwrapNone" /\ UNCHANGED <<target, loaded>>
                /\ \E i \in DOMAIN W : ~HasImage(W[i], del)
             \/ /\ pc' \in {cont, "httpError"}
                /\ target' = StreamLoad(target, W, del)
                /\ loaded' = loaded \o [i \in 1..Len(W) |-> start + i - 1]
             \/ pc' = "httpError" /\ UNCHANGED <<target, loaded>>
BY DEF SendData, StreamLoadRequest

(***************************************************************************)
(* send_data on the next size rows, in a state of GInv where the call     *)
(* runs: the loaded rows become 1..sent+size exactly when the window's     *)
(* load reaches the target.                                                *)
(***************************************************************************)
LEMMA WindowStep ==
  ASSUME GInv, pc \in {"batch", "serial"}, NEW size \in 1..(Len(data) - sent),
         NEW cont, SendData(sent + 1, size, cont)
  PROVE  \/ /\ pc' = "unwrapNone" /\ UNCHANGED <<target, loaded>>
            /\ \E i \in 1..size :
                 ~HasImage(data[sent + i], data[sent + 1].type = "Delete")
         \/ /\ pc' \in {cont, "httpError"}
            /\ target' = StreamLoad(target, SubSeq(data, sent + 1, sent + size),
                                    data[sent + 1].type = "Delete")
            /\ loaded' = [i \in 1..(sent + size) |-> i]
         \/ pc' = "httpError" /\ UNCHANGED <<target, loaded>>
<1>0. data \in Inputs
  BY DEF GInv, TypeOK
<1>1. data \in Seq(Row) /\ sent \in Nat /\ loaded = [i \in 1..sent |-> i]
  <2>1. data \in Seq(Row)
    BY <1>0, InputsSeq
  <2>2. sent \in Nat /\ Len(loaded) = sent /\ loaded = [i \in 1..Len(loaded) |-> i]
    BY <2>1, LenProperties DEF GInv, TypeOK
  <2> QED
    BY <2>1, <2>2
<1> DEFINE W == SubSeq(data, sent + 1, sent + size)
<1>2. /\ (sent + 1) + size - 1 = sent + size
      /\ Len(W) = size /\ DOMAIN W = 1..size
      /\ \A i \in 1..size : W[i] = data[sent + i]
  <2>1. (sent + 1) + size - 1 = sent + size
    BY <1>1
  <2>2. /\ Len(W) = size /\ DOMAIN W = 1..size
        /\ \A i \in 1..size : W[i] = data[sent + i]
    <3>1. size \in 1..(Len(data) - sent)
      OBVIOUS
    <3> QED
      BY <1>1, <3>1, WindowFacts
  <2> QED
    BY <2>1, <2>2
<1>3. loaded \o [i \in 1..Len(W) |-> (sent + 1) + i - 1]
        = [i \in 1..(sent + size) |-> i]
  BY <1>1, <1>2, AppendIndices
<1>4. \/ /\ pc' = "unwrapNone" /\ UNCHANGED <<target, loaded>>
         /\ \E i \in DOMAIN W : ~HasImage(W[i], data[sent + 1].type = "Delete")
      \/ /\ pc' \in {cont, "httpError"}
         /\ target' = StreamLoad(target, W, data[sent + 1].type = "Delete")
         /\ loaded' = loaded \o [i \in 1..Len(W) |-> (sent + 1) + i - 1]
      \/ pc' = "httpError" /\ UNCHANGED <<target, loaded>>
  BY <1>2, SendDataSteps
<1> QED
  BY <1>2, <1>3, <1>4

(* Every initial state satisfies GInv. *)
LEMMA InitGInv == Init => GInv
<1> SUFFICES ASSUME Init PROVE GInv
  OBVIOUS
<1>1. data \in Seq(Row) /\ Len(data) \in Nat
  BY InputsSeq, LenProperties DEF Init
<1>2. loaded = [i \in 1..Len(loaded) |-> i] /\ loaded \in Seq(1..Len(data))
  BY DEF Init
<1> QED
  BY <1>1, <1>2, StarRocksAssumption DEF Init, GInv, TypeOK

(* The indices 1..n, n <= Len(data), are a sequence of rows of data. *)
LEMMA IndicesSeq ==
  ASSUME NEW n \in Nat, NEW m \in Nat, n <= m
  PROVE  /\ [i \in 1..n |-> i] \in Seq(1..m)
         /\ Len([i \in 1..n |-> i]) = n
OBVIOUS

(* The facts of GInv every step proof starts from. *)
LEMMA GInvFacts ==
  ASSUME GInv
  PROVE  /\ data \in Seq(Row) /\ Len(data) \in Nat
         /\ sent \in 0..Len(data) /\ records \in 0..Len(data)
         /\ Len(loaded) \in Nat
<1>1. data \in Seq(Row)
  <2>1. data \in Inputs
    BY DEF GInv, TypeOK
  <2> QED
    BY <2>1, InputsSeq
<1>2. loaded \in Seq(1..Len(data))
  BY DEF GInv, TypeOK
<1> QED
  BY <1>1, <1>2, LenProperties DEF GInv, TypeOK

(* sink_dml's dispatch keeps GInv. *)
LEMMA SinkDmlGInv ==
  ASSUME GInv, SinkDml
  PROVE  GInv'
<1>1. pc = "start" /\ sent = 0 /\ records = 0 /\ Len(loaded) = 0
  BY DEF SinkDml, GInv
<1>2. pc' \in {"done", "batch", "serial"}
  BY DEF SinkDml
<1>3. pc' = "batch" => data # <<>> /\ data[1].type \in {"Insert", "Delete"}
  BY DEF SinkDml
<1> QED
  BY <1>1, <1>2, <1>3 DEF SinkDml, GInv, TypeOK

(* One pass of call_batch_fn's loop keeps GInv. *)
LEMMA BatchStepGInv ==
  ASSUME GInv, BatchStep
  PROVE  GInv'
<1>0. /\ data \in Seq(Row) /\ Len(data) \in Nat
      /\ sent \in 0..Len(data) /\ records \in 0..Len(data)
  BY GInvFacts
<1>1. pc = "batch" /\ Len(loaded) = sent /\ records <= sent
      /\ UNCHANGED <<data, batch, initial>>
  BY DEF BatchStep, GInv
<1> DEFINE size == IF Len(data) - sent < BatchSize THEN Len(data) - sent
                                                   ELSE BatchSize
<1>2. size \in 0..(Len(data) - sent)
  BY <1>0, StarRocksAssumption
<1>3. CASE /\ size = 0 /\ pc' = "done"
           /\ UNCHANGED <<sent, target, loaded, records>>
  BY <1>1, <1>3 DEF GInv, TypeOK
<1>4. CASE /\ size > 0 /\ BatchSink(sent + 1, size)
           /\ sent' = sent + size
  <2>1. size \in 1..(Len(data) - sent)
    BY <1>2, <1>4
  <2>2. SendData(sent + 1, size, "batch")
    BY <1>4 DEF BatchSink
  <2>3. records' = IF pc' = "batch" THEN records + size ELSE records
    BY <1>4 DEF BatchSink, UpdateBatchMonitor
  <2>4. \/ /\ pc' = "unwrapNone" /\ UNCHANGED <<target, loaded>>
        \/ /\ pc' \in {"batch", "httpError"}
           /\ target' = StreamLoad(target, SubSeq(data, sent + 1, sent + size),
                                   data[sent + 1].type = "Delete")
           /\ loaded' = [i \in 1..(sent + size) |-> i]
        \/ pc' = "httpError" /\ UNCHANGED <<target, loaded>>
    BY <1>1, <2>1, <2>2, WindowStep
  <2>5. /\ [i \in 1..(sent + size) |-> i] \in Seq(1..Len(data))
        /\ Len([i \in 1..(sent + size) |-> i]) = sent + size
    BY <1>0, <2>1, IndicesSeq
  <2>6. target \in [Keys -> BOOLEAN] => StreamLoad(target, SubSeq(data, sent + 1, sent + size),
                                     data[sent + 1].type = "Delete") \in [Keys -> BOOLEAN]
    BY DEF StreamLoad
  <2>7. records' \in 0..Len(data) /\ records' <= sent'
    BY <1>0, <1>1, <1>4, <2>1, <2>3
  <2>8. CASE UNCHANGED <<target, loaded>> /\ pc' \in {"unwrapNone", "httpError"}
    BY <1>0, <1>1, <1>4, <2>1, <2>7, <2>8 DEF GInv, TypeOK
  <2>9. CASE /\ pc' \in {"batch", "httpError"}
             /\ target' = StreamLoad(target, SubSeq(data, sent + 1, sent + size),
                                     data[sent + 1].type = "Delete")
             /\ loaded' = [i \in 1..(sent + size) |-> i]
    <3>1. TypeOK'
      <4>1. data' \in Inputs /\ batch' \in BOOLEAN /\ target \in [Keys -> BOOLEAN]
        BY <1>1 DEF GInv, TypeOK
      <4>2. target' \in [Keys -> BOOLEAN]
        BY <2>6, <2>9, <4>1
      <4>3. sent' \in 0..Len(data') /\ loaded' \in Seq(1..Len(data'))
        BY <1>0, <1>1, <1>4, <2>1, <2>5, <2>9
      <4>4. pc' \in {"start", "batch", "serial", "done", "unwrapNone", "httpError"}
        BY <2>9
      <4> QED
        BY <1>1, <2>7, <4>1, <4>2, <4>3, <4>4 DEF TypeOK
    <3>2. /\ loaded' = [i \in 1..Len(loaded') |-> i]
          /\ Len(loaded') = sent' /\ records' <= sent'
      BY <1>4, <2>5, <2>7, <2>9
    <3>3. /\ pc' \notin {"start", "serial"}
          /\ pc' = "batch" => data' # <<>> /\ data'[1].type \in {"Insert", "Delete"}
      BY <1>1, <2>9 DEF GInv
    <3>4. initial' \in [Keys -> BOOLEAN]
      BY <1>1 DEF GInv
    <3> QED
      BY <3>1, <3>2, <3>3, <3>4 DEF GInv
  <2> QED
    BY <2>4, <2>8, <2>9
<1> QED
  BY <1>3, <1>4 DEF BatchStep

(* One pass of serial_sink's loop keeps GInv. *)
LEMMA SerialStepGInv ==
  ASSUME GInv, SerialStep
  PROVE  GInv'
<1>0. /\ data \in Seq(Row) /\ Len(data) \in Nat
      /\ sent \in 0..Len(data) /\ records \in 0..Len(data)
  BY GInvFacts
<1>1. pc = "serial" /\ Len(loaded) = sent /\ records = 0
      /\ UNCHANGED <<data, batch, initial>>
  BY DEF SerialStep, GInv
<1>2. CASE /\ sent = Len(data) /\ pc' = "done"
           /\ UpdateSerialMonitor(Len(data))
           /\ UNCHANGED <<sent, target, loaded>>
  <2>1. records' = Len(data)
    BY <1>1, <1>2 DEF UpdateSerialMonitor
  <2> QED
    BY <1>0, <1>1, <1>2, <2>1 DEF GInv, TypeOK
<1>3. CASE /\ sent < Len(data) /\ SendData(sent + 1, 1, "serial")
           /\ sent' = sent + 1 /\ UNCHANGED records
  <2>1. 1 \in 1..(Len(data) - sent)
    BY <1>0, <1>3
  <2>2. \/ /\ pc' = "unwrapNone" /\ UNCHANGED <<target, loaded>>
        \/ /\ pc' \in {"serial", "httpError"}
           /\ target' = StreamLoad(target, SubSeq(data, sent + 1, sent + 1),
                                   data[sent + 1].type = "Delete")
           /\ loaded' = [i \in 1..(sent + 1) |-> i]
        \/ pc' = "httpError" /\ UNCHANGED <<target, loaded>>
    BY <1>1, <1>3, <2>1, WindowStep
  <2>3. /\ [i \in 1..(sent + 1) |-> i] \in Seq(1..Len(data))
        /\ Len([i \in 1..(sent + 1) |-> i]) = sent + 1
    BY <1>0, <1>3, IndicesSeq
  <2>4. target \in [Keys -> BOOLEAN] => StreamLoad(target, SubSeq(data, sent + 1, sent + 1),
                                     data[sent + 1].type = "Delete") \in [Keys -> BOOLEAN]
    BY DEF StreamLoad
  <2> QED
    BY <1>0, <1>1, <1>3, <2>2, <2>3, <2>4 DEF GInv, TypeOK
<1> QED
  BY <1>2, <1>3 DEF SerialStep

(* GInv is inductive. *)
LEMMA GInvStep ==
  ASSUME GInv, [Next]_vars
  PROVE  GInv'
<1>1. CASE SinkDml
  BY <1>1, SinkDmlGInv
<1>2. CASE BatchStep
  BY <1>2, BatchStepGInv
<1>3. CASE SerialStep
  BY <1>3, SerialStepGInv
<1>4. CASE UNCHANGED vars
  BY <1>4 DEF GInv, TypeOK, vars
<1> QED
  BY <1>1, <1>2, <1>3, <1>4 DEF Next

(***************************************************************************)
(* TypeOK, the type invariant the runs check, holds in every state of     *)
(* sink_dml, for every value of the constants.                             *)
(***************************************************************************)
THEOREM TypeCorrect == Spec => []TypeOK
<1>1. Init => GInv
  BY InitGInv
<1>2. GInv /\ [Next]_vars => GInv'
  BY GInvStep
<1>3. GInv => TypeOK
  BY DEF GInv
<1> QED
  BY <1>1, <1>2, <1>3, PTL DEF Spec

-----------------------------------------------------------------------------
(***************************************************************************)
(* With a positive batch_size, Ok comes only after every row was sent: an *)
(* empty window ends call_batch_fn's loop only when no row is left.  With *)
(* batch_size 0 the first window is empty and the loop ends at once.      *)
(***************************************************************************)
DInv == pc = "done" => sent = Len(data)

(* DInv is inductive with GInv, for a positive batch_size. *)
LEMMA DInvStep ==
  ASSUME BatchSize > 0, GInv, DInv, [Next]_vars
  PROVE  DInv'
<1>0. Len(data) \in Nat /\ sent \in 0..Len(data)
  BY GInvFacts
<1>1. CASE SinkDml
  <2>1. pc' = "done" => data = <<>> /\ sent = 0
    BY <1>1 DEF SinkDml, GInv
  <2> QED
    BY <1>1, <2>1 DEF SinkDml, DInv
<1>2. CASE BatchStep
  <2> DEFINE size == IF Len(data) - sent < BatchSize THEN Len(data) - sent
                                                     ELSE BatchSize
  <2>1. size = 0 => sent = Len(data)
    BY <1>0, StarRocksAssumption
  <2>2. CASE /\ size = 0 /\ pc' = "done"
             /\ UNCHANGED <<sent, target, loaded, records>>
    BY <1>2, <2>1, <2>2 DEF BatchStep, DInv
  <2>3. CASE /\ size > 0 /\ BatchSink(sent + 1, size)
             /\ sent' = sent + size
    <3>1. pc' \in {"batch", "unwrapNone", "httpError"}
      BY <2>3 DEF BatchSink, SendData, StreamLoadRequest
    <3> QED
      BY <3>1 DEF DInv
  <2> QED
    BY <1>2, <2>2, <2>3 DEF BatchStep
<1>3. CASE SerialStep
  <2>1. CASE /\ sent = Len(data) /\ pc' = "done"
             /\ UNCHANGED <<sent, target, loaded>>
    BY <1>3, <2>1 DEF SerialStep, DInv
  <2>2. CASE /\ sent < Len(data) /\ SendData(sent + 1, 1, "serial")
             /\ sent' = sent + 1
    <3>1. pc' \in {"serial", "unwrapNone", "httpError"}
      BY <2>2 DEF SendData, StreamLoadRequest
    <3> QED
      BY <3>1 DEF DInv
  <2> QED
    BY <1>3, <2>1, <2>2 DEF SerialStep
<1>4. CASE UNCHANGED vars
  BY <1>4 DEF DInv, vars
<1> QED
  BY <1>1, <1>2, <1>3, <1>4 DEF Next

(***************************************************************************)
(* With batches of one row type, send_data never unwraps a missing image, *)
(* and the target is always the batch's rows 1..Len(loaded) applied one   *)
(* by one: each stream load continues the row-by-row application.         *)
(***************************************************************************)
MInv ==
  /\ pc # "unwrapNone"
  /\ target = ApplyRows(initial, SubSeq(data, 1, Len(loaded)))

(* The rows of a batch of one row type all have the type of any of them. *)
LEMMA Homogeneous ==
  ASSUME ~Mixed, NEW s \in Inputs
  PROVE  \A i, j \in DOMAIN s : s[i].type = s[j].type
BY DEF Inputs

(***************************************************************************)
(* A window of rows of one type, sent after the first sent rows, keeps    *)
(* MInv: every row has the image send_data unwraps, and the stream load   *)
(* applies the window's rows one by one.                                   *)
(***************************************************************************)
LEMMA WindowMInv ==
  ASSUME GInv, MInv, pc \in {"batch", "serial"}, NEW size \in 1..(Len(data) - sent),
         NEW cont \in {"batch", "serial"}, SendData(sent + 1, size, cont),
         UNCHANGED <<data, initial>>,
         \A i \in 1..size : data[sent + i].type = data[sent + 1].type
  PROVE  MInv'
<1>0. /\ data \in Seq(Row) /\ sent \in 0..Len(data) /\ Len(loaded) = sent
      /\ target \in [Keys -> BOOLEAN] /\ initial \in [Keys -> BOOLEAN]
  BY GInvFacts DEF GInv, TypeOK
<1> DEFINE del == data[sent + 1].type = "Delete"
           W   == SubSeq(data, sent + 1, sent + size)
<1>1. \A i \in 1..size : HasImage(data[sent + i], del)
  BY DEF HasImage
<1>2. W \in Seq(Row) /\ DOMAIN W = 1..size /\ \A i \in 1..size : W[i] = data[sent + i]
  BY <1>0, WindowFacts
<1>3. StreamLoad(target, W, del) = ApplyRows(target, W)
  <2>1. \A i \in DOMAIN W : (W[i].type = "Delete") = del
    <3> TAKE i \in DOMAIN W
    <3>1. W[i].type = data[sent + 1].type
      BY <1>2
    <3> QED
      BY <3>1, Zenon
  <2> QED
    BY <1>0, <1>2, <2>1, StreamLoadHomogeneous
<1>4. ApplyRows(target, W) = ApplyRows(initial, SubSeq(data, 1, sent + size))
  <2>1. target = ApplyRows(initial, SubSeq(data, 1, sent))
    BY <1>0 DEF MInv
  <2>2. sent \in 0..Len(data) /\ sent + size \in sent..Len(data)
    BY <1>0, LenProperties
  <2> QED
    BY <1>0, <2>1, <2>2, ApplyRowsConcat
<1>5. \/ /\ pc' = "unwrapNone" /\ UNCHANGED <<target, loaded>>
         /\ \E i \in 1..size : ~HasImage(data[sent + i], del)
      \/ /\ pc' \in {cont, "httpError"}
         /\ target' = StreamLoad(target, W, del)
         /\ loaded' = [i \in 1..(sent + size) |-> i]
      \/ pc' = "httpError" /\ UNCHANGED <<target, loaded>>
  BY WindowStep
<1>6. CASE /\ pc' \in {cont, "httpError"}
           /\ target' = StreamLoad(target, W, del)
           /\ loaded' = [i \in 1..(sent + size) |-> i]
  <2>1. Len(loaded') = sent + size
    BY <1>0, <1>6
  <2> QED
    BY <1>3, <1>4, <1>6, <2>1 DEF MInv
<1>7. CASE pc' = "httpError" /\ UNCHANGED <<target, loaded>>
  BY <1>7 DEF MInv
<1> QED
  BY <1>1, <1>5, <1>6, <1>7

(* Every initial state satisfies MInv: nothing is loaded yet. *)
LEMMA InitMInv == Init => MInv
<1> SUFFICES ASSUME Init PROVE MInv
  OBVIOUS
<1>1. SubSeq(data, 1, Len(loaded)) = <<>> /\ initial \in [Keys -> BOOLEAN]
  BY DEF Init
<1>2. ApplyRows(initial, <<>>) = initial
  BY <1>1 DEF ApplyRows
<1> QED
  BY <1>1, <1>2 DEF Init, MInv

(* MInv is inductive with GInv, for batches of one row type. *)
LEMMA MInvStep ==
  ASSUME ~Mixed, GInv, MInv, [Next]_vars
  PROVE  MInv'
<1>0. /\ data \in Inputs /\ data \in Seq(Row)
      /\ Len(data) \in Nat /\ sent \in 0..Len(data)
  BY GInvFacts DEF GInv, TypeOK
<1>1. CASE SinkDml
  <2>1. pc' \in {"done", "batch", "serial"}
    BY <1>1 DEF SinkDml
  <2> QED
    BY <1>1, <2>1 DEF SinkDml, MInv
<1>2. CASE BatchStep
  <2> DEFINE size == IF Len(data) - sent < BatchSize THEN Len(data) - sent
                                                     ELSE BatchSize
  <2>1. size \in 0..(Len(data) - sent)
    BY <1>0, StarRocksAssumption
  <2>2. CASE /\ size = 0 /\ pc' = "done"
             /\ UNCHANGED <<sent, target, loaded, records>>
    BY <1>2, <2>2 DEF BatchStep, MInv
  <2>3. CASE /\ size > 0 /\ BatchSink(sent + 1, size)
             /\ sent' = sent + size
    <3>1. size \in 1..(Len(data) - sent)
      BY <2>1, <2>3
    <3>2. \A i \in 1..size : data[sent + i].type = data[sent + 1].type
      <4>1. \A i \in 1..size : sent + i \in DOMAIN data /\ sent + 1 \in DOMAIN data
        BY <1>0, <3>1, LenProperties
      <4> QED
        BY <1>0, <4>1, Homogeneous
    <3>3. pc = "batch" /\ UNCHANGED <<data, initial>>
      BY <1>2 DEF BatchStep
    <3> QED
      BY <2>3, <3>1, <3>2, <3>3, WindowMInv DEF BatchSink
  <2> QED
    BY <1>2, <2>2, <2>3 DEF BatchStep
<1>3. CASE SerialStep
  <2>1. CASE /\ sent = Len(data) /\ pc' = "done"
             /\ UNCHANGED <<sent, target, loaded>>
    BY <1>3, <2>1 DEF SerialStep, MInv
  <2>2. CASE /\ sent < Len(data) /\ SendData(sent + 1, 1, "serial")
             /\ sent' = sent + 1
    <3>1. 1 \in 1..(Len(data) - sent)
      BY <1>0, <2>2
    <3>2. \A i \in 1..1 : data[sent + i].type = data[sent + 1].type
      OBVIOUS
    <3>3. pc = "serial" /\ UNCHANGED <<data, initial>>
      BY <1>3 DEF SerialStep
    <3> QED
      BY <2>2, <3>1, <3>2, <3>3, WindowMInv
  <2> QED
    BY <1>3, <2>1, <2>2 DEF SerialStep
<1>4. CASE UNCHANGED vars
  BY <1>4 DEF MInv, vars
<1> QED
  BY <1>1, <1>2, <1>3, <1>4 DEF Next

-----------------------------------------------------------------------------
(***************************************************************************)
(* LoadedInOrder: the loads sink_dml makes take the rows in batch order,  *)
(* none twice and none skipped, and Ok comes only when every row is       *)
(* loaded, for every positive batch_size (with batch_size 0 the batched   *)
(* path returns Ok without loading a row).                                 *)
(***************************************************************************)
THEOREM LoadedInOrderHolds ==
  ASSUME BatchSize > 0
  PROVE  Spec => []LoadedInOrder
<1>1. Init => GInv /\ DInv
  BY InitGInv DEF Init, DInv
<1>2. GInv /\ DInv /\ [Next]_vars => GInv' /\ DInv'
  BY GInvStep, DInvStep
<1>3. GInv /\ DInv => LoadedInOrder
  BY DEF GInv, DInv, LoadedInOrder
<1> QED
  BY <1>1, <1>2, <1>3, PTL DEF Spec

-----------------------------------------------------------------------------
(***************************************************************************)
(* The Records counter against the loads: the batched loop has counted    *)
(* exactly the windows it sent, serial_sink counts nothing before its     *)
(* last row, and a failed load or an unwrap panic stops the call before   *)
(* its monitor update.                                                     *)
(***************************************************************************)
RInv ==
  /\ records <= Len(loaded)
  /\ pc = "batch" => records = sent
  /\ pc = "done" => records = sent

(* RInv is inductive with GInv, whatever batch_size. *)
LEMMA RInvStep ==
  ASSUME GInv, RInv, [Next]_vars
  PROVE  RInv'
<1>0. /\ data \in Seq(Row) /\ Len(data) \in Nat
      /\ sent \in 0..Len(data) /\ records \in 0..Len(data)
      /\ Len(loaded) \in Nat
  BY GInvFacts
<1>1. CASE SinkDml
  <2>1. sent = 0 /\ records = 0
    BY <1>1 DEF SinkDml, GInv
  <2> QED
    BY <1>0, <1>1, <2>1 DEF SinkDml, RInv
<1>2. CASE BatchStep
  <2>1. pc = "batch" /\ Len(loaded) = sent /\ records = sent
    BY <1>2 DEF BatchStep, GInv, RInv
  <2> DEFINE size == IF Len(data) - sent < BatchSize THEN Len(data) - sent
                                                     ELSE BatchSize
  <2>2. size \in 0..(Len(data) - sent)
    BY <1>0, StarRocksAssumption
  <2>3. CASE /\ size = 0 /\ pc' = "done"
             /\ UNCHANGED <<sent, target, loaded, records>>
    BY <1>0, <2>1, <2>3 DEF RInv
  <2>4. CASE /\ size > 0 /\ BatchSink(sent + 1, size)
             /\ sent' = sent + size
    <3>1. size \in 1..(Len(data) - sent)
      BY <2>2, <2>4
    <3>2. SendData(sent + 1, size, "batch")
      BY <2>4 DEF BatchSink
    <3>3. records' = IF pc' = "batch" THEN records + size ELSE records
      BY <2>4 DEF BatchSink, UpdateBatchMonitor
    <3>4. \/ /\ pc' = "unwrapNone" /\ UNCHANGED <<target, loaded>>
          \/ /\ pc' \in {"batch", "httpError"}
             /\ target' = StreamLoad(target, SubSeq(data, sent + 1, sent + size),
                                     data[sent + 1].type = "Delete")
             /\ loaded' = [i \in 1..(sent + size) |-> i]
          \/ pc' = "httpError" /\ UNCHANGED <<target, loaded>>
      BY <1>2, <2>1, <3>1, <3>2, WindowStep DEF GInv
    <3>5. Len([i \in 1..(sent + size) |-> i]) = sent + size
      BY <1>0, <3>1, IndicesSeq
    <3> QED
      BY <1>0, <2>1, <2>4, <3>1, <3>3, <3>4, <3>5 DEF RInv
  <2> QED
    BY <1>2, <2>3, <2>4 DEF BatchStep
<1>3. CASE SerialStep
  <2>1. pc = "serial" /\ Len(loaded) = sent /\ records = 0
    BY <1>3 DEF SerialStep, GInv
  <2>2. CASE /\ sent = Len(data) /\ pc' = "done"
             /\ UpdateSerialMonitor(Len(data))
             /\ UNCHANGED <<sent, target, loaded>>
    BY <2>1, <2>2 DEF UpdateSerialMonitor, RInv
  <2>3. CASE /\ sent < Len(data) /\ SendData(sent + 1, 1, "serial")
             /\ sent' = sent + 1 /\ UNCHANGED records
    <3>1. 1 \in 1..(Len(data) - sent)
      BY <1>0, <2>3
    <3>2. \/ /\ pc' = "unwrapNone" /\ UNCHANGED <<target, loaded>>
          \/ /\ pc' \in {"serial", "httpError"}
             /\ target' = StreamLoad(target, SubSeq(data, sent + 1, sent + 1),
                                     data[sent + 1].type = "Delete")
             /\ loaded' = [i \in 1..(sent + 1) |-> i]
          \/ pc' = "httpError" /\ UNCHANGED <<target, loaded>>
      BY <1>3, <2>1, <2>3, <3>1, WindowStep DEF GInv
    <3>3. Len([i \in 1..(sent + 1) |-> i]) = sent + 1
      BY <1>0, <2>3, IndicesSeq
    <3> QED
      BY <1>0, <2>1, <2>3, <3>2, <3>3 DEF RInv
  <2> QED
    BY <1>3, <2>2, <2>3 DEF SerialStep
<1>4. CASE UNCHANGED vars
  BY <1>4 DEF RInv, vars
<1> QED
  BY <1>1, <1>2, <1>3, <1>4 DEF Next

(***************************************************************************)
(* RecordsMatchLoads: the Records counter never counts a row whose load   *)
(* has not reached the target, whichever load fails or panics, and for a  *)
(* positive batch_size a call that returns Ok has counted every row of    *)
(* the batch (batch_sink updates the monitor after its unwraps,            *)
(* serial_sink after its last row).                                        *)
(***************************************************************************)
THEOREM RecordsMatchLoadsHolds ==
  ASSUME BatchSize > 0
  PROVE  Spec => []RecordsMatchLoads
<1>1. Init => GInv /\ DInv /\ RInv
  BY InitGInv DEF Init, DInv, RInv
<1>2. GInv /\ DInv /\ RInv /\ [Next]_vars => GInv' /\ DInv' /\ RInv'
  BY GInvStep, DInvStep, RInvStep
<1>3. GInv /\ DInv /\ RInv => RecordsMatchLoads
  BY DEF DInv, RInv, RecordsMatchLoads
<1> QED
  BY <1>1, <1>2, <1>3, PTL DEF Spec

(***************************************************************************)
(* NoUnwrapPanic: for batches of one row type, send_data never unwraps a  *)
(* missing before or after image, whatever batch_size and the batch flag. *)
(***************************************************************************)
THEOREM NoUnwrapPanicHolds ==
  ASSUME ~Mixed
  PROVE  Spec => []NoUnwrapPanic
<1>1. Init => GInv /\ MInv
  BY InitGInv, InitMInv
<1>2. GInv /\ MInv /\ [Next]_vars => GInv' /\ MInv'
  BY GInvStep, MInvStep
<1>3. MInv => NoUnwrapPanic
  BY DEF MInv, NoUnwrapPanic
<1> QED
  BY <1>1, <1>2, <1>3, PTL DEF Spec

(***************************************************************************)
(* TargetMatches: for batches of one row type and a positive batch_size,  *)
(* when sink_dml returns Ok the target holds the batch applied row by row *)
(* to the table it started from.                                           *)
(***************************************************************************)
THEOREM TargetMatchesHolds ==
  ASSUME ~Mixed, BatchSize > 0
  PROVE  Spec => []TargetMatches
<1> DEFINE Inv == GInv /\ DInv /\ MInv
<1>1. Init => Inv
  BY InitGInv, InitMInv DEF Init, DInv
<1>2. Inv /\ [Next]_vars => Inv'
  BY GInvStep, DInvStep, MInvStep
<1>3. Inv => TargetMatches
  <2> SUFFICES ASSUME Inv, pc = "done" PROVE target = Expected
    BY DEF TargetMatches
  <2>1. data \in Seq(Row) /\ Len(loaded) = Len(data)
    BY GInvFacts DEF GInv, DInv
  <2>2. SubSeq(data, 1, Len(data)) = data
    BY <2>1, SubSeqWhole
  <2> QED
    BY <2>1, <2>2 DEF MInv, Expected
<1> QED
  BY <1>1, <1>2, <1>3, PTL DEF Spec

-----------------------------------------------------------------------------
(* The contract's row-by-row application is ApplyRows. *)
LEMMA ApplyAllIsApplyRows ==
  ASSUME NEW t, NEW s
  PROVE  SerialSink!ApplyAll(t, s) = ApplyRows(t, s)
BY DEF SerialSink!ApplyAll, ApplyRows

(***************************************************************************)
(* One window of rows of one type, sent after the first sent rows, is a   *)
(* step of the contract: the window applied while the call runs, or the   *)
(* call failed with the window applied or not.                             *)
(***************************************************************************)
LEMMA WindowRefines ==
  ASSUME GInv, pc \in {"batch", "serial"}, NEW size \in 1..(Len(data) - sent),
         NEW cont \in {"batch", "serial"}, SendData(sent + 1, size, cont),
         UNCHANGED data,
         \A i \in 1..size : data[sent + i].type = data[sent + 1].type
  PROVE  SerialSink!ApplyWindow \/ SerialSink!Fail
<1>0. /\ data \in Seq(Row) /\ sent \in 0..Len(data) /\ Len(loaded) = sent
      /\ target \in [Keys -> BOOLEAN] /\ Status = "running"
  BY GInvFacts DEF GInv, TypeOK, Status
<1> DEFINE del == data[sent + 1].type = "Delete"
           W   == SubSeq(data, sent + 1, sent + size)
           m   == sent + size
<1>1. W \in Seq(Row) /\ DOMAIN W = 1..size /\ \A i \in 1..size : W[i] = data[sent + i]
  BY <1>0, WindowFacts
<1>2. StreamLoad(target, W, del)
        = SerialSink!ApplyAll(target, SubSeq(data, Len(loaded) + 1, m))
  <2>1. \A i \in DOMAIN W : (W[i].type = "Delete") = del
    <3> TAKE i \in DOMAIN W
    <3>1. W[i].type = data[sent + 1].type
      BY <1>1
    <3> QED
      BY <3>1, Zenon
  <2>2. StreamLoad(target, W, del) = ApplyRows(target, W)
    BY <1>0, <1>1, <2>1, StreamLoadHomogeneous
  <2> QED
    BY <1>0, <2>2, ApplyAllIsApplyRows
<1>3. m \in Len(loaded) + 1 .. Len(data)
  BY <1>0
<1>4. \/ /\ pc' = "unwrapNone" /\ UNCHANGED <<target, loaded>>
         /\ \E i \in 1..size : ~HasImage(data[sent + i], del)
      \/ /\ pc' \in {cont, "httpError"}
         /\ target' = StreamLoad(target, W, del)
         /\ loaded' = [i \in 1..m |-> i]
      \/ pc' = "httpError" /\ UNCHANGED <<target, loaded>>
  BY WindowStep
<1>5. CASE pc' \in {"unwrapNone", "httpError"} /\ UNCHANGED <<target, loaded>>
  <2>1. Status' = "failed"
    BY <1>5 DEF Status
  <2> QED
    BY <1>0, <2>1, <1>5 DEF SerialSink!Fail
<1>6. CASE /\ pc' \in {cont, "httpError"}
           /\ target' = StreamLoad(target, W, del)
           /\ loaded' = [i \in 1..m |-> i]
  <2>1. SerialSink!ApplyUpTo(m)
    <3>1. Len(loaded') = m
      BY <1>0, <1>6
    <3> QED
      BY <1>2, <1>6, <3>1 DEF SerialSink!ApplyUpTo
  <2>2. CASE pc' = cont
    <3>1. Status' = "running"
      BY <2>2 DEF Status
    <3> QED
      BY <1>0, <1>3, <2>1, <3>1 DEF SerialSink!ApplyWindow
  <2>3. CASE pc' = "httpError"
    <3>1. Status' = "failed"
      BY <2>3 DEF Status
    <3> QED
      BY <1>0, <1>3, <2>1, <3>1 DEF SerialSink!Fail
  <2> QED
    BY <1>6, <2>2, <2>3
<1> QED
  BY <1>4, <1>5, <1>6

(* The initial state of sink_dml is an initial state of the contract. *)
LEMMA InitRefines == Init => SerialSink!Init
<1> SUFFICES ASSUME Init PROVE SerialSink!Init
  OBVIOUS
<1>1. data \in Seq([type : {"Insert", "Update", "Delete"}, key : Keys])
  BY InputsSeq DEF Init, Row, RowTypes
<1>2. Len(loaded) = 0 /\ Status = "running"
  BY DEF Init, Status
<1> QED
  BY <1>1, <1>2 DEF Init, SerialSink!Init

(***************************************************************************)
(* Every step of sink_dml is a step of the contract or leaves the         *)
(* contract's state alone, for batches of one row type and a positive     *)
(* batch_size.                                                             *)
(***************************************************************************)
LEMMA NextRefines ==
  ASSUME ~Mixed, BatchSize > 0, GInv, DInv, [Next]_vars
  PROVE  [SerialSink!Next]_SerialSink!vars
<1>0. /\ data \in Inputs /\ data \in Seq(Row)
      /\ Len(data) \in Nat /\ sent \in 0..Len(data)
  BY GInvFacts DEF GInv, TypeOK
<1>1. CASE SinkDml
  <2>1. Status = "running" /\ Len(loaded) = 0
    BY <1>1 DEF SinkDml, GInv, Status
  <2>2. CASE data = <<>>
    <3>1. pc' = "done" /\ Status' = "ok"
      BY <1>1, <2>2 DEF SinkDml, Status
    <3>2. Len(data) = 0
      BY <2>2
    <3> QED
      BY <1>1, <2>1, <3>1, <3>2 DEF SinkDml, SerialSink!Next, SerialSink!Finish
  <2>3. CASE data # <<>>
    <3>1. pc' \in {"batch", "serial"} /\ Status' = "running"
      BY <1>1, <2>3 DEF SinkDml, Status
    <3> QED
      BY <1>1, <2>1, <3>1 DEF SinkDml, SerialSink!vars
  <2> QED
    BY <2>2, <2>3
<1>2. CASE BatchStep
  <2> DEFINE size == IF Len(data) - sent < BatchSize THEN Len(data) - sent
                                                     ELSE BatchSize
  <2>0. pc = "batch" /\ Status = "running" /\ Len(loaded) = sent
        /\ UNCHANGED data
    BY <1>2 DEF BatchStep, GInv, Status
  <2>1. size \in 0..(Len(data) - sent) /\ (size = 0 => sent = Len(data))
    BY <1>0, StarRocksAssumption
  <2>2. CASE /\ size = 0 /\ pc' = "done"
             /\ UNCHANGED <<sent, target, loaded, records>>
    <3>1. Status' = "ok"
      BY <2>2 DEF Status
    <3> QED
      BY <2>0, <2>1, <2>2, <3>1 DEF SerialSink!Next, SerialSink!Finish
  <2>3. CASE /\ size > 0 /\ BatchSink(sent + 1, size)
             /\ sent' = sent + size
    <3>1. size \in 1..(Len(data) - sent)
      BY <2>1, <2>3
    <3>2. \A i \in 1..size : data[sent + i].type = data[sent + 1].type
      <4>1. \A i \in 1..size : sent + i \in DOMAIN data /\ sent + 1 \in DOMAIN data
        BY <1>0, <3>1, LenProperties
      <4> QED
        BY <1>0, <4>1, Homogeneous
    <3>3. SerialSink!ApplyWindow \/ SerialSink!Fail
      BY <2>0, <2>3, <3>1, <3>2, WindowRefines DEF BatchSink
    <3> QED
      BY <3>3 DEF SerialSink!Next
  <2> QED
    BY <1>2, <2>2, <2>3 DEF BatchStep
<1>3. CASE SerialStep
  <2>0. pc = "serial" /\ Status = "running" /\ Len(loaded) = sent
        /\ UNCHANGED data
    BY <1>3 DEF SerialStep, GInv, Status
  <2>1. CASE /\ sent = Len(data) /\ pc' = "done"
             /\ UNCHANGED <<sent, target, loaded>>
    <3>1. Status' = "ok"
      BY <2>1 DEF Status
    <3> QED
      BY <2>0, <2>1, <3>1 DEF SerialSink!Next, SerialSink!Finish
  <2>2. CASE /\ sent < Len(data) /\ SendData(sent + 1, 1, "serial")
             /\ sent' = sent + 1
    <3>1. 1 \in 1..(Len(data) - sent)
      BY <1>0, <2>2
    <3>2. \A i \in 1..1 : data[sent + i].type = data[sent + 1].type
      OBVIOUS
    <3>3. SerialSink!ApplyWindow \/ SerialSink!Fail
      BY <2>0, <2>2, <3>1, <3>2, WindowRefines
    <3> QED
      BY <3>3 DEF SerialSink!Next
  <2> QED
    BY <1>3, <2>1, <2>2 DEF SerialStep
<1>4. CASE UNCHANGED vars
  BY <1>4 DEF vars, SerialSink!vars, Status
<1> QED
  BY <1>1, <1>2, <1>3, <1>4 DEF Next

(***************************************************************************)
(* ImplementsSinkContract: for batches of one row type and a positive     *)
(* batch_size, sink_dml implements the sinker contract: every stream load *)
(* of call_batch_fn's windows or of serial_sink's rows applies the next   *)
(* rows of the batch one by one, and Ok comes only after the last row.     *)
(***************************************************************************)
THEOREM ImplementsSinkContractHolds ==
  ASSUME ~Mixed, BatchSize > 0
  PROVE  Spec => ImplementsSinkContract
<1>1. Init => GInv /\ DInv
  BY InitGInv DEF Init, DInv
<1>2. GInv /\ DInv /\ [Next]_vars => GInv' /\ DInv'
  BY GInvStep, DInvStep
<1>3. Init => SerialSink!Init
  BY InitRefines
<1>4. GInv /\ DInv /\ [Next]_vars => [SerialSink!Next]_SerialSink!vars
  BY NextRefines
<1> QED
  BY <1>1, <1>2, <1>3, <1>4, PTL DEF Spec, ImplementsSinkContract, SerialSink!Spec

=============================================================================
