--------------------------- MODULE SinkContract ---------------------------
(***************************************************************************)
(* What a sinker promises for one sink_dml call (spec section 4.6, the    *)
(* batching sinker contract): the rows of the batch reach the target in   *)
(* batch order, in contiguous windows, each window having the effect of   *)
(* its rows applied one by one (an insert or update upserts its key, a    *)
(* delete deletes it); Ok is returned only once every row is applied; a   *)
(* failure ends the call, the window in flight applied or not.            *)
(*                                                                         *)
(* A row is a record [type, key]; the target the set of present keys, as  *)
(* a function Keys -> BOOLEAN.                                             *)
(***************************************************************************)
EXTENDS Naturals, Sequences

CONSTANT Keys

VARIABLES
  data,     \* the batch
  tgt,      \* the target table
  applied,  \* rows 1..applied have been applied
  status    \* "running", "ok", "failed"

vars == <<data, tgt, applied, status>>

(* One row applied to the target. *)
ApplyOne(t, rd) == [t EXCEPT ![rd.key] = (rd.type # "Delete")]

(***************************************************************************)
(* The rows of s applied to t one by one with ApplyOne: a key no row      *)
(* names keeps its value, any other is present exactly when the last row  *)
(* naming it is not a Delete.                                              *)
(***************************************************************************)
ApplyAll(t, s) ==
  [k \in Keys |->
     IF \E i \in DOMAIN s : s[i].key = k
       THEN \E i \in DOMAIN s :
              /\ s[i].key = k
              /\ s[i].type # "Delete"
              /\ \A j \in DOMAIN s : j > i => s[j].key # k
       ELSE t[k]]

(* Rows applied+1..m applied to the target, in order. *)
ApplyUpTo(m) ==
  /\ applied' = m
  /\ tgt' = ApplyAll(tgt, SubSeq(data, applied + 1, m))

(* The next window, rows applied+1..m, reaches the target. *)
ApplyWindow ==
  /\ status = "running"
  /\ \E m \in applied + 1 .. Len(data) : ApplyUpTo(m)
  /\ UNCHANGED <<data, status>>

(* Ok, once every row is applied. *)
Finish ==
  /\ status = "running"
  /\ applied = Len(data)
  /\ status' = "ok"
  /\ UNCHANGED <<data, tgt, applied>>

(* The call fails; the window in flight may have reached the target. *)
Fail ==
  /\ status = "running"
  /\ status' = "failed"
  /\ \/ UNCHANGED <<tgt, applied>>
     \/ \E m \in applied + 1 .. Len(data) : ApplyUpTo(m)
  /\ UNCHANGED data

Init ==
  /\ data \in Seq([type : {"Insert", "Update", "Delete"}, key : Keys])
  /\ tgt \in [Keys -> BOOLEAN]
  /\ applied = 0
  /\ status = "running"

Next == ApplyWindow \/ Finish \/ Fail

Spec == Init /\ [][Next]_vars

=============================================================================
