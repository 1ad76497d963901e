------------------------- MODULE MCStarRocksSinker -------------------------
(* The StarRocks sinker for TLC: two keys as model values. *)
EXTENDS StarRocksSinker, SequencesExt

CONSTANTS k1, k2

MCKeys == {k1, k2}

(* Every batch of at most MaxRows rows, of one row type or mixed. *)
AllBatches == UNION {[1..n -> Row] : n \in 0..MaxRows}

(***************************************************************************)
(* The last-row-wins forms of the sinker (ApplyRows) and of the contract  *)
(* (ApplyAll) are the left folds of applying one row at a time, on every  *)
(* batch of the run's size and every target: what spec section 4.6 means *)
(* by the rows applied one by one.                                         *)
(***************************************************************************)
ASSUME LastRowWinsIsFold ==
  \A s \in AllBatches, t \in [Keys -> BOOLEAN] :
    /\ ApplyRows(t, s) = FoldLeft(ApplyRow, t, s)
    /\ SerialSink!ApplyAll(t, s) = FoldLeft(SerialSink!ApplyOne, t, s)

=============================================================================
