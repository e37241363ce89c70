--------------------------- MODULE MCTensorSidecar ---------------------------
(***************************************************************************)
(* Commands for the model checker: shapes below, at and above the lane     *)
(* window and the word, and lookups that end inside and at a word.         *)
(***************************************************************************)
EXTENDS TensorSidecar

Gemm(rows, cols, inner, add) ==
  [op |-> "gemm", m |-> rows, n |-> cols, k |-> inner, acc |-> add]

MCCommands ==
  {Gemm(1, 1, 1, FALSE), Gemm(2, 3, 1, TRUE), Gemm(2, 3, 2, FALSE), Gemm(1, 4, 3, TRUE),
   Gemm(3, 3, 2, FALSE)}
  \union {[op |-> "narrow", m |-> 5], [op |-> "wide", m |-> 4]}
=============================================================================
