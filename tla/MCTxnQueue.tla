----------------------------- MODULE MCTxnQueue -----------------------------
(***************************************************************************)
(* TxnQueue for TLC: the .cfg files give clients (c1, c2), notifications   *)
(* (x1) and retry goroutines (r1, r2, r3) as model values.                 *)
(***************************************************************************)
EXTENDS TxnQueue
=============================================================================
