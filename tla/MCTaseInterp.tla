---------------------------- MODULE MCTaseInterp ----------------------------
(* TaseInterp on small programs. *)
EXTENDS TaseInterp

(* A conflict.  The causes differ only in the status and its accounting,  *)
(* which MCHarness covers.                                                  *)
MCOneCause == {{TSX_RETRY, TSX_CONFLICT}}
=============================================================================
