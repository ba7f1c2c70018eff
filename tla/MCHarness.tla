----------------------------- MODULE MCHarness -----------------------------
(* Harness on small programs. *)
EXTENDS Harness

(* An interrupt or page fault, a conflict, a capacity overflow. *)
MCAsyncCauses == {{}, {TSX_RETRY, TSX_CONFLICT}, {TSX_CAPACITY}}

ASSUME OneCauseAssumption == OneCause
=============================================================================
