---------------------------- MODULE MCRunLedger ----------------------------
(* Model checking of RunLedger.                                            *)
EXTENDS RunLedger
=============================================================================
