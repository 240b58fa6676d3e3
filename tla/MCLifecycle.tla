---------------------------- MODULE MCLifecycle -----------------------------
(* Small instances of Lifecycle.                                           *)
EXTENDS Lifecycle

CONSTANTS g1, r1, r2
=============================================================================
