-------------------------- MODULE MCSharedDatabase --------------------------
(***************************************************************************)
(* Model-checking instances of SharedDatabase: three threads of two calls. *)
(***************************************************************************)
EXTENDS SharedDatabase

CONSTANTS th1, th2, th3
=============================================================================
