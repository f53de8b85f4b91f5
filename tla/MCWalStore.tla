----------------------------- MODULE MCWalStore -----------------------------
(***************************************************************************)
(* Model-checking instances of WalStore.                                   *)
(***************************************************************************)
EXTENDS WalStore

CONSTANTS p1, p2, v0, v1

BeforeCommitRecord == {"append_commit", "rollback"}
AnyStep == CommitFailPoints \cup {"rollback"}
=============================================================================
