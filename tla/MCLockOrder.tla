---------------------------- MODULE MCLockOrder ----------------------------
(* Model-checking instance of LockOrder. *)
EXTENDS LockOrder
=============================================================================
