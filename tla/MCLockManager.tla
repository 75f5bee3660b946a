--------------------------- MODULE MCLockManager ---------------------------
(* Small instances of LockManager.                                          *)
EXTENDS LockManager, TLC

ManagerSymmetry == Permutations(Managers)
=============================================================================
