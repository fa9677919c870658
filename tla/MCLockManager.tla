---------------------------- MODULE MCLockManager ----------------------------
(* A small instance of LockManager: four transactions, two keys.          *)
EXTENDS LockManager, TLC

TxnSymmetry == Permutations(Txn) \cup Permutations(Key)
=============================================================================
