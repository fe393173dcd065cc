------------------------------- MODULE MCMvcc -------------------------------
(***************************************************************************)
(* The instances of Mvcc that TLC checks.                                  *)
(***************************************************************************)
EXTENDS Mvcc, TLC

CONSTANTS k1, k2, t1, t2, t3

(***************************************************************************)
(* Keys and transactions are only compared with each other.                *)
(***************************************************************************)
Sym == Permutations({k1, k2}) \cup Permutations({t1, t2, t3})
=============================================================================
