------------------------------ MODULE MCServer ------------------------------
(***************************************************************************)
(* The instance of Server that TLC checks.                                 *)
(***************************************************************************)
EXTENDS Server, TLC

CONSTANTS k1, k2, c1, c2

(***************************************************************************)
(* Keys and threads are only compared with each other.                     *)
(***************************************************************************)
Sym == Permutations({k1, k2}) \cup Permutations({c1, c2})
=============================================================================
