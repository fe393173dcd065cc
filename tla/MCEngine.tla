------------------------------ MODULE MCEngine ------------------------------
(***************************************************************************)
(* The instances of Engine that TLC checks.                                *)
(***************************************************************************)
EXTENDS Engine, TLC

CONSTANTS k1, k2

(***************************************************************************)
(* Keys are only compared with each other.                                 *)
(***************************************************************************)
Sym == Permutations({k1, k2})

(***************************************************************************)
(* A behaviour is followed until the log has a hole: from then on the      *)
(* invariants promise nothing but types.                                   *)
(***************************************************************************)
NoHole == ~hole
=============================================================================
