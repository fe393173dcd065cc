------------------------------ MODULE MCStore -------------------------------
(***************************************************************************)
(* The instances of Store that TLC checks.                                 *)
(***************************************************************************)
EXTENDS Store, TLC

CONSTANTS k1, k2

(***************************************************************************)
(* Keys are only compared with each other.                                 *)
(***************************************************************************)
Sym == Permutations({k1, k2})

(***************************************************************************)
(* A behaviour is followed until the log has a hole: from then on the      *)
(* invariants promise nothing but types.                                   *)
(***************************************************************************)
NoHole == ~hole
=============================================================================
