----------------------------- MODULE MCValueMap -----------------------------
(***************************************************************************)
(* Four keys in a table of four slots, which the fourth key expands.  k2,  *)
(* k6 and k10 have one home in it and wrap around its end; k1, the key     *)
(* that is deleted, has a home no other key is displaced past.  In the     *)
(* other instance every key is deleted, and k0 and k4 share the first      *)
(* slot.                                                                   *)
(***************************************************************************)
EXTENDS ValueMap, TLC

CONSTANTS k0, k1, k2, k4, k6, k10, v1, v2

MCHash ==
  [t \in Keys \cup Values |->
    CASE t = k0 -> 0 [] t = k1 -> 1 [] t = k2 -> 2 [] t = k4 -> 4
      [] t = k6 -> 6 [] t = k10 -> 10 [] OTHER -> 100]

MCKeys == {k1, k2, k6, k10}
MCRemovable == {k1}
MCCrowdedKeys == {k0, k1, k4}

\* Nothing distinguishes the values.
Alike == Permutations(Values)
=============================================================================
