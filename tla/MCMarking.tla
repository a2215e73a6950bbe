----------------------------- MODULE MCMarking -----------------------------
(***************************************************************************)
(* Every heap of three objects with two, two and one slots.                *)
(***************************************************************************)
EXTENDS Marking, TLC

CONSTANTS o1, o2, o3

MCGraphs ==
  {[root |-> root, slots |-> o1 :> first @@ o2 :> second @@ o3 :> third] :
     root \in [Roots -> Words], first \in [1 .. 2 -> Words],
     second \in [1 .. 2 -> Words], third \in [1 .. 1 -> Words]}
=============================================================================
