------------------------- MODULE MCPointerThreading -------------------------
(***************************************************************************)
(* Every graph on a few shapes of heap, marked as Marking leaves it.       *)
(***************************************************************************)
EXTENDS PointerThreading

\* A shape: how many objects there are of each kind, which are VariableBlocks, and
\* how many slots the roots and the objects have.
Shape(region, pinned, symbols, blocks, roots, lengths) ==
  [region |-> region, pinned |-> pinned, symbols |-> symbols, blocks |-> blocks,
   lengths |-> [o \in 0 .. region + pinned + symbols |-> IF o = 0 THEN roots ELSE lengths[o]]]

MCShapes ==
  {Shape(3, 0, 0, {}, 1, <<1, 2, 1>>),
   Shape(2, 1, 1, {1}, 1, <<0, 1, 1, 1>>),
   Shape(2, 2, 0, {}, 1, <<1, 1, 1, 1>>),
   Shape(1, 0, 2, {1}, 2, <<0, 1, 1>>)}

Filled(shape, slots) ==
  LET places == 1 .. Total(shape)
      \* the objects at most n references away from the roots and the symbols
      reach[n \in Nat] ==
        IF n = 0 THEN {0} \cup {o \in places : o > shape.region + shape.pinned}
        ELSE LET near == reach[n - 1] IN
             near \cup UNION {{slots[o][k] : k \in DOMAIN slots[o]} : o \in near}
  IN [region |-> shape.region, pinned |-> shape.pinned, symbols |-> shape.symbols,
      blocks |-> shape.blocks, slots |-> slots, marked |-> reach[Total(shape)] \ {0}]

\* Every way to fill the slots of a shape: a choice for each number of slot.
Fillings(shape) ==
  LET words == 0 .. Total(shape)
      count == shape.lengths
      offset[o \in DOMAIN count] == IF o = 0 THEN 0 ELSE offset[o - 1] + count[o - 1]
      all == offset[Total(shape)] + count[Total(shape)]
  IN {[o \in DOMAIN count |-> [k \in 1 .. count[o] |-> f[offset[o] + k]]] :
        f \in [1 .. all -> words]}

MCHeaps == UNION {{Filled(shape, slots) : slots \in Fillings(shape)} : shape \in MCShapes}
=============================================================================
