------------------------ MODULE MCRegionCompaction ------------------------
(***************************************************************************)
(* Every heap of at most MaxObjects objects that allocate_simple can build *)
(* in regions of the given capacities, with every subset of them marked.   *)
(***************************************************************************)
EXTENDS RegionCompaction, Sequences, FiniteSets, SequencesExt

CONSTANTS MaxObjects, MaxSize, Capacities

\* allocate_simple: the place after the last one, or the start of a new region.
PlaceNext(places, size, capacity) ==
  LET last == places[Len(places)] IN
  IF places = <<>> THEN [region |-> 1, pos |-> 0, size |-> size]
  ELSE IF last.pos + last.size + size <= capacity[last.region]
       THEN [region |-> last.region, pos |-> last.pos + last.size, size |-> size]
       ELSE [region |-> last.region + 1, pos |-> 0, size |-> size]

Placed(sizes, capacity) ==
  FoldLeft(LAMBDA places, size : Append(places, PlaceNext(places, size, capacity)),
           <<>>, sizes)

At(o) == [region |-> o.region, pos |-> o.pos]

Layout(places, capacity, live) ==
  LET used == places[Len(places)].region
      inRegion(r) == {i \in DOMAIN places : places[i].region = r}
      end(r) == CHOOSE i \in inRegion(r) : \A j \in inRegion(r) : j <= i
  IN [regions  |-> used,
      capacity |-> [r \in 1 .. used |-> capacity[r]],
      top      |-> [r \in 1 .. used |-> places[end(r)].pos + places[end(r)].size],
      size     |-> [p \in {At(places[i]) : i \in DOMAIN places} |->
                     places[CHOOSE i \in DOMAIN places : At(places[i]) = p].size],
      marked   |-> {At(places[i]) : i \in live}]

MCLayouts ==
  UNION {{Layout(Placed(sizes, capacity), capacity, live) :
            live \in SUBSET (1 .. n), sizes \in [1 .. n -> 1 .. MaxSize],
            capacity \in Capacities} : n \in 1 .. MaxObjects}

MCCapacities == {<<3, 3, 3, 3, 3>>, <<3, 4, 5, 6, 6>>, <<5, 3, 3, 4, 3>>}
=============================================================================
