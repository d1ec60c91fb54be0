-------------------------------- MODULE MCRTree --------------------------------
(* Instances of RTree for TLC.                                             *)
EXTENDS RTree

E(oid, lat, lng) == [oid |-> oid, at |-> <<lat, lng>>]

\* On both sides of the antimeridian: three levels of nodes, some with one child.
Clusters ==
  {E(1, 10, 175), E(2, -10, 175), E(3, 10, -170), E(4, 15, -165),
   E(5, -10, -160), E(6, -20, -160), E(7, 30, -140), E(8, 40, -135)}

Few == {E(1, -10, 175), E(2, 10, -170), E(3, 20, 170), E(4, -40, 175), E(5, -10, 180)}

\* Across the poles from a place, and beside it but far off in longitude.
Polar == {E(1, 80, 180), E(2, 85, 90), E(3, -80, 0), E(4, -85, -90), E(5, 60, 0)}

MCPlace  == {<<0, 180>>, <<0, -175>>, <<0, 90>>, <<80, 0>>, <<-80, 180>>}
MCRadius == {15, 25}

\* A large tree, every order of inserting a few with files of older versions, the commits
\* of a small one, and entries around the poles.
MCUses ==
  {[entries |-> Clusters, ordered |-> TRUE, removals |-> 2, commits |-> 1, applied |-> 0,
    older |-> FALSE],
   [entries |-> Few, ordered |-> FALSE, removals |-> 3, commits |-> 1, applied |-> 0,
    older |-> TRUE],
   [entries |-> {E(1, 10, 10), E(2, 10, -170)}, ordered |-> FALSE, removals |-> 2, commits |-> 2,
    applied |-> 1, older |-> FALSE],
   [entries |-> Polar, ordered |-> TRUE, removals |-> 1, commits |-> 1, applied |-> 0,
    older |-> FALSE]}
=============================================================================
