---------------------------- MODULE MCSnapshotStore ----------------------------
(* SnapshotStore for TLC: no role of a snapshot is treated unlike another. *)
EXTENDS SnapshotStore, TLC

RoleSymmetry == Permutations(Roles)
=============================================================================
