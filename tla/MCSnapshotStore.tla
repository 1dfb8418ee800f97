-------------------------- MODULE MCSnapshotStore --------------------------
(***************************************************************************)
(* A small store for TLC: two files, two retained snapshots, enough        *)
(* registrations for several evictions.                                    *)
(***************************************************************************)
EXTENDS SnapshotStore

=============================================================================
