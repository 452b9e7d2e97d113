------------------------- MODULE MCDatabaseVersions -------------------------
(***************************************************************************)
(* Model checking of DatabaseVersions.  No operator orders or CHOOSEs      *)
(* among versions, tables or workers.                                      *)
(***************************************************************************)
EXTENDS DatabaseVersions, TLC

Symmetry ==
  Permutations(Version) \cup Permutations(Table) \cup Permutations(Worker)
=============================================================================
