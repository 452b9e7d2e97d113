--------------------------- MODULE CurrentVersion ---------------------------
(***************************************************************************)
(* What the versions of a database promise, with no requests or dates:     *)
(* there is at most one current version, always one in being; another may  *)
(* take its place in one step, and a version that is removed is no longer  *)
(* current.  DatabaseVersions implements it while no two activations       *)
(* overlap.                                                                *)
(***************************************************************************)
CONSTANT Version

VARIABLES
  versions,  \* the versions in being
  current    \* the set of the current version, or the empty set

OneCurrent == current \subseteq versions /\ \A u, v \in current : u = v

Add(v) ==
  /\ v \notin versions
  /\ versions' = versions \cup {v}
  /\ UNCHANGED current

\* v takes the place of the current version, if there is one.
Publish(v) ==
  /\ v \in versions \ current
  /\ current' = {v}
  /\ UNCHANGED versions

Withdraw ==
  /\ current # {}
  /\ current' = {}
  /\ UNCHANGED versions

Remove(V) ==
  /\ versions' = versions \ V
  /\ current' = current \ V

Init == versions = {} /\ current = {}

Next ==
  \/ Withdraw
  \/ \E v \in Version : Add(v) \/ Publish(v)
  \/ \E V \in SUBSET Version : Remove(V)

Spec == Init /\ [][Next]_<<versions, current>>
=============================================================================
