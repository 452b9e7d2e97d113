----------------------------- MODULE MCStepTree -----------------------------
(***************************************************************************)
(* Model checking of StepTree.  No operator orders or CHOOSEs among steps, *)
(* scenarios or workers.                                                   *)
(***************************************************************************)
EXTENDS StepTree, TLC

Symmetry ==
  Permutations(Step) \cup Permutations(Scenario) \cup Permutations(Worker)
=============================================================================
