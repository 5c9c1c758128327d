-------------------------------- MODULE Fleet --------------------------------
(***************************************************************************)
(* What the modules of the startup share: the nodes, the gate that Helm    *)
(* sets for all of them, and the budget of failures.                       *)
(***************************************************************************)
EXTENDS Integers, Sequences, FiniteSets

CONSTANTS
  Nodes,      \* machines
  Known,      \* those where the plugin has run before
  None,       \* no directory, no manager, nothing read
  Faults,     \* what may fail: see the actions
  MaxFaults   \* bound: failures in one behaviour

ASSUME FleetAssumption == None \notin Nodes /\ Known \subseteq Nodes /\ MaxFaults \in Nat

VARIABLES
  core,     \* the HAMivNPUCore gate
  faults    \* failures so far

Fail(f) == f \in Faults /\ faults < MaxFaults /\ faults' = faults + 1

Works == UNCHANGED faults
=============================================================================
