-------------------------- MODULE MCPipelineExecutor --------------------------
(***************************************************************************)
(* PipelineExecutor for TLC.  Three of the phases of a real run are enough *)
(* to have one that is verified, one before it and one after it.           *)
(***************************************************************************)
EXTENDS PipelineExecutor, TLC

CONSTANTS planner, builder, evolve

ThreePhases == {<<planner, builder, evolve>>}
TwoPhases == {<<planner, builder>>}
OnePhase == {<<planner>>}

\* A caller who runs a session again with one phase more.
GrowingPlans == {<<planner>>, <<planner, builder>>}

Symmetry == Permutations(Procs)
=============================================================================
