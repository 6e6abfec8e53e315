-------------------------------- MODULE MCParts --------------------------------
(***************************************************************************)
(* The components that share no state with each other, for TLC: a          *)
(* behaviour works one of them, whose name is in part, and leaves the      *)
(* others as they begin.  (The pipeline executor, which calls what         *)
(* AgentFleet, AgentProcess and TraceTree model, and the tables of the     *)
(* memory service have runs of their own.)                                 *)
(***************************************************************************)
EXTENDS AgentFleet, AgentProcess, TraceTree, MemoryPruner, SkillInstall,
        KeyRing, RateLimiter

CONSTANT Parts   \* the components to work

VARIABLE part

\* What an agent may say, all braces matched: whole receipts, one of them
\* with an object inside, and text, in braces or not.
Matched == {<<"open", "full", "close">>, <<"open", "bare", "close">>,
            <<"open", "full", "open", "close", "close">>,
            <<"prose">>, <<"open", "prose", "close">>}
\* The same with a brace that stands alone, or in a string.
Unmatched == {<<"open", "full", "close">>, <<"open", "full", "quoted", "close">>,
              <<"close">>, <<"open">>, <<"prose">>}

\* A budget file that is not there, and one whose limit is just reached.
FirstBudgets == {Blank, [limit |-> LimitSet, spent |-> LimitSet]}

MCInit ==
  /\ FleetInit /\ AgentInit /\ TraceInit /\ PruneInit /\ InstallInit
  /\ KeyInit /\ LimiterInit
  /\ part \in Parts
  /\ budget \in IF part = "fleet" THEN FirstBudgets ELSE {Blank}

nodeVars == <<fleetVars, agentVars, traceVars, pruneVars, installVars>>
serviceVars == <<keyVars, limiterVars>>

MCNext ==
  /\ UNCHANGED part
  /\ \/ /\ part = "fleet" /\ FleetNext
        /\ UNCHANGED <<agentVars, traceVars, pruneVars, installVars, serviceVars>>
     \/ /\ part = "agent" /\ AgentNext
        /\ UNCHANGED <<fleetVars, traceVars, pruneVars, installVars, serviceVars>>
     \/ /\ part = "trace" /\ TraceNext
        /\ UNCHANGED <<fleetVars, agentVars, pruneVars, installVars, serviceVars>>
     \/ /\ part = "prune" /\ PruneNext
        /\ UNCHANGED <<fleetVars, agentVars, traceVars, installVars, serviceVars>>
     \/ /\ part = "install" /\ InstallNext
        /\ UNCHANGED <<fleetVars, agentVars, traceVars, pruneVars, serviceVars>>
     \/ part = "keys" /\ KeyNext /\ UNCHANGED <<nodeVars, limiterVars>>
     \/ part = "limiter" /\ LimiterNext /\ UNCHANGED <<nodeVars, keyVars>>

MCSpec ==
  /\ MCInit
  /\ [][MCNext]_<<part, nodeVars, serviceVars>>
  /\ FleetFairness /\ AgentFairness

-----------------------------------------------------------------------------
(* The type invariants of the seven modules: every variable holds a value  *)
(* of its kind, whatever the others of its component do.                   *)
PartsTypeOK ==
  /\ FleetTypeOK /\ AgentTypeOK /\ TraceTypeOK /\ PruneTypeOK /\ InstallTypeOK
  /\ KeyTypeOK /\ LimiterTypeOK
=============================================================================
