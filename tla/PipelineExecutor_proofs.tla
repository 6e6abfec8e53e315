------------------------ MODULE PipelineExecutor_proofs ------------------------
(***************************************************************************)
(* Proofs about PipelineExecutor for any number of processes, any phases,  *)
(* any plans and any limit.                                                *)
(***************************************************************************)
EXTENDS PipelineExecutor, TLAPS

\* The labels at which a process has a session in memory, and those at which it
\* is inside an iteration of the loop of run.
Loaded ==
  {"resume", "loop", "attempt", "invoke", "agent", "verify", "receipt", "commit", "halt"}

InPhase == {"attempt", "invoke", "agent", "verify", "receipt", "commit", "halt"}

LocalOK ==
  \A p \in Procs :
    /\ pc[p] \in Loaded \/ open[p] = "state" => mem[p] \in SessionState
    /\ pc[p] \in InPhase => todo[p] # <<>> /\ attempt[p] >= 1
    /\ open[p] \in {"receipt", "diagnostic"} => todo[p] # <<>>

TypeInv == TypeOK /\ LocalOK

USE PhasesAssumption, LimitAssumption, FlagAssumption, FilesAssumption

-----------------------------------------------------------------------------
\* What Save and the phase at hand are.

LEMMA PhaseType ==
  ASSUME TypeInv, NEW p \in Procs, todo[p] # <<>>
  PROVE  Phase(p) \in Phases /\ Tail(todo[p]) \in Seq(Phases)
BY DEF TypeInv, TypeOK, Phase

LEMMA SaveType ==
  ASSUME TypeInv, NEW p \in Procs, NEW m \in SessionState, Save(p, m)
  PROVE  /\ state' \in SessionState \cup {NoFile, Torn}
         /\ open' \in [Procs -> Files \cup {"none"}]
         /\ mem' \in [Procs -> SessionState \cup {NoFile}]
         /\ mem'[p] = m /\ open'[p] = "state"
         /\ \A q \in Procs \ {p} : mem'[q] = mem[q] /\ open'[q] = open[q]
BY DEF TypeInv, TypeOK, Save, Files

LEMMA GotoType ==
  ASSUME TypeInv, NEW p \in Procs, NEW l \in Labels, Goto(p, l)
  PROVE  /\ pc' \in [Procs -> Labels]
         /\ pc'[p] = l
         /\ \A q \in Procs \ {p} : pc'[q] = pc[q]
BY DEF TypeInv, TypeOK, Goto

\* The steps that save the session and go on.
LEMMA SaveStep ==
  ASSUME TypeInv, NEW p \in Procs, NEW m \in SessionState, Save(p, m),
         NEW l \in Labels, Goto(p, l), UNCHANGED <<lock, notes, history>>,
         todo' \in [Procs -> Seq(Phases)], dropped' \in [Procs -> SUBSET Phases],
         attempt' \in [Procs -> Nat],
         \A q \in Procs \ {p} : todo'[q] = todo[q] /\ attempt'[q] = attempt[q],
         l \in InPhase => todo'[p] # <<>> /\ attempt'[p] >= 1
  PROVE  TypeInv'
<1> USE DEF notes, history, Files
<1>1. TypeOK'
  BY SaveType, GotoType DEF TypeInv, TypeOK
<1>2. ASSUME NEW q \in Procs, q # p
      PROVE  /\ pc'[q] \in Loaded \/ open'[q] = "state" => mem'[q] \in SessionState
             /\ pc'[q] \in InPhase => todo'[q] # <<>> /\ attempt'[q] >= 1
             /\ open'[q] \in {"receipt", "diagnostic"} => todo'[q] # <<>>
  <2>1. pc'[q] = pc[q] /\ mem'[q] = mem[q] /\ open'[q] = open[q]
    BY <1>2, SaveType, GotoType
  <2>2. todo'[q] = todo[q] /\ attempt'[q] = attempt[q]
    BY <1>2
  <2>3. LocalOK
    BY DEF TypeInv
  <2> QED
    BY <2>1, <2>2, <2>3 DEF LocalOK
<1>3. /\ pc'[p] = l /\ open'[p] = "state" /\ mem'[p] \in SessionState
  BY SaveType, GotoType
<1> QED
  BY <1>1, <1>2, <1>3 DEF TypeInv, LocalOK

LEMMA ForgetType ==
  ASSUME TypeInv, NEW p \in Procs, Forget(p),
         UNCHANGED <<state, notes, accepted, robbed>>,
         lock' \in Locks \cup {NoFile}, crashes' \in 0 .. MaxCrashes
  PROVE  TypeInv'
BY DEF TypeInv, TypeOK, LocalOK, Forget, Labels, Files, Loaded, InPhase, notes

LEMMA NewSession ==
  ASSUME NEW plan \in Seq(Phases)
  PROVE  NewState(plan) \in SessionState
BY DEF NewState, SessionState

-----------------------------------------------------------------------------
(***************************************************************************)
(* Type correctness.  The part of TypeInv that is not in TypeOK says that  *)
(* a step that uses the session in memory, or the phase at hand, has one.  *)
(***************************************************************************)
LEMMA TypeStep == TypeInv /\ [Next]_vars => TypeInv'
<1> SUFFICES ASSUME TypeInv, [Next]_vars PROVE TypeInv'
  OBVIOUS
<1> USE DEF At, Labels, Files, notes, files, place, procs, history
<1>1. ASSUME NEW p \in Procs, FillState(p) PROVE TypeInv'
  BY <1>1 DEF TypeInv, TypeOK, LocalOK, FillState, Loaded, InPhase
<1>2. ASSUME NEW p \in Procs, FillReceipt(p) PROVE TypeInv'
  <2>1. Phase(p) \in Phases
    BY <1>2, PhaseType DEF FillReceipt, TypeInv, LocalOK
  <2> QED
    BY <1>2, <2>1 DEF TypeInv, TypeOK, LocalOK, FillReceipt, Loaded, InPhase
<1>3. ASSUME NEW p \in Procs, FillDiagnostic(p) PROVE TypeInv'
  <2>1. Phase(p) \in Phases
    BY <1>3, PhaseType DEF FillDiagnostic, TypeInv, LocalOK
  <2> QED
    BY <1>3, <2>1 DEF TypeInv, TypeOK, LocalOK, FillDiagnostic, Loaded, InPhase
<1>4. ASSUME NEW p \in Procs, NEW plan \in Plans, CallRun(p, plan) PROVE TypeInv'
  <2>1. plan \in Seq(Phases)
    OBVIOUS
  <2> QED
    BY <1>4, <2>1, GotoType DEF TypeInv, TypeOK, LocalOK, CallRun, Loaded, InPhase
<1>5. ASSUME NEW p \in Procs, CallResume(p) PROVE TypeInv'
  <2> DEFINE m == [state EXCEPT !.halted = FALSE]
  <2>0. state \in SessionState
    BY <1>5 DEF TypeInv, TypeOK, CallResume, Readable
  <2>1. m \in SessionState
    BY <2>0 DEF SessionState
  <2>2. mem' = [mem EXCEPT ![p] = m]
    BY <1>5 DEF CallResume
  <2>3. Goto(p, "resume") /\ UNCHANGED <<files, open, place, history>>
    BY <1>5 DEF CallResume
  <2> HIDE DEF m
  <2> QED
    BY <2>1, <2>2, <2>3, GotoType DEF TypeInv, TypeOK, LocalOK, Loaded, InPhase
<1>6. ASSUME NEW p \in Procs, ResumeSave(p) PROVE TypeInv'
  <2>1. mem[p] \in SessionState
    BY <1>6 DEF TypeInv, LocalOK, ResumeSave, Loaded
  <2>2. mem[p].phases \in Seq(Phases) /\ ToSet(mem[p].done) \subseteq Phases
    BY <2>1 DEF SessionState, ToSet
  <2> QED
    BY <1>6, <2>1, <2>2, SaveType, GotoType
    DEF TypeInv, TypeOK, LocalOK, ResumeSave, Loaded, InPhase
<1>7. ASSUME NEW p \in Procs, LockOpen(p) PROVE TypeInv'
  BY <1>7, GotoType DEF TypeInv, TypeOK, LocalOK, LockOpen, Loaded, InPhase, Locks
<1>8. ASSUME NEW p \in Procs, LockWrite(p) PROVE TypeInv'
  BY <1>8, GotoType DEF TypeInv, TypeOK, LocalOK, LockWrite, Loaded, InPhase, Locks
<1>9. ASSUME NEW p \in Procs, LockIsStale(p) PROVE TypeInv'
  BY <1>9, GotoType DEF TypeInv, TypeOK, LocalOK, LockIsStale, Loaded, InPhase
<1>10. ASSUME NEW p \in Procs, LockIsHeld(p) PROVE TypeInv'
  BY <1>10, ForgetType DEF TypeInv, TypeOK, LockIsHeld
<1>11. ASSUME NEW p \in Procs, LockUnlink(p) PROVE TypeInv'
  <2>1. robbed' \in BOOLEAN
    BY <1>11 DEF TypeInv, TypeOK, LockUnlink
  <2> QED
    BY <1>11, <2>1, GotoType DEF TypeInv, TypeOK, LocalOK, LockUnlink, Loaded, InPhase
<1>12. ASSUME NEW p \in Procs, Release(p) PROVE TypeInv'
  BY <1>12, ForgetType DEF TypeInv, TypeOK, Release
<1>13. ASSUME NEW p \in Procs, Load(p) PROVE TypeInv'
  <2>1. NewState(todo[p]) \in SessionState
    BY NewSession DEF TypeInv, TypeOK
  <2>2. UNCHANGED <<lock, notes, place, history>>
    BY <1>13 DEF Load
  <2>3. CASE Save(p, NewState(todo[p])) /\ Goto(p, "loop")
    BY <2>1, <2>2, <2>3, SaveStep DEF TypeInv, TypeOK, InPhase
  <2>4. CASE Goto(p, "release") /\ UNCHANGED <<state, open, mem>>
    BY <1>13, <2>2, <2>4, GotoType DEF Load, TypeInv, TypeOK, LocalOK, Loaded, InPhase
  <2>5. CASE /\ Readable /\ mem' = [mem EXCEPT ![p] = state]
             /\ Goto(p, "loop") /\ UNCHANGED <<state, open>>
    BY <1>13, <2>2, <2>5, GotoType
    DEF Load, TypeInv, TypeOK, LocalOK, Readable, Loaded, InPhase
  <2> QED
    BY <1>13, <2>3, <2>4, <2>5 DEF Load
<1>14. ASSUME NEW p \in Procs, SkipPhase(p) PROVE TypeInv'
  BY <1>14, PhaseType DEF TypeInv, TypeOK, LocalOK, SkipPhase, Loaded, InPhase
<1>15. ASSUME NEW p \in Procs, BeginPhase(p) PROVE TypeInv'
  <2>1. mem[p] \in SessionState /\ Phase(p) \in Phases
    BY <1>15, PhaseType DEF TypeInv, TypeOK, LocalOK, BeginPhase, Loaded, InPhase
  <2> DEFINE m == [mem[p] EXCEPT !.current = Phase(p)]
  <2>2. m \in SessionState
    BY <2>1 DEF SessionState
  <2>3. Save(p, m) /\ Goto(p, "attempt") /\ UNCHANGED <<lock, notes, history>>
    BY <1>15 DEF BeginPhase
  <2>4. /\ todo' \in [Procs -> Seq(Phases)] /\ dropped' \in [Procs -> SUBSET Phases]
        /\ attempt' \in [Procs -> Nat]
        /\ \A q \in Procs \ {p} : todo'[q] = todo[q] /\ attempt'[q] = attempt[q]
        /\ todo'[p] # <<>> /\ attempt'[p] >= 1
    BY <1>15, <2>1 DEF BeginPhase, TypeInv, TypeOK, LocalOK, InPhase
  <2> HIDE DEF m
  <2> QED
    BY <2>2, <2>3, <2>4, SaveStep DEF InPhase
<1>16. ASSUME NEW p \in Procs, Commit(p) PROVE TypeInv'
  <2>1. mem[p] \in SessionState /\ Phase(p) \in Phases /\ Tail(todo[p]) \in Seq(Phases)
    BY <1>16, PhaseType DEF TypeInv, TypeOK, LocalOK, Commit, Loaded, InPhase
  <2> DEFINE m == [mem[p] EXCEPT !.done = Append(@, Phase(p)), !.current = NoPhase]
  <2>2. m \in SessionState
    <3>1. Append(mem[p].done, Phase(p)) \in Seq(Phases)
      BY <2>1 DEF SessionState
    <3> QED
      BY <2>1, <3>1 DEF SessionState
  <2>3. Save(p, m) /\ Goto(p, "loop") /\ UNCHANGED <<lock, notes, history>>
    BY <1>16 DEF Commit
  <2>4. /\ todo' \in [Procs -> Seq(Phases)] /\ dropped' \in [Procs -> SUBSET Phases]
        /\ attempt' \in [Procs -> Nat]
        /\ \A q \in Procs \ {p} : todo'[q] = todo[q] /\ attempt'[q] = attempt[q]
    BY <1>16, <2>1 DEF Commit, TypeInv, TypeOK, LocalOK, InPhase
  <2> HIDE DEF m
  <2> QED
    BY <2>2, <2>3, <2>4, SaveStep DEF InPhase
<1>17. ASSUME NEW p \in Procs, Halt(p) PROVE TypeInv'
  <2>1. mem[p] \in SessionState
    BY <1>17, PhaseType DEF TypeInv, TypeOK, LocalOK, Halt, Loaded, InPhase
  <2> DEFINE m == [mem[p] EXCEPT !.halted = TRUE]
  <2>2. m \in SessionState
    BY <2>1 DEF SessionState
  <2>3. Save(p, m) /\ Goto(p, "release") /\ UNCHANGED <<lock, notes, history>>
    BY <1>17 DEF Halt
  <2>4. /\ todo' \in [Procs -> Seq(Phases)] /\ dropped' \in [Procs -> SUBSET Phases]
        /\ attempt' \in [Procs -> Nat]
        /\ \A q \in Procs \ {p} : todo'[q] = todo[q] /\ attempt'[q] = attempt[q]
    BY <1>17, <2>1 DEF Halt, TypeInv, TypeOK, LocalOK, InPhase
  <2> HIDE DEF m
  <2> QED
    BY <2>2, <2>3, <2>4, SaveStep DEF InPhase
<1>18. ASSUME NEW p \in Procs, Finish(p) PROVE TypeInv'
  <2>1. mem[p] \in SessionState
    BY <1>18, PhaseType DEF TypeInv, TypeOK, LocalOK, Finish, Loaded, InPhase
  <2> DEFINE m == [mem[p] EXCEPT !.finished = TRUE]
  <2>2. m \in SessionState
    BY <2>1 DEF SessionState
  <2>3. Save(p, m) /\ Goto(p, "release") /\ UNCHANGED <<lock, notes, history>>
    BY <1>18 DEF Finish
  <2>4. /\ todo' \in [Procs -> Seq(Phases)] /\ dropped' \in [Procs -> SUBSET Phases]
        /\ attempt' \in [Procs -> Nat]
        /\ \A q \in Procs \ {p} : todo'[q] = todo[q] /\ attempt'[q] = attempt[q]
    BY <1>18, <2>1 DEF Finish, TypeInv, TypeOK, LocalOK, InPhase
  <2> HIDE DEF m
  <2> QED
    BY <2>2, <2>3, <2>4, SaveStep DEF InPhase
<1>19. ASSUME NEW p \in Procs, Attempt(p) PROVE TypeInv'
  <2>1. mem[p] \in SessionState /\ Phase(p) \in Phases /\ attempt[p] - 1 \in Nat
    BY <1>19, PhaseType DEF TypeInv, TypeOK, LocalOK, Attempt, Loaded, InPhase
  <2> DEFINE m == [mem[p] EXCEPT !.retries[Phase(p)] = attempt[p] - 1]
  <2>2. m \in SessionState
    BY <2>1 DEF SessionState
  <2>3. Save(p, m) /\ Goto(p, "invoke") /\ UNCHANGED <<lock, notes, history>>
    BY <1>19 DEF Attempt
  <2>4. /\ todo' \in [Procs -> Seq(Phases)] /\ dropped' \in [Procs -> SUBSET Phases]
        /\ attempt' \in [Procs -> Nat]
        /\ \A q \in Procs \ {p} : todo'[q] = todo[q] /\ attempt'[q] = attempt[q]
        /\ todo'[p] # <<>> /\ attempt'[p] >= 1
    BY <1>19, <2>1 DEF Attempt, TypeInv, TypeOK, LocalOK, InPhase
  <2> HIDE DEF m
  <2> QED
    BY <2>2, <2>3, <2>4, SaveStep DEF InPhase
<1>20. ASSUME NEW p \in Procs, GiveUp(p) PROVE TypeInv'
  BY <1>20, GotoType DEF TypeInv, TypeOK, LocalOK, GiveUp, Loaded, InPhase
<1>21. ASSUME NEW p \in Procs, Invoke(p) \/ BudgetStops(p) PROVE TypeInv'
  BY <1>21, GotoType DEF TypeInv, TypeOK, LocalOK, Invoke, BudgetStops, Loaded, InPhase
<1>22. ASSUME NEW p \in Procs, AgentStreams(p) PROVE TypeInv'
  <2>1. ThisWal(p) \in Phases \X Nat
    BY <1>22, PhaseType DEF TypeInv, TypeOK, LocalOK, AgentStreams, InPhase, ThisWal
  <2> QED
    BY <1>22, <2>1 DEF TypeInv, TypeOK, LocalOK, AgentStreams, Loaded, InPhase
<1>23. ASSUME NEW p \in Procs, AgentSucceeds(p) PROVE TypeInv'
  <2>1. Phase(p) \in Phases
    BY <1>23, PhaseType DEF TypeInv, LocalOK, AgentSucceeds, InPhase
  <2> QED
    BY <1>23, <2>1, GotoType
    DEF TypeInv, TypeOK, LocalOK, AgentSucceeds, Loaded, InPhase
<1>24. ASSUME NEW p \in Procs, AgentFails(p) \/ VerifierFails(p) PROVE TypeInv'
  BY <1>24, GotoType
  DEF TypeInv, TypeOK, LocalOK, AgentFails, VerifierFails, NextAttempt, Loaded, InPhase
<1>25. ASSUME NEW p \in Procs, VerifierPasses(p) PROVE TypeInv'
  <2>1. Phase(p) \in Phases
    BY <1>25, PhaseType DEF TypeInv, LocalOK, VerifierPasses, InPhase
  <2> QED
    BY <1>25, <2>1, GotoType
    DEF TypeInv, TypeOK, LocalOK, VerifierPasses, Loaded, InPhase
<1>26. ASSUME NEW p \in Procs, WriteReceipt(p) PROVE TypeInv'
  BY <1>26, GotoType DEF TypeInv, TypeOK, LocalOK, WriteReceipt, Loaded, InPhase
<1>27. ASSUME NEW p \in Procs, Crash(p) PROVE TypeInv'
  BY <1>27, ForgetType DEF TypeInv, TypeOK, Crash
<1>28. CASE LockAges
  BY <1>28 DEF TypeInv, TypeOK, LocalOK, LockAges, Locks
<1>29. CASE UNCHANGED vars
  BY <1>29 DEF TypeInv, TypeOK, LocalOK, vars, Loaded, InPhase
<1> QED
  BY <1>1, <1>2, <1>3, <1>4, <1>5, <1>6, <1>7, <1>8, <1>9, <1>10, <1>11, <1>12,
     <1>13, <1>14, <1>15, <1>16, <1>17, <1>18, <1>19, <1>20, <1>21, <1>22, <1>23,
     <1>24, <1>25, <1>26, <1>27, <1>28, <1>29
  DEF Next, Call, Step, Fill, AcquireLock, Run, RunPhase, AgentExits, Verify

LEMMA TypeInit == Init => TypeInv
<1> SUFFICES ASSUME Init PROVE TypeInv
  OBVIOUS
<1>1. <<>> \in Seq(Phases) /\ {} \in SUBSET Phases
  OBVIOUS
<1>2. todo \in [Procs -> Seq(Phases)] /\ dropped \in [Procs -> SUBSET Phases]
  BY <1>1 DEF Init
<1>3. crashes \in 0 .. MaxCrashes
  BY DEF Init
<1>4. TypeOK
  BY <1>2, <1>3 DEF Init, TypeOK, Labels, Files
<1>5. LocalOK
  BY DEF Init, LocalOK, Loaded, InPhase
<1> QED
  BY <1>4, <1>5 DEF TypeInv

\* Every variable holds a value of its kind in every reachable state.
THEOREM TypeCorrect == Spec => []TypeOK
<1>1. Spec => []TypeInv
  BY TypeInit, TypeStep, PTL DEF Spec
<1>2. TypeInv => TypeOK
  BY DEF TypeInv
<1> QED
  BY <1>1, <1>2, PTL

-----------------------------------------------------------------------------
(***************************************************************************)
(* The lock.  Until the lock file of a live holder is unlinked, the file   *)
(* on disk is the one the holder created; so there is one holder at most.  *)
(***************************************************************************)
LockInv == ~robbed => \A p \in Procs : Holds(p) => lock # NoFile /\ lock.owner = p

Outside == {"idle", "resume", "lockOpen", "lockRead", "lockUnlink"}

\* Most steps neither touch the lock nor make a holder of anybody.
LEMMA LockKept ==
  ASSUME LockInv, UNCHANGED <<lock, robbed>>, NEW p \in Procs,
         pc'[p] \in Outside \/ pc[p] \notin Outside,
         \A q \in Procs \ {p} : pc'[q] = pc[q]
  PROVE  LockInv'
BY DEF LockInv, Holds, Working, Outside

LEMMA LockStep == TypeInv /\ LockInv /\ [Next]_vars => LockInv'
<1> SUFFICES ASSUME TypeInv, LockInv, [Next]_vars PROVE LockInv'
  OBVIOUS
<1> USE DEF At, notes, files, place, procs, history
<1>1. ASSUME NEW p \in Procs, Fill(p) \/ AgentStreams(p) \/ SkipPhase(p) PROVE LockInv'
  BY <1>1
  DEF Fill, FillState, FillReceipt, FillDiagnostic, AgentStreams, SkipPhase,
      LockInv, Holds, Working
<1>2. ASSUME NEW p \in Procs, Call(p) \/ ResumeSave(p) \/ LockIsStale(p) PROVE LockInv'
  <2>1. \E l \in {"resume", "lockOpen", "lockUnlink"} : Goto(p, l)
    BY <1>2 DEF Call, CallRun, CallResume, ResumeSave, LockIsStale
  <2>2. UNCHANGED <<lock, robbed>>
    BY <1>2 DEF Call, CallRun, CallResume, ResumeSave, LockIsStale
  <2> QED
    BY <2>1, <2>2, GotoType, LockKept DEF Labels, Outside
<1>3. ASSUME NEW p \in Procs, LockOpen(p) PROVE LockInv'
  <2>1. CASE lock = NoFile /\ lock' = [owner |-> p, text |-> "empty"]
    <3>1. lock' \in Locks /\ lock'.owner = p /\ lock' # NoFile
      BY <2>1, FilesAssumption DEF Locks
    <3>2. pc'[p] = "lockWrite" /\ \A q \in Procs \ {p} : pc'[q] = pc[q]
      BY <1>3, <2>1, GotoType DEF LockOpen, Labels
    <3> QED
      BY <1>3, <2>1, <3>1, <3>2 DEF LockOpen, LockInv, Holds, Working
  <2>2. CASE lock # NoFile /\ Goto(p, "lockRead") /\ UNCHANGED lock
    BY <1>3, <2>2, GotoType, LockKept DEF LockOpen, Labels, Outside
  <2> QED
    BY <1>3, <2>1, <2>2 DEF LockOpen
<1>4. ASSUME NEW p \in Procs, LockWrite(p) PROVE LockInv'
  <2>1. lock # NoFile => lock \in Locks
    BY DEF TypeInv, TypeOK
  <2>2. lock # NoFile => lock' # NoFile /\ lock'.owner = lock.owner
    BY <1>4, <2>1 DEF LockWrite, Locks
  <2> QED
    BY <1>4, <2>2, GotoType DEF LockWrite, Labels, LockInv, Holds, Working
<1>5. ASSUME NEW p \in Procs, LockUnlink(p) PROVE LockInv'
  <2>1. SUFFICES ASSUME ~robbed' PROVE \A q \in Procs : ~Holds(q)'
    BY DEF LockInv
  <2>2. ~robbed /\ ~Holds(lock.owner)
    BY <1>5, <2>1, ZenonT(30) DEF LockUnlink
  <2>3. \A q \in Procs : ~Holds(q)
    BY <2>2 DEF LockInv
  <2>4. pc'[p] = "lockOpen" /\ \A q \in Procs \ {p} : pc'[q] = pc[q]
    BY <1>5, GotoType DEF LockUnlink, Labels
  <2> QED
    BY <2>3, <2>4 DEF Holds, Working
<1>6. ASSUME NEW p \in Procs, LockIsHeld(p) \/ Crash(p) PROVE LockInv'
  <2>1. pc' = [pc EXCEPT ![p] = "idle"] /\ UNCHANGED <<lock, robbed>>
    BY <1>6 DEF LockIsHeld, Crash, Forget
  <2> QED
    BY <2>1, LockKept DEF TypeInv, TypeOK, Outside
<1>7. ASSUME NEW p \in Procs, Release(p) PROVE LockInv'
  <2>1. Holds(p) /\ pc' = [pc EXCEPT ![p] = "idle"] /\ UNCHANGED robbed
    BY <1>7 DEF Release, Forget, Holds, Working
  <2>2. pc'[p] = "idle" /\ \A q \in Procs \ {p} : pc'[q] = pc[q]
    BY <2>1 DEF TypeInv, TypeOK
  <2>3. SUFFICES ASSUME ~robbed' PROVE \A q \in Procs : ~Holds(q)'
    BY DEF LockInv
  <2>4. \A q \in Procs \ {p} : ~Holds(q)
    BY <2>1, <2>3 DEF LockInv
  <2> QED
    BY <2>2, <2>4 DEF Holds, Working
<1>8. ASSUME NEW p \in Procs,
             \/ Load(p) \/ BeginPhase(p) \/ Commit(p) \/ Halt(p) \/ Finish(p)
             \/ RunPhase(p)
      PROVE  LockInv'
  <2>1. pc[p] \notin Outside /\ (\E l \in Labels : Goto(p, l)) /\ UNCHANGED <<lock, robbed>>
    BY <1>8
    DEF Load, BeginPhase, Commit, Halt, Finish, RunPhase, Attempt, GiveUp, Invoke,
        BudgetStops, AgentExits, AgentSucceeds, AgentFails, Verify, VerifierPasses,
        VerifierFails, NextAttempt, WriteReceipt, Outside, Labels
  <2> QED
    BY <2>1, GotoType, LockKept
<1>9. CASE LockAges
  <2>1. lock' # NoFile /\ lock'.owner = lock.owner
    BY <1>9 DEF LockAges, TypeInv, TypeOK, Locks
  <2> QED
    BY <1>9, <2>1 DEF LockAges, LockInv, Holds, Working
<1>10. CASE UNCHANGED vars
  BY <1>10 DEF vars, LockInv, Holds, Working
<1> QED
  BY <1>1, <1>2, <1>3, <1>4, <1>5, <1>6, <1>7, <1>8, <1>9, <1>10
  DEF Next, Step, AcquireLock, Run

\* However many processes call run and resume on a session, and wherever they
\* die, two of them work on it at once only after acquireLock has unlinked the
\* lock file of a process that was alive and held the lock.
THEOREM LockExcludes == Spec => []ExclusiveUnlessRobbed
<1>1. Init => LockInv
  BY DEF Init, LockInv, Holds, Working
<1>2. Spec => []LockInv
  BY <1>1, TypeInit, TypeStep, LockStep, PTL DEF Spec
<1>3. LockInv => ExclusiveUnlessRobbed
  BY DEF LockInv, ExclusiveUnlessRobbed, MutualExclusion, Holds
<1> QED
  BY <1>2, <1>3, PTL

-----------------------------------------------------------------------------
(***************************************************************************)
(* The record of complete phases.  Two processes may both believe that     *)
(* they hold the lock, load an old record and write over a newer one: what *)
(* is proved here holds for every copy of the record in the file or in a   *)
(* process's memory, so that none of that can break it.                    *)
(***************************************************************************)
Sound(s) == IsInjective(s.done) /\ ToSet(s.done) \subseteq accepted

\* What process p knows of its copy, and of the phase it is at.
CopyOK(p) ==
  /\ pc[p] \in Loaded \/ open[p] = "state" => Sound(mem[p])
  /\ pc[p] \in InPhase => ~Contains(mem[p].done, Phase(p))
  /\ pc[p] \in {"receipt", "commit"} => Phase(p) \in accepted

RecordInv ==
  /\ Readable => Sound(state)
  /\ \A p \in Procs : CopyOK(p)

LEMMA AppendSound ==
  ASSUME NEW s \in Seq(Phases), NEW ph \in Phases, IsInjective(s), ~Contains(s, ph)
  PROVE  /\ IsInjective(Append(s, ph))
         /\ ToSet(Append(s, ph)) = ToSet(s) \cup {ph}
<1>1. /\ DOMAIN s = 1 .. Len(s) /\ Len(s) \in Nat
      /\ DOMAIN Append(s, ph) = 1 .. Len(s) + 1
      /\ \A i \in 1 .. Len(s) : Append(s, ph)[i] = s[i] /\ s[i] # ph
      /\ Append(s, ph)[Len(s) + 1] = ph
  BY DEF Contains
<1>2. IsInjective(Append(s, ph))
  BY <1>1 DEF IsInjective
<1>3. ToSet(Append(s, ph)) = ToSet(s) \cup {ph}
  BY <1>1 DEF ToSet
<1> QED
  BY <1>2, <1>3

\* What is accepted stays accepted, so a copy that nobody touches stays sound.
LEMMA OthersKept ==
  ASSUME RecordInv, NEW p \in Procs, accepted \subseteq accepted',
         \A q \in Procs \ {p} :
           pc'[q] = pc[q] /\ open'[q] = open[q] /\ mem'[q] = mem[q] /\ todo'[q] = todo[q],
         Readable' => Sound(state)', CopyOK(p)'
  PROVE  RecordInv'
<1>1. ASSUME NEW q \in Procs, q # p PROVE CopyOK(q)'
  <2>1. CopyOK(q)
    BY DEF RecordInv
  <2>2. pc'[q] = pc[q] /\ open'[q] = open[q] /\ mem'[q] = mem[q] /\ todo'[q] = todo[q]
    BY <1>1
  <2> QED
    BY <2>1, <2>2 DEF CopyOK, Sound, Phase
<1> QED
  BY <1>1 DEF RecordInv

\* The steps that save a session m.
LEMMA RecordSave ==
  ASSUME TypeInv, RecordInv, NEW p \in Procs, NEW m \in SessionState, Save(p, m),
         NEW l \in Labels \ {"receipt", "commit"}, Goto(p, l), UNCHANGED accepted,
         \A q \in Procs \ {p} : todo'[q] = todo[q],
         Sound(m), l \in InPhase => ~Contains(m.done, Phase(p)')
  PROVE  RecordInv'
<1>1. ~Readable'
  BY DEF Save, Readable
<1>2. mem'[p] = m /\ pc'[p] = l
  BY SaveType, GotoType
<1>3. CopyOK(p)'
  BY <1>2 DEF CopyOK, Sound
<1> QED
  BY <1>1, <1>3, SaveType, GotoType, OthersKept

\* The steps that go on with the copy and the phase they have.
LEMMA RecordMove ==
  ASSUME TypeInv, RecordInv, NEW p \in Procs, UNCHANGED <<state, mem, todo>>,
         NEW l \in Labels, Goto(p, l), accepted \subseteq accepted',
         \A q \in Procs \ {p} : open'[q] = open[q],
         open'[p] = "state" => open[p] = "state",
         l \in Loaded => pc[p] \in Loaded,
         l \in InPhase => pc[p] \in InPhase,
         l \in {"receipt", "commit"} => Phase(p) \in accepted'
  PROVE  RecordInv'
<1>1. pc'[p] = l /\ \A q \in Procs \ {p} : pc'[q] = pc[q]
  BY GotoType
<1>2. Readable' => Sound(state)'
  BY DEF RecordInv, Readable, Sound
<1>3. CopyOK(p)'
  <2>1. CopyOK(p)
    BY DEF RecordInv
  <2> QED
    BY <1>1, <2>1 DEF CopyOK, Sound, Phase
<1> QED
  BY <1>1, <1>2, <1>3, OthersKept

LEMMA RecordForget ==
  ASSUME TypeInv, RecordInv, NEW p \in Procs, Forget(p), UNCHANGED <<state, accepted>>
  PROVE  RecordInv'
<1>1. Readable' => Sound(state)'
  BY DEF RecordInv, Readable, Sound
<1>2. CopyOK(p)'
  BY DEF Forget, TypeInv, TypeOK, CopyOK, Loaded, InPhase
<1> QED
  BY <1>1, <1>2, OthersKept DEF Forget, TypeInv, TypeOK

LEMMA RecordStep == TypeInv /\ RecordInv /\ [Next]_vars => RecordInv'
<1> SUFFICES ASSUME TypeInv, RecordInv, [Next]_vars PROVE RecordInv'
  OBVIOUS
<1> USE DEF At, notes, files, place, procs, history
<1>c. \A p \in Procs : CopyOK(p)
  BY DEF RecordInv
<1>1. ASSUME NEW p \in Procs, FillState(p) PROVE RecordInv'
  <2>1. Sound(mem[p]) /\ UNCHANGED accepted
    BY <1>1, <1>c DEF FillState, CopyOK
  <2>2. Readable' => Sound(state)'
    BY <1>1, <2>1 DEF FillState, Readable, Sound
  <2>3. CopyOK(p)'
    BY <1>1, <1>c DEF FillState, CopyOK, Sound, Phase
  <2>4. \A q \in Procs \ {p} : open'[q] = open[q]
    BY <1>1 DEF FillState, TypeInv, TypeOK
  <2> QED
    BY <1>1, <2>2, <2>3, <2>4, OthersKept DEF FillState
<1>2. ASSUME NEW p \in Procs, FillReceipt(p) \/ FillDiagnostic(p) PROVE RecordInv'
  <2>1. UNCHANGED <<state, pc, mem, todo, accepted>> /\ open' = [open EXCEPT ![p] = "none"]
    BY <1>2 DEF FillReceipt, FillDiagnostic
  <2>2. open'[p] = "none" /\ \A q \in Procs \ {p} : open'[q] = open[q]
    BY <2>1 DEF TypeInv, TypeOK
  <2>3. Readable' => Sound(state)'
    BY <2>1 DEF RecordInv, Readable, Sound
  <2>4. CopyOK(p)'
    BY <1>c, <2>1, <2>2 DEF CopyOK, Sound, Phase
  <2> QED
    BY <2>1, <2>2, <2>3, <2>4, OthersKept
<1>3. ASSUME NEW p \in Procs, NEW plan \in Plans, CallRun(p, plan) PROVE RecordInv'
  <2>1. UNCHANGED <<state, open, mem, accepted>> /\ Goto(p, "lockOpen")
    BY <1>3 DEF CallRun
  <2>2. \A q \in Procs \ {p} : todo'[q] = todo[q]
    BY <1>3 DEF CallRun, TypeInv, TypeOK
  <2>3. pc'[p] = "lockOpen" /\ \A q \in Procs \ {p} : pc'[q] = pc[q]
    BY <2>1, GotoType DEF Labels
  <2>4. Readable' => Sound(state)'
    BY <2>1 DEF RecordInv, Readable, Sound
  <2>5. CopyOK(p)'
    BY <1>3, <1>c, <2>1, <2>3 DEF CallRun, CopyOK, Sound, Loaded, InPhase
  <2> QED
    BY <2>1, <2>2, <2>3, <2>4, <2>5, OthersKept
<1>4. ASSUME NEW p \in Procs, CallResume(p) PROVE RecordInv'
  <2> DEFINE m == [state EXCEPT !.halted = FALSE]
  <2>1. state \in SessionState /\ Sound(state)
    BY <1>4 DEF CallResume, Readable, TypeInv, TypeOK, RecordInv
  <2>2. m.done = state.done
    BY <2>1 DEF SessionState
  <2>3. mem' = [mem EXCEPT ![p] = m] /\ UNCHANGED <<state, open, todo, accepted>>
        /\ Goto(p, "resume")
    BY <1>4 DEF CallResume
  <2> HIDE DEF m
  <2>4. mem'[p] = m /\ \A q \in Procs \ {p} : mem'[q] = mem[q]
    BY <2>3 DEF TypeInv, TypeOK
  <2>5. pc'[p] = "resume" /\ \A q \in Procs \ {p} : pc'[q] = pc[q]
    BY <2>3, GotoType DEF Labels
  <2>6. Readable' => Sound(state)'
    BY <2>1, <2>3 DEF Sound
  <2>7. CopyOK(p)'
    BY <2>1, <2>2, <2>3, <2>4, <2>5 DEF CopyOK, Sound, InPhase
  <2> QED
    BY <2>3, <2>4, <2>5, <2>6, <2>7, OthersKept
<1>5. ASSUME NEW p \in Procs, ResumeSave(p) PROVE RecordInv'
  <2>1. mem[p] \in SessionState /\ Sound(mem[p])
    BY <1>5, <1>c DEF ResumeSave, TypeInv, LocalOK, CopyOK, Loaded
  <2>2. \A q \in Procs \ {p} : todo'[q] = todo[q]
    BY <1>5 DEF ResumeSave, TypeInv, TypeOK
  <2> QED
    BY <1>5, <2>1, <2>2, RecordSave DEF ResumeSave, Labels, InPhase
<1>6. ASSUME NEW p \in Procs,
             LockOpen(p) \/ LockWrite(p) \/ LockIsStale(p) \/ LockUnlink(p)
      PROVE  RecordInv'
  <2>1. \E l \in {"lockWrite", "lockRead", "load", "lockUnlink", "lockOpen"} : Goto(p, l)
    BY <1>6 DEF LockOpen, LockWrite, LockIsStale, LockUnlink
  <2>2. UNCHANGED <<state, open, mem, todo, accepted>>
    BY <1>6 DEF LockOpen, LockWrite, LockIsStale, LockUnlink
  <2> QED
    BY <2>1, <2>2, RecordMove DEF Labels, Loaded, InPhase
<1>7. ASSUME NEW p \in Procs, LockIsHeld(p) \/ Release(p) \/ Crash(p) PROVE RecordInv'
  BY <1>7, RecordForget DEF LockIsHeld, Release, Crash
<1>8. ASSUME NEW p \in Procs, Load(p) PROVE RecordInv'
  <2>1. UNCHANGED <<todo, accepted>>
    BY <1>8 DEF Load
  <2>2. CASE Save(p, NewState(todo[p])) /\ Goto(p, "loop")
    <3>1. NewState(todo[p]) \in SessionState
      BY NewSession DEF TypeInv, TypeOK
    <3>2. Sound(NewState(todo[p]))
      BY DEF Sound, NewState, IsInjective, ToSet
    <3> QED
      BY <2>1, <2>2, <3>1, <3>2, RecordSave DEF Labels, InPhase
  <2>3. CASE Goto(p, "release") /\ UNCHANGED <<state, open, mem>>
    BY <2>1, <2>3, RecordMove DEF Labels, Loaded, InPhase
  <2>4. CASE /\ Readable /\ mem' = [mem EXCEPT ![p] = state]
             /\ Goto(p, "loop") /\ UNCHANGED <<state, open>>
    <3>1. pc'[p] = "loop" /\ \A q \in Procs \ {p} : pc'[q] = pc[q]
      BY <2>4, GotoType DEF Labels
    <3>2. mem'[p] = state /\ \A q \in Procs \ {p} : mem'[q] = mem[q]
      BY <2>4 DEF TypeInv, TypeOK
    <3>3. Sound(state) /\ Sound(state)'
      BY <2>1, <2>4 DEF RecordInv, Sound
    <3>4. CopyOK(p)'
      BY <2>1, <3>1, <3>2, <3>3 DEF CopyOK, Sound, InPhase
    <3> QED
      BY <2>1, <2>4, <3>1, <3>2, <3>3, <3>4, OthersKept
  <2> QED
    BY <1>8, <2>2, <2>3, <2>4 DEF Load
<1>9. ASSUME NEW p \in Procs, SkipPhase(p) PROVE RecordInv'
  <2>1. UNCHANGED <<state, pc, open, mem, accepted>> /\ pc[p] = "loop"
    BY <1>9 DEF SkipPhase
  <2>2. \A q \in Procs \ {p} : todo'[q] = todo[q]
    BY <1>9 DEF SkipPhase, TypeInv, TypeOK
  <2>3. Readable' => Sound(state)'
    BY <2>1 DEF RecordInv, Readable, Sound
  <2>4. CopyOK(p)'
    BY <1>c, <2>1 DEF CopyOK, Sound, InPhase
  <2> QED
    BY <2>1, <2>2, <2>3, <2>4, OthersKept
<1>10. ASSUME NEW p \in Procs, BeginPhase(p) PROVE RecordInv'
  <2>1. mem[p] \in SessionState /\ Sound(mem[p]) /\ Phase(p) \in Phases
    BY <1>10, <1>c, PhaseType DEF BeginPhase, TypeInv, LocalOK, CopyOK, Loaded
  <2>2. ~Contains(mem[p].done, Phase(p))
    BY <1>10 DEF BeginPhase, Passed
  <2> DEFINE m == [mem[p] EXCEPT !.current = Phase(p)]
  <2>3. m \in SessionState /\ m.done = mem[p].done
    BY <2>1 DEF SessionState
  <2>4. Save(p, m) /\ Goto(p, "attempt") /\ UNCHANGED <<accepted, todo>>
    BY <1>10 DEF BeginPhase
  <2> HIDE DEF m
  <2>5. Sound(m) /\ ~Contains(m.done, Phase(p)')
    BY <2>1, <2>2, <2>3, <2>4 DEF Sound, Phase
  <2> QED
    BY <2>3, <2>4, <2>5, RecordSave DEF Labels
<1>11. ASSUME NEW p \in Procs, Commit(p) PROVE RecordInv'
  <2>1. /\ mem[p] \in SessionState /\ Sound(mem[p]) /\ Phase(p) \in Phases
        /\ ~Contains(mem[p].done, Phase(p)) /\ Phase(p) \in accepted
    BY <1>11, <1>c, PhaseType DEF Commit, TypeInv, LocalOK, CopyOK, Loaded, InPhase
  <2> DEFINE m == [mem[p] EXCEPT !.done = Append(@, Phase(p)), !.current = NoPhase]
  <2>2. mem[p].done \in Seq(Phases) /\ Append(mem[p].done, Phase(p)) \in Seq(Phases)
    BY <2>1 DEF SessionState
  <2>3. m \in SessionState /\ m.done = Append(mem[p].done, Phase(p))
    BY <2>1, <2>2 DEF SessionState
  <2>4. Save(p, m) /\ Goto(p, "loop") /\ UNCHANGED accepted
    BY <1>11 DEF Commit
  <2>5. \A q \in Procs \ {p} : todo'[q] = todo[q]
    BY <1>11 DEF Commit, TypeInv, TypeOK
  <2> HIDE DEF m
  <2>6. Sound(m)
    BY <2>1, <2>2, <2>3, AppendSound DEF Sound
  <2> QED
    BY <2>3, <2>4, <2>5, <2>6, RecordSave DEF Labels, InPhase
<1>12. ASSUME NEW p \in Procs, Halt(p) PROVE RecordInv'
  <2>1. mem[p] \in SessionState /\ Sound(mem[p])
    BY <1>12, <1>c DEF Halt, TypeInv, LocalOK, CopyOK, Loaded
  <2> DEFINE m == [mem[p] EXCEPT !.halted = TRUE]
  <2>2. m \in SessionState /\ m.done = mem[p].done
    BY <2>1 DEF SessionState
  <2>3. Save(p, m) /\ Goto(p, "release") /\ UNCHANGED <<accepted, todo>>
    BY <1>12 DEF Halt
  <2> HIDE DEF m
  <2> QED
    BY <2>1, <2>2, <2>3, RecordSave DEF Labels, InPhase, Sound
<1>13. ASSUME NEW p \in Procs, Finish(p) PROVE RecordInv'
  <2>1. mem[p] \in SessionState /\ Sound(mem[p])
    BY <1>13, <1>c DEF Finish, TypeInv, LocalOK, CopyOK, Loaded
  <2> DEFINE m == [mem[p] EXCEPT !.finished = TRUE]
  <2>2. m \in SessionState /\ m.done = mem[p].done
    BY <2>1 DEF SessionState
  <2>3. Save(p, m) /\ Goto(p, "release") /\ UNCHANGED <<accepted, todo>>
    BY <1>13 DEF Finish
  <2> HIDE DEF m
  <2> QED
    BY <2>1, <2>2, <2>3, RecordSave DEF Labels, InPhase, Sound
<1>14. ASSUME NEW p \in Procs, Attempt(p) PROVE RecordInv'
  <2>1. /\ mem[p] \in SessionState /\ Sound(mem[p]) /\ Phase(p) \in Phases
        /\ ~Contains(mem[p].done, Phase(p)) /\ attempt[p] - 1 \in Nat
    BY <1>14, <1>c, PhaseType
    DEF Attempt, TypeInv, TypeOK, LocalOK, CopyOK, Loaded, InPhase
  <2> DEFINE m == [mem[p] EXCEPT !.retries[Phase(p)] = attempt[p] - 1]
  <2>2. m \in SessionState /\ m.done = mem[p].done
    BY <2>1 DEF SessionState
  <2>3. Save(p, m) /\ Goto(p, "invoke") /\ UNCHANGED <<accepted, todo>>
    BY <1>14 DEF Attempt
  <2> HIDE DEF m
  <2>4. Sound(m) /\ ~Contains(m.done, Phase(p)')
    BY <2>1, <2>2, <2>3 DEF Sound, Phase
  <2> QED
    BY <2>2, <2>3, <2>4, RecordSave DEF Labels
<1>15. ASSUME NEW p \in Procs,
              \/ GiveUp(p) \/ Invoke(p) \/ BudgetStops(p) \/ AgentFails(p)
              \/ VerifierFails(p) \/ WriteReceipt(p)
      PROVE  RecordInv'
  <2>1. UNCHANGED <<state, mem, todo, accepted>> /\ pc[p] \in InPhase
    BY <1>15
    DEF GiveUp, Invoke, BudgetStops, AgentFails, VerifierFails, WriteReceipt, InPhase
  <2>2. \E l \in Labels :
          Goto(p, l) /\ (l \in {"receipt", "commit"} => pc[p] \in {"receipt", "commit"})
    BY <1>15
    DEF GiveUp, Invoke, BudgetStops, AgentFails, VerifierFails, NextAttempt,
        WriteReceipt, Labels
  <2>3. open' = open \/ \E f \in {"receipt", "diagnostic"} : open' = [open EXCEPT ![p] = f]
    BY <1>15 DEF GiveUp, Invoke, BudgetStops, AgentFails, VerifierFails, WriteReceipt
  <2>4. /\ \A q \in Procs \ {p} : open'[q] = open[q]
        /\ open'[p] = "state" => open[p] = "state"
    BY <2>3 DEF TypeInv, TypeOK
  <2>5. pc[p] \in {"receipt", "commit"} => Phase(p) \in accepted
    BY <1>c DEF CopyOK
  <2> QED
    BY <2>1, <2>2, <2>4, <2>5, RecordMove DEF InPhase, Loaded
<1>16. ASSUME NEW p \in Procs, AgentSucceeds(p) \/ VerifierPasses(p) PROVE RecordInv'
  <2>1. UNCHANGED <<state, open, mem, todo>> /\ pc[p] \in InPhase
    BY <1>16 DEF AgentSucceeds, VerifierPasses, InPhase
  <2>2. \/ Goto(p, "verify") /\ UNCHANGED accepted
        \/ Goto(p, "receipt") /\ accepted' = accepted \cup {Phase(p)}
    BY <1>16 DEF AgentSucceeds, VerifierPasses
  <2> QED
    BY <2>1, <2>2, RecordMove DEF Labels, InPhase, Loaded
<1>17. ASSUME NEW p \in Procs, AgentStreams(p) PROVE RecordInv'
  BY <1>17 DEF AgentStreams, RecordInv, CopyOK, Sound, Readable, Phase
<1>18. CASE LockAges \/ UNCHANGED vars
  BY <1>18 DEF LockAges, vars, RecordInv, CopyOK, Sound, Readable, Phase
<1> QED
  BY <1>1, <1>2, <1>3, <1>4, <1>5, <1>6, <1>7, <1>8, <1>9, <1>10, <1>11, <1>12,
     <1>13, <1>14, <1>15, <1>16, <1>17, <1>18
  DEF Next, Call, Step, Fill, AcquireLock, Run, RunPhase, AgentExits, Verify

LEMMA RecordCorrect == Spec => []RecordInv
<1>1. Init => RecordInv
  BY DEF Init, RecordInv, CopyOK, Readable, Loaded, InPhase
<1> QED
  BY <1>1, TypeInit, TypeStep, RecordStep, PTL DEF Spec

\* However processes and crashes interleave, every phase recorded complete was
\* delivered by an agent and failed no check after that.
THEOREM CompletedAccepted == Spec => []CompletedWereAccepted
<1>1. RecordInv => CompletedWereAccepted
  BY DEF RecordInv, Sound, CompletedWereAccepted
<1> QED
  BY <1>1, RecordCorrect, PTL

\* ... and it is recorded once.
THEOREM RecordedOnce == Spec => []NoPhaseTwice
<1>1. RecordInv => NoPhaseTwice
  BY DEF RecordInv, Sound, NoPhaseTwice
<1> QED
  BY <1>1, RecordCorrect, PTL
=============================================================================
