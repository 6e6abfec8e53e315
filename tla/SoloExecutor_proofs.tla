-------------------------- MODULE SoloExecutor_proofs --------------------------
(***************************************************************************)
(* Proofs about PipelineExecutor where one process works at a time, however *)
(* often it is called and dies.  What several processes keep is proved in  *)
(* PipelineExecutor_proofs, and used here.                                 *)
(***************************************************************************)
EXTENDS PipelineExecutor_proofs

Solo(p) == Procs = {p} /\ TypeInv /\ RecordInv

\* Fields that an update of others leaves.
LEMMA FieldsKept ==
  ASSUME NEW m \in SessionState
  PROVE  /\ \A ph \in Phases \cup {NoPhase} :
              LET n == [m EXCEPT !.current = ph]
              IN  n.done = m.done /\ n.halted = m.halted /\ n.retries = m.retries /\ n.current = ph
         /\ \A b \in BOOLEAN :
              LET n == [m EXCEPT !.halted = b]
              IN  n.done = m.done /\ n.halted = b /\ n.retries = m.retries
                  /\ n.current = m.current
         /\ LET n == [m EXCEPT !.finished = TRUE]
            IN  n.done = m.done /\ n.halted = m.halted /\ n.retries = m.retries
                /\ n.current = m.current
         /\ \A ph \in Phases, k \in Nat :
              LET n == [m EXCEPT !.retries[ph] = k]
              IN  n.done = m.done /\ n.halted = m.halted /\ n.retries[ph] = k
                  /\ n.current = m.current
         /\ \A d \in Seq(Phases) :
              LET n == [m EXCEPT !.done = d, !.current = NoPhase]
              IN  n.done = d /\ n.halted = m.halted
BY DEF SessionState

\* What is in memory at the labels where it is used.
LEMMA InMemory ==
  ASSUME NEW p, Solo(p), pc[p] \in Loaded \/ open[p] = "state"
  PROVE  mem[p] \in SessionState
BY DEF Solo, TypeInv, LocalOK

LEMMA PhaseAtHand ==
  ASSUME NEW p, Solo(p), pc[p] \in InPhase
  PROVE  /\ Phase(p) \in Phases /\ attempt[p] \in Nat \ {0}
         /\ ~Contains(mem[p].done, Phase(p)) /\ mem[p] \in SessionState
BY PhaseType, InMemory DEF Solo, TypeInv, TypeOK, LocalOK, RecordInv, CopyOK, InPhase, Loaded

-----------------------------------------------------------------------------
(***************************************************************************)
(* Receipts.  The receipt of a phase that is written again is gone for a   *)
(* moment: nothing on disk has recorded that phase, because the file holds *)
(* the record that is in memory, and the phase is not in that.             *)
(***************************************************************************)
Kept(s) == ToSet(s.done) \subseteq receipts

KeptInv(p) ==
  /\ Readable => Kept(state)
  /\ pc[p] \in Loaded \/ open[p] = "state" => Kept(mem[p])
  /\ pc[p] \in Loaded /\ Readable => state.done = mem[p].done
  /\ open[p] = "state" => state = Torn
  /\ open[p] = "receipt" => pc[p] = "commit" /\ Phase(p) \notin receipts
  /\ pc[p] = "commit" /\ open[p] # "receipt" => Phase(p) \in receipts

LEMMA KeptSave ==
  ASSUME NEW p, Solo(p), NEW m \in SessionState, Save(p, m), NEW l \in Labels, Goto(p, l),
         UNCHANGED receipts, Kept(m), l # "commit"
  PROVE  KeptInv(p)'
<1>1. state' = Torn /\ mem'[p] = m /\ open'[p] = "state" /\ pc'[p] = l
  BY SaveType, GotoType DEF Solo, Save
<1> QED
  BY <1>1 DEF KeptInv, Kept, Readable

LEMMA KeptMove ==
  ASSUME NEW p, Solo(p), KeptInv(p), NEW l \in Labels, Goto(p, l), open[p] = "none",
         UNCHANGED <<state, receipts, mem, todo>>, open'[p] \in {"none", "diagnostic"},
         l # "commit", l \in Loaded => pc[p] \in Loaded
  PROVE  KeptInv(p)'
<1>1. pc'[p] = l
  BY GotoType DEF Solo
<1> QED
  BY <1>1 DEF KeptInv, Kept, Readable

LEMMA KeptForget ==
  ASSUME NEW p, Solo(p), KeptInv(p), Forget(p), UNCHANGED <<state, receipts>>
  PROVE  KeptInv(p)'
BY DEF Solo, TypeInv, TypeOK, Forget, KeptInv, Kept, Readable, Loaded

LEMMA KeptStep ==
  ASSUME NEW p, Solo(p), KeptInv(p), [Next]_vars
  PROVE  KeptInv(p)'
<1> USE DEF At, notes, files, place, procs, history
<1>t. TypeOK /\ p \in Procs
  BY DEF Solo, TypeInv
<1>1. ASSUME FillState(p) PROVE KeptInv(p)'
  BY <1>1, <1>t DEF FillState, KeptInv, Kept, Readable, TypeOK, Phase
<1>2. ASSUME FillReceipt(p) PROVE KeptInv(p)'
  <2>1. receipts' = receipts \cup {Phase(p)} /\ open'[p] = "none"
    BY <1>2, <1>t DEF FillReceipt, KeptInv, TypeOK
  <2> QED
    BY <1>2, <2>1 DEF FillReceipt, KeptInv, Kept, Readable, Phase
<1>3. ASSUME FillDiagnostic(p) PROVE KeptInv(p)'
  BY <1>3, <1>t DEF FillDiagnostic, KeptInv, Kept, Readable, TypeOK, Phase
<1>4. ASSUME NEW plan \in Plans, CallRun(p, plan) PROVE KeptInv(p)'
  BY <1>4, <1>t, GotoType DEF Solo, CallRun, KeptInv, Kept, Readable, TypeOK, Labels, Loaded
<1>5. ASSUME CallResume(p) PROVE KeptInv(p)'
  <2> DEFINE m == [state EXCEPT !.halted = FALSE]
  <2>1. state \in SessionState
    BY <1>5, <1>t DEF CallResume, Readable, TypeOK
  <2>2. m.done = state.done
    BY <2>1, FieldsKept
  <2>3. mem'[p] = m /\ pc'[p] = "resume"
    BY <1>5, <1>t DEF CallResume, Goto, TypeOK
  <2> HIDE DEF m
  <2> QED
    BY <1>5, <2>2, <2>3 DEF CallResume, KeptInv, Kept, Readable
<1>6. ASSUME ResumeSave(p) PROVE KeptInv(p)'
  <2>1. mem[p] \in SessionState /\ Kept(mem[p])
    BY <1>6, InMemory DEF ResumeSave, Loaded, KeptInv
  <2> QED
    BY <1>6, <2>1, KeptSave DEF ResumeSave, Labels
<1>7. ASSUME LockOpen(p) \/ LockWrite(p) \/ LockIsStale(p) \/ LockUnlink(p)
      PROVE  KeptInv(p)'
  <2>1. \E l \in {"lockWrite", "lockRead", "load", "lockUnlink", "lockOpen"} : Goto(p, l)
    BY <1>7 DEF LockOpen, LockWrite, LockIsStale, LockUnlink
  <2>2. UNCHANGED <<state, open, mem, todo, receipts>> /\ open[p] = "none"
    BY <1>7 DEF LockOpen, LockWrite, LockIsStale, LockUnlink
  <2> QED
    BY <2>1, <2>2, KeptMove DEF Labels, Loaded
<1>8. ASSUME LockIsHeld(p) \/ Release(p) \/ Crash(p) PROVE KeptInv(p)'
  BY <1>8, KeptForget DEF LockIsHeld, Release, Crash
<1>9. ASSUME Load(p) PROVE KeptInv(p)'
  <2>1. UNCHANGED <<todo, receipts>> /\ open[p] = "none"
    BY <1>9 DEF Load
  <2>2. CASE Save(p, NewState(todo[p])) /\ Goto(p, "loop")
    <3>1. NewState(todo[p]) \in SessionState /\ Kept(NewState(todo[p]))
      BY <1>t, NewSession DEF TypeOK, Kept, NewState, ToSet
    <3> QED
      BY <2>1, <2>2, <3>1, KeptSave DEF Labels
  <2>3. CASE Goto(p, "release") /\ UNCHANGED <<state, open, mem>>
    BY <2>1, <2>3, KeptMove DEF Labels, Loaded
  <2>4. CASE /\ Readable /\ mem' = [mem EXCEPT ![p] = state]
             /\ Goto(p, "loop") /\ UNCHANGED <<state, open>>
    <3>1. pc'[p] = "loop" /\ mem'[p] = state
      BY <1>t, <2>4 DEF Goto, TypeOK
    <3> QED
      BY <2>1, <2>4, <3>1 DEF KeptInv, Kept, Readable
  <2> QED
    BY <1>9, <2>2, <2>3, <2>4 DEF Load
<1>10. ASSUME SkipPhase(p) PROVE KeptInv(p)'
  BY <1>10 DEF SkipPhase, KeptInv, Kept, Readable
<1>11. ASSUME BeginPhase(p) PROVE KeptInv(p)'
  <2>1. mem[p] \in SessionState /\ Kept(mem[p]) /\ Phase(p) \in Phases
    BY <1>11, InMemory, PhaseType DEF BeginPhase, Loaded, KeptInv, Solo
  <2>2. /\ [mem[p] EXCEPT !.current = Phase(p)] \in SessionState
        /\ Kept([mem[p] EXCEPT !.current = Phase(p)])
    BY <2>1 DEF SessionState, Kept
  <2> QED
    BY <1>11, <2>2, KeptSave DEF BeginPhase, Labels
<1>12. ASSUME Commit(p) PROVE KeptInv(p)'
  <2>1. /\ mem[p] \in SessionState /\ Phase(p) \in Phases
        /\ Kept(mem[p]) /\ Phase(p) \in receipts
        /\ IsInjective(mem[p].done) /\ ~Contains(mem[p].done, Phase(p))
    BY <1>12, PhaseAtHand
    DEF Commit, Loaded, InPhase, KeptInv, Solo, RecordInv, CopyOK, Sound
  <2> DEFINE m == [mem[p] EXCEPT !.done = Append(@, Phase(p)), !.current = NoPhase]
  <2>2. mem[p].done \in Seq(Phases) /\ Append(mem[p].done, Phase(p)) \in Seq(Phases)
    BY <2>1 DEF SessionState
  <2>3. m \in SessionState /\ m.done = Append(mem[p].done, Phase(p))
    BY <2>1, <2>2 DEF SessionState
  <2>4. ToSet(Append(mem[p].done, Phase(p))) = ToSet(mem[p].done) \cup {Phase(p)}
    BY <2>1, <2>2, AppendSound
  <2>5. Save(p, m) /\ Goto(p, "loop") /\ UNCHANGED receipts
    BY <1>12 DEF Commit
  <2> HIDE DEF m
  <2>6. Kept(m)
    BY <2>1, <2>3, <2>4 DEF Kept
  <2> QED
    BY <2>3, <2>5, <2>6, KeptSave DEF Labels
<1>13. ASSUME Halt(p) \/ Finish(p) PROVE KeptInv(p)'
  <2>1. mem[p] \in SessionState /\ Kept(mem[p])
    BY <1>13, InMemory DEF Halt, Finish, Loaded, KeptInv
  <2>2. PICK m \in SessionState :
          m.done = mem[p].done /\ Save(p, m) /\ Goto(p, "release") /\ UNCHANGED receipts
    <3>1. /\ [mem[p] EXCEPT !.halted = TRUE] \in SessionState
          /\ [mem[p] EXCEPT !.halted = TRUE].done = mem[p].done
          /\ [mem[p] EXCEPT !.finished = TRUE] \in SessionState
          /\ [mem[p] EXCEPT !.finished = TRUE].done = mem[p].done
      BY <2>1 DEF SessionState
    <3> QED
      BY <1>13, <3>1 DEF Halt, Finish
  <2>3. Kept(m)
    BY <2>1, <2>2 DEF Kept
  <2> QED
    BY <2>2, <2>3, KeptSave DEF Labels
<1>14. ASSUME Attempt(p) PROVE KeptInv(p)'
  <2>1. /\ mem[p] \in SessionState /\ Kept(mem[p]) /\ Phase(p) \in Phases
        /\ attempt[p] - 1 \in Nat
    BY <1>14, PhaseAtHand DEF Attempt, Loaded, InPhase, KeptInv
  <2>2. /\ [mem[p] EXCEPT !.retries[Phase(p)] = attempt[p] - 1] \in SessionState
        /\ Kept([mem[p] EXCEPT !.retries[Phase(p)] = attempt[p] - 1])
    BY <2>1 DEF SessionState, Kept
  <2> QED
    BY <1>14, <2>2, KeptSave DEF Attempt, Labels
<1>15. ASSUME \/ GiveUp(p) \/ Invoke(p) \/ BudgetStops(p) \/ AgentFails(p)
              \/ VerifierFails(p) \/ AgentSucceeds(p) \/ VerifierPasses(p)
       PROVE  KeptInv(p)'
  <2>1. /\ UNCHANGED <<state, receipts, mem, todo>> /\ open[p] = "none"
        /\ pc[p] \in Loaded
    BY <1>15
    DEF GiveUp, Invoke, BudgetStops, AgentFails, VerifierFails, AgentSucceeds,
        VerifierPasses, Loaded
  <2>2. \E l \in Labels \ {"commit"} : Goto(p, l)
    BY <1>15
    DEF GiveUp, Invoke, BudgetStops, AgentFails, VerifierFails, NextAttempt,
        AgentSucceeds, VerifierPasses, Labels
  <2>3. open' = open \/ open' = [open EXCEPT ![p] = "diagnostic"]
    BY <1>15
    DEF GiveUp, Invoke, BudgetStops, AgentFails, VerifierFails, AgentSucceeds,
        VerifierPasses
  <2>4. open'[p] \in {"none", "diagnostic"}
    BY <1>t, <2>1, <2>3 DEF TypeOK
  <2> QED
    BY <2>1, <2>2, <2>4, KeptMove
<1>16. ASSUME WriteReceipt(p) PROVE KeptInv(p)'
  <2>1. ~Contains(mem[p].done, Phase(p)) /\ mem[p] \in SessionState
    BY <1>16, PhaseAtHand DEF WriteReceipt, InPhase
  <2>2. Phase(p) \notin ToSet(mem[p].done)
    BY <2>1 DEF Contains, ToSet, SessionState
  <2>3. /\ receipts' = receipts \ {Phase(p)} /\ open'[p] = "receipt" /\ pc'[p] = "commit"
        /\ UNCHANGED <<state, mem, todo>> /\ pc[p] = "receipt"
    BY <1>16, <1>t DEF WriteReceipt, Goto, TypeOK
  <2> QED
    BY <2>2, <2>3 DEF KeptInv, Kept, Readable, Loaded, Phase
<1>17. ASSUME AgentStreams(p) PROVE KeptInv(p)'
  BY <1>17 DEF AgentStreams, KeptInv, Kept, Readable, Phase
<1>18. CASE LockAges \/ UNCHANGED vars
  BY <1>18 DEF LockAges, vars, KeptInv, Kept, Readable, Phase
<1>19. \A q \in Procs : q = p
  BY DEF Solo
<1> QED
  BY <1>1, <1>2, <1>3, <1>4, <1>5, <1>6, <1>7, <1>8, <1>9, <1>10, <1>11, <1>12,
     <1>13, <1>14, <1>15, <1>16, <1>17, <1>18, <1>19
  DEF Next, Call, Step, Fill, AcquireLock, Run, RunPhase, AgentExits, Verify

\* With one process at a time, what is recorded complete has its receipt on disk,
\* wherever the process dies.
THEOREM ReceiptsStay ==
  ASSUME NEW p, Procs = {p} PROVE Spec => []CompletedHaveReceipts
<1>1. Init => TypeInv /\ RecordInv /\ KeptInv(p)
  BY TypeInit DEF Init, RecordInv, CopyOK, KeptInv, Readable, Loaded, InPhase
<1>2. TypeInv /\ RecordInv /\ KeptInv(p) /\ [Next]_vars =>
        TypeInv' /\ RecordInv' /\ KeptInv(p)'
  BY TypeStep, RecordStep, KeptStep DEF Solo
<1>3. KeptInv(p) => CompletedHaveReceipts
  BY DEF KeptInv, Kept, CompletedHaveReceipts
<1> QED
  BY <1>1, <1>2, <1>3, PTL DEF Spec

-----------------------------------------------------------------------------
(***************************************************************************)
(* Halts.  Nobody but a resume works on a halted session, and it takes the *)
(* halt back first; so the diagnostic is touched only while the file holds *)
(* no halt.  The retry count follows the attempts up to the last.          *)
(***************************************************************************)
AllTried(s, ph) == s.retries[ph] + 1 = RetryLimit \/ RetryLimit = 0

Explained(s) ==
  s.halted =>
    /\ s.current # NoPhase /\ diagnostic = s.current
    /\ ~Contains(s.done, s.current) /\ AllTried(s, s.current)

Counted(p) ==
  /\ pc[p] = "attempt" =>
       \/ attempt[p] = 1
       \/ mem[p].retries[Phase(p)] + 2 = attempt[p] /\ attempt[p] <= RetryLimit + 1
  /\ pc[p] \in {"invoke", "agent", "verify"} =>
       mem[p].retries[Phase(p)] + 1 = attempt[p] /\ attempt[p] <= RetryLimit
  /\ pc[p] = "halt" => AllTried(mem[p], Phase(p))

HaltInv(p) ==
  /\ Readable => Explained(state)
  /\ open[p] = "state" => state = Torn /\ Explained(mem[p])
  /\ pc[p] \in Loaded \/ (open[p] = "state" /\ pc[p] # "release") => ~mem[p].halted
  /\ pc[p] \notin {"idle", "resume", "release"} /\ Readable => ~state.halted
  /\ pc[p] \in InPhase => mem[p].current = Phase(p)
  /\ open[p] = "diagnostic" => pc[p] = "halt"
  /\ pc[p] = "halt" /\ open[p] # "diagnostic" => diagnostic = Phase(p)
  /\ Counted(p)

\* A session without a halt is saved.
LEMMA HaltSave ==
  ASSUME NEW p, Solo(p), NEW m \in SessionState, Save(p, m), NEW l \in Labels, Goto(p, l),
         ~m.halted, l # "halt", l \in InPhase => m.current = Phase(p)', Counted(p)'
  PROVE  HaltInv(p)'
<1>1. state' = Torn /\ mem'[p] = m /\ open'[p] = "state" /\ pc'[p] = l
  BY SaveType, GotoType DEF Solo, Save
<1> QED
  BY <1>1 DEF HaltInv, Explained, Readable

\* The steps that leave the session and the diagnostic alone.
LEMMA HaltMove ==
  ASSUME NEW p, Solo(p), HaltInv(p), NEW l \in Labels, Goto(p, l),
         open[p] = "none", open'[p] \in {"none", "receipt"},
         UNCHANGED <<state, mem, todo, diagnostic>>, l # "halt",
         pc[p] \notin {"idle", "resume", "release"},
         l \in Loaded => pc[p] \in Loaded, l \in InPhase => pc[p] \in InPhase, Counted(p)'
  PROVE  HaltInv(p)'
<1>1. pc'[p] = l
  BY GotoType DEF Solo
<1> QED
  BY <1>1 DEF HaltInv, Explained, AllTried, Readable, Phase

LEMMA HaltForget ==
  ASSUME NEW p, Solo(p), HaltInv(p), Forget(p), UNCHANGED <<state, diagnostic>>
  PROVE  HaltInv(p)'
BY DEF Solo, TypeInv, TypeOK, Forget, HaltInv, Counted, Explained, AllTried, Readable,
       Loaded, InPhase

LEMMA HaltStep ==
  ASSUME "halted" \notin CallerRuns, NEW p, Solo(p), HaltInv(p), [Next]_vars
  PROVE  HaltInv(p)'
<1> USE DEF At, notes, files, place, procs, history
<1>t. TypeOK /\ p \in Procs
  BY DEF Solo, TypeInv
<1>1. ASSUME FillState(p) PROVE HaltInv(p)'
  <2>1. /\ state' = mem[p] /\ open'[p] = "none" /\ mem[p] \in SessionState
        /\ UNCHANGED <<pc, mem, todo, attempt, diagnostic>>
    BY <1>1, <1>t, InMemory DEF FillState, HaltInv, TypeOK
  <2> QED
    BY <1>1, <2>1 DEF FillState, HaltInv, Counted, Explained, AllTried, Readable, Phase
<1>2. ASSUME FillReceipt(p) PROVE HaltInv(p)'
  BY <1>2, <1>t DEF FillReceipt, HaltInv, Counted, Explained, AllTried, Readable, Phase, TypeOK
<1>3. ASSUME FillDiagnostic(p) PROVE HaltInv(p)'
  <2>1. diagnostic' = Phase(p) /\ open'[p] = "none" /\ pc[p] = "halt"
        /\ UNCHANGED <<state, pc, mem, todo, attempt>>
    BY <1>3, <1>t DEF FillDiagnostic, HaltInv, TypeOK
  <2> QED
    BY <2>1 DEF HaltInv, Counted, Explained, AllTried, Readable, Phase
<1>4. ASSUME NEW plan \in Plans, CallRun(p, plan) PROVE HaltInv(p)'
  <2>1. Readable => ~state.halted
    BY <1>4 DEF CallRun, SessionKind, Readable
  <2>2. /\ pc'[p] = "lockOpen" /\ open'[p] = "none"
        /\ UNCHANGED <<state, diagnostic>>
    BY <1>4, <1>t DEF CallRun, Goto, TypeOK
  <2> QED
    BY <2>1, <2>2 DEF HaltInv, Counted, Explained, AllTried, Readable, Loaded, InPhase
<1>5. ASSUME CallResume(p) PROVE HaltInv(p)'
  <2> DEFINE m == [state EXCEPT !.halted = FALSE]
  <2>1. state \in SessionState
    BY <1>5, <1>t DEF CallResume, Readable, TypeOK
  <2>2. ~m.halted
    BY <2>1, FieldsKept
  <2>3. mem'[p] = m /\ pc'[p] = "resume" /\ open'[p] = "none"
        /\ UNCHANGED <<state, diagnostic>>
    BY <1>5, <1>t DEF CallResume, Goto, TypeOK
  <2> HIDE DEF m
  <2> QED
    BY <1>5, <2>2, <2>3 DEF HaltInv, Counted, Explained, AllTried, Readable, InPhase
<1>6. ASSUME ResumeSave(p) PROVE HaltInv(p)'
  <2>1. mem[p] \in SessionState /\ ~mem[p].halted
    BY <1>6, InMemory DEF ResumeSave, Loaded, HaltInv
  <2>2. pc'[p] = "lockOpen"
    BY <1>6, GotoType DEF ResumeSave, Solo, Labels
  <2>3. Counted(p)'
    BY <2>2 DEF Counted
  <2> QED
    BY <1>6, <2>1, <2>3, HaltSave DEF ResumeSave, Labels, InPhase
<1>7. ASSUME LockOpen(p) \/ LockWrite(p) \/ LockIsStale(p) \/ LockUnlink(p)
      PROVE  HaltInv(p)'
  <2>1. PICK l \in {"lockWrite", "lockRead", "load", "lockUnlink", "lockOpen"} : Goto(p, l)
    BY <1>7 DEF LockOpen, LockWrite, LockIsStale, LockUnlink
  <2>2. UNCHANGED <<state, open, mem, todo, diagnostic>> /\ open[p] = "none"
        /\ pc[p] \notin {"idle", "resume", "release"}
    BY <1>7 DEF LockOpen, LockWrite, LockIsStale, LockUnlink
  <2>3. pc'[p] = l
    BY <2>1, GotoType DEF Solo, Labels
  <2>4. Counted(p)'
    BY <2>3 DEF Counted
  <2> QED
    BY <2>1, <2>2, <2>4, HaltMove DEF Labels, Loaded, InPhase
<1>8. ASSUME LockIsHeld(p) \/ Release(p) \/ Crash(p) PROVE HaltInv(p)'
  BY <1>8, HaltForget DEF LockIsHeld, Release, Crash
<1>9. ASSUME Load(p) PROVE HaltInv(p)'
  <2>1. UNCHANGED <<todo, diagnostic>> /\ open[p] = "none" /\ pc[p] = "load"
    BY <1>9 DEF Load
  <2>2. pc'[p] \in {"loop", "release"}
    BY <1>9, GotoType DEF Load, Solo, Labels
  <2>3. Counted(p)'
    BY <2>2 DEF Counted
  <2>4. CASE Save(p, NewState(todo[p])) /\ Goto(p, "loop")
    <3>1. NewState(todo[p]) \in SessionState /\ ~NewState(todo[p]).halted
      BY <1>t, NewSession DEF TypeOK, NewState
    <3> QED
      BY <2>3, <2>4, <3>1, HaltSave DEF Labels, InPhase
  <2>5. CASE Goto(p, "release") /\ UNCHANGED <<state, open, mem>>
    BY <2>1, <2>3, <2>5, HaltMove DEF Labels, Loaded, InPhase
  <2>6. CASE /\ Readable /\ mem' = [mem EXCEPT ![p] = state]
             /\ Goto(p, "loop") /\ UNCHANGED <<state, open>>
    <3>1. pc'[p] = "loop" /\ mem'[p] = state
      BY <1>t, <2>6 DEF Goto, TypeOK
    <3> QED
      BY <2>1, <2>3, <2>6, <3>1 DEF HaltInv, Explained, AllTried, Readable, InPhase
  <2> QED
    BY <1>9, <2>4, <2>5, <2>6 DEF Load
<1>10. ASSUME SkipPhase(p) PROVE HaltInv(p)'
  BY <1>10 DEF SkipPhase, HaltInv, Counted, Explained, AllTried, Readable, InPhase
<1>11. ASSUME BeginPhase(p) PROVE HaltInv(p)'
  <2> DEFINE m == [mem[p] EXCEPT !.current = Phase(p)]
  <2>1. mem[p] \in SessionState /\ ~mem[p].halted /\ Phase(p) \in Phases
    BY <1>11, InMemory, PhaseType DEF BeginPhase, Loaded, HaltInv, Solo
  <2>2. m \in SessionState /\ ~m.halted /\ m.current = Phase(p)
    BY <2>1 DEF SessionState
  <2>3. /\ Save(p, m) /\ Goto(p, "attempt") /\ pc'[p] = "attempt" /\ attempt'[p] = 1
        /\ Phase(p)' = Phase(p)
    BY <1>11, <1>t DEF BeginPhase, Goto, TypeOK, Phase
  <2>4. Counted(p)'
    BY <2>3 DEF Counted
  <2> HIDE DEF m
  <2> QED
    BY <2>2, <2>3, <2>4, HaltSave DEF Labels
<1>12. ASSUME Commit(p) PROVE HaltInv(p)'
  <2> DEFINE m == [mem[p] EXCEPT !.done = Append(@, Phase(p)), !.current = NoPhase]
  <2>1. mem[p] \in SessionState /\ ~mem[p].halted /\ Phase(p) \in Phases
    BY <1>12, PhaseAtHand DEF Commit, Loaded, InPhase, HaltInv
  <2>2. mem[p].done \in Seq(Phases) /\ Append(mem[p].done, Phase(p)) \in Seq(Phases)
    BY <2>1 DEF SessionState
  <2>3. m \in SessionState /\ ~m.halted
    BY <2>1, <2>2 DEF SessionState
  <2>4. Save(p, m) /\ Goto(p, "loop") /\ pc'[p] = "loop"
    BY <1>12, <1>t DEF Commit, Goto, TypeOK
  <2>5. Counted(p)'
    BY <2>4 DEF Counted
  <2> HIDE DEF m
  <2> QED
    BY <2>3, <2>4, <2>5, HaltSave DEF Labels, InPhase
<1>13. ASSUME Finish(p) PROVE HaltInv(p)'
  <2> DEFINE m == [mem[p] EXCEPT !.finished = TRUE]
  <2>1. mem[p] \in SessionState /\ ~mem[p].halted
    BY <1>13, InMemory DEF Finish, Loaded, HaltInv
  <2>2. m \in SessionState /\ ~m.halted
    BY <2>1 DEF SessionState
  <2>3. Save(p, m) /\ Goto(p, "release") /\ pc'[p] = "release"
    BY <1>13, <1>t DEF Finish, Goto, TypeOK
  <2>4. Counted(p)'
    BY <2>3 DEF Counted
  <2> HIDE DEF m
  <2> QED
    BY <2>2, <2>3, <2>4, HaltSave DEF Labels, InPhase
<1>14. ASSUME Halt(p) PROVE HaltInv(p)'
  <2> DEFINE m == [mem[p] EXCEPT !.halted = TRUE]
  <2>1. /\ mem[p] \in SessionState /\ mem[p].current = Phase(p) /\ diagnostic = Phase(p)
        /\ AllTried(mem[p], Phase(p)) /\ ~Contains(mem[p].done, Phase(p))
        /\ Phase(p) \in Phases
    BY <1>14, PhaseAtHand DEF Halt, InPhase, HaltInv, Counted
  <2>2. /\ m \in SessionState /\ m.current = Phase(p) /\ m.done = mem[p].done
        /\ m.retries = mem[p].retries
    BY <2>1 DEF SessionState
  <2>3. /\ state' = Torn /\ mem'[p] = m /\ open'[p] = "state" /\ pc'[p] = "release"
        /\ diagnostic' = diagnostic
    BY <1>14, <1>t DEF Halt, Save, Goto, TypeOK
  <2> HIDE DEF m
  <2>4. Explained(mem[p])'
    BY <2>1, <2>2, <2>3, PhasesAssumption DEF Explained, AllTried
  <2> QED
    BY <2>3, <2>4 DEF HaltInv, Counted, Readable, Loaded, InPhase
<1>15. ASSUME Attempt(p) PROVE HaltInv(p)'
  <2> DEFINE m == [mem[p] EXCEPT !.retries[Phase(p)] = attempt[p] - 1]
  <2>1. /\ mem[p] \in SessionState /\ ~mem[p].halted /\ Phase(p) \in Phases
        /\ attempt[p] \in Nat \ {0} /\ mem[p].current = Phase(p)
    BY <1>15, PhaseAtHand DEF Attempt, Loaded, InPhase, HaltInv
  <2>k. attempt[p] - 1 \in Nat
    BY <2>1
  <2>m. m \in SessionState
    BY <2>1, <2>k DEF SessionState
  <2>2. ~m.halted /\ m.current = Phase(p) /\ m.retries[Phase(p)] = attempt[p] - 1
    BY <2>1, <2>k, FieldsKept
  <2>3. /\ Save(p, m) /\ Goto(p, "invoke") /\ pc'[p] = "invoke" /\ mem'[p] = m
        /\ attempt[p] <= RetryLimit /\ attempt' = attempt /\ Phase(p)' = Phase(p)
    BY <1>15, <1>t DEF Attempt, Save, Goto, TypeOK, Phase
  <2> HIDE DEF m
  <2>4. Counted(p)'
    BY <2>1, <2>2, <2>3 DEF Counted
  <2> QED
    BY <2>m, <2>2, <2>3, <2>4, HaltSave DEF Labels
<1>16. ASSUME GiveUp(p) PROVE HaltInv(p)'
  <2>1. /\ diagnostic' = NoPhase /\ open'[p] = "diagnostic" /\ pc'[p] = "halt"
        /\ UNCHANGED <<state, mem, todo, attempt>>
        /\ attempt[p] > RetryLimit /\ pc[p] = "attempt"
    BY <1>16, <1>t DEF GiveUp, Goto, TypeOK
  <2>2. mem[p] \in SessionState /\ Phase(p) \in Phases /\ attempt[p] \in Nat
    BY <2>1, PhaseAtHand DEF InPhase
  <2>3. mem[p].retries[Phase(p)] \in Nat
    BY <2>2 DEF SessionState
  <2>4. AllTried(mem[p], Phase(p))
    BY <2>1, <2>2, <2>3, LimitAssumption DEF HaltInv, Counted, AllTried
  <2> QED
    BY <2>1, <2>4 DEF HaltInv, Counted, Explained, AllTried, Readable, Loaded, InPhase, Phase
<1>17. ASSUME AgentFails(p) \/ VerifierFails(p) PROVE HaltInv(p)'
  <2>1. /\ UNCHANGED <<state, open, mem, todo, diagnostic>> /\ open[p] = "none"
        /\ pc[p] \in {"agent", "verify"} /\ Goto(p, "attempt")
        /\ pc'[p] = "attempt" /\ attempt'[p] = attempt[p] + 1
    BY <1>17, <1>t DEF AgentFails, VerifierFails, NextAttempt, Goto, TypeOK
  <2>2. mem[p] \in SessionState /\ Phase(p) \in Phases /\ attempt[p] \in Nat
    BY <2>1, PhaseAtHand DEF InPhase
  <2>3. mem[p].retries[Phase(p)] \in Nat
    BY <2>2 DEF SessionState
  <2>4. Counted(p)'
    BY <2>1, <2>2, <2>3, LimitAssumption DEF HaltInv, Counted, Phase
  <2> QED
    BY <2>1, <2>4, HaltMove DEF Labels, Loaded, InPhase
<1>18. ASSUME \/ Invoke(p) \/ BudgetStops(p) \/ AgentSucceeds(p) \/ VerifierPasses(p)
              \/ WriteReceipt(p)
       PROVE  HaltInv(p)'
  <2>1. /\ UNCHANGED <<state, mem, todo, diagnostic, attempt>> /\ open[p] = "none"
        /\ pc[p] \in InPhase /\ open' \in {open, [open EXCEPT ![p] = "receipt"]}
    BY <1>18
    DEF Invoke, BudgetStops, AgentSucceeds, VerifierPasses, WriteReceipt, InPhase
  <2>2. PICK l \in {"agent", "verify", "receipt", "commit", "release"} :
          Goto(p, l) /\ (l \in {"agent", "verify"} => pc[p] \in {"invoke", "agent"})
    BY <1>18 DEF Invoke, BudgetStops, AgentSucceeds, VerifierPasses, WriteReceipt
  <2>3. pc'[p] = l /\ open'[p] \in {"none", "receipt"}
    BY <1>t, <2>1, <2>2 DEF Goto, TypeOK
  <2>4. Counted(p)'
    BY <2>1, <2>2, <2>3 DEF HaltInv, Counted, Phase
  <2> QED
    BY <2>1, <2>2, <2>3, <2>4, HaltMove DEF Labels, Loaded, InPhase
<1>19. ASSUME AgentStreams(p) PROVE HaltInv(p)'
  BY <1>19 DEF AgentStreams, HaltInv, Counted, Explained, AllTried, Readable, Phase
<1>20. CASE LockAges \/ UNCHANGED vars
  BY <1>20 DEF LockAges, vars, HaltInv, Counted, Explained, AllTried, Readable, Phase
<1>21. \A q \in Procs : q = p
  BY DEF Solo
<1> QED
  BY <1>1, <1>2, <1>3, <1>4, <1>5, <1>6, <1>7, <1>8, <1>9, <1>10, <1>11, <1>12,
     <1>13, <1>14, <1>15, <1>16, <1>17, <1>18, <1>19, <1>20, <1>21
  DEF Next, Call, Step, Fill, AcquireLock, Run, RunPhase, AgentExits, Verify

\* With one process at a time, and callers who resume what is halted, a session is
\* found halted only with the diagnostic of its phase, all of whose attempts failed.
THEOREM HaltsExplained ==
  ASSUME NEW p, Procs = {p}, "halted" \notin CallerRuns
  PROVE  Spec => []HaltIsExplained
<1>1. Init => TypeInv /\ RecordInv /\ HaltInv(p)
  BY TypeInit
  DEF Init, RecordInv, CopyOK, HaltInv, Counted, Readable, Loaded, InPhase
<1>2. TypeInv /\ RecordInv /\ HaltInv(p) /\ [Next]_vars =>
        TypeInv' /\ RecordInv' /\ HaltInv(p)'
  BY TypeStep, RecordStep, HaltStep DEF Solo
<1>3. HaltInv(p) => HaltIsExplained
  BY DEF HaltInv, Explained, AllTried, HaltIsExplained
<1> QED
  BY <1>1, <1>2, <1>3, PTL DEF Spec

-----------------------------------------------------------------------------
(***************************************************************************)
(* Partial output.  An attempt consumes what the one before it left, and   *)
(* writes only under its own number: what is left of this phase is of      *)
(* attempts to come, which a dead process made.                            *)
(***************************************************************************)
ConsumedBelow(p, n) == \A k \in 1 .. n : <<Phase(p), k>> \notin wal

ConsumedInv(p) ==
  /\ pc[p] \in {"attempt", "invoke"} => ConsumedBelow(p, attempt[p] - 2)
  /\ pc[p] \in {"agent", "verify"} => ConsumedBelow(p, attempt[p] - 1)

\* The steps that leave the process outside the attempts.
LEMMA ConsumedOutside ==
  ASSUME NEW p, Solo(p), NEW l \in Labels \ {"attempt", "invoke", "agent", "verify"},
         Goto(p, l)
  PROVE  ConsumedInv(p)'
<1>1. pc'[p] = l
  BY GotoType DEF Solo
<1> QED
  BY <1>1 DEF ConsumedInv

LEMMA ConsumedStep ==
  ASSUME NEW p, Solo(p), ConsumedInv(p), [Next]_vars
  PROVE  ConsumedInv(p)'
<1> USE DEF At, notes, files, place, procs, history
<1>t. TypeOK /\ p \in Procs
  BY DEF Solo, TypeInv
<1>1. CASE \/ FillState(p) \/ FillReceipt(p) \/ FillDiagnostic(p) \/ LockAges
           \/ UNCHANGED vars
  <2>1. UNCHANGED <<pc, todo, attempt, wal>>
    BY <1>1 DEF FillState, FillReceipt, FillDiagnostic, LockAges, vars
  <2> QED
    BY <2>1 DEF ConsumedInv, ConsumedBelow, Phase
<1>2. ASSUME \/ \E plan \in Plans : CallRun(p, plan)
             \/ CallResume(p) \/ ResumeSave(p) \/ LockOpen(p) \/ LockWrite(p)
             \/ LockIsStale(p) \/ LockUnlink(p) \/ Load(p) \/ Commit(p) \/ Halt(p)
             \/ Finish(p) \/ GiveUp(p) \/ BudgetStops(p) \/ VerifierPasses(p)
             \/ WriteReceipt(p)
      PROVE  ConsumedInv(p)'
  <2>1. \E l \in Labels \ {"attempt", "invoke", "agent", "verify"} : Goto(p, l)
    BY <1>2
    DEF CallRun, CallResume, ResumeSave, LockOpen, LockWrite, LockIsStale, LockUnlink,
        Load, Commit, Halt, Finish, GiveUp, BudgetStops, VerifierPasses, WriteReceipt,
        Labels
  <2> QED
    BY <2>1, ConsumedOutside
<1>3. ASSUME LockIsHeld(p) \/ Release(p) \/ Crash(p) PROVE ConsumedInv(p)'
  <2>1. pc'[p] = "idle"
    BY <1>3, <1>t DEF LockIsHeld, Release, Crash, Forget, TypeOK
  <2> QED
    BY <2>1 DEF ConsumedInv
<1>4. ASSUME SkipPhase(p) PROVE ConsumedInv(p)'
  BY <1>4 DEF SkipPhase, ConsumedInv
<1>5. ASSUME BeginPhase(p) PROVE ConsumedInv(p)'
  <2>1. pc'[p] = "attempt" /\ attempt'[p] = 1
    BY <1>5, <1>t DEF BeginPhase, Goto, TypeOK
  <2> QED
    BY <2>1 DEF ConsumedInv, ConsumedBelow
<1>6. ASSUME Attempt(p) PROVE ConsumedInv(p)'
  <2>1. /\ pc[p] = "attempt" /\ pc'[p] = "invoke"
        /\ UNCHANGED <<wal, attempt, todo>>
    BY <1>6, <1>t DEF Attempt, Goto, TypeOK
  <2> QED
    BY <2>1 DEF ConsumedInv, ConsumedBelow, Phase
<1>7. ASSUME Invoke(p) PROVE ConsumedInv(p)'
  <2>1. /\ pc[p] = "invoke" /\ pc'[p] = "agent" /\ UNCHANGED <<attempt, todo>>
        /\ wal' = wal \ {<<Phase(p), attempt[p] - 1>>} /\ attempt[p] \in Nat \ {0}
    BY <1>7, <1>t, PhaseAtHand DEF Invoke, Goto, TypeOK, InPhase
  <2>2. ASSUME NEW k \in 1 .. attempt[p] - 1 PROVE <<Phase(p), k>> \notin wal'
    <3>1. k = attempt[p] - 1 \/ k \in 1 .. attempt[p] - 2
      BY <2>1
    <3> QED
      BY <2>1, <3>1 DEF ConsumedInv, ConsumedBelow
  <2> QED
    BY <2>1, <2>2 DEF ConsumedInv, ConsumedBelow, Phase
<1>8. ASSUME AgentStreams(p) PROVE ConsumedInv(p)'
  <2>1. /\ pc[p] = "agent" /\ UNCHANGED <<pc, attempt, todo>>
        /\ wal' = wal \cup {<<Phase(p), attempt[p]>>} /\ attempt[p] \in Nat \ {0}
    BY <1>8, PhaseAtHand DEF AgentStreams, ThisWal, InPhase
  <2>2. ASSUME NEW k \in 1 .. attempt[p] - 1 PROVE <<Phase(p), k>> \notin wal'
    <3>1. k # attempt[p]
      BY <2>1
    <3> QED
      BY <2>1, <3>1 DEF ConsumedInv, ConsumedBelow
  <2> QED
    BY <2>1, <2>2 DEF ConsumedInv, ConsumedBelow, Phase
<1>9. ASSUME AgentSucceeds(p) PROVE ConsumedInv(p)'
  <2>1. /\ pc[p] = "agent" /\ pc'[p] \in {"verify", "receipt"}
        /\ UNCHANGED <<attempt, todo>> /\ wal' \subseteq wal
    BY <1>9, <1>t DEF AgentSucceeds, Goto, TypeOK
  <2> QED
    BY <2>1 DEF ConsumedInv, ConsumedBelow, Phase
<1>10. ASSUME AgentFails(p) \/ VerifierFails(p) PROVE ConsumedInv(p)'
  <2>1. /\ pc[p] \in {"agent", "verify"} /\ pc'[p] = "attempt" /\ UNCHANGED todo
        /\ wal' \subseteq wal /\ attempt'[p] = attempt[p] + 1
    BY <1>10, <1>t DEF AgentFails, VerifierFails, NextAttempt, Goto, TypeOK
  <2>2. attempt[p] \in Nat
    BY <2>1, PhaseAtHand DEF InPhase
  <2>3. attempt'[p] - 2 = attempt[p] - 1
    BY <2>1, <2>2
  <2> QED
    BY <2>1, <2>3 DEF ConsumedInv, ConsumedBelow, Phase
<1>11. \A q \in Procs : q = p
  BY DEF Solo
<1> QED
  BY <1>1, <1>2, <1>3, <1>4, <1>5, <1>6, <1>7, <1>8, <1>9, <1>10, <1>11
  DEF Next, Call, Step, Fill, AcquireLock, Run, RunPhase, AgentExits, Verify

\* With one process at a time, no output of an earlier attempt of the phase is left
\* when its agent works: none is fed into a prompt twice.
THEOREM EarlierConsumed ==
  ASSUME NEW p, Procs = {p}
  PROVE  Spec => []EarlierOutputConsumed
<1>1. Init => TypeInv /\ RecordInv /\ ConsumedInv(p)
  BY TypeInit DEF Init, RecordInv, CopyOK, ConsumedInv, Readable, Loaded, InPhase
<1>2. TypeInv /\ RecordInv /\ ConsumedInv(p) /\ [Next]_vars =>
        TypeInv' /\ RecordInv' /\ ConsumedInv(p)'
  BY TypeStep, RecordStep, ConsumedStep DEF Solo
<1>3. ConsumedInv(p) => EarlierOutputConsumed
  BY DEF ConsumedInv, ConsumedBelow, EarlierOutputConsumed
<1> QED
  BY <1>1, <1>2, <1>3, PTL DEF Spec

-----------------------------------------------------------------------------
(***************************************************************************)
(* The session.  With one plan, what the session holds or is being given   *)
(* is a beginning of it, and a process at work has that in memory and is   *)
(* at the phase due, or at one that is complete.                           *)
(***************************************************************************)
SolePlan(plan) == Plans = {plan} /\ IsInjective(plan)

OnPlan(s, plan) ==
  /\ s.phases = plan
  /\ Len(s.done) <= Len(plan)
  /\ \A k \in 1 .. Len(s.done) : s.done[k] = plan[k]
  /\ s.finished => Len(s.done) = Len(plan) /\ ~s.halted

\* How far in the plan the loop has come, and that the rest is still to do.
ComeTo(p, plan) == Len(plan) - Len(todo[p])

RestOf(p, plan) ==
  /\ Len(todo[p]) <= Len(plan)
  /\ \A k \in 1 .. Len(todo[p]) : todo[p][k] = plan[ComeTo(p, plan) + k]

Waiting == {"lockOpen", "lockWrite", "lockRead", "lockUnlink", "load"}
AtWork == Loaded \ {"resume"}

Given == Durable \notin {NoFile, Torn}

PlanInv(p, plan) ==
  /\ Given => Durable \in SessionState /\ OnPlan(Durable, plan)
  /\ dropped[p] \subseteq (IF Given THEN ToSet(Durable.done) ELSE {})
  /\ pc[p] \in {"idle", "resume"} => dropped[p] = {}
  /\ pc[p] = "resume" => /\ Durable = state /\ Given /\ state.halted
                         /\ mem[p] = [state EXCEPT !.halted = FALSE]
  /\ pc[p] \in Waiting => todo[p] = plan
  /\ pc[p] \in AtWork =>
       /\ Durable = mem[p] /\ mem[p] \in SessionState
       /\ RestOf(p, plan) /\ ComeTo(p, plan) <= Len(mem[p].done)
  /\ pc[p] \in InPhase => todo[p] # <<>> /\ ComeTo(p, plan) = Len(mem[p].done)

\* All that is known of one process on one plan.
Steady(p) == Solo(p) /\ KeptInv(p) /\ HaltInv(p)

LEMMA TheSolo ==
  ASSUME NEW p, Procs = {p}
  PROVE  TheProc = p
BY DEF TheProc

LEMMA ThePlan ==
  ASSUME NEW plan, Plans = {plan}
  PROVE  (CHOOSE q \in Plans : TRUE) = plan
OBVIOUS

\* What the session is being given after a save, and what no save changes.
LEMMA DurableSaved ==
  ASSUME NEW p, Solo(p), NEW m \in SessionState, Save(p, m)
  PROVE  /\ Durable' = m /\ Given' /\ open'[p] = "state" /\ mem'[p] = m
BY SaveType, TheSolo, FilesAssumption DEF Solo, TypeInv, TypeOK, Save, Durable, Given

LEMMA DurableKept ==
  ASSUME NEW p, Solo(p), HaltInv(p), UNCHANGED state,
         open[p] # "state", open'[p] # "state"
  PROVE  /\ Durable = state /\ Durable' = Durable /\ Given' = Given
BY TheSolo DEF Solo, Durable, Given

\* A phase of the plan is complete if it is among the first; the one the loop has
\* come to is the next one, if it is not.
LEMMA PassedIsDone ==
  ASSUME NEW p, NEW plan, Solo(p), SolePlan(plan), PlanInv(p, plan),
         pc[p] \in AtWork, todo[p] # <<>>
  PROVE  /\ ComeTo(p, plan) \in Nat /\ ComeTo(p, plan) < Len(plan)
         /\ Phase(p) = plan[ComeTo(p, plan) + 1]
         /\ Passed(p) <=> ComeTo(p, plan) < Len(mem[p].done)
<1>1. /\ todo[p] \in Seq(Phases) /\ plan \in Seq(Phases) /\ mem[p].done \in Seq(Phases)
  BY PhasesAssumption DEF Solo, TypeInv, TypeOK, SolePlan, PlanInv, SessionState
<1>2. /\ Len(todo[p]) \in 1 .. Len(plan) /\ Len(plan) \in Nat /\ Len(mem[p].done) \in Nat
      /\ ComeTo(p, plan) <= Len(mem[p].done) /\ Len(mem[p].done) <= Len(plan)
  <2>1. Len(todo[p]) # 0 /\ Len(todo[p]) \in Nat
    BY <1>1
  <2>2. Given
    BY FilesAssumption DEF PlanInv, Given
  <2> QED
    BY <1>1, <2>1, <2>2 DEF PlanInv, RestOf, OnPlan
<1>3. ComeTo(p, plan) \in Nat /\ ComeTo(p, plan) < Len(plan)
  BY <1>2 DEF ComeTo
<1>4. Phase(p) = plan[ComeTo(p, plan) + 1]
  <2>1. todo[p][1] = plan[ComeTo(p, plan) + 1]
    BY <1>2 DEF PlanInv, RestOf
  <2> QED
    BY <1>1, <2>1 DEF Phase
<1>5. \A k \in 1 .. Len(mem[p].done) : mem[p].done[k] = plan[k]
  BY FilesAssumption DEF PlanInv, OnPlan, Given
<1>6. dropped[p] \subseteq ToSet(mem[p].done)
  BY FilesAssumption DEF PlanInv, Given
<1>7. \A e : e \in ToSet(mem[p].done) <=> \E k \in 1 .. Len(mem[p].done) : mem[p].done[k] = e
  BY <1>1 DEF ToSet
<1>8. Passed(p) <=> \E k \in 1 .. Len(mem[p].done) : plan[k] = Phase(p)
  BY <1>1, <1>5, <1>6, <1>7 DEF Passed, Contains
<1>9. ASSUME NEW k \in 1 .. Len(mem[p].done), plan[k] = Phase(p)
      PROVE  k = ComeTo(p, plan) + 1
  <2>1. k \in DOMAIN plan /\ ComeTo(p, plan) + 1 \in DOMAIN plan
    BY <1>1, <1>2, <1>3
  <2> QED
    BY <1>4, <1>9, <2>1 DEF SolePlan, IsInjective
<1>10. ASSUME ComeTo(p, plan) < Len(mem[p].done) PROVE Passed(p)
  <2>1. ComeTo(p, plan) + 1 \in 1 .. Len(mem[p].done)
    BY <1>2, <1>3, <1>10
  <2> QED
    BY <1>4, <1>8, <2>1
<1>11. ASSUME Passed(p) PROVE ComeTo(p, plan) < Len(mem[p].done)
  <2>1. PICK k \in 1 .. Len(mem[p].done) : plan[k] = Phase(p)
    BY <1>8, <1>11
  <2> QED
    BY <1>2, <1>3, <1>9, <2>1
<1> QED
  BY <1>3, <1>4, <1>10, <1>11

\* The session is saved.
LEMMA PlanSave ==
  ASSUME NEW p, NEW plan, Solo(p), NEW m \in SessionState, OnPlan(m, plan), Save(p, m),
         NEW l \in Labels \ {"idle", "resume"}, Goto(p, l),
         dropped'[p] \subseteq ToSet(m.done),
         l \in Waiting => todo'[p] = plan,
         l \in AtWork => RestOf(p, plan)' /\ ComeTo(p, plan)' <= Len(m.done),
         l \in InPhase => todo'[p] # <<>> /\ ComeTo(p, plan)' = Len(m.done)
  PROVE  PlanInv(p, plan)'
<1>1. Durable' = m /\ Given' /\ mem'[p] = m /\ pc'[p] = l
  BY DurableSaved, GotoType DEF Solo
<1> QED
  BY <1>1 DEF PlanInv

\* The session, the copy of it and the list stay.
LEMMA PlanMove ==
  ASSUME NEW p, NEW plan, Solo(p), HaltInv(p), PlanInv(p, plan),
         UNCHANGED <<state, mem, todo, dropped>>, open[p] # "state", open'[p] # "state",
         NEW l \in Labels \ {"idle", "resume"}, Goto(p, l),
         l \in Waiting => pc[p] \in Waiting, l \in AtWork => pc[p] \in AtWork,
         l \in InPhase => pc[p] \in InPhase
  PROVE  PlanInv(p, plan)'
<1>1. Durable' = Durable /\ Given' = Given /\ pc'[p] = l
  BY DurableKept, GotoType DEF Solo
<1> QED
  BY <1>1 DEF PlanInv, RestOf, ComeTo

LEMMA PlanForget ==
  ASSUME NEW p, NEW plan, Solo(p), HaltInv(p), PlanInv(p, plan), Forget(p),
         UNCHANGED state
  PROVE  /\ PlanInv(p, plan)'
         /\ Durable' = state /\ (open[p] # "state" => Durable = state)
         /\ open[p] = "state" => state = Torn
<1>1. pc'[p] = "idle" /\ dropped'[p] = {} /\ open'[p] = "none"
  BY DEF Forget, Solo, TypeInv, TypeOK
<1>2. Durable' = state /\ (open[p] # "state" => Durable = state)
  BY <1>1, TheSolo DEF Solo, Durable
<1>3. open[p] = "state" => state = Torn
  BY DEF HaltInv
<1> QED
  BY <1>1, <1>2, <1>3 DEF PlanInv, Given, Waiting, AtWork, InPhase, Loaded

LEMMA PlanStep ==
  ASSUME NEW p, NEW plan, Steady(p), SolePlan(plan), PlanInv(p, plan), [Next]_vars
  PROVE  PlanInv(p, plan)'
<1> USE DEF At, notes, files, place, procs, history
<1>t. TypeOK /\ p \in Procs /\ Solo(p) /\ HaltInv(p) /\ plan \in Seq(Phases)
  BY PhasesAssumption DEF Steady, Solo, TypeInv, SolePlan
<1>l. todo[p] \in Seq(Phases)
  BY <1>t DEF TypeOK
<1>w. pc[p] \in AtWork => mem[p] \in SessionState /\ OnPlan(mem[p], plan)
                          /\ dropped[p] \subseteq ToSet(mem[p].done)
  BY FilesAssumption DEF PlanInv, Given
<1>1. ASSUME FillState(p) PROVE PlanInv(p, plan)'
  <2>1. /\ state' = mem[p] /\ open'[p] = "none" /\ mem[p] \in SessionState
        /\ UNCHANGED <<pc, mem, todo, dropped>> /\ state = Torn
    BY <1>1, <1>t, InMemory DEF FillState, HaltInv, TypeOK
  <2>2. Durable = mem[p] /\ Durable' = mem[p] /\ Given /\ Given'
    BY <1>1, <1>t, <2>1, TheSolo, FilesAssumption DEF Durable, Given, Solo, FillState
  <2>3. pc[p] # "resume"
    BY <2>1, <2>2 DEF PlanInv, Given
  <2> QED
    BY <2>1, <2>2, <2>3 DEF PlanInv, RestOf, ComeTo
<1>2. CASE \/ FillReceipt(p) \/ FillDiagnostic(p) \/ AgentStreams(p) \/ LockAges
           \/ UNCHANGED vars
  <2>1. UNCHANGED <<state, pc, mem, todo, dropped>>
    BY <1>2 DEF FillReceipt, FillDiagnostic, AgentStreams, LockAges, vars
  <2>2. open'[p] = open[p] \/ (open[p] # "state" /\ open'[p] = "none")
    BY <1>2, <1>t DEF FillReceipt, FillDiagnostic, AgentStreams, LockAges, vars, TypeOK
  <2>3. Durable' = Durable /\ Given' = Given
    BY <1>t, <2>1, <2>2, TheSolo DEF Solo, Durable, Given
  <2> QED
    BY <2>1, <2>3 DEF PlanInv, RestOf, ComeTo
<1>3. ASSUME NEW q \in Plans, CallRun(p, q) PROVE PlanInv(p, plan)'
  <2>1. /\ pc[p] = "idle" /\ pc'[p] = "lockOpen" /\ todo'[p] = plan
        /\ open[p] = "none" /\ UNCHANGED <<state, open, dropped>>
    BY <1>3, <1>t DEF CallRun, Goto, TypeOK, SolePlan
  <2>2. Durable' = Durable /\ Given' = Given
    BY <1>t, <2>1, DurableKept
  <2> QED
    BY <2>1, <2>2 DEF PlanInv, Waiting, AtWork, Loaded, InPhase
<1>4. ASSUME CallResume(p) PROVE PlanInv(p, plan)'
  <2>1. /\ pc[p] = "idle" /\ pc'[p] = "resume" /\ state.halted /\ Readable
        /\ mem'[p] = [state EXCEPT !.halted = FALSE]
        /\ open[p] = "none" /\ UNCHANGED <<state, open, dropped>>
    BY <1>4, <1>t DEF CallResume, Goto, TypeOK
  <2>2. Durable = state /\ Durable' = Durable /\ Given' = Given
    BY <1>t, <2>1, DurableKept
  <2> QED
    BY <2>1, <2>2 DEF PlanInv, Given, Readable, Waiting, AtWork, Loaded, InPhase
<1>5. ASSUME ResumeSave(p) PROVE PlanInv(p, plan)'
  <2>1. /\ mem[p] = [state EXCEPT !.halted = FALSE] /\ state.halted
        /\ state \in SessionState /\ OnPlan(state, plan)
    BY <1>5 DEF ResumeSave, PlanInv
  <2>2. /\ mem[p].phases = state.phases /\ mem[p].done = state.done
        /\ mem[p].finished = state.finished /\ mem[p] \in SessionState
    BY <2>1 DEF SessionState
  <2>3. OnPlan(mem[p], plan)
    BY <2>1, <2>2 DEF OnPlan
  <2>4. todo'[p] = plan /\ dropped'[p] = ToSet(mem[p].done)
    BY <1>5, <1>t, <2>3 DEF ResumeSave, OnPlan, TypeOK
  <2> QED
    BY <1>5, <1>t, <2>2, <2>3, <2>4, PlanSave
    DEF ResumeSave, Labels, AtWork, Loaded, InPhase
<1>6. ASSUME LockOpen(p) \/ LockWrite(p) \/ LockIsStale(p) \/ LockUnlink(p)
      PROVE  PlanInv(p, plan)'
  <2>1. PICK l \in {"lockWrite", "lockRead", "load", "lockUnlink", "lockOpen"} : Goto(p, l)
    BY <1>6 DEF LockOpen, LockWrite, LockIsStale, LockUnlink
  <2>2. UNCHANGED <<state, open, mem, todo, dropped>> /\ open[p] = "none"
        /\ pc[p] \in Waiting
    BY <1>6 DEF LockOpen, LockWrite, LockIsStale, LockUnlink, Waiting
  <2> QED
    BY <1>t, <2>1, <2>2, PlanMove DEF Labels, Waiting, AtWork, Loaded, InPhase
<1>7. ASSUME LockIsHeld(p) \/ Release(p) \/ Crash(p) PROVE PlanInv(p, plan)'
  BY <1>7, <1>t, PlanForget DEF LockIsHeld, Release, Crash
<1>8. ASSUME Load(p) PROVE PlanInv(p, plan)'
  <2>1. /\ open[p] = "none" /\ pc[p] = "load" /\ todo[p] = plan
        /\ UNCHANGED <<todo, dropped>> /\ Durable = state
    BY <1>8, <1>t, TheSolo DEF Load, PlanInv, Waiting, Durable, Solo
  <2>2. RestOf(p, plan)' /\ ComeTo(p, plan)' = 0
    <3>1. todo'[p] = plan /\ Len(plan) \in Nat
      BY <1>t, <2>1
    <3>2. ComeTo(p, plan)' = 0
      BY <3>1 DEF ComeTo
    <3>3. \A k \in 1 .. Len(plan) : 0 + k = k
      OBVIOUS
    <3> QED
      BY <3>1, <3>2, <3>3 DEF RestOf
  <2>3. CASE state = NoFile /\ Save(p, NewState(todo[p])) /\ Goto(p, "loop")
    <3>1. /\ NewState(plan) \in SessionState /\ NewState(plan).phases = plan
          /\ NewState(plan).done = <<>> /\ ~NewState(plan).finished
      BY <1>t, NewSession DEF NewState
    <3>2. OnPlan(NewState(plan), plan) /\ Len(NewState(plan).done) = 0
      BY <1>t, <3>1 DEF OnPlan
    <3>3. dropped'[p] = {}
      BY <2>1, <2>3 DEF PlanInv, Given
    <3> QED
      BY <1>t, <2>1, <2>2, <2>3, <3>1, <3>2, <3>3, PlanSave DEF Labels, Waiting, InPhase
  <2>4. CASE Goto(p, "release") /\ UNCHANGED <<state, open, mem>>
    BY <1>t, <2>1, <2>4, PlanMove DEF Labels, Waiting, AtWork, Loaded, InPhase
  <2>5. CASE /\ Readable /\ mem' = [mem EXCEPT ![p] = state]
             /\ Goto(p, "loop") /\ UNCHANGED <<state, open>>
    <3>1. pc'[p] = "loop" /\ mem'[p] = state
      BY <1>t, <2>5 DEF Goto, TypeOK
    <3>2. Durable' = state /\ Given' /\ Given
      BY <1>t, <2>1, <2>5, DurableKept DEF Readable, Given
    <3>3. state \in SessionState /\ OnPlan(state, plan) /\ Len(state.done) \in Nat
      BY <2>1, <3>2 DEF PlanInv, SessionState
    <3> QED
      BY <2>1, <2>2, <3>1, <3>2, <3>3 DEF PlanInv, Waiting, AtWork, Loaded, InPhase
  <2> QED
    BY <1>8, <2>3, <2>4, <2>5 DEF Load
<1>9. ASSUME SkipPhase(p) PROVE PlanInv(p, plan)'
  <2>1. /\ pc[p] = "loop" /\ todo[p] # <<>> /\ todo'[p] = Tail(todo[p])
        /\ UNCHANGED <<state, pc, open, mem, dropped>> /\ open[p] = "none" /\ Passed(p)
    BY <1>9, <1>t DEF SkipPhase, TypeOK
  <2>2. ComeTo(p, plan) < Len(mem[p].done) /\ ComeTo(p, plan) \in Nat
    BY <1>t, <2>1, PassedIsDone DEF AtWork, Loaded
  <2>3. /\ Len(todo'[p]) = Len(todo[p]) - 1
        /\ \A k \in 1 .. Len(todo'[p]) : todo'[p][k] = todo[p][k + 1]
        /\ Len(todo[p]) \in Nat \ {0} /\ Len(plan) \in Nat
        /\ Len(todo[p]) <= Len(plan) /\ RestOf(p, plan)
    BY <1>l, <1>t, <2>1 DEF PlanInv, AtWork, Loaded, RestOf
  <2>4. Len(mem[p].done) \in Nat
    BY <1>w, <2>1 DEF AtWork, Loaded, SessionState
  <2>5. ComeTo(p, plan)' = ComeTo(p, plan) + 1
    BY <2>3 DEF ComeTo
  <2>6. RestOf(p, plan)' /\ ComeTo(p, plan)' <= Len(mem[p].done)
    <3>1. ComeTo(p, plan) + 1 <= Len(mem[p].done)
      BY <2>2, <2>4
    <3>2. Len(todo'[p]) <= Len(plan)
      BY <2>3
    <3>3. ASSUME NEW k \in 1 .. Len(todo'[p])
          PROVE  todo'[p][k] = plan[ComeTo(p, plan)' + k]
      <4>1. k + 1 \in 1 .. Len(todo[p])
        BY <2>3
      <4>2. ComeTo(p, plan) + (k + 1) = (ComeTo(p, plan) + 1) + k
        BY <2>2
      <4> QED
        BY <2>3, <2>5, <4>1, <4>2 DEF RestOf
    <3> QED
      BY <2>5, <3>1, <3>2, <3>3 DEF RestOf
  <2>7. Durable' = Durable /\ Given' = Given
    BY <1>t, <2>1, DurableKept
  <2> QED
    BY <2>1, <2>6, <2>7 DEF PlanInv, Waiting, AtWork, InPhase
<1>10. ASSUME BeginPhase(p) PROVE PlanInv(p, plan)'
  <2> DEFINE m == [mem[p] EXCEPT !.current = Phase(p)]
  <2>1. /\ pc[p] = "loop" /\ todo[p] # <<>> /\ ~Passed(p) /\ UNCHANGED <<todo, dropped>>
        /\ Save(p, m) /\ Goto(p, "attempt") /\ Phase(p) \in Phases
    BY <1>10, <1>t, PhaseType DEF BeginPhase, Solo
  <2>2. /\ m \in SessionState /\ m.phases = mem[p].phases /\ m.done = mem[p].done
        /\ m.halted = mem[p].halted /\ m.finished = mem[p].finished
    BY <1>w, <2>1 DEF AtWork, Loaded, SessionState
  <2>w. pc[p] \in AtWork
    BY <2>1 DEF AtWork, Loaded
  <2>3. ComeTo(p, plan) = Len(mem[p].done) /\ RestOf(p, plan)
    <3>1. ComeTo(p, plan) <= Len(mem[p].done) /\ RestOf(p, plan)
      BY <2>w DEF PlanInv
    <3>2. Len(mem[p].done) \in Nat
      BY <1>w, <2>w DEF SessionState
    <3>3. ComeTo(p, plan) \in Nat /\ ~(ComeTo(p, plan) < Len(mem[p].done))
      BY <1>t, <2>1, <2>w, PassedIsDone
    <3> QED
      BY <3>1, <3>2, <3>3
  <2>4. ComeTo(p, plan)' = Len(mem[p].done) /\ RestOf(p, plan)'
    <3>1. ComeTo(p, plan)' = ComeTo(p, plan)
      BY <2>1 DEF ComeTo
    <3> QED
      BY <2>1, <2>3, <3>1 DEF RestOf
  <2> HIDE DEF m
  <2>5. OnPlan(m, plan)
    BY <1>w, <2>1, <2>2 DEF OnPlan, AtWork, Loaded
  <2> QED
    BY <1>t, <1>w, <2>1, <2>2, <2>3, <2>4, <2>5, PlanSave DEF Labels, Waiting, AtWork, Loaded
<1>11. ASSUME Commit(p) PROVE PlanInv(p, plan)'
  <2> DEFINE m == [mem[p] EXCEPT !.done = Append(@, Phase(p)), !.current = NoPhase]
  <2>1. /\ pc[p] = "commit" /\ todo[p] # <<>> /\ todo'[p] = Tail(todo[p])
        /\ UNCHANGED dropped /\ Save(p, m) /\ Goto(p, "loop")
    BY <1>11, <1>t DEF Commit, TypeOK, PlanInv, InPhase
  <2>2. /\ mem[p] \in SessionState /\ OnPlan(mem[p], plan) /\ Phase(p) \in Phases
        /\ dropped[p] \subseteq ToSet(mem[p].done) /\ mem[p].done \in Seq(Phases)
    BY <1>t, <1>w, <2>1, PhaseAtHand DEF AtWork, Loaded, InPhase, SessionState
  <2>3. Append(mem[p].done, Phase(p)) \in Seq(Phases)
    BY <2>2
  <2>4. /\ m \in SessionState /\ m.phases = mem[p].phases
        /\ m.done = Append(mem[p].done, Phase(p)) /\ m.finished = mem[p].finished
    BY <2>2, <2>3 DEF SessionState
  <2>5. /\ ComeTo(p, plan) \in Nat /\ ComeTo(p, plan) < Len(plan)
        /\ Phase(p) = plan[ComeTo(p, plan) + 1] /\ ComeTo(p, plan) = Len(mem[p].done)
    BY <1>t, <2>1, PassedIsDone DEF PlanInv, AtWork, Loaded, InPhase
  <2> HIDE DEF m
  <2>6. OnPlan(m, plan)
    <3>1. Len(m.done) = Len(mem[p].done) + 1 /\ Len(m.done) <= Len(plan)
      BY <1>t, <2>2, <2>4, <2>5
    <3>2. ASSUME NEW k \in 1 .. Len(m.done) PROVE m.done[k] = plan[k]
      <4>1. k \in 1 .. Len(mem[p].done) \/ k = Len(mem[p].done) + 1
        BY <2>2, <3>1
      <4> QED
        BY <2>2, <2>4, <2>5, <4>1 DEF OnPlan
    <3>3. ~m.finished
      BY <2>2, <2>4, <2>5 DEF OnPlan
    <3> QED
      BY <2>2, <2>4, <3>1, <3>2, <3>3 DEF OnPlan
  <2>7. dropped'[p] \subseteq ToSet(m.done)
    <3>1. \A k \in 1 .. Len(mem[p].done) :
            k \in 1 .. Len(m.done) /\ m.done[k] = mem[p].done[k]
      BY <2>2, <2>4
    <3>2. DOMAIN mem[p].done = 1 .. Len(mem[p].done) /\ DOMAIN m.done = 1 .. Len(m.done)
      BY <2>2, <2>3, <2>4
    <3> QED
      BY <2>1, <2>2, <3>1, <3>2 DEF ToSet
  <2>8. /\ Len(todo'[p]) = Len(todo[p]) - 1
        /\ \A k \in 1 .. Len(todo'[p]) : todo'[p][k] = todo[p][k + 1]
        /\ Len(todo[p]) \in Nat \ {0} /\ Len(plan) \in Nat /\ RestOf(p, plan)
    BY <1>l, <1>t, <2>1 DEF PlanInv, AtWork, Loaded, RestOf
  <2>9. ComeTo(p, plan)' = ComeTo(p, plan) + 1
    BY <2>5, <2>8 DEF ComeTo
  <2>10. RestOf(p, plan)' /\ ComeTo(p, plan)' <= Len(m.done)
    <3>1. Len(m.done) = Len(mem[p].done) + 1
      BY <2>2, <2>4
    <3> QED
      BY <2>5, <2>8, <2>9, <3>1 DEF RestOf
  <2> QED
    BY <1>t, <2>1, <2>4, <2>6, <2>7, <2>10, PlanSave DEF Labels, Waiting, InPhase
<1>12. ASSUME Finish(p) PROVE PlanInv(p, plan)'
  <2> DEFINE m == [mem[p] EXCEPT !.finished = TRUE]
  <2>1. /\ pc[p] = "loop" /\ todo[p] = <<>> /\ UNCHANGED dropped
        /\ Save(p, m) /\ Goto(p, "release")
    BY <1>12 DEF Finish
  <2>2. /\ mem[p] \in SessionState /\ OnPlan(mem[p], plan) /\ ~mem[p].halted
        /\ dropped[p] \subseteq ToSet(mem[p].done)
    BY <1>t, <1>w, <2>1 DEF AtWork, Loaded, HaltInv
  <2>3. /\ m \in SessionState /\ m.phases = mem[p].phases
        /\ m.done = mem[p].done /\ m.halted = mem[p].halted
    BY <2>2 DEF SessionState
  <2>4. Len(mem[p].done) = Len(plan)
    <3>1. ComeTo(p, plan) <= Len(mem[p].done) /\ Len(mem[p].done) <= Len(plan)
          /\ Len(mem[p].done) \in Nat /\ Len(plan) \in Nat /\ Len(todo[p]) = 0
      BY <1>t, <2>1, <2>2 DEF PlanInv, OnPlan, AtWork, Loaded, SessionState
    <3> QED
      BY <3>1 DEF ComeTo
  <2> HIDE DEF m
  <2>5. OnPlan(m, plan)
    BY <2>2, <2>3, <2>4 DEF OnPlan
  <2> QED
    BY <1>t, <2>1, <2>2, <2>3, <2>5, PlanSave DEF Labels, Waiting, AtWork, Loaded, InPhase
<1>13. ASSUME Halt(p) PROVE PlanInv(p, plan)'
  <2> DEFINE m == [mem[p] EXCEPT !.halted = TRUE]
  <2>1. /\ pc[p] = "halt" /\ UNCHANGED dropped /\ Save(p, m) /\ Goto(p, "release")
    BY <1>13 DEF Halt
  <2>2. /\ mem[p] \in SessionState /\ OnPlan(mem[p], plan)
        /\ dropped[p] \subseteq ToSet(mem[p].done)
    BY <1>w, <2>1 DEF AtWork, Loaded
  <2>3. /\ m \in SessionState /\ m.phases = mem[p].phases
        /\ m.done = mem[p].done /\ m.finished = mem[p].finished
    BY <2>2 DEF SessionState
  <2>4. Len(mem[p].done) < Len(plan)
    BY <1>t, <2>1, PassedIsDone DEF PlanInv, AtWork, Loaded, InPhase
  <2>5. ~mem[p].finished
    BY <1>t, <2>2, <2>4 DEF OnPlan, SessionState
  <2> HIDE DEF m
  <2>6. OnPlan(m, plan)
    BY <2>2, <2>3, <2>5 DEF OnPlan
  <2> QED
    BY <1>t, <2>1, <2>2, <2>3, <2>6, PlanSave DEF Labels, Waiting, AtWork, Loaded, InPhase
<1>14. ASSUME Attempt(p) PROVE PlanInv(p, plan)'
  <2> DEFINE m == [mem[p] EXCEPT !.retries[Phase(p)] = attempt[p] - 1]
  <2>1. /\ pc[p] = "attempt" /\ UNCHANGED <<todo, dropped>>
        /\ Save(p, m) /\ Goto(p, "invoke")
    BY <1>14 DEF Attempt
  <2>2. /\ mem[p] \in SessionState /\ OnPlan(mem[p], plan) /\ Phase(p) \in Phases
        /\ dropped[p] \subseteq ToSet(mem[p].done) /\ attempt[p] - 1 \in Nat
    BY <1>t, <1>w, <2>1, PhaseAtHand DEF AtWork, Loaded, InPhase
  <2>3. /\ m \in SessionState /\ m.phases = mem[p].phases /\ m.done = mem[p].done
        /\ m.halted = mem[p].halted /\ m.finished = mem[p].finished
    BY <2>2 DEF SessionState
  <2>4. /\ RestOf(p, plan) /\ ComeTo(p, plan) = Len(mem[p].done) /\ todo[p] # <<>>
        /\ Len(mem[p].done) \in Nat
    BY <2>1, <2>2 DEF PlanInv, AtWork, Loaded, InPhase, SessionState
  <2>5. RestOf(p, plan)' /\ ComeTo(p, plan)' = ComeTo(p, plan)
    BY <2>1, <2>4 DEF RestOf, ComeTo
  <2> HIDE DEF m
  <2>6. OnPlan(m, plan)
    BY <2>2, <2>3 DEF OnPlan
  <2> QED
    BY <1>t, <2>1, <2>2, <2>3, <2>4, <2>5, <2>6, PlanSave DEF Labels, Waiting
<1>15. ASSUME \/ GiveUp(p) \/ Invoke(p) \/ BudgetStops(p) \/ AgentFails(p)
              \/ VerifierFails(p) \/ AgentSucceeds(p) \/ VerifierPasses(p)
              \/ WriteReceipt(p)
       PROVE  PlanInv(p, plan)'
  <2>1. /\ UNCHANGED <<state, mem, todo, dropped>> /\ open[p] = "none"
        /\ pc[p] \in InPhase
    BY <1>15
    DEF GiveUp, Invoke, BudgetStops, AgentFails, VerifierFails, AgentSucceeds,
        VerifierPasses, WriteReceipt, InPhase, NextAttempt
  <2>2. \E l \in InPhase \cup {"release"} : Goto(p, l)
    BY <1>15
    DEF GiveUp, Invoke, BudgetStops, AgentFails, VerifierFails, NextAttempt,
        AgentSucceeds, VerifierPasses, WriteReceipt, InPhase
  <2>3. open'[p] # "state"
    BY <1>15, <1>t, <2>1
    DEF GiveUp, Invoke, BudgetStops, AgentFails, VerifierFails, AgentSucceeds,
        VerifierPasses, WriteReceipt, TypeOK
  <2> QED
    BY <1>t, <2>1, <2>2, <2>3, PlanMove DEF Labels, Waiting, AtWork, Loaded, InPhase
<1>16. \A q \in Procs : q = p
  BY <1>t DEF Solo
<1> QED
  BY <1>1, <1>2, <1>3, <1>4, <1>5, <1>6, <1>7, <1>8, <1>9, <1>10, <1>11, <1>12,
     <1>13, <1>14, <1>15, <1>16
  DEF Next, Call, Step, Fill, AcquireLock, Run, RunPhase, AgentExits, Verify

-----------------------------------------------------------------------------
(***************************************************************************)
(* Each step is one of the session as PipelineSession has it, or leaves it *)
(* as it is.                                                               *)
(***************************************************************************)
LEMMA SameSession ==
  ASSUME Durable' = Durable, UNCHANGED receipts
  PROVE  UNCHANGED Session!vars
BY DEF Session!vars, SessionStatus

LEMMA SameFields ==
  ASSUME Given, Given', UNCHANGED receipts, Durable'.done = Durable.done,
         Durable'.halted = Durable.halted, Durable'.finished = Durable.finished
  PROVE  UNCHANGED Session!vars
BY DEF Session!vars, SessionStatus, Given

\* While a phase is in work the session is open, and that phase is the one due.
LEMMA AtPhase ==
  ASSUME NEW p, NEW plan, Steady(p), SolePlan(plan), PlanInv(p, plan), pc[p] \in InPhase
  PROVE  /\ Given /\ Durable = mem[p] /\ mem[p] \in SessionState
         /\ ~mem[p].halted /\ ~mem[p].finished
         /\ SessionStatus = "open" /\ Session!Left /\ Session!Due = Phase(p)
<1>1. pc[p] \in AtWork /\ pc[p] \in Loaded
  BY DEF InPhase, AtWork, Loaded
<1>2. Durable = mem[p] /\ mem[p] \in SessionState /\ todo[p] # <<>>
      /\ ComeTo(p, plan) = Len(mem[p].done)
  BY <1>1 DEF PlanInv
<1>3. Given /\ OnPlan(mem[p], plan)
  BY <1>2, FilesAssumption DEF PlanInv, Given
<1>4. ~mem[p].halted
  BY <1>1 DEF Steady, HaltInv
<1>5. Len(mem[p].done) < Len(plan) /\ Phase(p) = plan[Len(mem[p].done) + 1]
      /\ Len(mem[p].done) \in Nat
  BY <1>1, <1>2, PassedIsDone DEF Steady
<1>6. ~mem[p].finished
  <2>1. plan \in Seq(Phases)
    BY PhasesAssumption DEF SolePlan
  <2> QED
    BY <1>3, <1>5, <2>1 DEF OnPlan
<1>7. SessionStatus = "open"
  BY <1>2, <1>3, <1>4, <1>6 DEF SessionStatus, Given
<1>8. (CHOOSE q \in Plans : TRUE) = plan
  BY ThePlan DEF SolePlan
<1>9. Session!Left /\ Session!Due = Phase(p)
  BY <1>2, <1>3, <1>5, <1>8 DEF Session!Left, Session!Due, Given
<1> QED
  BY <1>2, <1>3, <1>4, <1>6, <1>7, <1>9

LEMMA SessionStep ==
  ASSUME NEW p, NEW plan, Steady(p), SolePlan(plan), PlanInv(p, plan), [Next]_vars
  PROVE  [Session!Next]_(Session!vars)
<1> USE DEF At, notes, files, place, procs, history
<1>t. TypeOK /\ p \in Procs /\ Solo(p) /\ HaltInv(p) /\ KeptInv(p) /\ plan \in Seq(Phases)
  BY PhasesAssumption DEF Steady, Solo, TypeInv, SolePlan
<1>w. pc[p] \in AtWork => /\ Durable = mem[p] /\ Given /\ mem[p] \in SessionState
                          /\ OnPlan(mem[p], plan) /\ ~mem[p].halted
  BY <1>t, FilesAssumption DEF PlanInv, Given, HaltInv, AtWork
<1>1. ASSUME FillState(p) PROVE UNCHANGED Session!vars
  <2>1. state' = mem[p] /\ open'[p] = "none" /\ open[p] = "state"
        /\ UNCHANGED <<mem, receipts>>
    BY <1>1, <1>t DEF FillState, HaltInv, TypeOK
  <2>2. Durable' = Durable
    BY <1>t, <2>1, TheSolo DEF Durable, Solo
  <2> QED
    BY <2>1, <2>2, SameSession
<1>2. CASE FillDiagnostic(p) \/ AgentStreams(p) \/ LockAges \/ UNCHANGED vars
  <2>1. UNCHANGED <<state, mem, receipts>>
    BY <1>2 DEF FillDiagnostic, AgentStreams, LockAges, vars
  <2>2. open'[p] = open[p] \/ (open[p] # "state" /\ open'[p] = "none")
    BY <1>2, <1>t DEF FillDiagnostic, AgentStreams, LockAges, vars, TypeOK
  <2>3. Durable' = Durable
    BY <1>t, <2>1, <2>2, TheSolo DEF Solo, Durable
  <2> QED
    BY <2>1, <2>3, SameSession
<1>3. ASSUME \/ \E q \in Plans : CallRun(p, q)
             \/ CallResume(p) \/ LockOpen(p) \/ LockWrite(p) \/ LockIsStale(p)
             \/ LockUnlink(p) \/ SkipPhase(p) \/ GiveUp(p) \/ Invoke(p)
             \/ BudgetStops(p) \/ AgentFails(p) \/ VerifierFails(p)
             \/ AgentSucceeds(p) \/ VerifierPasses(p)
      PROVE  UNCHANGED Session!vars
  <2>1. /\ UNCHANGED <<state, receipts>> /\ open[p] = "none"
        /\ open' = open \/ open' = [open EXCEPT ![p] = "diagnostic"]
    BY <1>3
    DEF CallRun, CallResume, LockOpen, LockWrite, LockIsStale, LockUnlink, SkipPhase,
        GiveUp, Invoke, BudgetStops, AgentFails, VerifierFails, NextAttempt,
        AgentSucceeds, VerifierPasses
  <2>2. open'[p] # "state"
    BY <1>t, <2>1 DEF TypeOK
  <2> QED
    BY <1>t, <2>1, <2>2, DurableKept, SameSession
<1>4. ASSUME FillReceipt(p) \/ WriteReceipt(p) PROVE Session!Next
  <2>1. pc[p] \in InPhase
    BY <1>4, <1>t DEF FillReceipt, WriteReceipt, KeptInv, InPhase
  <2>2. /\ receipts' \in {receipts \cup {Phase(p)}, receipts \ {Phase(p)}}
        /\ UNCHANGED state /\ open[p] # "state" /\ open'[p] # "state"
    BY <1>4, <1>t DEF FillReceipt, WriteReceipt, TypeOK
  <2>3. Durable' = Durable
    BY <1>t, <2>2, DurableKept
  <2> QED
    BY <2>1, <2>2, <2>3, AtPhase DEF Session!Next, Session!WriteReceipt, SessionStatus
<1>5. ASSUME ResumeSave(p) PROVE Session!Next
  <2>1. /\ Durable = state /\ Given /\ state \in SessionState /\ OnPlan(state, plan)
        /\ state.halted /\ mem[p] = [state EXCEPT !.halted = FALSE]
    BY <1>5 DEF ResumeSave, PlanInv
  <2>2. /\ mem[p] \in SessionState /\ mem[p].done = state.done /\ ~mem[p].halted
        /\ mem[p].finished = state.finished /\ ~state.finished
    BY <2>1 DEF SessionState, OnPlan
  <2>3. Durable' = mem[p] /\ Given' /\ UNCHANGED receipts
    BY <1>5, <1>t, <2>2, DurableSaved DEF ResumeSave
  <2> QED
    BY <2>1, <2>2, <2>3 DEF Session!Next, Session!Open, SessionStatus, Given
<1>6. ASSUME LockIsHeld(p) \/ Release(p) \/ Crash(p) PROVE [Session!Next]_(Session!vars)
  <2>1. Forget(p) /\ UNCHANGED <<state, receipts>>
    BY <1>6 DEF LockIsHeld, Release, Crash
  <2>2. Durable' = state /\ (open[p] # "state" => Durable = state)
        /\ (open[p] = "state" => state = Torn)
    BY <1>t, <2>1, PlanForget
  <2>3. CASE open[p] # "state"
    BY <2>1, <2>2, <2>3, SameSession
  <2>4. CASE open[p] = "state"
    <3>1. Durable \in SessionState
      BY <1>t, <2>4, InMemory, TheSolo DEF Durable, Solo
    <3>2. SessionStatus # "lost" /\ SessionStatus' = "lost"
      BY <2>2, <2>4, <3>1, FilesAssumption DEF SessionStatus
    <3> QED
      BY <2>1, <2>2, <2>4, <3>2 DEF Session!Next, Session!Lose
  <2> QED
    BY <2>3, <2>4
<1>7. ASSUME Load(p) PROVE [Session!Next]_(Session!vars)
  <2>1. open[p] = "none" /\ Durable = state /\ todo[p] = plan /\ UNCHANGED receipts
    BY <1>7, <1>t, TheSolo DEF Load, PlanInv, Waiting, Durable, Solo
  <2>2. CASE state = NoFile /\ Save(p, NewState(todo[p]))
    <3>1. /\ NewState(plan) \in SessionState /\ NewState(plan).done = <<>>
          /\ ~NewState(plan).finished /\ ~NewState(plan).halted
      BY <1>t, NewSession DEF NewState
    <3>2. Durable' = NewState(plan) /\ Given'
      BY <1>t, <2>1, <2>2, <3>1, DurableSaved
    <3> QED
      BY <2>1, <2>2, <3>1, <3>2 DEF Session!Next, Session!Open, SessionStatus, Given
  <2>3. CASE UNCHANGED <<state, open>>
    BY <1>t, <2>1, <2>3, DurableKept, SameSession
  <2> QED
    BY <1>7, <2>2, <2>3 DEF Load
<1>8. ASSUME BeginPhase(p) \/ Attempt(p) PROVE UNCHANGED Session!vars
  <2>1. /\ pc[p] \in AtWork /\ UNCHANGED receipts
        /\ \/ Save(p, [mem[p] EXCEPT !.current = Phase(p)]) /\ Phase(p) \in Phases
           \/ /\ Save(p, [mem[p] EXCEPT !.retries[Phase(p)] = attempt[p] - 1])
              /\ attempt[p] - 1 \in Nat /\ Phase(p) \in Phases
    BY <1>8, <1>t, PhaseType, PhaseAtHand
    DEF BeginPhase, Attempt, AtWork, Loaded, InPhase, Solo
  <2> DEFINE n == [mem[p] EXCEPT !.current = Phase(p)]
             k == [mem[p] EXCEPT !.retries[Phase(p)] = attempt[p] - 1]
  <2>2. PICK m \in SessionState :
          /\ Save(p, m) /\ m.done = mem[p].done
          /\ m.halted = mem[p].halted /\ m.finished = mem[p].finished
    <3>1. CASE Save(p, n) /\ Phase(p) \in Phases
      <4>1. /\ n \in SessionState /\ n.done = mem[p].done
            /\ n.halted = mem[p].halted /\ n.finished = mem[p].finished
        BY <1>w, <2>1, <3>1 DEF SessionState
      <4> HIDE DEF n
      <4> QED
        BY <3>1, <4>1
    <3>2. CASE Save(p, k) /\ attempt[p] - 1 \in Nat /\ Phase(p) \in Phases
      <4>1. /\ k \in SessionState /\ k.done = mem[p].done
            /\ k.halted = mem[p].halted /\ k.finished = mem[p].finished
        BY <1>w, <2>1, <3>2 DEF SessionState
      <4> HIDE DEF k
      <4> QED
        BY <3>2, <4>1
    <3> HIDE DEF n, k
    <3> QED
      BY <2>1, <3>1, <3>2 DEF n, k
  <2>3. Durable' = m /\ Given'
    BY <1>t, <2>2, DurableSaved
  <2> QED
    BY <1>w, <2>1, <2>2, <2>3, SameFields
<1>9. ASSUME Commit(p) PROVE Session!Next
  <2> DEFINE m == [mem[p] EXCEPT !.done = Append(@, Phase(p)), !.current = NoPhase]
  <2>1. /\ pc[p] = "commit" /\ pc[p] \in InPhase /\ Save(p, m) /\ UNCHANGED receipts
        /\ Phase(p) \in receipts
    BY <1>9, <1>t DEF Commit, InPhase, KeptInv
  <2>2. Given /\ Durable = mem[p] /\ mem[p] \in SessionState /\ ~mem[p].halted
        /\ ~mem[p].finished /\ SessionStatus = "open" /\ Session!Left
        /\ Session!Due = Phase(p)
    BY <2>1, AtPhase
  <2>3. Append(mem[p].done, Phase(p)) \in Seq(Phases)
    BY <1>t, <2>1, <2>2, PhaseAtHand DEF SessionState
  <2>4. /\ m \in SessionState /\ m.done = Append(mem[p].done, Phase(p))
        /\ ~m.halted /\ ~m.finished
    BY <2>2, <2>3 DEF SessionState
  <2> HIDE DEF m
  <2>5. Durable' = m /\ Given'
    BY <1>t, <2>1, <2>4, DurableSaved
  <2>6. SessionStatus' = "open"
    BY <2>4, <2>5 DEF SessionStatus, Given
  <2> QED
    BY <2>1, <2>2, <2>4, <2>5, <2>6 DEF Session!Next, Session!Complete, Given
<1>10. ASSUME Halt(p) PROVE Session!Next
  <2> DEFINE m == [mem[p] EXCEPT !.halted = TRUE]
  <2>1. pc[p] \in InPhase /\ Save(p, m) /\ UNCHANGED receipts
    BY <1>10 DEF Halt, InPhase
  <2>2. Given /\ Durable = mem[p] /\ mem[p] \in SessionState /\ ~mem[p].finished
        /\ SessionStatus = "open" /\ Session!Left
    BY <2>1, AtPhase
  <2>3. m \in SessionState /\ m.done = mem[p].done /\ m.halted /\ ~m.finished
    BY <2>2 DEF SessionState
  <2> HIDE DEF m
  <2>4. Durable' = m /\ Given'
    BY <1>t, <2>1, <2>3, DurableSaved
  <2>5. SessionStatus' = "halted"
    BY <2>3, <2>4 DEF SessionStatus, Given
  <2> QED
    BY <2>1, <2>2, <2>3, <2>4, <2>5 DEF Session!Next, Session!Halt, Given
<1>11. ASSUME Finish(p) PROVE [Session!Next]_(Session!vars)
  <2> DEFINE m == [mem[p] EXCEPT !.finished = TRUE]
  <2>1. pc[p] \in AtWork /\ todo[p] = <<>> /\ Save(p, m) /\ UNCHANGED receipts
    BY <1>11 DEF Finish, AtWork, Loaded
  <2>2. /\ Durable = mem[p] /\ Given /\ mem[p] \in SessionState
        /\ OnPlan(mem[p], plan) /\ ~mem[p].halted
    BY <1>w, <2>1
  <2>3. m \in SessionState /\ m.done = mem[p].done /\ ~m.halted /\ m.finished = TRUE
    BY <2>2 DEF SessionState
  <2>4. Len(mem[p].done) = Len(plan)
    <3>1. ComeTo(p, plan) <= Len(mem[p].done) /\ Len(mem[p].done) <= Len(plan)
          /\ Len(mem[p].done) \in Nat /\ Len(plan) \in Nat /\ Len(todo[p]) = 0
      BY <1>t, <2>1, <2>2 DEF PlanInv, OnPlan, SessionState
    <3> QED
      BY <3>1 DEF ComeTo
  <2> HIDE DEF m
  <2>5. Durable' = m /\ Given'
    BY <1>t, <2>1, <2>3, DurableSaved
  <2>6. CASE mem[p].finished = TRUE
    <3>1. m.halted = mem[p].halted
      BY <2>2, <2>3 DEF SessionState
    <3> QED
      BY <2>1, <2>2, <2>3, <2>5, <2>6, <3>1, SameFields
  <2>7. CASE ~mem[p].finished
    <3>1. SessionStatus = "open" /\ SessionStatus' = "complete"
      BY <2>2, <2>3, <2>5, <2>7 DEF SessionStatus, Given
    <3>2. (CHOOSE q \in Plans : TRUE) = plan
      BY ThePlan DEF SolePlan
    <3>3. (IF Durable \in {NoFile, Torn} THEN <<>> ELSE Durable.done) = mem[p].done
      BY <2>2 DEF Given
    <3>4. ~(Len(mem[p].done) < Len(plan))
      BY <1>t, <2>4
    <3>5. ~Session!Left
      BY <3>2, <3>3, <3>4 DEF Session!Left
    <3> QED
      BY <2>1, <2>2, <2>3, <2>5, <3>1, <3>5 DEF Session!Next, Session!Finish, Given
  <2> QED
    BY <2>3, <2>6, <2>7, <2>2 DEF SessionState
<1>12. \A q \in Procs : q = p
  BY <1>t DEF Solo
<1> QED
  BY <1>1, <1>2, <1>3, <1>4, <1>5, <1>6, <1>7, <1>8, <1>9, <1>10, <1>11, <1>12
  DEF Next, Call, Step, Fill, AcquireLock, Run, RunPhase, AgentExits, Verify

\* With one process at a time, one plan in which no phase comes twice and no caller
\* that runs a halted session, what state.json and receipts/ hold is at every crash
\* and between any two writes a session as PipelineSession promises it: run, resume
\* and runPhaseWithRetry implement it.
THEOREM SessionImplemented ==
  ASSUME NEW p, Procs = {p}, NEW plan, Plans = {plan}, IsInjective(plan),
         "halted" \notin CallerRuns
  PROVE  Spec => ImplementsSession
<1> DEFINE Inv == TypeInv /\ RecordInv /\ KeptInv(p) /\ HaltInv(p) /\ PlanInv(p, plan)
<1>1. Init => TypeInv /\ RecordInv /\ KeptInv(p) /\ HaltInv(p)
  BY TypeInit
  DEF Init, RecordInv, CopyOK, KeptInv, HaltInv, Counted, Readable, Loaded, InPhase
<1>2. ASSUME Init PROVE Durable = NoFile
  BY <1>2, TheSolo DEF Init, Durable
<1>3. Init => PlanInv(p, plan)
  BY <1>2 DEF Init, PlanInv, Given, Waiting, AtWork, Loaded, InPhase
<1>4. Init => Session!Init
  BY <1>2 DEF Init, Session!Init, SessionStatus
<1>5. Inv /\ [Next]_vars => Inv'
  BY TypeStep, RecordStep, KeptStep, HaltStep, PlanStep DEF Solo, Steady, SolePlan
<1>6. Inv /\ [Next]_vars => [Session!Next]_(Session!vars)
  BY SessionStep DEF Solo, Steady, SolePlan
<1> QED
  BY <1>1, <1>3, <1>4, <1>5, <1>6, PTL DEF Spec, ImplementsSession, Session!Spec
=============================================================================
