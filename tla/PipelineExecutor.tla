--------------------------- MODULE PipelineExecutor ---------------------------
(***************************************************************************)
(* utils/pipeline_executor.js: the processes that run and resume one       *)
(* session, the files they share (.lock, state.json, receipts/,            *)
(* DIAGNOSTIC.md, checkpoints/) and the crashes between their steps.       *)
(*                                                                         *)
(* Each file-system call is a step of its own, because another process     *)
(* may come, or the process may die, between any two of them.              *)
(* fs.writeFileSync is two: it truncates the file, then fills it.  open[p] *)
(* names the file that p has truncated and not yet filled.                 *)
(*                                                                         *)
(* Definitions marked "Slip" are not part of the specification: each is a  *)
(* neighbour of the definition after it with a likely mistake in it, kept  *)
(* to see that the properties notice.                                      *)
(***************************************************************************)
EXTENDS Naturals, Sequences, SequencesExt

CONSTANTS
  Procs,            \* the node processes that may work on the session
  Phases,           \* names of phases
  Plans,            \* the phase lists a caller may pass to run
  VerifiedPhases,   \* PHASES_REQUIRING_VERIFICATION
  RetryLimit,       \* PIPELINE_RETRY_LIMIT
  CallerRuns,       \* the sessions callers call run on: see SessionKind
  CliProvider,      \* TRUE: agents are child processes, with a WAL file
  BudgetLimited,    \* TRUE: a hard limit is set, so checkBudget may throw
  LocksAge,         \* TRUE: ten minutes may pass over a lock file
  MaxCrashes,       \* bound: how many times a process dies
  NoFile, Torn,     \* a file that is absent, a file that is not valid JSON
  NoPhase           \* null

ASSUME PhasesAssumption ==
  /\ NoPhase \notin Phases
  /\ VerifiedPhases \subseteq Phases
  /\ Plans \subseteq Seq(Phases)
ASSUME LimitAssumption ==
  RetryLimit \in Nat /\ MaxCrashes \in Nat
ASSUME FlagAssumption ==
  /\ {CliProvider, BudgetLimited, LocksAge} \subseteq BOOLEAN
  /\ CallerRuns \subseteq {"fresh", "interrupted", "halted"}

VARIABLES
  lock,         \* .lock: NoFile, or who created it and what can be read in it
  state,        \* state.json: NoFile, Torn, or a SessionState
  receipts,     \* phases whose receipts/<phase>.json is a whole receipt
  diagnostic,   \* the phase DIAGNOSTIC.md is about, or NoPhase
  wal,          \* checkpoints/<phase>.attempt_<k>.out files, as <<phase, k>>
  pc,           \* the next step of each process
  open,         \* the file each process has truncated and not yet filled
  mem,          \* the `state' object of each process
  todo,         \* the phases the loop of run has still to come to
  dropped,      \* those of them that resume left out of its list
  attempt,      \* the loop variable of runPhaseWithRetry
  accepted,     \* history: phases an agent delivered and no check failed
  robbed,       \* history: the lock file of a live holder was unlinked
  crashes       \* how many crashes there were

notes == <<receipts, diagnostic, wal>>
files == <<lock, state, notes>>
place == <<todo, dropped, attempt>>
procs == <<pc, open, mem, place>>
history == <<accepted, robbed, crashes>>
vars  == <<files, procs, history>>

SessionState ==
  [phases   : Seq(Phases),
   done     : Seq(Phases),                \* phases_completed
   current  : Phases \cup {NoPhase},      \* current_phase
   retries  : [Phases -> Nat],            \* retry_counts
   halted   : BOOLEAN,
   finished : BOOLEAN]                    \* completed_at is set

NewState(plan) ==
  [phases |-> plan, done |-> <<>>, current |-> NoPhase,
   retries |-> [ph \in Phases |-> 0], halted |-> FALSE, finished |-> FALSE]

Locks == [owner : Procs, text : {"empty", "fresh", "old"}]

ASSUME FilesAssumption ==
  /\ NoFile \notin SessionState \cup Locks
  /\ Torn \notin SessionState
  /\ NoFile # Torn

Readable == state \notin {NoFile, Torn}

\* What a caller knows of the session it calls run on: it has no state.json
\* yet, it was left without being halted, or it is halted.
SessionKind ==
  IF state = NoFile THEN "fresh"
  ELSE IF Readable /\ state.halted THEN "halted"
  ELSE "interrupted"

Init ==
  /\ lock = NoFile
  /\ state = NoFile
  /\ receipts = {}
  /\ diagnostic = NoPhase
  /\ wal = {}
  /\ pc = [p \in Procs |-> "idle"]
  /\ open = [p \in Procs |-> "none"]
  /\ mem = [p \in Procs |-> NoFile]
  /\ todo = [p \in Procs |-> <<>>]
  /\ dropped = [p \in Procs |-> {}]
  /\ attempt = [p \in Procs |-> 0]
  /\ accepted = {}
  /\ robbed = FALSE
  /\ crashes = 0

-----------------------------------------------------------------------------
\* The steps of a process

At(p, label) == pc[p] = label /\ open[p] = "none"
Goto(p, label) == pc' = [pc EXCEPT ![p] = label]
Phase(p) == Head(todo[p])

\* saveState(m): truncate state.json now, fill it in FillState.
Save(p, m) ==
  /\ mem' = [mem EXCEPT ![p] = m]
  /\ state' = Torn
  /\ open' = [open EXCEPT ![p] = "state"]

\* The call ends; what it held in memory is gone.
Forget(p) ==
  /\ pc' = [pc EXCEPT ![p] = "idle"]
  /\ open' = [open EXCEPT ![p] = "none"]
  /\ mem' = [mem EXCEPT ![p] = NoFile]
  /\ todo' = [todo EXCEPT ![p] = <<>>]
  /\ dropped' = [dropped EXCEPT ![p] = {}]
  /\ attempt' = [attempt EXCEPT ![p] = 0]

\* If somebody else filled the file after p truncated it, p writes over the
\* other text and, if its own is the shorter one, the tail stays.
FillState(p) ==
  /\ open[p] = "state"
  /\ state' = mem[p] \/ (state # Torn /\ state' = Torn)
  /\ open' = [open EXCEPT ![p] = "none"]
  /\ UNCHANGED <<lock, notes, pc, mem, place, history>>

FillReceipt(p) ==
  /\ open[p] = "receipt"
  /\ \/ receipts' = receipts \cup {Phase(p)}
     \/ Phase(p) \in receipts /\ receipts' = receipts \ {Phase(p)}
  /\ open' = [open EXCEPT ![p] = "none"]
  /\ UNCHANGED <<lock, state, diagnostic, wal, pc, mem, place, history>>

FillDiagnostic(p) ==
  /\ open[p] = "diagnostic"
  /\ diagnostic' = Phase(p)
  /\ open' = [open EXCEPT ![p] = "none"]
  /\ UNCHANGED <<lock, state, receipts, wal, pc, mem, place, history>>

-----------------------------------------------------------------------------
\* Calls

CallRun(p, plan) ==
  /\ At(p, "idle")
  /\ SessionKind \in CallerRuns
  /\ todo' = [todo EXCEPT ![p] = plan]
  /\ Goto(p, "lockOpen")
  /\ UNCHANGED <<files, open, mem, dropped, attempt, history>>

\* resume reads and rewrites state.json before it asks for the lock.
CallResume(p) ==
  /\ At(p, "idle")
  /\ Readable /\ state.halted
  /\ mem' = [mem EXCEPT ![p] = [state EXCEPT !.halted = FALSE]]
  /\ Goto(p, "resume")
  /\ UNCHANGED <<files, open, place, history>>

\* `remaining' is the session's list without the phases complete by now.
ResumeSave(p) ==
  /\ At(p, "resume")
  /\ Save(p, mem[p])
  /\ todo' = [todo EXCEPT ![p] = mem[p].phases]
  /\ dropped' = [dropped EXCEPT ![p] = ToSet(mem[p].done)]
  /\ Goto(p, "lockOpen")
  /\ UNCHANGED <<lock, notes, attempt, history>>

-----------------------------------------------------------------------------
\* acquireLock

\* Slip: the file is opened with flag w.
LockOpenShared(p) ==
  /\ At(p, "lockOpen") /\ Goto(p, "lockWrite")
  /\ lock' = [owner |-> p, text |-> "empty"]
  /\ UNCHANGED <<state, notes, open, mem, place, history>>

LockOpen(p) ==
  /\ At(p, "lockOpen")
  /\ \/ /\ lock = NoFile
        /\ lock' = [owner |-> p, text |-> "empty"]
        /\ Goto(p, "lockWrite")
     \/ /\ lock # NoFile
        /\ Goto(p, "lockRead")
        /\ UNCHANGED lock
  /\ UNCHANGED <<state, notes, open, mem, place, history>>

\* If the file was unlinked meanwhile, the text goes to a file without a name.
LockWrite(p) ==
  /\ At(p, "lockWrite")
  /\ lock' = IF lock # NoFile /\ lock.owner = p
             THEN [lock EXCEPT !.text = "fresh"]
             ELSE lock
  /\ Goto(p, "load")
  /\ UNCHANGED <<state, notes, open, mem, place, history>>

\* Slip: the age of a lock file is not looked at.
UnwrittenLocks == [owner : Procs, text : {"empty"}]

\* An empty file reads as timestamp 0, which is more than ten minutes ago.
StaleLocks == [owner : Procs, text : {"empty", "old"}]

LockIsStale(p) ==
  /\ At(p, "lockRead")
  /\ lock \in StaleLocks
  /\ Goto(p, "lockUnlink")
  /\ UNCHANGED <<files, open, mem, place, history>>

\* "Session is locked by another process", also when the file has just gone.
LockIsHeld(p) ==
  /\ \/ At(p, "lockRead") /\ lock \notin StaleLocks
     \/ At(p, "lockUnlink") /\ lock = NoFile
  /\ Forget(p)
  /\ UNCHANGED <<files, history>>

\* The steps that acquireLock and releaseLock stand around.
Working(p) ==
  pc[p] \notin {"idle", "resume", "lockOpen", "lockWrite", "lockRead", "lockUnlink"}

Holds(p) == Working(p) \/ pc[p] = "lockWrite"

\* By now it need not be the file that was read.
LockUnlink(p) ==
  /\ At(p, "lockUnlink")
  /\ lock # NoFile
  /\ lock' = NoFile
  /\ robbed' = (robbed \/ Holds(lock.owner))
  /\ Goto(p, "lockOpen")
  /\ UNCHANGED <<state, notes, open, mem, place, accepted, crashes>>

\* releaseLock, in run's finally: whoever created the file.
Release(p) ==
  /\ At(p, "release")
  /\ lock' = NoFile
  /\ Forget(p)
  /\ UNCHANGED <<state, notes, history>>

-----------------------------------------------------------------------------
\* run

\* Slip: an existing state.json is not looked for.
LoadAnew(p) ==
  /\ At(p, "load") /\ Goto(p, "loop")
  /\ Save(p, NewState(todo[p]))
  /\ UNCHANGED <<lock, notes, place, history>>

\* loadOrCreateState; JSON.parse throws on a torn file, into the finally.
Load(p) ==
  /\ At(p, "load")
  /\ \/ /\ state = NoFile
        /\ Save(p, NewState(todo[p]))
        /\ Goto(p, "loop")
     \/ /\ state = Torn
        /\ Goto(p, "release")
        /\ UNCHANGED <<state, open, mem>>
     \/ /\ Readable
        /\ mem' = [mem EXCEPT ![p] = state]
        /\ Goto(p, "loop")
        /\ UNCHANGED <<state, open>>
  /\ UNCHANGED <<lock, notes, place, history>>

Passed(p) == Phase(p) \in dropped[p] \/ Contains(mem[p].done, Phase(p))

SkipPhase(p) ==
  /\ At(p, "loop")
  /\ todo[p] # <<>>
  /\ Passed(p)
  /\ todo' = [todo EXCEPT ![p] = Tail(@)]
  /\ UNCHANGED <<files, pc, open, mem, dropped, attempt, history>>

\* Slip: whether the phase is complete is not looked at.
BeginAnyPhase(p) ==
  /\ At(p, "loop") /\ todo[p] # <<>> /\ Goto(p, "attempt")
  /\ Save(p, [mem[p] EXCEPT !.current = Phase(p)])
  /\ attempt' = [attempt EXCEPT ![p] = 1]
  /\ UNCHANGED <<lock, notes, todo, dropped, history>>

BeginPhase(p) ==
  /\ At(p, "loop")
  /\ todo[p] # <<>>
  /\ ~Passed(p)
  /\ Save(p, [mem[p] EXCEPT !.current = Phase(p)])
  /\ attempt' = [attempt EXCEPT ![p] = 1]
  /\ Goto(p, "attempt")
  /\ UNCHANGED <<lock, notes, todo, dropped, history>>

\* The receipt is on disk: record the phase complete.
Commit(p) ==
  /\ At(p, "commit")
  /\ Save(p, [mem[p] EXCEPT !.done = Append(@, Phase(p)), !.current = NoPhase])
  /\ todo' = [todo EXCEPT ![p] = Tail(@)]
  /\ attempt' = [attempt EXCEPT ![p] = 0]
  /\ Goto(p, "loop")
  /\ UNCHANGED <<lock, notes, dropped, history>>

Halt(p) ==
  /\ At(p, "halt")
  /\ Save(p, [mem[p] EXCEPT !.halted = TRUE])
  /\ Goto(p, "release")
  /\ UNCHANGED <<lock, notes, place, history>>

Finish(p) ==
  /\ At(p, "loop")
  /\ todo[p] = <<>>
  /\ Save(p, [mem[p] EXCEPT !.finished = TRUE])
  /\ Goto(p, "release")
  /\ UNCHANGED <<lock, notes, place, history>>

-----------------------------------------------------------------------------
\* runPhaseWithRetry

\* Slip: the count saved is that of the attempt before.
AttemptMiscounted(p) ==
  /\ At(p, "attempt") /\ attempt[p] <= RetryLimit /\ Goto(p, "invoke")
  /\ Save(p, [mem[p] EXCEPT !.retries[Phase(p)] = attempt[p] - 2])
  /\ UNCHANGED <<lock, notes, place, history>>

Attempt(p) ==
  /\ At(p, "attempt")
  /\ attempt[p] <= RetryLimit
  /\ Save(p, [mem[p] EXCEPT !.retries[Phase(p)] = attempt[p] - 1])
  /\ Goto(p, "invoke")
  /\ UNCHANGED <<lock, notes, place, history>>

\* Slip: halted without a diagnostic.
GiveUpQuietly(p) ==
  /\ At(p, "attempt") /\ attempt[p] > RetryLimit /\ Goto(p, "halt")
  /\ UNCHANGED <<files, open, mem, place, history>>

\* { ok: false }, and run writes the diagnostic.
GiveUp(p) ==
  /\ At(p, "attempt")
  /\ attempt[p] > RetryLimit
  /\ diagnostic' = NoPhase
  /\ open' = [open EXCEPT ![p] = "diagnostic"]
  /\ Goto(p, "halt")
  /\ UNCHANGED <<lock, state, receipts, wal, mem, place, history>>

\* Slip: the file of the attempt to come is looked for.
InvokeUnread(p) ==
  /\ At(p, "invoke") /\ Goto(p, "agent")
  /\ wal' = wal \ {<<Phase(p), attempt[p]>>}
  /\ UNCHANGED <<lock, state, receipts, diagnostic, open, mem, place, history>>

\* The partial output of the attempt before goes into the prompt and is
\* consumed; then invokeAgent asks the budget.
Invoke(p) ==
  /\ At(p, "invoke")
  /\ wal' = wal \ {<<Phase(p), attempt[p] - 1>>}
  /\ Goto(p, "agent")
  /\ UNCHANGED <<lock, state, receipts, diagnostic, open, mem, place, history>>

\* checkBudget throws, past runPhaseWithRetry and out of run.
BudgetStops(p) ==
  /\ At(p, "invoke")
  /\ BudgetLimited
  /\ wal' = wal \ {<<Phase(p), attempt[p] - 1>>}
  /\ Goto(p, "release")
  /\ UNCHANGED <<lock, state, receipts, diagnostic, open, mem, place, history>>

ThisWal(p) == <<Phase(p), attempt[p]>>

AgentStreams(p) ==
  /\ At(p, "agent")
  /\ CliProvider
  /\ wal' = wal \cup {ThisWal(p)}
  /\ UNCHANGED <<lock, state, receipts, diagnostic, procs, history>>

\* Exit code 0, and a receipt that is valid and says ok.
AgentSucceeds(p) ==
  /\ At(p, "agent")
  /\ wal' = wal \ {ThisWal(p)}
  /\ IF Phase(p) \in VerifiedPhases
     THEN Goto(p, "verify") /\ UNCHANGED accepted
     ELSE Goto(p, "receipt") /\ accepted' = accepted \cup {Phase(p)}
  /\ UNCHANGED <<lock, state, receipts, diagnostic, open, mem, place>>
  /\ UNCHANGED <<robbed, crashes>>

\* Slip: the attempts are not counted.
SameAttempt(p) == UNCHANGED attempt /\ Goto(p, "attempt")

NextAttempt(p) ==
  /\ attempt' = [attempt EXCEPT ![p] = @ + 1]
  /\ Goto(p, "attempt")

\* Killed, timed out or another exit code: the WAL file stays.  Exit code 0
\* with no receipt, missing fields or status "fail": it is deleted.
AgentFails(p) ==
  /\ At(p, "agent")
  /\ wal' \in {wal, wal \ {ThisWal(p)}}
  /\ NextAttempt(p)
  /\ UNCHANGED <<lock, state, receipts, diagnostic, open, mem, history>>
  /\ UNCHANGED <<todo, dropped>>

VerifierPasses(p) ==
  /\ At(p, "verify")
  /\ accepted' = accepted \cup {Phase(p)}
  /\ Goto(p, "receipt")
  /\ UNCHANGED <<files, open, mem, place, robbed, crashes>>

\* Slip: failing tests are taken for passing ones.
VerifierIgnored(p) ==
  /\ At(p, "verify") /\ Goto(p, "receipt")
  /\ UNCHANGED <<files, open, mem, place, history>>

VerifierFails(p) ==
  /\ At(p, "verify")
  /\ NextAttempt(p)
  /\ UNCHANGED <<files, open, mem, todo, dropped, history>>

\* Slip: the phase is recorded before its receipt is written.
WriteNoReceipt(p) ==
  /\ At(p, "receipt") /\ Goto(p, "commit")
  /\ UNCHANGED <<files, open, mem, place, history>>

WriteReceipt(p) ==
  /\ At(p, "receipt")
  /\ receipts' = receipts \ {Phase(p)}
  /\ open' = [open EXCEPT ![p] = "receipt"]
  /\ Goto(p, "commit")
  /\ UNCHANGED <<lock, state, diagnostic, wal, mem, place, history>>

-----------------------------------------------------------------------------
\* The environment

Crash(p) ==
  /\ pc[p] # "idle"
  /\ crashes < MaxCrashes
  /\ crashes' = crashes + 1
  /\ Forget(p)
  /\ UNCHANGED <<files, accepted, robbed>>

LockAges ==
  /\ LocksAge
  /\ lock # NoFile /\ lock.text = "fresh"
  /\ lock' = [lock EXCEPT !.text = "old"]
  /\ UNCHANGED <<state, notes, procs, history>>

Call(p) == (\E plan \in Plans : CallRun(p, plan)) \/ CallResume(p)

Fill(p) == FillState(p) \/ FillReceipt(p) \/ FillDiagnostic(p)

AcquireLock(p) ==
  LockOpen(p) \/ LockWrite(p) \/ LockIsStale(p) \/ LockIsHeld(p) \/ LockUnlink(p)

AgentExits(p) == AgentSucceeds(p) \/ AgentFails(p)

Verify(p) == VerifierPasses(p) \/ VerifierFails(p)

RunPhase(p) ==
  \/ Attempt(p) \/ GiveUp(p) \/ Invoke(p) \/ BudgetStops(p)
  \/ AgentExits(p) \/ Verify(p) \/ WriteReceipt(p)

Run(p) ==
  Load(p) \/ SkipPhase(p) \/ BeginPhase(p) \/ Commit(p) \/ Halt(p) \/ Finish(p)

\* What a process does by itself once it is called.
Step(p) ==
  Fill(p) \/ ResumeSave(p) \/ AcquireLock(p) \/ Run(p) \/ RunPhase(p) \/ Release(p)

Next ==
  \/ \E p \in Procs : Call(p) \/ Step(p) \/ AgentStreams(p) \/ Crash(p)
  \/ LockAges

Spec == Init /\ [][Next]_vars

-----------------------------------------------------------------------------
\* Fairness: a process that was called takes its next step, and its agent and
\* its test run end.  Nothing makes a process crash or a caller call.

Fairness == \A p \in Procs : WF_vars(Step(p))

\* What it takes, besides, to get a session done: callers come back to it until
\* it is complete, a budget is raised at last, an agent given chance after chance
\* does its work, and a lock left behind gets old.
Perseverance ==
  /\ \A p \in Procs : WF_vars(Call(p) /\ ~(Readable /\ state.finished))
  /\ \A p \in Procs :
       SF_vars(Invoke(p)) /\ SF_vars(AgentSucceeds(p)) /\ SF_vars(VerifierPasses(p))
  /\ WF_vars(LockAges)

FairSpec == Spec /\ Fairness

-----------------------------------------------------------------------------
\* Properties

Labels ==
  {"idle", "resume", "lockOpen", "lockWrite", "lockRead", "lockUnlink", "load",
   "loop", "attempt", "invoke", "agent", "verify", "receipt", "commit", "halt",
   "release"}

Files == {"state", "receipt", "diagnostic"}

\* Every variable holds a value of its kind.
TypeOK ==
  /\ lock \in Locks \cup {NoFile}
  /\ state \in SessionState \cup {NoFile, Torn}
  /\ receipts \subseteq Phases
  /\ diagnostic \in Phases \cup {NoPhase}
  /\ wal \subseteq Phases \X Nat
  /\ pc \in [Procs -> Labels]
  /\ open \in [Procs -> Files \cup {"none"}]
  /\ mem \in [Procs -> SessionState \cup {NoFile}]
  /\ todo \in [Procs -> Seq(Phases)]
  /\ dropped \in [Procs -> SUBSET Phases]
  /\ attempt \in [Procs -> Nat]
  /\ accepted \subseteq Phases
  /\ robbed \in BOOLEAN
  /\ crashes \in 0 .. MaxCrashes

\* Whatever processes share the session and wherever they die, no phase is
\* recorded complete unless an agent delivered it and no check failed
\* (runPhaseWithRetry returns { ok: true } only after lines 205-223).
CompletedWereAccepted ==
  Readable => ToSet(state.done) \subseteq accepted

\* ... and no phase is recorded twice (the skip at lines 36-39).
NoPhaseTwice ==
  Readable => IsInjective(state.done)

\* Where one process works at a time, every phase in the record has its receipt
\* on disk, so the next phase's prompt can be built from it
\* (loadCompletedReceiptData drops a missing one without a word).
CompletedHaveReceipts ==
  Readable => ToSet(state.done) \subseteq receipts

\* A session is found halted only when DIAGNOSTIC.md tells of the very phase it
\* halted in, that phase is not complete and all its attempts were spent.
HaltIsExplained ==
  Readable /\ state.halted =>
    /\ state.current # NoPhase
    /\ diagnostic = state.current
    /\ ~Contains(state.done, state.current)
    /\ state.retries[state.current] + 1 = RetryLimit \/ RetryLimit = 0

\* An agent at attempt k of its phase never runs while the partial output of an
\* attempt with a lower number is still waiting to be consumed, be it from this
\* call or from one that died (lines 151-160).
EarlierOutputConsumed ==
  \A p \in Procs : pc[p] = "agent" =>
    \A k \in 1 .. attempt[p] - 1 : <<Phase(p), k>> \notin wal

\* "Session is locked by another process": two never work on a session at once.
MutualExclusion ==
  \A p, q \in Procs : Working(p) /\ Working(q) => p = q

\* The one way to lose mutual exclusion is that acquireLock unlinks the file of
\* a process that is alive and holds the lock: it took the file for stale while
\* it was still empty, ten minutes old, or a dead process's.  Crashes and the
\* unlinking without a check in releaseLock do no harm by themselves.
ExclusiveUnlessRobbed ==
  ~robbed => MutualExclusion

\* A session that is not complete and on which nobody works can be resumed, as
\* a hard budget limit is said to halt it.
UnfinishedIsHalted ==
  Readable /\ (\A p \in Procs : pc[p] = "idle") => state.finished \/ state.halted

\* The pipeline never silently skips a broken phase: no phase is in progress
\* in a session that says it is complete.
FinishedSkippedNothing ==
  Readable /\ state.finished /\ ~state.halted /\ (\A p \in Procs : pc[p] = "idle")
    => state.current = NoPhase

\* A session that people come back to ends complete, unless its state.json is
\* torn for good or the lock of a live holder is taken: no lock left behind, no
\* halt and no interruption keeps it from going on.
EventuallyComplete ==
  Perseverance => <>(Readable /\ state.finished) \/ <>[](state = Torn) \/ <>robbed

\* A call of run or resume returns or throws, unless some other process takes
\* the lock meanwhile.
EveryCallEnds ==
  \A p \in Procs :
    pc[p] # "idle" ~> pc[p] = "idle" \/ \E q \in Procs \ {p} : pc[q] = "lockWrite"

-----------------------------------------------------------------------------
\* The durable session, as one process leaves it: what state.json holds, or is
\* being given.

TheProc == CHOOSE p \in Procs : TRUE

Durable == IF open[TheProc] = "state" THEN mem[TheProc] ELSE state

SessionStatus ==
  IF Durable = NoFile THEN "new"
  ELSE IF Durable = Torn THEN "lost"
  ELSE IF Durable.finished THEN "complete"
  ELSE IF Durable.halted THEN "halted"
  ELSE "open"

Session ==
  INSTANCE PipelineSession WITH
    Plan <- CHOOSE plan \in Plans : TRUE,
    done <- IF Durable \in {NoFile, Torn} THEN <<>> ELSE Durable.done,
    status <- SessionStatus

\* One process at a time, however often it dies, keeps what PipelineSession
\* promises.
ImplementsSession == Session!Spec
=============================================================================
