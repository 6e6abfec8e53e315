------------------------------- MODULE TraceTree -------------------------------
(***************************************************************************)
(* utils/tracer.js and its callers: the trace.jsonl that runs of a session *)
(* append to, one after the other (run and runPhaseWithRetry in            *)
(* pipeline_executor.js, invokeAgent in agent_runner.js), and the tree     *)
(* that `minus trace' reads out of it (renderTrace), at any time.          *)
(*                                                                         *)
(* Spans are numbered in the order of their lines.  The clock is in        *)
(* milliseconds, so lines may have the same time.  A process that dies or  *)
(* is stopped by the budget leaves its spans unclosed.                     *)
(***************************************************************************)
EXTENDS Integers, Sequences, SequencesExt

CONSTANTS
  NPhases,    \* phases of the session
  Checked,    \* those of them with a verifier
  Attempts,   \* PIPELINE_RETRY_LIMIT
  MaxRuns,    \* bound: how often the session is run or resumed
  MaxTime     \* bound of the clock

ASSUME TraceAssumption ==
  /\ NPhases \in Nat /\ Checked \subseteq 1..NPhases
  /\ Attempts \in Nat \ {0} /\ MaxRuns \in Nat /\ MaxTime \in Nat

VARIABLES
  spans,      \* opening lines, with the time of the closing line or Never
  points,     \* the other lines; span is the agent a cost.recorded is about
  stack,      \* the spans the running process has open, from the outermost
  now,        \* the clock
  tracing,    \* where the process is; "out" is between runs
  phaseNo,    \* the phase the session has come to
  tryNo,      \* the attempt
  runs,       \* how many runs there were
  cuts        \* history: how many of them did not come to their end

traceVars == <<spans, points, stack, now, tracing, phaseNo, tryNo, runs, cuts>>

Never == MaxTime + 1

TraceInit ==
  /\ spans = <<>> /\ points = <<>> /\ stack = <<>>
  /\ now = 0 /\ tracing = "out"
  /\ phaseNo = 1 /\ tryNo = 0 /\ runs = 0 /\ cuts = 0

-----------------------------------------------------------------------------
\* Lines

Top == Last(stack)

OpenSpan(name) ==
  /\ spans' = Append(spans, [name |-> name, open |-> now, close |-> Never,
                             parent |-> IF stack = <<>> THEN 0 ELSE Top])
  /\ stack' = Append(stack, Len(spans) + 1)

\* The closing lines of the n innermost spans.
CloseSpans(n) ==
  LET left == Len(stack) - n
  IN  /\ spans' = [i \in DOMAIN spans |->
           IF \E k \in (left + 1)..Len(stack) : stack[k] = i
           THEN [spans[i] EXCEPT !.close = now] ELSE spans[i]]
      /\ stack' = SubSeq(stack, 1, left)

Point(name, parent, span) == [name |-> name, parent |-> parent, span |-> span, t |-> now]
EmitEvents(events) == points' = points \o events

\* The last time in the file; the next process comes later.
LastTime == IF spans = <<>> THEN -1 ELSE Last(spans).open

Goes(from, to) == tracing = from /\ tracing' = to

-----------------------------------------------------------------------------
\* A run

BeginRun ==
  /\ Goes("out", "loop")
  /\ runs < MaxRuns /\ now > LastTime /\ phaseNo <= NPhases
  /\ OpenSpan("pipeline")
  /\ runs' = runs + 1
  /\ UNCHANGED <<points, now, phaseNo, tryNo, cuts>>

BeginPhase ==
  /\ Goes("loop", "retry") /\ phaseNo <= NPhases
  /\ OpenSpan("phase")
  /\ EmitEvents(<<Point("context.built", Len(spans) + 1, 0)>>)
  /\ tryNo' = 0
  /\ UNCHANGED <<now, phaseNo, runs, cuts>>

BeginAttempt ==
  /\ Goes("retry", "call") /\ tryNo < Attempts
  /\ EmitEvents(IF tryNo = 0 THEN <<>> ELSE <<Point("retry.classified", Top, 0)>>)
  /\ OpenSpan("attempt")
  /\ tryNo' = tryNo + 1
  /\ UNCHANGED <<now, phaseNo, runs, cuts>>

SpawnAgent ==
  /\ Goes("call", "agent")
  /\ OpenSpan("agent.spawn")
  /\ UNCHANGED <<points, now, phaseNo, tryNo, runs, cuts>>

\* closeSpan, and then recordCostFromTokens for an agent that delivered.
\* A child process or a request takes a millisecond at least.
AgentDone ==
  /\ Goes("agent", "record") \/ Goes("agent", "failed")
  /\ now > spans[Top].open
  /\ CloseSpans(1)
  /\ UNCHANGED <<points, now, phaseNo, tryNo, runs, cuts>>

\* cost.recorded has no parent_span; the agent's is the last one.
EmitCost ==
  /\ Goes("record", "judge")
  /\ EmitEvents(<<Point("cost.recorded", 0, Len(spans))>>)
  /\ UNCHANGED <<spans, stack, now, phaseNo, tryNo, runs, cuts>>

BeginVerifier ==
  /\ Goes("judge", "verifier") /\ phaseNo \in Checked
  /\ OpenSpan("verifier.run")
  /\ UNCHANGED <<points, now, phaseNo, tryNo, runs, cuts>>

EndVerifier ==
  /\ Goes("verifier", "failed") \/ Goes("verifier", "passed")
  /\ CloseSpans(1)
  /\ UNCHANGED <<points, now, phaseNo, tryNo, runs, cuts>>

\* Slip: the loop goes on before the attempt is closed.
FailsUnclosed ==
  /\ Goes("failed", "retry") \/ (phaseNo \notin Checked /\ Goes("judge", "retry"))
  /\ EmitEvents(<<Point("state.change", Top, 0)>>)
  /\ stack' = Front(stack)
  /\ UNCHANGED <<spans, now, phaseNo, tryNo, runs, cuts>>
\* A failed agent, a receipt that does not do, or failed tests
AttemptFails ==
  /\ Goes("failed", "retry") \/ (phaseNo \notin Checked /\ Goes("judge", "retry"))
  /\ EmitEvents(<<Point("state.change", Top, 0)>>)
  /\ CloseSpans(1)
  /\ UNCHANGED <<now, phaseNo, tryNo, runs, cuts>>

AttemptPasses ==
  /\ Goes("passed", "commit") \/ (phaseNo \notin Checked /\ Goes("judge", "commit"))
  /\ CloseSpans(1)
  /\ UNCHANGED <<points, now, phaseNo, tryNo, runs, cuts>>

\* Slip: the events are put under the span that was opened last.
PassesUnderLast ==
  /\ Goes("commit", "loop")
  /\ EmitEvents(<<Point("receipt.saved", Len(spans), 0),
                  Point("state.change", Len(spans), 0)>>)
  /\ CloseSpans(1)
  /\ phaseNo' = phaseNo + 1
  /\ UNCHANGED <<now, tryNo, runs, cuts>>
PhasePasses ==
  /\ Goes("commit", "loop")
  /\ EmitEvents(<<Point("receipt.saved", Top, 0), Point("state.change", Top, 0)>>)
  /\ CloseSpans(1)
  /\ phaseNo' = phaseNo + 1
  /\ UNCHANGED <<now, tryNo, runs, cuts>>

\* The phase is closed and then the pipeline.
HaltRun ==
  /\ Goes("retry", "out") /\ tryNo = Attempts
  /\ CloseSpans(2)
  /\ UNCHANGED <<points, now, phaseNo, tryNo, runs, cuts>>

FinishRun ==
  /\ Goes("loop", "out") /\ phaseNo > NPhases
  /\ CloseSpans(1)
  /\ UNCHANGED <<points, now, phaseNo, tryNo, runs, cuts>>

\* checkBudget throws out of run, or the process dies: nothing is closed.
CutRun ==
  /\ tracing # "out" /\ tracing' = "out"
  /\ stack' = <<>>
  /\ cuts' = cuts + 1
  /\ UNCHANGED <<spans, points, now, phaseNo, tryNo, runs>>

Tick == now < MaxTime /\ now' = now + 1
        /\ UNCHANGED <<spans, points, stack, tracing, phaseNo, tryNo, runs, cuts>>

TraceNext ==
  \/ BeginRun \/ BeginPhase \/ BeginAttempt \/ SpawnAgent \/ AgentDone \/ EmitCost
  \/ BeginVerifier \/ EndVerifier \/ AttemptFails \/ AttemptPasses
  \/ PhasePasses \/ HaltRun \/ FinishRun \/ CutRun \/ Tick

TraceSpec == TraceInit /\ [][TraceNext]_traceVars

-----------------------------------------------------------------------------
\* What renderTrace makes of the file

\* findNearestOpenSpan: the span that was open and opened last, the first of
\* those in the file if there are several.
\* Slip: a span without a closing line is taken as closed at once.
NearestClosed(t) ==
  LET open == {i \in DOMAIN spans : spans[i].open <= t /\ t <= spans[i].close
                                    /\ spans[i].close # Never}
      latest == {i \in open : \A j \in open : spans[j].open <= spans[i].open}
  IN  IF open = {} THEN 0 ELSE CHOOSE i \in latest : \A j \in latest : i <= j
FindNearestOpenSpan(t) ==
  LET open == {i \in DOMAIN spans : spans[i].open <= t /\ t <= spans[i].close}
      latest == {i \in open : \A j \in open : spans[j].open <= spans[i].open}
  IN  IF open = {} THEN 0 ELSE CHOOSE i \in latest : \A j \in latest : i <= j

\* The span an event is drawn under.
DrawnUnder(ev) == IF ev.parent # 0 THEN ev.parent ELSE FindNearestOpenSpan(ev.t)

Roots == {i \in DOMAIN spans : spans[i].parent = 0}
Closed(i) == spans[i].close # Never

\* The spans from i up to its root.
Ancestry(i) ==
  LET up[k \in DOMAIN spans] ==
        {k} \cup IF spans[k].parent = 0 THEN {} ELSE up[spans[k].parent]
  IN  up[i]

-----------------------------------------------------------------------------
(* Every variable holds a value of its kind, and a span's parent has an    *)
(* earlier line.                                                           *)
TraceTypeOK ==
  /\ \A i \in DOMAIN spans :
       /\ spans[i].parent \in 0..(i - 1)
       /\ spans[i].open \in 0..now
       /\ spans[i].close \in spans[i].open..now \cup {Never}
  /\ \A k \in DOMAIN points : points[k].parent \in 0..Len(spans)
  /\ now \in 0..MaxTime /\ phaseNo \in 1..(NPhases + 1) /\ tryNo \in 0..Attempts
  /\ runs \in 0..MaxRuns /\ cuts \in 0..runs

(* Read at any time, also after processes have died, the roots of the tree *)
(* are the runs, what a closed span took includes what each span under it  *)
(* took, and unless a run was cut, only a running process has open spans.  *)
SpansNested ==
  /\ \A i \in DOMAIN spans : i \in Roots <=> spans[i].name = "pipeline"
  /\ \A i \in DOMAIN spans \ Roots :
       LET up == spans[spans[i].parent]
       IN  /\ up.open <= spans[i].open
           /\ up.close # Never => (Closed(i) /\ spans[i].close <= up.close)
  /\ cuts = 0 => \A i \in DOMAIN spans : Closed(i) \/ Contains(stack, i)

(* An event is drawn under a span that was open when it was written.       *)
EventsInsideSpans ==
  \A k \in DOMAIN points :
    LET at == DrawnUnder(points[k])
    IN  at # 0 /\ spans[at].open <= points[k].t /\ points[k].t <= spans[at].close

(* cost.recorded names no span, and is written when the agent's is closed. *)
(* It is drawn under that, or one it is in, though spans of dead processes *)
(* look open for ever; or under one opened in the same millisecond.        *)
CostNearItsAgent ==
  \A k \in DOMAIN points :
    LET at == DrawnUnder(points[k])
    IN  points[k].name = "cost.recorded" =>
          \/ at \in Ancestry(points[k].span)
          \/ at > points[k].span /\ spans[at].open = points[k].t
=============================================================================
