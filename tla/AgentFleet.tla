------------------------------ MODULE AgentFleet ------------------------------
(***************************************************************************)
(* utils/agent_runner.js and utils/budget_tracker.js: node processes that  *)
(* run lists of agents, one after the other (invokeAgentsSerial) or        *)
(* together and then once more for those that failed                       *)
(* (invokeAgentsParallel), and the file they all keep the spending in,     *)
(* .memory/budget_session.json.  AgentProcess says how one agent ends.     *)
(*                                                                         *)
(* A process is single-threaded: what follows an agent's end (read the     *)
(* budget, truncate it, fill it, append cost.recorded to the trace) is not *)
(* interrupted by its other agents, but by other processes, or its death.  *)
(***************************************************************************)
EXTENDS Integers, FiniteSets, Functions

CONSTANTS
  Runners,          \* the node processes that share the budget file
  NTasks,           \* how many tasks each call has
  Costs, MaxCost,   \* what an agent may cost, and the most of it
  LimitSet,         \* the hardLimit in the budget file
  NoLimit,          \* hardLimit: null
  Blank, Garbled,   \* the file is absent or empty; it is not JSON
  MaxDeaths         \* bound: how many processes die

ASSUME FleetAssumption ==
  /\ IsFiniteSet(Runners)
  /\ NTasks \in Nat /\ LimitSet \in Nat /\ MaxDeaths \in Nat
  /\ MaxCost \in Nat /\ Costs \subseteq 0..MaxCost
  /\ NoLimit \notin Nat

Budgets == [limit : Nat \cup {NoLimit}, spent : Nat]

ASSUME BudgetAssumption ==
  Blank \notin Budgets /\ Garbled \notin Budgets /\ Blank # Garbled

VARIABLES
  budget,     \* budget_session.json: Blank, Garbled or one of Budgets
  stage,      \* what each process is doing
  mode,       \* how it runs its tasks: a retry is the serial half of parallel
  pending,    \* the tasks it has not come to in this round
  branch,     \* what the results hold for each of its tasks
  held,       \* the budget it has read and added to
  due,        \* the cost it is recording
  traced,     \* the sum of the cost.recorded events in its trace.jsonl
  owed,       \* history: what agents have cost, with what the file began with
  givenLimit, \* history: the limit the file began with
  disturbed,  \* history: see Overlaps and Dies
  deaths      \* how many processes died

runnerVars == <<stage, mode, pending, branch, held, due, traced>>
fleetVars == <<budget, runnerVars, owed, givenLimit, disturbed, deaths>>

Tasks == 1..NTasks
Ended == {"done", "threw", "dead"}
MidWrite(p) == stage[p] \in {"truncate", "fill"}

\* getSessionBudget: a file that is absent or not JSON has no limit.
NoBudget == [limit |-> NoLimit, spent |-> 0]
Known == IF budget \in {Blank, Garbled} THEN NoBudget ELSE budget

FleetInit ==
  /\ budget \in {Blank} \cup [limit : {NoLimit, LimitSet}, spent : 0..LimitSet]
  /\ stage = [p \in Runners |-> "idle"]
  /\ mode = [p \in Runners |-> "none"]
  /\ pending = [p \in Runners |-> {}]
  /\ branch = [p \in Runners |-> [i \in Tasks |-> "absent"]]
  /\ held = [p \in Runners |-> NoBudget]
  /\ due = [p \in Runners |-> 0]
  /\ traced = [p \in Runners |-> 0]
  /\ owed = Known.spent
  /\ givenLimit = Known.limit
  /\ disturbed = FALSE
  /\ deaths = 0

-----------------------------------------------------------------------------
\* Running agents

Call(p, how) ==
  /\ stage[p] = "idle"
  /\ stage' = [stage EXCEPT ![p] = "start"]
  /\ mode' = [mode EXCEPT ![p] = how]
  /\ pending' = [pending EXCEPT ![p] = Tasks]
  /\ UNCHANGED <<budget, branch, held, due, traced, owed, givenLimit,
                 disturbed, deaths>>

\* checkBudget(0) refuses what comes after the limit has been passed.
\* Slip: only the estimate, 0, is compared with the limit.
StopsByEstimate == Known.limit # NoLimit /\ 0 > Known.limit
Stops == Known.limit # NoLimit /\ Known.spent > Known.limit

\* The task the loop comes to next.
\* Slip: the list of what failed is worked from its end.
LastTask(p, i) == i \in pending[p] /\ \A j \in pending[p] : j <= i
NextTask(p, i) == i \in pending[p] /\ \A j \in pending[p] : i <= j

\* Promise.allSettled keeps a refusal; a serial list is thrown out of.
Start(p, i) ==
  /\ stage[p] = "start"
  /\ NextTask(p, i)
  /\ pending' = [pending EXCEPT ![p] = @ \ {i}]
  /\ branch' = [branch EXCEPT ![p][i] = IF Stops THEN "refused" ELSE "running"]
  /\ stage' = [stage EXCEPT ![p] =
       IF Stops /\ mode[p] # "parallel" THEN "threw"
       ELSE IF mode[p] = "parallel" /\ pending[p] # {i} THEN "start"
       ELSE "wait"]
  /\ disturbed' = (disturbed \/ \E q \in Runners : stage[q] = "fill")
  /\ UNCHANGED <<budget, mode, held, due, traced, owed, givenLimit, deaths>>

\* An agent that fails, or succeeds with no output, costs nothing here.
EndsFree(p, i) ==
  /\ stage[p] = "wait" /\ branch[p][i] = "running"
  /\ \E r \in {"ok", "failed"} : branch' = [branch EXCEPT ![p][i] = r]
  /\ UNCHANGED <<budget, stage, mode, pending, held, due, traced, owed,
                 givenLimit, disturbed, deaths>>

\* What recordCost writes: the cost is added to what has been read.
\* Slip: the cost is recorded from the usage and again from the estimate.
AddTwice(c) == [Known EXCEPT !.spent = @ + c + c]
\* Slip: the object is built anew, without the limit.
AddBare(c) == [limit |-> NoLimit, spent |-> Known.spent + c]
\* Slip: a model that has no price costs nothing.
AddFree(c) == Known
\* Slip: a file without `spent' makes it NaN, which is saved as null.
AddUnset(c) == [Known EXCEPT !.spent = NoLimit]
Add(c) == [Known EXCEPT !.spent = @ + c]

\* Another process has read the file and not yet written it.
Overlaps(p) == \E q \in Runners \ {p} : MidWrite(q)

EndsCosting(p, i, c) ==
  /\ stage[p] = "wait" /\ branch[p][i] = "running"
  /\ branch' = [branch EXCEPT ![p][i] = "ok"]
  /\ stage' = [stage EXCEPT ![p] = "truncate"]
  /\ held' = [held EXCEPT ![p] = Add(c)]
  /\ due' = [due EXCEPT ![p] = c]
  /\ owed' = owed + c
  /\ disturbed' = (disturbed \/ Overlaps(p))
  /\ UNCHANGED <<budget, mode, pending, traced, givenLimit, deaths>>

\* saveSessionBudget
Truncate(p) ==
  /\ stage[p] = "truncate"
  /\ budget' = Blank
  /\ stage' = [stage EXCEPT ![p] = "fill"]
  /\ UNCHANGED <<mode, pending, branch, held, due, traced, owed, givenLimit,
                 disturbed, deaths>>

\* A longer text that was written since the truncation keeps its end.
Fill(p) ==
  /\ stage[p] = "fill"
  /\ \/ budget' = held[p]
     \/ budget # Blank /\ budget' = Garbled
  /\ stage' = [stage EXCEPT ![p] = "emit"]
  /\ held' = [held EXCEPT ![p] = NoBudget]
  /\ UNCHANGED <<mode, pending, branch, due, traced, owed, givenLimit,
                 disturbed, deaths>>

\* emitEvent('cost.recorded'), the last thing an invocation does.
Emit(p) ==
  /\ stage[p] = "emit"
  /\ traced' = [traced EXCEPT ![p] = @ + due[p]]
  /\ due' = [due EXCEPT ![p] = 0]
  /\ stage' = [stage EXCEPT ![p] = "wait"]
  /\ UNCHANGED <<budget, mode, pending, branch, held, owed, givenLimit,
                 disturbed, deaths>>

\* Slip: all branches are run again.
AllAgain(p) == Tasks
FailedIndexes(p) == {i \in Tasks : branch[p][i] # "ok"}

\* All agents that were started have settled.
\* Slip: a refused one is waited for.
SettledByResult(p) ==
  stage[p] = "wait" /\ \A i \in Tasks : branch[p][i] \notin {"running", "refused"}
Settled(p) == stage[p] = "wait" /\ \A i \in Tasks : branch[p][i] # "running"

CollapseToSerial(p) ==
  /\ Settled(p) /\ mode[p] = "parallel"
  /\ IF FailedIndexes(p) = {}
     THEN /\ stage' = [stage EXCEPT ![p] = "done"]
          /\ UNCHANGED <<mode, pending, branch>>
     ELSE /\ stage' = [stage EXCEPT ![p] = "start"]
          /\ mode' = [mode EXCEPT ![p] = "retry"]
          /\ pending' = [pending EXCEPT ![p] = FailedIndexes(p)]
          /\ branch' = [branch EXCEPT ![p] =
               [i \in Tasks |-> IF i \in FailedIndexes(p) THEN "absent" ELSE @[i]]]
  /\ UNCHANGED <<budget, held, due, traced, owed, givenLimit, disturbed, deaths>>

\* The serial loop breaks at the first failure; what comes after has no result.
SerialNext(p) ==
  /\ Settled(p) /\ mode[p] # "parallel"
  /\ stage' = [stage EXCEPT ![p] =
       IF pending[p] = {} \/ \E i \in Tasks : branch[p][i] = "failed"
       THEN "done" ELSE "start"]
  /\ UNCHANGED <<budget, mode, pending, branch, held, due, traced, owed,
                 givenLimit, disturbed, deaths>>

Dies(p) ==
  /\ stage[p] \notin Ended \cup {"idle"} /\ deaths < MaxDeaths
  /\ stage' = [stage EXCEPT ![p] = "dead"]
  /\ disturbed' = (disturbed \/ MidWrite(p))
  /\ deaths' = deaths + 1
  /\ held' = [held EXCEPT ![p] = NoBudget]
  /\ due' = [due EXCEPT ![p] = 0]
  /\ pending' = [pending EXCEPT ![p] = {}]
  /\ UNCHANGED <<budget, mode, branch, traced, owed, givenLimit>>

RunnerStep(p) ==
  \/ \E i \in Tasks : Start(p, i) \/ EndsFree(p, i)
  \/ \E i \in Tasks, c \in Costs : EndsCosting(p, i, c)
  \/ Truncate(p) \/ Fill(p) \/ Emit(p)
  \/ CollapseToSerial(p) \/ SerialNext(p)

FleetNext ==
  \E p \in Runners :
    \/ \E how \in {"serial", "parallel"} : Call(p, how)
    \/ RunnerStep(p)
    \/ Dies(p)

FleetSpec == FleetInit /\ [][FleetNext]_fleetVars

\* Agents end (AgentProcess says when they do) and the event loop goes on.
FleetFairness == \A p \in Runners : WF_fleetVars(RunnerStep(p))

-----------------------------------------------------------------------------
\* What `minus budget' prints

AllTime == Known.spent
\* What one session cost, by its trace, and what all did.
SessionCost(p) == traced[p]
Last30Days == SumFunction([p \in Runners |-> SessionCost(p)])

-----------------------------------------------------------------------------
(* Every variable holds a value of its kind, and a process that is about   *)
(* to truncate or fill the budget file has a whole budget to put there     *)
(* (recordCost).                                                           *)
FleetTypeOK ==
  /\ budget \in Budgets \cup {Blank, Garbled}
  /\ stage \in [Runners -> {"idle", "start", "wait", "truncate", "fill", "emit"}
                           \cup Ended]
  /\ mode \in [Runners -> {"none", "serial", "parallel", "retry"}]
  /\ pending \in [Runners -> SUBSET Tasks]
  /\ branch \in [Runners ->
       [Tasks -> {"absent", "running", "ok", "failed", "refused"}]]
  /\ held \in [Runners -> Budgets]
  /\ due \in [Runners -> Nat]
  /\ traced \in [Runners -> Nat]
  /\ owed \in Nat
  /\ givenLimit \in Nat \cup {NoLimit}
  /\ disturbed \in BOOLEAN
  /\ deaths \in Nat

(* However many processes record at once, lose each other's updates or die *)
(* over the file, it never says that more was spent than the agents cost:  *)
(* checkBudget stops nobody too early.                                     *)
SpentNeverOverstated == Known.spent <= owed

(* Unless two processes recorded at once, or one died recording, the file  *)
(* holds all the agents have cost, and the limit it began with, whenever   *)
(* nobody is writing it (recordCost reads, adds and writes it back).       *)
SpentExact ==
  (~disturbed /\ \A p \in Runners : ~MidWrite(p)) =>
    Known.spent = owed /\ Known.limit = givenLimit

(* checkBudget asks with an estimate of 0, so agents that are running when *)
(* the limit is passed still cost: but only as many as a call can have     *)
(* running, one for a serial list and all of a parallel one.               *)
Width(p) == IF mode[p] = "none" THEN 0 ELSE IF mode[p] = "serial" THEN 1 ELSE NTasks
OvershootBounded ==
  (~disturbed /\ givenLimit # NoLimit) =>
    owed <= givenLimit + MaxCost * SumFunction([p \in Runners |-> Width(p)])

(* The spending of the last 30 days, summed from the traces of sessions,   *)
(* is never more than the all-time total from the budget file, unless      *)
(* processes recorded at once or died (the event is written last).         *)
WindowWithinTotal ==
  (~disturbed /\ \A p \in Runners : stage[p] # "fill") => Last30Days <= AllTime

(* A list that ends without a result for some task has the failure that    *)
(* stopped it before that task, and only that one: the caller who meets    *)
(* `undefined' in what invokeAgentsParallel returns can find out why.      *)
HolesFollowAFailure ==
  \A p \in Runners : stage[p] = "done" =>
    /\ \A i \in Tasks : branch[p][i] \in {"ok", "failed", "absent"}
    /\ \A i, j \in Tasks :
         /\ branch[p][i] = "absent" =>
              \E k \in Tasks : k < i /\ branch[p][k] = "failed"
         /\ (branch[p][i] = "failed" /\ branch[p][j] = "failed") => i = j

(* "Succeeded results are preserved": an agent that has delivered is never *)
(* run, and paid, again by the serial half of invokeAgentsParallel.        *)
SuccessesKept ==
  [][\A p \in Runners, i \in Tasks :
       branch[p][i] = "ok" => branch'[p][i] = "ok"]_fleetVars

(* Every call ends, with its results, with the budget's refusal or with    *)
(* the process: no combination of failures makes it wait for ever.         *)
FleetEnds ==
  \A p \in Runners : stage[p] = "start" ~> stage[p] \in Ended
=============================================================================
