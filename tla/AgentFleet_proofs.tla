--------------------------- MODULE AgentFleet_proofs ---------------------------
(***************************************************************************)
(* Proofs about AgentFleet for any number of processes and tasks, any      *)
(* costs, any limit and any deaths.                                        *)
(***************************************************************************)
EXTENDS AgentFleet, Sums

USE FleetAssumption, BudgetAssumption

-----------------------------------------------------------------------------
(***************************************************************************)
(* Type correctness.  FleetTypeOK is inductive.                            *)
(***************************************************************************)
LEMMA KnownType ==
  ASSUME FleetTypeOK
  PROVE  Known \in Budgets
BY DEF FleetTypeOK, Known, NoBudget, Budgets

LEMMA AddType ==
  ASSUME FleetTypeOK, NEW c \in Costs
  PROVE  /\ Add(c) \in Budgets
         /\ Add(c).spent = Known.spent + c
         /\ Add(c).limit = Known.limit
BY KnownType DEF Add, Budgets

LEMMA FleetTypeInit == FleetInit => FleetTypeOK
<1> SUFFICES ASSUME FleetInit PROVE FleetTypeOK
  OBVIOUS
<1>1. budget \in Budgets \cup {Blank}
  BY DEF FleetInit, Budgets
<1>2. Known \in Budgets
  BY <1>1 DEF Known, NoBudget, Budgets
<1>3. owed \in Nat /\ givenLimit \in Nat \cup {NoLimit}
  BY <1>2 DEF FleetInit, Budgets
<1>4. held \in [Runners -> Budgets]
  BY DEF FleetInit, NoBudget, Budgets
<1> QED
  BY <1>1, <1>3, <1>4 DEF FleetInit, FleetTypeOK, Ended

LEMMA FleetTypeStep == FleetTypeOK /\ [FleetNext]_fleetVars => FleetTypeOK'
<1> SUFFICES ASSUME FleetTypeOK, [FleetNext]_fleetVars PROVE FleetTypeOK'
  OBVIOUS
<1> USE DEF Ended
<1>1. ASSUME NEW p \in Runners, NEW how \in {"serial", "parallel"}, Call(p, how)
      PROVE  FleetTypeOK'
  BY <1>1 DEF FleetTypeOK, Call
<1>2. ASSUME NEW p \in Runners, NEW i \in Tasks, Start(p, i) PROVE FleetTypeOK'
  <2>1. branch' \in [Runners ->
          [Tasks -> {"absent", "running", "ok", "failed", "refused"}]]
    BY <1>2 DEF FleetTypeOK, Start
  <2>2. disturbed' \in BOOLEAN
    BY <1>2 DEF FleetTypeOK, Start
  <2> QED
    BY <1>2, <2>1, <2>2 DEF FleetTypeOK, Start
<1>3. ASSUME NEW p \in Runners, NEW i \in Tasks, EndsFree(p, i) PROVE FleetTypeOK'
  BY <1>3 DEF FleetTypeOK, EndsFree
<1>4. ASSUME NEW p \in Runners, NEW i \in Tasks, NEW c \in Costs, EndsCosting(p, i, c)
      PROVE  FleetTypeOK'
  <2>1. held' \in [Runners -> Budgets]
    BY <1>4, AddType DEF FleetTypeOK, EndsCosting
  <2>2. disturbed' \in BOOLEAN
    BY <1>4 DEF FleetTypeOK, EndsCosting
  <2>3. c \in Nat
    OBVIOUS
  <2>4. due' \in [Runners -> Nat] /\ owed' \in Nat
    BY <1>4, <2>3 DEF FleetTypeOK, EndsCosting
  <2> QED
    BY <1>4, <2>1, <2>2, <2>4 DEF FleetTypeOK, EndsCosting
<1>5. ASSUME NEW p \in Runners, Truncate(p) PROVE FleetTypeOK'
  BY <1>5 DEF FleetTypeOK, Truncate
<1>6. ASSUME NEW p \in Runners, Fill(p) PROVE FleetTypeOK'
  BY <1>6 DEF FleetTypeOK, Fill, NoBudget, Budgets
<1>7. ASSUME NEW p \in Runners, Emit(p) PROVE FleetTypeOK'
  BY <1>7 DEF FleetTypeOK, Emit
<1>8. ASSUME NEW p \in Runners, CollapseToSerial(p) PROVE FleetTypeOK'
  <2>1. FailedIndexes(p) \in SUBSET Tasks
    BY DEF FailedIndexes
  <2>2. CASE FailedIndexes(p) = {}
    BY <1>8, <2>2 DEF FleetTypeOK, CollapseToSerial
  <2>3. CASE FailedIndexes(p) # {}
    <3> DEFINE kept == [i \in Tasks |-> IF i \in FailedIndexes(p) THEN "absent"
                                       ELSE branch[p][i]]
    <3>1. kept \in [Tasks -> {"absent", "running", "ok", "failed", "refused"}]
      BY DEF FleetTypeOK
    <3>2. branch' = [branch EXCEPT ![p] = kept]
      BY <1>8, <2>3 DEF CollapseToSerial
    <3>3. branch' \in [Runners ->
            [Tasks -> {"absent", "running", "ok", "failed", "refused"}]]
      BY <3>1, <3>2 DEF FleetTypeOK
    <3>4. /\ stage' = [stage EXCEPT ![p] = "start"]
          /\ mode' = [mode EXCEPT ![p] = "retry"]
          /\ pending' = [pending EXCEPT ![p] = FailedIndexes(p)]
          /\ UNCHANGED <<budget, held, due, traced, owed, givenLimit, disturbed, deaths>>
      BY <1>8, <2>3 DEF CollapseToSerial
    <3> HIDE DEF kept
    <3> QED
      BY <2>1, <3>3, <3>4 DEF FleetTypeOK
  <2> QED
    BY <2>2, <2>3
<1>9. ASSUME NEW p \in Runners, SerialNext(p) PROVE FleetTypeOK'
  BY <1>9 DEF FleetTypeOK, SerialNext
<1>10. ASSUME NEW p \in Runners, Dies(p) PROVE FleetTypeOK'
  <2>1. held' \in [Runners -> Budgets]
    BY <1>10 DEF FleetTypeOK, Dies, NoBudget, Budgets
  <2>2. disturbed' \in BOOLEAN
    BY <1>10 DEF FleetTypeOK, Dies
  <2> QED
    BY <1>10, <2>1, <2>2 DEF FleetTypeOK, Dies
<1>11. CASE UNCHANGED fleetVars
  BY <1>11 DEF FleetTypeOK, fleetVars, runnerVars
<1> QED
  BY <1>1, <1>2, <1>3, <1>4, <1>5, <1>6, <1>7, <1>8, <1>9, <1>10, <1>11
  DEF FleetNext, RunnerStep

\* Every variable of AgentFleet holds a value of its kind.
THEOREM FleetTypeCorrect == FleetSpec => []FleetTypeOK
BY FleetTypeInit, FleetTypeStep, PTL DEF FleetSpec

-----------------------------------------------------------------------------
(***************************************************************************)
(* The file never says too much.  What makes this inductive is that it is  *)
(* said also of what each process has read and is about to write: an old   *)
(* copy that overwrites a newer one says less, and owed only grows.        *)
(***************************************************************************)
NothingAdded ==
  /\ Known.spent <= owed
  /\ \A p \in Runners : MidWrite(p) => held[p].spent <= owed

LEMMA AddedStep ==
  FleetTypeOK /\ NothingAdded /\ [FleetNext]_fleetVars => NothingAdded'
<1> SUFFICES ASSUME FleetTypeOK, NothingAdded, [FleetNext]_fleetVars
             PROVE  NothingAdded'
  OBVIOUS
<1> USE DEF MidWrite
<1>0. Known.spent \in Nat /\ owed \in Nat /\ \A p \in Runners : held[p].spent \in Nat
  BY KnownType DEF FleetTypeOK, Budgets
<1>1. ASSUME NEW p \in Runners, NEW l \in {"idle", "start", "wait", "emit"} \cup Ended,
             stage' = [stage EXCEPT ![p] = l],
             UNCHANGED <<budget, owed>>,
             \A q \in Runners : held'[q] = held[q] \/ q = p
      PROVE  NothingAdded'
  <2>1. Known' = Known
    BY <1>1 DEF Known
  <2>2. ASSUME NEW q \in Runners, MidWrite(q)' PROVE q # p /\ MidWrite(q)
    BY <1>1, <2>2 DEF FleetTypeOK, Ended
  <2> QED
    BY <1>1, <2>1, <2>2 DEF NothingAdded
<1>2. ASSUME NEW p \in Runners, NEW i \in Tasks, NEW c \in Costs, EndsCosting(p, i, c)
      PROVE  NothingAdded'
  <2>1. c \in Nat /\ Known' = Known /\ owed' = owed + c
    BY <1>2 DEF EndsCosting, Known
  <2>2. held'[p].spent = Known.spent + c
    BY <1>2, AddType DEF EndsCosting, FleetTypeOK
  <2>3. ASSUME NEW q \in Runners, MidWrite(q)' PROVE held'[q].spent <= owed'
    <3>1. CASE q = p
      BY <1>0, <2>1, <2>2, <3>1 DEF NothingAdded
    <3>2. CASE q # p
      BY <1>0, <1>2, <2>1, <2>3, <3>2 DEF NothingAdded, EndsCosting, FleetTypeOK
    <3> QED
      BY <3>1, <3>2
  <2> QED
    BY <1>0, <2>1, <2>3 DEF NothingAdded
<1>3. ASSUME NEW p \in Runners, Truncate(p) PROVE NothingAdded'
  BY <1>0, <1>3 DEF NothingAdded, Truncate, Known, NoBudget, FleetTypeOK
<1>4. ASSUME NEW p \in Runners, Fill(p) PROVE NothingAdded'
  <2>1. Known' \in {held[p], NoBudget}
    BY <1>4 DEF Fill, Known
  <2>2. Known'.spent <= owed'
    BY <1>0, <1>4, <2>1 DEF Fill, NothingAdded, NoBudget
  <2>3. \A q \in Runners : MidWrite(q)' => q # p /\ MidWrite(q) /\ held'[q] = held[q]
    BY <1>4 DEF Fill, FleetTypeOK
  <2> QED
    BY <1>4, <2>2, <2>3 DEF NothingAdded, Fill
<1>5. ASSUME NEW p \in Runners, NEW how \in {"serial", "parallel"}, Call(p, how)
      PROVE  NothingAdded'
  BY <1>1, <1>5 DEF Call
<1>6. ASSUME NEW p \in Runners, NEW i \in Tasks, Start(p, i) PROVE NothingAdded'
  BY <1>1, <1>6 DEF Start, Ended
<1>7. ASSUME NEW p \in Runners, NEW i \in Tasks, EndsFree(p, i) PROVE NothingAdded'
  BY <1>7 DEF EndsFree, NothingAdded, Known
<1>8. ASSUME NEW p \in Runners, Emit(p) PROVE NothingAdded'
  BY <1>1, <1>8 DEF Emit
<1>9. ASSUME NEW p \in Runners, CollapseToSerial(p) PROVE NothingAdded'
  BY <1>1, <1>9 DEF CollapseToSerial, Ended
<1>10. ASSUME NEW p \in Runners, SerialNext(p) PROVE NothingAdded'
  BY <1>1, <1>10 DEF SerialNext, Ended
<1>11. ASSUME NEW p \in Runners, Dies(p) PROVE NothingAdded'
  BY <1>1, <1>11 DEF Dies, Ended, FleetTypeOK
<1>12. CASE UNCHANGED fleetVars
  BY <1>12 DEF NothingAdded, Known, fleetVars, runnerVars
<1> QED
  BY <1>2, <1>3, <1>4, <1>5, <1>6, <1>7, <1>8, <1>9, <1>10, <1>11, <1>12
  DEF FleetNext, RunnerStep

\* However many processes record at once or die over the file, it never says
\* that more was spent than the agents cost.
THEOREM NeverOverstated == FleetSpec => []SpentNeverOverstated
<1>1. FleetInit => NothingAdded
  <2> SUFFICES ASSUME FleetInit PROVE NothingAdded
    OBVIOUS
  <2>1. Known.spent \in Nat
    BY FleetTypeInit, KnownType DEF Budgets
  <2> QED
    BY <2>1 DEF FleetInit, NothingAdded, MidWrite
<1>2. NothingAdded => SpentNeverOverstated
  BY DEF NothingAdded, SpentNeverOverstated
<1> QED
  BY <1>1, <1>2, FleetTypeInit, FleetTypeStep, AddedStep, PTL DEF FleetSpec

-----------------------------------------------------------------------------
(***************************************************************************)
(* What the file says exactly.  Until something has disturbed it, at most  *)
(* one process is writing; it holds what the file has to become, and once  *)
(* it has truncated the file, nobody else has put anything there.          *)
(***************************************************************************)
Right(b) == b.spent = owed /\ b.limit = givenLimit

OneWriter ==
  ~disturbed =>
    /\ \A p, q \in Runners : MidWrite(p) /\ MidWrite(q) => p = q
    /\ \A p \in Runners : MidWrite(p) => Right(held[p])
    /\ \A p \in Runners : stage[p] = "fill" => budget = Blank
    /\ (\A p \in Runners : ~MidWrite(p)) => Right(Known)

\* The steps that leave the file and what is to be written into it alone.
LEMMA NoWrite ==
  ASSUME FleetTypeOK, OneWriter, NEW p \in Runners,
         NEW l \in {"idle", "start", "wait", "emit"} \cup Ended,
         stage' = [stage EXCEPT ![p] = l],
         MidWrite(p) => disturbed',
         disturbed => disturbed',
         UNCHANGED <<budget, owed, givenLimit>>,
         \A q \in Runners : held'[q] = held[q] \/ q = p
  PROVE  OneWriter'
<1> SUFFICES ASSUME ~disturbed'
             PROVE  /\ \A q, r \in Runners : MidWrite(q)' /\ MidWrite(r)' => q = r
                    /\ \A q \in Runners : MidWrite(q)' => Right(held[q])'
                    /\ \A q \in Runners : stage'[q] = "fill" => budget' = Blank
                    /\ (\A q \in Runners : ~MidWrite(q)') => Right(Known)'
  BY DEF OneWriter
<1>1. Known' = Known /\ \A b : Right(b)' <=> b'.spent = owed /\ b'.limit = givenLimit
  BY DEF Known, Right
<1>2. \A q \in Runners : MidWrite(q)' <=> MidWrite(q)
  BY DEF MidWrite, FleetTypeOK, Ended
<1>3. \A q \in Runners : MidWrite(q) => q # p /\ held'[q] = held[q]
  OBVIOUS
<1>4. \A q \in Runners : stage'[q] = "fill" => stage[q] = "fill"
  BY DEF FleetTypeOK, Ended
<1> QED
  BY <1>1, <1>2, <1>3, <1>4 DEF OneWriter, Right

LEMMA WriterStep ==
  FleetTypeOK /\ OneWriter /\ [FleetNext]_fleetVars => OneWriter'
<1> SUFFICES ASSUME FleetTypeOK, OneWriter, [FleetNext]_fleetVars
             PROVE  OneWriter'
  OBVIOUS
<1>1. ASSUME NEW p \in Runners, NEW how \in {"serial", "parallel"}, Call(p, how)
      PROVE  OneWriter'
  BY <1>1, NoWrite DEF Call, MidWrite
<1>2. ASSUME NEW p \in Runners, NEW i \in Tasks, Start(p, i) PROVE OneWriter'
  <2>1. disturbed => disturbed'
    BY <1>2 DEF Start
  <2>2. \E l \in {"start", "wait", "threw"} : stage' = [stage EXCEPT ![p] = l]
    BY <1>2 DEF Start
  <2> QED
    BY <1>2, <2>1, <2>2, NoWrite DEF Start, MidWrite, Ended
<1>3. ASSUME NEW p \in Runners, NEW i \in Tasks, EndsFree(p, i) PROVE OneWriter'
  BY <1>3 DEF EndsFree, OneWriter, MidWrite, Known, Right
<1>4. ASSUME NEW p \in Runners, NEW i \in Tasks, NEW c \in Costs, EndsCosting(p, i, c)
      PROVE  OneWriter'
  <2> SUFFICES ASSUME ~disturbed' PROVE OneWriter'
    BY DEF OneWriter
  <2>1. ~disturbed /\ ~Overlaps(p)
    BY <1>4 DEF EndsCosting
  <2>2. \A q \in Runners : ~MidWrite(q)
    BY <1>4, <2>1 DEF EndsCosting, Overlaps, MidWrite
  <2>3. Right(Known)
    BY <2>1, <2>2 DEF OneWriter
  <2>4. held'[p] = Add(c) /\ owed' = owed + c /\ givenLimit' = givenLimit
    BY <1>4 DEF EndsCosting, FleetTypeOK
  <2>5. held'[p].spent = owed' /\ held'[p].limit = givenLimit'
    BY <2>3, <2>4, AddType DEF Right
  <2>6. \A q \in Runners : MidWrite(q)' <=> q = p
    BY <1>4, <2>2 DEF EndsCosting, MidWrite, FleetTypeOK
  <2>7. \A q \in Runners : stage'[q] # "fill"
    BY <1>4, <2>2 DEF EndsCosting, MidWrite, FleetTypeOK
  <2> QED
    BY <2>5, <2>6, <2>7 DEF OneWriter, Right
<1>5. ASSUME NEW p \in Runners, Truncate(p) PROVE OneWriter'
  <2>1. \A q \in Runners : MidWrite(q)' <=> MidWrite(q)
    BY <1>5 DEF Truncate, MidWrite, FleetTypeOK
  <2>2. MidWrite(p) /\ budget' = Blank /\ UNCHANGED <<held, owed, givenLimit, disturbed>>
    BY <1>5 DEF Truncate, MidWrite
  <2> QED
    BY <2>1, <2>2 DEF OneWriter, Right
<1>6. ASSUME NEW p \in Runners, Fill(p) PROVE OneWriter'
  <2> SUFFICES ASSUME ~disturbed PROVE OneWriter'
    BY <1>6 DEF Fill, OneWriter
  <2>1. MidWrite(p) /\ budget = Blank
    BY <1>6 DEF Fill, MidWrite, OneWriter
  <2>2. \A q \in Runners : ~MidWrite(q)'
    BY <1>6, <2>1 DEF Fill, MidWrite, FleetTypeOK, OneWriter
  <2>3. budget' = held[p] /\ held[p] \in Budgets
    BY <1>6, <2>1 DEF Fill, FleetTypeOK
  <2>4. Known' = held[p]
    BY <2>3 DEF Known
  <2>5. Right(held[p]) /\ UNCHANGED <<owed, givenLimit>>
    BY <1>6, <2>1 DEF OneWriter, Fill
  <2>6. \A q \in Runners : stage'[q] # "fill"
    BY <2>2 DEF MidWrite
  <2> QED
    BY <2>2, <2>4, <2>5, <2>6 DEF OneWriter, Right
<1>7. ASSUME NEW p \in Runners, Emit(p) PROVE OneWriter'
  BY <1>7, NoWrite DEF Emit, MidWrite
<1>8. ASSUME NEW p \in Runners, CollapseToSerial(p) PROVE OneWriter'
  <2>1. \E l \in {"start", "done"} : stage' = [stage EXCEPT ![p] = l]
    BY <1>8 DEF CollapseToSerial
  <2> QED
    BY <1>8, <2>1, NoWrite DEF CollapseToSerial, Settled, MidWrite, Ended
<1>9. ASSUME NEW p \in Runners, SerialNext(p) PROVE OneWriter'
  <2>1. \E l \in {"start", "done"} : stage' = [stage EXCEPT ![p] = l]
    BY <1>9 DEF SerialNext
  <2> QED
    BY <1>9, <2>1, NoWrite DEF SerialNext, Settled, MidWrite, Ended
<1>10. ASSUME NEW p \in Runners, Dies(p) PROVE OneWriter'
  <2>1. (disturbed \/ MidWrite(p)) => disturbed'
    BY <1>10 DEF Dies
  <2>2. \A q \in Runners : held'[q] = held[q] \/ q = p
    BY <1>10 DEF Dies, FleetTypeOK
  <2> QED
    BY <1>10, <2>1, <2>2, NoWrite DEF Dies, Ended
<1>11. CASE UNCHANGED fleetVars
  BY <1>11 DEF OneWriter, MidWrite, Known, Right, fleetVars, runnerVars
<1> QED
  BY <1>1, <1>2, <1>3, <1>4, <1>5, <1>6, <1>7, <1>8, <1>9, <1>10, <1>11
  DEF FleetNext, RunnerStep

\* Unless processes recorded at once or died recording, the file holds all the
\* agents have cost, and its limit, whenever nobody is writing it.
THEOREM Exact == FleetSpec => []SpentExact
<1>1. FleetInit => OneWriter
  BY DEF FleetInit, OneWriter, MidWrite, Right
<1>2. OneWriter => SpentExact
  BY DEF OneWriter, SpentExact, Right
<1> QED
  BY <1>1, <1>2, FleetTypeInit, FleetTypeStep, WriterStep, PTL DEF FleetSpec

-----------------------------------------------------------------------------
(***************************************************************************)
(* What a list of agents leaves behind.  A task that is pending has no     *)
(* result.  A serial list, or the serial half of a parallel one, works in  *)
(* order: one agent at most runs or has failed, and it comes before all    *)
(* that are pending.                                                       *)
(***************************************************************************)
Stopping == {"running", "failed"}

InOrder(p) ==
  /\ \A i \in Tasks : branch[p][i] = "absent" => i \in pending[p]
  /\ \A i \in Tasks : branch[p][i] # "refused"
  /\ \A i \in pending[p], j \in Tasks : branch[p][j] \in Stopping => j < i
  /\ \A i, j \in Tasks : branch[p][i] \in Stopping /\ branch[p][j] \in Stopping => i = j
  /\ stage[p] = "start" => \A i \in Tasks : branch[p][i] \notin Stopping
  /\ stage[p] = "done" =>
       /\ \A i \in Tasks : branch[p][i] # "running"
       /\ pending[p] = {} \/ \E i \in Tasks : branch[p][i] = "failed"

ListOK(p) ==
  /\ mode[p] = "none" <=> stage[p] = "idle"
  /\ stage[p] = "idle" => \A i \in Tasks : branch[p][i] = "absent"
  /\ \A i \in pending[p] : branch[p][i] = "absent"
  /\ mode[p] = "parallel" /\ stage[p] = "done" => \A i \in Tasks : branch[p][i] = "ok"
  /\ mode[p] \in {"serial", "retry"} /\ stage[p] \notin {"threw", "dead"} => InOrder(p)

ListInv == \A p \in Runners : ListOK(p)

\* A step of one process leaves the lists of the others alone.
LEMMA OthersKeep ==
  ASSUME FleetTypeOK, ListInv, NEW p \in Runners, ListOK(p)',
         \A q \in Runners \ {p} :
           /\ stage'[q] = stage[q] /\ mode'[q] = mode[q]
           /\ pending'[q] = pending[q] /\ branch'[q] = branch[q]
  PROVE  ListInv'
<1> SUFFICES ASSUME NEW q \in Runners, q # p PROVE ListOK(q)'
  BY DEF ListInv
<1>1. ListOK(q)
  BY DEF ListInv
<1>2. /\ stage'[q] = stage[q] /\ mode'[q] = mode[q]
      /\ pending'[q] = pending[q] /\ branch'[q] = branch[q]
  OBVIOUS
<1> QED
  BY <1>1, <1>2 DEF ListOK, InOrder

LEMMA ListStep == FleetTypeOK /\ ListInv /\ [FleetNext]_fleetVars => ListInv'
<1> SUFFICES ASSUME FleetTypeOK, ListInv, [FleetNext]_fleetVars PROVE ListInv'
  OBVIOUS
<1> USE DEF Tasks
<1>1. ASSUME NEW p \in Runners, NEW how \in {"serial", "parallel"}, Call(p, how)
      PROVE  ListInv'
  <2>1. /\ stage'[p] = "start" /\ mode'[p] = how /\ pending'[p] = Tasks
        /\ branch' = branch /\ stage[p] = "idle"
    BY <1>1 DEF Call, FleetTypeOK
  <2>2. \A i \in Tasks : branch[p][i] = "absent"
    BY <2>1 DEF ListInv, ListOK
  <2>3. ListOK(p)'
    BY <2>1, <2>2 DEF ListOK, InOrder, Stopping
  <2> QED
    BY <1>1, <2>3, OthersKeep DEF Call, FleetTypeOK
<1>2. ASSUME NEW p \in Runners, NEW i \in Tasks, Start(p, i) PROVE ListInv'
  <2>1. /\ stage[p] = "start" /\ i \in pending[p] /\ \A j \in pending[p] : i <= j
        /\ pending'[p] = pending[p] \ {i} /\ mode' = mode
    BY <1>2 DEF Start, NextTask, FleetTypeOK
  <2>2. /\ branch'[p][i] = IF Stops THEN "refused" ELSE "running"
        /\ \A j \in Tasks \ {i} : branch'[p][j] = branch[p][j]
    BY <1>2 DEF Start, FleetTypeOK
  <2>3. ListOK(p) /\ pending[p] \subseteq Tasks
    BY DEF ListInv, FleetTypeOK
  <2>4. CASE mode[p] = "parallel"
    <3>1. stage'[p] \in {"start", "wait"}
      BY <1>2, <2>4 DEF Start, FleetTypeOK
    <3>2. ListOK(p)'
      BY <2>1, <2>2, <2>3, <2>4, <3>1 DEF ListOK
    <3> QED
      BY <1>2, <3>2, OthersKeep DEF Start, FleetTypeOK
  <2>5. CASE mode[p] \in {"serial", "retry"} /\ Stops
    <3>1. stage'[p] = "threw"
      BY <1>2, <2>5 DEF Start, FleetTypeOK
    <3>2. ListOK(p)'
      BY <2>1, <2>2, <2>3, <2>5, <3>1 DEF ListOK
    <3> QED
      BY <1>2, <3>2, OthersKeep DEF Start, FleetTypeOK
  <2>6. CASE mode[p] \in {"serial", "retry"} /\ ~Stops
    <3>1. stage'[p] = "wait"
      BY <1>2, <2>6 DEF Start, FleetTypeOK
    <3>2. InOrder(p) /\ \A j \in Tasks : branch[p][j] \notin Stopping
      BY <2>1, <2>3, <2>6 DEF ListOK, InOrder
    <3>3. \A j \in Tasks : branch'[p][j] \in Stopping => j = i
      BY <2>2, <3>2
    <3>4. \A j \in pending'[p] : i < j
      BY <2>1, <2>3
    <3>5. InOrder(p)'
      BY <2>1, <2>2, <2>3, <2>6, <3>1, <3>2, <3>3, <3>4 DEF InOrder
    <3>6. ListOK(p)'
      BY <2>1, <2>2, <2>3, <2>6, <3>1, <3>5 DEF ListOK
    <3> QED
      BY <1>2, <3>6, OthersKeep DEF Start, FleetTypeOK
  <2>7. mode[p] \in {"parallel", "serial", "retry"}
    BY <2>1, <2>3 DEF ListOK, FleetTypeOK
  <2> QED
    BY <2>4, <2>5, <2>6, <2>7
<1>3. ASSUME NEW p \in Runners, NEW i \in Tasks,
             stage[p] = "wait", branch[p][i] = "running",
             NEW r \in {"ok", "failed"}, branch' = [branch EXCEPT ![p][i] = r],
             NEW l \in {"wait", "truncate"}, stage' = [stage EXCEPT ![p] = l],
             UNCHANGED <<mode, pending>>
      PROVE  ListInv'
  <2>1. /\ stage'[p] = l /\ branch'[p][i] = r
        /\ \A j \in Tasks \ {i} : branch'[p][j] = branch[p][j]
    BY <1>3 DEF FleetTypeOK
  <2>2. ListOK(p) /\ pending[p] \subseteq Tasks
    BY DEF ListInv, FleetTypeOK
  <2>3. ASSUME InOrder(p) PROVE InOrder(p)'
    BY <1>3, <2>1, <2>2, <2>3 DEF InOrder, Stopping
  <2>4. ListOK(p)'
    BY <1>3, <2>1, <2>2, <2>3 DEF ListOK
  <2> QED
    BY <1>3, <2>4, OthersKeep DEF FleetTypeOK
<1>4. ASSUME NEW p \in Runners, NEW i \in Tasks, EndsFree(p, i) PROVE ListInv'
  <2>1. stage' = [stage EXCEPT ![p] = "wait"]
    BY <1>4 DEF EndsFree, FleetTypeOK
  <2> QED
    BY <1>3, <1>4, <2>1 DEF EndsFree
<1>5. ASSUME NEW p \in Runners, NEW i \in Tasks, NEW c \in Costs, EndsCosting(p, i, c)
      PROVE  ListInv'
  BY <1>3, <1>5 DEF EndsCosting
<1>6. ASSUME NEW p \in Runners, NEW from \in {"truncate", "fill", "emit"},
             NEW to \in {"fill", "emit", "wait"},
             stage[p] = from, stage' = [stage EXCEPT ![p] = to],
             UNCHANGED <<mode, pending, branch>>
      PROVE  ListInv'
  <2>1. stage'[p] = to
    BY <1>6 DEF FleetTypeOK
  <2>2. ListOK(p)'
    BY <1>6, <2>1 DEF ListInv, ListOK, InOrder
  <2> QED
    BY <1>6, <2>2, OthersKeep DEF FleetTypeOK
<1>7. ASSUME NEW p \in Runners, Truncate(p) \/ Fill(p) \/ Emit(p) PROVE ListInv'
  BY <1>6, <1>7 DEF Truncate, Fill, Emit
<1>8. ASSUME NEW p \in Runners, CollapseToSerial(p) PROVE ListInv'
  <2>1. ListOK(p) /\ mode[p] = "parallel" /\ stage[p] = "wait"
    BY <1>8 DEF ListInv, CollapseToSerial, Settled
  <2>2. CASE FailedIndexes(p) = {}
    <3>1. /\ stage'[p] = "done" /\ UNCHANGED <<mode, pending, branch>>
          /\ \A i \in Tasks : branch[p][i] = "ok"
      BY <1>8, <2>2 DEF CollapseToSerial, FailedIndexes, FleetTypeOK
    <3>2. ListOK(p)'
      BY <2>1, <3>1 DEF ListOK
    <3> QED
      BY <1>8, <2>2, <3>2, OthersKeep DEF CollapseToSerial, FleetTypeOK
  <2>3. CASE FailedIndexes(p) # {}
    <3>1. /\ stage'[p] = "start" /\ mode'[p] = "retry"
          /\ pending'[p] = FailedIndexes(p)
      BY <1>8, <2>3 DEF CollapseToSerial, FleetTypeOK
    <3>2. \A i \in Tasks : branch'[p][i] = IF i \in FailedIndexes(p) THEN "absent" ELSE "ok"
      BY <1>8, <2>3 DEF CollapseToSerial, FleetTypeOK, FailedIndexes
    <3>3. FailedIndexes(p) \subseteq Tasks
      BY DEF FailedIndexes
    <3>4. ListOK(p)'
      BY <3>1, <3>2, <3>3 DEF ListOK, InOrder, Stopping
    <3> QED
      BY <1>8, <2>3, <3>4, OthersKeep DEF CollapseToSerial, FleetTypeOK
  <2> QED
    BY <2>2, <2>3
<1>9. ASSUME NEW p \in Runners, SerialNext(p) PROVE ListInv'
  <2>1. /\ ListOK(p) /\ mode[p] # "parallel" /\ stage[p] = "wait"
        /\ \A i \in Tasks : branch[p][i] # "running"
        /\ UNCHANGED <<mode, pending, branch>>
    BY <1>9 DEF ListInv, SerialNext, Settled
  <2>2. mode[p] \in {"serial", "retry"} /\ InOrder(p)
    BY <2>1 DEF ListOK, FleetTypeOK
  <2>3. CASE pending[p] = {} \/ \E i \in Tasks : branch[p][i] = "failed"
    <3>1. stage'[p] = "done"
      BY <1>9, <2>3 DEF SerialNext, FleetTypeOK
    <3> QED
      BY <1>9, <2>1, <2>2, <2>3, <3>1, OthersKeep
      DEF SerialNext, FleetTypeOK, ListOK, InOrder
  <2>4. CASE ~(pending[p] = {} \/ \E i \in Tasks : branch[p][i] = "failed")
    <3>1. stage'[p] = "start"
      BY <1>9, <2>4 DEF SerialNext, FleetTypeOK
    <3>2. \A i \in Tasks : branch[p][i] \notin Stopping
      BY <2>1, <2>4 DEF Stopping
    <3> QED
      BY <1>9, <2>1, <2>2, <3>1, <3>2, OthersKeep
      DEF SerialNext, FleetTypeOK, ListOK, InOrder
  <2> QED
    BY <2>3, <2>4
<1>10. ASSUME NEW p \in Runners, Dies(p) PROVE ListInv'
  <2>1. /\ stage'[p] = "dead" /\ pending'[p] = {} /\ UNCHANGED <<mode, branch>>
        /\ stage[p] # "idle"
    BY <1>10 DEF Dies, FleetTypeOK
  <2>2. ListOK(p)'
    BY <2>1 DEF ListInv, ListOK
  <2> QED
    BY <1>10, <2>2, OthersKeep DEF Dies, FleetTypeOK
<1>11. CASE UNCHANGED fleetVars
  BY <1>11 DEF ListInv, ListOK, InOrder, fleetVars, runnerVars
<1> QED
  BY <1>1, <1>2, <1>4, <1>5, <1>7, <1>8, <1>9, <1>10, <1>11
  DEF FleetNext, RunnerStep

LEMMA ListInit == FleetInit => ListInv
BY DEF FleetInit, ListInv, ListOK

\* A list that ends without a result for some task has the one failure that
\* stopped it before that task.
THEOREM HolesExplained == FleetSpec => []HolesFollowAFailure
<1>1. FleetTypeOK /\ ListInv => HolesFollowAFailure
  <2> SUFFICES ASSUME FleetTypeOK, ListInv, NEW p \in Runners, stage[p] = "done"
               PROVE  /\ \A i \in Tasks : branch[p][i] \in {"ok", "failed", "absent"}
                      /\ \A i, j \in Tasks :
                           /\ branch[p][i] = "absent" =>
                                \E k \in Tasks : k < i /\ branch[p][k] = "failed"
                           /\ (branch[p][i] = "failed" /\ branch[p][j] = "failed") => i = j
    BY DEF HolesFollowAFailure
  <2>1. ListOK(p) /\ mode[p] \in {"parallel", "serial", "retry"}
    BY DEF ListInv, ListOK, FleetTypeOK
  <2>2. CASE mode[p] = "parallel"
    BY <2>1, <2>2 DEF ListOK
  <2>3. CASE mode[p] \in {"serial", "retry"}
    BY <2>1, <2>3 DEF ListOK, InOrder, Stopping, FleetTypeOK
  <2> QED
    BY <2>1, <2>2, <2>3
<1> QED
  BY <1>1, ListInit, ListStep, FleetTypeInit, FleetTypeStep, PTL DEF FleetSpec

\* An agent that has delivered is never run again.
THEOREM KeepsSuccesses == FleetSpec => SuccessesKept
<1>1. ASSUME FleetTypeOK, ListInv, [FleetNext]_fleetVars,
             NEW p \in Runners, NEW i \in Tasks, branch[p][i] = "ok"
      PROVE  branch'[p][i] = "ok"
  <2>1. i \notin pending[p] /\ i \notin FailedIndexes(p)
    BY <1>1 DEF ListInv, ListOK, FailedIndexes
  <2>2. ASSUME NEW q \in Runners, NEW j \in Tasks, Start(q, j)
        PROVE  branch'[p][i] = "ok"
    BY <1>1, <2>1, <2>2 DEF Start, NextTask, FleetTypeOK
  <2>3. ASSUME NEW q \in Runners, NEW j \in Tasks, EndsFree(q, j)
        PROVE  branch'[p][i] = "ok"
    BY <1>1, <2>3 DEF EndsFree, FleetTypeOK
  <2>4. ASSUME NEW q \in Runners, NEW j \in Tasks, NEW c \in Costs, EndsCosting(q, j, c)
        PROVE  branch'[p][i] = "ok"
    BY <1>1, <2>4 DEF EndsCosting, FleetTypeOK
  <2>5. ASSUME NEW q \in Runners, CollapseToSerial(q) PROVE branch'[p][i] = "ok"
    BY <1>1, <2>1, <2>5 DEF CollapseToSerial, FleetTypeOK
  <2>6. ASSUME UNCHANGED branch PROVE branch'[p][i] = "ok"
    BY <1>1, <2>6
  <2> QED
    BY <1>1, <2>2, <2>3, <2>4, <2>5, <2>6
    DEF FleetNext, RunnerStep, Call, Truncate, Fill, Emit, SerialNext, Dies,
        fleetVars, runnerVars
<1>2. FleetTypeOK /\ ListInv /\ [FleetNext]_fleetVars =>
        [\A p \in Runners, i \in Tasks :
           branch[p][i] = "ok" => branch'[p][i] = "ok"]_fleetVars
  BY <1>1
<1> QED
  BY <1>2, ListInit, ListStep, FleetTypeInit, FleetTypeStep, PTL
  DEF FleetSpec, SuccessesKept

-----------------------------------------------------------------------------
(***************************************************************************)
(* What the cost that is being recorded has to do with the file.  Until    *)
(* something has disturbed it, a process that is about to truncate the     *)
(* file has yet to add what it owes to what is there.                      *)
(***************************************************************************)
DueKnown ==
  \A p \in Runners :
    /\ due[p] # 0 => stage[p] \in {"truncate", "fill", "emit"}
    /\ ~disturbed /\ stage[p] = "truncate" =>
         Known.spent + due[p] = owed /\ Known.limit = givenLimit

LEMMA DueStep ==
  FleetTypeOK /\ OneWriter /\ DueKnown /\ [FleetNext]_fleetVars => DueKnown'
<1> SUFFICES ASSUME FleetTypeOK, OneWriter, DueKnown, [FleetNext]_fleetVars
             PROVE  DueKnown'
  OBVIOUS
<1>1. ASSUME NEW p \in Runners, NEW l \in {"start", "wait", "done", "threw", "dead"},
             stage' = [stage EXCEPT ![p] = l], due' \in {due, [due EXCEPT ![p] = 0]},
             due'[p] = 0, UNCHANGED <<budget, owed, givenLimit>>, disturbed => disturbed'
      PROVE  DueKnown'
  <2>1. Known' = Known
    BY <1>1 DEF Known
  <2>2. \A q \in Runners \ {p} : stage'[q] = stage[q] /\ due'[q] = due[q]
    BY <1>1 DEF FleetTypeOK
  <2>3. stage'[p] = l
    BY <1>1 DEF FleetTypeOK
  <2> QED
    BY <1>1, <2>1, <2>2, <2>3 DEF DueKnown
<1>2. \A p \in Runners : stage[p] \notin {"truncate", "fill", "emit"} => due[p] = 0
  BY DEF DueKnown
<1>3. ASSUME NEW p \in Runners, NEW i \in Tasks, NEW c \in Costs, EndsCosting(p, i, c)
      PROVE  DueKnown'
  <2>1. /\ Known' = Known /\ owed' = owed + c /\ givenLimit' = givenLimit
        /\ disturbed' = (disturbed \/ Overlaps(p))
        /\ stage'[p] = "truncate" /\ due'[p] = c
        /\ \A q \in Runners \ {p} : stage'[q] = stage[q] /\ due'[q] = due[q]
    BY <1>3 DEF EndsCosting, Known, FleetTypeOK
  <2>2. ASSUME ~disturbed' PROVE \A q \in Runners : ~MidWrite(q)
    BY <1>3, <2>1, <2>2 DEF Overlaps, MidWrite, EndsCosting
  <2>3. ASSUME ~disturbed' PROVE Known'.spent + due'[p] = owed' /\ Known'.limit = givenLimit'
    BY <2>1, <2>2, <2>3 DEF OneWriter, Right
  <2> QED
    BY <2>1, <2>2, <2>3 DEF DueKnown, MidWrite
<1>4. ASSUME NEW p \in Runners, Truncate(p) PROVE DueKnown'
  <2>1. /\ stage[p] = "truncate" /\ stage'[p] = "fill" /\ disturbed' = disturbed
        /\ \A q \in Runners \ {p} : stage'[q] = stage[q]
        /\ due' = due
    BY <1>4 DEF Truncate, FleetTypeOK
  <2>2. ~disturbed => \A q \in Runners : stage'[q] # "truncate"
    BY <2>1 DEF OneWriter, MidWrite
  <2> QED
    BY <2>1, <2>2 DEF DueKnown
<1>5. ASSUME NEW p \in Runners, Fill(p) PROVE DueKnown'
  <2>1. /\ stage[p] = "fill" /\ stage'[p] = "emit" /\ disturbed' = disturbed
        /\ \A q \in Runners \ {p} : stage'[q] = stage[q]
        /\ due' = due
    BY <1>5 DEF Fill, FleetTypeOK
  <2>2. ~disturbed => \A q \in Runners : stage'[q] # "truncate"
    BY <2>1 DEF OneWriter, MidWrite
  <2> QED
    BY <2>1, <2>2 DEF DueKnown
<1>6. ASSUME NEW p \in Runners, Emit(p) PROVE DueKnown'
  BY <1>1, <1>6 DEF Emit, FleetTypeOK
<1>7. ASSUME NEW p \in Runners, NEW how \in {"serial", "parallel"}, Call(p, how)
      PROVE  DueKnown'
  BY <1>1, <1>2, <1>7 DEF Call, FleetTypeOK
<1>8. ASSUME NEW p \in Runners, NEW i \in Tasks, Start(p, i) PROVE DueKnown'
  <2>1. \E l \in {"start", "wait", "threw"} : stage' = [stage EXCEPT ![p] = l]
    BY <1>8 DEF Start
  <2>2. disturbed => disturbed'
    BY <1>8 DEF Start
  <2> QED
    BY <1>1, <1>2, <1>8, <2>1, <2>2 DEF Start
<1>9. ASSUME NEW p \in Runners, NEW i \in Tasks, EndsFree(p, i) PROVE DueKnown'
  BY <1>9 DEF EndsFree, DueKnown, Known
<1>10. ASSUME NEW p \in Runners, CollapseToSerial(p) \/ SerialNext(p) PROVE DueKnown'
  <2>1. \E l \in {"start", "done"} : stage' = [stage EXCEPT ![p] = l]
    BY <1>10 DEF CollapseToSerial, SerialNext
  <2>2. stage[p] = "wait" /\ UNCHANGED <<budget, due, owed, givenLimit, disturbed>>
    BY <1>10 DEF CollapseToSerial, SerialNext, Settled
  <2> QED
    BY <1>1, <1>2, <2>1, <2>2
<1>11. ASSUME NEW p \in Runners, Dies(p) PROVE DueKnown'
  <2>1. disturbed => disturbed'
    BY <1>11 DEF Dies
  <2> QED
    BY <1>1, <1>11, <2>1 DEF Dies, FleetTypeOK
<1>12. CASE UNCHANGED fleetVars
  BY <1>12 DEF DueKnown, Known, fleetVars, runnerVars
<1> QED
  BY <1>3, <1>4, <1>5, <1>6, <1>7, <1>8, <1>9, <1>10, <1>11, <1>12
  DEF FleetNext, RunnerStep

LEMMA DueInit == FleetInit => DueKnown
BY DEF FleetInit, DueKnown

-----------------------------------------------------------------------------
(***************************************************************************)
(* The traces.  What they hold and what is yet to be recorded in them is   *)
(* together never more than what the agents have cost.                     *)
(***************************************************************************)
Accounted == [p \in Runners |-> traced[p] + due[p]]
TracedWithinOwed == SumFunctionOnSet(Accounted, Runners) <= owed

LEMMA TracedStep ==
  FleetTypeOK /\ DueKnown /\ TracedWithinOwed /\ [FleetNext]_fleetVars => TracedWithinOwed'
<1> SUFFICES ASSUME FleetTypeOK, DueKnown, TracedWithinOwed, [FleetNext]_fleetVars
             PROVE  TracedWithinOwed'
  OBVIOUS
<1>0. \A p \in Runners : Accounted[p] \in Nat /\ due[p] \in Nat /\ traced[p] \in Nat
  BY DEF Accounted, FleetTypeOK
<1>1. SumFunctionOnSet(Accounted, Runners) \in Nat /\ owed \in Nat
  BY <1>0, SumType DEF FleetTypeOK
<1>2. ASSUME NEW p \in Runners, NEW i \in Tasks, NEW c \in Costs, EndsCosting(p, i, c)
      PROVE  TracedWithinOwed'
  <2>1. c \in Nat /\ due[p] = 0 /\ owed' = owed + c /\ traced' = traced
    BY <1>2 DEF EndsCosting, DueKnown
  <2>2. /\ \A q \in Runners : Accounted'[q] \in Nat
        /\ \A q \in Runners \ {p} : Accounted'[q] = Accounted[q]
        /\ Accounted'[p] = Accounted[p] + c
    BY <1>0, <1>2, <2>1 DEF EndsCosting, Accounted, FleetTypeOK
  <2>3. SumFunctionOnSet(Accounted', Runners) + Accounted[p]
          = SumFunctionOnSet(Accounted, Runners) + Accounted'[p]
    BY <1>0, <2>2, SumChange
  <2>4. SumFunctionOnSet(Accounted', Runners) \in Nat
    BY <2>2, SumType
  <2> QED
    BY <1>0, <1>1, <2>1, <2>2, <2>3, <2>4 DEF TracedWithinOwed
<1>3. ASSUME \A q \in Runners : Accounted'[q] \in Nat /\ Accounted'[q] <= Accounted[q],
             owed' = owed
      PROVE  TracedWithinOwed'
  <2>1. SumFunctionOnSet(Accounted', Runners) <= SumFunctionOnSet(Accounted, Runners)
    BY <1>0, <1>3, SumMonotone
  <2>2. SumFunctionOnSet(Accounted', Runners) \in Nat
    BY <1>3, SumType
  <2> QED
    BY <1>1, <1>3, <2>1, <2>2 DEF TracedWithinOwed
<1>4. ASSUME UNCHANGED <<traced, due, owed>> PROVE TracedWithinOwed'
  BY <1>0, <1>3, <1>4 DEF Accounted
<1>5. ASSUME NEW p \in Runners, Emit(p) PROVE TracedWithinOwed'
  BY <1>0, <1>3, <1>5 DEF Emit, Accounted, FleetTypeOK
<1>6. ASSUME NEW p \in Runners, Dies(p) PROVE TracedWithinOwed'
  BY <1>0, <1>3, <1>6 DEF Dies, Accounted, FleetTypeOK
<1> QED
  BY <1>2, <1>4, <1>5, <1>6
  DEF FleetNext, RunnerStep, Call, Start, EndsFree, Truncate, Fill, CollapseToSerial,
      SerialNext, fleetVars, runnerVars

LEMMA AllHolds ==
  FleetSpec => [](FleetTypeOK /\ OneWriter /\ DueKnown /\ TracedWithinOwed /\ ListInv)
<1>1. FleetInit => OneWriter
  BY DEF FleetInit, OneWriter, MidWrite, Right
<1>2. FleetInit => TracedWithinOwed
  <2> SUFFICES ASSUME FleetInit PROVE TracedWithinOwed
    OBVIOUS
  <2>1. \A p \in Runners : Accounted[p] = 0
    BY DEF FleetInit, Accounted
  <2> DEFINE zero == [p \in Runners |-> 0]
  <2>2. SumFunctionOnSet(Accounted, Runners) = 0
    BY <2>1, SumZero
  <2> QED
    BY <2>2, FleetTypeInit DEF TracedWithinOwed, FleetTypeOK
<1> QED
  BY <1>1, <1>2, FleetTypeInit, FleetTypeStep, WriterStep, DueInit, DueStep, TracedStep,
     ListInit, ListStep, PTL DEF FleetSpec

\* What `minus budget' prints for the last 30 days is never more than what it prints
\* as the total, unless processes recorded at once or one died recording.
THEOREM WindowAlways == FleetSpec => []WindowWithinTotal
<1>1. FleetTypeOK /\ OneWriter /\ DueKnown /\ TracedWithinOwed => WindowWithinTotal
  <2> SUFFICES ASSUME FleetTypeOK, OneWriter, DueKnown, TracedWithinOwed,
                      ~disturbed, \A p \in Runners : stage[p] # "fill"
               PROVE  Last30Days <= AllTime
    BY DEF WindowWithinTotal
  <2> DEFINE costs == [p \in Runners |-> traced[p]]
  <2>0. /\ \A p \in Runners : Accounted[p] \in Nat /\ due[p] \in Nat /\ costs[p] \in Nat
        /\ \A p \in Runners : costs[p] = traced[p] /\ Accounted[p] = traced[p] + due[p]
        /\ owed \in Nat /\ Known.spent \in Nat
    BY KnownType DEF Accounted, FleetTypeOK, Budgets
  <2>1. Last30Days = SumFunctionOnSet(costs, Runners)
    BY DEF Last30Days, SessionCost, SumFunction
  <2> HIDE DEF costs
  <2>2. /\ SumFunctionOnSet(costs, Runners) \in Nat
        /\ SumFunctionOnSet(Accounted, Runners) \in Nat
    BY <2>0, SumType
  <2>3. CASE \A p \in Runners : ~MidWrite(p)
    <3>1. Known.spent = owed
      BY <2>3 DEF OneWriter, Right
    <3>2. SumFunctionOnSet(costs, Runners) <= SumFunctionOnSet(Accounted, Runners)
      BY <2>0, SumMonotone
    <3> QED
      BY <2>0, <2>1, <2>2, <3>1, <3>2 DEF AllTime, TracedWithinOwed
  <2>4. ASSUME NEW p \in Runners, MidWrite(p) PROVE Last30Days <= AllTime
    <3>1. Known.spent + due[p] = owed
      BY <2>4 DEF DueKnown, MidWrite
    <3> DEFINE others == [q \in Runners |-> IF q = p THEN Accounted[q] ELSE costs[q]]
    <3>2. SumFunctionOnSet(others, Runners) + costs[p]
            = SumFunctionOnSet(costs, Runners) + others[p]
      BY <2>0, SumChange
    <3>3. SumFunctionOnSet(others, Runners) <= SumFunctionOnSet(Accounted, Runners)
      BY <2>0, SumMonotone
    <3>4. SumFunctionOnSet(others, Runners) \in Nat
      BY <2>0, SumType
    <3>5. others[p] = costs[p] + due[p]
      BY <2>0
    <3> HIDE DEF others
    <3> QED
      BY <2>0, <2>1, <2>2, <3>1, <3>2, <3>3, <3>4, <3>5 DEF AllTime, TracedWithinOwed
  <2> QED
    BY <2>3, <2>4
<1> QED
  BY <1>1, AllHolds, PTL

-----------------------------------------------------------------------------
(***************************************************************************)
(* The overshoot.  A process can still have as many more agents cost as    *)
(* its width leaves room for beside those that are running.  So what they  *)
(* all have room for bounds what can be spent beyond the limit: an agent   *)
(* that ends gives the room back that its cost takes, and none is started  *)
(* when the file has more than the limit.  An agent that is started while  *)
(* another's cost is on its way to the file has that one's room.           *)
(***************************************************************************)
RunningIn(p) == {i \in Tasks : branch[p][i] = "running"}
Room == [p \in Runners |-> Width(p) - Cardinality(RunningIn(p))]

RoomInv ==
  \A p \in Runners :
    /\ mode[p] = "serial" =>
         /\ \A i, j \in RunningIn(p) : i = j
         /\ stage[p] = "truncate" => RunningIn(p) = {}
    /\ mode[p] = "none" => RunningIn(p) = {}
    /\ stage[p] = "truncate" => \E i \in Tasks : branch[p][i] = "ok"
    /\ due[p] <= MaxCost

Capped ==
  ~disturbed /\ givenLimit # NoLimit =>
    owed <= givenLimit + MaxCost * SumFunctionOnSet(Room, Runners)

LEMMA TasksFinite == IsFiniteSet(Tasks) /\ Cardinality(Tasks) = NTasks
BY FS_Interval DEF Tasks

LEMMA RoomType ==
  ASSUME FleetTypeOK, ListInv, RoomInv, NEW p \in Runners
  PROVE  /\ Room[p] \in Nat /\ Room[p] <= Width(p)
         /\ Cardinality(RunningIn(p)) \in Nat /\ IsFiniteSet(RunningIn(p))
         /\ stage[p] = "truncate" => Room[p] >= 1
<1>1. /\ IsFiniteSet(RunningIn(p)) /\ Cardinality(RunningIn(p)) \in Nat
      /\ Cardinality(RunningIn(p)) <= NTasks
      /\ Cardinality(RunningIn(p)) = NTasks => RunningIn(p) = Tasks
  BY TasksFinite, FS_Subset, FS_CardinalityType DEF RunningIn
<1>2. Room[p] = Width(p) - Cardinality(RunningIn(p))
  BY DEF Room
<1>3. CASE mode[p] = "none"
  <2>1. Cardinality(RunningIn(p)) = 0 /\ Width(p) = 0 /\ stage[p] = "idle"
    BY <1>3, FS_EmptySet DEF RoomInv, Width, ListInv, ListOK
  <2> QED
    BY <1>1, <1>2, <2>1
<1>4. CASE mode[p] = "serial"
  <2>1. Width(p) = 1
    BY <1>4 DEF Width
  <2>2. CASE RunningIn(p) = {}
    BY <1>1, <1>2, <2>1, <2>2, FS_EmptySet
  <2>3. ASSUME NEW i \in RunningIn(p)
        PROVE  Cardinality(RunningIn(p)) = 1 /\ stage[p] # "truncate"
    <3>1. RunningIn(p) = {i}
      BY <1>4 DEF RoomInv
    <3> QED
      BY <1>4, <3>1, FS_Singleton DEF RoomInv
  <2> QED
    BY <1>1, <1>2, <2>1, <2>2, <2>3
<1>5. CASE mode[p] \in {"parallel", "retry"}
  <2>1. Width(p) = NTasks
    BY <1>5 DEF Width
  <2>2. ASSUME stage[p] = "truncate" PROVE RunningIn(p) # Tasks
    BY <2>2 DEF RoomInv, RunningIn
  <2> QED
    BY <1>1, <1>2, <2>1, <2>2
<1> QED
  BY <1>3, <1>4, <1>5 DEF FleetTypeOK

RoomsOK == \A p \in Runners : Room[p] \in Nat /\ Cardinality(RunningIn(p)) \in Nat

LEMMA RoomsType == FleetTypeOK /\ ListInv /\ RoomInv => RoomsOK
BY RoomType DEF RoomsOK

LEMMA RoomInvStep ==
  FleetTypeOK /\ ListInv /\ RoomInv /\ [FleetNext]_fleetVars => RoomInv'
<1> SUFFICES ASSUME FleetTypeOK, ListInv, RoomInv, [FleetNext]_fleetVars
             PROVE  RoomInv'
  OBVIOUS
<1> USE DEF RoomInv, RunningIn
<1>1. ASSUME NEW p \in Runners, NEW how \in {"serial", "parallel"}, Call(p, how)
      PROVE  RoomInv'
  <2>1. \A i \in Tasks : branch[p][i] # "running"
    BY <1>1 DEF Call, ListInv, ListOK
  <2> QED
    BY <1>1, <2>1 DEF Call, FleetTypeOK
<1>2. ASSUME NEW p \in Runners, NEW i \in Tasks, Start(p, i) PROVE RoomInv'
  <2>1. /\ stage[p] = "start" /\ stage'[p] \in {"start", "wait", "threw"}
        /\ mode' = mode /\ due' = due
        /\ \A j \in Tasks \ {i} : branch'[p][j] = branch[p][j]
        /\ \A q \in Runners \ {p} : branch'[q] = branch[q] /\ stage'[q] = stage[q]
    BY <1>2 DEF Start, FleetTypeOK
  <2>2. mode[p] # "none" /\ (mode[p] = "serial" => \A j \in Tasks : branch[p][j] # "running")
    BY <2>1 DEF ListInv, ListOK, InOrder, Stopping
  <2> QED
    BY <2>1, <2>2
<1>3. ASSUME NEW p \in Runners, NEW i \in Tasks, EndsFree(p, i) PROVE RoomInv'
  <2>1. /\ stage[p] = "wait" /\ UNCHANGED <<stage, mode, due>>
        /\ branch'[p][i] # "running"
        /\ \A j \in Tasks \ {i} : branch'[p][j] = branch[p][j]
        /\ \A q \in Runners \ {p} : branch'[q] = branch[q]
    BY <1>3 DEF EndsFree, FleetTypeOK
  <2> QED
    BY <2>1
<1>4. ASSUME NEW p \in Runners, NEW i \in Tasks, NEW c \in Costs, EndsCosting(p, i, c)
      PROVE  RoomInv'
  <2>1. /\ stage[p] = "wait" /\ branch[p][i] = "running" /\ mode' = mode
        /\ branch'[p][i] = "ok" /\ due'[p] = c /\ c <= MaxCost
        /\ \A j \in Tasks \ {i} : branch'[p][j] = branch[p][j]
        /\ \A q \in Runners \ {p} :
             branch'[q] = branch[q] /\ due'[q] = due[q] /\ stage'[q] = stage[q]
    BY <1>4 DEF EndsCosting, FleetTypeOK
  <2> QED
    BY <2>1
<1>5. ASSUME NEW p \in Runners, Truncate(p) \/ Fill(p) \/ Emit(p) PROVE RoomInv'
  <2>1. /\ branch' = branch /\ mode' = mode /\ stage'[p] # "truncate"
        /\ due'[p] \in {due[p], 0}
        /\ \A q \in Runners \ {p} : stage'[q] = stage[q] /\ due'[q] = due[q]
    BY <1>5 DEF Truncate, Fill, Emit, FleetTypeOK
  <2> QED
    BY <2>1
<1>6. ASSUME NEW p \in Runners, CollapseToSerial(p) PROVE RoomInv'
  <2>1. /\ mode[p] = "parallel" /\ mode'[p] \in {"parallel", "retry"}
        /\ stage'[p] \in {"done", "start"} /\ due' = due
        /\ \A q \in Runners \ {p} :
             branch'[q] = branch[q] /\ mode'[q] = mode[q] /\ stage'[q] = stage[q]
    <3>1. CASE FailedIndexes(p) = {}
      BY <1>6, <3>1 DEF CollapseToSerial, FleetTypeOK
    <3>2. CASE FailedIndexes(p) # {}
      BY <1>6, <3>2 DEF CollapseToSerial, FleetTypeOK
    <3> QED
      BY <3>1, <3>2
  <2> QED
    BY <2>1
<1>7. ASSUME NEW p \in Runners, SerialNext(p) PROVE RoomInv'
  BY <1>7 DEF SerialNext, FleetTypeOK
<1>8. ASSUME NEW p \in Runners, Dies(p) PROVE RoomInv'
  <2>1. /\ branch' = branch /\ mode' = mode /\ stage'[p] = "dead" /\ due'[p] = 0
        /\ \A q \in Runners \ {p} : stage'[q] = stage[q] /\ due'[q] = due[q]
    BY <1>8 DEF Dies, FleetTypeOK
  <2> QED
    BY <2>1
<1>9. CASE UNCHANGED fleetVars
  BY <1>9 DEF fleetVars, runnerVars
<1> QED
  BY <1>1, <1>2, <1>3, <1>4, <1>5, <1>6, <1>7, <1>8, <1>9 DEF FleetNext, RunnerStep

LEMMA RoomInvInit == FleetInit => RoomInv
BY DEF FleetInit, RoomInv, RunningIn

LEMMA TimesSum ==
  ASSUME NEW k \in Nat, NEW m \in Nat, NEW n \in Nat
  PROVE  /\ k * n \in Nat /\ k * (n + 1) = k * n + k
         /\ m <= n => k * m <= k * n
         /\ 1 <= n => k <= k * n
<1>1. k * n \in Nat /\ k * (n + 1) = k * n + k
  OBVIOUS
<1>2. ASSUME m <= n PROVE k * m <= k * n
  <2>1. n - m \in Nat /\ k * (n - m) \in Nat
    BY <1>2
  <2>2. k * n = k * m + k * (n - m)
    OBVIOUS
  <2>3. k * m \in Nat /\ k * n \in Nat
    OBVIOUS
  <2> QED
    BY <2>1, <2>2, <2>3
<1>3. ASSUME 1 <= n PROVE k <= k * n
  <2>1. n - 1 \in Nat /\ k * (n - 1) \in Nat
    BY <1>3
  <2>2. k * n = k + k * (n - 1)
    OBVIOUS
  <2> QED
    BY <2>1, <2>2, <1>1
<1> QED
  BY <1>1, <1>2, <1>3

\* A step that costs nothing and leaves everybody as much room.
LEMMA RoomKept ==
  ASSUME FleetTypeOK, ListInv, RoomInv, FleetTypeOK', ListInv', RoomInv', Capped,
         UNCHANGED <<owed, givenLimit>>, disturbed => disturbed',
         \A p \in Runners : Width(p)' >= Width(p),
         \A p \in Runners :
           RunningIn(p)' \subseteq RunningIn(p)
  PROVE  Capped'
<1>0. RoomsOK'
  BY RoomsType, PTL
<1>1. ASSUME NEW p \in Runners
      PROVE  Room[p] \in Nat /\ Room'[p] \in Nat /\ Room[p] <= Room'[p]
  <2>1. /\ Room[p] = Width(p) - Cardinality(RunningIn(p))
        /\ Room'[p] = Width(p)' - Cardinality(RunningIn(p)')
    BY DEF Room
  <2>2. Room[p] \in Nat /\ Cardinality(RunningIn(p)) \in Nat /\ IsFiniteSet(RunningIn(p))
    BY RoomType
  <2>3. Room'[p] \in Nat /\ Cardinality(RunningIn(p)') \in Nat
    BY <1>0 DEF RoomsOK
  <2>4. Cardinality(RunningIn(p)') <= Cardinality(RunningIn(p))
    BY <2>2, FS_Subset
  <2>5. Width(p) \in Nat /\ Width(p)' \in Nat
    BY DEF Width
  <2> QED
    BY <2>1, <2>2, <2>3, <2>4, <2>5
<1>2. SumFunctionOnSet(Room, Runners) <= SumFunctionOnSet(Room', Runners)
  BY <1>1, SumMonotone
<1>3. SumFunctionOnSet(Room, Runners) \in Nat /\ SumFunctionOnSet(Room', Runners) \in Nat
  BY <1>1, SumType
<1>4. /\ MaxCost * SumFunctionOnSet(Room, Runners) \in Nat
      /\ MaxCost * SumFunctionOnSet(Room', Runners) \in Nat
      /\ MaxCost * SumFunctionOnSet(Room, Runners) <= MaxCost * SumFunctionOnSet(Room', Runners)
  BY <1>2, <1>3, TimesSum
<1>5. owed \in Nat /\ (givenLimit # NoLimit => givenLimit \in Nat)
  BY DEF FleetTypeOK
<1> QED
  BY <1>4, <1>5 DEF Capped

LEMMA CappedStep ==
  /\ FleetTypeOK /\ OneWriter /\ DueKnown /\ ListInv /\ RoomInv /\ Capped
  /\ [FleetNext]_fleetVars
  => Capped'
<1> SUFFICES ASSUME FleetTypeOK, OneWriter, DueKnown, ListInv, RoomInv, Capped,
                    [FleetNext]_fleetVars
             PROVE  Capped'
  OBVIOUS
<1>0. FleetTypeOK' /\ ListInv' /\ RoomInv'
  BY FleetTypeStep, ListStep, RoomInvStep
<1>1. \A p \in Runners : Room[p] \in Nat /\ Room'[p] \in Nat
  <2>1. \A p \in Runners : Room[p] \in Nat
    BY RoomType
  <2>2. RoomsOK'
    BY <1>0, RoomsType, PTL
  <2> QED
    BY <2>1, <2>2 DEF RoomsOK
<1>2. SumFunctionOnSet(Room, Runners) \in Nat /\ SumFunctionOnSet(Room', Runners) \in Nat
  BY <1>1, SumType
<1>3. owed \in Nat /\ (givenLimit # NoLimit => givenLimit \in Nat)
  BY DEF FleetTypeOK
<1>4. ASSUME NEW p \in Runners, NEW i \in Tasks, NEW c \in Costs, EndsCosting(p, i, c)
      PROVE  Capped'
  <2>1. /\ owed' = owed + c /\ c \in 0..MaxCost /\ mode' = mode /\ givenLimit' = givenLimit
        /\ i \in RunningIn(p) /\ (disturbed => disturbed')
    BY <1>4 DEF EndsCosting, RunningIn
  <2>2. RunningIn(p)' = RunningIn(p) \ {i}
    BY <1>4 DEF EndsCosting, RunningIn, FleetTypeOK
  <2>3. Cardinality(RunningIn(p)') = Cardinality(RunningIn(p)) - 1
    BY <2>1, <2>2, RoomType, FS_RemoveElement
  <2>4. Room'[p] = Room[p] + 1
    <3>1. Width(p)' = Width(p) /\ Width(p) \in Nat /\ Cardinality(RunningIn(p)) \in Nat
      BY <2>1, RoomType DEF Width
    <3> QED
      BY <2>3, <3>1 DEF Room
  <2>5. ASSUME NEW q \in Runners, q # p PROVE Room'[q] = Room[q]
    <3>1. branch'[q] = branch[q]
      BY <1>4, <2>5 DEF EndsCosting, FleetTypeOK
    <3> QED
      BY <2>1, <3>1 DEF Room, RunningIn, Width
  <2>6. SumFunctionOnSet(Room', Runners) + Room[p]
          = SumFunctionOnSet(Room, Runners) + Room'[p]
    BY <1>1, <2>5, SumChange
  <2>7. SumFunctionOnSet(Room', Runners) = SumFunctionOnSet(Room, Runners) + 1
    BY <1>1, <1>2, <2>4, <2>6
  <2>8. /\ MaxCost * SumFunctionOnSet(Room, Runners) \in Nat
        /\ MaxCost * SumFunctionOnSet(Room', Runners)
             = MaxCost * SumFunctionOnSet(Room, Runners) + MaxCost
    BY <1>2, <2>7, TimesSum
  <2> QED
    BY <1>3, <2>1, <2>8 DEF Capped
<1>5. ASSUME NEW p \in Runners, NEW i \in Tasks, Start(p, i) PROVE Capped'
  <2>1. /\ UNCHANGED <<owed, givenLimit, mode>> /\ (disturbed => disturbed')
        /\ ~disturbed' => \A q \in Runners : stage[q] # "fill"
        /\ \A q \in Runners \ {p} : branch'[q] = branch[q]
        /\ stage[p] = "start"
    BY <1>5 DEF Start, FleetTypeOK
  <2>2. CASE Stops
    <3>1. \A q \in Runners : RunningIn(q)' \subseteq RunningIn(q)
      BY <1>5, <2>1, <2>2 DEF Start, RunningIn, FleetTypeOK
    <3>2. \A q \in Runners : Width(q)' >= Width(q)
      BY <2>1 DEF Width
    <3> QED
      BY <1>0, <2>1, <3>1, <3>2, RoomKept
  <2>3. CASE ~Stops
    <3> SUFFICES ASSUME ~disturbed', givenLimit # NoLimit
                 PROVE  owed <= givenLimit + MaxCost * SumFunctionOnSet(Room', Runners)
      BY <2>1 DEF Capped
    <3>1. Known.spent \in Nat
      BY KnownType DEF Budgets
    <3>2. MaxCost * SumFunctionOnSet(Room', Runners) \in Nat
      BY <1>2, TimesSum
    <3>3. CASE \A q \in Runners : ~MidWrite(q)
      <4>1. Known.spent = owed /\ Known.limit = givenLimit
        BY <2>1, <3>3 DEF OneWriter, Right
      <4>2. owed <= givenLimit
        BY <1>3, <2>3, <4>1 DEF Stops
      <4> QED
        BY <1>3, <3>2, <4>2
    <3>4. ASSUME NEW q \in Runners, MidWrite(q)
          PROVE  owed <= givenLimit + MaxCost * SumFunctionOnSet(Room', Runners)
      <4>1. stage[q] = "truncate" /\ q # p
        BY <2>1, <3>4 DEF MidWrite
      <4>2. Known.spent + due[q] = owed /\ Known.limit = givenLimit /\ due[q] \in 0..MaxCost
        BY <2>1, <4>1 DEF DueKnown, RoomInv, FleetTypeOK
      <4>3. owed <= givenLimit + MaxCost
        BY <1>3, <2>3, <3>1, <4>2 DEF Stops
      <4>4. Room'[q] = Room[q] /\ Room[q] >= 1
        BY <2>1, <4>1, RoomType DEF Room, RunningIn, Width
      <4>5. /\ SumFunctionOnSet(Room', Runners)
                 = Room'[q] + SumFunctionOnSet(Room', Runners \ {q})
            /\ SumFunctionOnSet(Room', Runners \ {q}) \in Nat
        <5>1. IsFiniteSet(Runners \ {q})
          BY FS_Subset
        <5>2. SumFunctionOnSet(Room', Runners \ {q}) \in Nat
          BY <1>1, <5>1, SumType
        <5> QED
          BY <1>1, <5>2, SumRemove
      <4>6. 1 <= SumFunctionOnSet(Room', Runners)
        BY <1>1, <4>4, <4>5
      <4>7. MaxCost <= MaxCost * SumFunctionOnSet(Room', Runners)
        BY <1>2, <4>6, TimesSum
      <4> QED
        BY <1>3, <3>2, <4>3, <4>7
    <3> QED
      BY <3>3, <3>4
  <2> QED
    BY <2>2, <2>3
<1>6. ASSUME NEW p \in Runners, NEW how \in {"serial", "parallel"}, Call(p, how)
      PROVE  Capped'
  <2>1. \A q \in Runners : Width(q)' >= Width(q)
    BY <1>6 DEF Call, ListInv, ListOK, Width, FleetTypeOK
  <2> QED
    BY <1>0, <1>6, <2>1, RoomKept DEF Call, RunningIn
<1>7. ASSUME NEW p \in Runners, NEW i \in Tasks, EndsFree(p, i) PROVE Capped'
  <2>1. \A q \in Runners : RunningIn(q)' \subseteq RunningIn(q)
    BY <1>7 DEF EndsFree, RunningIn, FleetTypeOK
  <2>2. \A q \in Runners : Width(q)' >= Width(q)
    BY <1>7 DEF EndsFree, Width
  <2> QED
    BY <1>0, <1>7, <2>1, <2>2, RoomKept DEF EndsFree
<1>8. ASSUME NEW p \in Runners,
             Truncate(p) \/ Fill(p) \/ Emit(p) \/ SerialNext(p) \/ Dies(p)
      PROVE  Capped'
  <2>1. UNCHANGED <<owed, givenLimit, mode, branch>> /\ (disturbed => disturbed')
    <3>1. CASE Truncate(p) \/ Fill(p) \/ Emit(p)
      BY <3>1 DEF Truncate, Fill, Emit
    <3>2. CASE SerialNext(p)
      BY <3>2 DEF SerialNext
    <3>3. CASE Dies(p)
      <4>1. disturbed => disturbed'
        BY <3>3 DEF Dies
      <4> QED
        BY <3>3, <4>1 DEF Dies
    <3> QED
      BY <1>8, <3>1, <3>2, <3>3
  <2>2. \A q \in Runners : Width(q)' >= Width(q)
    BY <2>1 DEF Width
  <2> QED
    BY <1>0, <2>1, <2>2, RoomKept DEF RunningIn
<1>9. ASSUME NEW p \in Runners, CollapseToSerial(p) PROVE Capped'
  <2>1. /\ mode[p] = "parallel" /\ mode'[p] \in {"parallel", "retry"}
        /\ \A i \in Tasks : branch'[p][i] \in {branch[p][i], "absent"}
        /\ \A q \in Runners \ {p} : branch'[q] = branch[q] /\ mode'[q] = mode[q]
        /\ UNCHANGED <<owed, givenLimit, disturbed>>
    <3>1. CASE FailedIndexes(p) = {}
      BY <1>9, <3>1 DEF CollapseToSerial, FleetTypeOK
    <3>2. CASE FailedIndexes(p) # {}
      BY <1>9, <3>2 DEF CollapseToSerial, FleetTypeOK
    <3> QED
      BY <3>1, <3>2
  <2>2. ASSUME NEW q \in Runners PROVE Width(q)' >= Width(q)
    <3>1. CASE q = p
      <4>1. mode[q] = "parallel" /\ mode'[q] \in {"parallel", "retry"}
        BY <2>1, <3>1
      <4>2. Width(q) = NTasks /\ Width(q)' = NTasks
        BY <4>1 DEF Width
      <4> QED
        BY <4>2
    <3>2. CASE q # p
      <4>1. Width(q)' = Width(q) /\ Width(q) \in Nat
        BY <2>1, <3>2 DEF Width
      <4> QED
        BY <4>1
    <3> QED
      BY <3>1, <3>2
  <2>3. \A q \in Runners : RunningIn(q)' \subseteq RunningIn(q)
    BY <2>1 DEF RunningIn
  <2> QED
    BY <1>0, <2>1, <2>2, <2>3, RoomKept
<1>10. CASE UNCHANGED fleetVars
  <2>1. UNCHANGED <<owed, givenLimit, mode, branch, disturbed>>
    BY <1>10 DEF fleetVars, runnerVars
  <2>2. \A q \in Runners : Width(q)' >= Width(q)
    BY <2>1 DEF Width
  <2> QED
    BY <1>0, <2>1, <2>2, RoomKept DEF RunningIn
<1> QED
  BY <1>4, <1>5, <1>6, <1>7, <1>8, <1>9, <1>10 DEF FleetNext, RunnerStep

LEMMA CappedInit == FleetInit => Capped
<1> SUFFICES ASSUME FleetInit, givenLimit # NoLimit
             PROVE  owed <= givenLimit + MaxCost * SumFunctionOnSet(Room, Runners)
  BY DEF Capped
<1>1. FleetTypeOK /\ ListInv /\ RoomInv
  BY FleetTypeInit, ListInit, RoomInvInit
<1>2. MaxCost * SumFunctionOnSet(Room, Runners) \in Nat
  <2>1. \A p \in Runners : Room[p] \in Nat
    BY <1>1, RoomType
  <2> QED
    BY <2>1, SumType, TimesSum
<1>3. givenLimit = LimitSet /\ owed \in 0..LimitSet
  BY DEF FleetInit, Known, NoBudget
<1> QED
  BY <1>2, <1>3

\* However many processes and agents there are, and whatever they cost, what is spent
\* beyond the limit is at most what those can cost that may run at one time.
THEOREM OvershootAlways == FleetSpec => []OvershootBounded
<1>1. FleetTypeOK /\ ListInv /\ RoomInv /\ Capped => OvershootBounded
  <2> SUFFICES ASSUME FleetTypeOK, ListInv, RoomInv, Capped, ~disturbed, givenLimit # NoLimit
               PROVE  owed <= givenLimit
                                + MaxCost * SumFunction([p \in Runners |-> Width(p)])
    BY DEF OvershootBounded
  <2> DEFINE widths == [p \in Runners |-> Width(p)]
  <2>1. SumFunction(widths) = SumFunctionOnSet(widths, Runners)
    BY DEF SumFunction
  <2>2. \A p \in Runners : Room[p] \in Nat /\ widths[p] \in Nat /\ Room[p] <= widths[p]
    BY RoomType DEF Width
  <2> HIDE DEF widths
  <2>3. SumFunctionOnSet(Room, Runners) <= SumFunctionOnSet(widths, Runners)
    BY <2>2, SumMonotone
  <2>4. SumFunctionOnSet(Room, Runners) \in Nat /\ SumFunctionOnSet(widths, Runners) \in Nat
    BY <2>2, SumType
  <2>5. /\ MaxCost * SumFunctionOnSet(Room, Runners) \in Nat
        /\ MaxCost * SumFunctionOnSet(widths, Runners) \in Nat
        /\ MaxCost * SumFunctionOnSet(Room, Runners)
             <= MaxCost * SumFunctionOnSet(widths, Runners)
    BY <2>3, <2>4, TimesSum
  <2>6. owed \in Nat /\ givenLimit \in Nat
    BY DEF FleetTypeOK
  <2> QED
    BY <2>1, <2>5, <2>6 DEF Capped, widths
<1> QED
  BY <1>1, AllHolds, RoomInvInit, RoomInvStep, CappedInit, CappedStep, PTL DEF FleetSpec
================================================================================
