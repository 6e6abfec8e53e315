------------------------------ MODULE MemoryPruner ------------------------------
(***************************************************************************)
(* utils/memory_pruner.js: processes that condense EVOLUTION.md while      *)
(* evolve agents go on adding lessons to it.  A file is the set of the     *)
(* lessons in it.                                                          *)
(***************************************************************************)
EXTENDS Naturals, FiniteSets

CONSTANTS
  Lessons,      \* what evolve agents may write down
  Pruners,      \* processes of `minus prune'
  PruneAt       \* MAX_BYTES: how many lessons are too many

ASSUME PruneAssumption == PruneAt \in Nat \ {0}

VARIABLES
  evolution,    \* EVOLUTION.md
  archive,      \* EVOLUTION_ARCHIVE.md
  pruning,      \* the next step of each pruner
  content,      \* what it has read
  summary,      \* what it will write
  learnt,       \* history: all lessons written down
  late          \* history: those that came while somebody was pruning

pruneVars == <<evolution, archive, pruning, content, summary, learnt, late>>

PruneInit ==
  /\ evolution = {} /\ archive = {}
  /\ pruning = [p \in Pruners |-> "idle"]
  /\ content = [p \in Pruners |-> {}]
  /\ summary = [p \in Pruners |-> {}]
  /\ learnt = {} /\ late = {}

PruneGoes(p, from, to) == pruning[p] = from /\ pruning' = [pruning EXCEPT ![p] = to]

\* An evolve agent appends a lesson.
Learn(l) ==
  /\ l \notin learnt
  /\ evolution' = evolution \cup {l}
  /\ learnt' = learnt \cup {l}
  /\ late' = IF \A p \in Pruners : pruning[p] = "idle" THEN late ELSE late \cup {l}
  /\ UNCHANGED <<archive, pruning, content, summary>>

\* A file under the threshold is left alone.
\* Slip: the file is not archived if that has been done before.
ReadUnlessArchived(p) ==
  /\ Cardinality(evolution) >= PruneAt
  /\ PruneGoes(p, "idle", IF archive = {} THEN "archive" ELSE "summarise")
  /\ content' = [content EXCEPT ![p] = evolution]
  /\ UNCHANGED <<evolution, archive, summary, learnt, late>>
ReadLog(p) ==
  /\ Cardinality(evolution) >= PruneAt
  /\ PruneGoes(p, "idle", "archive")
  /\ content' = [content EXCEPT ![p] = evolution]
  /\ UNCHANGED <<evolution, archive, summary, learnt, late>>

Archive(p) ==
  /\ PruneGoes(p, "archive", "summarise")
  /\ archive' = archive \cup content[p]
  /\ UNCHANGED <<evolution, content, summary, learnt, late>>

\* For up to a minute a model is asked; it, or fallbackSummary, may drop any.
Summarize(p) ==
  /\ PruneGoes(p, "summarise", "truncate")
  /\ \E s \in SUBSET content[p] : summary' = [summary EXCEPT ![p] = s]
  /\ UNCHANGED <<evolution, archive, content, learnt, late>>

TruncateLog(p) ==
  /\ PruneGoes(p, "truncate", "fill")
  /\ evolution' = {}
  /\ UNCHANGED <<archive, content, summary, learnt, late>>

\* What was written since is overwritten, or stands behind the summary.
FillLog(p) ==
  /\ PruneGoes(p, "fill", "idle")
  /\ evolution' \in {summary[p], summary[p] \cup evolution}
  /\ content' = [content EXCEPT ![p] = {}] /\ summary' = [summary EXCEPT ![p] = {}]
  /\ UNCHANGED <<archive, learnt, late>>

\* The process dies; `minus prune' may be called again.
PrunerDies(p) ==
  /\ pruning[p] # "idle" /\ pruning' = [pruning EXCEPT ![p] = "idle"]
  /\ content' = [content EXCEPT ![p] = {}] /\ summary' = [summary EXCEPT ![p] = {}]
  /\ UNCHANGED <<evolution, archive, learnt, late>>

PruneNext ==
  \/ \E l \in Lessons : Learn(l)
  \/ \E p \in Pruners :
       \/ ReadLog(p) \/ Archive(p) \/ Summarize(p) \/ TruncateLog(p) \/ FillLog(p)
       \/ PrunerDies(p)

PruneSpec == PruneInit /\ [][PruneNext]_pruneVars

-----------------------------------------------------------------------------
(* Every variable holds a value of its kind.                               *)
PruneTypeOK ==
  /\ {evolution, archive, learnt, late} \subseteq SUBSET Lessons
  /\ pruning \in [Pruners ->
       {"idle", "archive", "summarise", "truncate", "fill"}]
  /\ content \in [Pruners -> SUBSET Lessons]
  /\ summary \in [Pruners -> SUBSET Lessons]

(* "Archive verbatim copy - never lose history": a lesson that was written *)
(* down while nobody was pruning is in EVOLUTION.md or in the archive from *)
(* then on, whatever summaries leave out, several pruners overwrite of     *)
(* each other's and a death leaves half done.                              *)
NothingLost == learnt \subseteq evolution \cup archive \cup late
=============================================================================
