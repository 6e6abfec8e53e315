----------------------------- MODULE MemoryService -----------------------------
(***************************************************************************)
(* ocr_memory_rust/src/main.rs: the handlers of /memory/store and          *)
(* /memory/retrieve and of the retention run, with the tasks they spawn,   *)
(* as they interleave on the tables, the PNG files and the cache of one    *)
(* project.  One action is what a handler does between two awaits, or one  *)
(* call to the file system.                                                *)
(*                                                                         *)
(* Definitions marked "Slip" are not part of the specification: each is a  *)
(* neighbour of the definition after it with a likely mistake in it, kept  *)
(* to see that the properties notice.                                      *)
(***************************************************************************)
EXTENDS EpisodeTables

CONSTANTS
  Readers,          \* clients that retrieve
  Backend,          \* "disk" (MODE lite) or "redis"
  TtlDays,          \* TRUE: RETENTION_TTL_DAYS is set
  MaxEpisodes,      \* RETENTION_MAX_EPISODES, or 0 if it is not set
  Nearest,          \* LIMIT: how many episodes a vector search takes
  MaxRuns,          \* bound: retention runs
  MaxFaults         \* bound: calls that fail, and deaths of the service

ASSUME ServiceAssumption ==
  /\ NoStore \notin Stores
  /\ Backend \in {"disk", "redis"}
  /\ TtlDays \in BOOLEAN
  /\ {MaxEpisodes, Nearest, MaxRuns, MaxFaults} \subseteq Nat

VARIABLES
  pc,           \* the next step of each store
  target,       \* the episode it stores
  task,         \* its embedding task: "none" or "pending"
  png,          \* the store whose PNG each episode's file is, NoStore, or "torn"
  version,      \* Redis: the project's version key
  cache,        \* the answers cached, each under a version
  rpc,          \* the next step of each reader
  key,          \* the version in its cache key
  left,         \* the episodes found whose texts it has still to read
  answer,       \* for each episode, the change after which it was searched
  told,         \* the episodes whose texts are in the answer
  step,         \* the next step of the retention run
  victims,      \* victim_ids, less those dealt with
  victim,       \* the episode at hand, and whether it had image rows
  runs,         \* how many retention runs there were
  stored,       \* history: the last change of each episode that was answered 200
  change,       \* history: the change that each store made
  floor,        \* history: `stored' when a reader began
  missed,       \* history: a version was not read or not incremented
  mixed,        \* history: episodes on which two worked at once or one failed,
                \* until a store begins that has them to itself
  faults        \* how many faults there were

stores  == <<pc, target, task, png>>
caches  == <<version, cache>>
readers == <<rpc, key, left, answer, told>>
sweep   == <<step, victims, victim, runs>>
history == <<stored, change, floor, missed, mixed, faults>>
vars    == <<tables, stores, caches, readers, sweep, history>>

Answers == [Episodes -> Nat]

Entries == [version : Nat, answer : Answers, told : SUBSET Episodes]

\* What is cached under a version, and the cache once an answer is.
Under(v) == {c \in cache : c.version = v}

Cached(v, a, told_in) ==
  (cache \ Under(v)) \cup {[version |-> v, answer |-> a, told |-> told_in]}

Nothing == [e \in Episodes |-> 0]

Init ==
  /\ TablesInit
  /\ pc = [s \in Stores |-> "new"]
  /\ target \in [Stores -> Episodes]
  /\ task = [s \in Stores |-> "none"]
  /\ png = [e \in Episodes |-> NoStore]
  /\ version = 0
  /\ cache = {}
  /\ rpc = [r \in Readers |-> "idle"]
  /\ key = [r \in Readers |-> 0]
  /\ left = [r \in Readers |-> {}]
  /\ answer = [r \in Readers |-> Nothing]
  /\ told = [r \in Readers |-> {}]
  /\ step = "idle"
  /\ victims = {}
  /\ victim = <<>>
  /\ runs = 0
  /\ stored = Nothing
  /\ change = [s \in Stores |-> 0]
  /\ floor = [r \in Readers |-> Nothing]
  /\ missed = FALSE
  /\ mixed = {}
  /\ faults = 0

-----------------------------------------------------------------------------
\* Who is at work on an episode

Serving(s) == pc[s] \notin {"new", "over"}

StoresOf(e) == {s \in Stores : target[s] = e}

\* The other transactions on the episode that s stores.
Others(s) == StoresOf(target[s]) \ {s}

Busy(e) ==
  \/ \E s \in StoresOf(e) : Serving(s) \/ task[s] = "pending"
  \/ step \in {"delete", "remove"} /\ victim[1] = e

\* A call that may fail does.
Fault == faults < MaxFaults /\ faults' = faults + 1

Goto(s, l) == pc' = [pc EXCEPT ![s] = l]

-----------------------------------------------------------------------------
\* store_memory

InTransaction ==
  {"insert", "findImages", "deleteImages", "insertImage", "findTexts",
   "deleteTexts", "commit"}

\* Scrub, render, and write the file, whatever is there.  A store that has the
\* episode to itself starts it over.
StoreWritesPng(s) ==
  /\ pc[s] = "new"
  /\ mixed' = IF Busy(target[s]) THEN mixed \cup {target[s]} ELSE mixed \ {target[s]}
  /\ png' = [png EXCEPT ![target[s]] = s]
  /\ Goto(s, "insert")
  /\ UNCHANGED <<tables, target, task, caches, readers, sweep>>
  /\ UNCHANGED <<stored, change, floor, missed, faults>>

\* 500 "filesystem error", with the file as it was or in part.
StoreCannotWrite(s) ==
  /\ Fault
  /\ pc[s] = "new"
  /\ mixed' = mixed \cup {target[s]}
  /\ png' \in {png, [png EXCEPT ![target[s]] = "torn"]}
  /\ Goto(s, "over")
  /\ UNCHANGED <<tables, target, task, caches, readers, sweep>>
  /\ UNCHANGED <<stored, change, floor, missed>>

\* The statements of the transaction but the last.
Statement(s, at, to) ==
  /\ pc[s] = at
  /\ Goto(s, to)
  /\ UNCHANGED <<target, task, png, caches, readers, sweep, history>>

StoreInsertsEpisode(s) ==
  /\ Statement(s, "insert", "findImages")
  /\ InsertEpisode(s, target[s], Others(s))

StoreFindsImages(s) ==
  /\ Statement(s, "findImages", "deleteImages")
  /\ FindImages(s, target[s])

StoreDeletesImages(s) ==
  /\ Statement(s, "deleteImages", "insertImage")
  /\ DeleteImages(s, target[s], Others(s))

StoreInsertsImage(s) ==
  /\ Statement(s, "insertImage", "findTexts")
  /\ InsertImage(s, target[s])

StoreFindsTexts(s) ==
  /\ Statement(s, "findTexts", "deleteTexts")
  /\ FindTexts(s, target[s])

\* Slip: the old texts are left, as if the new ones replaced them.
StoreLeavesTexts(s) ==
  Statement(s, "deleteTexts", "commit") /\ UNCHANGED tables

StoreDeletesTexts(s) ==
  /\ Statement(s, "deleteTexts", "commit")
  /\ DeleteTexts(s, target[s], Others(s))

\* Commit, and spawn the embedding task.
StoreCommits(s) ==
  /\ pc[s] = "commit"
  /\ Commit(s, target[s])
  /\ task' = [task EXCEPT ![s] = "pending"]
  /\ change' = [change EXCEPT ![s] = changes[target[s]] + 1]
  /\ Goto(s, "invalidate")
  /\ UNCHANGED <<target, png, caches, readers, sweep>>
  /\ UNCHANGED <<stored, floor, missed, mixed, faults>>

\* Slip: the transaction stays open.
StoreHangs(s) ==
  /\ Fault /\ pc[s] \in InTransaction /\ Goto(s, "cleanup")
  /\ UNCHANGED <<tables, target, task, png, caches, readers, sweep>>
  /\ UNCHANGED <<stored, change, floor, missed, mixed>>

\* The retention run and this store wait for each other.
Crosses(s) ==
  /\ pc[s] = "insertImage"
  /\ step = "delete" /\ victim[1] = target[s]
  /\ MayCross(s, target[s])

\* A statement fails: the connection, the foreign key, or as a deadlock's victim.
StoreRollsBack(s) ==
  /\ \/ pc[s] \in InTransaction /\ Fault
     \/ pc[s] = "insertImage" /\ ~MayInsertImage(s, target[s]) /\ UNCHANGED faults
     \/ Crosses(s) /\ UNCHANGED faults
  /\ Rollback({s})
  /\ mixed' = mixed \cup {target[s]}
  /\ Goto(s, "cleanup")
  /\ UNCHANGED <<target, task, png, caches, readers, sweep>>
  /\ UNCHANGED <<stored, change, floor, missed>>

\* 500 "database error": remove the file, which an earlier store's rows name.
StoreRemovesPng(s) ==
  /\ pc[s] = "cleanup"
  /\ png' = [png EXCEPT ![target[s]] = NoStore]
  /\ Goto(s, "over")
  /\ UNCHANGED <<tables, target, task, caches, readers, sweep, history>>

\* On disk: remove the files of the project.  In Redis: a new version.
Invalidate ==
  IF Backend = "disk"
  THEN cache' = {} /\ UNCHANGED version
  ELSE version' = version + 1 /\ UNCHANGED cache

\* cache_invalidate, whose failure is ignored, and 200 OK.
StoreInvalidates(s) ==
  /\ pc[s] = "invalidate"
  /\ \/ Invalidate /\ UNCHANGED <<missed, faults>>
     \/ Fault /\ missed' = TRUE /\ UNCHANGED caches
  /\ stored' = [stored EXCEPT ![target[s]] =
                  IF @ < change[s] THEN change[s] ELSE @]
  /\ Goto(s, "over")
  /\ UNCHANGED <<tables, target, task, png, readers, sweep>>
  /\ UNCHANGED <<change, floor, mixed>>

TaskEnds(s) ==
  /\ task[s] = "pending"
  /\ task' = [task EXCEPT ![s] = "none"]
  /\ UNCHANGED <<pc, target, png, caches, readers, sweep>>
  /\ UNCHANGED <<stored, change, floor, missed>>

TaskEmbeds(s) ==
  TaskEnds(s) /\ SetVector(s, target[s]) /\ UNCHANGED <<mixed, faults>>

\* embed_text gives None, and the embedding stays what it was.
TaskFails(s) ==
  /\ Fault
  /\ TaskEnds(s)
  /\ mixed' = mixed \cup {target[s]}
  /\ UNCHANGED tables

-----------------------------------------------------------------------------
\* retrieve_memory

\* build_cache_key: 0 on disk, the version in Redis, or 0 if that call fails.
RetrieveBegins(r) ==
  /\ rpc[r] = "idle"
  /\ \/ key' = [key EXCEPT ![r] = version] /\ UNCHANGED <<missed, faults>>
     \/ /\ Backend = "redis" /\ Fault
        /\ key' = [key EXCEPT ![r] = 0]
        /\ missed' = TRUE
  /\ rpc' = [rpc EXCEPT ![r] = "get"]
  /\ floor' = [floor EXCEPT ![r] = stored]
  /\ UNCHANGED <<tables, stores, caches, left, answer, told, sweep>>
  /\ UNCHANGED <<stored, change, mixed>>

RetrieveHits(r) ==
  /\ rpc[r] = "get"
  /\ \E c \in Under(key[r]) :
       /\ answer' = [answer EXCEPT ![r] = c.answer]
       /\ told' = [told EXCEPT ![r] = c.told]
  /\ rpc' = [rpc EXCEPT ![r] = "answer"]
  /\ UNCHANGED <<tables, stores, caches, key, left, sweep, history>>

\* Nothing is cached, or that call fails.  Whether the query has an embedding,
\* which is for the backend, if there is one, to say, decides the search.
RetrieveMisses(r) ==
  /\ rpc[r] = "get"
  /\ \/ Under(key[r]) = {} /\ UNCHANGED faults
     \/ Fault
  /\ \E l \in {"search", "text"} : rpc' = [rpc EXCEPT ![r] = l]
  /\ UNCHANGED <<tables, stores, caches, key, left, answer, told, sweep>>
  /\ UNCHANGED <<stored, change, floor, missed, mixed>>

\* What SELECT id ... WHERE embedding IS NOT NULL ... LIMIT may find.
Embedded == {e \in episodes : vectors[e] # NoStore}

Findings ==
  IF Cardinality(Embedded) < Nearest
  THEN {Embedded}
  ELSE {f \in SUBSET Embedded : Cardinality(f) = Nearest}

\* vector_search: the ids in one statement, and then the texts of each.
RetrieveRanks(r) ==
  /\ rpc[r] = "search"
  /\ \E f \in Findings : left' = [left EXCEPT ![r] = f]
  /\ answer' = [answer EXCEPT ![r] = changes]
  /\ told' = [told EXCEPT ![r] = {}]
  /\ rpc' = [rpc EXCEPT ![r] = "look"]
  /\ UNCHANGED <<tables, stores, caches, key, sweep, history>>

RetrieveLooks(r, e) ==
  /\ rpc[r] = "look"
  /\ e \in left[r]
  /\ left' = [left EXCEPT ![r] = @ \ {e}]
  /\ answer' = [answer EXCEPT ![r][e] = changes[e]]
  /\ told' = [told EXCEPT ![r] = @ \cup ({e} \cap episodes)]
  /\ UNCHANGED <<tables, stores, caches, rpc, key, sweep, history>>

\* A statement of the vector search fails, or it has come to no text.
RetrieveFallsBack(r) ==
  /\ \/ rpc[r] = "look" /\ left[r] = {} /\ told[r] = {} /\ UNCHANGED faults
     \/ rpc[r] \in {"search", "look"} /\ Fault
  /\ rpc' = [rpc EXCEPT ![r] = "text"]
  /\ left' = [left EXCEPT ![r] = {}]
  /\ answer' = [answer EXCEPT ![r] = Nothing]
  /\ told' = [told EXCEPT ![r] = {}]
  /\ UNCHANGED <<tables, stores, caches, key, sweep>>
  /\ UNCHANGED <<stored, change, floor, missed, mixed>>

\* text_retrieve: one statement, whose failure is an empty answer.
RetrieveReads(r) ==
  /\ rpc[r] = "text"
  /\ answer' = [answer EXCEPT ![r] = changes]
  /\ \/ told' = [told EXCEPT ![r] = episodes] /\ UNCHANGED faults
     \/ told' = [told EXCEPT ![r] = {}] /\ Fault
  /\ rpc' = [rpc EXCEPT ![r] = "found"]
  /\ UNCHANGED <<tables, stores, caches, key, left, sweep>>
  /\ UNCHANGED <<stored, change, floor, missed, mixed>>

Searched(r) ==
  \/ rpc[r] = "found"
  \/ rpc[r] = "look" /\ left[r] = {} /\ told[r] # {}

\* Slip: the key is made when the answer is there.
RetrieveCachesLate(r) ==
  /\ Searched(r) /\ rpc' = [rpc EXCEPT ![r] = "answer"]
  /\ cache' = Cached(version, answer[r], told[r])
  /\ UNCHANGED <<tables, stores, version, key, left, answer, told, sweep, history>>

\* cache_set, under the key made at the beginning, whatever the answer is; a
\* failure is ignored.
RetrieveCaches(r) ==
  /\ Searched(r)
  /\ \/ cache' = Cached(key[r], answer[r], told[r]) /\ UNCHANGED faults
     \/ Fault /\ UNCHANGED cache
  /\ rpc' = [rpc EXCEPT ![r] = "answer"]
  /\ UNCHANGED <<tables, stores, version, key, left, answer, told, sweep>>
  /\ UNCHANGED <<stored, change, floor, missed, mixed>>

RetrieveEnds(r) ==
  /\ rpc[r] = "answer"
  /\ rpc' = [rpc EXCEPT ![r] = "idle"]
  /\ key' = [key EXCEPT ![r] = 0]
  /\ answer' = [answer EXCEPT ![r] = Nothing]
  /\ told' = [told EXCEPT ![r] = {}]
  /\ floor' = [floor EXCEPT ![r] = Nothing]
  /\ UNCHANGED <<tables, stores, caches, left, sweep>>
  /\ UNCHANGED <<stored, change, missed, mixed, faults>>

CacheExpires(c) ==
  /\ c \in cache
  /\ cache' = cache \ {c}
  /\ UNCHANGED <<tables, stores, version, readers, sweep, history>>

-----------------------------------------------------------------------------
\* retention_run

\* Older than the days, which may be any age.
Expired(age) == {e \in episodes : TtlDays /\ created[e] <= age}

Older(e) == {f \in episodes : created[f] < created[e]}

\* ORDER BY created_at ASC OFFSET max: those with max older ones.
Excess == {e \in episodes : MaxEpisodes > 0 /\ Cardinality(Older(e)) >= MaxEpisodes}

\* One of the two SELECTs may fail, and then has no victims.
RetentionSelects ==
  /\ step = "idle"
  /\ TtlDays \/ MaxEpisodes > 0
  /\ runs < MaxRuns
  /\ \E age \in 0 .. now :
       \/ victims' = Expired(age) \cup Excess /\ UNCHANGED faults
       \/ victims' \in {Expired(age), Excess} /\ Fault
  /\ runs' = runs + 1
  /\ step' = "next"
  /\ UNCHANGED <<tables, stores, caches, readers, victim>>
  /\ UNCHANGED <<stored, change, floor, missed, mixed>>

\* Read the image paths of the next victim, or fail to and go on with none.
RetentionPicks(e) ==
  /\ step = "next"
  /\ e \in victims
  /\ victims' = victims \ {e}
  /\ \/ /\ victim' = <<e, images[e] # {}>>
        /\ mixed' = IF Busy(e) THEN mixed \cup {e} ELSE mixed
        /\ UNCHANGED faults
     \/ victim' = <<e, FALSE>> /\ mixed' = mixed \cup {e} /\ Fault
  /\ step' = "delete"
  /\ UNCHANGED <<tables, stores, caches, readers, runs>>
  /\ UNCHANGED <<stored, change, floor, missed>>

RetentionDeletes ==
  /\ step = "delete"
  /\ DeleteEpisode(victim[1], StoresOf(victim[1]))
  /\ step' = "remove"
  /\ UNCHANGED <<stores, caches, readers, victims, victim, runs, history>>

\* The DELETE fails, and nothing is removed.
RetentionCannotDelete ==
  /\ step = "delete"
  /\ \/ Fault
     \/ (\E s \in Stores : Crosses(s)) /\ UNCHANGED faults
  /\ victim' = <<>>
  /\ step' = "next"
  /\ UNCHANGED <<tables, stores, caches, readers, victims, runs>>
  /\ UNCHANGED <<stored, change, floor, missed, mixed>>

\* Slip: the file is left.
RetentionLeavesPng ==
  /\ step = "remove" /\ step' = "next" /\ victim' = <<>>
  /\ UNCHANGED <<tables, stores, caches, readers, victims, runs, history>>

\* The files of the paths that were read before the row was deleted; a failure
\* is ignored.
RetentionRemovesPng ==
  /\ step = "remove"
  /\ \/ /\ png' = IF victim[2] THEN [png EXCEPT ![victim[1]] = NoStore] ELSE png
        /\ UNCHANGED <<mixed, faults>>
     \/ mixed' = mixed \cup {victim[1]} /\ Fault /\ UNCHANGED png
  /\ victim' = <<>>
  /\ step' = "next"
  /\ UNCHANGED <<tables, pc, target, task, caches, readers, victims, runs>>
  /\ UNCHANGED <<stored, change, floor, missed>>

RetentionEnds ==
  /\ step = "next"
  /\ victims = {}
  /\ step' = "idle"
  /\ UNCHANGED <<tables, stores, caches, readers, victims, victim, runs, history>>

-----------------------------------------------------------------------------
\* The service dies, with its requests and tasks; Redis and the disk stay.
Crash ==
  /\ Fault
  /\ Rollback(Stores)
  /\ mixed' = mixed \cup {e \in Episodes : Busy(e)}
  /\ pc' = [s \in Stores |-> IF pc[s] = "new" THEN "new" ELSE "over"]
  /\ task' = [s \in Stores |-> "none"]
  /\ rpc' = [r \in Readers |-> "idle"]
  /\ key' = [r \in Readers |-> 0]
  /\ left' = [r \in Readers |-> {}]
  /\ answer' = [r \in Readers |-> Nothing]
  /\ told' = [r \in Readers |-> {}]
  /\ floor' = [r \in Readers |-> Nothing]
  /\ step' = "idle"
  /\ victims' = {}
  /\ victim' = <<>>
  /\ UNCHANGED <<target, png, caches, runs, stored, change, missed>>

StoreStep(s) ==
  \/ StoreInsertsEpisode(s) \/ StoreFindsImages(s) \/ StoreDeletesImages(s)
  \/ StoreInsertsImage(s) \/ StoreFindsTexts(s) \/ StoreDeletesTexts(s)
  \/ StoreCommits(s) \/ StoreRollsBack(s) \/ StoreRemovesPng(s)
  \/ StoreInvalidates(s)

Store(s) == StoreWritesPng(s) \/ StoreCannotWrite(s) \/ StoreStep(s)

Embed(s) == TaskEmbeds(s) \/ TaskFails(s)

Retrieve(r) ==
  \/ RetrieveBegins(r) \/ RetrieveHits(r) \/ RetrieveMisses(r) \/ RetrieveRanks(r)
  \/ (\E e \in Episodes : RetrieveLooks(r, e)) \/ RetrieveFallsBack(r)
  \/ RetrieveReads(r) \/ RetrieveCaches(r) \/ RetrieveEnds(r)

Retention ==
  \/ RetentionSelects \/ (\E e \in Episodes : RetentionPicks(e))
  \/ RetentionDeletes \/ RetentionCannotDelete \/ RetentionRemovesPng
  \/ RetentionEnds

Next ==
  \/ \E s \in Stores : Store(s) \/ Embed(s)
  \/ \E r \in Readers : Retrieve(r)
  \/ \E c \in cache : CacheExpires(c)
  \/ Retention
  \/ Crash

Spec == Init /\ [][Next]_vars

\* A handler that is running goes on: its awaits return, if they can.
Fairness == \A s \in Stores : WF_vars(StoreStep(s))

FairSpec == Spec /\ Fairness

-----------------------------------------------------------------------------
Labels == InTransaction \cup {"new", "cleanup", "invalidate", "over"}

StoresTypeOK ==
  /\ pc \in [Stores -> Labels]
  /\ target \in [Stores -> Episodes]
  /\ task \in [Stores -> {"none", "pending"}]
  /\ png \in [Episodes -> Stores \cup {NoStore, "torn"}]

CachesTypeOK ==
  /\ version \in Nat
  /\ cache \subseteq Entries

ReaderLabels == {"idle", "get", "search", "look", "text", "found", "answer"}

ReadersTypeOK ==
  /\ rpc \in [Readers -> ReaderLabels]
  /\ key \in [Readers -> Nat]
  /\ left \in [Readers -> SUBSET Episodes]
  /\ answer \in [Readers -> Answers]
  /\ told \in [Readers -> SUBSET Episodes]

SweepTypeOK ==
  /\ step \in {"idle", "next", "delete", "remove"}
  /\ victims \subseteq Episodes
  /\ victim \in IF step \in {"delete", "remove"} THEN Episodes \X BOOLEAN ELSE {<<>>}
  /\ runs \in Nat

HistoryTypeOK ==
  /\ stored \in Answers
  /\ change \in [Stores -> Nat]
  /\ floor \in [Readers -> Answers]
  /\ missed \in BOOLEAN
  /\ mixed \subseteq Episodes
  /\ faults \in Nat

\* A store has a transaction only while it is in the middle of it.
NoneLeftOpen ==
  \A s \in Stores : pc[s] \notin InTransaction => tx[s] = NoTransaction

\* Every variable has a value of its kind, and no transaction is left open.
TypeOK ==
  /\ TablesTypeOK /\ StoresTypeOK /\ CachesTypeOK
  /\ ReadersTypeOK /\ SweepTypeOK /\ HistoryTypeOK
  /\ NoneLeftOpen

\* A retrieve that begins after a store was answered never answers from a search
\* made before that store, wherever the retrieves and stores beside it were when
\* the store invalidated the cache: neither with old texts, nor by leaving out an
\* episode because a search left it out that was made too early.  An episode may
\* be left out all the same, by a search that failed, or for want of an embedding,
\* after the store, and is then left out of what is cached too.
\* (build_cache_key, cache_set and cache_invalidate; while a call to the cache
\* that reads or increments the version fails, this is not promised.)
FreshAnswers ==
  ~missed => \A r \in Readers, e \in Episodes :
               rpc[r] = "answer" => answer[r][e] >= floor[r][e]

\* When nobody is at work on an episode, its file, rows and embedding are all of
\* the same store, or all gone: unless two worked on it at once, or a call for it
\* failed, and no store has begun since with the episode to itself.  So a store
\* that is alone and succeeds puts right whatever failed stores, crossing ones,
\* half a retention run or a death have left.  (store_memory, its task,
\* retention_run.)
QuietEpisodesAgree ==
  \A e \in Episodes \ mixed :
    ~Busy(e) =>
      IF e \in episodes
      THEN images[e] = {png[e]} /\ texts[e] = {png[e]} /\ vectors[e] = png[e]
      ELSE png[e] = NoStore

\* Every store that begins ends: whoever it waits for in the tables lets go,
\* and those who wait for each other are found out.
StoresEnd ==
  \A s \in Stores : Serving(s) ~> ~Serving(s)

\* A retention run takes no episode that is younger than one it keeps.
VictimsAreOldest ==
  [][RetentionSelects =>
       \A e \in victims', f \in episodes \ victims' : created[e] <= created[f]]_vars
=============================================================================
