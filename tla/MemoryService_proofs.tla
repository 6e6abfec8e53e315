------------------------- MODULE MemoryService_proofs -------------------------
(***************************************************************************)
(* Proofs about MemoryService for any number of stores and readers, any    *)
(* episodes, and any number of retention runs and faults.                  *)
(***************************************************************************)
EXTENDS MemoryService, TLAPS

USE ServiceAssumption

-----------------------------------------------------------------------------
\* Types

\* What is left alone keeps its type.
LEMMA Frames ==
  /\ TablesTypeOK /\ UNCHANGED tables => TablesTypeOK'
  /\ StoresTypeOK /\ UNCHANGED stores => StoresTypeOK'
  /\ CachesTypeOK /\ UNCHANGED caches => CachesTypeOK'
  /\ ReadersTypeOK /\ UNCHANGED readers => ReadersTypeOK'
  /\ SweepTypeOK /\ UNCHANGED sweep => SweepTypeOK'
  /\ HistoryTypeOK /\ UNCHANGED history => HistoryTypeOK'
  /\ NoneLeftOpen /\ UNCHANGED <<pc, tx>> => NoneLeftOpen'
<1>1. TablesTypeOK /\ UNCHANGED tables => TablesTypeOK'
  BY DEF TablesTypeOK, tables
<1>2. StoresTypeOK /\ UNCHANGED stores => StoresTypeOK'
  BY DEF StoresTypeOK, stores
<1>3. CachesTypeOK /\ UNCHANGED caches => CachesTypeOK'
  BY DEF CachesTypeOK, caches
<1>4. ReadersTypeOK /\ UNCHANGED readers => ReadersTypeOK'
  BY DEF ReadersTypeOK, readers
<1>5. SweepTypeOK /\ UNCHANGED sweep => SweepTypeOK'
  BY DEF SweepTypeOK, sweep
<1>6. HistoryTypeOK /\ UNCHANGED history => HistoryTypeOK'
  BY DEF HistoryTypeOK, history
<1>7. NoneLeftOpen /\ UNCHANGED <<pc, tx>> => NoneLeftOpen'
  BY DEF NoneLeftOpen
<1> QED
  BY <1>1, <1>2, <1>3, <1>4, <1>5, <1>6, <1>7

\* A statement moves one store on and changes the tables only.
LEMMA StatementType ==
  ASSUME TypeOK, NEW s \in Stores, NEW at \in InTransaction,
         NEW to \in InTransaction, Statement(s, at, to),
         TablesTypeOK', \A t \in Stores \ {s} : tx'[t] = tx[t]
  PROVE  TypeOK'
<1>1. pc' = [pc EXCEPT ![s] = to] /\ UNCHANGED <<target, task, png>>
  BY DEF Statement, Goto
<1>2. StoresTypeOK'
  BY <1>1 DEF TypeOK, StoresTypeOK, Labels
<1>3. CachesTypeOK' /\ ReadersTypeOK' /\ SweepTypeOK' /\ HistoryTypeOK'
  BY Frames DEF TypeOK, Statement
<1>4. NoneLeftOpen'
  BY <1>1 DEF TypeOK, StoresTypeOK, NoneLeftOpen
<1> QED
  BY <1>2, <1>3, <1>4 DEF TypeOK

LEMMA TransactionType ==
  ASSUME TablesTypeOK, NEW s \in Stores, NEW S \in SUBSET Stores
  PROVE  /\ [tx EXCEPT ![s].snap = S] \in [Stores -> Transaction]
         /\ [tx EXCEPT ![s].images = S] \in [Stores -> Transaction]
         /\ [tx EXCEPT ![s].texts = S] \in [Stores -> Transaction]
         /\ [tx EXCEPT ![s].creates = TRUE] \in [Stores -> Transaction]
         /\ [tx EXCEPT ![s].refers = TRUE] \in [Stores -> Transaction]
<1>1. tx \in [Stores -> Transaction] /\ tx[s] \in Transaction
  BY DEF TablesTypeOK
<1>2. /\ [tx[s] EXCEPT !.snap = S] \in Transaction
      /\ [tx[s] EXCEPT !.images = S] \in Transaction
      /\ [tx[s] EXCEPT !.texts = S] \in Transaction
      /\ [tx[s] EXCEPT !.creates = TRUE] \in Transaction
      /\ [tx[s] EXCEPT !.refers = TRUE] \in Transaction
  BY <1>1 DEF Transaction
<1> QED
  BY <1>1, <1>2

\* The steps of a store.
LEMMA StatementsType ==
  ASSUME TypeOK, NEW s \in Stores,
         \/ StoreInsertsEpisode(s) \/ StoreFindsImages(s) \/ StoreDeletesImages(s)
         \/ StoreInsertsImage(s) \/ StoreFindsTexts(s) \/ StoreDeletesTexts(s)
  PROVE  TypeOK'
<1>1. TablesTypeOK /\ tx \in [Stores -> Transaction] /\ target[s] \in Episodes
  BY DEF TypeOK, TablesTypeOK, StoresTypeOK
<1>2. images[target[s]] \in SUBSET Stores /\ texts[target[s]] \in SUBSET Stores
  BY <1>1 DEF TablesTypeOK
<1>3. tx[s].snap \in SUBSET Stores
  BY <1>1 DEF Transaction
<1>4. CASE StoreInsertsEpisode(s)
  <2>1. TablesTypeOK'
    <3>1. CASE target[s] \in episodes
      BY <1>1, <1>4, <3>1 DEF StoreInsertsEpisode, InsertEpisode, TablesTypeOK
    <3>2. CASE target[s] \notin episodes
      <4>1. now' \in Nat /\ created' \in [Episodes -> Nat]
        BY <1>1, <1>4, <3>2 DEF StoreInsertsEpisode, InsertEpisode, TablesTypeOK
      <4>2. tx' \in [Stores -> Transaction]
        BY <1>1, <1>4, <3>2, TransactionType DEF StoreInsertsEpisode, InsertEpisode
      <4> QED
        BY <1>1, <1>4, <4>1, <4>2 DEF StoreInsertsEpisode, InsertEpisode, TablesTypeOK
    <3> QED
      BY <3>1, <3>2
  <2>2. \A t \in Stores \ {s} : tx'[t] = tx[t]
    BY <1>1, <1>4 DEF StoreInsertsEpisode, InsertEpisode
  <2> QED
    BY <1>4, <2>1, <2>2, StatementType DEF StoreInsertsEpisode, InTransaction
<1>5. CASE StoreFindsImages(s)
  <2>1. TablesTypeOK'
    BY <1>1, <1>2, <1>5, TransactionType DEF StoreFindsImages, FindImages, TablesTypeOK
  <2>2. \A t \in Stores \ {s} : tx'[t] = tx[t]
    BY <1>1, <1>5 DEF StoreFindsImages, FindImages
  <2> QED
    BY <1>5, <2>1, <2>2, StatementType DEF StoreFindsImages, InTransaction
<1>6. CASE StoreDeletesImages(s)
  <2>1. tx[s].snap \cap images[target[s]] \in SUBSET Stores
    BY <1>2, <1>3
  <2>2. TablesTypeOK'
    BY <1>1, <1>6, <2>1, TransactionType DEF StoreDeletesImages, DeleteImages, TablesTypeOK
  <2>3. \A t \in Stores \ {s} : tx'[t] = tx[t]
    BY <1>1, <1>6 DEF StoreDeletesImages, DeleteImages
  <2> QED
    BY <1>6, <2>2, <2>3, StatementType DEF StoreDeletesImages, InTransaction
<1>7. CASE StoreInsertsImage(s)
  <2>1. TablesTypeOK'
    BY <1>1, <1>7, TransactionType DEF StoreInsertsImage, InsertImage, TablesTypeOK
  <2>2. \A t \in Stores \ {s} : tx'[t] = tx[t]
    BY <1>1, <1>7 DEF StoreInsertsImage, InsertImage
  <2> QED
    BY <1>7, <2>1, <2>2, StatementType DEF StoreInsertsImage, InTransaction
<1>8. CASE StoreFindsTexts(s)
  <2>1. TablesTypeOK'
    BY <1>1, <1>2, <1>8, TransactionType DEF StoreFindsTexts, FindTexts, TablesTypeOK
  <2>2. \A t \in Stores \ {s} : tx'[t] = tx[t]
    BY <1>1, <1>8 DEF StoreFindsTexts, FindTexts
  <2> QED
    BY <1>8, <2>1, <2>2, StatementType DEF StoreFindsTexts, InTransaction
<1>9. CASE StoreDeletesTexts(s)
  <2>1. tx[s].snap \cap texts[target[s]] \in SUBSET Stores
    BY <1>2, <1>3
  <2>2. TablesTypeOK'
    BY <1>1, <1>9, <2>1, TransactionType DEF StoreDeletesTexts, DeleteTexts, TablesTypeOK
  <2>3. \A t \in Stores \ {s} : tx'[t] = tx[t]
    BY <1>1, <1>9 DEF StoreDeletesTexts, DeleteTexts
  <2> QED
    BY <1>9, <2>2, <2>3, StatementType DEF StoreDeletesTexts, InTransaction
<1> QED
  BY <1>4, <1>5, <1>6, <1>7, <1>8, <1>9

LEMMA StoreType ==
  ASSUME TypeOK, NEW s \in Stores, Store(s) \/ Embed(s)
  PROVE  TypeOK'
<1> USE DEF TypeOK, Labels, InTransaction
<1>0. target[s] \in Episodes /\ pc[s] \in Labels
  BY DEF StoresTypeOK
<1>1. CASE StoreWritesPng(s) \/ StoreCannotWrite(s)
  <2>1. TablesTypeOK' /\ CachesTypeOK' /\ ReadersTypeOK' /\ SweepTypeOK'
    BY <1>1, Frames DEF StoreWritesPng, StoreCannotWrite
  <2>2. StoresTypeOK'
    BY <1>0, <1>1 DEF StoreWritesPng, StoreCannotWrite, StoresTypeOK, Goto
  <2>3. HistoryTypeOK'
    BY <1>0, <1>1 DEF StoreWritesPng, StoreCannotWrite, HistoryTypeOK, Fault
  <2>4. NoneLeftOpen'
    BY <1>1 DEF StoreWritesPng, StoreCannotWrite, StoresTypeOK, NoneLeftOpen, Goto, tables
  <2> QED
    BY <2>1, <2>2, <2>3, <2>4
<1>2. CASE StoreCommits(s)
  <2>1. CachesTypeOK' /\ ReadersTypeOK' /\ SweepTypeOK'
    BY <1>2, Frames DEF StoreCommits
  <2>2. TablesTypeOK'
    BY <1>0, <1>2 DEF StoreCommits, Commit, TablesTypeOK, NoTransaction, Transaction
  <2>3. StoresTypeOK'
    BY <1>2 DEF StoreCommits, StoresTypeOK, Goto
  <2>4. HistoryTypeOK'
    BY <1>0, <1>2 DEF StoreCommits, HistoryTypeOK, TablesTypeOK
  <2>5. NoneLeftOpen'
    BY <1>2 DEF StoreCommits, Commit, StoresTypeOK, TablesTypeOK, NoneLeftOpen, Goto
  <2> QED
    BY <2>1, <2>2, <2>3, <2>4, <2>5
<1>3. CASE StoreRollsBack(s)
  <2>1. CachesTypeOK' /\ ReadersTypeOK' /\ SweepTypeOK'
    BY <1>3, Frames DEF StoreRollsBack
  <2>2. TablesTypeOK'
    BY <1>3 DEF StoreRollsBack, Rollback, TablesTypeOK, NoTransaction, Transaction
  <2>3. StoresTypeOK'
    BY <1>3 DEF StoreRollsBack, StoresTypeOK, Goto
  <2>4. HistoryTypeOK'
    BY <1>0, <1>3 DEF StoreRollsBack, HistoryTypeOK, Fault
  <2>5. NoneLeftOpen'
    BY <1>3 DEF StoreRollsBack, Rollback, StoresTypeOK, TablesTypeOK, NoneLeftOpen, Goto
  <2> QED
    BY <2>1, <2>2, <2>3, <2>4, <2>5
<1>4. CASE StoreRemovesPng(s)
  <2>1. TablesTypeOK' /\ CachesTypeOK' /\ ReadersTypeOK' /\ SweepTypeOK' /\ HistoryTypeOK'
    BY <1>4, Frames DEF StoreRemovesPng
  <2>2. StoresTypeOK'
    BY <1>4 DEF StoreRemovesPng, StoresTypeOK, Goto
  <2>3. NoneLeftOpen'
    BY <1>4 DEF StoreRemovesPng, StoresTypeOK, NoneLeftOpen, Goto, tables
  <2> QED
    BY <2>1, <2>2, <2>3
<1>5. CASE StoreInvalidates(s)
  <2>1. TablesTypeOK' /\ ReadersTypeOK' /\ SweepTypeOK'
    BY <1>5, Frames DEF StoreInvalidates
  <2>2. CachesTypeOK'
    BY <1>5 DEF StoreInvalidates, Invalidate, CachesTypeOK, caches
  <2>3. StoresTypeOK'
    BY <1>5 DEF StoreInvalidates, StoresTypeOK, Goto
  <2>4. HistoryTypeOK'
    <3>1. stored' \in Answers
      BY <1>0, <1>5 DEF StoreInvalidates, HistoryTypeOK, Answers
    <3>2. faults' \in Nat
      BY <1>5, SMT DEF StoreInvalidates, HistoryTypeOK, Fault
    <3>3. missed' \in BOOLEAN
      BY <1>5, Zenon DEF StoreInvalidates, HistoryTypeOK
    <3>4. UNCHANGED <<change, floor, mixed>>
      BY <1>5 DEF StoreInvalidates
    <3> QED
      BY <3>1, <3>2, <3>3, <3>4 DEF HistoryTypeOK
  <2>5. NoneLeftOpen'
    BY <1>5 DEF StoreInvalidates, StoresTypeOK, NoneLeftOpen, Goto, tables
  <2> QED
    BY <2>1, <2>2, <2>3, <2>4, <2>5
<1>6. CASE TaskEmbeds(s) \/ TaskFails(s)
  <2>1. CachesTypeOK' /\ ReadersTypeOK' /\ SweepTypeOK'
    BY <1>6, Frames DEF TaskEmbeds, TaskFails, TaskEnds
  <2>2. TablesTypeOK' /\ UNCHANGED <<pc, tx>>
    BY <1>0, <1>6 DEF TaskEmbeds, TaskFails, TaskEnds, SetVector, TablesTypeOK, tables
  <2>3. StoresTypeOK'
    BY <1>6 DEF TaskEmbeds, TaskFails, TaskEnds, StoresTypeOK
  <2>4. HistoryTypeOK'
    BY <1>0, <1>6 DEF TaskEmbeds, TaskFails, TaskEnds, HistoryTypeOK, Fault
  <2> QED
    BY <2>1, <2>2, <2>3, <2>4, Frames
<1> QED
  BY <1>1, <1>2, <1>3, <1>4, <1>5, <1>6, StatementsType DEF Store, StoreStep, Embed

\* The steps of a reader.
LEMMA ReaderType ==
  ASSUME TypeOK, NEW r \in Readers, Retrieve(r)
  PROVE  TypeOK'
<1> USE DEF TypeOK, ReaderLabels
<1>0. TablesTypeOK' /\ StoresTypeOK' /\ SweepTypeOK' /\ UNCHANGED <<pc, tx>>
  <2>1. UNCHANGED <<tables, stores, sweep>>
    BY DEF Retrieve, RetrieveBegins, RetrieveHits, RetrieveMisses, RetrieveRanks,
           RetrieveLooks, RetrieveFallsBack, RetrieveReads, RetrieveCaches, RetrieveEnds
  <2> QED
    BY <2>1, Frames DEF tables, stores
<1>1. CASE RetrieveBegins(r)
  <2>1. CachesTypeOK'
    BY <1>1, Frames DEF RetrieveBegins
  <2>2. ReadersTypeOK'
    BY <1>1 DEF RetrieveBegins, ReadersTypeOK, CachesTypeOK
  <2>3. HistoryTypeOK'
    <3>1. faults' \in Nat
      BY <1>1, SMT DEF RetrieveBegins, HistoryTypeOK, Fault
    <3>2. missed' \in BOOLEAN
      BY <1>1, Zenon DEF RetrieveBegins, HistoryTypeOK
    <3>3. UNCHANGED <<stored, change, mixed>> /\ floor' = [floor EXCEPT ![r] = stored]
      BY <1>1 DEF RetrieveBegins
    <3> QED
      BY <3>1, <3>2, <3>3 DEF HistoryTypeOK
  <2> QED
    BY <1>0, <2>1, <2>2, <2>3, Frames
<1>2. CASE RetrieveHits(r)
  <2>1. CachesTypeOK' /\ HistoryTypeOK'
    BY <1>2, Frames DEF RetrieveHits
  <2>2. ReadersTypeOK'
    BY <1>2 DEF RetrieveHits, ReadersTypeOK, CachesTypeOK, Under, Entries
  <2> QED
    BY <1>0, <2>1, <2>2, Frames
<1>3. CASE RetrieveMisses(r)
  <2>1. CachesTypeOK'
    BY <1>3, Frames DEF RetrieveMisses
  <2>2. ReadersTypeOK'
    BY <1>3 DEF RetrieveMisses, ReadersTypeOK
  <2>3. HistoryTypeOK'
    BY <1>3 DEF RetrieveMisses, HistoryTypeOK, Fault
  <2> QED
    BY <1>0, <2>1, <2>2, <2>3, Frames
<1>4. ASSUME NEW e \in Episodes, RetrieveLooks(r, e)
      PROVE  TypeOK'
  <2>1. CachesTypeOK' /\ HistoryTypeOK'
    BY <1>4, Frames DEF RetrieveLooks
  <2>2. answer' \in [Readers -> Answers]
    <3>1. answer[r] \in Answers /\ changes[e] \in Nat
      BY DEF ReadersTypeOK, TablesTypeOK
    <3>2. [answer[r] EXCEPT ![e] = changes[e]] \in Answers
      BY <3>1 DEF Answers
    <3>3. answer' = [answer EXCEPT ![r] = [answer[r] EXCEPT ![e] = changes[e]]]
      BY <1>4 DEF RetrieveLooks, ReadersTypeOK
    <3> QED
      BY <3>2, <3>3 DEF ReadersTypeOK
  <2>3. /\ rpc' = rpc /\ key' = key
        /\ left' \in [Readers -> SUBSET Episodes] /\ told' \in [Readers -> SUBSET Episodes]
    BY <1>4 DEF RetrieveLooks, ReadersTypeOK
  <2>4. ReadersTypeOK'
    BY <2>2, <2>3 DEF ReadersTypeOK
  <2> QED
    BY <1>0, <2>1, <2>4, Frames
<1>7. CASE RetrieveRanks(r)
  <2>1. CachesTypeOK' /\ HistoryTypeOK'
    BY <1>7, Frames DEF RetrieveRanks
  <2>2. PICK f \in Findings : left' = [left EXCEPT ![r] = f]
    BY <1>7 DEF RetrieveRanks
  <2>3. f \in SUBSET Episodes
    BY <2>2 DEF Findings, Embedded, TablesTypeOK
  <2>4. changes \in Answers
    BY DEF TablesTypeOK, Answers
  <2>5. ReadersTypeOK'
    BY <1>7, <2>2, <2>3, <2>4 DEF RetrieveRanks, ReadersTypeOK
  <2> QED
    BY <1>0, <2>1, <2>5, Frames
<1>8. CASE RetrieveFallsBack(r)
  <2>1. CachesTypeOK'
    BY <1>8, Frames DEF RetrieveFallsBack
  <2>2. Nothing \in Answers
    BY DEF Nothing, Answers
  <2>3. ReadersTypeOK'
    BY <1>8, <2>2 DEF RetrieveFallsBack, ReadersTypeOK
  <2>4. HistoryTypeOK'
    BY <1>8 DEF RetrieveFallsBack, HistoryTypeOK, Fault
  <2> QED
    BY <1>0, <2>1, <2>3, <2>4, Frames
<1>9. CASE RetrieveReads(r)
  <2>1. CachesTypeOK'
    BY <1>9, Frames DEF RetrieveReads
  <2>2. changes \in Answers /\ episodes \in SUBSET Episodes
    BY DEF TablesTypeOK, Answers
  <2>3. ReadersTypeOK'
    BY <1>9, <2>2 DEF RetrieveReads, ReadersTypeOK
  <2>4. HistoryTypeOK'
    BY <1>9 DEF RetrieveReads, HistoryTypeOK, Fault
  <2> QED
    BY <1>0, <2>1, <2>3, <2>4, Frames
<1>5. CASE RetrieveCaches(r)
  <2>1. CachesTypeOK'
    BY <1>5 DEF RetrieveCaches, CachesTypeOK, ReadersTypeOK, Cached, Under, Entries
  <2>2. ReadersTypeOK'
    BY <1>5 DEF RetrieveCaches, ReadersTypeOK
  <2>3. HistoryTypeOK'
    BY <1>5 DEF RetrieveCaches, HistoryTypeOK, Fault
  <2> QED
    BY <1>0, <2>1, <2>2, <2>3, Frames
<1>6. CASE RetrieveEnds(r)
  <2>1. CachesTypeOK'
    BY <1>6, Frames DEF RetrieveEnds
  <2>2. Nothing \in Answers
    BY DEF Nothing, Answers
  <2>3. ReadersTypeOK'
    BY <1>6, <2>2 DEF RetrieveEnds, ReadersTypeOK
  <2>4. HistoryTypeOK'
    BY <1>6, <2>2 DEF RetrieveEnds, HistoryTypeOK
  <2> QED
    BY <1>0, <2>1, <2>3, <2>4, Frames
<1> QED
  BY <1>1, <1>2, <1>3, <1>4, <1>5, <1>6, <1>7, <1>8, <1>9 DEF Retrieve

\* The steps of the retention run, of time, and the death of the service.
LEMMA OtherType ==
  ASSUME TypeOK,
         Retention \/ Crash \/ (\E c \in cache : CacheExpires(c)) \/ UNCHANGED vars
  PROVE  TypeOK'
<1> USE DEF TypeOK
<1>1. CASE RetentionSelects
  <2>1. TablesTypeOK' /\ StoresTypeOK' /\ CachesTypeOK' /\ ReadersTypeOK'
    BY <1>1, Frames DEF RetentionSelects
  <2>2. SweepTypeOK'
    BY <1>1 DEF RetentionSelects, Expired, Excess, SweepTypeOK, TablesTypeOK
  <2>3. HistoryTypeOK'
    BY <1>1 DEF RetentionSelects, HistoryTypeOK, Fault
  <2> QED
    BY <1>1, <2>1, <2>2, <2>3, Frames DEF RetentionSelects, tables, stores
<1>2. ASSUME NEW e \in Episodes, RetentionPicks(e)
      PROVE  TypeOK'
  <2>1. TablesTypeOK' /\ StoresTypeOK' /\ CachesTypeOK' /\ ReadersTypeOK'
    BY <1>2, Frames DEF RetentionPicks
  <2>2. SweepTypeOK'
    <3>1. \E b \in BOOLEAN : victim' = <<e, b>>
      BY <1>2, Zenon DEF RetentionPicks
    <3>2. victim' \in Episodes \X BOOLEAN
      BY <3>1
    <3>3. /\ victims' = victims \ {e} /\ step' = "delete" /\ runs' = runs
      BY <1>2, Zenon DEF RetentionPicks
    <3> QED
      BY <3>2, <3>3 DEF SweepTypeOK
  <2>3. HistoryTypeOK'
    <3>1. faults' \in Nat /\ UNCHANGED <<stored, change, floor, missed>>
      <4>1. faults' = faults \/ faults' = faults + 1
        BY <1>2, Zenon DEF RetentionPicks, Fault
      <4>2. UNCHANGED <<stored, change, floor, missed>>
        BY <1>2, Zenon DEF RetentionPicks
      <4> QED
        BY <4>1, <4>2 DEF HistoryTypeOK
    <3>2. mixed' = mixed \/ mixed' = mixed \cup {e}
      <4>1. CASE mixed' = IF Busy(e) THEN mixed \cup {e} ELSE mixed
        BY <4>1
      <4>2. CASE mixed' = mixed \cup {e}
        BY <4>2
      <4> QED
        BY <1>2, <4>1, <4>2, Zenon DEF RetentionPicks
    <3> QED
      BY <3>1, <3>2 DEF HistoryTypeOK
  <2> QED
    BY <1>2, <2>1, <2>2, <2>3, Frames DEF RetentionPicks, tables, stores
<1>3. CASE RetentionDeletes
  <2>1. StoresTypeOK' /\ CachesTypeOK' /\ ReadersTypeOK' /\ HistoryTypeOK'
    BY <1>3, Frames DEF RetentionDeletes
  <2>2. TablesTypeOK' /\ UNCHANGED tx
    <3>1. changes' \in [Episodes -> Nat]
      BY <1>3 DEF RetentionDeletes, DeleteEpisode, TablesTypeOK
    <3>2. /\ episodes' \subseteq Episodes
          /\ images' \in [Episodes -> SUBSET Stores]
          /\ texts' \in [Episodes -> SUBSET Stores]
          /\ UNCHANGED <<now, created, vectors, tx>>
      BY <1>3 DEF RetentionDeletes, DeleteEpisode, TablesTypeOK
    <3> QED
      BY <3>1, <3>2 DEF TablesTypeOK
  <2>3. SweepTypeOK'
    BY <1>3 DEF RetentionDeletes, SweepTypeOK
  <2> QED
    BY <1>3, <2>1, <2>2, <2>3, Frames DEF RetentionDeletes, stores
<1>4. CASE RetentionCannotDelete
  <2>1. TablesTypeOK' /\ StoresTypeOK' /\ CachesTypeOK' /\ ReadersTypeOK'
    BY <1>4, Frames DEF RetentionCannotDelete
  <2>2. SweepTypeOK'
    BY <1>4 DEF RetentionCannotDelete, SweepTypeOK
  <2>3. HistoryTypeOK'
    BY <1>4 DEF RetentionCannotDelete, HistoryTypeOK, Fault
  <2> QED
    BY <1>4, <2>1, <2>2, <2>3, Frames DEF RetentionCannotDelete, tables, stores
<1>5. CASE RetentionRemovesPng
  <2>1. TablesTypeOK' /\ CachesTypeOK' /\ ReadersTypeOK'
    BY <1>5, Frames DEF RetentionRemovesPng
  <2>2. StoresTypeOK'
    BY <1>5 DEF RetentionRemovesPng, StoresTypeOK
  <2>3. SweepTypeOK'
    BY <1>5 DEF RetentionRemovesPng, SweepTypeOK
  <2>4. victim[1] \in Episodes
    BY <1>5 DEF RetentionRemovesPng, SweepTypeOK
  <2>5. HistoryTypeOK'
    BY <1>5, <2>4 DEF RetentionRemovesPng, HistoryTypeOK, Fault
  <2> QED
    BY <1>5, <2>1, <2>2, <2>3, <2>5, Frames DEF RetentionRemovesPng, tables
<1>6. CASE RetentionEnds
  <2>1. /\ TablesTypeOK' /\ StoresTypeOK' /\ CachesTypeOK' /\ ReadersTypeOK'
        /\ HistoryTypeOK'
    BY <1>6, Frames DEF RetentionEnds
  <2>2. SweepTypeOK'
    BY <1>6 DEF RetentionEnds, SweepTypeOK
  <2> QED
    BY <1>6, <2>1, <2>2, Frames DEF RetentionEnds, tables, stores
<1>7. CASE Crash
  <2>1. CachesTypeOK'
    BY <1>7, Frames DEF Crash
  <2>2. TablesTypeOK'
    BY <1>7 DEF Crash, Rollback, TablesTypeOK, NoTransaction, Transaction
  <2>3. StoresTypeOK'
    BY <1>7 DEF Crash, StoresTypeOK, Labels
  <2>4. Nothing \in Answers
    BY DEF Nothing, Answers
  <2>5. ReadersTypeOK'
    BY <1>7, <2>4 DEF Crash, ReadersTypeOK, ReaderLabels
  <2>6. SweepTypeOK'
    BY <1>7 DEF Crash, SweepTypeOK
  <2>7. HistoryTypeOK'
    BY <1>7, <2>4 DEF Crash, HistoryTypeOK, Fault
  <2>8. NoneLeftOpen'
    BY <1>7 DEF Crash, Rollback, NoneLeftOpen, InTransaction
  <2> QED
    BY <2>1, <2>2, <2>3, <2>5, <2>6, <2>7, <2>8
<1>8. ASSUME NEW c \in cache, CacheExpires(c)
      PROVE  TypeOK'
  <2>1. /\ TablesTypeOK' /\ StoresTypeOK' /\ ReadersTypeOK' /\ SweepTypeOK'
        /\ HistoryTypeOK'
    BY <1>8, Frames DEF CacheExpires
  <2>2. CachesTypeOK'
    BY <1>8 DEF CacheExpires, CachesTypeOK
  <2> QED
    BY <1>8, <2>1, <2>2, Frames DEF CacheExpires, tables, stores
<1>9. CASE UNCHANGED vars
  BY <1>9, Frames DEF vars, tables, stores
<1> QED
  BY <1>1, <1>2, <1>3, <1>4, <1>5, <1>6, <1>7, <1>8, <1>9 DEF Retention

LEMMA InitType == Init => TypeOK
<1> SUFFICES ASSUME Init PROVE TypeOK
  OBVIOUS
<1> USE DEF Init
<1>1. TablesTypeOK
  BY DEF TablesInit, TablesTypeOK, NoTransaction, Transaction
<1>2. StoresTypeOK /\ NoneLeftOpen
  BY DEF StoresTypeOK, NoneLeftOpen, TablesInit, Labels
<1>3. Nothing \in Answers
  BY DEF Nothing, Answers
<1>4. CachesTypeOK /\ ReadersTypeOK /\ SweepTypeOK /\ HistoryTypeOK
  BY <1>3 DEF CachesTypeOK, ReadersTypeOK, ReaderLabels, SweepTypeOK, HistoryTypeOK
<1> QED
  BY <1>1, <1>2, <1>4 DEF TypeOK

LEMMA NextType == TypeOK /\ [Next]_vars => TypeOK'
BY StoreType, ReaderType, OtherType DEF Next

\* Every variable of the memory service holds a value of its kind, and no
\* transaction is left open by a store that has ended.
THEOREM TypeCorrect == Spec => []TypeOK
<1> QED
  BY InitType, NextType, PTL DEF Spec

-----------------------------------------------------------------------------
\* The rows of an episode

\* The stores that have committed, or will not.
Ended == {s \in Stores : pc[s] \in {"invalidate", "over"}}

\* What a store must have found among the texts, once it has deleted image rows.
TextsFollow(s) ==
  /\ pc[s] = "deleteTexts" => texts[target[s]] \cap tx[s].images \subseteq tx[s].snap
  /\ pc[s] = "commit" => texts[target[s]] \cap tx[s].images \subseteq tx[s].texts

RowInv ==
  /\ RowsTogether
  /\ \A e \in Episodes : images[e] \subseteq Ended
  /\ \A s \in Stores : tx[s].images \subseteq Ended /\ TextsFollow(s)

\* A step of one store that leaves the rows alone.
LEMMA OwnStep ==
  ASSUME TypeOK, RowInv, NEW s \in Stores,
         UNCHANGED <<episodes, images, texts, target>>, Ended \subseteq Ended',
         \A t \in Stores \ {s} : tx'[t] = tx[t] /\ pc'[t] = pc[t],
         tx'[s].images \subseteq Ended, TextsFollow(s)'
  PROVE  RowInv'
<1>1. RowsTogether'
  BY DEF RowInv, RowsTogether
<1>2. \A e \in Episodes : images'[e] \subseteq Ended'
  BY DEF RowInv
<1>3. ASSUME NEW t \in Stores \ {s}
      PROVE  tx'[t].images \subseteq Ended' /\ TextsFollow(t)'
  BY <1>3 DEF RowInv, TextsFollow
<1> QED
  BY <1>1, <1>2, <1>3 DEF RowInv

\* A step that leaves the rows and the transactions alone.
LEMMA NoRowStep ==
  ASSUME TypeOK, RowInv, UNCHANGED <<episodes, images, texts, target, tx>>,
         Ended \subseteq Ended',
         \A t \in Stores : pc'[t] \in {"deleteTexts", "commit"} => pc'[t] = pc[t]
  PROVE  RowInv'
<1>1. RowsTogether'
  BY DEF RowInv, RowsTogether
<1>2. \A t \in Stores : tx'[t].images \subseteq Ended' /\ TextsFollow(t)'
  BY DEF RowInv, TextsFollow
<1> QED
  BY <1>1, <1>2 DEF RowInv

LEMMA RowStatements ==
  ASSUME TypeOK, RowInv, NEW s \in Stores,
         \/ StoreInsertsEpisode(s) \/ StoreFindsImages(s) \/ StoreDeletesImages(s)
         \/ StoreInsertsImage(s) \/ StoreFindsTexts(s) \/ StoreDeletesTexts(s)
  PROVE  RowInv'
<1>1. /\ tx \in [Stores -> Transaction] /\ target[s] \in Episodes
      /\ pc \in [Stores -> Labels]
      /\ tx[s].images \subseteq Ended /\ TextsFollow(s)
      /\ images[target[s]] \subseteq Ended
  BY DEF TypeOK, TablesTypeOK, StoresTypeOK, RowInv
<1>2. /\ UNCHANGED <<episodes, images, texts, target>>
      /\ \A t \in Stores \ {s} : tx'[t] = tx[t] /\ pc'[t] = pc[t]
  BY <1>1 DEF StoreInsertsEpisode, StoreFindsImages, StoreDeletesImages,
     StoreInsertsImage, StoreFindsTexts, StoreDeletesTexts, Statement, Goto,
     InsertEpisode, FindImages, DeleteImages, InsertImage, FindTexts, DeleteTexts
<1>3. Ended \subseteq Ended'
  BY <1>1 DEF Ended, StoreInsertsEpisode, StoreFindsImages, StoreDeletesImages,
     StoreInsertsImage, StoreFindsTexts, StoreDeletesTexts, Statement, Goto
<1>4. CASE StoreInsertsEpisode(s) \/ StoreFindsImages(s) \/ StoreInsertsImage(s)
  <2>1. tx'[s].images = tx[s].images
    BY <1>1, <1>4 DEF StoreInsertsEpisode, StoreFindsImages, StoreInsertsImage,
       InsertEpisode, FindImages, InsertImage, Transaction
  <2>2. pc'[s] \notin {"deleteTexts", "commit"}
    BY <1>1, <1>4 DEF StoreInsertsEpisode, StoreFindsImages, StoreInsertsImage,
       Statement, Goto
  <2> QED
    BY <1>1, <1>2, <1>3, <2>1, <2>2, OwnStep DEF TextsFollow
<1>5. CASE StoreDeletesImages(s)
  <2>1. tx'[s].images = tx[s].snap \cap images[target[s]]
    BY <1>1, <1>5 DEF StoreDeletesImages, DeleteImages, Transaction
  <2>2. pc'[s] \notin {"deleteTexts", "commit"}
    BY <1>1, <1>5 DEF StoreDeletesImages, Statement, Goto
  <2> QED
    BY <1>1, <1>2, <1>3, <2>1, <2>2, OwnStep DEF TextsFollow
<1>6. CASE StoreFindsTexts(s)
  <2>1. tx'[s].images = tx[s].images /\ tx'[s].snap = texts[target[s]]
    BY <1>1, <1>6 DEF StoreFindsTexts, FindTexts, Transaction
  <2>2. pc'[s] = "deleteTexts"
    BY <1>1, <1>6 DEF StoreFindsTexts, Statement, Goto
  <2> QED
    BY <1>1, <1>2, <1>3, <2>1, <2>2, OwnStep DEF TextsFollow
<1>7. CASE StoreDeletesTexts(s)
  <2>1. /\ tx'[s].images = tx[s].images
        /\ tx'[s].texts = tx[s].snap \cap texts[target[s]]
    BY <1>1, <1>7 DEF StoreDeletesTexts, DeleteTexts, Transaction
  <2>2. pc[s] = "deleteTexts" /\ pc'[s] = "commit"
    BY <1>1, <1>7 DEF StoreDeletesTexts, Statement, Goto
  <2> QED
    BY <1>1, <1>2, <1>3, <2>1, <2>2, OwnStep DEF TextsFollow
<1> QED
  BY <1>4, <1>5, <1>6, <1>7

\* The stores that commit are not among those whose rows others have deleted.
LEMMA RowCommit ==
  ASSUME TypeOK, RowInv, NEW s \in Stores, StoreCommits(s)
  PROVE  RowInv'
<1> DEFINE e == target[s]
<1>1. /\ tx \in [Stores -> Transaction] /\ e \in Episodes /\ pc \in [Stores -> Labels]
      /\ images \in [Episodes -> SUBSET Stores] /\ texts \in [Episodes -> SUBSET Stores]
  BY DEF TypeOK, TablesTypeOK, StoresTypeOK
<1>2. /\ episodes' = episodes \cup {e} /\ UNCHANGED target
      /\ images' = [images EXCEPT ![e] = (images[e] \ tx[s].images) \cup {s}]
      /\ texts' = [texts EXCEPT ![e] = (texts[e] \ tx[s].texts) \cup {s}]
      /\ tx' = [tx EXCEPT ![s] = NoTransaction]
      /\ pc' = [pc EXCEPT ![s] = "invalidate"] /\ pc[s] = "commit"
  BY DEF StoreCommits, Commit, Goto
<1>3. Ended' = Ended \cup {s} /\ s \notin Ended
  BY <1>1, <1>2 DEF Ended
<1>4. texts[e] \cap tx[s].images \subseteq tx[s].texts
  BY <1>2 DEF RowInv, TextsFollow
<1>5. RowsTogether'
  <2>1. ASSUME NEW f \in Episodes, f # e
        PROVE  images'[f] = images[f] /\ texts'[f] = texts[f]
    BY <1>1, <1>2, <2>1
  <2>2. texts[e] \subseteq images[e]
    BY <1>1 DEF RowInv, RowsTogether
  <2>3. /\ images'[e] = (images[e] \ tx[s].images) \cup {s}
        /\ texts'[e] = (texts[e] \ tx[s].texts) \cup {s}
    BY <1>1, <1>2
  <2>4. /\ texts'[e] \subseteq images'[e]
        /\ texts'[e] # {} /\ images'[e] # {} /\ e \in episodes'
    BY <1>2, <1>4, <2>2, <2>3
  <2> QED
    BY <1>2, <2>1, <2>4 DEF RowInv, RowsTogether
<1>6. \A f \in Episodes : images'[f] \subseteq Ended'
  BY <1>1, <1>2, <1>3 DEF RowInv
<1>7. tx'[s].images \subseteq Ended' /\ TextsFollow(s)'
  BY <1>1, <1>2 DEF NoTransaction, TextsFollow
<1>8. ASSUME NEW t \in Stores \ {s}
      PROVE  tx'[t].images \subseteq Ended' /\ TextsFollow(t)'
  <2>1. tx'[t] = tx[t] /\ pc'[t] = pc[t] /\ target'[t] = target[t]
    BY <1>1, <1>2
  <2>2. tx[t].images \subseteq Ended /\ s \notin tx[t].images /\ TextsFollow(t)
    BY <1>3 DEF RowInv
  <2>3. target[t] \in Episodes
    BY DEF TypeOK, StoresTypeOK
  <2>4. texts'[target[t]] \cap tx[t].images \subseteq texts[target[t]]
    BY <1>1, <1>2, <2>2, <2>3
  <2> QED
    BY <1>3, <2>1, <2>2, <2>4 DEF TextsFollow
<1> QED
  BY <1>5, <1>6, <1>7, <1>8 DEF RowInv

\* The retention run takes the rows of an episode together.
LEMMA RowDelete ==
  ASSUME TypeOK, RowInv, RetentionDeletes
  PROVE  RowInv'
<1>1. /\ images \in [Episodes -> SUBSET Stores] /\ texts \in [Episodes -> SUBSET Stores]
      /\ target \in [Stores -> Episodes]
  BY DEF TypeOK, TablesTypeOK, StoresTypeOK
<1>2. /\ episodes' = episodes \ {victim[1]}
      /\ images' = [images EXCEPT ![victim[1]] = {}]
      /\ texts' = [texts EXCEPT ![victim[1]] = {}]
      /\ UNCHANGED <<tx, pc, target>>
  BY DEF RetentionDeletes, DeleteEpisode, stores
<1>3. \A e \in Episodes :
        /\ images'[e] = (IF e = victim[1] THEN {} ELSE images[e])
        /\ texts'[e] = (IF e = victim[1] THEN {} ELSE texts[e])
  BY <1>1, <1>2
<1>4. RowsTogether'
  BY <1>2, <1>3 DEF RowInv, RowsTogether
<1>5. Ended' = Ended
  BY <1>2 DEF Ended
<1>6. \A e \in Episodes : images'[e] \subseteq Ended'
  BY <1>3, <1>5 DEF RowInv
<1>7. ASSUME NEW t \in Stores
      PROVE  tx'[t].images \subseteq Ended' /\ TextsFollow(t)'
  <2>1. texts'[target[t]] \subseteq texts[target[t]]
    BY <1>1, <1>3
  <2> QED
    BY <1>2, <1>5, <2>1 DEF RowInv, TextsFollow
<1> QED
  BY <1>4, <1>6, <1>7 DEF RowInv

LEMMA RowNext == TypeOK /\ RowInv /\ [Next]_vars => RowInv'
<1> SUFFICES ASSUME TypeOK, RowInv, [Next]_vars PROVE RowInv'
  OBVIOUS
<1>0. pc \in [Stores -> Labels] /\ tx \in [Stores -> Transaction]
  BY DEF TypeOK, StoresTypeOK, TablesTypeOK
<1>1. ASSUME NEW s \in Stores,
             \/ StoreWritesPng(s) \/ StoreCannotWrite(s) \/ StoreRemovesPng(s)
             \/ StoreInvalidates(s)
      PROVE  RowInv'
  <2>1. UNCHANGED <<episodes, images, texts, target, tx>>
    BY <1>1 DEF StoreWritesPng, StoreCannotWrite, StoreRemovesPng, StoreInvalidates,
       tables
  <2>2. /\ Ended \subseteq Ended'
        /\ \A t \in Stores : pc'[t] \in {"deleteTexts", "commit"} => pc'[t] = pc[t]
    BY <1>0, <1>1 DEF StoreWritesPng, StoreCannotWrite, StoreRemovesPng,
       StoreInvalidates, Goto, Ended
  <2> QED
    BY <2>1, <2>2, NoRowStep
<1>2. ASSUME NEW s \in Stores, StoreRollsBack(s)
      PROVE  RowInv'
  <2>1. UNCHANGED <<episodes, images, texts, target>>
    BY <1>2 DEF StoreRollsBack, Rollback
  <2>2. /\ \A t \in Stores \ {s} : tx'[t] = tx[t] /\ pc'[t] = pc[t]
        /\ tx'[s] = NoTransaction /\ pc'[s] = "cleanup" /\ pc[s] \in InTransaction
    BY <1>0, <1>2 DEF StoreRollsBack, Rollback, Goto, Crosses, InTransaction
  <2>3. Ended \subseteq Ended'
    BY <2>2 DEF Ended, InTransaction
  <2>4. tx'[s].images \subseteq Ended /\ TextsFollow(s)'
    BY <2>2 DEF NoTransaction, TextsFollow
  <2> QED
    BY <2>1, <2>2, <2>3, <2>4, OwnStep
<1>3. ASSUME NEW s \in Stores, Embed(s)
      PROVE  RowInv'
  <2>1. UNCHANGED <<episodes, images, texts, target, tx, pc>>
    BY <1>3 DEF Embed, TaskEmbeds, TaskFails, TaskEnds, SetVector, tables
  <2> QED
    BY <2>1, NoRowStep DEF Ended
<1>4. ASSUME NEW r \in Readers, Retrieve(r)
      PROVE  RowInv'
  <2>1. UNCHANGED <<episodes, images, texts, target, tx, pc>>
    BY <1>4 DEF Retrieve, RetrieveBegins, RetrieveHits, RetrieveMisses, RetrieveRanks,
       RetrieveLooks, RetrieveFallsBack, RetrieveReads, RetrieveCaches, RetrieveEnds,
       tables, stores
  <2> QED
    BY <2>1, NoRowStep DEF Ended
<1>5. ASSUME \/ RetentionSelects \/ (\E e \in Episodes : RetentionPicks(e))
             \/ RetentionCannotDelete \/ RetentionRemovesPng \/ RetentionEnds
             \/ (\E c \in cache : CacheExpires(c)) \/ UNCHANGED vars
      PROVE  RowInv'
  <2>1. UNCHANGED <<episodes, images, texts, target, tx, pc>>
    BY <1>5 DEF RetentionSelects, RetentionPicks, RetentionCannotDelete,
       RetentionRemovesPng, RetentionEnds, CacheExpires, tables, stores, vars
  <2> QED
    BY <2>1, NoRowStep DEF Ended
<1>6. CASE Crash
  <2>1. UNCHANGED <<episodes, images, texts, target>>
    BY <1>6 DEF Crash, Rollback
  <2>2. \A s \in Stores : tx'[s] = NoTransaction /\ pc'[s] \in {"new", "over"}
    BY <1>6 DEF Crash, Rollback
  <2>3. Ended \subseteq Ended'
    BY <1>6 DEF Crash, Ended
  <2>4. \A s \in Stores : tx'[s].images \subseteq Ended' /\ TextsFollow(s)'
    BY <2>2 DEF NoTransaction, TextsFollow
  <2>5. RowsTogether' /\ \A e \in Episodes : images'[e] \subseteq Ended'
    BY <2>1, <2>3 DEF RowInv, RowsTogether
  <2> QED
    BY <2>4, <2>5 DEF RowInv
<1> QED
  BY <1>1, <1>2, <1>3, <1>4, <1>5, <1>6, RowStatements, RowCommit, RowDelete
  DEF Next, Store, StoreStep, Retention

LEMMA RowInit == Init => RowInv
BY DEF Init, TablesInit, NoTransaction, RowInv, RowsTogether, TextsFollow

\* However many stores of an episode and retention runs interleave, fail or are
\* cut short, its episode row, its images and its texts are there together, and
\* no text outlives the image row of its store.
THEOREM TogetherAlways == Spec => []RowsTogether
<1>1. TypeOK /\ RowInv /\ [Next]_vars => TypeOK' /\ RowInv'
  BY NextType, RowNext
<1>2. RowInv => RowsTogether
  BY DEF RowInv
<1> QED
  BY <1>1, <1>2, InitType, RowInit, PTL DEF Spec

-----------------------------------------------------------------------------
\* The answers of the cache, when it is in Redis

\* Every change is counted, at the latest, when its store says that it is done.
CountInv ==
  /\ \A e \in Episodes : stored[e] <= changes[e]
  /\ \A s \in Stores : pc[s] = "invalidate" => change[s] <= changes[target[s]]
  /\ \A r \in Readers, e \in Episodes : floor[r][e] <= changes[e]

\* a says of each episode at least what f does.
AsNew(a, f) == \A e \in Episodes : f[e] <= a[e]

Active(r) == rpc[r] # "idle"

\* The version in a key stands for what was stored when the version was made:
\* readers with one key began with the same promise, those with the current
\* version with that of now, and whatever is cached under a key keeps it.
VersionInv ==
  /\ \A c \in cache : c.version <= version
  /\ \A c \in cache : c.version = version => AsNew(c.answer, stored)
  /\ \A r \in Readers : Active(r) =>
       /\ key[r] <= version
       /\ key[r] = version => floor[r] = stored
       /\ \A c \in cache : c.version = key[r] => AsNew(c.answer, floor[r])
       /\ \A q \in Readers : Active(q) /\ key[q] = key[r] => floor[q] = floor[r]

\* What a reader has searched, it has searched since it began, found or not.
LookInv ==
  \A r \in Readers, e \in Episodes :
    rpc[r] = "found" \/ (rpc[r] = "look" /\ e \notin left[r]) => floor[r][e] <= answer[r][e]

FreshInv ==
  /\ CountInv
  /\ LookInv
  /\ ~missed => VersionInv
  /\ FreshAnswers

LEMMA FreshInit == Init => FreshInv
BY DEF Init, TablesInit, Nothing, FreshInv, CountInv, LookInv, VersionInv, Active,
       FreshAnswers

\* The changes are never taken back.
LEMMA ChangesGrow ==
  ASSUME TypeOK, [Next]_vars
  PROVE  /\ \A e \in Episodes : changes[e] <= changes'[e]
         /\ changes' \in [Episodes -> Nat]
<1>1. changes \in [Episodes -> Nat] /\ target \in [Stores -> Episodes]
  BY DEF TypeOK, TablesTypeOK, StoresTypeOK
<1>2. ASSUME NEW s \in Stores, Store(s) \/ Embed(s)
      PROVE  \/ changes' = changes
             \/ changes' = [changes EXCEPT ![target[s]] = changes[target[s]] + 1]
  BY <1>2 DEF Store, StoreStep, Embed, tables, StoreWritesPng, StoreCannotWrite,
     StoreInsertsEpisode, StoreFindsImages, StoreDeletesImages, StoreInsertsImage,
     StoreFindsTexts, StoreDeletesTexts, StoreCommits, StoreRollsBack,
     StoreRemovesPng, StoreInvalidates, InsertEpisode, FindImages, DeleteImages,
     InsertImage, FindTexts, DeleteTexts, Commit, Rollback, TaskEmbeds, TaskFails,
     SetVector
<1>3. ASSUME NEW r \in Readers, Retrieve(r)
      PROVE  changes' = changes
  BY <1>3 DEF Retrieve, RetrieveBegins, RetrieveHits, RetrieveMisses, RetrieveRanks,
     RetrieveLooks, RetrieveFallsBack, RetrieveReads, RetrieveCaches, RetrieveEnds, tables
<1>4. ASSUME Retention
      PROVE  \/ changes' = changes
             \/ changes' = [changes EXCEPT ![victim[1]] = changes[victim[1]] + 1]
  BY <1>4 DEF Retention, RetentionSelects, RetentionPicks, RetentionDeletes,
     DeleteEpisode, RetentionCannotDelete, RetentionRemovesPng, RetentionEnds, tables
<1>5. ASSUME Crash \/ (\E c \in cache : CacheExpires(c)) \/ UNCHANGED vars
      PROVE  changes' = changes
  BY <1>5 DEF Crash, Rollback, CacheExpires, vars, tables
<1>6. ASSUME NEW x, changes' = [changes EXCEPT ![x] = changes[x] + 1]
      PROVE  \A e \in Episodes : changes[e] <= changes'[e]
  BY <1>1, <1>6
<1>7. \A e \in Episodes : changes[e] <= changes'[e]
  <2>1. changes' = changes => \A e \in Episodes : changes[e] <= changes'[e]
    BY <1>1
  <2> QED
    BY <1>2, <1>3, <1>4, <1>5, <1>6, <2>1 DEF Next
<1>8. changes' \in [Episodes -> Nat]
  BY NextType DEF TypeOK, TablesTypeOK
<1> QED
  BY <1>7, <1>8

\* A step that no reader, no cached answer and no promise sees.
LEMMA NoFreshStep ==
  ASSUME TypeOK, FreshInv, [Next]_vars,
         UNCHANGED <<caches, readers, stored, floor, missed>>,
         \A s \in Stores : pc'[s] = "invalidate" => change'[s] <= changes'[target'[s]]
  PROVE  FreshInv'
<1>1. /\ changes \in [Episodes -> Nat] /\ changes' \in [Episodes -> Nat]
      /\ stored \in Answers /\ floor \in [Readers -> Answers]
      /\ \A e \in Episodes : changes[e] <= changes'[e]
  BY ChangesGrow DEF TypeOK, TablesTypeOK, HistoryTypeOK
<1>2. CountInv'
  BY <1>1 DEF FreshInv, CountInv, Answers
<1>3. LookInv' /\ (~missed => VersionInv)' /\ FreshAnswers'
  BY DEF FreshInv, LookInv, VersionInv, Active, FreshAnswers, readers, caches, AsNew
<1> QED
  BY <1>2, <1>3 DEF FreshInv

LEMMA FreshCommit ==
  ASSUME TypeOK, FreshInv, NEW s \in Stores, StoreCommits(s), [Next]_vars
  PROVE  FreshInv'
<1>1. /\ changes \in [Episodes -> Nat] /\ target \in [Stores -> Episodes]
      /\ change \in [Stores -> Nat] /\ pc \in [Stores -> Labels]
  BY DEF TypeOK, TablesTypeOK, StoresTypeOK, HistoryTypeOK
<1>2. /\ changes' = [changes EXCEPT ![target[s]] = changes[target[s]] + 1]
      /\ change' = [change EXCEPT ![s] = changes[target[s]] + 1]
      /\ pc' = [pc EXCEPT ![s] = "invalidate"]
      /\ UNCHANGED <<target, caches, readers, stored, floor, missed>>
  BY DEF StoreCommits, Commit, Goto
<1>3. ASSUME NEW t \in Stores, pc'[t] = "invalidate"
      PROVE  change'[t] <= changes'[target'[t]]
  <2>1. CASE t = s
    BY <1>1, <1>2, <2>1
  <2>2. CASE t # s
    <3>1. change[t] <= changes[target[t]] /\ change'[t] = change[t]
      BY <1>1, <1>2, <1>3, <2>2 DEF FreshInv, CountInv
    <3> QED
      BY <1>1, <1>2, <3>1, ChangesGrow
  <2> QED
    BY <2>1, <2>2
<1> QED
  BY <1>2, <1>3, NoFreshStep

\* The versions after the INCR are new to the cache and to every reader.
LEMMA FreshInvalidate ==
  ASSUME Backend = "redis", TypeOK, FreshInv, NEW s \in Stores, StoreInvalidates(s)
  PROVE  FreshInv'
<1>1. /\ changes \in [Episodes -> Nat] /\ target[s] \in Episodes
      /\ change[s] \in Nat /\ pc \in [Stores -> Labels] /\ stored \in [Episodes -> Nat]
      /\ version \in Nat /\ cache \subseteq Entries /\ key \in [Readers -> Nat]
  BY DEF TypeOK, TablesTypeOK, StoresTypeOK, HistoryTypeOK, CachesTypeOK,
     ReadersTypeOK, Answers
<1>2. /\ pc[s] = "invalidate" /\ pc' = [pc EXCEPT ![s] = "over"]
      /\ stored' = [stored EXCEPT ![target[s]] =
                      IF @ < change[s] THEN change[s] ELSE @]
      /\ UNCHANGED <<tables, target, readers, change, floor>>
      /\ UNCHANGED cache
      /\ \/ missed' = missed /\ version' = version + 1
         \/ missed' = TRUE
  BY DEF StoreInvalidates, Invalidate, Goto, caches
<1>3. CountInv'
  <2>1. change[s] <= changes[target[s]]
    BY <1>2 DEF FreshInv, CountInv
  <2>2. \A e \in Episodes : stored'[e] <= changes'[e]
    BY <1>1, <1>2, <2>1 DEF FreshInv, CountInv, tables
  <2> QED
    BY <1>1, <1>2, <2>2 DEF FreshInv, CountInv, tables
<1>4. LookInv'
  BY <1>2 DEF FreshInv, LookInv, readers
<1>5. FreshAnswers'
  BY <1>2 DEF FreshInv, FreshAnswers, readers
<1>6. ASSUME ~missed'
      PROVE  VersionInv'
  <2>1. VersionInv /\ version' = version + 1
    BY <1>2, <1>6 DEF FreshInv
  <2>2. \A c \in cache' : c.version <= version' /\ c.version # version'
    BY <1>1, <1>2, <2>1 DEF VersionInv, Entries
  <2>3. \A r \in Readers : Active(r)' => key'[r] <= version' /\ key'[r] # version'
    BY <1>1, <1>2, <2>1 DEF VersionInv, Active, readers
  <2>4. ASSUME NEW r \in Readers, Active(r)'
        PROVE  /\ \A c \in cache' : c.version = key'[r] => AsNew(c.answer, floor'[r])
               /\ \A q \in Readers : Active(q)' /\ key'[q] = key'[r] => floor'[q] = floor'[r]
    BY <1>2, <2>1, <2>4 DEF VersionInv, Active, readers
  <2> QED
    BY <2>2, <2>3, <2>4 DEF VersionInv
<1> QED
  BY <1>3, <1>4, <1>5, <1>6 DEF FreshInv

LEMMA FreshBegins ==
  ASSUME Backend = "redis", TypeOK, FreshInv, NEW r \in Readers, RetrieveBegins(r)
  PROVE  FreshInv'
<1>1. /\ version \in Nat /\ cache \subseteq Entries /\ key \in [Readers -> Nat]
      /\ rpc \in [Readers -> ReaderLabels]
      /\ floor \in [Readers -> Answers] /\ stored \in Answers
  BY DEF TypeOK, HistoryTypeOK, CachesTypeOK, ReadersTypeOK
<1>2. /\ rpc[r] = "idle" /\ rpc' = [rpc EXCEPT ![r] = "get"]
      /\ floor' = [floor EXCEPT ![r] = stored]
      /\ UNCHANGED <<tables, stores, caches, left, answer, stored, change>>
      /\ \/ key' = [key EXCEPT ![r] = version] /\ missed' = missed
         \/ missed' = TRUE
  BY DEF RetrieveBegins
<1>3. CountInv'
  BY <1>1, <1>2 DEF FreshInv, CountInv, tables, stores
<1>4. LookInv'
  BY <1>1, <1>2 DEF FreshInv, LookInv
<1>5. FreshAnswers'
  BY <1>1, <1>2 DEF FreshInv, FreshAnswers
<1>6. ASSUME ~missed'
      PROVE  VersionInv'
  <2>1. VersionInv /\ key' = [key EXCEPT ![r] = version] /\ UNCHANGED caches
    BY <1>2, <1>6 DEF FreshInv
  <2>2. Active(r)' /\ key'[r] = version /\ floor'[r] = stored
    BY <1>1, <1>2, <2>1 DEF Active
  <2>3. \A q \in Readers \ {r} :
          key'[q] = key[q] /\ floor'[q] = floor[q] /\ (Active(q)' <=> Active(q))
    BY <1>1, <1>2, <2>1 DEF Active
  <2>4. /\ \A c \in cache' : c.version <= version'
        /\ \A c \in cache' : c.version = version' => AsNew(c.answer, stored')
    BY <1>2, <2>1 DEF VersionInv, AsNew, caches
  <2>5. ASSUME NEW q \in Readers, Active(q)'
        PROVE  /\ key'[q] <= version'
               /\ key'[q] = version' => floor'[q] = stored'
               /\ \A c \in cache' : c.version = key'[q] => AsNew(c.answer, floor'[q])
    <3>1. CASE q = r
      BY <1>1, <1>2, <2>1, <2>2, <3>1 DEF VersionInv, AsNew, caches
    <3>2. CASE q # r
      BY <1>2, <2>1, <2>3, <2>5, <3>2 DEF VersionInv, AsNew, caches
    <3> QED
      BY <3>1, <3>2
  <2>6. ASSUME NEW q \in Readers, NEW p \in Readers, Active(q)', Active(p)',
               key'[p] = key'[q]
        PROVE  floor'[p] = floor'[q]
    <3>1. CASE p = r \/ q = r
      BY <1>2, <2>1, <2>2, <2>5, <2>6, <3>1 DEF caches
    <3>2. CASE p # r /\ q # r
      BY <2>1, <2>3, <2>6, <3>2 DEF VersionInv
    <3> QED
      BY <3>1, <3>2
  <2> QED
    BY <2>4, <2>5, <2>6 DEF VersionInv
<1> QED
  BY <1>3, <1>4, <1>5, <1>6 DEF FreshInv

\* The steps of a reader that has begun.
LEMMA FreshReader ==
  ASSUME TypeOK, FreshInv, NEW r \in Readers,
         \/ RetrieveHits(r) \/ RetrieveMisses(r) \/ RetrieveRanks(r)
         \/ (\E e \in Episodes : RetrieveLooks(r, e)) \/ RetrieveFallsBack(r)
         \/ RetrieveReads(r) \/ RetrieveCaches(r)
  PROVE  FreshInv'
<1>1. /\ answer \in [Readers -> Answers] /\ left \in [Readers -> SUBSET Episodes]
      /\ rpc \in [Readers -> ReaderLabels]
      /\ floor \in [Readers -> Answers] /\ changes \in [Episodes -> Nat]
      /\ cache \subseteq Entries /\ key \in [Readers -> Nat]
  BY DEF TypeOK, TablesTypeOK, HistoryTypeOK, CachesTypeOK, ReadersTypeOK
<1>2. /\ UNCHANGED <<tables, stores, stored, change, floor, missed, version, key>>
      /\ Active(r) /\ Active(r)'
      /\ \A q \in Readers \ {r} : /\ rpc'[q] = rpc[q] /\ answer'[q] = answer[q]
                                  /\ left'[q] = left[q]
  BY <1>1 DEF RetrieveHits, RetrieveMisses, RetrieveRanks, RetrieveLooks,
     RetrieveFallsBack, RetrieveReads, RetrieveCaches, Searched, Active, caches, history
<1>3. \A q \in Readers : Active(q)' <=> Active(q)
  BY <1>2 DEF Active
<1>4. CountInv'
  BY <1>2 DEF FreshInv, CountInv, tables, stores
<1>5. CASE RetrieveHits(r)
  <2>1. PICK c \in cache : c.version = key[r] /\ answer' = [answer EXCEPT ![r] = c.answer]
    BY <1>5 DEF RetrieveHits, Under
  <2>2. UNCHANGED cache /\ rpc'[r] = "answer"
    BY <1>1, <1>5 DEF RetrieveHits, caches
  <2>3. ~missed => AsNew(c.answer, floor[r]) /\ answer'[r] = c.answer
    BY <1>1, <1>2, <2>1 DEF FreshInv, VersionInv
  <2>4. FreshAnswers'
    BY <1>2, <2>2, <2>3 DEF FreshInv, FreshAnswers, AsNew
  <2>5. LookInv'
    BY <1>2, <2>2 DEF FreshInv, LookInv
  <2>6. ~missed' => VersionInv'
    BY <1>2, <1>3, <2>2 DEF FreshInv, VersionInv, AsNew
  <2> QED
    BY <1>4, <2>4, <2>5, <2>6 DEF FreshInv
\* A step before the answer is there leaves the cache and the answers given alone.
<1>6. ASSUME cache' = cache, rpc'[r] # "answer",
             \A e \in Episodes :
               rpc'[r] = "found" \/ (rpc'[r] = "look" /\ e \notin left'[r])
                 => floor[r][e] <= answer'[r][e]
      PROVE  FreshInv'
  <2>1. FreshAnswers'
    BY <1>2, <1>6 DEF FreshInv, FreshAnswers
  <2>2. LookInv'
    BY <1>2, <1>6 DEF FreshInv, LookInv
  <2>3. ~missed' => VersionInv'
    BY <1>2, <1>3, <1>6 DEF FreshInv, VersionInv, AsNew
  <2> QED
    BY <1>4, <2>1, <2>2, <2>3 DEF FreshInv
<1>9. CASE RetrieveMisses(r) \/ RetrieveFallsBack(r)
  <2>1. cache' = cache /\ rpc'[r] \in {"search", "text"}
    BY <1>1, <1>9 DEF RetrieveMisses, RetrieveFallsBack, caches
  <2> QED
    BY <1>6, <2>1
<1>10. CASE RetrieveRanks(r) \/ RetrieveReads(r)
  <2>1. cache' = cache /\ rpc'[r] \in {"look", "found"} /\ answer'[r] = changes
    BY <1>1, <1>10 DEF RetrieveRanks, RetrieveReads, caches
  <2>2. \A e \in Episodes : floor[r][e] <= answer'[r][e]
    BY <2>1 DEF FreshInv, CountInv
  <2> QED
    BY <1>6, <2>1, <2>2
<1>7. ASSUME NEW e \in Episodes, RetrieveLooks(r, e)
      PROVE  FreshInv'
  <2>1. /\ cache' = cache /\ rpc[r] = "look" /\ rpc' = rpc /\ left'[r] = left[r] \ {e}
        /\ answer' = [answer EXCEPT ![r] = [answer[r] EXCEPT ![e] = changes[e]]]
    BY <1>1, <1>7 DEF RetrieveLooks, caches
  <2>2. /\ answer'[r][e] = changes[e]
        /\ \A f \in Episodes \ {e} : answer'[r][f] = answer[r][f]
    BY <1>1, <2>1 DEF Answers
  <2>3. \A f \in Episodes : f \notin left'[r] => floor[r][f] <= answer'[r][f]
    BY <2>1, <2>2 DEF FreshInv, CountInv, LookInv
  <2> QED
    BY <1>6, <2>1, <2>3
<1>8. CASE RetrieveCaches(r)
  <2>1. /\ rpc[r] = "found" \/ (rpc[r] = "look" /\ left[r] = {})
        /\ rpc'[r] = "answer" /\ UNCHANGED answer
        /\ cache' = cache \/ cache' = Cached(key[r], answer[r], told[r])
    BY <1>1, <1>8 DEF RetrieveCaches, Searched
  <2>2. AsNew(answer[r], floor[r])
    BY <2>1 DEF FreshInv, LookInv, AsNew
  <2>3. FreshAnswers'
    BY <1>2, <2>1, <2>2 DEF FreshInv, FreshAnswers, AsNew
  <2>4. LookInv'
    BY <1>2, <2>1 DEF FreshInv, LookInv
  <2>5. ASSUME ~missed'
        PROVE  VersionInv'
    <3>1. VersionInv
      BY <1>2, <2>5 DEF FreshInv
    <3>2. \A c \in cache' :
            c \in cache \/ (c.version = key[r] /\ c.answer = answer[r])
      BY <2>1 DEF Cached
    <3>3. key[r] <= version /\ (key[r] = version => floor[r] = stored)
      BY <1>2, <3>1 DEF VersionInv
    <3>4. /\ \A c \in cache' : c.version <= version'
          /\ \A c \in cache' : c.version = version' => AsNew(c.answer, stored')
      BY <1>2, <2>2, <3>1, <3>2, <3>3 DEF VersionInv, AsNew
    <3>5. ASSUME NEW q \in Readers, Active(q), NEW c \in cache', c.version = key[q]
          PROVE  AsNew(c.answer, floor[q])
      <4>1. CASE c \in cache
        BY <3>1, <3>5, <4>1 DEF VersionInv
      <4>2. CASE c.version = key[r] /\ c.answer = answer[r]
        <5>1. floor[q] = floor[r]
          BY <1>2, <3>1, <3>5, <4>2 DEF VersionInv
        <5> QED
          BY <2>2, <4>2, <5>1
      <4> QED
        BY <3>2, <4>1, <4>2
    <3>6. \A q \in Readers, c \in cache' :
            Active(q)' /\ c.version = key'[q] => AsNew(c.answer, floor'[q])
      BY <1>2, <1>3, <3>5
    <3>7. \A q \in Readers : Active(q)' =>
            /\ key'[q] <= version'
            /\ key'[q] = version' => floor'[q] = stored'
            /\ \A p \in Readers : Active(p)' /\ key'[p] = key'[q] => floor'[p] = floor'[q]
      BY <1>2, <1>3, <3>1 DEF VersionInv
    <3> QED
      BY <3>4, <3>6, <3>7 DEF VersionInv, AsNew
  <2> QED
    BY <1>4, <2>3, <2>4, <2>5 DEF FreshInv
<1> QED
  BY <1>5, <1>7, <1>8, <1>9, <1>10

\* Readers that end, die with the service, or find less in the cache.
LEMMA FreshLess ==
  ASSUME TypeOK, FreshInv,
         \/ \E r \in Readers : RetrieveEnds(r)
         \/ \E c \in cache : CacheExpires(c)
         \/ Crash
  PROVE  FreshInv'
<1>1. /\ rpc \in [Readers -> ReaderLabels]
      /\ floor \in [Readers -> Answers] /\ changes \in [Episodes -> Nat]
      /\ key \in [Readers -> Nat] /\ answer \in [Readers -> Answers]
  BY DEF TypeOK, TablesTypeOK, HistoryTypeOK, ReadersTypeOK
<1>2. /\ UNCHANGED <<changes, target, version, stored, change, missed>>
      /\ cache' \subseteq cache
      /\ \A s \in Stores : pc'[s] = "invalidate" => pc[s] = "invalidate"
  BY DEF RetrieveEnds, CacheExpires, Crash, Rollback, tables, stores, caches, history
<1>3. ASSUME NEW r \in Readers
      PROVE  \/ ~Active(r)' /\ floor'[r] = Nothing
             \/ /\ rpc'[r] = rpc[r] /\ key'[r] = key[r] /\ left'[r] = left[r]
                /\ answer'[r] = answer[r] /\ floor'[r] = floor[r]
  BY <1>1 DEF RetrieveEnds, CacheExpires, Crash, Active, readers, history
<1>4. CountInv'
  <2>1. \A r \in Readers, e \in Episodes : floor'[r][e] <= changes[e]
    BY <1>1, <1>3 DEF FreshInv, CountInv, Nothing
  <2> QED
    BY <1>2, <2>1 DEF FreshInv, CountInv
<1>5. LookInv' /\ FreshAnswers'
  BY <1>2, <1>3 DEF FreshInv, LookInv, FreshAnswers, Active
<1>6. ASSUME ~missed'
      PROVE  VersionInv'
  <2>1. VersionInv
    BY <1>2, <1>6 DEF FreshInv
  <2>2. \A r \in Readers : Active(r)' =>
          Active(r) /\ key'[r] = key[r] /\ floor'[r] = floor[r]
    BY <1>3 DEF Active
  <2> QED
    BY <1>2, <2>1, <2>2 DEF VersionInv, AsNew
<1> QED
  BY <1>4, <1>5, <1>6 DEF FreshInv

LEMMA FreshNext ==
  ASSUME Backend = "redis", TypeOK, FreshInv, [Next]_vars
  PROVE  FreshInv'
<1>0. /\ pc \in [Stores -> Labels] /\ target \in [Stores -> Episodes]
      /\ changes \in [Episodes -> Nat] /\ change \in [Stores -> Nat]
  BY DEF TypeOK, TablesTypeOK, StoresTypeOK, HistoryTypeOK
<1>1. ASSUME UNCHANGED <<target, change, caches, readers, stored, floor, missed>>,
             \A s \in Stores : pc'[s] = "invalidate" => pc[s] = "invalidate"
      PROVE  FreshInv'
  <2>1. \A s \in Stores : pc'[s] = "invalidate" => change'[s] <= changes'[target'[s]]
    BY <1>0, <1>1, ChangesGrow DEF FreshInv, CountInv
  <2> QED
    BY <1>1, <2>1, NoFreshStep
<1>2. ASSUME NEW s \in Stores,
             \/ StoreWritesPng(s) \/ StoreCannotWrite(s) \/ StoreRollsBack(s)
             \/ StoreRemovesPng(s) \/ StoreInsertsEpisode(s) \/ StoreFindsImages(s)
             \/ StoreDeletesImages(s) \/ StoreInsertsImage(s) \/ StoreFindsTexts(s)
             \/ StoreDeletesTexts(s) \/ Embed(s)
      PROVE  FreshInv'
  <2>1. UNCHANGED <<target, change, caches, readers, stored, floor, missed>>
    BY <1>2 DEF StoreWritesPng, StoreCannotWrite, StoreRollsBack, StoreRemovesPng,
       StoreInsertsEpisode, StoreFindsImages, StoreDeletesImages, StoreInsertsImage,
       StoreFindsTexts, StoreDeletesTexts, Statement, Embed, TaskEmbeds, TaskFails,
       TaskEnds, history
  <2>2. \A t \in Stores : pc'[t] = "invalidate" => pc[t] = "invalidate"
    BY <1>0, <1>2 DEF StoreWritesPng, StoreCannotWrite, StoreRollsBack,
       StoreRemovesPng, StoreInsertsEpisode, StoreFindsImages, StoreDeletesImages,
       StoreInsertsImage, StoreFindsTexts, StoreDeletesTexts, Statement, Embed,
       TaskEmbeds, TaskFails, TaskEnds, Goto
  <2> QED
    BY <1>1, <2>1, <2>2
<1>3. ASSUME Retention \/ UNCHANGED vars
      PROVE  FreshInv'
  <2>1. UNCHANGED <<target, change, caches, readers, stored, floor, missed, pc>>
    BY <1>3 DEF Retention, RetentionSelects, RetentionPicks, RetentionDeletes,
       RetentionCannotDelete, RetentionRemovesPng, RetentionEnds, stores, history, vars
  <2> QED
    BY <1>1, <2>1
<1> QED
  BY <1>2, <1>3, FreshCommit, FreshInvalidate, FreshBegins, FreshReader, FreshLess
  DEF Next, Store, StoreStep, Retrieve

\* With Redis, and as long as no call that reads or increments the version has
\* failed, no retrieve answers from a search made before a store that was done when
\* it began, whether the search found an episode or left it out: for any number of
\* requests, failing searches, retention runs, expiries and deaths of the service.
THEOREM FreshAlways == ASSUME Backend = "redis" PROVE Spec => []FreshAnswers
<1>1. TypeOK /\ FreshInv /\ [Next]_vars => TypeOK' /\ FreshInv'
  BY NextType, FreshNext
<1>2. FreshInv => FreshAnswers
  BY DEF FreshInv
<1> QED
  BY <1>1, <1>2, InitType, FreshInit, PTL DEF Spec

-----------------------------------------------------------------------------
(***************************************************************************)
(* Episodes on which one at a time has worked and nobody has failed: for   *)
(* each stage of the one at work, what it has done and has still to do.    *)
(***************************************************************************)
Sweeping(e) == step \in {"delete", "remove"} /\ victim[1] = e

Works(s) == Serving(s) \/ task[s] = "pending"

Agrees(e) ==
  IF e \in episodes
  THEN images[e] = {png[e]} /\ texts[e] = {png[e]} /\ vectors[e] = png[e]
  ELSE png[e] = NoStore

\* All rows but the embedding are those of s.
Rewritten(e, s) ==
  e \in episodes /\ images[e] = {s} /\ texts[e] = {s} /\ png[e] = s

\* In the transaction of s: it finds and deletes all that there is.
Replacing(e, s) ==
  /\ png[e] = s
  /\ pc[s] = "deleteImages" => tx[s].snap = images[e]
  /\ pc[s] \in {"insertImage", "findTexts", "deleteTexts", "commit"} =>
       tx[s].images = images[e]
  /\ pc[s] = "deleteTexts" => tx[s].snap = texts[e]
  /\ pc[s] = "commit" => tx[s].texts = texts[e]

StoreOn(e, s) ==
  /\ pc[s] # "cleanup"
  /\ pc[s] \in InTransaction => Replacing(e, s)
  /\ task[s] = "pending" => pc[s] \in {"invalidate", "over"} /\ Rewritten(e, s)
  /\ pc[s] = "invalidate" /\ task[s] = "none" => Agrees(e)

\* Whether there is a file to remove was read before the rows were deleted.
SweepOn(e) ==
  /\ \A s \in StoresOf(e) : ~Works(s)
  /\ step = "delete" => Agrees(e) /\ (victim[2] <=> images[e] # {})
  /\ step = "remove" => e \notin episodes /\ (victim[2] \/ png[e] = NoStore)

QuietOn(e) ==
  /\ ~Busy(e) => Agrees(e)
  /\ \A s, t \in StoresOf(e) : Works(s) /\ Works(t) => s = t
  /\ Sweeping(e) => SweepOn(e)
  /\ \A s \in StoresOf(e) : StoreOn(e, s)

QuietInv == \A e \in Episodes \ mixed : QuietOn(e)

LEMMA BusyMeans ==
  ASSUME NEW e
  PROVE  /\ Busy(e) <=> Sweeping(e) \/ \E s \in StoresOf(e) : Works(s)
         /\ Busy(e)' <=> Sweeping(e)' \/ \E s \in StoresOf(e)' : Works(s)'
BY DEF Busy, Sweeping, Works

\* A step that neither changes what there is of an episode nor those at work on it.
LEMMA Elsewhere ==
  ASSUME NEW e, QuietOn(e), UNCHANGED target,
         \A s \in StoresOf(e) : pc'[s] = pc[s] /\ task'[s] = task[s] /\ tx'[s] = tx[s],
         e \in episodes' <=> e \in episodes, images'[e] = images[e],
         texts'[e] = texts[e], vectors'[e] = vectors[e], png'[e] = png[e],
         \/ UNCHANGED <<step, victim>>
         \/ ~Sweeping(e) /\ ~Sweeping(e)'
  PROVE  QuietOn(e)'
<1>1. StoresOf(e)' = StoresOf(e) /\ (Sweeping(e)' <=> Sweeping(e))
  BY DEF StoresOf, Sweeping
<1>2. \A s \in StoresOf(e) : Works(s)' <=> Works(s)
  BY DEF Works, Serving
<1>3. Busy(e)' <=> Busy(e)
  BY <1>1, <1>2, BusyMeans
<1>4. Agrees(e)' <=> Agrees(e)
  BY DEF Agrees
<1>5. \A s \in StoresOf(e) : StoreOn(e, s)'
  BY <1>4 DEF QuietOn, StoreOn, Replacing, Rewritten
<1>6. Sweeping(e)' => SweepOn(e)'
  BY <1>1, <1>2, <1>4 DEF QuietOn, SweepOn
<1> QED
  BY <1>1, <1>2, <1>3, <1>4, <1>5, <1>6 DEF QuietOn

\* A step of the one store that works on an episode.
LEMMA AloneStep ==
  ASSUME NEW e, QuietOn(e), UNCHANGED <<target, step, victim>>,
         NEW s \in StoresOf(e), Works(s) \/ ~Busy(e),
         \A t \in StoresOf(e) \ {s} : pc'[t] = pc[t] /\ task'[t] = task[t],
         StoreOn(e, s)', ~Works(s)' => Agrees(e)'
  PROVE  QuietOn(e)'
<1>1. \A t \in StoresOf(e) \ {s} : ~Works(t) /\ ~Works(t)'
  BY BusyMeans DEF QuietOn, Works, Serving
<1>2. StoresOf(e)' = StoresOf(e) /\ ~Sweeping(e) /\ ~Sweeping(e)'
  BY BusyMeans DEF StoresOf, Sweeping, QuietOn, SweepOn
<1>3. Works(s)' => Busy(e)'
  BY <1>2, BusyMeans
<1>4. ASSUME NEW t \in StoresOf(e) \ {s} PROVE StoreOn(e, t)'
  BY <1>1, <1>4 DEF StoreOn, Works, Serving, InTransaction
<1> QED
  BY <1>1, <1>2, <1>3, <1>4 DEF QuietOn

LEMMA QuietStatements ==
  ASSUME TypeOK, QuietInv, NEW s \in Stores, NEW e, e = target[s], e \notin mixed,
         \/ StoreInsertsEpisode(s) \/ StoreFindsImages(s) \/ StoreDeletesImages(s)
         \/ StoreInsertsImage(s) \/ StoreFindsTexts(s) \/ StoreDeletesTexts(s)
  PROVE  QuietOn(e)'
<1>1. /\ tx \in [Stores -> Transaction] /\ pc \in [Stores -> Labels] /\ e \in Episodes
      /\ images \in [Episodes -> SUBSET Stores] /\ texts \in [Episodes -> SUBSET Stores]
      /\ s \in StoresOf(e)
  BY DEF TypeOK, TablesTypeOK, StoresTypeOK, StoresOf
<1>2. /\ UNCHANGED <<target, step, victim, task, png, images, texts>>
      /\ \A t \in StoresOf(e) \ {s} : pc'[t] = pc[t]
      /\ pc[s] \in InTransaction /\ pc'[s] \in InTransaction
  <2>1. PICK at \in InTransaction, to \in InTransaction : Statement(s, at, to)
    BY DEF StoreInsertsEpisode, StoreFindsImages, StoreDeletesImages,
       StoreInsertsImage, StoreFindsTexts, StoreDeletesTexts, InTransaction
  <2>2. UNCHANGED <<images, texts>>
    BY DEF StoreInsertsEpisode, StoreFindsImages, StoreDeletesImages,
       StoreInsertsImage, StoreFindsTexts, StoreDeletesTexts, InsertEpisode,
       FindImages, DeleteImages, InsertImage, FindTexts, DeleteTexts
  <2> QED
    BY <1>1, <2>1, <2>2 DEF Statement, Goto, sweep, StoresOf
<1>3. Works(s) /\ Works(s)'
  BY <1>2 DEF Works, Serving, InTransaction
<1>4. QuietOn(e) /\ StoreOn(e, s)
  BY <1>1 DEF QuietInv, QuietOn
<1>5. Replacing(e, s) /\ task[s] # "pending" /\ pc[s] # "cleanup"
  BY <1>2, <1>4 DEF StoreOn, InTransaction
<1>6. Replacing(e, s)'
  <2>1. CASE StoreInsertsEpisode(s)
    BY <1>1, <1>2, <1>5, <2>1 DEF StoreInsertsEpisode, Statement, Goto, Replacing
  <2>2. CASE StoreFindsImages(s)
    <3>1. tx'[s].snap = images[e] /\ pc'[s] = "deleteImages"
      BY <1>1, <2>2 DEF StoreFindsImages, FindImages, Statement, Goto, Transaction
    <3> QED
      BY <1>2, <1>5, <3>1 DEF Replacing
  <2>3. CASE StoreDeletesImages(s)
    <3>1. tx'[s].images = tx[s].snap \cap images[e] /\ pc'[s] = "insertImage"
          /\ pc[s] = "deleteImages"
      BY <1>1, <2>3 DEF StoreDeletesImages, DeleteImages, Statement, Goto, Transaction
    <3> QED
      BY <1>2, <1>5, <3>1 DEF Replacing
  <2>4. CASE StoreInsertsImage(s)
    <3>1. tx'[s].images = tx[s].images /\ pc'[s] = "findTexts" /\ pc[s] = "insertImage"
      BY <1>1, <2>4 DEF StoreInsertsImage, InsertImage, Statement, Goto, Transaction
    <3> QED
      BY <1>2, <1>5, <3>1 DEF Replacing
  <2>5. CASE StoreFindsTexts(s)
    <3>1. /\ tx'[s].images = tx[s].images /\ tx'[s].snap = texts[e]
          /\ pc'[s] = "deleteTexts" /\ pc[s] = "findTexts"
      BY <1>1, <2>5 DEF StoreFindsTexts, FindTexts, Statement, Goto, Transaction
    <3> QED
      BY <1>2, <1>5, <3>1 DEF Replacing
  <2>6. CASE StoreDeletesTexts(s)
    <3>1. /\ tx'[s].images = tx[s].images /\ tx'[s].texts = tx[s].snap \cap texts[e]
          /\ pc'[s] = "commit" /\ pc[s] = "deleteTexts"
      BY <1>1, <2>6 DEF StoreDeletesTexts, DeleteTexts, Statement, Goto, Transaction
    <3> QED
      BY <1>2, <1>5, <3>1 DEF Replacing
  <2> QED
    BY <2>1, <2>2, <2>3, <2>4, <2>5, <2>6
<1>7. StoreOn(e, s)'
  BY <1>2, <1>5, <1>6 DEF StoreOn, InTransaction
<1> QED
  BY <1>1, <1>2, <1>3, <1>4, <1>7, AloneStep

LEMMA QuietStore ==
  ASSUME TypeOK, QuietInv, NEW s \in Stores, NEW e, e = target[s], e \notin mixed',
         Store(s) \/ Embed(s)
  PROVE  QuietOn(e)'
<1>1. /\ tx \in [Stores -> Transaction] /\ pc \in [Stores -> Labels] /\ e \in Episodes
      /\ images \in [Episodes -> SUBSET Stores] /\ texts \in [Episodes -> SUBSET Stores]
      /\ png \in [Episodes -> Stores \cup {NoStore, "torn"}] /\ s \in StoresOf(e)
      /\ task \in [Stores -> {"none", "pending"}] /\ mixed \subseteq Episodes
      /\ vectors \in [Episodes -> Stores \cup {NoStore}]
  BY DEF TypeOK, TablesTypeOK, StoresTypeOK, StoresOf, HistoryTypeOK
<1>2. CASE StoreWritesPng(s)
  <2>1. ~Busy(e)
    BY <1>1, <1>2 DEF StoreWritesPng
  <2>2. ~Sweeping(e) /\ \A t \in StoresOf(e) : ~Works(t)
    BY <2>1, BusyMeans
  <2>3. /\ UNCHANGED <<target, step, victim, task>> /\ pc'[s] = "insert" /\ png'[e] = s
        /\ \A t \in StoresOf(e) \ {s} : pc'[t] = pc[t]
    BY <1>1, <1>2 DEF StoreWritesPng, Goto, sweep
  <2>4. task[s] # "pending"
    BY <1>1, <2>2 DEF Works
  <2>5. StoreOn(e, s)' /\ Works(s)'
    BY <2>3, <2>4 DEF StoreOn, Replacing, Works, Serving
  <2>6. \A t \in StoresOf(e) \ {s} : ~Works(t)' /\ StoreOn(e, t)'
    BY <2>2, <2>3 DEF StoreOn, Works, Serving, InTransaction
  <2>7. StoresOf(e)' = StoresOf(e) /\ ~Sweeping(e)' /\ Busy(e)'
    BY <1>1, <2>2, <2>3, <2>5, BusyMeans DEF StoresOf, Sweeping
  <2> QED
    BY <2>5, <2>6, <2>7 DEF QuietOn
<1>3. CASE StoreCannotWrite(s) \/ StoreRollsBack(s) \/ TaskFails(s)
  BY <1>3 DEF StoreCannotWrite, StoreRollsBack, TaskFails
<1>4. CASE StoreRemovesPng(s)
  <2>1. e \notin mixed /\ pc[s] = "cleanup"
    BY <1>4 DEF StoreRemovesPng, history
  <2> QED
    BY <1>1, <2>1 DEF QuietInv, QuietOn, StoreOn
<1>5. CASE StoreCommits(s)
  <2>1. e \notin mixed /\ pc[s] = "commit"
    BY <1>5 DEF StoreCommits
  <2>2. QuietOn(e) /\ Works(s) /\ Replacing(e, s)
    BY <1>1, <2>1 DEF QuietInv, QuietOn, StoreOn, Works, Serving, InTransaction
  <2>3. /\ e \in episodes' /\ UNCHANGED <<target, step, victim, png>>
        /\ images'[e] = (images[e] \ tx[s].images) \cup {s}
        /\ texts'[e] = (texts[e] \ tx[s].texts) \cup {s}
        /\ pc'[s] = "invalidate" /\ task'[s] = "pending"
        /\ \A t \in StoresOf(e) \ {s} : pc'[t] = pc[t] /\ task'[t] = task[t]
    BY <1>1, <1>5 DEF StoreCommits, Commit, Goto, sweep
  <2>4. Rewritten(e, s)'
    BY <2>1, <2>2, <2>3 DEF Replacing, Rewritten
  <2>5. StoreOn(e, s)' /\ Works(s)'
    BY <2>3, <2>4 DEF StoreOn, Works, InTransaction
  <2> QED
    BY <1>1, <2>2, <2>3, <2>5, AloneStep
<1>6. CASE StoreInvalidates(s)
  <2>1. e \notin mixed /\ pc[s] = "invalidate"
    BY <1>6 DEF StoreInvalidates
  <2>2. QuietOn(e) /\ Works(s) /\ StoreOn(e, s)
    BY <1>1, <2>1 DEF QuietInv, QuietOn, Works, Serving
  <2>3. /\ UNCHANGED <<target, step, victim, png, task, episodes, images, texts, vectors>>
        /\ pc'[s] = "over" /\ \A t \in StoresOf(e) \ {s} : pc'[t] = pc[t]
    BY <1>1, <1>6 DEF StoreInvalidates, Goto, sweep, tables
  <2>4. StoreOn(e, s)'
    BY <2>1, <2>2, <2>3 DEF StoreOn, Rewritten, InTransaction
  <2>5. ~Works(s)' => Agrees(e)'
    BY <1>1, <2>1, <2>2, <2>3 DEF Works, StoreOn, Agrees
  <2> QED
    BY <1>1, <2>2, <2>3, <2>4, <2>5, AloneStep
<1>7. CASE TaskEmbeds(s)
  <2>1. e \notin mixed /\ task[s] = "pending"
    BY <1>7 DEF TaskEmbeds, TaskEnds
  <2>2. QuietOn(e) /\ Works(s) /\ Rewritten(e, s) /\ pc[s] \in {"invalidate", "over"}
    BY <1>1, <2>1 DEF QuietInv, QuietOn, Works, StoreOn
  <2>3. /\ UNCHANGED <<target, step, victim, png, pc, episodes, images, texts>>
        /\ vectors'[e] = s /\ task'[s] = "none"
        /\ \A t \in StoresOf(e) \ {s} : task'[t] = task[t]
    BY <1>1, <1>7, <2>2 DEF TaskEmbeds, TaskEnds, SetVector, Rewritten, sweep
  <2>4. Agrees(e)'
    BY <2>2, <2>3 DEF Rewritten, Agrees
  <2>5. StoreOn(e, s)'
    BY <2>2, <2>3, <2>4 DEF StoreOn, InTransaction
  <2> QED
    BY <1>1, <2>2, <2>3, <2>4, <2>5, AloneStep
<1>8. CASE \/ StoreInsertsEpisode(s) \/ StoreFindsImages(s) \/ StoreDeletesImages(s)
           \/ StoreInsertsImage(s) \/ StoreFindsTexts(s) \/ StoreDeletesTexts(s)
  <2>1. e \notin mixed
    BY <1>8 DEF StoreInsertsEpisode, StoreFindsImages, StoreDeletesImages,
       StoreInsertsImage, StoreFindsTexts, StoreDeletesTexts, Statement, history
  <2> QED
    BY <1>8, <2>1, QuietStatements
<1> QED
  BY <1>2, <1>3, <1>4, <1>5, <1>6, <1>7, <1>8 DEF Store, StoreStep, Embed

\* What a store does to other episodes than its own.
LEMMA OtherEpisodes ==
  ASSUME TypeOK, NEW s \in Stores, Store(s) \/ Embed(s),
         NEW e \in Episodes, e # target[s], e \notin mixed', QuietInv
  PROVE  QuietOn(e)'
<1>1. /\ tx \in [Stores -> Transaction] /\ pc \in [Stores -> Labels]
      /\ images \in [Episodes -> SUBSET Stores] /\ texts \in [Episodes -> SUBSET Stores]
      /\ png \in [Episodes -> Stores \cup {NoStore, "torn"}] /\ target[s] \in Episodes
      /\ task \in [Stores -> {"none", "pending"}]
      /\ vectors \in [Episodes -> Stores \cup {NoStore}]
  BY DEF TypeOK, TablesTypeOK, StoresTypeOK
<1>2. \A t \in StoresOf(e) : t # s /\ t \in Stores
  BY DEF StoresOf
<1>3. UNCHANGED <<target, step, victim>> /\ e \notin mixed
  BY DEF Store, StoreStep, Embed, sweep, history, StoreWritesPng, StoreCannotWrite,
     StoreInsertsEpisode, StoreFindsImages, StoreDeletesImages, StoreInsertsImage,
     StoreFindsTexts, StoreDeletesTexts, Statement, StoreCommits, StoreRollsBack,
     StoreRemovesPng, StoreInvalidates, TaskEmbeds, TaskFails, TaskEnds
<1>4. \A t \in Stores \ {s} : pc'[t] = pc[t] /\ task'[t] = task[t]
  BY <1>1 DEF Store, StoreStep, Embed, Goto, StoreWritesPng, StoreCannotWrite,
     StoreInsertsEpisode, StoreFindsImages, StoreDeletesImages, StoreInsertsImage,
     StoreFindsTexts, StoreDeletesTexts, Statement, StoreCommits, StoreRollsBack,
     StoreRemovesPng, StoreInvalidates, TaskEmbeds, TaskFails, TaskEnds
<1>5. /\ e \in episodes' <=> e \in episodes
      /\ images'[e] = images[e] /\ texts'[e] = texts[e]
      /\ vectors'[e] = vectors[e] /\ png'[e] = png[e]
  BY <1>1 DEF Store, StoreStep, Embed, tables, StoreWritesPng, StoreCannotWrite,
     StoreInsertsEpisode, StoreFindsImages, StoreDeletesImages, StoreInsertsImage,
     StoreFindsTexts, StoreDeletesTexts, Statement, StoreCommits, StoreRollsBack,
     StoreRemovesPng, StoreInvalidates, InsertEpisode, FindImages, DeleteImages,
     InsertImage, FindTexts, DeleteTexts, Commit, Rollback, TaskEmbeds, TaskFails,
     TaskEnds, SetVector
<1>6. \A t \in Stores \ {s} : tx'[t] = tx[t]
  BY <1>1 DEF Store, StoreStep, Embed, tables, StoreWritesPng, StoreCannotWrite,
     StoreInsertsEpisode, StoreFindsImages, StoreDeletesImages, StoreInsertsImage,
     StoreFindsTexts, StoreDeletesTexts, StoreCommits, StoreRollsBack,
     StoreRemovesPng, StoreInvalidates, InsertEpisode, FindImages, DeleteImages,
     InsertImage, FindTexts, DeleteTexts, Commit, Rollback, TaskEmbeds, TaskFails,
     SetVector
<1>7. QuietOn(e)
  BY <1>3 DEF QuietInv
<1> QED
  BY <1>2, <1>3, <1>4, <1>5, <1>6, <1>7, Elsewhere

\* A retention run takes an episode that agrees, or leaves it.
LEMMA QuietSweep ==
  ASSUME TypeOK, QuietInv, Retention
  PROVE  QuietInv'
<1> SUFFICES ASSUME NEW e \in Episodes, e \notin mixed' PROVE QuietOn(e)'
  BY DEF QuietInv
<1>1. /\ images \in [Episodes -> SUBSET Stores] /\ texts \in [Episodes -> SUBSET Stores]
      /\ png \in [Episodes -> Stores \cup {NoStore, "torn"}]
  BY DEF TypeOK, TablesTypeOK, StoresTypeOK
<1>2. e \notin mixed /\ UNCHANGED <<target, pc, task, tx, vectors>>
  BY DEF Retention, RetentionSelects, RetentionPicks, RetentionDeletes, DeleteEpisode,
     RetentionCannotDelete, RetentionRemovesPng, RetentionEnds, tables, stores, history
<1>3. QuietOn(e)
  BY <1>2 DEF QuietInv
<1>4. /\ StoresOf(e)' = StoresOf(e)
      /\ \A s \in StoresOf(e) : Works(s)' <=> Works(s)
  BY <1>2 DEF StoresOf, Works, Serving
\* Where the run goes on with an episode or gives it back, no store works on it.
<1>5. ASSUME \A s \in StoresOf(e) : ~Works(s), Sweeping(e)' => SweepOn(e)',
             ~Sweeping(e)' => Agrees(e)'
      PROVE  QuietOn(e)'
  <2>1. \A s \in StoresOf(e) : StoreOn(e, s)'
    BY <1>2, <1>5 DEF StoreOn, Works, Serving, InTransaction
  <2> QED
    BY <1>4, <1>5, <2>1, BusyMeans DEF QuietOn
<1>6. CASE RetentionSelects \/ RetentionEnds
  <2>1. UNCHANGED <<episodes, images, texts, png>> /\ ~Sweeping(e) /\ ~Sweeping(e)'
    BY <1>6 DEF RetentionSelects, RetentionEnds, tables, stores, Sweeping
  <2> QED
    BY <1>2, <1>3, <2>1, Elsewhere
<1>7. ASSUME NEW f \in Episodes, RetentionPicks(f) PROVE QuietOn(e)'
  <2>1. /\ UNCHANGED <<episodes, images, texts, png>> /\ ~Sweeping(e)
        /\ step' = "delete"
    BY <1>7 DEF RetentionPicks, tables, stores, Sweeping
  <2>2. CASE e # f
    <3>1. \E b \in BOOLEAN : victim' = <<f, b>>
      BY <1>7, Zenon DEF RetentionPicks
    <3>2. victim'[1] = f
      BY <3>1
    <3>3. ~Sweeping(e)'
      BY <2>2, <3>2 DEF Sweeping
    <3> QED
      BY <1>2, <1>3, <2>1, <3>3, Elsewhere
  <2>3. CASE e = f
    <3>1. ~Busy(e) /\ victim' = <<e, images[e] # {}>>
      BY <1>7, <2>3 DEF RetentionPicks
    <3>2. Agrees(e) /\ \A s \in StoresOf(e) : ~Works(s)
      BY <1>3, <3>1, BusyMeans DEF QuietOn
    <3>3. Agrees(e)'
      BY <1>2, <2>1, <3>2 DEF Agrees
    <3>4. SweepOn(e)'
      BY <1>4, <2>1, <3>1, <3>2, <3>3 DEF SweepOn
    <3> QED
      BY <1>5, <3>2, <3>3, <3>4
  <2> QED
    BY <2>2, <2>3
<1>8. CASE RetentionDeletes
  <2>1. /\ step = "delete" /\ step' = "remove" /\ UNCHANGED <<victim, png>>
        /\ episodes' = episodes \ {victim[1]}
        /\ images' = [images EXCEPT ![victim[1]] = {}]
        /\ texts' = [texts EXCEPT ![victim[1]] = {}]
    BY <1>8 DEF RetentionDeletes, DeleteEpisode, stores
  <2>2. CASE victim[1] # e
    <3>1. ~Sweeping(e) /\ ~Sweeping(e)' /\ images'[e] = images[e] /\ texts'[e] = texts[e]
          /\ (e \in episodes' <=> e \in episodes)
      BY <1>1, <2>1, <2>2 DEF Sweeping
    <3> QED
      BY <1>2, <1>3, <2>1, <3>1, Elsewhere
  <2>3. CASE victim[1] = e
    <3>1. SweepOn(e) /\ Sweeping(e)'
      BY <1>3, <2>1, <2>3 DEF QuietOn, Sweeping
    <3>2. e \notin episodes' /\ (victim[2] \/ png[e] = NoStore)
      BY <2>1, <2>3, <3>1 DEF SweepOn, Agrees
    <3>3. SweepOn(e)'
      BY <1>4, <2>1, <3>1, <3>2 DEF SweepOn
    <3> QED
      BY <1>5, <3>1, <3>3 DEF SweepOn
  <2> QED
    BY <2>2, <2>3
<1>9. CASE RetentionCannotDelete
  <2>1. /\ step = "delete" /\ step' = "next"
        /\ UNCHANGED <<episodes, images, texts, png>> /\ ~Sweeping(e)'
    BY <1>9 DEF RetentionCannotDelete, tables, stores, Sweeping
  <2>2. CASE ~Sweeping(e)
    BY <1>2, <1>3, <2>1, <2>2, Elsewhere
  <2>3. CASE Sweeping(e)
    <3>1. SweepOn(e) /\ Agrees(e)
      BY <1>3, <2>1, <2>3 DEF QuietOn, SweepOn
    <3>2. Agrees(e)'
      BY <1>2, <2>1, <3>1 DEF Agrees
    <3> QED
      BY <1>5, <2>1, <3>1, <3>2 DEF SweepOn
  <2> QED
    BY <2>2, <2>3
<1>10. CASE RetentionRemovesPng
  <2>1. /\ step = "remove" /\ step' = "next" /\ UNCHANGED <<episodes, images, texts>>
        /\ ~Sweeping(e)'
    BY <1>10 DEF RetentionRemovesPng, tables, Sweeping
  <2>2. CASE victim[1] # e
    <3>1. png'[e] = png[e] /\ ~Sweeping(e)
      BY <1>1, <1>10, <2>2 DEF RetentionRemovesPng, Sweeping
    <3> QED
      BY <1>2, <1>3, <2>1, <3>1, Elsewhere
  <2>3. CASE victim[1] = e
    <3>1. SweepOn(e)
      BY <1>3, <2>1, <2>3 DEF QuietOn, Sweeping
    <3>2. png' = (IF victim[2] THEN [png EXCEPT ![victim[1]] = NoStore] ELSE png)
      BY <1>10, <2>3 DEF RetentionRemovesPng
    <3>3. e \notin episodes /\ png'[e] = NoStore
      BY <1>1, <2>1, <2>3, <3>1, <3>2 DEF SweepOn
    <3>4. Agrees(e)'
      BY <2>1, <3>3 DEF Agrees
    <3> QED
      BY <1>5, <2>1, <3>1, <3>4 DEF SweepOn
  <2> QED
    BY <2>2, <2>3
<1> QED
  BY <1>6, <1>7, <1>8, <1>9, <1>10 DEF Retention

LEMMA QuietNext == TypeOK /\ QuietInv /\ [Next]_vars => QuietInv'
<1> SUFFICES ASSUME TypeOK, QuietInv, [Next]_vars PROVE QuietInv'
  OBVIOUS
<1>1. ASSUME NEW s \in Stores, Store(s) \/ Embed(s) PROVE QuietInv'
  <2>1. target' = target
    BY <1>1 DEF Store, StoreStep, Embed, StoreWritesPng, StoreCannotWrite,
       StoreInsertsEpisode, StoreFindsImages, StoreDeletesImages, StoreInsertsImage,
       StoreFindsTexts, StoreDeletesTexts, Statement, StoreCommits, StoreRollsBack,
       StoreRemovesPng, StoreInvalidates, TaskEmbeds, TaskFails, TaskEnds
  <2>2. ASSUME NEW e \in Episodes, e \notin mixed' PROVE QuietOn(e)'
    <3>1. CASE e = target[s]
      BY <1>1, <2>2, <3>1, QuietStore
    <3>2. CASE e # target[s]
      BY <1>1, <2>2, <3>2, OtherEpisodes
    <3> QED
      BY <3>1, <3>2
  <2> QED
    BY <2>2 DEF QuietInv
<1>2. ASSUME \/ \E r \in Readers : Retrieve(r)
             \/ \E c \in cache : CacheExpires(c)
             \/ UNCHANGED vars
      PROVE  QuietInv'
  <2>1. UNCHANGED <<tables, stores, sweep, mixed>>
    BY <1>2 DEF Retrieve, RetrieveBegins, RetrieveHits, RetrieveMisses, RetrieveRanks,
       RetrieveLooks, RetrieveFallsBack, RetrieveReads, RetrieveCaches, RetrieveEnds,
       CacheExpires, vars, history
  <2> QED
    BY <2>1, Elsewhere DEF QuietInv, tables, stores, sweep
<1>3. CASE Crash
  <2>1. /\ mixed' = mixed \cup {e \in Episodes : Busy(e)}
        /\ UNCHANGED <<target, png, episodes, images, texts, vectors>>
        /\ step' = "idle" /\ task' = [s \in Stores |-> "none"]
        /\ pc' = [s \in Stores |-> IF pc[s] = "new" THEN "new" ELSE "over"]
    BY <1>3 DEF Crash, Rollback
  <2>2. ASSUME NEW e \in Episodes, e \notin mixed' PROVE QuietOn(e)'
    <3>1. Agrees(e)
      BY <2>1, <2>2 DEF QuietInv, QuietOn
    <3>2. Agrees(e)' /\ ~Sweeping(e)'
      BY <2>1, <3>1 DEF Agrees, Sweeping
    <3>3. ASSUME NEW s \in Stores PROVE ~Works(s)' /\ StoreOn(e, s)'
      BY <2>1 DEF Works, Serving, StoreOn, InTransaction
    <3>4. StoresOf(e)' \subseteq Stores
      BY DEF StoresOf
    <3> QED
      BY <3>2, <3>3, <3>4 DEF QuietOn
  <2> QED
    BY <2>2 DEF QuietInv
<1> QED
  BY <1>1, <1>2, <1>3, QuietSweep DEF Next

LEMMA QuietInit == Init => QuietInv
BY DEF Init, TablesInit, QuietInv, QuietOn, Agrees, Works, Serving, Sweeping, StoreOn,
   StoresOf, InTransaction

\* For any stores, retention runs, faults and deaths: whenever nobody is at work on
\* an episode, its file, rows and embedding are of one store, or all gone, unless
\* something failed or two worked on it at once after the last store that began
\* with the episode to itself; whatever was there before, such a store replaces.
THEOREM QuietAlways == Spec => []QuietEpisodesAgree
<1>1. TypeOK /\ QuietInv /\ [Next]_vars => TypeOK' /\ QuietInv'
  BY NextType, QuietNext
<1>2. QuietInv => QuietEpisodesAgree
  BY DEF QuietInv, QuietOn, Agrees, QuietEpisodesAgree
<1> QED
  BY <1>1, <1>2, InitType, QuietInit, PTL DEF Spec
=============================================================================
