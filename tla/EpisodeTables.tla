----------------------------- MODULE EpisodeTables -----------------------------
(***************************************************************************)
(* The tables episodes, visual_memories and text_logs (db.rs) and what the *)
(* statements of ocr_memory_rust/src/main.rs do to them in PostgreSQL, at  *)
(* its default isolation level, READ COMMITTED: a statement works on the   *)
(* rows committed when it starts, waits for the rows among them that other *)
(* open transactions have deleted, and then skips those that are gone.     *)
(* The rows that one store inserts for an episode are named by the store.  *)
(***************************************************************************)
EXTENDS Naturals, FiniteSets

CONSTANTS
  Episodes,     \* episode ids of one project
  Stores,       \* requests to store an episode
  NoStore       \* no row, no file

VARIABLES
  episodes,     \* the rows of episodes that are committed
  now,          \* the time, in INSERTs into episodes
  created,      \* created_at of each episode
  vectors,      \* episodes.embedding: the store whose text it is of, or NoStore
  images,       \* visual_memories: the stores whose row is committed
  texts,        \* text_logs: the stores whose rows are committed
  changes,      \* how often the texts of each episode have changed
  tx            \* the open transaction of each store

tables == <<episodes, now, created, vectors, images, texts, changes, tx>>

\* snap: what the DELETE that is running found; images, texts: the rows deleted.
\* creates: has inserted the episode.  refers: has inserted a row that refers to
\* it, and so keeps it from being deleted.
Transaction ==
  [snap : SUBSET Stores, images : SUBSET Stores, texts : SUBSET Stores,
   creates : BOOLEAN, refers : BOOLEAN]

NoTransaction ==
  [snap |-> {}, images |-> {}, texts |-> {}, creates |-> FALSE, refers |-> FALSE]

TablesInit ==
  /\ episodes = {}
  /\ now = 0
  /\ created = [e \in Episodes |-> 0]
  /\ vectors = [e \in Episodes |-> NoStore]
  /\ images = [e \in Episodes |-> {}]
  /\ texts = [e \in Episodes |-> {}]
  /\ changes = [e \in Episodes |-> 0]
  /\ tx = [s \in Stores |-> NoTransaction]

\* INSERT INTO episodes ... ON CONFLICT (id) DO NOTHING: it waits for a
\* transaction that has inserted the id, and locks nothing when the id is there.
InsertEpisode(s, e, others) ==
  /\ \A t \in others : ~tx[t].creates
  /\ IF e \in episodes
     THEN UNCHANGED <<now, created, tx>>
     ELSE /\ now' = now + 1
          /\ created' = [created EXCEPT ![e] = now']
          /\ tx' = [tx EXCEPT ![s].creates = TRUE]
  /\ UNCHANGED <<episodes, vectors, images, texts, changes>>

\* DELETE FROM visual_memories WHERE episode_id = $1, in two steps.
FindImages(s, e) ==
  /\ tx' = [tx EXCEPT ![s].snap = images[e]]
  /\ UNCHANGED <<episodes, now, created, vectors, images, texts, changes>>

DeleteImages(s, e, others) ==
  /\ \A t \in others : tx[t].images \cap tx[s].snap = {}
  /\ tx' = [tx EXCEPT ![s].images = tx[s].snap \cap images[e]]
  /\ UNCHANGED <<episodes, now, created, vectors, images, texts, changes>>

\* INSERT INTO visual_memories: the foreign key must be there.
MayInsertImage(s, e) == e \in episodes \/ tx[s].creates

InsertImage(s, e) ==
  /\ MayInsertImage(s, e)
  /\ tx' = [tx EXCEPT ![s].refers = TRUE]
  /\ UNCHANGED <<episodes, now, created, vectors, images, texts, changes>>

\* DELETE FROM text_logs WHERE episode_id = $1.
FindTexts(s, e) ==
  /\ tx' = [tx EXCEPT ![s].snap = texts[e]]
  /\ UNCHANGED <<episodes, now, created, vectors, images, texts, changes>>

DeleteTexts(s, e, others) ==
  /\ \A t \in others : tx[t].texts \cap tx[s].snap = {}
  /\ tx' = [tx EXCEPT ![s].texts = tx[s].snap \cap texts[e]]
  /\ UNCHANGED <<episodes, now, created, vectors, images, texts, changes>>

\* The INSERTs into text_logs, and COMMIT.
Commit(s, e) ==
  /\ episodes' = episodes \cup {e}
  /\ vectors' = IF tx[s].creates THEN [vectors EXCEPT ![e] = NoStore] ELSE vectors
  /\ images' = [images EXCEPT ![e] = (@ \ tx[s].images) \cup {s}]
  /\ texts' = [texts EXCEPT ![e] = (@ \ tx[s].texts) \cup {s}]
  /\ changes' = [changes EXCEPT ![e] = @ + 1]
  /\ tx' = [tx EXCEPT ![s] = NoTransaction]
  /\ UNCHANGED <<now, created>>

Rollback(those) ==
  /\ tx' = [s \in Stores |-> IF s \in those THEN NoTransaction ELSE tx[s]]
  /\ UNCHANGED <<episodes, now, created, vectors, images, texts, changes>>

\* UPDATE episodes SET embedding = $1 WHERE id = $2, which may find no row.
SetVector(s, e) ==
  /\ vectors' = IF e \in episodes THEN [vectors EXCEPT ![e] = s] ELSE vectors
  /\ UNCHANGED <<episodes, now, created, images, texts, changes, tx>>

\* A store that has deleted rows of an episode and goes on to refer to it, and a
\* DELETE of the episode that is to delete those rows, may wait for each other.
\* The database then makes one of the two fail.
MayCross(s, e) == e \in episodes /\ tx[s].images # {} /\ ~tx[s].refers

\* DELETE FROM episodes WHERE id = $1, and the rows that refer to it.  It waits
\* for transactions that have inserted or deleted such rows.
DeleteEpisode(e, others) ==
  /\ e \in episodes =>
       \A t \in others : ~tx[t].refers /\ tx[t].images \cup tx[t].texts = {}
  /\ episodes' = episodes \ {e}
  /\ images' = [images EXCEPT ![e] = {}]
  /\ texts' = [texts EXCEPT ![e] = {}]
  /\ changes' = IF e \in episodes THEN [changes EXCEPT ![e] = @ + 1] ELSE changes
  /\ UNCHANGED <<now, created, vectors, tx>>

-----------------------------------------------------------------------------
\* The kind of value that each table holds.
TablesTypeOK ==
  /\ episodes \subseteq Episodes
  /\ now \in Nat
  /\ created \in [Episodes -> Nat]
  /\ vectors \in [Episodes -> Stores \cup {NoStore}]
  /\ images \in [Episodes -> SUBSET Stores]
  /\ texts \in [Episodes -> SUBSET Stores]
  /\ changes \in [Episodes -> Nat]
  /\ tx \in [Stores -> Transaction]

\* An episode, its image rows and its text rows are there together, and none of
\* its texts is of a store whose image row is gone: the DELETEs of one store
\* never take one kind of rows of another store and leave the other.  (The
\* transaction of store_memory, as it interleaves with itself.)
RowsTogether ==
  \A e \in Episodes :
    /\ texts[e] \subseteq images[e]
    /\ (e \in episodes) <=> (texts[e] # {})
    /\ (e \in episodes) <=> (images[e] # {})

\* The texts of an episode are all of one store, so that each seq_index, by
\* which optical_retrieve picks them, is there once.
TextFromOneStore ==
  \A e \in Episodes : Cardinality(texts[e]) <= 1
=============================================================================
