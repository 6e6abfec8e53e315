-------------------------------- MODULE KeyRing --------------------------------
(***************************************************************************)
(* ocr_memory_rust/src/api_keys.rs: the keys of the memory service, while  *)
(* administrators create, rotate and revoke them (bin/minus.js keys,       *)
(* utils/key_manager.js) and clients send requests with them.              *)
(*                                                                         *)
(* Creating and revoking are one statement each.  Rotating is two, and     *)
(* others come between.  Raw keys are numbered in the order they are made; *)
(* EnvKey is the one of the environment variable API_KEY.  A statement     *)
(* that fails changes nothing and is answered with an error.               *)
(***************************************************************************)
EXTENDS Naturals

CONSTANTS
  KeyIds,     \* primary keys of api_keys
  Rotations,  \* requests to rotate a key
  Clients,    \* who sends requests to store or retrieve
  Projects,   \* project ids
  Global,     \* project_id NULL
  NoRow,      \* there is no such row
  MaxRaw      \* bound: how many raw keys are made

EnvKey == 0
Scopes == Projects \cup {Global}
Expiries == {"never", "later", "past"}
Rows == [raw : Nat \ {EnvKey}, project : Scopes, expires : Expiries]

ASSUME KeyAssumption == NoRow \notin Rows /\ Global \notin Projects /\ MaxRaw \in Nat

VARIABLES
  keys,       \* the table api_keys
  made,       \* the number of the last raw key
  rotating,   \* the key a rotation has selected, or NoRow
  seen,       \* the row it has selected
  asking,     \* what each client's request is at
  withKey,    \* the raw key in its header
  scope,      \* the project_id of the ResolvedKey, or NoRow
  working,    \* the project its handler works on, or NoRow
  grants,     \* history: what was answered about raw keys that were made
  replaced,   \* history: the raw keys that were rotated away
  revoked,    \* history: the keys that were revoked
  spent       \* history: whose raw key was no good when the request was sent

keyVars == <<keys, made, rotating, seen, asking, withKey, scope, working,
             grants, replaced, revoked, spent>>
adminVars == <<keys, made, rotating, seen, grants, replaced, revoked>>
clientVars == <<asking, withKey, scope, working, spent>>

Grant(raw, id, project) == [raw |-> raw, id |-> id, project |-> project]

KeyInit ==
  /\ keys = [id \in KeyIds |-> NoRow] /\ made = EnvKey
  /\ rotating = [r \in Rotations |-> NoRow] /\ seen = [r \in Rotations |-> NoRow]
  /\ asking = [c \in Clients |-> "idle"]
  /\ withKey = [c \in Clients |-> EnvKey]
  /\ scope = [c \in Clients |-> NoRow] /\ working = [c \in Clients |-> NoRow]
  /\ grants = {} /\ replaced = {} /\ revoked = {} /\ spent = {}

-----------------------------------------------------------------------------
\* Administrators

\* The database makes a new id; expires_in_days may be anything.
CreateKey(id, project, expires) ==
  /\ made < MaxRaw /\ made' = made + 1
  /\ \A g \in grants : g.id # id
  /\ keys' = [keys EXCEPT ![id] =
                [raw |-> made', project |-> project, expires |-> expires]]
  /\ grants' = grants \cup {Grant(made', id, project)}
  /\ UNCHANGED <<rotating, seen, replaced, revoked, clientVars>>

RevokeKey(id) ==
  /\ keys[id] # NoRow
  /\ keys' = [keys EXCEPT ![id] = NoRow]
  /\ revoked' = revoked \cup {id}
  /\ UNCHANGED <<made, rotating, seen, grants, replaced, clientVars>>

RotateSelect(r, id) ==
  /\ rotating[r] = NoRow /\ keys[id] # NoRow
  /\ rotating' = [rotating EXCEPT ![r] = id]
  /\ seen' = [seen EXCEPT ![r] = keys[id]]
  /\ UNCHANGED <<keys, made, grants, replaced, revoked, clientVars>>

\* The UPDATE may find no row, which is not looked at.
\* Slip: the row is updated if its hash is the one selected.
RotateIfSame(r) ==
  LET id == rotating[r]
  IN  /\ id # NoRow /\ rotating' = [rotating EXCEPT ![r] = NoRow]
      /\ made < MaxRaw /\ made' = made + 1
      /\ IF keys[id] # NoRow /\ keys[id].raw = seen[r].raw
         THEN /\ keys' = [keys EXCEPT ![id].raw = made']
              /\ replaced' = replaced \cup {keys[id].raw}
         ELSE UNCHANGED <<keys, replaced>>
      /\ grants' = grants \cup {Grant(made', id, seen[r].project)}
      /\ seen' = [seen EXCEPT ![r] = NoRow]
      /\ UNCHANGED <<revoked, clientVars>>
\* Slip: the row is inserted if it is not there.
RotateUpserts(r) ==
  LET id == rotating[r]
  IN  /\ id # NoRow /\ rotating' = [rotating EXCEPT ![r] = NoRow]
      /\ made < MaxRaw /\ made' = made + 1
      /\ keys' = [keys EXCEPT ![id] = [seen[r] EXCEPT !.raw = made']]
      /\ replaced' = IF keys[id] = NoRow THEN replaced ELSE replaced \cup {keys[id].raw}
      /\ grants' = grants \cup {Grant(made', id, seen[r].project)}
      /\ seen' = [seen EXCEPT ![r] = NoRow]
      /\ UNCHANGED <<revoked, clientVars>>
RotateUpdate(r) ==
  LET id == rotating[r]
  IN  /\ id # NoRow /\ rotating' = [rotating EXCEPT ![r] = NoRow]
      /\ made < MaxRaw /\ made' = made + 1
      /\ IF keys[id] # NoRow
         THEN /\ keys' = [keys EXCEPT ![id].raw = made']
              /\ replaced' = replaced \cup {keys[id].raw}
         ELSE UNCHANGED <<keys, replaced>>
      /\ grants' = grants \cup {Grant(made', id, seen[r].project)}
      /\ seen' = [seen EXCEPT ![r] = NoRow]
      /\ UNCHANGED <<revoked, clientVars>>

\* The UPDATE fails, or the service dies.
RotateFails(r) ==
  /\ rotating[r] # NoRow
  /\ rotating' = [rotating EXCEPT ![r] = NoRow]
  /\ seen' = [seen EXCEPT ![r] = NoRow]
  /\ UNCHANGED <<keys, made, grants, replaced, revoked, clientVars>>

\* Time passes; a rotation does not change expires_at.
ExpiryComes(id) ==
  /\ keys[id] # NoRow /\ keys[id].expires = "later"
  /\ keys' = [keys EXCEPT ![id].expires = "past"]
  /\ UNCHANGED <<made, rotating, seen, grants, replaced, revoked, clientVars>>

-----------------------------------------------------------------------------
\* Requests to store and to retrieve

\* lookup_key finds a row with the hash, and looks at its expiry.
Finds(raw, id) == keys[id] # NoRow /\ keys[id].raw = raw /\ keys[id].expires # "past"

\* What was answered about the raw key is over.
Over(raw) ==
  \/ raw \in replaced
  \/ \E g \in grants : g.raw = raw /\ g.id \in revoked
  \/ \E id \in KeyIds : keys[id] # NoRow /\ keys[id].raw = raw /\ keys[id].expires = "past"

Send(c, raw) ==
  /\ asking[c] = "idle" /\ asking' = [asking EXCEPT ![c] = "sent"]
  /\ withKey' = [withKey EXCEPT ![c] = raw]
  /\ spent' = IF Over(raw) THEN spent \cup {c} ELSE spent
  /\ UNCHANGED <<adminVars, scope, working>>

LetIn(c, with) ==
  /\ asking' = [asking EXCEPT ![c] = "inside"] /\ scope' = [scope EXCEPT ![c] = with]
  /\ UNCHANGED <<withKey, working, spent>>

EndRequest(c) ==
  /\ asking' = [asking EXCEPT ![c] = "idle"] /\ withKey' = [withKey EXCEPT ![c] = EnvKey]
  /\ scope' = [scope EXCEPT ![c] = NoRow] /\ working' = [working EXCEPT ![c] = NoRow]
  /\ spent' = spent \ {c}

\* auth_middleware: the table is asked first, and then API_KEY.  A lookup
\* that fails has found nothing.
Authenticate(c) ==
  /\ asking[c] = "sent"
  /\ \/ \E id \in KeyIds : Finds(withKey[c], id) /\ LetIn(c, keys[id].project)
     \/ withKey[c] = EnvKey /\ LetIn(c, Global)
     \/ withKey[c] # EnvKey /\ EndRequest(c)
  /\ UNCHANGED adminVars

\* enforce_project_scope: 403 for a project that is not the key's.
EnforceScope(c, project) ==
  /\ asking[c] = "inside" /\ working[c] = NoRow
  /\ IF scope[c] \in {Global, project}
     THEN /\ working' = [working EXCEPT ![c] = project]
          /\ UNCHANGED <<asking, withKey, scope, spent>>
     ELSE EndRequest(c)
  /\ UNCHANGED adminVars

Answer(c) == working[c] # NoRow /\ EndRequest(c) /\ UNCHANGED adminVars

KeyNext ==
  \/ \E id \in KeyIds :
       \/ \E project \in Scopes, expires \in Expiries : CreateKey(id, project, expires)
       \/ RevokeKey(id) \/ ExpiryComes(id)
       \/ \E r \in Rotations : RotateSelect(r, id)
  \/ \E r \in Rotations : RotateUpdate(r) \/ RotateFails(r)
  \/ \E c \in Clients :
       \/ \E raw \in 0..made : Send(c, raw)
       \/ Authenticate(c) \/ Answer(c)
       \/ \E project \in Projects : EnforceScope(c, project)

KeySpec == KeyInit /\ [][KeyNext]_keyVars

-----------------------------------------------------------------------------
(* Every variable holds a value of its kind.                               *)
KeyTypeOK ==
  /\ keys \in [KeyIds -> Rows \cup {NoRow}]
  /\ made \in Nat
  /\ rotating \in [Rotations -> KeyIds \cup {NoRow}]
  /\ seen \in [Rotations -> Rows \cup {NoRow}]
  /\ asking \in [Clients -> {"idle", "sent", "inside"}]
  /\ withKey \in [Clients -> Nat]
  /\ scope \in [Clients -> Scopes \cup {NoRow}]
  /\ working \in [Clients -> Projects \cup {NoRow}]
  /\ grants \subseteq [raw : Nat \ {EnvKey}, id : KeyIds, project : Scopes]
  /\ replaced \subseteq Nat
  /\ revoked \subseteq KeyIds /\ spent \subseteq Clients

(* A raw key that was answered with, for a project, is that of a row for   *)
(* that project until it is rotated away or its row is revoked, however    *)
(* rotations of the key overlap.  (Of a key revoked while it was rotated,  *)
(* the rotation answers with a raw key that never worked.)                 *)
GrantsHold ==
  \A g \in grants :
    \/ g.raw \in replaced \/ g.id \in revoked
    \/ /\ keys[g.id] # NoRow
       /\ keys[g.id].raw = g.raw /\ keys[g.id].project = g.project

(* "Rotate key - old key immediately invalid": a request sent after the    *)
(* raw key was rotated away, revoked or expired is not let in, however     *)
(* rotations that had begun before go on; and who is let in works on a     *)
(* project that the answer with the raw key had named.                     *)
SpentStaysOut ==
  \A c \in Clients :
    /\ asking[c] = "inside" => c \notin spent
    /\ working[c] # NoRow =>
         \/ withKey[c] = EnvKey
         \/ \E g \in grants : g.raw = withKey[c] /\ g.project \in {Global, working[c]}
=============================================================================
