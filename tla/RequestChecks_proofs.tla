-------------------------- MODULE RequestChecks_proofs --------------------------
(***************************************************************************)
(* Proofs about the two checks a request to the memory service goes        *)
(* through: KeyRing, for any keys and projects, any number of clients and  *)
(* rotations and any number of raw keys; and RateLimiter, for any headers  *)
(* and requests, any limit and any wait for the mutex below a minute.      *)
(***************************************************************************)
EXTENDS KeyRing, RateLimiter, Sums

-----------------------------------------------------------------------------
(***************************************************************************)
(* Type correctness.  A rotation that goes on needs the row it has read.   *)
(***************************************************************************)
SeenRows == \A r \in Rotations : rotating[r] # NoRow => seen[r] \in Rows

TypeInv == KeyTypeOK /\ SeenRows

LEMMA TypeInit == KeyInit => TypeInv
BY DEF KeyInit, TypeInv, KeyTypeOK, SeenRows, EnvKey

LEMMA TypeStep == TypeInv /\ [KeyNext]_keyVars => TypeInv'
<1> SUFFICES ASSUME TypeInv, [KeyNext]_keyVars PROVE TypeInv'
  OBVIOUS
<1> USE DEF TypeInv, KeyTypeOK, SeenRows, Rows, Grant, EnvKey, adminVars, clientVars
<1>1. ASSUME NEW id \in KeyIds, NEW project \in Scopes, NEW expires \in Expiries,
             CreateKey(id, project, expires)
      PROVE  TypeInv'
  BY <1>1 DEF CreateKey
<1>2. ASSUME NEW id \in KeyIds, RevokeKey(id) PROVE TypeInv'
  BY <1>2 DEF RevokeKey
<1>3. ASSUME NEW id \in KeyIds, ExpiryComes(id) PROVE TypeInv'
  BY <1>3 DEF ExpiryComes, Expiries
<1>4. ASSUME NEW r \in Rotations, NEW id \in KeyIds, RotateSelect(r, id) PROVE TypeInv'
  BY <1>4 DEF RotateSelect
<1>5. ASSUME NEW r \in Rotations, RotateUpdate(r) PROVE TypeInv'
  <2>1. rotating[r] \in KeyIds /\ seen[r] \in Rows /\ made' = made + 1
    BY <1>5 DEF RotateUpdate
  <2>2. /\ rotating' \in [Rotations -> KeyIds \cup {NoRow}]
        /\ seen' \in [Rotations -> Rows \cup {NoRow}] /\ SeenRows'
    BY <1>5, <2>1 DEF RotateUpdate
  <2>3. grants' \subseteq [raw : Nat \ {EnvKey}, id : KeyIds, project : Scopes]
    BY <1>5, <2>1 DEF RotateUpdate
  <2>4. keys' \in [KeyIds -> Rows \cup {NoRow}] /\ replaced' \subseteq Nat
    BY <1>5, <2>1 DEF RotateUpdate
  <2> QED
    BY <1>5, <2>1, <2>2, <2>3, <2>4 DEF RotateUpdate
<1>6. ASSUME NEW r \in Rotations, RotateFails(r) PROVE TypeInv'
  BY <1>6 DEF RotateFails
<1>7. ASSUME NEW c \in Clients, NEW raw \in 0..made, Send(c, raw) PROVE TypeInv'
  BY <1>7 DEF Send
<1>8. ASSUME NEW c \in Clients, Authenticate(c) PROVE TypeInv'
  BY <1>8 DEF Authenticate, LetIn, EndRequest, Finds, Scopes
<1>9. ASSUME NEW c \in Clients, NEW project \in Projects, EnforceScope(c, project)
      PROVE  TypeInv'
  BY <1>9 DEF EnforceScope, EndRequest
<1>10. ASSUME NEW c \in Clients, Answer(c) PROVE TypeInv'
  BY <1>10 DEF Answer, EndRequest
<1>11. CASE UNCHANGED keyVars
  BY <1>11 DEF keyVars
<1> QED
  BY <1>1, <1>2, <1>3, <1>4, <1>5, <1>6, <1>7, <1>8, <1>9, <1>10, <1>11 DEF KeyNext

THEOREM KeyTypeCorrect == KeySpec => []KeyTypeOK
<1>1. TypeInv => KeyTypeOK
  BY DEF TypeInv
<1> QED
  BY <1>1, TypeInit, TypeStep, PTL DEF KeySpec

-----------------------------------------------------------------------------
(***************************************************************************)
(* The table and what was said of it.  A row is as an answer said, and     *)
(* nothing is over that it stands for; a key that was handed out and has   *)
(* no row was revoked; a raw key was handed out once, and a key for one    *)
(* project only, which a rotation under way knows.                         *)
(***************************************************************************)
RowsAreGranted ==
  \A id \in KeyIds : keys[id] # NoRow =>
    /\ Grant(keys[id].raw, id, keys[id].project) \in grants
    /\ keys[id].raw \notin replaced /\ id \notin revoked

GoneWasRevoked == \A g \in grants : keys[g.id] = NoRow => g.id \in revoked

GrantedOnce ==
  \A g, h \in grants :
    /\ g.raw = h.raw => g = h
    /\ g.id = h.id => g.project = h.project

RawsWereMade ==
  /\ \A g \in grants : g.raw \in 1..made
  /\ replaced \subseteq 1..made
  /\ \A id \in revoked : \E g \in grants : g.id = id

RotationsKnow ==
  \A r \in Rotations : rotating[r] # NoRow =>
    \E g \in grants : g.id = rotating[r] /\ g.project = seen[r].project

TableInv ==
  /\ RowsAreGranted /\ GoneWasRevoked /\ GrantedOnce /\ RawsWereMade /\ RotationsKnow
  /\ GrantsHold

LEMMA TableInit == KeyInit => TableInv
BY DEF KeyInit, TableInv, RowsAreGranted, GoneWasRevoked, GrantedOnce, RawsWereMade,
       RotationsKnow, GrantsHold

LEMMA TableStep == TypeInv /\ TableInv /\ [KeyNext]_keyVars => TableInv'
<1> SUFFICES ASSUME TypeInv, TableInv, [KeyNext]_keyVars PROVE TableInv'
  OBVIOUS
<1> USE DEF TypeInv, KeyTypeOK, SeenRows, Rows, Grant, EnvKey, TableInv, RowsAreGranted,
            GoneWasRevoked, GrantedOnce, RawsWereMade, RotationsKnow, GrantsHold
<1>1. ASSUME NEW id \in KeyIds, NEW project \in Scopes, NEW expires \in Expiries,
             CreateKey(id, project, expires)
      PROVE  TableInv'
  <2> DEFINE new == Grant(made', id, project)
  <2>1. /\ made' = made + 1 /\ grants' = grants \cup {new}
        /\ \A g \in grants : g.id # id
        /\ UNCHANGED <<rotating, seen, replaced, revoked>>
    BY <1>1 DEF CreateKey
  <2>2. /\ keys'[id] # NoRow /\ keys'[id].raw = made' /\ keys'[id].project = project
        /\ \A j \in KeyIds \ {id} : keys'[j] = keys[j]
    BY <1>1, <2>1, KeyAssumption DEF CreateKey
  <2>3. id \notin revoked /\ made' \notin replaced
    BY <2>1
  <2>4. RowsAreGranted' /\ GoneWasRevoked' /\ GrantsHold'
    BY <2>1, <2>2, <2>3
  <2>5. GrantedOnce' /\ RawsWereMade' /\ RotationsKnow'
    BY <2>1
  <2> QED
    BY <2>4, <2>5
<1>2. ASSUME NEW id \in KeyIds, RevokeKey(id) PROVE TableInv'
  BY <1>2, ZenonT(40) DEF RevokeKey
<1>3. ASSUME NEW id \in KeyIds, ExpiryComes(id) PROVE TableInv'
  <2>1. /\ keys'[id] # NoRow /\ keys'[id].raw = keys[id].raw
        /\ keys'[id].project = keys[id].project
        /\ \A j \in KeyIds \ {id} : keys'[j] = keys[j]
    BY <1>3, KeyAssumption DEF ExpiryComes, Expiries
  <2> QED
    BY <1>3, <2>1 DEF ExpiryComes
<1>4. ASSUME NEW r \in Rotations, NEW id \in KeyIds, RotateSelect(r, id) PROVE TableInv'
  <2>1. rotating'[r] = id /\ seen'[r] = keys[id] /\ UNCHANGED grants
    BY <1>4 DEF RotateSelect
  <2>2. \A q \in Rotations \ {r} : rotating'[q] = rotating[q] /\ seen'[q] = seen[q]
    BY <1>4 DEF RotateSelect
  <2>3. Grant(keys[id].raw, id, keys[id].project) \in grants
    BY <1>4 DEF RotateSelect
  <2>4. \E g \in grants : g.id = id /\ g.project = keys[id].project
    BY <2>3
  <2>5. RotationsKnow'
    BY <2>1, <2>2, <2>4
  <2> QED
    BY <1>4, <2>5 DEF RotateSelect
<1>5. ASSUME NEW r \in Rotations, RotateUpdate(r) PROVE TableInv'
  <2> DEFINE id == rotating[r]
             project == seen[r].project
             new == Grant(made', id, project)
  <2>1. /\ id \in KeyIds /\ made' = made + 1 /\ grants' = grants \cup {new}
        /\ revoked' = revoked
    BY <1>5 DEF RotateUpdate
  <2>2. RotationsKnow'
    BY <1>5, <2>1 DEF RotateUpdate
  <2>3. PICK known \in grants : known.id = id /\ known.project = project
    BY <1>5 DEF RotateUpdate
  <2>4. GrantedOnce'
    BY <2>1, <2>3
  <2>5. CASE keys[id] = NoRow
    <3>1. UNCHANGED <<keys, replaced>> /\ id \in revoked
      BY <1>5, <2>3, <2>5 DEF RotateUpdate
    <3> QED
      BY <2>1, <2>2, <2>3, <2>4, <2>5, <3>1
  <2>6. CASE keys[id] # NoRow
    <3>1. keys[id].project = project
      BY <2>1, <2>3, <2>6, ZenonT(40)
    <3>2. /\ keys' = [keys EXCEPT ![id].raw = made']
          /\ replaced' = replaced \cup {keys[id].raw}
      BY <1>5, <2>6 DEF RotateUpdate
    <3>3. /\ keys'[id] \in Rows /\ keys'[id].raw = made' /\ keys'[id].project = project
          /\ \A j \in KeyIds \ {id} : keys'[j] = keys[j]
      BY <2>1, <2>6, <3>1, <3>2
    <3>4. keys'[id] # NoRow
      BY <3>3, KeyAssumption
    <3>5. Grant(keys[id].raw, id, keys[id].project) \in grants
      BY <2>1, <2>6
    <3>6. keys[id].raw \in 1..made /\ id \notin revoked
      BY <2>1, <2>6, <3>5
    <3>7. made' \notin replaced'
      BY <2>1, <3>2, <3>6
    <3>8. ASSUME NEW j \in KeyIds \ {id}, keys[j] # NoRow PROVE keys[j].raw # keys[id].raw
      <4>1. Grant(keys[j].raw, j, keys[j].project) \in grants
        BY <3>8
      <4>2. Grant(keys[j].raw, j, keys[j].project) # Grant(keys[id].raw, id, keys[id].project)
        OBVIOUS
      <4> QED
        BY <3>5, <4>1, <4>2
    <3>9. RowsAreGranted'
      BY <2>1, <3>2, <3>3, <3>7, <3>6, <3>8
    <3>10. GoneWasRevoked' /\ RawsWereMade'
      BY <2>1, <2>3, <3>2, <3>3, <3>4, <3>6
    <3>11. GrantsHold'
      BY <2>1, <2>6, <3>2, <3>3, <3>4
    <3> QED
      BY <2>2, <2>4, <3>9, <3>10, <3>11
  <2> QED
    BY <2>5, <2>6
<1>6. ASSUME NEW r \in Rotations, RotateFails(r) PROVE TableInv'
  BY <1>6 DEF RotateFails
<1>7. CASE UNCHANGED adminVars
  BY <1>7 DEF adminVars
<1> QED
  BY <1>1, <1>2, <1>3, <1>4, <1>5, <1>6, <1>7
  DEF KeyNext, keyVars, adminVars, Send, Authenticate, EnforceScope, Answer

LEMMA TableInvHolds == KeySpec => [](TypeInv /\ TableInv)
BY TypeInit, TypeStep, TableInit, TableStep, PTL DEF KeySpec

\* What was answered with a raw key holds until the raw key is rotated away or its
\* row revoked, however rotations of one key overlap.
THEOREM GrantsHoldAlways == KeySpec => []GrantsHold
<1>1. TableInv => GrantsHold
  BY DEF TableInv
<1> QED
  BY <1>1, TableInvHolds, PTL

-----------------------------------------------------------------------------
(***************************************************************************)
(* Requests.  What is over stays over, and is not found in the table; so a *)
(* request whose raw key was over when it was sent gets no further; and    *)
(* who got further did it with a raw key for the scope it has.             *)
(***************************************************************************)
SpentIsOver == \A c \in spent : asking[c] = "sent" /\ Over(withKey[c])

ScopeWasGranted ==
  \A c \in Clients :
    asking[c] = "inside" =>
      \/ withKey[c] = EnvKey
      \/ \E g \in grants : g.raw = withKey[c] /\ g.project = scope[c]

WorkIsInScope ==
  \A c \in Clients : working[c] # NoRow =>
    asking[c] = "inside" /\ scope[c] \in {Global, working[c]}

RequestInv == SpentIsOver /\ ScopeWasGranted /\ WorkIsInScope

\* Two rows never have the same raw key.
LEMMA OneRowEach ==
  ASSUME TableInv, NEW i \in KeyIds, NEW j \in KeyIds,
         keys[i] # NoRow, keys[j] # NoRow, keys[i].raw = keys[j].raw
  PROVE  i = j
<1>1. /\ Grant(keys[i].raw, i, keys[i].project) \in grants
      /\ Grant(keys[j].raw, j, keys[j].project) \in grants
  BY DEF TableInv, RowsAreGranted
<1>2. Grant(keys[i].raw, i, keys[i].project) = Grant(keys[j].raw, j, keys[j].project)
  BY <1>1 DEF TableInv, GrantedOnce, Grant
<1> QED
  BY <1>2 DEF Grant

LEMMA OverIsNotFound ==
  ASSUME TypeInv, TableInv, NEW raw, Over(raw), NEW id \in KeyIds
  PROVE  raw # EnvKey /\ ~Finds(raw, id)
<1> USE DEF TypeInv, KeyTypeOK, TableInv
<1>1. CASE raw \in replaced
  BY <1>1 DEF RowsAreGranted, RawsWereMade, Finds, EnvKey
<1>2. CASE \E g \in grants : g.raw = raw /\ g.id \in revoked
  <2>1. PICK g \in grants : g.raw = raw /\ g.id \in revoked
    BY <1>2
  <2>2. ASSUME Finds(raw, id) PROVE FALSE
    <3>1. Grant(keys[id].raw, id, keys[id].project) \in grants /\ id \notin revoked
      BY <2>2 DEF Finds, RowsAreGranted
    <3>2. g = Grant(keys[id].raw, id, keys[id].project)
      BY <2>1, <2>2, <3>1 DEF Finds, GrantedOnce, Grant
    <3> QED
      BY <2>1, <3>1, <3>2 DEF Grant
  <2> QED
    BY <2>1, <2>2 DEF RawsWereMade, EnvKey
<1>3. CASE \E j \in KeyIds : keys[j] # NoRow /\ keys[j].raw = raw /\ keys[j].expires = "past"
  BY <1>3, OneRowEach DEF Finds, Rows, EnvKey
<1> QED
  BY <1>1, <1>2, <1>3 DEF Over

LEMMA OverStaysOver ==
  ASSUME TypeInv, TableInv, [KeyNext]_keyVars, NEW raw, Over(raw)
  PROVE  Over(raw)'
<1> USE DEF TypeInv, KeyTypeOK, Over
<1>1. ASSUME NEW id \in KeyIds, NEW project \in Scopes, NEW expires \in Expiries,
             CreateKey(id, project, expires)
      PROVE  Over(raw)'
  <2>1. keys[id] = NoRow
    <3>1. \A g \in grants : g.id # id
      BY <1>1 DEF CreateKey
    <3>2. keys[id] # NoRow => Grant(keys[id].raw, id, keys[id].project) \in grants
      BY DEF TableInv, RowsAreGranted
    <3> QED
      BY <3>1, <3>2 DEF Grant
  <2> QED
    BY <1>1, <2>1 DEF CreateKey
<1>2. ASSUME NEW id \in KeyIds, RevokeKey(id) PROVE Over(raw)'
  <2>1. Grant(keys[id].raw, id, keys[id].project) \in grants
    BY <1>2 DEF RevokeKey, TableInv, RowsAreGranted
  <2> QED
    BY <1>2, <2>1 DEF RevokeKey, Grant
<1>3. ASSUME NEW id \in KeyIds, ExpiryComes(id) PROVE Over(raw)'
  BY <1>3, KeyAssumption DEF ExpiryComes, Rows, Expiries
<1>4. ASSUME NEW r \in Rotations, RotateUpdate(r) PROVE Over(raw)'
  BY <1>4 DEF RotateUpdate
<1>5. ASSUME NEW r \in Rotations, NEW id \in KeyIds, RotateSelect(r, id) PROVE Over(raw)'
  BY <1>5 DEF RotateSelect
<1>6. ASSUME NEW r \in Rotations, RotateFails(r) PROVE Over(raw)'
  BY <1>6 DEF RotateFails
<1>7. CASE UNCHANGED adminVars
  BY <1>7 DEF adminVars
<1> QED
  BY <1>1, <1>2, <1>3, <1>4, <1>5, <1>6, <1>7
  DEF KeyNext, keyVars, adminVars, Send, Authenticate, EnforceScope, Answer

LEMMA RequestStep == TypeInv /\ TableInv /\ RequestInv /\ [KeyNext]_keyVars => RequestInv'
<1> SUFFICES ASSUME TypeInv, TableInv, RequestInv, [KeyNext]_keyVars PROVE RequestInv'
  OBVIOUS
<1> USE DEF TypeInv, KeyTypeOK, RequestInv, SpentIsOver, ScopeWasGranted, WorkIsInScope
<1>1. \A raw : Over(raw) => Over(raw)'
  BY OverStaysOver
<1>2. ASSUME grants \subseteq grants', UNCHANGED clientVars PROVE RequestInv'
  BY <1>1, <1>2 DEF clientVars
<1>3. ASSUME NEW c \in Clients, NEW raw \in 0..made, Send(c, raw) PROVE RequestInv'
  <2>1. /\ asking'[c] = "sent" /\ withKey'[c] = raw /\ working[c] = NoRow /\ c \notin spent
        /\ UNCHANGED <<scope, working, grants>>
        /\ spent' \in {spent, spent \cup {c}} /\ (c \in spent' => Over(raw))
    BY <1>3 DEF Send, adminVars
  <2>2. \A d \in Clients \ {c} : asking'[d] = asking[d] /\ withKey'[d] = withKey[d]
    BY <1>3 DEF Send
  <2> QED
    BY <1>1, <2>1, <2>2
<1>4. ASSUME NEW c \in Clients, EndRequest(c), UNCHANGED adminVars PROVE RequestInv'
  <2>1. /\ asking'[c] = "idle" /\ working'[c] = NoRow /\ spent' = spent \ {c}
        /\ grants' = grants
    BY <1>4 DEF EndRequest, adminVars
  <2>2. \A d \in Clients \ {c} :
          /\ asking'[d] = asking[d] /\ withKey'[d] = withKey[d]
          /\ scope'[d] = scope[d] /\ working'[d] = working[d]
    BY <1>4 DEF EndRequest
  <2> QED
    BY <1>1, <2>1, <2>2
<1>5. ASSUME NEW c \in Clients, NEW with, asking[c] = "sent", c \notin spent,
             LetIn(c, with), UNCHANGED adminVars,
             \/ withKey[c] = EnvKey
             \/ \E g \in grants : g.raw = withKey[c] /\ g.project = with
      PROVE  RequestInv'
  <2>1. /\ asking'[c] = "inside" /\ scope'[c] = with /\ working[c] = NoRow
        /\ UNCHANGED <<withKey, working, spent, grants>>
    BY <1>5 DEF LetIn, adminVars
  <2>2. \A d \in Clients \ {c} : asking'[d] = asking[d] /\ scope'[d] = scope[d]
    BY <1>5 DEF LetIn
  <2> QED
    BY <1>1, <1>5, <2>1, <2>2
<1>6. ASSUME NEW c \in Clients, Authenticate(c) PROVE RequestInv'
  <2>1. asking[c] = "sent" /\ UNCHANGED adminVars
    BY <1>6 DEF Authenticate
  <2>2. CASE withKey[c] # EnvKey /\ EndRequest(c)
    BY <1>4, <2>1, <2>2
  <2>3. ASSUME NEW id \in KeyIds, Finds(withKey[c], id), LetIn(c, keys[id].project)
        PROVE  RequestInv'
    <3>1. c \notin spent
      BY <2>3, OverIsNotFound
    <3>2. Grant(withKey[c], id, keys[id].project) \in grants
      BY <2>3 DEF Finds, TableInv, RowsAreGranted
    <3> QED
      BY <1>5, <2>1, <2>3, <3>1, <3>2 DEF Grant
  <2>4. CASE withKey[c] = EnvKey /\ LetIn(c, Global)
    <3>1. ~Over(EnvKey)
      BY DEF Over, TableInv, RawsWereMade, RowsAreGranted, Rows, EnvKey
    <3> QED
      BY <1>5, <2>1, <2>4, <3>1
  <2> QED
    BY <1>6, <2>2, <2>3, <2>4 DEF Authenticate
<1>7. ASSUME NEW c \in Clients, NEW project \in Projects, EnforceScope(c, project)
      PROVE  RequestInv'
  <2>1. CASE scope[c] \in {Global, project}
    <3>1. /\ working'[c] = project /\ asking[c] = "inside"
          /\ UNCHANGED <<asking, withKey, scope, spent, grants>>
          /\ \A d \in Clients \ {c} : working'[d] = working[d]
      BY <1>7, <2>1 DEF EnforceScope, adminVars
    <3> QED
      BY <1>1, <2>1, <3>1
  <2>2. CASE scope[c] \notin {Global, project}
    BY <1>4, <1>7, <2>2 DEF EnforceScope
  <2> QED
    BY <2>1, <2>2
<1>8. ASSUME NEW c \in Clients, Answer(c) PROVE RequestInv'
  BY <1>4, <1>8 DEF Answer
<1>9. CASE UNCHANGED keyVars
  BY <1>2, <1>9 DEF keyVars, clientVars
<1>10. ASSUME NEW id \in KeyIds, NEW project \in Scopes, NEW expires \in Expiries,
              CreateKey(id, project, expires)
       PROVE  RequestInv'
  BY <1>2, <1>10 DEF CreateKey
<1>11. ASSUME NEW id \in KeyIds, RevokeKey(id) \/ ExpiryComes(id) PROVE RequestInv'
  BY <1>2, <1>11 DEF RevokeKey, ExpiryComes
<1>12. ASSUME NEW r \in Rotations, NEW id \in KeyIds, RotateSelect(r, id) PROVE RequestInv'
  BY <1>2, <1>12 DEF RotateSelect
<1>13. ASSUME NEW r \in Rotations, RotateUpdate(r) \/ RotateFails(r) PROVE RequestInv'
  BY <1>2, <1>13 DEF RotateUpdate, RotateFails
<1> QED
  BY <1>3, <1>6, <1>7, <1>8, <1>9, <1>10, <1>11, <1>12, <1>13 DEF KeyNext

\* A raw key that is over lets nobody in who comes later; and who is let in works
\* where an answer had said.
THEOREM SpentStaysOutAlways == KeySpec => []SpentStaysOut
<1>1. KeyInit => RequestInv
  BY DEF KeyInit, RequestInv, SpentIsOver, ScopeWasGranted, WorkIsInScope
<1>2. RequestInv => SpentStaysOut
  BY DEF RequestInv, SpentIsOver, ScopeWasGranted, WorkIsInScope, SpentStaysOut
<1> QED
  BY <1>1, <1>2, TypeInit, TypeStep, TableInit, TableStep, RequestStep, PTL DEF KeySpec

-----------------------------------------------------------------------------
USE LimiterAssumption

(***************************************************************************)
(* What passed in the last seconds.  A second later it is what passed in   *)
(* one second less.                                                        *)
(***************************************************************************)
Within(f, k) == SumFunctionOnSet(f, 0..k)

LEMMA WithinType ==
  ASSUME NEW f \in [Ages -> Nat], NEW k \in Ages
  PROVE  Within(f, k) \in Nat
<1>1. IsFiniteSet(0..k) /\ \A a \in 0..k : f[a] \in Nat
  BY FS_Interval DEF Ages
<1> QED
  BY <1>1, SumType DEF Within

LEMMA WithinNow ==
  ASSUME NEW f \in [Ages -> Nat]
  PROVE  Within(f, 0) = f[0]
<1>1. IsFiniteSet({0}) /\ \A a \in {0} : f[a] \in Nat
  <2>1. 0 \in Ages
    BY DEF Ages
  <2> QED
    BY <2>1, FS_Singleton
<1>2. SumFunctionOnSet(f, {0}) = f[0] + SumFunctionOnSet(f, {0} \ {0})
  BY <1>1, SumRemove
<1>3. SumFunctionOnSet(f, {}) = 0
  BY SumEmpty
<1>4. {0} \ {0} = {} /\ 0..0 = {0}
  OBVIOUS
<1> QED
  BY <1>1, <1>2, <1>3, <1>4 DEF Within

LEMMA WithinMore ==
  ASSUME NEW f \in [Ages -> Nat], NEW k \in Nat, k + 1 \in Ages
  PROVE  Within(f, k + 1) = f[k + 1] + Within(f, k)
<1>1. IsFiniteSet(0..(k + 1)) /\ \A a \in 0..(k + 1) : f[a] \in Nat
  BY FS_Interval DEF Ages
<1>2. (0..(k + 1)) \ {k + 1} = 0..k
  OBVIOUS
<1>3. k + 1 \in 0..(k + 1)
  OBVIOUS
<1>4. SumFunctionOnSet(f, 0..(k + 1))
        = f[k + 1] + SumFunctionOnSet(f, (0..(k + 1)) \ {k + 1})
  BY <1>1, <1>3, SumRemove
<1> QED
  BY <1>2, <1>4 DEF Within

LEMMA WithinPassed ==
  ASSUME NEW f \in [Ages -> Nat], NEW g \in [Ages -> Nat],
         g[0] = f[0] + 1, \A a \in Ages : a # 0 => g[a] = f[a], NEW k \in Ages
  PROVE  Within(g, k) = Within(f, k) + 1
<1> DEFINE S == 0..k
<1>1. IsFiniteSet(S) /\ 0 \in S
  BY FS_Interval DEF Ages
<1>2. \A a \in S : f[a] \in Nat /\ g[a] \in Nat /\ (a # 0 => f[a] = g[a])
  BY DEF Ages
<1>3. g[0] = f[0] + 1
  BY DEF Ages
<1> HIDE DEF S
<1>4. SumFunctionOnSet(g, S) = SumFunctionOnSet(f, S) + 1
  <2>1. PICK z \in S : z = 0
    BY <1>1
  <2>2. \A y \in S : f[y] \in Nat /\ g[y] \in Nat /\ (y # z => f[y] = g[y])
    BY <1>2, <2>1
  <2>3. g[z] = f[z] + 1
    BY <1>3, <2>1
  <2> QED
    BY <1>1, <2>2, <2>3, SumAddOne
<1> QED
  BY <1>4 DEF Within, S

LEMMA WithinLater ==
  ASSUME NEW f \in [Ages -> Nat], NEW g \in [Ages -> Nat],
         g[0] = 0, \A a \in Ages : a # 0 => g[a] = f[a - 1], NEW k \in Ages
  PROVE  Within(g, k) = IF k = 0 THEN 0 ELSE Within(f, k - 1)
<1> DEFINE Shifted == {n \in Nat : n \in Ages =>
                         Within(g, n) = IF n = 0 THEN 0 ELSE Within(f, n - 1)}
<1>1. 0 \in Shifted
  BY WithinNow DEF Ages
<1>2. ASSUME NEW n \in Nat, n \in Shifted PROVE n + 1 \in Shifted
  <2> SUFFICES ASSUME n + 1 \in Ages PROVE Within(g, n + 1) = Within(f, n)
    OBVIOUS
  <2>1. n \in Ages
    BY DEF Ages
  <2>2. Within(g, n + 1) = f[n] + Within(g, n)
    BY WithinMore
  <2>3. CASE n = 0
    BY <1>2, <2>1, <2>2, <2>3, WithinNow, SMTT(30) DEF Ages
  <2>4. CASE n # 0
    <3>1. Within(g, n) = Within(f, n - 1)
      BY <1>2, <2>1, <2>4
    <3>2. Within(f, (n - 1) + 1) = f[(n - 1) + 1] + Within(f, n - 1)
      BY <2>1, <2>4, WithinMore
    <3> QED
      BY <2>2, <2>4, <3>1, <3>2
  <2> QED
    BY <2>3, <2>4
<1> HIDE DEF Shifted
<1>3. Nat \subseteq Shifted
  BY <1>1, <1>2, NatSetInduction
<1>4. k \in Shifted
  BY <1>3 DEF Ages
<1> QED
  BY <1>4 DEF Shifted

-----------------------------------------------------------------------------
(***************************************************************************)
(* The rate limiter.  What passed of late is bounded by the counter of the *)
(* window in the map (Used), and by how long ago that window began: seen   *)
(* from k seconds ago, nothing passed yet (the window, and the wait for    *)
(* the mutex, are long over), or only requests of this window, or those    *)
(* and the whole window before.                                            *)
(***************************************************************************)
EntryKind == {NoEntry} \cup [count : 1..(RpmLimit + 1), window : Nat]

LimiterKinds ==
  /\ seconds \in 0..MaxClock
  /\ limiter \in [Headers -> EntryKind]
  /\ \A h \in Headers : limiter[h] # NoEntry => limiter[h].window <= seconds
  /\ header \in [Requests -> Headers \cup {NoEntry}]
  /\ nowSecs \in [Requests -> 0..seconds]
  /\ passed \in [Headers -> [Ages -> Nat]]
  /\ refused \subseteq Headers

\* No request waits longer than the bound.
WaitsAreShort ==
  \A r \in Requests : header[r] # NoEntry => seconds - nowSecs[r] <= MaxWait

Used(e) == IF e.count > RpmLimit THEN RpmLimit ELSE e.count

\* p says how many passed within so many seconds, at time s.
Bounded(p, s, e) ==
  IF e = NoEntry
  THEN /\ p[0] = 0
       /\ \A k \in 0..Minute : p[k] <= RpmLimit
  ELSE \A k \in Ages :
         /\ s - k >= e.window + Minute + MaxWait => p[k] = 0
         /\ s - k >= e.window + MaxWait => p[k] <= Used(e)
         /\ s - k >= e.window + MaxWait - Minute => p[k] <= RpmLimit + Used(e)
         /\ s - k <= e.window => p[k] >= Used(e)

Totals(h) == [k \in Ages |-> PassedWithin(h, k)]

Refusals ==
  \A h \in refused : PassedWithin(h, Minute + MaxWait - 1) >= RpmLimit

LimiterInv ==
  /\ LimiterKinds
  /\ WaitsAreShort
  /\ \A h \in Headers : Bounded(Totals(h), seconds, limiter[h])
  /\ Refusals

LEMMA KindOfEntry ==
  ASSUME NEW e \in EntryKind, e # NoEntry
  PROVE  /\ e = [count |-> e.count, window |-> e.window]
         /\ e.count \in 1..(RpmLimit + 1) /\ e.window \in Nat
         /\ Used(e) \in 0..RpmLimit
BY DEF EntryKind, Used

\* What an entry says still holds when it is two minutes old and is thrown away.
LEMMA OldMayGo ==
  ASSUME NEW p \in [Ages -> Nat], NEW s \in Nat, NEW e \in EntryKind, e # NoEntry,
         Bounded(p, s, e), s >= e.window + 2 * Minute
  PROVE  Bounded(p, s, NoEntry)
<1>1. e.window \in Nat /\ Used(e) \in 0..RpmLimit
  BY KindOfEntry
<1>2. p[0] = 0
  <2>1. 0 \in Ages /\ s - 0 >= e.window + Minute + MaxWait
    BY <1>1 DEF Ages
  <2> QED
    BY <2>1 DEF Bounded
<1>3. ASSUME NEW k \in 0..Minute PROVE p[k] <= RpmLimit
  <2>1. k \in Ages /\ s - k >= e.window + MaxWait
    BY <1>1 DEF Ages
  <2>2. p[k] <= Used(e) /\ p[k] \in Nat
    BY <2>1 DEF Bounded
  <2> QED
    BY <1>1, <2>2
<1> QED
  BY <1>2, <1>3 DEF Bounded

\* A second passes, and all that passed did so a second earlier.
LEMMA SecondBounded ==
  ASSUME NEW p \in [Ages -> Nat], NEW q \in [Ages -> Nat], NEW s \in Nat,
         q[0] = 0, \A k \in Ages : k # 0 => q[k] = p[k - 1],
         NEW e \in EntryKind, e # NoEntry => e.window <= s, Bounded(p, s, e)
  PROVE  Bounded(q, s + 1, e)
<1>1. CASE e = NoEntry
  <2>1. ASSUME NEW k \in 0..Minute PROVE q[k] <= RpmLimit
    <3>1. CASE k = 0
      BY <3>1
    <3>2. CASE k # 0
      <4>1. k \in Ages /\ k - 1 \in 0..Minute
        BY <3>2 DEF Ages
      <4> QED
        BY <1>1, <3>2, <4>1 DEF Bounded
    <3> QED
      BY <3>1, <3>2
  <2> QED
    BY <1>1, <2>1 DEF Bounded
<1>2. CASE e # NoEntry
  <2>1. e.window \in Nat /\ Used(e) \in 0..RpmLimit
    BY <1>2, KindOfEntry
  <2> SUFFICES ASSUME NEW k \in Ages
               PROVE  /\ (s + 1) - k >= e.window + Minute + MaxWait => q[k] = 0
                      /\ (s + 1) - k >= e.window + MaxWait => q[k] <= Used(e)
                      /\ (s + 1) - k >= e.window + MaxWait - Minute
                           => q[k] <= RpmLimit + Used(e)
                      /\ (s + 1) - k <= e.window => q[k] >= Used(e)
    BY <1>2 DEF Bounded
  <2>2. CASE k = 0
    BY <1>2, <2>1, <2>2
  <2>3. CASE k # 0
    <3>1. k - 1 \in Ages /\ q[k] = p[k - 1] /\ (s + 1) - k = s - (k - 1)
      BY <2>3 DEF Ages
    <3>2. /\ s - (k - 1) >= e.window + Minute + MaxWait => p[k - 1] = 0
          /\ s - (k - 1) >= e.window + MaxWait => p[k - 1] <= Used(e)
          /\ s - (k - 1) >= e.window + MaxWait - Minute => p[k - 1] <= RpmLimit + Used(e)
          /\ s - (k - 1) <= e.window => p[k - 1] >= Used(e)
      BY <1>2, <3>1 DEF Bounded
    <3> QED
      BY <3>1, <3>2
  <2> QED
    BY <2>2, <2>3
<1> QED
  BY <1>1, <1>2

\* A window begins anew: what passed in the minute before is one window at most.
LEMMA NewWindow ==
  ASSUME NEW p \in [Ages -> Nat], NEW q \in [Ages -> Nat], NEW s \in Nat, NEW n \in Nat,
         n <= s, s - n <= MaxWait, NEW e \in EntryKind, Bounded(p, s, e),
         e = NoEntry \/ n - e.window >= Minute,
         NEW d, d = [count |-> 1, window |-> n],
         \A k \in Ages : q[k] = IF RpmLimit = 0 THEN p[k] ELSE p[k] + 1
  PROVE  Bounded(q, s, d)
<1>1. d # NoEntry /\ d.window = n /\ Used(d) = IF RpmLimit = 0 THEN 0 ELSE 1
  BY DEF Used
<1>2. ASSUME NEW k \in Ages, s - k >= n + MaxWait PROVE p[k] = 0
  <2>1. k = 0 /\ s - k >= n + MaxWait
    BY <1>2 DEF Ages
  <2>2. CASE e = NoEntry
    BY <2>1, <2>2 DEF Bounded
  <2>3. CASE e # NoEntry
    <3>1. e.window \in Nat
      BY <2>3, KindOfEntry
    <3>2. s - k >= e.window + Minute + MaxWait
      BY <1>2, <2>3, <3>1 DEF Ages
    <3> QED
      BY <2>3, <3>2 DEF Bounded
  <2> QED
    BY <2>2, <2>3
<1>3. ASSUME NEW k \in Ages, s - k >= n + MaxWait - Minute PROVE p[k] <= RpmLimit
  <2>1. CASE e = NoEntry
    <3>1. k \in 0..Minute
      BY <1>3 DEF Ages
    <3> QED
      BY <2>1, <3>1 DEF Bounded
  <2>2. CASE e # NoEntry
    <3>1. e.window \in Nat /\ Used(e) \in 0..RpmLimit
      BY <2>2, KindOfEntry
    <3>2. s - k >= e.window + MaxWait
      BY <1>3, <2>2, <3>1 DEF Ages
    <3>3. p[k] <= Used(e) /\ p[k] \in Nat
      BY <2>2, <3>2 DEF Bounded
    <3> QED
      BY <3>1, <3>3
  <2> QED
    BY <2>1, <2>2
<1> SUFFICES ASSUME NEW k \in Ages
             PROVE  /\ s - k >= n + Minute + MaxWait => q[k] = 0
                    /\ s - k >= n + MaxWait => q[k] <= Used(d)
                    /\ s - k >= n + MaxWait - Minute => q[k] <= RpmLimit + Used(d)
                    /\ s - k <= n => q[k] >= Used(d)
  BY <1>1 DEF Bounded
<1>4. p[k] \in Nat /\ k \in Nat /\ ~ (s - k >= n + Minute + MaxWait)
  BY DEF Ages
<1>5. q[k] = p[k] + Used(d) /\ Used(d) \in Nat
  BY <1>1
<1> QED
  BY <1>2, <1>3, <1>4, <1>5

\* One more in the window that is open, or one refused because it is full.
LEMMA OpenWindow ==
  ASSUME NEW p \in [Ages -> Nat], NEW q \in [Ages -> Nat], NEW s \in Nat, NEW n \in Nat,
         n <= s, s - n <= MaxWait, NEW e \in EntryKind, Bounded(p, s, e),
         e # NoEntry, n - e.window < Minute,
         NEW d, d # NoEntry, d.window = e.window,
         d.count = IF e.count > RpmLimit THEN e.count ELSE e.count + 1,
         \A k \in Ages : q[k] = IF d.count > RpmLimit THEN p[k] ELSE p[k] + 1
  PROVE  Bounded(q, s, d)
<1>1. e = [count |-> e.count, window |-> e.window]
      /\ e.count \in 1..(RpmLimit + 1) /\ e.window \in Nat
  BY KindOfEntry
<1> SUFFICES ASSUME NEW k \in Ages
             PROVE  /\ s - k >= e.window + Minute + MaxWait => q[k] = 0
                    /\ s - k >= e.window + MaxWait => q[k] <= Used(d)
                    /\ s - k >= e.window + MaxWait - Minute => q[k] <= RpmLimit + Used(d)
                    /\ s - k <= e.window => q[k] >= Used(d)
  BY DEF Bounded
<1>4. p[k] \in Nat /\ k \in Nat /\ ~ (s - k >= e.window + Minute + MaxWait)
  BY <1>1, SMTT(30) DEF Ages
<1>5. /\ s - k >= e.window + MaxWait => p[k] <= Used(e)
      /\ s - k >= e.window + MaxWait - Minute => p[k] <= RpmLimit + Used(e)
      /\ s - k <= e.window => p[k] >= Used(e)
  BY DEF Bounded
<1>6. /\ Used(e) \in Nat /\ Used(d) \in Nat
      /\ q[k] - p[k] = Used(d) - Used(e) /\ q[k] \in Nat
  BY <1>1, <1>4 DEF Used
<1> QED
  BY <1>1, <1>4, <1>5, <1>6

\* Whoever is refused found the window full.
LEMMA RefusedIsFull ==
  ASSUME NEW p \in [Ages -> Nat], NEW s \in Nat, NEW n \in Nat,
         n <= s, s - n <= MaxWait, NEW e \in EntryKind, Bounded(p, s, e),
         Entry(e, n).count > RpmLimit
  PROVE  p[Minute + MaxWait - 1] >= RpmLimit
<1> DEFINE k == Minute + MaxWait - 1
<1>1. k \in Ages /\ p[k] \in Nat
  BY DEF Ages
<1>2. CASE e = NoEntry \/ Since(n, e.window) >= Minute
  BY <1>1, <1>2 DEF Entry
<1>3. CASE ~ (e = NoEntry \/ Since(n, e.window) >= Minute)
  <2>1. e = [count |-> e.count, window |-> e.window]
        /\ e.count \in 1..(RpmLimit + 1) /\ e.window \in Nat
    BY <1>3, KindOfEntry
  <2>2. e.count >= RpmLimit
    BY <1>3, <2>1 DEF Entry
  <2>3. s - k <= e.window
    BY <1>3, <2>1 DEF Since
  <2>4. p[k] >= Used(e)
    BY <1>1, <1>3, <2>3 DEF Bounded
  <2> QED
    BY <1>1, <2>1, <2>2, <2>4 DEF Used
<1> QED
  BY <1>2, <1>3

LEMMA TotalsKind ==
  ASSUME NEW h, passed[h] \in [Ages -> Nat]
  PROVE  /\ Totals(h) \in [Ages -> Nat]
         /\ \A k \in Ages : Totals(h)[k] = Within(passed[h], k)
<1>1. \A k \in Ages : PassedWithin(h, k) = Within(passed[h], k)
  BY DEF PassedWithin, Within
<1> QED
  BY <1>1, WithinType DEF Totals

LEMMA RefusalIsTotal ==
  ASSUME NEW h
  PROVE  PassedWithin(h, Minute + MaxWait - 1) = Totals(h)[Minute + MaxWait - 1]
<1>1. Minute + MaxWait - 1 \in Ages
  BY DEF Ages
<1> QED
  BY <1>1 DEF Totals

LEMMA LimiterInvInit == LimiterInit => LimiterInv
<1> SUFFICES ASSUME LimiterInit PROVE LimiterInv
  OBVIOUS
<1>1. LimiterKinds
  BY DEF LimiterInit, LimiterKinds, EntryKind
<1>2. ASSUME NEW h \in Headers PROVE Bounded(Totals(h), seconds, limiter[h])
  <2>1. passed[h] \in [Ages -> Nat]
    BY <1>1 DEF LimiterKinds
  <2>2. ASSUME NEW k \in Ages PROVE Totals(h)[k] = 0
    <3>1. IsFiniteSet(0..k) /\ \A a \in 0..k : passed[h][a] = 0
      BY FS_Interval DEF LimiterInit, Ages
    <3> QED
      BY <3>1, SumZero DEF Totals, PassedWithin
  <2>3. 0 \in Ages /\ 0..Minute \subseteq Ages
    BY DEF Ages
  <2>4. limiter[h] = NoEntry
    BY DEF LimiterInit
  <2> QED
    BY <2>2, <2>3, <2>4 DEF Bounded
<1>3. WaitsAreShort /\ Refusals
  BY DEF LimiterInit, WaitsAreShort, Refusals
<1> QED
  BY <1>1, <1>2, <1>3 DEF LimiterInv

LEMMA ReadClockKeeps ==
  ASSUME LimiterInv, NEW r \in Requests, NEW h \in Headers, ReadClock(r, h)
  PROVE  LimiterInv'
<1> USE DEF ReadClock
<1>1. LimiterKinds'
  BY DEF LimiterInv, LimiterKinds
<1>2. WaitsAreShort'
  BY DEF LimiterInv, LimiterKinds, WaitsAreShort
<1>3. \A g \in Headers : Bounded(Totals(g), seconds, limiter[g])'
  BY DEF LimiterInv, Totals, PassedWithin, Bounded, Used
<1>4. Refusals'
  BY DEF LimiterInv, Refusals, PassedWithin
<1> QED
  BY <1>1, <1>2, <1>3, <1>4 DEF LimiterInv

LEMMA SecondKeeps == ASSUME LimiterInv, Second PROVE LimiterInv'
<1>1. LimiterKinds'
  <2>1. passed' \in [Headers -> [Ages -> Nat]]
    <3>1. \A h \in Headers, a \in Ages : a # 0 => a - 1 \in Ages
      BY DEF Ages
    <3> QED
      BY <3>1 DEF LimiterInv, LimiterKinds, Second
  <2>2. seconds' = seconds + 1 /\ seconds' \in 0..MaxClock
    BY DEF LimiterInv, LimiterKinds, Second
  <2>3. /\ limiter' = limiter /\ header' = header /\ nowSecs' = nowSecs /\ refused' = {}
    BY DEF Second
  <2>4. \A h \in Headers : limiter[h] # NoEntry => limiter[h].window \in Nat
    BY KindOfEntry DEF LimiterInv, LimiterKinds
  <2>5. \A h \in Headers : limiter'[h] # NoEntry => limiter'[h].window <= seconds'
    BY <2>2, <2>3, <2>4 DEF LimiterInv, LimiterKinds
  <2>6. nowSecs' \in [Requests -> 0..seconds']
    BY <2>2, <2>3 DEF LimiterInv, LimiterKinds
  <2> QED
    BY <2>1, <2>2, <2>3, <2>5, <2>6 DEF LimiterInv, LimiterKinds
<1>2. WaitsAreShort'
  BY DEF LimiterInv, LimiterKinds, WaitsAreShort, Second
<1>3. ASSUME NEW h \in Headers PROVE Bounded(Totals(h)', seconds', limiter'[h])
  <2> DEFINE f == passed[h]
             g == passed'[h]
  <2>1. f \in [Ages -> Nat] /\ g \in [Ages -> Nat]
    BY <1>1 DEF LimiterInv, LimiterKinds
  <2>2. g[0] = 0 /\ \A a \in Ages : a # 0 => g[a] = f[a - 1]
    BY DEF Second, Ages
  <2>3. Totals(h) \in [Ages -> Nat] /\ \A k \in Ages : Totals(h)[k] = Within(f, k)
    BY <2>1, TotalsKind
  <2>4. Totals(h)' \in [Ages -> Nat] /\ \A k \in Ages : Totals(h)'[k] = Within(g, k)
    <3>1. \A k \in Ages : PassedWithin(h, k)' = Within(g, k)
      BY DEF PassedWithin, Within
    <3> QED
      BY <2>1, <3>1, WithinType DEF Totals
  <2> HIDE DEF f, g
  <2>5. \A k \in Ages : Within(g, k) = IF k = 0 THEN 0 ELSE Within(f, k - 1)
    BY <2>1, <2>2, WithinLater
  <2>6. Totals(h)'[0] = 0 /\ \A k \in Ages : k # 0 => Totals(h)'[k] = Totals(h)[k - 1]
    BY <2>3, <2>4, <2>5 DEF Ages
  <2>7. /\ seconds \in Nat /\ limiter[h] \in EntryKind
        /\ limiter[h] # NoEntry => limiter[h].window <= seconds
        /\ Bounded(Totals(h), seconds, limiter[h])
    BY DEF LimiterInv, LimiterKinds
  <2>8. Bounded(Totals(h)', seconds + 1, limiter[h])
    BY <2>3, <2>4, <2>6, <2>7, SecondBounded
  <2> QED
    BY <2>8 DEF Second
<1>4. Refusals'
  BY DEF Refusals, Second
<1> QED
  BY <1>1, <1>2, <1>3, <1>4 DEF LimiterInv

\* The map without the entries that are two minutes old.
LEMMA PrunedKeeps ==
  ASSUME LimiterInv, NEW n \in 0..seconds, NEW h \in Headers
  PROVE  /\ Pruned(n) \in [Headers -> EntryKind]
         /\ Pruned(n)[h] # NoEntry => Pruned(n)[h].window <= seconds
         /\ Bounded(Totals(h), seconds, Pruned(n)[h])
<1>1. Pruned(n) \in [Headers -> EntryKind]
  BY DEF LimiterInv, LimiterKinds, Pruned, EntryKind
<1>2. CASE Pruned(n)[h] = limiter[h]
  BY <1>1, <1>2 DEF LimiterInv, LimiterKinds
<1>3. CASE Pruned(n)[h] # limiter[h]
  <2>1. /\ Pruned(n)[h] = NoEntry /\ limiter[h] # NoEntry
        /\ ~ (Since(n, limiter[h].window) < 2 * Minute)
    BY <1>3 DEF LimiterInv, LimiterKinds, Pruned
  <2>2. limiter[h] \in EntryKind /\ seconds \in Nat
    BY DEF LimiterInv, LimiterKinds
  <2>3. limiter[h].window \in Nat
    BY <2>1, <2>2, KindOfEntry
  <2>4. seconds >= limiter[h].window + 2 * Minute
    BY <2>1, <2>2, <2>3 DEF Since
  <2>5. Totals(h) \in [Ages -> Nat]
    BY TotalsKind DEF LimiterInv, LimiterKinds
  <2>6. Bounded(Totals(h), seconds, limiter[h])
    BY DEF LimiterInv
  <2>7. Bounded(Totals(h), seconds, NoEntry)
    BY <2>1, <2>2, <2>4, <2>5, <2>6, OldMayGo
  <2> QED
    BY <1>1, <2>1, <2>7
<1> QED
  BY <1>2, <1>3

LEMMA EntryIsAKind ==
  ASSUME NEW e \in EntryKind, NEW s \in Nat, NEW n \in 0..s,
         e # NoEntry => e.window <= s
  PROVE  Entry(e, n) \in EntryKind /\ Entry(e, n).window <= s
<1>1. CASE e = NoEntry \/ Since(n, e.window) >= Minute
  <2>1. Entry(e, n) = [count |-> 1, window |-> n]
    BY <1>1 DEF Entry
  <2> QED
    BY <2>1 DEF EntryKind
<1>2. CASE ~ (e = NoEntry \/ Since(n, e.window) >= Minute)
  <2>1. e = [count |-> e.count, window |-> e.window]
        /\ e.count \in 1..(RpmLimit + 1) /\ e.window \in Nat
    BY <1>2, KindOfEntry
  <2>2. Entry(e, n) = [count |-> IF e.count > RpmLimit THEN e.count ELSE e.count + 1,
                       window |-> e.window]
    BY <1>2, <2>1 DEF Entry
  <2>3. e.window <= s
    BY <1>2
  <2> QED
    BY <2>1, <2>2, <2>3 DEF EntryKind
<1> QED
  BY <1>1, <1>2

\* The entry a request has counted itself in says what passed, with it.
LEMMA EntryBounded ==
  ASSUME NEW p \in [Ages -> Nat], NEW q \in [Ages -> Nat], NEW s \in Nat, NEW n \in 0..s,
         s - n <= MaxWait, NEW e \in EntryKind, Bounded(p, s, e),
         \A k \in Ages :
           q[k] = IF Entry(e, n).count > RpmLimit THEN p[k] ELSE p[k] + 1
  PROVE  Bounded(q, s, Entry(e, n))
<1> DEFINE d == Entry(e, n)
<1>1. CASE e = NoEntry \/ Since(n, e.window) >= Minute
  <2>1. d = [count |-> 1, window |-> n]
    BY <1>1 DEF Entry
  <2>2. d.count > RpmLimit <=> RpmLimit = 0
    BY <2>1
  <2>3. e = NoEntry \/ n - e.window >= Minute
    BY <1>1, KindOfEntry DEF Since
  <2> HIDE DEF d
  <2>4. \A k \in Ages : q[k] = IF RpmLimit = 0 THEN p[k] ELSE p[k] + 1
    BY <2>2 DEF d
  <2>5. n \in Nat /\ n <= s
    OBVIOUS
  <2>6. Bounded(q, s, d)
    BY <2>1, <2>3, <2>4, <2>5, NewWindow
  <2> QED
    BY <2>6 DEF d
<1>2. CASE ~ (e = NoEntry \/ Since(n, e.window) >= Minute)
  <2>1. d # NoEntry /\ d.window = e.window
        /\ d.count = IF e.count > RpmLimit THEN e.count ELSE e.count + 1
    <3>1. e = [count |-> e.count, window |-> e.window]
          /\ e.count \in 1..(RpmLimit + 1) /\ e.window \in Nat
      BY <1>2, KindOfEntry
    <3>2. d = [count |-> IF e.count > RpmLimit THEN e.count ELSE e.count + 1,
               window |-> e.window]
      BY <1>2, <3>1 DEF Entry
    <3> QED
      BY <3>1, <3>2
  <2>2. e # NoEntry /\ n - e.window < Minute
    BY <1>2, KindOfEntry DEF Since
  <2>3. \A k \in Ages : q[k] = IF d.count > RpmLimit THEN p[k] ELSE p[k] + 1
    OBVIOUS
  <2>4. n \in Nat /\ n <= s
    OBVIOUS
  <2> HIDE DEF d
  <2>5. Bounded(q, s, d)
    BY <2>1, <2>2, <2>3, <2>4, OpenWindow
  <2> QED
    BY <2>5 DEF d
<1> QED
  BY <1>1, <1>2

LEMMA CountKeeps ==
  ASSUME LimiterInv, NEW r \in Requests, Count(r)
  PROVE  LimiterInv'
<1> DEFINE h == header[r]
           n == nowSecs[r]
           e == Pruned(n)[h]
           d == Entry(e, n)
<1>1. /\ h \in Headers /\ h # NoEntry /\ seconds \in Nat /\ n \in 0..seconds
      /\ seconds - n <= MaxWait
  BY DEF LimiterInv, LimiterKinds, WaitsAreShort, Count
<1>2. /\ header' = [header EXCEPT ![r] = NoEntry]
      /\ limiter' = [Pruned(n) EXCEPT ![h] = d]
      /\ nowSecs' = [nowSecs EXCEPT ![r] = 0] /\ seconds' = seconds
  BY DEF Count
<1>3. \/ /\ d.count > RpmLimit /\ refused' = refused \cup {h} /\ passed' = passed
      \/ /\ ~ (d.count > RpmLimit) /\ refused' = refused
         /\ passed' = [passed EXCEPT ![h][0] = @ + 1]
  BY DEF Count
<1>4. \A g \in Headers : /\ Pruned(n) \in [Headers -> EntryKind]
                         /\ Pruned(n)[g] # NoEntry => Pruned(n)[g].window <= seconds
                         /\ Bounded(Totals(g), seconds, Pruned(n)[g])
  BY <1>1, PrunedKeeps
<1>5. e \in EntryKind /\ d \in EntryKind /\ d.window <= seconds
  BY <1>1, <1>4, EntryIsAKind
<1> HIDE DEF d, e, n, h
<1>6. passed \in [Headers -> [Ages -> Nat]] /\ passed' \in [Headers -> [Ages -> Nat]]
  <2>1. 0 \in Ages
    BY DEF Ages
  <2> QED
    BY <1>1, <1>3, <2>1, SMTT(30) DEF LimiterInv, LimiterKinds
<1>7. LimiterKinds'
  <2>1. limiter' \in [Headers -> EntryKind]
    BY <1>1, <1>2, <1>4, <1>5
  <2>2. \A g \in Headers : limiter'[g] # NoEntry => limiter'[g].window <= seconds'
    BY <1>1, <1>2, <1>4, <1>5
  <2>3. header' \in [Requests -> Headers \cup {NoEntry}]
        /\ nowSecs' \in [Requests -> 0..seconds]
    BY <1>2 DEF LimiterInv, LimiterKinds
  <2>4. refused' \subseteq Headers
    BY <1>1, <1>3 DEF LimiterInv, LimiterKinds
  <2> QED
    BY <1>2, <1>6, <2>1, <2>2, <2>3, <2>4 DEF LimiterInv, LimiterKinds
<1>8. WaitsAreShort'
  BY <1>2 DEF LimiterInv, LimiterKinds, WaitsAreShort
<1>9. ASSUME NEW g \in Headers
      PROVE  \A k \in Ages : Totals(g)'[k] =
               IF g = h /\ ~ (d.count > RpmLimit) THEN Totals(g)[k] + 1 ELSE Totals(g)[k]
  <2>1. \A k \in Ages : Totals(g)'[k] = Within(passed'[g], k)
                        /\ Totals(g)[k] = Within(passed[g], k)
    BY DEF Totals, PassedWithin, Within
  <2>2. CASE g = h /\ ~ (d.count > RpmLimit)
    <3> DEFINE b == passed[g]
               c == passed'[g]
    <3>1. b \in [Ages -> Nat] /\ c \in [Ages -> Nat]
      BY <1>6
    <3>2. c[0] = b[0] + 1 /\ \A a \in Ages : a # 0 => c[a] = b[a]
      BY <1>3, <1>6, <2>2 DEF Ages
    <3> HIDE DEF b, c
    <3>3. \A k \in Ages : Within(c, k) = Within(b, k) + 1
      BY <3>1, <3>2, WithinPassed
    <3> QED
      BY <2>1, <2>2, <3>3 DEF b, c
  <2>3. CASE ~ (g = h /\ ~ (d.count > RpmLimit))
    <3>1. passed'[g] = passed[g]
      BY <1>3, <1>6, <2>3
    <3> QED
      BY <2>1, <2>3, <3>1
  <2> QED
    BY <2>2, <2>3
<1>10. \A g \in Headers : Totals(g) \in [Ages -> Nat] /\ Totals(g)' \in [Ages -> Nat]
  <2>1. \A g \in Headers : Totals(g) \in [Ages -> Nat]
    BY <1>6, TotalsKind
  <2>2. \A g \in Headers, k \in Ages : PassedWithin(g, k)' \in Nat
    <3>1. \A g \in Headers, k \in Ages : PassedWithin(g, k)' = Within(passed'[g], k)
      BY DEF PassedWithin, Within
    <3> QED
      BY <1>6, <3>1, WithinType
  <2> QED
    BY <2>1, <2>2 DEF Totals
<1>11. ASSUME NEW g \in Headers PROVE Bounded(Totals(g)', seconds', limiter'[g])
  <2>1. CASE g = h
    <3> DEFINE p == Totals(g)
               q == Totals(g)'
    <3>1. limiter'[g] = d
      BY <1>2, <1>4, <2>1
    <3>2. \A k \in Ages : q[k] = IF d.count > RpmLimit THEN p[k] ELSE p[k] + 1
      BY <1>9, <2>1
    <3>3. p \in [Ages -> Nat] /\ q \in [Ages -> Nat]
      BY <1>10
    <3>4. Bounded(p, seconds, e)
      BY <1>4, <2>1 DEF e
    <3> HIDE DEF p, q
    <3>5. Bounded(q, seconds, d)
      BY <1>1, <1>5, <3>2, <3>3, <3>4, EntryBounded DEF d
    <3> QED
      BY <1>2, <3>1, <3>5 DEF q
  <2>2. CASE g # h
    <3>1. limiter'[g] = Pruned(n)[g]
      BY <1>2, <1>4, <2>2
    <3>2. Totals(g)' = Totals(g)
      BY <1>9, <1>10, <2>2
    <3> QED
      BY <1>2, <1>4, <3>1, <3>2
  <2> QED
    BY <2>1, <2>2
<1>12. Refusals'
  <2> SUFFICES ASSUME NEW g \in refused'
               PROVE  PassedWithin(g, Minute + MaxWait - 1)' >= RpmLimit
    BY DEF Refusals
  <2> DEFINE k == Minute + MaxWait - 1
  <2>1. k \in Ages /\ g \in Headers
    BY <1>7 DEF LimiterKinds, Ages
  <2>2. PassedWithin(g, k)' = Totals(g)'[k]
    BY <2>1 DEF Totals
  <2>3. Totals(g)'[k] \in Nat /\ Totals(g)[k] \in Nat /\ Totals(g)'[k] >= Totals(g)[k]
    BY <1>9, <1>10, <2>1
  <2>4. Totals(g)[k] >= RpmLimit
    <3>1. CASE g \in refused
      BY <2>1, <3>1 DEF LimiterInv, Refusals, Totals
    <3>2. CASE g \notin refused
      <4>1. g = h /\ d.count > RpmLimit
        BY <1>3, <3>2
      <4>2. Bounded(Totals(g), seconds, e) /\ Totals(g) \in [Ages -> Nat]
        BY <1>4, <1>10, <2>1, <4>1 DEF e
      <4>3. n \in Nat /\ n <= seconds
        BY <1>1
      <4> QED
        BY <1>1, <1>5, <4>1, <4>2, <4>3, RefusedIsFull DEF d
    <3> QED
      BY <3>1, <3>2
  <2> QED
    BY <2>2, <2>3, <2>4
<1> QED
  BY <1>7, <1>8, <1>11, <1>12 DEF LimiterInv

LEMMA LimiterInvCorrect == LimiterSpec => []LimiterInv
<1>1. ASSUME LimiterInv, [LimiterNext]_limiterVars PROVE LimiterInv'
  <2>1. CASE \E r \in Requests : Count(r)
    BY <1>1, <2>1, CountKeeps
  <2>2. CASE \E r \in Requests, h \in Headers : ReadClock(r, h)
    BY <1>1, <2>2, ReadClockKeeps
  <2>3. CASE Second
    BY <1>1, <2>3, SecondKeeps
  <2>4. CASE UNCHANGED limiterVars
    BY <1>1, <2>4 DEF limiterVars, LimiterInv, LimiterKinds, WaitsAreShort, Refusals,
                      Totals, PassedWithin, Bounded, Used
  <2> QED
    BY <1>1, <2>1, <2>2, <2>3, <2>4 DEF LimiterNext
<1> QED
  BY <1>1, LimiterInvInit, PTL DEF LimiterSpec

(***************************************************************************)
(* The map, the clock and the histories keep their kinds: a counter is     *)
(* between one and the first refusal, a window never lies ahead of the     *)
(* clock.                                                                  *)
(***************************************************************************)
THEOREM LimiterTypeCorrect == LimiterSpec => []LimiterTypeOK
<1>1. ASSUME LimiterInv PROVE LimiterTypeOK
  <2>1. ASSUME NEW h \in Headers
        PROVE  \/ limiter[h] = NoEntry
               \/ limiter[h].count \in 1..(RpmLimit + 1) /\ limiter[h].window \in 0..seconds
    BY <1>1, KindOfEntry DEF LimiterInv, LimiterKinds
  <2> QED
    BY <1>1, <2>1 DEF LimiterTypeOK, LimiterInv, LimiterKinds
<1> QED
  BY <1>1, LimiterInvCorrect, PTL

(***************************************************************************)
(* However many keys and requests there are, whatever the limit, the wait  *)
(* for the mutex and what is pruned: no more than twice the limit passes   *)
(* under a header in a minute less that wait, and whoever is refused       *)
(* finds the limit used up in the minute before, with that wait.           *)
(***************************************************************************)
THEOREM TwiceTheLimitAlways == LimiterSpec => []TwiceTheLimit
<1>1. ASSUME LimiterInv PROVE TwiceTheLimit
  <2> SUFFICES ASSUME NEW h \in Headers
               PROVE  /\ PassedWithin(h, Minute - MaxWait) <= 2 * RpmLimit
                      /\ h \in refused => PassedWithin(h, Minute + MaxWait - 1) >= RpmLimit
    BY DEF TwiceTheLimit
  <2> DEFINE k == Minute - MaxWait
             e == limiter[h]
  <2>1. k \in Ages /\ k \in 0..Minute
    BY DEF Ages
  <2>2. /\ seconds \in Nat /\ e \in EntryKind /\ (e # NoEntry => e.window <= seconds)
        /\ Bounded(Totals(h), seconds, e)
    BY <1>1 DEF LimiterInv, LimiterKinds
  <2>3. Totals(h)[k] = PassedWithin(h, k) /\ Totals(h)[k] \in Nat
    <3>1. Totals(h) \in [Ages -> Nat]
      BY <1>1, TotalsKind DEF LimiterInv, LimiterKinds
    <3> QED
      BY <2>1, <3>1 DEF Totals
  <2>4. h \in refused => PassedWithin(h, Minute + MaxWait - 1) >= RpmLimit
    BY <1>1 DEF LimiterInv, Refusals
  <2> HIDE DEF e
  <2>5. CASE e = NoEntry
    BY <2>1, <2>2, <2>3, <2>4, <2>5 DEF Bounded
  <2>6. CASE e # NoEntry
    <3>1. e.window \in Nat /\ Used(e) \in 0..RpmLimit
      BY <2>2, <2>6, KindOfEntry
    <3>2. seconds - k >= e.window + MaxWait - Minute
      BY <2>2, <2>6, <3>1
    <3>3. Totals(h)[k] <= RpmLimit + Used(e)
      BY <2>1, <2>2, <2>6, <3>2 DEF Bounded
    <3> QED
      BY <2>3, <2>4, <3>1, <3>3
  <2> QED
    BY <2>5, <2>6
<1> QED
  BY <1>1, LimiterInvCorrect, PTL
=================================================================================
