--------------------------- MODULE Invocation_proofs ---------------------------
(***************************************************************************)
(* Proofs about an invocation of an agent and about the trace it leaves:   *)
(* AgentProcess, for any pieces of text and any number of them; TraceTree, *)
(* for any number of phases, attempts and runs, whichever phases have a    *)
(* verifier, and whenever processes die.                                   *)
(***************************************************************************)
EXTENDS AgentProcess, TraceTree, Sums

Child == {"child", "exited", "closed"}
Request == {"connect", "body", "whole"}

(***************************************************************************)
(* A child's invocation goes through Child and a request's through         *)
(* Request; nothing is delivered before it is answered; and as long as the *)
(* child's output has not been judged, or was with a code other than 0,    *)
(* the checkpoint holds all that was heard of it.                          *)
(***************************************************************************)
AgentInv ==
  /\ link \in Child => provider = "cli"
  /\ link \in Request => provider = "http"
  /\ link = "none" => wal = heard /\ code = 0
  /\ outcome = "ok" => link = "answered"
  /\ OkIsComplete
  /\ WalKeepsOutput

LEMMA AgentInvStep == AgentInv /\ [AgentNext]_agentVars => AgentInv'
<1> SUFFICES ASSUME AgentInv, [AgentNext]_agentVars PROVE AgentInv'
  OBVIOUS
<1> USE DEF AgentInv, OkIsComplete, WalKeepsOutput, Child, Request, stream, clock, result
<1>1. CASE Invoke
  BY <1>1 DEF Invoke
<1>2. CASE Misconfigured
  BY <1>2 DEF Misconfigured, Fails
<1>3. ASSUME NEW piece \in Pieces, Says(piece) PROVE AgentInv'
  BY <1>3 DEF Says
<1>4. CASE Hears
  BY <1>4 DEF Hears
<1>5. CASE TimePasses \/ WatchdogFires
  BY <1>5 DEF TimePasses, WatchdogFires
<1>6. CASE ChildExits
  BY <1>6 DEF ChildExits
<1>7. CASE PipesClose
  BY <1>7 DEF PipesClose
<1>8. CASE OnClose
  <2>1. provider = "cli" /\ link' = "answered" /\ wal = heard
    BY <1>8 DEF OnClose, Fails, Delivers
  <2>2. CASE watch = "fired" \/ code # 0
    BY <1>8, <2>1, <2>2 DEF OnClose, Fails, WalAfterClose
  <2>3. CASE ~(watch = "fired" \/ code # 0)
    BY <1>8, <2>1, <2>3 DEF OnClose, Delivers, WalAfterClose
  <2> QED
    BY <2>2, <2>3
<1>9. CASE OnError
  BY <1>9 DEF OnError, Fails
<1>10. CASE HeadersArrive \/ BodyEnds
  BY <1>10 DEF HeadersArrive, BodyEnds
<1>11. CASE ConnectFails \/ BodyBreaks
  BY <1>11 DEF ConnectFails, BodyBreaks, Fails
<1>12. CASE OnBody
  BY <1>12 DEF OnBody, Fails, Delivers
<1>13. CASE NodeDies
  BY <1>13 DEF NodeDies
<1>14. CASE UNCHANGED agentVars
  BY <1>14 DEF agentVars
<1> QED
  BY <1>1, <1>2, <1>3, <1>4, <1>5, <1>6, <1>7, <1>8, <1>9, <1>10, <1>11, <1>12, <1>13,
     <1>14
  DEF AgentNext, AgentProgress

LEMMA AgentInvHolds == AgentSpec => []AgentInv
<1>1. AgentInit => AgentInv
  BY DEF AgentInit, AgentInv, OkIsComplete, WalKeepsOutput, Child, Request
<1> QED
  BY <1>1, AgentInvStep, PTL DEF AgentSpec

\* A child's output is judged only when it is all there, after exit code 0 and
\* in time.
THEOREM OkComplete == AgentSpec => []OkIsComplete
<1>1. AgentInv => OkIsComplete
  BY DEF AgentInv
<1> QED
  BY <1>1, AgentInvHolds, PTL

\* What a child that failed, or was cut off, said is in its checkpoint.
THEOREM WalKept == AgentSpec => []WalKeepsOutput
<1>1. AgentInv => WalKeepsOutput
  BY DEF AgentInv
<1> QED
  BY <1>1, AgentInvHolds, PTL

-----------------------------------------------------------------------------
(***************************************************************************)
(* Type correctness.  What is delivered is a text because pieces of text   *)
(* put together are one, however many: FlattenSeq is a recursive function, *)
(* which exists up to every n.                                             *)
(***************************************************************************)
\* The pieces of a text, put together from the first to the n-th.
Flattened(seqs) ==
  CHOOSE flat : flat = [i \in 1..Len(seqs) |->
    IF i = 1 THEN seqs[i] ELSE flat[i - 1] \o seqs[i]]

\* Such a function exists, and FlattenSeq is its last value.
LEMMA FlattenedIsDefined ==
  ASSUME NEW seqs, NEW n \in Nat, Len(seqs) = n
  PROVE  /\ n > 0 => FlattenSeq(seqs) = Flattened(seqs)[n]
         /\ \A i \in 1..n :
              Flattened(seqs)[i] = IF i = 1 THEN seqs[i] ELSE Flattened(seqs)[i - 1] \o seqs[i]
<1> DEFINE Rule(g, m) == [i \in 1..m |-> IF i = 1 THEN seqs[i] ELSE g[i - 1] \o seqs[i]]
           Defined == {m \in Nat : \E g : g = Rule(g, m)}
<1>1. 0 \in Defined
  <2> DEFINE none == [i \in {} |-> 0]
             emp(g) == [i \in {} |-> IF i = 1 THEN seqs[i] ELSE g[i - 1] \o seqs[i]]
  <2>1. 1..0 = {}
    OBVIOUS
  <2>2. none = emp(none)
    BY Zenon
  <2>3. Rule(none, 0) = emp(none)
    BY <2>1, Zenon
  <2> QED
    BY <2>2, <2>3, Zenon
<1>2. ASSUME NEW m \in Nat, m \in Defined PROVE m + 1 \in Defined
  <2>0. m + 1 \in Nat
    OBVIOUS
  <2> SUFFICES \E g : g = Rule(g, m + 1)
    BY <2>0, Zenon
  <2>1. PICK g : g = Rule(g, m)
    BY <1>2, Zenon
  <2> DEFINE h == Rule(g, m + 1)
  <2>2. ASSUME NEW i \in 1..(m + 1), i # 1 PROVE h[i - 1] = g[i - 1]
    <3>1. i - 1 \in 1..m /\ i - 1 \in 1..(m + 1)
      BY <2>2
    <3>2. g[i - 1] = Rule(g, m)[i - 1]
      BY <2>1
    <3> QED
      BY <3>1, <3>2
  <2>3. Rule(g, m + 1) = Rule(h, m + 1)
    <3> HIDE DEF h
    <3> QED
      BY <2>2
  <2>4. h = Rule(h, m + 1)
    BY <2>3
  <2> QED
    BY <2>4
<1> HIDE DEF Defined
<1>3. n \in Defined
  BY <1>1, <1>2, NatSetInduction
<1>4. \E g : g = Rule(g, n)
  BY <1>3 DEF Defined
<1>5. Flattened(seqs) = Rule(Flattened(seqs), n)
  BY <1>4 DEF Flattened
<1>6. n > 0 => FlattenSeq(seqs) = Flattened(seqs)[n]
  BY DEF FlattenSeq, Flattened
<1> HIDE DEF Rule
<1>7. ASSUME NEW i \in 1..n
      PROVE  Flattened(seqs)[i] = IF i = 1 THEN seqs[i] ELSE Flattened(seqs)[i - 1] \o seqs[i]
  <2>1. Rule(Flattened(seqs), n)[i]
          = IF i = 1 THEN seqs[i] ELSE Flattened(seqs)[i - 1] \o seqs[i]
    BY DEF Rule
  <2> QED
    BY <1>5, <2>1
<1> QED
  BY <1>6, <1>7

LEMMA FlattenKind ==
  ASSUME NEW S, NEW seqs \in Seq(Seq(S)) PROVE FlattenSeq(seqs) \in Seq(S)
<1> DEFINE n == Len(seqs)
           flat == Flattened(seqs)
           Kept == {i \in Nat : i \in 1..n => flat[i] \in Seq(S)}
<1>1. /\ n > 0 => FlattenSeq(seqs) = flat[n]
      /\ \A i \in 1..n : flat[i] = IF i = 1 THEN seqs[i] ELSE flat[i - 1] \o seqs[i]
  BY FlattenedIsDefined
<1>2. n \in Nat /\ \A i \in 1..n : seqs[i] \in Seq(S)
  OBVIOUS
<1> HIDE DEF flat
<1>3. 0 \in Kept
  OBVIOUS
<1>4. ASSUME NEW i \in Nat, i \in Kept PROVE i + 1 \in Kept
  <2> SUFFICES ASSUME i + 1 \in 1..n PROVE flat[i + 1] \in Seq(S)
    OBVIOUS
  <2>1. CASE i = 0
    BY <1>1, <1>2, <2>1
  <2>2. CASE i # 0
    <3>1. flat[i] \in Seq(S)
      BY <1>4, <2>2
    <3>2. flat[i + 1] = flat[i] \o seqs[i + 1]
      <4>1. i + 1 # 1 /\ (i + 1) - 1 = i
        BY <2>2
      <4> QED
        BY <1>1, <4>1
    <3>3. seqs[i + 1] \in Seq(S)
      BY <1>2
    <3> QED
      BY <3>1, <3>2, <3>3
  <2> QED
    BY <2>1, <2>2
<1> HIDE DEF Kept
<1>5. Nat \subseteq Kept
  BY <1>3, <1>4, NatSetInduction
<1>6. CASE n = 0
  BY <1>6 DEF FlattenSeq
<1>7. CASE n > 0
  <2>1. n \in Kept
    BY <1>2, <1>5
  <2> QED
    BY <1>1, <1>2, <1>7, <2>1 DEF Kept
<1> QED
  BY <1>2, <1>6, <1>7

\* What node has heard, and what is in the checkpoint, is a beginning of what was
\* said.
Begins(s, t) == Len(s) <= Len(t) /\ \A i \in 1..Len(s) : s[i] = t[i]

AgentTypeInv ==
  /\ provider \in {"none", "cli", "http"}
  /\ link \in {"none", "answered", "died"} \cup Child \cup Request
  /\ said \in Seq(Pieces) /\ heard \in Seq(Pieces) /\ wal \in Seq(Pieces)
  /\ Begins(heard, said) /\ Begins(wal, said)
  /\ code \in {0, 1} /\ quiet \in BOOLEAN /\ watch \in {"off", "armed", "fired"}
  /\ outcome \in {"none", "failed", "ok"} /\ output \in Seq(Tokens)

LEMMA HeardKind ==
  ASSUME AgentTypeInv PROVE FlattenSeq(heard) \in Seq(Tokens)
<1>1. heard \in Seq(Seq(Tokens))
  BY AgentAssumption DEF AgentTypeInv
<1> QED
  BY <1>1, FlattenKind

LEMMA AgentTypeStep ==
  AgentTypeInv /\ AgentInv /\ [AgentNext]_agentVars => AgentTypeInv'
<1> SUFFICES ASSUME AgentTypeInv, AgentInv, [AgentNext]_agentVars PROVE AgentTypeInv'
  OBVIOUS
<1> USE DEF AgentTypeInv, stream, clock, result, Child, Request
<1>1. CASE Invoke
  BY <1>1 DEF Invoke, Begins
<1>2. CASE Misconfigured
  BY <1>2 DEF Misconfigured, Fails, Begins
<1>3. ASSUME NEW piece \in Pieces, Says(piece) PROVE AgentTypeInv'
  <2>1. said' \in Seq(Pieces) /\ Len(said') = Len(said) + 1
        /\ \A i \in 1..Len(said) : said'[i] = said[i]
    BY <1>3 DEF Says
  <2>2. Begins(heard, said)' /\ Begins(wal, said)'
    BY <1>3, <2>1 DEF Says, Begins
  <2> QED
    BY <1>3, <2>1, <2>2 DEF Says
<1>4. CASE Hears
  <2> DEFINE next == said[Len(heard) + 1]
  <2>1. Len(heard) + 1 \in 1..Len(said) /\ next \in Pieces
    BY <1>4 DEF Hears
  <2>2. heard' = Append(heard, next) /\ UNCHANGED said
    BY <1>4 DEF Hears
  <2>3. heard' \in Seq(Pieces) /\ Begins(heard, said)'
    BY <2>1, <2>2 DEF Begins
  <2>4. wal' = heard' \/ wal' = wal
    BY <1>4, <2>2 DEF Hears, AgentInv, WalKeepsOutput
  <2>5. wal' \in Seq(Pieces) /\ Begins(wal, said)'
    BY <2>2, <2>3, <2>4 DEF Begins
  <2> QED
    BY <1>4, <2>3, <2>5 DEF Hears
<1>5. CASE TimePasses \/ WatchdogFires
  BY <1>5 DEF TimePasses, WatchdogFires, Begins
<1>6. CASE ChildExits \/ PipesClose
  BY <1>6 DEF ChildExits, PipesClose, Begins
<1>7. CASE OnClose
  <2>1. wal' \in Seq(Pieces) /\ Begins(wal, said)' /\ Begins(heard, said)'
    BY <1>7 DEF OnClose, WalAfterClose, Begins
  <2> QED
    BY <1>7, <2>1, HeardKind DEF OnClose, Fails, Delivers
<1>8. CASE OnError
  BY <1>8 DEF OnError, Fails, Begins
<1>9. CASE HeadersArrive \/ BodyEnds
  BY <1>9 DEF HeadersArrive, BodyEnds, Begins
<1>10. CASE ConnectFails \/ BodyBreaks
  BY <1>10 DEF ConnectFails, BodyBreaks, Fails, Begins
<1>11. CASE OnBody
  <2>1. <<>> \in Seq(Tokens) /\ Begins(wal, said)' /\ Begins(heard, said)'
    BY <1>11 DEF OnBody, Begins
  <2> QED
    BY <1>11, <2>1, HeardKind DEF OnBody, Fails, Delivers, ExtractText
<1>12. CASE NodeDies
  BY <1>12 DEF NodeDies, Begins
<1>13. CASE UNCHANGED agentVars
  BY <1>13 DEF agentVars, Begins
<1> QED
  BY <1>1, <1>2, <1>3, <1>4, <1>5, <1>6, <1>7, <1>8, <1>9, <1>10, <1>11, <1>12, <1>13
  DEF AgentNext, AgentProgress

LEMMA BeginsIsPrefix ==
  ASSUME NEW S, NEW s \in Seq(S), NEW t \in Seq(S), Begins(s, t) PROVE IsPrefix(s, t)
BY DEF Begins, IsPrefix

\* What node has heard, and what it has kept of it, is the beginning of what was
\* said, and what is delivered is a text.
THEOREM AgentTypeCorrect == AgentSpec => []AgentTypeOK
<1>1. AgentInit => AgentTypeInv
  <2>1. \A S : <<>> \in Seq(S) /\ Begins(<<>>, <<>>)
    BY DEF Begins
  <2> QED
    BY <2>1 DEF AgentInit, AgentTypeInv
<1>2. AgentTypeInv => AgentTypeOK
  <2> SUFFICES ASSUME AgentTypeInv PROVE AgentTypeOK
    OBVIOUS
  <2>1. IsPrefix(heard, said)
    BY BeginsIsPrefix DEF AgentTypeInv
  <2>2. IsPrefix(wal, said)
    BY BeginsIsPrefix DEF AgentTypeInv
  <2> QED
    BY <2>1, <2>2 DEF AgentTypeInv, AgentTypeOK, Child, Request
<1> QED
  BY <1>1, <1>2, AgentTypeStep, AgentInvHolds, PTL DEF AgentSpec
-----------------------------------------------------------------------------
(***************************************************************************)
(* The receipt.  In a text whose braces match, level by level, the scan    *)
(* finds the outermost pairs of braces and no others; so the last of them  *)
(* that parses is the last receipt that is not inside another object.      *)
(***************************************************************************)
\* What a token adds to the level.
Change(token) == IF token = "open" THEN 1 ELSE IF token = "close" THEN -1 ELSE 0

LEMMA LevelNext ==
  ASSUME NEW text, NEW n \in Nat
  PROVE  /\ Level(text, 0) = 0
         /\ Level(text, n) \in Int
         /\ Level(text, n + 1) = Level(text, n) + Change(text[n + 1])
<1> DEFINE Some(t, m) == {i \in 1..m : text[i] = t}
<1>1. ASSUME NEW t, NEW m \in Nat
      PROVE  /\ IsFiniteSet(Some(t, m)) /\ Cardinality(Some(t, m)) \in Nat
             /\ Cardinality(Some(t, m + 1)) =
                  Cardinality(Some(t, m)) + IF text[m + 1] = t THEN 1 ELSE 0
  <2>1. IsFiniteSet(1..m) /\ Some(t, m) \subseteq 1..m
    BY FS_Interval
  <2>2. IsFiniteSet(Some(t, m))
    BY <2>1, FS_Subset
  <2>3. Some(t, m + 1) = IF text[m + 1] = t THEN Some(t, m) \cup {m + 1} ELSE Some(t, m)
    OBVIOUS
  <2>4. m + 1 \notin Some(t, m)
    OBVIOUS
  <2> HIDE DEF Some
  <2>5. Cardinality(Some(t, m)) \in Nat
    BY <2>2, FS_CardinalityType
  <2>6. Cardinality(Some(t, m) \cup {m + 1}) = Cardinality(Some(t, m)) + 1
    BY <2>2, <2>4, FS_AddElement
  <2> QED
    BY <2>2, <2>3, <2>5, <2>6
<1>2. ASSUME NEW m \in Nat
      PROVE  Level(text, m) = Cardinality(Some("open", m)) - Cardinality(Some("close", m))
  BY DEF Level
<1>3. Some("open", 0) = {} /\ Some("close", 0) = {}
  OBVIOUS
<1> HIDE DEF Some
<1>4. Level(text, 0) = 0
  BY <1>2, <1>3, FS_EmptySet
<1>5. Level(text, n) \in Int
  BY <1>1, <1>2
<1>6. "open" # "close"
  OBVIOUS
<1>7. Level(text, n + 1) = Cardinality(Some("open", n + 1)) - Cardinality(Some("close", n + 1))
  BY <1>2
<1>8. /\ Cardinality(Some("open", n + 1)) =
           Cardinality(Some("open", n)) + IF text[n + 1] = "open" THEN 1 ELSE 0
      /\ Cardinality(Some("close", n + 1)) =
           Cardinality(Some("close", n)) + IF text[n + 1] = "close" THEN 1 ELSE 0
      /\ Cardinality(Some("open", n)) \in Nat /\ Cardinality(Some("close", n)) \in Nat
  BY <1>1
<1>9. Level(text, n) = Cardinality(Some("open", n)) - Cardinality(Some("close", n))
  BY <1>2
<1> QED
  BY <1>4, <1>5, <1>6, <1>7, <1>8, <1>9 DEF Change

\* The levels within a part of a text are those of the text, counted from its start.
LEMMA LevelOfPart ==
  ASSUME NEW text \in Seq(Tokens), NEW i \in 1..Len(text), NEW j \in i..Len(text),
         NEW k \in 0..(j - i + 1)
  PROVE  Level(SubSeq(text, i, j), k) = Level(text, i - 1 + k) - Level(text, i - 1)
<1> DEFINE part == SubSeq(text, i, j)
           n == j - i + 1
           Right == {m \in Nat : m <= n =>
                       Level(part, m) = Level(text, i - 1 + m) - Level(text, i - 1)}
<1>0. i - 1 \in Nat /\ n \in Nat /\ Level(text, i - 1) \in Int
  <2>1. i - 1 \in Nat /\ n \in Nat
    OBVIOUS
  <2> QED
    BY <2>1, LevelNext
<1>1. 0 \in Right
  <2>1. Level(part, 0) = 0
    BY LevelNext
  <2>2. i - 1 + 0 = i - 1
    OBVIOUS
  <2> QED
    BY <1>0, <2>1, <2>2
<1>2. ASSUME NEW m \in Nat, m \in Right PROVE m + 1 \in Right
  <2> SUFFICES ASSUME m + 1 <= n
               PROVE  Level(part, m + 1) = Level(text, i - 1 + (m + 1)) - Level(text, i - 1)
    OBVIOUS
  <2>1. part[m + 1] = text[i + m]
    OBVIOUS
  <2>2. /\ Level(part, m) \in Int
        /\ Level(part, m + 1) = Level(part, m) + Change(part[m + 1])
    BY LevelNext
  <2>3. /\ i - 1 + m \in Nat /\ i - 1 + m + 1 = i + m /\ i - 1 + (m + 1) = i + m
    OBVIOUS
  <2>4. /\ Level(text, i - 1 + m) \in Int
        /\ Level(text, i + m) = Level(text, i - 1 + m) + Change(text[i + m])
    BY <2>3, LevelNext
  <2>5. Level(part, m) = Level(text, i - 1 + m) - Level(text, i - 1)
    BY <1>2, <1>0
  <2>6. Change(text[i + m]) \in Int
    BY DEF Change
  <2> HIDE DEF part
  <2> QED
    BY <1>0, <2>1, <2>2, <2>3, <2>4, <2>5, <2>6
<1> HIDE DEF Right
<1>3. k \in Right /\ k <= n
  BY <1>1, <1>2, NatSetInduction
<1> QED
  BY <1>3 DEF Right

\* A pair of braces that is not inside another.
Outermost(text, a, b) ==
  /\ a \in 1..Len(text) /\ b \in a..Len(text) /\ text[a] = "open"
  /\ Level(text, a - 1) = 0 /\ Level(text, b) = 0
  /\ \A m \in a..(b - 1) : Level(text, m) > 0

LEMMA ReceiptIsOutermost ==
  ASSUME NEW text \in Seq(Tokens), NEW i \in 1..Len(text), NEW j \in i..Len(text),
         Level(text, i - 1) = 0, IsReceipt(SubSeq(text, i, j))
  PROVE  Outermost(text, i, j)
<1> DEFINE part == SubSeq(text, i, j)
           n == j - i + 1
<1>1. Len(part) = n /\ part[1] = text[i]
  OBVIOUS
<1>2. \A k \in 0..n : Level(part, k) = Level(text, i - 1 + k)
  <2>1. \A k \in 0..n : Level(part, k) = Level(text, i - 1 + k) - Level(text, i - 1)
    BY LevelOfPart
  <2>2. \A k \in 0..n : Level(text, i - 1 + k) \in Int
    <3>1. \A k \in 0..n : i - 1 + k \in Nat
      OBVIOUS
    <3> QED
      BY <3>1, LevelNext
  <2> HIDE DEF part, n
  <2> QED
    BY <2>1, <2>2
<1>3. /\ part[1] = "open" /\ Level(part, n) = 0
      /\ \A k \in 1..(n - 1) : Level(part, k) > 0
  BY <1>1 DEF IsReceipt
<1>4. Level(text, j) = 0
  <2>1. n \in 0..n /\ i - 1 + n = j
    OBVIOUS
  <2> QED
    BY <1>2, <1>3, <2>1
<1>5. ASSUME NEW m \in i..(j - 1) PROVE Level(text, m) > 0
  <2>1. m - i + 1 \in 1..(n - 1) /\ m - i + 1 \in 0..n /\ i - 1 + (m - i + 1) = m
    OBVIOUS
  <2> QED
    BY <1>2, <1>3, <2>1
<1> QED
  BY <1>1, <1>3, <1>4, <1>5 DEF Outermost

\* No two of them end in one place.
LEMMA OutermostBegins ==
  ASSUME NEW text \in Seq(Tokens), NEW a, NEW c, NEW b,
         Outermost(text, a, b), Outermost(text, c, b)
  PROVE  a = c
<1>1. ASSUME NEW x, NEW y, Outermost(text, x, b), Outermost(text, y, b), x < y PROVE FALSE
  <2>1. y - 1 \in x..(b - 1)
    BY <1>1 DEF Outermost
  <2> QED
    BY <1>1, <2>1 DEF Outermost
<1>2. a \in Nat /\ c \in Nat
  BY DEF Outermost
<1>3. ~ (a < c) /\ ~ (c < a)
  BY <1>1
<1> QED
  BY <1>2, <1>3

-----------------------------------------------------------------------------
\* The fold of the scan is a function of the set of places it has yet to come to.
Places(text) == [i \in DOMAIN text |-> i]
Reads(text, scan, i) ==
  CASE text[i] = "open" -> Opens(scan, i)
    [] text[i] \in {"close", "quoted"} -> Closes(scan, i)
    [] OTHER -> scan
Begun == [depth |-> 0, start |-> 0, blocks |-> <<>>]
Scans(text) == CHOOSE scans : scans = [s \in SUBSET DOMAIN Places(text) |->
  IF s = {} THEN Begun
  ELSE Reads(text, scans[s \ {Max(s)}], Places(text)[Max(s)])]

\* The blocks are those of the scan that has none to come to.
LEMMA BlocksOfScan == ASSUME NEW text PROVE Blocks(text) = Scans(text)[DOMAIN Places(text)].blocks
BY DEF Blocks, Scans, Begun, Reads, Places, FoldLeftDomain, FoldLeft, MapThenFoldSet

LEMMA MaxOfUpTo ==
  ASSUME NEW m \in Nat, NEW s \in SUBSET (1..m), s # {}
  PROVE  Max(s) \in s /\ \A i \in s : i <= Max(s)
<1>1. \E x \in s : \A y \in s : x >= y
  BY HasGreatest
<1> QED
  BY <1>1 DEF Max

\* There is such a fold, and its values on the first places are those of the loop.
LEMMA ScansIsDefined ==
  ASSUME NEW text \in Seq(Tokens)
  PROVE  /\ Blocks(text) = Scans(text)[1..Len(text)].blocks
         /\ Scans(text)[1..0] = Begun
         /\ \A n \in 0..(Len(text) - 1) :
              Scans(text)[1..(n + 1)] = Reads(text, Scans(text)[1..n], n + 1)
<1> DEFINE Rule(g, m) == [s \in SUBSET (1..m) |->
             IF s = {} THEN Begun ELSE Reads(text, g[s \ {Max(s)}], Places(text)[Max(s)])]
           Defined == {m \in Nat : \E g : g = Rule(g, m)}
<1> HIDE DEF Rule
<1>0. ASSUME NEW g, NEW m \in Nat, NEW s \in SUBSET (1..m)
      PROVE  Rule(g, m)[s] = IF s = {} THEN Begun
                             ELSE Reads(text, g[s \ {Max(s)}], Places(text)[Max(s)])
  BY DEF Rule
<1>1. 0 \in Defined
  <2>1. ASSUME NEW s \in SUBSET (1..0) PROVE s = {}
    OBVIOUS
  <2> DEFINE g == [s \in SUBSET (1..0) |-> Begun]
  <2>2. g = Rule(g, 0)
    BY <2>1, Zenon DEF Rule
  <2> QED
    BY <2>2
<1>2. ASSUME NEW m \in Nat, m \in Defined PROVE m + 1 \in Defined
  <2>0. m + 1 \in Nat
    OBVIOUS
  <2> SUFFICES \E g : g = Rule(g, m + 1)
    BY <2>0, Zenon
  <2>1. PICK g : g = Rule(g, m)
    BY <1>2, Zenon
  <2> DEFINE h == Rule(g, m + 1)
  <2>2. ASSUME NEW s \in SUBSET (1..(m + 1)), s # {}
        PROVE  h[s \ {Max(s)}] = g[s \ {Max(s)}]
    <3> DEFINE t == s \ {Max(s)}
    <3>1. Max(s) \in s /\ \A i \in s : i <= Max(s)
      BY <2>0, <2>2, MaxOfUpTo
    <3>2. t \in SUBSET (1..m) /\ t \in SUBSET (1..(m + 1))
      <4>1. ASSUME NEW i \in t PROVE i \in 1..m
        <5>1. i \in 1..(m + 1) /\ Max(s) \in 1..(m + 1) /\ i # Max(s) /\ i <= Max(s)
          BY <3>1
        <5> QED
          BY <5>1
      <4>2. \A i \in t : i \in 1..m /\ i \in 1..(m + 1)
        BY <4>1
      <4> HIDE DEF t
      <4> QED
        BY <4>2
    <3>3. g[t] = Rule(g, m)[t]
      BY <2>1
    <3> HIDE DEF t
    <3>4. h[t] = Rule(g, m)[t]
      BY <1>0, <2>0, <3>2
    <3> QED
      BY <3>3, <3>4 DEF t
  <2>3. Rule(g, m + 1) = Rule(h, m + 1)
    <3> HIDE DEF h
    <3> QED
      BY <2>2, Zenon DEF Rule
  <2>4. h = Rule(h, m + 1)
    BY <2>3
  <2> QED
    BY <2>4
<1> HIDE DEF Defined
<1>3. Len(text) \in Nat /\ DOMAIN Places(text) = 1..Len(text)
  BY DEF Places
<1>4. \E g : g = Rule(g, Len(text))
  <2>1. Len(text) \in Defined
    BY <1>1, <1>2, <1>3, NatSetInduction
  <2> QED
    BY <2>1 DEF Defined
<1>5. Scans(text) = Rule(Scans(text), Len(text))
  BY <1>3, <1>4, Zenon DEF Scans, Rule
<1>6. ASSUME NEW s \in SUBSET (1..Len(text))
      PROVE  Scans(text)[s] = IF s = {} THEN Begun
               ELSE Reads(text, Scans(text)[s \ {Max(s)}], Places(text)[Max(s)])
  <2>1. Scans(text)[s] = Rule(Scans(text), Len(text))[s]
    BY <1>5
  <2> QED
    BY <1>0, <1>3, <2>1
<1>7. Scans(text)[1..0] = Begun
  <2>1. 1..0 = {} /\ 1..0 \in SUBSET (1..Len(text))
    OBVIOUS
  <2> QED
    BY <1>6, <2>1
<1>8. ASSUME NEW n \in 0..(Len(text) - 1)
      PROVE  Scans(text)[1..(n + 1)] = Reads(text, Scans(text)[1..n], n + 1)
  <2> DEFINE s == 1..(n + 1)
  <2>1. n + 1 \in Nat /\ s # {} /\ s \in SUBSET (1..Len(text)) /\ s \in SUBSET (1..(n + 1))
    <3>1. n \in Nat /\ n + 1 <= Len(text) /\ n + 1 \in s
      BY <1>3
    <3>2. \A i \in s : i \in 1..Len(text)
      BY <1>3, <3>1
    <3> QED
      BY <3>1, <3>2
  <2>2. Max(s) \in s /\ \A i \in s : i <= Max(s)
    BY <2>1, MaxOfUpTo
  <2>3. Max(s) = n + 1
    BY <2>2
  <2>4. s \ {n + 1} = 1..n
    OBVIOUS
  <2>5. Places(text)[n + 1] = n + 1
    BY <1>3 DEF Places
  <2> HIDE DEF s
  <2>6. Scans(text)[s] = Reads(text, Scans(text)[1..n], n + 1)
    BY <1>6, <2>1, <2>3, <2>4, <2>5
  <2> QED
    BY <2>6 DEF s
<1>9. Blocks(text) = Scans(text)[1..Len(text)].blocks
  BY <1>3, BlocksOfScan
<1> QED
  BY <1>7, <1>8, <1>9
-----------------------------------------------------------------------------
(***************************************************************************)
(* What the scan knows of a tidy text after n places: how many braces are  *)
(* open, where the outermost of these is, and all outermost pairs up to    *)
(* there, in their order.                                                  *)
(***************************************************************************)
ScanKind(n) == [depth : Int, start : 0..n, blocks : Seq((1..n) \X (1..n))]

StartOK(text, n, start) ==
  /\ start = 0 <=> Level(text, n) = 0
  /\ start # 0 => /\ text[start] = "open" /\ Level(text, start - 1) = 0
                  /\ \A m \in start..n : Level(text, m) > 0

BlocksOK(text, n, blocks) ==
  /\ \A k \in 1..Len(blocks) : Outermost(text, blocks[k][1], blocks[k][2])
  /\ \A k, l \in 1..Len(blocks) : k < l => blocks[k][2] < blocks[l][2]
  /\ \A a \in 1..n, b \in 1..n :
       Outermost(text, a, b) => \E k \in 1..Len(blocks) : blocks[k] = <<a, b>>

ScanOK(text, n, scan) ==
  /\ scan \in ScanKind(n) /\ scan.depth = Level(text, n)
  /\ StartOK(text, n, scan.start) /\ BlocksOK(text, n, scan.blocks)

\* The blocks are complete as they are when no pair ends at the next place.
LEMMA BlocksKept ==
  ASSUME NEW text \in Seq(Tokens), NEW n \in Nat,
         NEW blocks \in Seq((1..n) \X (1..n)), BlocksOK(text, n, blocks),
         \A a \in 1..(n + 1) : ~ Outermost(text, a, n + 1)
  PROVE  blocks \in Seq((1..(n + 1)) \X (1..(n + 1))) /\ BlocksOK(text, n + 1, blocks)
<1>1. blocks \in Seq((1..(n + 1)) \X (1..(n + 1)))
  <2>1. \A k \in 1..Len(blocks) : blocks[k] \in (1..n) \X (1..n)
    OBVIOUS
  <2>2. \A e \in (1..n) \X (1..n) : e \in (1..(n + 1)) \X (1..(n + 1))
    OBVIOUS
  <2> QED
    BY <2>1, <2>2
<1>2. ASSUME NEW a \in 1..(n + 1), NEW b \in 1..(n + 1), Outermost(text, a, b)
      PROVE  a \in 1..n /\ b \in 1..n
  <2>1. b # n + 1
    BY <1>2
  <2>2. a \in Nat /\ b \in Nat /\ b >= a
    BY <1>2 DEF Outermost
  <2> QED
    BY <2>1, <2>2
<1> QED
  BY <1>1, <1>2 DEF BlocksOK

\* What is said of the scan stays true at a brace that opens, at one that closes,
\* and at all else.
LEMMA OpensKeeps ==
  ASSUME NEW text \in Seq(Tokens), NEW n \in 0..(Len(text) - 1), NEW scan,
         ScanOK(text, n, scan), Level(text, n) >= 0, text[n + 1] = "open"
  PROVE  ScanOK(text, n + 1, Opens(scan, n + 1))
<1> DEFINE next == Opens(scan, n + 1)
<1>0. n \in Nat
  OBVIOUS
<1>1. n \in Nat /\ scan \in ScanKind(n) /\ Level(text, n) \in Int
      /\ Level(text, n + 1) = Level(text, n) + 1
  BY <1>0, LevelNext DEF Change, ScanOK
<1>2. /\ next.depth = Level(text, n + 1) /\ next.blocks = scan.blocks
      /\ next.start = IF Level(text, n) = 0 THEN n + 1 ELSE scan.start
  <2>1. scan.depth = Level(text, n)
    BY DEF ScanOK
  <2> QED
    BY <1>1, <2>1 DEF Opens, ScanKind
<1>3. \A a \in 1..(n + 1) : ~ Outermost(text, a, n + 1)
  BY <1>1 DEF Outermost
<1>4. scan.blocks \in Seq((1..n) \X (1..n)) /\ scan.start \in 0..n
  BY <1>1 DEF ScanKind
<1>5. /\ next.blocks \in Seq((1..(n + 1)) \X (1..(n + 1)))
      /\ BlocksOK(text, n + 1, next.blocks)
  BY <1>1, <1>2, <1>3, <1>4, BlocksKept DEF ScanOK
<1> HIDE DEF next
<1>6. next \in ScanKind(n + 1)
  <2>1. scan \in ScanKind(n + 1)
    BY <1>1, <1>2, <1>4, <1>5 DEF ScanKind
  <2>2. /\ scan.depth + 1 \in Int
        /\ (IF scan.depth = 0 THEN n + 1 ELSE scan.start) \in 0..(n + 1)
    BY <1>1, <1>4 DEF ScanKind
  <2> QED
    BY <2>1, <2>2 DEF ScanKind, Opens, next
<1>7. StartOK(text, n + 1, next.start)
  <2>1. CASE Level(text, n) = 0
    <3>1. next.start = n + 1 /\ next.start - 1 = n
      BY <1>1, <1>2, <2>1
    <3> QED
      BY <1>1, <2>1, <3>1 DEF StartOK
  <2>2. CASE Level(text, n) # 0
    <3>1. next.start = scan.start /\ StartOK(text, n, scan.start)
      BY <1>2, <2>2 DEF ScanOK
    <3>2. \A m \in scan.start..(n + 1) : m \in scan.start..n \/ m = n + 1
      BY <1>1, <1>4
    <3> QED
      BY <1>1, <1>4, <2>2, <3>1, <3>2 DEF StartOK
  <2> QED
    BY <2>1, <2>2
<1> QED
  BY <1>2, <1>5, <1>6, <1>7 DEF ScanOK, next

LEMMA ClosesKeeps ==
  ASSUME NEW text \in Seq(Tokens), NEW n \in 0..(Len(text) - 1), NEW scan,
         ScanOK(text, n, scan), Level(text, n + 1) >= 0, text[n + 1] = "close"
  PROVE  ScanOK(text, n + 1, Closes(scan, n + 1))
<1> DEFINE next == Closes(scan, n + 1)
<1>0. n \in Nat
  OBVIOUS
<1>1. n \in Nat /\ scan \in ScanKind(n) /\ Level(text, n) \in Int
      /\ Level(text, n + 1) = Level(text, n) - 1 /\ Level(text, n) > 0
  <2>1. Change(text[n + 1]) = -1
    BY DEF Change
  <2>2. /\ Level(text, n) \in Int
        /\ Level(text, n + 1) = Level(text, n) + Change(text[n + 1])
    BY <1>0, LevelNext
  <2> QED
    BY <1>0, <2>1, <2>2 DEF ScanOK
<1>2. /\ scan.blocks \in Seq((1..n) \X (1..n)) /\ scan.start \in 1..n
      /\ scan.depth = Level(text, n)
      /\ scan = [depth |-> scan.depth, start |-> scan.start, blocks |-> scan.blocks]
  BY <1>1 DEF ScanKind, ScanOK, StartOK
<1>3. /\ text[scan.start] = "open" /\ Level(text, scan.start - 1) = 0
      /\ \A m \in scan.start..n : Level(text, m) > 0
  BY <1>2 DEF ScanOK, StartOK
<1>4. CASE Level(text, n) = 1
  <2> DEFINE pair == <<scan.start, n + 1>>
  <2>1. next = [depth |-> 0, start |-> 0, blocks |-> Append(scan.blocks, pair)]
    BY <1>2, <1>4 DEF Closes
  <2>2. Outermost(text, scan.start, n + 1)
    <3>1. n + 1 \in 1..Len(text) /\ n + 1 \in scan.start..Len(text)
          /\ scan.start \in 1..Len(text) /\ (n + 1) - 1 = n
      BY <1>2
    <3> QED
      BY <1>1, <1>3, <1>4, <3>1 DEF Outermost
  <2> DEFINE blocks == Append(scan.blocks, pair)
             k == Len(scan.blocks)
  <2>3. /\ k \in Nat /\ Len(blocks) = k + 1 /\ blocks[k + 1] = pair
        /\ \A i \in 1..k : blocks[i] = scan.blocks[i] /\ scan.blocks[i] \in (1..n) \X (1..n)
    BY <1>2
  <2>4. blocks \in Seq((1..(n + 1)) \X (1..(n + 1)))
    <3>1. \A e \in (1..n) \X (1..n) : e \in (1..(n + 1)) \X (1..(n + 1))
      BY <1>1
    <3>2. pair \in (1..(n + 1)) \X (1..(n + 1))
      BY <1>1, <1>2
    <3>3. scan.blocks \in Seq((1..(n + 1)) \X (1..(n + 1)))
      BY <1>2, <2>3, <3>1
    <3> HIDE DEF pair
    <3> QED
      BY <3>2, <3>3
  <2>5. BlocksOK(text, n, scan.blocks)
    BY DEF ScanOK
  <2> HIDE DEF blocks, k
  <2>6. pair[1] = scan.start /\ pair[2] = n + 1
    OBVIOUS
  <2>7. \A i \in 1..(k + 1) : i \in 1..k \/ i = k + 1
    BY <2>3
  <2>8. \A i \in 1..(k + 1) : Outermost(text, blocks[i][1], blocks[i][2])
    BY <2>2, <2>3, <2>5, <2>6, <2>7 DEF BlocksOK, k
  <2>9. ASSUME NEW i \in 1..(k + 1), NEW j \in 1..(k + 1), i < j
        PROVE  blocks[i][2] < blocks[j][2]
    <3>1. i \in 1..k
      BY <2>3, <2>9
    <3>2. blocks[i] = scan.blocks[i] /\ scan.blocks[i][2] \in 1..n
      BY <2>3, <3>1
    <3>3. CASE j \in 1..k
      <4>1. scan.blocks[i][2] < scan.blocks[j][2]
        BY <2>5, <2>9, <3>1, <3>3 DEF BlocksOK, k
      <4> QED
        BY <2>3, <3>2, <3>3, <4>1
    <3>4. CASE j = k + 1
      BY <1>1, <2>3, <2>6, <3>2, <3>4
    <3> QED
      BY <2>7, <3>3, <3>4
  <2>10. ASSUME NEW a \in 1..(n + 1), NEW b \in 1..(n + 1), Outermost(text, a, b)
         PROVE  \E i \in 1..(k + 1) : blocks[i] = <<a, b>>
    <3>1. CASE b = n + 1
      <4>1. a = scan.start
        BY <2>2, <2>10, <3>1, OutermostBegins
      <4>2. k + 1 \in 1..(k + 1)
        BY <2>3
      <4> QED
        BY <2>3, <3>1, <4>1, <4>2
    <3>2. CASE b # n + 1
      <4>1. a \in 1..n /\ b \in 1..n
        BY <1>1, <2>10, <3>2 DEF Outermost
      <4>2. PICK i \in 1..k : scan.blocks[i] = <<a, b>>
        BY <2>5, <2>10, <4>1 DEF BlocksOK, k
      <4>3. i \in 1..(k + 1) /\ blocks[i] = <<a, b>>
        BY <2>3, <4>2
      <4> QED
        BY <4>3
    <3> QED
      BY <3>1, <3>2
  <2>11. BlocksOK(text, n + 1, blocks)
    BY <2>3, <2>8, <2>9, <2>10 DEF BlocksOK
  <2>12. next = [depth |-> 0, start |-> 0, blocks |-> blocks]
    BY <2>1 DEF blocks
  <2>13. StartOK(text, n + 1, 0) /\ Level(text, n + 1) = 0
    BY <1>1, <1>4 DEF StartOK
  <2> HIDE DEF next
  <2>14. next \in ScanKind(n + 1)
    BY <1>1, <2>4, <2>12 DEF ScanKind
  <2> QED
    BY <2>11, <2>12, <2>13, <2>14 DEF ScanOK, next
<1>5. CASE Level(text, n) # 1
  <2>1. /\ next.depth = Level(text, n) - 1 /\ next.start = scan.start
        /\ next.blocks = scan.blocks
        /\ next = [depth |-> next.depth, start |-> next.start, blocks |-> next.blocks]
    BY <1>2, <1>5 DEF Closes
  <2>2. Level(text, n + 1) > 0
    BY <1>1, <1>5
  <2>3. \A a \in 1..(n + 1) : ~ Outermost(text, a, n + 1)
    BY <2>2 DEF Outermost
  <2>4. /\ next.blocks \in Seq((1..(n + 1)) \X (1..(n + 1)))
        /\ BlocksOK(text, n + 1, next.blocks)
    BY <1>1, <1>2, <2>1, <2>3, BlocksKept DEF ScanOK
  <2> HIDE DEF next
  <2>5. next \in ScanKind(n + 1)
    BY <1>1, <1>2, <2>1, <2>4 DEF ScanKind
  <2>6. StartOK(text, n + 1, scan.start)
    <3>1. \A m \in scan.start..(n + 1) : m \in scan.start..n \/ m = n + 1
      BY <1>1, <1>2
    <3> QED
      BY <1>2, <1>3, <2>2, <3>1 DEF StartOK
  <2> QED
    BY <1>1, <2>1, <2>4, <2>5, <2>6 DEF ScanOK, next
<1> QED
  BY <1>4, <1>5

LEMMA PassesKeeps ==
  ASSUME NEW text \in Seq(Tokens), NEW n \in 0..(Len(text) - 1), NEW scan,
         ScanOK(text, n, scan), Level(text, n) >= 0, text[n + 1] \notin {"open", "close"}
  PROVE  ScanOK(text, n + 1, scan)
<1>0. n \in Nat
  OBVIOUS
<1>1. n \in Nat /\ scan \in ScanKind(n) /\ Level(text, n) \in Int
      /\ Level(text, n + 1) = Level(text, n)
  <2>1. Change(text[n + 1]) = 0
    BY DEF Change
  <2>2. /\ Level(text, n) \in Int
        /\ Level(text, n + 1) = Level(text, n) + Change(text[n + 1])
    BY <1>0, LevelNext
  <2> QED
    BY <1>0, <2>1, <2>2 DEF ScanOK
<1>2. ASSUME NEW a \in 1..(n + 1), Outermost(text, a, n + 1) PROVE FALSE
  <2>1. a # n + 1
    BY <1>2 DEF Outermost
  <2>2. n \in a..((n + 1) - 1)
    BY <1>1, <2>1
  <2> QED
    BY <1>1, <1>2, <2>2 DEF Outermost
<1>3. scan.blocks \in Seq((1..n) \X (1..n)) /\ scan.start \in 0..n
      /\ scan = [depth |-> scan.depth, start |-> scan.start, blocks |-> scan.blocks]
      /\ scan.depth \in Int
  BY <1>1 DEF ScanKind
<1>4. /\ scan.blocks \in Seq((1..(n + 1)) \X (1..(n + 1)))
      /\ BlocksOK(text, n + 1, scan.blocks)
  BY <1>1, <1>2, <1>3, BlocksKept DEF ScanOK
<1>5. scan \in ScanKind(n + 1)
  BY <1>1, <1>3, <1>4 DEF ScanKind
<1>6. StartOK(text, n + 1, scan.start)
  <2>1. \A m \in scan.start..(n + 1) : m \in scan.start..n \/ m = n + 1
    BY <1>1, <1>3
  <2>2. StartOK(text, n, scan.start)
    BY DEF ScanOK
  <2> QED
    BY <1>1, <1>3, <2>1, <2>2 DEF StartOK
<1> QED
  BY <1>1, <1>4, <1>5, <1>6 DEF ScanOK

LEMMA ScanIsOK ==
  ASSUME NEW text \in Seq(Tokens), Tidy(text)
  PROVE  ScanOK(text, Len(text), Scans(text)[1..Len(text)])
<1> DEFINE Fine == {n \in Nat : n <= Len(text) => ScanOK(text, n, Scans(text)[1..n])}
<1>1. /\ \A n \in 0..Len(text) : Level(text, n) >= 0
      /\ \A i \in 1..Len(text) : text[i] \in Tokens \ {"quoted"}
  <2>1. Level(text, 0) = 0
    BY LevelNext
  <2>2. \A i \in 1..Len(text) : text[i] \in Tokens /\ text[i] # "quoted"
    BY DEF Tidy, ToSet
  <2> QED
    BY <2>1, <2>2 DEF Tidy
<1>2. 0 \in Fine
  <2>1. Level(text, 0) = 0
    BY LevelNext
  <2>2. Begun \in ScanKind(0)
    <3>1. <<>> \in Seq((1..0) \X (1..0))
      OBVIOUS
    <3> QED
      BY <3>1 DEF Begun, ScanKind
  <2>3. StartOK(text, 0, 0) /\ BlocksOK(text, 0, <<>>)
    BY <2>1 DEF StartOK, BlocksOK
  <2>4. Begun.depth = 0 /\ Begun.start = 0 /\ Begun.blocks = <<>>
    BY DEF Begun
  <2>5. ScanOK(text, 0, Begun)
    BY <2>1, <2>2, <2>3, <2>4 DEF ScanOK
  <2> QED
    BY <2>5, ScansIsDefined
<1>3. ASSUME NEW n \in Nat, n \in Fine PROVE n + 1 \in Fine
  <2> SUFFICES ASSUME n + 1 <= Len(text) PROVE ScanOK(text, n + 1, Scans(text)[1..(n + 1)])
    OBVIOUS
  <2> DEFINE scan == Scans(text)[1..n]
  <2>1. n \in 0..(Len(text) - 1) /\ n \in 0..Len(text) /\ n + 1 \in 1..Len(text)
        /\ n + 1 \in 0..Len(text)
    OBVIOUS
  <2>2. ScanOK(text, n, scan)
    BY <1>3, <2>1
  <2>3. Scans(text)[1..(n + 1)] = Reads(text, scan, n + 1)
    BY <2>1, ScansIsDefined
  <2>4. /\ Level(text, n) >= 0 /\ Level(text, n + 1) >= 0
        /\ text[n + 1] # "quoted"
    BY <1>1, <2>1
  <2> HIDE DEF scan
  <2>5. CASE text[n + 1] = "open"
    <3>1. Reads(text, scan, n + 1) = Opens(scan, n + 1)
      BY <2>5 DEF Reads
    <3> QED
      BY <2>1, <2>2, <2>3, <2>4, <2>5, <3>1, OpensKeeps
  <2>6. CASE text[n + 1] = "close"
    <3>1. Reads(text, scan, n + 1) = Closes(scan, n + 1)
      BY <2>6 DEF Reads
    <3> QED
      BY <2>1, <2>2, <2>3, <2>4, <2>6, <3>1, ClosesKeeps
  <2>7. CASE text[n + 1] \notin {"open", "close"}
    <3>1. Reads(text, scan, n + 1) = scan
      BY <2>4, <2>7 DEF Reads
    <3> QED
      BY <2>1, <2>2, <2>3, <2>4, <2>7, <3>1, PassesKeeps
  <2> QED
    BY <2>5, <2>6, <2>7
<1> HIDE DEF Fine
<1>4. Len(text) \in Fine
  BY <1>2, <1>3, NatSetInduction
<1> QED
  BY <1>4 DEF Fine

-----------------------------------------------------------------------------
\* In a tidy text the last block that parses is the last receipt.
LEMMA ExtractsLast ==
  ASSUME NEW text \in Seq(Tokens), Tidy(text)
  PROVE  ExtractReceipt(text) = LastReceipt(text)
<1> DEFINE n == Len(text)
           blocks == Blocks(text)
           Found == {k \in 1..Len(blocks) : ParsesAsReceipt(text, blocks[k])}
           IsOne(i, j) == Level(text, i - 1) = 0 /\ IsReceipt(SubSeq(text, i, j))
           ends == {j \in 1..n : \E i \in 1..j : IsOne(i, j)}
<1>1. BlocksOK(text, n, blocks) /\ blocks \in Seq((1..n) \X (1..n))
  <2>1. blocks = Scans(text)[1..n].blocks
    BY ScansIsDefined
  <2> QED
    BY <2>1, ScanIsOK DEF ScanOK, ScanKind
<1>2. ExtractReceipt(text) =
        IF Found = {} THEN <<>>
        ELSE SubSeq(text, blocks[Max(Found)][1], blocks[Max(Found)][2])
  <2>1. Len(blocks) \in Nat
    BY <1>1
  <2>2. Found # {} => Max(Found) # 0
    <3>1. Found \in SUBSET (1..Len(blocks))
      OBVIOUS
    <3> HIDE DEF Found, blocks
    <3>2. Found # {} => Max(Found) \in Found
      BY <2>1, <3>1, MaxOfUpTo
    <3>3. \A k \in Found : k # 0
      BY <3>1
    <3> QED
      BY <3>2, <3>3
  <2>3. SelectLastInSeq(blocks, LAMBDA b : ParsesAsReceipt(text, b))
          = IF Found # {} THEN Max(Found) ELSE 0
    BY DEF SelectLastInSeq
  <2> QED
    BY <2>2, <2>3 DEF ExtractReceipt
<1>3. LastReceipt(text) =
        IF ends = {} THEN <<>>
        ELSE SubSeq(text, CHOOSE i \in 1..Max(ends) : IsOne(i, Max(ends)), Max(ends))
  BY DEF LastReceipt
<1>4. ASSUME NEW j \in ends
      PROVE  \E k \in Found : blocks[k][2] = j
  <2>1. PICK i \in 1..j : IsOne(i, j)
    OBVIOUS
  <2>2. i \in 1..n /\ j \in 1..n /\ j \in i..n
    OBVIOUS
  <2>3. Outermost(text, i, j)
    BY <2>1, <2>2, ReceiptIsOutermost
  <2>4. PICK k \in 1..Len(blocks) : blocks[k] = <<i, j>>
    BY <1>1, <2>2, <2>3 DEF BlocksOK
  <2>5. blocks[k][1] = i /\ blocks[k][2] = j
    BY <2>4
  <2>6. ParsesAsReceipt(text, blocks[k])
    BY <2>1, <2>5 DEF ParsesAsReceipt
  <2> QED
    BY <2>4, <2>5, <2>6
<1>5. ASSUME NEW k \in Found
      PROVE  /\ blocks[k][2] \in ends /\ blocks[k][1] \in 1..blocks[k][2]
             /\ IsOne(blocks[k][1], blocks[k][2])
             /\ Outermost(text, blocks[k][1], blocks[k][2])
  <2>1. Outermost(text, blocks[k][1], blocks[k][2])
    BY <1>1 DEF BlocksOK
  <2>2. IsOne(blocks[k][1], blocks[k][2])
    BY <2>1 DEF Outermost, ParsesAsReceipt
  <2>3. blocks[k][2] \in 1..n /\ blocks[k][1] \in 1..blocks[k][2]
    BY <2>1 DEF Outermost
  <2> QED
    BY <2>1, <2>2, <2>3
<1>6. Found \in SUBSET (1..Len(blocks)) /\ Len(blocks) \in Nat /\ ends \in SUBSET (1..n)
      /\ n \in Nat
  BY <1>1
<1>7. ASSUME NEW i, NEW j, i \in 1..j, j \in 1..n, IsOne(i, j) PROVE Outermost(text, i, j)
  <2>1. i \in 1..n /\ j \in i..n
    BY <1>7
  <2> QED
    BY <1>7, <2>1, ReceiptIsOutermost
<1>8. \A k, l \in 1..Len(blocks) : k < l => blocks[k][2] < blocks[l][2]
  BY <1>1 DEF BlocksOK
<1> HIDE DEF Found, ends, blocks, n, IsOne
<1>9. CASE Found = {}
  <2>1. ends = {}
    BY <1>4, <1>9
  <2> QED
    BY <1>2, <1>3, <1>9, <2>1
<1>10. CASE Found # {}
  <2> DEFINE k == Max(Found)
             first == blocks[k][1]
             last == blocks[k][2]
  <2>1. k \in Found /\ \A l \in Found : l <= k
    BY <1>6, <1>10, MaxOfUpTo
  <2>2. /\ last \in ends /\ first \in 1..last /\ IsOne(first, last)
        /\ Outermost(text, first, last)
    BY <1>5, <2>1
  <2>3. Max(ends) \in ends /\ \A j \in ends : j <= Max(ends)
    BY <1>6, <2>2, MaxOfUpTo
  <2>4. PICK l \in Found : blocks[l][2] = Max(ends)
    BY <1>4, <2>3
  <2> HIDE DEF k, last, first
  <2>5. l = k \/ l < k
    BY <1>6, <2>1
  <2>6. ~ (l < k)
    <3>1. l < k => Max(ends) < last
      BY <1>6, <1>8, <2>1, <2>4 DEF last
    <3>2. last <= Max(ends)
      BY <2>2, <2>3
    <3>3. last \in 1..n /\ Max(ends) \in 1..n
      BY <1>6, <2>2, <2>3
    <3> QED
      BY <1>6, <3>1, <3>2, <3>3
  <2>7. Max(ends) = last
    BY <2>4, <2>5, <2>6 DEF last
  <2>8. (CHOOSE i \in 1..last : IsOne(i, last)) = first
    <3> DEFINE c == CHOOSE i \in 1..last : IsOne(i, last)
    <3>1. c \in 1..last /\ IsOne(c, last)
      BY <2>2
    <3>2. last \in 1..n
      BY <1>6, <2>2
    <3>3. Outermost(text, c, last)
      BY <1>7, <3>1, <3>2
    <3> HIDE DEF c
    <3>4. c = first
      BY <2>2, <3>3, OutermostBegins
    <3> QED
      BY <3>4 DEF c
  <2>9. ends # {}
    BY <2>2
  <2> QED
    BY <1>2, <1>3, <1>10, <2>7, <2>8, <2>9 DEF k, first, last
<1> QED
  BY <1>9, <1>10

\* Whatever a whole output with matched braces says besides, its receipt is the last
\* object with a phase and a status that is not inside another.
THEOREM ReceiptIsLastAlways == AgentSpec => []ReceiptIsLast
<1>1. ASSUME AgentTypeOK PROVE ReceiptIsLast
  <2> SUFFICES ASSUME outcome = "ok", Tidy(output)
               PROVE  /\ Receipt = LastReceipt(output)
                      /\ Verdict = "accepted" <=>
                           (LastReceipt(output) # <<>> /\ LastReceipt(output)[2] = "full")
    BY DEF ReceiptIsLast
  <2>1. Receipt = LastReceipt(output)
    BY <1>1, ExtractsLast DEF AgentTypeOK, Receipt
  <2> QED
    BY <2>1 DEF Verdict, Validates
<1> QED
  BY <1>1, AgentTypeCorrect, PTL

-----------------------------------------------------------------------------
USE TraceAssumption

(***************************************************************************)
(* The trace.  What a closed span, one of the running process and one of a *)
(* dead process have to do with each other (TreeInv) is kept by opening a  *)
(* span, by closing the innermost ones and by dying; where the process is  *)
(* says which spans it has open (PlaceOfRun).                              *)
(***************************************************************************)
SpanNames == {"pipeline", "phase", "attempt", "agent.spawn", "verifier.run"}
EventNames == {"context.built", "retry.classified", "cost.recorded", "state.change",
               "receipt.saved"}
SpanKind == [name : SpanNames, open : Nat, close : Nat, parent : Nat]
PointKind == [name : EventNames, parent : Nat, span : Nat, t : Nat]

\* s is the file's spans, k the stack and t the time.
On(k, i) == \E a \in 1..Len(k) : k[a] = i

TreeKinds(s, k, t) ==
  /\ s \in Seq(SpanKind) /\ k \in Seq(Nat) /\ t \in 0..MaxTime
  /\ \A i \in 1..Len(s) :
       /\ s[i].parent < i /\ s[i].open <= t
       /\ \/ s[i].close = Never
          \/ s[i].open <= s[i].close /\ s[i].close <= t
       /\ s[i].parent = 0 <=> s[i].name = "pipeline"

\* Lines are in the order of their times.
LinesInOrder(s) == \A i, j \in 1..Len(s) : i <= j => s[i].open <= s[j].open

\* The stack is a path of open spans, from a root.
StackIsPath(s, k) ==
  /\ \A a \in 1..Len(k) :
       /\ k[a] \in 1..Len(s) /\ s[k[a]].close = Never
       /\ s[k[a]].parent = IF a = 1 THEN 0 ELSE k[a - 1]
  /\ \A a, b \in 1..Len(k) : a < b => k[a] < k[b]

\* A closed span has nothing open under it, and what the running process has
\* open has nothing open under it but what that process has open.
ClosedIsDone(s, k) ==
  \A i \in 1..Len(s) :
    /\ s[i].parent # 0 /\ s[s[i].parent].close # Never =>
         s[i].close # Never /\ s[i].close <= s[s[i].parent].close
    /\ s[i].close = Never /\ On(k, s[i].parent) => On(k, i)

\* What is not the running process's is older than what it has open: opened
\* before its run, by one that has died, or closed before.
OthersAreOlder(s, k) ==
  \A i \in 1..Len(s), a \in 1..Len(k) :
    ~On(k, i) =>
      /\ s[i].close = Never => s[i].open < s[k[1]].open
      /\ s[i].close # Never /\ i < k[a] => s[i].close <= s[k[a]].open

NoneLeft(s, k) == \A i \in 1..Len(s) : s[i].close # Never \/ On(k, i)

Tree(s, k, t) ==
  /\ TreeKinds(s, k, t)
  /\ LinesInOrder(s)
  /\ StackIsPath(s, k)
  /\ ClosedIsDone(s, k)
  /\ OthersAreOlder(s, k)

TreeInv == Tree(spans, stack, now) /\ (cuts = 0 => NoneLeft(spans, stack))

\* How many spans are open where the process is.
Depth(place) ==
  CASE place = "out" -> 0
    [] place = "loop" -> 1
    [] place \in {"retry", "commit"} -> 2
    [] place \in {"call", "record", "judge", "failed", "passed"} -> 3
    [] place \in {"agent", "verifier"} -> 4

PlaceOfRun ==
  /\ tracing \in {"out", "loop", "retry", "call", "agent", "record", "judge",
                  "verifier", "failed", "passed", "commit"}
  /\ Len(stack) = Depth(tracing)
  /\ tracing = "call" => stack[3] = Len(spans)
  /\ tracing = "agent" => stack[4] = Len(spans) /\ stack[3] + 1 = Len(spans)
  /\ tracing = "record" =>
       /\ stack[3] + 1 = Len(spans) /\ spans[Len(spans)].parent = stack[3]
       /\ spans[Len(spans)].close # Never
       /\ spans[Len(spans)].open < spans[Len(spans)].close
  /\ phaseNo \in 1..(NPhases + 1) /\ tryNo \in 0..Attempts
  /\ tracing \notin {"out", "loop"} => phaseNo <= NPhases
  /\ runs \in 0..MaxRuns /\ cuts \in 0..runs /\ (tracing # "out" => cuts < runs)

Around(s, i, t) == i \in 1..Len(s) /\ s[i].open <= t /\ t <= s[i].close

\* The spans an agent's is in: those of the attempt, the phase and the run.
Above(s, i) == {i, s[i].parent, s[s[i].parent].parent, s[s[s[i].parent].parent].parent}

\* Around the time of an agent's cost are its attempt, what is opened in the
\* same millisecond, and nothing else that was opened as late as that attempt.
CostOK(s, i, t) ==
  /\ i \in 1..Len(s) /\ s[i].parent # 0 /\ s[s[i].parent].parent # 0
  /\ s[s[s[i].parent].parent].parent # 0
  /\ Around(s, s[i].parent, t)
  /\ \A j \in 1..Len(s) :
       \/ j > i /\ s[j].open >= t
       \/ j \in Above(s, i)
       \/ s[j].open < s[s[i].parent].open
       \/ s[j].close < t

PointOK(s, ev, t) ==
  /\ ev.t <= t
  /\ ev.parent # 0 => Around(s, ev.parent, ev.t)
  /\ ev.parent = 0 => \E i \in 1..Len(s) : Around(s, i, ev.t)
  /\ ev.name = "cost.recorded" => ev.parent = 0 /\ CostOK(s, ev.span, ev.t)

PointsInv ==
  /\ points \in Seq(PointKind)
  /\ \A k \in 1..Len(points) : PointOK(spans, points[k], now)

TraceInv == TreeInv /\ PlaceOfRun /\ PointsInv

-----------------------------------------------------------------------------
LEMMA TreeFacts ==
  ASSUME NEW s, NEW k, NEW t, Tree(s, k, t)
  PROVE  /\ s \in Seq(SpanKind) /\ k \in Seq(Nat) /\ t \in Nat /\ t < Never
         /\ Len(s) \in Nat /\ DOMAIN s = 1..Len(s) /\ Len(k) \in Nat
         /\ \A i \in 1..Len(s) :
              /\ s[i] \in SpanKind /\ s[i].name \in SpanNames
              /\ s[i].parent \in Nat /\ s[i].open \in Nat /\ s[i].close \in Nat
              /\ s[i].parent < i /\ s[i].open <= t
              /\ s[i].parent # 0 => s[i].parent \in 1..Len(s)
         /\ \A a \in 1..Len(k) : k[a] \in 1..Len(s)
<1>1. /\ s \in Seq(SpanKind) /\ k \in Seq(Nat) /\ t \in 0..MaxTime
      /\ Len(s) \in Nat /\ DOMAIN s = 1..Len(s) /\ Len(k) \in Nat
  BY DEF Tree, TreeKinds
<1>2. ASSUME NEW i \in 1..Len(s)
      PROVE  /\ s[i] \in SpanKind /\ s[i].name \in SpanNames
             /\ s[i].parent \in Nat /\ s[i].open \in Nat /\ s[i].close \in Nat
             /\ s[i].parent < i /\ s[i].open <= t
             /\ s[i].parent # 0 => s[i].parent \in 1..Len(s)
  <2>1. s[i] \in SpanKind
    BY <1>1
  <2>2. s[i].parent < i /\ s[i].open <= t
    BY DEF Tree, TreeKinds
  <2> QED
    BY <1>1, <2>1, <2>2 DEF SpanKind
<1>3. \A a \in 1..Len(k) : k[a] \in 1..Len(s)
  BY <1>1 DEF Tree, StackIsPath
<1> QED
  BY <1>1, <1>2, <1>3 DEF Never

\* A span is opened under the innermost one; a root only when nothing is open,
\* later than every line there is.
LEMMA TreeOpens ==
  ASSUME NEW s, NEW k, NEW t, Tree(s, k, t), NEW u, NEW l,
         u \in Seq(SpanKind), Len(u) = Len(s) + 1,
         \A i \in 1..Len(s) : u[i] = s[i],
         u[Len(s) + 1].open = t, u[Len(s) + 1].close = Never,
         u[Len(s) + 1].parent = IF Len(k) = 0 THEN 0 ELSE k[Len(k)],
         u[Len(s) + 1].name = "pipeline" <=> Len(k) = 0,
         l \in Seq(Nat), Len(l) = Len(k) + 1, \A a \in 1..Len(k) : l[a] = k[a],
         l[Len(k) + 1] = Len(s) + 1,
         Len(k) = 0 => \A i \in 1..Len(s) : s[i].open < t
  PROVE  Tree(u, l, t) /\ (NoneLeft(s, k) => NoneLeft(u, l))
<1> DEFINE n == Len(s)
           m == Len(k)
<1>1. n \in Nat /\ m \in Nat /\ t \in Nat /\ t < Never
  BY TreeFacts
<1>2. /\ Len(u) = n + 1 /\ \A i \in 1..n : u[i] = s[i]
      /\ Len(l) = m + 1 /\ l[m + 1] = n + 1 /\ \A a \in 1..m : l[a] = k[a]
  OBVIOUS
<1>3. /\ u[n + 1].open = t /\ u[n + 1].close = Never
      /\ u[n + 1].parent = IF m = 0 THEN 0 ELSE k[m]
      /\ u[n + 1].name = "pipeline" <=> m = 0
  OBVIOUS
<1>4. \A i \in 1..n : /\ s[i].parent \in Nat /\ s[i].open \in Nat
                      /\ s[i].close \in Nat /\ s[i].parent < i /\ s[i].open <= t
                      /\ s[i].parent # 0 => s[i].parent \in 1..n
  BY TreeFacts
<1>5. \A a \in 1..m : k[a] \in 1..n /\ s[k[a]].close = Never
                     /\ s[k[a]].parent = IF a = 1 THEN 0 ELSE k[a - 1]
  BY DEF Tree, StackIsPath
<1>6. m = 0 => \A i \in 1..n : s[i].open < t
  OBVIOUS
<1>7. \A i \in 1..n : /\ s[i].parent # 0 /\ s[s[i].parent].close # Never =>
                           s[i].close # Never /\ s[i].close <= s[s[i].parent].close
                      /\ s[i].close = Never /\ On(k, s[i].parent) => On(k, i)
  BY DEF Tree, ClosedIsDone
<1>8. \A i \in 1..n, a \in 1..m :
        ~On(k, i) => /\ s[i].close = Never => s[i].open < s[k[1]].open
                     /\ s[i].close # Never /\ i < k[a] => s[i].close <= s[k[a]].open
  BY DEF Tree, OthersAreOlder
<1>9. /\ \A i \in 1..n :
           /\ s[i].close = Never \/ (s[i].open <= s[i].close /\ s[i].close <= t)
           /\ s[i].parent = 0 <=> s[i].name = "pipeline"
      /\ \A i, j \in 1..n : i <= j => s[i].open <= s[j].open
      /\ \A a, b \in 1..m : a < b => k[a] < k[b]
  BY DEF Tree, TreeKinds, LinesInOrder, StackIsPath
<1>10. /\ \A i \in 1..n : On(l, i) <=> On(k, i)
       /\ On(l, n + 1) /\ ~On(l, 0)
  <2>1. \A a \in 1..(m + 1) : l[a] = IF a = m + 1 THEN n + 1 ELSE k[a]
    BY <1>1, <1>2
  <2>2. \A a \in 1..m : k[a] \in 1..n /\ a \in 1..(m + 1) /\ a # m + 1
    BY <1>1, <1>5
  <2>3. m + 1 \in 1..(m + 1) /\ n + 1 \notin 1..n /\ n + 1 # 0
    BY <1>1
  <2>4. \A i : On(l, i) <=> \E a \in 1..(m + 1) : l[a] = i
    BY <1>2 DEF On
  <2>5. \A i : On(k, i) <=> \E a \in 1..m : k[a] = i
    BY DEF On
  <2> HIDE DEF n, m
  <2>6. ASSUME NEW i \in 1..n PROVE On(l, i) <=> On(k, i)
    <3>1. i # n + 1
      BY <1>1
    <3>2. \A a \in 1..(m + 1) : a # m + 1 => a \in 1..m
      BY <1>1
    <3> QED
      BY <2>1, <2>2, <2>4, <2>5, <3>1, <3>2
  <2>7. ~On(l, 0)
    <3>1. ASSUME NEW a \in 1..(m + 1) PROVE l[a] # 0
      <4>1. CASE a = m + 1
        BY <2>1, <2>3, <4>1
      <4>2. CASE a # m + 1
        <5>1. a \in 1..m /\ 0 \notin 1..n
          BY <1>1, <4>2
        <5> QED
          BY <2>1, <2>2, <4>2, <5>1
      <4> QED
        BY <4>1, <4>2
    <3> QED
      BY <2>4, <3>1
  <2> QED
    BY <2>1, <2>3, <2>4, <2>6, <2>7
<1>11. u \in Seq(SpanKind) /\ l \in Seq(Nat) /\ t \in 0..MaxTime
  BY DEF Tree, TreeKinds
<1>12. NoneLeft(s, k) => \A i \in 1..n : s[i].close # Never \/ On(k, i)
  BY DEF NoneLeft
<1> HIDE DEF n, m
<1>13. TreeKinds(u, l, t)
  <2> SUFFICES ASSUME NEW i \in 1..(n + 1)
               PROVE  /\ u[i].parent < i /\ u[i].open <= t
                      /\ \/ u[i].close = Never
                         \/ u[i].open <= u[i].close /\ u[i].close <= t
                      /\ u[i].parent = 0 <=> u[i].name = "pipeline"
    BY <1>2, <1>11 DEF TreeKinds
  <2>1. CASE i \in 1..n
    BY <1>2, <1>4, <1>9, <2>1
  <2>2. CASE i = n + 1
    <3>1. m # 0 => k[m] \in 1..n
      BY <1>1, <1>5
    <3> QED
      BY <1>1, <1>3, <2>2, <3>1
  <2> QED
    BY <1>1, <2>1, <2>2
<1>14. LinesInOrder(u)
  <2> SUFFICES ASSUME NEW i \in 1..(n + 1), NEW j \in 1..(n + 1), i <= j
               PROVE  u[i].open <= u[j].open
    BY <1>2 DEF LinesInOrder
  <2>1. CASE j \in 1..n
    <3>1. i \in 1..n
      BY <1>1, <2>1
    <3> QED
      BY <1>2, <1>9, <2>1, <3>1
  <2>2. CASE j = n + 1
    <3>1. u[i].open <= t
      BY <1>1, <1>2, <1>3, <1>4
    <3> QED
      BY <1>3, <2>2, <3>1
  <2> QED
    BY <1>1, <2>1, <2>2
<1>15. StackIsPath(u, l)
  <2>1. ASSUME NEW a \in 1..(m + 1)
        PROVE  /\ l[a] \in 1..(n + 1) /\ u[l[a]].close = Never
               /\ u[l[a]].parent = IF a = 1 THEN 0 ELSE l[a - 1]
    <3>1. CASE a \in 1..m
      <4>1. a # 1 => l[a - 1] = k[a - 1]
        BY <1>1, <1>2, <3>1
      <4>2. k[a] \in 1..n /\ l[a] = k[a] /\ u[k[a]] = s[k[a]]
        BY <1>2, <1>5, <3>1
      <4> QED
        BY <1>1, <1>5, <3>1, <4>1, <4>2
    <3>2. CASE a = m + 1
      <4>1. m # 0 => l[a - 1] = k[m]
        <5>1. a - 1 = m /\ (m # 0 => m \in 1..m)
          BY <1>1, <3>2
        <5> QED
          BY <1>2, <5>1
      <4> QED
        BY <1>1, <1>2, <1>3, <3>2, <4>1
    <3> QED
      BY <1>1, <3>1, <3>2
  <2>2. ASSUME NEW a \in 1..(m + 1), NEW b \in 1..(m + 1), a < b PROVE l[a] < l[b]
    <3>1. a \in 1..m
      BY <1>1, <2>2
    <3>2. CASE b \in 1..m
      BY <1>2, <1>9, <2>2, <3>1, <3>2
    <3>3. CASE b = m + 1
      <4>1. l[a] = k[a] /\ k[a] \in 1..n /\ l[b] = n + 1
        BY <1>2, <1>5, <3>1, <3>3
      <4> QED
        BY <1>1, <4>1
    <3> QED
      BY <1>1, <3>2, <3>3
  <2> QED
    BY <1>2, <2>1, <2>2 DEF StackIsPath
<1>16. ClosedIsDone(u, l)
  <2> SUFFICES ASSUME NEW i \in 1..(n + 1)
               PROVE  /\ u[i].parent # 0 /\ u[u[i].parent].close # Never =>
                           u[i].close # Never /\ u[i].close <= u[u[i].parent].close
                      /\ u[i].close = Never /\ On(l, u[i].parent) => On(l, i)
    BY <1>2 DEF ClosedIsDone
  <2>1. CASE i \in 1..n
    <3>1. u[i] = s[i]
      BY <1>2, <2>1
    <3>2. CASE s[i].parent = 0
      BY <1>10, <3>1, <3>2
    <3>3. CASE s[i].parent # 0
      <4>1. s[i].parent \in 1..n /\ u[s[i].parent] = s[s[i].parent]
        BY <1>2, <1>4, <2>1, <3>3
      <4> QED
        BY <1>7, <1>10, <2>1, <3>1, <4>1
    <3> QED
      BY <3>2, <3>3
  <2>2. CASE i = n + 1
    <3>1. m # 0 => u[k[m]].close = Never
      <4>1. m # 0 => k[m] \in 1..n /\ s[k[m]].close = Never
        BY <1>1, <1>5
      <4> QED
        BY <1>2, <4>1
    <3> QED
      BY <1>3, <1>10, <2>2, <3>1
  <2> QED
    BY <1>1, <2>1, <2>2
<1>17. OthersAreOlder(u, l)
  <2> SUFFICES ASSUME NEW i \in 1..(n + 1), NEW a \in 1..(m + 1), ~On(l, i)
               PROVE  /\ u[i].close = Never => u[i].open < u[l[1]].open
                      /\ u[i].close # Never /\ i < l[a] => u[i].close <= u[l[a]].open
    BY <1>2 DEF OthersAreOlder
  <2>1. i \in 1..n /\ u[i] = s[i] /\ ~On(k, i)
    BY <1>1, <1>2, <1>10
  <2>2. ASSUME u[i].close = Never PROVE u[i].open < u[l[1]].open
    <3>1. CASE m = 0
      BY <1>2, <1>3, <1>6, <2>1, <3>1
    <3>2. CASE m # 0
      <4>1. 1 \in 1..m /\ l[1] = k[1] /\ k[1] \in 1..n
        BY <1>1, <1>2, <1>5, <3>2
      <4>2. u[k[1]] = s[k[1]]
        BY <1>2, <4>1
      <4> QED
        BY <1>8, <2>1, <2>2, <4>1, <4>2
    <3> QED
      BY <3>1, <3>2
  <2>3. ASSUME u[i].close # Never, i < l[a] PROVE u[i].close <= u[l[a]].open
    <3>1. CASE a \in 1..m
      <4>1. l[a] = k[a] /\ k[a] \in 1..n /\ u[k[a]] = s[k[a]]
        BY <1>2, <1>5, <3>1
      <4> QED
        BY <1>8, <2>1, <2>3, <3>1, <4>1
    <3>2. CASE a = m + 1
      BY <1>2, <1>3, <1>9, <2>1, <2>3, <3>2
    <3> QED
      BY <1>1, <3>1, <3>2
  <2> QED
    BY <2>2, <2>3
<1>18. NoneLeft(s, k) => NoneLeft(u, l)
  <2> SUFFICES ASSUME NoneLeft(s, k), NEW i \in 1..(n + 1)
               PROVE  u[i].close # Never \/ On(l, i)
    BY <1>2 DEF NoneLeft
  <2>1. CASE i = n + 1
    BY <1>10, <2>1
  <2>2. CASE i \in 1..n
    <3>1. s[i].close # Never \/ On(k, i)
      BY <1>12, <2>2
    <3> QED
      BY <1>2, <1>10, <2>2, <3>1
  <2> QED
    BY <1>1, <2>1, <2>2
<1> QED
  BY <1>13, <1>14, <1>15, <1>16, <1>17, <1>18 DEF Tree

\* The innermost spans are closed, those from place c on.
LEMMA TreeCloses ==
  ASSUME NEW s, NEW k, NEW t, Tree(s, k, t), NEW c \in Nat, c <= Len(k), NEW u, NEW l,
         u \in Seq(SpanKind), Len(u) = Len(s),
         \A i \in 1..Len(s) :
           /\ u[i].name = s[i].name /\ u[i].open = s[i].open /\ u[i].parent = s[i].parent
           /\ u[i].close = IF \E a \in (c + 1)..Len(k) : k[a] = i THEN t ELSE s[i].close,
         l \in Seq(Nat), Len(l) = c, \A a \in 1..c : l[a] = k[a]
  PROVE  Tree(u, l, t) /\ (NoneLeft(s, k) => NoneLeft(u, l))
<1> DEFINE n == Len(s)
           m == Len(k)
           Popped(i) == \E a \in (c + 1)..m : k[a] = i
<1>1. n \in Nat /\ m \in Nat /\ t \in Nat /\ t # Never /\ c \in Nat /\ c <= m
  BY TreeFacts
<1>2. /\ Len(u) = n /\ Len(l) = c /\ \A a \in 1..c : l[a] = k[a] /\ a \in 1..m
      /\ \A i \in 1..n :
           /\ u[i].name = s[i].name /\ u[i].open = s[i].open /\ u[i].parent = s[i].parent
           /\ u[i].close = IF Popped(i) THEN t ELSE s[i].close
  BY <1>1
<1>3. u \in Seq(SpanKind) /\ l \in Seq(Nat) /\ t \in 0..MaxTime
  BY DEF Tree, TreeKinds
<1>4. \A i \in 1..n : /\ s[i].parent \in Nat /\ s[i].open \in Nat
                      /\ s[i].close \in Nat /\ s[i].parent < i /\ s[i].open <= t
                      /\ s[i].parent # 0 => s[i].parent \in 1..n
  BY TreeFacts
<1>5. \A a \in 1..m : k[a] \in 1..n /\ s[k[a]].close = Never
                     /\ s[k[a]].parent = IF a = 1 THEN 0 ELSE k[a - 1]
  BY DEF Tree, StackIsPath
<1>7. \A i \in 1..n : /\ s[i].parent # 0 /\ s[s[i].parent].close # Never =>
                           s[i].close # Never /\ s[i].close <= s[s[i].parent].close
                      /\ s[i].close = Never /\ On(k, s[i].parent) => On(k, i)
  BY DEF Tree, ClosedIsDone
<1>8. \A i \in 1..n, a \in 1..m :
        ~On(k, i) => /\ s[i].close = Never => s[i].open < s[k[1]].open
                     /\ s[i].close # Never /\ i < k[a] => s[i].close <= s[k[a]].open
  BY DEF Tree, OthersAreOlder
<1>9. /\ \A i \in 1..n :
           /\ s[i].close = Never \/ (s[i].open <= s[i].close /\ s[i].close <= t)
           /\ s[i].parent = 0 <=> s[i].name = "pipeline"
      /\ \A i, j \in 1..n : i <= j => s[i].open <= s[j].open
      /\ \A a, b \in 1..m : a < b => k[a] < k[b]
  BY DEF Tree, TreeKinds, LinesInOrder, StackIsPath
<1>10. \A i : On(k, i) <=> \E a \in 1..m : k[a] = i
  BY DEF On
<1>11. \A i : On(l, i) <=> \E a \in 1..c : k[a] = i
  BY <1>2 DEF On
<1>12. NoneLeft(s, k) => \A i \in 1..n : s[i].close # Never \/ On(k, i)
  BY DEF NoneLeft
<1> HIDE DEF n, m
<1>13. \A a \in 1..m : a \in 1..c \/ a \in (c + 1)..m
  BY <1>1
<1>14. \A a \in (c + 1)..m : a \in 1..m /\ a \notin 1..c
  BY <1>1
<1>15. \A i : On(k, i) <=> On(l, i) \/ Popped(i)
  BY <1>2, <1>10, <1>11, <1>13, <1>14
<1>16. \A a, b \in 1..m : k[a] = k[b] => a = b
  <2> SUFFICES ASSUME NEW a \in 1..m, NEW b \in 1..m, a < b PROVE k[a] # k[b]
    BY <1>1
  <2>1. k[a] < k[b] /\ k[a] \in 1..n /\ k[b] \in 1..n
    BY <1>5, <1>9
  <2> QED
    BY <1>1, <2>1
<1>17. \A i : On(l, i) => ~Popped(i)
  BY <1>2, <1>11, <1>14, <1>16
<1>18. \A i : Popped(i) => i \in 1..n /\ s[i].close = Never
  BY <1>5, <1>14
<1> HIDE DEF Popped
<1>19. TreeKinds(u, l, t)
  <2> SUFFICES ASSUME NEW i \in 1..n
               PROVE  /\ u[i].parent < i /\ u[i].open <= t
                      /\ \/ u[i].close = Never
                         \/ u[i].open <= u[i].close /\ u[i].close <= t
                      /\ u[i].parent = 0 <=> u[i].name = "pipeline"
    BY <1>2, <1>3 DEF TreeKinds
  <2>1. u[i].parent = s[i].parent /\ u[i].open = s[i].open /\ u[i].name = s[i].name
    BY <1>2
  <2>2. s[i].parent < i /\ s[i].open <= t /\ (s[i].parent = 0 <=> s[i].name = "pipeline")
    BY <1>4, <1>9
  <2>3. u[i].close = t \/ u[i].close = s[i].close
    BY <1>2
  <2>4. s[i].close = Never \/ (s[i].open <= s[i].close /\ s[i].close <= t)
    BY <1>9
  <2> QED
    BY <1>1, <2>1, <2>2, <2>3, <2>4
<1>20. LinesInOrder(u)
  BY <1>2, <1>9 DEF LinesInOrder
<1>21. StackIsPath(u, l)
  <2>1. ASSUME NEW a \in 1..c
        PROVE  /\ l[a] \in 1..n /\ u[l[a]].close = Never
               /\ u[l[a]].parent = IF a = 1 THEN 0 ELSE l[a - 1]
    <3>1. l[a] = k[a] /\ a \in 1..m /\ (a # 1 => l[a - 1] = k[a - 1])
      <4>1. a # 1 => a - 1 \in 1..c
        BY <1>1
      <4> QED
        BY <1>2, <4>1
    <3>2. ~Popped(k[a])
      BY <1>11, <1>17
    <3> QED
      BY <1>2, <1>5, <3>1, <3>2, SMTT(30)
  <2> QED
    BY <1>2, <1>9, <2>1 DEF StackIsPath
<1>22. ClosedIsDone(u, l)
  <2> SUFFICES ASSUME NEW i \in 1..n
               PROVE  /\ u[i].parent # 0 /\ u[u[i].parent].close # Never =>
                           u[i].close # Never /\ u[i].close <= u[u[i].parent].close
                      /\ u[i].close = Never /\ On(l, u[i].parent) => On(l, i)
    BY <1>2 DEF ClosedIsDone
  <2>1. u[i].parent = s[i].parent
    BY <1>2
  <2>2. ASSUME s[i].parent # 0, u[s[i].parent].close # Never
        PROVE  u[i].close # Never /\ u[i].close <= u[s[i].parent].close
    <3>1. s[i].parent \in 1..n
      BY <1>4, <2>2
    <3>2. CASE Popped(s[i].parent)
      <4>1. u[s[i].parent].close = t /\ On(k, s[i].parent) /\ ~On(l, s[i].parent)
        BY <1>2, <1>15, <1>17, <3>1, <3>2
      <4>2. CASE s[i].close # Never
        <5>1. ~Popped(i) /\ s[i].close <= t
          BY <1>9, <1>18, <4>2
        <5> QED
          BY <1>2, <4>1, <4>2, <5>1
      <4>3. CASE s[i].close = Never
        <5>1. On(k, i)
          BY <1>7, <4>1, <4>3
        <5>2. ~On(l, i)
          <6> SUFFICES ASSUME On(l, i) PROVE FALSE
            OBVIOUS
          <6>1. PICK a \in 1..c : k[a] = i
            BY <1>11
          <6>2. s[i].parent = IF a = 1 THEN 0 ELSE k[a - 1]
            BY <1>2, <1>5, <6>1
          <6>3. a # 1 /\ a - 1 \in 1..c
            BY <1>1, <2>2, <6>2
          <6>4. On(l, s[i].parent)
            BY <1>11, <6>2, <6>3
          <6> QED
            BY <4>1, <6>4
        <5>3. Popped(i)
          BY <1>15, <5>1, <5>2
        <5> QED
          BY <1>1, <1>2, <4>1, <5>3
      <4> QED
        BY <4>2, <4>3
    <3>3. CASE ~Popped(s[i].parent)
      <4>1. u[s[i].parent].close = s[s[i].parent].close
        BY <1>2, <3>1, <3>3
      <4>2. s[i].close # Never /\ s[i].close <= s[s[i].parent].close
        BY <1>7, <2>2, <4>1
      <4>3. ~Popped(i)
        BY <1>18, <4>2
      <4> QED
        BY <1>2, <4>1, <4>2, <4>3
    <3> QED
      BY <3>2, <3>3
  <2>3. ASSUME u[i].close = Never, On(l, s[i].parent) PROVE On(l, i)
    <3>1. ~Popped(i) /\ s[i].close = Never
      BY <1>1, <1>2, <2>3
    <3>2. On(k, i)
      BY <1>7, <1>15, <2>3, <3>1
    <3> QED
      BY <1>15, <3>1, <3>2
  <2> QED
    BY <2>1, <2>2, <2>3
<1>23. OthersAreOlder(u, l)
  <2> SUFFICES ASSUME NEW i \in 1..n, NEW a \in 1..c, ~On(l, i)
               PROVE  /\ u[i].close = Never => u[i].open < u[l[1]].open
                      /\ u[i].close # Never /\ i < l[a] => u[i].close <= u[l[a]].open
    BY <1>2 DEF OthersAreOlder
  <2>1. l[1] = k[1] /\ l[a] = k[a] /\ k[1] \in 1..n /\ k[a] \in 1..n /\ a \in 1..m
    <3>1. 1 \in 1..c
      BY <1>1
    <3> QED
      BY <1>2, <1>5, <3>1
  <2>2. u[i].open = s[i].open /\ u[k[1]].open = s[k[1]].open /\ u[k[a]].open = s[k[a]].open
    BY <1>2, <2>1
  <2>3. CASE Popped(i)
    <3>1. u[i].close = t /\ t # Never
      BY <1>1, <1>2, <2>3
    <3>2. PICK b \in (c + 1)..m : k[b] = i
      BY <2>3 DEF Popped
    <3>3. a < b /\ b \in 1..m
      BY <1>1, <3>2
    <3>4. k[a] < i /\ k[a] \in 1..n
      BY <1>9, <2>1, <3>2, <3>3
    <3>5. ~(i < l[a])
      BY <1>1, <2>1, <3>4
    <3> QED
      BY <3>1, <3>5
  <2>4. CASE ~Popped(i)
    <3>1. u[i].close = s[i].close /\ ~On(k, i)
      BY <1>2, <1>15, <2>4
    <3> QED
      BY <1>8, <2>1, <2>2, <3>1
  <2> QED
    BY <2>3, <2>4
<1>24. NoneLeft(s, k) => NoneLeft(u, l)
  <2> SUFFICES ASSUME NoneLeft(s, k), NEW i \in 1..n
               PROVE  u[i].close # Never \/ On(l, i)
    BY <1>2 DEF NoneLeft
  <2> QED
    BY <1>1, <1>2, <1>12, <1>15
<1> QED
  BY <1>19, <1>20, <1>21, <1>22, <1>23, <1>24 DEF Tree

\* The process dies.
LEMMA TreeIsLeft ==
  ASSUME NEW s, NEW k, NEW t, Tree(s, k, t)
  PROVE  Tree(s, <<>>, t)
<1>1. Len(<<>>) = 0 /\ \A i : ~On(<<>>, i)
  BY DEF On
<1>2. <<>> \in Seq(Nat) /\ 1..0 = {}
  OBVIOUS
<1> QED
  BY <1>1, <1>2 DEF Tree, TreeKinds, LinesInOrder, StackIsPath, ClosedIsDone, OthersAreOlder

\* Time passes.
LEMMA TreeLater ==
  ASSUME NEW s, NEW k, NEW t, Tree(s, k, t), t + 1 <= MaxTime
  PROVE  Tree(s, k, t + 1)
<1>1. t \in Nat /\ \A i \in 1..Len(s) : s[i].open \in Nat /\ s[i].close \in Nat
  BY TreeFacts
<1>2. TreeKinds(s, k, t + 1)
  BY <1>1 DEF Tree, TreeKinds
<1> QED
  BY <1>2 DEF Tree

-----------------------------------------------------------------------------
\* What each kind of step does to the spans and the stack.

LEMMA OpensSpan ==
  ASSUME TreeInv, NEW name \in SpanNames, OpenSpan(name), UNCHANGED <<now, cuts>>,
         name = "pipeline" <=> Len(stack) = 0, Len(stack) = 0 => now > LastTime
  PROVE  /\ TreeInv'
         /\ Len(spans') = Len(spans) + 1 /\ \A i \in 1..Len(spans) : spans'[i] = spans[i]
         /\ spans'[Len(spans) + 1].open = now /\ spans'[Len(spans) + 1].close = Never
         /\ spans'[Len(spans) + 1].parent =
              IF Len(stack) = 0 THEN 0 ELSE stack[Len(stack)]
         /\ Len(stack') = Len(stack) + 1 /\ stack'[Len(stack) + 1] = Len(spans) + 1
         /\ \A a \in 1..Len(stack) : stack'[a] = stack[a]
<1> DEFINE p == IF Len(stack) = 0 THEN 0 ELSE stack[Len(stack)]
           new == [name |-> name, open |-> now, close |-> Never, parent |-> p]
<1>0. Tree(spans, stack, now)
  BY DEF TreeInv
<1>1. spans \in Seq(SpanKind) /\ stack \in Seq(Nat) /\ now \in Nat /\ Len(spans) + 1 \in Nat
  BY <1>0, TreeFacts
<1>2. stack = <<>> <=> Len(stack) = 0
  BY <1>1
<1>3. spans' = Append(spans, new) /\ stack' = Append(stack, Len(spans) + 1)
  BY <1>2 DEF OpenSpan, Top, Last
<1>4. new \in SpanKind
  <2>1. p \in Nat
    BY <1>1
  <2>2. Never \in Nat
    BY DEF Never
  <2> QED
    BY <1>1, <2>1, <2>2 DEF SpanKind
<1>5. new.name = name /\ new.open = now /\ new.close = Never /\ new.parent = p
  OBVIOUS
<1> HIDE DEF new
<1>6. /\ spans' \in Seq(SpanKind) /\ Len(spans') = Len(spans) + 1
      /\ \A i \in 1..Len(spans) : spans'[i] = spans[i]
      /\ spans'[Len(spans) + 1] = new
  BY <1>1, <1>3, <1>4
<1>7. /\ stack' \in Seq(Nat) /\ Len(stack') = Len(stack) + 1
      /\ \A a \in 1..Len(stack) : stack'[a] = stack[a]
      /\ stack'[Len(stack) + 1] = Len(spans) + 1
  BY <1>1, <1>3
<1>8. Len(stack) = 0 => \A i \in 1..Len(spans) : spans[i].open < now
  <2> SUFFICES ASSUME Len(stack) = 0, NEW i \in 1..Len(spans) PROVE spans[i].open < now
    OBVIOUS
  <2>1. spans # <<>> /\ Len(spans) \in 1..Len(spans) /\ i <= Len(spans)
    BY <1>1
  <2>2. LastTime = spans[Len(spans)].open
    BY <2>1 DEF LastTime, Last
  <2>3. spans[i].open <= spans[Len(spans)].open
    BY <1>0, <2>1 DEF Tree, LinesInOrder
  <2>4. spans[i].open \in Nat /\ spans[Len(spans)].open \in Nat
    BY <1>0, <2>1, TreeFacts
  <2> QED
    BY <1>1, <2>2, <2>3, <2>4
<1>9. Tree(spans', stack', now) /\ (NoneLeft(spans, stack) => NoneLeft(spans', stack'))
  <2>1. /\ spans'[Len(spans) + 1].open = now /\ spans'[Len(spans) + 1].close = Never
        /\ spans'[Len(spans) + 1].parent = IF Len(stack) = 0 THEN 0 ELSE stack[Len(stack)]
        /\ spans'[Len(spans) + 1].name = "pipeline" <=> Len(stack) = 0
    BY <1>5, <1>6
  <2> QED
    BY <1>0, <1>6, <1>7, <1>8, <2>1, TreeOpens
<1>10. TreeInv'
  BY <1>9 DEF TreeInv
<1> QED
  BY <1>5, <1>6, <1>7, <1>10

LEMMA ClosesSpans ==
  ASSUME TreeInv, NEW n \in Nat, n <= Len(stack), CloseSpans(n), UNCHANGED <<now, cuts>>
  PROVE  /\ TreeInv' /\ Len(spans') = Len(spans)
         /\ \A i \in 1..Len(spans) :
              /\ spans'[i].name = spans[i].name /\ spans'[i].open = spans[i].open
              /\ spans'[i].parent = spans[i].parent
              /\ spans'[i].close =
                   IF \E a \in (Len(stack) - n + 1)..Len(stack) : stack[a] = i
                   THEN now ELSE spans[i].close
         /\ Len(stack') = Len(stack) - n /\ \A a \in 1..(Len(stack) - n) : stack'[a] = stack[a]
<1> DEFINE c == Len(stack) - n
           Popped(i) == \E a \in (c + 1)..Len(stack) : stack[a] = i
<1>0. Tree(spans, stack, now)
  BY DEF TreeInv
<1>1. /\ spans \in Seq(SpanKind) /\ stack \in Seq(Nat) /\ now \in Nat /\ Len(spans) \in Nat
      /\ DOMAIN spans = 1..Len(spans) /\ Len(stack) \in Nat
  BY <1>0, TreeFacts
<1>2. c \in Nat /\ c <= Len(stack)
  BY <1>1
<1>3. spans' = [i \in 1..Len(spans) |->
         IF Popped(i) THEN [spans[i] EXCEPT !.close = now] ELSE spans[i]]
  BY <1>1 DEF CloseSpans
<1>4. stack' = SubSeq(stack, 1, c)
  BY DEF CloseSpans
<1> HIDE DEF Popped, c
<1>5. ASSUME NEW i \in 1..Len(spans)
      PROVE  /\ spans'[i] \in SpanKind
             /\ spans'[i].name = spans[i].name /\ spans'[i].open = spans[i].open
             /\ spans'[i].parent = spans[i].parent
             /\ spans'[i].close = IF Popped(i) THEN now ELSE spans[i].close
  <2>1. spans[i] \in SpanKind
    BY <1>1
  <2>2. spans'[i] = IF Popped(i) THEN [spans[i] EXCEPT !.close = now] ELSE spans[i]
    BY <1>3
  <2> QED
    BY <1>1, <2>1, <2>2 DEF SpanKind
<1>6. spans' \in Seq(SpanKind) /\ Len(spans') = Len(spans)
  <2>1. spans' \in [1..Len(spans) -> SpanKind]
    BY <1>3, <1>5
  <2> QED
    BY <1>1, <2>1
<1>7. stack' \in Seq(Nat) /\ Len(stack') = c /\ \A a \in 1..c : stack'[a] = stack[a]
  BY <1>1, <1>2, <1>4
<1>8. Tree(spans', stack', now) /\ (NoneLeft(spans, stack) => NoneLeft(spans', stack'))
  <2>1. \A i \in 1..Len(spans) :
          /\ spans'[i].name = spans[i].name /\ spans'[i].open = spans[i].open
          /\ spans'[i].parent = spans[i].parent
          /\ spans'[i].close =
               IF \E a \in (c + 1)..Len(stack) : stack[a] = i THEN now ELSE spans[i].close
    BY <1>5 DEF Popped
  <2> QED
    BY <1>0, <1>2, <1>6, <1>7, <2>1, TreeCloses, SMTT(30)
<1>9. TreeInv'
  BY <1>8 DEF TreeInv
<1> QED
  BY <1>5, <1>6, <1>7, <1>9 DEF Popped, c

\* The file only grows: a line stays as it is, but for the time of a closing line
\* that is still to come; s is before and u after time t.
Grown(s, u, t) ==
  /\ Len(s) <= Len(u)
  /\ \A i \in 1..Len(s) :
       /\ u[i].name = s[i].name /\ u[i].open = s[i].open /\ u[i].parent = s[i].parent
       /\ \/ u[i].close = s[i].close
          \/ s[i].close = Never /\ u[i].close >= t
  /\ \A i \in (Len(s) + 1)..Len(u) : u[i].open >= t

LEMMA SpanStays ==
  ASSUME NEW s, NEW k, NEW t, Tree(s, k, t), NEW u, NEW l, NEW t2, Tree(u, l, t2),
         Grown(s, u, t), NEW i, NEW e \in Nat, e <= t, Around(s, i, e)
  PROVE  Around(u, i, e)
<1>1. i \in 1..Len(s) /\ s[i].open <= e /\ e <= s[i].close
  BY DEF Around
<1>2. Len(s) \in Nat /\ Len(u) \in Nat /\ Len(s) <= Len(u) /\ t \in Nat
  BY TreeFacts DEF Grown
<1>3. i \in 1..Len(u)
  BY <1>1, <1>2
<1>4. u[i].close \in Nat
  BY <1>3, TreeFacts
<1>5. /\ u[i].open = s[i].open
      /\ u[i].close = s[i].close \/ u[i].close >= t
  BY <1>1 DEF Grown
<1> QED
  BY <1>1, <1>2, <1>3, <1>4, <1>5 DEF Around

LEMMA CostStays ==
  ASSUME NEW s, NEW k, NEW t, Tree(s, k, t), NEW u, NEW l, NEW t2, Tree(u, l, t2),
         Grown(s, u, t), NEW i, NEW e \in Nat, e <= t, CostOK(s, i, e)
  PROVE  CostOK(u, i, e)
<1> DEFINE p == s[i].parent
           ph == s[p].parent
           r == s[ph].parent
<1>1. i \in 1..Len(s) /\ p # 0 /\ ph # 0 /\ r # 0 /\ Around(s, p, e)
  BY DEF CostOK
<1>2. Len(s) \in Nat /\ Len(u) \in Nat /\ Len(s) <= Len(u) /\ t \in Nat /\ t < Never
  BY TreeFacts DEF Grown
<1>3. p \in 1..Len(s) /\ ph \in 1..Len(s)
  BY <1>1, TreeFacts
<1>4. u[i].parent = p /\ u[p].parent = ph /\ u[ph].parent = r /\ u[p].open = s[p].open
  BY <1>1, <1>3 DEF Grown
<1>5. Above(s, i) = {i, p, ph, r} /\ Above(u, i) = {i, p, ph, r}
  BY <1>4 DEF Above
<1>6. \A j \in 1..Len(s) : \/ j > i /\ s[j].open >= e
                           \/ j \in Above(s, i)
                           \/ s[j].open < s[p].open
                           \/ s[j].close < e
  BY DEF CostOK
<1>7. Around(u, p, e)
  BY <1>1, SpanStays
<1> HIDE DEF p, ph, r
<1>8. ASSUME NEW j \in 1..Len(u)
      PROVE  \/ j > i /\ u[j].open >= e
             \/ j \in Above(u, i)
             \/ u[j].open < u[p].open
             \/ u[j].close < e
  <2>1. CASE j \in 1..Len(s)
    <3>1. /\ u[j].open = s[j].open
          /\ u[j].close = s[j].close \/ s[j].close = Never
      BY <2>1 DEF Grown
    <3>2. ~(Never < e)
      BY <1>2 DEF Never
    <3>3. \/ j > i /\ s[j].open >= e
          \/ j \in Above(s, i)
          \/ s[j].open < s[p].open
          \/ s[j].close < e
      BY <1>6, <2>1
    <3> QED
      BY <1>4, <1>5, <3>1, <3>2, <3>3
  <2>2. CASE j \notin 1..Len(s)
    <3>1. j \in (Len(s) + 1)..Len(u) /\ j > i
      BY <1>1, <1>2, <2>2
    <3>2. u[j].open >= t /\ u[j].open \in Nat
      BY <3>1, TreeFacts DEF Grown
    <3> QED
      BY <1>2, <3>1, <3>2
  <2> QED
    BY <2>1, <2>2
<1>9. i \in 1..Len(u)
  BY <1>1, <1>2
<1> QED
  BY <1>1, <1>4, <1>7, <1>8, <1>9 DEF CostOK

LEMMA PointStays ==
  ASSUME NEW s, NEW k, NEW t, Tree(s, k, t), NEW u, NEW l, NEW t2, Tree(u, l, t2),
         Grown(s, u, t), t <= t2, NEW ev \in PointKind, PointOK(s, ev, t)
  PROVE  PointOK(u, ev, t2)
<1>1. ev.t \in Nat /\ ev.t <= t /\ t \in Nat /\ t2 \in Nat
  BY TreeFacts DEF PointKind, PointOK
<1>2. ev.parent # 0 => Around(u, ev.parent, ev.t)
  BY <1>1, SpanStays DEF PointOK
<1>3. ASSUME ev.parent = 0 PROVE \E i \in 1..Len(u) : Around(u, i, ev.t)
  <2>1. PICK i \in 1..Len(s) : Around(s, i, ev.t)
    BY <1>3 DEF PointOK
  <2>2. Around(u, i, ev.t)
    BY <1>1, <2>1, SpanStays
  <2> QED
    BY <2>2 DEF Around
<1>4. ev.name = "cost.recorded" => ev.parent = 0 /\ CostOK(u, ev.span, ev.t)
  BY <1>1, CostStays DEF PointOK
<1> QED
  BY <1>1, <1>2, <1>3, <1>4 DEF PointOK

LEMMA PointsStay ==
  ASSUME TraceInv, TreeInv', Grown(spans, spans', now), now <= now',
         NEW events \in Seq(PointKind), points' = points \o events,
         \A j \in 1..Len(events) : PointOK(spans', events[j], now')
  PROVE  PointsInv'
<1>1. points \in Seq(PointKind) /\ \A j \in 1..Len(points) : PointOK(spans, points[j], now)
  BY DEF TraceInv, PointsInv
<1>2. points' \in Seq(PointKind) /\ Len(points') = Len(points) + Len(events)
  BY <1>1
<1>3. ASSUME NEW j \in 1..Len(points') PROVE PointOK(spans', points'[j], now')
  <2>1. CASE j \in 1..Len(points)
    <3>1. points'[j] = points[j] /\ points[j] \in PointKind
      BY <1>1, <2>1
    <3>2. Tree(spans, stack, now) /\ Tree(spans', stack', now')
      BY DEF TraceInv, TreeInv
    <3>3. PointOK(spans, points[j], now)
      BY <1>1, <2>1
    <3>4. PointOK(spans', points[j], now')
      BY <3>1, <3>2, <3>3, PointStays
    <3> QED
      BY <3>1, <3>4
  <2>2. CASE j \notin 1..Len(points)
    <3>1. j - Len(points) \in 1..Len(events) /\ points'[j] = events[j - Len(points)]
      BY <1>1, <1>2, <2>2
    <3> QED
      BY <3>1
  <2> QED
    BY <2>1, <2>2
<1> QED
  BY <1>2, <1>3 DEF PointsInv

\* Nothing is emitted.
LEMMA NoPoints ==
  ASSUME TraceInv, TreeInv', Grown(spans, spans', now), now <= now', points' = points
  PROVE  PointsInv'
<1>1. <<>> \in Seq(PointKind) /\ Len(<<>>) = 0 /\ points \in Seq(PointKind)
  BY DEF TraceInv, PointsInv
<1>2. points' = points \o <<>>
  BY <1>1
<1>3. \A j \in 1..Len(<<>>) : PointOK(spans', <<>>[j], now')
  BY <1>1
<1> QED
  BY <1>1, <1>2, <1>3, PointsStay

LEMMA OpeningGrows ==
  ASSUME TreeInv, Len(spans') = Len(spans) + 1,
         \A i \in 1..Len(spans) : spans'[i] = spans[i], spans'[Len(spans) + 1].open = now
  PROVE  Grown(spans, spans', now)
<1>1. Len(spans) \in Nat /\ now \in Nat
  BY TreeFacts DEF TreeInv
<1>2. (Len(spans) + 1)..Len(spans') = {Len(spans) + 1}
  BY <1>1
<1> QED
  BY <1>1, <1>2 DEF Grown

LEMMA ClosingGrows ==
  ASSUME TreeInv, NEW n \in Nat, Len(spans') = Len(spans),
         \A i \in 1..Len(spans) :
           /\ spans'[i].name = spans[i].name /\ spans'[i].open = spans[i].open
           /\ spans'[i].parent = spans[i].parent
           /\ spans'[i].close =
                IF \E a \in (Len(stack) - n + 1)..Len(stack) : stack[a] = i
                THEN now ELSE spans[i].close,
         n <= Len(stack)
  PROVE  Grown(spans, spans', now)
<1>1. Len(spans) \in Nat /\ now \in Nat /\ Len(stack) \in Nat
  BY TreeFacts DEF TreeInv
<1>2. (Len(spans) + 1)..Len(spans') = {}
  BY <1>1
<1>3. ASSUME NEW i \in 1..Len(spans)
      PROVE  \/ spans'[i].close = spans[i].close
             \/ spans[i].close = Never /\ spans'[i].close >= now
  <2>1. CASE \E a \in (Len(stack) - n + 1)..Len(stack) : stack[a] = i
    <3>1. PICK a \in (Len(stack) - n + 1)..Len(stack) : stack[a] = i
      BY <2>1
    <3>2. a \in 1..Len(stack)
      BY <1>1, <3>1
    <3>3. spans[i].close = Never
      BY <3>1, <3>2 DEF TreeInv, Tree, StackIsPath
    <3>4. spans'[i].close = now
      BY <2>1
    <3> QED
      BY <1>1, <3>3, <3>4
  <2>2. CASE ~ \E a \in (Len(stack) - n + 1)..Len(stack) : stack[a] = i
    BY <2>2
  <2> QED
    BY <2>1, <2>2
<1> QED
  BY <1>1, <1>2, <1>3 DEF Grown

LEMMA SameGrows ==
  ASSUME TreeInv, spans' = spans
  PROVE  Grown(spans, spans', now)
<1>1. Len(spans) \in Nat /\ (Len(spans) + 1)..Len(spans) = {}
  BY TreeFacts DEF TreeInv
<1> QED
  BY <1>1 DEF Grown

LEMMA APoint ==
  ASSUME NEW name \in EventNames, NEW parent \in Nat, NEW span \in Nat, now \in Nat
  PROVE  /\ Point(name, parent, span) \in PointKind
         /\ Point(name, parent, span).name = name /\ Point(name, parent, span).t = now
         /\ Point(name, parent, span).parent = parent
         /\ Point(name, parent, span).span = span
BY DEF Point, PointKind

\* An event under a span that is around the present time.
LEMMA EventAt ==
  ASSUME NEW name \in EventNames, name # "cost.recorded", NEW s, NEW i \in Nat, i # 0,
         Around(s, i, now), now \in Nat
  PROVE  Point(name, i, 0) \in PointKind /\ PointOK(s, Point(name, i, 0), now)
<1>1. 0 \in Nat
  OBVIOUS
<1> QED
  BY <1>1, APoint DEF PointOK

-----------------------------------------------------------------------------
\* The steps, one after the other.

LEMMA StackKinds ==
  ASSUME TraceInv
  PROVE  /\ Len(spans) \in Nat /\ Len(stack) \in Nat /\ Len(stack) = Depth(tracing)
         /\ now \in Nat /\ now < Never
         /\ \A a \in 1..Len(stack) : stack[a] \in 1..Len(spans) /\ stack[a] # 0
         /\ \A a \in 1..Len(stack) : Around(spans, stack[a], now)
         /\ stack # <<>> => Top = stack[Len(stack)]
<1>1. /\ Len(spans) \in Nat /\ Len(stack) \in Nat /\ now \in Nat /\ now < Never
      /\ \A a \in 1..Len(stack) : stack[a] \in 1..Len(spans)
  BY TreeFacts DEF TraceInv, TreeInv
<1>2. ASSUME NEW a \in 1..Len(stack) PROVE stack[a] # 0 /\ Around(spans, stack[a], now)
  <2>1. stack[a] \in 1..Len(spans) /\ spans[stack[a]].close = Never
    BY DEF TraceInv, TreeInv, Tree, StackIsPath
  <2>2. spans[stack[a]].open <= now
    BY <2>1, TreeFacts DEF TraceInv, TreeInv
  <2> QED
    BY <1>1, <2>1, <2>2 DEF Around, Never
<1> QED
  BY <1>1, <1>2 DEF TraceInv, PlaceOfRun, Top, Last

\* Closing the innermost spans leaves what is around the present time around it.
LEMMA ClosedAround ==
  ASSUME TraceInv, NEW n \in Nat, n <= Len(stack), CloseSpans(n), UNCHANGED <<now, cuts>>,
         NEW a \in 1..Len(stack)
  PROVE  Around(spans', stack[a], now)
<1>1. Tree(spans, stack, now) /\ Tree(spans', stack', now)
  BY ClosesSpans DEF TraceInv, TreeInv
<1>2. Grown(spans, spans', now)
  BY ClosesSpans, ClosingGrows DEF TraceInv
<1>3. Around(spans, stack[a], now) /\ now \in Nat
  BY StackKinds
<1> QED
  BY <1>1, <1>2, <1>3, SpanStays

LEMMA BeginRunKeeps == ASSUME TraceInv, BeginRun PROVE TraceInv'
<1>1. OpenSpan("pipeline") /\ UNCHANGED <<now, cuts>> /\ Len(stack) = 0
  BY StackKinds DEF BeginRun, Goes, Depth
<1>2. /\ TreeInv' /\ Len(spans') = Len(spans) + 1
      /\ \A i \in 1..Len(spans) : spans'[i] = spans[i]
      /\ spans'[Len(spans) + 1].open = now /\ spans'[Len(spans) + 1].close = Never
      /\ Len(stack') = 1 /\ stack'[1] = Len(spans) + 1
      /\ \A a \in 1..0 : stack'[a] = stack[a]
  <2>1. /\ "pipeline" \in SpanNames /\ ("pipeline" = "pipeline" <=> Len(stack) = 0)
        /\ Len(stack) = 0 => now > LastTime
    BY <1>1 DEF BeginRun, SpanNames
  <2>2. TreeInv
    BY DEF TraceInv
  <2> QED
    BY <1>1, <2>1, <2>2, OpensSpan
<1>3. Grown(spans, spans', now) /\ now' = now /\ now \in Nat /\ Len(spans) \in Nat
  BY <1>1, <1>2, OpeningGrows, StackKinds DEF TraceInv
<1>4. PlaceOfRun'
  BY <1>2, <1>3, StackKinds, TraceAssumption DEF TraceInv, PlaceOfRun, Depth, BeginRun, Goes
<1>5. PointsInv'
  BY <1>2, <1>3, NoPoints DEF BeginRun
<1> QED
  BY <1>2, <1>4, <1>5 DEF TraceInv

LEMMA BeginPhaseKeeps == ASSUME TraceInv, BeginPhase PROVE TraceInv'
<1>1. OpenSpan("phase") /\ UNCHANGED <<now, cuts>> /\ Len(stack) = 1
  BY StackKinds DEF BeginPhase, Goes, Depth
<1>2. /\ TreeInv' /\ Len(spans') = Len(spans) + 1
      /\ \A i \in 1..Len(spans) : spans'[i] = spans[i]
      /\ spans'[Len(spans) + 1].open = now /\ spans'[Len(spans) + 1].close = Never
      /\ Len(stack') = 2 /\ stack'[2] = Len(spans) + 1
      /\ \A a \in 1..1 : stack'[a] = stack[a]
  <2>1. /\ "phase" \in SpanNames /\ ("phase" = "pipeline" <=> Len(stack) = 0)
        /\ Len(stack) = 0 => now > LastTime
    BY <1>1 DEF SpanNames
  <2>2. TreeInv
    BY DEF TraceInv
  <2> QED
    BY <1>1, <2>1, <2>2, OpensSpan
<1>3. Grown(spans, spans', now) /\ now' = now /\ now \in Nat /\ Len(spans) \in Nat
  BY <1>1, <1>2, OpeningGrows, StackKinds DEF TraceInv
<1>4. PlaceOfRun'
  BY <1>2, <1>3, StackKinds, TraceAssumption DEF TraceInv, PlaceOfRun, Depth, BeginPhase, Goes
<1>5. PointsInv'
  <2> DEFINE ev == Point("context.built", Len(spans) + 1, 0)
             events == <<ev>>
  <2>1. Around(spans', Len(spans) + 1, now)
    BY <1>2, <1>3, StackKinds DEF Around, Never
  <2>2. ev \in PointKind /\ PointOK(spans', ev, now)
    BY <1>3, <2>1, EventAt DEF EventNames
  <2>3. points' = points \o events
    BY DEF BeginPhase, EmitEvents
  <2> HIDE DEF ev
  <2>4. events \in Seq(PointKind) /\ \A j \in 1..Len(events) : PointOK(spans', events[j], now')
    BY <1>3, <2>2
  <2>5. TreeInv' /\ Grown(spans, spans', now) /\ now <= now'
    BY <1>2, <1>3
  <2> HIDE DEF events
  <2> QED
    BY <2>3, <2>4, <2>5, PointsStay
<1> QED
  BY <1>2, <1>4, <1>5 DEF TraceInv

LEMMA BeginAttemptKeeps == ASSUME TraceInv, BeginAttempt PROVE TraceInv'
<1>1. OpenSpan("attempt") /\ UNCHANGED <<now, cuts>> /\ Len(stack) = 2
  BY StackKinds DEF BeginAttempt, Goes, Depth
<1>2. /\ TreeInv' /\ Len(spans') = Len(spans) + 1
      /\ \A i \in 1..Len(spans) : spans'[i] = spans[i]
      /\ spans'[Len(spans) + 1].open = now /\ spans'[Len(spans) + 1].close = Never
      /\ Len(stack') = 3 /\ stack'[3] = Len(spans) + 1
      /\ \A a \in 1..2 : stack'[a] = stack[a]
  <2>1. /\ "attempt" \in SpanNames /\ ("attempt" = "pipeline" <=> Len(stack) = 0)
        /\ Len(stack) = 0 => now > LastTime
    BY <1>1 DEF SpanNames
  <2>2. TreeInv
    BY DEF TraceInv
  <2> QED
    BY <1>1, <2>1, <2>2, OpensSpan
<1>3. Grown(spans, spans', now) /\ now' = now /\ now \in Nat /\ Len(spans) \in Nat
  BY <1>1, <1>2, OpeningGrows, StackKinds DEF TraceInv
<1>4. PlaceOfRun'
  BY <1>2, <1>3, StackKinds, TraceAssumption DEF TraceInv, PlaceOfRun, Depth, BeginAttempt, Goes
<1>5. PointsInv'
  <2>1. CASE tryNo = 0
    <3>1. points' = points
      BY <2>1 DEF BeginAttempt, EmitEvents, TraceInv, PointsInv
    <3> QED
      BY <1>2, <1>3, <3>1, NoPoints
  <2>2. CASE tryNo # 0
    <3> DEFINE ev == Point("retry.classified", Top, 0)
               events == <<ev>>
    <3>1. Top = stack[2] /\ 2 \in 1..Len(stack)
      BY <1>1, StackKinds
    <3>2. Around(spans', Top, now) /\ Top \in Nat /\ Top # 0
      BY <1>2, <1>3, <3>1, StackKinds DEF Around, Never
    <3>3. ev \in PointKind /\ PointOK(spans', ev, now)
      BY <1>3, <3>2, EventAt DEF EventNames
    <3>4. points' = points \o events
      BY <2>2 DEF BeginAttempt, EmitEvents
    <3> HIDE DEF ev
    <3>5. events \in Seq(PointKind) /\ \A j \in 1..Len(events) : PointOK(spans', events[j], now')
      BY <1>3, <3>3
    <3>6. TreeInv' /\ Grown(spans, spans', now) /\ now <= now'
      BY <1>2, <1>3
    <3> HIDE DEF events
    <3> QED
      BY <3>4, <3>5, <3>6, PointsStay
  <2> QED
    BY <2>1, <2>2
<1> QED
  BY <1>2, <1>4, <1>5 DEF TraceInv

LEMMA SpawnAgentKeeps == ASSUME TraceInv, SpawnAgent PROVE TraceInv'
<1>1. OpenSpan("agent.spawn") /\ UNCHANGED <<now, cuts>> /\ Len(stack) = 3
  BY StackKinds DEF SpawnAgent, Goes, Depth
<1>2. /\ TreeInv' /\ Len(spans') = Len(spans) + 1
      /\ \A i \in 1..Len(spans) : spans'[i] = spans[i]
      /\ spans'[Len(spans) + 1].open = now /\ spans'[Len(spans) + 1].close = Never
      /\ Len(stack') = 4 /\ stack'[4] = Len(spans) + 1
      /\ \A a \in 1..3 : stack'[a] = stack[a]
  <2>1. /\ "agent.spawn" \in SpanNames /\ ("agent.spawn" = "pipeline" <=> Len(stack) = 0)
        /\ Len(stack) = 0 => now > LastTime
    BY <1>1 DEF SpanNames
  <2>2. TreeInv
    BY DEF TraceInv
  <2> QED
    BY <1>1, <2>1, <2>2, OpensSpan
<1>3. Grown(spans, spans', now) /\ now' = now /\ now \in Nat /\ Len(spans) \in Nat
  BY <1>1, <1>2, OpeningGrows, StackKinds DEF TraceInv
<1>4. PlaceOfRun'
  BY <1>2, <1>3, StackKinds, TraceAssumption DEF TraceInv, PlaceOfRun, Depth, SpawnAgent, Goes
<1>5. PointsInv'
  BY <1>2, <1>3, NoPoints DEF SpawnAgent
<1> QED
  BY <1>2, <1>4, <1>5 DEF TraceInv

LEMMA BeginVerifierKeeps == ASSUME TraceInv, BeginVerifier PROVE TraceInv'
<1>1. OpenSpan("verifier.run") /\ UNCHANGED <<now, cuts>> /\ Len(stack) = 3
  BY StackKinds DEF BeginVerifier, Goes, Depth
<1>2. /\ TreeInv' /\ Len(spans') = Len(spans) + 1
      /\ \A i \in 1..Len(spans) : spans'[i] = spans[i]
      /\ spans'[Len(spans) + 1].open = now /\ spans'[Len(spans) + 1].close = Never
      /\ Len(stack') = 4 /\ stack'[4] = Len(spans) + 1
      /\ \A a \in 1..3 : stack'[a] = stack[a]
  <2>1. /\ "verifier.run" \in SpanNames /\ ("verifier.run" = "pipeline" <=> Len(stack) = 0)
        /\ Len(stack) = 0 => now > LastTime
    BY <1>1 DEF SpanNames
  <2>2. TreeInv
    BY DEF TraceInv
  <2> QED
    BY <1>1, <2>1, <2>2, OpensSpan
<1>3. Grown(spans, spans', now) /\ now' = now /\ now \in Nat /\ Len(spans) \in Nat
  BY <1>1, <1>2, OpeningGrows, StackKinds DEF TraceInv
<1>4. PlaceOfRun'
  BY <1>2, <1>3, StackKinds, TraceAssumption DEF TraceInv, PlaceOfRun, Depth, BeginVerifier, Goes
<1>5. PointsInv'
  BY <1>2, <1>3, NoPoints DEF BeginVerifier
<1> QED
  BY <1>2, <1>4, <1>5 DEF TraceInv

LEMMA AgentDoneKeeps == ASSUME TraceInv, AgentDone PROVE TraceInv'
<1>1. CloseSpans(1) /\ UNCHANGED <<now, cuts>> /\ Len(stack) = 4
  BY StackKinds DEF AgentDone, Goes, Depth
<1>2. /\ TreeInv' /\ Len(spans') = Len(spans)
      /\ \A i \in 1..Len(spans) :
           /\ spans'[i].name = spans[i].name /\ spans'[i].open = spans[i].open
           /\ spans'[i].parent = spans[i].parent
           /\ spans'[i].close =
                IF \E a \in (Len(stack) - 1 + 1)..Len(stack) : stack[a] = i
                THEN now ELSE spans[i].close
      /\ Len(stack') = 3 /\ \A a \in 1..3 : stack'[a] = stack[a]
  <2>1. 1 \in Nat /\ 1 <= Len(stack) /\ Len(stack) - 1 = 3 /\ TreeInv
    BY <1>1 DEF TraceInv
  <2> QED
    BY <1>1, <2>1, ClosesSpans, ZenonT(40)
<1>3. Grown(spans, spans', now) /\ now' = now /\ now \in Nat /\ Len(spans) \in Nat
  <2>1. 1 \in Nat /\ 1 <= Len(stack) /\ TreeInv
    BY <1>1 DEF TraceInv
  <2>2. Grown(spans, spans', now)
    BY <1>2, <2>1, ClosingGrows
  <2> QED
    BY <1>1, <2>2, StackKinds
<1>4. PlaceOfRun'
  <2>1. tracing' \in {"record", "failed"} /\ tracing = "agent"
    BY DEF AgentDone, Goes
  <2>2. /\ stack[4] = Len(spans) /\ stack[3] + 1 = Len(spans) /\ 4 \in 1..Len(stack)
        /\ Len(spans) \in 1..Len(spans) /\ now > spans[Len(spans)].open
    <3>1. Top = stack[4] /\ 4 \in 1..Len(stack) /\ stack[4] \in 1..Len(spans)
      BY <1>1, StackKinds, SMTT(30)
    <3>2. now > spans[Top].open
      BY DEF AgentDone
    <3>3. stack[4] = Len(spans) /\ stack[3] + 1 = Len(spans)
      BY <2>1 DEF TraceInv, PlaceOfRun
    <3> QED
      BY <3>1, <3>2, <3>3
  <2>3. spans[Len(spans)].parent = stack[3]
    BY <2>2 DEF TraceInv, TreeInv, Tree, StackIsPath
  <2>4. spans'[Len(spans)].close = now /\ spans'[Len(spans)].parent = stack[3]
        /\ spans'[Len(spans)].open = spans[Len(spans)].open
    <3>1. 4 \in (Len(stack) - 1 + 1)..Len(stack)
      BY <1>1
    <3> QED
      BY <1>2, <2>2, <2>3, <3>1
  <2>5. stack'[3] = stack[3] /\ now # Never
    BY <1>2, StackKinds DEF Never
  <2> QED
    BY <1>2, <1>3, <2>1, <2>2, <2>4, <2>5 DEF TraceInv, PlaceOfRun, Depth, AgentDone
<1>5. PointsInv'
  <2>1. points' = points /\ TreeInv' /\ now <= now'
    BY <1>2, <1>3 DEF AgentDone
  <2> QED
    BY <1>3, <2>1, NoPoints
<1> QED
  BY <1>2, <1>4, <1>5 DEF TraceInv

LEMMA EndVerifierKeeps == ASSUME TraceInv, EndVerifier PROVE TraceInv'
<1>1. CloseSpans(1) /\ UNCHANGED <<now, cuts>> /\ Len(stack) = 4
  BY StackKinds DEF EndVerifier, Goes, Depth
<1>2. /\ TreeInv' /\ Len(spans') = Len(spans)
      /\ \A i \in 1..Len(spans) :
           /\ spans'[i].name = spans[i].name /\ spans'[i].open = spans[i].open
           /\ spans'[i].parent = spans[i].parent
           /\ spans'[i].close =
                IF \E a \in (Len(stack) - 1 + 1)..Len(stack) : stack[a] = i
                THEN now ELSE spans[i].close
      /\ Len(stack') = 3 /\ \A a \in 1..3 : stack'[a] = stack[a]
  <2>1. 1 \in Nat /\ 1 <= Len(stack) /\ Len(stack) - 1 = 3 /\ TreeInv
    BY <1>1 DEF TraceInv
  <2> QED
    BY <1>1, <2>1, ClosesSpans, ZenonT(40)
<1>3. Grown(spans, spans', now) /\ now' = now /\ now \in Nat /\ Len(spans) \in Nat
  <2>1. 1 \in Nat /\ 1 <= Len(stack) /\ TreeInv
    BY <1>1 DEF TraceInv
  <2>2. Grown(spans, spans', now)
    BY <1>2, <2>1, ClosingGrows
  <2> QED
    BY <1>1, <2>2, StackKinds
<1>4. PlaceOfRun'
  BY <1>1, <1>2, <1>3, TraceAssumption DEF TraceInv, PlaceOfRun, Depth, EndVerifier, Goes
<1>5. PointsInv'
  <2>1. points' = points /\ TreeInv' /\ now <= now'
    BY <1>2, <1>3 DEF EndVerifier
  <2> QED
    BY <1>3, <2>1, NoPoints
<1> QED
  BY <1>2, <1>4, <1>5 DEF TraceInv

LEMMA AttemptFailsKeeps == ASSUME TraceInv, AttemptFails PROVE TraceInv'
<1>1. CloseSpans(1) /\ UNCHANGED <<now, cuts>> /\ Len(stack) = 3
  BY StackKinds DEF AttemptFails, Goes, Depth
<1>2. /\ TreeInv' /\ Len(spans') = Len(spans)
      /\ \A i \in 1..Len(spans) :
           /\ spans'[i].name = spans[i].name /\ spans'[i].open = spans[i].open
           /\ spans'[i].parent = spans[i].parent
           /\ spans'[i].close =
                IF \E a \in (Len(stack) - 1 + 1)..Len(stack) : stack[a] = i
                THEN now ELSE spans[i].close
      /\ Len(stack') = 2 /\ \A a \in 1..2 : stack'[a] = stack[a]
  <2>1. 1 \in Nat /\ 1 <= Len(stack) /\ Len(stack) - 1 = 2 /\ TreeInv
    BY <1>1 DEF TraceInv
  <2> QED
    BY <1>1, <2>1, ClosesSpans, ZenonT(40)
<1>3. Grown(spans, spans', now) /\ now' = now /\ now \in Nat /\ Len(spans) \in Nat
  <2>1. 1 \in Nat /\ 1 <= Len(stack) /\ TreeInv
    BY <1>1 DEF TraceInv
  <2>2. Grown(spans, spans', now)
    BY <1>2, <2>1, ClosingGrows
  <2> QED
    BY <1>1, <2>2, StackKinds
<1>4. PlaceOfRun'
  BY <1>1, <1>2, <1>3, TraceAssumption DEF TraceInv, PlaceOfRun, Depth, AttemptFails, Goes
<1>5. PointsInv'
  <2> DEFINE ev0 == Point("state.change", Top, 0)
             events == <<ev0>>
  <2>1. Top = stack[3] /\ 3 \in 1..Len(stack)
    BY <1>1, StackKinds
  <2>2. Around(spans', Top, now) /\ Top \in Nat /\ Top # 0
    <3>1. 1 \in Nat /\ 1 <= Len(stack)
      BY <1>1
    <3>2. Around(spans', stack[3], now)
      BY <1>1, <2>1, <3>1, ClosedAround
    <3> QED
      BY <1>3, <2>1, <3>2, StackKinds
  <2>3. ev0 \in PointKind /\ PointOK(spans', ev0, now)
    BY <1>3, <2>2, EventAt DEF EventNames
  <2>5. points' = points \o events
    BY DEF AttemptFails, EmitEvents
  <2> HIDE DEF ev0
  <2>6. events \in Seq(PointKind) /\ \A j \in 1..Len(events) : PointOK(spans', events[j], now')
    BY <1>3, <2>3
  <2>7. TreeInv' /\ Grown(spans, spans', now) /\ now <= now'
    BY <1>2, <1>3
  <2> HIDE DEF events
  <2> QED
    BY <2>5, <2>6, <2>7, PointsStay
<1> QED
  BY <1>2, <1>4, <1>5 DEF TraceInv

LEMMA AttemptPassesKeeps == ASSUME TraceInv, AttemptPasses PROVE TraceInv'
<1>1. CloseSpans(1) /\ UNCHANGED <<now, cuts>> /\ Len(stack) = 3
  BY StackKinds DEF AttemptPasses, Goes, Depth
<1>2. /\ TreeInv' /\ Len(spans') = Len(spans)
      /\ \A i \in 1..Len(spans) :
           /\ spans'[i].name = spans[i].name /\ spans'[i].open = spans[i].open
           /\ spans'[i].parent = spans[i].parent
           /\ spans'[i].close =
                IF \E a \in (Len(stack) - 1 + 1)..Len(stack) : stack[a] = i
                THEN now ELSE spans[i].close
      /\ Len(stack') = 2 /\ \A a \in 1..2 : stack'[a] = stack[a]
  <2>1. 1 \in Nat /\ 1 <= Len(stack) /\ Len(stack) - 1 = 2 /\ TreeInv
    BY <1>1 DEF TraceInv
  <2> QED
    BY <1>1, <2>1, ClosesSpans, ZenonT(40)
<1>3. Grown(spans, spans', now) /\ now' = now /\ now \in Nat /\ Len(spans) \in Nat
  <2>1. 1 \in Nat /\ 1 <= Len(stack) /\ TreeInv
    BY <1>1 DEF TraceInv
  <2>2. Grown(spans, spans', now)
    BY <1>2, <2>1, ClosingGrows
  <2> QED
    BY <1>1, <2>2, StackKinds
<1>4. PlaceOfRun'
  BY <1>1, <1>2, <1>3, TraceAssumption DEF TraceInv, PlaceOfRun, Depth, AttemptPasses, Goes
<1>5. PointsInv'
  <2>1. points' = points /\ TreeInv' /\ now <= now'
    BY <1>2, <1>3 DEF AttemptPasses
  <2> QED
    BY <1>3, <2>1, NoPoints
<1> QED
  BY <1>2, <1>4, <1>5 DEF TraceInv

LEMMA PhasePassesKeeps == ASSUME TraceInv, PhasePasses PROVE TraceInv'
<1>1. CloseSpans(1) /\ UNCHANGED <<now, cuts>> /\ Len(stack) = 2
  BY StackKinds DEF PhasePasses, Goes, Depth
<1>2. /\ TreeInv' /\ Len(spans') = Len(spans)
      /\ \A i \in 1..Len(spans) :
           /\ spans'[i].name = spans[i].name /\ spans'[i].open = spans[i].open
           /\ spans'[i].parent = spans[i].parent
           /\ spans'[i].close =
                IF \E a \in (Len(stack) - 1 + 1)..Len(stack) : stack[a] = i
                THEN now ELSE spans[i].close
      /\ Len(stack') = 1 /\ \A a \in 1..1 : stack'[a] = stack[a]
  <2>1. 1 \in Nat /\ 1 <= Len(stack) /\ Len(stack) - 1 = 1 /\ TreeInv
    BY <1>1 DEF TraceInv
  <2> QED
    BY <1>1, <2>1, ClosesSpans
<1>3. Grown(spans, spans', now) /\ now' = now /\ now \in Nat /\ Len(spans) \in Nat
  <2>1. 1 \in Nat /\ 1 <= Len(stack) /\ TreeInv
    BY <1>1 DEF TraceInv
  <2>2. Grown(spans, spans', now)
    BY <1>2, <2>1, ClosingGrows
  <2> QED
    BY <1>1, <2>2, StackKinds
<1>4. PlaceOfRun'
  BY <1>1, <1>2, <1>3, TraceAssumption DEF TraceInv, PlaceOfRun, Depth, PhasePasses, Goes
<1>5. PointsInv'
  <2> DEFINE ev0 == Point("receipt.saved", Top, 0)
             ev1 == Point("state.change", Top, 0)
             events == <<ev0, ev1>>
  <2>1. Top = stack[2] /\ 2 \in 1..Len(stack)
    BY <1>1, StackKinds
  <2>2. Around(spans', Top, now) /\ Top \in Nat /\ Top # 0
    <3>1. 1 \in Nat /\ 1 <= Len(stack)
      BY <1>1
    <3>2. Around(spans', stack[2], now)
      BY <1>1, <2>1, <3>1, ClosedAround
    <3> QED
      BY <1>3, <2>1, <3>2, StackKinds
  <2>3. ev0 \in PointKind /\ PointOK(spans', ev0, now)
    BY <1>3, <2>2, EventAt DEF EventNames
  <2>4. ev1 \in PointKind /\ PointOK(spans', ev1, now)
    BY <1>3, <2>2, EventAt DEF EventNames
  <2>5. points' = points \o events
    BY DEF PhasePasses, EmitEvents
  <2> HIDE DEF ev0, ev1
  <2>6. events \in Seq(PointKind) /\ \A j \in 1..Len(events) : PointOK(spans', events[j], now')
    BY <1>3, <2>3, <2>4
  <2>7. TreeInv' /\ Grown(spans, spans', now) /\ now <= now'
    BY <1>2, <1>3
  <2> HIDE DEF events
  <2> QED
    BY <2>5, <2>6, <2>7, PointsStay
<1> QED
  BY <1>2, <1>4, <1>5 DEF TraceInv

LEMMA HaltRunKeeps == ASSUME TraceInv, HaltRun PROVE TraceInv'
<1>1. CloseSpans(2) /\ UNCHANGED <<now, cuts>> /\ Len(stack) = 2
  BY StackKinds DEF HaltRun, Goes, Depth
<1>2. /\ TreeInv' /\ Len(spans') = Len(spans)
      /\ \A i \in 1..Len(spans) :
           /\ spans'[i].name = spans[i].name /\ spans'[i].open = spans[i].open
           /\ spans'[i].parent = spans[i].parent
           /\ spans'[i].close =
                IF \E a \in (Len(stack) - 2 + 1)..Len(stack) : stack[a] = i
                THEN now ELSE spans[i].close
      /\ Len(stack') = 0 /\ \A a \in 1..0 : stack'[a] = stack[a]
  <2>1. 2 \in Nat /\ 2 <= Len(stack) /\ Len(stack) - 2 = 0 /\ TreeInv
    BY <1>1 DEF TraceInv
  <2> QED
    BY <1>1, <2>1, ClosesSpans
<1>3. Grown(spans, spans', now) /\ now' = now /\ now \in Nat /\ Len(spans) \in Nat
  <2>1. 2 \in Nat /\ 2 <= Len(stack) /\ TreeInv
    BY <1>1 DEF TraceInv
  <2>2. Grown(spans, spans', now)
    BY <1>2, <2>1, ClosingGrows
  <2> QED
    BY <1>1, <2>2, StackKinds
<1>4. PlaceOfRun'
  BY <1>1, <1>2, <1>3, TraceAssumption DEF TraceInv, PlaceOfRun, Depth, HaltRun, Goes
<1>5. PointsInv'
  <2>1. points' = points /\ TreeInv' /\ now <= now'
    BY <1>2, <1>3 DEF HaltRun
  <2> QED
    BY <1>3, <2>1, NoPoints
<1> QED
  BY <1>2, <1>4, <1>5 DEF TraceInv

LEMMA FinishRunKeeps == ASSUME TraceInv, FinishRun PROVE TraceInv'
<1>1. CloseSpans(1) /\ UNCHANGED <<now, cuts>> /\ Len(stack) = 1
  BY StackKinds DEF FinishRun, Goes, Depth
<1>2. /\ TreeInv' /\ Len(spans') = Len(spans)
      /\ \A i \in 1..Len(spans) :
           /\ spans'[i].name = spans[i].name /\ spans'[i].open = spans[i].open
           /\ spans'[i].parent = spans[i].parent
           /\ spans'[i].close =
                IF \E a \in (Len(stack) - 1 + 1)..Len(stack) : stack[a] = i
                THEN now ELSE spans[i].close
      /\ Len(stack') = 0 /\ \A a \in 1..0 : stack'[a] = stack[a]
  <2>1. 1 \in Nat /\ 1 <= Len(stack) /\ Len(stack) - 1 = 0 /\ TreeInv
    BY <1>1 DEF TraceInv
  <2> QED
    BY <1>1, <2>1, ClosesSpans
<1>3. Grown(spans, spans', now) /\ now' = now /\ now \in Nat /\ Len(spans) \in Nat
  <2>1. 1 \in Nat /\ 1 <= Len(stack) /\ TreeInv
    BY <1>1 DEF TraceInv
  <2>2. Grown(spans, spans', now)
    BY <1>2, <2>1, ClosingGrows
  <2> QED
    BY <1>1, <2>2, StackKinds
<1>4. PlaceOfRun'
  BY <1>1, <1>2, <1>3, TraceAssumption DEF TraceInv, PlaceOfRun, Depth, FinishRun, Goes
<1>5. PointsInv'
  <2>1. points' = points /\ TreeInv' /\ now <= now'
    BY <1>2, <1>3 DEF FinishRun
  <2> QED
    BY <1>3, <2>1, NoPoints
<1> QED
  BY <1>2, <1>4, <1>5 DEF TraceInv

LEMMA CutRunKeeps == ASSUME TraceInv, CutRun PROVE TraceInv'
<1>1. Tree(spans, stack, now) /\ stack' = <<>> /\ UNCHANGED <<spans, now, points>>
  BY DEF TraceInv, TreeInv, CutRun
<1>2. cuts' # 0
  BY DEF CutRun, TraceInv, PlaceOfRun
<1>3. TreeInv'
  BY <1>1, <1>2, TreeIsLeft DEF TreeInv
<1>4. PlaceOfRun'
  BY <1>1 DEF TraceInv, PlaceOfRun, Depth, CutRun
<1>5. PointsInv'
  BY <1>1 DEF TraceInv, PointsInv
<1> QED
  BY <1>3, <1>4, <1>5 DEF TraceInv

LEMMA TickKeeps == ASSUME TraceInv, Tick PROVE TraceInv'
<1>1. /\ Tree(spans, stack, now) /\ now \in Nat /\ now + 1 <= MaxTime /\ now' = now + 1
      /\ UNCHANGED <<spans, stack, cuts, points>>
  BY StackKinds, TraceAssumption DEF TraceInv, TreeInv, Tick
<1>2. TreeInv'
  BY <1>1, TreeLater DEF TraceInv, TreeInv
<1>3. PlaceOfRun'
  BY <1>1 DEF TraceInv, PlaceOfRun, Tick
<1>4. PointsInv'
  BY <1>1, <1>2, SameGrows, NoPoints DEF TraceInv
<1> QED
  BY <1>2, <1>3, <1>4 DEF TraceInv

\* The cost of the agent whose span was closed last: its attempt is open, and
\* what is older than that attempt and not above it was closed before it began.
LEMMA CostIsOK ==
  ASSUME TraceInv, tracing = "record"
  PROVE  CostOK(spans, Len(spans), now)
<1> DEFINE n == Len(spans)
           p == stack[3]
<1>1. /\ n \in Nat /\ now \in Nat /\ now < Never /\ Len(stack) = 3
      /\ \A a \in 1..3 : stack[a] \in 1..n /\ stack[a] # 0 /\ Around(spans, stack[a], now)
  BY StackKinds DEF Depth
<1>2. /\ p + 1 = n /\ spans[n].parent = p /\ spans[n].close # Never
      /\ spans[n].open < spans[n].close
  BY DEF TraceInv, PlaceOfRun
<1>3. p \in 1..n /\ n \in 1..n /\ 1 \in 1..3 /\ 2 \in 1..3 /\ 3 \in 1..3
  BY <1>1
<1>4. spans[p].parent = stack[2] /\ spans[stack[2]].parent = stack[1] /\ spans[p].close = Never
  BY <1>1, <1>3 DEF TraceInv, TreeInv, Tree, StackIsPath
<1>5. stack[1] < p /\ spans[stack[1]].open <= spans[p].open
  BY <1>1, <1>3 DEF TraceInv, TreeInv, Tree, StackIsPath, LinesInOrder
<1>6. spans[p].open <= spans[n].open /\ spans[n].close <= now
  BY <1>1, <1>2, <1>3 DEF TraceInv, TreeInv, Tree, LinesInOrder, TreeKinds
<1>7. \A i \in 1..n : spans[i].open \in Nat /\ spans[i].close \in Nat
  BY TreeFacts DEF TraceInv, TreeInv
<1>8. Above(spans, n) = {n, p, stack[2], stack[1]}
  BY <1>2, <1>4 DEF Above
<1>9. \A j : On(stack, j) => j \in {p, stack[2], stack[1]}
  BY <1>1 DEF On
<1>10. \A j \in 1..n : ~On(stack, j) =>
          /\ spans[j].close = Never => spans[j].open < spans[stack[1]].open
          /\ spans[j].close # Never /\ j < p => spans[j].close <= spans[p].open
  BY <1>1, <1>3 DEF TraceInv, TreeInv, Tree, OthersAreOlder
<1> HIDE DEF n, p
<1>11. ASSUME NEW j \in 1..n
       PROVE  \/ j \in Above(spans, n)
              \/ spans[j].open < spans[p].open
              \/ spans[j].close < now
  <2>1. CASE j = n \/ On(stack, j)
    BY <1>8, <1>9, <2>1
  <2>2. CASE j # n /\ ~On(stack, j)
    <3>1. j <= p
      BY <1>1, <1>2, <1>3, <2>2
    <3>2. CASE j = p
      BY <1>8, <3>2
    <3>3. CASE j < p /\ spans[j].close = Never
      <4>1. spans[j].open < spans[stack[1]].open
        BY <1>10, <2>2, <3>3
      <4> QED
        BY <1>1, <1>3, <1>5, <1>7, <4>1
    <3>4. CASE j < p /\ spans[j].close # Never
      <4>1. spans[j].close <= spans[p].open
        BY <1>10, <2>2, <3>4
      <4> QED
        BY <1>1, <1>2, <1>3, <1>6, <1>7, <4>1
    <3> QED
      BY <1>1, <1>3, <3>1, <3>2, <3>3, <3>4
  <2> QED
    BY <2>1, <2>2
<1>12. Around(spans, p, now) /\ p # 0 /\ stack[2] # 0 /\ stack[1] # 0
  BY <1>1, <1>3 DEF p
<1> QED
  BY <1>2, <1>3, <1>4, <1>11, <1>12 DEF CostOK, n

LEMMA EmitCostKeeps == ASSUME TraceInv, EmitCost PROVE TraceInv'
<1> DEFINE ev == Point("cost.recorded", 0, Len(spans))
           events == <<ev>>
<1>1. /\ UNCHANGED <<spans, stack, now, cuts>> /\ points' = points \o events
      /\ tracing = "record" /\ tracing' = "judge"
  BY DEF EmitCost, EmitEvents, Goes
<1>2. TreeInv'
  BY <1>1 DEF TraceInv, TreeInv
<1>3. PlaceOfRun'
  BY <1>1 DEF TraceInv, PlaceOfRun, Depth, EmitCost
<1>4. /\ Len(spans) \in Nat /\ now \in Nat /\ Len(stack) = 3 /\ 0 \in Nat
      /\ \A a \in 1..3 : stack[a] \in 1..Len(spans) /\ Around(spans, stack[a], now)
  BY <1>1, StackKinds DEF Depth
<1>5. /\ ev \in PointKind /\ ev.t = now /\ ev.parent = 0 /\ ev.span = Len(spans)
      /\ ev.name = "cost.recorded"
  BY <1>4, APoint DEF EventNames
<1>6. CostOK(spans, Len(spans), now) /\ \E i \in 1..Len(spans) : Around(spans, i, now)
  <2>1. stack[1] \in 1..Len(spans) /\ Around(spans, stack[1], now)
    BY <1>4
  <2> QED
    BY <1>1, <2>1, CostIsOK
<1> HIDE DEF ev
<1>7. PointOK(spans', ev, now')
  BY <1>1, <1>4, <1>5, <1>6 DEF PointOK
<1>8. events \in Seq(PointKind) /\ \A j \in 1..Len(events) : PointOK(spans', events[j], now')
  BY <1>5, <1>7
<1>9. Grown(spans, spans', now) /\ now <= now'
  BY <1>1, <1>4, SameGrows DEF TraceInv
<1> HIDE DEF events
<1>10. PointsInv'
  BY <1>1, <1>2, <1>8, <1>9, PointsStay
<1> QED
  BY <1>2, <1>3, <1>10 DEF TraceInv

LEMMA TraceInvInit == TraceInit => TraceInv
<1> SUFFICES ASSUME TraceInit PROVE TraceInv
  OBVIOUS
<1>1. spans = <<>> /\ stack = <<>> /\ points = <<>> /\ now = 0
  BY DEF TraceInit
<1>2. 1..Len(<<>>) = {} /\ Len(<<>>) = 0
  OBVIOUS
<1>3. TreeInv
  BY <1>1, <1>2, TraceAssumption
     DEF TreeInv, Tree, TreeKinds, LinesInOrder, StackIsPath, ClosedIsDone, OthersAreOlder, NoneLeft
<1>4. PlaceOfRun
  BY <1>1, <1>2, TraceAssumption DEF PlaceOfRun, Depth, TraceInit
<1>5. PointsInv
  BY <1>1, <1>2 DEF PointsInv
<1> QED
  BY <1>3, <1>4, <1>5 DEF TraceInv

LEMMA TraceInvCorrect == TraceSpec => []TraceInv
<1>1. ASSUME TraceInv, [TraceNext]_traceVars PROVE TraceInv'
  <2>1. CASE UNCHANGED traceVars
    BY <1>1, <2>1 DEF traceVars, TraceInv, TreeInv, PlaceOfRun, PointsInv
  <2>2. CASE TraceNext
    BY <1>1, <2>2, BeginRunKeeps, BeginPhaseKeeps, BeginAttemptKeeps, SpawnAgentKeeps,
       AgentDoneKeeps, EmitCostKeeps, BeginVerifierKeeps, EndVerifierKeeps,
       AttemptFailsKeeps, AttemptPassesKeeps, PhasePassesKeeps, HaltRunKeeps,
       FinishRunKeeps, CutRunKeeps, TickKeeps DEF TraceNext
  <2> QED
    BY <1>1, <2>1, <2>2
<1> QED
  BY <1>1, TraceInvInit, PTL DEF TraceSpec

-----------------------------------------------------------------------------
(***************************************************************************)
(* What `minus trace' draws.                                               *)
(***************************************************************************)

\* There is a nearest open span whenever any is around the time.
LEMMA NearestIsLatest ==
  ASSUME TreeInv, NEW t, NEW i \in 1..Len(spans), Around(spans, i, t)
  PROVE  /\ FindNearestOpenSpan(t) \in 1..Len(spans)
         /\ Around(spans, FindNearestOpenSpan(t), t)
         /\ spans[i].open <= spans[FindNearestOpenSpan(t)].open
<1> DEFINE open == {j \in DOMAIN spans : spans[j].open <= t /\ t <= spans[j].close}
           latest == {j \in open : \A l \in open : spans[l].open <= spans[j].open}
           least == CHOOSE j \in latest : \A l \in latest : j <= l
<1>1. Len(spans) \in Nat /\ DOMAIN spans = 1..Len(spans)
  BY TreeFacts DEF TreeInv
<1>2. open \subseteq 1..Len(spans) /\ i \in open
  BY <1>1 DEF Around
<1>3. PICK m \in open : \A j \in open : j <= m
  BY <1>1, <1>2, HasGreatest
<1>4. m \in latest
  BY <1>2, <1>3 DEF TreeInv, Tree, LinesInOrder
<1>5. latest \subseteq Nat /\ latest # {}
  BY <1>2, <1>4
<1>6. \E j \in latest : \A l \in latest : j <= l
  BY <1>5, HasLeast
<1>7. least \in latest
  BY <1>6
<1>8. FindNearestOpenSpan(t) = least
  BY <1>2 DEF FindNearestOpenSpan
<1> HIDE DEF least
<1> QED
  BY <1>1, <1>2, <1>7, <1>8 DEF Around

(***************************************************************************)
(* The types, for any number of phases, attempts and runs.                 *)
(***************************************************************************)
THEOREM TraceTypeCorrect == TraceSpec => []TraceTypeOK
<1>1. ASSUME TraceInv PROVE TraceTypeOK
  <2>1. DOMAIN spans = 1..Len(spans) /\ Len(spans) \in Nat /\ now \in 0..MaxTime
    BY <1>1, TreeFacts DEF TraceInv, TreeInv, Tree, TreeKinds
  <2>2. ASSUME NEW i \in 1..Len(spans)
        PROVE  /\ spans[i].parent \in 0..(i - 1) /\ spans[i].open \in 0..now
               /\ spans[i].close \in spans[i].open..now \cup {Never}
    <3>1. /\ spans[i].parent \in Nat /\ spans[i].open \in Nat /\ spans[i].close \in Nat
          /\ spans[i].parent < i /\ spans[i].open <= now
      BY <1>1, TreeFacts DEF TraceInv, TreeInv
    <3>2. \/ spans[i].close = Never
          \/ spans[i].open <= spans[i].close /\ spans[i].close <= now
      BY <1>1 DEF TraceInv, TreeInv, Tree, TreeKinds
    <3> QED
      BY <2>1, <3>1, <3>2
  <2>3. ASSUME NEW j \in DOMAIN points PROVE points[j].parent \in 0..Len(spans)
    <3>1. points \in Seq(PointKind) /\ j \in 1..Len(points)
      BY <1>1 DEF TraceInv, PointsInv
    <3>2. points[j] \in PointKind /\ PointOK(spans, points[j], now)
      BY <1>1, <3>1 DEF TraceInv, PointsInv
    <3> QED
      BY <2>1, <3>2 DEF PointKind, PointOK, Around
  <2> QED
    BY <1>1, <2>1, <2>2, <2>3 DEF TraceTypeOK, TraceInv, PlaceOfRun
<1> QED
  BY <1>1, TraceInvCorrect, PTL

(***************************************************************************)
(* Whenever it is read and however many processes have died: the tree's    *)
(* roots are the runs, what a closed span took includes what those under   *)
(* it took, and without a run that was cut nothing stays open behind.      *)
(***************************************************************************)
THEOREM SpansNestedAlways == TraceSpec => []SpansNested
<1>1. ASSUME TraceInv PROVE SpansNested
  <2>1. DOMAIN spans = 1..Len(spans) /\ Len(spans) \in Nat
    BY <1>1, TreeFacts DEF TraceInv, TreeInv
  <2>2. \A i \in 1..Len(spans) : i \in Roots <=> spans[i].name = "pipeline"
    BY <1>1, <2>1 DEF TraceInv, TreeInv, Tree, TreeKinds, Roots
  <2>3. ASSUME NEW i \in 1..Len(spans), i \notin Roots
        PROVE  LET up == spans[spans[i].parent]
               IN  /\ up.open <= spans[i].open
                   /\ up.close # Never => (Closed(i) /\ spans[i].close <= up.close)
    <3>1. spans[i].parent # 0 /\ spans[i].parent \in 1..Len(spans) /\ spans[i].parent <= i
      BY <1>1, <2>1, <2>3, TreeFacts DEF TraceInv, TreeInv, Roots
    <3> QED
      BY <1>1, <3>1 DEF TraceInv, TreeInv, Tree, LinesInOrder, ClosedIsDone, Closed
  <2>4. cuts = 0 => \A i \in 1..Len(spans) : Closed(i) \/ Contains(stack, i)
    BY <1>1 DEF TraceInv, TreeInv, NoneLeft, On, Contains, Closed
  <2> QED
    BY <2>1, <2>2, <2>3, <2>4 DEF SpansNested
<1> QED
  BY <1>1, TraceInvCorrect, PTL

(***************************************************************************)
(* Every event is drawn under a span that was open when it was written,    *)
(* those that name their span and those that are put under the nearest.    *)
(***************************************************************************)
THEOREM EventsInsideAlways == TraceSpec => []EventsInsideSpans
<1>1. ASSUME TraceInv PROVE EventsInsideSpans
  <2> SUFFICES ASSUME NEW j \in DOMAIN points
               PROVE  LET at == DrawnUnder(points[j])
                      IN  /\ at # 0 /\ spans[at].open <= points[j].t
                          /\ points[j].t <= spans[at].close
    BY DEF EventsInsideSpans
  <2>1. PointOK(spans, points[j], now) /\ TreeInv
    BY <1>1 DEF TraceInv, PointsInv
  <2>2. CASE points[j].parent # 0
    BY <2>1, <2>2 DEF DrawnUnder, PointOK, Around
  <2>3. CASE points[j].parent = 0
    <3>1. PICK i \in 1..Len(spans) : Around(spans, i, points[j].t)
      BY <2>1, <2>3 DEF PointOK
    <3>2. /\ FindNearestOpenSpan(points[j].t) \in 1..Len(spans)
          /\ Around(spans, FindNearestOpenSpan(points[j].t), points[j].t)
      BY <2>1, <3>1, NearestIsLatest
    <3>3. 0 \notin 1..Len(spans)
      BY <2>1, TreeFacts DEF TreeInv
    <3> QED
      BY <2>3, <3>2, <3>3 DEF DrawnUnder, Around
  <2> QED
    BY <2>2, <2>3
<1> QED
  BY <1>1, TraceInvCorrect, PTL

\* The spans above one, as a function of its number: it exists up to every n, as a
\* span's parent has an earlier line.
Up(s) == CHOOSE up : up = [k \in DOMAIN s |->
           {k} \cup IF s[k].parent = 0 THEN {} ELSE up[s[k].parent]]

LEMMA UpIsDefined ==
  ASSUME NEW s, NEW n \in Nat, DOMAIN s = 1..n,
         \A k \in 1..n : s[k].parent \in Nat /\ s[k].parent < k
  PROVE  \A k \in 1..n :
           Up(s)[k] = {k} \cup IF s[k].parent = 0 THEN {} ELSE Up(s)[s[k].parent]
<1> DEFINE Rule(g, m) == [k \in 1..m |->
             {k} \cup IF s[k].parent = 0 THEN {} ELSE g[s[k].parent]]
           Defined == {m \in Nat : m <= n => \E g : g = Rule(g, m)}
<1>1. 0 \in Defined
  <2>1. <<>> = Rule(<<>>, 0)
    OBVIOUS
  <2> QED
    BY <2>1
<1>2. ASSUME NEW m \in Nat, m \in Defined PROVE m + 1 \in Defined
  <2> SUFFICES ASSUME m + 1 <= n PROVE \E g : g = Rule(g, m + 1)
    OBVIOUS
  <2>1. PICK g : g = Rule(g, m)
    BY <1>2
  <2> DEFINE h == Rule(g, m + 1)
  <2>2. ASSUME NEW k \in 1..(m + 1), s[k].parent # 0
        PROVE  h[s[k].parent] = g[s[k].parent]
    <3>1. s[k].parent \in 1..m /\ s[k].parent \in 1..(m + 1)
      BY <2>2
    <3>2. g[s[k].parent] = Rule(g, m)[s[k].parent]
      BY <2>1
    <3> QED
      BY <3>1, <3>2
  <2>3. Rule(g, m + 1) = Rule(h, m + 1)
    <3> HIDE DEF h
    <3> QED
      BY <2>2
  <2>4. h = Rule(h, m + 1)
    BY <2>3
  <2> QED
    BY <2>4
<1> HIDE DEF Defined
<1>3. n \in Defined
  BY <1>1, <1>2, NatSetInduction
<1>4. \E g : g = Rule(g, n)
  BY <1>3 DEF Defined
<1>5. Up(s) = Rule(Up(s), n)
  BY <1>4 DEF Up
<1> HIDE DEF Rule
<1>6. ASSUME NEW k \in 1..n
      PROVE  Up(s)[k] = {k} \cup IF s[k].parent = 0 THEN {} ELSE Up(s)[s[k].parent]
  <2>1. Rule(Up(s), n)[k] = {k} \cup IF s[k].parent = 0 THEN {} ELSE Up(s)[s[k].parent]
    BY DEF Rule
  <2> QED
    BY <1>5, <2>1
<1> QED
  BY <1>6

(***************************************************************************)
(* What an agent cost is drawn under its span, or one that span is in, or  *)
(* one opened in the same millisecond: spans that dead processes have left *)
(* open, and those of attempts that were over, are never nearer.           *)
(***************************************************************************)
THEOREM CostNearAlways == TraceSpec => []CostNearItsAgent
<1>1. ASSUME TraceInv PROVE CostNearItsAgent
  <2> SUFFICES ASSUME NEW j \in DOMAIN points, points[j].name = "cost.recorded"
               PROVE  LET at == DrawnUnder(points[j])
                      IN  \/ at \in Ancestry(points[j].span)
                          \/ at > points[j].span /\ spans[at].open = points[j].t
    BY DEF CostNearItsAgent
  <2> DEFINE a == points[j].span
             t == points[j].t
             p == spans[a].parent
             ph == spans[p].parent
             r == spans[ph].parent
             at == FindNearestOpenSpan(t)
             n == Len(spans)
  <2>1. TreeInv /\ points[j].parent = 0 /\ CostOK(spans, a, t) /\ points[j] \in PointKind
    BY <1>1 DEF TraceInv, PointsInv, PointOK
  <2>2. /\ n \in Nat /\ DOMAIN spans = 1..n
        /\ \A i \in 1..n : /\ spans[i].parent \in Nat /\ spans[i].open \in Nat
                           /\ spans[i].close \in Nat /\ spans[i].parent < i
                           /\ spans[i].parent # 0 => spans[i].parent \in 1..n
    BY <2>1, TreeFacts DEF TreeInv
  <2>3. a \in 1..n /\ p # 0 /\ ph # 0 /\ r # 0 /\ Around(spans, p, t)
    BY <2>1 DEF CostOK
  <2>4. p \in 1..n /\ ph \in 1..n /\ r \in 1..n
    BY <2>2, <2>3
  <2>5. Above(spans, a) = {a, p, ph, r}
    BY DEF Above
  <2>6. {a, p, ph, r} \subseteq Ancestry(a)
    <3>1. Ancestry(a) = Up(spans)[a]
      BY DEF Ancestry, Up
    <3>2. \A k \in 1..n :
            Up(spans)[k] = {k} \cup IF spans[k].parent = 0 THEN {} ELSE Up(spans)[spans[k].parent]
      BY <2>2, UpIsDefined
    <3>3. /\ Up(spans)[a] = {a} \cup Up(spans)[p]
          /\ Up(spans)[p] = {p} \cup Up(spans)[ph]
          /\ Up(spans)[ph] = {ph} \cup Up(spans)[r]
          /\ r \in Up(spans)[r]
      BY <2>3, <2>4, <3>2
    <3> QED
      BY <3>1, <3>3
  <2>7. at \in 1..n /\ Around(spans, at, t) /\ spans[p].open <= spans[at].open
    BY <2>1, <2>3, <2>4, NearestIsLatest
  <2>8. \/ at > a /\ spans[at].open >= t
        \/ at \in Above(spans, a)
        \/ spans[at].open < spans[p].open
        \/ spans[at].close < t
    BY <2>1, <2>7 DEF CostOK
  <2>9. spans[at].open <= t /\ t <= spans[at].close /\ t \in Nat
    BY <2>1, <2>7 DEF Around, PointKind
  <2>10. DrawnUnder(points[j]) = at
    BY <2>1 DEF DrawnUnder
  <2>11. spans[at].open \in Nat /\ spans[at].close \in Nat /\ spans[p].open \in Nat
    BY <2>2, <2>4, <2>7
  <2> HIDE DEF at, a, t, p, ph, r
  <2>12. at \in Ancestry(a) \/ (at > a /\ spans[at].open = t)
    BY <2>5, <2>6, <2>7, <2>8, <2>9, <2>11
  <2> QED
    BY <2>10, <2>12 DEF a, t
<1> QED
  BY <1>1, TraceInvCorrect, PTL
================================================================================
