------------------------------ MODULE Parts_proofs ------------------------------
(***************************************************************************)
(* Proofs about MemoryPruner, for any lessons, any number of pruners and   *)
(* any threshold; about SkillInstall, for any skills, versions and places; *)
(* and about the components side by side, as MCParts runs them.            *)
(***************************************************************************)
EXTENDS MCParts, AgentFleet_proofs, RequestChecks_proofs, Invocation_proofs

-----------------------------------------------------------------------------
(***************************************************************************)
(* Type correctness of the pruners.  PruneTypeOK is inductive.             *)
(***************************************************************************)
LEMMA PruneTypeInit == PruneInit => PruneTypeOK
BY DEF PruneInit, PruneTypeOK

LEMMA PruneTypeStep == PruneTypeOK /\ [PruneNext]_pruneVars => PruneTypeOK'
<1> SUFFICES ASSUME PruneTypeOK, [PruneNext]_pruneVars PROVE PruneTypeOK'
  OBVIOUS
<1> USE DEF PruneTypeOK, PruneGoes
<1>1. ASSUME NEW l \in Lessons, Learn(l) PROVE PruneTypeOK'
  BY <1>1 DEF Learn
<1>2. ASSUME NEW p \in Pruners, ReadLog(p) PROVE PruneTypeOK'
  BY <1>2 DEF ReadLog
<1>3. ASSUME NEW p \in Pruners, Archive(p) PROVE PruneTypeOK'
  BY <1>3 DEF Archive
<1>4. ASSUME NEW p \in Pruners, Summarize(p) PROVE PruneTypeOK'
  BY <1>4 DEF Summarize
<1>5. ASSUME NEW p \in Pruners, TruncateLog(p) PROVE PruneTypeOK'
  BY <1>5 DEF TruncateLog
<1>6. ASSUME NEW p \in Pruners, FillLog(p) PROVE PruneTypeOK'
  BY <1>6 DEF FillLog
<1>7. ASSUME NEW p \in Pruners, PrunerDies(p) PROVE PruneTypeOK'
  BY <1>7 DEF PrunerDies
<1>8. CASE UNCHANGED pruneVars
  BY <1>8 DEF pruneVars
<1> QED
  BY <1>1, <1>2, <1>3, <1>4, <1>5, <1>6, <1>7, <1>8 DEF PruneNext

\* What pruners read and write are lessons.
THEOREM PruneTypeCorrect == PruneSpec => []PruneTypeOK
BY PruneTypeInit, PruneTypeStep, PTL DEF PruneSpec

-----------------------------------------------------------------------------
(***************************************************************************)
(* Nothing is lost.  The file may be emptied only because all in it has    *)
(* been read by the one who empties it and archived, has been archived by  *)
(* another, or is late; and what is put in its place has been archived.    *)
(***************************************************************************)
Overwrites(p) == pruning[p] \in {"truncate", "fill"}

ReadOrArchived ==
  \A p \in Pruners : pruning[p] # "idle" => evolution \subseteq content[p] \cup archive \cup late

ArchivedFirst ==
  \A p \in Pruners :
    /\ pruning[p] = "summarise" \/ Overwrites(p) => content[p] \subseteq archive
    /\ Overwrites(p) => summary[p] \subseteq content[p]

LossInv == ReadOrArchived /\ ArchivedFirst /\ NothingLost

\* Who is about to overwrite the file loses nothing by it.
LEMMA OverwriteIsSafe ==
  ASSUME LossInv, NEW p \in Pruners, Overwrites(p)
  PROVE  /\ evolution \subseteq archive \cup late
         /\ summary[p] \subseteq archive
BY DEF LossInv, ReadOrArchived, ArchivedFirst, Overwrites

LEMMA LossStep == PruneTypeOK /\ LossInv /\ [PruneNext]_pruneVars => LossInv'
<1> SUFFICES ASSUME PruneTypeOK, LossInv, [PruneNext]_pruneVars PROVE LossInv'
  OBVIOUS
<1> USE DEF PruneTypeOK, LossInv, ReadOrArchived, ArchivedFirst, NothingLost,
            Overwrites, PruneGoes
<1>1. ASSUME NEW l \in Lessons, Learn(l) PROVE LossInv'
  <2>1. \/ \A p \in Pruners : pruning[p] = "idle" /\ late' = late
        \/ late' = late \cup {l}
    BY <1>1 DEF Learn
  <2> QED
    BY <1>1, <2>1 DEF Learn
<1>2. ASSUME NEW p \in Pruners, ReadLog(p) PROVE LossInv'
  BY <1>2 DEF ReadLog
<1>3. ASSUME NEW p \in Pruners, Archive(p) PROVE LossInv'
  BY <1>3 DEF Archive
<1>4. ASSUME NEW p \in Pruners, Summarize(p) PROVE LossInv'
  BY <1>4 DEF Summarize
<1>5. ASSUME NEW p \in Pruners, TruncateLog(p) PROVE LossInv'
  BY <1>5, OverwriteIsSafe DEF TruncateLog
<1>6. ASSUME NEW p \in Pruners, FillLog(p) PROVE LossInv'
  <2>1. evolution \subseteq archive \cup late /\ evolution' \subseteq evolution \cup archive
    BY <1>6, OverwriteIsSafe DEF FillLog
  <2>2. /\ pruning'[p] = "idle" /\ UNCHANGED <<archive, learnt, late>>
        /\ \A q \in Pruners \ {p} :
             /\ pruning'[q] = pruning[q] /\ content'[q] = content[q]
             /\ summary'[q] = summary[q]
    BY <1>6 DEF FillLog
  <2>3. ReadOrArchived' /\ NothingLost'
    BY <2>1, <2>2
  <2>4. ArchivedFirst'
    BY <2>2
  <2> QED
    BY <2>3, <2>4
<1>7. ASSUME NEW p \in Pruners, PrunerDies(p) PROVE LossInv'
  BY <1>7 DEF PrunerDies
<1>8. CASE UNCHANGED pruneVars
  BY <1>8 DEF pruneVars
<1> QED
  BY <1>1, <1>2, <1>3, <1>4, <1>5, <1>6, <1>7, <1>8 DEF PruneNext

\* A lesson that was written down while nobody was pruning stays in the log or
\* in its archive, however pruners overwrite each other's summaries or die.
THEOREM NothingEverLost == PruneSpec => []NothingLost
<1>1. PruneInit => LossInv
  BY DEF PruneInit, LossInv, ReadOrArchived, ArchivedFirst, NothingLost, Overwrites
<1>2. LossInv => NothingLost
  BY DEF LossInv
<1> QED
  BY <1>1, <1>2, PruneTypeInit, PruneTypeStep, LossStep, PTL DEF PruneSpec
-----------------------------------------------------------------------------
(***************************************************************************)
(* Type correctness of an install.  What is in a home was put there from   *)
(* the package, or is a link to a place it has been at; who is at a skill  *)
(* has come to one.                                                        *)
(***************************************************************************)
Listings == [Skills -> 1..MaxVersion] \cup {Nothing}
Contents(s) == IF s = Index THEN Listings ELSE (1..MaxVersion) \cup {Nothing}
Copiers == {"install", "sync"}
Copying == {"link", "look", "make", "fill"}
Steps == Resting \cup Copying \cup {"claude", "gemini", "scaffold", "memory", "sessions",
                                    "seed", "graph", "registry", "track"}

EntryOK(s, e) ==
  e = Nothing \/ e \in [link : 1..MaxPlace] \/ e \in [copy : Contents(s)]

PackageTyped ==
  /\ place \in 1..MaxPlace /\ version \in [Skills -> 1..MaxVersion]
  /\ {listing, listed, tracked} \subseteq Listings
HomesTyped ==
  /\ commands = [s \in Listed |-> commands[s]]
  /\ skillsDir = [s \in Listed |-> skillsDir[s]]
  /\ \A s \in Listed : commands[s] \in Contents(s) /\ EntryOK(s, skillsDir[s])
ProjectTyped ==
  memDir \in BOOLEAN /\ sessions \in BOOLEAN /\ notes \in {"absent", "fresh", "lessons"}
ControlTyped ==
  /\ at \in [Copiers -> Steps] /\ at["sync"] \in {"idle"} \cup Copying
  /\ left \in [Copiers -> SUBSET Listed]
  /\ \A c \in Copiers : at[c] \in Copying => left[c] # {}
ToldTyped ==
  /\ failed \subseteq Listed /\ spoilt \subseteq Listed
  /\ mishaps \subseteq {"race", "early", "call", "registry", "versions"}
  /\ rounds \in 0..2 /\ breaks \in 0..MaxBreaks

InstallTypeInv == PackageTyped /\ HomesTyped /\ ProjectTyped /\ ControlTyped /\ ToldTyped

LEMMA InstallTypeInit == InstallInit => InstallTypeInv
<1> SUFFICES ASSUME InstallInit PROVE InstallTypeInv
  OBVIOUS
<1> USE InstallAssumption DEF InstallInit
<1>1. version \in [Skills -> 1..MaxVersion]
  OBVIOUS
<1>2. PackageTyped
  BY <1>1 DEF PackageTyped, Listings
<1>3. HomesTyped
  <2>1. \A s \in Listed : Nothing \in Contents(s) /\ EntryOK(s, Nothing)
    BY DEF EntryOK, Contents, Listings
  <2>2. \A s \in Listed : commands[s] = Nothing /\ skillsDir[s] = Nothing
    OBVIOUS
  <2>3. /\ commands = [s \in Listed |-> commands[s]]
        /\ skillsDir = [s \in Listed |-> skillsDir[s]]
    OBVIOUS
  <2> QED
    BY <2>1, <2>2, <2>3 DEF HomesTyped
<1>4. ProjectTyped /\ ToldTyped
  <2>1. 0 \in 0..2 /\ 0 \in 0..MaxBreaks
    OBVIOUS
  <2>2. ProjectTyped
    BY Zenon DEF ProjectTyped
  <2> QED
    BY <2>1, <2>2, Zenon DEF ToldTyped
<1>5. ControlTyped
  BY DEF ControlTyped, Copiers, Copying, Steps, Resting
<1> QED
  BY <1>2, <1>3, <1>4, <1>5 DEF InstallTypeInv

LEMMA ContentKind ==
  ASSUME InstallTypeInv, NEW s \in Listed PROVE Content(s) \in Contents(s)
BY DEF InstallTypeInv, PackageTyped, Content, Contents, Listings, Listed

\* What may be put in the place of a skill.
LEMMA SkillEntryKind ==
  ASSUME InstallTypeInv, NEW s \in Listed
  PROVE  /\ EntryOK(s, Nothing) /\ EntryOK(s, [link |-> place])
         /\ EntryOK(s, [copy |-> Nothing]) /\ EntryOK(s, [copy |-> Content(s)])
<1>1. place \in 1..MaxPlace /\ Nothing \in Contents(s)
  BY DEF InstallTypeInv, PackageTyped, Contents, Listings
<1> QED
  BY <1>1, ContentKind DEF EntryOK

LEMMA CurrentListed ==
  ASSUME ControlTyped, NEW c \in Copiers, left[c] # {}
  PROVE  Current(c) \in left[c] /\ Current(c) \in Listed
BY DEF ControlTyped, Current

\* Neither home is touched, or one skill of one of them gets what may be there.
LEMMA HomesKept ==
  ASSUME InstallTypeInv, NEW s \in Listed,
         \/ UNCHANGED homes
         \/ /\ UNCHANGED skillsDir
            /\ \E x \in {Content(s), Nothing} : commands' = [commands EXCEPT ![s] = x]
         \/ /\ UNCHANGED commands
            /\ \E e : EntryOK(s, e) /\ skillsDir' = [skillsDir EXCEPT ![s] = e]
  PROVE  HomesTyped'
<1> USE DEF InstallTypeInv, HomesTyped
<1>1. CASE UNCHANGED homes
  BY <1>1 DEF homes, EntryOK
<1>2. CASE /\ UNCHANGED skillsDir
           /\ \E x \in {Content(s), Nothing} : commands' = [commands EXCEPT ![s] = x]
  <2>1. Nothing \in Contents(s)
    BY DEF Contents, Listings
  <2> QED
    BY <1>2, <2>1, ContentKind DEF EntryOK
<1>3. CASE /\ UNCHANGED commands
           /\ \E e : EntryOK(s, e) /\ skillsDir' = [skillsDir EXCEPT ![s] = e]
  <2>1. PICK e : EntryOK(s, e) /\ skillsDir' = [skillsDir EXCEPT ![s] = e]
    BY <1>3
  <2>2. \A t \in Listed : skillsDir'[t] = IF t = s THEN e ELSE skillsDir[t]
    BY <2>1
  <2>3. \A t \in Listed : EntryOK(t, skillsDir'[t])
    BY <2>1, <2>2
  <2>4. skillsDir' = [t \in Listed |-> skillsDir'[t]]
    BY <2>1
  <2>5. \A t \in Listed : commands'[t] \in Contents(t)
    BY <1>3
  <2>6. commands' = [t \in Listed |-> commands'[t]]
    BY <1>3
  <2> QED
    BY <2>3, <2>4, <2>5, <2>6 DEF EntryOK
<1> QED
  BY <1>1, <1>2, <1>3

LEMMA HomesRest == ASSUME InstallTypeInv, UNCHANGED homes PROVE HomesTyped'
BY HomesKept DEF Listed

\* The install, or skill_sync, comes to an end.
LEMMA RestsAgain ==
  ASSUME ControlTyped, NEW c \in Copiers, Goto(c, "idle"), left' = [left EXCEPT ![c] = {}]
  PROVE  ControlTyped'
BY DEF ControlTyped, Goto, Copiers, Steps, Resting, Copying

\* Who goes to another step, with the skills that are left.
LEMMA GoesOn ==
  ASSUME ControlTyped, NEW c \in Copiers, NEW step, Goto(c, step),
         step \in Steps, c = "sync" => step \in {"idle"} \cup Copying,
         NEW rest \in SUBSET Listed, left' = [left EXCEPT ![c] = rest],
         step \in Copying => rest # {}
  PROVE  ControlTyped'
BY DEF ControlTyped, Goto, Copiers

LEMMA GoesOnThere ==
  ASSUME ControlTyped, NEW c \in Copiers, NEW step, Goto(c, step), UNCHANGED left,
         step \in Steps, c = "sync" => step \in {"idle"} \cup Copying,
         step \in Copying => left[c] # {}
  PROVE  ControlTyped'
BY DEF ControlTyped, Goto, Copiers

LEMMA ThrowTyped ==
  ASSUME ControlTyped, NEW c \in Copiers, Throw(c) PROVE ControlTyped'
<1>1. CASE c = "install"
  BY <1>1, GoesOnThere DEF Throw, Steps, Resting, Copying
<1>2. CASE c = "sync"
  BY <1>2, RestsAgain DEF Throw
<1> QED
  BY <1>1, <1>2 DEF Copiers

LEMMA NextSkillTyped ==
  ASSUME ControlTyped, NEW c \in Copiers, NextSkill(c) PROVE ControlTyped'
<1> DEFINE rest == left[c] \ {Current(c)}
           step == IF c = "install" THEN "gemini" ELSE IF rest = {} THEN "idle" ELSE "link"
<1>1. rest \in SUBSET Listed /\ left' = [left EXCEPT ![c] = rest] /\ Goto(c, step)
  BY DEF ControlTyped, NextSkill
<1>2. /\ step \in Steps /\ (c = "sync" => step \in {"idle"} \cup Copying)
      /\ (step \in Copying => rest # {})
  BY DEF Steps, Resting, Copying, Copiers
<1> HIDE DEF rest, step
<1> QED
  BY <1>1, <1>2, GoesOn

\* What a call that fails leaves is of its kind, too.
LEMMA HalfWrittenTyped ==
  ASSUME InstallTypeInv, NEW c \in Copiers, HalfWritten(c)
  PROVE  /\ HomesTyped' /\ breaks' \in 0..MaxBreaks
         /\ listing' \in Listings /\ tracked' \in Listings
<1>1. breaks' \in 0..MaxBreaks
  BY InstallAssumption DEF HalfWritten, Break, InstallTypeInv, ToldTyped
<1>2. listing' \in Listings /\ tracked' \in Listings
  BY DEF HalfWritten, Listings, InstallTypeInv, PackageTyped
<1>3. CASE UNCHANGED homes
  BY <1>1, <1>2, <1>3, HomesRest
<1>4. CASE ~UNCHANGED homes
  <2>1. left[c] # {}
    BY <1>4 DEF HalfWritten, homes
  <2>2. Current(c) \in Listed
    BY <2>1, CurrentListed DEF InstallTypeInv
  <2>3. \/ UNCHANGED skillsDir /\ commands' = [commands EXCEPT ![Current(c)] = Nothing]
        \/ UNCHANGED commands
           /\ skillsDir' = [skillsDir EXCEPT ![Current(c)] = [copy |-> Nothing]]
    BY <1>4 DEF HalfWritten, homes
  <2> QED
    BY <1>1, <1>2, <2>2, <2>3, HomesKept, SkillEntryKind
<1> QED
  BY <1>1, <1>2, <1>3, <1>4

LEMMA InstallTypeStep == InstallTypeInv /\ [InstallNext]_installVars => InstallTypeInv'
<1> SUFFICES ASSUME InstallTypeInv, [InstallNext]_installVars PROVE InstallTypeInv'
  OBVIOUS
<1>a. PackageTyped /\ HomesTyped /\ ProjectTyped /\ ControlTyped /\ ToldTyped
  BY DEF InstallTypeInv
<1>b. "install" \in Copiers /\ "sync" \in Copiers
  BY DEF Copiers
<1>c. at["install"] \in Steps /\ left["install"] \subseteq Listed /\ left["sync"] \subseteq Listed
  BY <1>a, <1>b DEF ControlTyped
<1> USE InstallAssumption DEF Resting, Copying, Steps, package, project, told
<1>1. ASSUME NEW s \in Skills, NEW to \in place..MaxPlace, NewPackage(s, to)
      PROVE  InstallTypeInv'
  <2>1. HomesTyped'
    BY <1>1, HomesRest DEF NewPackage
  <2>2. place' \in 1..MaxPlace
    BY <1>1, <1>a DEF NewPackage, PackageTyped
  <2>3. version' \in [Skills -> 1..MaxVersion]
    BY <1>1, <1>a DEF NewPackage, PackageTyped
  <2>4. ControlTyped'
    BY <1>1, <1>a, <1>b, RestsAgain DEF NewPackage
  <2>5. PackageTyped'
    BY <1>1, <1>a, <2>2, <2>3 DEF NewPackage, PackageTyped, Listings
  <2>6. ProjectTyped' /\ ToldTyped'
    BY <1>1, <1>a DEF NewPackage, ProjectTyped, ToldTyped
  <2> QED
    BY <2>1, <2>4, <2>5, <2>6 DEF InstallTypeInv
<1>2. CASE UseProject
  <2>1. ControlTyped' /\ PackageTyped'
    BY <1>2, <1>a DEF UseProject, ControlTyped, PackageTyped
  <2>2. ProjectTyped' /\ ToldTyped'
    BY <1>2, <1>a DEF UseProject, ProjectTyped, ToldTyped, Overtaken
  <2> QED
    BY <1>2, <2>1, <2>2, HomesRest DEF UseProject, InstallTypeInv
<1>3. CASE StartInstall
  <2>1. ControlTyped'
    BY <1>3, <1>a, <1>b, GoesOn DEF StartInstall
  <2> QED
    BY <1>3, <1>a, <2>1, HomesRest
    DEF StartInstall, InstallTypeInv, PackageTyped, ProjectTyped, ToldTyped
<1>4. CASE Interrupt
  <2>1. ControlTyped'
    BY <1>4, <1>a, <1>b, RestsAgain DEF Interrupt
  <2>2. HomesTyped' /\ breaks' \in 0..MaxBreaks /\ listing' \in Listings /\ tracked' \in Listings
    BY <1>4, <1>b, HalfWrittenTyped DEF Interrupt
  <2>3. PackageTyped' /\ ProjectTyped' /\ ToldTyped'
    BY <1>4, <1>a, <2>2 DEF Interrupt, PackageTyped, ProjectTyped, ToldTyped, Listings
  <2> QED
    BY <2>1, <2>2, <2>3 DEF InstallTypeInv
<1>5. ASSUME NEW c \in Copiers, CallFails(c) PROVE InstallTypeInv'
  <2>1. ControlTyped'
    BY <1>5, <1>a, ThrowTyped DEF CallFails
  <2>2. HomesTyped' /\ breaks' \in 0..MaxBreaks /\ listing' \in Listings /\ tracked' \in Listings
    <3>1. CASE HalfWritten(c)
      BY <3>1, HalfWrittenTyped
    <3>2. CASE Break /\ UNCHANGED <<listing, homes, tracked>>
      BY <3>2, <1>a, HomesRest DEF Break, ToldTyped, PackageTyped
    <3> QED
      BY <1>5, <3>1, <3>2 DEF CallFails
  <2>3. spoilt' \subseteq Listed
    <3>1. CASE at[c] = "fill"
      BY <1>5, <1>a, <3>1, CurrentListed DEF CallFails, ToldTyped, ControlTyped
    <3> QED
      BY <1>5, <1>a, <3>1 DEF CallFails, ToldTyped
  <2>4. PackageTyped' /\ ProjectTyped' /\ ToldTyped'
    BY <1>5, <1>a, <2>2, <2>3 DEF CallFails, PackageTyped, ProjectTyped, ToldTyped
  <2> QED
    BY <2>1, <2>2, <2>4 DEF InstallTypeInv
<1>6. CASE SyncScan
  <2>1. ControlTyped'
    BY <1>6, <1>a, <1>b, GoesOn DEF SyncScan
  <2> QED
    BY <1>6, <1>a, <2>1, HomesRest
    DEF SyncScan, InstallTypeInv, PackageTyped, ProjectTyped, ToldTyped
<1>7. CASE CopyCommand
  <2>1. Current("install") \in Listed
    BY <1>7, <1>a, <1>b, CurrentListed DEF CopyCommand
  <2>2. ControlTyped'
    BY <1>7, <1>a, <1>b, <1>c DEF CopyCommand, ControlTyped, Copiers
  <2>3. HomesTyped' /\ breaks' \in 0..MaxBreaks /\ listing' \in Listings /\ tracked' \in Listings
    <3>1. CASE HalfWritten("install")
      BY <3>1, <1>b, HalfWrittenTyped
    <3>2. CASE ~HalfWritten("install")
      BY <1>7, <1>a, <2>1, <3>2, HomesKept DEF CopyCommand, PackageTyped, ToldTyped
    <3> QED
      BY <3>1, <3>2
  <2>4. PackageTyped' /\ ProjectTyped' /\ ToldTyped'
    BY <1>7, <1>a, <2>1, <2>3 DEF CopyCommand, PackageTyped, ProjectTyped, ToldTyped
  <2> QED
    BY <2>2, <2>3, <2>4 DEF InstallTypeInv
<1>8. CASE LoopEnds
  <2>1. ControlTyped'
    BY <1>8, <1>a, <1>b, GoesOn, GoesOnThere DEF LoopEnds
  <2> QED
    BY <1>8, <1>a, <2>1, HomesRest
    DEF LoopEnds, InstallTypeInv, PackageTyped, ProjectTyped, ToldTyped
<1>9. CASE RemoveOld
  <2>1. Current("install") \in Listed
    BY <1>9, <1>a, <1>b, CurrentListed DEF RemoveOld
  <2>2. HomesTyped'
    BY <1>9, <2>1, HomesKept, SkillEntryKind DEF RemoveOld, homes, WithoutOld
  <2>3. ControlTyped'
    BY <1>9, <1>a, <1>b, GoesOnThere DEF RemoveOld
  <2> QED
    BY <1>9, <1>a, <2>2, <2>3
    DEF RemoveOld, InstallTypeInv, PackageTyped, ProjectTyped, ToldTyped
<1>10. ASSUME NEW c \in Copiers, PutSkill(c) PROVE InstallTypeInv'
  <2>1. at[c] \in Copying /\ left[c] # {} /\ Current(c) \in Listed
    BY <1>10, <1>a, CurrentListed DEF PutSkill, Link, Look, MakeDir, CopyIn, ControlTyped
  <2>2. HomesTyped'
    <3>1. \/ UNCHANGED homes
          \/ UNCHANGED commands /\ \E e \in {[link |-> place], [copy |-> Nothing],
                                             [copy |-> Content(Current(c))]} :
                skillsDir' = [skillsDir EXCEPT ![Current(c)] = e]
      BY <1>10 DEF PutSkill, Link, Look, MakeDir, CopyIn, homes
    <3> QED
      BY <2>1, <3>1, HomesKept, SkillEntryKind
  <2>3. ControlTyped'
    <3>1. CASE NextSkill(c)
      BY <1>a, <3>1, NextSkillTyped
    <3>2. CASE Throw(c)
      BY <1>a, <3>2, ThrowTyped
    <3>3. CASE UNCHANGED left /\ \E step \in Copying : Goto(c, step)
      BY <1>a, <2>1, <3>3, GoesOnThere
    <3> QED
      BY <1>10, <3>1, <3>2, <3>3 DEF PutSkill, Link, Look, MakeDir, CopyIn
  <2>4. PackageTyped' /\ ProjectTyped'
    BY <1>10, <1>a DEF PutSkill, Link, Look, MakeDir, CopyIn, PackageTyped, ProjectTyped
  <2>5. ToldTyped'
    BY <1>10, <1>a DEF PutSkill, Link, Look, MakeDir, CopyIn, ToldTyped, Beside
  <2> QED
    BY <2>2, <2>3, <2>4, <2>5 DEF InstallTypeInv
<1>11. CASE Scaffold \/ BootstrapGraph
  <2>1. ControlTyped'
    BY <1>11, <1>a, <1>b, GoesOnThere DEF Scaffold, BootstrapGraph
  <2> QED
    BY <1>11, <1>a, <2>1, HomesRest
    DEF Scaffold, BootstrapGraph, InstallTypeInv, PackageTyped, ProjectTyped, ToldTyped
<1>12. CASE MakeMemory \/ MakeSessions
  <2>1. ControlTyped'
    BY <1>12, <1>a, <1>b, GoesOnThere, ThrowTyped DEF MakeMemory, MakeSessions
  <2> QED
    BY <1>12, <1>a, <2>1, HomesRest
    DEF MakeMemory, MakeSessions, InstallTypeInv, PackageTyped, ProjectTyped, ToldTyped
<1>13. CASE Seed
  <2>1. ControlTyped'
    BY <1>13, <1>a, <1>b, GoesOnThere DEF Seed
  <2> QED
    BY <1>13, <1>a, <2>1, HomesRest
    DEF Seed, InstallTypeInv, PackageTyped, ProjectTyped, ToldTyped
<1>14. CASE Rebuild \/ Track
  <2>1. ControlTyped'
    BY <1>14, <1>a, <1>b, GoesOnThere DEF Rebuild, Track
  <2>2. HomesTyped' /\ breaks' \in 0..MaxBreaks /\ listing' \in Listings /\ tracked' \in Listings
    <3>1. CASE HalfWritten("install")
      BY <3>1, <1>b, HalfWrittenTyped
    <3>2. CASE ~HalfWritten("install")
      BY <1>14, <1>a, <3>2, HomesRest
      DEF Rebuild, Track, NewListing, Listings, PackageTyped, ToldTyped
    <3> QED
      BY <3>1, <3>2
  <2>3. PackageTyped' /\ ProjectTyped'
    BY <1>14, <1>a, <2>2 DEF Rebuild, Track, PackageTyped, ProjectTyped
  <2>4. CASE Rebuild
    <3>1. /\ UNCHANGED <<failed, spoilt>> /\ rounds' \in {rounds, 0}
          /\ mishaps' \in {mishaps, mishaps \cup {"registry"}}
      BY <2>4, Zenon DEF Rebuild
    <3>2. ToldTyped'
      BY <2>2, <3>1, <1>a DEF ToldTyped
    <3> QED
      BY <2>1, <2>2, <2>3, <3>2 DEF InstallTypeInv
  <2>5. CASE Track
    <3>1. /\ UNCHANGED <<failed, spoilt>>
          /\ rounds' = IF "registry" \in mishaps \/ rounds = 2 THEN rounds ELSE rounds + 1
          /\ mishaps' \in {mishaps, mishaps \cup {"versions"}}
      BY <2>5, Zenon DEF Track
    <3>2. rounds' \in 0..2
      BY <3>1, <1>a DEF ToldTyped
    <3>3. /\ failed' \subseteq Listed /\ spoilt' \subseteq Listed
          /\ mishaps' \subseteq {"race", "early", "call", "registry", "versions"}
      BY <3>1, <1>a DEF ToldTyped
    <3>4. ToldTyped'
      BY <2>2, <3>2, <3>3, Zenon DEF ToldTyped
    <3> QED
      BY <2>1, <2>2, <2>3, <3>4 DEF InstallTypeInv
  <2> QED
    BY <1>14, <2>4, <2>5
<1>15. CASE UNCHANGED installVars
  BY <1>15, <1>a, HomesRest
  DEF installVars, InstallTypeInv, PackageTyped, ProjectTyped, ControlTyped, ToldTyped
<1> QED
  BY <1>1, <1>2, <1>3, <1>4, <1>5, <1>6, <1>7, <1>8, <1>9, <1>10, <1>11, <1>12, <1>13, <1>14,
     <1>15, <1>b DEF InstallNext, InstallStep, SyncStep

\* What is in a home, and what is written into the project, is always of its kind.
THEOREM InstallTypeCorrect == InstallSpec => []InstallTypeOK
<1>1. InstallTypeInv => InstallTypeOK
  BY DEF InstallTypeInv, InstallTypeOK, PackageTyped, HomesTyped, ProjectTyped, ControlTyped,
         ToldTyped, EntryOK, Listings, Contents, Copying, Steps, Copiers
<1> QED
  BY <1>1, InstallTypeInit, InstallTypeStep, PTL DEF InstallSpec
-----------------------------------------------------------------------------
(***************************************************************************)
(* Lessons are kept: they are in a directory that is there, so who has     *)
(* made it and is about to write the template finds none, or some that     *)
(* are younger than the directory.                                         *)
(***************************************************************************)
LessonInv ==
  /\ notes = "lessons" => memDir
  /\ at["install"] \in {"sessions", "seed"} /\ notes = "lessons" => "early" \in mishaps

LEMMA LessonStep ==
  InstallTypeInv /\ LessonInv /\ [InstallNext]_installVars =>
    LessonInv' /\ (notes = "lessons" /\ notes' # "lessons" => "early" \in mishaps)
<1> SUFFICES ASSUME InstallTypeInv, LessonInv, [InstallNext]_installVars
             PROVE  LessonInv' /\ (notes = "lessons" /\ notes' # "lessons" => "early" \in mishaps)
  OBVIOUS
<1>a. memDir \in BOOLEAN /\ at \in [Copiers -> Steps]
  BY DEF InstallTypeInv, ProjectTyped, ControlTyped
<1>b. "install" \in Copiers /\ "sync" \in Copiers
  BY DEF Copiers
<1> USE DEF LessonInv, project, package, homes, told, Goto
<1>1. ASSUME NEW s \in Skills, NEW to \in place..MaxPlace, NewPackage(s, to)
      PROVE  LessonInv' /\ UNCHANGED notes
  BY <1>1, <1>a, <1>b DEF NewPackage
<1>2. CASE UseProject
  BY <1>2, <1>a DEF UseProject, Overtaken
<1>3. CASE StartInstall \/ Interrupt
  BY <1>3, <1>a, <1>b DEF StartInstall, Interrupt
<1>4. CASE SyncScan
  BY <1>4, <1>a, <1>b DEF SyncScan
<1>5. ASSUME NEW c \in Copiers, PutSkill(c) PROVE LessonInv' /\ UNCHANGED notes
  <2>1. /\ UNCHANGED <<notes, memDir>> /\ mishaps \subseteq mishaps'
        /\ at["install"] \in {"sessions", "seed"} \/ at'["install"] \notin {"sessions", "seed"}
    BY <1>5, <1>a, <1>b DEF PutSkill, Link, Look, MakeDir, CopyIn, Beside, NextSkill, Throw, Copiers
  <2> QED
    BY <2>1
<1>6. CASE CopyCommand \/ LoopEnds \/ RemoveOld
  BY <1>6, <1>a, <1>b DEF CopyCommand, LoopEnds, RemoveOld
<1>7. CASE Scaffold \/ MakeSessions \/ Seed \/ BootstrapGraph
  BY <1>7, <1>a, <1>b DEF Scaffold, MakeSessions, Seed, BootstrapGraph, Throw
<1>8. CASE MakeMemory
  BY <1>8, <1>a, <1>b DEF MakeMemory, Throw
<1>9. CASE Rebuild \/ Track
  BY <1>9, <1>a, <1>b DEF Rebuild, Track
<1>10. ASSUME NEW c \in Copiers, CallFails(c)
       PROVE  LessonInv' /\ (notes = "lessons" /\ notes' # "lessons" => "early" \in mishaps)
  <2>1. /\ UNCHANGED memDir /\ mishaps \subseteq mishaps'
        /\ notes' = notes \/ (at[c] = "seed" /\ notes' = "fresh")
        /\ at'["install"] \in {at["install"], "threw"}
    BY <1>10, <1>a, <1>b DEF CallFails, Throw, Copiers
  <2>2. at[c] = "seed" => c = "install"
    BY DEF InstallTypeInv, ControlTyped, Copying, Copiers
  <2> QED
    BY <2>1, <2>2
<1>11. CASE UNCHANGED installVars
  BY <1>11 DEF installVars
<1> QED
  BY <1>1, <1>2, <1>3, <1>4, <1>5, <1>6, <1>7, <1>8, <1>9, <1>10, <1>11, <1>b
  DEF InstallNext, InstallStep, SyncStep

\* What an evolve agent has written is not overwritten with the template, unless it
\* was written while the install that overwrites it was between making .memory and
\* writing the template.
THEOREM LessonsAreKept == InstallSpec => LessonsKept
<1>1. InstallInit => LessonInv
  BY DEF InstallInit, LessonInv
<1>2. InstallTypeInv /\ LessonInv /\ [InstallNext]_installVars =>
        [notes = "lessons" /\ notes' # "lessons" => "early" \in mishaps]_installVars
  BY LessonStep
<1> QED
  BY <1>1, <1>2, InstallTypeInit, InstallTypeStep, LessonStep, PTL DEF InstallSpec, LessonsKept

-----------------------------------------------------------------------------
(***************************************************************************)
(* Why an install throws.  Who is about to make a directory has seen that  *)
(* it is not there, or that a link leads nowhere, and only what skill_sync *)
(* or a pipeline does meanwhile changes that; who is about to copy into it *)
(* finds it there, since nobody removes anything beside the install.       *)
(***************************************************************************)
LookedInv ==
  LET s == Current("install") IN
  /\ at["install"] = "make" => skillsDir[s] = Nothing \/ Dangling(s) \/ "race" \in mishaps
  /\ at["install"] = "fill" => skillsDir[s] # Nothing /\ ~Dangling(s)
ScaffoldInv ==
  /\ sessions => memDir
  /\ at["install"] = "memory" => ~memDir \/ "race" \in mishaps
  /\ at["install"] = "sessions" => memDir /\ (~sessions \/ "race" \in mishaps)

ThrowInv == LookedInv /\ ScaffoldInv /\ ThrowsOnlyIfDisturbed

\* What is there is a link or a copy, and not both.
LEMMA EntryShape ==
  ASSUME InstallTypeInv, NEW s \in Listed
  PROVE  /\ skillsDir[s] # Nothing => IsLink(s) \/ IsCopy(s)
         /\ IsLink(s) => ~IsCopy(s) /\ skillsDir[s] = [link |-> skillsDir[s].link]
         /\ IsCopy(s) => ~IsLink(s)
BY DEF InstallTypeInv, HomesTyped, EntryOK, IsLink, IsCopy

\* A step beside the install, which leaves it where it is and what it has seen.
LEMMA ThrowFrame ==
  ASSUME ThrowInv, UNCHANGED place, mishaps \subseteq mishaps',
         at'["install"] = at["install"], left'["install"] = left["install"],
         UNCHANGED <<memDir, sessions>>,
         \/ skillsDir'[Current("install")] = skillsDir[Current("install")]
         \/ /\ at["install"] = "make" => "race" \in mishaps'
            /\ ~Dangling(Current("install")) /\ ~Dangling(Current("install"))'
            /\ skillsDir'[Current("install")] # Nothing
         \/ left["install"] = {} /\ at["install"] \notin {"make", "fill"}
  PROVE  ThrowInv'
<1>1. Current("install")' = Current("install")
  BY DEF Current
<1>2. LookedInv'
  BY <1>1 DEF ThrowInv, LookedInv, Dangling, IsLink
<1>3. ScaffoldInv'
  BY DEF ThrowInv, ScaffoldInv
<1>4. ThrowsOnlyIfDisturbed'
  BY <1>1 DEF ThrowInv, ThrowsOnlyIfDisturbed, Dangling, IsLink
<1> QED
  BY <1>2, <1>3, <1>4 DEF ThrowInv

\* The install goes to a step at which it has nothing to rely on.
LEMMA ThrowFree ==
  ASSUME ThrowInv,
         at'["install"] \notin {"make", "fill", "memory", "sessions", "threw"},
         sessions' = sessions, memDir => memDir'
  PROVE  ThrowInv'
BY DEF ThrowInv, LookedInv, ScaffoldInv, ThrowsOnlyIfDisturbed

\* skill_sync puts a skill where nothing was, or writes into its own copy.
LEMMA SyncBesideThrow ==
  ASSUME InstallTypeInv, ThrowInv, PutSkill("sync") \/ CallFails("sync") PROVE ThrowInv'
<1> DEFINE s == Current("sync")
           i == Current("install")
<1>1. /\ at \in [Copiers -> Steps] /\ left \in [Copiers -> SUBSET Listed]
      /\ at["sync"] \in {"idle"} \cup Copying /\ "install" \in Copiers /\ "sync" \in Copiers
      /\ skillsDir = [t \in Listed |-> skillsDir[t]]
  BY DEF InstallTypeInv, ControlTyped, HomesTyped, Copiers
<1>2. at["sync"] \in Copying
  BY <1>1 DEF PutSkill, Link, Look, MakeDir, CopyIn, CallFails, Copying
<1>3. s \in Listed
  BY <1>1, <1>2, CurrentListed DEF InstallTypeInv, ControlTyped
<1>4. /\ UNCHANGED <<place, memDir, sessions>>
      /\ at'["install"] = at["install"] /\ left'["install"] = left["install"]
  BY <1>1 DEF PutSkill, Link, Look, MakeDir, CopyIn, CallFails, package, project, Throw,
              NextSkill, Goto
<1>5. mishaps \subseteq mishaps'
  BY DEF PutSkill, Link, Look, MakeDir, CopyIn, CallFails, told, Beside
<1>6. \/ UNCHANGED skillsDir
      \/ /\ skillsDir[s] = Nothing /\ mishaps' = Beside("sync")
         /\ \E e \in {[link |-> place], [copy |-> Nothing]} :
              skillsDir' = [skillsDir EXCEPT ![s] = e]
      \/ /\ IsCopy(s)
         /\ \E x \in {Content(s), Nothing} : skillsDir' = [skillsDir EXCEPT ![s] = [copy |-> x]]
  BY <1>2 DEF PutSkill, Link, Look, MakeDir, CopyIn, CallFails, HalfWritten, homes, Copying
<1>7. CASE UNCHANGED skillsDir
  BY <1>4, <1>5, <1>7, ThrowFrame
<1>8. CASE s # i /\ ~UNCHANGED skillsDir
  <2>1. \E e : skillsDir' = [skillsDir EXCEPT ![s] = e]
    BY <1>6, <1>8
  <2>2. skillsDir'[i] = skillsDir[i]
    BY <1>1, <1>8, <2>1
  <2> QED
    BY <1>4, <1>5, <2>2, ThrowFrame
<1>9. CASE /\ s = i /\ skillsDir[s] = Nothing /\ mishaps' = Beside("sync")
           /\ \E e \in {[link |-> place], [copy |-> Nothing]} :
                skillsDir' = [skillsDir EXCEPT ![s] = e]
  <2>1. PICK e \in {[link |-> place], [copy |-> Nothing]} :
          skillsDir' = [skillsDir EXCEPT ![s] = e]
    BY <1>9
  <2>2. skillsDir'[s] = e
    BY <1>1, <1>3, <2>1
  <2>3. e # Nothing /\ ("link" \in DOMAIN e => e.link = place)
    BY InstallAssumption DEF InstallTypeInv, PackageTyped
  <2>4. ~Dangling(i) /\ ~Dangling(i)' /\ skillsDir'[i] # Nothing
    <3>1. i' = i
      BY <1>4 DEF Current
    <3> QED
      BY <1>4, <1>9, <2>2, <2>3, <3>1 DEF Dangling, IsLink
  <2>5. at["install"] = "make" => "race" \in mishaps'
    BY <1>9 DEF Beside
  <2> QED
    BY <1>4, <1>5, <2>4, <2>5, ThrowFrame
<1>10. CASE /\ s = i /\ IsCopy(s)
            /\ \E x \in {Content(s), Nothing} :
                 skillsDir' = [skillsDir EXCEPT ![s] = [copy |-> x]]
  <2>1. PICK x \in {Content(s), Nothing} : skillsDir' = [skillsDir EXCEPT ![s] = [copy |-> x]]
    BY <1>10
  <2>2. skillsDir'[s] = [copy |-> x]
    BY <1>1, <1>3, <2>1
  <2>3. ~IsLink(s) /\ skillsDir[s] # Nothing
    BY <1>3, <1>10, EntryShape DEF IsCopy
  <2>4. [copy |-> x] # Nothing
    <3>1. x \in Contents(s)
      BY <1>3, ContentKind DEF Contents, Listings
    <3>2. x \in (1..MaxVersion) \cup [Skills -> 1..MaxVersion] \cup {Nothing}
      BY <3>1 DEF Contents, Listings
    <3> QED
      BY <3>2, InstallAssumption
  <2>5. ~Dangling(i) /\ ~Dangling(i)' /\ skillsDir'[i] # Nothing
    <3>1. i' = i
      BY <1>4 DEF Current
    <3> QED
      BY <1>4, <1>10, <2>2, <2>3, <2>4, <3>1 DEF Dangling, IsLink
  <2>6. at["install"] = "make" => "race" \in mishaps'
    BY <1>5, <1>10, <2>3 DEF ThrowInv, LookedInv, Dangling
  <2> QED
    BY <1>4, <1>5, <2>5, <2>6, ThrowFrame
<1> QED
  BY <1>6, <1>7, <1>8, <1>9, <1>10

LEMMA ThrowStep ==
  InstallTypeInv /\ ThrowInv /\ [InstallNext]_installVars => ThrowInv'
<1> SUFFICES ASSUME InstallTypeInv, ThrowInv, [InstallNext]_installVars PROVE ThrowInv'
  OBVIOUS
<1>a. /\ at \in [Copiers -> Steps] /\ left \in [Copiers -> SUBSET Listed]
      /\ "install" \in Copiers /\ "sync" \in Copiers
      /\ memDir \in BOOLEAN /\ sessions \in BOOLEAN
  BY DEF InstallTypeInv, ControlTyped, ProjectTyped, Copiers
<1> USE DEF project, package, homes, told, Goto
<1>1. ASSUME NEW s \in Skills, NEW to \in place..MaxPlace, NewPackage(s, to) PROVE ThrowInv'
  BY <1>1, <1>a, ThrowFree DEF NewPackage
<1>2. CASE UseProject
  <2>1. /\ UNCHANGED <<place, skillsDir, at, left>> /\ memDir' = TRUE
        /\ mishaps \subseteq mishaps'
        /\ at["install"] = "memory" => "race" \in mishaps'
        /\ at["install"] = "sessions" /\ sessions' => "race" \in mishaps'
    BY <1>2 DEF UseProject, Overtaken
  <2>2. LookedInv' /\ ThrowsOnlyIfDisturbed'
    BY <2>1 DEF ThrowInv, LookedInv, ThrowsOnlyIfDisturbed, Current, Dangling, IsLink
  <2>3. ScaffoldInv'
    BY <2>1 DEF ScaffoldInv
  <2> QED
    BY <2>2, <2>3 DEF ThrowInv
<1>3. CASE StartInstall \/ Interrupt
  BY <1>3, <1>a, ThrowFree DEF StartInstall, Interrupt
<1>4. CASE SyncScan
  BY <1>4, <1>a, ThrowFrame DEF SyncScan
<1>5. CASE PutSkill("sync") \/ CallFails("sync")
  BY <1>5, SyncBesideThrow
<1>6. CASE CopyCommand \/ LoopEnds \/ RemoveOld \/ BootstrapGraph \/ Rebuild \/ Track \/ Seed
  <2>1. /\ at'["install"] \notin {"make", "fill", "memory", "sessions", "threw"}
        /\ sessions' = sessions
    BY <1>6, <1>a DEF CopyCommand, LoopEnds, RemoveOld, BootstrapGraph, Rebuild, Track, Seed
  <2>2. memDir => memDir'
    BY <1>6 DEF CopyCommand, LoopEnds, RemoveOld, BootstrapGraph, Rebuild, Track, Seed
  <2> QED
    BY <2>1, <2>2, ThrowFree
<1>7. CASE CallFails("install")
  BY <1>7, <1>a DEF CallFails, Throw, ThrowInv, LookedInv, ScaffoldInv, ThrowsOnlyIfDisturbed
<1>8. CASE Link("install")
  BY <1>8, <1>a, ThrowFree DEF Link, NextSkill
<1>9. CASE Look("install")
  <2>1. UNCHANGED <<place, skillsDir, left, memDir, sessions, mishaps>>
    BY <1>9 DEF Look
  <2>2. LookedInv'
    BY <1>9, <1>a, <2>1 DEF Look, LookedInv, Current, Dangling, IsLink
  <2>3. at'["install"] \in {"make", "fill"}
    BY <1>9, <1>a DEF Look
  <2> QED
    BY <2>1, <2>2, <2>3 DEF ThrowInv, ScaffoldInv, ThrowsOnlyIfDisturbed
<1>10. CASE MakeDir("install")
  <2> DEFINE s == Current("install")
  <2>1. /\ UNCHANGED <<place, memDir, sessions, left>> /\ mishaps \subseteq mishaps'
        /\ at["install"] = "make" /\ left["install"] # {}
    BY <1>10 DEF MakeDir, Throw, Beside, InstallTypeInv, ControlTyped, Copiers, Copying
  <2>2. s \in Listed /\ skillsDir = [t \in Listed |-> skillsDir[t]] /\ s' = s
    BY <1>a, <2>1, CurrentListed DEF InstallTypeInv, HomesTyped, Current
  <2>3. CASE skillsDir[s] # Nothing
    <3>1. UNCHANGED <<skillsDir, mishaps>> /\ at'["install"] = "threw"
      BY <1>10, <1>a, <2>3 DEF MakeDir, Throw
    <3> QED
      BY <2>1, <2>2, <2>3, <3>1
      DEF ThrowInv, LookedInv, ScaffoldInv, ThrowsOnlyIfDisturbed, Dangling, IsLink
  <2>4. CASE skillsDir[s] = Nothing
    <3>1. skillsDir' = [skillsDir EXCEPT ![s] = [copy |-> Nothing]] /\ at'["install"] = "fill"
      BY <1>10, <1>a, <2>4 DEF MakeDir
    <3>2. skillsDir'[s] = [copy |-> Nothing] /\ [copy |-> Nothing] # Nothing
      BY <2>2, <3>1, InstallAssumption
    <3>3. LookedInv'
      BY <2>2, <3>1, <3>2 DEF LookedInv, Dangling, IsLink
    <3> QED
      BY <2>1, <3>1, <3>3 DEF ThrowInv, ScaffoldInv, ThrowsOnlyIfDisturbed
  <2> QED
    BY <2>3, <2>4
<1>11. CASE CopyIn("install")
  <2>1. ~(skillsDir[Current("install")] = Nothing \/ Dangling(Current("install")))
    BY <1>11 DEF CopyIn, ThrowInv, LookedInv
  <2>2. at'["install"] = "gemini" /\ UNCHANGED <<memDir, sessions>>
    BY <1>11, <1>a, <2>1 DEF CopyIn, NextSkill
  <2> QED
    BY <2>2, ThrowFree
<1>12. CASE Scaffold
  BY <1>12, <1>a DEF Scaffold, ThrowInv, LookedInv, ScaffoldInv, ThrowsOnlyIfDisturbed
<1>13. CASE MakeMemory
  BY <1>13, <1>a DEF MakeMemory, Throw, ThrowInv, LookedInv, ScaffoldInv, ThrowsOnlyIfDisturbed
<1>14. CASE MakeSessions
  <2>1. /\ memDir /\ UNCHANGED <<memDir, mishaps>>
        /\ sessions => "race" \in mishaps
    BY <1>14 DEF MakeSessions, ThrowInv, ScaffoldInv
  <2>2. sessions' \in BOOLEAN /\ at'["install"] \in {"seed", "threw"}
        /\ (at'["install"] = "threw" => sessions)
    BY <1>14, <1>a DEF MakeSessions, Throw
  <2>3. LookedInv' /\ ScaffoldInv'
    BY <2>1, <2>2 DEF LookedInv, ScaffoldInv
  <2>4. ThrowsOnlyIfDisturbed'
    BY <2>1, <2>2 DEF ThrowsOnlyIfDisturbed
  <2> QED
    BY <2>3, <2>4 DEF ThrowInv
<1>15. CASE UNCHANGED installVars
  BY <1>15, ThrowFrame DEF installVars
<1> QED
  BY <1>1, <1>2, <1>3, <1>4, <1>5, <1>6, <1>7, <1>8, <1>9, <1>10, <1>11, <1>12, <1>13, <1>14,
     <1>15 DEF InstallNext, InstallStep, SyncStep, PutSkill

\* An install throws only because a call of its own failed, at a link into where the
\* package was, or where somebody made a directory between its look and its making it.
THEOREM ThrowsExplained == InstallSpec => []ThrowsOnlyIfDisturbed
<1>1. InstallInit => ThrowInv
  BY DEF InstallInit, ThrowInv, LookedInv, ScaffoldInv, ThrowsOnlyIfDisturbed
<1>2. ThrowInv => ThrowsOnlyIfDisturbed
  BY DEF ThrowInv
<1> QED
  BY <1>1, <1>2, InstallTypeInit, InstallTypeStep, ThrowStep, PTL DEF InstallSpec

-----------------------------------------------------------------------------
(***************************************************************************)
(* What is in the homes: what a loop has come to is there, and stays,      *)
(* whatever skill_sync does; and until the registry is built again the     *)
(* list of skills is the one the install began with.                       *)
(***************************************************************************)
Wanted(s) == IF s = Index THEN listed ELSE version[s]
Copied(s) == s \in failed \/ commands[s] = Wanted(s)
InHome(s) ==
  \/ skillsDir[s] = [link |-> place]
  \/ skillsDir[s] \in [copy : {Wanted(s), Content(s)}]
  \/ s \in spoilt

BeforeRebuild ==
  {"claude", "gemini", "scaffold", "memory", "sessions", "seed", "graph", "registry"} \cup Copying
AfterHomes ==
  {"scaffold", "memory", "sessions", "seed", "graph", "registry", "track", "done"}

CurrentInv ==
  /\ at["install"] \in BeforeRebuild => listed = listing
  /\ at["install"] = "claude" => \A s \in Listed \ left["install"] : Copied(s)
  /\ at["install"] \in {"gemini"} \cup Copying \cup AfterHomes =>
       ("claude" \in Targets => \A s \in Listed : Copied(s))
  /\ at["install"] \in {"gemini"} \cup Copying => \A s \in Listed \ left["install"] : InHome(s)
  /\ at["install"] \in AfterHomes => ("gemini" \in Targets => \A s \in Listed : InHome(s))
  /\ at["install"] = "done" => tracked = version \/ "versions" \in mishaps

\* A step beside the install, which takes nothing out of the homes.
LEMMA CurrentFrame ==
  ASSUME CurrentInv, UNCHANGED <<version, listing, listed, commands, failed, tracked>>,
         mishaps \subseteq mishaps',
         at'["install"] = at["install"], left'["install"] = left["install"],
         \A s \in Listed : InHome(s) => InHome(s)'
  PROVE  CurrentInv'
<1>1. \A s \in Listed : Copied(s) => Copied(s)'
  BY DEF Copied, Wanted
<1> QED
  BY <1>1 DEF CurrentInv

\* The install goes on, with its homes as they are.
LEMMA CurrentOn ==
  ASSUME CurrentInv, at["install"] \in AfterHomes, at'["install"] \in AfterHomes \ {"done"},
         at'["install"] \in BeforeRebuild => at["install"] \in BeforeRebuild,
         UNCHANGED <<place, version, listing, listed, commands, skillsDir, failed, spoilt>>
  PROVE  CurrentInv'
<1>1. \A s \in Listed : (Copied(s) => Copied(s)') /\ (InHome(s) => InHome(s)')
  BY DEF Copied, InHome, Wanted, Content
<1> QED
  BY <1>1 DEF CurrentInv, AfterHomes, Copying

LEMMA CurrentFree ==
  ASSUME at'["install"] \in {"idle", "threw"} PROVE CurrentInv'
BY DEF CurrentInv, BeforeRebuild, AfterHomes, Copying

\* What skill_sync does leaves what is installed installed: it makes an entry where
\* there is none, copies what is current into a copy, or spoils it.
LEMMA SyncBesideCurrent ==
  ASSUME InstallTypeInv, CurrentInv, PutSkill("sync") \/ CallFails("sync") PROVE CurrentInv'
<1> DEFINE s == Current("sync")
<1>1. /\ at \in [Copiers -> Steps] /\ left \in [Copiers -> SUBSET Listed]
      /\ at["sync"] \in {"idle"} \cup Copying /\ "install" \in Copiers /\ "sync" \in Copiers
      /\ skillsDir = [t \in Listed |-> skillsDir[t]]
  BY DEF InstallTypeInv, ControlTyped, HomesTyped, Copiers
<1>2. at["sync"] \in Copying
  BY <1>1 DEF PutSkill, Link, Look, MakeDir, CopyIn, CallFails, Copying
<1>3. s \in Listed
  BY <1>1, <1>2, CurrentListed DEF InstallTypeInv, ControlTyped
<1>4. at'["install"] = at["install"] /\ left'["install"] = left["install"]
  BY <1>1 DEF PutSkill, Link, Look, MakeDir, CopyIn, CallFails, Throw, NextSkill, Goto
<1>5. mishaps \subseteq mishaps' /\ spoilt \subseteq spoilt'
  BY DEF PutSkill, Link, Look, MakeDir, CopyIn, CallFails, told, Beside
<1>6. UNCHANGED <<place, version, listing, listed, commands, failed, tracked>>
  BY <1>2 DEF PutSkill, Link, Look, MakeDir, CopyIn, CallFails, HalfWritten, package, homes,
              project, told, Copying
<1>7. \/ UNCHANGED skillsDir
      \/ skillsDir[s] = Nothing /\ \E e : skillsDir' = [skillsDir EXCEPT ![s] = e]
      \/ IsCopy(s) /\ skillsDir' = [skillsDir EXCEPT ![s] = [copy |-> Content(s)]]
      \/ s \in spoilt' /\ \E e : skillsDir' = [skillsDir EXCEPT ![s] = e]
  BY <1>2 DEF PutSkill, Link, Look, MakeDir, CopyIn, CallFails, HalfWritten, homes, Copying
<1>8. \A t \in Listed : InHome(t) => InHome(t)'
  <2> SUFFICES ASSUME NEW t \in Listed, InHome(t) PROVE InHome(t)'
    OBVIOUS
  <2>1. CASE skillsDir'[t] = skillsDir[t] \/ t \in spoilt'
    BY <1>5, <1>6, <2>1 DEF InHome, Wanted, Content
  <2>2. CASE skillsDir'[t] # skillsDir[t] /\ t \notin spoilt'
    <3>1. t = s
      BY <1>1, <1>7, <2>2
    <3>2. skillsDir[s] # Nothing
      <4>1. Wanted(t) \in Contents(t) /\ Content(t) \in Contents(t)
        BY ContentKind DEF Wanted, InstallTypeInv, PackageTyped, Contents, Listed
      <4>2. \A x \in Contents(t) : [copy |-> x] # Nothing
        BY InstallAssumption DEF Contents, Listings
      <4>3. [link |-> place] # Nothing
        BY InstallAssumption DEF InstallTypeInv, PackageTyped
      <4> QED
        BY <1>5, <2>2, <3>1, <4>1, <4>2, <4>3 DEF InHome
    <3>3. skillsDir'[s] = [copy |-> Content(s)]
      BY <1>1, <1>3, <1>7, <2>2, <3>1, <3>2
    <3> QED
      BY <1>6, <3>1, <3>3 DEF InHome, Wanted, Content
  <2> QED
    BY <2>1, <2>2
<1> QED
  BY <1>4, <1>5, <1>6, <1>8, CurrentFrame

LEMMA CurrentStep ==
  InstallTypeInv /\ CurrentInv /\ [InstallNext]_installVars => CurrentInv'
<1> SUFFICES ASSUME InstallTypeInv, CurrentInv, [InstallNext]_installVars PROVE CurrentInv'
  OBVIOUS
<1>a. /\ at \in [Copiers -> Steps] /\ left \in [Copiers -> SUBSET Listed]
      /\ "install" \in Copiers /\ "sync" \in Copiers
      /\ commands = [t \in Listed |-> commands[t]]
      /\ skillsDir = [t \in Listed |-> skillsDir[t]]
  BY DEF InstallTypeInv, ControlTyped, HomesTyped, Copiers
<1> USE DEF project, package, homes, told, Goto
<1>1. ASSUME NEW s \in Skills, NEW to \in place..MaxPlace, NewPackage(s, to) PROVE CurrentInv'
  BY <1>1, <1>a, CurrentFree DEF NewPackage
<1>2. CASE UseProject \/ SyncScan \/ UNCHANGED installVars
  <2>1. /\ UNCHANGED <<place, version, listing, listed, commands, skillsDir>>
        /\ UNCHANGED <<failed, spoilt, tracked>>
        /\ mishaps \subseteq mishaps'
        /\ at'["install"] = at["install"] /\ left'["install"] = left["install"]
    BY <1>2, <1>a DEF UseProject, SyncScan, installVars
  <2>2. \A s \in Listed : InHome(s) => InHome(s)'
    BY <2>1 DEF InHome, Wanted, Content
  <2> QED
    BY <2>1, <2>2, CurrentFrame
<1>3. CASE PutSkill("sync") \/ CallFails("sync")
  BY <1>3, SyncBesideCurrent
<1>4. CASE Interrupt \/ CallFails("install")
  BY <1>4, <1>a, CurrentFree DEF Interrupt, CallFails, Throw
<1>5. CASE StartInstall
  <2>1. /\ listed' = listing' /\ left'["install"] = Listed
        /\ at'["install"] \in {"claude", "gemini"}
        /\ at'["install"] = "gemini" => "claude" \notin Targets
    BY <1>5, <1>a DEF StartInstall
  <2>2. Targets' = Targets
    BY DEF Targets
  <2> QED
    BY <2>1, <2>2 DEF CurrentInv, AfterHomes, Copying
<1>6. CASE CopyCommand
  <2> DEFINE s == Current("install")
  <2>1. /\ at["install"] = "claude" /\ UNCHANGED <<at, version, listed>>
        /\ left'["install"] = left["install"] \ {s} /\ left["install"] # {}
    BY <1>6, <1>a DEF CopyCommand
  <2>2. s \in Listed
    BY <1>a, <2>1, CurrentListed DEF InstallTypeInv
  <2>3. listed = listing
    BY <2>1 DEF CurrentInv, BeforeRebuild
  <2>4. /\ listing' = listing /\ failed \subseteq failed'
        /\ \/ commands' = [commands EXCEPT ![s] = Content(s)]
           \/ /\ commands' = commands \/ commands' = [commands EXCEPT ![s] = Nothing]
              /\ s \in failed'
    <3>1. CASE HalfWritten("install")
      BY <1>6, <2>1, <3>1 DEF CopyCommand, HalfWritten
    <3>2. CASE ~HalfWritten("install")
      BY <1>6, <3>2 DEF CopyCommand
    <3> QED
      BY <3>1, <3>2
  <2>5. \A t \in Listed \ left'["install"] : Copied(t)'
    <3> SUFFICES ASSUME NEW t \in Listed \ left'["install"] PROVE Copied(t)'
      OBVIOUS
    <3>1. CASE t = s
      BY <1>a, <2>1, <2>2, <2>3, <2>4, <3>1 DEF Copied, Wanted, Content
    <3>2. CASE t # s
      <4>1. Copied(t)
        BY <2>1, <3>2 DEF CurrentInv
      <4>2. commands'[t] = commands[t]
        BY <1>a, <2>4, <3>2
      <4> QED
        BY <2>1, <2>4, <4>1, <4>2 DEF Copied, Wanted
    <3> QED
      BY <3>1, <3>2
  <2> QED
    BY <2>1, <2>3, <2>4, <2>5 DEF CurrentInv, AfterHomes, Copying
<1>7. CASE LoopEnds
  <2>1. /\ left["install"] = {}
        /\ UNCHANGED <<place, version, listing, listed, commands, skillsDir, failed, spoilt>>
    BY <1>7 DEF LoopEnds
  <2>2. \A s \in Listed : (Copied(s) => Copied(s)') /\ (InHome(s) => InHome(s)')
    BY <2>1 DEF Copied, InHome, Wanted, Content
  <2>3. CASE at["install"] = "claude" /\ "gemini" \in Targets
    <3>1. at'["install"] = "gemini" /\ left'["install"] = Listed
      BY <1>7, <1>a, <2>3 DEF LoopEnds
    <3> QED
      BY <2>1, <2>2, <2>3, <3>1 DEF CurrentInv, BeforeRebuild, AfterHomes, Copying
  <2>4. CASE ~(at["install"] = "claude" /\ "gemini" \in Targets)
    <3>1. /\ at'["install"] = "scaffold"
          /\ at["install"] = "gemini" \/ (at["install"] = "claude" /\ "gemini" \notin Targets)
      BY <1>7, <1>a, <2>4 DEF LoopEnds
    <3>2. Targets' = Targets
      BY DEF Targets
    <3> QED
      BY <2>1, <2>2, <3>1, <3>2 DEF CurrentInv, BeforeRebuild, AfterHomes, Copying
  <2> QED
    BY <2>3, <2>4
<1>8. CASE RemoveOld \/ PutSkill("install")
  <2>0. PICK s : s = Current("install")
    OBVIOUS
  <2>1. /\ UNCHANGED <<place, version, listing, listed, commands, failed, spoilt>>
        /\ at["install"] \in {"gemini"} \cup Copying
        /\ at'["install"] \in {"gemini", "threw"} \cup Copying
    BY <1>8, <1>a DEF RemoveOld, PutSkill, Link, Look, MakeDir, CopyIn, NextSkill, Throw, Copying
  <2>2. left["install"] # {} /\ s \in Listed
    <3>1. left["install"] # {}
      BY <1>8, <1>a, <2>1 DEF RemoveOld, InstallTypeInv, ControlTyped, PutSkill, Link, Look,
                              MakeDir, CopyIn, Copying
    <3> QED
      BY <1>a, <2>0, <3>1, CurrentListed DEF InstallTypeInv
  <2>3. skillsDir' = skillsDir \/ \E e : skillsDir' = [skillsDir EXCEPT ![s] = e]
    BY <1>8, <2>0 DEF RemoveOld, WithoutOld, PutSkill, Link, Look, MakeDir, CopyIn
  <2>4. \A t \in Listed \ {s} : InHome(t) => InHome(t)'
    <3> SUFFICES ASSUME NEW t \in Listed \ {s}, InHome(t) PROVE InHome(t)'
      OBVIOUS
    <3>1. skillsDir'[t] = skillsDir[t]
      BY <1>a, <2>3
    <3> QED
      BY <2>1, <3>1 DEF InHome, Wanted, Content
  <2>5. \/ left'["install"] = left["install"]
        \/ left'["install"] = left["install"] \ {s} /\ InHome(s)'
    <3>1. CASE RemoveOld \/ Look("install") \/ MakeDir("install")
      BY <3>1, <1>a DEF RemoveOld, Look, MakeDir, Throw
    <3>2. CASE Link("install")
      <4>1. CASE left' = left
        BY <4>1
      <4>2. CASE left' # left
        <5>1. skillsDir' = [skillsDir EXCEPT ![s] = [link |-> place]] /\ NextSkill("install")
          BY <2>0, <3>2, <4>2 DEF Link
        <5>2. skillsDir'[s] = [link |-> place']
          BY <1>a, <2>1, <2>2, <5>1
        <5> QED
          BY <1>a, <2>0, <5>1, <5>2 DEF InHome, NextSkill
      <4> QED
        BY <4>1, <4>2
    <3>3. CASE CopyIn("install")
      <4>1. CASE IsCopy(s) /\ NextSkill("install")
                 /\ skillsDir' = [skillsDir EXCEPT ![s] = [copy |-> Content(s)]]
        <5>1. skillsDir'[s] = [copy |-> Content(s)]
          BY <1>a, <2>2, <4>1
        <5>2. Content(s) = Content(s)'
          BY <2>1 DEF Content
        <5>3. InHome(s)'
          BY <5>1, <5>2 DEF InHome
        <5> QED
          BY <1>a, <2>0, <4>1, <5>3 DEF NextSkill
      <4>2. CASE IsLink(s) /\ ~Dangling(s) /\ UNCHANGED skillsDir /\ NextSkill("install")
        <5>1. skillsDir[s] = [link |-> place]
          BY <2>2, <4>2, EntryShape DEF Dangling
        <5> QED
          BY <1>a, <2>0, <2>1, <4>2, <5>1 DEF InHome, NextSkill
      <4>3. CASE Throw("install")
        BY <4>3 DEF Throw
      <4> QED
        BY <2>0, <3>3, <4>1, <4>2, <4>3 DEF CopyIn
    <3> QED
      BY <1>8, <3>1, <3>2, <3>3 DEF PutSkill
  <2>6. \A t \in Listed \ left'["install"] : InHome(t)'
    <3>1. s \in left["install"]
      BY <1>a, <2>0, <2>2, CurrentListed DEF InstallTypeInv
    <3>2. \A t \in Listed \ left["install"] : InHome(t)
      BY <2>1 DEF CurrentInv
    <3> QED
      BY <2>4, <2>5, <3>1, <3>2
  <2>7. \A t \in Listed : Copied(t) => Copied(t)'
    BY <2>1 DEF Copied, Wanted
  <2>8. Targets' = Targets
    BY DEF Targets
  <2> QED
    BY <2>1, <2>6, <2>7, <2>8 DEF CurrentInv, BeforeRebuild, AfterHomes, Copying
<1>9. CASE Scaffold \/ BootstrapGraph \/ Seed
  BY <1>9, <1>a, CurrentOn DEF Scaffold, BootstrapGraph, Seed, AfterHomes, BeforeRebuild
<1>10. CASE MakeMemory \/ MakeSessions
  <2>1. CASE at'["install"] = "threw"
    BY <2>1, CurrentFree
  <2>2. CASE at'["install"] # "threw"
    BY <1>10, <1>a, <2>2, CurrentOn
    DEF MakeMemory, MakeSessions, Throw, AfterHomes, BeforeRebuild
  <2> QED
    BY <2>1, <2>2
<1>11. CASE Rebuild
  <2>1. /\ at["install"] = "registry" /\ at'["install"] = "track"
        /\ UNCHANGED <<place, version, listed, failed, spoilt>>
    BY <1>11, <1>a DEF Rebuild
  <2>2. UNCHANGED <<commands, skillsDir>>
    <3>1. CASE HalfWritten("install")
      BY <2>1, <3>1 DEF HalfWritten
    <3>2. CASE ~HalfWritten("install")
      BY <1>11, <3>2 DEF Rebuild
    <3> QED
      BY <3>1, <3>2
  <2>3. listed = listing
    BY <2>1 DEF CurrentInv, BeforeRebuild
  <2>4. \A s \in Listed : (Copied(s) => Copied(s)') /\ (InHome(s) => InHome(s)')
    BY <2>1, <2>2, <2>3 DEF Copied, InHome, Wanted, Content
  <2> QED
    BY <2>1, <2>4 DEF CurrentInv, BeforeRebuild, AfterHomes, Copying
<1>12. CASE Track
  <2>1. /\ at["install"] = "track" /\ at'["install"] = "done"
        /\ UNCHANGED <<place, version, listed, failed, spoilt>>
    BY <1>12, <1>a DEF Track
  <2>2. /\ UNCHANGED <<listing, commands, skillsDir>>
        /\ tracked' = version \/ "versions" \in mishaps'
    <3>1. CASE HalfWritten("install")
      BY <1>12, <2>1, <3>1 DEF Track, HalfWritten
    <3>2. CASE ~HalfWritten("install")
      BY <1>12, <3>2 DEF Track
    <3> QED
      BY <3>1, <3>2
  <2>3. \A s \in Listed : (Copied(s) => Copied(s)') /\ (InHome(s) => InHome(s)')
    BY <2>1, <2>2 DEF Copied, InHome, Wanted, Content
  <2> QED
    BY <2>1, <2>2, <2>3 DEF CurrentInv, BeforeRebuild, AfterHomes, Copying
<1> QED
  BY <1>1, <1>2, <1>3, <1>4, <1>5, <1>6, <1>7, <1>8, <1>9, <1>10, <1>11, <1>12
  DEF InstallNext, InstallStep, SyncStep

\* When an install is done, every home has every skill as it is, or was warned of, but
\* for what skill_sync has broken off, whatever was there before; and so has
\* skill_versions.json.
THEOREM InstalledCurrent == InstallSpec => []InstalledIsCurrent
<1>1. InstallInit => CurrentInv
  <2> SUFFICES ASSUME InstallInit PROVE at["install"] = "idle"
    BY DEF CurrentInv, BeforeRebuild, AfterHomes, Copying
  <2> QED
    BY DEF InstallInit
<1>2. CurrentInv => InstalledIsCurrent
  BY DEF CurrentInv, InstalledIsCurrent, AfterHomes, Copied, InHome, Wanted
<1> QED
  BY <1>1, <1>2, InstallTypeInit, InstallTypeStep, CurrentStep, PTL DEF InstallSpec

-----------------------------------------------------------------------------
(***************************************************************************)
(* The list of skills.  Once an install has rebuilt it, it is that of the  *)
(* package until the package changes or a rebuild is broken off; so a      *)
(* second install begins with it.                                          *)
(***************************************************************************)
SettleInv ==
  /\ at["install"] = "track" /\ "registry" \notin mishaps => listing = version
  /\ rounds # 0 => listing = version
  /\ rounds # 0 /\ at["install"] \notin Resting => listed = version
  /\ at["install"] = "done" /\ rounds = 2 => listed = version

\* A step that leaves the list, and what is told of it, alone.
LEMMA SettleFrame ==
  ASSUME SettleInv, UNCHANGED <<listing, version, listed, rounds>>, mishaps \subseteq mishaps',
         \/ at'["install"] = at["install"]
         \/ at'["install"] \notin {"track", "done"}
            /\ (at'["install"] \notin Resting => at["install"] \notin Resting)
  PROVE  SettleInv'
BY DEF SettleInv, Resting

LEMMA SettleStep ==
  InstallTypeInv /\ SettleInv /\ [InstallNext]_installVars => SettleInv'
<1> SUFFICES ASSUME InstallTypeInv, SettleInv, [InstallNext]_installVars PROVE SettleInv'
  OBVIOUS
<1>a. /\ at \in [Copiers -> Steps] /\ "install" \in Copiers /\ "sync" \in Copiers
      /\ at["sync"] \in {"idle"} \cup Copying /\ rounds \in 0..2
  BY DEF InstallTypeInv, ControlTyped, ToldTyped, Copiers
<1> USE DEF project, package, homes, told, Goto
<1>1. ASSUME NEW s \in Skills, NEW to \in place..MaxPlace, NewPackage(s, to) PROVE SettleInv'
  BY <1>1, <1>a DEF NewPackage, SettleInv, Resting
<1>2. CASE UseProject \/ SyncScan \/ UNCHANGED installVars
  BY <1>2, <1>a, SettleFrame DEF UseProject, SyncScan, installVars
<1>3. ASSUME NEW c \in Copiers, PutSkill(c) PROVE SettleInv'
  <2>1. UNCHANGED <<listing, version, listed, rounds>> /\ mishaps \subseteq mishaps'
    BY <1>3 DEF PutSkill, Link, Look, MakeDir, CopyIn, Beside
  <2>2. \/ at'["install"] = at["install"]
        \/ at["install"] \in Copying /\ at'["install"] \in {"gemini", "threw"} \cup Copying
    BY <1>3, <1>a DEF PutSkill, Link, Look, MakeDir, CopyIn, NextSkill, Throw, Copying, Copiers
  <2> QED
    BY <2>1, <2>2, SettleFrame DEF Copying, Resting
<1>4. ASSUME NEW c \in Copiers, CallFails(c) PROVE SettleInv'
  <2>1. UNCHANGED <<listing, version, listed, rounds>> /\ mishaps \subseteq mishaps'
    BY <1>4 DEF CallFails, HalfWritten
  <2>2. at'["install"] \in {at["install"], "threw"}
    BY <1>4, <1>a DEF CallFails, Throw, Copiers
  <2> QED
    BY <2>1, <2>2, SettleFrame DEF Resting
<1>5. CASE Interrupt
  <2>1. /\ UNCHANGED version /\ at'["install"] = "idle"
        /\ rounds' = IF listing' = listing THEN rounds ELSE 0
    BY <1>5, <1>a DEF Interrupt
  <2> QED
    BY <2>1 DEF SettleInv, Resting
<1>6. CASE StartInstall
  <2>1. /\ UNCHANGED <<version, listing, rounds>> /\ listed' = listing
        /\ at'["install"] \in {"claude", "gemini"}
    BY <1>6, <1>a DEF StartInstall
  <2> QED
    BY <2>1 DEF SettleInv, Resting
<1>7. CASE CopyCommand
  <2>1. at["install"] = "claude" /\ UNCHANGED <<at, version, listed, rounds, mishaps>>
    BY <1>7 DEF CopyCommand
  <2>2. UNCHANGED listing
    <3>1. CASE HalfWritten("install")
      BY <2>1, <3>1 DEF HalfWritten
    <3>2. CASE ~HalfWritten("install")
      BY <1>7, <3>2 DEF CopyCommand
    <3> QED
      BY <3>1, <3>2
  <2> QED
    BY <2>1, <2>2, SettleFrame
<1>8. CASE LoopEnds \/ RemoveOld \/ Scaffold \/ BootstrapGraph
  BY <1>8, <1>a, SettleFrame DEF LoopEnds, RemoveOld, Scaffold, BootstrapGraph, Resting
<1>9. CASE MakeMemory \/ MakeSessions
  BY <1>9, <1>a, SettleFrame DEF MakeMemory, MakeSessions, Throw, Resting
<1>10. CASE Seed
  <2>1. /\ UNCHANGED <<listing, version, listed, rounds>>
        /\ at["install"] = "seed" /\ at'["install"] = "graph"
    BY <1>10, <1>a DEF Seed
  <2> QED
    BY <2>1 DEF SettleInv, Resting
<1>11. CASE Rebuild
  <2>1. /\ at["install"] = "registry" /\ at'["install"] = "track"
        /\ UNCHANGED <<version, listed>>
        /\ rounds' = IF listing' = listing THEN rounds ELSE 0
        /\ listing' = version \/ "registry" \in mishaps'
    BY <1>11, <1>a, Zenon DEF Rebuild, NewListing
  <2> QED
    BY <2>1 DEF SettleInv, Resting
<1>12. CASE Track
  <2>1. /\ at["install"] = "track" /\ at'["install"] = "done"
        /\ UNCHANGED <<version, listed>>
        /\ rounds' = IF "registry" \in mishaps \/ rounds = 2 THEN rounds ELSE rounds + 1
    BY <1>12, <1>a DEF Track
  <2>2. UNCHANGED listing
    <3>1. CASE HalfWritten("install")
      BY <2>1, <3>1 DEF HalfWritten
    <3>2. CASE ~HalfWritten("install")
      BY <1>12, <3>2 DEF Track
    <3> QED
      BY <3>1, <3>2
  <2> QED
    BY <1>a, <2>1, <2>2 DEF SettleInv, Resting
<1> QED
  BY <1>1, <1>2, <1>3, <1>4, <1>5, <1>6, <1>7, <1>8, <1>9, <1>10, <1>11, <1>12, <1>a
  DEF InstallNext, InstallStep, SyncStep

\* The list of skills among the commands is right after the second install of a package
\* in a row that could build it.
THEOREM SecondSettles == InstallSpec => []SecondInstallSettles
<1>1. InstallInit => SettleInv /\ CurrentInv
  <2> SUFFICES ASSUME InstallInit PROVE at["install"] = "idle" /\ rounds = 0
    BY DEF CurrentInv, SettleInv, BeforeRebuild, AfterHomes, Copying, Resting
  <2> QED
    BY DEF InstallInit
<1>2. CurrentInv /\ SettleInv => SecondInstallSettles
  BY DEF CurrentInv, SettleInv, SecondInstallSettles, AfterHomes, Copied, Wanted, Listed
<1> QED
  BY <1>1, <1>2, InstallTypeInit, InstallTypeStep, CurrentStep, SettleStep, PTL DEF InstallSpec

-----------------------------------------------------------------------------
(***************************************************************************)
(* The components side by side: a behaviour of MCParts is one of each      *)
(* component, so all that holds of a component alone holds here.           *)
(***************************************************************************)
LEMMA StepOfOne ==
  [MCNext]_<<part, nodeVars, serviceVars>> =>
    /\ [FleetNext]_fleetVars /\ [AgentNext]_agentVars /\ [TraceNext]_traceVars
    /\ [PruneNext]_pruneVars /\ [InstallNext]_installVars
    /\ [KeyNext]_keyVars /\ [LimiterNext]_limiterVars
BY DEF MCNext, nodeVars, serviceVars

LEMMA SideBySide ==
  MCSpec => /\ FleetSpec /\ AgentSpec /\ TraceSpec /\ PruneSpec /\ InstallSpec
            /\ KeySpec /\ LimiterSpec
<1>1. MCInit => /\ FleetInit /\ AgentInit /\ TraceInit /\ PruneInit /\ InstallInit
                /\ KeyInit /\ LimiterInit
  BY DEF MCInit
<1> QED
  BY <1>1, StepOfOne, PTL
     DEF MCSpec, FleetSpec, AgentSpec, TraceSpec, PruneSpec, InstallSpec, KeySpec, LimiterSpec

\* Whichever component is at work, every variable of every one holds a value of
\* its kind.
THEOREM PartsTypesCorrect == MCSpec => []PartsTypeOK
<1>1. /\ FleetTypeOK /\ AgentTypeOK /\ TraceTypeOK /\ PruneTypeOK /\ InstallTypeOK
      /\ KeyTypeOK /\ LimiterTypeOK
      => PartsTypeOK
  BY DEF PartsTypeOK
<1> QED
  BY <1>1, SideBySide, FleetTypeCorrect, AgentTypeCorrect, TraceTypeCorrect,
     PruneTypeCorrect, InstallTypeCorrect, KeyTypeCorrect, LimiterTypeCorrect, PTL
=================================================================================
