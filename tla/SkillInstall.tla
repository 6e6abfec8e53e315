------------------------------ MODULE SkillInstall ------------------------------
(***************************************************************************)
(* install.js, utils/skill_registry.js and utils/skill_sync.js: what an    *)
(* install puts into the homes of Claude Code and Gemini CLI and into the  *)
(* project, call by call, with the package changing or moving between      *)
(* installs, calls that fail, installs that are interrupted, and           *)
(* skill_sync, pipelines and evolve agents at work beside them.            *)
(*                                                                         *)
(* The content of a skill is its version; that of the skill `skills',      *)
(* which lists the others, is what it lists.                               *)
(***************************************************************************)
EXTENDS Naturals, FiniteSets

CONSTANTS
  Skills,         \* the skills of the package, without `skills'
  Index,          \* the skill `skills'
  Providers,      \* whose home directories there are
  Nothing,        \* no file or directory, or one that is not whole
  MaxVersion, MaxPlace, \* bounds: versions of a skill, places of the package,
  MaxBreaks             \* calls that fail or are killed

ASSUME InstallAssumption ==
  /\ Index \notin Skills
  /\ Providers \subseteq {"claude", "gemini"}
  /\ {MaxVersion, MaxPlace} \subseteq Nat \ {0} /\ MaxBreaks \in Nat
  /\ Nothing \notin [link : 1..MaxPlace]
  /\ Nothing \notin [copy : (1..MaxVersion) \cup [Skills -> 1..MaxVersion] \cup {Nothing}]

VARIABLES
  place,          \* the directory the package is in
  version,        \* skills/<skill>/SKILL.md there
  listing,        \* skills/skills/SKILL.md there, and skill_registry.json
  commands,       \* ~/.claude/commands/<skill>.md
  skillsDir,      \* ~/.gemini/skills/<skill>: Nothing, a link or a copy
  tracked,        \* .memory/skill_versions.json
  memDir,         \* .memory exists
  sessions,       \* .memory/sessions exists
  notes,          \* .memory/EVOLUTION.md
  at,             \* the next step of the install, and of skill_sync
  left,           \* the skills their loops have still to come to
  failed,         \* history: the commands this install has only warned of
  spoilt,         \* history: skills on which skill_sync has failed meanwhile
  mishaps,        \* history: what else has disturbed this install
  listed,         \* history: the listing this install began with
  rounds,         \* history: installs that were done since the package changed
  breaks          \* calls that have failed, or were killed

package == <<place, version, listing>>
homes == <<commands, skillsDir>>
project == <<tracked, memDir, sessions, notes>>
told == <<failed, spoilt, mishaps, listed, rounds>>
installVars == <<package, homes, project, at, left, told, breaks>>

Resting == {"idle", "done", "threw"}
Listed == Skills \cup {Index}
Content(s) == IF s = Index THEN listing ELSE version[s]

InstallInit ==
  /\ place = 1 /\ version = [s \in Skills |-> 1] /\ listing = version
  /\ commands = [s \in Listed |-> Nothing]
  /\ skillsDir = [s \in Listed |-> Nothing]
  /\ tracked = Nothing /\ memDir = FALSE /\ sessions = FALSE /\ notes = "absent"
  /\ at = [c \in {"install", "sync"} |-> "idle"]
  /\ left = [c \in {"install", "sync"} |-> {}]
  /\ failed = {} /\ spoilt = {} /\ mishaps = {} /\ listed = Nothing /\ rounds = 0
  /\ breaks = 0

Goto(c, step) == at' = [at EXCEPT ![c] = step]

\* The loops come to the skills in the order of the directory.
Current(c) == CHOOSE s \in left[c] : TRUE

-----------------------------------------------------------------------------
\* What happens between installs, and beside them

\* A skill has a new version; the package brings a listing along, which may or
\* may not be of that version.  npm may put it elsewhere, and remove it from
\* where it was.
NewPackage(s, to) ==
  /\ at["install"] \in Resting /\ at["sync"] = "idle"
  /\ Goto("install", "idle") /\ left' = [left EXCEPT !["install"] = {}]
  /\ version[s] < MaxVersion /\ version' = [version EXCEPT ![s] = @ + 1]
  /\ place' = to
  /\ listing' \in {listing, version'}
  /\ rounds' = 0 /\ failed' = {} /\ spoilt' = {} /\ mishaps' = {} /\ listed' = Nothing
  /\ UNCHANGED <<homes, project, breaks>>

\* A pipeline makes .memory, and sessions in it; an evolve agent adds to
\* EVOLUTION.md, or makes it where there is none.  An install that is between
\* its look at a directory and its making it, or between making .memory and
\* writing its template, is overtaken.
Overtaken ==
  {m \in {"race", "early"} :
     \/ m = "race" /\ at["install"] = "memory"
     \/ m = "race" /\ at["install"] = "sessions" /\ sessions'
     \/ m = "early" /\ at["install"] \in {"sessions", "seed"} /\ notes' = "lessons"}

UseProject ==
  /\ memDir' = TRUE
  /\ sessions' \in {sessions, TRUE}
  /\ notes' = notes \/ (memDir /\ notes' = "lessons")
  /\ mishaps' = mishaps \cup Overtaken
  /\ UNCHANGED <<package, homes, tracked, at, left, failed, spoilt, listed, rounds, breaks>>

-----------------------------------------------------------------------------
\* Calls that fail

\* A link leads into the package that was at a place.
IsLink(s) == skillsDir[s] # Nothing /\ "link" \in DOMAIN skillsDir[s]
IsCopy(s) == skillsDir[s] # Nothing /\ "copy" \in DOMAIN skillsDir[s]
Dangling(s) == IsLink(s) /\ skillsDir[s].link # place

Break == breaks < MaxBreaks /\ breaks' = breaks + 1

\* What a call that fails, or is killed, leaves of what it was to write or to
\* remove: all of it, or a part.
HalfWritten(c) ==
  /\ Break
  /\ \/ UNCHANGED <<listing, homes, tracked>>
     \/ /\ at[c] = "claude" /\ left[c] # {}
        /\ commands' = [commands EXCEPT ![Current(c)] = Nothing]
        /\ UNCHANGED <<listing, skillsDir, tracked>>
     \/ /\ at[c] \in {"gemini", "fill"} /\ left[c] # {} /\ IsCopy(Current(c))
        /\ skillsDir' = [skillsDir EXCEPT ![Current(c)] = [copy |-> Nothing]]
        /\ UNCHANGED <<listing, commands, tracked>>
     \/ at[c] = "registry" /\ listing' = Nothing /\ UNCHANGED <<homes, tracked>>
     \/ at[c] = "track" /\ tracked' = Nothing /\ UNCHANGED <<listing, homes>>

\* Nobody catches it: the install ends where it is, and so does skill_sync.
Throw(c) ==
  /\ Goto(c, IF c = "install" THEN "threw" ELSE "idle")
  /\ left' = IF c = "install" THEN left ELSE [left EXCEPT ![c] = {}]

\* A call outside of any try fails: mkdirSync and readdirSync before a loop,
\* rmSync, what copyRecursive calls, what scaffoldProject calls.
CallFails(c) ==
  /\ \/ at[c] = "claude" /\ left[c] = Listed /\ Break
        /\ UNCHANGED <<listing, homes, tracked>>
     \/ at[c] = "gemini" /\ left[c] # {} /\ HalfWritten(c)
     \/ at[c] \in {"look", "make", "fill", "scaffold", "memory", "sessions", "seed"}
        /\ HalfWritten(c)
  /\ Throw(c)
  /\ mishaps' = IF c = "install" THEN mishaps \cup {"call"} ELSE mishaps
  /\ spoilt' = IF c = "sync" /\ at[c] = "fill" THEN spoilt \cup {Current(c)} ELSE spoilt
  /\ notes' = notes \/ (at[c] = "seed" /\ notes' = "fresh")
  /\ UNCHANGED <<place, version, memDir, sessions, failed, listed, rounds>>

\* The user, or npm, stops the install.
Interrupt ==
  /\ at["install"] \notin Resting
  /\ HalfWritten("install")
  /\ Goto("install", "idle") /\ left' = [left EXCEPT !["install"] = {}]
  /\ failed' = {} /\ spoilt' = {} /\ mishaps' = {} /\ listed' = Nothing
  /\ rounds' = IF listing' = listing THEN rounds ELSE 0
  /\ UNCHANGED <<place, version, memDir, sessions, notes>>

-----------------------------------------------------------------------------
\* install.js

\* detectProviders: with neither home, the commands go into the project.
Targets == IF Providers = {} THEN {"claude"} ELSE Providers

StartInstall ==
  /\ at["install"] \in Resting
  /\ Goto("install", IF "claude" \in Targets THEN "claude" ELSE "gemini")
  /\ left' = [left EXCEPT !["install"] = Listed]
  /\ failed' = {} /\ spoilt' = {} /\ mishaps' = {} /\ listed' = listing
  /\ UNCHANGED <<package, homes, project, rounds, breaks>>

\* installForClaude: a copy that fails is warned of.
CopyCommand ==
  LET s == Current("install") IN
  /\ at["install"] = "claude" /\ left["install"] # {}
  /\ left' = [left EXCEPT !["install"] = @ \ {s}]
  /\ \/ /\ commands' = [commands EXCEPT ![s] = Content(s)]
        /\ UNCHANGED <<listing, skillsDir, tracked, failed, breaks>>
     \/ HalfWritten("install") /\ failed' = failed \cup {s}
  /\ UNCHANGED <<place, version, memDir, sessions, notes, at, spoilt, mishaps, listed, rounds>>

LoopEnds ==
  /\ left["install"] = {}
  /\ \/ at["install"] = "claude" /\ "gemini" \in Targets
        /\ Goto("install", "gemini") /\ left' = [left EXCEPT !["install"] = Listed]
     \/ at["install"] = "claude" /\ "gemini" \notin Targets
        /\ Goto("install", "scaffold") /\ UNCHANGED left
     \/ at["install"] = "gemini" /\ Goto("install", "scaffold") /\ UNCHANGED left
  /\ UNCHANGED <<package, homes, project, told, breaks>>

\* existsSync follows a link: one that leads nowhere is not removed.
WithoutOld(s) == IF Dangling(s) THEN skillsDir ELSE [skillsDir EXCEPT ![s] = Nothing]

RemoveOld ==
  /\ at["install"] = "gemini" /\ left["install"] # {} /\ Goto("install", "link")
  /\ skillsDir' = WithoutOld(Current("install"))
  /\ UNCHANGED <<package, commands, project, left, told, breaks>>

\* scaffoldProject: EVOLUTION.md is made with .memory, or never.
\* Slip: it is made whether or not there is a .memory.
ScaffoldAnew ==
  /\ at["install"] = "scaffold" /\ Goto("install", "seed") /\ memDir' = TRUE
  /\ UNCHANGED <<package, homes, tracked, sessions, notes, left, told, breaks>>
Scaffold ==
  /\ at["install"] = "scaffold" /\ Goto("install", IF memDir THEN "graph" ELSE "memory")
  /\ UNCHANGED <<package, homes, project, left, told, breaks>>

\* mkdirSync throws where there is something.
MakeMemory ==
  /\ at["install"] = "memory"
  /\ \/ ~memDir /\ memDir' = TRUE /\ Goto("install", "sessions") /\ UNCHANGED left
     \/ memDir /\ Throw("install") /\ UNCHANGED memDir
  /\ UNCHANGED <<package, homes, tracked, sessions, notes, told, breaks>>

MakeSessions ==
  /\ at["install"] = "sessions"
  /\ \/ ~sessions /\ sessions' = TRUE /\ Goto("install", "seed") /\ UNCHANGED left
     \/ sessions /\ Throw("install") /\ UNCHANGED sessions
  /\ UNCHANGED <<package, homes, tracked, memDir, notes, told, breaks>>

Seed ==
  /\ at["install"] = "seed" /\ Goto("install", "graph")
  /\ notes' = "fresh"
  /\ mishaps' = mishaps \ {"early"}
  /\ UNCHANGED <<package, homes, tracked, memDir, sessions, left, breaks>>
  /\ UNCHANGED <<failed, spoilt, listed, rounds>>

\* bootstrapGraph waits, as long as it takes, for another program.
BootstrapGraph ==
  /\ at["install"] = "graph" /\ Goto("install", "registry")
  /\ UNCHANGED <<package, homes, project, left, told, breaks>>

\* rebuild: the package may not be writable, which is warned of.
\* A slip: the listing is of what was listed before.
ListAgain == listing
NewListing == version
Rebuild ==
  /\ at["install"] = "registry" /\ Goto("install", "track")
  /\ \/ listing' = NewListing /\ UNCHANGED <<homes, tracked, mishaps, breaks>>
     \/ HalfWritten("install") /\ mishaps' = mishaps \cup {"registry"}
  /\ rounds' = IF listing' = listing THEN rounds ELSE 0
  /\ UNCHANGED <<place, version, memDir, sessions, notes, left, failed, spoilt, listed>>

\* trackVersions: a failure is warned of, and the install is done.
Track ==
  /\ at["install"] = "track" /\ Goto("install", "done")
  /\ \/ tracked' = version /\ UNCHANGED <<listing, homes, mishaps, breaks>>
     \/ HalfWritten("install") /\ mishaps' = mishaps \cup {"versions"}
  /\ memDir' = TRUE
  /\ rounds' = IF "registry" \in mishaps \/ rounds = 2 THEN rounds ELSE rounds + 1
  /\ UNCHANGED <<place, version, sessions, notes, left, failed, spoilt, listed>>

-----------------------------------------------------------------------------
\* Linking a skill, or copying it: install.js and skill_sync.js do the same.

\* skill_sync reads the directory, where a link that leads nowhere is an entry,
\* and then installs what it has not found.
SyncScan ==
  LET missing == {s \in Listed : skillsDir[s] = Nothing} IN
  /\ at["sync"] = "idle" /\ "gemini" \in Targets /\ missing # {}
  /\ Goto("sync", "link") /\ left' = [left EXCEPT !["sync"] = missing]
  /\ UNCHANGED <<package, homes, project, told, breaks>>

NextSkill(c) ==
  LET rest == left[c] \ {Current(c)} IN
  /\ left' = [left EXCEPT ![c] = rest]
  /\ Goto(c, IF c = "install" THEN "gemini" ELSE IF rest = {} THEN "idle" ELSE "link")

\* skill_sync overtakes an install that has found nothing there.
Beside(c) ==
  IF c = "sync" /\ at["install"] = "make" /\ Current("install") = Current("sync")
  THEN mishaps \cup {"race"} ELSE mishaps

\* symlinkSync makes a link where nothing is, if the system lets it.
\* Slip: a link that is there is taken for installed.
LinkUnlessThere(c) ==
  LET s == Current(c) IN
  /\ at[c] = "link"
  /\ \/ /\ skillsDir[s] = Nothing
        /\ skillsDir' = [skillsDir EXCEPT ![s] = [link |-> place]]
        /\ NextSkill(c) /\ mishaps' = Beside(c)
     \/ IsLink(s) /\ NextSkill(c) /\ UNCHANGED <<skillsDir, mishaps>>
     \/ Goto(c, "look") /\ UNCHANGED <<skillsDir, left, mishaps>>
  /\ UNCHANGED <<package, commands, project, failed, spoilt, listed, rounds, breaks>>
Link(c) ==
  LET s == Current(c) IN
  /\ at[c] = "link"
  /\ \/ /\ skillsDir[s] = Nothing
        /\ skillsDir' = [skillsDir EXCEPT ![s] = [link |-> place]]
        /\ NextSkill(c) /\ mishaps' = Beside(c)
     \/ Goto(c, "look") /\ UNCHANGED <<skillsDir, left, mishaps>>
  /\ UNCHANGED <<package, commands, project, failed, spoilt, listed, rounds, breaks>>

\* copyRecursive looks if there is a directory, through a link that leads to one.
\* Slip: it does not look.
NeverLook(c) ==
  /\ at[c] = "look" /\ Goto(c, "make")
  /\ UNCHANGED <<package, homes, project, left, told, breaks>>
Look(c) ==
  LET s == Current(c) IN
  /\ at[c] = "look"
  /\ Goto(c, IF skillsDir[s] = Nothing \/ Dangling(s) THEN "make" ELSE "fill")
  /\ UNCHANGED <<package, homes, project, left, told, breaks>>

\* mkdirSync throws where there is something, be it a link that leads nowhere.
MakeDir(c) ==
  LET s == Current(c) IN
  /\ at[c] = "make"
  /\ \/ /\ skillsDir[s] = Nothing
        /\ skillsDir' = [skillsDir EXCEPT ![s] = [copy |-> Nothing]]
        /\ Goto(c, "fill") /\ mishaps' = Beside(c) /\ UNCHANGED left
     \/ skillsDir[s] # Nothing /\ Throw(c) /\ UNCHANGED <<skillsDir, mishaps>>
  /\ UNCHANGED <<package, commands, project, failed, spoilt, listed, rounds, breaks>>

\* copyFileSync, through a link onto the skill itself; there may be no
\* directory any more.
CopyIn(c) ==
  LET s == Current(c) IN
  /\ at[c] = "fill"
  /\ \/ IsCopy(s) /\ skillsDir' = [skillsDir EXCEPT ![s] = [copy |-> Content(s)]] /\ NextSkill(c)
     \/ IsLink(s) /\ ~Dangling(s) /\ UNCHANGED skillsDir /\ NextSkill(c)
     \/ (skillsDir[s] = Nothing \/ Dangling(s)) /\ UNCHANGED skillsDir /\ Throw(c)
  /\ UNCHANGED <<package, commands, project, told, breaks>>

PutSkill(c) == Link(c) \/ Look(c) \/ MakeDir(c) \/ CopyIn(c)

InstallStep ==
  \/ StartInstall \/ CopyCommand \/ LoopEnds \/ RemoveOld \/ PutSkill("install")
  \/ Scaffold \/ MakeMemory \/ MakeSessions \/ Seed \/ BootstrapGraph \/ Rebuild \/ Track
  \/ CallFails("install") \/ Interrupt

SyncStep == SyncScan \/ PutSkill("sync") \/ CallFails("sync")

InstallNext ==
  \/ \E s \in Skills, to \in place..MaxPlace : NewPackage(s, to)
  \/ UseProject
  \/ InstallStep
  \/ SyncStep

InstallSpec == InstallInit /\ [][InstallNext]_installVars

-----------------------------------------------------------------------------
(* Every variable holds a value of its kind.                               *)
InstallTypeOK ==
  LET listings == [Skills -> 1..MaxVersion] \cup {Nothing}
      contents(s) == IF s = Index THEN listings ELSE (1..MaxVersion) \cup {Nothing}
      copying == {"link", "look", "make", "fill"}
  IN  /\ place \in 1..MaxPlace
      /\ version \in [Skills -> 1..MaxVersion] /\ {listing, listed, tracked} \subseteq listings
      /\ \A s \in Listed :
           /\ commands[s] \in contents(s)
           /\ \/ skillsDir[s] = Nothing \/ skillsDir[s] \in [link : 1..MaxPlace]
              \/ skillsDir[s] \in [copy : contents(s)]
      /\ {memDir, sessions} \subseteq BOOLEAN /\ notes \in {"absent", "fresh", "lessons"}
      /\ at["install"] \in Resting \cup copying \cup {"claude", "gemini", "scaffold", "memory",
                                     "sessions", "seed", "graph", "registry", "track"}
      /\ at["sync"] \in {"idle"} \cup copying
      /\ {left["install"], left["sync"], failed, spoilt} \subseteq SUBSET Listed
      /\ mishaps \subseteq {"race", "early", "call", "registry", "versions"}
      /\ rounds \in 0..2 /\ breaks \in 0..MaxBreaks

(* When an install is done, every skill of the package is in every home in *)
(* its current version, whatever earlier installs left behind and          *)
(* skill_sync did meanwhile, unless the install has warned of it or        *)
(* skill_sync has broken off in the middle of copying it; and what         *)
(* skill_versions.json says is the package's, or was warned of.  Only the  *)
(* list of skills is another: that of before the registry was rebuilt,     *)
(* where it is not a link.                                                 *)
InstalledIsCurrent ==
  at["install"] = "done" =>
    /\ tracked = version \/ "versions" \in mishaps
    /\ \A s \in Listed :
         LET there == IF s = Index THEN listed ELSE version[s]
         IN  /\ "claude" \in Targets => s \in failed \/ commands[s] = there
             /\ "gemini" \in Targets =>
                  \/ skillsDir[s] = [link |-> place]
                  \/ skillsDir[s] \in [copy : {there, Content(s)}]
                  \/ s \in spoilt

(* The list of skills that install.js copies before it builds it is right  *)
(* after the second install of a package, if not after the first: where    *)
(* both could build it.                                                    *)
SecondInstallSettles ==
  (at["install"] = "done" /\ rounds = 2 /\ "claude" \in Targets) =>
    commands[Index] = version \/ Index \in failed

(* An install that throws, and so leaves the rest undone, does so because  *)
(* a call of its own failed, because of a link into where the package was  *)
(* before it moved, or because somebody made the directory between its     *)
(* look and its making it: never for what an interrupted install or        *)
(* skill_sync has left behind.                                             *)
ThrowsOnlyIfDisturbed ==
  at["install"] = "threw" =>
    \/ "call" \in mishaps
    \/ "race" \in mishaps
    \/ left["install"] # {} /\ Dangling(Current("install"))

(* What an evolve agent has written in EVOLUTION.md no install writes its  *)
(* template over, not even one after an interrupted one: except for        *)
(* lessons written while that very install was between making .memory and  *)
(* writing the template.                                                   *)
LessonsKept ==
  [][notes = "lessons" /\ notes' # "lessons" => "early" \in mishaps]_installVars
=============================================================================
