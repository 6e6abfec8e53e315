----------------------------- MODULE AgentProcess -----------------------------
(***************************************************************************)
(* utils/agent_runner.js: one invocation of an agent, as a child process   *)
(* whose output is kept in a file while it comes in (invokeAgentCli), or   *)
(* as an HTTP request (invokeAgentHttp), up to the receipt in it           *)
(* (invokeAgentWithReceipt) and the verdict of the executor.               *)
(*                                                                         *)
(* The child, its descendants, the pipe, the server and the clock are not  *)
(* the program's: what it hears and when is any of their interleavings.    *)
(* stderr is only logged and does not count as activity.                   *)
(***************************************************************************)
EXTENDS Receipts

CONSTANTS
  Pieces,           \* the pieces of text an agent may write at a time
  MaxSaid           \* bound: how many of them it writes

ASSUME AgentAssumption == Pieces \subseteq Seq(Tokens) /\ MaxSaid \in Nat

VARIABLES
  provider,   \* "cli" or "http"
  link,       \* what the invocation is connected to: see AgentTypeOK
  said,       \* the pieces the child, or the server, has written
  heard,      \* the chunks node has read of it: `output', `accumulated'
  code,       \* the exit code of the child
  quiet,      \* no chunk came for PHASE_IDLE_TIMEOUT_MS
  watch,      \* the watchdog; "fired" is timedOut
  wal,        \* checkpoints/<phase>.attempt_<k>.out; <<>> is no file
  outcome,    \* "failed" or "ok": result.ok
  output      \* result.output

stream == <<said, heard>>
clock == <<code, quiet, watch>>
result == <<outcome, output>>
agentVars == <<provider, link, stream, clock, wal, result>>

AgentInit ==
  /\ provider = "none" /\ link = "none"
  /\ said = <<>> /\ heard = <<>>
  /\ code = 0 /\ quiet = FALSE /\ watch = "off"
  /\ wal = <<>>
  /\ outcome = "none" /\ output = <<>>

-----------------------------------------------------------------------------
\* How an invocation is answered

Fails == link' = "answered" /\ outcome' = "failed" /\ UNCHANGED output
Delivers(text) == link' = "answered" /\ outcome' = "ok" /\ output' = text

\* invokeAgentWithReceipt, and what the executor makes of the receipt
Receipt == ExtractReceipt(output)
Verdict ==
  IF outcome # "ok" THEN outcome
  ELSE IF Receipt = <<>> THEN "no receipt"
  ELSE IF Validates(Receipt) THEN "accepted" ELSE "rejected"

Invoke ==
  /\ link = "none"
  /\ \/ provider' = "cli" /\ link' = "child" /\ watch' = "armed"
     \/ provider' = "http" /\ link' = "connect" /\ watch' = "off"
  /\ UNCHANGED <<stream, code, quiet, wal, result>>

\* buildCommand or buildHttpRequest throws: no template, no URL.
Misconfigured ==
  /\ link = "none" /\ Fails
  /\ provider' \in {"cli", "http"}
  /\ UNCHANGED <<stream, clock, wal>>

-----------------------------------------------------------------------------
\* The agent, and the bytes on their way

Says(piece) ==
  /\ link \in {"child", "exited", "body"} /\ Len(said) < MaxSaid
  /\ said' = Append(said, piece)
  /\ UNCHANGED <<provider, link, heard, clock, wal, result>>

\* A chunk arrives; that of a child goes to the checkpoint as well.
Hears ==
  /\ link \in {"child", "exited", "closed", "body", "whole"}
  /\ Len(heard) < Len(said)
  /\ heard' = Append(heard, said[Len(heard) + 1])
  /\ wal' = IF provider = "cli" THEN Append(wal, said[Len(heard) + 1]) ELSE wal
  /\ quiet' = FALSE
  /\ UNCHANGED <<provider, link, said, code, watch, result>>

TimePasses ==
  /\ link \in {"child", "exited"} /\ heard = said
  /\ ~quiet /\ quiet' = TRUE
  /\ UNCHANGED <<provider, link, stream, code, watch, wal, result>>

\* SIGTERM, once.  Slip: only an agent that has begun to speak is watched.
FiresIfHeard ==
  /\ watch = "armed" /\ quiet /\ heard # <<>> /\ link \in {"child", "exited"}
  /\ watch' = "fired"
  /\ UNCHANGED <<provider, link, stream, code, quiet, wal, result>>
WatchdogFires ==
  /\ watch = "armed" /\ quiet /\ link \in {"child", "exited"}
  /\ watch' = "fired"
  /\ UNCHANGED <<provider, link, stream, code, quiet, wal, result>>

ChildExits ==
  /\ link = "child" /\ link' = "exited"
  /\ code' \in {0, 1}
  /\ UNCHANGED <<provider, stream, quiet, watch, wal, result>>

\* Whoever else held the pipes has let go of them.
PipesClose ==
  /\ link = "exited" /\ link' = "closed"
  /\ UNCHANGED <<provider, stream, clock, wal, result>>

-----------------------------------------------------------------------------
\* The handlers

\* Slip: the file is not needed any more, whatever the code.
RemoveWal == <<>>
WalAfterClose == IF code = 0 THEN <<>> ELSE wal

\* child.on('close'), after the last chunk.
\* Slip: child.on('exit'), when chunks may still be in the pipe.
OnExit ==
  /\ link = "exited"
  /\ wal' = WalAfterClose
  /\ IF watch = "fired" \/ code # 0 THEN Fails ELSE Delivers(FlattenSeq(heard))
  /\ watch' = IF watch = "armed" THEN "off" ELSE watch
  /\ UNCHANGED <<provider, stream, code, quiet>>
OnClose ==
  /\ link = "closed" /\ heard = said
  /\ wal' = WalAfterClose
  /\ IF watch = "fired" \/ code # 0 THEN Fails ELSE Delivers(FlattenSeq(heard))
  /\ watch' = IF watch = "armed" THEN "off" ELSE watch
  /\ UNCHANGED <<provider, stream, code, quiet>>

\* child.on('error'): it could not be spawned.
OnError ==
  /\ link = "child" /\ said = <<>> /\ watch = "armed" /\ Fails
  /\ watch' = "off"
  /\ UNCHANGED <<provider, stream, code, quiet, wal>>

\* The headers arrive, and the timer is cleared.
HeadersArrive ==
  /\ link = "connect" /\ link' = "body"
  /\ UNCHANGED <<provider, stream, clock, wal, result>>

\* The timer aborts the request, or the connection fails.
ConnectFails ==
  /\ link = "connect" /\ Fails
  /\ UNCHANGED <<provider, stream, clock, wal>>

\* The server ends the body, or breaks it off, or fetch gives up on it.
BodyEnds ==
  /\ link = "body" /\ link' = "whole"
  /\ UNCHANGED <<provider, stream, clock, wal, result>>
BodyBreaks ==
  /\ link = "body" /\ Fails
  /\ UNCHANGED <<provider, stream, clock, wal>>

\* extractText finds nothing in an answer that is not in AGENT_API_FORMAT.
ExtractText(body) == {FlattenSeq(body), <<>>}

\* Not JSON or not a 2xx fails; the rest is delivered.
OnBody ==
  /\ link = "whole" /\ heard = said
  /\ \/ Fails
     \/ \E text \in ExtractText(heard) : Delivers(text)
  /\ UNCHANGED <<provider, stream, clock, wal>>

NodeDies ==
  /\ link \notin {"none", "answered", "died"} /\ link' = "died"
  /\ UNCHANGED <<provider, stream, clock, wal, result>>

\* What goes on by itself: a child that was told to, exits.
AgentProgress ==
  \/ Hears \/ TimePasses \/ WatchdogFires
  \/ watch = "fired" /\ ChildExits
  \/ PipesClose \/ OnClose \/ ConnectFails \/ BodyBreaks \/ OnBody

AgentNext ==
  \/ Invoke \/ Misconfigured \/ ChildExits \/ OnError \/ HeadersArrive \/ BodyEnds
  \/ \E piece \in Pieces : Says(piece)
  \/ AgentProgress
  \/ NodeDies

AgentFairness == WF_agentVars(AgentProgress)
AgentSpec == AgentInit /\ [][AgentNext]_agentVars

-----------------------------------------------------------------------------
(* Every variable holds a value of its kind, and what node has heard is    *)
(* the beginning of what was said, in its order.                           *)
AgentTypeOK ==
  /\ provider \in {"none", "cli", "http"}
  /\ link \in {"none", "child", "exited", "closed", "connect", "body", "whole",
               "answered", "died"}
  /\ said \in Seq(Pieces) /\ IsPrefix(heard, said) /\ IsPrefix(wal, said)
  /\ code \in {0, 1} /\ quiet \in BOOLEAN /\ watch \in {"off", "armed", "fired"}
  /\ outcome \in {"none", "failed", "ok"} /\ output \in Seq(Tokens)

(* A child's output is judged only when it is all there: the child ended   *)
(* with code 0 in time, every byte it or a descendant wrote has been read, *)
(* and its checkpoint is gone (invokeAgentCli waits for close, not exit).  *)
OkIsComplete ==
  (provider = "cli" /\ outcome = "ok") =>
    output = FlattenSeq(said) /\ code = 0 /\ watch # "fired" /\ wal = <<>>

(* Whatever a child that fails, or is still running when node dies, said   *)
(* up to then is in its checkpoint, for the next attempt's prompt; only    *)
(* code 0 removes it.                                                      *)
WalKeepsOutput ==
  (provider = "cli" /\ (link # "answered" \/ code # 0)) => wal = heard

(* When all braces of the output match, the receipt is the last object of  *)
(* it with a phase and a status that is not inside another, and if that    *)
(* has what the schema requires, the attempt is accepted.                  *)
ReceiptIsLast ==
  (outcome = "ok" /\ Tidy(output)) =>
    LET last == LastReceipt(output)
    IN  /\ Receipt = last
        /\ Verdict = "accepted" <=> (last # <<>> /\ last[2] = "full")

(* An output that ends with a receipt has its receipt found, whatever      *)
(* stands before it: "Extract the last valid JSON object from a text       *)
(* string" (pipeline_schemas.js:63).                                       *)
ReceiptFound ==
  (outcome = "ok" /\ EndsWithReceipt(output)) => Verdict # "no receipt"

(* Every invocation is answered, or node dies: a silent child is stopped   *)
(* by the watchdog, a request by its timer or the end of its body.         *)
InvocationEnds ==
  link \in {"child", "connect"} ~> link \in {"answered", "died"}
=============================================================================
