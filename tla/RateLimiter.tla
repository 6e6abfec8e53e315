------------------------------ MODULE RateLimiter ------------------------------
(***************************************************************************)
(* rate_limit_middleware in ocr_memory_rust/src/main.rs: a counter and the *)
(* start of its window for each key header, in a map behind a mutex.       *)
(*                                                                         *)
(* A request reads the clock (in whole seconds, never set back) before it  *)
(* asks for the mutex, so it may count itself under a time that has passed.*)
(***************************************************************************)
EXTENDS Integers, FiniteSets, Functions

CONSTANTS
  Requests,    \* those that are being checked at one time
  Headers,     \* x-api-key, authorization or "anonymous"
  RpmLimit,    \* RATE_LIMIT_RPM
  Minute,      \* 60 seconds
  MaxEntries,  \* 1000 entries
  NoEntry,     \* the header is not in the map
  MaxWait,     \* bound: the seconds a request waits for the mutex
  MaxClock     \* bound of the clock

ASSUME LimiterAssumption ==
  /\ RpmLimit \in Nat /\ Minute \in Nat \ {0} /\ MaxEntries \in Nat
  /\ MaxWait \in 0..(Minute - 1) /\ MaxClock \in Nat
  /\ NoEntry \notin [count : Nat, window : Nat]

VARIABLES
  seconds,     \* seconds since the service was started
  limiter,     \* the map
  header,      \* what a request is counted under, or NoEntry
  nowSecs,     \* the time it has read
  passed,      \* history: how many passed under each header, by seconds ago
  refused      \* history: the headers that were refused in this second

limiterVars == <<seconds, limiter, header, nowSecs, passed, refused>>

Ages == 0..(Minute + MaxWait)

LimiterInit ==
  /\ seconds = 0
  /\ limiter = [h \in Headers |-> NoEntry]
  /\ header = [r \in Requests |-> NoEntry]
  /\ nowSecs = [r \in Requests |-> 0]
  /\ passed = [h \in Headers |-> [a \in Ages |-> 0]]
  /\ refused = {}

ReadClock(r, h) ==
  /\ header[r] = NoEntry /\ header' = [header EXCEPT ![r] = h]
  /\ nowSecs' = [nowSecs EXCEPT ![r] = seconds]
  /\ UNCHANGED <<seconds, limiter, passed, refused>>

\* saturating_sub
Since(now, window) == IF now > window THEN now - window ELSE 0

\* A map that has grown is rid of windows two minutes old.
\* Slip: of everything.
ClearedAll(now) ==
  IF Cardinality({h \in Headers : limiter[h] # NoEntry}) <= MaxEntries THEN limiter
  ELSE [h \in Headers |-> NoEntry]
Pruned(now) ==
  IF Cardinality({h \in Headers : limiter[h] # NoEntry}) <= MaxEntries THEN limiter
  ELSE [h \in Headers |->
          IF limiter[h] # NoEntry /\ Since(now, limiter[h].window) < 2 * Minute
          THEN limiter[h] ELSE NoEntry]

\* The window a request falls into; a minute old, it begins anew.  Refused
\* requests are counted on, here only up to the first.
Entry(e, now) ==
  IF e = NoEntry \/ Since(now, e.window) >= Minute
  THEN [count |-> 1, window |-> now]
  ELSE [e EXCEPT !.count = IF @ > RpmLimit THEN @ ELSE @ + 1]

Count(r) ==
  LET h == header[r]
      map == Pruned(nowSecs[r])
      entry == Entry(map[h], nowSecs[r])
  IN  /\ h # NoEntry /\ header' = [header EXCEPT ![r] = NoEntry]
      /\ limiter' = [map EXCEPT ![h] = entry]
      /\ IF entry.count > RpmLimit
         THEN refused' = refused \cup {h} /\ UNCHANGED passed
         ELSE passed' = [passed EXCEPT ![h][0] = @ + 1] /\ UNCHANGED refused
      /\ nowSecs' = [nowSecs EXCEPT ![r] = 0]
      /\ UNCHANGED seconds

Second ==
  /\ seconds < MaxClock /\ seconds' = seconds + 1
  /\ \A r \in Requests : header[r] # NoEntry => seconds - nowSecs[r] < MaxWait
  /\ passed' = [h \in Headers |->
                  [a \in Ages |-> IF a = 0 THEN 0 ELSE passed[h][a - 1]]]
  /\ refused' = {}
  /\ UNCHANGED <<limiter, header, nowSecs>>

LimiterNext ==
  \/ \E r \in Requests : Count(r) \/ \E h \in Headers : ReadClock(r, h)
  \/ Second

LimiterSpec == LimiterInit /\ [][LimiterNext]_limiterVars

-----------------------------------------------------------------------------
(* Every variable holds a value of its kind.                               *)
LimiterTypeOK ==
  /\ seconds \in 0..MaxClock
  /\ \A h \in Headers :
       \/ limiter[h] = NoEntry
       \/ limiter[h].count \in 1..(RpmLimit + 1) /\ limiter[h].window \in 0..seconds
  /\ \A r \in Requests : header[r] \in Headers \cup {NoEntry} /\ nowSecs[r] \in 0..seconds
  /\ \A h \in Headers : passed[h] \in [Ages -> Nat]
  /\ refused \subseteq Headers

PassedWithin(h, n) == SumFunctionOnSet(passed[h], 0..n)

(* However the windows fall, and whatever is pruned, at most twice the     *)
(* limit passes under one header in a minute (less the wait for the mutex);*)
(* and who is refused shares the last minute (and that wait) with as many  *)
(* requests that passed as the limit lets: "Retry after 60 seconds".       *)
TwiceTheLimit ==
  \A h \in Headers :
    /\ PassedWithin(h, Minute - MaxWait) <= 2 * RpmLimit
    /\ h \in refused => PassedWithin(h, Minute + MaxWait - 1) >= RpmLimit
=============================================================================
