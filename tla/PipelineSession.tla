---------------------------- MODULE PipelineSession ----------------------------
(***************************************************************************)
(* What a pipeline session promises to the people who start, resume and    *)
(* inspect it, with nothing said of processes, lock files or writes: the   *)
(* phases of the plan are recorded complete one at a time, in the plan's   *)
(* order, each only when a receipt for it is on disk; what is recorded is  *)
(* never taken back, and a session is complete only when every phase is.   *)
(* The one thing that may happen to it is to be lost whole.                *)
(***************************************************************************)
EXTENDS Naturals, Sequences

CONSTANT Plan           \* the phases of the session, in order

VARIABLES
  done,                 \* the phases recorded complete
  receipts,             \* the phases whose receipt can be read
  status                \* "new", "open", "halted", "complete" or "lost"

vars == <<done, receipts, status>>

Statuses == {"new", "open", "halted", "complete", "lost"}

Init ==
  /\ done = <<>>
  /\ receipts = {}
  /\ status = "new"

Left == Len(done) < Len(Plan)

Due == Plan[Len(done) + 1]

Open ==
  /\ status \in {"new", "halted"}
  /\ status' = "open"
  /\ UNCHANGED <<done, receipts>>

\* The one receipt that may come, go or change is that of the phase due.
WriteReceipt ==
  /\ status = "open"
  /\ Left
  /\ receipts' \in {receipts \cup {Due}, receipts \ {Due}}
  /\ UNCHANGED <<done, status>>

Complete ==
  /\ status = "open"
  /\ Left
  /\ Due \in receipts
  /\ done' = Append(done, Due)
  /\ UNCHANGED <<receipts, status>>

Halt ==
  /\ status = "open"
  /\ Left
  /\ status' = "halted"
  /\ UNCHANGED <<done, receipts>>

Finish ==
  /\ status = "open"
  /\ ~Left
  /\ status' = "complete"
  /\ UNCHANGED <<done, receipts>>

Lose ==
  /\ status # "lost"
  /\ status' = "lost"
  /\ done' = <<>>
  /\ UNCHANGED receipts

Next == Open \/ WriteReceipt \/ Complete \/ Halt \/ Finish \/ Lose

Spec == Init /\ [][Next]_vars
=============================================================================
