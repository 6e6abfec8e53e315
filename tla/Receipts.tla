------------------------------- MODULE Receipts -------------------------------
(***************************************************************************)
(* utils/pipeline_schemas.js: how a receipt is found in what an agent said *)
(* (extractReceipt) and judged (validate), and what a receipt is.          *)
(*                                                                         *)
(* A text is a sequence of what the scan and JSON.parse tell apart:        *)
(*   open, close   a brace                                                 *)
(*   full          members with all the schema requires, status "ok"       *)
(*   bare          members phase and status, but not all of that           *)
(*   quoted        a member whose string holds a closing brace             *)
(*   prose         any other text                                          *)
(***************************************************************************)
EXTENDS Integers, Sequences, SequencesExt, FiniteSets, FiniteSetsExt

Tokens == {"open", "close", "full", "bare", "quoted", "prose"}

-----------------------------------------------------------------------------
\* What a receipt is, without regard to how it is looked for

\* Braces that are not inside a string, up to place n.
Level(text, n) == Cardinality({i \in 1..n : text[i] = "open"})
                - Cardinality({i \in 1..n : text[i] = "close"})

\* One JSON object that has a phase and a status.
IsReceipt(b) ==
  /\ Len(b) >= 3 /\ b[1] = "open" /\ b[2] \in {"full", "bare"}
  /\ "prose" \notin ToSet(b)
  /\ Level(b, Len(b)) = 0 /\ \A n \in 1..(Len(b) - 1) : Level(b, n) > 0

EndsWithReceipt(text) ==
  \E i \in 1..Len(text) : IsReceipt(SubSeq(text, i, Len(text)))

\* The last receipt that is not inside another object.
LastReceipt(text) ==
  LET ends == {j \in 1..Len(text) : \E i \in 1..j :
                 Level(text, i - 1) = 0 /\ IsReceipt(SubSeq(text, i, j))}
      last == Max(ends)
      first == CHOOSE i \in 1..last :
                 Level(text, i - 1) = 0 /\ IsReceipt(SubSeq(text, i, last))
  IN  IF ends = {} THEN <<>> ELSE SubSeq(text, first, last)

\* All braces are matched and none is inside a string.
Tidy(text) ==
  /\ "quoted" \notin ToSet(text)
  /\ Level(text, Len(text)) = 0 /\ \A n \in 1..Len(text) : Level(text, n) >= 0

-----------------------------------------------------------------------------
\* The code

\* The loop over the characters: depth, start (0 for -1) and blocks.
\* Slip: start is set at every opening brace.
OpensAnew(scan, i) == [scan EXCEPT !.depth = @ + 1, !.start = i]
Opens(scan, i) ==
  [scan EXCEPT !.depth = @ + 1, !.start = IF scan.depth = 0 THEN i ELSE @]

Closes(scan, i) ==
  IF scan.depth = 1 /\ scan.start # 0
  THEN [depth |-> 0, start |-> 0, blocks |-> Append(scan.blocks, <<scan.start, i>>)]
  ELSE [scan EXCEPT !.depth = @ - 1]

Blocks(text) ==
  FoldLeftDomain(LAMBDA scan, i :
      CASE text[i] = "open" -> Opens(scan, i)
        [] text[i] \in {"close", "quoted"} -> Closes(scan, i)
        [] OTHER -> scan,
    [depth |-> 0, start |-> 0, blocks |-> <<>>], text).blocks

\* JSON.parse and the two members; what the scan cut short does not parse.
ParsesAsReceipt(text, block) == IsReceipt(SubSeq(text, block[1], block[2]))

\* The blocks are tried from the last.
\* Slip: they are tried from the first.
ExtractFirst(text) ==
  LET blocks == Blocks(text)
      k == SelectInSeq(blocks, LAMBDA b : ParsesAsReceipt(text, b))
  IN  IF k = 0 THEN <<>> ELSE SubSeq(text, blocks[k][1], blocks[k][2])
ExtractReceipt(text) ==
  LET blocks == Blocks(text)
      k == SelectLastInSeq(blocks, LAMBDA b : ParsesAsReceipt(text, b))
  IN  IF k = 0 THEN <<>> ELSE SubSeq(text, blocks[k][1], blocks[k][2])

\* validate(phase, receipt).ok, and the status is "ok"
Validates(receipt) == receipt[2] = "full"
=============================================================================
