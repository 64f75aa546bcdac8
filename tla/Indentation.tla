------------------------------ MODULE Indentation ------------------------------
(***************************************************************************)
(* preprocess, of the indentation pass: it reads a source line by line and    *)
(* writes the braces the grammar wants.  A line is its kind and its indent.    *)
(* A header ends in a colon and opens a block; the block of an unsafe header    *)
(* is copied as it is.  Braces that close are written behind the last line.    *)
(***************************************************************************)
EXTENDS Integers, Sequences, SequencesExt, FiniteSets

CONSTANTS Indents, MaxLines

ASSUME IndentsAssumption == Indents \subseteq Nat /\ 0 \in Indents /\ MaxLines \in Nat

Kinds == {"plain", "header", "unsafe"}
Blank == [kind |-> "blank", indent |-> 0]         \* empty, or a comment alone
Lines == [kind : Kinds, indent : Indents] \cup {Blank}

VARIABLES
  read,           \* the source lines so far
  lines,          \* what was written for each: whether it opens, how often it closes
  stack,          \* the columns of the blocks under way, outermost first
  pending,        \* pending_open: the last line was a header
  unsafe,         \* unsafe_header_indent, in a set: empty, or the column
  status

vars == <<read, lines, stack, pending, unsafe, status>>

-----------------------------------------------------------------------------
Column == Last(stack)

(* push_closer, n times: the braces go behind the last line, if there is one.   *)
Closed(line, n) == [line EXCEPT !.closes = @ + n]

Closing(n) ==
  IF lines = <<>> THEN lines ELSE [lines EXCEPT ![Len(lines)] = Closed(@, n)]

Written(opens) == [opens |-> opens, closes |-> 0]

(* Slip: blank lines are dropped.                                            *)
DropBlank == UNCHANGED <<lines, stack, pending, unsafe, status>>

(* A blank line is written and nothing else looks at it.                     *)
ReadBlank ==
  /\ lines' = Append(lines, Written(FALSE))
  /\ UNCHANGED <<stack, pending, unsafe, status>>

(* A line inside an unsafe block.                                           *)
ReadRaw(l) ==
  /\ \E column \in unsafe : l.indent > column
  /\ lines' = Append(lines, Written(FALSE))
  /\ UNCHANGED <<stack, pending, unsafe, status>>

(* Slip: only the innermost block ends.                                      *)
UnwoundOnce(columns, indent) ==
  IF Last(columns) > indent THEN Front(columns) ELSE columns

(* The blocks that are deeper than the line end, the innermost first.          *)
Unwound(columns, indent) ==
  SubSeq(columns, 1, Max({i \in DOMAIN columns : columns[i] <= indent}))

(* Slip: a header must be followed by a deeper line to have a block at all.   *)
EmptyClosedNever(indent) == 0

(* A header without a body is closed at once.                                *)
EmptyClosed(indent) == IF pending /\ indent <= Column THEN 1 ELSE 0

(* Any other line first ends what it is not part of.                         *)
ReadCode(l) ==
  /\ \A column \in unsafe : l.indent <= column
  /\ LET entered == IF pending /\ l.indent > Column THEN Append(stack, l.indent) ELSE stack
         kept == Unwound(entered, l.indent)
         closed == Closing(Cardinality(unsafe) + EmptyClosed(l.indent) + Len(entered) - Len(kept))
     IN  /\ stack' = kept
         /\ IF l.indent = Last(kept)
            THEN /\ lines' = Append(closed, Written(l.kind # "plain"))
                 /\ pending' = (l.kind = "header")
                 /\ unsafe' = IF l.kind = "unsafe" THEN {l.indent} ELSE {}
                 /\ UNCHANGED status
            ELSE /\ lines' = closed /\ pending' = FALSE /\ unsafe' = {}
                 /\ status' = "error"

ReadLine ==
  /\ status = "reading" /\ Len(read) < MaxLines
  /\ \E l \in Lines :
       /\ read' = Append(read, l)
       /\ \/ l = Blank /\ ReadBlank
          \/ l # Blank /\ (ReadRaw(l) \/ ReadCode(l))

(* What is still open at the end of the file.                                *)
LeftOpen == Cardinality(unsafe) + (IF pending THEN 1 ELSE 0) + Len(stack) - 1

End ==
  /\ status = "reading"
  /\ status' = "done"
  /\ lines' = Closing(LeftOpen)
  /\ stack' = <<0>> /\ pending' = FALSE /\ unsafe' = {}
  /\ UNCHANGED read

Init ==
  /\ read = <<>> /\ lines = <<>>
  /\ stack = <<0>> /\ pending = FALSE /\ unsafe = {}
  /\ status = "reading"

Next == ReadLine \/ End

Spec == Init /\ [][Next]_vars

-----------------------------------------------------------------------------
(* What the indents of a file mean.  A header encloses the lines after it, up     *)
(* to the next line that is not deeper.                                      *)
Code(file, i) == file[i] # Blank

Encloses(file, j, i) ==
  /\ j < i /\ file[j].kind \in {"header", "unsafe"}
  /\ \A k \in j + 1 .. i : Code(file, k) => file[k].indent > file[j].indent

Raw(file, i) == \E j \in 1 .. i - 1 : file[j].kind = "unsafe" /\ Encloses(file, j, i)

Blocks(file, i) == {j \in 1 .. i - 1 : ~ Raw(file, j) /\ Encloses(file, j, i)}

(* The lines of a block are aligned; those outside any block start at 0.       *)
Aligned(file, i) ==
  /\ Blocks(file, i) = {} => file[i].indent = 0
  /\ \A k \in 1 .. i - 1 :
       Code(file, k) /\ ~ Raw(file, k) /\ Blocks(file, k) = Blocks(file, i)
         => file[k].indent = file[i].indent

(* The headers whose brace is open once line j is written, innermost last; 0     *)
(* stands for a brace that closes nothing.                                   *)
NowOpen(open, line, j) ==
  LET more == IF line.opens THEN Append(open, j) ELSE open
  IN  IF line.closes > Len(more) THEN <<0>> ELSE SubSeq(more, 1, Len(more) - line.closes)

OpenAfter(written) ==
  LET after[j \in 0 .. Len(written)] ==
        IF j = 0 THEN <<>> ELSE NowOpen(after[j - 1], written[j], j)
  IN  after

OpenBefore(i) == ToSet(OpenAfter(lines)[i - 1])

-----------------------------------------------------------------------------
(* One line is written for every line read, so that a line number in a later     *)
(* message is the source's; the stack of columns grows inwards.               *)
TypeOK ==
  /\ read \in Seq(Lines)
  /\ lines \in Seq([opens : BOOLEAN, closes : Nat])
  /\ status \in {"reading", "done", "error"}
  /\ Len(lines) = (IF status = "error" THEN Len(read) - 1 ELSE Len(read))
  /\ stack # <<>> /\ stack[1] = 0
  /\ \A i, j \in DOMAIN stack : i < j => stack[i] < stack[j]
  /\ unsafe \subseteq Indents /\ Cardinality(unsafe) <= 1

(* The braces that are open at a line are those of the headers that enclose it   *)
(* by indentation, for the lines of an unsafe block too, and at the end of the  *)
(* file every brace is closed.                                              *)
BlocksFollowIndents ==
  /\ status # "error" => \A i \in DOMAIN read : Code(read, i) => OpenBefore(i) = Blocks(read, i)
  /\ status = "done" => OpenBefore(Len(lines) + 1) = {}

(* A file is refused exactly when a line outside unsafe blocks is not aligned    *)
(* with its block.                                                          *)
RefusesMisaligned ==
  (status = "error") <=> \E i \in DOMAIN read : Code(read, i) /\ ~ Raw(read, i) /\ ~ Aligned(read, i)
=============================================================================
