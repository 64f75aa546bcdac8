--------------------------- MODULE IndentationProofs ---------------------------
(***************************************************************************)
(* Theorems about Indentation, for every file and every set of columns.       *)
(*                                                                         *)
(* While the pass reads, the headers whose braces are open are exactly those   *)
(* that the next line could still belong to; the stack holds their columns,    *)
(* but for the last one, which waits in pending or in unsafe.  A line that is  *)
(* in its place therefore closes the headers from the first that is not left   *)
(* of it, and a line that is not finds a line of the same block elsewhere.     *)
(***************************************************************************)
EXTENDS Indentation, FiniteSetTheorems, SequenceTheorems, WellFoundedInduction, TLAPS

(* Every nonempty set of natural numbers has a least element.  A fact about a   *)
(* recursive function is proved from it for every argument: the least argument   *)
(* that fails would have a smaller one that fails.                           *)
LEMMA LeastNatural ==
  ASSUME NEW S \in SUBSET Nat, S # {}
  PROVE  \E n \in S : \A k \in S : n <= k
<1> DEFINE R == OpToRel(<, Nat)
<1>1. IsWellFoundedOn(R, Nat)
  BY NatLessThanWellFounded
<1>2. ASSUME NEW k \in Nat, NEW n \in Nat, k < n
      PROVE  <<k, n>> \in R
  BY <1>2 DEF OpToRel
<1> HIDE DEF R
<1>3. PICK n \in S : \A k \in S : ~ (<<k, n>> \in R)
  BY <1>1, WFMin
<1>4. ASSUME NEW k \in S
      PROVE  n <= k
  <2>1. k \in Nat /\ n \in Nat
    OBVIOUS
  <2>2. ~ (k < n)
    BY <1>2, <1>3, <2>1
  <2> QED BY <2>1, <2>2
<1> QED BY <1>4

(* A nonempty set of natural numbers with an upper bound has a greatest one.     *)
LEMMA GreatestNatural ==
  ASSUME NEW S \in SUBSET Nat, S # {}, NEW b \in Nat, \A k \in S : k <= b
  PROVE  \E n \in S : \A k \in S : k <= n
<1> DEFINE D == {d \in Nat : \E k \in S : d = b - k}
<1>1. D \in SUBSET Nat /\ D # {}
  <2>1. PICK k \in S : TRUE
    OBVIOUS
  <2>2. b - k \in D
    BY <2>1
  <2> QED BY <2>2
<1>2. PICK d \in D : \A e \in D : d <= e
  <2> HIDE DEF D
  <2> QED BY <1>1, LeastNatural
<1>3. PICK n \in S : d = b - n
  BY <1>2
<1>4. ASSUME NEW k \in S
      PROVE  k <= n
  <2>1. b - k \in D
    OBVIOUS
  <2> QED BY <1>2, <1>3, <2>1
<1> QED BY <1>4

Opens == {"header", "unsafe"}

(* A header outside unsafe blocks that no later line of the file has ended.     *)
StillOpen(file, j) ==
  /\ file[j].kind \in Opens /\ ~ Raw(file, j)
  /\ \A k \in j + 1 .. Len(file) : Code(file, k) => file[k].indent > file[j].indent

(* The headers whose brace is open now, innermost last, and the outer m.       *)
Open == OpenAfter(lines)[Len(lines)]
Outer(m) == {Open[k] : k \in 1 .. m}

(* One line is written for each line read, the last is not closed yet, and the *)
(* columns grow inwards.                                                     *)
LinesInv ==
  /\ Len(lines) = Len(read)
  /\ lines # <<>> => lines[Len(lines)].closes = 0
  /\ stack \in Seq(Indents) /\ stack # <<>> /\ stack[1] = 0
  /\ \A i, j \in DOMAIN stack : i < j => stack[i] < stack[j]
  /\ pending \in BOOLEAN
  /\ unsafe = {} \/ (unsafe = {Last(stack)} /\ ~ pending)

(* The open braces are of the headers that no line has ended yet, in order.     *)
OpenInv ==
  /\ Open \in Seq(DOMAIN read)
  /\ \A a, b \in DOMAIN Open :
       a < b => Open[a] < Open[b] /\ read[Open[a]].indent < read[Open[b]].indent
  /\ \A j \in DOMAIN read : (\E a \in DOMAIN Open : Open[a] = j) <=> StillOpen(read, j)

(* Each column but the innermost is that of a header whose brace is open; the    *)
(* header without a body yet, or the unsafe one, is at the innermost.          *)
StackInv ==
  /\ Len(Open) = Len(stack) - 1 + (IF pending \/ unsafe # {} THEN 1 ELSE 0)
  /\ \A k \in DOMAIN Open : read[Open[k]].indent = stack[k]
  /\ \A k \in DOMAIN Open :
       (read[Open[k]].kind = "unsafe") <=> (k = Len(Open) /\ unsafe # {})
  /\ pending => \A k \in Open[Len(Open)] + 1 .. Len(read) : ~ Code(read, k)

(* The lines outside unsafe blocks are aligned; a line whose block is still      *)
(* open is at that block's column, and every block under way has such a line.  *)
AlignInv ==
  /\ \A i \in DOMAIN read : Code(read, i) /\ ~ Raw(read, i) => Aligned(read, i)
  /\ \A i \in DOMAIN read, m \in DOMAIN stack :
       m - 1 <= Len(Open) /\ Code(read, i) /\ ~ Raw(read, i) /\ Blocks(read, i) = Outer(m - 1)
         => read[i].indent = stack[m]
  /\ \A m \in 2 .. Len(stack) :
       \E i \in DOMAIN read : Code(read, i) /\ ~ Raw(read, i) /\ Blocks(read, i) = Outer(m - 1)

(* Every line read so far has the braces it should have.                       *)
Braced == \A i \in DOMAIN read : Code(read, i) => OpenBefore(i) = Blocks(read, i)

IInv ==
  /\ TypeOK
  /\ status = "reading" => LinesInv /\ OpenInv /\ StackInv /\ AlignInv /\ Braced
  /\ BlocksFollowIndents
  /\ RefusesMisaligned

-----------------------------------------------------------------------------
(* What OpenAfter computes.                                                  *)
Written1 == [opens : BOOLEAN, closes : Nat]

LEMMA NowOpenType ==
  ASSUME NEW open \in Seq(Nat), NEW line \in Written1, NEW j \in Nat
  PROVE  NowOpen(open, line, j) \in Seq(Nat)
<1> DEFINE more == IF line.opens THEN Append(open, j) ELSE open
<1>1. more \in Seq(Nat)
  OBVIOUS
<1>2. line.closes \in Nat
  BY DEF Written1
<1>3. CASE line.closes > Len(more)
  <2>1. NowOpen(open, line, j) = <<0>>
    BY <1>3 DEF NowOpen
  <2> QED BY <2>1
<1>4. CASE ~ (line.closes > Len(more))
  <2>1. NowOpen(open, line, j) = SubSeq(more, 1, Len(more) - line.closes)
    BY <1>4 DEF NowOpen
  <2> HIDE DEF more
  <2> QED BY <2>1, <1>1, <1>2, <1>4
<1> QED BY <1>3, <1>4

(* Its recursion has a value for every sequence of lines.                      *)
LEMMA OpenAfterDef ==
  ASSUME NEW w \in Seq(Written1)
  PROVE  /\ OpenAfter(w) \in [0 .. Len(w) -> Seq(Nat)]
         /\ OpenAfter(w)[0] = <<>>
         /\ \A j \in 1 .. Len(w) : OpenAfter(w)[j] = NowOpen(OpenAfter(w)[j - 1], w[j], j)
<1> DEFINE Step(g, j) == IF j = 0 THEN <<>> ELSE NowOpen(g[j - 1], w[j], j)
           Sat(g, n) == \A j \in 0 .. n : g[j] = Step(g, j)
           Bad == {n \in 0 .. Len(w) : ~ \E g \in [0 .. n -> Seq(Nat)] : Sat(g, n)}
<1>0. Len(w) \in Nat
  OBVIOUS
<1>1. Bad = {}
  <2> SUFFICES ASSUME Bad # {} PROVE FALSE
    OBVIOUS
  <2>1. PICK n \in Bad : \A k \in Bad : n <= k
    <3>1. Bad \in SUBSET Nat
      BY <1>0
    <3> HIDE DEF Bad
    <3> QED BY <3>1, LeastNatural
  <2>2. n \in Nat /\ n <= Len(w)
    BY <1>0
  <2>3. n # 0
    <3> SUFFICES ASSUME n = 0 PROVE FALSE
      OBVIOUS
    <3> DEFINE g == [k \in 0 .. 0 |-> <<>>]
    <3>1. g \in [0 .. n -> Seq(Nat)] /\ Sat(g, n)
      OBVIOUS
    <3> QED BY <3>1
  <2>4. n - 1 \in 0 .. Len(w) /\ n - 1 \notin Bad
    <3>1. n - 1 \in 0 .. Len(w) /\ ~ (n <= n - 1)
      BY <2>2, <2>3, <1>0
    <3> HIDE DEF Bad
    <3> QED BY <3>1, <2>1
  <2>5. PICK h \in [0 .. n - 1 -> Seq(Nat)] : Sat(h, n - 1)
    BY <2>4
  <2> DEFINE g == [k \in 0 .. n |-> Step(h, k)]
  <2>6. \A k \in 0 .. n - 1 : g[k] = h[k]
    BY <2>2, <2>5
  <2>7. g \in [0 .. n -> Seq(Nat)]
    <3> SUFFICES ASSUME NEW k \in 0 .. n PROVE Step(h, k) \in Seq(Nat)
      OBVIOUS
    <3>1. CASE k = 0
      BY <3>1
    <3>2. CASE k # 0
      <4>1. h[k - 1] \in Seq(Nat) /\ w[k] \in Written1 /\ k \in Nat
        BY <3>2, <2>2, <2>5, <1>0
      <4>2. NowOpen(h[k - 1], w[k], k) \in Seq(Nat)
        BY <4>1, NowOpenType
      <4> QED BY <4>2, <3>2
    <3> QED BY <3>1, <3>2
  <2>8. Sat(g, n)
    <3> SUFFICES ASSUME NEW k \in 0 .. n PROVE g[k] = Step(g, k)
      OBVIOUS
    <3>1. CASE k = 0
      BY <3>1
    <3>2. CASE k # 0
      <4>1. k - 1 \in 0 .. n - 1
        BY <3>2, <2>2
      <4>2. g[k - 1] = h[k - 1]
        BY <4>1, <2>6
      <4>3. g[k] = NowOpen(h[k - 1], w[k], k)
        BY <3>2
      <4> QED BY <4>2, <4>3, <3>2
    <3> QED BY <3>1, <3>2
  <2> QED BY <2>7, <2>8
<1>2. PICK g \in [0 .. Len(w) -> Seq(Nat)] : Sat(g, Len(w))
  <2>1. Len(w) \in 0 .. Len(w)
    BY <1>0
  <2>2. Len(w) \notin Bad
    <3> HIDE DEF Bad
    <3> QED BY <1>1
  <2> QED BY <2>1, <2>2
<1>3. g = [j \in 0 .. Len(w) |-> Step(g, j)]
  BY <1>2
<1>4. OpenAfter(w) = [j \in 0 .. Len(w) |-> Step(OpenAfter(w), j)]
  BY <1>3 DEF OpenAfter
<1> DEFINE Differ == {j \in 0 .. Len(w) : OpenAfter(w)[j] # g[j]}
<1>5. Differ = {}
  <2> SUFFICES ASSUME Differ # {} PROVE FALSE
    OBVIOUS
  <2>1. PICK j \in Differ : \A k \in Differ : j <= k
    <3>1. Differ \in SUBSET Nat
      BY <1>0
    <3> HIDE DEF Differ
    <3> QED BY <3>1, LeastNatural
  <2>2. j \in 0 .. Len(w) /\ OpenAfter(w)[j] # g[j]
    OBVIOUS
  <2>3. Step(OpenAfter(w), j) # Step(g, j)
    BY <1>2, <1>4, <2>2
  <2>4. j # 0 /\ OpenAfter(w)[j - 1] # g[j - 1]
    BY <2>3
  <2>5. j - 1 \in Differ /\ ~ (j <= j - 1)
    BY <2>2, <2>4, <1>0
  <2> QED BY <2>1, <2>5
<1>6. OpenAfter(w) = g
  BY <1>4, <1>5
<1>7. g[0] = <<>>
  BY <1>2, <1>0
<1>8. ASSUME NEW j \in 1 .. Len(w)
      PROVE  g[j] = NowOpen(g[j - 1], w[j], j)
  <2>1. j \in 0 .. Len(w) /\ j # 0
    BY <1>0
  <2> QED BY <1>2, <2>1
<1> HIDE DEF Sat, Step, Bad, Differ
<1> QED BY <1>2, <1>6, <1>7, <1>8

LEMMA OpenAfterPrefix ==
  ASSUME NEW v \in Seq(Written1), NEW w \in Seq(Written1), NEW n \in Nat,
         n <= Len(v), n <= Len(w), \A j \in 1 .. n : v[j] = w[j]
  PROVE  \A j \in 0 .. n : OpenAfter(v)[j] = OpenAfter(w)[j]
<1> DEFINE Differ == {j \in 0 .. n : OpenAfter(v)[j] # OpenAfter(w)[j]}
<1> SUFFICES ASSUME Differ # {} PROVE FALSE
  OBVIOUS
<1>1. PICK j \in Differ : \A k \in Differ : j <= k
  <2>1. Differ \in SUBSET Nat
    OBVIOUS
  <2> HIDE DEF Differ
  <2> QED BY <2>1, LeastNatural
<1>2. j \in 0 .. n /\ OpenAfter(v)[j] # OpenAfter(w)[j]
  OBVIOUS
<1>3. j # 0
  BY <1>2, OpenAfterDef
<1>4. OpenAfter(v)[j - 1] # OpenAfter(w)[j - 1]
  <2>1. j \in 1 .. Len(v) /\ j \in 1 .. Len(w) /\ v[j] = w[j]
    BY <1>2, <1>3
  <2>2. /\ OpenAfter(v)[j] = NowOpen(OpenAfter(v)[j - 1], v[j], j)
        /\ OpenAfter(w)[j] = NowOpen(OpenAfter(w)[j - 1], w[j], j)
    BY <2>1, OpenAfterDef
  <2> QED BY <1>2, <2>1, <2>2
<1>5. j - 1 \in Differ /\ ~ (j <= j - 1)
  BY <1>2, <1>3, <1>4
<1> QED BY <1>1, <1>5

LEMMA OpenAfterAppend ==
  ASSUME NEW w \in Seq(Written1), NEW b \in BOOLEAN
  PROVE  LET v == Append(w, Written(b))
             before == OpenAfter(w)[Len(w)]
         IN  /\ v \in Seq(Written1) /\ Len(v) = Len(w) + 1 /\ v[Len(v)].closes = 0
             /\ \A j \in 0 .. Len(w) : OpenAfter(v)[j] = OpenAfter(w)[j]
             /\ OpenAfter(v)[Len(v)] = IF b THEN Append(before, Len(v)) ELSE before
<1> DEFINE v == Append(w, Written(b))
           before == OpenAfter(w)[Len(w)]
           more == IF b THEN Append(before, Len(v)) ELSE before
<1>1. Written(b) \in Written1 /\ Written(b).opens = b /\ Written(b).closes = 0
  BY DEF Written, Written1
<1>2. /\ v \in Seq(Written1) /\ Len(v) = Len(w) + 1 /\ v[Len(v)] = Written(b)
      /\ Len(w) \in Nat /\ \A j \in 1 .. Len(w) : v[j] = w[j]
  BY <1>1
<1> HIDE DEF v
<1>3. \A j \in 0 .. Len(w) : OpenAfter(v)[j] = OpenAfter(w)[j]
  BY <1>2, OpenAfterPrefix
<1>4. before \in Seq(Nat)
  <2>1. Len(w) \in 0 .. Len(w)
    BY <1>2
  <2> QED BY <2>1, OpenAfterDef
<1>5. OpenAfter(v)[Len(v)] = NowOpen(before, Written(b), Len(v))
  <2>1. Len(v) \in 1 .. Len(v) /\ Len(v) - 1 = Len(w) /\ Len(w) \in 0 .. Len(w)
    BY <1>2
  <2>2. OpenAfter(v)[Len(v)] = NowOpen(OpenAfter(v)[Len(v) - 1], v[Len(v)], Len(v))
    BY <2>1, <1>2, OpenAfterDef
  <2>3. OpenAfter(v)[Len(w)] = before
    BY <2>1, <1>3
  <2> QED BY <2>1, <2>2, <2>3, <1>2
<1>6. NowOpen(before, Written(b), Len(v)) = SubSeq(more, 1, Len(more) - 0)
  <2>1. more \in Seq(Nat) /\ Len(more) \in Nat
    BY <1>2, <1>4
  <2> QED BY <1>1, <2>1 DEF NowOpen
<1>7. SubSeq(more, 1, Len(more) - 0) = more
  <2>1. more \in Seq(Nat)
    BY <1>2, <1>4
  <2> HIDE DEF more
  <2> QED BY <2>1
<1> QED BY <1>1, <1>2, <1>3, <1>5, <1>6, <1>7 DEF v

LEMMA ClosedType ==
  ASSUME NEW line \in Written1, NEW c \in Nat
  PROVE  /\ Closed(line, c) \in Written1
         /\ Closed(line, c).opens = line.opens
         /\ Closed(line, c).closes = line.closes + c
BY DEF Closed, Written1

LEMMA OpenAfterClosing ==
  ASSUME NEW w \in Seq(Written1), w # <<>>, w[Len(w)].closes = 0,
         NEW c \in Nat, c <= Len(OpenAfter(w)[Len(w)])
  PROVE  LET v == [w EXCEPT ![Len(w)] = Closed(@, c)]
             before == OpenAfter(w)[Len(w)]
         IN  /\ v \in Seq(Written1) /\ Len(v) = Len(w)
             /\ \A j \in 0 .. Len(w) - 1 : OpenAfter(v)[j] = OpenAfter(w)[j]
             /\ OpenAfter(v)[Len(w)] = SubSeq(before, 1, Len(before) - c)
<1> DEFINE n == Len(w)
           line == w[n]
           after == Closed(line, c)
           v == [w EXCEPT ![n] = after]
           before == OpenAfter(w)[n]
           left == OpenAfter(w)[n - 1]
           more == IF line.opens THEN Append(left, n) ELSE left
<1>1. n \in Nat /\ n > 0 /\ n \in 1 .. n /\ n - 1 \in 0 .. n /\ line \in Written1
  OBVIOUS
<1>2. after \in Written1 /\ after.opens = line.opens /\ after.closes = c
  <2>1. line.closes = 0
    OBVIOUS
  <2> HIDE DEF line
  <2>2. after.closes = line.closes + c
    BY <1>1, ClosedType
  <2> QED BY <1>1, <2>1, <2>2, ClosedType
<1>3. /\ v \in Seq(Written1) /\ Len(v) = n
      /\ v[n] = after
      /\ \A j \in 1 .. n - 1 : v[j] = w[j]
  <2> HIDE DEF after, line
  <2> QED BY <1>1, <1>2
<1>4. v = [w EXCEPT ![Len(w)] = Closed(@, c)]
  OBVIOUS
<1> HIDE DEF v, after
<1>5. \A j \in 0 .. n - 1 : OpenAfter(v)[j] = OpenAfter(w)[j]
  <2>1. n - 1 \in Nat /\ n - 1 <= Len(v) /\ n - 1 <= Len(w)
    BY <1>1, <1>3
  <2> QED BY <1>3, <2>1, OpenAfterPrefix
<1>6. left \in Seq(Nat) /\ more \in Seq(Nat)
  BY <1>1, OpenAfterDef
<1>7. before = more
  <2>1. before = NowOpen(left, line, n)
    BY <1>1, OpenAfterDef
  <2>2. NowOpen(left, line, n) = SubSeq(more, 1, Len(more) - 0)
    BY <1>1, <1>6 DEF NowOpen
  <2>3. SubSeq(more, 1, Len(more) - 0) = more
    <3> HIDE DEF more
    <3> QED BY <1>6
  <2> QED BY <2>1, <2>2, <2>3
<1>8. OpenAfter(v)[n] = NowOpen(left, after, n)
  <2>1. n \in 1 .. Len(v) /\ n - 1 \in 0 .. n - 1
    BY <1>1, <1>3
  <2>2. OpenAfter(v)[n] = NowOpen(OpenAfter(v)[n - 1], v[n], n)
    BY <2>1, <1>3, OpenAfterDef
  <2> QED BY <2>1, <2>2, <1>3, <1>5
<1>9. NowOpen(left, after, n) = SubSeq(more, 1, Len(more) - c)
  <2>1. ~ (c > Len(more))
    BY <1>6, <1>7
  <2> QED BY <1>2, <2>1 DEF NowOpen
<1> QED BY <1>3, <1>4, <1>5, <1>7, <1>8, <1>9

(* What is open after c more braces are closed, and after a line that then may     *)
(* open one.                                                                 *)
LEMMA ClosingOpens ==
  ASSUME lines \in Seq(Written1), lines # <<>> => lines[Len(lines)].closes = 0,
         NEW c \in Nat, c <= Len(Open), lines = <<>> => c = 0
  PROVE  /\ Closing(c) \in Seq(Written1) /\ Len(Closing(c)) = Len(lines)
         /\ \A j \in 0 .. Len(lines) - 1 : OpenAfter(Closing(c))[j] = OpenAfter(lines)[j]
         /\ OpenAfter(Closing(c))[Len(lines)] = SubSeq(Open, 1, Len(Open) - c)
<1> DEFINE kept == SubSeq(Open, 1, Len(Open) - c)
<1>1. Open \in Seq(Nat) /\ Len(lines) \in Nat
  BY OpenAfterDef DEF Open
<1>2. CASE lines = <<>>
  <2>1. Closing(c) = lines /\ Len(lines) = 0
    BY <1>2 DEF Closing
  <2>2. kept = Open
    BY <1>1, <1>2
  <2> QED BY <2>1, <2>2 DEF Open
<1>3. CASE lines # <<>>
  <2>1. Closing(c) = [lines EXCEPT ![Len(lines)] = Closed(@, c)]
    BY <1>3 DEF Closing
  <2>2. c <= Len(OpenAfter(lines)[Len(lines)])
    BY DEF Open
  <2>3. LET v == [lines EXCEPT ![Len(lines)] = Closed(@, c)]
            before == OpenAfter(lines)[Len(lines)]
        IN  /\ v \in Seq(Written1) /\ Len(v) = Len(lines)
            /\ \A j \in 0 .. Len(lines) - 1 : OpenAfter(v)[j] = OpenAfter(lines)[j]
            /\ OpenAfter(v)[Len(lines)] = SubSeq(before, 1, Len(before) - c)
    BY <1>3, <2>2, OpenAfterClosing
  <2> QED BY <2>1, <2>3 DEF Open
<1> QED BY <1>2, <1>3

LEMMA StepOpens ==
  ASSUME lines \in Seq(Written1), lines # <<>> => lines[Len(lines)].closes = 0,
         NEW c \in Nat, c <= Len(Open), lines = <<>> => c = 0, NEW b \in BOOLEAN
  PROVE  LET v == Append(Closing(c), Written(b))
             kept == SubSeq(Open, 1, Len(Open) - c)
         IN  /\ v \in Seq(Written1) /\ Len(v) = Len(lines) + 1 /\ v[Len(v)].closes = 0
             /\ \A j \in 0 .. Len(lines) - 1 : OpenAfter(v)[j] = OpenAfter(lines)[j]
             /\ OpenAfter(v)[Len(lines)] = kept
             /\ OpenAfter(v)[Len(v)] = IF b THEN Append(kept, Len(v)) ELSE kept
<1> DEFINE kept == SubSeq(Open, 1, Len(Open) - c)
<1>1. /\ Closing(c) \in Seq(Written1) /\ Len(Closing(c)) = Len(lines)
      /\ \A j \in 0 .. Len(lines) - 1 : OpenAfter(Closing(c))[j] = OpenAfter(lines)[j]
      /\ OpenAfter(Closing(c))[Len(lines)] = kept
  BY ClosingOpens
<1> HIDE DEF kept
<1>2. Len(lines) \in 0 .. Len(lines) /\ \A j \in 0 .. Len(lines) - 1 : j \in 0 .. Len(lines)
  OBVIOUS
<1>3. LET v == Append(Closing(c), Written(b))
      IN  /\ v \in Seq(Written1) /\ Len(v) = Len(lines) + 1 /\ v[Len(v)].closes = 0
          /\ \A j \in 0 .. Len(lines) : OpenAfter(v)[j] = OpenAfter(Closing(c))[j]
          /\ OpenAfter(v)[Len(v)] = IF b THEN Append(kept, Len(v)) ELSE kept
  BY <1>1, OpenAfterAppend
<1> QED BY <1>1, <1>2, <1>3 DEF kept

-----------------------------------------------------------------------------
(* What the indents of a file mean, line by line.                             *)
LEMMA LineFacts ==
  ASSUME NEW l \in Lines
  PROVE  /\ l.indent \in Nat /\ l.indent \in Indents
         /\ l.kind \in Opens => l # Blank
         /\ l # Blank => l.kind \in Kinds
<1>1. CASE l = Blank
  <2>1. l.kind = "blank" /\ l.indent = 0
    BY <1>1 DEF Blank
  <2> QED BY <1>1, <2>1, IndentsAssumption DEF Opens
<1>2. CASE l \in [kind : Kinds, indent : Indents]
  <2>1. l.kind \in Kinds /\ l.indent \in Indents
    BY <1>2
  <2>2. l # Blank
    <3>1. Blank.kind = "blank"
      BY DEF Blank
    <3> QED BY <2>1, <3>1 DEF Kinds
  <2> QED BY <2>1, <2>2, IndentsAssumption
<1> QED BY <1>1, <1>2 DEF Lines

LEMMA FilePrefix ==
  ASSUME NEW f \in Seq(Lines), NEW l \in Lines
  PROVE  LET g == Append(f, l)
         IN  /\ g \in Seq(Lines) /\ Len(g) = Len(f) + 1 /\ g[Len(f) + 1] = l
             /\ \A i \in 1 .. Len(f) :
                  /\ g[i] = f[i] /\ Code(g, i) <=> Code(f, i)
                  /\ \A j \in 1 .. Len(f) : Encloses(g, j, i) <=> Encloses(f, j, i)
                  /\ Raw(g, i) <=> Raw(f, i)
                  /\ Blocks(g, i) = Blocks(f, i)
                  /\ Aligned(g, i) <=> Aligned(f, i)
<1> DEFINE g == Append(f, l)
           n == Len(f)
<1>1. n \in Nat /\ g \in Seq(Lines) /\ Len(g) = n + 1 /\ g[n + 1] = l
  OBVIOUS
<1>2. \A i \in 1 .. n : g[i] = f[i]
  OBVIOUS
<1> HIDE DEF g, n
<1>3. \A i \in 1 .. n : Code(g, i) <=> Code(f, i)
  BY <1>2 DEF Code
<1>4. \A i, j \in 1 .. n : Encloses(g, j, i) <=> Encloses(f, j, i)
  <2> SUFFICES ASSUME NEW i \in 1 .. n, NEW j \in 1 .. n
               PROVE  Encloses(g, j, i) <=> Encloses(f, j, i)
    OBVIOUS
  <2>1. \A k \in j + 1 .. i : k \in 1 .. n
    BY <1>1
  <2> QED BY <1>2, <1>3, <2>1 DEF Encloses
<1>5. \A i \in 1 .. n : 1 .. i - 1 \subseteq 1 .. n
  BY <1>1
<1>6. \A i \in 1 .. n : Raw(g, i) <=> Raw(f, i)
  BY <1>2, <1>4, <1>5 DEF Raw
<1>7. \A i \in 1 .. n : Blocks(g, i) = Blocks(f, i)
  BY <1>4, <1>5, <1>6 DEF Blocks
<1>8. \A i \in 1 .. n : Aligned(g, i) <=> Aligned(f, i)
  <2> SUFFICES ASSUME NEW i \in 1 .. n
               PROVE  Aligned(g, i) <=> Aligned(f, i)
    OBVIOUS
  <2>1. \A k \in 1 .. i - 1 : k \in 1 .. n
    BY <1>5
  <2> QED BY <1>2, <1>3, <1>6, <1>7, <2>1 DEF Aligned
<1> QED BY <1>1, <1>2, <1>3, <1>4, <1>6, <1>7, <1>8 DEF g, n

(* A line of an unsafe block is enclosed by an unsafe header that is not raw:    *)
(* the first one that encloses it.                                          *)
LEMMA RawOutermost ==
  ASSUME NEW f \in Seq(Lines), NEW i \in 1 .. Len(f), Raw(f, i)
  PROVE  \E j \in 1 .. i - 1 :
           f[j].kind = "unsafe" /\ ~ Raw(f, j) /\ Encloses(f, j, i)
<1> DEFINE S == {j \in 1 .. i - 1 : f[j].kind = "unsafe" /\ Encloses(f, j, i)}
<1>1. i \in Nat /\ Len(f) \in Nat
  OBVIOUS
<1>2. PICK j \in S : \A k \in S : j <= k
  <2>1. S \in SUBSET Nat /\ S # {}
    BY DEF Raw
  <2> HIDE DEF S
  <2> QED BY <2>1, LeastNatural
<1>3. ~ Raw(f, j)
  <2> SUFFICES ASSUME Raw(f, j) PROVE FALSE
    OBVIOUS
  <2>1. PICK h \in 1 .. j - 1 : f[h].kind = "unsafe" /\ Encloses(f, h, j)
    BY DEF Raw
  <2>2. j \in 1 .. i - 1 /\ h \in 1 .. i - 1 /\ h < j
    BY <1>1
  <2>3. Code(f, j) /\ f[j].indent > f[h].indent
    <3>1. f[j].kind = "unsafe" /\ f[j] \in Lines
      BY <2>2
    <3>2. Code(f, j)
      BY <3>1, LineFacts DEF Code, Opens
    <3>3. j \in h + 1 .. j
      BY <2>2
    <3> QED BY <2>1, <3>2, <3>3 DEF Encloses
  <2>4. Encloses(f, h, i)
    <3>1. ASSUME NEW k \in h + 1 .. i, Code(f, k)
          PROVE  f[k].indent > f[h].indent
      <4>1. CASE k <= j
        <5>1. k \in h + 1 .. j
          BY <2>2, <4>1
        <5> QED BY <5>1, <3>1, <2>1 DEF Encloses
      <4>2. CASE ~ (k <= j)
        <5>1. k \in j + 1 .. i
          BY <2>2, <4>2
        <5>2. f[k].indent > f[j].indent
          BY <5>1, <3>1 DEF Encloses
        <5>3. f[k].indent \in Nat /\ f[j].indent \in Nat /\ f[h].indent \in Nat
          <6>1. f[k] \in Lines /\ f[j] \in Lines /\ f[h] \in Lines
            BY <2>2, <1>1, <5>1
          <6> QED BY <6>1, LineFacts
        <5> QED BY <5>2, <5>3, <2>3
      <4> QED BY <4>1, <4>2
    <3> QED BY <3>1, <2>1, <2>2, <1>1 DEF Encloses
  <2>5. h \in S /\ ~ (j <= h)
    BY <2>1, <2>2, <2>4
  <2> QED BY <2>5, <1>2
<1> QED BY <1>2, <1>3

(* A line of code ends the headers that are not left of it.                     *)
LEMMA NextCode ==
  ASSUME NEW f \in Seq(Lines), NEW l \in Lines, l # Blank
  PROVE  LET g == Append(f, l)
             n == Len(f)
         IN  /\ \A j \in 1 .. n : StillOpen(g, j) <=> StillOpen(f, j) /\ f[j].indent < l.indent
             /\ StillOpen(g, n + 1) <=> l.kind \in Opens /\ ~ Raw(g, n + 1)
             /\ Blocks(g, n + 1) = {j \in 1 .. n : StillOpen(g, j)}
             /\ Raw(g, n + 1) <=> \E j \in 1 .. n : StillOpen(g, j) /\ f[j].kind = "unsafe"
<1> DEFINE g == Append(f, l)
           n == Len(f)
<1>1. n \in Nat /\ n + 1 \in 1 .. Len(g) /\ n + 1 - 1 = n /\ g \in Seq(Lines) /\ Len(g) = n + 1 /\ g[n + 1] = l
  OBVIOUS
<1>2. \A i \in 1 .. n : g[i] = f[i] /\ (Code(g, i) <=> Code(f, i)) /\ (Raw(g, i) <=> Raw(f, i))
  BY FilePrefix
<1> HIDE DEF g, n
<1>3. Code(g, n + 1)
  BY <1>1 DEF Code
<1>4. \A j \in 1 .. n : StillOpen(g, j) <=> StillOpen(f, j) /\ f[j].indent < l.indent
  <2> SUFFICES ASSUME NEW j \in 1 .. n
               PROVE  StillOpen(g, j) <=> StillOpen(f, j) /\ f[j].indent < l.indent
    OBVIOUS
  <2>1. f[j] \in Lines /\ f[j].indent \in Nat /\ l.indent \in Nat
    <3>1. f[j] \in Lines
      BY DEF n
    <3> QED BY <3>1, LineFacts
  <2>2. /\ \A k \in j + 1 .. n : k \in 1 .. n /\ k \in j + 1 .. n + 1
        /\ n + 1 \in j + 1 .. n + 1
        /\ \A k \in j + 1 .. n + 1 : k = n + 1 \/ k \in j + 1 .. n
    BY <1>1
  <2>3. Len(f) = n
    BY DEF n
  <2> QED BY <1>1, <1>2, <1>3, <2>1, <2>2, <2>3 DEF StillOpen
<1>5. StillOpen(g, n + 1) <=> l.kind \in Opens /\ ~ Raw(g, n + 1)
  <2>1. \A k \in n + 1 + 1 .. n + 1 : FALSE
    BY <1>1
  <2> QED BY <1>1, <2>1 DEF StillOpen
<1>6. \A j \in 1 .. n : StillOpen(g, j) <=> ~ Raw(g, j) /\ Encloses(g, j, n + 1)
  BY <1>1 DEF StillOpen, Encloses, Opens
<1>7. Blocks(g, n + 1) = {j \in 1 .. n : StillOpen(g, j)}
  BY <1>1, <1>6 DEF Blocks
<1>8. Raw(g, n + 1) <=> \E j \in 1 .. n : StillOpen(g, j) /\ f[j].kind = "unsafe"
  <2>1. ASSUME Raw(g, n + 1)
        PROVE  \E j \in 1 .. n : StillOpen(g, j) /\ f[j].kind = "unsafe"
    BY <1>1, <1>2, <1>6, <2>1, RawOutermost
  <2>2. ASSUME NEW j \in 1 .. n, StillOpen(g, j), f[j].kind = "unsafe"
        PROVE  Raw(g, n + 1)
    BY <1>1, <1>2, <1>6, <2>2 DEF Raw
  <2> QED BY <2>1, <2>2
<1> QED BY <1>4, <1>5, <1>7, <1>8 DEF g, n

LEMMA NextBlank ==
  ASSUME NEW f \in Seq(Lines)
  PROVE  LET g == Append(f, Blank)
         IN  /\ \A j \in 1 .. Len(f) : StillOpen(g, j) <=> StillOpen(f, j)
             /\ ~ StillOpen(g, Len(f) + 1)
             /\ ~ Code(g, Len(f) + 1)
<1> DEFINE g == Append(f, Blank)
           n == Len(f)
<1>0. Blank \in Lines
  BY DEF Lines
<1>1. n \in Nat /\ g \in Seq(Lines) /\ Len(g) = n + 1 /\ g[n + 1] = Blank
  BY <1>0
<1>2. \A i \in 1 .. n : g[i] = f[i] /\ (Code(g, i) <=> Code(f, i)) /\ (Raw(g, i) <=> Raw(f, i))
  BY <1>0, FilePrefix
<1> HIDE DEF g
<1>3. ~ Code(g, n + 1) /\ ~ StillOpen(g, n + 1)
  BY <1>0, <1>1, LineFacts DEF Code, StillOpen
<1>4. \A j \in 1 .. n : StillOpen(g, j) <=> StillOpen(f, j)
  <2> SUFFICES ASSUME NEW j \in 1 .. n
               PROVE  StillOpen(g, j) <=> StillOpen(f, j)
    OBVIOUS
  <2>1. /\ \A k \in j + 1 .. n : k \in 1 .. n /\ k \in j + 1 .. n + 1
        /\ \A k \in j + 1 .. n + 1 : k = n + 1 \/ k \in j + 1 .. n
    BY <1>1
  <2> QED BY <1>1, <1>2, <1>3, <2>1 DEF StillOpen
<1> QED BY <1>3, <1>4 DEF g


-----------------------------------------------------------------------------
(* The columns that stay are those up to the last that is not deeper.           *)
LEMMA UnwoundFacts ==
  ASSUME NEW columns \in Seq(Nat), NEW d \in Nat, columns # <<>>, columns[1] <= d
  PROVE  \E q \in 1 .. Len(columns) :
           /\ Unwound(columns, d) = SubSeq(columns, 1, q)
           /\ columns[q] <= d
           /\ \A i \in q + 1 .. Len(columns) : columns[i] > d
<1> DEFINE S == {i \in DOMAIN columns : columns[i] <= d}
<1>1. Len(columns) \in Nat /\ DOMAIN columns = 1 .. Len(columns) /\ 1 \in 1 .. Len(columns)
  OBVIOUS
<1>2. PICK q \in S : \A k \in S : k <= q
  <2>1. S \in SUBSET Nat /\ S # {} /\ \A k \in S : k <= Len(columns)
    BY <1>1
  <2> HIDE DEF S
  <2> QED BY <2>1, <1>1, GreatestNatural
<1>3. Max(S) = q
  <2>1. \A x \in S : x \in Nat
    BY <1>1
  <2>2. q \in S /\ \A y \in S : q >= y
    <3> HIDE DEF S
    <3> QED BY <1>2, <2>1
  <2>3. \A x \in S : (\A y \in S : x >= y) => x = q
    <3> HIDE DEF S
    <3> QED BY <2>1, <2>2
  <2> HIDE DEF S
  <2> QED BY <2>2, <2>3 DEF Max
<1>4. Unwound(columns, d) = SubSeq(columns, 1, q)
  BY <1>3 DEF Unwound
<1>5. ASSUME NEW i \in q + 1 .. Len(columns)
      PROVE  columns[i] > d
  <2>1. i \in DOMAIN columns /\ columns[i] \in Nat /\ ~ (i <= q)
    BY <1>1, <1>2
  <2>2. i \notin S
    <3> HIDE DEF S
    <3> QED BY <2>1, <1>2
  <2> QED BY <2>1, <2>2
<1> QED BY <1>1, <1>2, <1>4, <1>5

(* The parts of the invariant hold when the pass starts.                        *)
LEMMA InitInv == Init => IInv
<1> SUFFICES ASSUME Init PROVE IInv
  OBVIOUS
<1> USE DEF Init
<1>1. Len(read) = 0 /\ Len(lines) = 0 /\ DOMAIN read = {} /\ read \in Seq(Lines) /\ lines \in Seq(Written1)
  OBVIOUS
<1>2. Open = <<>>
  BY <1>1, OpenAfterDef DEF Open
<1>3. stack \in Seq(Indents) /\ Len(stack) = 1 /\ stack[1] = 0 /\ DOMAIN stack = {1}
  BY IndentsAssumption
<1>4. TypeOK
  BY <1>1, <1>3, FS_EmptySet DEF TypeOK, Written1
<1>5. LinesInv
  <2>1. pending \in BOOLEAN /\ stack # <<>>
    OBVIOUS
  <2>2. \A i, j \in DOMAIN stack : i < j => stack[i] < stack[j]
    BY <1>3
  <2> QED BY <1>1, <1>3, <2>1, <2>2 DEF LinesInv
<1>6. OpenInv
  BY <1>1, <1>2 DEF OpenInv
<1>7. StackInv
  BY <1>1, <1>2, <1>3 DEF StackInv
<1>8. AlignInv
  BY <1>1, <1>3 DEF AlignInv
<1>9. Braced /\ BlocksFollowIndents /\ RefusesMisaligned
  BY <1>1 DEF Braced, BlocksFollowIndents, RefusesMisaligned
<1> QED BY <1>4, <1>5, <1>6, <1>7, <1>8, <1>9 DEF IInv

(* What every step from a state of the invariant starts with.                   *)
LEMMA Reading ==
  ASSUME IInv, status = "reading"
  PROVE  /\ LinesInv /\ OpenInv /\ StackInv /\ AlignInv /\ Braced
         /\ read \in Seq(Lines) /\ lines \in Seq(Written1)
         /\ Len(read) \in Nat /\ DOMAIN read = 1 .. Len(read) /\ Len(lines) = Len(read)
         /\ stack \in Seq(Nat) /\ Len(stack) \in Nat /\ Len(stack) >= 1
         /\ DOMAIN stack = 1 .. Len(stack) /\ Last(stack) = stack[Len(stack)]
         /\ Open \in Seq(Nat) /\ Len(Open) \in Nat /\ DOMAIN Open = 1 .. Len(Open)
         /\ \A a \in DOMAIN Open : Open[a] \in 1 .. Len(read)
         /\ unsafe \subseteq Nat
         /\ Cardinality(unsafe) = IF unsafe = {} THEN 0 ELSE 1
<1>1. LinesInv /\ OpenInv /\ StackInv /\ AlignInv /\ Braced /\ TypeOK
  BY DEF IInv
<1>2. read \in Seq(Lines) /\ lines \in Seq(Written1) /\ Len(lines) = Len(read)
  BY <1>1 DEF TypeOK, LinesInv, Written1
<1>3. stack \in Seq(Nat) /\ stack # <<>>
  <2>1. stack \in Seq(Indents) /\ stack # <<>>
    BY <1>1 DEF LinesInv
  <2>2. Indents \subseteq Nat
    BY IndentsAssumption
  <2> QED BY <2>1, <2>2, SeqMonotonic
<1>4. Open \in Seq(DOMAIN read) /\ DOMAIN read = 1 .. Len(read) /\ Len(read) \in Nat
  BY <1>1, <1>2 DEF OpenInv
<1>5. Open \in Seq(Nat) /\ Len(Open) \in Nat /\ DOMAIN Open = 1 .. Len(Open)
  BY <1>4
<1>6. \A a \in DOMAIN Open : Open[a] \in 1 .. Len(read)
  BY <1>4
<1>7. Cardinality(unsafe) = IF unsafe = {} THEN 0 ELSE 1
  BY <1>1, FS_EmptySet, FS_Singleton DEF LinesInv
<1>8. unsafe \subseteq Nat
  BY <1>1, IndentsAssumption DEF TypeOK
<1>9. Last(stack) = stack[Len(stack)]
  BY DEF Last
<1> QED BY <1>1, <1>2, <1>3, <1>4, <1>5, <1>6, <1>7, <1>8, <1>9


(* A line of code at column d: the stack it is measured against, and how many    *)
(* braces it closes.                                                         *)
Entered(d) == IF pending /\ d > Column THEN Append(stack, d) ELSE stack

Closes(d) ==
  Cardinality(unsafe) + EmptyClosed(d) + Len(Entered(d)) - Len(Unwound(Entered(d), d))

(* If its column is on the stack, it closes the braces from the one at that      *)
(* column on; if it is not, the headers left of it stand in a block at another   *)
(* column.                                                                   *)
LEMMA CodeFacts ==
  ASSUME IInv, status = "reading", NEW d \in Indents,
         \A column \in unsafe : d <= column
  PROVE  \E q \in 1 .. Len(Entered(d)) :
           /\ Entered(d) \in Seq(Indents) /\ Len(Entered(d)) \in Nat
           /\ \A k \in DOMAIN stack : k <= Len(Entered(d)) /\ Entered(d)[k] = stack[k]
           /\ \A i, j \in 1 .. Len(Entered(d)) : i < j => Entered(d)[i] < Entered(d)[j]
           /\ Unwound(Entered(d), d) = SubSeq(Entered(d), 1, q)
           /\ q <= Len(stack) \/ (pending /\ q = Len(stack) + 1 /\ q = Len(Open) + 1)
           /\ Entered(d)[q] = d =>
                /\ q - 1 <= Len(Open) /\ Closes(d) = Len(Open) - (q - 1)
                /\ \A a \in DOMAIN Open : stack[a] < d <=> a <= q - 1
           /\ Entered(d)[q] # d =>
                \E m \in DOMAIN stack :
                  /\ stack[m] # d /\ m - 1 <= Len(Open)
                  /\ \A a \in DOMAIN Open : stack[a] < d <=> a <= m - 1
<1> DEFINE e == Entered(d)
           s == Len(stack)
<1>1. /\ stack \in Seq(Nat) /\ s \in Nat /\ s >= 1 /\ DOMAIN stack = 1 .. s /\ Column = stack[s]
      /\ Len(Open) \in Nat /\ DOMAIN Open = 1 .. Len(Open) /\ unsafe \subseteq Nat
      /\ Cardinality(unsafe) = IF unsafe = {} THEN 0 ELSE 1
  BY Reading DEF Column
<1>2. /\ stack \in Seq(Indents) /\ stack[1] = 0
      /\ \A i, j \in DOMAIN stack : i < j => stack[i] < stack[j]
      /\ pending \in BOOLEAN
      /\ unsafe = {} \/ (unsafe = {Column} /\ ~ pending)
  BY Reading DEF LinesInv, Column
<1>3. Len(Open) = s - 1 + (IF pending \/ unsafe # {} THEN 1 ELSE 0)
  BY Reading DEF StackInv
<1>4. d \in Nat /\ \A k \in 1 .. s : stack[k] \in Nat
  BY <1>1, IndentsAssumption
<1>5. CASE pending /\ d > Column
  <2>1. e = Append(stack, d)
    BY <1>5 DEF Entered
  <2> HIDE DEF e
  <2>2. /\ e \in Seq(Indents) /\ Len(e) = s + 1 /\ e[s + 1] = d
        /\ \A k \in 1 .. s : e[k] = stack[k]
    BY <2>1, <1>1, <1>2
  <2>3. e \in Seq(Nat) /\ e # <<>> /\ e[1] <= d
    <3>1. e \in Seq(Nat)
      BY <2>1, <1>1, <1>4
    <3> QED BY <3>1, <2>2, <1>1, <1>2, <1>4
  <2>4. \A k \in 1 .. s : stack[k] < d
    BY SMTT(30), <1>1, <1>2, <1>4, <1>5
  <2>5. \A i, j \in 1 .. s + 1 : i < j => e[i] < e[j]
    BY <1>1, <1>2, <2>2, <2>4
  <2>6. PICK q \in 1 .. s + 1 :
           Unwound(e, d) = SubSeq(e, 1, q) /\ \A i \in q + 1 .. s + 1 : e[i] > d
    BY <2>2, <2>3, <1>4, UnwoundFacts
  <2>7. q = s + 1
    <3>1. ~ (q <= s)
      <4> SUFFICES ASSUME q <= s PROVE FALSE
        OBVIOUS
      <4>1. s + 1 \in q + 1 .. s + 1
        BY <1>1
      <4> QED BY <4>1, <2>2, <2>6, <1>4
    <3> QED BY <3>1, <1>1
  <2>8. unsafe = {} /\ Len(Open) = s
    BY <1>1, <1>2, <1>3, <1>5
  <2>9. Closes(d) = 0
    <3>1. EmptyClosed(d) = 0
      BY <1>1, <1>4, <1>5 DEF EmptyClosed
    <3>2. Len(Unwound(e, d)) = s + 1
      BY <2>2, <2>6, <2>7, <1>1
    <3> QED BY <1>1, <2>2, <2>8, <3>1, <3>2 DEF Closes, e
  <2>10. \A a \in DOMAIN Open : stack[a] < d <=> a <= q - 1
    BY <1>1, <2>4, <2>7, <2>8
  <2>11. \A k \in DOMAIN stack : k <= Len(e) /\ e[k] = stack[k]
    BY <1>1, <2>2
  <2>12. q - 1 <= Len(Open) /\ Closes(d) = Len(Open) - (q - 1) /\ q = Len(Open) + 1 /\ e[q] = d
    BY <1>1, <2>2, <2>7, <2>8, <2>9
  <2>13. q \in 1 .. Len(e) /\ Len(e) \in Nat
    BY <2>2, <1>1
  <2> QED BY <1>5, <2>2, <2>5, <2>6, <2>7, <2>10, <2>11, <2>12, <2>13 DEF e
<1>6. CASE ~ (pending /\ d > Column)
  <2>1. e = stack
    BY <1>6 DEF Entered
  <2>2. PICK q \in 1 .. s :
          /\ Unwound(stack, d) = SubSeq(stack, 1, q) /\ stack[q] <= d
          /\ \A i \in q + 1 .. s : stack[i] > d
    <3>1. stack # <<>> /\ stack[1] <= d
      BY <1>1, <1>2, <1>4
    <3> QED BY <3>1, <1>1, <1>4, UnwoundFacts
  <2>3. Closes(d) = (IF unsafe # {} THEN 1 ELSE 0) + (IF pending THEN 1 ELSE 0) + s - q
    <3>1. EmptyClosed(d) = IF pending THEN 1 ELSE 0
      BY <1>1, <1>4, <1>6 DEF EmptyClosed
    <3>2. Len(Unwound(stack, d)) = q
      BY <2>2, <1>1
    <3> QED BY <2>1, <3>1, <3>2, <1>1 DEF Closes, e
  <2>4. ASSUME stack[q] = d
        PROVE  /\ q - 1 <= Len(Open) /\ Closes(d) = Len(Open) - (q - 1)
               /\ \A a \in DOMAIN Open : stack[a] < d <=> a <= q - 1
    <3>1. q - 1 <= Len(Open) /\ Closes(d) = Len(Open) - (q - 1)
      <4>1. ~ (unsafe # {} /\ pending)
        BY <1>2
      <4>2. q \in Nat /\ q <= s
        BY <1>1
      <4>3. CASE pending
        BY <4>1, <4>2, <4>3, <2>3, <1>1, <1>3
      <4>4. CASE ~ pending /\ unsafe # {}
        BY <4>2, <4>4, <2>3, <1>1, <1>3
      <4>5. CASE ~ pending /\ unsafe = {}
        BY <4>2, <4>5, <2>3, <1>1, <1>3
      <4> QED BY <4>3, <4>4, <4>5
    <3>2. ASSUME NEW a \in DOMAIN Open
          PROVE  stack[a] < d <=> a <= q - 1
      <4>1. a \in 1 .. s
        BY <1>1, <1>3
      <4>2. (a < q => stack[a] < stack[q]) /\ (q < a => stack[q] < stack[a])
        BY <4>1, <1>1, <1>2
      <4> QED BY <4>1, <4>2, <2>4, <1>1, <1>4
    <3> QED BY <3>1, <3>2
  <2>5. ASSUME stack[q] # d
        PROVE  \E m \in DOMAIN stack :
                  /\ stack[m] # d /\ m - 1 <= Len(Open)
                  /\ \A a \in DOMAIN Open : stack[a] < d <=> a <= m - 1
    <3>1. stack[q] < d /\ \A a \in 1 .. q : stack[a] < d
      <4>1. stack[q] \in Nat /\ stack[q] < d
        BY <2>2, <2>5, <1>4
      <4>2. ASSUME NEW a \in 1 .. q
            PROVE  stack[a] < d
        <5>1. a \in 1 .. s /\ (a < q \/ a = q) /\ stack[a] \in Nat
          BY <1>1, <1>4
        <5>2. a < q => stack[a] < stack[q]
          BY <5>1, <1>1, <1>2
        <5> QED BY <5>1, <5>2, <4>1, <1>4
      <4> QED BY <4>1, <4>2
    <3>2. CASE q < s
      <4>1. q + 1 \in DOMAIN stack /\ stack[q + 1] > d
        BY <2>2, <3>2, <1>1
      <4>2. \A a \in DOMAIN Open : stack[a] < d <=> a <= q + 1 - 1
        <5> SUFFICES ASSUME NEW a \in DOMAIN Open
                     PROVE  stack[a] < d <=> a <= q
          BY <1>1
        <5>1. a \in 1 .. s
          BY <1>1, <1>3
        <5>2. CASE a <= q
          BY <5>1, <5>2, <3>1, <1>1
        <5>3. CASE ~ (a <= q)
          <6>1. a \in q + 1 .. s
            BY <5>1, <5>3, <1>1
          <6> QED BY <6>1, <5>3, <5>1, <2>2, <1>4
        <5> QED BY <5>2, <5>3
      <4>3. q + 1 - 1 <= Len(Open) /\ stack[q + 1] # d
        <5>1. stack[q + 1] \in Nat
          BY <4>1, <1>1, <1>4
        <5> QED BY <5>1, <4>1, <3>2, <1>1, <1>3, <1>4
      <4> QED BY <4>1, <4>2, <4>3
    <3>3. CASE q = s
      <4>1. unsafe = {} /\ ~ pending
        BY <3>1, <3>3, <1>1, <1>2, <1>4, <1>6
      <4>2. Len(Open) = q - 1
        BY <4>1, <3>3, <1>1, <1>3
      <4>3. \A a \in DOMAIN Open : stack[a] < d <=> a <= q - 1
        BY <4>2, <3>1, <1>1
      <4> QED BY <4>2, <4>3, <2>5, <1>1
    <3>4. q < s \/ q = s
      <4>1. s \in Nat
        BY <1>1
      <4> HIDE DEF s
      <4> QED BY <4>1
    <3> QED BY <3>2, <3>3, <3>4
  <2>6. q \in 1 .. Len(e) /\ Len(e) \in Nat /\ q <= s
    BY <2>1, <1>1
  <2>7. /\ \A k \in DOMAIN stack : k <= Len(e) /\ e[k] = stack[k]
        /\ \A i, j \in 1 .. Len(e) : i < j => e[i] < e[j]
    BY <2>1, <1>1, <1>2
  <2> HIDE DEF e
  <2>8. /\ e \in Seq(Indents) /\ Unwound(e, d) = SubSeq(e, 1, q)
        /\ e[q] = stack[q]
    BY <2>1, <2>2, <1>2
  <2> QED BY <2>4, <2>5, <2>6, <2>7, <2>8 DEF e
<1> QED BY <1>5, <1>6


(* Which headers a line of code at column d leaves open: the outer ones, as many  *)
(* as there are columns to the left of d.                                     *)
LEMMA CodeEncloses ==
  ASSUME IInv, status = "reading", NEW l \in Lines, l # Blank,
         \A column \in unsafe : l.indent <= column,
         NEW p \in 0 .. Len(Open),
         \A a \in DOMAIN Open : stack[a] < l.indent <=> a <= p
  PROVE  LET g == Append(read, l)
             n == Len(read)
         IN  /\ \A j \in 1 .. n : StillOpen(g, j) <=> j \in Outer(p)
             /\ Blocks(g, n + 1) = Outer(p)
             /\ ~ Raw(g, n + 1)
             /\ StillOpen(g, n + 1) <=> l.kind \in Opens
<1> DEFINE g == Append(read, l)
           n == Len(read)
<1>1. /\ read \in Seq(Lines) /\ n \in Nat /\ DOMAIN read = 1 .. n
      /\ Len(Open) \in Nat /\ DOMAIN Open = 1 .. Len(Open)
      /\ \A a \in DOMAIN Open : Open[a] \in 1 .. n
  BY Reading
<1>2. /\ \A j \in 1 .. n : (\E a \in DOMAIN Open : Open[a] = j) <=> StillOpen(read, j)
      /\ \A a, b \in DOMAIN Open : a < b => Open[a] < Open[b]
  BY <1>1, Reading DEF OpenInv
<1>3. \A a \in DOMAIN Open : read[Open[a]].indent = stack[a]
  BY Reading DEF StackInv
<1>4. \A j \in 1 .. n : StillOpen(g, j) <=> StillOpen(read, j) /\ read[j].indent < l.indent
  BY <1>1, NextCode
<1>5. \A j \in 1 .. n : StillOpen(g, j) <=> j \in Outer(p)
  <2> SUFFICES ASSUME NEW j \in 1 .. n
               PROVE  StillOpen(g, j) <=> j \in Outer(p)
    OBVIOUS
  <2>1. ASSUME StillOpen(g, j)
        PROVE  j \in Outer(p)
    <3>1. PICK a \in DOMAIN Open : Open[a] = j
      BY <2>1, <1>2, <1>4
    <3>2. stack[a] < l.indent
      BY <3>1, <2>1, <1>3, <1>4
    <3>3. a \in 1 .. p
      BY <3>2, <1>1
    <3> QED BY <3>1, <3>3 DEF Outer
  <2>2. ASSUME j \in Outer(p)
        PROVE  StillOpen(g, j)
    <3>1. PICK a \in 1 .. p : Open[a] = j
      BY <2>2 DEF Outer
    <3>2. a \in DOMAIN Open
      BY <1>1
    <3>3. stack[a] < l.indent
      BY <3>2, <1>1
    <3> QED BY <3>1, <3>2, <3>3, <1>2, <1>3, <1>4
  <2> QED BY <2>1, <2>2
<1>6. Outer(p) \subseteq 1 .. n
  BY <1>1 DEF Outer
<1>7. Blocks(g, n + 1) = Outer(p)
  <2>1. Blocks(g, n + 1) = {j \in 1 .. n : StillOpen(g, j)}
    BY <1>1, NextCode
  <2> QED BY <2>1, <1>5, <1>6
<1>8. ~ Raw(g, n + 1)
  <2> SUFFICES ASSUME Raw(g, n + 1) PROVE FALSE
    OBVIOUS
  <2>1. PICK j \in 1 .. n : StillOpen(g, j) /\ read[j].kind = "unsafe"
    BY <1>1, NextCode
  <2>2. PICK a \in DOMAIN Open : Open[a] = j
    BY <2>1, <1>2, <1>4
  <2>3. a = Len(Open) /\ unsafe # {}
    BY <2>1, <2>2, Reading DEF StackInv
  <2>4. Len(Open) = Len(stack) /\ unsafe = {stack[Len(stack)]}
    BY <2>3, Reading DEF StackInv, LinesInv
  <2>5. l.indent <= read[j].indent
    BY <2>2, <2>3, <2>4, <1>3
  <2>6. read[j].indent < l.indent
    BY <2>1, <1>4
  <2>7. read[j] \in Lines
    BY <1>1
  <2> QED BY <2>5, <2>6, <2>7, LineFacts
<1>9. StillOpen(g, n + 1) <=> l.kind \in Opens
  BY <1>1, <1>8, NextCode
<1> QED BY <1>5, <1>7, <1>8, <1>9

(* A line that is not at the column of its block is not aligned.               *)
LEMMA CodeMisaligned ==
  ASSUME IInv, status = "reading", NEW l \in Lines, l # Blank,
         NEW m \in DOMAIN stack, stack[m] # l.indent, m - 1 <= Len(Open),
         Blocks(Append(read, l), Len(read) + 1) = Outer(m - 1)
  PROVE  ~ Aligned(Append(read, l), Len(read) + 1)
<1> DEFINE g == Append(read, l)
           n == Len(read)
<1>1. /\ read \in Seq(Lines) /\ n \in Nat /\ DOMAIN read = 1 .. n
      /\ Len(stack) \in Nat /\ DOMAIN stack = 1 .. Len(stack) /\ stack[1] = 0 /\ AlignInv
  BY Reading DEF LinesInv
<1>2. /\ g[n + 1] = l
      /\ \A i \in 1 .. n : g[i] = read[i] /\ (Code(g, i) <=> Code(read, i))
                           /\ (Raw(g, i) <=> Raw(read, i)) /\ Blocks(g, i) = Blocks(read, i)
  BY <1>1, FilePrefix
<1>3. CASE m = 1
  <2>1. Outer(0) = {}
    BY DEF Outer
  <2>2. Blocks(g, n + 1) = {} /\ g[n + 1].indent # 0
    BY <1>1, <1>2, <1>3, <2>1
  <2> QED BY <2>2 DEF Aligned
<1>4. CASE m # 1
  <2>1. m \in 2 .. Len(stack)
    BY <1>1, <1>4
  <2>2. PICK i \in 1 .. n : Code(read, i) /\ ~ Raw(read, i) /\ Blocks(read, i) = Outer(m - 1)
    BY <1>1, <2>1 DEF AlignInv
  <2>3. read[i].indent = stack[m]
    BY <1>1, <2>2 DEF AlignInv
  <2>4. i \in 1 .. n + 1 - 1
    BY <1>1
  <2> HIDE DEF g
  <2>5. Blocks(g, i) = Blocks(g, n + 1) /\ Code(g, i) /\ ~ Raw(g, i) /\ g[i].indent # g[n + 1].indent
    BY <1>2, <2>2, <2>3 DEF g
  <2> QED BY <2>4, <2>5 DEF Aligned, g
<1> QED BY <1>3, <1>4


LEMMA SeqInto ==
  ASSUME NEW S, NEW s \in Seq(S), NEW T, \A a \in 1 .. Len(s) : s[a] \in T
  PROVE  s \in Seq(T)
OBVIOUS

(* The braces after a line that closes all but the p outer ones.                 *)
LEMMA NextOpens ==
  ASSUME IInv, status = "reading", NEW n \in Nat, n = Len(lines), NEW p \in 0 .. Len(Open), NEW b \in BOOLEAN,
         lines' = Append(Closing(Len(Open) - p), Written(b))
  PROVE  /\ lines' \in Seq(Written1) /\ Len(lines') = n + 1
         /\ lines'[Len(lines')].closes = 0 /\ lines' # <<>>
         /\ \A i \in 1 .. n : OpenBefore(i)' = OpenBefore(i)
         /\ OpenBefore(n + 1)' = Outer(p)
         /\ Open' \in Seq(Nat) /\ Len(Open') = p + (IF b THEN 1 ELSE 0)
         /\ \A a \in 1 .. p : Open'[a] = Open[a]
         /\ b => Open'[p + 1] = n + 1
         /\ \A k \in 0 .. p : Outer(k)' = Outer(k)
<1> DEFINE O == Open
           kept == SubSeq(O, 1, p)
           v == Append(Closing(Len(O) - p), Written(b))
<1>1. /\ lines \in Seq(Written1) /\ n \in Nat /\ O \in Seq(Nat) /\ Len(O) \in Nat
      /\ lines # <<>> => lines[Len(lines)].closes = 0
      /\ \A a \in 1 .. Len(O) : O[a] \in 1 .. n
  BY Reading DEF LinesInv
<1>2. lines = <<>> => Len(O) - p = 0
  <2> SUFFICES ASSUME lines = <<>>, Len(O) # 0 PROVE FALSE
    BY <1>1
  <2>1. 1 \in 1 .. Len(O) /\ n = 0
    BY <1>1
  <2> HIDE DEF O
  <2> QED BY <2>1, <1>1
<1>3. Len(O) - p \in Nat /\ Len(O) - p <= Len(O) /\ Len(O) - (Len(O) - p) = p
  BY <1>1
<1>4. /\ v \in Seq(Written1) /\ Len(v) = n + 1 /\ v[Len(v)].closes = 0
      /\ \A j \in 0 .. n - 1 : OpenAfter(v)[j] = OpenAfter(lines)[j]
      /\ OpenAfter(v)[n] = kept
      /\ OpenAfter(v)[Len(v)] = IF b THEN Append(kept, Len(v)) ELSE kept
  BY <1>1, <1>2, <1>3, StepOpens
<1>5. kept \in Seq(Nat) /\ Len(kept) = p /\ \A a \in 1 .. p : kept[a] = O[a]
  <2>1. p \in Nat /\ p <= Len(O)
    BY <1>1
  <2>2. \A a \in 1 .. p : O[a] \in Nat
    BY SMTT(30), <2>1, <1>1
  <2>3. \A a \in 1 .. p : kept[a] = O[1 + a - 1]
    BY <2>1, <2>2, SubSeqProperties
  <2>4. \A a \in 1 .. p : 1 + a - 1 = a
    BY <2>1
  <2>5. kept \in Seq(Nat) /\ Len(kept) = p
    BY <2>1, <2>2, SubSeqProperties
  <2> QED BY <2>3, <2>4, <2>5
<1>6. lines' = v /\ Open' = OpenAfter(v)[Len(v)]
  BY DEF Open
<1>7. \A i \in 1 .. n : OpenBefore(i)' = OpenBefore(i)
  <2> SUFFICES ASSUME NEW i \in 1 .. n
               PROVE  OpenBefore(i)' = OpenBefore(i)
    OBVIOUS
  <2>1. i - 1 \in 0 .. n - 1
    BY <1>1
  <2> QED BY <2>1, <1>4, <1>6 DEF OpenBefore
<1>8. OpenBefore(n + 1)' = Outer(p)
  <2>1. OpenBefore(n + 1)' = ToSet(OpenAfter(v)[n + 1 - 1])
    BY <1>6 DEF OpenBefore
  <2>2. n + 1 - 1 = n
    BY <1>1
  <2>3. ToSet(kept) = {O[a] : a \in 1 .. p}
    <3>1. DOMAIN kept = 1 .. p
      BY <1>5
    <3> HIDE DEF kept, O
    <3> QED BY <3>1, <1>5 DEF ToSet
  <2> QED BY <2>1, <2>2, <2>3, <1>4 DEF Outer
<1> HIDE DEF kept, O
<1>9. /\ Open' \in Seq(Nat) /\ Len(Open') = p + (IF b THEN 1 ELSE 0)
      /\ \A a \in 1 .. p : Open'[a] = O[a]
      /\ b => Open'[p + 1] = n + 1
  <2>1. CASE b
    <3>1. Open' = Append(kept, n + 1)
      BY <2>1, <1>4, <1>6
    <3>2. n + 1 \in Nat
      BY <1>1
    <3>3. /\ Append(kept, n + 1) \in Seq(Nat) /\ Len(Append(kept, n + 1)) = p + 1
          /\ \A a \in 1 .. p : Append(kept, n + 1)[a] = kept[a]
          /\ Append(kept, n + 1)[p + 1] = n + 1
      BY <3>2, <1>5, AppendProperties
    <3> QED BY <2>1, <3>1, <3>3, <1>5
  <2>2. CASE ~ b
    <3>1. Open' = kept
      BY <2>2, <1>4, <1>6
    <3> QED BY <2>2, <3>1, <1>5
  <2> QED BY <2>1, <2>2
<1>10. \A k \in 0 .. p : Outer(k)' = Outer(k)
  <2> SUFFICES ASSUME NEW k \in 0 .. p
               PROVE  Outer(k)' = Outer(k)
    OBVIOUS
  <2>1. \A a \in 1 .. k : Open'[a] = Open[a]
    BY <1>9 DEF O
  <2> QED BY <2>1 DEF Outer
<1>11. lines' # <<>>
  BY SMTT(30), <1>1, <1>4, <1>6
<1> QED BY <1>4, <1>6, <1>7, <1>8, <1>9, <1>10, <1>11 DEF O

LEMMA CodeAccepted ==
  ASSUME IInv, status = "reading", NEW n \in Nat, n = Len(read), NEW l \in Lines, l # Blank,
         \A column \in unsafe : l.indent <= column,
         read' = Append(read, l),
         NEW e \in Seq(Indents), NEW q \in 1 .. Len(e),
         \A k \in DOMAIN stack : k <= Len(e) /\ e[k] = stack[k],
         \A i, j \in 1 .. Len(e) : i < j => e[i] < e[j],
         q <= Len(stack) \/ (pending /\ q = Len(stack) + 1 /\ q = Len(Open) + 1),
         e[q] = l.indent, q - 1 <= Len(Open),
         \A a \in DOMAIN Open : stack[a] < l.indent <=> a <= q - 1,
         stack' = SubSeq(e, 1, q),
         lines' = Append(Closing(Len(Open) - (q - 1)), Written(l.kind # "plain")),
         pending' = (l.kind = "header"),
         unsafe' = IF l.kind = "unsafe" THEN {l.indent} ELSE {},
         status' = status
  PROVE  TypeOK' /\ LinesInv' /\ OpenInv' /\ StackInv' /\ AlignInv' /\ Braced'
<1> DEFINE p == q - 1
           b == l.kind # "plain"
           d == l.indent
<1>1. /\ read \in Seq(Lines) /\ n \in Nat /\ DOMAIN read = 1 .. n /\ Len(lines) = n
      /\ Len(Open) \in Nat /\ DOMAIN Open = 1 .. Len(Open) /\ Open \in Seq(Nat)
      /\ \A a \in 1 .. Len(Open) : Open[a] \in 1 .. n
      /\ Len(stack) \in Nat /\ DOMAIN stack = 1 .. Len(stack) /\ Len(stack) >= 1
      /\ Last(stack) = stack[Len(stack)] /\ stack \in Seq(Nat)
  BY Reading
<1>2. /\ stack[1] = 0 /\ e[1] = 0 /\ Len(e) \in Nat /\ q \in Nat /\ q >= 1 /\ q <= Len(e)
      /\ e \in Seq(Nat)
  <2>1. stack[1] = 0 /\ e[1] = 0
    <3>1. 1 \in DOMAIN stack /\ stack[1] = 0
      BY <1>1, Reading DEF LinesInv
    <3> QED BY <3>1
  <2>2. Len(e) \in Nat
    OBVIOUS
  <2>3. e \in Seq(Nat)
    BY IndentsAssumption, SeqMonotonic
  <2> QED BY <2>1, <2>2, <2>3
<1>3. p \in 0 .. Len(Open) /\ p \in Nat /\ q = p + 1
  BY <1>1, <1>2
<1>4. /\ stack' \in Seq(Indents) /\ Len(stack') = q /\ DOMAIN stack' = 1 .. q
      /\ \A k \in 1 .. q : stack'[k] = e[k]
      /\ \A i, j \in 1 .. q : i < j => stack'[i] < stack'[j]
      /\ stack' # <<>> /\ stack'[1] = 0
  <2>1. \A k \in 1 .. q : e[k] \in Indents
    BY <1>2
  <2>2. stack' \in Seq(Indents) /\ Len(stack') = q /\ \A k \in 1 .. q : stack'[k] = e[k]
    BY <2>1, <1>2, SubSeqProperties
  <2>3. \A k \in 1 .. q : k \in 1 .. Len(e)
    BY <1>2
  <2>4. DOMAIN stack' = 1 .. q /\ 1 \in 1 .. q
    BY <2>2, <1>2
  <2>5. \A i, j \in 1 .. q : i < j => stack'[i] < stack'[j]
    BY <2>2, <2>3
  <2>6. stack' # <<>> /\ stack'[1] = 0
    <3>1. stack'[1] = 0
      BY <2>2, <2>4, <1>2
    <3>2. Len(stack') # 0
      BY <2>2, <1>2
    <3> QED BY <3>1, <3>2, <2>2
  <2> QED BY <2>2, <2>4, <2>5, <2>6
<1>5. l.kind \in Kinds /\ d \in Indents /\ d \in Nat /\ (b <=> l.kind \in Opens)
  <2>1. l.kind \in Kinds /\ d \in Indents /\ d \in Nat
    BY LineFacts
  <2> QED BY <2>1 DEF Kinds, Opens
<1>6. /\ lines' \in Seq(Written1) /\ Len(lines') = n + 1
      /\ lines'[Len(lines')].closes = 0 /\ lines' # <<>>
      /\ \A i \in 1 .. n : OpenBefore(i)' = OpenBefore(i)
      /\ OpenBefore(n + 1)' = Outer(p)
      /\ Open' \in Seq(Nat) /\ Len(Open') = p + (IF b THEN 1 ELSE 0)
      /\ \A a \in 1 .. p : Open'[a] = Open[a]
      /\ b => Open'[p + 1] = n + 1
      /\ \A k \in 0 .. p : Outer(k)' = Outer(k)
  <2>1. lines' = Append(Closing(Len(Open) - p), Written(b)) /\ b \in BOOLEAN
    OBVIOUS
  <2> HIDE DEF b, p
  <2> QED BY <2>1, <1>1, <1>3, NextOpens
<1>7. /\ \A j \in 1 .. n : StillOpen(read', j) <=> j \in Outer(p)
      /\ Blocks(read', n + 1) = Outer(p)
      /\ ~ Raw(read', n + 1)
      /\ StillOpen(read', n + 1) <=> b
  BY <1>3, <1>5, CodeEncloses
<1>8. /\ read' \in Seq(Lines) /\ Len(read') = n + 1 /\ read'[n + 1] = l
      /\ \A i \in 1 .. n : /\ read'[i] = read[i] /\ (Code(read', i) <=> Code(read, i))
                           /\ (Raw(read', i) <=> Raw(read, i)) /\ Blocks(read', i) = Blocks(read, i)
                           /\ (Aligned(read', i) <=> Aligned(read, i))
      /\ DOMAIN read' = 1 .. n + 1
      /\ \A i \in 1 .. n + 1 : i \in 1 .. n \/ i = n + 1
  <2>1. /\ read' \in Seq(Lines) /\ Len(read') = n + 1 /\ read'[n + 1] = l
        /\ \A i \in 1 .. n : /\ read'[i] = read[i] /\ (Code(read', i) <=> Code(read, i))
                             /\ (Raw(read', i) <=> Raw(read, i)) /\ Blocks(read', i) = Blocks(read, i)
                             /\ (Aligned(read', i) <=> Aligned(read, i))
    <3> DEFINE g == Append(read, l)
    <3>1. /\ g \in Seq(Lines) /\ Len(g) = Len(read) + 1 /\ g[Len(read) + 1] = l
          /\ \A i \in 1 .. Len(read) :
               /\ g[i] = read[i] /\ (Code(g, i) <=> Code(read, i))
               /\ (Raw(g, i) <=> Raw(read, i)) /\ Blocks(g, i) = Blocks(read, i)
               /\ (Aligned(g, i) <=> Aligned(read, i))
      BY <1>1, FilePrefix
    <3> HIDE DEF g
    <3>2. read' = g
      BY DEF g
    <3> QED BY <3>1, <3>2
  <2>2. DOMAIN read' = 1 .. n + 1
    BY <2>1
  <2>3. \A i \in 1 .. n + 1 : i \in 1 .. n \/ i = n + 1
    BY <1>1
  <2> QED BY <2>1, <2>2, <2>3
<1>9. \A a \in 1 .. p : read[Open[a]].kind # "unsafe"
  <2> SUFFICES ASSUME NEW a \in 1 .. p, read[Open[a]].kind = "unsafe"
               PROVE  FALSE
    OBVIOUS
  <2>1. a \in DOMAIN Open /\ stack[a] < d
    BY SMTT(30), <1>1, <1>3
  <2>2. a = Len(Open) /\ unsafe # {}
    BY <2>1, Reading DEF StackInv
  <2>3. Len(Open) = Len(stack) /\ unsafe = {Last(stack)}
    <3>1. Len(Open) = Len(stack) - 1 + 1
      BY <2>2, Reading DEF StackInv
    <3>2. unsafe = {Last(stack)}
      BY <2>2, Reading DEF LinesInv
    <3> QED BY <3>1, <3>2, <1>1
  <2>4. d <= stack[a] /\ stack[a] \in Nat
    BY <1>1, <2>2, <2>3
  <2> QED BY <2>1, <2>4, <1>5
<1> HIDE DEF p, b, d
<1>10. LinesInv'
  <2>1. Last(stack') = d
    <3>1. q \in 1 .. q
      BY <1>2
    <3> QED BY <3>1, <1>4 DEF Last, d
  <2>3. unsafe' = {} \/ (unsafe' = {d} /\ ~ pending')
    BY DEF d
  <2>4. pending' \in BOOLEAN
    OBVIOUS
  <2> QED BY <1>4, <1>6, <1>8, <2>1, <2>3, <2>4 DEF LinesInv
<1>11. TypeOK'
  <2>1. unsafe' \subseteq Indents /\ Cardinality(unsafe') <= 1
    <3>1. unsafe' = {} \/ unsafe' = {d}
      BY DEF d
    <3>2. Cardinality(unsafe') = 0 \/ Cardinality(unsafe') = 1
      BY <3>1, FS_EmptySet, FS_Singleton
    <3> QED BY <3>1, <3>2, <1>5
  <2> QED BY <1>4, <1>6, <1>8, <2>1 DEF TypeOK, Written1
<1>12. DOMAIN Open' = 1 .. p + (IF b THEN 1 ELSE 0)
  BY <1>6, <1>3
<1>13. OpenInv'
  <2>1. \A a \in DOMAIN Open' : Open'[a] \in 1 .. n + 1
    <3> SUFFICES ASSUME NEW a \in DOMAIN Open'
                 PROVE  Open'[a] \in 1 .. n + 1
      OBVIOUS
    <3>1. a \in 1 .. p \/ (b /\ a = p + 1)
      BY <1>12, <1>3
    <3>2. a \in 1 .. p => Open[a] \in 1 .. n
      BY <1>1, <1>3
    <3>3. CASE a \in 1 .. p
      <4>1. Open'[a] = Open[a]
        BY <3>3, <1>6
      <4> QED BY <3>2, <3>3, <4>1, <1>1
    <3>4. CASE b /\ a = p + 1
      BY <3>4, <1>1, <1>6
    <3> QED BY <3>1, <3>3, <3>4
  <2>2. Open' \in Seq(DOMAIN read')
    <3>1. Len(Open') \in Nat /\ DOMAIN Open' = 1 .. Len(Open')
      BY <1>6
    <3>2. \A a \in 1 .. Len(Open') : Open'[a] \in DOMAIN read'
      BY <3>1, <2>1, <1>8
    <3> QED BY <3>1, <3>2, <1>6, SeqInto
  <2>3. ASSUME NEW x \in DOMAIN Open', NEW y \in DOMAIN Open', x < y
        PROVE  Open'[x] < Open'[y] /\ read'[Open'[x]].indent < read'[Open'[y]].indent
    <3>1. x \in 1 .. p /\ (y \in 1 .. p \/ (b /\ y = p + 1))
      BY <2>3, <1>12, <1>3
    <3>2. x \in DOMAIN Open /\ Open[x] \in 1 .. n /\ Open'[x] = Open[x]
      BY <3>1, <1>1, <1>3, <1>6
    <3>3. CASE y \in 1 .. p
      <4>1. y \in DOMAIN Open /\ Open[y] \in 1 .. n /\ Open'[y] = Open[y]
        BY <3>3, <1>1, <1>3, <1>6
      <4>2. Open[x] < Open[y] /\ read[Open[x]].indent < read[Open[y]].indent
        BY <2>3, <3>2, <4>1, Reading DEF OpenInv
      <4> QED BY <3>2, <4>1, <4>2, <1>8
    <3>4. CASE b /\ y = p + 1
      <4>1. Open'[y] = n + 1 /\ read'[Open'[y]].indent = d
        BY <3>4, <1>6, <1>8 DEF d
      <4>2. stack[x] < d
        BY <3>1, <3>2, <1>3 DEF d, p
      <4>3. read'[Open'[x]].indent = stack[x]
        BY <3>2, <1>8, Reading DEF StackInv
      <4> QED BY <3>2, <4>1, <4>2, <4>3, <1>1
    <3> QED BY <3>1, <3>3, <3>4
  <2>4. ASSUME NEW j \in 1 .. n + 1
        PROVE  (\E a \in DOMAIN Open' : Open'[a] = j) <=> StillOpen(read', j)
    <3>1. CASE j \in 1 .. n
      <4>1. (\E a \in DOMAIN Open' : Open'[a] = j) <=> j \in Outer(p)
        <5>1. \A a \in DOMAIN Open' : a \in 1 .. p \/ (b /\ a = p + 1)
          BY <1>12, <1>3
        <5>2. \A a \in 1 .. p : a \in DOMAIN Open'
          BY <1>12, <1>3
        <5>3. j # n + 1
          BY <3>1, <1>1
        <5> QED BY <5>1, <5>2, <5>3, <1>6 DEF Outer
      <4> QED BY <3>1, <4>1, <1>7
    <3>2. CASE j = n + 1
      <4>1. ASSUME NEW a \in DOMAIN Open', Open'[a] = n + 1
            PROVE  b
        <5>1. a \in 1 .. p \/ b
          BY <1>12, <1>3
        <5>2. a \in 1 .. p => Open'[a] \in 1 .. n
          BY <1>1, <1>3, <1>6
        <5> QED BY <4>1, <5>1, <5>2, <1>1
      <4>2. ASSUME b
            PROVE  p + 1 \in DOMAIN Open' /\ Open'[p + 1] = n + 1
        BY <4>2, <1>12, <1>3, <1>6
      <4> QED BY <3>2, <4>1, <4>2, <1>7
    <3> QED BY <3>1, <3>2, <1>8
  <2> QED BY <2>2, <2>3, <2>4, <1>8 DEF OpenInv
<1>14. StackInv'
  <2>1. Len(Open') = Len(stack') - 1 + (IF pending' \/ unsafe' # {} THEN 1 ELSE 0)
    <3>1. b <=> (pending' \/ unsafe' # {})
      BY <1>5 DEF b, Kinds
    <3> QED BY <3>1, <1>3, <1>4, <1>6
  <2>2. ASSUME NEW a \in DOMAIN Open'
        PROVE  /\ read'[Open'[a]].indent = stack'[a]
               /\ read'[Open'[a]].kind = "unsafe" <=> (a = Len(Open') /\ unsafe' # {})
    <3>1. a \in 1 .. p \/ (b /\ a = p + 1)
      BY <1>12, <1>3
    <3>2. CASE a \in 1 .. p
      <4>1. a \in DOMAIN Open /\ Open[a] \in 1 .. n /\ Open'[a] = Open[a] /\ a \in 1 .. q
        BY <3>2, <1>1, <1>3, <1>6
      <4>2. read'[Open'[a]] = read[Open[a]] /\ read[Open[a]].indent = stack[a]
        BY <4>1, <1>8, Reading DEF StackInv
      <4>3. a \in DOMAIN stack
        BY SMTT(30), <3>2, <1>1, <1>3
      <4>4. stack'[a] = stack[a]
        BY <4>1, <4>3, <1>4
      <4>5. ~ (a = Len(Open') /\ unsafe' # {})
        <5>1. unsafe' # {} => b
          BY DEF b
        <5> QED BY <5>1, <3>2, <1>3, <1>6
      <4> QED BY <4>2, <4>4, <4>5, <3>2, <1>9
    <3>3. CASE b /\ a = p + 1
      <4>1. Open'[a] = n + 1 /\ read'[Open'[a]] = l /\ stack'[a] = d /\ a = Len(Open')
        <5>1. a = q /\ q \in 1 .. q
          BY <3>3, <1>3, <1>2
        <5> QED BY <5>1, <3>3, <1>4, <1>6, <1>8 DEF d
      <4> QED BY <4>1 DEF d
    <3> QED BY <3>1, <3>2, <3>3
  <2>3. pending' => \A k \in Open'[Len(Open')] + 1 .. Len(read') : ~ Code(read', k)
    <3> SUFFICES ASSUME pending' PROVE Open'[Len(Open')] = n + 1
      BY <1>1, <1>8
    <3>1. b
      BY DEF b
    <3> QED BY <3>1, <1>6
  <2> QED BY <2>1, <2>2, <2>3 DEF StackInv
<1>15. ASSUME NEW i \in 1 .. n, NEW m \in 1 .. q, Code(read, i), ~ Raw(read, i),
              Blocks(read, i) = Outer(m - 1)
       PROVE  read[i].indent = stack'[m]
  <2>1. m - 1 <= Len(Open) /\ m - 1 \in 0 .. p
    BY <1>3, <1>1, <1>2
  <2>2. CASE m <= Len(stack)
    <3>1. m \in DOMAIN stack
      BY <2>2, <1>1, <1>2
    <3>2. stack'[m] = stack[m]
      BY <3>1, <1>4
    <3> QED BY <3>1, <3>2, <2>1, <1>15, <1>1, Reading DEF AlignInv
  <2>3. CASE ~ (m <= Len(stack))
    <3>1. pending /\ m = q /\ m - 1 = Len(Open) /\ Len(Open) >= 1
      <4>1. m \in Nat /\ m <= q /\ m > Len(stack)
        BY <2>3, <1>1, <1>2
      <4>2. pending /\ q = Len(stack) + 1 /\ q = Len(Open) + 1
        BY <4>1, <1>1, <1>2
      <4> QED BY <4>1, <4>2, <1>1
    <3>2. Len(Open) \in 1 .. Len(Open) /\ Open[Len(Open)] \in Outer(m - 1)
      <4>1. Len(Open) \in 1 .. Len(Open)
        BY <3>1, <1>1
      <4> QED BY <4>1, <3>1 DEF Outer
    <3>3. Open[Len(Open)] \in 1 .. i - 1
      BY <3>2, <1>15 DEF Blocks
    <3>4. i \in Open[Len(Open)] + 1 .. n
      BY <3>3, <1>1
    <3> QED BY <3>1, <3>4, <1>15, Reading DEF StackInv
  <2> QED BY <2>2, <2>3
<1>16. Aligned(read', n + 1)
  <2>1. ASSUME Blocks(read', n + 1) = {}
        PROVE  read'[n + 1].indent = 0
    <3>1. p = 0
      <4> SUFFICES ASSUME p # 0 PROVE FALSE
        OBVIOUS
      <4>1. 1 \in 1 .. p
        BY <1>3
      <4>2. Open[1] \in Outer(p)
        BY <4>1 DEF Outer
      <4> QED BY <4>2, <2>1, <1>7
    <3>2. e[1] = d
      BY <3>1, <1>3 DEF d
    <3> QED BY <3>2, <1>2, <1>8 DEF d
  <2>2. ASSUME NEW k \in 1 .. n + 1 - 1, Code(read', k), ~ Raw(read', k),
               Blocks(read', k) = Blocks(read', n + 1)
        PROVE  read'[k].indent = read'[n + 1].indent
    <3>1. k \in 1 .. n
      BY <1>1
    <3>2. Code(read, k) /\ ~ Raw(read, k) /\ Blocks(read, k) = Outer(q - 1)
      BY <3>1, <2>2, <1>7, <1>8 DEF p
    <3>3. q \in 1 .. q
      BY <1>2
    <3>4. read[k].indent = stack'[q]
      BY <3>1, <3>2, <3>3, <1>15
    <3> QED BY <3>1, <3>3, <3>4, <1>4, <1>8 DEF d
  <2> QED BY <2>1, <2>2 DEF Aligned
<1>17. AlignInv'
  <2>1. \A i \in 1 .. n + 1 : Code(read', i) /\ ~ Raw(read', i) => Aligned(read', i)
    BY <1>1, <1>8, <1>16, Reading DEF AlignInv
  <2>2. ASSUME NEW i \in 1 .. n + 1, NEW m \in 1 .. q, m - 1 <= Len(Open'),
               Code(read', i), ~ Raw(read', i), Blocks(read', i) = Outer(m - 1)'
        PROVE  read'[i].indent = stack'[m]
    <3>1. m - 1 \in 0 .. p /\ Outer(m - 1)' = Outer(m - 1)
      BY <1>2, <1>3, <1>6
    <3>2. CASE i \in 1 .. n
      BY <2>2, <3>1, <3>2, <1>8, <1>15
    <3>3. CASE i = n + 1
      <4>1. Outer(m - 1) = Outer(p)
        BY <2>2, <3>1, <3>3, <1>7
      <4>2. m - 1 = p
        <5> SUFFICES ASSUME m - 1 < p PROVE FALSE
          BY <3>1, <1>3
        <5>1. p \in 1 .. p /\ p \in DOMAIN Open /\ p \in 1 .. Len(Open)
          BY <3>1, <1>3, <1>1
        <5>2. PICK a \in 1 .. m - 1 : Open[a] = Open[p]
          <6>1. Open[p] \in Outer(p)
            BY <5>1 DEF Outer
          <6> QED BY <6>1, <4>1 DEF Outer
        <5>3. a \in DOMAIN Open /\ a < p
          BY <3>1, <1>1, <1>3
        <5>4. Open[a] < Open[p]
          BY <5>1, <5>3, Reading DEF OpenInv
        <5>5. Open[p] \in 1 .. n
          BY <5>1, <1>1
        <5> QED BY SMTT(30), <5>2, <5>4, <5>5, <1>1
      <4>3. m = q /\ stack'[q] = d
        <5>1. m = q /\ q \in 1 .. q
          BY <4>2, <1>2, <1>3
        <5> QED BY <5>1, <1>4 DEF d
      <4> QED BY <3>3, <4>3, <1>8 DEF d
    <3> QED BY <3>2, <3>3, <1>8
  <2>3. ASSUME NEW m \in 2 .. q
        PROVE  \E i \in 1 .. n + 1 :
                 Code(read', i) /\ ~ Raw(read', i) /\ Blocks(read', i) = Outer(m - 1)'
    <3>1. m - 1 \in 0 .. p /\ Outer(m - 1)' = Outer(m - 1)
      BY <1>2, <1>3, <1>6
    <3>2. CASE m = q
      <4>1. n + 1 \in 1 .. n + 1 /\ m - 1 = p
        BY <3>2, <1>1, <1>3
      <4>2. Code(read', n + 1)
        BY <1>8 DEF Code
      <4> QED BY <3>1, <4>1, <4>2, <1>7
    <3>3. CASE m # q
      <4>1. m \in 2 .. Len(stack)
        <5>1. m \in Nat /\ m >= 2 /\ m < q /\ q <= Len(stack) + 1
          BY SMTT(30), <3>3, <1>1, <1>2
        <5> QED BY <5>1, <1>1
      <4>2. PICK i \in 1 .. n : Code(read, i) /\ ~ Raw(read, i) /\ Blocks(read, i) = Outer(m - 1)
        BY <4>1, <1>1, Reading DEF AlignInv
      <4>3. i \in 1 .. n + 1
        BY <1>1
      <4> QED BY <3>1, <4>2, <4>3, <1>8
    <3> QED BY <3>2, <3>3
  <2>4. Len(stack') = q /\ DOMAIN stack' = 1 .. q /\ DOMAIN read' = 1 .. n + 1
    BY <1>4, <1>8
  <2> HIDE DEF Code, Raw, Blocks, Aligned
  <2> QED BY <2>1, <2>2, <2>3, <2>4 DEF AlignInv
<1>18. Braced'
  <2> SUFFICES ASSUME NEW i \in 1 .. n + 1, Code(read', i)
               PROVE  OpenBefore(i)' = Blocks(read', i)
    BY <1>8 DEF Braced
  <2>1. CASE i \in 1 .. n
    <3>1. OpenBefore(i) = Blocks(read, i)
      BY <2>1, <1>1, <1>8, Reading DEF Braced
    <3> QED BY <2>1, <3>1, <1>6, <1>8
  <2>2. CASE i = n + 1
    BY <2>2, <1>6, <1>7
  <2> QED BY <2>1, <2>2, <1>8
<1> QED BY <1>10, <1>11, <1>13, <1>14, <1>17, <1>18


(* A line that is copied as it is changes nothing that is open.                 *)
LEMMA CopiedLine ==
  ASSUME IInv, status = "reading", NEW n \in Nat, n = Len(read), NEW l \in Lines,
         read' = Append(read, l), lines' = Append(lines, Written(FALSE)),
         UNCHANGED <<stack, pending, unsafe, status>>,
         \A j \in 1 .. n : StillOpen(read', j) <=> StillOpen(read, j),
         ~ StillOpen(read', n + 1),
         Code(read', n + 1) =>
           Raw(read', n + 1) /\ Blocks(read', n + 1) = Outer(Len(Open)) /\ ~ pending
  PROVE  TypeOK' /\ LinesInv' /\ OpenInv' /\ StackInv' /\ AlignInv' /\ Braced'
<1>1. /\ read \in Seq(Lines) /\ DOMAIN read = 1 .. n /\ Len(lines) = n
      /\ lines \in Seq(Written1)
      /\ Len(Open) \in Nat /\ DOMAIN Open = 1 .. Len(Open) /\ Open \in Seq(Nat)
      /\ \A a \in 1 .. Len(Open) : Open[a] \in 1 .. n
      /\ LinesInv /\ OpenInv /\ StackInv /\ AlignInv /\ Braced
  BY Reading
<1>2. /\ read' \in Seq(Lines) /\ Len(read') = n + 1 /\ DOMAIN read' = 1 .. n + 1
      /\ \A i \in 1 .. n : /\ read'[i] = read[i] /\ (Code(read', i) <=> Code(read, i))
                           /\ (Raw(read', i) <=> Raw(read, i)) /\ Blocks(read', i) = Blocks(read, i)
                           /\ (Aligned(read', i) <=> Aligned(read, i))
      /\ \A i \in 1 .. n + 1 : i \in 1 .. n \/ i = n + 1
  <2> DEFINE g == Append(read, l)
  <2>1. /\ g \in Seq(Lines) /\ Len(g) = Len(read) + 1
        /\ \A i \in 1 .. Len(read) :
             /\ g[i] = read[i] /\ (Code(g, i) <=> Code(read, i))
             /\ (Raw(g, i) <=> Raw(read, i)) /\ Blocks(g, i) = Blocks(read, i)
             /\ (Aligned(g, i) <=> Aligned(read, i))
    BY <1>1, FilePrefix
  <2> HIDE DEF g
  <2>2. read' = g
    BY DEF g
  <2>3. DOMAIN read' = 1 .. n + 1
    BY <2>1, <2>2
  <2> QED BY <2>1, <2>2, <2>3
<1>3. /\ lines' \in Seq(Written1) /\ Len(lines') = n + 1 /\ lines'[Len(lines')].closes = 0
      /\ \A j \in 0 .. n : OpenAfter(lines')[j] = OpenAfter(lines)[j]
      /\ Open' = Open
  <2>1. LET v == Append(lines, Written(FALSE))
            before == OpenAfter(lines)[Len(lines)]
        IN  /\ v \in Seq(Written1) /\ Len(v) = Len(lines) + 1 /\ v[Len(v)].closes = 0
            /\ \A j \in 0 .. Len(lines) : OpenAfter(v)[j] = OpenAfter(lines)[j]
            /\ OpenAfter(v)[Len(v)] = IF FALSE THEN Append(before, Len(v)) ELSE before
    BY <1>1, OpenAfterAppend
  <2> QED BY <2>1, <1>1 DEF Open
<1>4. \A k : Outer(k)' = Outer(k)
  BY <1>3 DEF Outer
<1>5. LinesInv' /\ TypeOK'
  <2>1. TypeOK
    BY DEF IInv
  <2>2. lines' # <<>> /\ status' = "reading"
    <3>1. Len(lines') # 0
      BY <1>3
    <3> QED BY <3>1
  <2>3. LinesInv'
    BY <1>1, <1>2, <1>3 DEF LinesInv
  <2> QED BY <2>1, <2>2, <2>3, <1>2, <1>3 DEF TypeOK, Written1
<1>6. OpenInv'
  <2>1. Open' \in Seq(DOMAIN read')
    <3>1. \A a \in 1 .. Len(Open) : Open[a] \in DOMAIN read'
      BY <1>1, <1>2
    <3> QED BY <3>1, <1>1, <1>3, SeqInto
  <2>2. \A a, b \in DOMAIN Open :
          a < b => Open[a] < Open[b] /\ read'[Open[a]].indent < read'[Open[b]].indent
    BY <1>1, <1>2 DEF OpenInv
  <2>3. ASSUME NEW j \in 1 .. n + 1
        PROVE  (\E a \in DOMAIN Open : Open[a] = j) <=> StillOpen(read', j)
    <3>1. CASE j \in 1 .. n
      BY <3>1, <1>1 DEF OpenInv
    <3>2. CASE j = n + 1
      BY <3>2, <1>1
    <3> QED BY <3>1, <3>2, <1>2
  <2> QED BY <2>1, <2>2, <2>3, <1>2, <1>3 DEF OpenInv
<1>7. StackInv'
  <2>1. \A k \in DOMAIN Open : read'[Open[k]] = read[Open[k]]
    BY <1>1, <1>2
  <2>2. ASSUME pending
        PROVE  \A k \in Open[Len(Open)] + 1 .. n + 1 : ~ Code(read', k)
    <3> SUFFICES ASSUME NEW k \in Open[Len(Open)] + 1 .. n + 1 PROVE ~ Code(read', k)
      OBVIOUS
    <3>1. Len(Open) >= 1
      <4>1. Len(Open) = Len(stack) - 1 + 1 /\ stack # <<>> /\ stack \in Seq(Indents)
        BY <2>2, <1>1 DEF StackInv, LinesInv
      <4> QED BY <4>1, <1>1
    <3>2. Open[Len(Open)] \in 1 .. n
      BY <3>1, <1>1
    <3>3. k = n + 1 \/ (k \in 1 .. n /\ k \in Open[Len(Open)] + 1 .. n)
      BY <3>2
    <3> QED BY <3>3, <2>2, <1>1, <1>2 DEF StackInv
  <2>3. Open' = Open /\ stack' = stack /\ pending' = pending /\ unsafe' = unsafe /\ Len(read') = n + 1
    BY <1>2, <1>3
  <2>4. /\ Len(Open') = Len(stack') - 1 + (IF pending' \/ unsafe' # {} THEN 1 ELSE 0)
        /\ \A k \in DOMAIN Open' : read'[Open'[k]].indent = stack'[k]
        /\ \A k \in DOMAIN Open' :
             (read'[Open'[k]].kind = "unsafe") <=> (k = Len(Open') /\ unsafe' # {})
    <3>1. /\ Len(Open) = Len(stack) - 1 + (IF pending \/ unsafe # {} THEN 1 ELSE 0)
          /\ \A k \in DOMAIN Open : read'[Open[k]].indent = stack[k]
          /\ \A k \in DOMAIN Open :
               (read'[Open[k]].kind = "unsafe") <=> (k = Len(Open) /\ unsafe # {})
      BY <2>1, <1>1 DEF StackInv
    <3> HIDE DEF Open
    <3>2. (pending' \/ unsafe' # {}) <=> (pending \/ unsafe # {})
      <4>1. pending' <=> pending
        BY <2>3
      <4>2. unsafe' = unsafe
        BY <2>3
      <4> QED BY <4>1, <4>2
    <3>3. Len(Open') = Len(stack') - 1 + (IF pending' \/ unsafe' # {} THEN 1 ELSE 0)
      BY <3>1, <3>2, <2>3
    <3>4. \A k \in DOMAIN Open' : read'[Open'[k]].indent = stack'[k]
      BY <3>1, <2>3
    <3>5. \A k \in DOMAIN Open' :
             (read'[Open'[k]].kind = "unsafe") <=> (k = Len(Open') /\ unsafe' # {})
      BY <3>1, <2>3
    <3> QED BY <3>3, <3>4, <3>5
  <2>5. pending' => \A k \in Open'[Len(Open')] + 1 .. Len(read') : ~ Code(read', k)
    BY <2>2, <2>3
  <2> HIDE DEF Open
  <2> QED BY <2>4, <2>5 DEF StackInv
<1>8. AlignInv'
  <2>1. \A i \in 1 .. n + 1 : Code(read', i) /\ ~ Raw(read', i) => i \in 1 .. n
    BY <1>2
  <2>2. \A i \in 1 .. n + 1 : Code(read', i) /\ ~ Raw(read', i) => Aligned(read', i)
    BY <2>1, <1>1, <1>2 DEF AlignInv
  <2>3. ASSUME NEW i \in 1 .. n + 1, NEW m \in DOMAIN stack, m - 1 <= Len(Open),
               Code(read', i), ~ Raw(read', i), Blocks(read', i) = Outer(m - 1)
        PROVE  read'[i].indent = stack[m]
    BY <2>1, <2>3, <1>1, <1>2 DEF AlignInv
  <2>4. ASSUME NEW m \in 2 .. Len(stack)
        PROVE  \E i \in 1 .. n + 1 : Code(read', i) /\ ~ Raw(read', i) /\ Blocks(read', i) = Outer(m - 1)
    <3>1. PICK i \in 1 .. n : Code(read, i) /\ ~ Raw(read, i) /\ Blocks(read, i) = Outer(m - 1)
      BY <1>1 DEF AlignInv
    <3>2. i \in 1 .. n + 1
      OBVIOUS
    <3> QED BY <3>1, <3>2, <1>2
  <2>5. Open' = Open /\ stack' = stack /\ DOMAIN read' = 1 .. n + 1
    BY <1>2, <1>3
  <2> QED BY <2>2, <2>3, <2>4, <2>5, <1>4 DEF AlignInv
<1>9. Braced'
  <2> SUFFICES ASSUME NEW i \in 1 .. n + 1, Code(read', i)
               PROVE  OpenBefore(i)' = Blocks(read', i)
    BY <1>2 DEF Braced
  <2>1. OpenBefore(i)' = OpenBefore(i)
    <3>1. i - 1 \in 0 .. n
      OBVIOUS
    <3> QED BY <3>1, <1>3 DEF OpenBefore
  <2>2. CASE i \in 1 .. n
    BY <2>1, <2>2, <1>1, <1>2 DEF Braced
  <2>3. CASE i = n + 1
    <3>1. OpenBefore(i) = ToSet(Open)
      BY <2>3, <1>1 DEF OpenBefore, Open
    <3>2. ToSet(Open) = Outer(Len(Open))
      BY <1>1 DEF ToSet, Outer
    <3> QED BY <3>1, <3>2, <2>1, <2>3
  <2> QED BY <2>2, <2>3, <1>2
<1> QED BY <1>5, <1>6, <1>7, <1>8, <1>9


(* From the parts to the properties, while the pass goes on.                    *)
LEMMA GoesOn ==
  ASSUME status' = "reading",
         TypeOK' /\ LinesInv' /\ OpenInv' /\ StackInv' /\ AlignInv' /\ Braced'
  PROVE  IInv'
<1>1. BlocksFollowIndents'
  BY DEF BlocksFollowIndents, Braced
<1>2. RefusesMisaligned'
  BY DEF RefusesMisaligned, AlignInv
<1> QED BY <1>1, <1>2 DEF IInv

LEMMA BlankStep ==
  ASSUME IInv, status = "reading", read' = Append(read, Blank), ReadBlank
  PROVE  IInv'
<1> DEFINE n == Len(read)
<1>1. Blank \in Lines /\ n \in Nat /\ read \in Seq(Lines)
  BY Reading DEF Lines
<1>2. PICK k \in Nat : k = Len(read)
  BY <1>1
<1>3. /\ \A j \in 1 .. k : StillOpen(read', j) <=> StillOpen(read, j)
      /\ ~ StillOpen(read', k + 1) /\ ~ Code(read', k + 1)
  BY <1>1, <1>2, NextBlank
<1>4. TypeOK' /\ LinesInv' /\ OpenInv' /\ StackInv' /\ AlignInv' /\ Braced'
  BY <1>1, <1>2, <1>3, CopiedLine DEF ReadBlank
<1> QED BY <1>4, GoesOn DEF ReadBlank

LEMMA RawStep ==
  ASSUME IInv, status = "reading", NEW l \in Lines, l # Blank,
         read' = Append(read, l), ReadRaw(l)
  PROVE  IInv'
<1>1. /\ read \in Seq(Lines) /\ DOMAIN read = 1 .. Len(read) /\ Len(read) \in Nat
      /\ Len(Open) \in Nat /\ DOMAIN Open = 1 .. Len(Open)
      /\ \A a \in DOMAIN Open : Open[a] \in 1 .. Len(read)
      /\ stack \in Seq(Nat) /\ Len(stack) \in Nat /\ Len(stack) >= 1 /\ DOMAIN stack = 1 .. Len(stack)
      /\ Last(stack) = stack[Len(stack)]
  BY Reading
<1>2. PICK n \in Nat : n = Len(read)
  BY <1>1
<1>3. PICK c \in unsafe : l.indent > c
  BY DEF ReadRaw
<1>4. unsafe = {stack[Len(stack)]} /\ ~ pending
  BY <1>1, <1>3, Reading DEF LinesInv
<1>5. Len(Open) = Len(stack)
  <2>1. Len(Open) = Len(stack) - 1 + (IF pending \/ unsafe # {} THEN 1 ELSE 0)
    BY Reading DEF StackInv
  <2>2. Len(Open) = Len(stack) - 1 + 1
    BY <2>1, <1>4
  <2> QED BY <2>2, <1>1
<1>6. l.indent \in Nat /\ l.indent > stack[Len(stack)]
  BY <1>3, <1>4, LineFacts
<1>7. ASSUME NEW a \in DOMAIN Open
      PROVE  read[Open[a]].indent < l.indent
  <2>1. a \in DOMAIN stack /\ Len(stack) \in DOMAIN stack /\ (a = Len(stack) \/ a < Len(stack))
    BY <1>1, <1>5
  <2>2. stack[a] \in Nat /\ stack[Len(stack)] \in Nat
    BY <1>1, <2>1
  <2>3. a < Len(stack) => stack[a] < stack[Len(stack)]
    BY <2>1, Reading DEF LinesInv
  <2>4. read[Open[a]].indent = stack[a]
    BY Reading DEF StackInv
  <2> QED BY <2>1, <2>2, <2>3, <2>4, <1>6
<1>8. \A j \in 1 .. n : StillOpen(read', j) <=> StillOpen(read, j)
  <2>1. \A j \in 1 .. n : StillOpen(read, j) => \E a \in DOMAIN Open : Open[a] = j
    BY <1>1, <1>2, Reading DEF OpenInv
  <2>2. \A j \in 1 .. n : StillOpen(read', j) <=> StillOpen(read, j) /\ read[j].indent < l.indent
    BY <1>1, <1>2, NextCode
  <2> QED BY <2>1, <2>2, <1>7
<1>9. Blocks(read', n + 1) = Outer(Len(Open))
  <2>1. Blocks(read', n + 1) = {j \in 1 .. n : StillOpen(read', j)}
    BY <1>1, <1>2, NextCode
  <2>2. \A j \in 1 .. n : StillOpen(read, j) <=> \E a \in DOMAIN Open : Open[a] = j
    BY <1>1, <1>2, Reading DEF OpenInv
  <2> QED BY SMTT(30), <2>1, <2>2, <1>1, <1>2, <1>8 DEF Outer
<1>10. Raw(read', n + 1)
  <2>1. Len(Open) \in DOMAIN Open /\ Open[Len(Open)] \in 1 .. n
    BY <1>1, <1>2, <1>5
  <2>2. read[Open[Len(Open)]].kind = "unsafe"
    BY <2>1, <1>4, Reading DEF StackInv
  <2>3. StillOpen(read', Open[Len(Open)])
    <3>1. StillOpen(read, Open[Len(Open)])
      BY <2>1, <1>1, <1>2, Reading DEF OpenInv
    <3> QED BY <2>1, <3>1, <1>8
  <2>4. Raw(read', n + 1) <=> \E j \in 1 .. n : StillOpen(read', j) /\ read[j].kind = "unsafe"
    BY <1>1, <1>2, NextCode
  <2> QED BY <2>1, <2>2, <2>3, <2>4
<1>11. ~ StillOpen(read', n + 1)
  BY <1>10 DEF StillOpen
<1>12. TypeOK' /\ LinesInv' /\ OpenInv' /\ StackInv' /\ AlignInv' /\ Braced'
  BY <1>2, <1>4, <1>8, <1>9, <1>10, <1>11, CopiedLine DEF ReadRaw
<1> QED BY <1>12, GoesOn DEF ReadRaw

LEMMA CodeStep ==
  ASSUME IInv, status = "reading", NEW l \in Lines, l # Blank,
         read' = Append(read, l), ReadCode(l)
  PROVE  IInv'
<1> DEFINE d == l.indent
           e == Entered(d)
<1>1. d \in Indents /\ d \in Nat /\ (\A column \in unsafe : d <= column)
  BY LineFacts DEF ReadCode
<1>2. PICK q \in 1 .. Len(e) :
        /\ e \in Seq(Indents) /\ Len(e) \in Nat
        /\ \A k \in DOMAIN stack : k <= Len(e) /\ e[k] = stack[k]
        /\ \A i, j \in 1 .. Len(e) : i < j => e[i] < e[j]
        /\ Unwound(e, d) = SubSeq(e, 1, q)
        /\ q <= Len(stack) \/ (pending /\ q = Len(stack) + 1 /\ q = Len(Open) + 1)
        /\ e[q] = d =>
             /\ q - 1 <= Len(Open) /\ Closes(d) = Len(Open) - (q - 1)
             /\ \A a \in DOMAIN Open : stack[a] < d <=> a <= q - 1
        /\ e[q] # d =>
             \E m \in DOMAIN stack :
               /\ stack[m] # d /\ m - 1 <= Len(Open)
               /\ \A a \in DOMAIN Open : stack[a] < d <=> a <= m - 1
  BY <1>1, CodeFacts
<1>3. /\ read \in Seq(Lines) /\ DOMAIN read = 1 .. Len(read) /\ lines \in Seq(Written1)
      /\ Len(read) \in Nat
      /\ Len(lines) = Len(read) /\ Len(Open) \in Nat /\ DOMAIN Open = 1 .. Len(Open)
      /\ Len(stack) \in Nat /\ DOMAIN stack = 1 .. Len(stack)
      /\ Cardinality(unsafe) = IF unsafe = {} THEN 0 ELSE 1
  BY Reading
<1>4. PICK n \in Nat : n = Len(read)
  BY <1>3
<1> HIDE DEF e
<1>5. /\ SubSeq(e, 1, q) \in Seq(Indents) /\ Len(SubSeq(e, 1, q)) = q
      /\ \A k \in 1 .. q : SubSeq(e, 1, q)[k] = e[k]
  BY <1>2
<1>6. Last(SubSeq(e, 1, q)) = e[q]
  <2>1. q \in 1 .. q
    BY <1>2
  <2> QED BY <2>1, <1>5 DEF Last
<1>7. /\ stack' = SubSeq(e, 1, q)
      /\ IF d = e[q]
         THEN /\ lines' = Append(Closing(Closes(d)), Written(l.kind # "plain"))
              /\ pending' = (l.kind = "header")
              /\ unsafe' = IF l.kind = "unsafe" THEN {d} ELSE {}
              /\ UNCHANGED status
         ELSE /\ lines' = Closing(Closes(d)) /\ pending' = FALSE /\ unsafe' = {}
              /\ status' = "error"
  BY <1>2, <1>6 DEF ReadCode, Entered, Closes, e
<1>8. CASE d = e[q]
  <2>1. TypeOK' /\ LinesInv' /\ OpenInv' /\ StackInv' /\ AlignInv' /\ Braced'
    BY <1>1, <1>2, <1>4, <1>7, <1>8, CodeAccepted
  <2> QED BY <1>7, <1>8, <2>1, GoesOn
<1>9. CASE d # e[q]
  <2>1. PICK m \in DOMAIN stack :
           /\ stack[m] # d /\ m - 1 <= Len(Open)
           /\ \A a \in DOMAIN Open : stack[a] < d <=> a <= m - 1
    BY <1>2, <1>9
  <2>2. m - 1 \in 0 .. Len(Open)
    BY <2>1, <1>3
  <2>3. Blocks(read', n + 1) = Outer(m - 1) /\ ~ Raw(read', n + 1)
    BY <2>1, <2>2, <1>1, <1>4, CodeEncloses
  <2>4. ~ Aligned(read', n + 1)
    BY <2>1, <2>2, <2>3, <1>4, CodeMisaligned
  <2>5. read' \in Seq(Lines) /\ Len(read') = n + 1 /\ read'[n + 1] = l /\ n + 1 \in DOMAIN read'
    <3>1. read' \in Seq(Lines) /\ Len(read') = n + 1 /\ read'[n + 1] = l
      BY <1>3, <1>4
    <3> QED BY <3>1
  <2>6. RefusesMisaligned'
    <3>1. Code(read', n + 1)
      BY <2>5 DEF Code
    <3> QED BY <3>1, <2>3, <2>4, <2>5, <1>7, <1>9 DEF RefusesMisaligned
  <2>7. BlocksFollowIndents'
    BY <1>7, <1>9 DEF BlocksFollowIndents
  <2>8. lines' \in Seq(Written1) /\ Len(lines') = n
    <3>1. Closes(d) \in Nat
      <4>1. EmptyClosed(d) \in Nat
        BY DEF EmptyClosed
      <4>2. Closes(d) = Cardinality(unsafe) + EmptyClosed(d) + Len(e) - q
        BY <1>2, <1>5 DEF Closes, e
      <4> QED BY SMTT(30), <4>1, <4>2, <1>2, <1>3
    <3>2. CASE lines = <<>>
      BY <3>2, <1>3, <1>4, <1>7, <1>9 DEF Closing
    <3>3. CASE lines # <<>>
      <4>1. Len(lines) \in 1 .. Len(lines) /\ lines[Len(lines)] \in Written1
        BY <3>3, <1>3
      <4>2. Closed(lines[Len(lines)], Closes(d)) \in Written1
        BY <3>1, <4>1, ClosedType
      <4>3. lines' = [lines EXCEPT ![Len(lines)] = Closed(lines[Len(lines)], Closes(d))]
        BY <3>3, <1>7, <1>9 DEF Closing
      <4> QED BY <4>1, <4>2, <4>3, <1>3, <1>4
    <3> QED BY <3>2, <3>3
  <2>9. TypeOK'
    <3>1. unsafe' \subseteq Indents /\ Cardinality(unsafe') <= 1
      <4>1. unsafe' = {}
        BY <1>7, <1>9
      <4>2. Cardinality(unsafe') = 0
        BY <4>1, FS_EmptySet
      <4> QED BY <4>1, <4>2
    <3>2. \A k \in 1 .. q : k \in 1 .. Len(e)
      BY <1>2
    <3>3. \A i, j \in DOMAIN stack' : i < j => stack'[i] < stack'[j]
      <4>1. DOMAIN stack' = 1 .. q
        BY <1>2, <1>5, <1>7
      <4> QED BY <4>1, <3>2, <1>2, <1>5, <1>7
    <3>4. stack' # <<>> /\ stack'[1] = 0
      <4>1. 1 \in DOMAIN stack /\ stack[1] = 0
        BY <1>3, Reading DEF LinesInv
      <4>2. 1 \in 1 .. q /\ Len(stack') # 0
        BY <1>2, <1>5, <1>7
      <4>3. stack'[1] = 0
        BY <4>1, <4>2, <1>2, <1>5, <1>7
      <4> QED BY <4>2, <4>3, <1>5, <1>7
    <3>5. status' = "error" /\ Len(lines') = Len(read') - 1
      BY <2>5, <2>8, <1>7, <1>9
    <3> QED BY <2>5, <2>8, <3>1, <3>3, <3>4, <3>5 DEF TypeOK, Written1
  <2> QED BY <2>6, <2>7, <2>9, <1>7, <1>9 DEF IInv
<1> QED BY <1>8, <1>9

LEMMA EndStep ==
  ASSUME IInv, End
  PROVE  IInv'
<1>1. status = "reading" /\ status' = "done" /\ read' = read /\ lines' = Closing(LeftOpen)
      /\ stack' = <<0>> /\ pending' = FALSE /\ unsafe' = {}
  BY DEF End
<1>2. /\ read \in Seq(Lines) /\ DOMAIN read = 1 .. Len(read) /\ lines \in Seq(Written1)
      /\ Len(read) \in Nat
      /\ Len(lines) = Len(read) /\ Len(Open) \in Nat /\ Open \in Seq(Nat)
      /\ \A a \in DOMAIN Open : Open[a] \in 1 .. Len(read)
      /\ DOMAIN Open = 1 .. Len(Open)
      /\ Len(stack) \in Nat /\ DOMAIN stack = 1 .. Len(stack)
      /\ Cardinality(unsafe) = IF unsafe = {} THEN 0 ELSE 1
      /\ lines # <<>> => lines[Len(lines)].closes = 0
      /\ pending \in BOOLEAN /\ ~ (pending /\ unsafe # {})
  BY <1>1, Reading DEF LinesInv
<1>3. LeftOpen = Len(Open)
  <2>1. Len(Open) = Len(stack) - 1 + (IF pending \/ unsafe # {} THEN 1 ELSE 0)
    BY <1>1, Reading DEF StackInv
  <2>2. CASE pending
    BY <2>1, <2>2, <1>2 DEF LeftOpen
  <2>3. CASE ~ pending
    BY <2>1, <2>3, <1>2 DEF LeftOpen
  <2> QED BY <2>2, <2>3
<1>4. lines = <<>> => Len(Open) = 0
  <2> SUFFICES ASSUME lines = <<>>, Len(Open) # 0 PROVE FALSE
    OBVIOUS
  <2>1. 1 \in DOMAIN Open /\ Len(read) = 0
    BY <1>2
  <2>2. Open[1] \in 1 .. 0
    BY <2>1, <1>2
  <2> QED BY <2>2
<1>5. /\ lines' \in Seq(Written1) /\ Len(lines') = Len(lines)
      /\ \A j \in 0 .. Len(lines) - 1 : OpenAfter(lines')[j] = OpenAfter(lines)[j]
      /\ OpenAfter(lines')[Len(lines)] = SubSeq(Open, 1, 0)
  <2>1. Len(Open) <= Len(Open) /\ Len(Open) - Len(Open) = 0
    BY <1>2
  <2> QED BY <2>1, <1>1, <1>2, <1>3, <1>4, ClosingOpens
<1>6. BlocksFollowIndents'
  <2>1. ASSUME NEW i \in DOMAIN read, Code(read, i)
        PROVE  OpenBefore(i)' = Blocks(read, i)
    <3>1. i - 1 \in 0 .. Len(lines) - 1
      BY <1>2
    <3>2. OpenBefore(i)' = OpenBefore(i)
      BY <3>1, <1>5 DEF OpenBefore
    <3> QED BY <2>1, <3>2, <1>1, Reading DEF Braced
  <2>2. OpenBefore(Len(lines) + 1)' = {}
    <3>1. Len(lines') + 1 - 1 = Len(lines)
      BY <1>2, <1>5
    <3>2. OpenBefore(Len(lines) + 1)' = ToSet(OpenAfter(lines')[Len(lines') + 1 - 1])
      BY DEF OpenBefore
    <3>3. SubSeq(Open, 1, 0) = <<>>
      BY <1>2
    <3>4. ToSet(<<>>) = {}
      BY DEF ToSet
    <3> QED BY <3>1, <3>2, <3>3, <3>4, <1>5
  <2> QED BY <2>1, <2>2, <1>1 DEF BlocksFollowIndents
<1>7. RefusesMisaligned'
  <2>1. \A i \in DOMAIN read : Code(read, i) /\ ~ Raw(read, i) => Aligned(read, i)
    BY <1>1, Reading DEF AlignInv
  <2> QED BY <2>1, <1>1 DEF RefusesMisaligned
<1>8. TypeOK'
  <2>1. unsafe' \subseteq Indents /\ Cardinality(unsafe') <= 1
    BY <1>1, FS_EmptySet
  <2>2. stack' # <<>> /\ stack'[1] = 0 /\ \A i, j \in DOMAIN stack' : i < j => stack'[i] < stack'[j]
    BY <1>1
  <2> QED BY <2>1, <2>2, <1>1, <1>2, <1>5 DEF TypeOK, Written1
<1> QED BY <1>1, <1>6, <1>7, <1>8 DEF IInv

LEMMA NextInv == IInv /\ [Next]_vars => IInv'
<1> SUFFICES ASSUME IInv, [Next]_vars PROVE IInv'
  OBVIOUS
<1>1. CASE ReadLine
  <2>1. status = "reading"
    BY <1>1 DEF ReadLine
  <2>2. PICK l \in Lines :
          /\ read' = Append(read, l)
          /\ \/ l = Blank /\ ReadBlank
             \/ l # Blank /\ (ReadRaw(l) \/ ReadCode(l))
    BY <1>1 DEF ReadLine
  <2>3. CASE l = Blank
    BY <2>1, <2>2, <2>3, BlankStep
  <2>4. CASE l # Blank
    BY <2>1, <2>2, <2>4, RawStep, CodeStep
  <2> QED BY <2>3, <2>4
<1>2. CASE End
  BY <1>2, EndStep
<1>3. CASE UNCHANGED vars
  <2> USE <1>3 DEF vars
  <2>1. TypeOK' = TypeOK /\ BlocksFollowIndents' = BlocksFollowIndents
    BY DEF TypeOK, BlocksFollowIndents, OpenBefore
  <2>2. RefusesMisaligned' = RefusesMisaligned /\ Braced' = Braced
    BY DEF RefusesMisaligned, Braced, OpenBefore
  <2>3. LinesInv' = LinesInv
    BY DEF LinesInv
  <2>4. Open' = Open
    BY DEF Open
  <2>5. \A k : Outer(k)' = Outer(k)
    BY <2>4 DEF Outer
  <2>6. OpenInv' = OpenInv
    BY <2>4 DEF OpenInv
  <2>7. StackInv' = StackInv
    BY <2>4 DEF StackInv
  <2>8. AlignInv' = AlignInv
    BY <2>4, <2>5 DEF AlignInv
  <2>9. status' = status
    OBVIOUS
  <2> QED BY <2>1, <2>2, <2>3, <2>6, <2>7, <2>8, <2>9 DEF IInv
<1> QED BY <1>1, <1>2, <1>3 DEF Next

LEMMA Invariant == Spec => []IInv
BY InitInv, NextInv, PTL DEF Spec

-----------------------------------------------------------------------------
(* One line is written for each line read and the stack of columns grows        *)
(* inwards, whatever the file: preprocess's type invariant.                    *)
THEOREM IndentationTypeOK == Spec => []TypeOK
<1>1. IInv => TypeOK
  BY DEF IInv
<1> QED BY <1>1, Invariant, PTL

(* The braces preprocess writes are those of the headers that enclose each line   *)
(* by indentation, and all are closed at the end, for files of any length and     *)
(* indents of any depth.                                                      *)
THEOREM BracesFollowIndents == Spec => []BlocksFollowIndents
<1>1. IInv => BlocksFollowIndents
  BY DEF IInv
<1> QED BY <1>1, Invariant, PTL

(* preprocess refuses a file exactly when some line outside unsafe blocks is not   *)
(* aligned with its block.                                                    *)
THEOREM RefusesExactlyMisaligned == Spec => []RefusesMisaligned
<1>1. IInv => RefusesMisaligned
  BY DEF IInv
<1> QED BY <1>1, Invariant, PTL

=============================================================================
