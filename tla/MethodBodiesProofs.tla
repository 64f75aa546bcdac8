--------------------------- MODULE MethodBodiesProofs ---------------------------
(***************************************************************************)
(* Proofs about MethodBodies, for every program: any code, bodies, helpers     *)
(* and stack, and blocks nested however deep.                                *)
(*                                                                         *)
(* Three inductive invariants carry the theorems.  JudgeInv: all that is left  *)
(* to run comes from the body of f or of a method whose verdict is counted in   *)
(* f's, and the verdicts are fixed points.  PathInv: before every place where   *)
(* a call of f ends, something is left that returns, reverts or assigns, and   *)
(* no frame's mark hides it.  RunInv: the end (next, store) of what has run     *)
(* leads, through what is left, only to ends that the statements of f have.     *)
(*                                                                         *)
(* What a recursive definition says of deeper blocks is not proved by          *)
(* induction but from its equation, which FixedPoint gives.                  *)
(***************************************************************************)
EXTENDS MethodBodies, FiniteSetTheorems, SequenceTheorems, WellFoundedInduction, TLAPS

(* Every nonempty set of natural numbers has a least element.  A fact about a   *)
(* recursive function is proved from it for every argument: the least argument   *)
(* that fails would have a smaller one that fails.                           *)
LEMMA LeastNatural ==
  ASSUME NEW Set \in SUBSET Nat, Set # {}
  PROVE  \E n \in Set : \A k \in Set : n <= k
<1> DEFINE R == OpToRel(<, Nat)
<1>1. IsWellFoundedOn(R, Nat)
  BY NatLessThanWellFounded
<1>2. ASSUME NEW k \in Nat, NEW n \in Nat, k < n
      PROVE  <<k, n>> \in R
  BY <1>2 DEF OpToRel
<1> HIDE DEF R
<1>3. PICK n \in Set : \A k \in Set : ~ (<<k, n>> \in R)
  BY <1>1, WFMin
<1>4. ASSUME NEW k \in Set
      PROVE  n <= k
  <2>1. k \in Nat /\ n \in Nat
    OBVIOUS
  <2>2. ~ (k < n)
    BY <1>2, <1>3, <2>1
  <2> QED BY <2>1, <2>2
<1> QED BY <1>4

-----------------------------------------------------------------------------
(* Least fixed points.                                                      *)

(* A monotone function on the subsets of a set has a fixed point.  The recursive *)
(* functions of the model have the values their equations ask for by it,       *)
(* however deep the blocks are nested.                                       *)
LEMMA FixedPoint ==
  ASSUME NEW D, NEW F \in [SUBSET D -> SUBSET D],
         \A a, b \in SUBSET D : a \subseteq b => F[a] \subseteq F[b]
  PROVE  \E l \in SUBSET D : F[l] = l
<1> DEFINE L == {x \in D : \A a \in SUBSET D : F[a] \subseteq a => x \in a}
<1>1. L \in SUBSET D
  OBVIOUS
<1>2. ASSUME NEW a \in SUBSET D, F[a] \subseteq a PROVE L \subseteq a
  BY <1>2
<1>3. ASSUME NEW x \in D, \A a \in SUBSET D : F[a] \subseteq a => x \in a PROVE x \in L
  BY <1>3
<1> HIDE DEF L
<1>4. F[L] \subseteq L
  <2> SUFFICES ASSUME NEW x \in F[L], NEW a \in SUBSET D, F[a] \subseteq a PROVE x \in a
    <3>1. F[L] \in SUBSET D
      BY <1>1
    <3> QED BY <1>3, <3>1
  <2>1. F[L] \subseteq F[a]
    BY <1>1, <1>2
  <2> QED BY <2>1
<1>5. L \subseteq F[L]
  <2>1. F[L] \in SUBSET D
    BY <1>1
  <2>2. F[F[L]] \subseteq F[L]
    BY <1>1, <1>4, <2>1
  <2> QED BY <1>2, <2>1, <2>2
<1> QED BY <1>1, <1>4, <1>5

-----------------------------------------------------------------------------
(* Statements.                                                              *)

LEMMA StatementFacts ==
  ASSUME NEW s \in Statements
  PROVE  /\ s.op \in {"read", "const", "external", "pay", "create", "return", "revert",
                      "set", "call", "if", "while", "for", "match", "try"}
         /\ s.op = "set" => s.to \in Bit
         /\ s.op = "call" => s.to \in Methods /\ s.as \in {"self", "super", "qualified"}
         /\ s.op = "if" => s.cond \in Conds /\ s.then \in Code /\ s.else \in Code
         /\ s.op \in {"while", "for"} => s.body \in Code
         /\ s.op = "while" => s.cond \in Conds
         /\ s.op = "match" => /\ s.arms \in Seq([variant : Bit, body : Code])
                              /\ \A v \in Bit : \E i \in DOMAIN s.arms : s.arms[i].variant = v
         /\ s.op = "try" => s.body \in Code /\ s.catch \in Code
BY SMTT(60) DEF Statements, Methods

(* A match has an arm at the place of every variant.                          *)
LEMMA ArmFacts ==
  ASSUME NEW s \in Statements, s.op = "match", NEW v \in Bit
  PROVE  v + 1 \in DOMAIN s.arms /\ ArmFor(s.arms, v) \in Blocks(s)
<1>1. /\ s.arms \in Seq([variant : Bit, body : Code])
      /\ \A w \in Bit : \E i \in DOMAIN s.arms : s.arms[i].variant = w
  BY StatementFacts
<1>2. PICK i \in DOMAIN s.arms : s.arms[i].variant = 0
  BY <1>1 DEF Bit
<1>3. PICK j \in DOMAIN s.arms : s.arms[j].variant = 1
  BY <1>1 DEF Bit
<1>4. i \in 1 .. Len(s.arms) /\ j \in 1 .. Len(s.arms) /\ i # j /\ Len(s.arms) \in Nat
  BY <1>1, <1>2, <1>3
<1>5. Len(s.arms) >= 2
  BY <1>4
<1>6. v + 1 \in 1 .. Len(s.arms)
  BY <1>5 DEF Bit
<1>7. v + 1 \in DOMAIN s.arms
  BY <1>1, <1>6
<1> QED BY <1>7 DEF ArmFor, Blocks

LEMMA SeqItem ==
  ASSUME NEW T, NEW q \in Seq(T), NEW i \in DOMAIN q PROVE q[i] \in T
OBVIOUS

LEMMA BlockFacts ==
  ASSUME NEW s \in Statements PROVE Blocks(s) \subseteq Code
<1>1. CASE s.op = "match"
  <2>1. s.arms \in Seq([variant : Bit, body : Code])
    BY <1>1, StatementFacts
  <2>2. \A i \in DOMAIN s.arms : s.arms[i] \in [variant : Bit, body : Code]
    BY <2>1, SeqItem
  <2> QED BY <1>1, <2>2 DEF Blocks
<1>2. CASE s.op # "match"
  BY <1>2, StatementFacts DEF Blocks
<1> QED BY <1>1, <1>2

LEMMA CodeFacts ==
  ASSUME NEW b \in Code
  PROVE  /\ b \in Seq(Statements)
         /\ Len(b) \in Nat
         /\ DOMAIN b = 1 .. Len(b)
         /\ \A i \in DOMAIN b : /\ b[i] \in Statements
                                /\ Blocks(b[i]) \subseteq Code
<1>1. b \in Seq(Statements)
  BY CodeAssumption
<1>2. \A i \in DOMAIN b : b[i] \in Statements
  BY <1>1
<1> QED BY <1>1, <1>2, BlockFacts

-----------------------------------------------------------------------------
(* The recursive functions have the values their equations ask for.           *)

LEMMA InsideFacts ==
  \A b \in Code :
    Inside[b] = UNION {{b[i]} \cup UNION {Inside[c] : c \in Blocks(b[i])} : i \in DOMAIN b}
<1> DEFINE D == Code \X Statements
           R(l, b, x) == \E i \in DOMAIN b : x = b[i] \/ \E c \in Blocks(b[i]) : <<c, x>> \in l
           F == [l \in SUBSET D |-> {p \in D : R(l, p[1], p[2])}]
<1>1. F \in [SUBSET D -> SUBSET D]
  OBVIOUS
<1>2. ASSUME NEW l \in SUBSET D, NEW m \in SUBSET D, l \subseteq m
      PROVE  F[l] \subseteq F[m]
  BY <1>2
<1>3. PICK l \in SUBSET D : F[l] = l
  <2> HIDE DEF F, D
  <2> QED BY <1>1, <1>2, FixedPoint
<1>4. \A b \in Code, x \in Statements : <<b, x>> \in l <=> R(l, b, x)
  <2> SUFFICES ASSUME NEW b \in Code, NEW x \in Statements PROVE <<b, x>> \in l <=> R(l, b, x)
    OBVIOUS
  <2>1. <<b, x>> \in F[l] <=> R(l, b, x)
    OBVIOUS
  <2> QED BY <1>3, <2>1
<1> DEFINE G == [b \in Code |-> {x \in Statements : <<b, x>> \in l}]
           E(b, h) == UNION {{b[i]} \cup UNION {h[c] : c \in Blocks(b[i])} : i \in DOMAIN b}
<1>5. ASSUME NEW b \in Code PROVE G[b] = E(b, G)
  <2>1. ASSUME NEW x \in G[b] PROVE x \in E(b, G)
    <3>1. R(l, b, x)
      BY <1>4
    <3>2. PICK i \in DOMAIN b : x = b[i] \/ \E c \in Blocks(b[i]) : <<c, x>> \in l
      BY <3>1
    <3>3. CASE x = b[i]
      BY <3>3
    <3>4. ASSUME NEW c \in Blocks(b[i]), <<c, x>> \in l PROVE x \in E(b, G)
      <4>1. c \in Code
        BY CodeFacts
      <4>2. x \in G[c]
        BY <3>4, <4>1
      <4>3. x \in {b[i]} \cup UNION {G[d] : d \in Blocks(b[i])}
        <5> HIDE DEF G
        <5> QED BY <4>2
      <4> HIDE DEF G
      <4> QED BY <4>3
    <3> QED BY <3>2, <3>3, <3>4
  <2>2. ASSUME NEW x \in E(b, G) PROVE x \in G[b]
    <3>1. PICK i \in DOMAIN b : x \in {b[i]} \cup UNION {G[c] : c \in Blocks(b[i])}
      OBVIOUS
    <3>2. b[i] \in Statements /\ Blocks(b[i]) \subseteq Code
      BY CodeFacts
    <3>3. CASE x = b[i]
      BY <1>4, <3>2, <3>3
    <3>4. ASSUME NEW c \in Blocks(b[i]), x \in G[c] PROVE x \in G[b]
      <4>1. c \in Code
        BY <3>2
      <4>2. x \in Statements /\ <<c, x>> \in l
        BY <3>4, <4>1
      <4>3. R(l, b, x)
        BY <4>2
      <4> QED BY <1>4, <4>2, <4>3
    <3> QED BY <3>1, <3>3, <3>4
  <2> HIDE DEF E, G
  <2> QED BY <2>1, <2>2
<1>6. G = [b \in Code |-> E(b, G)]
  <2> DEFINE H == [b \in Code |-> E(b, G)]
  <2>1. \A b \in Code : G[b] = H[b]
    <3> HIDE DEF E, G
    <3> QED BY <1>5
  <2>2. DOMAIN G = Code /\ G = [b \in Code |-> G[b]]
    BY Zenon
  <2>3. DOMAIN H = Code /\ H = [b \in Code |-> H[b]]
    BY Zenon
  <2>4. G = H
    <3> HIDE DEF G, H
    <3> QED BY <2>1, <2>2, <2>3
  <2> QED BY <2>4
<1>7. Inside = [b \in Code |-> E(b, Inside)]
  <2> HIDE DEF G
  <2> QED BY <1>6 DEF Inside
<1> HIDE DEF E
<1>8. \A b \in Code : Inside[b] = E(b, Inside)
  BY <1>7
<1> QED BY <1>8 DEF E
(* A block diverges, or assigns, by a statement that does, or by one all of      *)
(* whose blocks do.                                                          *)
LEMMA DivergesFacts ==
  \A b \in Code : Diverges[b] =>
    \E i \in DOMAIN b :
      \/ b[i].op \in {"return", "revert"}
      \/ b[i].op \in {"if", "match", "try"} /\ \A c \in Blocks(b[i]) : Diverges[c]
<1> DEFINE R(l, b) ==
             \E i \in DOMAIN b :
               \/ b[i].op \in {"return", "revert"}
               \/ b[i].op \in {"if", "match", "try"} /\ \A c \in Blocks(b[i]) : c \in l
           F == [l \in SUBSET Code |-> {b \in Code : R(l, b)}]
<1>1. F \in [SUBSET Code -> SUBSET Code]
  OBVIOUS
<1>2. ASSUME NEW l \in SUBSET Code, NEW m \in SUBSET Code, l \subseteq m
      PROVE  F[l] \subseteq F[m]
  BY <1>2
<1>3. PICK l \in SUBSET Code : F[l] = l
  <2> HIDE DEF F
  <2> QED BY <1>1, <1>2, FixedPoint
<1>4. \A b \in Code : b \in l <=> R(l, b)
  <2> SUFFICES ASSUME NEW b \in Code PROVE b \in l <=> R(l, b)
    OBVIOUS
  <2>1. b \in F[l] <=> R(l, b)
    OBVIOUS
  <2> QED BY <1>3, <2>1
<1> DEFINE G == [b \in Code |-> b \in l]
           E(b, h) ==
             \E i \in DOMAIN b :
               \/ b[i].op \in {"return", "revert"}
               \/ b[i].op \in {"if", "match", "try"} /\ \A c \in Blocks(b[i]) : h[c]
<1>5. ASSUME NEW b \in Code PROVE G[b] = E(b, G)
  <2>1. G[b] <=> R(l, b)
    BY <1>4
  <2>2. R(l, b) <=> E(b, G)
    <3>1. \A i \in DOMAIN b : Blocks(b[i]) \subseteq Code
      BY CodeFacts
    <3>2. \A c \in Code : G[c] <=> c \in l
      OBVIOUS
    <3> HIDE DEF G
    <3> QED BY <3>1, <3>2
  <2>3. G[b] \in BOOLEAN /\ E(b, G) \in BOOLEAN
    <3>1. G[b] \in BOOLEAN
      OBVIOUS
    <3>2. E(b, G) \in BOOLEAN
      <4> HIDE DEF G
      <4> QED OBVIOUS
    <3> QED BY <3>1, <3>2
  <2> HIDE DEF G, R, E
  <2> QED BY <2>1, <2>2, <2>3
<1>6. G = [b \in Code |-> E(b, G)]
  <2> DEFINE H == [b \in Code |-> E(b, G)]
  <2>1. \A b \in Code : G[b] = H[b]
    <3> HIDE DEF E, G
    <3> QED BY <1>5
  <2>2. DOMAIN G = Code /\ G = [b \in Code |-> G[b]]
    BY Zenon
  <2>3. DOMAIN H = Code /\ H = [b \in Code |-> H[b]]
    BY Zenon
  <2>4. G = H
    <3> HIDE DEF G, H
    <3> QED BY <2>1, <2>2, <2>3
  <2> QED BY <2>4
<1>7. Diverges = [b \in Code |-> E(b, Diverges)]
  <2> HIDE DEF G
  <2> QED BY <1>6 DEF Diverges
<1> HIDE DEF E
<1>8. \A b \in Code : Diverges[b] = E(b, Diverges)
  BY <1>7
<1> QED BY <1>8 DEF E

LEMMA AssignsFacts ==
  \A b \in Code : Assigns[b] =>
    \E i \in DOMAIN b :
      \/ b[i].op = "const"
      \/ b[i].op \in {"if", "match"} /\ \A c \in Blocks(b[i]) : (Assigns[c] \/ Diverges[c])
<1> DEFINE R(l, b) ==
             \E i \in DOMAIN b :
               \/ b[i].op = "const"
               \/ b[i].op \in {"if", "match"} /\ \A c \in Blocks(b[i]) : (c \in l \/ Diverges[c])
           F == [l \in SUBSET Code |-> {b \in Code : R(l, b)}]
<1>1. F \in [SUBSET Code -> SUBSET Code]
  OBVIOUS
<1>2. ASSUME NEW l \in SUBSET Code, NEW m \in SUBSET Code, l \subseteq m
      PROVE  F[l] \subseteq F[m]
  BY <1>2
<1>3. PICK l \in SUBSET Code : F[l] = l
  <2> HIDE DEF F
  <2> QED BY <1>1, <1>2, FixedPoint
<1>4. \A b \in Code : b \in l <=> R(l, b)
  <2> SUFFICES ASSUME NEW b \in Code PROVE b \in l <=> R(l, b)
    OBVIOUS
  <2>1. b \in F[l] <=> R(l, b)
    OBVIOUS
  <2> QED BY <1>3, <2>1
<1> DEFINE G == [b \in Code |-> b \in l]
           E(b, h) ==
             \E i \in DOMAIN b :
               \/ b[i].op = "const"
               \/ b[i].op \in {"if", "match"} /\ \A c \in Blocks(b[i]) : (h[c] \/ Diverges[c])
<1>5. ASSUME NEW b \in Code PROVE G[b] = E(b, G)
  <2>1. G[b] <=> R(l, b)
    BY <1>4
  <2>2. R(l, b) <=> E(b, G)
    <3>1. \A i \in DOMAIN b : Blocks(b[i]) \subseteq Code
      BY CodeFacts
    <3>2. \A c \in Code : G[c] <=> c \in l
      OBVIOUS
    <3> HIDE DEF G
    <3> QED BY <3>1, <3>2
  <2>3. G[b] \in BOOLEAN /\ E(b, G) \in BOOLEAN
    <3>1. G[b] \in BOOLEAN
      OBVIOUS
    <3>2. E(b, G) \in BOOLEAN
      <4> HIDE DEF G
      <4> QED OBVIOUS
    <3> QED BY <3>1, <3>2
  <2> HIDE DEF G, R, E
  <2> QED BY <2>1, <2>2, <2>3
<1>6. G = [b \in Code |-> E(b, G)]
  <2> DEFINE H == [b \in Code |-> E(b, G)]
  <2>1. \A b \in Code : G[b] = H[b]
    <3> HIDE DEF E, G
    <3> QED BY <1>5
  <2>2. DOMAIN G = Code /\ G = [b \in Code |-> G[b]]
    BY Zenon
  <2>3. DOMAIN H = Code /\ H = [b \in Code |-> H[b]]
    BY Zenon
  <2>4. G = H
    <3> HIDE DEF G, H
    <3> QED BY <2>1, <2>2, <2>3
  <2> QED BY <2>4
<1>7. Assigns = [b \in Code |-> E(b, Assigns)]
  <2> HIDE DEF G
  <2> QED BY <1>6 DEF Assigns
<1> HIDE DEF E
<1>8. \A b \in Code : Assigns[b] = E(b, Assigns)
  BY <1>7
<1> QED BY <1>8 DEF E
-----------------------------------------------------------------------------
(* What the statements say.                                                  *)

Ends == [how : {"next", "returned", "reverted"}, store : Store]
Calls == 0 .. MaxCalls

LEMMA EndFacts ==
  ASSUME NEW h \in {"next", "returned", "reverted"}, NEW st \in Store
  PROVE  /\ End(h, st) \in Ends /\ End(h, st).how = h /\ End(h, st).store = st
BY DEF End, Ends

LEMMA EndIs ==
  ASSUME NEW e \in Ends
  PROVE  /\ e.how \in {"next", "returned", "reverted"} /\ e.store \in Store
         /\ e = End(e.how, e.store)
BY DEF End, Ends

LEMMA StoreFacts ==
  /\ New \in Store
  /\ \A st \in Store : /\ st.field \in Bit /\ st.assigned \in BOOLEAN
                       /\ \A v \in Bit : [st EXCEPT !.field = v] \in Store
                       /\ [st EXCEPT !.assigned = TRUE] \in Store
<1>1. New \in Store
  BY DEF Store, New, Bit
<1>2. ASSUME NEW st \in Store
      PROVE  /\ st.field \in Bit /\ st.assigned \in BOOLEAN
             /\ \A v \in Bit : [st EXCEPT !.field = v] \in Store
             /\ [st EXCEPT !.assigned = TRUE] \in Store
  BY DEF Store
<1> QED BY <1>1, <1>2

(* A turn of a loop's body, and the stores its test may see.                   *)
LoopGoes(s, in) == {t \in Store : s.op = "for" \/ True(s.cond, in, t)}
LoopStops(s, in) == {t \in Store : s.op = "for" \/ ~True(s.cond, in, t)}
LoopTurns(s, calls, in, ends) ==
  UNION {{<<t, e>> : e \in ends[<<s.body, t, calls>>]} : t \in LoopGoes(s, in)}
LoopClosed(heads, turns) ==
  \A x \in turns : x[1] \in heads /\ x[2].how = "next" => x[2].store \in heads
LoopTests(st, turns) ==
  {t \in Store : \A heads \in SUBSET Store : st \in heads /\ LoopClosed(heads, turns) => t \in heads}

AfterCall(e) == IF e.how = "returned" THEN End("next", e.store) ELSE e

LEMMA CallEnds ==
  ASSUME NEW s, NEW st, NEW calls, NEW bodies, NEW in, NEW ends, s.op = "call", calls # 0
  PROVE  EndsOf(s, st, calls, bodies, in, ends) =
           {AfterCall(e) : e \in ends[<<bodies[s.to], st, calls - 1>>]}
BY DEF EndsOf, AfterCall

LEMMA LastCallEnds ==
  ASSUME NEW s, NEW st, NEW bodies, NEW in, NEW ends, s.op = "call"
  PROVE  EndsOf(s, st, 0, bodies, in, ends) = {End("reverted", st)}
BY DEF EndsOf

LEMMA IfEnds ==
  ASSUME NEW s, NEW st, NEW calls, NEW bodies, NEW in, NEW ends, s.op = "if"
  PROVE  EndsOf(s, st, calls, bodies, in, ends) =
           ends[<<IF True(s.cond, in, st) THEN s.then ELSE s.else, st, calls>>]
BY DEF EndsOf

ArmOf(s, in) == CHOOSE a \in {s.arms[i] : i \in DOMAIN s.arms} : a.variant = in.tag

LEMMA MatchEnds ==
  ASSUME NEW s, NEW st, NEW calls, NEW bodies, NEW in, NEW ends, s.op = "match"
  PROVE  EndsOf(s, st, calls, bodies, in, ends) = ends[<<ArmOf(s, in).body, st, calls>>]
BY DEF EndsOf, ArmOf

LEMMA ArmOfFacts ==
  ASSUME NEW s \in Statements, NEW in \in Input, s.op = "match"
  PROVE  /\ ArmOf(s, in).body \in Code
         /\ ArmOf(s, in).variant = in.tag
         /\ \E i \in DOMAIN s.arms : ArmOf(s, in) = s.arms[i]
<1>1. in.tag \in Bit
  BY DEF Input
<1>2. \E i \in DOMAIN s.arms : s.arms[i].variant = in.tag
  BY <1>1, StatementFacts
<1>3. \E a \in {s.arms[i] : i \in DOMAIN s.arms} : a.variant = in.tag
  BY <1>2
<1>4. ArmOf(s, in) \in {s.arms[i] : i \in DOMAIN s.arms} /\ ArmOf(s, in).variant = in.tag
  BY <1>3, Zenon DEF ArmOf
<1>5. PICK i \in DOMAIN s.arms : ArmOf(s, in) = s.arms[i]
  BY <1>4
<1>6. ArmOf(s, in).body \in Blocks(s)
  BY <1>5 DEF Blocks
<1>7. ArmOf(s, in).body \in Code
  BY <1>6, BlockFacts
<1> QED BY <1>4, <1>5, <1>7

LEMMA TryEnds ==
  ASSUME NEW s, NEW st, NEW calls, NEW bodies, NEW in, NEW ends, s.op = "try"
  PROVE  EndsOf(s, st, calls, bodies, in, ends) =
           UNION {IF e.how = "reverted" THEN ends[<<s.catch, st, calls>>] ELSE {e} :
                    e \in ends[<<s.body, st, calls>>]}
BY DEF EndsOf

LEMMA LoopEnds ==
  ASSUME NEW s, NEW st, NEW calls, NEW bodies, NEW in, NEW ends, s.op \in {"while", "for"}
  PROVE  EndsOf(s, st, calls, bodies, in, ends) =
           {End("next", t) : t \in LoopTests(st, LoopTurns(s, calls, in, ends)) \cap LoopStops(s, in)}
           \cup {x[2] : x \in {y \in LoopTurns(s, calls, in, ends) :
                                 /\ y[1] \in LoopTests(st, LoopTurns(s, calls, in, ends))
                                 /\ y[2].how # "next"}}
BY DEF EndsOf, LoopTests, LoopTurns, LoopStops, LoopGoes, LoopClosed

(* More ends of the blocks are more ends of the statement.                     *)
LEMMA EndsMono ==
  ASSUME NEW s \in Statements, NEW st \in Store, NEW calls \in Calls,
         NEW bodies, \A m \in Methods : bodies[m] \in Code, NEW in \in Input,
         NEW g, NEW h, \A p \in Points : g[p] \subseteq h[p]
  PROVE  EndsOf(s, st, calls, bodies, in, g) \subseteq EndsOf(s, st, calls, bodies, in, h)
<1>1. \A b \in Code, t \in Store, c \in Calls : g[<<b, t, c>>] \subseteq h[<<b, t, c>>]
  BY DEF Points, Calls
<1>2. CASE s.op \in {"set", "const", "read", "external", "pay", "create", "return", "revert"}
  <2>1. EndsOf(s, st, calls, bodies, in, g) = EndsOf(s, st, calls, bodies, in, h)
    <3>1. CASE s.op \in {"set", "const"}
      BY <3>1 DEF EndsOf
    <3>2. CASE s.op \in {"read", "external", "pay", "create"}
      BY <3>2 DEF EndsOf
    <3>3. CASE s.op \in {"return", "revert"}
      BY <3>3 DEF EndsOf
    <3> QED BY <1>2, <3>1, <3>2, <3>3
  <2> QED BY <2>1
<1>3. CASE s.op = "call"
  <2>1. CASE calls = 0
    BY <1>3, <2>1, LastCallEnds
  <2>2. CASE calls # 0
    <3>1. bodies[s.to] \in Code /\ calls - 1 \in Calls
      <4>1. s.to \in Methods
        BY <1>3, StatementFacts
      <4>2. calls - 1 \in Calls
        BY <2>2, CallsAssumption DEF Calls
      <4> QED BY <4>1, <4>2
    <3> DEFINE p == <<bodies[s.to], st, calls - 1>>
    <3>2. g[p] \subseteq h[p]
      BY <1>1, <3>1
    <3>3. EndsOf(s, st, calls, bodies, in, g) = {AfterCall(e) : e \in g[p]}
      BY <1>3, <2>2, CallEnds
    <3>4. EndsOf(s, st, calls, bodies, in, h) = {AfterCall(e) : e \in h[p]}
      BY <1>3, <2>2, CallEnds
    <3>5. {AfterCall(e) : e \in g[p]} \subseteq {AfterCall(e) : e \in h[p]}
      <4> HIDE DEF p
      <4> QED BY <3>2
    <3> HIDE DEF p
    <3> QED BY <3>3, <3>4, <3>5
  <2> QED BY <2>1, <2>2
<1>4. CASE s.op = "if"
  <2> DEFINE b == IF True(s.cond, in, st) THEN s.then ELSE s.else
  <2>1. b \in Code
    BY <1>4, StatementFacts
  <2>2. /\ EndsOf(s, st, calls, bodies, in, g) = g[<<b, st, calls>>]
        /\ EndsOf(s, st, calls, bodies, in, h) = h[<<b, st, calls>>]
    BY <1>4, IfEnds
  <2> HIDE DEF b
  <2> QED BY <1>1, <2>1, <2>2
<1>5. CASE s.op = "match"
  <2>1. ArmOf(s, in).body \in Code
    BY <1>5, ArmOfFacts
  <2>2. EndsOf(s, st, calls, bodies, in, g) = g[<<ArmOf(s, in).body, st, calls>>]
    BY <1>5, MatchEnds
  <2>3. EndsOf(s, st, calls, bodies, in, h) = h[<<ArmOf(s, in).body, st, calls>>]
    BY <1>5, MatchEnds
  <2> QED BY <1>1, <2>1, <2>2, <2>3
<1>6. CASE s.op = "try"
  <2>1. s.body \in Code /\ s.catch \in Code
    BY <1>6, StatementFacts
  <2>2. /\ g[<<s.body, st, calls>>] \subseteq h[<<s.body, st, calls>>]
        /\ g[<<s.catch, st, calls>>] \subseteq h[<<s.catch, st, calls>>]
    BY <1>1, <2>1
  <2>3. EndsOf(s, st, calls, bodies, in, g) =
          UNION {IF e.how = "reverted" THEN g[<<s.catch, st, calls>>] ELSE {e} :
                   e \in g[<<s.body, st, calls>>]}
    BY <1>6, TryEnds
  <2>4. EndsOf(s, st, calls, bodies, in, h) =
          UNION {IF e.how = "reverted" THEN h[<<s.catch, st, calls>>] ELSE {e} :
                   e \in h[<<s.body, st, calls>>]}
    BY <1>6, TryEnds
  <2>5. ASSUME NEW x \in EndsOf(s, st, calls, bodies, in, g)
        PROVE  x \in EndsOf(s, st, calls, bodies, in, h)
    <3>1. PICK e \in g[<<s.body, st, calls>>] :
             x \in (IF e.how = "reverted" THEN g[<<s.catch, st, calls>>] ELSE {e})
      BY <2>3
    <3>2. /\ e \in h[<<s.body, st, calls>>]
          /\ x \in (IF e.how = "reverted" THEN h[<<s.catch, st, calls>>] ELSE {e})
      BY <2>2, <3>1
    <3> QED BY <2>4, <3>2
  <2> QED BY <2>5
<1>7. CASE s.op \in {"while", "for"}
  <2> DEFINE T(k) == LoopTurns(s, calls, in, k)
  <2>1. s.body \in Code
    BY <1>7, StatementFacts
  <2>2. T(g) \subseteq T(h)
    <3> SUFFICES ASSUME NEW x \in T(g) PROVE x \in T(h)
      OBVIOUS
    <3>0. PICK t \in LoopGoes(s, in) : \E e \in g[<<s.body, t, calls>>] : x = <<t, e>>
      BY DEF LoopTurns
    <3>1. t \in Store
      BY DEF LoopGoes
    <3>2. \E e \in h[<<s.body, t, calls>>] : x = <<t, e>>
      BY <1>1, <2>1, <3>0, <3>1
    <3> QED BY <3>2 DEF LoopTurns
  <2>3. LoopTests(st, T(g)) \subseteq LoopTests(st, T(h))
    <3> HIDE DEF T
    <3>1. \A heads \in SUBSET Store : LoopClosed(heads, T(h)) => LoopClosed(heads, T(g))
      BY <2>2 DEF LoopClosed
    <3> QED BY <3>1 DEF LoopTests
  <2>4. \A k : EndsOf(s, st, calls, bodies, in, k) =
                 {End("next", t) : t \in LoopTests(st, T(k)) \cap LoopStops(s, in)}
                   \cup {x[2] : x \in {y \in T(k) : y[1] \in LoopTests(st, T(k)) /\ y[2].how # "next"}}
    BY <1>7, LoopEnds
  <2> HIDE DEF T
  <2> QED BY <2>2, <2>3, <2>4
<1> QED BY <1>2, <1>3, <1>4, <1>5, <1>6, <1>7, StatementFacts
LEMMA EndsTyped ==
  ASSUME NEW s \in Statements, NEW st \in Store, NEW calls \in Calls,
         NEW bodies, \A m \in Methods : bodies[m] \in Code, NEW in \in Input,
         NEW g, \A p \in Points : g[p] \subseteq Ends
  PROVE  EndsOf(s, st, calls, bodies, in, g) \subseteq Ends
<1>1. \A b \in Code, t \in Store, c \in Calls : g[<<b, t, c>>] \subseteq Ends
  BY DEF Points, Calls
<1>2. CASE s.op \in {"set", "const", "read", "external", "pay", "create", "return", "revert"}
  <2> DEFINE t == CASE s.op = "set"   -> [st EXCEPT !.field = s.to]
                    [] s.op = "const" -> [st EXCEPT !.assigned = TRUE]
                    [] OTHER          -> st
  <2>1. t \in Store
    BY StatementFacts, StoreFacts
  <2>2. EndsOf(s, st, calls, bodies, in, g) \subseteq {End("next", t), End("returned", t), End("reverted", t)}
    BY <1>2 DEF EndsOf
  <2> HIDE DEF t
  <2> QED BY <2>1, <2>2, EndFacts
<1>3. CASE s.op = "call"
  <2>1. CASE calls = 0
    BY <1>3, <2>1, LastCallEnds, EndFacts
  <2>2. CASE calls # 0
    <3>1. bodies[s.to] \in Code /\ calls - 1 \in Calls
      <4>1. s.to \in Methods
        BY <1>3, StatementFacts
      <4>2. calls - 1 \in Calls
        BY <2>2, CallsAssumption DEF Calls
      <4> QED BY <4>1, <4>2
    <3> DEFINE p == <<bodies[s.to], st, calls - 1>>
    <3>2. g[p] \subseteq Ends
      BY <1>1, <3>1
    <3>3. EndsOf(s, st, calls, bodies, in, g) = {AfterCall(e) : e \in g[p]}
      BY <1>3, <2>2, CallEnds
    <3>4. \A e \in Ends : AfterCall(e) \in Ends
      BY EndFacts, EndIs DEF AfterCall
    <3> HIDE DEF p
    <3> QED BY <3>2, <3>3, <3>4
  <2> QED BY <2>1, <2>2
<1>4. CASE s.op = "if"
  <2> DEFINE b == IF True(s.cond, in, st) THEN s.then ELSE s.else
  <2>1. b \in Code
    BY <1>4, StatementFacts
  <2>2. EndsOf(s, st, calls, bodies, in, g) = g[<<b, st, calls>>]
    BY <1>4, IfEnds
  <2> HIDE DEF b
  <2> QED BY <1>1, <2>1, <2>2
<1>5. CASE s.op = "match"
  <2>1. ArmOf(s, in).body \in Code
    BY <1>5, ArmOfFacts
  <2>2. EndsOf(s, st, calls, bodies, in, g) = g[<<ArmOf(s, in).body, st, calls>>]
    BY <1>5, MatchEnds
  <2> QED BY <1>1, <2>1, <2>2
<1>6. CASE s.op = "try"
  <2>1. s.body \in Code /\ s.catch \in Code
    BY <1>6, StatementFacts
  <2>2. g[<<s.body, st, calls>>] \subseteq Ends /\ g[<<s.catch, st, calls>>] \subseteq Ends
    BY <1>1, <2>1
  <2>3. EndsOf(s, st, calls, bodies, in, g) =
          UNION {IF e.how = "reverted" THEN g[<<s.catch, st, calls>>] ELSE {e} :
                   e \in g[<<s.body, st, calls>>]}
    BY <1>6, TryEnds
  <2> QED BY <2>2, <2>3
<1>7. CASE s.op \in {"while", "for"}
  <2> DEFINE T == LoopTurns(s, calls, in, g)
  <2>1. s.body \in Code
    BY <1>7, StatementFacts
  <2>2. \A x \in T : x[2] \in Ends
    <3> SUFFICES ASSUME NEW x \in T PROVE x[2] \in Ends
      OBVIOUS
    <3>1. PICK t \in LoopGoes(s, in) : \E e \in g[<<s.body, t, calls>>] : x = <<t, e>>
      BY DEF LoopTurns
    <3>2. t \in Store
      BY DEF LoopGoes
    <3> QED BY <1>1, <2>1, <3>1, <3>2
  <2>3. \A t \in LoopTests(st, T) : End("next", t) \in Ends
    BY EndFacts DEF LoopTests
  <2>4. EndsOf(s, st, calls, bodies, in, g) =
                 {End("next", t) : t \in LoopTests(st, T) \cap LoopStops(s, in)}
                   \cup {x[2] : x \in {y \in T : y[1] \in LoopTests(st, T) /\ y[2].how # "next"}}
    BY <1>7, LoopEnds
  <2> HIDE DEF T
  <2> QED BY <2>2, <2>3, <2>4
<1> QED BY <1>2, <1>3, <1>4, <1>5, <1>6, <1>7, StatementFacts

(* What is left of a block after its first n statements.                       *)
From(t, n) == SubSeq(t, n + 1, Len(t))

LEMMA FromFacts ==
  ASSUME NEW T, NEW t \in Seq(T), NEW n \in 0 .. Len(t)
  PROVE  /\ From(t, n) \in Seq(T)
         /\ Len(From(t, n)) = Len(t) - n
         /\ \A i \in 1 .. Len(t) - n : From(t, n)[i] = t[i + n]
BY SubSeqProperties DEF From

LEMMA BlockParts ==
  ASSUME NEW b \in Code
  PROVE  /\ \A n \in 0 .. Len(b) : From(b, n) \in Code
         /\ From(b, 0) = b
         /\ From(b, Len(b)) = <<>>
         /\ \A n \in 0 .. Len(b) - 1 : /\ From(b, n) # <<>>
                                       /\ Head(From(b, n)) = b[n + 1]
                                       /\ Tail(From(b, n)) = From(b, n + 1)
<1>1. b \in Seq(Statements) /\ Len(b) \in Nat /\ DOMAIN b = 1 .. Len(b)
  BY CodeFacts
<1>2. From(b, 0) = b
  BY <1>1, SubSeqFull DEF From
<1>3. \A n \in 0 .. Len(b) : From(b, n) \in Code
  <2> SUFFICES ASSUME NEW n \in 1 .. Len(b) PROVE From(b, n) \in Code
    BY <1>1, <1>2
  <2>1. n \in DOMAIN b
    BY <1>1
  <2> QED BY <2>1, CodeAssumption DEF From
<1>4. From(b, Len(b)) = <<>>
  <2>1. From(b, Len(b)) \in Seq(Statements) /\ Len(From(b, Len(b))) = 0
    BY <1>1, FromFacts
  <2> QED BY <2>1, EmptySeq
<1>5. ASSUME NEW n \in 0 .. Len(b) - 1
      PROVE  /\ From(b, n) # <<>> /\ Head(From(b, n)) = b[n + 1] /\ Tail(From(b, n)) = From(b, n + 1)
  <2>1. n \in 0 .. Len(b) /\ n + 1 \in 0 .. Len(b)
    BY <1>1
  <2>2. /\ From(b, n) \in Seq(Statements) /\ Len(From(b, n)) = Len(b) - n
        /\ \A i \in 1 .. Len(b) - n : From(b, n)[i] = b[i + n]
    BY <1>1, <2>1, FromFacts
  <2>3. /\ From(b, n + 1) \in Seq(Statements) /\ Len(From(b, n + 1)) = Len(b) - (n + 1)
        /\ \A i \in 1 .. Len(b) - (n + 1) : From(b, n + 1)[i] = b[i + (n + 1)]
    BY <1>1, <2>1, FromFacts
  <2>4. From(b, n) # <<>>
    BY <1>1, <2>2
  <2>5. Head(From(b, n)) = b[n + 1]
    <3>1. From(b, n)[1] = b[n + 1]
      BY <1>1, <2>2
    <3> QED BY <2>2, <2>4, <3>1
  <2>6. Tail(From(b, n)) = From(b, n + 1)
    <3>1. /\ Tail(From(b, n)) \in Seq(Statements)
          /\ Len(Tail(From(b, n))) = Len(b) - n - 1
          /\ \A i \in 1 .. Len(b) - n - 1 : Tail(From(b, n))[i] = From(b, n)[i + 1]
      <4> DEFINE t == From(b, n)
      <4>1. /\ Tail(t) \in Seq(Statements) /\ Len(Tail(t)) = Len(t) - 1
            /\ \A i \in 1 .. Len(Tail(t)) : Tail(t)[i] = t[i + 1]
        <5> HIDE DEF t
        <5>1. t \in Seq(Statements) /\ t # <<>>
          BY <2>2, <2>4 DEF t
        <5> QED BY <5>1, HeadTailProperties
      <4> HIDE DEF t
      <4>2. Len(t) = Len(b) - n
        BY <2>2 DEF t
      <4>3. Len(Tail(t)) = Len(b) - n - 1
        BY <1>1, <4>1, <4>2
      <4> QED BY <4>1, <4>3 DEF t
    <3>2. \A i \in 1 .. Len(b) - n - 1 : Tail(From(b, n))[i] = From(b, n + 1)[i]
      BY <1>1, <2>2, <2>3, <3>1
    <3>3. Len(From(b, n + 1)) = Len(b) - n - 1
      <4>1. Len(b) \in Nat /\ n \in Nat
        BY <1>1
      <4>2. Len(b) - (n + 1) = Len(b) - n - 1
        BY <4>1
      <4> QED BY <2>3, <4>2
    <3> DEFINE u == Tail(From(b, n))
               v == From(b, n + 1)
    <3>4. /\ u \in Seq(Statements) /\ v \in Seq(Statements) /\ Len(u) = Len(v)
          /\ \A i \in 1 .. Len(u) : u[i] = v[i]
      BY <2>3, <3>1, <3>2, <3>3
    <3> HIDE DEF u, v
    <3>5. u = v
      BY <3>4, SeqEqual
    <3> QED BY <3>5 DEF u, v
  <2> QED BY <2>4, <2>5, <2>6
<1> QED BY <1>2, <1>3, <1>4, <1>5
(* The ends of a block by those of what it is made of.                         *)
AfterStatement(e, p, ends) ==
  IF e.how = "next" THEN ends[<<Tail(p[1]), e.store, p[3]>>] ELSE {e}
BlockEnds(p, bodies, in, ends) ==
  IF p[1] = <<>> THEN {End("next", p[2])}
  ELSE UNION {AfterStatement(e, p, ends) : e \in EndsOf(Head(p[1]), p[2], p[3], bodies, in, ends)}

LEMMA PointFacts ==
  ASSUME NEW p \in Points
  PROVE  /\ p[1] \in Code /\ p[2] \in Store /\ p[3] \in Calls
         /\ p[1] # <<>> =>
              /\ Head(p[1]) \in Statements
              /\ \A t \in Store : <<Tail(p[1]), t, p[3]>> \in Points
<1>1. p[1] \in Code /\ p[2] \in Store /\ p[3] \in Calls
  BY DEF Points, Calls
<1>2. ASSUME p[1] # <<>>
      PROVE  Head(p[1]) \in Statements /\ Tail(p[1]) \in Code
  <2> DEFINE b == p[1]
  <2>1. b \in Code /\ b # <<>>
    BY <1>1, <1>2
  <2> HIDE DEF b
  <2>2. b \in Seq(Statements) /\ Len(b) \in Nat
    BY <2>1, CodeFacts
  <2>3. Len(b) \in Nat \ {0}
    BY <2>1, <2>2, EmptySeq
  <2>4. From(b, 0) = b /\ Tail(From(b, 0)) = From(b, 1) /\ From(b, 1) \in Code
    <3>1. 0 \in 0 .. Len(b) - 1 /\ 1 \in 0 .. Len(b)
      BY <2>3
    <3>2. Tail(From(b, 0)) = From(b, 0 + 1)
      BY <2>1, <3>1, BlockParts
    <3> QED BY <2>1, <3>1, <3>2, BlockParts
  <2>5. Head(b) \in Statements
    BY <2>1, <2>2, HeadTailProperties
  <2> QED BY <2>4, <2>5 DEF b
<1> QED BY <1>1, <1>2 DEF Points, Calls

LEMMA BlockMono ==
  ASSUME NEW bodies, \A m \in Methods : bodies[m] \in Code, NEW in \in Input,
         NEW g, \A p \in Points : g[p] \subseteq Ends,
         NEW h, \A p \in Points : g[p] \subseteq h[p], NEW p \in Points
  PROVE  /\ BlockEnds(p, bodies, in, g) \subseteq Ends
         /\ BlockEnds(p, bodies, in, g) \subseteq BlockEnds(p, bodies, in, h)
<1>1. CASE p[1] = <<>>
  BY <1>1, PointFacts, EndFacts DEF BlockEnds
<1>2. CASE p[1] # <<>>
  <2> DEFINE A(k) == EndsOf(Head(p[1]), p[2], p[3], bodies, in, k)
  <2>1. A(g) \subseteq A(h)
    BY <1>2, PointFacts, EndsMono
  <2>2. A(g) \subseteq Ends
    BY <1>2, PointFacts, EndsTyped
  <2>3. \A k : BlockEnds(p, bodies, in, k) = UNION {AfterStatement(e, p, k) : e \in A(k)}
    BY <1>2 DEF BlockEnds
  <2> HIDE DEF A
  <2>4. ASSUME NEW e \in A(g)
        PROVE  /\ AfterStatement(e, p, g) \subseteq AfterStatement(e, p, h)
               /\ AfterStatement(e, p, g) \subseteq Ends
    <3>1. e \in Ends /\ e.store \in Store
      BY <2>2, EndIs
    <3>2. <<Tail(p[1]), e.store, p[3]>> \in Points
      BY <1>2, <3>1, PointFacts
    <3> QED BY <3>1, <3>2 DEF AfterStatement
  <2> QED BY <2>1, <2>3, <2>4
<1> QED BY <1>1, <1>2

LEMMA RunsSolves ==
  ASSUME NEW bodies, \A m \in Methods : bodies[m] \in Code, NEW in \in Input
  PROVE  \A p \in Points : Runs(bodies, in)[p] = BlockEnds(p, bodies, in, Runs(bodies, in))
<1> DEFINE D == Points \X Ends
           Table(l) == [p \in Points |-> {e \in Ends : <<p, e>> \in l}]
           F == [l \in SUBSET D |-> {q \in D : q[2] \in BlockEnds(q[1], bodies, in, Table(l))}]
<1>1. F \in [SUBSET D -> SUBSET D]
  OBVIOUS
<1>2. ASSUME NEW l \in SUBSET D, NEW m \in SUBSET D, l \subseteq m
      PROVE  F[l] \subseteq F[m]
  <2>1. \A p \in Points : Table(l)[p] \subseteq Table(m)[p]
    BY <1>2
  <2>2. \A p \in Points : Table(l)[p] \subseteq Ends
    OBVIOUS
  <2>3. \A p \in Points : BlockEnds(p, bodies, in, Table(l)) \subseteq BlockEnds(p, bodies, in, Table(m))
    <3> HIDE DEF Table
    <3> QED BY <2>1, <2>2, BlockMono
  <2>4. /\ F[l] = {q \in D : q[2] \in BlockEnds(q[1], bodies, in, Table(l))}
        /\ F[m] = {q \in D : q[2] \in BlockEnds(q[1], bodies, in, Table(m))}
    OBVIOUS
  <2>5. \A q \in D : q[1] \in Points
    OBVIOUS
  <2> HIDE DEF D, Table, F
  <2> QED BY <2>3, <2>4, <2>5
<1>3. PICK l \in SUBSET D : F[l] = l
  <2> HIDE DEF F, D
  <2> QED BY <1>1, <1>2, FixedPoint
<1> DEFINE G == Table(l)
<1>4. ASSUME NEW p \in Points PROVE G[p] = BlockEnds(p, bodies, in, G)
  <2>1. BlockEnds(p, bodies, in, G) \subseteq Ends
    <3>1. \A q \in Points : Table(l)[q] \subseteq Ends
      OBVIOUS
    <3> HIDE DEF Table
    <3> QED BY <3>1, BlockMono
  <2>2. ASSUME NEW e \in Ends PROVE e \in G[p] <=> e \in BlockEnds(p, bodies, in, G)
    <3>1. e \in G[p] <=> <<p, e>> \in l
      OBVIOUS
    <3>2. <<p, e>> \in F[l] <=> <<p, e>>[2] \in BlockEnds(<<p, e>>[1], bodies, in, G)
      <4>1. <<p, e>> \in D
        OBVIOUS
      <4>2. F[l] = {q \in D : q[2] \in BlockEnds(q[1], bodies, in, Table(l))}
        OBVIOUS
      <4> HIDE DEF F, D, Table
      <4> QED BY <4>1, <4>2
    <3> HIDE DEF G, F
    <3> QED BY <1>3, <3>1, <3>2
  <2>3. G[p] \subseteq Ends
    OBVIOUS
  <2> HIDE DEF G
  <2> QED BY <2>1, <2>2, <2>3
<1>5. G = [p \in Points |-> BlockEnds(p, bodies, in, G)]
  <2> DEFINE H == [p \in Points |-> BlockEnds(p, bodies, in, G)]
  <2>1. \A p \in Points : G[p] = H[p]
    <3> HIDE DEF G
    <3> QED BY <1>4
  <2>2. DOMAIN G = Points /\ G = [p \in Points |-> G[p]]
    BY Zenon
  <2>3. DOMAIN H = Points /\ H = [p \in Points |-> H[p]]
    BY Zenon
  <2>4. G = H
    <3> HIDE DEF G, H
    <3> QED BY <2>1, <2>2, <2>3
  <2> QED BY <2>4
<1> DEFINE R == Runs(bodies, in)
<1>6. R = [p \in Points |-> BlockEnds(p, bodies, in, R)]
  <2> HIDE DEF G
  <2>1. R = CHOOSE r : r = [p \in Points |-> BlockEnds(p, bodies, in, r)]
    BY DEF Runs, BlockEnds, AfterStatement
  <2> HIDE DEF R
  <2> QED BY <1>5, <2>1
<1> HIDE DEF R
<1>7. \A p \in Points : R[p] = BlockEnds(p, bodies, in, R)
  BY <1>6
<1> QED BY <1>7 DEF R
(* The ends of the blocks that the model's reading gives, without any that is    *)
(* none.                                                                    *)
Outcomes(bodies, in) == [p \in Points |-> Runs(bodies, in)[p] \cap Ends]

LEMMA OutcomesClosed ==
  ASSUME NEW bodies, \A m \in Methods : bodies[m] \in Code, NEW in \in Input
  PROVE  \A p \in Points :
           /\ Outcomes(bodies, in)[p] \subseteq Ends
           /\ Outcomes(bodies, in)[p] \subseteq Runs(bodies, in)[p]
           /\ BlockEnds(p, bodies, in, Outcomes(bodies, in)) \subseteq Outcomes(bodies, in)[p]
<1> DEFINE o == Outcomes(bodies, in)
           r == Runs(bodies, in)
<1>1. \A p \in Points : o[p] = r[p] \cap Ends
  BY DEF Outcomes
<1> SUFFICES ASSUME NEW p \in Points
             PROVE  BlockEnds(p, bodies, in, o) \subseteq o[p]
  BY <1>1
<1>2. r[p] = BlockEnds(p, bodies, in, r)
  BY RunsSolves
<1>3. /\ BlockEnds(p, bodies, in, o) \subseteq Ends
      /\ BlockEnds(p, bodies, in, o) \subseteq BlockEnds(p, bodies, in, r)
  <2> HIDE DEF o, r
  <2> QED BY <1>1, BlockMono
<1> HIDE DEF o, r
<1> QED BY <1>1, <1>2, <1>3

(* An end a statement of a block comes to is carried on by the rest of it.       *)
LEMMA OutcomesOf ==
  ASSUME NEW bodies, \A m \in Methods : bodies[m] \in Code, NEW in \in Input,
         NEW b \in Code, NEW st \in Store, NEW c \in Calls
  PROVE  LET o == Outcomes(bodies, in) IN
         /\ o[<<b, st, c>>] \subseteq Ends
         /\ o[<<b, st, c>>] \subseteq Runs(bodies, in)[<<b, st, c>>]
         /\ End("next", st) \in o[<<From(b, Len(b)), st, c>>]
         /\ \A n \in 0 .. Len(b) - 1 :
              \A e \in EndsOf(b[n + 1], st, c, bodies, in, o) :
                IF e.how = "next"
                THEN o[<<From(b, n + 1), e.store, c>>] \subseteq o[<<From(b, n), st, c>>]
                ELSE e \in o[<<From(b, n), st, c>>]
<1> DEFINE o == Outcomes(bodies, in)
<1>1. \A p \in Points : /\ o[p] \subseteq Ends /\ o[p] \subseteq Runs(bodies, in)[p]
                        /\ BlockEnds(p, bodies, in, o) \subseteq o[p]
  BY OutcomesClosed
<1>2. \A n \in 0 .. Len(b) : <<From(b, n), st, c>> \in Points
  BY BlockParts DEF Points, Calls
<1>3. <<b, st, c>> \in Points
  BY DEF Points, Calls
<1>4. Len(b) \in Nat
  BY CodeFacts
<1> HIDE DEF o
<1>5. End("next", st) \in o[<<From(b, Len(b)), st, c>>]
  <2> DEFINE p == <<From(b, Len(b)), st, c>>
  <2>1. p \in Points /\ p[1] = <<>> /\ p[2] = st
    BY <1>2, <1>4, BlockParts
  <2> HIDE DEF p
  <2>2. End("next", st) \in BlockEnds(p, bodies, in, o)
    BY <2>1 DEF BlockEnds
  <2> QED BY <1>1, <2>1, <2>2 DEF p
<1>6. ASSUME NEW n \in 0 .. Len(b) - 1, NEW e \in EndsOf(b[n + 1], st, c, bodies, in, o)
      PROVE  IF e.how = "next"
             THEN o[<<From(b, n + 1), e.store, c>>] \subseteq o[<<From(b, n), st, c>>]
             ELSE e \in o[<<From(b, n), st, c>>]
  <2> DEFINE p == <<From(b, n), st, c>>
  <2>1. n \in 0 .. Len(b)
    BY <1>4
  <2>2. /\ p \in Points /\ p[1] # <<>> /\ Head(p[1]) = b[n + 1] /\ p[2] = st /\ p[3] = c
        /\ Tail(p[1]) = From(b, n + 1)
    BY <1>2, <2>1, BlockParts
  <2> HIDE DEF p
  <2>3. BlockEnds(p, bodies, in, o) =
          UNION {AfterStatement(d, p, o) : d \in EndsOf(b[n + 1], st, c, bodies, in, o)}
    BY <2>2 DEF BlockEnds
  <2>4. AfterStatement(e, p, o) \subseteq o[p]
    BY <1>1, <2>2, <2>3
  <2>5. AfterStatement(e, p, o) =
          IF e.how = "next" THEN o[<<From(b, n + 1), e.store, c>>] ELSE {e}
    BY <2>2 DEF AfterStatement
  <2> QED BY <2>4, <2>5 DEF p
<1> QED BY <1>1, <1>3, <1>5, <1>6 DEF o

-----------------------------------------------------------------------------
(* What is left to run.                                                      *)

Marks ==
  [op : {"end_call"}, of : Methods]
  \cup [op : {"end_try"}, catch : Code, snap : Store]
  \cup [op : {"else"}, cond : Conds, body : Code]
Items == Statements \cup Marks

LEMMA MarkFacts ==
  ASSUME NEW s \in Items
  PROVE  /\ s.op \notin {"end_call", "end_try", "else"} <=> s \in Statements
         /\ s.op = "end_call" => s.of \in Methods
         /\ s.op = "end_try" => s.catch \in Code /\ s.snap \in Store
         /\ s.op = "else" => s.cond \in Conds /\ s.body \in Code
<1>1. CASE s \in Statements
  BY <1>1, StatementFacts
<1>2. CASE s \in Marks
  <2>1. s.op \in {"end_call", "end_try", "else"}
    BY <1>2 DEF Marks
  <2>2. s \notin Statements
    BY <2>1, StatementFacts
  <2> QED BY <1>2, <2>1, <2>2 DEF Marks
<1> QED BY <1>1, <1>2 DEF Items

LEMMA NewMarks ==
  /\ \A m \in Methods : EndCall(m) \in Items
  /\ \A b \in Code, st \in Store : EndTry(b, st) \in Items
  /\ \A s \in Statements : s.op = "if" => Else(s) \in Items
<1>1. ASSUME NEW s \in Statements, s.op = "if" PROVE Else(s) \in Items
  <2>1. s.cond \in Conds /\ s.else \in Code
    BY <1>1, StatementFacts
  <2> QED BY <2>1 DEF Else, Items, Marks
<1> QED BY <1>1 DEF EndCall, EndTry, Items, Marks

LEMMA CodeItems == \A b \in Code : b \in Seq(Items)
  BY CodeFacts, SeqMonotonic DEF Items

(* The first statements may be followed by what was left after place n.         *)
LEMMA JoinFacts ==
  ASSUME NEW p \in Seq(Items), NEW t \in Seq(Items), NEW n \in 0 .. Len(t)
  PROVE  /\ p \o From(t, n) \in Seq(Items)
         /\ Len(p) \in Nat /\ Len(t) \in Nat
         /\ Len(p \o From(t, n)) = Len(p) + Len(t) - n
         /\ \A i \in 1 .. Len(p) : (p \o From(t, n))[i] = p[i]
         /\ \A i \in Len(p) + 1 .. Len(p) + Len(t) - n :
              (p \o From(t, n))[i] = t[i - Len(p) + n]
<1> DEFINE u == From(t, n)
<1>1. u \in Seq(Items) /\ Len(u) = Len(t) - n /\ \A i \in 1 .. Len(t) - n : u[i] = t[i + n]
  BY FromFacts
<1>2. Len(p) \in Nat /\ Len(t) \in Nat
  OBVIOUS
<1> HIDE DEF u
<1>3. /\ p \o u \in Seq(Items)
      /\ Len(p \o u) = Len(p) + Len(u)
      /\ \A i \in 1 .. Len(p) + Len(u) :
           (p \o u)[i] = IF i <= Len(p) THEN p[i] ELSE u[i - Len(p)]
  BY <1>1, ConcatProperties
<1>4. \A i \in 1 .. Len(p) : (p \o u)[i] = p[i]
  BY <1>1, <1>2, <1>3
<1>5. ASSUME NEW i \in Len(p) + 1 .. Len(p) + Len(t) - n
      PROVE  (p \o u)[i] = t[i - Len(p) + n]
  <2>1. i \in 1 .. Len(p) + Len(u) /\ ~(i <= Len(p)) /\ i - Len(p) \in 1 .. Len(t) - n
    BY <1>1, <1>2
  <2> QED BY <1>1, <1>3, <2>1
<1>6. Len(p \o u) = Len(p) + Len(t) - n
  BY <1>1, <1>2, <1>3
<1> QED BY <1>2, <1>3, <1>4, <1>5, <1>6 DEF u

(* The depth of the calls, part by part.                                      *)
CallsIn(t) == {i \in DOMAIN t : t[i].op = "end_call"}

LEMMA DepthType ==
  ASSUME NEW t \in Seq(Items)
  PROVE  IsFiniteSet(CallsIn(t)) /\ Depth(t) = Cardinality(CallsIn(t)) /\ Depth(t) \in Nat
<1>1. DOMAIN t = 1 .. Len(t) /\ Len(t) \in Nat
  OBVIOUS
<1>2. IsFiniteSet(DOMAIN t)
  BY <1>1, FS_Interval
<1>3. IsFiniteSet(CallsIn(t))
  BY <1>2, FS_Subset DEF CallsIn
<1> QED BY <1>3, FS_CardinalityType DEF Depth, CallsIn

LEMMA DepthJoin ==
  ASSUME NEW p \in Seq(Items), NEW t \in Seq(Items)
  PROVE  Depth(p \o t) = Depth(p) + Depth(t)
<1> DEFINE A == CallsIn(p)
           B == CallsIn(t)
           n == Len(p)
           C == {i \in n + 1 .. n + Len(t) : t[i - n].op = "end_call"}
           f == [i \in B |-> i + n]
<1>1. /\ p \o t \in Seq(Items) /\ Len(p \o t) = n + Len(t)
      /\ \A i \in 1 .. n + Len(t) : (p \o t)[i] = IF i <= n THEN p[i] ELSE t[i - n]
  BY ConcatProperties
<1>2. n \in Nat /\ Len(t) \in Nat
  OBVIOUS
<1>3. CallsIn(p \o t) = A \cup C
  <2>1. DOMAIN (p \o t) = 1 .. n + Len(t) /\ DOMAIN p = 1 .. n
    BY <1>1
  <2> QED BY <1>1, <1>2, <2>1 DEF CallsIn
<1>4. A \cap C = {}
  BY <1>2 DEF CallsIn
<1>5. IsFiniteSet(C) /\ Cardinality(C) = Cardinality(B)
  <2>1. B \subseteq 1 .. Len(t)
    BY DEF CallsIn
  <2>2. f \in [B -> C]
    <3> SUFFICES ASSUME NEW i \in B PROVE i + n \in C
      OBVIOUS
    <3> QED BY <1>2, <2>1 DEF CallsIn
  <2>3. \A i, j \in B : f[i] = f[j] => i = j
    BY <1>2, <2>1
  <2>4. \A k \in C : \E i \in B : f[i] = k
    <3> SUFFICES ASSUME NEW k \in C PROVE \E i \in B : f[i] = k
      OBVIOUS
    <3>1. k - n \in B
      BY <1>2 DEF CallsIn
    <3>2. f[k - n] = k
      BY <1>2, <3>1
    <3> QED BY <3>1, <3>2
  <2>5. f \in Bijection(B, C)
    <3> HIDE DEF f, B, C
    <3> QED BY <2>2, <2>3, <2>4 DEF Bijection, Injection, Surjection, IsInjective
  <2>6. IsFiniteSet(B)
    BY DepthType
  <2> HIDE DEF f, B, C
  <2> QED BY <2>5, <2>6, FS_Bijection DEF ExistsBijection
<1>6. Cardinality(A \cup C) = Cardinality(A) + Cardinality(C)
  <2>1. IsFiniteSet(A)
    BY DepthType
  <2>2. Cardinality(A) \in Nat /\ Cardinality(C) \in Nat
    BY <1>5, <2>1, FS_CardinalityType
  <2> HIDE DEF A, C
  <2>3. Cardinality(A \cup C) = Cardinality(A) + Cardinality(C) - Cardinality(A \cap C)
    BY <1>5, <2>1, FS_Union
  <2>4. Cardinality(A \cap C) = 0
    BY <1>4, FS_EmptySet
  <2> QED BY <2>2, <2>3, <2>4
<1> QED BY <1>1, <1>3, <1>5, <1>6, DepthType
LEMMA DepthParts ==
  /\ Depth(<<>>) = 0
  /\ \A s \in Items : s.op # "end_call" => Depth(<<s>>) = 0
  /\ \A m \in Methods : Depth(<<EndCall(m)>>) = 1
  /\ \A b \in Code : Depth(b) = 0
  /\ \A t \in Seq(Items) : \A n \in 0 .. Len(t) : Depth(From(t, n)) <= Depth(t)
<1>1. \A t \in Seq(Items) : CallsIn(t) = {} => Depth(t) = 0
  BY DepthType, FS_EmptySet
<1>2. Depth(<<>>) = 0
  <2>1. <<>> \in Seq(Items) /\ CallsIn(<<>>) = {}
    BY EmptySeq DEF CallsIn
  <2> QED BY <1>1, <2>1
<1>3. ASSUME NEW s \in Items, s.op # "end_call" PROVE Depth(<<s>>) = 0
  <2>1. <<s>> \in Seq(Items) /\ DOMAIN <<s>> = {1} /\ <<s>>[1] = s
    OBVIOUS
  <2>2. CallsIn(<<s>>) = {}
    BY <1>3, <2>1 DEF CallsIn
  <2> QED BY <1>1, <2>1, <2>2
<1>4. ASSUME NEW m \in Methods PROVE Depth(<<EndCall(m)>>) = 1
  <2>1. <<EndCall(m)>> \in Seq(Items)
    BY NewMarks
  <2>2. CallsIn(<<EndCall(m)>>) = {1}
    BY DEF CallsIn, EndCall
  <2> QED BY <2>1, <2>2, DepthType, FS_Singleton
<1>5. ASSUME NEW b \in Code PROVE Depth(b) = 0
  <2>1. \A i \in DOMAIN b : b[i].op # "end_call"
    BY CodeFacts, StatementFacts
  <2>2. CallsIn(b) = {}
    BY <2>1 DEF CallsIn
  <2> QED BY <1>1, <2>2, CodeItems
<1>6. ASSUME NEW t \in Seq(Items), NEW n \in 0 .. Len(t) PROVE Depth(From(t, n)) <= Depth(t)
  <2> DEFINE u == SubSeq(t, 1, n)
  <2>1. u \in Seq(Items)
    BY SubSeqProperties
  <2>2. u \o From(t, n) = t
    <3>1. From(t, n) \in Seq(Items)
      BY FromFacts
    <3>2. /\ u \o From(t, n) \in Seq(Items) /\ Len(u) = n /\ Len(u \o From(t, n)) = Len(t)
          /\ \A i \in 1 .. Len(t) : (u \o From(t, n))[i] = t[i]
      <4>1. Len(t) \in Nat
        OBVIOUS
      <4>2. Len(u) = n /\ \A i \in 1 .. n : u[i] = t[i]
        BY <4>1, SubSeqProperties
      <4>3. /\ u \o From(t, n) \in Seq(Items) /\ Len(u \o From(t, n)) = Len(u) + Len(t) - n
            /\ \A i \in 1 .. Len(u) : (u \o From(t, n))[i] = u[i]
            /\ \A i \in Len(u) + 1 .. Len(u) + Len(t) - n : (u \o From(t, n))[i] = t[i - Len(u) + n]
        <5> HIDE DEF u
        <5> QED BY <2>1, JoinFacts
      <4> HIDE DEF u
      <4>4. ASSUME NEW i \in 1 .. Len(t) PROVE (u \o From(t, n))[i] = t[i]
        <5>1. CASE i <= n
          BY <4>1, <4>2, <4>3, <5>1
        <5>2. CASE i > n
          <6> DEFINE k == i - Len(u) + n
          <6>1. i \in Len(u) + 1 .. Len(u) + Len(t) - n
            BY <4>1, <4>2, <5>2
          <6>3. k = i
            BY <4>1, <4>2
          <6>2. (u \o From(t, n))[i] = t[k]
            BY <4>3, <6>1
          <6> HIDE DEF k
          <6> QED BY <6>2, <6>3
        <5>3. i \in Int /\ n \in Int
          BY <4>1
        <5>4. i <= n \/ i > n
          BY <5>3
        <5> QED BY <5>1, <5>2, <5>4
      <4> QED BY <4>1, <4>2, <4>3, <4>4
    <3> HIDE DEF u
    <3> QED BY <3>2, SeqEqual
  <2>3. Depth(t) = Depth(u) + Depth(From(t, n))
    <3>1. From(t, n) \in Seq(Items)
      BY FromFacts
    <3> HIDE DEF u
    <3> QED BY <2>1, <2>2, <3>1, DepthJoin
  <2>4. Depth(u) \in Nat /\ Depth(From(t, n)) \in Nat
    <3>1. From(t, n) \in Seq(Items)
      BY FromFacts
    <3> HIDE DEF u
    <3> QED BY <2>1, <3>1, DepthType
  <2> HIDE DEF u
  <2> QED BY <2>3, <2>4
<1> QED BY <1>2, <1>3, <1>4, <1>5, <1>6

(* The statements that may yet run because of an item, however deep.            *)
Contents(s) ==
  CASE s.op = "end_call" -> {}
    [] s.op = "end_try"  -> Inside[s.catch]
    [] s.op = "else"     -> Inside[s.body]
    [] OTHER             -> {s} \cup UNION {Inside[c] : c \in Blocks(s)}

LEMMA ContentsFacts ==
  /\ \A b \in Code : \A i \in DOMAIN b : Contents(b[i]) \subseteq Inside[b]
  /\ \A s \in Statements : s \in Contents(s) /\ \A c \in Blocks(s) : Inside[c] \subseteq Contents(s)
<1>1. ASSUME NEW s \in Statements
      PROVE  Contents(s) = {s} \cup UNION {Inside[c] : c \in Blocks(s)}
  BY StatementFacts DEF Contents
<1>2. ASSUME NEW b \in Code, NEW i \in DOMAIN b PROVE Contents(b[i]) \subseteq Inside[b]
  <2>1. b[i] \in Statements
    BY CodeFacts
  <2>2. Inside[b] = UNION {{b[j]} \cup UNION {Inside[c] : c \in Blocks(b[j])} : j \in DOMAIN b}
    BY InsideFacts
  <2>3. {b[i]} \cup UNION {Inside[c] : c \in Blocks(b[i])} \subseteq Inside[b]
    BY <2>2
  <2> QED BY <1>1, <2>1, <2>3
<1> QED BY <1>1, <1>2

(* What an item leaves to run when it is run: no end of a call, and nothing but  *)
(* what was in it.                                                          *)
Grown(p, s) ==
  /\ p \in Seq(Items)
  /\ \A i \in DOMAIN p : p[i].op # "end_call" /\ Contents(p[i]) \subseteq Contents(s)

LEMMA GrownNone == ASSUME NEW s PROVE Grown(<<>>, s)
  BY DEF Grown

LEMMA GrownBlock ==
  ASSUME NEW s, NEW b \in Code, Inside[b] \subseteq Contents(s)
  PROVE  Grown(b, s)
<1>1. \A i \in DOMAIN b : b[i].op # "end_call"
  BY CodeFacts, StatementFacts
<1> QED BY <1>1, CodeItems, ContentsFacts DEF Grown

LEMMA GrownOne ==
  ASSUME NEW s, NEW i \in Items, i.op # "end_call", Contents(i) \subseteq Contents(s)
  PROVE  Grown(<<i>>, s)
BY DEF Grown

LEMMA GrownJoin ==
  ASSUME NEW s, NEW p, NEW q, Grown(p, s), Grown(q, s)
  PROVE  Grown(p \o q, s)
<1>1. p \in Seq(Items) /\ q \in Seq(Items)
  BY DEF Grown
<1>2. /\ p \o q \in Seq(Items) /\ Len(p \o q) = Len(p) + Len(q)
      /\ \A i \in 1 .. Len(p) + Len(q) : (p \o q)[i] = IF i <= Len(p) THEN p[i] ELSE q[i - Len(p)]
  BY <1>1, ConcatProperties
<1>3. /\ DOMAIN p = 1 .. Len(p) /\ DOMAIN q = 1 .. Len(q) /\ DOMAIN (p \o q) = 1 .. Len(p) + Len(q)
      /\ Len(p) \in Nat /\ Len(q) \in Nat
  BY <1>1, <1>2
<1>4. ASSUME NEW i \in DOMAIN (p \o q)
      PROVE  (p \o q)[i].op # "end_call" /\ Contents((p \o q)[i]) \subseteq Contents(s)
  <2>1. CASE i <= Len(p)
    BY <1>2, <1>3, <2>1 DEF Grown
  <2>2. CASE ~(i <= Len(p))
    <3>1. i - Len(p) \in DOMAIN q /\ (p \o q)[i] = q[i - Len(p)]
      BY <1>2, <1>3, <2>2
    <3> QED BY <3>1 DEF Grown
  <2> QED BY <2>1, <2>2
<1> QED BY <1>2, <1>4 DEF Grown
-----------------------------------------------------------------------------
(* How the steps change what is left to run.                                  *)

BodiesOK ==
  /\ kind \in {"fn", "value", "new"}
  /\ body \in [f : Bodies, g : Helpers]
  /\ Accepted(kind, body)
  /\ kind = "new" => NewMayReturn \/ ~Holds(body.f, {"return"})
  /\ input \in Input
  /\ MayMisjudge \/ JudgedAsRun(body)

TodoOK == BodiesOK /\ TypeOK /\ todo \in Seq(Items)

LEMMA BodyFacts ==
  ASSUME BodiesOK
  PROVE  /\ \A m \in Methods : body[m] \in Code
         /\ body.f = body["f"] /\ body.g = body["g"]
BY CodeAssumption DEF BodiesOK, Methods

LEMMA Here ==
  ASSUME TodoOK, NEW ops, At(ops)
  PROVE  /\ how = "running" /\ todo # <<>> /\ Len(todo) \in Nat \ {0}
         /\ DOMAIN todo = 1 .. Len(todo) /\ 1 \in DOMAIN todo
         /\ S = todo[1] /\ S \in Items /\ S.op \in ops
         /\ Rest = From(todo, 1) /\ todo = From(todo, 0)
<1>1. todo \in Seq(Items) /\ todo # <<>> /\ how = "running" /\ S.op \in ops
  BY DEF TodoOK, At, S
<1>2. Len(todo) \in Nat \ {0} /\ DOMAIN todo = 1 .. Len(todo)
  BY <1>1, EmptySeq
<1>3. 1 \in DOMAIN todo /\ S = todo[1] /\ S \in Items
  BY <1>1, <1>2 DEF S
<1>4. Rest = From(todo, 1)
  BY <1>1, TailIsSubSeq DEF Rest, From
<1>5. todo = From(todo, 0)
  BY <1>1, SubSeqFull DEF From
<1> QED BY <1>1, <1>2, <1>3, <1>4, <1>5

LEMMA FirstFacts ==
  ASSUME TodoOK, NEW op, Marked(op)
  PROVE  /\ First({op}) \in DOMAIN todo /\ todo[First({op})].op = op
         /\ \A j \in DOMAIN todo : j < First({op}) => todo[j].op # op
<1> DEFINE places == {i \in DOMAIN todo : todo[i].op \in {op}}
<1>1. DOMAIN todo = 1 .. Len(todo) /\ Len(todo) \in Nat
  BY DEF TodoOK
<1>2. places \in SUBSET Nat /\ places # {}
  BY <1>1 DEF Marked
<1>3. \E i \in places : \A j \in places : i <= j
  BY <1>2, LeastNatural
<1>4. First({op}) = CHOOSE i \in places : \A j \in places : i <= j
  BY DEF First
<1>5. First({op}) \in places /\ \A j \in places : First({op}) <= j
  <2> HIDE DEF places
  <2> QED BY <1>3, <1>4
<1>6. \A j \in DOMAIN todo : j < First({op}) => todo[j].op # op
  <2> SUFFICES ASSUME NEW j \in DOMAIN todo, j < First({op}), todo[j].op = op PROVE FALSE
    OBVIOUS
  <2>1. j \in places /\ First({op}) <= j
    BY <1>5
  <2>2. j \in Nat /\ First({op}) \in Nat
    BY <1>2, <1>5, <2>1
  <2> QED BY <2>1, <2>2
<1> QED BY <1>5, <1>6

LEMMA FailsFacts ==
  ASSUME TodoOK, Fails
  PROVE  /\ UNCHANGED program
         /\ \/ /\ ~Marked("end_try")
               /\ todo' = <<>> /\ how' = "reverted" /\ store' = store
            \/ \E i \in DOMAIN todo :
                 /\ Marked("end_try") /\ i = First({"end_try"}) /\ todo[i].op = "end_try"
                 /\ todo' = todo[i].catch \o From(todo, i)
                 /\ store' = todo[i].snap /\ how' = how
BY FirstFacts DEF Fails, Restored, After, From

(* An item at place h ran, or was passed over, and left p.                      *)
Went(h, n, p) ==
  /\ h \in DOMAIN todo /\ n \in {h - 1, h}
  /\ Grown(p, todo[h])
  /\ p = <<>> \/ todo[h].op # "end_call"
  /\ todo' = p \o From(todo, n)

Called(m) ==
  /\ m \in Methods /\ todo # <<>> /\ todo[1] \in Statements
  /\ todo[1].op = "call" /\ todo[1].to = m
  /\ Depth(todo) # MaxCalls
  /\ todo' = (body[m] \o <<EndCall(m)>>) \o From(todo, 1)

Moved ==
  \/ todo' = <<>>
  \/ \E h, n, p : Went(h, n, p)
  \/ \E m : Called(m)

LEMMA DropMoves ==
  ASSUME TodoOK, NEW ops, At(ops), todo' = Rest
  PROVE  Went(1, 1, <<>>)
<1>1. From(todo, 1) \in Seq(Items)
  <2>1. 1 \in 0 .. Len(todo)
    BY Here
  <2> QED BY <2>1, FromFacts DEF TodoOK
<1>2. <<>> \o From(todo, 1) = From(todo, 1)
  BY <1>1, ConcatEmptySeq
<1> QED BY <1>2, Here, GrownNone DEF Went

LEMMA FailsMoves ==
  ASSUME TodoOK, Fails
  PROVE  Moved
<1>1. CASE todo' = <<>>
  BY <1>1 DEF Moved
<1>2. CASE todo' # <<>>
  <2>1. PICK i \in DOMAIN todo : todo[i].op = "end_try" /\ todo' = todo[i].catch \o From(todo, i)
    BY <1>2, FailsFacts
  <2>2. todo[i] \in Items
    BY DEF TodoOK
  <2>3. todo[i].catch \in Code
    BY <2>1, <2>2, MarkFacts
  <2>4. Inside[todo[i].catch] \subseteq Contents(todo[i])
    BY <2>1 DEF Contents
  <2>5. Grown(todo[i].catch, todo[i])
    BY <2>3, <2>4, GrownBlock
  <2>6. Went(i, i, todo[i].catch)
    BY <2>1, <2>5 DEF Went
  <2> QED BY <2>6 DEF Moved
<1> QED BY <1>1, <1>2

LEMMA IfMoves ==
  ASSUME TodoOK, If
  PROVE  Went(1, 1, (IF True(S.cond, input, store) THEN S.then ELSE <<>>)
                    \o (IF S.else = <<>> THEN <<>> ELSE <<Else(S)>>))
<1> DEFINE p == IF True(S.cond, input, store) THEN S.then ELSE <<>>
           q == IF S.else = <<>> THEN <<>> ELSE <<Else(S)>>
<1>1. S = todo[1] /\ S \in Statements /\ S.op = "if" /\ Rest = From(todo, 1) /\ 1 \in DOMAIN todo
  BY Here, MarkFacts DEF If
<1>2. S.then \in Code /\ S.else \in Code
  BY <1>1, StatementFacts
<1>3. {S.then, S.else} = Blocks(S)
  BY <1>1 DEF Blocks
<1>4. Inside[S.then] \subseteq Contents(S) /\ Inside[S.else] \subseteq Contents(S)
  BY <1>1, <1>3, ContentsFacts
<1>5. Grown(p, S)
  BY <1>2, <1>4, GrownBlock, GrownNone
<1>6. Grown(q, S)
  <2>1. Else(S) \in Items /\ Else(S).op = "else" /\ Contents(Else(S)) = Inside[S.else]
    BY <1>1, NewMarks DEF Else, Contents
  <2> QED BY <1>4, <2>1, GrownOne, GrownNone
<1>7. todo' = (p \o q) \o From(todo, 1)
  BY <1>1 DEF If, Continue
<1> HIDE DEF p, q
<1>8. Went(1, 1, p \o q)
  BY <1>1, <1>5, <1>6, <1>7, GrownJoin DEF Went
<1> QED BY <1>8 DEF p, q

LEMMA TryMoves ==
  ASSUME TodoOK, Try
  PROVE  Went(1, 1, S.body \o <<EndTry(S.catch, store)>>)
<1>1. S = todo[1] /\ S \in Statements /\ S.op = "try" /\ Rest = From(todo, 1) /\ 1 \in DOMAIN todo
  BY Here, MarkFacts DEF Try
<1>2. S.body \in Code /\ S.catch \in Code
  BY <1>1, StatementFacts
<1>3. {S.body, S.catch} = Blocks(S)
  BY <1>1 DEF Blocks
<1>4. Inside[S.body] \subseteq Contents(S) /\ Inside[S.catch] \subseteq Contents(S)
  BY <1>1, <1>3, ContentsFacts
<1>5. store \in Store
  BY DEF TodoOK, TypeOK
<1>6. Grown(<<EndTry(S.catch, store)>>, S)
  <2> DEFINE e == EndTry(S.catch, store)
  <2>1. e \in Items /\ e.op = "end_try" /\ Contents(e) = Inside[S.catch]
    BY <1>2, <1>5, NewMarks DEF EndTry, Contents
  <2> HIDE DEF e
  <2>2. Grown(<<e>>, S)
    BY <1>4, <2>1, GrownOne
  <2> QED BY <2>2 DEF e
<1>7. todo' = (S.body \o <<EndTry(S.catch, store)>>) \o From(todo, 1)
  BY <1>1 DEF Try, Continue
<1> QED BY <1>1, <1>2, <1>4, <1>6, <1>7, GrownBlock, GrownJoin DEF Went
LEMMA MatchMoves ==
  ASSUME TodoOK, Match
  PROVE  /\ ArmFor(S.arms, input.tag) \in Blocks(S) /\ ArmFor(S.arms, input.tag) \in Code
         /\ Went(1, 1, ArmFor(S.arms, input.tag))
<1> DEFINE b == ArmFor(S.arms, input.tag)
<1>1. S = todo[1] /\ S \in Statements /\ S.op = "match" /\ Rest = From(todo, 1) /\ 1 \in DOMAIN todo
  BY Here, MarkFacts DEF Match
<1>2. input.tag \in Bit
  BY DEF TodoOK, BodiesOK, Input
<1>3. b \in Blocks(S)
  BY <1>1, <1>2, ArmFacts
<1>4. b \in Code
  BY <1>1, <1>3, BlockFacts
<1>5. todo' = b \o From(todo, 1)
  BY <1>1 DEF Match, Continue
<1> HIDE DEF b
<1>6. Grown(b, S)
  BY <1>1, <1>3, <1>4, ContentsFacts, GrownBlock
<1>7. Went(1, 1, b)
  BY <1>1, <1>5, <1>6 DEF Went
<1> QED BY <1>3, <1>4, <1>7 DEF b

LEMMA ElseMoves ==
  ASSUME TodoOK, ElseTest
  PROVE  \/ True(S.cond, input, store) /\ Went(1, 1, <<>>)
         \/ ~True(S.cond, input, store) /\ Went(1, 1, S.body)
<1>1. S = todo[1] /\ S \in Items /\ S.op = "else" /\ Rest = From(todo, 1) /\ 1 \in DOMAIN todo
  BY Here DEF ElseTest
<1>2. S.body \in Code /\ Inside[S.body] \subseteq Contents(S)
  BY <1>1, MarkFacts DEF Contents
<1>3. CASE True(S.cond, input, store)
  <2>1. todo' = <<>> \o From(todo, 1)
    BY <1>1, <1>3 DEF ElseTest, Continue
  <2> QED BY <1>1, <1>3, <2>1, GrownNone DEF Went
<1>4. CASE ~True(S.cond, input, store)
  <2>1. todo' = S.body \o From(todo, 1)
    <3>1. todo' = (IF True(S.cond, input, store) THEN <<>> ELSE S.body) \o Rest
      BY DEF ElseTest, Continue
    <3> QED BY <1>1, <1>4, <3>1
  <2> QED BY <1>1, <1>2, <1>4, <2>1, GrownBlock DEF Went
<1> QED BY <1>3, <1>4

(* A turn of a loop's body goes before the loop.                              *)
LEMMA TurnMoves ==
  ASSUME TodoOK, At({"while", "for"}), todo' = S.body \o todo
  PROVE  Went(1, 0, S.body)
<1>1. S = todo[1] /\ S \in Statements /\ S.op \in {"while", "for"} /\ todo = From(todo, 0) /\ 1 \in DOMAIN todo
  BY Here, MarkFacts
<1>2. S.body \in Code
  BY <1>1, StatementFacts
<1>3. S.body \in Blocks(S)
  BY <1>1 DEF Blocks
<1>4. Grown(S.body, S)
  BY <1>1, <1>2, <1>3, ContentsFacts, GrownBlock
<1>5. todo' = S.body \o From(todo, 0)
  BY <1>1
<1>6. 1 \in DOMAIN todo /\ 0 \in {1 - 1, 1} /\ todo[1].op # "end_call" /\ Grown(S.body, todo[1])
  BY <1>1, <1>4
<1> QED BY <1>5, <1>6 DEF Went

LEMMA WhileMoves ==
  ASSUME TodoOK, While
  PROVE  \/ True(S.cond, input, store) /\ Went(1, 0, S.body)
         \/ ~True(S.cond, input, store) /\ Went(1, 1, <<>>)
<1>1. At({"while"}) /\ At({"while", "for"})
  BY DEF While, At
<1>2. CASE True(S.cond, input, store)
  <2>1. todo' = S.body \o todo
    BY <1>2 DEF While, Continue
  <2> QED BY <1>1, <1>2, <2>1, TurnMoves
<1>3. CASE ~True(S.cond, input, store)
  <2>1. todo' = Rest
    BY <1>3 DEF While, Continue
  <2> QED BY <1>1, <1>3, <2>1, DropMoves
<1> QED BY <1>2, <1>3

LEMMA ForMoves ==
  ASSUME TodoOK, For
  PROVE  Went(1, 0, S.body) \/ Went(1, 1, <<>>)
<1>1. At({"for"}) /\ At({"while", "for"})
  BY DEF For, At
<1>2. CASE todo' = S.body \o todo
  BY <1>1, <1>2, TurnMoves
<1>3. CASE todo' = Rest
  BY <1>1, <1>3, DropMoves
<1> QED BY <1>2, <1>3 DEF For, Continue

LEMMA ReturnMoves ==
  ASSUME TodoOK, Return
  PROVE  /\ UNCHANGED <<program, store, did>>
         /\ \/ ~Marked("end_call") /\ todo' = <<>> /\ how' = "returned"
            \/ \E h \in DOMAIN todo :
                 /\ Marked("end_call") /\ h = First({"end_call"}) /\ todo[h].op = "end_call"
                 /\ how' = how /\ todo' = From(todo, h) /\ Went(h, h, <<>>)
<1>1. CASE ~Marked("end_call")
  BY <1>1 DEF Return, program
<1>2. CASE Marked("end_call")
  <2> DEFINE h == First({"end_call"})
  <2>1. h \in DOMAIN todo /\ todo[h].op = "end_call"
    BY <1>2, FirstFacts
  <2>2. UNCHANGED <<program, store, did>> /\ how' = how /\ todo' = From(todo, h)
    BY <1>2 DEF Return, Continue, After, From
  <2> HIDE DEF h
  <2>3. h \in 0 .. Len(todo) /\ todo \in Seq(Items)
    BY <2>1 DEF TodoOK
  <2>4. From(todo, h) \in Seq(Items)
    BY <2>3, FromFacts
  <2>5. todo' = <<>> \o From(todo, h)
    BY <2>2, <2>4, ConcatEmptySeq
  <2>6. Went(h, h, <<>>)
    BY <2>1, <2>5, GrownNone DEF Went
  <2> QED BY <1>2, <2>1, <2>2, <2>6 DEF h
<1> QED BY <1>1, <1>2

LEMMA CallMoves ==
  ASSUME TodoOK, Call
  PROVE  /\ S \in Statements /\ S = todo[1] /\ S.op = "call" /\ S.to \in Methods /\ did' = did
         /\ \/ StackFull(todo) /\ Fails
            \/ Called(S.to) /\ store' = store /\ how' = how /\ UNCHANGED program
<1>1. S = todo[1] /\ S \in Statements /\ S.op = "call" /\ Rest = From(todo, 1) /\ todo # <<>>
  BY Here, MarkFacts DEF Call
<1>2. S.to \in Methods
  BY <1>1, StatementFacts
<1>3. CASE StackFull(todo)
  BY <1>1, <1>2, <1>3 DEF Call
<1>4. CASE ~StackFull(todo)
  <2>1. todo' = (body[S.to] \o <<EndCall(S.to)>>) \o From(todo, 1)
    BY <1>1, <1>4 DEF Call, Continue
  <2>2. Called(S.to)
    BY <1>1, <1>2, <1>4, <2>1 DEF Called, StackFull
  <2> QED BY <1>1, <1>2, <1>4, <2>2 DEF Call, Continue
<1> QED BY <1>3, <1>4

LEMMA NextMoves ==
  ASSUME TodoOK, Next
  PROVE  Moved
<1>1. ASSUME NEW ops, At(ops), todo' = Rest PROVE Moved
  BY <1>1, DropMoves DEF Moved
<1>2. CASE Read
  BY <1>1, <1>2 DEF Read, Continue
<1>3. CASE Assign
  BY <1>1, <1>3 DEF Assign, Continue
<1>4. CASE External
  BY <1>1, <1>4 DEF External, Continue
<1>5. CASE ExternalFails
  BY <1>5, FailsMoves DEF ExternalFails
<1>6. CASE Revert
  BY <1>6, FailsMoves DEF Revert
<1>7. CASE Return
  BY <1>7, ReturnMoves DEF Moved
<1>8. CASE Call
  BY <1>8, CallMoves, FailsMoves DEF Moved
<1>9. CASE EndMark
  BY <1>1, <1>9 DEF EndMark, Continue
<1>10. CASE If
  BY <1>10, IfMoves DEF Moved
<1>11. CASE ElseTest
  BY <1>11, ElseMoves DEF Moved
<1>12. CASE While
  BY <1>12, WhileMoves DEF Moved
<1>13. CASE For
  BY <1>13, ForMoves DEF Moved
<1>14. CASE Match
  BY <1>14, MatchMoves DEF Moved
<1>15. CASE Try
  BY <1>15, TryMoves DEF Moved
<1>16. CASE FallOff
  BY <1>16 DEF FallOff, Moved
<1> QED BY <1>2, <1>3, <1>4, <1>5, <1>6, <1>7, <1>8, <1>9, <1>10, <1>11, <1>12, <1>13, <1>14, <1>15,
           <1>16 DEF Next
LEMMA MovedTodo ==
  ASSUME TodoOK, Moved
  PROVE  todo' \in Seq(Items) /\ Depth(todo') <= MaxCalls
<1>1. todo \in Seq(Items) /\ Depth(todo) <= MaxCalls /\ Depth(todo) \in Nat /\ MaxCalls \in Nat
  BY CallsAssumption, DepthType DEF TodoOK, TypeOK
<1>2. CASE todo' = <<>>
  BY <1>1, <1>2, DepthParts, EmptySeq
<1>3. ASSUME NEW h, NEW n, NEW p, Went(h, n, p)
      PROVE  todo' \in Seq(Items) /\ Depth(todo') <= MaxCalls
  <2>1. p \in Seq(Items) /\ n \in 0 .. Len(todo) /\ todo' = p \o From(todo, n)
    <3>1. h \in 1 .. Len(todo) /\ Len(todo) \in Nat
      BY <1>1, <1>3 DEF Went
    <3> QED BY <1>3, <3>1 DEF Went, Grown
  <2>2. From(todo, n) \in Seq(Items)
    BY <1>1, <2>1, FromFacts
  <2>3. Depth(todo') = Depth(p) + Depth(From(todo, n))
    BY <2>1, <2>2, DepthJoin
  <2>4. Depth(p) = 0
    <3>1. CallsIn(p) = {}
      BY <1>3 DEF CallsIn, Went, Grown
    <3> QED BY <2>1, <3>1, DepthType, FS_EmptySet
  <2>5. Depth(From(todo, n)) <= Depth(todo) /\ Depth(From(todo, n)) \in Nat
    BY <1>1, <2>1, <2>2, DepthParts, DepthType
  <2>6. todo' \in Seq(Items)
    BY <2>1, <2>2, ConcatProperties
  <2> QED BY <1>1, <2>3, <2>4, <2>5, <2>6
<1>4. ASSUME NEW m, Called(m)
      PROVE  todo' \in Seq(Items) /\ Depth(todo') <= MaxCalls
  <2> DEFINE b == body[m]
             e == <<EndCall(m)>>
  <2>1. m \in Methods /\ b \in Code
    BY <1>4, BodyFacts DEF Called, TodoOK
  <2>2. b \in Seq(Items) /\ e \in Seq(Items) /\ Depth(b) = 0 /\ Depth(e) = 1
    BY <2>1, CodeItems, NewMarks, DepthParts
  <2>3. 1 \in 0 .. Len(todo)
    BY <1>1, <1>4, EmptySeq DEF Called
  <2>4. From(todo, 1) \in Seq(Items) /\ Depth(From(todo, 1)) <= Depth(todo)
    BY <1>1, <2>3, FromFacts, DepthParts
  <2>5. todo' = (b \o e) \o From(todo, 1) /\ Depth(todo) # MaxCalls
    BY <1>4 DEF Called
  <2> HIDE DEF b, e
  <2>6. b \o e \in Seq(Items) /\ Depth(b \o e) = 1
    <3>1. b \o e \in Seq(Items)
      BY <2>2, ConcatProperties
    <3>2. Depth(b \o e) = Depth(b) + Depth(e)
      BY <2>2, DepthJoin
    <3> QED BY <2>2, <3>1, <3>2
  <2>7. todo' \in Seq(Items) /\ Depth(todo') = 1 + Depth(From(todo, 1))
    <3> DEFINE q == b \o e
    <3>1. q \in Seq(Items) /\ Depth(q) = 1 /\ todo' = q \o From(todo, 1)
      BY <2>5, <2>6
    <3> HIDE DEF q
    <3>2. Depth(todo') = Depth(q) + Depth(From(todo, 1))
      BY <2>4, <3>1, DepthJoin
    <3> QED BY <2>4, <3>1, <3>2, ConcatProperties
  <2>8. Depth(From(todo, 1)) \in Nat
    BY <2>4, DepthType
  <2> QED BY <1>1, <2>4, <2>5, <2>7, <2>8
<1> QED BY <1>2, <1>3, <1>4 DEF Moved

Effects == {Pure, View, NonPayable}

LEMMA HavingType ==
  ASSUME TypeOK, NEW x \in Effects
  PROVE  /\ Having(x) \in [effect : Effects, out : BOOLEAN]
         /\ Having(x).out = did.out
         /\ Having(x).effect = IF x > did.effect THEN x ELSE did.effect
BY DEF TypeOK, Having, Effects

LEMMA NextRest ==
  ASSUME TodoOK, Next
  PROVE  /\ UNCHANGED program
         /\ store' \in Store
         /\ did' \in [effect : Effects, out : BOOLEAN]
         /\ how' \in {"running", "returned", "fell", "reverted"}
         /\ how' # "running" => todo' = <<>>
<1> DEFINE P == /\ UNCHANGED program /\ store' \in Store
                /\ how' \in {"running", "returned", "fell", "reverted"}
                /\ how' # "running" => todo' = <<>>
           D == did' \in [effect : Effects, out : BOOLEAN]
<1>1. /\ store \in Store /\ did \in [effect : Effects, out : BOOLEAN]
      /\ \A ops : At(ops) => how = "running" /\ S \in Items /\ S.op \in ops
      /\ TypeOK
  BY Here DEF TodoOK, TypeOK, Effects
<1>2. \A x \in Effects : Having(x) \in [effect : Effects, out : BOOLEAN]
  BY <1>1, HavingType
<1>3. \A s : CondEffect(s) \in Effects
  BY DEF CondEffect, Effects
<1>4. \A out \in BOOLEAN : [effect |-> NonPayable, out |-> out] \in [effect : Effects, out : BOOLEAN]
  BY DEF Effects
<1>5. ASSUME Fails, how = "running" PROVE P
  <2>1. ASSUME NEW i \in DOMAIN todo, todo[i].op = "end_try" PROVE todo[i].snap \in Store
    <3>1. todo[i] \in Items
      BY DEF TodoOK
    <3> QED BY <2>1, <3>1, MarkFacts
  <2> QED BY <1>1, <1>5, <2>1, FailsFacts
<1>6. CASE Read
  BY <1>1, <1>2, <1>6 DEF Read, Continue, Effects
<1>7. CASE Assign
  <2>1. D /\ how' = how /\ how = "running" /\ UNCHANGED program
    BY <1>1, <1>2, <1>7 DEF Assign, Continue, Effects
  <2>2. S \in Statements /\ S.op \in {"set", "const"}
    BY <1>1, <1>7, MarkFacts DEF Assign
  <2>3. S.op = "set" => S.to \in Bit
    BY <2>2, StatementFacts
  <2>4. store' \in Store
    BY <1>1, <1>7, <2>2, <2>3, StoreFacts DEF Assign
  <2> QED BY <2>1, <2>4
<1>8. CASE External
  BY <1>1, <1>4, <1>8 DEF External, Continue
<1>9. CASE ExternalFails
  BY <1>1, <1>4, <1>5, <1>9 DEF ExternalFails
<1>10. CASE Revert
  BY <1>1, <1>5, <1>10 DEF Revert
<1>11. CASE Return
  <2>1. how = "running"
    BY <1>1, <1>11 DEF Return
  <2> QED BY <1>1, <1>11, <2>1, ReturnMoves
<1>12. CASE Call
  <2>1. how = "running"
    BY <1>1, <1>12 DEF Call
  <2>2. D
    BY <1>1, <1>12 DEF Call
  <2>3. CASE StackFull(todo) /\ Fails
    BY <1>5, <2>1, <2>2, <2>3
  <2>4. CASE store' = store /\ how' = how /\ UNCHANGED program
    BY <1>1, <2>1, <2>2, <2>4
  <2> QED BY <1>12, <2>3, <2>4, CallMoves
<1>13. CASE EndMark
  BY <1>1, <1>13 DEF EndMark, Continue
<1>14. CASE If
  BY <1>1, <1>2, <1>3, <1>14 DEF If, Continue
<1>15. CASE ElseTest
  BY <1>1, <1>15 DEF ElseTest, Continue
<1>16. CASE While
  BY <1>1, <1>2, <1>3, <1>16 DEF While, Continue
<1>17. CASE For
  BY <1>1, <1>17 DEF For, Continue
<1>18. CASE Match
  BY <1>1, <1>18 DEF Match, Continue
<1>19. CASE Try
  BY <1>1, <1>2, <1>19 DEF Try, Continue, Effects
<1>20. CASE FallOff
  BY <1>1, <1>20 DEF FallOff, program
<1> QED BY <1>6, <1>7, <1>8, <1>9, <1>10, <1>11, <1>12, <1>13, <1>14, <1>15, <1>16, <1>17, <1>18, <1>19,
           <1>20 DEF Next

LEMMA InitTodo == Init => TodoOK
<1> SUFFICES ASSUME Init PROVE TodoOK
  OBVIOUS
<1>1. BodiesOK
  BY DEF Init, BodiesOK
<1>2. todo \in Code /\ todo \in Seq(Items) /\ Depth(todo) = 0
  <2>1. body.f \in Code
    BY <1>1, BodyFacts DEF Methods
  <2> QED BY <2>1, CodeItems, DepthParts DEF Init
<1>3. store \in Store /\ did \in [effect : Effects, out : BOOLEAN] /\ how = "running"
  BY StoreFacts DEF Init, Effects
<1> QED BY <1>1, <1>2, <1>3, CallsAssumption DEF TodoOK, TypeOK, Effects

LEMMA NextTodo == TodoOK /\ [Next]_vars => TodoOK'
<1> SUFFICES ASSUME TodoOK, [Next]_vars PROVE TodoOK'
  OBVIOUS
<1>1. CASE Next
  <2>1. UNCHANGED program
    BY <1>1, NextRest
  <2>2. BodiesOK'
    BY <2>1 DEF TodoOK, BodiesOK, program, Accepted, InTry, Holds, CheckReturns, DefinitelyAssigns, CallStatements,
                  Overrides, JudgedAsRun, EffectOf, CallsOutOf
  <2>3. todo' \in Seq(Items) /\ Depth(todo') <= MaxCalls
    BY <1>1, NextMoves, MovedTodo
  <2> QED BY <1>1, <2>2, <2>3, NextRest DEF TodoOK, TypeOK, Effects
<1>2. CASE UNCHANGED vars
  BY <1>2 DEF vars, program, TodoOK, BodiesOK, TypeOK, Accepted, InTry, Holds, CheckReturns,
              DefinitelyAssigns, CallStatements, Overrides, JudgedAsRun, EffectOf, CallsOutOf, Depth
<1> QED BY <1>1, <1>2

(* Every variable always has the values the code gives it, and internal calls    *)
(* stay within the stack, whatever the bodies are and however deeply nested.     *)
THEOREM TypeCorrect == Spec => []TypeOK
<1>1. TodoOK => TypeOK
  BY DEF TodoOK
<1> QED BY <1>1, InitTodo, NextTodo, PTL DEF Spec
-----------------------------------------------------------------------------
(* What the compiler decides of the methods is stable: another round of the     *)
(* analysis finds nothing more.                                              *)

LEMMA EffectOrder ==
  /\ Effects = {0, 1, 2} /\ Pure = 0 /\ View = 1 /\ NonPayable = 2
BY DEF Effects, Pure, View, NonPayable

LEMMA StatementEffectFacts ==
  ASSUME NEW s \in Statements, NEW k \in [Methods -> Effects]
  PROVE  /\ StatementEffect(s, k) \in Effects
         /\ \A l \in [Methods -> Effects] :
              (\A m \in Methods : k[m] <= l[m]) => StatementEffect(s, k) <= StatementEffect(s, l)
<1>1. CASE s.op = "call"
  <2>1. JudgedAs(s) \in Methods
    BY <1>1, StatementFacts DEF JudgedAs, Methods
  <2>2. \A l : StatementEffect(s, l) = CallEffect(s, l)
    BY <1>1 DEF StatementEffect
  <2>3. ASSUME NEW l \in [Methods -> Effects], \A m \in Methods : k[m] <= l[m]
        PROVE  CallEffect(s, k) <= CallEffect(s, l)
    BY <2>1, <2>3, EffectOrder DEF CallEffect
  <2>4. CallEffect(s, k) \in Effects
    BY <2>1, EffectOrder DEF CallEffect
  <2> QED BY <2>2, <2>3, <2>4
<1>2. CASE s.op # "call"
  <2>1. \A l : StatementEffect(s, k) = StatementEffect(s, l)
    BY <1>2 DEF StatementEffect
  <2>2. StatementEffect(s, k) \in Effects
    BY <1>2 DEF StatementEffect, CondEffect, Effects
  <2>3. StatementEffect(s, k) <= StatementEffect(s, k)
    BY <2>2, EffectOrder
  <2> QED BY <2>1, <2>2, <2>3
<1> QED BY <1>1, <1>2

LEMMA StmtsEffectFacts ==
  ASSUME NEW b \in Code, NEW k \in [Methods -> Effects]
  PROVE  /\ StmtsEffect(b, k) \in Effects
         /\ \A s \in Inside[b] : StatementEffect(s, k) <= StmtsEffect(b, k)
         /\ \/ StmtsEffect(b, k) = Pure
            \/ \E s \in Inside[b] : StmtsEffect(b, k) = StatementEffect(s, k)
<1> DEFINE X == {Pure} \cup {StatementEffect(s, k) : s \in Inside[b]}
<1>1. Inside[b] \subseteq Statements
  BY InsideAssumption
<1>2. X \subseteq Effects /\ Pure \in X
  BY <1>1, StatementEffectFacts DEF Effects
<1>3. \E e \in X : \A d \in X : d <= e
  <2> HIDE DEF X
  <2>1. CASE 2 \in X
    BY <1>2, <2>1, EffectOrder
  <2>2. CASE 2 \notin X /\ 1 \in X
    BY <1>2, <2>2, EffectOrder
  <2>3. CASE 2 \notin X /\ 1 \notin X
    BY <1>2, <2>3, EffectOrder
  <2> QED BY <2>1, <2>2, <2>3
<1>4. StmtsEffect(b, k) = CHOOSE e \in X : \A d \in X : d <= e
  BY DEF StmtsEffect
<1>5. StmtsEffect(b, k) \in X /\ \A d \in X : d <= StmtsEffect(b, k)
  <2> HIDE DEF X
  <2> QED BY <1>3, <1>4
<1> QED BY <1>2, <1>5

LEMMA RoundFacts ==
  ASSUME NEW bodies, \A m \in Methods : bodies[m] \in Code, NEW k \in [Methods -> Effects]
  PROVE  /\ EffectRound(bodies, k) \in [Methods -> Effects]
         /\ \A l \in [Methods -> Effects] :
              (\A m \in Methods : k[m] <= l[m]) =>
                \A m \in Methods : EffectRound(bodies, k)[m] <= EffectRound(bodies, l)[m]
<1>1. EffectRound(bodies, k) \in [Methods -> Effects]
  BY StmtsEffectFacts DEF EffectRound
<1>2. ASSUME NEW l \in [Methods -> Effects], \A m \in Methods : k[m] <= l[m], NEW m \in Methods
      PROVE  EffectRound(bodies, k)[m] <= EffectRound(bodies, l)[m]
  <2> DEFINE b == bodies[m]
  <2>1. b \in Code
    OBVIOUS
  <2>2. /\ EffectRound(bodies, k)[m] = StmtsEffect(b, k)
        /\ EffectRound(bodies, l)[m] = StmtsEffect(b, l)
    BY DEF EffectRound
  <2> HIDE DEF b
  <2>3. StmtsEffect(b, k) \in Effects /\ StmtsEffect(b, l) \in Effects
    BY <2>1, StmtsEffectFacts
  <2>4. CASE StmtsEffect(b, k) = Pure
    BY <2>2, <2>3, <2>4, EffectOrder
  <2>5. ASSUME NEW s \in Inside[b], StmtsEffect(b, k) = StatementEffect(s, k)
        PROVE  StmtsEffect(b, k) <= StmtsEffect(b, l)
    <3>1. s \in Statements
      BY <2>1, InsideAssumption
    <3>2. StatementEffect(s, k) <= StatementEffect(s, l) /\ StatementEffect(s, l) \in Effects
      BY <1>2, <3>1, StatementEffectFacts
    <3>3. StatementEffect(s, l) <= StmtsEffect(b, l)
      BY <2>1, StmtsEffectFacts
    <3> QED BY <2>3, <2>5, <3>2, <3>3, EffectOrder
  <2>6. \/ StmtsEffect(b, k) = Pure
        \/ \E s \in Inside[b] : StmtsEffect(b, k) = StatementEffect(s, k)
    BY <2>1, StmtsEffectFacts
  <2> QED BY <2>2, <2>4, <2>5, <2>6
<1> QED BY <1>1, <1>2

(* Each round finds at least what the one before found, and two methods with     *)
(* two steps up each have settled after four.                                 *)
LEMMA EffectOfStable ==
  ASSUME NEW bodies, \A m \in Methods : bodies[m] \in Code
  PROVE  /\ EffectOf(bodies) \in [Methods -> Effects]
         /\ \A m \in Methods : EffectOf(bodies)[m] = StmtsEffect(bodies[m], EffectOf(bodies))
<1> DEFINE R(k) == EffectRound(bodies, k)
           k0 == NoEffects
           k1 == R(k0)
           k2 == R(k1)
           k3 == R(k2)
           k4 == R(k3)
           k5 == R(k4)
<1>1. \A k \in [Methods -> Effects] : R(k) \in [Methods -> Effects]
  BY RoundFacts
<1>2. \A k, l \in [Methods -> Effects] :
        (\A m \in Methods : k[m] <= l[m]) => \A m \in Methods : R(k)[m] <= R(l)[m]
  BY RoundFacts
<1>3. EffectOf(bodies) = k4
  BY DEF EffectOf
<1>4. k5 = [m \in Methods |-> StmtsEffect(bodies[m], k4)]
  BY DEF EffectRound
<1>5. k0 \in [Methods -> Effects] /\ \A m \in Methods : k0[m] = 0
  BY EffectOrder DEF NoEffects
<1> HIDE DEF R
<1>6. /\ k0 \in [Methods -> Effects] /\ k1 \in [Methods -> Effects] /\ k2 \in [Methods -> Effects]
      /\ k3 \in [Methods -> Effects] /\ k4 \in [Methods -> Effects] /\ k5 \in [Methods -> Effects]
  BY <1>1, <1>5
<1>7. \A m \in Methods : k0[m] <= k1[m]
  BY <1>5, <1>6, EffectOrder
<1>8. /\ \A m \in Methods : k1[m] <= k2[m]
      /\ \A m \in Methods : k2[m] <= k3[m]
      /\ \A m \in Methods : k3[m] <= k4[m]
      /\ \A m \in Methods : k4[m] <= k5[m]
  <2>1. \A m \in Methods : k1[m] <= k2[m]
    BY <1>2, <1>6, <1>7
  <2>2. \A m \in Methods : k2[m] <= k3[m]
    BY <1>2, <1>6, <2>1
  <2>3. \A m \in Methods : k3[m] <= k4[m]
    BY <1>2, <1>6, <2>2
  <2>4. \A m \in Methods : k4[m] <= k5[m]
    BY <1>2, <1>6, <2>3
  <2> QED BY <2>1, <2>2, <2>3, <2>4
<1>9. /\ k0 = k1 => k1 = k2
      /\ k1 = k2 => k2 = k3
      /\ k2 = k3 => k3 = k4
      /\ k3 = k4 => k4 = k5
  OBVIOUS
<1> DEFINE sum(k) == k["f"] + k["g"]
<1>10. ASSUME NEW k \in [Methods -> Effects], NEW l \in [Methods -> Effects],
              \A m \in Methods : k[m] <= l[m], k # l
       PROVE  sum(k) < sum(l)
  <2>1. /\ k["f"] \in Effects /\ k["g"] \in Effects /\ l["f"] \in Effects /\ l["g"] \in Effects
        /\ k["f"] <= l["f"] /\ k["g"] <= l["g"]
    BY <1>10 DEF Methods
  <2>2. k["f"] # l["f"] \/ k["g"] # l["g"]
    BY <1>10 DEF Methods
  <2> QED BY <2>1, <2>2, EffectOrder
<1>11. \A k \in [Methods -> Effects] : sum(k) \in 0 .. 4
  BY EffectOrder DEF Methods
<1> HIDE DEF k0, k1, k2, k3, k4, k5, sum
<1>12. k4 = k5
  <2> SUFFICES ASSUME k4 # k5 PROVE FALSE
    OBVIOUS
  <2>1. k0 # k1 /\ k1 # k2 /\ k2 # k3 /\ k3 # k4
    BY <1>9
  <2>2. sum(k0) < sum(k1) /\ sum(k1) < sum(k2) /\ sum(k2) < sum(k3) /\ sum(k3) < sum(k4) /\ sum(k4) < sum(k5)
    BY <1>6, <1>7, <1>8, <1>10, <2>1
  <2>3. /\ sum(k0) \in 0 .. 4 /\ sum(k1) \in 0 .. 4 /\ sum(k2) \in 0 .. 4
        /\ sum(k3) \in 0 .. 4 /\ sum(k4) \in 0 .. 4 /\ sum(k5) \in 0 .. 4
    BY <1>6, <1>11
  <2> QED BY <2>2, <2>3
<1>13. \A m \in Methods : k4[m] = StmtsEffect(bodies[m], k4)
  BY <1>4, <1>12
<1> QED BY <1>3, <1>6, <1>13

LEMMA CallsOutStable ==
  ASSUME NEW bodies, NEW m \in Methods, StmtsCallOut(bodies[m], CallsOutOf(bodies))
  PROVE  m \in CallsOutOf(bodies)
<1> DEFINE R(k) == CallsOutRound(bodies, k)
           k1 == R({})
           k2 == R(k1)
           k3 == R(k2)
           k4 == R(k3)
           k5 == R(k4)
<1>1. \A k : k \subseteq Methods => k \subseteq R(k) /\ R(k) \subseteq Methods
  BY DEF CallsOutRound
<1>2. CallsOutOf(bodies) = k4
  BY DEF CallsOutOf
<1>3. m \in k5
  BY <1>2 DEF CallsOutRound
<1> HIDE DEF R
<1>4. {} \subseteq k1 /\ k1 \subseteq k2 /\ k2 \subseteq k3 /\ k3 \subseteq k4 /\ k4 \subseteq k5 /\ k5 \subseteq Methods
  BY <1>1
<1>5. /\ {} = k1 => k1 = k2
      /\ k1 = k2 => k2 = k3
      /\ k2 = k3 => k3 = k4
      /\ k3 = k4 => k4 = k5
  OBVIOUS
<1> HIDE DEF k1, k2, k3, k4, k5
<1>6. k4 = k5
  <2> SUFFICES ASSUME k4 # k5 PROVE FALSE
    OBVIOUS
  <2>1. {} # k1 /\ k1 # k2 /\ k2 # k3 /\ k3 # k4
    BY <1>5
  <2> QED BY <1>4, <2>1 DEF Methods
<1> QED BY <1>2, <1>3, <1>6

(* The only calls are self.m(), and no method has a name that is taken for       *)
(* something else where it is called.                                        *)
OwnNames(bodies) ==
  /\ \A m \in Methods : \A s \in CallStatements(bodies[m]) : s.as = "self"
  /\ \A m \in Methods : NameOf[m] \notin {"get", "push", "pay"}

(* Then every call is judged at least as what it runs: self.m() counts as        *)
(* writing whatever m does, and as calling out if m does.                     *)
THEOREM OwnCallsAreJudged ==
  ASSUME NEW bodies, \A m \in Methods : bodies[m] \in Code, OwnNames(bodies)
  PROVE  JudgedAsRun(bodies)
<1> DEFINE k == EffectOf(bodies)
           out == CallsOutOf(bodies)
<1>1. k \in [Methods -> Effects]
  BY EffectOfStable
<1> HIDE DEF k, out
<1>2. ASSUME NEW m \in Methods, NEW s \in Inside[bodies[m]], s.op = "call"
      PROVE  k[s.to] <= StatementEffect(s, k) /\ (s.to \in out => JudgedOut(s, out))
  <2>1. s \in Statements
    BY InsideAssumption
  <2>2. s.to \in Methods /\ s.as = "self"
    BY <1>2, <2>1, StatementFacts DEF OwnNames, CallStatements
  <2>3. JudgedAs(s) = s.to /\ NameOf[s.to] \notin {"get", "push"}
    BY <2>2 DEF JudgedAs, OwnNames
  <2>4. StatementEffect(s, k) = NonPayable
    BY <1>2, <2>2, <2>3 DEF StatementEffect, CallEffect
  <2>5. k[s.to] <= NonPayable
    BY <1>1, <2>2, EffectOrder
  <2>6. s.to \in out => JudgedOut(s, out)
    BY <1>2, <2>2, <2>3 DEF JudgedOut, CallJudgedOut
  <2> QED BY <2>4, <2>5, <2>6
<1>3. ASSUME NEW m \in Methods, NEW s \in Inside[bodies[m]], s.op = "pay"
      PROVE  JudgedOut(s, out)
  BY <1>3 DEF JudgedOut, OwnNames
<1> QED BY <1>2, <1>3 DEF JudgedAsRun, k, out
-----------------------------------------------------------------------------
(* Where the items come from.                                                *)

(* The verdict on f includes the one on m, if calls are judged as what they run. *)
Counted(m) ==
  JudgedAsRun(body) =>
    /\ EffectOf(body)[m] <= EffectOf(body).f
    /\ m \in CallsOutOf(body) => "f" \in CallsOutOf(body)

FromMethods ==
  \A i \in DOMAIN todo : \E m \in Methods : Counted(m) /\ Contents(todo[i]) \subseteq Inside[body[m]]

(* What f itself has left, after the last end of a call, is from its own body.    *)
OwnCode ==
  \A i \in DOMAIN todo :
    (\A j \in DOMAIN todo : j >= i => todo[j].op # "end_call") => Contents(todo[i]) \subseteq Inside[body.f]

LEMMA WentFacts ==
  ASSUME TodoOK, NEW h, NEW n, NEW p, Went(h, n, p)
  PROVE  /\ h \in 1 .. Len(todo) /\ n \in 0 .. Len(todo) /\ n \in {h - 1, h}
         /\ Len(todo) \in Nat /\ Len(p) \in Nat /\ p \in Seq(Items)
         /\ Len(todo') = Len(p) + Len(todo) - n /\ DOMAIN todo' = 1 .. Len(p) + Len(todo) - n
         /\ \A i \in 1 .. Len(p) : /\ todo'[i] = p[i] /\ p[i].op # "end_call"
                                   /\ Contents(p[i]) \subseteq Contents(todo[h])
         /\ \A i \in Len(p) + 1 .. Len(p) + Len(todo) - n : todo'[i] = todo[i - Len(p) + n]
<1>1. todo \in Seq(Items) /\ Len(todo) \in Nat /\ h \in 1 .. Len(todo)
  BY DEF Went, TodoOK
<1>2. n \in 0 .. Len(todo) /\ n \in {h - 1, h}
  BY <1>1 DEF Went
<1>3. /\ p \in Seq(Items) /\ Len(p) \in Nat /\ DOMAIN p = 1 .. Len(p)
      /\ \A i \in DOMAIN p : p[i].op # "end_call" /\ Contents(p[i]) \subseteq Contents(todo[h])
  BY DEF Went, Grown
<1>4. todo' = p \o From(todo, n)
  BY DEF Went
<1>5. /\ todo' \in Seq(Items)
      /\ Len(todo') = Len(p) + Len(todo) - n
      /\ \A i \in 1 .. Len(p) : todo'[i] = p[i]
      /\ \A i \in Len(p) + 1 .. Len(p) + Len(todo) - n : todo'[i] = todo[i - Len(p) + n]
  BY <1>1, <1>2, <1>3, <1>4, JoinFacts
<1>6. DOMAIN todo' = 1 .. Len(p) + Len(todo) - n
  BY <1>5
<1> QED BY <1>1, <1>2, <1>3, <1>5, <1>6

LEMMA CalledFacts ==
  ASSUME TodoOK, NEW m, Called(m)
  PROVE  /\ m \in Methods /\ body[m] \in Code
         /\ Len(todo) \in Nat \ {0} /\ Len(body[m]) \in Nat
         /\ Len(todo') = Len(body[m]) + Len(todo) /\ DOMAIN todo' = 1 .. Len(body[m]) + Len(todo)
         /\ \A i \in 1 .. Len(body[m]) : todo'[i] = body[m][i] /\ body[m][i] \in Statements
         /\ todo'[Len(body[m]) + 1] = EndCall(m)
         /\ \A i \in Len(body[m]) + 2 .. Len(body[m]) + Len(todo) : todo'[i] = todo[i - Len(body[m])]
<1> DEFINE b == body[m]
           e == <<EndCall(m)>>
           q == b \o e
           k == Len(b)
<1>1. m \in Methods /\ b \in Code /\ todo \in Seq(Items) /\ todo # <<>>
  BY BodyFacts DEF Called, TodoOK
<1>2. b \in Seq(Items) /\ e \in Seq(Items) /\ Len(e) = 1 /\ e[1] = EndCall(m)
  BY <1>1, CodeItems, NewMarks
<1>3. Len(todo) \in Nat \ {0} /\ k \in Nat
  BY <1>1, <1>2, EmptySeq
<1>4. todo' = q \o From(todo, 1)
  BY DEF Called
<1>5. \A i \in 1 .. k : b[i] \in Statements
  BY <1>1, CodeFacts
<1> HIDE DEF b, e
<1>6. /\ q \in Seq(Items) /\ Len(q) = k + 1
      /\ \A i \in 1 .. k + 1 : q[i] = IF i <= k THEN b[i] ELSE e[i - k]
  <2>1. /\ q \in Seq(Items) /\ Len(q) = Len(b) + Len(e)
        /\ \A i \in 1 .. Len(b) + Len(e) : q[i] = IF i <= Len(b) THEN b[i] ELSE e[i - Len(b)]
    BY <1>2, ConcatProperties
  <2> HIDE DEF q
  <2> QED BY <1>2, <2>1
<1>7. /\ \A i \in 1 .. k : q[i] = b[i]
      /\ q[k + 1] = EndCall(m)
  <2>1. \A i \in 1 .. k : q[i] = b[i]
    BY <1>3, <1>6
  <2>2. k + 1 \in 1 .. k + 1 /\ ~(k + 1 <= k) /\ (k + 1) - k = 1
    BY <1>3
  <2>3. q[k + 1] = e[(k + 1) - k]
    BY <1>6, <2>2
  <2> QED BY <1>2, <2>1, <2>2, <2>3
<1> HIDE DEF q, k
<1>8. /\ Len(todo') = Len(q) + Len(todo) - 1
      /\ todo' \in Seq(Items)
      /\ \A i \in 1 .. Len(q) : todo'[i] = q[i]
      /\ \A i \in Len(q) + 1 .. Len(q) + Len(todo) - 1 : todo'[i] = todo[i - Len(q) + 1]
  <2>1. 1 \in 0 .. Len(todo)
    BY <1>3
  <2> QED BY <1>1, <1>4, <1>6, <2>1, JoinFacts
<1>9. Len(todo') = k + Len(todo) /\ DOMAIN todo' = 1 .. k + Len(todo)
  <2>1. Len(todo') = k + Len(todo)
    BY <1>3, <1>6, <1>8
  <2> QED BY <1>8, <2>1
<1>10. \A i \in 1 .. k : todo'[i] = b[i]
  BY <1>3, <1>6, <1>7, <1>8
<1>11. todo'[k + 1] = EndCall(m)
  BY <1>3, <1>6, <1>7, <1>8
<1>12. ASSUME NEW i \in k + 2 .. k + Len(todo) PROVE todo'[i] = todo[i - k]
  <2>1. i \in Len(q) + 1 .. Len(q) + Len(todo) - 1 /\ i - Len(q) + 1 = i - k
    BY <1>3, <1>6
  <2>2. todo'[i] = todo[i - Len(q) + 1]
    BY <1>8, <2>1
  <2> QED BY <2>1, <2>2
<1> QED BY <1>1, <1>3, <1>5, <1>9, <1>10, <1>11, <1>12 DEF b, k

(* What a statement of a method that counts does, counts.                       *)
LEMMA Judged ==
  ASSUME BodiesOK, NEW m \in Methods, Counted(m), NEW s \in Inside[body[m]]
  PROVE  /\ s \in Statements
         /\ StatementEffect(s, EffectOf(body)) \in Effects
         /\ JudgedAsRun(body) =>
              /\ StatementEffect(s, EffectOf(body)) <= EffectOf(body).f
              /\ s.op \in {"external", "pay", "try"} => "f" \in CallsOutOf(body)
         /\ s.op = "call" => s.to \in Methods /\ Counted(s.to)
<1> DEFINE k == EffectOf(body)
           b == body[m]
<1>1. \A n \in Methods : body[n] \in Code
  BY BodyFacts
<1>2. b \in Code
  BY <1>1
<1>3. s \in Statements
  BY <1>2, InsideAssumption
<1>4. k \in [Methods -> Effects] /\ k[m] = StmtsEffect(b, k)
  BY <1>1, EffectOfStable
<1>5. /\ k.f = k["f"] /\ k["f"] \in Effects /\ k[m] \in Effects
      /\ JudgedAsRun(body) => k[m] <= k["f"]
  BY <1>4 DEF Counted, Methods
<1> HIDE DEF k
<1>6. StatementEffect(s, k) <= k[m] /\ StatementEffect(s, k) \in Effects
  BY <1>2, <1>3, <1>4, StmtsEffectFacts, StatementEffectFacts
<1>7. JudgedAsRun(body) => StatementEffect(s, k) <= k.f
  BY <1>5, <1>6, EffectOrder
<1>8. JudgedAsRun(body) /\ JudgedOut(s, CallsOutOf(body)) => "f" \in CallsOutOf(body)
  BY CallsOutStable DEF Counted, StmtsCallOut
<1>9. JudgedAsRun(body) /\ s.op \in {"external", "pay", "try"} => JudgedOut(s, CallsOutOf(body))
  BY DEF JudgedAsRun, JudgedOut
<1>10. ASSUME s.op = "call" PROVE s.to \in Methods /\ Counted(s.to)
  <2>1. s.to \in Methods
    BY <1>3, <1>10, StatementFacts
  <2>2. JudgedAsRun(body) => /\ k[s.to] <= StatementEffect(s, k)
                             /\ s.to \in CallsOutOf(body) => JudgedOut(s, CallsOutOf(body))
    BY <1>10 DEF JudgedAsRun, k
  <2>3. ASSUME JudgedAsRun(body) PROVE k[s.to] <= k.f
    <3> DEFINE x == StatementEffect(s, k)
    <3>1. k[s.to] \in Effects
      BY <1>4, <2>1
    <3>2. x \in Effects /\ k.f \in Effects /\ k[s.to] <= x /\ x <= k.f
      BY <1>5, <1>6, <1>7, <2>2, <2>3
    <3> HIDE DEF x
    <3> QED BY <3>1, <3>2, EffectOrder
  <2>4. ASSUME JudgedAsRun(body), s.to \in CallsOutOf(body) PROVE "f" \in CallsOutOf(body)
    BY <1>8, <2>2, <2>4
  <2> QED BY <2>1, <2>3, <2>4 DEF Counted, k
<1> QED BY <1>3, <1>6, <1>7, <1>8, <1>9, <1>10 DEF k

LEMMA FromMethodsStep ==
  ASSUME TodoOK, FromMethods, Moved, UNCHANGED program
  PROVE  FromMethods'
<1>1. \A m \in Methods : Counted(m)' <=> Counted(m)
  BY DEF Counted, program, JudgedAsRun, EffectOf, CallsOutOf
<1>2. body' = body
  BY DEF program
<1> SUFFICES \A i \in DOMAIN todo' : \E m \in Methods :
                Counted(m) /\ Contents(todo'[i]) \subseteq Inside[body[m]]
  BY <1>1, <1>2 DEF FromMethods
<1>3. CASE todo' = <<>>
  BY <1>3
<1>4. ASSUME NEW h, NEW n, NEW p, Went(h, n, p), NEW i \in DOMAIN todo'
      PROVE  \E m \in Methods : Counted(m) /\ Contents(todo'[i]) \subseteq Inside[body[m]]
  <2>1. /\ h \in DOMAIN todo /\ DOMAIN todo = 1 .. Len(todo)
        /\ n \in 0 .. Len(todo) /\ Len(todo) \in Nat /\ Len(p) \in Nat
        /\ i \in 1 .. Len(p) + Len(todo) - n
    BY <1>4, WentFacts DEF TodoOK
  <2>2. CASE i <= Len(p)
    <3>0. i \in 1 .. Len(p)
      BY <2>1, <2>2
    <3>1. Contents(todo'[i]) \subseteq Contents(todo[h])
      BY <1>4, <3>0, WentFacts
    <3> QED BY <2>1, <3>1 DEF FromMethods
  <2>3. CASE ~(i <= Len(p))
    <3>1. i \in Len(p) + 1 .. Len(p) + Len(todo) - n /\ i - Len(p) + n \in DOMAIN todo
      BY <2>1, <2>3
    <3>2. todo'[i] = todo[i - Len(p) + n]
      BY <1>4, <3>1, WentFacts
    <3> QED BY <3>1, <3>2 DEF FromMethods
  <2> QED BY <2>2, <2>3
<1>5. ASSUME NEW t, Called(t), NEW i \in DOMAIN todo'
      PROVE  \E m \in Methods : Counted(m) /\ Contents(todo'[i]) \subseteq Inside[body[m]]
  <2> DEFINE k == Len(body[t])
  <2>1. /\ t \in Methods /\ body[t] \in Code /\ k \in Nat /\ Len(todo) \in Nat \ {0}
        /\ i \in 1 .. k + Len(todo) /\ DOMAIN todo = 1 .. Len(todo) /\ 1 \in DOMAIN todo
    BY <1>5, CalledFacts DEF TodoOK
  <2>2. PICK m \in Methods : Counted(m) /\ Contents(todo[1]) \subseteq Inside[body[m]]
    BY <2>1 DEF FromMethods
  <2>3. todo[1] \in Statements /\ todo[1].op = "call" /\ todo[1].to = t
    BY <1>5 DEF Called
  <2>4. todo[1] \in Inside[body[m]]
    BY <2>2, <2>3, ContentsFacts
  <2>5. Counted(t)
    BY <2>2, <2>3, <2>4, Judged DEF TodoOK
  <2>6. CASE i <= k
    <3>1. todo'[i] = body[t][i] /\ i \in DOMAIN body[t]
      BY <1>5, <2>1, <2>6, CalledFacts, CodeFacts
    <3> QED BY <2>1, <2>5, <3>1, ContentsFacts
  <2>7. CASE i = k + 1
    <3>0. todo'[i] = EndCall(t)
      BY <1>5, <2>7, CalledFacts
    <3>1. Contents(todo'[i]) = {}
      BY <3>0 DEF Contents, EndCall
    <3> QED BY <2>1, <2>5, <3>1
  <2>8. CASE i > k + 1
    <3>1. i \in k + 2 .. k + Len(todo) /\ i - k \in DOMAIN todo
      BY <2>1, <2>8
    <3>2. todo'[i] = todo[i - k]
      BY <1>5, <3>1, CalledFacts
    <3> QED BY <3>1, <3>2 DEF FromMethods
  <2>9. i <= k \/ i = k + 1 \/ i > k + 1
    BY <2>1
  <2> QED BY <2>6, <2>7, <2>8, <2>9
<1> QED BY <1>3, <1>4, <1>5 DEF Moved
-----------------------------------------------------------------------------
(* The verdicts.                                                            *)

Verdicts == MutabilityHonest /\ CallsOutHonest

LEMMA EffectOfF ==
  ASSUME BodiesOK
  PROVE  EffectOf(body).f \in Effects /\ EffectOf(body)["f"] = EffectOf(body).f /\ Counted("f")
<1>1. EffectOf(body) \in [Methods -> Effects]
  BY BodyFacts, EffectOfStable
<1>2. EffectOf(body).f \in Effects /\ EffectOf(body)["f"] = EffectOf(body).f
  BY <1>1 DEF Methods
<1> QED BY <1>2, EffectOrder DEF Counted

LEMMA HereJudged ==
  ASSUME MayMisjudge = FALSE,
         TodoOK, FromMethods, NEW ops, At(ops), S.op \notin {"end_call", "end_try", "else"}
  PROVE  /\ StatementEffect(S, EffectOf(body)) \in Effects
         /\ StatementEffect(S, EffectOf(body)) <= EffectOf(body).f
         /\ S.op \in {"external", "pay", "try"} => "f" \in CallsOutOf(body)
         /\ NoCreate => S.op # "create"
<1>1. 1 \in DOMAIN todo /\ S = todo[1] /\ S \in Statements
  BY Here, MarkFacts
<1>2. PICK m \in Methods : Counted(m) /\ Contents(todo[1]) \subseteq Inside[body[m]]
  BY <1>1 DEF FromMethods
<1>3. S \in Inside[body[m]]
  BY <1>1, <1>2, ContentsFacts
<1>4. ASSUME NoCreate PROVE S.op # "create"
  <2>1. body[m] \in Bodies \cup Helpers
    BY DEF TodoOK, BodiesOK, Methods
  <2> QED BY <1>3, <1>4, <2>1 DEF NoCreate, Holds
<1>5. JudgedAsRun(body)
  BY DEF TodoOK, BodiesOK
<1> QED BY <1>2, <1>3, <1>4, <1>5, Judged DEF TodoOK

LEMMA VerdictsStep ==
  ASSUME NoCreate, MayMisjudge = FALSE, TodoOK, FromMethods, Verdicts, Next
  PROVE  did'.effect <= EffectOf(body).f /\ (did'.out => "f" \in CallsOutOf(body))
<1> DEFINE Honest == did'.effect <= EffectOf(body).f /\ (did'.out => "f" \in CallsOutOf(body))
<1>1. did.effect <= EffectOf(body).f /\ (did.out => "f" \in CallsOutOf(body))
  BY DEF Verdicts, MutabilityHonest, CallsOutHonest
<1>2. did \in [effect : Effects, out : BOOLEAN] /\ TypeOK /\ BodiesOK
  BY DEF TodoOK, TypeOK, Effects
<1>3. EffectOf(body).f \in Effects
  BY <1>2, EffectOfF
<1>4. ASSUME NEW x \in Effects, x <= EffectOf(body).f, did' = Having(x) PROVE Honest
  BY <1>1, <1>2, <1>4, HavingType
<1>5. ASSUME NEW ops, At(ops), S.op \notin {"end_call", "end_try", "else"},
             did' = Having(StatementEffect(S, EffectOf(body)))
      PROVE  Honest
  BY <1>4, <1>5, HereJudged
<1>6. ASSUME At({"external", "pay", "create"}), did' = [effect |-> NonPayable, out |-> TRUE]
      PROVE  Honest
  <2>1. S.op \in {"external", "pay"} /\ "f" \in CallsOutOf(body)
    <3>1. S.op \in {"external", "pay", "create"}
      BY <1>6, Here
    <3> QED BY <1>6, <3>1, HereJudged
  <2>2. StatementEffect(S, EffectOf(body)) = NonPayable
    BY <2>1 DEF StatementEffect
  <2>3. NonPayable <= EffectOf(body).f
    BY <1>6, <2>1, <2>2, HereJudged
  <2> QED BY <1>6, <2>1, <2>3
<1>7. ASSUME NEW ops, At(ops) PROVE S.op \in ops
  BY <1>7 DEF At, S
<1>8. CASE did' = did
  BY <1>1, <1>8
<1>9. CASE Read
  <2>1. S.op = "read" /\ At({"read"}) /\ did' = Having(View)
    BY <1>7, <1>9 DEF Read
  <2>2. StatementEffect(S, EffectOf(body)) = View
    BY <2>1 DEF StatementEffect
  <2> QED BY <1>5, <2>1, <2>2
<1>10. CASE Assign
  <2>1. S.op \in {"set", "const"} /\ At({"set", "const"}) /\ did' = Having(NonPayable)
    BY <1>7, <1>10 DEF Assign
  <2>2. StatementEffect(S, EffectOf(body)) = NonPayable
    BY <2>1 DEF StatementEffect
  <2> QED BY <1>5, <2>1, <2>2
<1>11. CASE External \/ ExternalFails
  BY <1>6, <1>11 DEF External, ExternalFails
<1>12. CASE If
  <2>1. S.op = "if" /\ At({"if"}) /\ did' = Having(CondEffect(S))
    BY <1>7, <1>12 DEF If
  <2>2. StatementEffect(S, EffectOf(body)) = CondEffect(S)
    BY <2>1 DEF StatementEffect
  <2> QED BY <1>5, <2>1, <2>2
<1>13. CASE While
  <2>1. S.op = "while" /\ At({"while"}) /\ did' = Having(CondEffect(S))
    BY <1>7, <1>13 DEF While
  <2>2. StatementEffect(S, EffectOf(body)) = CondEffect(S)
    BY <2>1 DEF StatementEffect
  <2> QED BY <1>5, <2>1, <2>2
<1>14. CASE Try
  <2>1. S.op = "try" /\ At({"try"}) /\ did' = Having(NonPayable)
    BY <1>7, <1>14 DEF Try
  <2>2. StatementEffect(S, EffectOf(body)) = NonPayable
    BY <2>1 DEF StatementEffect
  <2> QED BY <1>5, <2>1, <2>2
<1>15. CASE Revert \/ Return \/ Call \/ EndMark \/ ElseTest \/ For \/ Match \/ FallOff
  BY <1>8, <1>15 DEF Revert, Return, Call, EndMark, ElseTest, For, Match, FallOff
<1>16. Honest
  BY <1>9, <1>10, <1>11, <1>12, <1>13, <1>14, <1>15 DEF Next
<1> QED BY <1>16

JudgeInv == TodoOK /\ FromMethods /\ Verdicts

LEMMA InitJudge == Init => JudgeInv
<1> SUFFICES ASSUME Init PROVE JudgeInv
  OBVIOUS
<1>1. TodoOK /\ BodiesOK
  BY InitTodo DEF TodoOK
<1>2. todo = body["f"] /\ body["f"] \in Code
  BY <1>1, BodyFacts DEF Init, Methods
<1>3. FromMethods
  <2>1. "f" \in Methods
    BY DEF Methods
  <2> QED BY <1>1, <1>2, <2>1, EffectOfF, ContentsFacts DEF FromMethods
<1>4. did = [effect |-> Pure, out |-> FALSE]
  BY DEF Init
<1>5. Verdicts
  BY <1>1, <1>4, EffectOfF, EffectOrder DEF Verdicts, MutabilityHonest, CallsOutHonest
<1> QED BY <1>1, <1>3, <1>5 DEF JudgeInv

LEMMA NextJudge ==
  ASSUME NoCreate, MayMisjudge = FALSE
  PROVE  JudgeInv /\ [Next]_vars => JudgeInv'
<1> SUFFICES ASSUME JudgeInv, [Next]_vars PROVE JudgeInv'
  OBVIOUS
<1>1. TodoOK /\ FromMethods /\ Verdicts
  BY DEF JudgeInv
<1>2. TodoOK'
  BY <1>1, NextTodo
<1>3. CASE Next
  <2>1. UNCHANGED program
    BY <1>1, <1>3, NextRest
  <2>2. FromMethods'
    BY <1>1, <1>3, <2>1, NextMoves, FromMethodsStep
  <2>3. body' = body
    BY <2>1 DEF program
  <2>4. did'.effect <= EffectOf(body).f /\ (did'.out => "f" \in CallsOutOf(body))
    BY <1>1, <1>3, VerdictsStep
  <2>5. Verdicts'
    BY <2>3, <2>4 DEF Verdicts, MutabilityHonest, CallsOutHonest, EffectOf, CallsOutOf
  <2> QED BY <1>2, <2>2, <2>5 DEF JudgeInv
<1>4. CASE UNCHANGED vars
  <2>1. body' = body /\ todo' = todo /\ did' = did
    BY <1>4 DEF vars
  <2>2. FromMethods'
    BY <1>1, <2>1 DEF FromMethods, Counted, JudgedAsRun, EffectOf, CallsOutOf
  <2>3. Verdicts'
    BY <1>1, <2>1 DEF Verdicts, MutabilityHonest, CallsOutHonest, EffectOf, CallsOutOf
  <2> QED BY <1>2, <2>2, <2>3 DEF JudgeInv
<1> QED BY <1>3, <1>4

(* A method the ABI calls view writes nothing and one it calls pure reads        *)
(* nothing, on any path, in a contract without Account.create whose calls are    *)
(* judged at least as what they run.                                         *)
THEOREM VerdictHolds ==
  ASSUME NoCreate, MayMisjudge = FALSE
  PROVE  Spec => []MutabilityHonest
<1>1. JudgeInv => MutabilityHonest
  BY DEF JudgeInv, Verdicts
<1> QED BY <1>1, InitJudge, NextJudge, PTL DEF Spec

(* A method that gets no guard because it is judged not to call out never hands   *)
(* control to another contract, in the same contracts.                        *)
THEOREM UnguardedStaysInside ==
  ASSUME NoCreate, MayMisjudge = FALSE
  PROVE  Spec => []CallsOutHonest
<1>1. JudgeInv => CallsOutHonest
  BY DEF JudgeInv, Verdicts
<1> QED BY <1>1, InitJudge, NextJudge, PTL DEF Spec
LEMMA OwnCodeStep ==
  ASSUME TodoOK, OwnCode, Moved, UNCHANGED program
  PROVE  OwnCode'
<1>1. body' = body /\ DOMAIN todo = 1 .. Len(todo) /\ Len(todo) \in Nat
  BY DEF program, TodoOK
<1> SUFFICES ASSUME NEW i \in DOMAIN todo', \A j \in DOMAIN todo' : j >= i => todo'[j].op # "end_call"
             PROVE  Contents(todo'[i]) \subseteq Inside[body.f]
  BY <1>1 DEF OwnCode
<1>2. CASE todo' = <<>>
  BY <1>2
<1>3. ASSUME NEW h, NEW n, NEW p, Went(h, n, p)
      PROVE  Contents(todo'[i]) \subseteq Inside[body.f]
  <2>1. /\ h \in 1 .. Len(todo) /\ n \in 0 .. Len(todo) /\ n \in {h - 1, h} /\ Len(p) \in Nat
        /\ DOMAIN todo' = 1 .. Len(p) + Len(todo) - n
    BY <1>3, WentFacts
  <2>2. \A i1 \in Len(p) + 1 .. Len(p) + Len(todo) - n : todo'[i1] = todo[i1 - Len(p) + n]
    BY <1>3, WentFacts
  <2>3. ASSUME NEW j \in n + 1 .. Len(todo), j - n + Len(p) >= i PROVE todo[j].op # "end_call"
    <3> DEFINE l == j - n + Len(p)
    <3>1. l \in Len(p) + 1 .. Len(p) + Len(todo) - n /\ l \in DOMAIN todo' /\ l - Len(p) + n = j /\ l >= i
      BY <1>1, <2>1, <2>3
    <3>2. todo'[l] = todo[l - Len(p) + n]
      BY <2>2, <3>1
    <3>3. todo'[l] = todo[j]
      BY <3>1, <3>2
    <3> HIDE DEF l
    <3> QED BY <3>1, <3>3
  <2>4. CASE i <= Len(p)
    <3>1. i \in 1 .. Len(p) /\ p # <<>>
      BY <2>1, <2>4
    <3>2. Contents(todo'[i]) \subseteq Contents(todo[h])
      BY <1>3, <3>1, WentFacts
    <3>3. todo[h].op # "end_call"
      BY <1>3, <3>1 DEF Went
    <3>4. ASSUME NEW j \in DOMAIN todo, j >= h PROVE todo[j].op # "end_call"
      <4>1. CASE j = h
        BY <3>3, <4>1
      <4>2. CASE j # h
        <5>1. j \in n + 1 .. Len(todo) /\ j - n + Len(p) >= i
          BY <1>1, <2>1, <2>4, <3>4, <4>2
        <5> QED BY <2>3, <5>1
      <4> QED BY <4>1, <4>2
    <3> QED BY <1>1, <2>1, <3>2, <3>4 DEF OwnCode
  <2>5. CASE ~(i <= Len(p))
    <3> DEFINE k == i - Len(p) + n
    <3>1. i \in Len(p) + 1 .. Len(p) + Len(todo) - n /\ k \in DOMAIN todo /\ k \in n + 1 .. Len(todo)
      BY <1>1, <2>1, <2>5
    <3>2. todo'[i] = todo[k]
      BY <2>2, <3>1
    <3>3. ASSUME NEW j \in DOMAIN todo, j >= k PROVE todo[j].op # "end_call"
      <4>1. j \in n + 1 .. Len(todo) /\ j - n + Len(p) >= i
        BY <1>1, <2>1, <3>1, <3>3
      <4> QED BY <2>3, <4>1
    <3> HIDE DEF k
    <3> QED BY <3>1, <3>2, <3>3 DEF OwnCode
  <2> QED BY <2>4, <2>5
<1>4. ASSUME NEW m, Called(m)
      PROVE  Contents(todo'[i]) \subseteq Inside[body.f]
  <2> DEFINE c == Len(body[m])
  <2>1. /\ c \in Nat /\ Len(todo) \in Nat \ {0} /\ DOMAIN todo' = 1 .. c + Len(todo)
        /\ todo'[c + 1] = EndCall(m)
        /\ \A i1 \in c + 2 .. c + Len(todo) : todo'[i1] = todo[i1 - c]
    BY <1>4, CalledFacts
  <2> HIDE DEF c
  <2>2. i \in c + 2 .. c + Len(todo)
    <3> SUFFICES ASSUME i <= c + 1 PROVE FALSE
      BY <2>1
    <3>1. c + 1 \in DOMAIN todo' /\ c + 1 >= i
      BY <2>1
    <3>2. todo'[c + 1].op # "end_call"
      BY <3>1
    <3> QED BY <2>1, <3>2 DEF EndCall
  <2> DEFINE k == i - c
  <2>3. k \in DOMAIN todo /\ todo'[i] = todo[k]
    BY <1>1, <2>1, <2>2
  <2>4. ASSUME NEW j \in DOMAIN todo, j >= k PROVE todo[j].op # "end_call"
    <3> DEFINE l == j + c
    <3>1. l \in c + 2 .. c + Len(todo) /\ l \in DOMAIN todo' /\ l >= i /\ l - c = j
      BY <1>1, <2>1, <2>2, <2>4
    <3>2. todo'[l] = todo[l - c]
      BY <2>1, <3>1
    <3>3. todo'[l] = todo[j]
      BY <3>1, <3>2
    <3> HIDE DEF l
    <3> QED BY <3>1, <3>3
  <2> HIDE DEF k
  <2> QED BY <2>3, <2>4 DEF OwnCode
<1> QED BY <1>2, <1>3, <1>4 DEF Moved

-----------------------------------------------------------------------------
(* Every path ends as it must.                                               *)

(* Blocks that end the method, or in a constructor assign the const field, on     *)
(* every path, and the statements that do.                                    *)
Sure(b, k) == Diverges[b] \/ (k = "new" /\ Assigns[b])
Good(s, k) ==
  \/ s.op \in {"return", "revert"}
  \/ k = "new" /\ s.op = "const"
  \/ s.op \in {"if", "match", "try"} /\ \A c \in Blocks(s) : Sure(c, k)

LEMMA SureGood ==
  ASSUME NEW k, NEW b \in Code, Sure(b, k)
  PROVE  \E i \in DOMAIN b : Good(b[i], k)
<1>1. CASE Diverges[b]
  BY <1>1, DivergesFacts DEF Good, Sure
<1>2. CASE k = "new" /\ Assigns[b]
  BY <1>2, AssignsFacts DEF Good, Sure
<1> QED BY <1>1, <1>2 DEF Sure

(* Each activation of f still to end, f's own and those that helpers called,      *)
(* has a good statement ahead.                                               *)
EndsF(t, e) == e = Len(t) + 1 \/ (t[e].op = "end_call" /\ t[e].of = "f")
GoodAhead(t, from, e, k) ==
  \E i \in from .. e - 1 : Good(t[i], k) /\ \A j \in i .. e - 1 : t[j].op # "end_call"
Fine(t, k) == \A e \in 1 .. Len(t) + 1 : EndsF(t, e) => GoodAhead(t, 1, e, k)

Plain(p) == \A i \in DOMAIN p : p[i].op # "end_call"

LEMMA FineJoin ==
  ASSUME NEW k, NEW t \in Seq(Items), NEW n \in 0 .. Len(t), NEW p \in Seq(Items), Plain(p),
         \A e \in n + 1 .. Len(t) + 1 : EndsF(t, e) =>
           \/ GoodAhead(t, n + 1, e, k)
           \/ /\ \A j \in n + 1 .. e - 1 : t[j].op # "end_call"
              /\ \E i \in DOMAIN p : Good(p[i], k)
  PROVE  Fine(p \o From(t, n), k)
<1> DEFINE u == p \o From(t, n)
           c == Len(p)
<1>1. /\ c \in Nat /\ Len(t) \in Nat /\ DOMAIN p = 1 .. c
      /\ Len(u) = c + Len(t) - n
      /\ \A i \in 1 .. c : u[i] = p[i]
      /\ \A i \in c + 1 .. c + Len(t) - n : u[i] = t[i - c + n]
  <2>1. Len(p) \in Nat /\ Len(t) \in Nat /\ DOMAIN p = 1 .. Len(p)
    OBVIOUS
  <2>2. Len(u) = c + Len(t) - n
    BY JoinFacts
  <2>3. \A i \in 1 .. c : u[i] = p[i]
    BY JoinFacts
  <2>4. \A i \in c + 1 .. c + Len(t) - n : u[i] = t[i - c + n]
    BY JoinFacts
  <2> QED BY <2>1, <2>2, <2>3, <2>4
<1> HIDE DEF u, c
<1> SUFFICES ASSUME NEW e \in 1 .. Len(u) + 1, EndsF(u, e) PROVE GoodAhead(u, 1, e, k)
  BY DEF Fine, u
<1>2. \A i \in 1 .. c : u[i].op # "end_call"
  BY <1>1 DEF Plain
<1>3. e > c
  <2>1. CASE e = Len(u) + 1
    BY <1>1, <2>1
  <2>2. CASE e # Len(u) + 1
    <3>1. u[e].op = "end_call"
      BY <2>2 DEF EndsF
    <3>2. ~(e \in 1 .. c)
      BY <1>2, <3>1
    <3>3. e \in Nat \ {0}
      BY <1>1
    <3> QED BY <1>1, <3>2, <3>3
  <2> QED BY <2>1, <2>2
<1> DEFINE d == e - c + n
<1>4. d \in n + 1 .. Len(t) + 1
  BY <1>1, <1>3
<1>5. EndsF(t, d)
  <2>1. CASE e = Len(u) + 1
    BY <1>1, <2>1 DEF EndsF
  <2>2. CASE e # Len(u) + 1
    <3>0. e \in Int /\ e <= Len(u) + 1 /\ Len(u) = c + Len(t) - n /\ n \in Nat
      BY <1>1
    <3>1. e \in c + 1 .. c + Len(t) - n
      BY <1>1, <1>3, <2>2, <3>0
    <3>2. u[e] = t[d]
      BY <1>1, <3>1
    <3> HIDE DEF d
    <3> QED BY <2>2, <3>2 DEF EndsF
  <2> QED BY <2>1, <2>2
<1>6. ASSUME NEW j \in n + 1 .. d - 1
      PROVE  /\ j - n + c \in c + 1 .. e - 1
             /\ u[j - n + c] = t[j]
  <2> DEFINE l == j - n + c
  <2>1. l \in c + 1 .. c + Len(t) - n /\ l - c + n = j /\ l \in c + 1 .. e - 1
    BY <1>1, <1>3, <1>4
  <2>2. u[l] = t[l - c + n]
    BY <1>1, <2>1
  <2>3. u[l] = t[j]
    BY <2>1, <2>2
  <2> QED BY <2>1, <2>3
<1>7. ASSUME NEW j \in c + 1 .. e - 1
      PROVE  /\ j - c + n \in n + 1 .. d - 1 /\ u[j] = t[j - c + n]
  BY <1>1, <1>3, <1>4
<1>8. \/ GoodAhead(t, n + 1, d, k)
      \/ /\ \A j \in n + 1 .. d - 1 : t[j].op # "end_call"
         /\ \E i \in DOMAIN p : Good(p[i], k)
  BY <1>4, <1>5
<1> HIDE DEF d
<1>9. CASE GoodAhead(t, n + 1, d, k)
  <2>1. PICK i \in n + 1 .. d - 1 : Good(t[i], k) /\ \A j \in i .. d - 1 : t[j].op # "end_call"
    BY <1>9 DEF GoodAhead
  <2> DEFINE l == i - n + c
  <2>2. l \in c + 1 .. e - 1 /\ u[l] = t[i]
    BY <1>6
  <2>3. ASSUME NEW j \in l .. e - 1 PROVE u[j].op # "end_call"
    <3>1. j \in c + 1 .. e - 1
      BY <1>1, <2>2
    <3>2. u[j] = t[j - c + n] /\ j - c + n \in n + 1 .. d - 1
      BY <1>7, <3>1
    <3>3. j - c + n \in i .. d - 1
      BY <1>1, <2>2, <3>1, <3>2
    <3> QED BY <2>1, <3>2, <3>3
  <2>4. l \in 1 .. e - 1
    BY <1>1, <2>2
  <2> HIDE DEF l
  <2> QED BY <2>1, <2>2, <2>3, <2>4 DEF GoodAhead
<1>10. CASE /\ \A j \in n + 1 .. d - 1 : t[j].op # "end_call"
            /\ \E i \in DOMAIN p : Good(p[i], k)
  <2>1. PICK i \in 1 .. c : Good(p[i], k)
    BY <1>1, <1>10
  <2>2. u[i] = p[i] /\ i \in 1 .. e - 1
    BY <1>1, <1>3
  <2>3. ASSUME NEW j \in i .. e - 1 PROVE u[j].op # "end_call"
    <3>1. CASE j <= c
      BY <1>1, <1>2, <3>1
    <3>2. CASE ~(j <= c)
      <4>1. j \in c + 1 .. e - 1
        BY <1>1, <3>2
      <4> QED BY <1>7, <1>10, <4>1
    <3> QED BY <3>1, <3>2
  <2> QED BY <2>1, <2>2, <2>3 DEF GoodAhead
<1> QED BY <1>8, <1>9, <1>10

(* The first item may be replaced by what is as good.                          *)
LEMMA FineStep ==
  ASSUME NEW k, NEW t \in Seq(Items), t # <<>>, Fine(t, k), NEW p \in Seq(Items), Plain(p),
         Good(t[1], k) => \E i \in DOMAIN p : Good(p[i], k)
  PROVE  Fine(p \o From(t, 1), k)
<1>1. Len(t) \in Nat \ {0}
  BY EmptySeq
<1>2. 1 \in 0 .. Len(t)
  BY <1>1
<1>3. ASSUME NEW e \in 1 + 1 .. Len(t) + 1, EndsF(t, e)
      PROVE  \/ GoodAhead(t, 1 + 1, e, k)
             \/ /\ \A j \in 1 + 1 .. e - 1 : t[j].op # "end_call"
                /\ \E i \in DOMAIN p : Good(p[i], k)
  <2>1. GoodAhead(t, 1, e, k)
    BY <1>1, <1>3 DEF Fine
  <2>2. PICK i \in 1 .. e - 1 : Good(t[i], k) /\ \A j \in i .. e - 1 : t[j].op # "end_call"
    BY <2>1 DEF GoodAhead
  <2>3. CASE i = 1
    BY <2>2, <2>3
  <2>4. CASE i # 1
    <3>1. i \in 1 + 1 .. e - 1
      BY <2>4
    <3> QED BY <2>2, <3>1 DEF GoodAhead
  <2> QED BY <2>3, <2>4
<1> QED BY <1>2, <1>3, FineJoin

LEMMA FineAfterCall ==
  ASSUME NEW k, NEW t \in Seq(Items), Fine(t, k), NEW h \in DOMAIN t, t[h].op = "end_call"
  PROVE  Fine(From(t, h), k)
<1>1. Len(t) \in Nat /\ h \in 1 .. Len(t) /\ h \in 0 .. Len(t)
  OBVIOUS
<1>2. ASSUME NEW e \in h + 1 .. Len(t) + 1, EndsF(t, e) PROVE GoodAhead(t, h + 1, e, k)
  <2>1. GoodAhead(t, 1, e, k)
    BY <1>1, <1>2 DEF Fine
  <2>2. PICK i \in 1 .. e - 1 : Good(t[i], k) /\ \A j \in i .. e - 1 : t[j].op # "end_call"
    BY <2>1 DEF GoodAhead
  <2>3. ~(h \in i .. e - 1)
    BY <2>2
  <2>4. i \in h + 1 .. e - 1
    BY <1>1, <2>3
  <2> QED BY <2>2, <2>4 DEF GoodAhead
<1>3. <<>> \in Seq(Items) /\ Plain(<<>>) /\ <<>> \o From(t, h) = From(t, h)
  BY <1>1, FromFacts, ConcatEmptySeq, EmptySeq DEF Plain
<1>4. Fine(<<>> \o From(t, h), k)
  BY <1>1, <1>2, <1>3, FineJoin
<1> QED BY <1>3, <1>4

(* A call puts the called body and its end before the rest.                    *)
LEMMA FineCalled ==
  ASSUME NEW k, NEW t \in Seq(Items), t # <<>>, Fine(t, k), t[1].op = "call",
         NEW m \in Methods, NEW b \in Code, m = "f" => \E i \in DOMAIN b : Good(b[i], k)
  PROVE  Fine((b \o <<EndCall(m)>>) \o From(t, 1), k)
<1> DEFINE x == <<EndCall(m)>>
           u == x \o From(t, 1)
<1>1. Len(t) \in Nat \ {0} /\ 1 \in 0 .. Len(t)
  BY EmptySeq
<1>2. b \in Seq(Items) /\ x \in Seq(Items) /\ Len(x) = 1 /\ x[1] = EndCall(m)
  BY CodeItems, NewMarks
<1>3. From(t, 1) \in Seq(Items)
  BY <1>1, FromFacts
<1>4. /\ u \in Seq(Items) /\ Len(u) = Len(t) /\ u[1] = EndCall(m)
      /\ \A i \in 2 .. Len(t) : u[i] = t[i]
  <2> HIDE DEF x
  <2>1. u \in Seq(Items) /\ Len(u) = Len(x) + Len(t) - 1
    <3>1. x \in Seq(Items) /\ 1 \in 0 .. Len(t)
      BY <1>1, <1>2
    <3> QED BY <3>1, JoinFacts
  <2>2. \A i \in 1 .. Len(x) : u[i] = x[i]
    BY <1>1, <1>2, JoinFacts
  <2>3. \A i \in Len(x) + 1 .. Len(x) + Len(t) - 1 : u[i] = t[i - Len(x) + 1]
    BY <1>1, <1>2, JoinFacts
  <2>4. ASSUME NEW i \in 2 .. Len(t) PROVE u[i] = t[i]
    <3>1. i \in Len(x) + 1 .. Len(x) + Len(t) - 1 /\ i - Len(x) + 1 = i
      BY <1>1, <1>2
    <3> HIDE DEF u
    <3> QED BY <2>3, <3>1
  <2> HIDE DEF u
  <2> QED BY <1>1, <1>2, <2>1, <2>2, <2>4
<1>5. (b \o x) \o From(t, 1) = b \o u
  <2> HIDE DEF x
  <2> QED BY <1>2, <1>3, ConcatAssociative
<1> HIDE DEF u, x
<1>6. Plain(b)
  BY CodeFacts, StatementFacts DEF Plain
<1>7. ASSUME NEW e \in 0 + 1 .. Len(u) + 1, EndsF(u, e)
      PROVE  \/ GoodAhead(u, 0 + 1, e, k)
             \/ /\ \A j \in 0 + 1 .. e - 1 : u[j].op # "end_call"
                /\ \E i \in DOMAIN b : Good(b[i], k)
  <2>0. e \in Nat \ {0} /\ e <= Len(t) + 1
    BY <1>4, <1>7
  <2>1. CASE e = 1
    <3>1. m = "f"
      BY <1>1, <1>4, <1>7, <2>1 DEF EndsF, EndCall
    <3>2. \A j \in 0 + 1 .. e - 1 : FALSE
      BY <2>1
    <3> QED BY <3>1, <3>2
  <2>2. CASE e # 1
    <3>1. EndsF(t, e)
      <4>1. CASE e = Len(t) + 1
        BY <4>1 DEF EndsF
      <4>2. CASE e # Len(t) + 1
        <5>1. e \in 2 .. Len(t)
          BY <1>1, <2>0, <2>2, <4>2
        <5>2. u[e] = t[e]
          BY <1>4, <5>1
        <5> QED BY <1>4, <1>7, <4>2, <5>2 DEF EndsF
      <4> QED BY <4>1, <4>2
    <3>2. GoodAhead(t, 1, e, k)
      BY <1>1, <2>0, <3>1 DEF Fine
    <3>3. PICK i \in 1 .. e - 1 : Good(t[i], k) /\ \A j \in i .. e - 1 : t[j].op # "end_call"
      BY <3>2 DEF GoodAhead
    <3>4. i # 1
      BY <3>3 DEF Good
    <3>5. \A j \in i .. e - 1 : u[j] = t[j]
      BY <1>1, <1>4, <2>0, <3>4
    <3>6. i \in 0 + 1 .. e - 1 /\ i \in i .. e - 1
      BY <3>3
    <3>7. GoodAhead(u, 0 + 1, e, k)
      BY <3>3, <3>5, <3>6 DEF GoodAhead
    <3> QED BY <3>7
  <2> QED BY <2>1, <2>2
<1>8. 0 \in 0 .. Len(u)
  BY <1>1, <1>4
<1>9. From(u, 0) = u
  BY <1>4, SubSeqFull DEF From
<1>10. Fine(b \o From(u, 0), k)
  BY <1>2, <1>4, <1>6, <1>7, <1>8, FineJoin
<1> QED BY <1>5, <1>9, <1>10 DEF x

LEMMA FromJoin ==
  ASSUME NEW p \in Seq(Items), NEW t \in Seq(Items), NEW n \in 0 .. Len(t),
         NEW k \in Len(p) .. Len(p) + Len(t) - n
  PROVE  From(p \o From(t, n), k) = From(t, k - Len(p) + n)
<1> DEFINE u == p \o From(t, n)
           c == Len(p)
           m == k - c + n
<1>1. c \in Nat /\ Len(t) \in Nat /\ n \in Nat /\ k \in Nat
  OBVIOUS
<1>2. u \in Seq(Items) /\ Len(u) = c + Len(t) - n
  BY JoinFacts
<1>3. \A i \in c + 1 .. c + Len(t) - n : u[i] = t[i - c + n]
  BY JoinFacts
<1> HIDE DEF u, c
<1>0. k \in c .. c + Len(t) - n
  BY DEF c
<1>4. k \in 0 .. Len(u) /\ m \in 0 .. Len(t) /\ Len(u) - k = Len(t) - m
  BY <1>0, <1>1, <1>2
<1>5. From(u, k) \in Seq(Items) /\ Len(From(u, k)) = Len(u) - k
  BY <1>2, <1>4, FromFacts
<1>6. \A i \in 1 .. Len(u) - k : From(u, k)[i] = u[i + k]
  BY <1>2, <1>4, FromFacts
<1>7. From(t, m) \in Seq(Items) /\ Len(From(t, m)) = Len(t) - m
  BY <1>4, FromFacts
<1>8. \A i \in 1 .. Len(t) - m : From(t, m)[i] = t[i + m]
  BY <1>4, FromFacts
<1>9. ASSUME NEW i \in 1 .. Len(u) - k PROVE From(u, k)[i] = From(t, m)[i]
  <2>1. i + k \in c + 1 .. c + Len(t) - n /\ (i + k) - c + n = i + m
    BY <1>0, <1>1, <1>2
  <2>2. u[i + k] = t[(i + k) - c + n]
    BY <1>3, <2>1
  <2>3. i \in 1 .. Len(t) - m
    BY <1>4
  <2> HIDE DEF m
  <2> QED BY <1>6, <1>8, <2>1, <2>2, <2>3
<1> HIDE DEF m
<1>10. From(u, k) = From(t, m)
  BY <1>4, <1>5, <1>7, <1>9, SeqEqual
<1> QED BY <1>10 DEF u, c, m

(* An if's second test is as good as the block it would run now.                *)
Ahead(t, st, in) ==
  IF t # <<>> /\ t[1].op = "else" /\ ~True(t[1].cond, in, st) THEN t[1].body \o From(t, 1) ELSE t

LEMMA FineAhead ==
  ASSUME NEW k, NEW t \in Seq(Items), Fine(t, k), NEW st, NEW in
  PROVE  Fine(Ahead(t, st, in), k)
<1>1. CASE t # <<>> /\ t[1].op = "else" /\ ~True(t[1].cond, in, st)
  <2>1. t[1] \in Items
    BY <1>1, EmptySeq
  <2>2. t[1].body \in Code
    BY <1>1, <2>1, MarkFacts
  <2>3. t[1].body \in Seq(Items) /\ Plain(t[1].body)
    BY <2>2, CodeItems, CodeFacts, StatementFacts DEF Plain
  <2>4. ~Good(t[1], k)
    BY <1>1 DEF Good
  <2>5. Fine(t[1].body \o From(t, 1), k)
    BY <1>1, <2>3, <2>4, FineStep
  <2> QED BY <1>1, <2>5 DEF Ahead
<1>2. CASE ~(t # <<>> /\ t[1].op = "else" /\ ~True(t[1].cond, in, st))
  BY <1>2 DEF Ahead
<1> QED BY <1>1, <1>2

(* The const field is assigned, or will be; so too when a frame reverts.         *)
Done(st) == kind = "new" /\ st.assigned
OnTheWay == Done(store) \/ Fine(Ahead(todo, store, input), kind)
AfterFrames ==
  \A k \in DOMAIN todo : todo[k].op = "end_try" =>
    Done(todo[k].snap) \/ Fine(todo[k].catch \o From(todo, k), kind)
Flow == kind # "fn" /\ how = "running" => OnTheWay /\ AfterFrames

LEMMA NextFlow ==
  ASSUME UNCHANGED program
  PROVE  /\ OnTheWay' <=> Done(store') \/ Fine(Ahead(todo', store', input), kind)
         /\ AfterFrames' <=>
              \A k \in DOMAIN todo' : todo'[k].op = "end_try" =>
                Done(todo'[k].snap) \/ Fine(todo'[k].catch \o From(todo', k), kind)
<1>1. kind' = kind /\ input' = input
  BY DEF program
<1>2. OnTheWay' <=> Done(store') \/ Fine(Ahead(todo', store', input'), kind')
  BY <1>1 DEF OnTheWay, Done, Ahead, Fine, EndsF, GoodAhead, Good, Sure, Blocks, From, True
<1>3. AfterFrames' <=>
        \A k \in DOMAIN todo' : todo'[k].op = "end_try" =>
          Done(todo'[k].snap) \/ Fine(todo'[k].catch \o From(todo', k), kind')
  BY <1>1 DEF AfterFrames, Done, Fine, EndsF, GoodAhead, Good, Sure, Blocks, From
<1> QED BY <1>1, <1>2, <1>3

LEMMA SureBody ==
  ASSUME BodiesOK, kind # "fn"
  PROVE  \E i \in DOMAIN body["f"] : Good(body["f"][i], kind)
<1>1. body["f"] \in Code
  BY BodyFacts DEF Methods
<1>2. Sure(body["f"], kind)
  BY DEF BodiesOK, Accepted, CheckReturns, DefinitelyAssigns, Sure
<1> QED BY <1>1, <1>2, SureGood

(* Frames that were open stay as they were.                                    *)
LEMMA FramesKept ==
  ASSUME TodoOK, AfterFrames, UNCHANGED program,
         NEW p \in Seq(Items), NEW n \in 0 .. Len(todo), todo' = p \o From(todo, n),
         \A i \in DOMAIN p : p[i].op = "end_try" =>
           Done(p[i].snap) \/ Fine(p[i].catch \o From(p \o From(todo, n), i), kind)
  PROVE  AfterFrames'
<1> DEFINE u == p \o From(todo, n)
           c == Len(p)
<1>1. todo \in Seq(Items) /\ Len(todo) \in Nat /\ DOMAIN todo = 1 .. Len(todo)
  BY DEF TodoOK
<1>2. c \in Nat /\ DOMAIN p = 1 .. c
  OBVIOUS
<1>3. u \in Seq(Items) /\ Len(u) = c + Len(todo) - n
  BY <1>1, JoinFacts
<1>4. \A i \in 1 .. c : u[i] = p[i]
  BY <1>1, JoinFacts
<1>5. \A i \in c + 1 .. c + Len(todo) - n : u[i] = todo[i - c + n]
  BY <1>1, JoinFacts
<1>6. \A k \in c .. c + Len(todo) - n : From(u, k) = From(todo, k - c + n)
  BY <1>1, FromJoin
<1>7. \A i \in 1 .. c : p[i].op = "end_try" => Done(p[i].snap) \/ Fine(p[i].catch \o From(u, i), kind)
  BY <1>2
<1>9. todo' = u
  OBVIOUS
<1> HIDE DEF u, c
<1> SUFFICES ASSUME NEW k \in DOMAIN u, u[k].op = "end_try"
             PROVE  Done(u[k].snap) \/ Fine(u[k].catch \o From(u, k), kind)
  BY <1>9, NextFlow
<1>10. k \in 1 .. c + Len(todo) - n
  BY <1>3
<1>11. CASE k <= c
  <2>1. k \in 1 .. c
    BY <1>2, <1>10, <1>11
  <2> QED BY <1>4, <1>7, <2>1
<1>12. CASE ~(k <= c)
  <2> DEFINE m == k - c + n
  <2>1. k \in c + 1 .. c + Len(todo) - n /\ k \in c .. c + Len(todo) - n /\ m \in DOMAIN todo
    BY <1>1, <1>2, <1>10, <1>12
  <2>2. u[k] = todo[m] /\ From(u, k) = From(todo, m)
    BY <1>5, <1>6, <2>1
  <2> HIDE DEF m
  <2> QED BY <2>1, <2>2 DEF AfterFrames
<1> QED BY <1>11, <1>12

LEMMA FlowJoin ==
  ASSUME TodoOK, TodoOK', AfterFrames, UNCHANGED program,
         NEW p \in Seq(Items), NEW n \in 0 .. Len(todo), todo' = p \o From(todo, n),
         \A i \in DOMAIN p : p[i].op # "end_try",
         Done(store') \/ Fine(todo', kind)
  PROVE  Flow'
<1>1. AfterFrames'
  BY FramesKept
<1>2. todo' \in Seq(Items)
  BY DEF TodoOK
<1>3. Fine(todo', kind) => Fine(Ahead(todo', store', input), kind)
  BY <1>2, FineAhead
<1>4. OnTheWay'
  BY <1>3, NextFlow
<1> QED BY <1>1, <1>4 DEF Flow

(* The first item ran and left p.                                            *)
LEMMA FlowStep ==
  ASSUME TodoOK, TodoOK', NEW ops, At(ops), S.op # "else", kind # "fn", OnTheWay, AfterFrames,
         UNCHANGED program, Done(store) => Done(store'),
         NEW p \in Seq(Items), Plain(p), \A i \in DOMAIN p : p[i].op # "end_try",
         todo' = p \o From(todo, 1),
         Good(S, kind) => \E i \in DOMAIN p : Good(p[i], kind)
  PROVE  Flow'
<1>1. todo \in Seq(Items) /\ todo # <<>> /\ S = todo[1] /\ 1 \in 0 .. Len(todo)
  BY Here DEF TodoOK
<1>2. Done(store) \/ Fine(todo, kind)
  BY <1>1 DEF OnTheWay, Ahead
<1>3. Fine(todo, kind) => Fine(todo', kind)
  BY <1>1, FineStep
<1>4. Done(store') \/ Fine(todo', kind)
  BY <1>2, <1>3
<1>5. p \in Seq(Items) /\ todo' = p \o From(todo, 1) /\ \A i \in DOMAIN p : p[i].op # "end_try"
  OBVIOUS
<1> QED BY <1>1, <1>4, <1>5, FlowJoin

(* The same, when it was neither good nor the second test of an if.             *)
LEMMA FlowDrop ==
  ASSUME TodoOK, TodoOK', NEW ops, At(ops), S.op # "else", kind # "fn", OnTheWay, AfterFrames,
         UNCHANGED program, Done(store'), todo' = Rest
  PROVE  Flow'
<1>1. todo \in Seq(Items) /\ Rest = From(todo, 1) /\ 1 \in 0 .. Len(todo)
  BY Here DEF TodoOK
<1>2. <<>> \in Seq(Items) /\ <<>> \o From(todo, 1) = From(todo, 1)
  BY <1>1, FromFacts, ConcatEmptySeq, EmptySeq
<1>3. todo' = <<>> \o From(todo, 1)
  BY <1>1, <1>2
<1>4. \A i \in DOMAIN <<>> : FALSE
  OBVIOUS
<1> QED BY <1>1, <1>2, <1>3, <1>4, FlowJoin

LEMMA FlowNext ==
  ASSUME TodoOK, TodoOK', NEW ops, At(ops), S.op # "else", kind # "fn", OnTheWay, AfterFrames,
         UNCHANGED program, Done(store) => Done(store'), todo' = Rest, ~Good(S, kind)
  PROVE  Flow'
<1>1. todo \in Seq(Items) /\ Rest = From(todo, 1) /\ 1 \in 0 .. Len(todo)
  BY Here DEF TodoOK
<1>2. <<>> \in Seq(Items) /\ <<>> \o From(todo, 1) = From(todo, 1) /\ Plain(<<>>)
  BY <1>1, FromFacts, ConcatEmptySeq, EmptySeq DEF Plain
<1>3. todo' = <<>> \o From(todo, 1)
  BY <1>1, <1>2
<1>4. \A i \in DOMAIN <<>> : FALSE
  OBVIOUS
<1> QED BY <1>2, <1>3, <1>4, FlowStep

LEMMA PlainCode ==
  \A b \in Code : b \in Seq(Items) /\ Plain(b) /\ \A i \in DOMAIN b : b[i].op # "end_try"
BY CodeItems, CodeFacts, StatementFacts DEF Plain

LEMMA GoodBlocks ==
  ASSUME NEW s \in Statements, NEW k, s.op \in {"if", "match", "try"}, Good(s, k), NEW b \in Blocks(s)
  PROVE  b \in Code /\ \E i \in DOMAIN b : Good(b[i], k)
<1>1. b \in Code
  BY BlockFacts
<1>2. Sure(b, k)
  BY DEF Good
<1> QED BY <1>1, <1>2, SureGood

LEMMA FlowFails ==
  ASSUME TodoOK, TodoOK', kind # "fn", AfterFrames, Fails, how' = "running"
  PROVE  Flow'
<1>1. /\ UNCHANGED program /\ todo \in Seq(Items)
      /\ \E i \in DOMAIN todo : /\ todo[i].op = "end_try"
                                /\ todo' = todo[i].catch \o From(todo, i)
                                /\ store' = todo[i].snap
  BY FailsFacts DEF TodoOK
<1>2. PICK i \in DOMAIN todo : /\ todo[i].op = "end_try"
                               /\ todo' = todo[i].catch \o From(todo, i)
                               /\ store' = todo[i].snap
  BY <1>1
<1> DEFINE b == todo[i].catch
<1>3. b \in Code
  BY <1>1, <1>2, SeqItem, MarkFacts
<1>4. b \in Seq(Items) /\ \A j \in DOMAIN b : b[j].op # "end_try"
  BY <1>3, PlainCode
<1>5. i \in 0 .. Len(todo)
  BY <1>1
<1>6. Done(store') \/ Fine(todo', kind)
  BY <1>2 DEF AfterFrames
<1>7. todo' = b \o From(todo, i)
  BY <1>2
<1> HIDE DEF b
<1> QED BY <1>1, <1>4, <1>5, <1>6, <1>7, FlowJoin

LEMMA FlowReturn ==
  ASSUME TodoOK, TodoOK', kind # "fn", OnTheWay, AfterFrames, Return, how' = "running"
  PROVE  Flow'
<1>1. /\ UNCHANGED <<program, store>> /\ todo \in Seq(Items)
      /\ \E h \in DOMAIN todo : todo[h].op = "end_call" /\ todo' = From(todo, h)
  BY ReturnMoves DEF TodoOK
<1>2. PICK h \in DOMAIN todo : todo[h].op = "end_call" /\ todo' = From(todo, h)
  BY <1>1
<1>3. h \in 0 .. Len(todo)
  BY <1>1
<1>4. <<>> \in Seq(Items) /\ todo' = <<>> \o From(todo, h) /\ \A i \in DOMAIN <<>> : FALSE
  <2>1. From(todo, h) \in Seq(Items)
    BY <1>1, <1>3, FromFacts
  <2> QED BY <1>2, <2>1, ConcatEmptySeq, EmptySeq
<1>5. At({"return"}) /\ S.op = "return" /\ S = todo[1]
  BY Here DEF Return
<1>6. Done(store) \/ Fine(todo, kind)
  BY <1>5 DEF OnTheWay, Ahead
<1>7. Fine(todo, kind) => Fine(todo', kind)
  BY <1>1, <1>2, FineAfterCall
<1>8. UNCHANGED program /\ (Done(store') \/ Fine(todo', kind))
  BY <1>1, <1>6, <1>7
<1> QED BY <1>3, <1>4, <1>8, FlowJoin

LEMMA FlowCall ==
  ASSUME TodoOK, TodoOK', kind # "fn", OnTheWay, AfterFrames, Call, how' = "running"
  PROVE  Flow'
<1>1. CASE Fails
  BY <1>1, FlowFails
<1>2. CASE Called(S.to) /\ store' = store /\ UNCHANGED program
  <2> DEFINE m == S.to
             b == body[m]
             p == b \o <<EndCall(m)>>
  <2>1. /\ m \in Methods /\ todo # <<>> /\ todo[1].op = "call" /\ todo' = p \o From(todo, 1)
        /\ S = todo[1] /\ todo \in Seq(Items)
    BY <1>2, CallMoves DEF Called, TodoOK
  <2>2. b \in Code
    BY <2>1, BodyFacts DEF TodoOK
  <2>3. m = "f" => \E i \in DOMAIN b : Good(b[i], kind)
    BY SureBody DEF TodoOK
  <2> HIDE DEF m
  <2>4. Done(store) \/ Fine(todo, kind)
    BY <2>1 DEF OnTheWay, Ahead
  <2> HIDE DEF b
  <2>5. Fine(todo, kind) => Fine(todo', kind)
    BY <2>1, <2>2, <2>3, FineCalled
  <2>6. b \in Seq(Items) /\ <<EndCall(m)>> \in Seq(Items) /\ EndCall(m).op # "end_try"
    BY <2>1, <2>2, PlainCode, NewMarks DEF EndCall
  <2>7. /\ p \in Seq(Items) /\ Len(p) = Len(b) + 1
        /\ \A i \in 1 .. Len(b) + 1 : p[i] = IF i <= Len(b) THEN b[i] ELSE <<EndCall(m)>>[i - Len(b)]
    <3> DEFINE e == <<EndCall(m)>>
    <3>1. e \in Seq(Items) /\ Len(e) = 1
      BY <2>6
    <3> HIDE DEF e
    <3>2. /\ b \o e \in Seq(Items) /\ Len(b \o e) = Len(b) + Len(e)
          /\ \A i \in 1 .. Len(b) + Len(e) : (b \o e)[i] = IF i <= Len(b) THEN b[i] ELSE e[i - Len(b)]
      BY <2>6, <3>1, ConcatProperties
    <3> QED BY <3>1, <3>2 DEF e
  <2>8. ASSUME NEW i \in DOMAIN p PROVE p[i].op # "end_try"
    <3>1. i \in 1 .. Len(b) + 1 /\ Len(b) \in Nat /\ DOMAIN b = 1 .. Len(b)
      BY <2>6, <2>7
    <3>2. CASE i <= Len(b)
      <4>1. i \in DOMAIN b /\ p[i] = b[i]
        BY <2>7, <3>1, <3>2
      <4> QED BY <2>2, <4>1, PlainCode
    <3>3. CASE ~(i <= Len(b))
      <4>1. i - Len(b) = 1
        BY <3>1, <3>3
      <4>2. p[i] = <<EndCall(m)>>[1]
        BY <2>7, <3>1, <3>3, <4>1
      <4> QED BY <2>6, <4>2
    <3> QED BY <3>2, <3>3
  <2>9. 1 \in 0 .. Len(todo)
    BY <2>1, EmptySeq
  <2>10. Done(store') \/ Fine(todo', kind)
    BY <1>2, <2>4, <2>5
  <2> HIDE DEF p
  <2> QED BY <1>2, <2>1, <2>7, <2>8, <2>9, <2>10, FlowJoin
<1> QED BY <1>1, <1>2, CallMoves

LEMMA FlowIf ==
  ASSUME TodoOK, TodoOK', kind # "fn", OnTheWay, AfterFrames, If
  PROVE  Flow'
<1> DEFINE c == True(S.cond, input, store)
           q == IF S.else = <<>> THEN <<>> ELSE <<Else(S)>>
           p == (IF c THEN S.then ELSE <<>>) \o q
<1>1. /\ At({"if"}) /\ S = todo[1] /\ S \in Statements /\ S.op = "if" /\ Rest = From(todo, 1)
      /\ todo \in Seq(Items) /\ todo # <<>> /\ 1 \in 0 .. Len(todo)
  BY Here, MarkFacts DEF If, TodoOK
<1>2. S.then \in Code /\ S.else \in Code /\ S.then \in Blocks(S) /\ S.else \in Blocks(S)
  BY <1>1, StatementFacts DEF Blocks
<1>3. UNCHANGED program /\ store' = store
  BY DEF If, Continue
<1>4. Done(store) \/ Fine(todo, kind)
  BY <1>1 DEF OnTheWay, Ahead
<1>5. From(todo, 1) \in Seq(Items)
  BY <1>1, FromFacts
<1>6. q \in Seq(Items) /\ \A i \in DOMAIN q : q[i].op = "else"
  BY <1>1, NewMarks DEF Else
<1>7. todo' = p \o From(todo, 1)
  BY <1>1 DEF If, Continue
<1>8. Good(S, kind) => /\ \E i \in DOMAIN S.then : Good(S.then[i], kind)
                       /\ \E i \in DOMAIN S.else : Good(S.else[i], kind)
  BY <1>1, <1>2, GoodBlocks
<1>9. CASE c
  <2>1. p = S.then \o q
    BY <1>9
  <2>2. S.then \in Seq(Items) /\ Plain(S.then) /\ \A i \in DOMAIN S.then : S.then[i].op # "end_try"
    BY <1>2, PlainCode
  <2> HIDE DEF q, p, c
  <2> DEFINE b == S.then
  <2>3. /\ p \in Seq(Items) /\ Len(p) = Len(b) + Len(q) /\ Len(b) \in Nat /\ Len(q) \in Nat
        /\ DOMAIN b = 1 .. Len(b) /\ DOMAIN q = 1 .. Len(q) /\ DOMAIN p = 1 .. Len(b) + Len(q)
        /\ \A i \in 1 .. Len(b) + Len(q) : p[i] = IF i <= Len(b) THEN b[i] ELSE q[i - Len(b)]
    <3>1. b \in Seq(Items)
      BY <2>2
    <3>2. p = b \o q
      BY <2>1
    <3> HIDE DEF b
    <3>3. /\ p \in Seq(Items) /\ Len(p) = Len(b) + Len(q)
          /\ \A i \in 1 .. Len(b) + Len(q) : p[i] = IF i <= Len(b) THEN b[i] ELSE q[i - Len(b)]
      BY <1>6, <3>1, <3>2, ConcatProperties
    <3>4. Len(b) \in Nat /\ Len(q) \in Nat /\ DOMAIN b = 1 .. Len(b) /\ DOMAIN q = 1 .. Len(q)
      BY <1>6, <3>1
    <3> QED BY <3>3, <3>4
  <2>4. b \in Seq(Items) /\ Plain(b) /\ (\A i \in DOMAIN b : b[i].op # "end_try")
        /\ (Good(S, kind) => \E i \in DOMAIN b : Good(b[i], kind))
    BY <1>8, <2>2
  <2> HIDE DEF b
  <2>5. ASSUME NEW i \in DOMAIN p PROVE p[i].op \notin {"end_call", "end_try"}
    <3>1. CASE i <= Len(b)
      BY <2>3, <2>4, <3>1 DEF Plain
    <3>2. CASE ~(i <= Len(b))
      <4>1. i - Len(b) \in DOMAIN q /\ p[i] = q[i - Len(b)]
        BY <2>3, <3>2
      <4> QED BY <1>6, <4>1
    <3> QED BY <3>1, <3>2
  <2>6. \A i \in DOMAIN b : i \in DOMAIN p /\ p[i] = b[i]
    BY <2>3
  <2>7. Good(S, kind) => \E i \in DOMAIN p : Good(p[i], kind)
    BY <2>4, <2>6
  <2>8. Plain(p) /\ \A i \in DOMAIN p : p[i].op # "end_try"
    BY <2>5 DEF Plain
  <2>9. p \in Seq(Items) /\ S.op # "else" /\ (Done(store) => Done(store'))
    BY <1>1, <1>3, <2>3
  <2> QED BY <1>1, <1>3, <1>7, <2>7, <2>8, <2>9, FlowStep
<1>10. CASE ~c
  <2>1. p = q
    BY <1>6, <1>10, ConcatEmptySeq
  <2>2. \A i \in DOMAIN q : q[i].op # "end_try"
    BY <1>6
  <2>3. AfterFrames'
    <3>1. todo' = q \o From(todo, 1)
      BY <1>7, <2>1
    <3>2. \A i \in DOMAIN q : q[i].op = "end_try" => FALSE
      BY <2>2
    <3>3. q \in Seq(Items)
      BY <1>6
    <3> HIDE DEF q, p, c
    <3> QED BY <1>1, <1>3, <3>1, <3>2, <3>3, FramesKept
  <2>4. Fine(todo, kind) => Fine(Ahead(todo', store', input), kind)
    <3>1. CASE S.else = <<>>
      <4>1. ~Good(S, kind)
        BY <1>8, <3>1
      <4>2. q = <<>> /\ todo' = <<>> \o From(todo, 1)
        BY <1>7, <2>1, <3>1
      <4>3. Plain(<<>>) /\ <<>> \in Seq(Items)
        BY EmptySeq DEF Plain
      <4>4. Fine(todo, kind) => Fine(todo', kind)
        BY <1>1, <4>1, <4>2, <4>3, FineStep
      <4>5. todo' \in Seq(Items)
        BY DEF TodoOK
      <4> QED BY <4>4, <4>5, FineAhead
    <3>2. CASE S.else # <<>>
      <4> DEFINE x == Else(S)
                 r == From(todo, 1)
      <4>1. todo' = <<x>> \o r
        BY <1>7, <2>1, <3>2
      <4>2. x \in Items /\ x.op = "else" /\ x.cond = S.cond /\ x.body = S.else
        BY <1>1, NewMarks DEF Else
      <4>3. r \in Seq(Items)
        BY <1>5
      <4>4. ~True(x.cond, input, store')
        BY <1>3, <1>10, <4>2
      <4> HIDE DEF x, q, p, c
      <4>5. todo' # <<>> /\ todo'[1] = x /\ From(todo', 1) = r
        <5>0. <<x>> \in Seq(Items) /\ Len(<<x>>) = 1 /\ <<x>>[1] = x
          BY <4>2
        <5>1. todo'[1] = x /\ Len(todo') = 1 + Len(todo) - 1 /\ Len(todo) \in Nat \ {0}
          <6> DEFINE y == <<x>>
          <6>1. y \in Seq(Items) /\ Len(y) = 1 /\ y[1] = x /\ todo' = y \o From(todo, 1)
            BY <4>1, <5>0
          <6> HIDE DEF y, r
          <6>4. Len(y \o From(todo, 1)) = Len(y) + Len(todo) - 1
            BY <1>1, <6>1, JoinFacts
          <6>5. \A i \in 1 .. Len(y) : (y \o From(todo, 1))[i] = y[i]
            BY <1>1, <6>1, JoinFacts
          <6>2. (y \o From(todo, 1))[1] = y[1] /\ Len(y \o From(todo, 1)) = Len(y) + Len(todo) - 1
            BY <6>1, <6>4, <6>5
          <6>3. Len(todo) \in Nat \ {0}
            BY <1>1, EmptySeq
          <6> QED BY <6>1, <6>2, <6>3
        <5>2. From(todo', 1) = r
          <6> DEFINE y == <<x>>
          <6>1. y \in Seq(Items) /\ Len(y) = 1 /\ todo' = y \o From(todo, 1)
            BY <4>1, <5>0
          <6> HIDE DEF y
          <6>2. 1 \in Len(y) .. Len(y) + Len(todo) - 1
            BY <5>1, <6>1
          <6>3. From(y \o From(todo, 1), 1) = From(todo, 1 - Len(y) + 1)
            BY <1>1, <6>1, <6>2, FromJoin
          <6>4. 1 - Len(y) + 1 = 1
            BY <6>1
          <6> QED BY <6>1, <6>3, <6>4
        <5>3. todo' # <<>>
          BY <5>1, EmptySeq
        <5> QED BY <5>1, <5>2, <5>3
      <4>6. Ahead(todo', store', input) = S.else \o r
        BY <4>2, <4>4, <4>5 DEF Ahead
      <4>7. S.else \in Seq(Items) /\ Plain(S.else)
        BY <1>2, PlainCode
      <4>8. Fine(todo, kind) => Fine(S.else \o r, kind)
        BY <1>1, <1>8, <4>7, FineStep
      <4> QED BY <4>6, <4>8
    <3> QED BY <3>1, <3>2
  <2>5. OnTheWay'
    BY <1>3, <1>4, <2>4, NextFlow
  <2> QED BY <2>3, <2>5 DEF Flow
<1> QED BY <1>9, <1>10

LEMMA FlowTry ==
  ASSUME TodoOK, TodoOK', kind # "fn", OnTheWay, AfterFrames, Try
  PROVE  Flow'
<1> DEFINE b == S.body
           x == EndTry(S.catch, store)
           e == <<x>>
           p == b \o e
<1>1. /\ At({"try"}) /\ S = todo[1] /\ S \in Statements /\ S.op = "try" /\ Rest = From(todo, 1)
      /\ todo \in Seq(Items) /\ todo # <<>> /\ 1 \in 0 .. Len(todo)
  BY Here, MarkFacts DEF Try, TodoOK
<1>2. b \in Code /\ S.catch \in Code /\ b \in Blocks(S) /\ S.catch \in Blocks(S)
  BY <1>1, StatementFacts DEF Blocks
<1>3. UNCHANGED program /\ store' = store /\ todo' = p \o From(todo, 1)
  BY <1>1 DEF Try, Continue
<1>4. Done(store) \/ Fine(todo, kind)
  BY <1>1 DEF OnTheWay, Ahead
<1>5. x \in Items /\ x.op = "end_try" /\ x.catch = S.catch /\ x.snap = store
  BY <1>2, NewMarks DEF EndTry, TodoOK, TypeOK
<1>6. Good(S, kind) => /\ \E i \in DOMAIN b : Good(b[i], kind)
                       /\ \E i \in DOMAIN S.catch : Good(S.catch[i], kind)
  BY <1>1, <1>2, GoodBlocks
<1>7. b \in Seq(Items) /\ Plain(b) /\ \A i \in DOMAIN b : b[i].op # "end_try"
  BY <1>2, PlainCode
<1>8. S.catch \in Seq(Items) /\ Plain(S.catch)
  BY <1>2, PlainCode
<1>9. Fine(todo, kind) => Fine(S.catch \o From(todo, 1), kind)
  BY <1>1, <1>6, <1>8, FineStep
<1> HIDE DEF x, b
<1>10. e \in Seq(Items) /\ Len(e) = 1 /\ e[1] = x
  BY <1>5
<1> HIDE DEF e
<1>11. /\ p \in Seq(Items) /\ Len(p) = Len(b) + 1 /\ Len(b) \in Nat
       /\ DOMAIN b = 1 .. Len(b) /\ DOMAIN p = 1 .. Len(b) + 1
       /\ \A i \in 1 .. Len(b) : p[i] = b[i]
       /\ p[Len(b) + 1] = x
  <2>1. /\ p \in Seq(Items) /\ Len(p) = Len(b) + Len(e)
        /\ \A i \in 1 .. Len(b) + Len(e) : p[i] = IF i <= Len(b) THEN b[i] ELSE e[i - Len(b)]
    BY <1>7, <1>10, ConcatProperties
  <2> HIDE DEF p
  <2>2. Len(b) \in Nat /\ DOMAIN b = 1 .. Len(b)
    BY <1>7
  <2>3. DOMAIN p = 1 .. Len(b) + 1
    BY <1>10, <2>1
  <2>4. \A i \in 1 .. Len(b) : p[i] = b[i]
    BY <1>10, <2>1, <2>2
  <2>5. p[Len(b) + 1] = x
    <3>1. Len(b) + 1 \in 1 .. Len(b) + Len(e) /\ ~(Len(b) + 1 <= Len(b)) /\ (Len(b) + 1) - Len(b) = 1
      BY <1>10, <2>2
    <3>2. p[Len(b) + 1] = e[(Len(b) + 1) - Len(b)]
      BY <2>1, <3>1
    <3> QED BY <1>10, <3>1, <3>2
  <2> QED BY <1>10, <2>1, <2>2, <2>3, <2>4, <2>5
<1> HIDE DEF p
<1>12. AfterFrames'
  <2> SUFFICES ASSUME NEW i \in DOMAIN p, p[i].op = "end_try"
               PROVE  Done(p[i].snap) \/ Fine(p[i].catch \o From(p \o From(todo, 1), i), kind)
    BY <1>1, <1>3, <1>11, FramesKept
  <2>1. i = Len(b) + 1
    <3>1. ~(i \in 1 .. Len(b))
      BY <1>7, <1>11
    <3> QED BY <1>11, <3>1
  <2>2. p[i] = x
    BY <1>11, <2>1
  <2>3. From(p \o From(todo, 1), i) = From(todo, 1)
    <3>1. i \in Len(p) .. Len(p) + Len(todo) - 1 /\ i - Len(p) + 1 = 1
      BY <1>1, <1>11, <2>1
    <3>2. From(p \o From(todo, 1), i) = From(todo, i - Len(p) + 1)
      BY <1>1, <1>11, <3>1, FromJoin
    <3> QED BY <3>1, <3>2
  <2> QED BY <1>4, <1>5, <1>9, <2>2, <2>3
<1>13. Fine(todo, kind) => Fine(todo', kind)
  <2>1. Plain(p)
    <3> SUFFICES ASSUME NEW i \in DOMAIN p PROVE p[i].op # "end_call"
      BY DEF Plain
    <3>1. CASE i \in 1 .. Len(b)
      BY <1>7, <1>11, <3>1 DEF Plain
    <3>2. CASE i = Len(b) + 1
      BY <1>5, <1>11, <3>2
    <3> QED BY <1>11, <3>1, <3>2
  <2>2. Good(S, kind) => \E i \in DOMAIN p : Good(p[i], kind)
    <3> SUFFICES ASSUME NEW i \in DOMAIN b, Good(b[i], kind) PROVE \E j \in DOMAIN p : Good(p[j], kind)
      BY <1>6
    <3>1. i \in DOMAIN p /\ p[i] = b[i]
      BY <1>11
    <3> QED BY <3>1
  <2> QED BY <1>1, <1>3, <1>11, <2>1, <2>2, FineStep
<1>14. Done(store) => Done(store')
  BY <1>3
<1>15. OnTheWay'
  <2>1. todo' \in Seq(Items)
    BY DEF TodoOK
  <2>2. Fine(todo', kind) => Fine(Ahead(todo', store', input), kind)
    BY <2>1, FineAhead
  <2> QED BY <1>3, <1>4, <1>13, <1>14, <2>2, NextFlow
<1> QED BY <1>12, <1>15 DEF Flow

LEMMA FlowElse ==
  ASSUME TodoOK, TodoOK', kind # "fn", OnTheWay, AfterFrames, ElseTest
  PROVE  Flow'
<1>1. /\ At({"else"}) /\ S = todo[1] /\ S \in Items /\ S.op = "else" /\ Rest = From(todo, 1)
      /\ todo \in Seq(Items) /\ todo # <<>> /\ 1 \in 0 .. Len(todo)
  BY Here DEF ElseTest, TodoOK
<1>2. UNCHANGED program /\ store' = store
  BY DEF ElseTest, Continue
<1>3. CASE True(S.cond, input, store)
  <2>1. todo' = <<>> \o From(todo, 1)
    BY <1>1, <1>3 DEF ElseTest, Continue
  <2>2. Done(store) \/ Fine(todo, kind)
    BY <1>1, <1>3 DEF OnTheWay, Ahead
  <2>3. ~Good(todo[1], kind) /\ <<>> \in Seq(Items) /\ Plain(<<>>) /\ \A i \in DOMAIN <<>> : FALSE
    BY <1>1, EmptySeq DEF Good, Plain
  <2>4. Fine(todo, kind) => Fine(todo', kind)
    BY <1>1, <2>1, <2>3, FineStep
  <2>5. Done(store') \/ Fine(todo', kind)
    BY <1>2, <2>2, <2>4
  <2> QED BY <1>1, <1>2, <2>1, <2>3, <2>5, FlowJoin
<1>4. CASE ~True(S.cond, input, store)
  <2> DEFINE b == S.body
  <2>1. todo' = b \o From(todo, 1)
    <3>1. todo' = (IF True(S.cond, input, store) THEN <<>> ELSE S.body) \o Rest
      BY DEF ElseTest, Continue
    <3> QED BY <1>1, <1>4, <3>1
  <2>2. Done(store) \/ Fine(b \o From(todo, 1), kind)
    BY <1>1, <1>4 DEF OnTheWay, Ahead
  <2>3. b \in Code
    BY <1>1, MarkFacts
  <2>4. b \in Seq(Items) /\ \A i \in DOMAIN b : b[i].op # "end_try"
    BY <2>3, PlainCode
  <2>5. Done(store') \/ Fine(todo', kind)
    BY <1>2, <2>1, <2>2
  <2> HIDE DEF b
  <2> QED BY <1>1, <1>2, <2>1, <2>4, <2>5, FlowJoin
<1> QED BY <1>3, <1>4

LEMMA FlowTurn ==
  ASSUME TodoOK, TodoOK', kind # "fn", OnTheWay, AfterFrames, At({"while", "for"}),
         todo' = S.body \o todo, UNCHANGED program, store' = store
  PROVE  Flow'
<1> DEFINE b == S.body
<1>1. /\ S = todo[1] /\ S \in Statements /\ S.op \in {"while", "for"} /\ todo = From(todo, 0)
      /\ todo \in Seq(Items) /\ Len(todo) \in Nat
  BY Here, MarkFacts DEF TodoOK
<1>2. b \in Code
  BY <1>1, StatementFacts
<1>3. b \in Seq(Items) /\ Plain(b) /\ \A i \in DOMAIN b : b[i].op # "end_try"
  BY <1>2, PlainCode
<1>4. Done(store) \/ Fine(todo, kind)
  BY <1>1 DEF OnTheWay, Ahead
<1>5. todo' = b \o From(todo, 0) /\ 0 \in 0 .. Len(todo)
  BY <1>1
<1> HIDE DEF b
<1>6. Fine(todo, kind) => Fine(todo', kind)
  <2> SUFFICES ASSUME Fine(todo, kind) PROVE Fine(b \o From(todo, 0), kind)
    BY <1>5
  <2>1. \A e \in 0 + 1 .. Len(todo) + 1 : EndsF(todo, e) => GoodAhead(todo, 0 + 1, e, kind)
    BY DEF Fine
  <2>2. todo \in Seq(Items)
    BY <1>1
  <2> QED BY <1>3, <1>5, <2>1, <2>2, FineJoin
<1>7. Done(store') \/ Fine(todo', kind)
  BY <1>4, <1>6
<1> QED BY <1>3, <1>5, <1>7, FlowJoin

LEMMA FlowMatch ==
  ASSUME TodoOK, TodoOK', kind # "fn", OnTheWay, AfterFrames, Match
  PROVE  Flow'
<1> DEFINE b == ArmFor(S.arms, input.tag)
<1>1. /\ At({"match"}) /\ S = todo[1] /\ S \in Statements /\ S.op = "match" /\ Rest = From(todo, 1)
  BY Here, MarkFacts DEF Match
<1>2. b \in Blocks(S) /\ b \in Code
  BY MatchMoves
<1>3. UNCHANGED program /\ store' = store /\ todo' = b \o From(todo, 1)
  BY <1>1 DEF Match, Continue
<1> HIDE DEF b
<1>4. b \in Seq(Items) /\ Plain(b) /\ \A i \in DOMAIN b : b[i].op # "end_try"
  BY <1>2, PlainCode
<1>5. Good(S, kind) => \E i \in DOMAIN b : Good(b[i], kind)
  BY <1>1, <1>2, GoodBlocks
<1> QED BY <1>1, <1>3, <1>4, <1>5, FlowStep

LEMMA FlowAssign ==
  ASSUME TodoOK, TodoOK', kind # "fn", OnTheWay, AfterFrames, Assign
  PROVE  Flow'
<1>1. /\ At({"set", "const"}) /\ S.op \in {"set", "const"} /\ todo' = Rest /\ UNCHANGED program
      /\ S \in Statements /\ store \in Store
  BY Here, MarkFacts DEF Assign, Continue, TodoOK, TypeOK
<1>2. store' = IF S.op = "set" THEN [store EXCEPT !.field = S.to] ELSE [store EXCEPT !.assigned = TRUE]
  BY DEF Assign
<1>3. CASE S.op = "const" /\ kind = "new"
  <2>1. Done(store')
    BY <1>1, <1>2, <1>3 DEF Done, Store
  <2> QED BY <1>1, <2>1, <1>3, FlowDrop
<1>4. CASE ~(S.op = "const" /\ kind = "new")
  <2>1. ~Good(S, kind)
    BY <1>1, <1>4 DEF Good
  <2>2. Done(store) => Done(store')
    BY <1>1, <1>2 DEF Done, Store
  <2> QED BY <1>1, <2>1, <2>2, FlowNext
<1> QED BY <1>3, <1>4

LEMMA FlowSkip ==
  ASSUME TodoOK, TodoOK', kind # "fn", OnTheWay, AfterFrames, NEW ops, At(ops),
         UNCHANGED program, store' = store, todo' = Rest,
         ops \subseteq {"read", "external", "pay", "create", "while", "for", "end_try"}
  PROVE  Flow'
<1>1. S.op \in ops
  BY Here
<1>2. ~Good(S, kind) /\ S.op # "else"
  BY <1>1 DEF Good
<1>3. Done(store) => Done(store')
  OBVIOUS
<1> QED BY <1>2, <1>3, FlowNext

LEMMA FlowMark ==
  ASSUME TodoOK, TodoOK', kind # "fn", OnTheWay, AfterFrames, EndMark
  PROVE  Flow'
<1>1. /\ At({"end_call", "end_try"}) /\ S = todo[1] /\ S.op \in {"end_call", "end_try"}
      /\ Rest = From(todo, 1) /\ todo \in Seq(Items) /\ 1 \in DOMAIN todo /\ 1 \in 0 .. Len(todo)
  BY Here DEF EndMark, TodoOK
<1>2. UNCHANGED program /\ store' = store /\ todo' = From(todo, 1)
  BY <1>1 DEF EndMark, Continue
<1>3. CASE S.op = "end_try"
  <2>1. At({"end_try"}) /\ todo' = Rest
    BY <1>1, <1>2, <1>3 DEF At, S
  <2> QED BY <1>2, <2>1, FlowSkip
<1>4. CASE S.op = "end_call"
  <2>1. Done(store) \/ Fine(todo, kind)
    BY <1>1, <1>4 DEF OnTheWay, Ahead
  <2>2. Fine(todo, kind) => Fine(todo', kind)
    BY <1>1, <1>2, <1>4, FineAfterCall
  <2>3. <<>> \in Seq(Items) /\ todo' = <<>> \o From(todo, 1) /\ \A i \in DOMAIN <<>> : FALSE
    <3>1. From(todo, 1) \in Seq(Items)
      BY <1>1, FromFacts
    <3> QED BY <1>2, <3>1, ConcatEmptySeq, EmptySeq
  <2>4. Done(store') \/ Fine(todo', kind)
    BY <1>2, <2>1, <2>2
  <2> QED BY <1>1, <1>2, <2>3, <2>4, FlowJoin
<1> QED BY <1>1, <1>3, <1>4

LEMMA NextRunning == ASSUME Next PROVE how = "running"
BY DEF Next, Read, Assign, External, ExternalFails, Revert, Return, Call, EndMark, If, ElseTest, While,
       For, Match, Try, FallOff, At

LEMMA FlowKept ==
  ASSUME TodoOK, TodoOK', Flow, Next
  PROVE  Flow'
<1>1. UNCHANGED program /\ how = "running"
  BY NextRest, NextRunning
<1>2. kind' = kind
  BY <1>1 DEF program
<1> SUFFICES ASSUME kind # "fn", how' = "running" PROVE Flow'
  BY <1>2 DEF Flow
<1>3. OnTheWay /\ AfterFrames
  BY <1>1 DEF Flow
<1>4. CASE Read
  <2>1. At({"read"}) /\ store' = store /\ todo' = Rest
    BY <1>4 DEF Read, Continue
  <2> QED BY <1>1, <1>3, <2>1, FlowSkip
<1>5. CASE Assign
  BY <1>3, <1>5, FlowAssign
<1>6. CASE External
  <2>1. At({"external", "pay", "create"}) /\ store' = store /\ todo' = Rest
    BY <1>6 DEF External, Continue
  <2> QED BY <1>1, <1>3, <2>1, FlowSkip
<1>7. CASE ExternalFails \/ Revert
  <2>1. Fails
    BY <1>7 DEF ExternalFails, Revert
  <2> QED BY <1>3, <2>1, FlowFails
<1>8. CASE Return
  BY <1>3, <1>8, FlowReturn
<1>9. CASE Call
  BY <1>3, <1>9, FlowCall
<1>10. CASE EndMark
  BY <1>3, <1>10, FlowMark
<1>11. CASE If
  BY <1>3, <1>11, FlowIf
<1>12. CASE ElseTest
  BY <1>3, <1>12, FlowElse
<1>13. CASE While
  <2>1. At({"while"}) /\ At({"while", "for"}) /\ store' = store /\ (todo' = S.body \o todo \/ todo' = Rest)
    BY <1>13 DEF While, Continue, At
  <2>2. CASE todo' = S.body \o todo
    BY <1>1, <1>3, <2>1, <2>2, FlowTurn
  <2>3. CASE todo' = Rest
    BY <1>1, <1>3, <2>1, <2>3, FlowSkip
  <2> QED BY <2>1, <2>2, <2>3
<1>14. CASE For
  <2>1. At({"for"}) /\ At({"while", "for"}) /\ store' = store /\ (todo' = S.body \o todo \/ todo' = Rest)
    BY <1>14 DEF For, Continue, At
  <2>2. CASE todo' = S.body \o todo
    BY <1>1, <1>3, <2>1, <2>2, FlowTurn
  <2>3. CASE todo' = Rest
    BY <1>1, <1>3, <2>1, <2>3, FlowSkip
  <2> QED BY <2>1, <2>2, <2>3
<1>15. CASE Match
  BY <1>3, <1>15, FlowMatch
<1>16. CASE Try
  BY <1>3, <1>16, FlowTry
<1>17. CASE FallOff
  BY <1>17 DEF FallOff
<1> QED BY <1>4, <1>5, <1>6, <1>7, <1>8, <1>9, <1>10, <1>11, <1>12, <1>13, <1>14, <1>15, <1>16, <1>17
        DEF Next

(* Where f's own end is next, nothing good is ahead.                            *)
LEMMA EndOfF ==
  ASSUME TodoOK, Flow, how = "running", kind # "fn",
         todo = <<>> \/ (todo[1].op = "end_call" /\ todo[1].of = "f")
  PROVE  Done(store)
<1>1. OnTheWay
  BY DEF Flow
<1>2. Ahead(todo, store, input) = todo
  BY DEF Ahead
<1>3. ASSUME Fine(todo, kind) PROVE FALSE
  <2>1. EndsF(todo, 1) /\ 1 \in 1 .. Len(todo) + 1
    <3>1. Len(todo) \in Nat
      BY DEF TodoOK
    <3>2. CASE todo = <<>>
      BY <3>2 DEF EndsF
    <3>3. CASE todo # <<>>
      BY <3>1, <3>3 DEF EndsF
    <3> QED BY <3>2, <3>3
  <2>2. GoodAhead(todo, 1, 1, kind)
    BY <1>3, <2>1 DEF Fine
  <2> QED BY <2>2 DEF GoodAhead
<1> QED BY <1>1, <1>2, <1>3 DEF OnTheWay

PathInv ==
  /\ TodoOK /\ OwnCode /\ Flow
  /\ kind = "value" => how # "fell"
  /\ NewMayReturn = FALSE => ConstAssigned

LEMMA InitPath == Init => PathInv
<1> SUFFICES ASSUME Init PROVE PathInv
  OBVIOUS
<1>1. TodoOK /\ BodiesOK
  BY InitTodo DEF TodoOK
<1>2. todo = body["f"] /\ todo = body.f /\ body["f"] \in Code /\ how = "running"
  BY <1>1, BodyFacts DEF Init, Methods
<1>3. OwnCode
  BY <1>2, ContentsFacts DEF OwnCode
<1>4. ASSUME kind # "fn" PROVE OnTheWay /\ AfterFrames
  <2> DEFINE b == body["f"]
  <2>1. b \in Seq(Items) /\ Plain(b) /\ (\A i \in DOMAIN b : b[i].op # "end_try")
        /\ \E i \in DOMAIN b : Good(b[i], kind)
    BY <1>1, <1>2, <1>4, PlainCode, SureBody
  <2> HIDE DEF b
  <2>2. Fine(b, kind)
    <3> SUFFICES ASSUME NEW e \in 1 .. Len(b) + 1, EndsF(b, e) PROVE GoodAhead(b, 1, e, kind)
      BY DEF Fine
    <3>1. Len(b) \in Nat /\ DOMAIN b = 1 .. Len(b)
      BY <2>1
    <3>2. e = Len(b) + 1
      BY <2>1, <3>1 DEF EndsF, Plain
    <3>3. PICK i \in DOMAIN b : Good(b[i], kind)
      BY <2>1
    <3>4. i \in 1 .. e - 1 /\ \A j \in i .. e - 1 : j \in DOMAIN b
      BY <3>1, <3>2
    <3> QED BY <2>1, <3>3, <3>4 DEF GoodAhead, Plain
  <2>3. todo = b
    BY <1>2 DEF b
  <2>4. OnTheWay
    BY <2>1, <2>2, <2>3, FineAhead DEF OnTheWay
  <2>5. AfterFrames
    BY <2>1, <2>3 DEF AfterFrames
  <2> QED BY <2>4, <2>5
<1> QED BY <1>1, <1>2, <1>3, <1>4 DEF PathInv, Flow, ConstAssigned

LEMMA NextPath == PathInv /\ [Next]_vars => PathInv'
<1> SUFFICES ASSUME PathInv, [Next]_vars PROVE PathInv'
  OBVIOUS
<1>1. TodoOK /\ OwnCode /\ Flow
  BY DEF PathInv
<1>2. TodoOK'
  BY <1>1, NextTodo
<1>3. CASE Next
  <2>1. UNCHANGED program /\ kind' = kind /\ how = "running"
    BY <1>1, <1>3, NextRest, NextRunning DEF program
  <2>2. OwnCode' /\ Flow'
    BY <1>1, <1>2, <1>3, <2>1, NextMoves, OwnCodeStep, FlowKept
  <2>3. ASSUME how' = "fell" PROVE kind = "fn" \/ Done(store')
    <3>1. ASSUME Fails PROVE how' # "fell"
      BY <1>1, <2>1, <3>1, FailsFacts
    <3>2. FallOff
      BY <1>1, <1>3, <2>1, <2>3, <3>1, ReturnMoves, CallMoves
         DEF Next, Read, Assign, External, ExternalFails, Revert, EndMark, If, ElseTest, While, For,
             Match, Try, Continue
    <3> QED BY <1>1, <2>1, <3>2, EndOfF DEF FallOff
  <2>4. ASSUME how' = "returned", kind = "new", NewMayReturn = FALSE PROVE FALSE
    <3>1. ASSUME Fails PROVE how' # "returned"
      BY <1>1, <2>1, <3>1, FailsFacts
    <3>2. Return
      BY <1>1, <1>3, <2>1, <2>4, <3>1, CallMoves
         DEF Next, Read, Assign, External, ExternalFails, Revert, EndMark, If, ElseTest, While, For,
             Match, Try, FallOff, Continue
    <3>3. ~Marked("end_call")
      BY <1>1, <2>1, <2>4, <3>2, ReturnMoves
    <3>4. 1 \in DOMAIN todo /\ S = todo[1] /\ S \in Statements /\ S.op = "return"
      BY <1>1, <3>2, Here, MarkFacts DEF Return
    <3>5. S \in Inside[body.f]
      <4>1. Contents(todo[1]) \subseteq Inside[body.f]
        BY <1>1, <3>3, <3>4 DEF OwnCode, Marked
      <4> QED BY <3>4, <4>1, ContentsFacts
    <3>6. ~Holds(body.f, {"return"})
      BY <1>1, <2>4 DEF TodoOK, BodiesOK
    <3> QED BY <3>4, <3>5, <3>6 DEF Holds
  <2>5. kind = "value" => how' # "fell"
    BY <2>3 DEF Done
  <2>6. NewMayReturn = FALSE => ConstAssigned'
    BY <2>1, <2>3, <2>4 DEF ConstAssigned, Done
  <2> QED BY <1>2, <2>1, <2>2, <2>5, <2>6 DEF PathInv
<1>4. CASE UNCHANGED vars
  <2>1. UNCHANGED program /\ how' = how /\ store' = store /\ todo' = todo /\ kind' = kind /\ body' = body
    BY <1>4 DEF vars, program
  <2>2. OwnCode'
    BY <1>1, <2>1 DEF OwnCode
  <2>3. Flow'
    BY <1>1, <2>1, NextFlow DEF Flow, OnTheWay, AfterFrames
  <2> QED BY <1>2, <2>1, <2>2, <2>3 DEF PathInv, ConstAssigned
<1> QED BY <1>3, <1>4

(* No path through a method with a return type comes to the end of its body,      *)
(* when it is called from outside as when it is called as a helper, however deep  *)
(* its ifs, matches and tries are nested and wherever they revert.             *)
THEOREM ReturnsOnEveryPath == Spec => []NeverFallsOff
<1>1. PathInv => NeverFallsOff
  <2> SUFFICES ASSUME PathInv, kind = "value", At({"end_call"}), S.of = "f" PROVE FALSE
    BY DEF NeverFallsOff, PathInv
  <2>1. TodoOK /\ Flow
    BY DEF PathInv
  <2>2. how = "running" /\ S = todo[1] /\ S.op = "end_call"
    BY <2>1, Here
  <2>3. Done(store)
    BY <2>1, <2>2, EndOfF
  <2> QED BY <2>3 DEF Done
<1> QED BY <1>1, InitPath, NextPath, PTL DEF Spec

(* What check_returns and the check of const fields promise holds on every path,   *)
(* in every program whose constructors have no return statement.               *)
THEOREM EveryPathComplete ==
  ASSUME NewMayReturn = FALSE
  PROVE  Spec => []PathsComplete
<1>1. PathInv => PathsComplete
  <2> SUFFICES ASSUME PathInv PROVE PathsComplete
    OBVIOUS
  <2>1. TodoOK /\ Flow /\ ConstAssigned
    BY DEF PathInv
  <2>2. ASSUME kind = "value", At({"end_call"}), S.of = "f" PROVE FALSE
    <3>1. how = "running" /\ S = todo[1] /\ S.op = "end_call"
      BY <2>1, <2>2, Here
    <3>2. Done(store)
      BY <2>1, <2>2, <3>1, EndOfF
    <3> QED BY <2>2, <3>2 DEF Done
  <2> QED BY <2>1, <2>2 DEF PathInv, PathsComplete, NeverFallsOff
<1> QED BY <1>1, InitPath, NextPath, PTL DEF Spec
-----------------------------------------------------------------------------
(* A body ends the way its statements say.                                    *)

LEMMA UpTo ==
  ASSUME NEW N \in Nat, NEW X, 0 \in X, \A n \in 0 .. N - 1 : n \in X => n + 1 \in X
  PROVE  0 .. N \subseteq X
<1> DEFINE Y == {n \in 0 .. N : n \notin X}
<1> SUFFICES ASSUME Y # {} PROVE FALSE
  OBVIOUS
<1>1. PICK n \in Y : \A m \in Y : n <= m
  <2>1. Y \in SUBSET Nat
    OBVIOUS
  <2> HIDE DEF Y
  <2> QED BY <2>1, LeastNatural
<1>2. n \in 0 .. N /\ n \notin X
  OBVIOUS
<1>3. n # 0
  BY <1>2
<1>4. n - 1 \in 0 .. N - 1 /\ (n - 1) + 1 = n
  BY <1>2, <1>3
<1>5. n - 1 \notin X
  BY <1>2, <1>4
<1>6. n - 1 \in Y
  BY <1>4, <1>5
<1>7. n <= n - 1
  BY <1>1, <1>6
<1> QED BY <1>4, <1>7

(* The ends an item makes of the end of what is before it, with c calls left       *)
(* after it.                                                                *)
Passes(s, e, c, bodies, in) ==
  CASE s.op = "end_call" -> {AfterCall(e)}
    [] s.op = "end_try"  -> IF e.how = "reverted" THEN Outcomes(bodies, in)[<<s.catch, s.snap, c>>] ELSE {e}
    [] s.op = "else"     -> IF e.how = "next" /\ ~True(s.cond, in, e.store)
                            THEN Outcomes(bodies, in)[<<s.body, e.store, c>>] ELSE {e}
    [] OTHER             -> IF e.how = "next" THEN EndsOf(s, e.store, c, bodies, in, Outcomes(bodies, in))
                            ELSE {e}

(* Ends for every place of what is left to run, each passed on to ends of the       *)
(* next, and the last of them ends that f may come to.                         *)
CallsLeft(t, k) == MaxCalls - Depth(From(t, k))
Ways(t, bodies, in) ==
  {A \in [1 .. Len(t) + 1 -> SUBSET Ends] :
     /\ \A k \in 1 .. Len(t) : \A e \in A[k] : Passes(t[k], e, CallsLeft(t, k), bodies, in) \subseteq A[k + 1]
     /\ A[Len(t) + 1] \subseteq Outcomes(bodies, in)[<<bodies.f, New, MaxCalls>>]}

(* The ends from which it goes on as written.                                  *)
Leading(t, bodies, in) == UNION {A[1] : A \in Ways(t, bodies, in)}

LEMMA WayFacts ==
  ASSUME NEW t, NEW bodies, NEW in, NEW A \in Ways(t, bodies, in)
  PROVE  /\ A \in [1 .. Len(t) + 1 -> SUBSET Ends]
         /\ \A k \in 1 .. Len(t) : \A e \in A[k] :
              Passes(t[k], e, CallsLeft(t, k), bodies, in) \subseteq A[k + 1]
         /\ A[Len(t) + 1] \subseteq Outcomes(bodies, in)[<<bodies.f, New, MaxCalls>>]
BY DEF Ways

LEMMA LeadingNone ==
  ASSUME NEW bodies, \A m \in Methods : bodies[m] \in Code, bodies.f = bodies["f"], NEW in \in Input
  PROVE  Leading(<<>>, bodies, in) = Outcomes(bodies, in)[<<bodies.f, New, MaxCalls>>]
<1> DEFINE O == Outcomes(bodies, in)[<<bodies.f, New, MaxCalls>>]
           A == [k \in 1 .. 1 |-> O]
<1>1. O \subseteq Ends
  <2>1. <<bodies.f, New, MaxCalls>> \in Points
    BY StoreFacts, CallsAssumption DEF Points, Methods
  <2> QED BY <2>1, OutcomesClosed
<1> HIDE DEF O
<1>2. Len(<<>>) = 0
  OBVIOUS
<1>3. A \in [1 .. 0 + 1 -> SUBSET Ends] /\ A[0 + 1] = O /\ A[1] = O
  BY <1>1
<1>4. Ways(<<>>, bodies, in) =
        {B \in [1 .. 0 + 1 -> SUBSET Ends] :
           /\ \A k \in 1 .. 0 : \A e \in B[k] : Passes(<<>>[k], e, CallsLeft(<<>>, k), bodies, in) \subseteq B[k + 1]
           /\ B[0 + 1] \subseteq O}
  BY <1>2 DEF Ways, O
<1>5. \A k \in 1 .. 0 : FALSE
  OBVIOUS
<1> HIDE DEF A
<1>6. A \in Ways(<<>>, bodies, in)
  BY <1>3, <1>4, <1>5
<1>7. ASSUME NEW B \in Ways(<<>>, bodies, in) PROVE B[1] \subseteq O
  <2>1. B[0 + 1] \subseteq O
    BY <1>4
  <2> QED BY <2>1
<1>8. Leading(<<>>, bodies, in) = O
  BY <1>3, <1>6, <1>7 DEF Leading
<1> QED BY <1>8 DEF O

LEMMA FromFrom ==
  ASSUME NEW t \in Seq(Items), NEW n \in 0 .. Len(t), NEW k \in 0 .. Len(t) - n
  PROVE  From(From(t, n), k) = From(t, k + n)
<1>1. <<>> \in Seq(Items) /\ Len(<<>>) = 0 /\ Len(t) \in Nat
  OBVIOUS
<1>2. From(t, n) \in Seq(Items)
  BY FromFacts
<1>3. <<>> \o From(t, n) = From(t, n)
  BY <1>2, ConcatEmptySeq
<1>4. k \in 0 .. 0 + Len(t) - n /\ k - 0 + n = k + n
  BY <1>1
<1> DEFINE z == <<>>
<1>5. z \in Seq(Items) /\ Len(z) = 0 /\ z \o From(t, n) = From(t, n)
  BY <1>1, <1>3
<1> HIDE DEF z
<1>6. From(z \o From(t, n), k) = From(t, k - Len(z) + n)
  BY <1>4, <1>5, FromJoin
<1> QED BY <1>4, <1>5, <1>6

LEMMA LeadingItem ==
  ASSUME NEW t \in Seq(Items), t # <<>>, NEW bodies, NEW in, NEW e
  PROVE  e \in Leading(t, bodies, in) <=>
           e \in Ends /\ Passes(t[1], e, CallsLeft(t, 1), bodies, in) \subseteq Leading(From(t, 1), bodies, in)
<1> DEFINE r == From(t, 1)
           L == Len(r)
<1>1. Len(t) \in Nat \ {0} /\ 1 \in 0 .. Len(t)
  BY EmptySeq
<1>2. r \in Seq(Items) /\ L = Len(t) - 1 /\ \A i \in 1 .. Len(t) - 1 : r[i] = t[i + 1]
  BY <1>1, FromFacts
<1>3. \A k \in 0 .. Len(t) - 1 : From(r, k) = From(t, k + 1)
  BY <1>1, FromFrom
<1> HIDE DEF r
<1>4. L \in Nat /\ Len(t) = L + 1
  BY <1>1, <1>2
<1>5. \A k \in 1 .. L : r[k] = t[k + 1] /\ CallsLeft(r, k) = CallsLeft(t, k + 1)
  BY <1>2, <1>3, <1>4 DEF CallsLeft
<1>6. ASSUME NEW A \in Ways(t, bodies, in), e \in A[1]
      PROVE  e \in Ends /\ Passes(t[1], e, CallsLeft(t, 1), bodies, in) \subseteq Leading(r, bodies, in)
  <2> DEFINE B == [k \in 1 .. L + 1 |-> A[k + 1]]
  <2>1. A \in [1 .. L + 2 -> SUBSET Ends]
    <3>1. A \in [1 .. Len(t) + 1 -> SUBSET Ends]
      BY WayFacts
    <3>2. Len(t) + 1 = L + 2
      BY <1>4
    <3> QED BY <3>1, <3>2
  <2>2. \A k \in 1 .. L + 1 : \A d \in A[k] :
          Passes(t[k], d, CallsLeft(t, k), bodies, in) \subseteq A[k + 1]
    BY <1>4, WayFacts
  <2>3. A[L + 2] \subseteq Outcomes(bodies, in)[<<bodies.f, New, MaxCalls>>]
    <3>1. A[Len(t) + 1] \subseteq Outcomes(bodies, in)[<<bodies.f, New, MaxCalls>>]
      BY WayFacts
    <3>2. Len(t) + 1 = L + 2
      BY <1>4
    <3> QED BY <3>1, <3>2
  <2>4. B \in [1 .. L + 1 -> SUBSET Ends]
    <3> SUFFICES ASSUME NEW k \in 1 .. L + 1 PROVE A[k + 1] \in SUBSET Ends
      OBVIOUS
    <3>1. k + 1 \in 1 .. L + 2
      BY <1>4
    <3> QED BY <2>1, <3>1
  <2>5. \A k \in 1 .. L + 1 : B[k] = A[k + 1]
    OBVIOUS
  <2> HIDE DEF B
  <2>6. ASSUME NEW k \in 1 .. L, NEW d \in B[k]
        PROVE  Passes(r[k], d, CallsLeft(r, k), bodies, in) \subseteq B[k + 1]
    <3>1. k \in 1 .. L + 1 /\ k + 1 \in 1 .. L + 1
      BY <1>4
    <3>2. d \in A[k + 1]
      BY <2>5, <3>1
    <3>3. Passes(t[k + 1], d, CallsLeft(t, k + 1), bodies, in) \subseteq A[(k + 1) + 1]
      BY <2>2, <3>1, <3>2
    <3>4. B[k + 1] = A[(k + 1) + 1]
      BY <2>5, <3>1
    <3> QED BY <1>5, <3>3, <3>4
  <2>7. B[L + 1] = A[L + 2] /\ B[1] = A[2]
    <3>1. L + 1 \in 1 .. L + 1 /\ 1 \in 1 .. L + 1 /\ (L + 1) + 1 = L + 2 /\ 1 + 1 = 2
      BY <1>4
    <3>2. B[L + 1] = A[(L + 1) + 1] /\ B[1] = A[1 + 1]
      BY <2>5, <3>1
    <3> QED BY <3>1, <3>2
  <2>8. B \in Ways(r, bodies, in)
    BY <2>3, <2>4, <2>6, <2>7 DEF Ways
  <2>9. Passes(t[1], e, CallsLeft(t, 1), bodies, in) \subseteq A[2]
    <3>1. 1 \in 1 .. L + 1 /\ 1 + 1 = 2
      BY <1>4
    <3>2. Passes(t[1], e, CallsLeft(t, 1), bodies, in) \subseteq A[1 + 1]
      BY <1>6, <2>2, <3>1
    <3> QED BY <3>1, <3>2
  <2>10. e \in Ends
    <3>1. 1 \in 1 .. L + 2
      BY <1>4
    <3> QED BY <1>6, <2>1, <3>1
  <2> QED BY <2>7, <2>8, <2>9, <2>10 DEF Leading
<1>7. ASSUME e \in Ends, Passes(t[1], e, CallsLeft(t, 1), bodies, in) \subseteq Leading(r, bodies, in)
      PROVE  e \in Leading(t, bodies, in)
  <2> DEFINE W(k) == UNION {A[k] : A \in Ways(r, bodies, in)}
             B == [k \in 1 .. L + 2 |-> IF k = 1 THEN {e} ELSE W(k - 1)]
  <2>1. \A A \in Ways(r, bodies, in) : \A k \in 1 .. L + 1 : A[k] \subseteq Ends
    <3> SUFFICES ASSUME NEW A \in Ways(r, bodies, in), NEW k \in 1 .. L + 1 PROVE A[k] \subseteq Ends
      OBVIOUS
    <3>1. A \in [1 .. L + 1 -> SUBSET Ends]
      BY WayFacts
    <3> QED BY <3>1
  <2>2. \A k \in 1 .. L + 1 : W(k) \subseteq Ends
    BY <2>1
  <2>3. ASSUME NEW k \in 1 .. L, NEW d \in W(k)
        PROVE  Passes(r[k], d, CallsLeft(r, k), bodies, in) \subseteq W(k + 1)
    <3>1. PICK A \in Ways(r, bodies, in) : d \in A[k]
      OBVIOUS
    <3>2. Passes(r[k], d, CallsLeft(r, k), bodies, in) \subseteq A[k + 1]
      BY <3>1, WayFacts
    <3> QED BY <3>2
  <2>4. W(L + 1) \subseteq Outcomes(bodies, in)[<<bodies.f, New, MaxCalls>>]
    <3> SUFFICES ASSUME NEW A \in Ways(r, bodies, in)
                 PROVE  A[L + 1] \subseteq Outcomes(bodies, in)[<<bodies.f, New, MaxCalls>>]
      OBVIOUS
    <3> QED BY WayFacts
  <2>5. Leading(r, bodies, in) = W(1)
    BY DEF Leading
  <2> HIDE DEF W
  <2>6. /\ \A k \in 2 .. L + 2 : B[k] = W(k - 1)
        /\ B[1] = {e}
    BY <1>4
  <2>7. B \in [1 .. L + 2 -> SUBSET Ends]
    <3> SUFFICES ASSUME NEW k \in 1 .. L + 2 PROVE (IF k = 1 THEN {e} ELSE W(k - 1)) \in SUBSET Ends
      OBVIOUS
    <3>1. CASE k = 1
      BY <1>7, <3>1
    <3>2. CASE k # 1
      <4>1. k - 1 \in 1 .. L + 1
        BY <1>4, <3>2
      <4> QED BY <2>2, <3>2, <4>1
    <3> QED BY <3>1, <3>2
  <2> HIDE DEF B
  <2>8. ASSUME NEW k \in 1 .. L + 1, NEW d \in B[k]
        PROVE  Passes(t[k], d, CallsLeft(t, k), bodies, in) \subseteq B[k + 1]
    <3>1. CASE k = 1
      <4>1. d = e
        BY <2>6, <3>1
      <4>2. 2 \in 2 .. L + 2 /\ 2 - 1 = 1 /\ k + 1 = 2
        BY <1>4, <3>1
      <4>3. B[k + 1] = W(1)
        BY <2>6, <4>2
      <4> QED BY <1>7, <2>5, <3>1, <4>1, <4>3
    <3>2. CASE k # 1
      <4> DEFINE j == k - 1
      <4>1. j \in 1 .. L /\ j + 1 = k /\ k \in 2 .. L + 2 /\ k + 1 \in 2 .. L + 2 /\ (k + 1) - 1 = j + 1
        BY <1>4, <3>2
      <4>2. B[k] = W(k - 1) /\ B[k + 1] = W((k + 1) - 1)
        BY <2>6, <4>1
      <4>3. B[k] = W(j) /\ B[k + 1] = W(j + 1)
        BY <4>1, <4>2
      <4> HIDE DEF j
      <4>4. Passes(r[j], d, CallsLeft(r, j), bodies, in) \subseteq W(j + 1)
        BY <2>3, <4>1, <4>3
      <4>5. r[j] = t[k] /\ CallsLeft(r, j) = CallsLeft(t, k)
        BY <1>5, <4>1
      <4> QED BY <4>3, <4>4, <4>5
    <3> QED BY <3>1, <3>2
  <2>9. B[L + 2] \subseteq Outcomes(bodies, in)[<<bodies.f, New, MaxCalls>>]
    <3>1. L + 2 \in 2 .. L + 2 /\ (L + 2) - 1 = L + 1
      BY <1>4
    <3>2. B[L + 2] = W((L + 2) - 1)
      BY <2>6, <3>1
    <3> QED BY <2>4, <3>1, <3>2
  <2>10. B \in Ways(t, bodies, in)
    <3>1. Len(t) = L + 1 /\ Len(t) + 1 = L + 2
      BY <1>4
    <3> QED BY <2>7, <2>8, <2>9, <3>1 DEF Ways
  <2> QED BY <2>6, <2>10 DEF Leading
<1>8. e \in Leading(t, bodies, in) => \E A \in Ways(t, bodies, in) : e \in A[1]
  BY DEF Leading
<1> QED BY <1>6, <1>7, <1>8 DEF r

LEMMA LeadingMark ==
  ASSUME NEW t \in Seq(Items), NEW x \in Items, NEW bodies, NEW in, NEW e \in Ends,
         Passes(x, e, MaxCalls - Depth(t), bodies, in) \subseteq Leading(t, bodies, in)
  PROVE  e \in Leading(<<x>> \o t, bodies, in)
<1> DEFINE y == <<x>>
           u == y \o t
<1>1. y \in Seq(Items) /\ Len(y) = 1 /\ y[1] = x
  OBVIOUS
<1> HIDE DEF y
<1>2. Len(t) \in Nat /\ 0 \in 0 .. Len(t) /\ From(t, 0) = t
  BY SubSeqFull DEF From
<1>3. u \in Seq(Items) /\ Len(u) = Len(y) + Len(t) - 0 /\ \A i \in 1 .. Len(y) : u[i] = y[i]
  <2>1. y \o From(t, 0) = u
    BY <1>2
  <2> HIDE DEF u
  <2>2. u \in Seq(Items)
    BY <1>1, <1>2, <2>1, JoinFacts
  <2>3. Len(u) = Len(y) + Len(t) - 0
    BY <1>1, <1>2, <2>1, JoinFacts
  <2>4. \A i \in 1 .. Len(y) : u[i] = y[i]
    BY <1>1, <1>2, <2>1, JoinFacts
  <2> QED BY <2>2, <2>3, <2>4
<1>4. From(u, 1) = t
  <2>1. 1 \in Len(y) .. Len(y) + Len(t) - 0 /\ 1 - Len(y) + 0 = 0
    BY <1>1, <1>2
  <2>2. From(y \o From(t, 0), 1) = From(t, 1 - Len(y) + 0)
    BY <1>1, <1>2, <2>1, FromJoin
  <2> QED BY <1>2, <2>1, <2>2
<1> HIDE DEF u
<1>5. u # <<>> /\ u[1] = x
  BY <1>1, <1>2, <1>3, EmptySeq
<1>6. CallsLeft(u, 1) = MaxCalls - Depth(t)
  BY <1>4 DEF CallsLeft
<1>7. e \in Leading(u, bodies, in)
  BY <1>3, <1>4, <1>5, <1>6, LeadingItem
<1> QED BY <1>7 DEF u, y

(* An end that items pass on unchanged leads from before them to after them.     *)
LEMMA LeadingSkip ==
  ASSUME NEW t \in Seq(Items), NEW n \in 0 .. Len(t), NEW m \in n .. Len(t), NEW bodies, NEW in, NEW e,
         e \in Leading(From(t, n), bodies, in),
         \A j \in n + 1 .. m : Passes(t[j], e, CallsLeft(t, j), bodies, in) = {e}
  PROVE  e \in Leading(From(t, m), bodies, in)
<1> DEFINE X == {k \in 0 .. m - n : e \in Leading(From(t, n + k), bodies, in)}
<1>1. n \in Nat /\ m \in Nat /\ Len(t) \in Nat /\ m - n \in Nat /\ m <= Len(t) /\ n + 0 = n /\ n + (m - n) = m
  OBVIOUS
<1>2. 0 \in X
  BY <1>1
<1>3. ASSUME NEW k \in 0 .. (m - n) - 1, k \in X PROVE k + 1 \in X
  <2> DEFINE j == n + k
             u == From(t, j)
  <2>1. /\ j \in 0 .. Len(t) /\ j + 1 \in n + 1 .. m /\ 1 \in 1 .. Len(t) - j /\ 1 \in 0 .. Len(t) - j
        /\ n + (k + 1) = j + 1 /\ k + 1 \in 0 .. m - n /\ 1 + j = j + 1 /\ Len(t) - j # 0
    BY <1>1
  <2>2. e \in Leading(u, bodies, in)
    BY <1>3
  <2> HIDE DEF X, j
  <2>3. u \in Seq(Items) /\ Len(u) = Len(t) - j
    BY <2>1, FromFacts
  <2>4. u[1] = t[1 + j]
    BY <2>1, FromFacts
  <2>5. From(u, 1) = From(t, 1 + j)
    BY <2>1, FromFrom
  <2> HIDE DEF u
  <2>6. u # <<>>
    BY <2>1, <2>3, EmptySeq
  <2>7. u[1] = t[j + 1] /\ From(u, 1) = From(t, j + 1) /\ CallsLeft(u, 1) = CallsLeft(t, j + 1)
    BY <2>1, <2>4, <2>5 DEF CallsLeft
  <2>8. Passes(u[1], e, CallsLeft(u, 1), bodies, in) = {e}
    BY <2>1, <2>7
  <2>9. e \in Leading(From(u, 1), bodies, in)
    BY <2>2, <2>3, <2>6, <2>8, LeadingItem
  <2>10. e \in Leading(From(t, j + 1), bodies, in)
    BY <2>7, <2>9
  <2> QED BY <2>1, <2>10 DEF X
<1> HIDE DEF X
<1>4. 0 .. m - n \subseteq X
  BY <1>1, <1>2, <1>3, UpTo
<1>5. m - n \in X
  BY <1>1, <1>4
<1> QED BY <1>1, <1>5 DEF X

(* A statement passes an end that is no "next" on.                             *)
LEMMA StatementPasses ==
  ASSUME NEW s \in Statements, NEW e, NEW c, NEW bodies, NEW in
  PROVE  /\ e.how = "next" => Passes(s, e, c, bodies, in) = EndsOf(s, e.store, c, bodies, in, Outcomes(bodies, in))
         /\ e.how # "next" => Passes(s, e, c, bodies, in) = {e}
BY StatementFacts DEF Passes

(* A block whose outcomes all lead on may be put before what is left.           *)
LEMMA LeadingBlock ==
  ASSUME NEW t \in Seq(Items), NEW bodies, \A m \in Methods : bodies[m] \in Code, NEW in \in Input,
         NEW b \in Code, NEW st \in Store, MaxCalls - Depth(t) \in Calls,
         Outcomes(bodies, in)[<<b, st, MaxCalls - Depth(t)>>] \subseteq Leading(t, bodies, in)
  PROVE  End("next", st) \in Leading(b \o t, bodies, in)
<1> DEFINE c == MaxCalls - Depth(t)
           o == Outcomes(bodies, in)
           G(u) == Leading(u, bodies, in)
           N == Len(b)
           OK(n, e) == IF e.how = "next" THEN o[<<From(b, n), e.store, c>>] \subseteq G(t) ELSE e \in G(t)
           X == {k \in 0 .. N : \A e \in Ends : OK(N - k, e) => e \in G(From(b, N - k) \o t)}
<1>1. N \in Nat /\ b \in Seq(Items) /\ b \in Seq(Statements) /\ c \in Calls
  BY CodeFacts, CodeItems
<1>2. \A s \in Store :
        /\ End("next", s) \in o[<<From(b, N), s, c>>]
        /\ \A n \in 0 .. N - 1 : \A e \in EndsOf(b[n + 1], s, c, bodies, in, o) :
             IF e.how = "next" THEN o[<<From(b, n + 1), e.store, c>>] \subseteq o[<<From(b, n), s, c>>]
             ELSE e \in o[<<From(b, n), s, c>>]
  BY <1>1, OutcomesOf
<1>3. \A n \in 0 .. N - 1 : \A s \in Store : EndsOf(b[n + 1], s, c, bodies, in, o) \subseteq Ends
  <2> SUFFICES ASSUME NEW n \in 0 .. N - 1, NEW s \in Store
               PROVE  EndsOf(b[n + 1], s, c, bodies, in, o) \subseteq Ends
    OBVIOUS
  <2>1. n + 1 \in DOMAIN b
    BY <1>1
  <2>2. b[n + 1] \in Statements
    BY <2>1, CodeFacts
  <2>3. \A p \in Points : o[p] \subseteq Ends
    BY OutcomesClosed
  <2> HIDE DEF o, c
  <2> QED BY <1>1, <2>2, <2>3, EndsTyped
<1>4. MaxCalls - Depth(t) = c /\ o[<<b, st, c>>] \subseteq G(t)
  OBVIOUS
<1>5. o = Outcomes(bodies, in)
  OBVIOUS
<1> HIDE DEF c, o
<1>6. 0 \in X
  <2> SUFFICES ASSUME NEW e \in Ends, OK(N - 0, e) PROVE e \in G(From(b, N - 0) \o t)
    BY <1>1
  <2>1. N - 0 = N /\ From(b, N) = <<>> /\ <<>> \o t = t
    BY <1>1, BlockParts, ConcatEmptySeq
  <2>2. CASE e.how = "next"
    <3>1. e = End("next", e.store) /\ e.store \in Store
      BY <2>2, EndIs
    <3>2. e \in o[<<From(b, N), e.store, c>>]
      BY <1>2, <3>1
    <3>3. o[<<From(b, N), e.store, c>>] \subseteq G(t)
      BY <2>1, <2>2
    <3> HIDE DEF G
    <3> QED BY <2>1, <3>2, <3>3
  <2>3. CASE e.how # "next"
    <3>1. e \in G(t)
      BY <2>3
    <3> HIDE DEF G
    <3> QED BY <2>1, <3>1
  <2> QED BY <2>2, <2>3
<1>7. ASSUME NEW k \in 0 .. N - 1, k \in X PROVE k + 1 \in X
  <2> DEFINE n == N - (k + 1)
  <2>1. n \in 0 .. N - 1 /\ n + 1 \in 0 .. N /\ N - k = n + 1 /\ k + 1 \in 0 .. N /\ n \in 0 .. N
    BY <1>1
  <2>2. \A d \in Ends : OK(n + 1, d) => d \in G(From(b, n + 1) \o t)
    BY <1>7, <2>1
  <2> HIDE DEF n
  <2> DEFINE x == b[n + 1]
             r == From(b, n + 1) \o t
  <2>3. x \in Statements /\ x \in Items
    <3>1. n + 1 \in DOMAIN b
      BY <1>1, <2>1
    <3> QED BY <3>1, CodeFacts DEF Items
  <2>4. From(b, n) \o t = <<x>> \o r
    <3>1. n + 1 \in 1 .. Len(b) /\ Len(b) \in n + 1 .. Len(b)
      BY <1>1, <2>1
    <3>2. SubSeq(b, n + 1, Len(b)) = <<b[n + 1]>> \o SubSeq(b, (n + 1) + 1, Len(b))
      BY <1>1, <3>1, SubSeqRecursiveFirst
    <3>3. From(b, n) = <<x>> \o From(b, n + 1)
      BY <3>2 DEF From
    <3>4. From(b, n + 1) \in Seq(Items) /\ <<x>> \in Seq(Items)
      BY <1>1, <2>1, <2>3, FromFacts
    <3> HIDE DEF x
    <3> QED BY <3>3, <3>4, ConcatAssociative
  <2>5. r \in Seq(Items) /\ Depth(r) = Depth(t)
    <3>1. From(b, n + 1) \in Code
      BY <2>1, BlockParts
    <3>2. From(b, n + 1) \in Seq(Items) /\ Depth(From(b, n + 1)) = 0
      BY <3>1, CodeItems, DepthParts
    <3>3. Depth(r) = Depth(From(b, n + 1)) + Depth(t)
      BY <3>2, DepthJoin
    <3>4. Depth(t) \in Nat
      BY DepthType
    <3> QED BY <3>2, <3>3, <3>4, ConcatProperties
  <2> SUFFICES ASSUME NEW e \in Ends, OK(n, e) PROVE e \in G(<<x>> \o r)
    BY <2>1, <2>4 DEF n
  <2>6. Passes(x, e, c, bodies, in) \subseteq G(r)
    <3>1. CASE e.how = "next"
      <4>1. e.store \in Store /\ o[<<From(b, n), e.store, c>>] \subseteq G(t)
        BY <3>1, EndIs
      <4>2. Passes(x, e, c, bodies, in) = EndsOf(x, e.store, c, bodies, in, o)
        BY <1>5, <2>3, <3>1, StatementPasses
      <4> SUFFICES ASSUME NEW d \in EndsOf(x, e.store, c, bodies, in, o) PROVE d \in G(r)
        BY <4>2
      <4>3. d \in Ends
        BY <1>3, <2>1, <4>1
      <4>4. IF d.how = "next" THEN o[<<From(b, n + 1), d.store, c>>] \subseteq o[<<From(b, n), e.store, c>>]
            ELSE d \in o[<<From(b, n), e.store, c>>]
        BY <1>2, <2>1, <4>1
      <4>5. OK(n + 1, d)
        BY <4>1, <4>4
      <4> HIDE DEF OK, G, x
      <4> QED BY <2>2, <4>3, <4>5
    <3>2. CASE e.how # "next"
      <4>1. Passes(x, e, c, bodies, in) = {e}
        BY <2>3, <3>2, StatementPasses
      <4>2. OK(n + 1, e)
        BY <3>2
      <4> HIDE DEF OK, G
      <4> QED BY <2>2, <4>1, <4>2
    <3> QED BY <3>1, <3>2
  <2> HIDE DEF x, r
  <2>7. MaxCalls - Depth(r) = c
    BY <1>4, <2>5
  <2> QED BY <2>3, <2>5, <2>6, <2>7, LeadingMark
<1>8. 0 .. N \subseteq X
  <2> HIDE DEF X, N
  <2> QED BY <1>1, <1>6, <1>7, UpTo
<1>9. N \in X /\ N - N = 0
  BY <1>1, <1>8
<1>10. \A e \in Ends : OK(0, e) => e \in G(From(b, 0) \o t)
  BY <1>9
<1>11. From(b, 0) = b
  BY BlockParts
<1>12. End("next", st) \in Ends /\ End("next", st).how = "next" /\ End("next", st).store = st
  BY EndFacts
<1>13. OK(0, End("next", st))
  BY <1>4, <1>11, <1>12
<1> HIDE DEF OK
<1> QED BY <1>10, <1>11, <1>12, <1>13

LEMMA LeadingPast ==
  ASSUME NEW t \in Seq(Items), NEW i \in 1 .. Len(t), NEW bodies, NEW in, NEW e,
         e \in Leading(From(t, i - 1), bodies, in)
  PROVE  e \in Ends /\ Passes(t[i], e, CallsLeft(t, i), bodies, in) \subseteq Leading(From(t, i), bodies, in)
<1> DEFINE n == i - 1
           u == From(t, n)
<1>1. Len(t) \in Nat /\ n \in 0 .. Len(t) /\ 1 \in 1 .. Len(t) - n /\ 1 \in 0 .. Len(t) - n /\ 1 + n = i /\ Len(t) - n # 0
  OBVIOUS
<1>2. e \in Leading(u, bodies, in)
  OBVIOUS
<1> HIDE DEF n
<1>3. u \in Seq(Items) /\ Len(u) = Len(t) - n
  BY <1>1, FromFacts
<1>4. u[1] = t[1 + n]
  BY <1>1, FromFacts
<1>5. From(u, 1) = From(t, 1 + n)
  BY <1>1, FromFrom
<1> HIDE DEF u
<1>6. u # <<>> /\ u[1] = t[i] /\ From(u, 1) = From(t, i) /\ CallsLeft(u, 1) = CallsLeft(t, i)
  BY <1>1, <1>3, <1>4, <1>5, EmptySeq DEF CallsLeft
<1> QED BY <1>2, <1>3, <1>6, LeadingItem

(* f goes on as written.                                                     *)
OnTrack == End("next", store) \in Leading(todo, body, input)
Then == Leading(From(todo, 1), body, input)
CallsThen == MaxCalls - Depth(From(todo, 1))
Out == Outcomes(body, input)
Stays == End("next", store') \in Leading(todo', body, input)

LEMMA Bounded ==
  ASSUME TodoOK, NEW i \in 0 .. Len(todo)
  PROVE  From(todo, i) \in Seq(Items) /\ MaxCalls - Depth(From(todo, i)) \in Calls
<1>1. todo \in Seq(Items) /\ Depth(todo) <= MaxCalls
  BY DEF TodoOK, TypeOK
<1>2. From(todo, i) \in Seq(Items)
  BY <1>1, FromFacts
<1>3. Depth(From(todo, i)) <= Depth(todo) /\ Depth(From(todo, i)) \in Nat /\ Depth(todo) \in Nat
  BY <1>1, <1>2, DepthParts, DepthType
<1> QED BY <1>1, <1>2, <1>3, CallsAssumption DEF Calls

LEMMA HereLeads ==
  ASSUME TodoOK, OnTrack, NEW ops, At(ops)
  PROVE  /\ S \in Items /\ S = todo[1] /\ Rest = From(todo, 1) /\ 1 \in 1 .. Len(todo) /\ 1 \in 0 .. Len(todo)
         /\ store \in Store /\ input \in Input /\ (\A m \in Methods : body[m] \in Code)
         /\ From(todo, 1) \in Seq(Items) /\ CallsThen \in Calls
         /\ Passes(S, End("next", store), CallsThen, body, input) \subseteq Then
         /\ S \in Statements => EndsOf(S, store, CallsThen, body, input, Out) \subseteq Then
<1>1. /\ S \in Items /\ S = todo[1] /\ Rest = From(todo, 1) /\ 1 \in 1 .. Len(todo) /\ 1 \in 0 .. Len(todo)
      /\ todo # <<>> /\ todo \in Seq(Items)
  BY Here DEF TodoOK
<1>2. store \in Store /\ input \in Input /\ \A m \in Methods : body[m] \in Code
  BY BodyFacts DEF TodoOK, TypeOK, BodiesOK
<1>3. From(todo, 1) \in Seq(Items) /\ CallsThen \in Calls
  BY <1>1, Bounded DEF CallsThen
<1>4. Passes(S, End("next", store), CallsThen, body, input) \subseteq Then
  BY <1>1, LeadingItem DEF OnTrack, CallsThen, CallsLeft, Then
<1>5. End("next", store).how = "next" /\ End("next", store).store = store
  BY <1>2, EndFacts
<1>6. S \in Statements => EndsOf(S, store, CallsThen, body, input, Out) \subseteq Then
  BY <1>4, <1>5, StatementPasses DEF Out
<1> QED BY <1>1, <1>2, <1>3, <1>4, <1>6

(* What an end passes on its way to where it is caught.                         *)
LEMMA OnItsWay ==
  ASSUME NEW s \in Items, NEW e \in Ends, NEW c, NEW bodies, NEW in,
         \/ e.how = "reverted" /\ s.op # "end_try"
         \/ e.how = "returned" /\ s.op # "end_call"
  PROVE  Passes(s, e, c, bodies, in) = {e}
<1>1. CASE s \in Statements
  BY <1>1, StatementPasses
<1>2. CASE s \notin Statements
  <2>1. s.op \in {"end_call", "end_try", "else"}
    BY <1>2, MarkFacts
  <2> QED BY <2>1 DEF Passes, AfterCall
<1> QED BY <1>1, <1>2

LEMMA Reverts ==
  ASSUME TodoOK, NEW ops, At(ops), S.op # "end_try", Fails,
         End("reverted", store) \in Then
  PROVE  \/ how' = "reverted" /\ End("reverted", store) \in Out[<<body.f, New, MaxCalls>>]
         \/ how' = how /\ Stays
<1> DEFINE e == End("reverted", store)
<1>1. /\ e \in Ends /\ e.how = "reverted" /\ e \in Leading(From(todo, 1), body, input)
      /\ todo \in Seq(Items) /\ Len(todo) \in Nat \ {0} /\ DOMAIN todo = 1 .. Len(todo) /\ S = todo[1]
      /\ 1 \in 0 .. Len(todo)
  <2>1. store \in Store
    BY DEF TodoOK, TypeOK
  <2> QED BY <2>1, Here, EndFacts DEF Then, TodoOK
<1>2. input \in Input /\ (\A m \in Methods : body[m] \in Code) /\ body.f = body["f"]
  BY BodyFacts DEF TodoOK, BodiesOK
<1> HIDE DEF e
<1>3. ASSUME NEW m \in 1 .. Len(todo), \A j \in 2 .. m : todo[j].op # "end_try"
      PROVE  e \in Leading(From(todo, m), body, input)
  <2>1. ASSUME NEW j \in 1 + 1 .. m PROVE Passes(todo[j], e, CallsLeft(todo, j), body, input) = {e}
    <3>1. j \in 2 .. m /\ j \in DOMAIN todo
      BY <1>1
    <3>2. todo[j] \in Items /\ todo[j].op # "end_try"
      BY <1>1, <1>3, <3>1
    <3> QED BY <1>1, <3>2, OnItsWay
  <2> QED BY <1>1, <2>1, LeadingSkip
<1>4. CASE ~Marked("end_try")
  <2>1. e \in Leading(From(todo, Len(todo)), body, input)
    <3>1. \A j \in 2 .. Len(todo) : todo[j].op # "end_try"
      BY <1>1, <1>4 DEF Marked
    <3> QED BY <1>1, <1>3, <3>1
  <2>2. From(todo, Len(todo)) = <<>>
    <3>1. From(todo, Len(todo)) \in Seq(Items) /\ Len(From(todo, Len(todo))) = Len(todo) - Len(todo)
      BY <1>1, FromFacts
    <3>2. Len(todo) - Len(todo) = 0
      BY <1>1
    <3> QED BY <3>1, <3>2, EmptySeq
  <2>3. e \in Out[<<body.f, New, MaxCalls>>]
    BY <1>2, <2>1, <2>2, LeadingNone DEF Out
  <2>4. how' = "reverted"
    BY <1>4, FailsFacts
  <2> QED BY <2>3, <2>4 DEF e
<1>5. CASE Marked("end_try")
  <2>1. PICK i \in DOMAIN todo : /\ i = First({"end_try"}) /\ todo[i].op = "end_try"
                                 /\ todo' = todo[i].catch \o From(todo, i)
                                 /\ store' = todo[i].snap /\ how' = how
    BY <1>5, FailsFacts
  <2>2. \A j \in DOMAIN todo : j < i => todo[j].op # "end_try"
    BY <1>5, <2>1, FirstFacts
  <2>3. i \in 1 .. Len(todo) /\ i # 1 /\ i - 1 \in 1 .. Len(todo) /\ i \in 0 .. Len(todo)
    BY <1>1, <2>1
  <2>4. e \in Leading(From(todo, i - 1), body, input)
    <3>1. \A j \in 2 .. i - 1 : j \in DOMAIN todo /\ j < i
      BY <1>1, <2>3
    <3> QED BY <1>3, <2>2, <2>3, <3>1
  <2>5. Passes(todo[i], e, CallsLeft(todo, i), body, input) \subseteq Leading(From(todo, i), body, input)
    BY <1>1, <2>3, <2>4, LeadingPast
  <2> DEFINE c == MaxCalls - Depth(From(todo, i))
             b == todo[i].catch
             st == todo[i].snap
  <2>6. Passes(todo[i], e, CallsLeft(todo, i), body, input) = Outcomes(body, input)[<<b, st, c>>]
    BY <1>1, <2>1 DEF Passes, CallsLeft
  <2>7. b \in Code /\ st \in Store
    BY <1>1, <2>1, SeqItem, MarkFacts
  <2>8. From(todo, i) \in Seq(Items) /\ c \in Calls
    BY <2>3, Bounded
  <2>9. todo' = b \o From(todo, i) /\ store' = st
    BY <2>1
  <2> HIDE DEF b, st
  <2>10. End("next", st) \in Leading(b \o From(todo, i), body, input)
    BY <1>2, <2>5, <2>6, <2>7, <2>8, LeadingBlock
  <2> QED BY <2>1, <2>9, <2>10 DEF Stays
<1> QED BY <1>4, <1>5

LEMMA Returns ==
  ASSUME TodoOK, OnTrack, Return
  PROVE  \/ how' = "returned" /\ End("returned", store') \in Out[<<body.f, New, MaxCalls>>]
         \/ how' = how /\ Stays
<1> DEFINE e == End("returned", store)
<1>1. At({"return"}) /\ S \in Statements /\ S.op = "return"
  BY Here, MarkFacts DEF Return
<1>2. /\ store \in Store /\ input \in Input /\ (\A m \in Methods : body[m] \in Code) /\ body.f = body["f"]
      /\ EndsOf(S, store, CallsThen, body, input, Out) \subseteq Then
      /\ todo \in Seq(Items) /\ Len(todo) \in Nat \ {0} /\ DOMAIN todo = 1 .. Len(todo) /\ S = todo[1]
      /\ 1 \in 0 .. Len(todo)
  BY <1>1, HereLeads, Here, BodyFacts DEF TodoOK
<1>3. e \in Leading(From(todo, 1), body, input) /\ e \in Ends /\ e.how = "returned" /\ e.store = store
  <2>1. e \in Ends /\ e.how = "returned" /\ e.store = store
    BY <1>2, EndFacts
  <2>2. EndsOf(S, store, CallsThen, body, input, Out) = {e}
    BY <1>1 DEF EndsOf
  <2> QED BY <1>2, <2>1, <2>2 DEF Then
<1> HIDE DEF e
<1>4. ASSUME NEW m \in 1 .. Len(todo), \A j \in 2 .. m : todo[j].op # "end_call"
      PROVE  e \in Leading(From(todo, m), body, input)
  <2>1. ASSUME NEW j \in 1 + 1 .. m PROVE Passes(todo[j], e, CallsLeft(todo, j), body, input) = {e}
    <3>1. j \in 2 .. m /\ j \in DOMAIN todo
      BY <1>2
    <3>2. todo[j] \in Items /\ todo[j].op # "end_call"
      BY <1>2, <1>4, <3>1
    <3> QED BY <1>3, <3>2, OnItsWay
  <2> QED BY <1>2, <1>3, <2>1, LeadingSkip
<1>5. CASE ~Marked("end_call")
  <2>1. e \in Leading(From(todo, Len(todo)), body, input)
    <3>1. \A j \in 2 .. Len(todo) : todo[j].op # "end_call"
      BY <1>2, <1>5 DEF Marked
    <3> QED BY <1>2, <1>4, <3>1
  <2>2. From(todo, Len(todo)) = <<>>
    <3>1. From(todo, Len(todo)) \in Seq(Items) /\ Len(From(todo, Len(todo))) = Len(todo) - Len(todo)
      BY <1>2, FromFacts
    <3>2. Len(todo) - Len(todo) = 0
      BY <1>2
    <3> QED BY <3>1, <3>2, EmptySeq
  <2>3. e \in Out[<<body.f, New, MaxCalls>>]
    BY <1>2, <2>1, <2>2, LeadingNone DEF Out
  <2>4. how' = "returned" /\ store' = store
    BY <1>5, ReturnMoves
  <2> QED BY <2>3, <2>4 DEF e
<1>6. CASE Marked("end_call")
  <2>1. PICK h \in DOMAIN todo : /\ h = First({"end_call"}) /\ todo[h].op = "end_call"
                                 /\ todo' = From(todo, h) /\ how' = how
    BY <1>6, ReturnMoves
  <2>2. store' = store
    BY ReturnMoves
  <2>3. \A j \in DOMAIN todo : j < h => todo[j].op # "end_call"
    BY <1>6, <2>1, FirstFacts
  <2>4. h \in 1 .. Len(todo) /\ h # 1 /\ h - 1 \in 1 .. Len(todo)
    BY <1>1, <1>2, <2>1
  <2>5. e \in Leading(From(todo, h - 1), body, input)
    <3>1. \A j \in 2 .. h - 1 : j \in DOMAIN todo /\ j < h
      BY <1>2, <2>4
    <3> QED BY <1>4, <2>3, <2>4, <3>1
  <2>6. Passes(todo[h], e, CallsLeft(todo, h), body, input) \subseteq Leading(From(todo, h), body, input)
    BY <1>2, <2>4, <2>5, LeadingPast
  <2>7. Passes(todo[h], e, CallsLeft(todo, h), body, input) = {End("next", store)}
    BY <1>3, <2>1 DEF Passes, AfterCall
  <2> QED BY <2>1, <2>2, <2>6, <2>7 DEF Stays
<1> QED BY <1>5, <1>6

LEMMA TurnEnds ==
  ASSUME NEW s, s.op \in {"while", "for"}, NEW st \in Store, NEW c, NEW bodies, NEW in, NEW o,
         s.op = "for" \/ True(s.cond, in, st), NEW d \in Ends, d \in o[<<s.body, st, c>>]
  PROVE  /\ d.how = "next" => EndsOf(s, d.store, c, bodies, in, o) \subseteq EndsOf(s, st, c, bodies, in, o)
         /\ d.how # "next" => d \in EndsOf(s, st, c, bodies, in, o)
<1> DEFINE T == LoopTurns(s, c, in, o)
<1>1. st \in LoopGoes(s, in)
  BY DEF LoopGoes
<1>2. <<st, d>> \in T
  BY <1>1 DEF LoopTurns
<1>3. \A x : EndsOf(s, x, c, bodies, in, o) =
               {End("next", t) : t \in LoopTests(x, T) \cap LoopStops(s, in)}
               \cup {x2[2] : x2 \in {y \in T : y[1] \in LoopTests(x, T) /\ y[2].how # "next"}}
  BY LoopEnds
<1> HIDE DEF T
<1>4. st \in LoopTests(st, T)
  BY DEF LoopTests
<1>5. ASSUME d.how # "next" PROVE d \in EndsOf(s, st, c, bodies, in, o)
  <2> DEFINE y == <<st, d>>
  <2>1. y \in T /\ y[1] = st /\ y[2] = d
    BY <1>2
  <2> HIDE DEF y
  <2> QED BY <1>3, <1>4, <1>5, <2>1
<1>6. ASSUME d.how = "next" PROVE LoopTests(d.store, T) \subseteq LoopTests(st, T)
  <2>1. ASSUME NEW heads, LoopClosed(heads, T), st \in heads PROVE d.store \in heads
    <3> DEFINE y == <<st, d>>
    <3>1. y \in T /\ y[1] = st /\ y[2] = d
      BY <1>2
    <3> HIDE DEF y
    <3> QED BY <1>6, <2>1, <3>1 DEF LoopClosed
  <2> QED BY <2>1 DEF LoopTests
<1>7. ASSUME d.how = "next"
      PROVE  EndsOf(s, d.store, c, bodies, in, o) \subseteq EndsOf(s, st, c, bodies, in, o)
  BY <1>3, <1>6, <1>7
<1> QED BY <1>5, <1>7

LEMMA StopEnds ==
  ASSUME NEW s, s.op \in {"while", "for"}, NEW st \in Store, NEW c, NEW bodies, NEW in, NEW o,
         s.op = "for" \/ ~True(s.cond, in, st)
  PROVE  End("next", st) \in EndsOf(s, st, c, bodies, in, o)
<1> DEFINE T == LoopTurns(s, c, in, o)
<1>1. EndsOf(s, st, c, bodies, in, o) =
        {End("next", t) : t \in LoopTests(st, T) \cap LoopStops(s, in)}
        \cup {x[2] : x \in {y \in T : y[1] \in LoopTests(st, T) /\ y[2].how # "next"}}
  BY LoopEnds
<1> HIDE DEF T
<1>2. st \in LoopTests(st, T) /\ st \in LoopStops(s, in)
  BY DEF LoopTests, LoopStops
<1> QED BY <1>1, <1>2

LEMMA SameDepth ==
  ASSUME TodoOK, NEW ops, At(ops), S.op # "end_call"
  PROVE  MaxCalls - Depth(todo) = CallsThen
<1>1. /\ todo \in Seq(Items) /\ Len(todo) \in Nat \ {0} /\ S = todo[1] /\ S \in Items
      /\ 1 \in 0 .. Len(todo) /\ todo = From(todo, 0)
  BY Here DEF TodoOK
<1>2. todo = <<S>> \o From(todo, 1)
  <2>1. 0 + 1 \in 1 .. Len(todo) /\ Len(todo) \in 0 + 1 .. Len(todo) /\ 0 + 1 = 1
    BY <1>1
  <2>2. SubSeq(todo, 0 + 1, Len(todo)) = <<todo[0 + 1]>> \o SubSeq(todo, (0 + 1) + 1, Len(todo))
    BY <1>1, <2>1, SubSeqRecursiveFirst
  <2> DEFINE x == From(todo, 0)
  <2>3. x = <<todo[1]>> \o From(todo, 1)
    BY <2>1, <2>2 DEF From
  <2>4. x = todo
    BY <1>1
  <2> HIDE DEF x
  <2> QED BY <1>1, <2>3, <2>4
<1>3. From(todo, 1) \in Seq(Items) /\ <<S>> \in Seq(Items)
  BY <1>1, FromFacts
<1>4. Depth(<<S>>) = 0
  BY <1>1, DepthParts
<1>5. Depth(<<S>> \o From(todo, 1)) = Depth(<<S>>) + Depth(From(todo, 1))
  <2> DEFINE y == <<S>>
  <2>1. y \in Seq(Items)
    BY <1>3
  <2> HIDE DEF y
  <2>2. Depth(y \o From(todo, 1)) = Depth(y) + Depth(From(todo, 1))
    BY <1>3, <2>1, DepthJoin
  <2> QED BY <2>2 DEF y
<1>6. Depth(From(todo, 1)) \in Nat
  BY <1>3, DepthType
<1>7. Depth(todo) = Depth(From(todo, 1))
  <2> DEFINE y == <<S>> \o From(todo, 1)
  <2>1. Depth(y) = Depth(From(todo, 1))
    BY <1>4, <1>5, <1>6
  <2>2. y = todo
    BY <1>2
  <2> HIDE DEF y
  <2> QED BY <2>1, <2>2
<1> QED BY <1>7 DEF CallsThen

LEMMA LoopLeads ==
  ASSUME TodoOK, OnTrack, UNCHANGED program, store' = store, At({"while", "for"}),
         \/ todo' = S.body \o todo /\ (S.op = "for" \/ True(S.cond, input, store))
         \/ todo' = Rest /\ (S.op = "for" \/ ~True(S.cond, input, store))
  PROVE  Stays
<1>1. S \in Statements /\ S.op \in {"while", "for"} /\ todo # <<>> /\ todo \in Seq(Items) /\ S = todo[1]
  BY Here, MarkFacts DEF TodoOK
<1>2. /\ store \in Store /\ input \in Input /\ (\A m \in Methods : body[m] \in Code)
      /\ CallsThen \in Calls /\ EndsOf(S, store, CallsThen, body, input, Out) \subseteq Then
      /\ Rest = From(todo, 1)
  BY <1>1, HereLeads
<1>3. body' = body /\ input' = input
  BY DEF program
<1>4. CASE todo' = S.body \o todo /\ (S.op = "for" \/ True(S.cond, input, store))
  <2>1. S.body \in Code
    BY <1>1, StatementFacts
  <2>2. MaxCalls - Depth(todo) = CallsThen
    BY <1>1, SameDepth
  <2>3. Out[<<S.body, store, CallsThen>>] \subseteq Ends
    <3>1. <<S.body, store, CallsThen>> \in Points
      BY <1>2, <2>1 DEF Points, Calls
    <3> QED BY <1>2, <3>1, OutcomesClosed DEF Out
  <2>4. ASSUME NEW d \in Out[<<S.body, store, CallsThen>>] PROVE d \in Leading(todo, body, input)
    <3>1. d \in Ends
      BY <2>3
    <3>2. /\ d.how = "next" => EndsOf(S, d.store, CallsThen, body, input, Out) \subseteq Then
          /\ d.how # "next" => d \in Then
      BY <1>1, <1>2, <1>4, <3>1, TurnEnds
    <3>3. Passes(S, d, CallsThen, body, input) \subseteq Then
      <4>1. CASE d.how = "next"
        BY <1>1, <3>2, <4>1, StatementPasses DEF Out
      <4>2. CASE d.how # "next"
        BY <1>1, <3>2, <4>2, StatementPasses
      <4> QED BY <4>1, <4>2
    <3> QED BY <1>1, <3>1, <3>3, LeadingItem DEF CallsThen, CallsLeft, Then
  <2> DEFINE b == S.body
  <2>5. b \in Code /\ Out[<<b, store, CallsThen>>] \subseteq Leading(todo, body, input) /\ todo' = b \o todo
    BY <1>4, <2>1, <2>4
  <2> HIDE DEF b
  <2>6. End("next", store) \in Leading(b \o todo, body, input)
    BY <1>1, <1>2, <2>2, <2>5, LeadingBlock DEF Out
  <2> QED BY <1>3, <2>5, <2>6 DEF Stays
<1>5. CASE todo' = Rest /\ (S.op = "for" \/ ~True(S.cond, input, store))
  <2>1. End("next", store) \in EndsOf(S, store, CallsThen, body, input, Out)
    BY <1>1, <1>2, <1>5, StopEnds
  <2> QED BY <1>2, <1>3, <1>5, <2>1 DEF Stays, Then
<1> QED BY <1>4, <1>5

(* Blocks and marks put before the rest.                                       *)
LEMMA PutBlock ==
  ASSUME TodoOK, NEW t \in Seq(Items), MaxCalls - Depth(t) \in Calls, NEW b \in Code,
         Out[<<b, store, MaxCalls - Depth(t)>>] \subseteq Leading(t, body, input)
  PROVE  End("next", store) \in Leading(b \o t, body, input)
<1>1. store \in Store /\ input \in Input /\ \A m \in Methods : body[m] \in Code
  BY BodyFacts DEF TodoOK, TypeOK, BodiesOK
<1> QED BY <1>1, LeadingBlock DEF Out

LEMMA OutEnds ==
  ASSUME TodoOK, NEW b \in Code, NEW c \in Calls
  PROVE  Out[<<b, store, c>>] \subseteq Ends
<1>1. store \in Store /\ input \in Input /\ \A m \in Methods : body[m] \in Code
  BY BodyFacts DEF TodoOK, TypeOK, BodiesOK
<1>2. <<b, store, c>> \in Points
  BY <1>1 DEF Points, Calls
<1> QED BY <1>1, <1>2, OutcomesClosed DEF Out

LEMMA TryLeads ==
  ASSUME TodoOK, OnTrack, Try
  PROVE  Stays
<1> DEFINE x == EndTry(S.catch, store)
           b == S.body
           r == From(todo, 1)
           c == CallsThen
           t == <<x>> \o r
<1>1. At({"try"}) /\ S \in Statements /\ S.op = "try"
  BY Here, MarkFacts DEF Try
<1>2. /\ store \in Store /\ c \in Calls /\ EndsOf(S, store, c, body, input, Out) \subseteq Then
      /\ r \in Seq(Items) /\ Rest = r
  BY <1>1, HereLeads
<1>3. b \in Code /\ S.catch \in Code
  BY <1>1, StatementFacts
<1>4. x \in Items /\ x.op = "end_try" /\ x.catch = S.catch /\ x.snap = store
  BY <1>2, <1>3, NewMarks DEF EndTry
<1>5. EndsOf(S, store, c, body, input, Out) =
        UNION {IF e.how = "reverted" THEN Out[<<S.catch, store, c>>] ELSE {e} : e \in Out[<<b, store, c>>]}
  BY <1>1, TryEnds
<1>6. todo' = (b \o <<x>>) \o r /\ UNCHANGED program /\ store' = store
  BY <1>2 DEF Try, Continue
<1>7. c = MaxCalls - Depth(r) /\ Then = Leading(r, body, input)
  BY DEF CallsThen, Then
<1> HIDE DEF x, r, c
<1>8. t \in Seq(Items) /\ MaxCalls - Depth(t) = c
  <2> DEFINE y == <<x>>
  <2>1. y \in Seq(Items) /\ Depth(y) = 0
    BY <1>4, DepthParts
  <2> HIDE DEF y
  <2>2. y \o r \in Seq(Items) /\ Depth(y \o r) = Depth(y) + Depth(r) /\ Depth(r) \in Nat
    BY <1>2, <2>1, DepthJoin, DepthType, ConcatProperties
  <2> QED BY <1>7, <2>1, <2>2 DEF y
<1>9. (b \o <<x>>) \o r = b \o t
  <2> DEFINE y == <<x>>
  <2>1. b \in Seq(Items) /\ y \in Seq(Items)
    BY <1>3, <1>4, CodeItems
  <2>2. t = y \o r
    OBVIOUS
  <2> HIDE DEF y, b, t
  <2>3. (b \o y) \o r = b \o (y \o r)
    BY <1>2, <2>1, ConcatAssociative
  <2> QED BY <2>2, <2>3 DEF y
<1>10. ASSUME NEW d \in Out[<<b, store, c>>] PROVE d \in Leading(t, body, input)
  <2>1. d \in Ends
    BY <1>2, <1>3, OutEnds
  <2>2. Passes(x, d, c, body, input) = IF d.how = "reverted" THEN Out[<<S.catch, store, c>>] ELSE {d}
    BY <1>4 DEF Passes, Out
  <2>3. Passes(x, d, c, body, input) \subseteq Leading(r, body, input)
    BY <1>2, <1>5, <1>7, <2>2
  <2> QED BY <1>2, <1>4, <1>7, <2>1, <2>3, LeadingMark
<1> HIDE DEF t, b
<1>11. End("next", store) \in Leading(b \o t, body, input)
  BY <1>2, <1>3, <1>8, <1>10, PutBlock
<1> QED BY <1>6, <1>9, <1>11 DEF Stays, program

(* A block in front of a mark: what the mark makes of its ends goes on.            *)
LEMMA Enclosed ==
  ASSUME TodoOK, UNCHANGED program, store' = store,
         NEW b \in Code, NEW x \in Items, NEW r \in Seq(Items), NEW c \in Calls, NEW c2 \in Calls,
         todo' = (b \o <<x>>) \o r, c = MaxCalls - Depth(r), c2 = MaxCalls - Depth(<<x>> \o r),
         \A d \in Out[<<b, store, c2>>] : Passes(x, d, c, body, input) \subseteq Leading(r, body, input)
  PROVE  Stays
<1> DEFINE y == <<x>>
           t == y \o r
<1>1. b \in Seq(Items) /\ y \in Seq(Items)
  BY CodeItems
<1>2. todo' = (b \o y) \o r /\ c2 = MaxCalls - Depth(y \o r)
  OBVIOUS
<1> HIDE DEF y
<1>3. todo' = b \o t /\ t \in Seq(Items)
  <2>1. (b \o y) \o r = b \o (y \o r)
    BY <1>1, ConcatAssociative
  <2>2. y \o r \in Seq(Items)
    BY <1>1, ConcatProperties
  <2> QED BY <1>2, <2>1, <2>2
<1>4. ASSUME NEW d \in Out[<<b, store, c2>>] PROVE d \in Leading(t, body, input)
  <2>1. d \in Ends
    BY OutEnds
  <2>2. Passes(x, d, MaxCalls - Depth(r), body, input) \subseteq Leading(r, body, input)
    OBVIOUS
  <2>3. d \in Leading(<<x>> \o r, body, input)
    BY <2>1, <2>2, LeadingMark
  <2> QED BY <2>3 DEF y
<1>5. MaxCalls - Depth(t) = c2
  BY <1>2
<1> HIDE DEF t
<1>6. End("next", store) \in Leading(b \o t, body, input)
  BY <1>3, <1>4, <1>5, PutBlock
<1> QED BY <1>3, <1>6 DEF Stays, program

LEMMA MarkDepth ==
  ASSUME NEW x \in Items, NEW r \in Seq(Items)
  PROVE  Depth(<<x>> \o r) = (IF x.op = "end_call" THEN Depth(r) + 1 ELSE Depth(r)) /\ Depth(r) \in Nat
<1> DEFINE y == <<x>>
<1>1. y \in Seq(Items)
  OBVIOUS
<1>2. Depth(y) = (IF x.op = "end_call" THEN 1 ELSE 0)
  <2>1. CASE x.op = "end_call"
    <3>1. x \in Marks
      BY <2>1, MarkFacts DEF Items
    <3>2. \E m \in Methods : x = EndCall(m)
      BY <2>1, <3>1 DEF Marks, EndCall
    <3> QED BY <2>1, <3>2, DepthParts
  <2>2. CASE x.op # "end_call"
    BY <2>2, DepthParts
  <2> QED BY <2>1, <2>2
<1> HIDE DEF y
<1>3. Depth(y \o r) = Depth(y) + Depth(r) /\ Depth(r) \in Nat
  BY <1>1, DepthJoin, DepthType
<1>4. y = <<x>>
  BY DEF y
<1> QED BY <1>2, <1>3, <1>4

LEMMA CallLeads ==
  ASSUME TodoOK, OnTrack, Call
  PROVE  \/ how' = "reverted" /\ End("reverted", store) \in Out[<<body.f, New, MaxCalls>>]
         \/ how' = how /\ Stays
<1> DEFINE x == EndCall(S.to)
           b == body[S.to]
           r == From(todo, 1)
           c == CallsThen
<1>1. At({"call"}) /\ S \in Statements /\ S.op = "call" /\ S.to \in Methods
  BY CallMoves DEF Call
<1>2. /\ store \in Store /\ c \in Calls /\ EndsOf(S, store, c, body, input, Out) \subseteq Then
      /\ r \in Seq(Items) /\ Rest = r /\ b \in Code
  BY <1>1, HereLeads
<1>3. MaxCalls - Depth(todo) = c /\ c = MaxCalls - Depth(r) /\ Then = Leading(r, body, input)
  BY <1>1, SameDepth DEF CallsThen, Then
<1>4. Depth(todo) \in Nat /\ MaxCalls \in Nat
  BY DepthType, CallsAssumption DEF TodoOK
<1>5. CASE StackFull(todo)
  <2>1. c = 0
    BY <1>3, <1>4, <1>5 DEF StackFull
  <2>2. EndsOf(S, store, c, body, input, Out) = {End("reverted", store)}
    BY <1>1, <2>1, LastCallEnds
  <2>3. End("reverted", store) \in Then
    BY <1>2, <2>2
  <2>4. Fails
    BY <1>5 DEF Call
  <2> QED BY <1>1, <2>3, <2>4, Reverts
<1>6. CASE ~StackFull(todo)
  <2>1. c # 0 /\ c - 1 \in Calls
    <3>1. c # 0
      BY <1>3, <1>4, <1>6 DEF StackFull
    <3> HIDE DEF c
    <3> QED BY <1>2, <1>4, <3>1 DEF Calls
  <2>2. x \in Items /\ x.op = "end_call"
    BY <1>1, NewMarks DEF EndCall
  <2>3. todo' = (b \o <<x>>) \o r /\ UNCHANGED program /\ store' = store /\ how' = how
    BY <1>2, <1>6 DEF Call, Continue
  <2>4. EndsOf(S, store, c, body, input, Out) = {AfterCall(e) : e \in Out[<<b, store, c - 1>>]}
    BY <1>1, <2>1, CallEnds
  <2> HIDE DEF x, r, c, b
  <2>5. c - 1 = MaxCalls - Depth(<<x>> \o r)
    BY <1>2, <1>3, <1>4, <2>2, MarkDepth
  <2>6. ASSUME NEW d \in Out[<<b, store, c - 1>>]
        PROVE  Passes(x, d, c, body, input) \subseteq Leading(r, body, input)
    <3>1. Passes(x, d, c, body, input) = {AfterCall(d)}
      BY <2>2 DEF Passes
    <3> QED BY <1>2, <1>3, <2>4, <3>1
  <2>7. Stays
    BY <1>2, <1>3, <2>1, <2>2, <2>3, <2>5, <2>6, Enclosed
  <2> QED BY <2>3, <2>7
<1> QED BY <1>5, <1>6

LEMMA IfLeads ==
  ASSUME TodoOK, OnTrack, If, S.else # <<>> => S.cond = "param"
  PROVE  Stays
<1> DEFINE x == Else(S)
           b == IF True(S.cond, input, store) THEN S.then ELSE S.else
           r == From(todo, 1)
           c == CallsThen
<1>1. At({"if"}) /\ S \in Statements /\ S.op = "if" /\ S.then \in Code /\ S.else \in Code
  BY Here, MarkFacts, StatementFacts DEF If
<1>2. /\ store \in Store /\ c \in Calls /\ EndsOf(S, store, c, body, input, Out) \subseteq Then
      /\ r \in Seq(Items) /\ Rest = r /\ b \in Code
  BY <1>1, HereLeads
<1>3. c = MaxCalls - Depth(r) /\ Then = Leading(r, body, input)
  BY DEF CallsThen, Then
<1>4. EndsOf(S, store, c, body, input, Out) = Out[<<b, store, c>>]
  BY <1>1, IfEnds
<1>5. /\ todo' = ((IF True(S.cond, input, store) THEN S.then ELSE <<>>)
                  \o (IF S.else = <<>> THEN <<>> ELSE <<x>>)) \o r
      /\ UNCHANGED program /\ store' = store
  BY <1>2 DEF If, Continue
<1> HIDE DEF x, r, c
<1>6. CASE S.else = <<>>
  <2>1. todo' = (b \o <<>>) \o r
    BY <1>5, <1>6
  <2>2. Out[<<b, store, c>>] \subseteq Leading(r, body, input)
    BY <1>2, <1>3, <1>4
  <2> HIDE DEF b
  <2>3. b \in Seq(Items)
    BY <1>2, CodeItems
  <2>4. todo' = b \o r
    BY <2>1, <2>3, ConcatEmptySeq
  <2>5. End("next", store) \in Leading(b \o r, body, input)
    BY <1>2, <1>3, <2>2, PutBlock
  <2> QED BY <1>5, <2>4, <2>5 DEF Stays, program
<1>7. CASE S.else # <<>>
  <2>1. x \in Items /\ x.op = "else" /\ x.cond = "param" /\ x.body = S.else
    <3>1. x \in Items
      BY <1>1, NewMarks DEF x
    <3> QED BY <1>7, <3>1 DEF Else, x
  <2>2. c = MaxCalls - Depth(<<x>> \o r)
    BY <1>2, <1>3, <2>1, MarkDepth
  <2>3. CASE True(S.cond, input, store)
    <3>1. todo' = (b \o <<x>>) \o r
      BY <1>5, <1>7, <2>3
    <3>2. \A st : True(x.cond, input, st)
      BY <1>7, <2>1, <2>3 DEF True
    <3> HIDE DEF b
    <3>3. ASSUME NEW d \in Out[<<b, store, c>>]
          PROVE  Passes(x, d, c, body, input) \subseteq Leading(r, body, input)
      <4>1. Passes(x, d, c, body, input) = {d}
        BY <2>1, <3>2 DEF Passes
      <4> QED BY <1>2, <1>3, <1>4, <4>1
    <3> QED BY <1>2, <1>3, <1>5, <2>1, <2>2, <3>1, <3>3, Enclosed
  <2>4. CASE ~True(S.cond, input, store)
    <3>1. todo' = <<x>> \o r
      <4> DEFINE y == <<x>>
      <4>1. y \in Seq(Items) /\ todo' = (<<>> \o y) \o r
        BY <1>5, <1>7, <2>1, <2>4
      <4> HIDE DEF y
      <4>2. todo' = y \o r
        BY <4>1, ConcatEmptySeq
      <4> QED BY <4>2 DEF y
    <3>2. ~True(x.cond, input, store)
      BY <1>7, <2>1, <2>4
    <3>3. End("next", store) \in Ends /\ End("next", store).how = "next" /\ End("next", store).store = store
      BY <1>2, EndFacts
    <3>4. Passes(x, End("next", store), c, body, input) = Out[<<S.else, store, c>>]
      BY <2>1, <3>2, <3>3 DEF Passes, Out
    <3>5. Out[<<S.else, store, c>>] \subseteq Leading(r, body, input)
      BY <1>2, <1>3, <1>4, <2>4
    <3>6. End("next", store) \in Leading(<<x>> \o r, body, input)
      BY <1>2, <1>3, <2>1, <3>3, <3>4, <3>5, LeadingMark
    <3> QED BY <1>5, <3>1, <3>6 DEF Stays, program
  <2> QED BY <2>3, <2>4
<1> QED BY <1>6, <1>7

LEMMA ElseLeads ==
  ASSUME TodoOK, OnTrack, ElseTest
  PROVE  Stays
<1> DEFINE r == From(todo, 1)
           c == CallsThen
<1>1. At({"else"}) /\ S \in Items /\ S.op = "else" /\ S.body \in Code
  BY Here, MarkFacts DEF ElseTest
<1>2. /\ store \in Store /\ c \in Calls /\ Passes(S, End("next", store), c, body, input) \subseteq Then
      /\ r \in Seq(Items) /\ Rest = r
  BY <1>1, HereLeads
<1>3. c = MaxCalls - Depth(r) /\ Then = Leading(r, body, input)
  BY DEF CallsThen, Then
<1>4. End("next", store).how = "next" /\ End("next", store).store = store
  BY <1>2, EndFacts
<1>5. todo' = (IF True(S.cond, input, store) THEN <<>> ELSE S.body) \o r /\ UNCHANGED program /\ store' = store
  BY <1>2 DEF ElseTest, Continue
<1> HIDE DEF r, c
<1>6. CASE True(S.cond, input, store)
  <2>1. todo' = r
    <3>1. todo' = <<>> \o r
      BY <1>5, <1>6
    <3> QED BY <1>2, <3>1, ConcatEmptySeq
  <2>2. Passes(S, End("next", store), c, body, input) = {End("next", store)}
    BY <1>1, <1>4, <1>6 DEF Passes
  <2> QED BY <1>2, <1>3, <1>5, <2>1, <2>2 DEF Stays, program
<1>7. CASE ~True(S.cond, input, store)
  <2> DEFINE b == S.body
  <2>1. Passes(S, End("next", store), c, body, input) = Out[<<b, store, c>>]
    BY <1>1, <1>4, <1>7 DEF Passes, Out
  <2>2. todo' = b \o r /\ b \in Code
    BY <1>1, <1>5, <1>7
  <2> HIDE DEF b
  <2>3. End("next", store) \in Leading(b \o r, body, input)
    BY <1>2, <1>3, <2>1, <2>2, PutBlock
  <2> QED BY <1>5, <2>2, <2>3 DEF Stays, program
<1> QED BY <1>6, <1>7

LEMMA MatchLeads ==
  ASSUME TodoOK, OnTrack, Match, \A i \in DOMAIN S.arms : S.arms[i].variant = i - 1
  PROVE  Stays
<1> DEFINE r == From(todo, 1)
           c == CallsThen
           b == ArmOf(S, input).body
<1>1. At({"match"}) /\ S \in Statements /\ S.op = "match"
  BY Here, MarkFacts DEF Match
<1>2. /\ store \in Store /\ input \in Input /\ c \in Calls /\ EndsOf(S, store, c, body, input, Out) \subseteq Then
      /\ r \in Seq(Items) /\ Rest = r
  BY <1>1, HereLeads
<1>3. c = MaxCalls - Depth(r) /\ Then = Leading(r, body, input)
  BY DEF CallsThen, Then
<1>4. b \in Code /\ ArmOf(S, input).variant = input.tag
  BY <1>1, <1>2, ArmOfFacts
<1>5. PICK i \in DOMAIN S.arms : ArmOf(S, input) = S.arms[i]
  BY <1>1, <1>2, ArmOfFacts
<1>6. ArmFor(S.arms, input.tag) = b
  <2>1. input.tag \in Bit
    BY <1>2 DEF Input
  <2>2. DOMAIN S.arms = 1 .. Len(S.arms)
    BY <1>1, StatementFacts
  <2>3. input.tag = i - 1 /\ i \in Int
    BY <1>4, <1>5, <2>2
  <2>4. input.tag + 1 = i
    BY <2>3
  <2> QED BY <1>5, <2>4 DEF ArmFor
<1>7. Out[<<b, store, c>>] \subseteq Leading(r, body, input)
  BY <1>1, <1>2, <1>3, MatchEnds
<1>8. todo' = b \o r /\ UNCHANGED program /\ store' = store
  BY <1>2, <1>6 DEF Match, Continue
<1> HIDE DEF b, r, c
<1>9. End("next", store) \in Leading(b \o r, body, input)
  BY <1>2, <1>3, <1>4, <1>7, PutBlock
<1> QED BY <1>8, <1>9 DEF Stays, program

LEMMA EndMarkLeads ==
  ASSUME TodoOK, OnTrack, EndMark
  PROVE  Stays
<1>1. At({"end_call", "end_try"}) /\ S \in Items /\ S.op \in {"end_call", "end_try"}
  BY Here DEF EndMark
<1>2. /\ store \in Store /\ Passes(S, End("next", store), CallsThen, body, input) \subseteq Then
      /\ Rest = From(todo, 1)
  BY <1>1, HereLeads
<1>3. End("next", store).how = "next"
  BY <1>2, EndFacts
<1>4. Passes(S, End("next", store), CallsThen, body, input) = {End("next", store)}
  BY <1>1, <1>3 DEF Passes, AfterCall
<1>5. todo' = From(todo, 1) /\ UNCHANGED program /\ store' = store
  BY <1>2 DEF EndMark, Continue
<1> QED BY <1>2, <1>4, <1>5 DEF Stays, Then, program

(* A statement that is done when its own action is.                             *)
LEMMA DoneLeads ==
  ASSUME TodoOK, OnTrack, NEW ops, At(ops), S \in Statements, UNCHANGED program, todo' = Rest,
         End("next", store') \in EndsOf(S, store, CallsThen, body, input, Out)
  PROVE  Stays
<1>1. Rest = From(todo, 1) /\ EndsOf(S, store, CallsThen, body, input, Out) \subseteq Then
  BY HereLeads
<1> QED BY <1>1 DEF Stays, Then, program

LEMMA SimpleLeads ==
  ASSUME TodoOK, OnTrack, Read \/ Assign \/ External
  PROVE  Stays
<1>1. CASE Read
  <2>1. At({"read"}) /\ S \in Statements /\ S.op = "read"
    BY <1>1, Here, MarkFacts DEF Read
  <2>2. UNCHANGED program /\ todo' = Rest /\ store' = store
    BY <1>1 DEF Read, Continue
  <2>3. End("next", store) \in EndsOf(S, store, CallsThen, body, input, Out)
    BY <2>1 DEF EndsOf
  <2> QED BY <2>1, <2>2, <2>3, DoneLeads
<1>2. CASE Assign
  <2>1. At({"set", "const"}) /\ S \in Statements /\ S.op \in {"set", "const"}
    BY <1>2, Here, MarkFacts DEF Assign
  <2>2. UNCHANGED program /\ todo' = Rest
    BY <1>2 DEF Assign, Continue
  <2>3. store' = IF S.op = "set" THEN [store EXCEPT !.field = S.to] ELSE [store EXCEPT !.assigned = TRUE]
    BY <1>2 DEF Assign
  <2>4. End("next", store') \in EndsOf(S, store, CallsThen, body, input, Out)
    BY <2>1, <2>3 DEF EndsOf
  <2> QED BY <2>1, <2>2, <2>4, DoneLeads
<1>3. CASE External
  <2>1. At({"external", "pay", "create"}) /\ S \in Statements /\ S.op \in {"external", "pay", "create"}
    BY <1>3, Here, MarkFacts DEF External
  <2>2. UNCHANGED program /\ todo' = Rest /\ store' = store
    BY <1>3 DEF External, Continue
  <2>3. End("next", store) \in EndsOf(S, store, CallsThen, body, input, Out)
    BY <2>1 DEF EndsOf
  <2> QED BY <2>1, <2>2, <2>3, DoneLeads
<1> QED BY <1>1, <1>2, <1>3

LEMMA FailLeads ==
  ASSUME TodoOK, OnTrack, ExternalFails \/ Revert
  PROVE  \/ how' = "reverted" /\ End("reverted", store) \in Out[<<body.f, New, MaxCalls>>]
         \/ how' = how /\ Stays
<1>1. /\ At({"external", "pay", "create", "revert"}) /\ S \in Statements
      /\ S.op \in {"external", "pay", "create", "revert"} /\ Fails
  <2>1. At({"external", "pay", "create", "revert"}) /\ Fails
    BY DEF ExternalFails, Revert, At
  <2> QED BY <2>1, Here, MarkFacts
<1>2. End("reverted", store) \in EndsOf(S, store, CallsThen, body, input, Out)
  BY <1>1 DEF EndsOf
<1>3. EndsOf(S, store, CallsThen, body, input, Out) \subseteq Then
  BY <1>1, HereLeads
<1> QED BY <1>1, <1>2, <1>3, Reverts

LEMMA HereOrdered ==
  ASSUME Ordered, TodoOK, FromMethods, NEW ops, At(ops), S.op \notin {"end_call", "end_try", "else"}
  PROVE  S \in Statements /\ OrderedStatement(S)
<1>1. 1 \in DOMAIN todo /\ S = todo[1] /\ S \in Statements
  BY Here, MarkFacts
<1>2. PICK m \in Methods : Counted(m) /\ Contents(todo[1]) \subseteq Inside[body[m]]
  BY <1>1 DEF FromMethods
<1>3. S \in Inside[body[m]]
  BY <1>1, <1>2, ContentsFacts
<1>4. body[m] \in Bodies \cup Helpers
  BY DEF TodoOK, BodiesOK, Methods
<1> QED BY <1>1, <1>3, <1>4 DEF Ordered

RunInv == TodoOK /\ FromMethods /\ (how = "running" => OnTrack) /\ RunsAsWritten

LEMMA EndsAsWritten ==
  ASSUME TodoOK
  PROVE  Out[<<body.f, New, MaxCalls>>] \subseteq Runs(body, input)[<<body.f, New, MaxCalls>>]
<1>1. input \in Input /\ (\A m \in Methods : body[m] \in Code) /\ body.f = body["f"]
  BY BodyFacts DEF TodoOK, BodiesOK
<1>2. <<body.f, New, MaxCalls>> \in Points
  BY <1>1, StoreFacts, CallsAssumption DEF Points, Methods
<1> QED BY <1>1, <1>2, OutcomesClosed DEF Out

LEMMA InitRun == Init => RunInv
<1> SUFFICES ASSUME Init PROVE RunInv
  OBVIOUS
<1>1. TodoOK /\ FromMethods
  BY InitJudge DEF JudgeInv
<1>2. /\ todo = body.f /\ body.f \in Code /\ how = "running" /\ store = New /\ input \in Input
      /\ (\A m \in Methods : body[m] \in Code) /\ body.f = body["f"]
  BY <1>1, BodyFacts DEF Init, TodoOK, BodiesOK, Methods
<1> DEFINE z == <<>>
           b == body.f
<1>3. z \in Seq(Items) /\ Depth(z) = 0 /\ MaxCalls - Depth(z) = MaxCalls /\ MaxCalls \in Calls
  BY DepthParts, CallsAssumption DEF Calls
<1>4. Leading(z, body, input) = Out[<<b, New, MaxCalls>>]
  BY <1>2, LeadingNone DEF Out
<1>5. b \in Code /\ b \in Seq(Items) /\ b \o z = b
  BY <1>2, CodeItems, ConcatEmptySeq
<1>6. todo = b
  BY <1>2
<1> HIDE DEF z, b
<1>7. End("next", store) \in Leading(b \o z, body, input)
  BY <1>1, <1>2, <1>3, <1>4, <1>5, PutBlock
<1>8. OnTrack
  BY <1>5, <1>6, <1>7 DEF OnTrack
<1> QED BY <1>1, <1>2, <1>8 DEF RunInv, RunsAsWritten

LEMMA RunStep ==
  ASSUME Ordered, TodoOK, FromMethods, OnTrack, Next
  PROVE  \/ how' = "running" /\ Stays
         \/ how' = "reverted" /\ End("reverted", store) \in Out[<<body.f, New, MaxCalls>>]
         \/ how' = "returned" /\ End("returned", store') \in Out[<<body.f, New, MaxCalls>>]
         \/ how' = "fell" /\ End("next", store') \in Out[<<body.f, New, MaxCalls>>]
<1>1. how = "running"
  BY NextRunning
<1>2. CASE Read \/ Assign \/ External
  <2>1. how' = how
    BY <1>2 DEF Read, Assign, External, Continue
  <2> QED BY <1>1, <1>2, <2>1, SimpleLeads
<1>3. CASE ExternalFails \/ Revert
  BY <1>1, <1>3, FailLeads
<1>4. CASE Return
  BY <1>1, <1>4, Returns
<1>5. CASE Call
  BY <1>1, <1>5, CallLeads
<1>6. CASE EndMark
  <2>1. how' = how
    BY <1>6 DEF EndMark, Continue
  <2> QED BY <1>1, <1>6, <2>1, EndMarkLeads
<1>7. CASE If
  <2>1. At({"if"}) /\ how' = how
    BY <1>7 DEF If, Continue
  <2>2. S.op = "if"
    BY <2>1, Here
  <2>3. OrderedStatement(S)
    BY <2>1, <2>2, HereOrdered
  <2>4. Stays
    BY <1>7, <2>2, <2>3, IfLeads DEF OrderedStatement
  <2> QED BY <1>1, <2>1, <2>4
<1>8. CASE ElseTest
  <2>1. how' = how
    BY <1>8 DEF ElseTest, Continue
  <2> QED BY <1>1, <1>8, <2>1, ElseLeads
<1>9. CASE While
  <2>1. At({"while", "for"}) /\ UNCHANGED program /\ store' = store /\ how' = how
    BY <1>9 DEF While, Continue, At
  <2>2. \/ todo' = S.body \o todo /\ True(S.cond, input, store)
        \/ todo' = Rest /\ ~True(S.cond, input, store)
    BY <1>9 DEF While, Continue
  <2>3. Stays
    BY <2>1, <2>2, LoopLeads
  <2> QED BY <1>1, <2>1, <2>3
<1>10. CASE For
  <2>1. At({"for"}) /\ At({"while", "for"}) /\ UNCHANGED program /\ store' = store /\ how' = how
    BY <1>10 DEF For, Continue, At
  <2>2. S.op = "for"
    BY <2>1, Here
  <2>3. todo' = S.body \o todo \/ todo' = Rest
    BY <1>10 DEF For, Continue
  <2>4. Stays
    BY <2>1, <2>2, <2>3, LoopLeads
  <2> QED BY <1>1, <2>1, <2>4
<1>11. CASE Match
  <2>1. At({"match"}) /\ how' = how
    BY <1>11 DEF Match, Continue
  <2>2. S.op = "match"
    BY <2>1, Here
  <2>3. OrderedStatement(S)
    BY <2>1, <2>2, HereOrdered
  <2>4. Stays
    BY <1>11, <2>2, <2>3, MatchLeads DEF OrderedStatement
  <2> QED BY <1>1, <2>1, <2>4
<1>12. CASE Try
  <2>1. how' = how
    BY <1>12 DEF Try, Continue
  <2> QED BY <1>1, <1>12, <2>1, TryLeads
<1>13. CASE FallOff
  <2>1. todo = <<>> /\ how' = "fell" /\ store' = store
    BY <1>13 DEF FallOff
  <2>2. input \in Input /\ (\A m \in Methods : body[m] \in Code) /\ body.f = body["f"]
    BY BodyFacts DEF TodoOK, BodiesOK
  <2>3. Leading(todo, body, input) = Out[<<body.f, New, MaxCalls>>]
    BY <2>1, <2>2, LeadingNone DEF Out
  <2> QED BY <2>1, <2>3 DEF OnTrack
<1> QED BY <1>2, <1>3, <1>4, <1>5, <1>6, <1>7, <1>8, <1>9, <1>10, <1>11, <1>12, <1>13 DEF Next

LEMMA NextRun ==
  ASSUME Ordered
  PROVE  RunInv /\ [Next]_vars => RunInv'
<1> SUFFICES ASSUME RunInv, [Next]_vars PROVE RunInv'
  OBVIOUS
<1>1. TodoOK /\ FromMethods /\ (how = "running" => OnTrack) /\ RunsAsWritten
  BY DEF RunInv
<1>2. TodoOK'
  BY <1>1, NextTodo
<1>3. CASE Next
  <2>1. UNCHANGED program /\ how = "running"
    BY <1>1, <1>3, NextRest, NextRunning
  <2>2. FromMethods'
    BY <1>1, <1>3, <2>1, NextMoves, FromMethodsStep
  <2>3. body' = body /\ input' = input
    BY <2>1 DEF program
  <2> DEFINE p == <<body.f, New, MaxCalls>>
  <2>4. \/ how' = "running" /\ Stays
        \/ how' = "reverted" /\ End("reverted", store) \in Out[p]
        \/ how' = "returned" /\ End("returned", store') \in Out[p]
        \/ how' = "fell" /\ End("next", store') \in Out[p]
    BY <1>1, <1>3, <2>1, RunStep
  <2>5. Out[p] \subseteq Runs(body, input)[p]
    BY <1>1, EndsAsWritten
  <2>6. (how = "running" => OnTrack)'
    BY <2>3, <2>4 DEF OnTrack, Stays
  <2>7. End("reverted", store).how = "reverted"
    BY DEF End
  <2> DEFINE R == Runs(body, input)
  <2>8. Runs(body, input)' = R /\ (body.f)' = body.f
    BY <2>3 DEF Runs
  <2>9. RunsAsWritten' <=>
          CASE how' = "running"  -> TRUE
            [] how' = "reverted" -> \E e \in R[p] : e.how = "reverted"
            [] OTHER -> End(IF how' = "fell" THEN "next" ELSE how', store') \in R[p]
    BY <2>8 DEF RunsAsWritten
  <2> HIDE DEF p, R
  <2>10. RunsAsWritten'
    BY <2>4, <2>5, <2>7, <2>9 DEF R
  <2> QED BY <1>2, <2>2, <2>6, <2>10 DEF RunInv
<1>4. CASE UNCHANGED vars
  <2>1. body' = body /\ input' = input /\ store' = store /\ todo' = todo /\ how' = how
    BY <1>4 DEF vars
  <2>2. FromMethods'
    BY <1>1, <2>1 DEF FromMethods, Counted, JudgedAsRun, EffectOf, CallsOutOf
  <2>3. OnTrack' <=> OnTrack
    BY <2>1 DEF OnTrack
  <2>4. RunsAsWritten'
    BY <1>1, <2>1 DEF RunsAsWritten, Runs
  <2> QED BY <1>1, <1>2, <2>1, <2>2, <2>3, <2>4 DEF RunInv
<1> QED BY <1>3, <1>4

(* A body ends the way its statements say, and leaves the storage they say it     *)
(* leaves, however deeply ifs, loops, matches, tries and calls of the two          *)
(* methods are nested, in every contract whose elses and matches are ordered.      *)
THEOREM BodiesRunAsWritten ==
  ASSUME Ordered
  PROVE  Spec => []RunsAsWritten
<1>1. RunInv => RunsAsWritten
  BY DEF RunInv
<1> QED BY <1>1, InitRun, NextRun, PTL DEF Spec
=============================================================================
