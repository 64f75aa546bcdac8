--------------------------- MODULE InheritanceProofs ---------------------------
(***************************************************************************)
(* Theorems about flatten_inheritance, for every set of classes and every      *)
(* program.                                                                  *)
(*                                                                         *)
(* A class is grounded if no way up from it comes to a cycle; of such a class   *)
(* Version and AllFields satisfy the equations they are written by, as going    *)
(* up leaves fewer ancestors.  A class that is flattened is Sound: it has what   *)
(* the declarations give it, it is guilty of nothing, and so are those above    *)
(* it.  A class under way has gathered what the parents met so far give         *)
(* (Gathered), and waits for the one above it on the stack.                  *)
(***************************************************************************)
EXTENDS Inheritance, FiniteSetTheorems, SequenceTheorems, WellFoundedInduction, TLAPS

(* Every nonempty set of natural numbers has a least element.                *)
LEMMA LeastNatural ==
  ASSUME NEW S \in SUBSET Nat, S # {}
  PROVE  \E n \in S : \A k \in S : n <= k
<1> DEFINE R == OpToRel(<, Nat)
<1>1. IsWellFoundedOn(R, Nat)
  BY NatLessThanWellFounded
<1>2. ASSUME NEW k \in Nat, NEW n \in Nat, k < n
      PROVE  <<k, n>> \in R
  BY <1>2 DEF OpToRel
<1> HIDE DEF R
<1>3. PICK n \in S : \A k \in S : ~ (<<k, n>> \in R)
  BY <1>1, WFMin
<1>4. ASSUME NEW k \in S
      PROVE  n <= k
  <2>1. k \in Nat /\ n \in Nat
    OBVIOUS
  <2>2. ~ (k < n)
    BY <1>2, <1>3, <2>1
  <2> QED BY <2>1, <2>2
<1> QED BY <1>4

(* The least member of a set of numbers is what Min gives.                   *)
LEMMA MinIsLeast ==
  ASSUME NEW S \in SUBSET Nat, S # {}
  PROVE  Min(S) \in S /\ \A k \in S : Min(S) <= k
<1>1. \E n \in S : \A k \in S : n <= k
  BY LeastNatural
<1> QED BY <1>1 DEF Min

-----------------------------------------------------------------------------
(***************************************************************************)
(* Lists of members.                                                         *)
(***************************************************************************)

(* The first member of a name.                                               *)
LEMMA NamedFirst ==
  ASSUME NEW T, NEW seq \in Seq(T), NEW name
  PROVE  \/ Named(seq, name) = 0 /\ \A i \in DOMAIN seq : seq[i].name # name
         \/ /\ Named(seq, name) \in DOMAIN seq /\ seq[Named(seq, name)].name = name
            /\ \A i \in DOMAIN seq : seq[i].name = name => Named(seq, name) <= i
<1> DEFINE I == {i \in 1 .. Len(seq) : seq[i].name = name}
<1>1. Named(seq, name) = IF I # {} THEN Min(I) ELSE 0
  BY DEF Named, SelectInSeq
<1>2. I \in SUBSET Nat /\ DOMAIN seq = 1 .. Len(seq)
  OBVIOUS
<1>3. CASE I = {}
  BY <1>1, <1>2, <1>3
<1>4. CASE I # {}
  <2>1. Min(I) \in I /\ \A k \in I : Min(I) <= k
    <3> HIDE DEF I
    <3> QED BY <1>2, <1>4, MinIsLeast
  <2>2. Named(seq, name) = Min(I)
    BY <1>1, <1>4
  <2>3. \A i \in DOMAIN seq : seq[i].name = name => i \in I
    BY <1>2
  <2>4. Min(I) \in DOMAIN seq /\ seq[Min(I)].name = name
    BY <2>1, <1>2
  <2> QED BY <2>1, <2>2, <2>3, <2>4
<1> QED BY <1>3, <1>4

LEMMA HasNamed ==
  ASSUME NEW T, NEW seq \in Seq(T), NEW name
  PROVE  /\ Has(seq, name) <=> \E e \in ToSet(seq) : e.name = name
         /\ Has(seq, name) => /\ Named(seq, name) \in DOMAIN seq
                              /\ seq[Named(seq, name)] \in ToSet(seq)
                              /\ seq[Named(seq, name)].name = name
<1>1. \/ Named(seq, name) = 0 /\ \A i \in DOMAIN seq : seq[i].name # name
      \/ Named(seq, name) \in DOMAIN seq /\ seq[Named(seq, name)].name = name
  BY NamedFirst
<1>2. DOMAIN seq = 1 .. Len(seq) /\ 0 \notin 1 .. Len(seq)
  OBVIOUS
<1> QED BY <1>1, <1>2 DEF Has, ToSet

LEMMA ConcatElements ==
  ASSUME NEW T, NEW s \in Seq(T), NEW t \in Seq(T)
  PROVE  s \o t \in Seq(T) /\ ToSet(s \o t) = ToSet(s) \cup ToSet(t)
<1> DEFINE u == s \o t
<1>1. /\ u \in Seq(T) /\ Len(u) = Len(s) + Len(t)
      /\ \A i \in 1 .. Len(s) + Len(t) : u[i] = IF i <= Len(s) THEN s[i] ELSE t[i - Len(s)]
  BY ConcatProperties
<1> HIDE DEF u
<1>2. /\ Len(s) \in Nat /\ Len(t) \in Nat /\ DOMAIN s = 1 .. Len(s) /\ DOMAIN t = 1 .. Len(t)
      /\ DOMAIN u = 1 .. Len(s) + Len(t)
  BY <1>1
<1>3. ASSUME NEW i \in DOMAIN u PROVE u[i] \in ToSet(s) \cup ToSet(t)
  <2>1. CASE i <= Len(s)
    <3>1. i \in DOMAIN s /\ u[i] = s[i]
      BY <1>1, <1>2, <2>1
    <3> QED BY <3>1 DEF ToSet
  <2>2. CASE ~ (i <= Len(s))
    <3>1. i - Len(s) \in DOMAIN t /\ u[i] = t[i - Len(s)]
      BY <1>1, <1>2, <2>2
    <3> QED BY <3>1 DEF ToSet
  <2> QED BY <2>1, <2>2
<1>4. ASSUME NEW i \in DOMAIN s PROVE s[i] \in ToSet(u)
  <2>1. i \in DOMAIN u /\ u[i] = s[i]
    BY <1>1, <1>2
  <2> QED BY <2>1 DEF ToSet
<1>5. ASSUME NEW i \in DOMAIN t PROVE t[i] \in ToSet(u)
  <2>1. Len(s) + i \in DOMAIN u /\ ~ (Len(s) + i <= Len(s)) /\ Len(s) + i - Len(s) = i
    BY <1>2
  <2>2. u[Len(s) + i] = t[i]
    BY <2>1, <1>1, <1>2
  <2> QED BY <2>1, <2>2 DEF ToSet
<1>6. ToSet(u) = ToSet(s) \cup ToSet(t)
  BY <1>3, <1>4, <1>5 DEF ToSet
<1> QED BY <1>1, <1>6 DEF u

(* The recursion of FlattenSeq has a solution, and that is what it gives.      *)
Layers(F, T, s) ==
  /\ F \in [0 .. Len(s) -> Seq(T)] /\ F[0] = <<>>
  /\ \A n \in 1 .. Len(s) : F[n] = F[n - 1] \o s[n]

LEMMA LayersExist ==
  ASSUME NEW T, NEW s \in Seq(Seq(T))
  PROVE  \E F : Layers(F, T, s)
<1> DEFINE Good(g, n) == /\ g \in [0 .. n -> Seq(T)] /\ g[0] = <<>>
                         /\ \A k \in 1 .. n : g[k] = g[k - 1] \o s[k]
           Bad == {n \in 0 .. Len(s) : ~ \E g : Good(g, n)}
<1>0. Len(s) \in Nat /\ \A k \in 1 .. Len(s) : s[k] \in Seq(T)
  OBVIOUS
<1>1. Bad = {}
  <2> SUFFICES ASSUME Bad # {} PROVE FALSE
    OBVIOUS
  <2>1. PICK n \in Bad : \A k \in Bad : n <= k
    <3> HIDE DEF Good
    <3>1. Bad \in SUBSET (0 .. Len(s)) /\ 0 .. Len(s) \in SUBSET Nat
      BY <1>0
    <3> HIDE DEF Bad
    <3> QED BY <3>1, LeastNatural
  <2>2. n \in 0 .. Len(s) /\ ~ \E g : Good(g, n)
    OBVIOUS
  <2>3. n # 0
    <3> SUFFICES ASSUME n = 0 PROVE FALSE
      OBVIOUS
    <3> DEFINE g == [k \in 0 .. 0 |-> <<>>]
    <3>1. Good(g, n)
      OBVIOUS
    <3> QED BY <3>1, <2>2
  <2>4. n - 1 \in 0 .. Len(s) /\ n - 1 \notin Bad
    <3>1. n - 1 \in 0 .. Len(s) /\ ~ (n <= n - 1)
      BY <1>0, <2>2, <2>3
    <3> HIDE DEF Bad
    <3> QED BY <3>1, <2>1
  <2>5. PICK h : Good(h, n - 1)
    BY <2>4
  <2>6. n \in 1 .. Len(s) /\ n - 1 \in 0 .. n - 1 /\ s[n] \in Seq(T)
    BY <1>0, <2>2, <2>3
  <2> DEFINE g == [k \in 0 .. n |-> IF k = n THEN h[n - 1] \o s[n] ELSE h[k]]
  <2>7. h[n - 1] \o s[n] \in Seq(T)
    BY <2>5, <2>6, ConcatProperties
  <2>8. \A k \in 0 .. n : k # n => k \in 0 .. n - 1
    BY <2>6
  <2>9. g \in [0 .. n -> Seq(T)]
    BY <2>5, <2>7, <2>8
  <2>10. g[0] = <<>>
    BY <2>3, <2>5, <2>6
  <2>11. ASSUME NEW k \in 1 .. n PROVE g[k] = g[k - 1] \o s[k]
    <3>1. k - 1 \in 0 .. n /\ k - 1 # n /\ k \in 0 .. n
      BY <2>6
    <3>2. g[k - 1] = h[k - 1]
      BY <3>1
    <3>3. CASE k = n
      BY <3>1, <3>2, <3>3
    <3>4. CASE k # n
      <4>1. k \in 1 .. n - 1
        BY <3>4, <2>6
      <4>2. g[k] = h[k] /\ h[k] = h[k - 1] \o s[k]
        BY <3>1, <3>4, <4>1, <2>5
      <4> QED BY <4>2, <3>2
    <3> QED BY <3>3, <3>4
  <2>12. Good(g, n)
    BY <2>9, <2>10, <2>11
  <2> QED BY <2>2, <2>12
<1>2. Len(s) \in 0 .. Len(s) /\ Len(s) \notin Bad
  <2> HIDE DEF Bad
  <2> QED BY <1>0, <1>1
<1>3. PICK g : Good(g, Len(s))
  BY <1>2
<1>4. Layers(g, T, s)
  BY <1>3 DEF Layers
<1> QED BY <1>4

LEMMA FlattenIs ==
  ASSUME NEW T, NEW s \in Seq(Seq(T)), NEW F, Layers(F, T, s)
  PROVE  FlattenSeq(s) = F[Len(s)] /\ FlattenSeq(s) \in Seq(T)
<1>00. Len(s) \in Nat /\ \A n \in 1 .. Len(s) : s[n] \in Seq(T)
  OBVIOUS
<1>0. /\ F \in [0 .. Len(s) -> Seq(T)] /\ F[0] = <<>>
      /\ \A n \in 1 .. Len(s) : F[n] = F[n - 1] \o s[n]
  BY DEF Layers
<1>1. CASE Len(s) = 0
  <2>1. s = <<>>
    BY <1>1
  <2>2. FlattenSeq(s) = s
    BY <1>1 DEF FlattenSeq
  <2> QED BY <1>0, <1>1, <2>1, <2>2, EmptySeq
<1>2. CASE Len(s) # 0
  <2> DEFINE Eq(f) == f = [i \in 1 .. Len(s) |-> IF i = 1 THEN s[i] ELSE f[i - 1] \o s[i]]
             flatten == CHOOSE f : Eq(f)
             G == [i \in 1 .. Len(s) |-> F[i]]
  <2>1. FlattenSeq(s) = flatten[Len(s)]
    BY <1>2 DEF FlattenSeq
  <2>2. Eq(G)
    <3>1. ASSUME NEW i \in 1 .. Len(s)
          PROVE  G[i] = IF i = 1 THEN s[i] ELSE G[i - 1] \o s[i]
      <4>1. CASE i = 1
        <5>0. i \in 1 .. Len(s) /\ 1 - 1 = 0
          OBVIOUS
        <5>1. F[1] = <<>> \o s[1] /\ s[1] \in Seq(T)
          BY <1>0, <1>00, <4>1, <5>0
        <5>2. <<>> \o s[1] = s[1]
          BY <5>1, ConcatEmptySeq
        <5> QED BY <4>1, <5>1, <5>2
      <4>2. CASE i # 1
        <5>1. i - 1 \in 1 .. Len(s)
          BY <4>2, <1>00
        <5> QED BY <4>2, <5>1, <1>0
      <4> QED BY <4>1, <4>2
    <3> QED BY <3>1
  <2>3. Eq(flatten)
    BY <2>2
  <2> HIDE DEF flatten
  <2>4. \A i \in 1 .. Len(s) : flatten[i] = IF i = 1 THEN s[i] ELSE flatten[i - 1] \o s[i]
    BY <2>3
  <2>5. \A i \in 1 .. Len(s) : G[i] = IF i = 1 THEN s[i] ELSE G[i - 1] \o s[i]
    BY <2>2
  <2> HIDE DEF G
  <2> DEFINE Differ == {n \in 1 .. Len(s) : flatten[n] # G[n]}
  <2>6. Differ = {}
    <3> SUFFICES ASSUME Differ # {} PROVE FALSE
      OBVIOUS
    <3>1. PICK n \in Differ : \A k \in Differ : n <= k
      <4>1. Differ \in SUBSET Nat
        OBVIOUS
      <4> HIDE DEF Differ
      <4> QED BY <4>1, LeastNatural
    <3>2. n \in 1 .. Len(s) /\ flatten[n] # G[n]
      OBVIOUS
    <3>3. n # 1
      BY <3>2, <2>4, <2>5
    <3>4. n - 1 \in 1 .. Len(s) /\ n - 1 \notin Differ
      <4>1. n - 1 \in 1 .. Len(s) /\ ~ (n <= n - 1)
        BY <3>2, <3>3
      <4> HIDE DEF Differ
      <4> QED BY <4>1, <3>1
    <3>5. flatten[n - 1] = G[n - 1]
      BY <3>4
    <3> QED BY <3>2, <3>3, <3>5, <2>4, <2>5
  <2>7. Len(s) \in 1 .. Len(s)
    BY <1>00, <1>2
  <2>8. flatten[Len(s)] = G[Len(s)]
    BY <2>6, <2>7
  <2>9. G[Len(s)] = F[Len(s)]
    BY <2>7 DEF G
  <2>10. F[Len(s)] \in Seq(T)
    BY <1>0, <1>00
  <2> HIDE DEF Differ
  <2> QED BY <2>1, <2>8, <2>9, <2>10
<1> QED BY <1>1, <1>2

LEMMA SeqIntro ==
  ASSUME NEW T, NEW n \in Nat, NEW f \in [1 .. n -> T]
  PROVE  f \in Seq(T)
OBVIOUS

LEMMA ShortSeqs ==
  ASSUME NEW T
  PROVE  <<>> \in Seq(T) /\ \A x \in T : <<x>> \in Seq(T)
OBVIOUS

LEMMA FlattenType ==
  ASSUME NEW T, NEW s \in Seq(Seq(T))
  PROVE  FlattenSeq(s) \in Seq(T)
<1>1. PICK F : Layers(F, T, s)
  BY LayersExist
<1> QED BY <1>1, FlattenIs

LEMMA FlattenEmpty == FlattenSeq(<<>>) = <<>>
BY DEF FlattenSeq

(* What a flattened list has, and that no written name comes twice in it, if     *)
(* none does in a part and no two parts share one.                           *)
Once(list) == \A i, j \in DOMAIN list : list[i].name = list[j].name /\ list[i].name[1] = "" => i = j

LEMMA NothingListed ==
  ToSet(<<>>) = {} /\ \A list : list = <<>> => Once(list)
<1>1. <<>> \in Seq({}) /\ Len(<<>>) = 0
  OBVIOUS
<1>2. DOMAIN <<>> = {}
  <2>1. DOMAIN <<>> = 1 .. Len(<<>>) /\ 1 .. 0 = {}
    BY <1>1, LenProperties
  <2> QED BY <1>1, <2>1
<1> QED BY <1>2 DEF ToSet, Once

Apart(s, t) == \A d \in ToSet(s), e \in ToSet(t) : d.name = e.name => d.name[1] # ""

LEMMA ConcatOnce ==
  ASSUME NEW T, NEW s \in Seq(T), NEW t \in Seq(T), Once(s), Once(t), Apart(s, t)
  PROVE  Once(s \o t)
<1> DEFINE u == s \o t
<1>1. /\ u \in Seq(T) /\ Len(u) = Len(s) + Len(t)
      /\ \A i \in 1 .. Len(s) + Len(t) : u[i] = IF i <= Len(s) THEN s[i] ELSE t[i - Len(s)]
  BY ConcatProperties
<1> HIDE DEF u
<1>2. /\ Len(s) \in Nat /\ Len(t) \in Nat /\ DOMAIN s = 1 .. Len(s) /\ DOMAIN t = 1 .. Len(t)
      /\ DOMAIN u = 1 .. Len(s) + Len(t)
  BY <1>1
<1>3. ASSUME NEW i \in DOMAIN u, i <= Len(s)
      PROVE  i \in DOMAIN s /\ u[i] = s[i] /\ u[i] \in ToSet(s)
  BY <1>1, <1>2, <1>3 DEF ToSet
<1>4. ASSUME NEW i \in DOMAIN u, ~ (i <= Len(s))
      PROVE  i - Len(s) \in DOMAIN t /\ u[i] = t[i - Len(s)] /\ u[i] \in ToSet(t)
  BY <1>1, <1>2, <1>4 DEF ToSet
<1>5. SUFFICES ASSUME NEW i \in DOMAIN u, NEW j \in DOMAIN u,
                      u[i].name = u[j].name, u[i].name[1] = ""
               PROVE  i = j
  BY DEF Once, u
<1>6. i \in Int /\ j \in Int /\ Len(s) \in Int
  BY <1>2
<1>7. CASE i <= Len(s) /\ j <= Len(s)
  BY <1>3, <1>5, <1>7 DEF Once
<1>8. CASE ~ (i <= Len(s)) /\ ~ (j <= Len(s))
  <2>1. i - Len(s) = j - Len(s)
    BY <1>4, <1>5, <1>8 DEF Once
  <2> QED BY <2>1, <1>6
<1>9. CASE i <= Len(s) /\ ~ (j <= Len(s))
  BY <1>3, <1>4, <1>5, <1>9 DEF Apart
<1>10. CASE ~ (i <= Len(s)) /\ j <= Len(s)
  BY <1>3, <1>4, <1>5, <1>10 DEF Apart
<1> QED BY <1>7, <1>8, <1>9, <1>10

LEMMA FlattenElements ==
  ASSUME NEW T, NEW s \in Seq(Seq(T))
  PROVE  \A e : e \in ToSet(FlattenSeq(s)) <=> \E i \in DOMAIN s : e \in ToSet(s[i])
<1>1. PICK F : Layers(F, T, s)
  BY LayersExist
<1>2. /\ F \in [0 .. Len(s) -> Seq(T)] /\ F[0] = <<>>
      /\ \A n \in 1 .. Len(s) : F[n] = F[n - 1] \o s[n]
  BY <1>1 DEF Layers
<1>3. Len(s) \in Nat /\ DOMAIN s = 1 .. Len(s) /\ \A n \in 1 .. Len(s) : s[n] \in Seq(T)
  OBVIOUS
<1> DEFINE Right(n) == \A e : e \in ToSet(F[n]) <=> \E i \in 1 .. n : e \in ToSet(s[i])
           Bad == {n \in 0 .. Len(s) : ~ Right(n)}
<1>4. Right(0)
  BY <1>2, NothingListed
<1>5. ASSUME NEW n \in 1 .. Len(s), Right(n - 1)
      PROVE  Right(n)
  <2>1. n - 1 \in 0 .. Len(s) /\ 1 .. n = (1 .. n - 1) \cup {n}
    BY <1>3
  <2>2. F[n] = F[n - 1] \o s[n] /\ F[n - 1] \in Seq(T) /\ s[n] \in Seq(T)
    BY <1>2, <1>3, <2>1
  <2>3. ToSet(F[n]) = ToSet(F[n - 1]) \cup ToSet(s[n])
    BY <2>2, ConcatElements
  <2> QED BY <1>5, <2>1, <2>3
<1> HIDE DEF Right
<1>6. Bad = {}
  <2> SUFFICES ASSUME Bad # {} PROVE FALSE
    OBVIOUS
  <2>1. PICK n \in Bad : \A k \in Bad : n <= k
    <3>1. Bad \in SUBSET (0 .. Len(s)) /\ 0 .. Len(s) \in SUBSET Nat
      OBVIOUS
    <3> HIDE DEF Bad
    <3> QED BY <3>1, LeastNatural
  <2>2. n \in 0 .. Len(s) /\ ~ Right(n) /\ n # 0
    BY <1>4
  <2>3. n - 1 \in 0 .. Len(s) /\ n \in 1 .. Len(s) /\ ~ (n <= n - 1)
    BY <1>3, <2>2
  <2>4. Right(n - 1)
    BY <2>1, <2>3
  <2> QED BY <1>5, <2>2, <2>3, <2>4
<1>7. Right(Len(s))
  BY <1>3, <1>6
<1>8. FlattenSeq(s) = F[Len(s)]
  BY <1>1, FlattenIs
<1> QED BY <1>3, <1>7, <1>8 DEF Right

LEMMA FlattenOnce ==
  ASSUME NEW T, NEW s \in Seq(Seq(T)),
         \A i \in DOMAIN s : Once(s[i]),
         \A i, j \in DOMAIN s : i # j => Apart(s[i], s[j])
  PROVE  Once(FlattenSeq(s))
<1>1. PICK F : Layers(F, T, s)
  BY LayersExist
<1>2. /\ F \in [0 .. Len(s) -> Seq(T)] /\ F[0] = <<>>
      /\ \A n \in 1 .. Len(s) : F[n] = F[n - 1] \o s[n]
  BY <1>1 DEF Layers
<1>3. Len(s) \in Nat /\ DOMAIN s = 1 .. Len(s) /\ \A n \in 1 .. Len(s) : s[n] \in Seq(T)
  OBVIOUS
<1> DEFINE Right(n) == /\ Once(F[n])
                       /\ \A e \in ToSet(F[n]) : \E i \in 1 .. n : e \in ToSet(s[i])
           Bad == {n \in 0 .. Len(s) : ~ Right(n)}
<1>4. Right(0)
  BY <1>2, NothingListed
<1>5. ASSUME NEW n \in 1 .. Len(s), Right(n - 1)
      PROVE  Right(n)
  <2>1. n - 1 \in 0 .. Len(s) /\ 1 .. n = (1 .. n - 1) \cup {n}
    BY <1>3
  <2>2. F[n] = F[n - 1] \o s[n] /\ F[n - 1] \in Seq(T) /\ s[n] \in Seq(T)
    BY <1>2, <1>3, <2>1
  <2>3. ToSet(F[n]) = ToSet(F[n - 1]) \cup ToSet(s[n])
    BY <2>2, ConcatElements
  <2>4. Apart(F[n - 1], s[n])
    <3>1. ASSUME NEW d \in ToSet(F[n - 1]), NEW e \in ToSet(s[n]), d.name = e.name
          PROVE  d.name[1] # ""
      <4>1. PICK i \in 1 .. n - 1 : d \in ToSet(s[i])
        BY <1>5
      <4>2. i \in DOMAIN s /\ n \in DOMAIN s /\ i # n
        BY <1>3
      <4>3. Apart(s[i], s[n])
        BY <4>2
      <4> QED BY <3>1, <4>1, <4>3 DEF Apart
    <3> QED BY <3>1 DEF Apart
  <2>5. Once(F[n])
    BY <1>3, <1>5, <2>2, <2>4, ConcatOnce
  <2> QED BY <1>5, <2>1, <2>3, <2>5
<1> HIDE DEF Right
<1>6. Bad = {}
  <2> SUFFICES ASSUME Bad # {} PROVE FALSE
    OBVIOUS
  <2>1. PICK n \in Bad : \A k \in Bad : n <= k
    <3>1. Bad \in SUBSET (0 .. Len(s)) /\ 0 .. Len(s) \in SUBSET Nat
      OBVIOUS
    <3> HIDE DEF Bad
    <3> QED BY <3>1, LeastNatural
  <2>2. n \in 0 .. Len(s) /\ ~ Right(n) /\ n # 0
    BY <1>4
  <2>3. n - 1 \in 0 .. Len(s) /\ n \in 1 .. Len(s) /\ ~ (n <= n - 1)
    BY <1>3, <2>2
  <2>4. Right(n - 1)
    BY <2>1, <2>3
  <2> QED BY <1>5, <2>2, <2>3, <2>4
<1>7. Right(Len(s))
  BY <1>3, <1>6
<1>8. FlattenSeq(s) = F[Len(s)]
  BY <1>1, FlattenIs
<1> QED BY <1>7, <1>8 DEF Right

(* One part more at the end.                                                 *)
LEMMA FlattenOneMore ==
  ASSUME NEW T, NEW t \in Seq(Seq(T)), NEW n \in Nat, Len(t) = n + 1
  PROVE  /\ [i \in 1 .. n |-> t[i]] \in Seq(Seq(T))
         /\ FlattenSeq(t) = FlattenSeq([i \in 1 .. n |-> t[i]]) \o t[n + 1]
<1> DEFINE s == [i \in 1 .. n |-> t[i]]
<1>1. PICK F : Layers(F, T, t)
  BY LayersExist
<1>2. /\ F \in [0 .. Len(t) -> Seq(T)] /\ F[0] = <<>>
      /\ \A k \in 1 .. Len(t) : F[k] = F[k - 1] \o t[k]
  BY <1>1 DEF Layers
<1>3. \A k \in 1 .. n + 1 : t[k] \in Seq(T)
  OBVIOUS
<1>4. s \in Seq(Seq(T)) /\ Len(s) = n /\ \A k \in 1 .. n : s[k] = t[k]
  BY <1>3
<1> HIDE DEF s
<1> DEFINE G == [k \in 0 .. n |-> F[k]]
<1>5. Layers(G, T, s)
  <2>1. G \in [0 .. n -> Seq(T)]
    BY <1>2
  <2>2. G[0] = <<>>
    BY <1>2
  <2>3. ASSUME NEW k \in 1 .. n PROVE G[k] = G[k - 1] \o s[k]
    <3>1. k \in 0 .. n /\ k - 1 \in 0 .. n /\ k \in 1 .. Len(t)
      OBVIOUS
    <3>2. G[k] = F[k] /\ G[k - 1] = F[k - 1]
      BY <3>1
    <3> QED BY <3>1, <3>2, <1>2, <1>4
  <2> QED BY <1>4, <2>1, <2>2, <2>3 DEF Layers
<1>6. FlattenSeq(s) = G[n] /\ FlattenSeq(t) = F[n + 1]
  BY <1>1, <1>4, <1>5, FlattenIs
<1>7. n + 1 \in 1 .. Len(t) /\ n + 1 - 1 = n /\ n \in 0 .. n
  OBVIOUS
<1>8. G[n] = F[n] /\ F[n + 1] = F[n] \o t[n + 1]
  <2>1. G[n] = F[n]
    BY <1>7
  <2>2. ASSUME NEW k \in 1 .. Len(t), k = n + 1
        PROVE  F[k] = F[n] \o t[k]
    <3>1. F[k] = F[k - 1] \o t[k]
      BY <1>2
    <3>2. k - 1 = n
      BY <2>2
    <3> QED BY <3>1, <3>2
  <2> QED BY <1>7, <2>1, <2>2
<1> QED BY <1>4, <1>6, <1>8 DEF s

(* A list of the members of a finite set.                                    *)
LEMMA SetToSeqElements ==
  ASSUME NEW S, IsFiniteSet(S)
  PROVE  SetToSeq(S) \in Seq(S) /\ ToSet(SetToSeq(S)) = S
<1> DEFINE n == Cardinality(S)
           f == SetToSeq(S)
<1>1. n \in Nat /\ ExistsBijection(1 .. n, S)
  BY FS_CardinalityType
<1>2. \E g \in [1 .. n -> S] : IsInjective(g)
  BY <1>1 DEF ExistsBijection, Bijection, Injection
<1>3. f \in [1 .. n -> S] /\ IsInjective(f)
  BY <1>2 DEF SetToSeq
<1> HIDE DEF f
<1>4. f \in Injection(1 .. n, S)
  BY <1>3 DEF Injection
<1>5. Cardinality(1 .. n) = n /\ IsFiniteSet(1 .. n)
  <2>1. n \in Int /\ 1 \in Int /\ (IF 1 > n THEN 0 ELSE n - 1 + 1) = n
    BY <1>1
  <2>2. IsFiniteSet(1 .. n) /\ Cardinality(1 .. n) = IF 1 > n THEN 0 ELSE n - 1 + 1
    BY <2>1, FS_Interval
  <2> QED BY <2>1, <2>2
<1>6. f \in Surjection(1 .. n, S)
  BY <1>4, <1>5, FS_Injection
<1>7. f \in Seq(S)
  BY <1>1, <1>3
<1>8. ToSet(f) = S
  BY <1>3, <1>6 DEF ToSet, Surjection
<1> QED BY <1>7, <1>8 DEF f

(***************************************************************************)
(* Lists of methods.                                                         *)
(***************************************************************************)
Signatures ==
  UNION {UNION {{p[c].methods[i].sig : i \in DOMAIN p[c].methods} : c \in Classes} : p \in Programs}
FieldNames == UNION {UNION {ToSet(p[c].fields) : c \in Classes} : p \in Programs}

MethodEntry == [name : Names, sig : Signatures, body : Classes]
FieldEntry == [name : FieldNames, of : Classes]

PlainIn(list, m) == {e \in ToSet(list) : e.name = Plain(m)}

LEMMA NameFacts ==
  /\ \A x \in Names : /\ x[2] \in Methods /\ (x[1] = "" => x = Plain(x[2]))
                      /\ x[1] \in {"", "super"} \cup Classes
                      /\ x = Qualified(x[1], x[2])
  /\ \A m : Plain(m)[1] = "" /\ Plain(m)[2] = m /\ Super(m)[1] = "super" /\ Super(m)[2] = m
  /\ \A a, m : Qualified(a, m)[1] = a /\ Qualified(a, m)[2] = m
  /\ \A m \in Methods : Plain(m) \in Names /\ Super(m) \in Names
  /\ \A a \in Classes, m \in Methods : Qualified(a, m) \in Names
  /\ \A a \in Classes : a # "" /\ a # "super" /\ a # None
  /\ None \notin Classes
<1>1. ASSUME NEW x \in Names
      PROVE  /\ x[2] \in Methods /\ x[1] \in {"", "super"} \cup Classes /\ x = Qualified(x[1], x[2])
             /\ (x[1] = "" => x = Plain(x[2]))
  <2> DEFINE A == {"", "super"} \cup Classes
  <2>0. x \in A \X Methods
    BY DEF Names
  <2> HIDE DEF A
  <2>01. x = <<x[1], x[2]>> /\ x[1] \in A /\ x[2] \in Methods
    BY <2>0
  <2>1. PICK a \in {"", "super"} \cup Classes, m \in Methods : x = <<a, m>>
    BY <2>01 DEF A
  <2> QED BY <2>1 DEF Plain, Qualified
<1>2. \A m : Plain(m)[1] = "" /\ Plain(m)[2] = m /\ Super(m)[1] = "super" /\ Super(m)[2] = m
  BY DEF Plain, Super
<1>3. \A a, m : Qualified(a, m)[1] = a /\ Qualified(a, m)[2] = m
  BY DEF Qualified
<1>4. \A m \in Methods : Plain(m) \in Names /\ Super(m) \in Names
  BY DEF Names, Plain, Super
<1>5. \A a \in Classes, m \in Methods : Qualified(a, m) \in Names
  BY DEF Names, Qualified
<1>6. (\A a \in Classes : a # "" /\ a # "super" /\ a # None) /\ None \notin Classes
  BY ClassesAssumption
<1> QED BY <1>1, <1>2, <1>3, <1>4, <1>5, <1>6

LEMMA EntryFacts ==
  ASSUME NEW e \in MethodEntry
  PROVE  e.name \in Names /\ e.sig \in Signatures /\ e.body \in Classes /\ e.name[2] \in Methods
<1>1. e.name \in Names /\ e.sig \in Signatures /\ e.body \in Classes
  BY DEF MethodEntry
<1> QED BY <1>1, NameFacts

LEMMA ListEntries ==
  ASSUME NEW T, NEW list \in Seq(T)
  PROVE  /\ \A i \in DOMAIN list : list[i] \in T /\ list[i] \in ToSet(list)
         /\ \A e \in ToSet(list) : e \in T /\ \E i \in DOMAIN list : e = list[i]
         /\ DOMAIN list = 1 .. Len(list) /\ Len(list) \in Nat
BY DEF ToSet

LEMMA PlainOnce ==
  ASSUME NEW list \in Seq(MethodEntry), Once(list), NEW m, NEW d \in PlainIn(list, m)
  PROVE  PlainIn(list, m) = {d}
<1>1. ASSUME NEW e \in PlainIn(list, m) PROVE e = d
  <2>1. e \in ToSet(list) /\ d \in ToSet(list) /\ e.name = Plain(m) /\ d.name = Plain(m)
    BY DEF PlainIn
  <2>2. PICK i \in DOMAIN list, j \in DOMAIN list : e = list[i] /\ d = list[j]
    BY <2>1, ListEntries
  <2>3. list[i].name[1] = ""
    BY <2>1, <2>2, NameFacts
  <2> QED BY <2>1, <2>2, <2>3 DEF Once
<1> QED BY <1>1

LEMMA HasPlain ==
  ASSUME NEW list \in Seq(MethodEntry), NEW m
  PROVE  Has(list, Plain(m)) <=> PlainIn(list, m) # {}
<1>1. Has(list, Plain(m)) <=> \E e \in ToSet(list) : e.name = Plain(m)
  BY HasNamed
<1> QED BY <1>1 DEF PlainIn

(* The methods of one more parent.                                           *)
LEMMA JoinedFacts ==
  ASSUME NEW M \in Seq(MethodEntry), NEW more \in Seq(MethodEntry), Once(M), Once(more)
  PROVE  LET J == Joined(M, more)
         IN  /\ J \in Seq(MethodEntry) /\ Once(J)
             /\ ToSet(J) \subseteq ToSet(M) \cup ToSet(more)
             /\ \A m : PlainIn(J, m) = IF PlainIn(M, m) = {} THEN PlainIn(more, m) ELSE PlainIn(M, m)
<1> DEFINE free == [i \in DOMAIN more |-> IF Taken(M, more, i) THEN <<>> ELSE <<more[i]>>]
           F == FlattenSeq(free)
<1>1. DOMAIN more = 1 .. Len(more) /\ Len(more) \in Nat
      /\ \A i \in DOMAIN more : more[i] \in MethodEntry /\ more[i] \in ToSet(more)
  BY ListEntries
<1>2. \A i \in DOMAIN more : free[i] \in Seq(MethodEntry)
  BY <1>1
<1>3. free \in Seq(Seq(MethodEntry)) /\ DOMAIN free = DOMAIN more
  BY <1>1, <1>2
<1>4. \A i \in DOMAIN more : \A e : e \in ToSet(free[i]) <=> (~ Taken(M, more, i) /\ e = more[i])
  <2> SUFFICES ASSUME NEW i \in DOMAIN more
               PROVE  ToSet(free[i]) = IF Taken(M, more, i) THEN {} ELSE {more[i]}
    OBVIOUS
  <2>1. CASE Taken(M, more, i)
    BY <2>1, NothingListed
  <2>2. CASE ~ Taken(M, more, i)
    <3>1. free[i] = <<more[i]>>
      BY <2>2
    <3>2. ToSet(<<more[i]>>) = {more[i]}
      BY DEF ToSet
    <3> QED BY <2>2, <3>1, <3>2
  <2> QED BY <2>1, <2>2
<1>5. \A i \in DOMAIN more : Once(free[i])
  <2> SUFFICES ASSUME NEW i \in DOMAIN more PROVE Once(free[i])
    OBVIOUS
  <2>1. CASE Taken(M, more, i)
    BY <2>1, NothingListed
  <2>2. CASE ~ Taken(M, more, i)
    <3>1. free[i] = <<more[i]>>
      BY <2>2
    <3>2. DOMAIN <<more[i]>> = {1}
      OBVIOUS
    <3> QED BY <3>1, <3>2 DEF Once
  <2> QED BY <2>1, <2>2
<1> HIDE DEF free
<1>6. \A i, j \in DOMAIN more : i # j => Apart(free[i], free[j])
  BY <1>4 DEF Apart, Once
<1>7. F \in Seq(MethodEntry) /\ Once(F)
  BY <1>3, <1>5, <1>6, FlattenType, FlattenOnce
<1>8. \A e : e \in ToSet(F) <=> \E i \in DOMAIN more : ~ Taken(M, more, i) /\ e = more[i]
  <2>1. \A e : e \in ToSet(F) <=> \E i \in DOMAIN free : e \in ToSet(free[i])
    BY <1>3, FlattenElements
  <2> QED BY <2>1, <1>3, <1>4
<1>9. ASSUME NEW i \in DOMAIN more, ~ Taken(M, more, i)
      PROVE  \A d \in ToSet(M) : d.name # more[i].name
  BY <1>9, HasNamed DEF Taken
<1>10. ASSUME NEW i \in DOMAIN more, more[i].name[1] = "", Taken(M, more, i)
       PROVE  \E d \in ToSet(M) : d.name = more[i].name
  <2> DEFINE before == SubSeq(more, 1, i - 1)
  <2>1. i \in Nat /\ i >= 1 /\ i - 1 \in Int /\ 1 \in Int /\ \A k \in 1 .. i - 1 : k \in DOMAIN more /\ k # i
    BY <1>1
  <2>2. /\ before \in Seq(MethodEntry) /\ Len(before) = (IF 1 <= i - 1 THEN i - 1 - 1 + 1 ELSE 0)
        /\ \A k \in 1 .. i - 1 - 1 + 1 : before[k] = more[1 + k - 1]
    <3>1. \A k \in 1 .. i - 1 : more[k] \in MethodEntry
      BY <2>1, <1>1
    <3> QED BY <2>1, <3>1, SubSeqProperties
  <2> HIDE DEF before
  <2>3. DOMAIN before = 1 .. i - 1 /\ \A k \in 1 .. i - 1 : before[k] = more[k]
    <3>1. Len(before) = i - 1 /\ i - 1 - 1 + 1 = i - 1
      BY <2>1, <2>2
    <3>2. \A k \in 1 .. i - 1 : 1 + k - 1 = k
      OBVIOUS
    <3> QED BY <2>2, <3>1, <3>2
  <2>4. ~ Has(before, more[i].name)
    <3> SUFFICES ASSUME Has(before, more[i].name) PROVE FALSE
      OBVIOUS
    <3>1. PICK e \in ToSet(before) : e.name = more[i].name
      BY <2>2, HasNamed
    <3>2. PICK k \in DOMAIN before : e = before[k]
      BY <3>1, <2>2, ListEntries
    <3>3. k \in DOMAIN more /\ k # i /\ more[k].name = more[i].name
      BY <2>1, <2>3, <3>1, <3>2
    <3>4. more[k].name[1] = ""
      BY <3>3, <1>10
    <3> QED BY <3>3, <3>4 DEF Once
  <2>5. Has(M, more[i].name)
    BY <1>10, <2>4 DEF Taken, before
  <2> QED BY <2>5, HasNamed
<1>11. Apart(M, F)
  <2> HIDE DEF F
  <2>1. ASSUME NEW d \in ToSet(M), NEW e \in ToSet(F) PROVE d.name # e.name
    <3>1. PICK i \in DOMAIN more : ~ Taken(M, more, i) /\ e = more[i]
      BY <1>8
    <3> QED BY <3>1, <1>9
  <2> QED BY <2>1 DEF Apart
<1> DEFINE J == Joined(M, more)
<1>12. J = M \o F
  BY DEF Joined, free
<1> HIDE DEF F
<1>13. J \in Seq(MethodEntry) /\ ToSet(J) = ToSet(M) \cup ToSet(F)
  BY <1>7, <1>12, ConcatElements
<1>14. Once(J)
  BY <1>7, <1>11, <1>12, ConcatOnce
<1> HIDE DEF J
<1>15. ToSet(J) \subseteq ToSet(M) \cup ToSet(more)
  BY <1>1, <1>8, <1>13
<1>16. ASSUME NEW m
       PROVE  PlainIn(J, m) = IF PlainIn(M, m) = {} THEN PlainIn(more, m) ELSE PlainIn(M, m)
  <2>1. CASE PlainIn(M, m) = {}
    <3>1. ASSUME NEW e \in PlainIn(more, m) PROVE e \in ToSet(F)
      <4>1. e \in ToSet(more) /\ e.name = Plain(m)
        BY DEF PlainIn
      <4>2. PICK i \in DOMAIN more : e = more[i]
        BY <4>1, ListEntries
      <4>3. more[i].name[1] = ""
        BY <4>1, <4>2, NameFacts
      <4>4. ~ Taken(M, more, i)
        BY <1>10, <2>1, <4>1, <4>2, <4>3 DEF PlainIn
      <4> QED BY <1>8, <4>2, <4>4
    <3>2. \A e \in ToSet(F) : e \in ToSet(more)
      BY <1>1, <1>8
    <3>3. PlainIn(J, m) = PlainIn(more, m)
      BY <1>13, <2>1, <3>1, <3>2 DEF PlainIn
    <3> QED BY <2>1, <3>3
  <2>2. CASE PlainIn(M, m) # {}
    <3>1. PICK d \in ToSet(M) : d.name = Plain(m)
      BY <2>2 DEF PlainIn
    <3>2. \A e \in ToSet(F) : e.name # Plain(m)
      BY <1>8, <1>9, <3>1
    <3>3. PlainIn(J, m) = PlainIn(M, m)
      BY <1>13, <3>2 DEF PlainIn
    <3> QED BY <2>2, <3>3
  <2> QED BY <2>1, <2>2
<1> QED BY <1>13, <1>14, <1>15, <1>16 DEF J

(* A part is one member or nothing.                                          *)
LEMMA OnePart ==
  ASSUME NEW e, NEW yes \in BOOLEAN, NEW part, part = IF yes THEN <<e>> ELSE <<>>
  PROVE  Once(part) /\ \A x : x \in ToSet(part) <=> (yes /\ x = e)
<1>1. CASE yes
  <2>1. part = <<e>> /\ DOMAIN <<e>> = {1}
    BY <1>1
  <2>2. ToSet(<<e>>) = {e}
    BY DEF ToSet
  <2>3. DOMAIN part = {1}
    BY <2>1
  <2>4. Once(part)
    BY <2>3 DEF Once
  <2> QED BY <1>1, <2>1, <2>2, <2>4
<1>2. CASE ~ yes
  BY <1>2, NothingListed
<1> QED BY <1>1, <1>2

(* A class's own methods over those of its bases.                            *)
LEMMA OverriddenFacts ==
  ASSUME NEW M \in Seq(MethodEntry), NEW own \in Seq(MethodEntry), Once(M), Once(own),
         \A e \in ToSet(own) : e.name[1] = ""
  PROVE  LET O == Overridden(M, own)
         IN  /\ O \in Seq(MethodEntry) /\ Once(O)
             /\ \A e \in ToSet(O) : e \in ToSet(M) \/ e \in ToSet(own) \/ e.name[1] = "super"
             /\ \A m : PlainIn(O, m) = IF PlainIn(own, m) = {} THEN PlainIn(M, m) ELSE PlainIn(own, m)
<1> DEFINE At(m) == Named(own, m.name)
           kept == [i \in DOMAIN M |->
                      IF At(M[i]) # 0 /\ Named(M, M[i].name) = i THEN own[At(M[i])] ELSE M[i]]
           SuperOf(m) == [M[Named(M, m.name)] EXCEPT !.name = Super(m.name[2])]
           added == [i \in DOMAIN own |-> IF Has(M, own[i].name) THEN <<>> ELSE <<own[i]>>]
           supers == [i \in DOMAIN own |-> IF Has(M, own[i].name) THEN <<SuperOf(own[i])>> ELSE <<>>]
           A == FlattenSeq(added)
           S == FlattenSeq(supers)
           O == Overridden(M, own)
<1>0. O = kept \o A \o S
  BY DEF Overridden
<1> HIDE DEF O, A, S, kept, added, supers
<1>01. DOMAIN own = 1 .. Len(own) /\ Len(own) \in Nat /\ DOMAIN M = 1 .. Len(M) /\ Len(M) \in Nat
  BY ListEntries
<1>1. /\ \A i \in DOMAIN own : own[i] \in MethodEntry /\ own[i] \in ToSet(own)
      /\ \A i \in DOMAIN M : M[i] \in MethodEntry /\ M[i] \in ToSet(M)
  BY ListEntries
<1>2. ASSUME NEW i \in DOMAIN own, Has(M, own[i].name)
      PROVE  SuperOf(own[i]) \in MethodEntry /\ SuperOf(own[i]).name[1] = "super"
  <2>1. M[Named(M, own[i].name)] \in MethodEntry
    BY <1>1, <1>2, HasNamed
  <2>2. own[i].name[2] \in Methods
    BY <1>1, EntryFacts
  <2>3. Super(own[i].name[2]) \in Names /\ Super(own[i].name[2])[1] = "super"
    BY <2>2, NameFacts
  <2> QED BY <2>1, <2>3 DEF MethodEntry
<1> HIDE DEF SuperOf
<1>3. added \in Seq(Seq(MethodEntry)) /\ supers \in Seq(Seq(MethodEntry))
  <2>1. \A i \in 1 .. Len(own) : added[i] \in Seq(MethodEntry)
    <3> SUFFICES ASSUME NEW i \in DOMAIN own PROVE added[i] \in Seq(MethodEntry)
      BY <1>01
    <3>1. <<own[i]>> \in Seq(MethodEntry) /\ <<>> \in Seq(MethodEntry)
      BY <1>1, ShortSeqs
    <3> QED BY <3>1 DEF added
  <2>2. \A i \in 1 .. Len(own) : supers[i] \in Seq(MethodEntry)
    <3> SUFFICES ASSUME NEW i \in DOMAIN own PROVE supers[i] \in Seq(MethodEntry)
      BY <1>01
    <3>1. CASE Has(M, own[i].name)
      <4>1. SuperOf(own[i]) \in MethodEntry
        BY <1>2, <3>1
      <4>2. <<SuperOf(own[i])>> \in Seq(MethodEntry)
        BY <4>1, ShortSeqs
      <4> QED BY <3>1, <4>2 DEF supers
    <3>2. CASE ~ Has(M, own[i].name)
      <4>1. <<>> \in Seq(MethodEntry)
        BY ShortSeqs
      <4> QED BY <3>2, <4>1 DEF supers
    <3> QED BY <3>1, <3>2
  <2>3. ASSUME NEW f, \A i \in 1 .. Len(own) : f[i] \in Seq(MethodEntry), f = [i \in 1 .. Len(own) |-> f[i]]
        PROVE  f \in Seq(Seq(MethodEntry))
    <3>1. f \in [1 .. Len(own) -> Seq(MethodEntry)]
      BY <2>3
    <3> QED BY <1>01, <3>1, SeqIntro
  <2>4. added = [i \in 1 .. Len(own) |-> added[i]] /\ supers = [i \in 1 .. Len(own) |-> supers[i]]
    BY <1>01 DEF added, supers
  <2> QED BY <2>1, <2>2, <2>3, <2>4
<1>4. \A i \in DOMAIN own :
        Once(added[i]) /\ \A x : x \in ToSet(added[i]) <=> (~ Has(M, own[i].name) /\ x = own[i])
  <2> SUFFICES ASSUME NEW i \in DOMAIN own
               PROVE  Once(added[i]) /\ \A x : x \in ToSet(added[i]) <=> (~ Has(M, own[i].name) /\ x = own[i])
    OBVIOUS
  <2>1. added[i] = IF ~ Has(M, own[i].name) THEN <<own[i]>> ELSE <<>>
    BY DEF added
  <2>2. (~ Has(M, own[i].name)) \in BOOLEAN
    OBVIOUS
  <2> QED BY <2>1, <2>2, OnePart
<1>5. \A i \in DOMAIN own :
        Once(supers[i]) /\ \A x : x \in ToSet(supers[i]) <=> (Has(M, own[i].name) /\ x = SuperOf(own[i]))
  <2> SUFFICES ASSUME NEW i \in DOMAIN own
               PROVE  Once(supers[i]) /\ \A x : x \in ToSet(supers[i]) <=> (Has(M, own[i].name) /\ x = SuperOf(own[i]))
    OBVIOUS
  <2>1. supers[i] = IF Has(M, own[i].name) THEN <<SuperOf(own[i])>> ELSE <<>>
    BY DEF supers
  <2>2. Has(M, own[i].name) \in BOOLEAN
    BY DEF Has
  <2> QED BY <2>1, <2>2, OnePart
<1>6. DOMAIN added = DOMAIN own /\ DOMAIN supers = DOMAIN own
  BY DEF added, supers
<1>7. A \in Seq(MethodEntry) /\ S \in Seq(MethodEntry)
  BY <1>3, FlattenType DEF A, S
<1>8. \A e : e \in ToSet(A) <=> \E i \in DOMAIN own : ~ Has(M, own[i].name) /\ e = own[i]
  <2>1. \A e : e \in ToSet(A) <=> \E i \in DOMAIN added : e \in ToSet(added[i])
    BY <1>3, FlattenElements DEF A, S
  <2>2. ASSUME NEW e PROVE e \in ToSet(A) <=> \E i \in DOMAIN own : ~ Has(M, own[i].name) /\ e = own[i]
    <3>1. e \in ToSet(A) <=> \E i \in DOMAIN own : e \in ToSet(added[i])
      BY <2>1, <1>6
    <3> QED BY <3>1, <1>4
  <2> QED BY <2>2
<1>9. \A e \in ToSet(S) : e.name[1] = "super"
  <2>1. \A e : e \in ToSet(S) <=> \E i \in DOMAIN supers : e \in ToSet(supers[i])
    BY <1>3, FlattenElements DEF A, S
  <2>2. ASSUME NEW e \in ToSet(S) PROVE e.name[1] = "super"
    <3>1. PICK i \in DOMAIN own : e \in ToSet(supers[i])
      BY <2>1, <1>6
    <3>2. Has(M, own[i].name) /\ e = SuperOf(own[i])
      BY <3>1, <1>5
    <3> QED BY <3>2, <1>2
  <2> QED BY <2>2
<1>10. Once(A)
  <2>1. ASSUME NEW i \in DOMAIN own, NEW j \in DOMAIN own, i # j
        PROVE  Apart(added[i], added[j])
    <3>1. ASSUME NEW d \in ToSet(added[i]), NEW e \in ToSet(added[j]), d.name = e.name
          PROVE  d.name[1] # ""
      <4>1. d = own[i] /\ e = own[j]
        BY <1>4
      <4> QED BY <2>1, <3>1, <4>1 DEF Once
    <3> QED BY <3>1 DEF Apart
  <2> QED BY <1>3, <1>4, <1>6, <2>1, FlattenOnce DEF A
<1>11. Once(S)
  <2>1. ASSUME NEW i \in DOMAIN S, NEW j \in DOMAIN S, S[i].name[1] = "" PROVE FALSE
    <3>1. S[i] \in ToSet(S)
      BY <1>7, ListEntries
    <3> QED BY <1>9, <2>1, <3>1
  <2> QED BY <2>1 DEF Once
<1>12. ASSUME NEW i \in DOMAIN M
       PROVE  /\ kept[i] \in MethodEntry /\ kept[i].name = M[i].name
              /\ \/ kept[i] = M[i] /\ (M[i].name[1] = "" => ~ Has(own, M[i].name))
                 \/ kept[i] \in ToSet(own)
  <2>1. CASE At(M[i]) # 0 /\ Named(M, M[i].name) = i
    <3>1. Has(own, M[i].name)
      BY <2>1 DEF Has
    <3>2. own[At(M[i])] \in ToSet(own) /\ own[At(M[i])].name = M[i].name /\ At(M[i]) \in DOMAIN own
      BY <3>1, HasNamed
    <3>3. kept[i] = own[At(M[i])]
      BY <2>1 DEF kept
    <3> QED BY <3>2, <3>3, <1>1
  <2>2. CASE ~ (At(M[i]) # 0 /\ Named(M, M[i].name) = i)
    <3>1. kept[i] = M[i]
      BY <2>2 DEF kept
    <3>2. ASSUME M[i].name[1] = "", Has(own, M[i].name) PROVE FALSE
      <4>1. At(M[i]) # 0 /\ Named(M, M[i].name) # i
        BY <2>2, <3>2 DEF Has
      <4>2. Has(M, M[i].name)
        BY <1>1, HasNamed
      <4>3. Named(M, M[i].name) \in DOMAIN M /\ M[Named(M, M[i].name)].name = M[i].name
        BY <4>2, HasNamed
      <4> QED BY <3>2, <4>1, <4>3 DEF Once
    <3> QED BY <3>1, <3>2, <1>1
  <2> QED BY <2>1, <2>2
<1>13. DOMAIN kept = DOMAIN M /\ kept \in Seq(MethodEntry)
  <2>1. \A i \in 1 .. Len(M) : kept[i] \in MethodEntry
    BY <1>01, <1>12
  <2>2. DOMAIN kept = DOMAIN M
    BY DEF kept
  <2>3. kept \in Seq(MethodEntry)
    <3>1. kept \in [1 .. Len(M) -> MethodEntry]
      <4>1. kept = [i \in 1 .. Len(M) |-> kept[i]]
        BY <1>01 DEF kept
      <4> QED BY <2>1, <4>1
    <3> QED BY <1>01, <3>1, SeqIntro
  <2> QED BY <2>2, <2>3
<1>14. Once(kept)
  BY <1>12, <1>13 DEF Once
<1>15. Apart(kept, A)
  <2>1. ASSUME NEW d \in ToSet(kept), NEW e \in ToSet(A) PROVE d.name # e.name
    <3>1. PICK i \in DOMAIN M : d = kept[i]
      BY <1>13 DEF ToSet
    <3>2. PICK j \in DOMAIN own : ~ Has(M, own[j].name) /\ e = own[j]
      BY <1>8
    <3>3. d.name = M[i].name /\ M[i] \in ToSet(M)
      BY <1>1, <1>12, <3>1
    <3> QED BY <3>2, <3>3, HasNamed
  <2> QED BY <2>1 DEF Apart
<1> DEFINE K == kept \o A
<1>16. K \in Seq(MethodEntry) /\ ToSet(K) = ToSet(kept) \cup ToSet(A) /\ Once(K)
  BY <1>7, <1>10, <1>13, <1>14, <1>15, ConcatElements, ConcatOnce
<1>17. O = K \o S
  BY <1>0
<1> HIDE DEF K
<1>18. Apart(K, S)
  <2>1. ASSUME NEW d \in ToSet(K), NEW e \in ToSet(S), d.name = e.name PROVE d.name[1] # ""
    BY <1>9, <2>1
  <2> QED BY <2>1 DEF Apart
<1>19. O \in Seq(MethodEntry) /\ Once(O) /\ ToSet(O) = ToSet(kept) \cup ToSet(A) \cup ToSet(S)
  <2>1. O \in Seq(MethodEntry) /\ ToSet(O) = ToSet(K) \cup ToSet(S)
    <3>1. K \in Seq(MethodEntry) /\ S \in Seq(MethodEntry)
      BY <1>7, <1>16
    <3>2. K \o S \in Seq(MethodEntry) /\ ToSet(K \o S) = ToSet(K) \cup ToSet(S)
      BY <3>1, ConcatElements
    <3> QED BY <1>17, <3>2
  <2>2. Once(O)
    BY <1>7, <1>11, <1>16, <1>17, <1>18, ConcatOnce
  <2> QED BY <1>16, <2>1, <2>2
<1>20. ASSUME NEW e \in ToSet(kept)
       PROVE  \E i \in DOMAIN M : e = kept[i]
  BY <1>13 DEF ToSet
<1>21. ASSUME NEW e \in ToSet(O)
       PROVE  e \in ToSet(M) \/ e \in ToSet(own) \/ e.name[1] = "super"
  <2>1. CASE e \in ToSet(kept)
    <3>1. PICK i \in DOMAIN M : e = kept[i]
      BY <2>1, <1>20
    <3>2. kept[i] = M[i] \/ kept[i] \in ToSet(own)
      BY <1>12
    <3> QED BY <3>1, <3>2, <1>1
  <2>2. CASE e \in ToSet(A)
    <3>1. PICK i \in DOMAIN own : e = own[i]
      BY <2>2, <1>8
    <3> QED BY <3>1, <1>1
  <2>3. CASE e \in ToSet(S)
    BY <2>3, <1>9
  <2> QED BY <2>1, <2>2, <2>3, <1>19
<1>22. ASSUME NEW m
       PROVE  PlainIn(O, m) = IF PlainIn(own, m) = {} THEN PlainIn(M, m) ELSE PlainIn(own, m)
  <2>1. Has(own, Plain(m)) <=> PlainIn(own, m) # {}
    BY HasPlain
  <2>2. ASSUME NEW e \in PlainIn(O, m)
        PROVE  e \in IF PlainIn(own, m) = {} THEN PlainIn(M, m) ELSE PlainIn(own, m)
    <3>1. e \in ToSet(O) /\ e.name = Plain(m) /\ e.name[1] = ""
      BY NameFacts DEF PlainIn
    <3>2. CASE e \in ToSet(kept)
      <4>1. PICK i \in DOMAIN M : e = kept[i]
        BY <3>2, <1>20
      <4>2. CASE kept[i] = M[i] /\ ~ Has(own, Plain(m))
        BY <4>1, <4>2, <3>1, <2>1, <1>1 DEF PlainIn
      <4>3. CASE kept[i] \in ToSet(own)
        BY <4>1, <4>3, <3>1 DEF PlainIn
      <4> QED BY <4>1, <4>2, <4>3, <3>1, <1>12
    <3>3. CASE e \in ToSet(A)
      <4>1. e \in ToSet(own)
        <5>1. PICK i \in DOMAIN own : e = own[i]
          BY <3>3, <1>8
        <5> QED BY <5>1, <1>1
      <4> QED BY <3>1, <4>1 DEF PlainIn
    <3>4. CASE e \in ToSet(S)
      BY <3>1, <3>4, <1>9
    <3> QED BY <3>1, <3>2, <3>3, <3>4, <1>19
  <2>3. ASSUME NEW e \in PlainIn(M, m), PlainIn(own, m) = {}
        PROVE  e \in PlainIn(O, m)
    <3>1. PICK i \in DOMAIN M : e = M[i]
      BY DEF PlainIn, ToSet
    <3>2. e.name = Plain(m)
      BY DEF PlainIn
    <3>3. kept[i] \notin ToSet(own)
      BY <1>12, <2>3, <3>1, <3>2 DEF PlainIn
    <3>4. kept[i] = e /\ kept[i] \in ToSet(kept)
      BY <1>12, <1>13, <3>1, <3>3, ListEntries
    <3> QED BY <1>19, <3>2, <3>4 DEF PlainIn
  <2>4. ASSUME NEW e \in PlainIn(own, m)
        PROVE  e \in PlainIn(O, m)
    <3>1. PICK i \in DOMAIN own : e = own[i]
      BY DEF PlainIn, ToSet
    <3>2. e.name = Plain(m) /\ e \in ToSet(own)
      BY DEF PlainIn
    <3>3. CASE ~ Has(M, Plain(m))
      <4>1. e \in ToSet(A)
        BY <1>8, <3>1, <3>2, <3>3
      <4> QED BY <1>19, <3>2, <4>1 DEF PlainIn
    <3>4. CASE Has(M, Plain(m))
      <4>1. PICK d \in ToSet(M) : d.name = Plain(m)
        BY <3>4, HasNamed
      <4>2. PICK j \in DOMAIN M : d = M[j]
        BY <4>1 DEF ToSet
      <4>3. M[j].name[1] = "" /\ Has(own, M[j].name)
        BY <4>1, <4>2, <2>1, <2>4, NameFacts
      <4>4. kept[j] \in PlainIn(own, m)
        BY <1>12, <4>1, <4>2, <4>3 DEF PlainIn
      <4>5. kept[j] = e
        <5>1. PlainIn(own, m) = {e}
          BY <2>4, PlainOnce
        <5> QED BY <4>4, <5>1
      <4>6. kept[j] \in ToSet(kept)
        BY <1>13, ListEntries
      <4> QED BY <1>19, <3>2, <4>5, <4>6 DEF PlainIn
    <3> QED BY <3>3, <3>4
  <2>5. CASE PlainIn(own, m) = {}
    BY <2>2, <2>3, <2>5
  <2>6. CASE PlainIn(own, m) # {}
    BY <2>2, <2>4, <2>6
  <2> QED BY <2>5, <2>6
<1> QED BY <1>19, <1>21, <1>22 DEF O

LEMMA FiniteImage ==
  ASSUME NEW S, IsFiniteSet(S), NEW f, DOMAIN f = S, NEW T, T = {f[x] : x \in S}, f \in [S -> T]
  PROVE  IsFiniteSet(T)
<1>1. f \in Surjection(S, T)
  BY DEF Surjection
<1> QED BY <1>1, FS_Surjection

LEMMA FiniteList ==
  ASSUME NEW T, NEW list \in Seq(T)
  PROVE  IsFiniteSet(ToSet(list))
<1>1. DOMAIN list = 1 .. Len(list) /\ Len(list) \in Nat
  OBVIOUS
<1>2. IsFiniteSet(1 .. Len(list))
  <2>1. 1 \in Int /\ Len(list) \in Int
    BY <1>1
  <2> QED BY <2>1, FS_Interval
<1>3. list \in [1 .. Len(list) -> ToSet(list)]
  <2>1. list = [i \in 1 .. Len(list) |-> list[i]]
    BY <1>1, LenProperties
  <2>2. \A i \in 1 .. Len(list) : list[i] \in ToSet(list)
    BY <1>1 DEF ToSet
  <2> QED BY <2>1, <2>2
<1>4. ToSet(list) = {list[x] : x \in 1 .. Len(list)}
  BY <1>1 DEF ToSet
<1> HIDE DEF ToSet
<1> QED BY <1>1, <1>2, <1>3, <1>4, FiniteImage

(* The copies that a class gets of its ancestors' methods.                     *)
LEMMA CopiesFacts ==
  ASSUME NEW methods \in Seq(MethodEntry), NEW ancestors \in SUBSET Classes,
         \A a \in ancestors : loaded[a].methods \in Seq(MethodEntry)
  PROVE  LET C == Copies(methods, ancestors)
         IN  /\ C \in Seq(MethodEntry)
             /\ \A e \in ToSet(C) : \E a \in ancestors, m \in Methods \ {New} :
                  e.name = Qualified(a, m) /\ \E n \in PlainIn(loaded[a].methods, m) : e.body = n.body
             /\ \A a \in ancestors, m \in Methods \ {New} :
                  PlainIn(loaded[a].methods, m) # {} =>
                    \E e \in ToSet(methods) \cup ToSet(C) : e.name = Qualified(a, m)
<1> DEFINE From(a) == {n \in ToSet(loaded[a].methods) : n.name[1] = "" /\ n.name[2] # New}
           Of(a) == {[m EXCEPT !.name = Qualified(a, m.name[2])] : m \in From(a)}
           All == UNION {Of(a) : a \in ancestors}
           S == {m \in All : ~ Has(methods, m.name)}
           C == Copies(methods, ancestors)
<1>1. C = SetToSeq(S)
  BY DEF Copies
<1>2. ASSUME NEW a \in ancestors, NEW n \in From(a)
      PROVE  /\ n \in MethodEntry /\ n.name[2] \in Methods \ {New} /\ n.name = Plain(n.name[2])
             /\ n \in PlainIn(loaded[a].methods, n.name[2])
             /\ [n EXCEPT !.name = Qualified(a, n.name[2])] \in MethodEntry
             /\ [n EXCEPT !.name = Qualified(a, n.name[2])].name = Qualified(a, n.name[2])
             /\ [n EXCEPT !.name = Qualified(a, n.name[2])].body = n.body
  <2>1. n \in ToSet(loaded[a].methods) /\ n.name[1] = "" /\ n.name[2] # New
    OBVIOUS
  <2>2. n \in MethodEntry
    BY <2>1, ListEntries
  <2>3. n.name \in Names /\ n.name[2] \in Methods
    BY <2>2, EntryFacts
  <2>4. n.name = Plain(n.name[2])
    BY <2>1, <2>3, NameFacts
  <2>5. Qualified(a, n.name[2]) \in Names
    BY <2>3, NameFacts
  <2>6. /\ [n EXCEPT !.name = Qualified(a, n.name[2])] \in MethodEntry
        /\ [n EXCEPT !.name = Qualified(a, n.name[2])].name = Qualified(a, n.name[2])
        /\ [n EXCEPT !.name = Qualified(a, n.name[2])].body = n.body
    BY <2>2, <2>5 DEF MethodEntry
  <2> QED BY <2>1, <2>2, <2>3, <2>4, <2>6 DEF PlainIn
<1>3. ASSUME NEW a \in ancestors
      PROVE  IsFiniteSet(Of(a))
  <2>1. IsFiniteSet(From(a))
    <3>1. IsFiniteSet(ToSet(loaded[a].methods))
      BY FiniteList
    <3>2. From(a) \in SUBSET ToSet(loaded[a].methods)
      OBVIOUS
    <3> HIDE DEF From
    <3> QED BY <3>1, <3>2, FS_Subset
  <2> DEFINE f == [m \in From(a) |-> [m EXCEPT !.name = Qualified(a, m.name[2])]]
  <2> HIDE DEF From
  <2>2. DOMAIN f = From(a) /\ Of(a) = {f[x] : x \in From(a)} /\ f \in [From(a) -> Of(a)]
    OBVIOUS
  <2> HIDE DEF f, Of
  <2> QED BY <2>1, <2>2, FiniteImage
<1> HIDE DEF From
<1>4. IsFiniteSet(All)
  <2> DEFINE f == [a \in ancestors |-> Of(a)]
             Sets == {Of(a) : a \in ancestors}
  <2>1. IsFiniteSet(ancestors)
    BY ClassesAssumption, FS_Subset
  <2> HIDE DEF Of
  <2>2. DOMAIN f = ancestors /\ Sets = {f[x] : x \in ancestors} /\ f \in [ancestors -> Sets]
    OBVIOUS
  <2> HIDE DEF f
  <2>3. \A T \in Sets : IsFiniteSet(T)
    BY <1>3
  <2>4. All = UNION Sets
    OBVIOUS
  <2> HIDE DEF Sets, All
  <2>5. IsFiniteSet(Sets)
    BY <2>1, <2>2, FiniteImage
  <2> QED BY <2>3, <2>4, <2>5, FS_UNION
<1>5. ASSUME NEW e \in All
      PROVE  \E a \in ancestors : \E n \in From(a) : e = [n EXCEPT !.name = Qualified(a, n.name[2])]
  OBVIOUS
<1>6. ASSUME NEW a \in ancestors, NEW n \in From(a)
      PROVE  [n EXCEPT !.name = Qualified(a, n.name[2])] \in All
  OBVIOUS
<1> HIDE DEF Of, All
<1>7. IsFiniteSet(S) /\ \A e \in S : e \in All
  <2>1. S \in SUBSET All
    OBVIOUS
  <2> QED BY <1>4, <2>1, FS_Subset
<1>8. C \in Seq(S) /\ ToSet(C) = S
  BY <1>1, <1>7, SetToSeqElements
<1>9. ASSUME NEW e \in ToSet(C)
      PROVE  /\ e \in MethodEntry
             /\ \E a \in ancestors, m \in Methods \ {New} :
                  e.name = Qualified(a, m) /\ \E n \in PlainIn(loaded[a].methods, m) : e.body = n.body
  <2>0. PICK a \in ancestors : \E n \in From(a) : e = [n EXCEPT !.name = Qualified(a, n.name[2])]
    BY <1>5, <1>7, <1>8
  <2>1. PICK n \in From(a) : e = [n EXCEPT !.name = Qualified(a, n.name[2])]
    BY <2>0
  <2> DEFINE m == n.name[2]
  <2>2. m \in Methods \ {New} /\ e.name = Qualified(a, m) /\ n \in PlainIn(loaded[a].methods, m) /\ e.body = n.body
    BY <1>2, <2>1
  <2>3. e \in MethodEntry
    BY <1>2, <2>1
  <2> QED BY <2>2, <2>3
<1>10. C \in Seq(MethodEntry)
  <2>1. S \subseteq MethodEntry
    BY <1>8, <1>9
  <2> QED BY <1>8, <2>1, SeqMonotonic
<1>11. ASSUME NEW a \in ancestors, NEW m \in Methods \ {New}, PlainIn(loaded[a].methods, m) # {}
       PROVE  \E e \in ToSet(methods) \cup ToSet(C) : e.name = Qualified(a, m)
  <2>1. PICK n \in PlainIn(loaded[a].methods, m) : TRUE
    BY <1>11
  <2>2. n \in ToSet(loaded[a].methods) /\ n.name = Plain(m)
    BY DEF PlainIn
  <2>3. n.name[1] = "" /\ n.name[2] = m
    BY <2>2, NameFacts
  <2>4. n \in From(a)
    BY <2>2, <2>3 DEF From
  <2> DEFINE e == [n EXCEPT !.name = Qualified(a, n.name[2])]
  <2>5. e.name = Qualified(a, m)
    BY <1>2, <2>3, <2>4
  <2>6. e \in All
    BY <1>6, <2>4
  <2> HIDE DEF e
  <2>7. CASE Has(methods, e.name)
    <3>1. \E d \in ToSet(methods) : d.name = e.name
      BY <2>7, HasNamed
    <3> QED BY <3>1, <2>5
  <2>8. CASE ~ Has(methods, e.name)
    BY <1>8, <2>5, <2>6, <2>8
  <2> QED BY <2>7, <2>8
<1> HIDE DEF C, S
<1> QED BY <1>9, <1>10, <1>11 DEF C
-----------------------------------------------------------------------------
(***************************************************************************)
(* What the declarations say.                                                *)
(***************************************************************************)

(* The member that a body of a method is under its written name.              *)
VersionEntry(v, m) == [name |-> Plain(m), sig |-> SignatureOf(v, m), body |-> v]

LEMMA DeclaredFacts ==
  ASSUME program \in Programs, NEW c \in Classes
  PROVE  /\ program[c].kind \in Kinds
         /\ DOMAIN Parents(c) = 1 .. Len(Parents(c)) /\ Len(Parents(c)) \in Nat
         /\ (Parents(c) = <<>> <=> Len(Parents(c)) = 0)
         /\ ParentsOf(c) = {Parents(c)[i] : i \in DOMAIN Parents(c)}
         /\ Parents(c) \in Seq(ParentsOf(c))
<1>1. program[c].kind \in Kinds /\ program[c].parents \in Seq(ToSet(program[c].parents))
  BY ProgramsAssumption DEF IsList
<1>2. ParentsOf(c) = ToSet(Parents(c)) /\ Parents(c) = program[c].parents
  BY DEF ParentsOf, Parents
<1>3. Parents(c) \in Seq(ParentsOf(c))
  BY <1>1, <1>2
<1>4. ParentsOf(c) = {Parents(c)[i] : i \in DOMAIN Parents(c)}
  BY <1>2 DEF ToSet
<1>5. DOMAIN Parents(c) = 1 .. Len(Parents(c)) /\ Len(Parents(c)) \in Nat
  BY <1>3, LenProperties
<1>6. Parents(c) = <<>> <=> Len(Parents(c)) = 0
  BY <1>3, EmptySeq
<1> QED BY <1>1, <1>3, <1>4, <1>5, <1>6

LEMMA OwnFacts ==
  ASSUME program \in Programs, NEW c \in Classes
  PROVE  /\ Own(c).fields \in Seq(FieldEntry) /\ Own(c).methods \in Seq(MethodEntry)
         /\ Own(c).ancestors = {} /\ Own(c) = [fields |-> Own(c).fields, methods |-> Own(c).methods,
                                               ancestors |-> {}]
         /\ Once(Own(c).methods) /\ \A e \in ToSet(Own(c).methods) : e.name[1] = ""
         /\ \A m : PlainIn(Own(c).methods, m) = IF Declares(c, m) THEN {VersionEntry(c, m)} ELSE {}
<1> DEFINE ds == program[c].methods
           fs == program[c].fields
           own == Own(c).methods
<1>1. /\ ds \in Seq(ToSet(ds)) /\ fs \in Seq(ToSet(fs))
      /\ IsInjective([i \in DOMAIN ds |-> ds[i].method]) /\ \A i \in DOMAIN ds : ds[i].method \in Methods
  BY ProgramsAssumption DEF IsList
<1>2. /\ own = [i \in DOMAIN ds |-> [name |-> Plain(ds[i].method), sig |-> ds[i].sig, body |-> c]]
      /\ Own(c).fields = [i \in DOMAIN fs |-> [name |-> fs[i], of |-> c]] /\ Own(c).ancestors = {}
      /\ Own(c) = [fields |-> Own(c).fields, methods |-> Own(c).methods, ancestors |-> {}]
  BY DEF Own
<1>3. DOMAIN ds = 1 .. Len(ds) /\ Len(ds) \in Nat /\ DOMAIN fs = 1 .. Len(fs) /\ Len(fs) \in Nat
  BY <1>1, LenProperties
<1>4. \A i, j \in DOMAIN ds : ds[i].method = ds[j].method => i = j
  BY <1>1 DEF IsInjective
<1>5. ASSUME NEW i \in DOMAIN ds PROVE ds[i].sig \in Signatures
  BY DEF Signatures
<1>6. ASSUME NEW i \in DOMAIN fs PROVE fs[i] \in FieldNames
  <2>1. fs[i] \in ToSet(fs)
    BY DEF ToSet
  <2> QED BY <2>1 DEF FieldNames
<1> HIDE DEF ds, fs
<1>7. ASSUME NEW i \in DOMAIN ds
      PROVE  /\ own[i] = [name |-> Plain(ds[i].method), sig |-> ds[i].sig, body |-> c]
             /\ own[i] \in MethodEntry /\ own[i].name = Plain(ds[i].method) /\ own[i].name[1] = ""
             /\ own[i].name[2] = ds[i].method
  <2> DEFINE e == [name |-> Plain(ds[i].method), sig |-> ds[i].sig, body |-> c]
  <2>1. own[i] = e
    BY <1>2
  <2>2. Plain(ds[i].method) \in Names /\ Plain(ds[i].method)[1] = "" /\ Plain(ds[i].method)[2] = ds[i].method
    BY <1>1, NameFacts
  <2>3. e \in MethodEntry
    BY <2>2, <1>5 DEF MethodEntry
  <2>4. e.name = Plain(ds[i].method)
    OBVIOUS
  <2> HIDE DEF own
  <2>5. own[i] = [name |-> Plain(ds[i].method), sig |-> ds[i].sig, body |-> c]
    BY <2>1
  <2> HIDE DEF e
  <2> QED BY <2>1, <2>2, <2>3, <2>4, <2>5
<1>8. own \in Seq(MethodEntry)
  <2>1. own \in [1 .. Len(ds) -> MethodEntry]
    BY <1>2, <1>3, <1>7
  <2> QED BY <2>1, <1>3, SeqIntro
<1>9. Own(c).fields \in Seq(FieldEntry)
  <2>1. \A i \in DOMAIN fs : [name |-> fs[i], of |-> c] \in FieldEntry
    BY <1>6 DEF FieldEntry
  <2>2. Own(c).fields \in [1 .. Len(fs) -> FieldEntry]
    BY <1>2, <1>3, <2>1
  <2> QED BY <2>2, <1>3, SeqIntro
<1>10. DOMAIN own = DOMAIN ds
  BY <1>2
<1> HIDE DEF own
<1>11. Once(own)
  <2>1. ASSUME NEW i \in DOMAIN own, NEW j \in DOMAIN own, own[i].name = own[j].name PROVE i = j
    <3>1. own[i].name[2] = ds[i].method /\ own[j].name[2] = ds[j].method /\ i \in DOMAIN ds /\ j \in DOMAIN ds
      BY <1>7, <1>10
    <3>2. ds[i].method = ds[j].method
      BY <2>1, <3>1
    <3> QED BY <1>4, <3>1, <3>2
  <2> QED BY <2>1 DEF Once
<1>12. ASSUME NEW e \in ToSet(own) PROVE e.name[1] = ""
  <2>1. PICK i \in DOMAIN ds : e = own[i]
    BY <1>10 DEF ToSet
  <2> QED BY <2>1, <1>7
<1>13. ASSUME NEW m
       PROVE  PlainIn(own, m) = IF Declares(c, m) THEN {VersionEntry(c, m)} ELSE {}
  <2>1. Declares(c, m) <=> PlainIn(own, m) # {}
    BY <1>8, HasPlain DEF Declares, own
  <2>2. CASE Declares(c, m)
    <3> DEFINE e == own[Named(own, Plain(m))]
    <3>1. Has(own, Plain(m))
      BY <2>2 DEF Declares, own
    <3>2. e \in ToSet(own) /\ e.name = Plain(m) /\ Named(own, Plain(m)) \in DOMAIN own
      BY <1>8, <3>1, HasNamed
    <3>3. e \in PlainIn(own, m)
      BY <3>2 DEF PlainIn
    <3>4. PlainIn(own, m) = {e}
      BY <1>8, <1>11, <3>3, PlainOnce
    <3>5. SignatureOf(c, m) = e.sig
      BY DEF SignatureOf, own
    <3>6. e = [name |-> e.name, sig |-> e.sig, body |-> e.body] /\ e.body = c
      <4> DEFINE k == Named(own, Plain(m))
      <4>1. k \in DOMAIN ds /\ e = own[k]
        BY <1>10, <3>2
      <4> HIDE DEF k, e
      <4>2. e = [name |-> Plain(ds[k].method), sig |-> ds[k].sig, body |-> c]
        BY <1>7, <4>1
      <4> QED BY <4>2
    <3>7. e = VersionEntry(c, m)
      BY <3>2, <3>5, <3>6 DEF VersionEntry
    <3> QED BY <2>2, <3>4, <3>7
  <2>3. CASE ~ Declares(c, m)
    BY <2>1, <2>3
  <2> QED BY <2>2, <2>3
<1> QED BY <1>2, <1>8, <1>9, <1>11, <1>12, <1>13 DEF own
-----------------------------------------------------------------------------
(***************************************************************************)
(* The ancestors of a class are the least set that has its parents and, with   *)
(* a class, that class's parents.                                           *)
(***************************************************************************)

Up(X) == {a \in Classes : \E p \in X : a \in ParentsOf(p)}

(* What is reached step by step.                                            *)
StepsUp(F, c) ==
  /\ F \in [0 .. Cardinality(Classes) -> SUBSET Classes]
  /\ F[0] = Up({c})
  /\ \A n \in 1 .. Cardinality(Classes) : F[n] = F[n - 1] \cup Up(F[n - 1])

LEMMA ClassCount == Cardinality(Classes) \in Nat
BY ClassesAssumption, FS_CardinalityType

LEMMA StepsExist ==
  ASSUME NEW c
  PROVE  \E F : StepsUp(F, c) /\ AncestorsOf(c) = F[Cardinality(Classes)]
<1> DEFINE N == Cardinality(Classes)
           Level(g, n) == IF n = 0 THEN Up({c}) ELSE g[n - 1] \cup Up(g[n - 1])
           Written(g, n) ==
             LET below == IF n = 0 THEN {c} ELSE g[n - 1]
             IN  {a \in Classes : (n > 0 /\ a \in below) \/ \E p \in below : a \in ParentsOf(p)}
           Sat(g, n) == \A j \in 0 .. n : g[j] = Level(g, j)
           Bad == {n \in 0 .. N : ~ \E g \in [0 .. n -> SUBSET Classes] : Sat(g, n)}
<1>0. N \in Nat
  BY ClassCount
<1> HIDE DEF N
<1>1. Bad = {}
  <2> SUFFICES ASSUME Bad # {} PROVE FALSE
    OBVIOUS
  <2>1. PICK n \in Bad : \A k \in Bad : n <= k
    <3>1. Bad \in SUBSET Nat
      BY <1>0
    <3> HIDE DEF Bad
    <3> QED BY <3>1, LeastNatural
  <2>2. n \in Nat /\ n <= N
    BY <1>0
  <2>3. n # 0
    <3> SUFFICES ASSUME n = 0 PROVE FALSE
      OBVIOUS
    <3> DEFINE g == [k \in 0 .. 0 |-> Up({c})]
    <3>1. g \in [0 .. n -> SUBSET Classes] /\ Sat(g, n)
      BY DEF Up
    <3> QED BY <3>1
  <2>4. n - 1 \in 0 .. N /\ n - 1 \notin Bad
    <3>1. n - 1 \in 0 .. N /\ ~ (n <= n - 1)
      BY <1>0, <2>2, <2>3
    <3> HIDE DEF Bad
    <3> QED BY <3>1, <2>1
  <2>5. PICK h \in [0 .. n - 1 -> SUBSET Classes] : Sat(h, n - 1)
    BY <2>4
  <2> DEFINE g == [k \in 0 .. n |-> Level(h, k)]
  <2>6. \A k \in 0 .. n - 1 : g[k] = h[k]
    <3> SUFFICES ASSUME NEW k \in 0 .. n - 1 PROVE g[k] = h[k]
      OBVIOUS
    <3>1. k \in 0 .. n
      BY <2>2
    <3> HIDE DEF Level
    <3>2. h[k] = Level(h, k)
      BY <2>5
    <3>3. g[k] = Level(h, k)
      BY <3>1
    <3> QED BY <3>2, <3>3
  <2>7. g \in [0 .. n -> SUBSET Classes]
    <3> SUFFICES ASSUME NEW k \in 0 .. n PROVE Level(h, k) \in SUBSET Classes
      OBVIOUS
    <3>1. CASE k = 0
      BY <3>1 DEF Up
    <3>2. CASE k # 0
      <4>1. h[k - 1] \in SUBSET Classes
        BY <3>2, <2>2, <2>5
      <4> QED BY <4>1, <3>2 DEF Up
    <3> QED BY <3>1, <3>2
  <2>8. Sat(g, n)
    <3> SUFFICES ASSUME NEW k \in 0 .. n PROVE g[k] = Level(g, k)
      OBVIOUS
    <3>1. CASE k = 0
      BY <3>1
    <3>2. CASE k # 0
      <4>1. k - 1 \in 0 .. n - 1
        BY <3>2, <2>2
      <4>2. g[k - 1] = h[k - 1]
        BY <4>1, <2>6
      <4>3. g[k] = h[k - 1] \cup Up(h[k - 1])
        BY <3>2
      <4> QED BY <4>2, <4>3, <3>2
    <3> QED BY <3>1, <3>2
  <2> QED BY <2>7, <2>8
<1>2. PICK g \in [0 .. N -> SUBSET Classes] : Sat(g, N)
  <2>1. N \in 0 .. N /\ N \notin Bad
    <3> HIDE DEF Bad
    <3> QED BY <1>0, <1>1
  <2> QED BY <2>1
<1>3. \A n \in 0 .. N : Written(g, n) = Level(g, n)
  <2> SUFFICES ASSUME NEW n \in 0 .. N PROVE Written(g, n) = Level(g, n)
    OBVIOUS
  <2>1. CASE n = 0
    BY <2>1 DEF Up
  <2>2. CASE n # 0
    <3>1. n > 0 /\ g[n - 1] \in SUBSET Classes
      BY <1>0, <1>2, <2>2
    <3> QED BY <3>1 DEF Up
  <2> QED BY <2>1, <2>2
<1>4. g = [n \in 0 .. N |-> Written(g, n)]
  BY <1>2, <1>3
<1> DEFINE F == CHOOSE F : F = [n \in 0 .. N |-> Written(F, n)]
<1>5. F = [n \in 0 .. N |-> Written(F, n)]
  BY <1>4
<1>6. AncestorsOf(c) = F[N]
  BY DEF AncestorsOf, N
<1> HIDE DEF F
<1>7. \A n \in 0 .. N : F[n] = Written(F, n)
  BY <1>5
<1> DEFINE Differ == {n \in 0 .. N : F[n] # g[n]}
<1>8. Differ = {}
  <2> SUFFICES ASSUME Differ # {} PROVE FALSE
    OBVIOUS
  <2>1. PICK n \in Differ : \A k \in Differ : n <= k
    <3>1. Differ \in SUBSET Nat
      BY <1>0
    <3> HIDE DEF Differ
    <3> QED BY <3>1, LeastNatural
  <2>2. n \in 0 .. N /\ F[n] # g[n]
    OBVIOUS
  <2>3. F[n] = Written(F, n) /\ g[n] = Written(g, n)
    BY <1>4, <1>7, <2>2
  <2>4. n # 0
    BY <2>2, <2>3
  <2>5. n - 1 \in 0 .. N /\ n - 1 \notin Differ
    <3>1. n - 1 \in 0 .. N /\ ~ (n <= n - 1)
      BY <1>0, <2>2, <2>4
    <3> HIDE DEF Differ
    <3> QED BY <3>1, <2>1
  <2>6. F[n - 1] = g[n - 1]
    BY <2>5
  <2> QED BY <2>2, <2>3, <2>4, <2>6
<1>9. AncestorsOf(c) = g[N]
  <2>1. N \in 0 .. N /\ N \notin Differ
    <3> HIDE DEF Differ
    <3> QED BY <1>0, <1>8
  <2> QED BY <2>1, <1>6
<1>10. g[0] = Up({c}) /\ \A n \in 1 .. N : g[n] = g[n - 1] \cup Up(g[n - 1])
  BY <1>0, <1>2
<1> QED BY <1>2, <1>9, <1>10 DEF StepsUp, N

LEMMA AncestorsLeast ==
  ASSUME NEW c, NEW T, Up({c}) \subseteq T, \A p \in T : Up({p}) \subseteq T
  PROVE  AncestorsOf(c) \subseteq T
<1> DEFINE N == Cardinality(Classes)
<1>0. N \in Nat
  BY ClassCount
<1>1. PICK F : StepsUp(F, c) /\ AncestorsOf(c) = F[N]
  BY StepsExist
<1>2. /\ F \in [0 .. N -> SUBSET Classes] /\ F[0] = Up({c})
      /\ \A n \in 1 .. N : F[n] = F[n - 1] \cup Up(F[n - 1])
  BY <1>1 DEF StepsUp
<1> HIDE DEF N
<1> DEFINE Bad == {n \in 0 .. N : ~ (F[n] \subseteq T)}
<1>3. Bad = {}
  <2> SUFFICES ASSUME Bad # {} PROVE FALSE
    OBVIOUS
  <2>1. PICK n \in Bad : \A k \in Bad : n <= k
    <3>1. Bad \in SUBSET Nat
      BY <1>0
    <3> HIDE DEF Bad
    <3> QED BY <3>1, LeastNatural
  <2>2. n \in 0 .. N /\ ~ (F[n] \subseteq T)
    OBVIOUS
  <2>3. n # 0
    BY <2>2, <1>2
  <2>4. n - 1 \in 0 .. N /\ n - 1 \notin Bad /\ n \in 1 .. N
    <3>1. n - 1 \in 0 .. N /\ ~ (n <= n - 1) /\ n \in 1 .. N
      BY <1>0, <2>2, <2>3
    <3> HIDE DEF Bad
    <3> QED BY <3>1, <2>1
  <2>5. F[n - 1] \subseteq T /\ F[n] = F[n - 1] \cup Up(F[n - 1])
    BY <2>4, <1>2
  <2>6. Up(F[n - 1]) \subseteq T
    BY <2>5 DEF Up
  <2> QED BY <2>2, <2>5, <2>6
<1>4. N \in 0 .. N /\ N \notin Bad
  <2> HIDE DEF Bad
  <2> QED BY <1>0, <1>3
<1> QED BY <1>1, <1>4

(* As long as a step adds a class, there are more classes than steps were taken. *)
LEMMA AncestorsClosed ==
  ASSUME NEW c
  PROVE  /\ AncestorsOf(c) \in SUBSET Classes /\ Up({c}) \subseteq AncestorsOf(c)
         /\ \A p \in AncestorsOf(c) : Up({p}) \subseteq AncestorsOf(c)
<1> DEFINE N == Cardinality(Classes)
<1>0. N \in Nat
  BY ClassCount
<1>1. PICK F : StepsUp(F, c) /\ AncestorsOf(c) = F[N]
  BY StepsExist
<1>2. /\ F \in [0 .. N -> SUBSET Classes] /\ F[0] = Up({c})
      /\ \A n \in 1 .. N : F[n] = F[n - 1] \cup Up(F[n - 1])
  BY <1>1 DEF StepsUp
<1>3. ASSUME NEW n \in 0 .. N
      PROVE  IsFiniteSet(F[n]) /\ Cardinality(F[n]) \in Nat /\ Cardinality(F[n]) <= N
                /\ (Cardinality(F[n]) = N => F[n] = Classes)
  <2>1. F[n] \in SUBSET Classes
    BY <1>2
  <2> QED BY <2>1, FS_Subset, FS_CardinalityType, ClassesAssumption
<1> HIDE DEF N
<1> DEFINE Closed(n) == Up(F[n]) \subseteq F[n]
           Fine(n) == Up({c}) \subseteq F[n] /\ (Closed(n) \/ Cardinality(F[n]) >= n)
           Bad == {n \in 0 .. N : ~ Fine(n)}
<1>4. Bad = {}
  <2> SUFFICES ASSUME Bad # {} PROVE FALSE
    OBVIOUS
  <2>1. PICK n \in Bad : \A k \in Bad : n <= k
    <3>1. Bad \in SUBSET Nat
      BY <1>0
    <3> HIDE DEF Bad
    <3> QED BY <3>1, LeastNatural
  <2>2. n \in 0 .. N /\ ~ Fine(n)
    OBVIOUS
  <2>3. n # 0
    <3> SUFFICES ASSUME n = 0 PROVE FALSE
      OBVIOUS
    <3>1. 0 \in 0 .. N
      BY <1>0
    <3>2. Cardinality(F[0]) >= 0
      BY <3>1, <1>3
    <3> QED BY <3>2, <2>2, <1>2
  <2>4. n - 1 \in 0 .. N /\ n - 1 \notin Bad /\ n \in 1 .. N
    <3>1. n - 1 \in 0 .. N /\ ~ (n <= n - 1) /\ n \in 1 .. N
      BY <1>0, <2>2, <2>3
    <3> HIDE DEF Bad
    <3> QED BY <3>1, <2>1
  <2>5. Fine(n - 1) /\ F[n - 1] \in SUBSET Classes /\ F[n] = F[n - 1] \cup Up(F[n - 1])
    BY <2>4, <1>2
  <2>6. F[n - 1] \subseteq F[n]
    BY <2>5
  <2>7. CASE Closed(n - 1)
    <3>1. F[n] = F[n - 1]
      BY <2>5, <2>7
    <3> QED BY <3>1, <2>2, <2>5, <2>7
  <2>8. CASE ~ Closed(n - 1)
    <3>1. PICK y \in Up(F[n - 1]) : y \notin F[n - 1]
      BY <2>8
    <3>2. y \in F[n]
      BY <3>1, <2>5
    <3>3. F[n - 1] \cup {y} \in SUBSET F[n]
      BY <3>2, <2>6
    <3>4. Cardinality(F[n - 1] \cup {y}) = Cardinality(F[n - 1]) + 1
      <4>1. IsFiniteSet(F[n - 1])
        BY <2>4, <1>3
      <4> QED BY <4>1, <3>1, FS_AddElement
    <3>5. Cardinality(F[n - 1] \cup {y}) <= Cardinality(F[n])
      BY <3>3, <2>2, <1>3, FS_Subset
    <3>6. Cardinality(F[n - 1]) >= n - 1
      BY <2>5, <2>8
    <3>7. Cardinality(F[n]) >= n
      <4>1. Cardinality(F[n]) \in Nat /\ Cardinality(F[n - 1]) \in Nat /\ n \in Nat
        BY <1>0, <1>3, <2>2, <2>4
      <4> QED BY <3>4, <3>5, <3>6, <4>1
    <3> QED BY <3>7, <2>2, <2>5, <2>6
  <2> QED BY <2>7, <2>8
<1>5. N \in 0 .. N /\ N \notin Bad
  <2> HIDE DEF Bad
  <2> QED BY <1>0, <1>4
<1>6. Fine(N) /\ F[N] \in SUBSET Classes
  BY <1>2, <1>5
<1>7. Closed(N)
  <2>1. CASE Cardinality(F[N]) >= N
    <3>1. Cardinality(F[N]) = N
      BY <2>1, <1>0, <1>3, <1>5
    <3>2. F[N] = Classes
      BY <3>1, <1>3, <1>5
    <3> QED BY <3>2 DEF Up
  <2> QED BY <2>1, <1>6
<1> QED BY <1>1, <1>6, <1>7 DEF Up

LEMMA UpOne == \A c \in Classes : Up({c}) = ParentsOf(c) \cap Classes
BY DEF Up

(* The ancestors of an ancestor are ancestors.                               *)
LEMMA AncestorsAbove ==
  ASSUME NEW c, NEW a \in AncestorsOf(c)
  PROVE  a \in Classes /\ AncestorsOf(a) \subseteq AncestorsOf(c)
<1>1. a \in Classes /\ Up({a}) \subseteq AncestorsOf(c) /\ \A p \in AncestorsOf(c) : Up({p}) \subseteq AncestorsOf(c)
  BY AncestorsClosed
<1>2. AncestorsOf(a) \subseteq AncestorsOf(c)
  BY <1>1, AncestorsLeast
<1> QED BY <1>1, <1>2

LEMMA AncestorsUnion ==
  ASSUME NEW c \in Classes
  PROVE  AncestorsOf(c) = UNION {Lineage(p) : p \in ParentsOf(c) \cap Classes}
<1> DEFINE T == UNION {Lineage(p) : p \in ParentsOf(c) \cap Classes}
<1>1. Up({c}) \subseteq T
  BY UpOne DEF Lineage
<1>2. ASSUME NEW p \in T PROVE Up({p}) \subseteq T
  <2>1. PICK q \in ParentsOf(c) \cap Classes : p \in Lineage(q)
    OBVIOUS
  <2>2. CASE p = q
    <3>1. Up({q}) \subseteq AncestorsOf(q)
      BY AncestorsClosed
    <3> QED BY <2>1, <2>2, <3>1 DEF Lineage
  <2>3. CASE p \in AncestorsOf(q)
    <3>1. Up({p}) \subseteq AncestorsOf(q)
      BY <2>3, AncestorsClosed
    <3> QED BY <2>1, <3>1 DEF Lineage
  <2> QED BY <2>1, <2>2, <2>3 DEF Lineage
<1>3. AncestorsOf(c) \subseteq T
  <2> HIDE DEF T
  <2> QED BY <1>1, <1>2, AncestorsLeast
<1>4. ASSUME NEW p \in ParentsOf(c) \cap Classes PROVE Lineage(p) \subseteq AncestorsOf(c)
  <2>1. p \in AncestorsOf(c)
    BY UpOne, AncestorsClosed
  <2>2. AncestorsOf(p) \subseteq AncestorsOf(c)
    BY <2>1, AncestorsAbove
  <2> QED BY <2>1, <2>2 DEF Lineage
<1> QED BY <1>3, <1>4

(* No cycle is above c.                                                      *)
Grounded(c) == c \in Classes /\ \A d \in Lineage(c) : d \notin AncestorsOf(d)

LEMMA GroundedAbove ==
  ASSUME NEW c, Grounded(c), NEW a \in AncestorsOf(c)
  PROVE  /\ Grounded(a)
         /\ Cardinality(AncestorsOf(a)) \in Nat /\ Cardinality(AncestorsOf(c)) \in Nat
         /\ Cardinality(AncestorsOf(a)) < Cardinality(AncestorsOf(c))
<1>1. a \in Classes /\ AncestorsOf(a) \subseteq AncestorsOf(c) /\ AncestorsOf(c) \in SUBSET Classes
  BY AncestorsAbove, AncestorsClosed
<1>2. Grounded(a)
  BY <1>1 DEF Grounded, Lineage
<1>3. a \notin AncestorsOf(a)
  BY <1>2 DEF Grounded, Lineage
<1>4. IsFiniteSet(AncestorsOf(c)) /\ IsFiniteSet(AncestorsOf(a))
  BY <1>1, ClassesAssumption, FS_Subset
<1>5. Cardinality(AncestorsOf(a) \cup {a}) = Cardinality(AncestorsOf(a)) + 1
  BY <1>3, <1>4, FS_AddElement
<1>6. AncestorsOf(a) \cup {a} \in SUBSET AncestorsOf(c)
  BY <1>1
<1>7. Cardinality(AncestorsOf(a) \cup {a}) <= Cardinality(AncestorsOf(c))
  BY <1>4, <1>6, FS_Subset
<1>8. Cardinality(AncestorsOf(a)) \in Nat /\ Cardinality(AncestorsOf(c)) \in Nat
  BY <1>4, FS_CardinalityType
<1> QED BY <1>2, <1>5, <1>7, <1>8

(* Above the top of a set of such classes there is none of the set.            *)
LEMMA TopMost ==
  ASSUME NEW B, B # {}, \A c \in B : Grounded(c)
  PROVE  \E c \in B : \A a \in AncestorsOf(c) : a \notin B
<1> DEFINE H(c) == Cardinality(AncestorsOf(c))
           Heights == {H(c) : c \in B}
<1>1. ASSUME NEW c \in B PROVE H(c) \in Nat
  <2>1. AncestorsOf(c) \in SUBSET Classes
    BY AncestorsClosed
  <2>2. IsFiniteSet(AncestorsOf(c))
    BY <2>1, ClassesAssumption, FS_Subset
  <2> QED BY <2>2, FS_CardinalityType
<1>2. Heights \in SUBSET Nat /\ Heights # {}
  BY <1>1
<1>3. PICK h \in Heights : \A k \in Heights : h <= k
  <2> HIDE DEF Heights
  <2> QED BY <1>2, LeastNatural
<1>4. PICK c \in B : h = H(c)
  OBVIOUS
<1>5. ASSUME NEW a \in AncestorsOf(c), a \in B PROVE FALSE
  <2>1. H(a) < H(c) /\ H(a) \in Nat /\ H(c) \in Nat
    BY GroundedAbove
  <2>2. H(c) <= H(a)
    BY <1>3, <1>4, <1>5
  <2> HIDE DEF H
  <2> QED BY <2>1, <2>2
<1> QED BY <1>4, <1>5

(* The base at a place is an ancestor, and with one of an ancestor.            *)
LEMMA BaseFacts ==
  ASSUME NEW c, NEW d \in Lineage(c), d \in Classes, NEW i \in Bases(d)
  PROVE  Parents(d)[i] \in AncestorsOf(c) /\ Parents(d)[i] \in AncestorsOf(d)
<1>1. Parents(d)[i] \in Up({d})
  <2>1. Parents(d)[i] \in ParentsOf(d)
    BY DEF ParentsOf, Bases, Parents, ToSet
  <2> QED BY <2>1, UpOne DEF Bases
<1>2. Up({d}) \subseteq AncestorsOf(d)
  BY AncestorsClosed
<1>3. AncestorsOf(d) \subseteq AncestorsOf(c)
  BY AncestorsAbove DEF Lineage
<1> QED BY <1>1, <1>2, <1>3

(* Where no cycle is above it, a class's version is what its declarations and   *)
(* its bases' versions make it.                                              *)
VersionHere(c, m) ==
  IF Declares(c, m) THEN c
  ELSE IF Giving(c, m) = {} THEN None ELSE Version(Parents(c)[Min(Giving(c, m))], m)

LEMMA PlacesLeast ==
  ASSUME program \in Programs, NEW c \in Classes, NEW S \in SUBSET Bases(c), S # {}
  PROVE  Min(S) \in S /\ \A k \in S : Min(S) <= k
<1>1. DOMAIN Parents(c) = 1 .. Len(Parents(c)) /\ Len(Parents(c)) \in Nat
  BY DeclaredFacts
<1>2. S \in SUBSET Nat
  BY <1>1 DEF Bases
<1> QED BY <1>2, MinIsLeast

LEMMA VersionIs ==
  ASSUME program \in Programs, NEW c, Grounded(c), NEW m
  PROVE  Version(c, m) = VersionHere(c, m)
<1> DEFINE B == {d \in Classes : Grounded(d) /\ Version(d, m) # VersionHere(d, m)}
<1> SUFFICES ASSUME B # {} PROVE FALSE
  BY DEF Grounded
<1>1. PICK b \in B : \A a \in AncestorsOf(b) : a \notin B
  <2>1. \A d \in B : Grounded(d)
    OBVIOUS
  <2> HIDE DEF B
  <2> QED BY <2>1, TopMost
<1>2. b \in Classes /\ Grounded(b) /\ Version(b, m) # VersionHere(b, m) /\ b \notin AncestorsOf(b)
  BY DEF Grounded, Lineage
<1>3. ASSUME NEW a \in AncestorsOf(b) PROVE Grounded(a) /\ a \in Classes /\ Version(a, m) = VersionHere(a, m)
  BY <1>1, <1>2, GroundedAbove, AncestorsAbove
<1> HIDE DEF B
<1> DEFINE From(v, d) == {i \in Bases(d) : v[Parents(d)[i]] # None}
           Body(v, d) == IF Declares(d, m) THEN d
                         ELSE IF From(v, d) = {} THEN None ELSE v[Parents(d)[Min(From(v, d))]]
           g == [d \in Lineage(b) |-> IF d = b THEN VersionHere(b, m) ELSE Version(d, m)]
           f == CHOOSE v : v = [d \in Lineage(b) |-> Body(v, d)]
<1>4. Version(b, m) = f[b]
  BY DEF Version
<1>5. ASSUME NEW d \in Lineage(b) PROVE d \in Classes /\ Grounded(d)
  BY <1>2, <1>3 DEF Lineage
<1>6. ASSUME NEW a \in AncestorsOf(b) PROVE g[a] = Version(a, m) /\ a \in Lineage(b)
  BY <1>2 DEF Lineage
<1>7. ASSUME NEW d \in Lineage(b) PROVE g[d] = Body(g, d)
  <2>1. \A i \in Bases(d) : g[Parents(d)[i]] = Version(Parents(d)[i], m)
    BY <1>5, <1>6, BaseFacts
  <2>2. From(g, d) = Giving(d, m)
    BY <2>1 DEF Giving
  <2>3. Giving(d, m) # {} => Min(Giving(d, m)) \in Bases(d)
    <3>1. Giving(d, m) \in SUBSET Bases(d)
      BY DEF Giving
    <3> QED BY <3>1, <1>5, PlacesLeast
  <2>4. Body(g, d) = VersionHere(d, m)
    <3> HIDE DEF g, From
    <3> QED BY <2>1, <2>2, <2>3 DEF VersionHere
  <2>5. g[d] = VersionHere(d, m)
    BY <1>3 DEF Lineage
  <2> QED BY <2>4, <2>5
<1>8. g = [d \in Lineage(b) |-> Body(g, d)]
  <2>1. g = [d \in Lineage(b) |-> g[d]]
    OBVIOUS
  <2> HIDE DEF g, Body
  <2> QED BY <2>1, <1>7
<1>9. f = [d \in Lineage(b) |-> Body(f, d)]
  <2> HIDE DEF g, Body
  <2> QED BY <1>8
<1>10. g[b] = VersionHere(b, m) /\ b \in Lineage(b)
  BY DEF Lineage
<1> HIDE DEF f, g
<1> DEFINE Differ == {d \in Lineage(b) : f[d] # g[d]}
<1>11. Differ = {}
  <2> SUFFICES ASSUME Differ # {} PROVE FALSE
    OBVIOUS
  <2>1. \A d \in Differ : Grounded(d)
    BY <1>5
  <2>2. PICK d \in Differ : \A a \in AncestorsOf(d) : a \notin Differ
    <3> HIDE DEF Differ
    <3> QED BY <2>1, TopMost
  <2>3. d \in Lineage(b) /\ f[d] # g[d] /\ d \in Classes
    BY <1>5
  <2>4. \A i \in Bases(d) : f[Parents(d)[i]] = g[Parents(d)[i]]
    <3> SUFFICES ASSUME NEW i \in Bases(d) PROVE f[Parents(d)[i]] = g[Parents(d)[i]]
      OBVIOUS
    <3>1. Parents(d)[i] \in AncestorsOf(b) /\ Parents(d)[i] \in AncestorsOf(d)
      BY <2>3, BaseFacts
    <3> QED BY <3>1, <2>2 DEF Lineage
  <2>5. From(f, d) = From(g, d)
    BY <2>4
  <2>6. From(g, d) # {} => Min(From(g, d)) \in Bases(d)
    <3>1. From(g, d) \in SUBSET Bases(d)
      OBVIOUS
    <3> HIDE DEF From
    <3> QED BY <3>1, <2>3, PlacesLeast
  <2>7. Body(f, d) = Body(g, d)
    <3> HIDE DEF From
    <3> QED BY <2>4, <2>5, <2>6
  <2>8. f[d] = Body(f, d) /\ g[d] = Body(g, d)
    <3> HIDE DEF Body
    <3> QED BY <1>8, <1>9, <2>3
  <2> QED BY <2>3, <2>7, <2>8
<1> QED BY <1>2, <1>4, <1>10, <1>11

(* The same of its fields.                                                   *)
PartOf(c, i) == IF i \in Bases(c) THEN AllFields(Parents(c)[i]) ELSE <<>>
FieldsHere(c) == FlattenSeq([i \in DOMAIN Parents(c) |-> PartOf(c, i)]) \o Own(c).fields

LEMMA AllFieldsIs ==
  ASSUME program \in Programs, NEW c, Grounded(c)
  PROVE  AllFields(c) = FieldsHere(c)
<1> DEFINE B == {d \in Classes : Grounded(d) /\ AllFields(d) # FieldsHere(d)}
<1> SUFFICES ASSUME B # {} PROVE FALSE
  BY DEF Grounded
<1>1. PICK b \in B : \A a \in AncestorsOf(b) : a \notin B
  <2>1. \A d \in B : Grounded(d)
    OBVIOUS
  <2> HIDE DEF B
  <2> QED BY <2>1, TopMost
<1>2. b \in Classes /\ Grounded(b) /\ AllFields(b) # FieldsHere(b) /\ b \notin AncestorsOf(b)
  BY DEF Grounded, Lineage
<1>3. ASSUME NEW a \in AncestorsOf(b) PROVE Grounded(a) /\ a \in Classes /\ AllFields(a) = FieldsHere(a)
  BY <1>1, <1>2, GroundedAbove, AncestorsAbove
<1> HIDE DEF B
<1> DEFINE Part(v, d) == [i \in DOMAIN Parents(d) |-> IF i \in Bases(d) THEN v[Parents(d)[i]] ELSE <<>>]
           Body(v, d) == FlattenSeq(Part(v, d)) \o Own(d).fields
           g == [d \in Lineage(b) |-> IF d = b THEN FieldsHere(b) ELSE AllFields(d)]
           f == CHOOSE v : v = [d \in Lineage(b) |-> Body(v, d)]
<1>4. AllFields(b) = f[b]
  BY DEF AllFields
<1>5. ASSUME NEW d \in Lineage(b) PROVE d \in Classes /\ Grounded(d)
  BY <1>2, <1>3 DEF Lineage
<1>6. ASSUME NEW a \in AncestorsOf(b) PROVE g[a] = AllFields(a) /\ a \in Lineage(b)
  BY <1>2 DEF Lineage
<1>7. ASSUME NEW d \in Lineage(b) PROVE g[d] = Body(g, d)
  <2>1. \A i \in Bases(d) : g[Parents(d)[i]] = AllFields(Parents(d)[i])
    BY <1>5, <1>6, BaseFacts
  <2>2. Part(g, d) = [i \in DOMAIN Parents(d) |-> PartOf(d, i)]
    <3> HIDE DEF g
    <3> QED BY <2>1 DEF PartOf
  <2>3. Body(g, d) = FieldsHere(d)
    <3> HIDE DEF g, Part
    <3> QED BY <2>2 DEF FieldsHere
  <2>4. g[d] = FieldsHere(d)
    BY <1>3 DEF Lineage
  <2> QED BY <2>3, <2>4
<1>8. g = [d \in Lineage(b) |-> Body(g, d)]
  <2>1. g = [d \in Lineage(b) |-> g[d]]
    OBVIOUS
  <2> HIDE DEF g, Body
  <2> QED BY <2>1, <1>7
<1>9. f = [d \in Lineage(b) |-> Body(f, d)]
  <2> HIDE DEF g, Body
  <2> QED BY <1>8
<1>10. g[b] = FieldsHere(b) /\ b \in Lineage(b)
  BY DEF Lineage
<1> HIDE DEF f, g
<1> DEFINE Differ == {d \in Lineage(b) : f[d] # g[d]}
<1>11. Differ = {}
  <2> SUFFICES ASSUME Differ # {} PROVE FALSE
    OBVIOUS
  <2>1. \A d \in Differ : Grounded(d)
    BY <1>5
  <2>2. PICK d \in Differ : \A a \in AncestorsOf(d) : a \notin Differ
    <3> HIDE DEF Differ
    <3> QED BY <2>1, TopMost
  <2>3. d \in Lineage(b) /\ f[d] # g[d] /\ d \in Classes
    BY <1>5
  <2>4. \A i \in Bases(d) : f[Parents(d)[i]] = g[Parents(d)[i]]
    <3> SUFFICES ASSUME NEW i \in Bases(d) PROVE f[Parents(d)[i]] = g[Parents(d)[i]]
      OBVIOUS
    <3>1. Parents(d)[i] \in AncestorsOf(b) /\ Parents(d)[i] \in AncestorsOf(d)
      BY <2>3, BaseFacts
    <3> QED BY <3>1, <2>2 DEF Lineage
  <2>5. Part(f, d) = Part(g, d)
    BY <2>4
  <2>6. Body(f, d) = Body(g, d)
    <3> HIDE DEF Part
    <3> QED BY <2>5
  <2>7. f[d] = Body(f, d) /\ g[d] = Body(g, d)
    <3> HIDE DEF Body
    <3> QED BY <1>8, <1>9, <2>3
  <2> QED BY <2>3, <2>6, <2>7
<1> QED BY <1>2, <1>4, <1>10, <1>11
-----------------------------------------------------------------------------
(***************************************************************************)
(* The inductive invariant.                                                  *)
(***************************************************************************)

(* What a list has under the written name of a method: the version of class d. *)
Versions(d, m) == IF Version(d, m) = None THEN {} ELSE {VersionEntry(Version(d, m), m)}

(* A member under a qualified name is the version of the class it names.       *)
TrueCopies(list) ==
  \A e \in ToSet(list) : e.name[1] \in Classes => e.body = Version(e.name[1], e.name[2])

(* What the copy kept of a flattened class says.                              *)
Sound(d, x) ==
  /\ x.fields = AllFields(d) /\ x.ancestors = AncestorsOf(d)
  /\ Once(x.methods) /\ TrueCopies(x.methods)
  /\ \A m \in Methods : PlainIn(x.methods, m) = Versions(d, m)
  /\ \A a \in AncestorsOf(d), m \in Methods \ {New} :
       Version(a, m) # None => \E e \in ToSet(x.methods) : e.name = Qualified(a, m)
  /\ \A why \in Faults : ~ Guilty(d, why)

(* What a call of flatten_class has gathered from the parents at the places P.  *)
ParentAt(f, i) == Parents(f.class)[i]

FieldsGathered(f, P) ==
  /\ f.fields = FlattenSeq([i \in P |-> PartOf(f.class, i)])
  /\ \A i, j \in Bases(f.class) \cap P :
       i # j => ~ Clashes(AllFields(ParentAt(f, i)), AllFields(ParentAt(f, j)))

FromFirst(f, S, m) == IF S = {} THEN {} ELSE Versions(ParentAt(f, Min(S)), m)

MethodsGathered(f, P) ==
  /\ Once(f.methods) /\ TrueCopies(f.methods)
  /\ \A m \in Methods :
       /\ PlainIn(f.methods, m) = FromFirst(f, Giving(f.class, m) \cap P, m)
       /\ \A i, j \in Giving(f.class, m) \cap P : i # j => Declares(f.class, m)

Obliges(f, i) == program[ParentAt(f, i)].kind = "interface"

DutiesGathered(f, P) ==
  /\ \A e \in ToSet(f.required) : e.name[1] = "" =>
       \E i \in P : Obliges(f, i) /\ e \in Versions(ParentAt(f, i), e.name[2])
  /\ \A i \in P, m \in Methods :
       Obliges(f, i) => Versions(ParentAt(f, i), m) \subseteq ToSet(f.required)

Gathered(f, P) ==
  /\ \A i \in P : ParentAt(f, i) \in Classes /\ program[ParentAt(f, i)].kind \in {"class", "interface"}
  /\ f.ancestors = UNION {Lineage(ParentAt(f, i)) : i \in P}
  /\ FieldsGathered(f, P) /\ MethodsGathered(f, P) /\ DutiesGathered(f, P)

Met(f) == 1 .. f.next - 1

Entry == [fields : Seq(FieldEntry), methods : Seq(MethodEntry), ancestors : SUBSET Classes]
Frame == [class : Classes, next : Nat, fields : Seq(FieldEntry), methods : Seq(MethodEntry),
          ancestors : SUBSET Classes, required : Seq(MethodEntry)]

StateTyped ==
  /\ program \in Programs /\ order \in Seq(Classes)
  /\ loaded \in [Classes -> Entry] /\ done \in SUBSET Classes /\ stack \in Seq(Frame)
  /\ errors \in SUBSET [class : Classes, why : Faults \cup {"copy"}]

(* The flattened classes are as they should be, the others as declared.        *)
Flattened ==
  /\ \A d \in done : /\ d \notin AncestorsOf(d) /\ AncestorsOf(d) \subseteq done
                     /\ Sound(d, loaded[d])
  /\ \A c \in Classes \ done : loaded[c] = Own(c)

(* A call has met flattened parents only, and waits for the one above it.       *)
Waiting ==
  /\ \A k \in DOMAIN stack :
       /\ stack[k].class \notin done /\ stack[k].next \in 1 .. Len(Parents(stack[k].class)) + 1
       /\ Gathered(stack[k], Met(stack[k]))
       /\ \A i \in Met(stack[k]) : Parents(stack[k].class)[i] \in done
  /\ \A k \in DOMAIN stack : k < Len(stack) =>
       /\ stack[k].next \in DOMAIN Parents(stack[k].class)
       /\ Parents(stack[k].class)[stack[k].next] = stack[k + 1].class
  /\ \A i, j \in DOMAIN stack : stack[i].class = stack[j].class => i = j

Blamed == \A e \in errors : e.why # "copy" => Guilty(e.class, e.why)

Accounted ==
  \A c \in Classes : \/ c \in done \cup OnStack \cup ToSet(order)
                     \/ \E e \in errors : e.class \in Lineage(c)

IInv == StateTyped /\ Flattened /\ Waiting /\ Blamed /\ Accounted
-----------------------------------------------------------------------------
(***************************************************************************)
(* What the declarations say does not change.                                *)
(***************************************************************************)

LEMMA HierarchyKept ==
  ASSUME program' = program
  PROVE  /\ \A c : Parents(c)' = Parents(c) /\ ParentsOf(c)' = ParentsOf(c) /\ Bases(c)' = Bases(c)
         /\ \A c : AncestorsOf(c)' = AncestorsOf(c) /\ Lineage(c)' = Lineage(c)
         /\ \A c : Own(c)' = Own(c) /\ Obliging(c)' = Obliging(c)
         /\ \A c, m : Declares(c, m)' <=> Declares(c, m)
         /\ \A c, m : SignatureOf(c, m)' = SignatureOf(c, m)
<1>1. \A c : Parents(c)' = Parents(c) /\ ParentsOf(c)' = ParentsOf(c) /\ Bases(c)' = Bases(c)
  BY DEF Parents, ParentsOf, Bases
<1>2. \A c : AncestorsOf(c)' = AncestorsOf(c)
  BY DEF AncestorsOf, ParentsOf, Parents
<1>3. \A c : Lineage(c)' = Lineage(c)
  BY <1>2 DEF Lineage
<1>4. \A c : Own(c)' = Own(c)
  BY DEF Own
<1>5. \A c : Obliging(c)' = Obliging(c)
  BY <1>1 DEF Obliging
<1>6. \A c, m : Declares(c, m)' <=> Declares(c, m)
  BY <1>4 DEF Declares
<1>7. \A c, m : SignatureOf(c, m)' = SignatureOf(c, m)
  BY <1>4 DEF SignatureOf
<1> QED BY <1>1, <1>2, <1>3, <1>4, <1>5, <1>6, <1>7

LEMMA VersionsKept ==
  ASSUME program' = program
  PROVE  /\ \A c, m : Version(c, m)' = Version(c, m) /\ Versions(c, m)' = Versions(c, m)
         /\ \A c, m : Giving(c, m)' = Giving(c, m)
         /\ \A c : AllFields(c)' = AllFields(c)
         /\ \A c, i : FieldsAt(c, i)' = FieldsAt(c, i) /\ PartOf(c, i)' = PartOf(c, i)
<1>1. \A c, m : Version(c, m)' = Version(c, m)
  BY DEF Version, Bases, Parents, Lineage, AncestorsOf, ParentsOf, Own, Declares
<1>2. \A c : AllFields(c)' = AllFields(c)
  BY DEF AllFields, Bases, Parents, Lineage, AncestorsOf, ParentsOf, Own
<1>3. \A c, m : Giving(c, m)' = Giving(c, m)
  BY <1>1, HierarchyKept DEF Giving
<1>4. \A c, i : FieldsAt(c, i)' = FieldsAt(c, i) /\ PartOf(c, i)' = PartOf(c, i)
  BY <1>2, HierarchyKept DEF FieldsAt, PartOf
<1>5. \A c, m : Versions(c, m)' = Versions(c, m)
  BY <1>1, HierarchyKept DEF Versions, VersionEntry
<1> QED BY <1>1, <1>2, <1>3, <1>4, <1>5

LEMMA GuiltKept ==
  ASSUME program' = program
  PROVE  \A c, why : Guilty(c, why)' <=> Guilty(c, why)
BY HierarchyKept, VersionsKept DEF Guilty, Clashes

LEMMA SoundKept ==
  ASSUME program' = program
  PROVE  \A d, x : Sound(d, x)' <=> Sound(d, x)
<1>1. \A list : TrueCopies(list)' <=> TrueCopies(list)
  BY VersionsKept DEF TrueCopies
<1> QED BY <1>1, HierarchyKept, VersionsKept, GuiltKept DEF Sound

LEMMA GatheredKept ==
  ASSUME program' = program
  PROVE  \A f, P : Gathered(f, P)' <=> Gathered(f, P)
<1> SUFFICES ASSUME NEW f, NEW P PROVE Gathered(f, P)' <=> Gathered(f, P)
  OBVIOUS
<1>1. \A list : TrueCopies(list)' <=> TrueCopies(list)
  BY VersionsKept DEF TrueCopies
<1>2. \A i : ParentAt(f, i)' = ParentAt(f, i) /\ (Obliges(f, i)' <=> Obliges(f, i))
  BY HierarchyKept DEF ParentAt, Obliges
<1>3. FieldsGathered(f, P)' <=> FieldsGathered(f, P)
  <2>1. [i \in P |-> PartOf(f.class, i)]' = [i \in P |-> PartOf(f.class, i)]
    BY VersionsKept
  <2> QED BY <2>1, <1>2, HierarchyKept, VersionsKept DEF FieldsGathered, Clashes
<1>0. \A i, m : Versions(ParentAt(f, i), m)' = Versions(ParentAt(f, i), m)
  <2> SUFFICES ASSUME NEW i, NEW m PROVE Versions(ParentAt(f, i), m)' = Versions(ParentAt(f, i), m)
    OBVIOUS
  <2>1. ParentAt(f, i)' = ParentAt(f, i)
    BY <1>2
  <2>2. \A d : Versions(d, m)' = Versions(d, m)
    BY VersionsKept
  <2> QED BY <2>1, <2>2
<1>4. MethodsGathered(f, P)' <=> MethodsGathered(f, P)
  <2>1. \A m : (Giving(f.class, m) \cap P)' = Giving(f.class, m) \cap P
    BY VersionsKept
  <2>2. \A m : Declares(f.class, m)' <=> Declares(f.class, m)
    BY HierarchyKept
  <2>3. \A S, m : FromFirst(f, S, m)' = FromFirst(f, S, m)
    BY <1>0 DEF FromFirst
  <2>4. \A m : FromFirst(f, Giving(f.class, m) \cap P, m)' = FromFirst(f, Giving(f.class, m) \cap P, m)
    <3> SUFFICES ASSUME NEW m
                 PROVE  FromFirst(f, Giving(f.class, m) \cap P, m)' = FromFirst(f, Giving(f.class, m) \cap P, m)
      OBVIOUS
    <3> QED BY <2>1, <2>3
  <2> QED BY <1>1, <2>1, <2>2, <2>4 DEF MethodsGathered
<1>5. DutiesGathered(f, P)' <=> DutiesGathered(f, P)
  BY <1>0, <1>2 DEF DutiesGathered
<1>6. (UNION {Lineage(ParentAt(f, i)) : i \in P})' = UNION {Lineage(ParentAt(f, i)) : i \in P}
  BY <1>2, HierarchyKept
<1>7. \A i : program[ParentAt(f, i)]' = program[ParentAt(f, i)]
  BY <1>2
<1> QED BY <1>2, <1>3, <1>4, <1>5, <1>6, <1>7 DEF Gathered
-----------------------------------------------------------------------------
(***************************************************************************)
(* A class without parents, and a class whose parents were all met.            *)
(***************************************************************************)

LEMMA ClashElements ==
  ASSUME NEW s, NEW t
  PROVE  Clashes(s, t) <=> \E d \in ToSet(s), e \in ToSet(t) : d.name = e.name
<1>1. ASSUME NEW i \in DOMAIN s, NEW j \in DOMAIN t, s[i].name = t[j].name
      PROVE  \E d \in ToSet(s), e \in ToSet(t) : d.name = e.name
  BY <1>1 DEF ToSet
<1>2. ASSUME NEW d \in ToSet(s), NEW e \in ToSet(t), d.name = e.name
      PROVE  \E i \in DOMAIN s, j \in DOMAIN t : s[i].name = t[j].name
  BY <1>2 DEF ToSet
<1> QED BY <1>1, <1>2 DEF Clashes

Breaks(methods, want) ==
  ~ Has(methods, want.name) \/ methods[Named(methods, want.name)].sig # want.sig

LEMMA BreachFacts ==
  ASSUME NEW methods, NEW required \in Seq(MethodEntry)
  PROVE  LET b == Breach(methods, required) IN
         /\ b \in {"none", "copy", "missing", "signature"}
         /\ b = "none" => \A want \in ToSet(required) : ~ Breaks(methods, want)
         /\ b = "missing" => \E want \in ToSet(required) :
              want.name[1] = "" /\ ~ Has(methods, want.name)
         /\ b = "signature" => \E want \in ToSet(required) :
              want.name[1] = "" /\ Has(methods, want.name)
                /\ methods[Named(methods, want.name)].sig # want.sig
<1> DEFINE Missing(want) == ~ Has(methods, want.name)
           Differs(want) == ~ Missing(want) /\ methods[Named(methods, want.name)].sig # want.sig
           I == {i \in 1 .. Len(required) : Missing(required[i]) \/ Differs(required[i])}
           first == IF I # {} THEN Min(I) ELSE 0
           b == Breach(methods, required)
<1>1. first = SelectInSeq(required, LAMBDA want : Missing(want) \/ Differs(want))
  BY DEF SelectInSeq
<1>2. b = CASE first = 0 -> "none"
            [] first # 0 /\ required[first].name[1] # "" -> "copy"
            [] OTHER -> IF Missing(required[first]) THEN "missing" ELSE "signature"
  BY <1>1 DEF Breach
<1>3. I \in SUBSET Nat /\ DOMAIN required = 1 .. Len(required) /\ 0 \notin I
  OBVIOUS
<1>4. CASE I = {}
  <2>1. b = "none"
    BY <1>2, <1>4
  <2>2. \A want \in ToSet(required) : ~ Breaks(methods, want)
    <3> SUFFICES ASSUME NEW want \in ToSet(required) PROVE ~ Breaks(methods, want)
      OBVIOUS
    <3>1. PICK i \in 1 .. Len(required) : want = required[i]
      BY <1>3 DEF ToSet
    <3>2. ~ (Missing(want) \/ Differs(want))
      BY <1>4, <3>1
    <3> QED BY <3>2 DEF Breaks
  <2> HIDE DEF b
  <2> QED BY <2>1, <2>2 DEF b
<1>5. CASE I # {}
  <2>1. Min(I) \in I
    <3> HIDE DEF I
    <3> QED BY <1>3, <1>5, MinIsLeast
  <2> DEFINE want == required[Min(I)]
  <2>2. first = Min(I) /\ first # 0
    BY <1>3, <1>5, <2>1
  <2>3. want \in ToSet(required) /\ (Missing(want) \/ Differs(want))
    BY <1>3, <2>1 DEF ToSet
  <2>4. b = IF want.name[1] # "" THEN "copy" ELSE IF Missing(want) THEN "missing" ELSE "signature"
    <3> HIDE DEF b, I, first, Missing
    <3> QED BY <1>2, <2>2
  <2> HIDE DEF b, want
  <2> QED BY <2>3, <2>4 DEF b
<1> QED BY <1>4, <1>5

LEMMA VersionsHere ==
  ASSUME program \in Programs, NEW c, Grounded(c), NEW m
  PROVE  Versions(c, m) = IF Declares(c, m) THEN {VersionEntry(c, m)}
                          ELSE IF Giving(c, m) = {} THEN {}
                          ELSE Versions(Parents(c)[Min(Giving(c, m))], m)
<1>1. Version(c, m) = VersionHere(c, m)
  BY VersionIs
<1>2. c # None
  BY NameFacts DEF Grounded
<1> QED BY <1>1, <1>2 DEF VersionHere, Versions

LEMMA VersionSome == \A c, m : (Versions(c, m) = {} <=> Version(c, m) = None)
BY DEF Versions

LEMMA LeafSound ==
  ASSUME program \in Programs, NEW c \in Classes, Parents(c) = <<>>
  PROVE  Sound(c, Own(c)) /\ AncestorsOf(c) = {} /\ Own(c) \in Entry
<1> DEFINE own == Own(c)
<1>1. DOMAIN Parents(c) = {} /\ ParentsOf(c) = {}
  BY DeclaredFacts
<1>2. AncestorsOf(c) = {}
  BY <1>1, AncestorsUnion
<1>3. Grounded(c)
  BY <1>2 DEF Grounded, Lineage
<1>4. Bases(c) = {} /\ \A m : Giving(c, m) = {}
  BY <1>1 DEF Bases, Giving
<1>5. /\ own.fields \in Seq(FieldEntry) /\ own.methods \in Seq(MethodEntry) /\ own.ancestors = {}
      /\ Once(own.methods) /\ \A e \in ToSet(own.methods) : e.name[1] = ""
      /\ \A m : PlainIn(own.methods, m) = IF Declares(c, m) THEN {VersionEntry(c, m)} ELSE {}
      /\ own = [fields |-> own.fields, methods |-> own.methods, ancestors |-> {}]
  BY OwnFacts
<1>6. own.fields = AllFields(c)
  <2>1. [i \in DOMAIN Parents(c) |-> PartOf(c, i)] = <<>>
    BY <1>1
  <2>2. AllFields(c) = FieldsHere(c)
    BY <1>3, AllFieldsIs
  <2>3. AllFields(c) = <<>> \o own.fields
    BY <2>1, <2>2, FlattenEmpty DEF FieldsHere
  <2>4. <<>> \o own.fields = own.fields
    BY <1>5, ConcatEmptySeq
  <2> QED BY <2>3, <2>4
<1>7. \A m : PlainIn(own.methods, m) = Versions(c, m)
  BY <1>3, <1>4, <1>5, VersionsHere
<1>8. TrueCopies(own.methods)
  BY <1>5, NameFacts DEF TrueCopies
<1>9. ASSUME NEW why \in Faults PROVE ~ Guilty(c, why)
  BY <1>1, <1>2, <1>4 DEF Guilty, Faults, Obliging
<1>10. own \in Entry
  BY <1>5 DEF Entry
<1> HIDE DEF own
<1> QED BY <1>2, <1>5, <1>6, <1>7, <1>8, <1>9, <1>10 DEF Sound, own

(* The fields of the bases at the first n places.                             *)
LEMMA PartsFacts ==
  ASSUME program \in Programs, NEW c \in Classes, NEW n \in Nat,
         \A i \in Bases(c) \cap (1 .. n) : AllFields(Parents(c)[i]) \in Seq(FieldEntry)
  PROVE  LET parts == [i \in 1 .. n |-> PartOf(c, i)] IN
         /\ parts \in Seq(Seq(FieldEntry)) /\ Len(parts) = n
         /\ FlattenSeq(parts) \in Seq(FieldEntry)
         /\ \A e : e \in ToSet(FlattenSeq(parts)) <=>
                     \E i \in Bases(c) \cap (1 .. n) : e \in ToSet(AllFields(Parents(c)[i]))
<1> DEFINE parts == [i \in 1 .. n |-> PartOf(c, i)]
<1>1. \A i \in 1 .. n : PartOf(c, i) \in Seq(FieldEntry)
  BY ShortSeqs DEF PartOf
<1>2. parts \in [1 .. n -> Seq(FieldEntry)]
  BY <1>1
<1>3. parts \in Seq(Seq(FieldEntry)) /\ DOMAIN parts = 1 .. n
  BY <1>2, SeqIntro
<1>4. Len(parts) = n
  <2> HIDE DEF parts
  <2> QED BY <1>3, LenProperties
<1>5. \A i \in 1 .. n : parts[i] = PartOf(c, i)
  OBVIOUS
<1> HIDE DEF parts
<1>6. FlattenSeq(parts) \in Seq(FieldEntry)
  BY <1>3, FlattenType
<1>7. \A e : e \in ToSet(FlattenSeq(parts)) <=> \E i \in 1 .. n : e \in ToSet(parts[i])
  BY <1>3, FlattenElements
<1>8. \A e : \A i \in 1 .. n : e \in ToSet(parts[i]) <=> (i \in Bases(c) /\ e \in ToSet(AllFields(Parents(c)[i])))
  BY <1>5, NothingListed DEF PartOf
<1>9. \A e : e \in ToSet(FlattenSeq(parts)) <=>
               \E i \in Bases(c) \cap (1 .. n) : e \in ToSet(AllFields(Parents(c)[i]))
  BY <1>7, <1>8
<1> QED BY <1>3, <1>4, <1>6, <1>9 DEF parts

(* One more parent's fields.                                                 *)
LEMMA FieldsGrow ==
  ASSUME program \in Programs, NEW f, NEW g, NEW n, f.class \in Classes, g.class = f.class,
         n \in DOMAIN Parents(f.class),
         FieldsGathered(f, 1 .. n - 1),
         \A i \in Bases(f.class) \cap (1 .. n) : AllFields(ParentAt(f, i)) \in Seq(FieldEntry),
         n \in Bases(f.class) => /\ g.fields = f.fields \o AllFields(ParentAt(f, n))
                                 /\ ~ Clashes(f.fields, AllFields(ParentAt(f, n))),
         n \notin Bases(f.class) => g.fields = f.fields
  PROVE  FieldsGathered(g, 1 .. n) /\ g.fields \in Seq(FieldEntry)
<1> DEFINE c == f.class
           parts(k) == [i \in 1 .. k |-> PartOf(c, i)]
<1>0. n \in Nat /\ n # 0 /\ n - 1 \in Nat /\ 1 .. n - 1 \subseteq 1 .. n /\ n \in 1 .. n /\ n - 1 + 1 = n
  BY DeclaredFacts
<1>1. f.fields = FlattenSeq(parts(n - 1))
  BY DEF FieldsGathered
<1>2. /\ parts(n) \in Seq(Seq(FieldEntry)) /\ Len(parts(n)) = n
      /\ FlattenSeq(parts(n)) \in Seq(FieldEntry)
  BY <1>0, PartsFacts DEF ParentAt
<1>3. /\ FlattenSeq(parts(n - 1)) \in Seq(FieldEntry)
      /\ \A e : e \in ToSet(FlattenSeq(parts(n - 1))) <=>
                  \E i \in Bases(c) \cap (1 .. n - 1) : e \in ToSet(AllFields(Parents(c)[i]))
  BY <1>0, PartsFacts DEF ParentAt
<1>4. [i \in 1 .. n - 1 |-> parts(n)[i]] = parts(n - 1)
  BY <1>0
<1>5. FlattenSeq(parts(n)) = FlattenSeq(parts(n - 1)) \o parts(n)[n]
  <2> HIDE DEF parts
  <2> QED BY <1>0, <1>2, <1>4, FlattenOneMore
<1>6. parts(n)[n] = PartOf(c, n)
  BY <1>0
<1> HIDE DEF parts
<1>7. g.fields = FlattenSeq(parts(n))
  <2>1. CASE n \in Bases(c)
    BY <2>1, <1>1, <1>5, <1>6 DEF PartOf, ParentAt
  <2>2. CASE n \notin Bases(c)
    <3>1. FlattenSeq(parts(n)) = f.fields \o <<>>
      BY <2>2, <1>1, <1>5, <1>6 DEF PartOf
    <3>2. f.fields \o <<>> = f.fields
      BY <1>1, <1>3, ConcatEmptySeq
    <3> QED BY <2>2, <3>1, <3>2
  <2> QED BY <2>1, <2>2
<1>8. ASSUME NEW i \in Bases(c) \cap (1 .. n - 1), n \in Bases(c)
      PROVE  /\ ~ Clashes(AllFields(ParentAt(f, i)), AllFields(ParentAt(f, n)))
             /\ ~ Clashes(AllFields(ParentAt(f, n)), AllFields(ParentAt(f, i)))
  <2>1. ToSet(AllFields(ParentAt(f, i))) \subseteq ToSet(f.fields)
    BY <1>1, <1>3 DEF ParentAt
  <2>2. ~ Clashes(f.fields, AllFields(ParentAt(f, n)))
    BY <1>8
  <2> QED BY <2>1, <2>2, ClashElements
<1>9. ASSUME NEW i \in Bases(c) \cap (1 .. n), NEW j \in Bases(c) \cap (1 .. n), i # j
      PROVE  ~ Clashes(AllFields(ParentAt(f, i)), AllFields(ParentAt(f, j)))
  <2>1. i \in 1 .. n - 1 \/ i = n
    BY <1>0
  <2>2. j \in 1 .. n - 1 \/ j = n
    BY <1>0
  <2>3. CASE i \in 1 .. n - 1 /\ j \in 1 .. n - 1
    BY <2>3, <1>9 DEF FieldsGathered
  <2> QED BY <1>8, <1>9, <2>1, <2>2, <2>3
<1>10. \A i : ParentAt(g, i) = ParentAt(f, i)
  BY DEF ParentAt
<1> QED BY <1>2, <1>7, <1>9, <1>10 DEF FieldsGathered, parts

LEMMA UndecidedFacts ==
  ASSUME NEW c, NEW methods, NEW more \in Seq(MethodEntry)
  PROVE  LET k == Undecided(c, methods, more)
             Bad(i) == Taken(methods, more, i) /\ ~ Has(Own(c).methods, more[i].name)
         IN  /\ k = 0 => \A i \in DOMAIN more : ~ Bad(i)
             /\ k # 0 => k \in DOMAIN more /\ Bad(k)
<1> DEFINE S == {i \in DOMAIN more : Taken(methods, more, i) /\ ~ Has(Own(c).methods, more[i].name)}
<1>1. S \in SUBSET Nat /\ 0 \notin S
  OBVIOUS
<1>2. Undecided(c, methods, more) = IF S = {} THEN 0 ELSE Min(S)
  BY DEF Undecided
<1>3. S # {} => Min(S) \in S
  <2> HIDE DEF S
  <2> QED BY <1>1, MinIsLeast
<1> QED BY <1>1, <1>2, <1>3

(* One more base's methods.                                                  *)
LEMMA MethodsGrow ==
  ASSUME program \in Programs, NEW f, NEW g, NEW n, f.class \in Classes, g.class = f.class,
         n \in DOMAIN Parents(f.class), n \in Bases(f.class),
         MethodsGathered(f, 1 .. n - 1), f.methods \in Seq(MethodEntry),
         NEW more \in Seq(MethodEntry), Once(more), TrueCopies(more),
         \A m \in Methods : PlainIn(more, m) = Versions(ParentAt(f, n), m),
         g.methods = Joined(f.methods, more),
         Undecided(f.class, f.methods, more) = 0
  PROVE  MethodsGathered(g, 1 .. n) /\ g.methods \in Seq(MethodEntry)
<1> DEFINE c == f.class
           F(m) == Giving(c, m) \cap (1 .. n - 1)
           G(m) == Giving(c, m) \cap (1 .. n)
<1>0. /\ n \in Nat /\ n # 0 /\ n - 1 \in Nat /\ DOMAIN Parents(c) = 1 .. Len(Parents(c)) /\ Len(Parents(c)) \in Nat
  BY DeclaredFacts
<1>1. /\ Once(f.methods) /\ TrueCopies(f.methods)
      /\ \A m \in Methods : PlainIn(f.methods, m) = FromFirst(f, F(m), m)
      /\ \A m \in Methods : \A i, j \in F(m) : i # j => Declares(c, m)
  BY DEF MethodsGathered
<1>2. /\ g.methods \in Seq(MethodEntry) /\ Once(g.methods)
      /\ ToSet(g.methods) \subseteq ToSet(f.methods) \cup ToSet(more)
      /\ \A m : PlainIn(g.methods, m) = IF PlainIn(f.methods, m) = {} THEN PlainIn(more, m) ELSE PlainIn(f.methods, m)
  BY <1>1, JoinedFacts
<1>3. TrueCopies(g.methods)
  BY <1>1, <1>2 DEF TrueCopies
<1>4. \A i : ParentAt(g, i) = ParentAt(f, i)
  BY DEF ParentAt
<1>5. ASSUME NEW m \in Methods
      PROVE  /\ F(m) \in SUBSET Nat
             /\ G(m) = F(m) \cup (IF Version(ParentAt(f, n), m) # None THEN {n} ELSE {})
             /\ \A i \in F(m) : i \in Nat /\ i < n /\ Versions(ParentAt(f, i), m) # {}
  <2>1. \A i \in Giving(c, m) : i \in Bases(c) /\ Version(ParentAt(f, i), m) # None
    BY DEF Giving, ParentAt
  <2>2. n \in Giving(c, m) <=> Version(ParentAt(f, n), m) # None
    BY DEF Giving, ParentAt
  <2>3. 1 .. n = (1 .. n - 1) \cup {n}
    BY <1>0
  <2>4. \A i \in F(m) : i \in Nat /\ i < n
    BY <1>0
  <2> QED BY <2>1, <2>2, <2>3, <2>4, VersionSome
<1>6. ASSUME NEW m \in Methods
      PROVE  PlainIn(g.methods, m) = FromFirst(f, G(m), m)
  <2> DEFINE v == Version(ParentAt(f, n), m)
  <2>1. PlainIn(more, m) = Versions(ParentAt(f, n), m) /\ (Versions(ParentAt(f, n), m) = {} <=> v = None)
    BY VersionSome
  <2>2. CASE F(m) = {}
    <3>1. PlainIn(g.methods, m) = Versions(ParentAt(f, n), m)
      BY <1>1, <1>2, <2>1, <2>2 DEF FromFirst
    <3>2. CASE v = None
      <4>1. G(m) = {}
        BY <1>5, <2>2, <3>2
      <4> QED BY <4>1, <3>1, <3>2, <2>1 DEF FromFirst
    <3>3. CASE v # None
      <4>1. G(m) = {n}
        BY <1>5, <2>2, <3>3
      <4>2. Min({n}) = n
        <5>1. {n} \in SUBSET Nat /\ {n} # {}
          BY <1>0
        <5> QED BY <5>1, MinIsLeast
      <4> QED BY <3>1, <4>1, <4>2 DEF FromFirst
    <3> QED BY <3>2, <3>3
  <2>3. CASE F(m) # {}
    <3>1. Min(F(m)) \in F(m) /\ \A k \in F(m) : Min(F(m)) <= k
      <4> HIDE DEF F
      <4> QED BY <1>5, <2>3, MinIsLeast
    <3>2. PlainIn(f.methods, m) = Versions(ParentAt(f, Min(F(m))), m)
      BY <1>1, <2>3 DEF FromFirst
    <3>3. Versions(ParentAt(f, Min(F(m))), m) # {}
      BY <1>5, <3>1
    <3>4. PlainIn(g.methods, m) = Versions(ParentAt(f, Min(F(m))), m)
      BY <1>2, <3>2, <3>3
    <3>5. G(m) \in SUBSET Nat /\ G(m) # {} /\ F(m) \subseteq G(m)
      BY <1>0, <1>5, <2>3
    <3>6. Min(G(m)) = Min(F(m))
      <4>1. Min(G(m)) \in G(m) /\ \A k \in G(m) : Min(G(m)) <= k
        <5> HIDE DEF G
        <5> QED BY <3>5, MinIsLeast
      <4>2. Min(F(m)) \in Nat /\ Min(F(m)) < n /\ Min(G(m)) <= Min(F(m)) /\ Min(G(m)) \in Nat
        BY <1>5, <3>1, <3>5, <4>1
      <4>3. Min(G(m)) # n
        BY <1>0, <4>2
      <4>4. Min(G(m)) \in F(m)
        BY <1>5, <4>1, <4>3
      <4>5. Min(F(m)) <= Min(G(m))
        BY <3>1, <4>4
      <4> HIDE DEF F, G
      <4> QED BY <4>2, <4>5
    <3> HIDE DEF F, G
    <3> QED BY <3>4, <3>5, <3>6, <2>3 DEF FromFirst
  <2> QED BY <2>2, <2>3
<1>7. ASSUME NEW m \in Methods, F(m) # {}, Version(ParentAt(f, n), m) # None
      PROVE  Declares(c, m)
  <2>1. Min(F(m)) \in F(m)
    <3> HIDE DEF F
    <3> QED BY <1>5, <1>7, MinIsLeast
  <2>2. PlainIn(f.methods, m) # {}
    <3>1. PlainIn(f.methods, m) = Versions(ParentAt(f, Min(F(m))), m)
      BY <1>1, <1>7 DEF FromFirst
    <3> QED BY <3>1, <2>1, <1>5
  <2>3. Has(f.methods, Plain(m))
    BY <2>2, HasPlain
  <2>4. PlainIn(more, m) # {}
    BY <1>7, VersionSome
  <2>5. PICK k \in DOMAIN more : more[k].name = Plain(m)
    BY <2>4 DEF PlainIn, ToSet
  <2>6. Taken(f.methods, more, k)
    BY <2>3, <2>5 DEF Taken
  <2>7. Has(Own(c).methods, more[k].name)
    BY <2>6, UndecidedFacts
  <2> QED BY <2>5, <2>7 DEF Declares
<1>8. ASSUME NEW m \in Methods, NEW i \in G(m), NEW j \in G(m), i # j
      PROVE  Declares(c, m)
  <2>1. CASE i \in F(m) /\ j \in F(m)
    BY <2>1, <1>1, <1>8
  <2>2. CASE ~ (i \in F(m) /\ j \in F(m))
    <3>1. F(m) # {} /\ Version(ParentAt(f, n), m) # None
      <4> HIDE DEF F, G
      <4> QED BY <1>5, <1>8, <2>2
    <3> QED BY <3>1, <1>7
  <2> QED BY <2>1, <2>2
<1>9. \A S, m : FromFirst(g, S, m) = FromFirst(f, S, m)
  BY <1>4 DEF FromFirst
<1>10. \A m \in Methods : PlainIn(g.methods, m) = FromFirst(g, G(m), m)
  <2> HIDE DEF G
  <2> QED BY <1>6, <1>9
<1> HIDE DEF F
<1> QED BY <1>2, <1>3, <1>8, <1>10 DEF MethodsGathered

(* One more parent's duties, if it is an interface.                           *)
LEMMA DutiesGrow ==
  ASSUME program \in Programs, NEW f, NEW g, NEW n, f.class \in Classes, g.class = f.class,
         n \in DOMAIN Parents(f.class),
         DutiesGathered(f, 1 .. n - 1), f.required \in Seq(MethodEntry),
         NEW more \in Seq(MethodEntry),
         \A m \in Methods : PlainIn(more, m) = Versions(ParentAt(f, n), m),
         Obliges(f, n) => g.required = f.required \o more,
         ~ Obliges(f, n) => g.required = f.required
  PROVE  DutiesGathered(g, 1 .. n) /\ g.required \in Seq(MethodEntry)
<1>0. n \in Nat /\ n # 0 /\ 1 .. n = (1 .. n - 1) \cup {n}
  BY DeclaredFacts
<1>1. \A i : ParentAt(g, i) = ParentAt(f, i) /\ (Obliges(g, i) <=> Obliges(f, i))
  BY DEF ParentAt, Obliges
<1>2. /\ \A e \in ToSet(f.required) : e.name[1] = "" =>
           \E i \in 1 .. n - 1 : Obliges(f, i) /\ e \in Versions(ParentAt(f, i), e.name[2])
      /\ \A i \in 1 .. n - 1, m \in Methods :
           Obliges(f, i) => Versions(ParentAt(f, i), m) \subseteq ToSet(f.required)
  BY DEF DutiesGathered
<1>3. CASE ~ Obliges(f, n)
  <2>1. g.required = f.required
    BY <1>3
  <2> QED BY <2>1, <1>0, <1>1, <1>2, <1>3 DEF DutiesGathered
<1>4. CASE Obliges(f, n)
  <2>1. g.required \in Seq(MethodEntry) /\ ToSet(g.required) = ToSet(f.required) \cup ToSet(more)
    <3>1. /\ f.required \o more \in Seq(MethodEntry)
          /\ ToSet(f.required \o more) = ToSet(f.required) \cup ToSet(more)
      BY ConcatElements
    <3> QED BY <1>4, <3>1
  <2>2. ASSUME NEW e \in ToSet(more), e.name[1] = ""
        PROVE  e \in Versions(ParentAt(f, n), e.name[2])
    <3>1. e \in MethodEntry
      BY ListEntries
    <3>2. e.name = Plain(e.name[2]) /\ e.name[2] \in Methods
      BY <3>1, <2>2, EntryFacts, NameFacts
    <3>3. e \in PlainIn(more, e.name[2])
      BY <3>2 DEF PlainIn
    <3> QED BY <3>2, <3>3
  <2>3. \A m \in Methods : Versions(ParentAt(f, n), m) \subseteq ToSet(more)
    BY DEF PlainIn
  <2>4. ASSUME NEW e \in ToSet(g.required), e.name[1] = ""
        PROVE  \E i \in 1 .. n : Obliges(f, i) /\ e \in Versions(ParentAt(f, i), e.name[2])
    <3>1. CASE e \in ToSet(f.required)
      BY <3>1, <2>4, <1>0, <1>2
    <3>2. CASE e \in ToSet(more)
      BY <3>2, <2>2, <2>4, <1>0, <1>4
    <3> QED BY <3>1, <3>2, <2>1
  <2>5. ASSUME NEW i \in 1 .. n, NEW m \in Methods, Obliges(f, i)
        PROVE  Versions(ParentAt(f, i), m) \subseteq ToSet(g.required)
    <3>1. CASE i = n
      BY <3>1, <2>1, <2>3
    <3>2. CASE i # n
      <4>1. i \in 1 .. n - 1
        BY <3>2, <1>0
      <4>2. Versions(ParentAt(f, i), m) \subseteq ToSet(f.required)
        BY <4>1, <1>2, <2>5
      <4> QED BY <4>2, <2>1
    <3> QED BY <3>1, <3>2
  <2> QED BY <2>1, <2>4, <2>5, <1>1 DEF DutiesGathered
<1> QED BY <1>3, <1>4

(* A parent that is joined.                                                 *)
LEMMA GatheredGrows ==
  ASSUME program \in Programs, NEW f \in Frame, f.next \in DOMAIN Parents(f.class),
         Gathered(f, Met(f)),
         NEW p \in Classes, p = Parents(f.class)[f.next],
         loaded[p] \in Entry, Sound(p, loaded[p]),
         \A i \in Met(f) : AllFields(ParentAt(f, i)) \in Seq(FieldEntry),
         program[p].kind \in {"class", "interface"},
         program[p].kind = "class" => /\ ~ Clashes(f.fields, loaded[p].fields)
                                      /\ Undecided(f.class, f.methods, loaded[p].methods) = 0
  PROVE  LET g == WithParent(f, p) IN
         /\ g \in Frame /\ g.class = f.class /\ g.next = f.next + 1
         /\ Met(g) = Met(f) \cup {f.next} /\ Gathered(g, Met(g))
<1> DEFINE n == f.next
           c == f.class
           x == loaded[p]
           g == WithParent(f, p)
<1>0. /\ c \in Classes /\ n \in Nat /\ n # 0 /\ f.fields \in Seq(FieldEntry) /\ f.methods \in Seq(MethodEntry)
      /\ f.required \in Seq(MethodEntry) /\ f.ancestors \in SUBSET Classes
      /\ 1 .. n = (1 .. n - 1) \cup {n} /\ n + 1 - 1 = n
  <2>1. c \in Classes /\ n \in Nat
    BY DEF Frame
  <2>2. n # 0
    BY <2>1, DeclaredFacts
  <2> QED BY <2>1, <2>2 DEF Frame
<1>1. /\ x.fields \in Seq(FieldEntry) /\ x.methods \in Seq(MethodEntry) /\ x.ancestors \in SUBSET Classes
  BY DEF Entry
<1>2. /\ x.fields = AllFields(p) /\ x.ancestors = AncestorsOf(p) /\ Once(x.methods) /\ TrueCopies(x.methods)
      /\ \A m \in Methods : PlainIn(x.methods, m) = Versions(p, m)
  BY DEF Sound
<1>3. /\ g.class = c /\ g.next = n + 1 /\ g.ancestors = f.ancestors \cup {p} \cup x.ancestors
      /\ program[p].kind = "interface" => /\ g.fields = f.fields /\ g.methods = f.methods
                                          /\ g.required = f.required \o x.methods
      /\ program[p].kind # "interface" => /\ g.fields = f.fields \o x.fields
                                          /\ g.methods = Joined(f.methods, x.methods)
                                          /\ g.required = f.required
      /\ g = [class |-> g.class, next |-> g.next, fields |-> g.fields, methods |-> g.methods,
              ancestors |-> g.ancestors, required |-> g.required]
  BY DEF WithParent, Frame
<1>4. ParentAt(f, n) = p /\ (Obliges(f, n) <=> program[p].kind = "interface")
      /\ (n \in Bases(c) <=> program[p].kind # "interface")
  BY DEF ParentAt, Obliges, Bases
<1> HIDE DEF g, x, n
<1>5. Met(f) = 1 .. n - 1 /\ Met(g) = 1 .. n
  BY <1>0, <1>3 DEF Met, n
<1>6. n \in DOMAIN Parents(c)
  BY DEF n
<1>7. /\ \A i \in 1 .. n - 1 : ParentAt(f, i) \in Classes /\ program[ParentAt(f, i)].kind \in {"class", "interface"}
      /\ f.ancestors = UNION {Lineage(ParentAt(f, i)) : i \in 1 .. n - 1}
      /\ FieldsGathered(f, 1 .. n - 1) /\ MethodsGathered(f, 1 .. n - 1) /\ DutiesGathered(f, 1 .. n - 1)
  BY <1>5 DEF Gathered
<1>8. FieldsGathered(g, 1 .. n) /\ g.fields \in Seq(FieldEntry)
  <2>1. \A i \in Bases(c) \cap (1 .. n) : AllFields(ParentAt(f, i)) \in Seq(FieldEntry)
    BY <1>0, <1>1, <1>2, <1>4, <1>5
  <2>2. n \in Bases(c) => /\ g.fields = f.fields \o AllFields(ParentAt(f, n))
                          /\ ~ Clashes(f.fields, AllFields(ParentAt(f, n)))
    BY <1>2, <1>3, <1>4 DEF x
  <2>3. n \notin Bases(c) => g.fields = f.fields
    BY <1>3, <1>4
  <2> QED BY <1>0, <1>3, <1>6, <1>7, <2>1, <2>2, <2>3, FieldsGrow
<1>9. MethodsGathered(g, 1 .. n) /\ g.methods \in Seq(MethodEntry)
  <2>1. CASE n \in Bases(c)
    <3>1. g.methods = Joined(f.methods, x.methods) /\ Undecided(c, f.methods, x.methods) = 0
      BY <2>1, <1>3, <1>4 DEF x
    <3>2. \A m \in Methods : PlainIn(x.methods, m) = Versions(ParentAt(f, n), m)
      BY <1>2, <1>4
    <3>3. x.methods \in Seq(MethodEntry) /\ Once(x.methods) /\ TrueCopies(x.methods)
      BY <1>1, <1>2
    <3>4. c \in Classes /\ g.class = c /\ f.methods \in Seq(MethodEntry) /\ MethodsGathered(f, 1 .. n - 1)
      BY <1>0, <1>3, <1>7
    <3> QED BY <3>1, <3>2, <3>3, <3>4, <2>1, <1>6, MethodsGrow
  <2>2. CASE n \notin Bases(c)
    <3>1. g.methods = f.methods
      BY <2>2, <1>3, <1>4
    <3>2. \A m : Giving(c, m) \cap (1 .. n) = Giving(c, m) \cap (1 .. n - 1)
      BY <2>2, <1>0 DEF Giving
    <3>3. \A i : ParentAt(g, i) = ParentAt(f, i)
      BY <1>3 DEF ParentAt
    <3>4. \A S, m : FromFirst(g, S, m) = FromFirst(f, S, m)
      BY <3>3 DEF FromFirst
    <3>5. g.class = f.class
      BY <1>3
    <3> QED BY <3>1, <3>2, <3>4, <3>5, <1>0, <1>7 DEF MethodsGathered
  <2> QED BY <2>1, <2>2
<1>10. DutiesGathered(g, 1 .. n) /\ g.required \in Seq(MethodEntry)
  <2>1. Obliges(f, n) => g.required = f.required \o x.methods
    BY <1>3, <1>4
  <2>2. ~ Obliges(f, n) => g.required = f.required
    BY <1>3, <1>4
  <2>3. \A m \in Methods : PlainIn(x.methods, m) = Versions(ParentAt(f, n), m)
    BY <1>2, <1>4
  <2> QED BY <2>1, <2>2, <2>3, <1>0, <1>1, <1>3, <1>6, <1>7, DutiesGrow
<1>11. \A i : ParentAt(g, i) = ParentAt(f, i)
  BY <1>3 DEF ParentAt
<1>12. g.ancestors = UNION {Lineage(ParentAt(g, i)) : i \in 1 .. n}
  <2>1. g.ancestors = (UNION {Lineage(ParentAt(f, i)) : i \in 1 .. n - 1}) \cup Lineage(p)
    BY <1>2, <1>3, <1>7 DEF Lineage
  <2>2. UNION {Lineage(ParentAt(g, i)) : i \in 1 .. n} =
          (UNION {Lineage(ParentAt(g, i)) : i \in 1 .. n - 1}) \cup Lineage(ParentAt(g, n))
    BY <1>0
  <2> QED BY <2>1, <2>2, <1>4, <1>11
<1>13. \A i \in 1 .. n : ParentAt(g, i) \in Classes /\ program[ParentAt(g, i)].kind \in {"class", "interface"}
  BY <1>0, <1>4, <1>7, <1>11
<1>14. Gathered(g, Met(g))
  BY <1>5, <1>8, <1>9, <1>10, <1>12, <1>13 DEF Gathered
<1>15. g \in Frame
  <2>1. g.ancestors \in SUBSET Classes
    BY <1>0, <1>1, <1>3
  <2>2. g.next \in Nat
    BY <1>0, <1>3
  <2> QED BY <2>1, <2>2, <1>0, <1>3, <1>8, <1>9, <1>10 DEF Frame
<1>16. Met(g) = Met(f) \cup {n}
  BY <1>0, <1>5
<1> QED BY <1>3, <1>14, <1>15, <1>16 DEF n, g

(* The places are those of the bases and of the class itself.                  *)
LEMMA BasePlaces == \A c : program \in Programs /\ c \in Classes => \A i \in Bases(c) : i # 0 /\ i \in DOMAIN Parents(c)
<1> SUFFICES ASSUME NEW c, program \in Programs, c \in Classes, NEW i \in Bases(c)
             PROVE  i # 0 /\ i \in DOMAIN Parents(c)
  OBVIOUS
<1>1. DOMAIN Parents(c) = 1 .. Len(Parents(c)) /\ Len(Parents(c)) \in Nat
  BY DeclaredFacts
<1> QED BY <1>1 DEF Bases

LEMMA AllMet ==
  ASSUME program \in Programs, NEW f \in Frame, Gathered(f, DOMAIN Parents(f.class))
  PROVE  /\ ParentsOf(f.class) \subseteq Classes
         /\ \A p \in ParentsOf(f.class) : program[p].kind \in {"class", "interface"}
         /\ f.ancestors = AncestorsOf(f.class)
<1> DEFINE c == f.class
           P == DOMAIN Parents(c)
<1>0. c \in Classes
  BY DEF Frame
<1>1. ParentsOf(c) = {ParentAt(f, i) : i \in P}
  BY <1>0, DeclaredFacts DEF ParentAt
<1>2. /\ \A i \in P : ParentAt(f, i) \in Classes /\ program[ParentAt(f, i)].kind \in {"class", "interface"}
      /\ f.ancestors = UNION {Lineage(ParentAt(f, i)) : i \in P}
  BY DEF Gathered
<1>3. ParentsOf(c) \subseteq Classes /\ \A p \in ParentsOf(c) : program[p].kind \in {"class", "interface"}
  BY <1>1, <1>2
<1>4. AncestorsOf(c) = UNION {Lineage(p) : p \in ParentsOf(c)}
  <2>1. ParentsOf(c) \cap Classes = ParentsOf(c)
    BY <1>3
  <2> QED BY <2>1, <1>0, AncestorsUnion
<1>5. UNION {Lineage(p) : p \in ParentsOf(c)} = UNION {Lineage(ParentAt(f, i)) : i \in P}
  BY <1>1
<1> QED BY <1>2, <1>3, <1>4, <1>5

(* The methods of a class whose parents were all met, its own among them.      *)
LEMMA WholeMethods ==
  ASSUME program \in Programs, NEW f \in Frame, Grounded(f.class),
         Gathered(f, DOMAIN Parents(f.class))
  PROVE  LET O == Overridden(f.methods, Own(f.class).methods) IN
         /\ O \in Seq(MethodEntry) /\ Once(O) /\ TrueCopies(O)
         /\ \A m \in Methods : PlainIn(O, m) = Versions(f.class, m)
<1> DEFINE c == f.class
           own == Own(c).methods
           O == Overridden(f.methods, own)
<1>0. c \in Classes /\ f.methods \in Seq(MethodEntry)
  BY DEF Frame
<1>1. /\ own \in Seq(MethodEntry) /\ Once(own) /\ \A e \in ToSet(own) : e.name[1] = ""
      /\ \A m : PlainIn(own, m) = IF Declares(c, m) THEN {VersionEntry(c, m)} ELSE {}
  BY <1>0, OwnFacts
<1>2. /\ Once(f.methods) /\ TrueCopies(f.methods)
      /\ \A m \in Methods : PlainIn(f.methods, m) = FromFirst(f, Giving(c, m) \cap DOMAIN Parents(c), m)
  BY DEF Gathered, MethodsGathered
<1>3. /\ O \in Seq(MethodEntry) /\ Once(O)
      /\ \A e \in ToSet(O) : e \in ToSet(f.methods) \/ e \in ToSet(own) \/ e.name[1] = "super"
      /\ \A m : PlainIn(O, m) = IF PlainIn(own, m) = {} THEN PlainIn(f.methods, m) ELSE PlainIn(own, m)
  BY <1>0, <1>1, <1>2, OverriddenFacts
<1> HIDE DEF O
<1>4. TrueCopies(O)
  BY <1>1, <1>2, <1>3, NameFacts DEF TrueCopies
<1>5. ASSUME NEW m \in Methods PROVE PlainIn(O, m) = Versions(c, m)
  <2>1. Giving(c, m) \cap DOMAIN Parents(c) = Giving(c, m)
    BY DEF Giving, Bases
  <2>2. PlainIn(f.methods, m) = IF Giving(c, m) = {} THEN {} ELSE Versions(Parents(c)[Min(Giving(c, m))], m)
    BY <1>2, <2>1 DEF FromFirst, ParentAt
  <2>3. Versions(c, m) = IF Declares(c, m) THEN {VersionEntry(c, m)}
                         ELSE IF Giving(c, m) = {} THEN {}
                         ELSE Versions(Parents(c)[Min(Giving(c, m))], m)
    BY VersionsHere
  <2>4. PlainIn(own, m) = IF Declares(c, m) THEN {VersionEntry(c, m)} ELSE {}
    BY <1>1
  <2>5. PlainIn(O, m) = IF PlainIn(own, m) = {} THEN PlainIn(f.methods, m) ELSE PlainIn(own, m)
    BY <1>3
  <2> HIDE DEF own, c
  <2>6. CASE Declares(c, m)
    BY <2>3, <2>4, <2>5, <2>6
  <2>7. CASE ~ Declares(c, m)
    BY <2>2, <2>3, <2>4, <2>5, <2>7
  <2> QED BY <2>6, <2>7
<1> QED BY <1>3, <1>4, <1>5 DEF O

(* Its fields, its own last.                                                 *)
LEMMA WholeFields ==
  ASSUME program \in Programs, NEW f \in Frame, Grounded(f.class),
         Gathered(f, DOMAIN Parents(f.class)),
         \A i \in Bases(f.class) : AllFields(ParentAt(f, i)) \in Seq(FieldEntry)
  PROVE  /\ f.fields \o Own(f.class).fields = AllFields(f.class)
         /\ f.fields \o Own(f.class).fields \in Seq(FieldEntry)
         /\ \A i \in Bases(f.class) : ToSet(AllFields(ParentAt(f, i))) \subseteq ToSet(f.fields)
         /\ \A d \in ToSet(f.fields) : \E i \in Bases(f.class) : d \in ToSet(AllFields(ParentAt(f, i)))
<1> DEFINE c == f.class
           P == DOMAIN Parents(c)
<1>0. c \in Classes /\ f.fields \in Seq(FieldEntry)
  BY DEF Frame
<1>1. f.fields = FlattenSeq([i \in P |-> PartOf(c, i)])
  BY DEF Gathered, FieldsGathered
<1>2. AllFields(c) = FieldsHere(c)
  BY AllFieldsIs
<1>3. f.fields \o Own(c).fields = AllFields(c)
  BY <1>1, <1>2 DEF FieldsHere
<1>4. f.fields \o Own(c).fields \in Seq(FieldEntry)
  BY <1>0, OwnFacts, ConcatElements
<1>5. P = 1 .. Len(Parents(c)) /\ Len(Parents(c)) \in Nat /\ Bases(c) \cap P = Bases(c)
  BY <1>0, DeclaredFacts DEF Bases
<1>6. \A e : e \in ToSet(f.fields) <=> \E i \in Bases(c) : e \in ToSet(AllFields(Parents(c)[i]))
  <2> DEFINE n == Len(Parents(c))
             parts == [i \in 1 .. n |-> PartOf(c, i)]
  <2>1. \A i \in Bases(c) \cap (1 .. n) : AllFields(Parents(c)[i]) \in Seq(FieldEntry)
    BY DEF ParentAt
  <2>2. \A e : e \in ToSet(FlattenSeq(parts)) <=>
                 \E i \in Bases(c) \cap (1 .. n) : e \in ToSet(AllFields(Parents(c)[i]))
    BY <1>0, <1>5, <2>1, PartsFacts
  <2> QED BY <1>1, <1>5, <2>2
<1> QED BY <1>3, <1>4, <1>6 DEF ParentAt

(* It has done nothing wrong, unless its own declaration or the interfaces do.  *)
LEMMA WholeFaultless ==
  ASSUME program \in Programs, NEW f \in Frame, Grounded(f.class),
         Gathered(f, DOMAIN Parents(f.class)),
         \A i \in Bases(f.class) : AllFields(ParentAt(f, i)) \in Seq(FieldEntry),
         ~ Clashes(f.fields, Own(f.class).fields),
         Breach(Overridden(f.methods, Own(f.class).methods), f.required) = "none"
  PROVE  \A why \in Faults : ~ Guilty(f.class, why)
<1> DEFINE c == f.class
           O == Overridden(f.methods, Own(c).methods)
<1>0. c \in Classes /\ f.required \in Seq(MethodEntry)
  BY DEF Frame
<1>1. /\ ParentsOf(c) \subseteq Classes /\ \A p \in ParentsOf(c) : program[p].kind \in {"class", "interface"}
  BY AllMet
<1>2. c \notin AncestorsOf(c)
  BY DEF Grounded, Lineage
<1>3. ASSUME NEW i \in Bases(c) \cup {0}, NEW j \in Bases(c) \cup {0}, i # j
      PROVE  ~ Clashes(FieldsAt(c, i), FieldsAt(c, j))
  <2>1. /\ \A k \in Bases(c) : ToSet(AllFields(ParentAt(f, k))) \subseteq ToSet(f.fields)
        /\ \A k \in Bases(c) : FieldsAt(c, k) = AllFields(ParentAt(f, k)) /\ k # 0
        /\ FieldsAt(c, 0) = Own(c).fields
    BY <1>0, WholeFields, BasePlaces DEF FieldsAt, ParentAt
  <2>2. CASE i \in Bases(c) /\ j \in Bases(c)
    <3>1. i \in Bases(c) \cap DOMAIN Parents(c) /\ j \in Bases(c) \cap DOMAIN Parents(c)
      BY <2>2 DEF Bases
    <3>2. ~ Clashes(AllFields(ParentAt(f, i)), AllFields(ParentAt(f, j)))
      BY <3>1, <1>3 DEF Gathered, FieldsGathered
    <3> QED BY <3>2, <2>1, <2>2
  <2>3. CASE i \in Bases(c) /\ j = 0
    BY <2>1, <2>3, ClashElements
  <2>4. CASE i = 0 /\ j \in Bases(c)
    BY <2>1, <2>4, ClashElements
  <2> QED BY <1>3, <2>2, <2>3, <2>4
<1>4. ASSUME NEW m \in Methods, NEW i \in Giving(c, m), NEW j \in Giving(c, m), i # j
      PROVE  Declares(c, m)
  <2>1. i \in Giving(c, m) \cap DOMAIN Parents(c) /\ j \in Giving(c, m) \cap DOMAIN Parents(c)
    BY DEF Giving, Bases
  <2> QED BY <2>1, <1>4 DEF Gathered, MethodsGathered
<1>5. ASSUME NEW p \in Obliging(c), NEW m \in Methods, Version(p, m) # None
      PROVE  Version(c, m) # None /\ SignatureOf(Version(c, m), m) = SignatureOf(Version(p, m), m)
  <2> DEFINE want == VersionEntry(Version(p, m), m)
  <2>1. p \in ParentsOf(c) /\ program[p].kind = "interface"
    BY DEF Obliging
  <2>2. PICK i \in DOMAIN Parents(c) : p = ParentAt(f, i)
    BY <1>0, <2>1, DeclaredFacts DEF ParentAt
  <2>3. Versions(p, m) \subseteq ToSet(f.required)
    BY <2>1, <2>2 DEF Gathered, DutiesGathered, Obliges
  <2>4. want \in ToSet(f.required) /\ want.name = Plain(m) /\ want.sig = SignatureOf(Version(p, m), m)
    BY <1>5, <2>3 DEF Versions, VersionEntry
  <2> HIDE DEF want
  <2>5. ~ Breaks(O, want)
    BY <1>0, <2>4, BreachFacts
  <2>6. Has(O, Plain(m)) /\ O[Named(O, Plain(m))].sig = want.sig
    BY <2>4, <2>5 DEF Breaks
  <2> DEFINE e == O[Named(O, Plain(m))]
  <2>7. O \in Seq(MethodEntry) /\ PlainIn(O, m) = Versions(c, m)
    BY WholeMethods
  <2>8. e \in PlainIn(O, m)
    <3> HIDE DEF O
    <3>1. e \in ToSet(O) /\ e.name = Plain(m)
      BY <2>6, <2>7, HasNamed
    <3> QED BY <3>1 DEF PlainIn
  <2> HIDE DEF e, O
  <2>9. Version(c, m) # None /\ e = VersionEntry(Version(c, m), m)
    BY <2>7, <2>8 DEF Versions
  <2>10. e.sig = SignatureOf(Version(c, m), m)
    BY <2>9 DEF VersionEntry
  <2> QED BY <2>4, <2>6, <2>9, <2>10 DEF e
<1>6. \A p \in ParentsOf(c) \cap Classes : program[p].kind # "generic" /\ program[p].kind # "contract"
  BY <1>1
<1> HIDE DEF c
<1>7. ASSUME NEW why \in Faults PROVE ~ Guilty(c, why)
  <2>1. CASE why = "unknown"
    BY <2>1, <1>1 DEF Guilty
  <2>2. CASE why = "cycle"
    BY <2>2, <1>2 DEF Guilty
  <2>3. CASE why \in {"generic", "contract"}
    BY <2>3, <1>6 DEF Guilty
  <2>4. CASE why = "field"
    BY <2>4, <1>3 DEF Guilty
  <2>5. CASE why = "method"
    BY <2>5, <1>4 DEF Guilty
  <2>6. CASE why = "missing"
    BY <2>6, <1>5 DEF Guilty
  <2>7. CASE why = "signature"
    BY <2>7, <1>5 DEF Guilty
  <2> QED BY <2>1, <2>2, <2>3, <2>4, <2>5, <2>6, <2>7 DEF Faults
<1> QED BY <1>7 DEF c

(* What is kept of a class whose parents were all met.                        *)
LEMMA WholeSound ==
  ASSUME program \in Programs, NEW f \in Frame, Grounded(f.class),
         Gathered(f, DOMAIN Parents(f.class)),
         \A a \in AncestorsOf(f.class) : loaded[a] \in Entry /\ Sound(a, loaded[a]),
         ~ Clashes(f.fields, Own(f.class).fields),
         NEW O, O = Overridden(f.methods, Own(f.class).methods), Breach(O, f.required) = "none",
         NEW x, x = [fields |-> f.fields \o Own(f.class).fields, methods |-> O \o Copies(O, f.ancestors),
                     ancestors |-> f.ancestors]
  PROVE  x \in Entry /\ Sound(f.class, x)
<1> DEFINE c == f.class
           C == Copies(O, f.ancestors)
<1>0. c \in Classes /\ f.ancestors \in SUBSET Classes
  BY DEF Frame
<1>1. f.ancestors = AncestorsOf(c)
  BY AllMet
<1>2. ASSUME NEW i \in Bases(c) PROVE AllFields(ParentAt(f, i)) \in Seq(FieldEntry)
  <2>1. ParentAt(f, i) \in AncestorsOf(c)
    <3>1. c \in Lineage(c)
      BY DEF Lineage
    <3> QED BY <1>0, <3>1, BaseFacts DEF ParentAt
  <2> QED BY <2>1 DEF Sound, Entry
<1>3. /\ f.fields \o Own(c).fields = AllFields(c) /\ f.fields \o Own(c).fields \in Seq(FieldEntry)
  BY <1>2, WholeFields
<1>4. \A why \in Faults : ~ Guilty(c, why)
  BY <1>2, WholeFaultless
<1>5. /\ O \in Seq(MethodEntry) /\ Once(O) /\ TrueCopies(O)
      /\ \A m \in Methods : PlainIn(O, m) = Versions(c, m)
  BY WholeMethods
<1>6. \A a \in f.ancestors : /\ loaded[a].methods \in Seq(MethodEntry)
                             /\ \A m \in Methods : PlainIn(loaded[a].methods, m) = Versions(a, m)
  BY <1>1 DEF Sound, Entry
<1>7. /\ C \in Seq(MethodEntry)
      /\ \A e \in ToSet(C) : \E a \in f.ancestors, m \in Methods \ {New} :
           e.name = Qualified(a, m) /\ \E n \in PlainIn(loaded[a].methods, m) : e.body = n.body
      /\ \A a \in f.ancestors, m \in Methods \ {New} :
           PlainIn(loaded[a].methods, m) # {} =>
             \E e \in ToSet(O) \cup ToSet(C) : e.name = Qualified(a, m)
  BY <1>0, <1>5, <1>6, CopiesFacts
<1> HIDE DEF C
<1>8. ASSUME NEW e \in ToSet(C)
      PROVE  e.name[1] \in Classes /\ e.name[1] # "" /\ e.body = Version(e.name[1], e.name[2])
  <2>1. PICK a \in f.ancestors, m \in Methods \ {New} :
          e.name = Qualified(a, m) /\ \E n \in PlainIn(loaded[a].methods, m) : e.body = n.body
    BY <1>7
  <2>2. PICK n \in PlainIn(loaded[a].methods, m) : e.body = n.body
    BY <2>1
  <2>3. n \in Versions(a, m)
    BY <1>6
  <2>4. n.body = Version(a, m)
    BY <2>3 DEF Versions, VersionEntry
  <2>5. e.name[1] = a /\ e.name[2] = m /\ a \in Classes /\ a # ""
    <3>1. a \in Classes
      BY <1>0
    <3>2. a # ""
      BY <3>1, NameFacts
    <3>3. Qualified(a, m)[1] = a /\ Qualified(a, m)[2] = m
      BY NameFacts
    <3> QED BY <2>1, <3>1, <3>2, <3>3
  <2> QED BY <2>2, <2>4, <2>5
<1>9. O \o C \in Seq(MethodEntry) /\ ToSet(O \o C) = ToSet(O) \cup ToSet(C)
  BY <1>5, <1>7, ConcatElements
<1>10. Once(O \o C)
  <2>1. Apart(O, C)
    BY <1>8 DEF Apart
  <2>2. Once(C)
    <3>1. \A i \in DOMAIN C : C[i] \in ToSet(C)
      BY DEF ToSet
    <3> QED BY <3>1, <1>8 DEF Once
  <2> QED BY <1>5, <1>7, <2>1, <2>2, ConcatOnce
<1>11. TrueCopies(O \o C)
  BY <1>5, <1>8, <1>9 DEF TrueCopies
<1>12. ASSUME NEW m \in Methods PROVE PlainIn(O \o C, m) = Versions(c, m)
  <2>1. \A e \in ToSet(C) : e.name # Plain(m)
    BY <1>8, NameFacts
  <2>2. PlainIn(O \o C, m) = PlainIn(O, m)
    BY <2>1, <1>9 DEF PlainIn
  <2> QED BY <2>2, <1>5
<1>13. ASSUME NEW a \in AncestorsOf(c), NEW m \in Methods \ {New}, Version(a, m) # None
       PROVE  \E e \in ToSet(O \o C) : e.name = Qualified(a, m)
  <2>1. PlainIn(loaded[a].methods, m) # {}
    BY <1>1, <1>6, <1>13, VersionSome
  <2> QED BY <2>1, <1>1, <1>7, <1>9
<1>14. x.fields = f.fields \o Own(c).fields /\ x.methods = O \o C /\ x.ancestors = f.ancestors
  BY DEF C
<1>15. x \in Entry
  <2>1. x = [fields |-> x.fields, methods |-> x.methods, ancestors |-> x.ancestors]
    BY <1>14
  <2> QED BY <2>1, <1>0, <1>3, <1>9, <1>14 DEF Entry
<1> HIDE DEF c
<1>16. Sound(c, x)
  BY <1>1, <1>3, <1>4, <1>10, <1>11, <1>12, <1>13, <1>14 DEF Sound
<1> QED BY <1>15, <1>16 DEF c
-----------------------------------------------------------------------------
(***************************************************************************)
(* What the invariant says of the stack.                                     *)
(***************************************************************************)

LEMMA DoneFacts ==
  ASSUME IInv, NEW d \in done
  PROVE  /\ d \in Classes /\ Grounded(d) /\ AncestorsOf(d) \subseteq done
         /\ loaded[d] \in Entry /\ Sound(d, loaded[d]) /\ AllFields(d) \in Seq(FieldEntry)
<1>1. /\ done \in SUBSET Classes /\ loaded \in [Classes -> Entry]
      /\ \A b \in done : b \notin AncestorsOf(b) /\ AncestorsOf(b) \subseteq done /\ Sound(b, loaded[b])
  BY DEF IInv, StateTyped, Flattened
<1>2. Grounded(d)
  BY <1>1 DEF Grounded, Lineage
<1>3. loaded[d] \in Entry
  BY <1>1
<1>4. AllFields(d) \in Seq(FieldEntry)
  <2>1. loaded[d].fields \in Seq(FieldEntry)
    BY <1>3 DEF Entry
  <2> QED BY <1>1, <2>1 DEF Sound
<1> QED BY <1>1, <1>2, <1>3, <1>4

LEMMA CallFacts ==
  ASSUME IInv, NEW k \in DOMAIN stack
  PROVE  /\ stack[k] \in Frame /\ stack[k].class \in Classes /\ stack[k].class \notin done
         /\ stack[k].next \in 1 .. Len(Parents(stack[k].class)) + 1
         /\ Gathered(stack[k], Met(stack[k]))
         /\ \A i \in Met(stack[k]) : /\ ParentAt(stack[k], i) \in done
                                     /\ AllFields(ParentAt(stack[k], i)) \in Seq(FieldEntry)
<1>1. stack \in Seq(Frame) /\ program \in Programs
  BY DEF IInv, StateTyped
<1>2. stack[k] \in Frame /\ stack[k].class \in Classes
  <2>1. stack[k] \in Frame
    BY <1>1, ListEntries
  <2> QED BY <2>1 DEF Frame
<1>3. /\ stack[k].class \notin done /\ stack[k].next \in 1 .. Len(Parents(stack[k].class)) + 1
      /\ Gathered(stack[k], Met(stack[k]))
      /\ \A i \in Met(stack[k]) : ParentAt(stack[k], i) \in done
  BY DEF IInv, Waiting, ParentAt
<1>4. \A i \in Met(stack[k]) : AllFields(ParentAt(stack[k], i)) \in Seq(FieldEntry)
  BY <1>3, DoneFacts
<1> QED BY <1>2, <1>3, <1>4

LEMMA TopFacts ==
  ASSUME IInv, stack # <<>>
  PROVE  /\ Len(stack) \in Nat /\ Len(stack) # 0 /\ Len(stack) \in DOMAIN stack
         /\ DOMAIN stack = 1 .. Len(stack) /\ Top = stack[Len(stack)]
         /\ Front(stack) \in Seq(Frame) /\ DOMAIN Front(stack) = 1 .. Len(stack) - 1
         /\ Len(Front(stack)) = Len(stack) - 1
         /\ \A k \in 1 .. Len(stack) - 1 : Front(stack)[k] = stack[k]
<1>1. stack \in Seq(Frame)
  BY DEF IInv, StateTyped
<1>2. DOMAIN stack = 1 .. Len(stack) /\ Len(stack) \in Nat /\ Len(stack) # 0
  BY <1>1, LenProperties, EmptySeq
<1>3. Front(stack) = SubSeq(stack, 1, Len(stack) - 1) /\ Top = stack[Len(stack)]
  BY DEF Front, Top, Last
<1>4. /\ Front(stack) \in Seq(Frame) /\ Len(Front(stack)) = Len(stack) - 1
      /\ \A k \in 1 .. Len(stack) - 1 : Front(stack)[k] = stack[k]
  BY <1>1, <1>2, <1>3
<1>5. DOMAIN Front(stack) = 1 .. Len(stack) - 1
  BY <1>4, LenProperties
<1> QED BY <1>2, <1>3, <1>4, <1>5

(* A class is a call's only if it is above those of the calls below.           *)
LEMMA Chain ==
  ASSUME IInv, NEW k \in DOMAIN stack
  PROVE  \A j \in DOMAIN stack : j > k => stack[j].class \in AncestorsOf(stack[k].class)
<1> DEFINE Bad == {j \in DOMAIN stack : j > k /\ stack[j].class \notin AncestorsOf(stack[k].class)}
<1> SUFFICES ASSUME Bad # {} PROVE FALSE
  OBVIOUS
<1>1. stack \in Seq(Frame) /\ DOMAIN stack = 1 .. Len(stack) /\ Len(stack) \in Nat
  BY LenProperties DEF IInv, StateTyped
<1>2. PICK j \in Bad : \A i \in Bad : j <= i
  <2>1. Bad \in SUBSET Nat
    BY <1>1
  <2> HIDE DEF Bad
  <2> QED BY <2>1, LeastNatural
<1>3. j \in DOMAIN stack /\ j > k /\ stack[j].class \notin AncestorsOf(stack[k].class)
  OBVIOUS
<1>4. j - 1 \in DOMAIN stack /\ j - 1 < Len(stack) /\ j - 1 + 1 = j /\ j - 1 >= k /\ ~ (j <= j - 1)
  BY <1>1, <1>3
<1>5. /\ stack[j - 1].next \in DOMAIN Parents(stack[j - 1].class)
      /\ Parents(stack[j - 1].class)[stack[j - 1].next] = stack[j].class
  BY <1>4 DEF IInv, Waiting
<1>6. stack[j].class \in Classes /\ stack[j - 1].class \in Classes
  BY <1>3, <1>4, CallFacts
<1>7. stack[j].class \in Up({stack[j - 1].class})
  <2>1. stack[j].class \in ParentsOf(stack[j - 1].class)
    BY <1>5, <1>6, DeclaredFacts DEF IInv, StateTyped
  <2> QED BY <2>1, <1>6, UpOne
<1>8. CASE j - 1 = k
  <2>1. stack[j].class \in Up({stack[k].class})
    BY <1>7, <1>8
  <2> QED BY <2>1, <1>3, AncestorsClosed
<1>9. CASE j - 1 > k
  <2>1. j - 1 \notin Bad
    <3> HIDE DEF Bad
    <3> QED BY <1>2, <1>4
  <2>2. stack[j - 1].class \in AncestorsOf(stack[k].class)
    BY <2>1, <1>4, <1>9
  <2> QED BY <2>2, <1>3, <1>7, AncestorsClosed
<1> QED BY <1>1, <1>4, <1>8, <1>9
-----------------------------------------------------------------------------
(***************************************************************************)
(* The steps.                                                               *)
(***************************************************************************)

LEMMA StackAdds ==
  ASSUME NEW s \in Seq(Frame), NEW f \in Frame
  PROVE  LET t == Append(s, f) IN
         /\ t \in Seq(Frame) /\ Len(t) = Len(s) + 1 /\ Len(s) \in Nat
         /\ DOMAIN s = 1 .. Len(s) /\ DOMAIN t = 1 .. Len(s) + 1
         /\ t[Len(s) + 1] = f /\ \A k \in 1 .. Len(s) : t[k] = s[k]
<1>1. Len(s) \in Nat /\ DOMAIN s = 1 .. Len(s)
  BY LenProperties
<1> QED BY <1>1, AppendProperties, LenProperties

(* A call that leaves with an error, and with it all the others.               *)
LEMMA FailKeeps ==
  ASSUME IInv, stack # <<>>, NEW why \in Faults \cup {"copy"},
         why = "copy" \/ Guilty(Top.class, why),
         Fail(Top.class, why), program' = program, order' = order
  PROVE  IInv'
<1> DEFINE c == Top.class
           e == [class |-> c, why |-> why]
<1>1. errors' = errors \cup {e} /\ stack' = <<>> /\ loaded' = loaded /\ done' = done
  BY DEF Fail
<1>2. c \in Classes
  BY TopFacts, CallFacts
<1>3. StateTyped'
  <2>1. e \in [class : Classes, why : Faults \cup {"copy"}]
    BY <1>2
  <2>2. <<>> \in Seq(Frame)
    BY EmptySeq
  <2> HIDE DEF e
  <2> QED BY <1>1, <2>1, <2>2 DEF StateTyped, IInv
<1>4. Flattened'
  <2>1. \A d, x : Sound(d, x)' <=> Sound(d, x)
    BY SoundKept
  <2>2. \A d : AncestorsOf(d)' = AncestorsOf(d) /\ Own(d)' = Own(d)
    BY HierarchyKept
  <2> QED BY <1>1, <2>1, <2>2 DEF Flattened, IInv
<1>5. Waiting'
  <2>1. DOMAIN stack' = {}
    BY <1>1
  <2> QED BY <2>1 DEF Waiting
<1>6. Blamed'
  <2>1. \A d, w : Guilty(d, w)' <=> Guilty(d, w)
    BY GuiltKept
  <2>2. \A d \in errors : d.why # "copy" => Guilty(d.class, d.why)
    BY DEF IInv, Blamed
  <2>3. e.class = c /\ e.why = why
    OBVIOUS
  <2> SUFFICES ASSUME NEW d \in errors', d.why # "copy" PROVE Guilty(d.class, d.why)'
    BY DEF Blamed
  <2> HIDE DEF e
  <2>4. Guilty(d.class, d.why)
    BY <1>1, <2>2, <2>3
  <2> QED BY <2>1, <2>4
<1>7. Accounted'
  <2>1. \A d : Lineage(d)' = Lineage(d)
    BY HierarchyKept
  <2>2. e.class = c /\ e \in errors' /\ errors \subseteq errors'
    BY <1>1
  <2>3. ASSUME NEW d \in OnStack PROVE c \in Lineage(d)
    <3>1. PICK k \in DOMAIN stack : d = stack[k].class
      BY DEF OnStack
    <3>2. Len(stack) \in DOMAIN stack /\ Top = stack[Len(stack)] /\ (k = Len(stack) \/ Len(stack) > k)
      BY TopFacts
    <3> QED BY <3>1, <3>2, Chain DEF Lineage
  <2> SUFFICES ASSUME NEW d \in Classes
               PROVE  \/ d \in (done \cup OnStack \cup ToSet(order))'
                      \/ \E b \in errors' : b.class \in Lineage(d)'
    BY DEF Accounted
  <2>4. \/ d \in done \cup OnStack \cup ToSet(order)
        \/ \E b \in errors : b.class \in Lineage(d)
    BY DEF IInv, Accounted
  <2> HIDE DEF e
  <2> QED BY <1>1, <2>1, <2>2, <2>3, <2>4
<1> QED BY <1>3, <1>4, <1>5, <1>6, <1>7 DEF IInv

(* A class becomes a flattened one.                                          *)
LEMMA FlattenedKeeps ==
  ASSUME IInv, program' = program, NEW c \in Classes, c \notin done,
         c \notin AncestorsOf(c), AncestorsOf(c) \subseteq done,
         NEW x \in Entry, Sound(c, x),
         loaded' = [loaded EXCEPT ![c] = x], done' = done \cup {c}
  PROVE  Flattened' /\ loaded' \in [Classes -> Entry] /\ done' \in SUBSET Classes
<1>1. \A d, y : Sound(d, y)' <=> Sound(d, y)
  BY SoundKept
<1>2. \A d : AncestorsOf(d)' = AncestorsOf(d) /\ Own(d)' = Own(d)
  BY HierarchyKept
<1>3. /\ loaded \in [Classes -> Entry] /\ done \in SUBSET Classes
      /\ \A d \in done : d \notin AncestorsOf(d) /\ AncestorsOf(d) \subseteq done /\ Sound(d, loaded[d])
      /\ \A d \in Classes \ done : loaded[d] = Own(d)
  BY DEF IInv, StateTyped, Flattened
<1>4. loaded'[c] = x /\ \A d \in Classes : d # c => loaded'[d] = loaded[d]
  BY <1>3
<1>5. loaded' \in [Classes -> Entry] /\ done' \in SUBSET Classes
  BY <1>3
<1>6. \A d \in done' : d \notin AncestorsOf(d) /\ AncestorsOf(d) \subseteq done' /\ Sound(d, loaded'[d])
  BY <1>3, <1>4
<1>7. \A d \in Classes \ done' : loaded'[d] = Own(d)
  BY <1>3, <1>4
<1> QED BY <1>1, <1>2, <1>5, <1>6, <1>7 DEF Flattened

(* The invariant's part about the calls, of a stack s and flattened classes D.   *)
Waits(s, D) ==
  /\ \A k \in DOMAIN s :
       /\ s[k].class \notin D /\ s[k].next \in 1 .. Len(Parents(s[k].class)) + 1
       /\ Gathered(s[k], Met(s[k]))
       /\ \A i \in Met(s[k]) : Parents(s[k].class)[i] \in D
  /\ \A k \in DOMAIN s : k < Len(s) =>
       /\ s[k].next \in DOMAIN Parents(s[k].class)
       /\ Parents(s[k].class)[s[k].next] = s[k + 1].class
  /\ \A i, j \in DOMAIN s : s[i].class = s[j].class => i = j

LEMMA WaitsKept ==
  ASSUME program' = program, Waits(stack', done')
  PROVE  Waiting'
<1>1. \A f, P : Gathered(f, P)' <=> Gathered(f, P)
  BY GatheredKept
<1>2. \A c : Parents(c)' = Parents(c)
  BY HierarchyKept
<1>3. ASSUME NEW k \in DOMAIN stack'
      PROVE  /\ (stack[k].class \notin done /\ stack[k].next \in 1 .. Len(Parents(stack[k].class)) + 1)'
             /\ Gathered(stack[k], Met(stack[k]))'
             /\ \A i \in Met(stack[k])' : (Parents(stack[k].class)[i] \in done)'
  <2>1. /\ stack'[k].class \notin done' /\ stack'[k].next \in 1 .. Len(Parents(stack'[k].class)) + 1
        /\ Gathered(stack'[k], Met(stack'[k]))
        /\ \A i \in Met(stack'[k]) : Parents(stack'[k].class)[i] \in done'
    BY DEF Waits
  <2>2. Gathered(stack[k], Met(stack[k]))'
    <3>1. Met(stack[k])' = Met(stack'[k])
      BY DEF Met
    <3> QED BY <1>1, <2>1, <3>1
  <2>3. Met(stack[k])' = Met(stack'[k])
    BY DEF Met
  <2> QED BY <1>2, <2>1, <2>2, <2>3
<1>4. ASSUME NEW k \in DOMAIN stack', k < Len(stack')
      PROVE  (/\ stack[k].next \in DOMAIN Parents(stack[k].class)
              /\ Parents(stack[k].class)[stack[k].next] = stack[k + 1].class)'
  BY <1>2, <1>4 DEF Waits
<1>5. \A i, j \in DOMAIN stack' : (stack[i].class = stack[j].class)' => i = j
  BY DEF Waits
<1> QED BY <1>3, <1>4, <1>5 DEF Waiting

LEMMA WaitsNow == ASSUME IInv PROVE Waits(stack, done)
BY DEF IInv, Waiting, Waits

LEMMA RestKeeps ==
  ASSUME IInv, program' = program, errors' = errors, done \subseteq done',
         OnStack \subseteq OnStack' \cup done',
         ToSet(order) \subseteq ToSet(order') \cup OnStack' \cup done'
  PROVE  Blamed' /\ Accounted'
<1>1. \A d, w : Guilty(d, w)' <=> Guilty(d, w)
  BY GuiltKept
<1>2. \A d : Lineage(d)' = Lineage(d)
  BY HierarchyKept
<1>3. Blamed'
  <2> SUFFICES ASSUME NEW d \in errors', d.why # "copy" PROVE Guilty(d.class, d.why)'
    BY DEF Blamed
  <2>1. Guilty(d.class, d.why)
    BY DEF IInv, Blamed
  <2> QED BY <1>1, <2>1
<1>4. Accounted'
  <2> SUFFICES ASSUME NEW d \in Classes
               PROVE  \/ d \in (done \cup OnStack \cup ToSet(order))'
                      \/ \E b \in errors' : b.class \in Lineage(d)'
    BY DEF Accounted
  <2>1. \/ d \in done \cup OnStack \cup ToSet(order)
        \/ \E b \in errors : b.class \in Lineage(d)
    BY DEF IInv, Accounted
  <2> QED BY <1>2, <2>1
<1> QED BY <1>3, <1>4

(* A class without parents is flattened as it is.                             *)
LEMMA LeafKeeps ==
  ASSUME IInv, program' = program, NEW c \in Classes, c \notin done, c \notin OnStack,
         program[c].parents = <<>>, done' = done \cup {c},
         loaded' = loaded, stack' = stack, errors' = errors,
         order' \in Seq(Classes), ToSet(order) \subseteq ToSet(order') \cup {c}
  PROVE  IInv'
<1>0. program \in Programs /\ loaded \in [Classes -> Entry] /\ loaded[c] = Own(c)
  BY DEF IInv, StateTyped, Flattened
<1>1. Sound(c, Own(c)) /\ AncestorsOf(c) = {} /\ Own(c) \in Entry
  BY <1>0, LeafSound DEF Parents
<1>2. loaded' = [loaded EXCEPT ![c] = Own(c)]
  BY <1>0
<1>3. Flattened' /\ done' \in SUBSET Classes
  BY <1>1, <1>2, FlattenedKeeps
<1>4. Waiting'
  <2>1. \A k \in DOMAIN stack : stack[k].class # c
    BY DEF OnStack
  <2>2. Waits(stack, done')
    BY <2>1, WaitsNow DEF Waits
  <2> QED BY <2>2, WaitsKept
<1>5. Blamed' /\ Accounted'
  <2>1. OnStack' = OnStack
    BY DEF OnStack
  <2> QED BY <2>1, RestKeeps
<1>6. StateTyped'
  BY <1>3 DEF IInv, StateTyped
<1> QED BY <1>3, <1>4, <1>5, <1>6 DEF IInv

(* A call begins.                                                            *)
LEMMA PushKeeps ==
  ASSUME IInv, program' = program, NEW c \in Classes, c \notin done, c \notin OnStack,
         program[c].parents # <<>>, stack' = Append(stack, NewFrame(c)),
         loaded' = loaded, done' = done, errors' = errors,
         order' \in Seq(Classes), ToSet(order) \subseteq ToSet(order') \cup {c},
         stack # <<>> => /\ Top.next \in DOMAIN Parents(Top.class)
                         /\ Parents(Top.class)[Top.next] = c
  PROVE  IInv'
<1> DEFINE f == NewFrame(c)
           n == Len(stack)
<1>0. program \in Programs /\ stack \in Seq(Frame)
  BY DEF IInv, StateTyped
<1>1. f \in Frame
  BY EmptySeq DEF NewFrame, Frame
<1>2. /\ f.class = c /\ f.next = 1 /\ f.fields = <<>> /\ f.methods = <<>> /\ f.ancestors = {}
      /\ f.required = <<>> /\ Met(f) = {}
  BY DEF NewFrame, Met
<1>3. /\ stack' \in Seq(Frame) /\ Len(stack') = n + 1 /\ n \in Nat
      /\ DOMAIN stack = 1 .. n /\ DOMAIN stack' = 1 .. n + 1
      /\ stack'[n + 1] = f /\ \A k \in 1 .. n : stack'[k] = stack[k]
  BY <1>0, <1>1, StackAdds
<1> HIDE DEF f
<1>4. Gathered(f, {})
  <2>1. ToSet(f.methods) = {} /\ ToSet(f.required) = {} /\ Once(f.methods)
    BY <1>2, NothingListed
  <2>2. FieldsGathered(f, {})
    <3>1. [i \in {} |-> PartOf(f.class, i)] = <<>>
      OBVIOUS
    <3> QED BY <3>1, <1>2, FlattenEmpty DEF FieldsGathered
  <2>3. MethodsGathered(f, {})
    BY <2>1 DEF MethodsGathered, TrueCopies, PlainIn, FromFirst
  <2>4. DutiesGathered(f, {})
    BY <2>1 DEF DutiesGathered
  <2> QED BY <1>2, <2>2, <2>3, <2>4 DEF Gathered
<1>5. 1 \in 1 .. Len(Parents(c)) + 1
  BY <1>0, DeclaredFacts
<1>6. \A k \in 1 .. n : stack[k].class # c
  BY <1>3 DEF OnStack
<1>7. Waits(stack, done)
  BY WaitsNow
<1>8. Waits(stack', done')
  <2>1. ASSUME NEW k \in DOMAIN stack'
        PROVE  /\ stack'[k].class \notin done' /\ stack'[k].next \in 1 .. Len(Parents(stack'[k].class)) + 1
               /\ Gathered(stack'[k], Met(stack'[k]))
               /\ \A i \in Met(stack'[k]) : Parents(stack'[k].class)[i] \in done'
    <3>1. CASE k = n + 1
      BY <3>1, <1>2, <1>3, <1>4, <1>5
    <3>2. CASE k # n + 1
      <4>1. k \in 1 .. n /\ stack'[k] = stack[k] /\ k \in DOMAIN stack
        BY <3>2, <1>3
      <4> QED BY <4>1, <1>7 DEF Waits
    <3> QED BY <3>1, <3>2
  <2>2. ASSUME NEW k \in DOMAIN stack', k < Len(stack')
        PROVE  /\ stack'[k].next \in DOMAIN Parents(stack'[k].class)
               /\ Parents(stack'[k].class)[stack'[k].next] = stack'[k + 1].class
    <3>1. k \in 1 .. n /\ stack'[k] = stack[k] /\ k \in DOMAIN stack
      BY <2>2, <1>3
    <3>2. CASE k = n
      <4>1. stack # <<>> /\ Top = stack[k]
        BY <3>1, <3>2, <1>3 DEF Top, Last
      <4> QED BY <4>1, <3>1, <3>2, <1>2, <1>3
    <3>3. CASE k # n
      <4>1. k < Len(stack) /\ k + 1 \in 1 .. n
        BY <3>1, <3>3, <1>3
      <4>2. /\ stack[k].next \in DOMAIN Parents(stack[k].class)
            /\ Parents(stack[k].class)[stack[k].next] = stack[k + 1].class
        BY <4>1, <3>1, <1>7 DEF Waits
      <4>3. stack'[k + 1] = stack[k + 1]
        BY <4>1, <1>3
      <4> QED BY <3>1, <4>2, <4>3
    <3> QED BY <3>2, <3>3
  <2>3. ASSUME NEW i \in DOMAIN stack', NEW j \in DOMAIN stack', stack'[i].class = stack'[j].class
        PROVE  i = j
    <3>1. (i \in 1 .. n \/ i = n + 1) /\ (j \in 1 .. n \/ j = n + 1)
      BY <1>3
    <3>2. CASE i \in 1 .. n /\ j \in 1 .. n
      BY <2>3, <3>2, <1>3, <1>7 DEF Waits
    <3> QED BY <2>3, <3>1, <3>2, <1>2, <1>3, <1>6
  <2> QED BY <2>1, <2>2, <2>3 DEF Waits
<1>9. OnStack' = OnStack \cup {c}
  <2>1. OnStack' = {stack'[k].class : k \in 1 .. n + 1}
    BY <1>3 DEF OnStack
  <2>2. OnStack = {stack'[k].class : k \in 1 .. n}
    BY <1>3 DEF OnStack
  <2>3. 1 .. n + 1 = (1 .. n) \cup {n + 1}
    BY <1>3
  <2> QED BY <2>1, <2>2, <2>3, <1>2, <1>3
<1>10. Blamed' /\ Accounted'
  BY <1>9, RestKeeps
<1>11. Flattened'
  <2>1. \A d, x : Sound(d, x)' <=> Sound(d, x)
    BY SoundKept
  <2>2. \A d : AncestorsOf(d)' = AncestorsOf(d) /\ Own(d)' = Own(d)
    BY HierarchyKept
  <2> QED BY <2>1, <2>2 DEF Flattened, IInv
<1>12. StateTyped'
  BY <1>3 DEF IInv, StateTyped
<1> QED BY <1>8, <1>10, <1>11, <1>12, WaitsKept DEF IInv

(* A parent that is flattened: why it is refused, or what its joining needs.    *)
LEMMA ParentFacts ==
  ASSUME IInv, ParentsLeft
  PROVE  /\ program \in Programs /\ stack # <<>> /\ Top \in Frame /\ Top.class \in Classes
         /\ Top.class \notin done
         /\ Top.next \in DOMAIN Parents(Top.class) /\ Parents(Top.class)[Top.next] = Parent
         /\ Parent \in ParentsOf(Top.class)
         /\ Gathered(Top, Met(Top)) /\ Met(Top) = 1 .. Top.next - 1
         /\ \A i \in Met(Top) : /\ ParentAt(Top, i) \in done
                                /\ AllFields(ParentAt(Top, i)) \in Seq(FieldEntry)
<1>1. stack # <<>> /\ Top.next <= Len(Parents(Top.class)) /\ Parent = Parents(Top.class)[Top.next]
  BY DEF ParentsLeft, Parent, Parents
<1>2. /\ Top \in Frame /\ Top.class \in Classes /\ Top.class \notin done
      /\ Top.next \in 1 .. Len(Parents(Top.class)) + 1
      /\ Gathered(Top, Met(Top))
      /\ \A i \in Met(Top) : /\ ParentAt(Top, i) \in done
                             /\ AllFields(ParentAt(Top, i)) \in Seq(FieldEntry)
  BY <1>1, TopFacts, CallFacts
<1>3. program \in Programs
  BY DEF IInv, StateTyped
<1>4. DOMAIN Parents(Top.class) = 1 .. Len(Parents(Top.class)) /\ Len(Parents(Top.class)) \in Nat
  BY <1>2, <1>3, DeclaredFacts
<1>5. Top.next \in DOMAIN Parents(Top.class)
  BY <1>1, <1>2, <1>4
<1>6. Parent \in ParentsOf(Top.class)
  BY <1>1, <1>2, <1>3, <1>5, DeclaredFacts
<1> QED BY <1>1, <1>2, <1>3, <1>5, <1>6 DEF Met

LEMMA RefusalFacts ==
  ASSUME IInv, ParentsLeft, Parent \in done
  PROVE  LET r == Refusal(Top.class, Parent)
             x == loaded[Parent]
         IN  /\ r \in Faults \cup {"copy", "none"}
             /\ r \notin {"copy", "none"} => Guilty(Top.class, r)
             /\ r = "none" =>
                  /\ program[Parent].kind \in {"class", "interface"}
                  /\ program[Parent].kind = "class" =>
                       ~ Clashes(Top.fields, x.fields) /\ Undecided(Top.class, Top.methods, x.methods) = 0
<1> DEFINE f == Top
           c == Top.class
           n == Top.next
           p == Parent
           x == loaded[p]
           r == Refusal(c, p)
           kind == program[p].kind
           clash == Undecided(c, f.methods, x.methods)
<1>1. /\ program \in Programs /\ f \in Frame /\ c \in Classes /\ n \in DOMAIN Parents(c)
      /\ Parents(c)[n] = p /\ p \in ParentsOf(c) /\ Gathered(f, 1 .. n - 1)
      /\ \A i \in 1 .. n - 1 : AllFields(ParentAt(f, i)) \in Seq(FieldEntry)
  BY ParentFacts
<1>2. /\ p \in Classes /\ x.fields = AllFields(p) /\ x.methods \in Seq(MethodEntry)
      /\ Once(x.methods) /\ \A m \in Methods : PlainIn(x.methods, m) = Versions(p, m)
  BY DoneFacts DEF Sound, Entry
<1>3. kind \in Kinds
  BY <1>1, <1>2, DeclaredFacts
<1>4. r = CASE kind = "generic"             -> "generic"
            [] kind = "contract"            -> "contract"
            [] kind = "interface"           -> "none"
            [] kind = "class" /\ Clashes(f.fields, x.fields) -> "field"
            [] OTHER -> IF clash = 0 THEN "none"
                        ELSE IF x.methods[clash].name[1] = "" THEN "method" ELSE "copy"
  BY DEF Refusal
<1>5. n \in Nat /\ n # 0 /\ n - 1 \in Nat
  BY <1>1, DeclaredFacts
<1>6. f.methods \in Seq(MethodEntry)
  BY <1>1 DEF Frame
<1>7. p \in ParentsOf(c) \cap Classes
  BY <1>1, <1>2
<1> HIDE DEF f, c, n, p, x, r, kind, clash
<1>8. CASE kind = "generic" \/ kind = "contract"
  <2>1. r = kind /\ r \in Faults /\ r \notin {"copy", "none"}
    BY <1>4, <1>8 DEF Faults
  <2>2. Guilty(c, r)
    BY <1>7, <1>8, <2>1 DEF Guilty, kind
  <2> QED BY <2>1, <2>2 DEF c, r, p
<1>9. CASE kind = "interface"
  <2>1. r = "none"
    BY <1>4, <1>9
  <2> QED BY <2>1, <1>9 DEF kind, c, r, p
<1>10. CASE kind = "class" /\ Clashes(f.fields, x.fields)
  <2>1. r = "field"
    BY <1>4, <1>10
  <2>2. n \in Bases(c)
    BY <1>1, <1>2, <1>10 DEF Bases, kind
  <2>3. PICK d \in ToSet(f.fields), e \in ToSet(x.fields) : d.name = e.name
    BY <1>10, ClashElements
  <2>4. \A i \in Bases(c) \cap (1 .. n - 1) : AllFields(Parents(c)[i]) \in Seq(FieldEntry)
    BY <1>1 DEF ParentAt, f, c
  <2>5. f.fields = FlattenSeq([i \in 1 .. n - 1 |-> PartOf(c, i)])
    BY <1>1 DEF Gathered, FieldsGathered, f, c
  <2>6. \E i \in Bases(c) \cap (1 .. n - 1) : d \in ToSet(AllFields(Parents(c)[i]))
    BY <1>1, <1>5, <2>3, <2>4, <2>5, PartsFacts
  <2>7. PICK i \in Bases(c) \cap (1 .. n - 1) : d \in ToSet(AllFields(Parents(c)[i]))
    BY <2>6
  <2>8. i # n /\ i # 0
    BY <1>5, <2>7
  <2>9. FieldsAt(c, i) = AllFields(Parents(c)[i]) /\ FieldsAt(c, n) = x.fields
    BY <1>1, <1>2, <1>5, <2>8 DEF FieldsAt
  <2>10. Clashes(FieldsAt(c, i), FieldsAt(c, n))
    BY <2>3, <2>7, <2>9, ClashElements
  <2>11. Guilty(c, "field")
    BY <2>2, <2>7, <2>8, <2>10 DEF Guilty
  <2> QED BY <2>1, <2>11 DEF Faults, c, r, p
<1>11. CASE kind = "class" /\ ~ Clashes(f.fields, x.fields)
  <2>1. r = IF clash = 0 THEN "none" ELSE IF x.methods[clash].name[1] = "" THEN "method" ELSE "copy"
    BY <1>4, <1>11
  <2>2. CASE clash = 0
    <3>1. r = "none"
      BY <2>1, <2>2
    <3> QED BY <3>1, <2>2, <1>11 DEF kind, c, r, p, clash, f, x
  <2>3. CASE clash # 0 /\ x.methods[clash].name[1] # ""
    <3>1. r = "copy"
      BY <2>1, <2>3
    <3> QED BY <3>1 DEF c, r, p
  <2>4. CASE clash # 0 /\ x.methods[clash].name[1] = ""
    <3> DEFINE e == x.methods[clash]
               m == e.name[2]
    <3>1. r = "method"
      BY <2>1, <2>4
    <3>2. clash \in DOMAIN x.methods /\ Taken(f.methods, x.methods, clash) /\ ~ Has(Own(c).methods, e.name)
      BY <1>2, <2>4, UndecidedFacts DEF clash
    <3>3. e \in MethodEntry /\ e \in ToSet(x.methods)
      BY <1>2, <3>2, ListEntries
    <3>4. e.name = Plain(m) /\ m \in Methods
      BY <2>4, <3>3, EntryFacts, NameFacts
    <3>5. ~ Has(SubSeq(x.methods, 1, clash - 1), e.name)
      <4> SUFFICES ASSUME Has(SubSeq(x.methods, 1, clash - 1), e.name) PROVE FALSE
        OBVIOUS
      <4>0. /\ clash \in 1 .. Len(x.methods) /\ Len(x.methods) \in Nat
            /\ DOMAIN x.methods = 1 .. Len(x.methods)
        BY <1>2, <3>2, LenProperties
      <4> DEFINE s == SubSeq(x.methods, 1, clash - 1)
      <4>1. s \in Seq(MethodEntry) /\ DOMAIN s = 1 .. clash - 1 /\ \A i \in 1 .. clash - 1 : s[i] = x.methods[i]
        BY <1>2, <4>0
      <4>2. PICK i \in DOMAIN s : s[i].name = e.name
        <5>1. \E b \in ToSet(s) : b.name = e.name
          BY <4>1, HasNamed
        <5> QED BY <5>1 DEF ToSet
      <4>3. i \in DOMAIN x.methods /\ i # clash /\ x.methods[i].name = e.name /\ x.methods[i].name[1] = ""
        <5>1. i \in 1 .. clash - 1
          BY <4>1, <4>2
        <5>2. i \in DOMAIN x.methods /\ i # clash
          BY <4>0, <5>1
        <5>3. x.methods[i].name = e.name
          BY <4>1, <4>2, <5>1
        <5>4. e.name[1] = ""
          BY <2>4
        <5> QED BY <5>2, <5>3, <5>4
      <4> QED BY <4>3, <1>2, <3>2 DEF Once
    <3>6. Has(f.methods, Plain(m))
      BY <3>2, <3>4, <3>5 DEF Taken
    <3>7. PlainIn(f.methods, m) # {}
      BY <1>6, <3>6, HasPlain
    <3>8. PlainIn(f.methods, m) = FromFirst(f, Giving(c, m) \cap (1 .. n - 1), m)
      BY <1>1, <3>4 DEF Gathered, MethodsGathered, f, c
    <3>9. PICK i \in Giving(c, m) \cap (1 .. n - 1) : TRUE
      BY <3>7, <3>8 DEF FromFirst
    <3>10. PlainIn(x.methods, m) # {}
      BY <3>3, <3>4 DEF PlainIn
    <3>11. Version(p, m) # None
      BY <1>2, <3>4, <3>10, VersionSome
    <3>12. n \in Giving(c, m) /\ i \in Giving(c, m) /\ i # n
      BY <1>1, <1>2, <1>5, <1>11, <3>9, <3>11 DEF Giving, Bases, kind
    <3>13. ~ Declares(c, m)
      BY <3>2, <3>4 DEF Declares
    <3> HIDE DEF e, m
    <3>14. Guilty(c, "method")
      BY <3>4, <3>12, <3>13 DEF Guilty
    <3> QED BY <3>1, <3>14 DEF Faults, c, r, p
  <2> QED BY <2>2, <2>3, <2>4
<1> QED BY <1>3, <1>8, <1>9, <1>10, <1>11 DEF Kinds

(* A parent's members join those of the parents before it.                     *)
LEMMA JoinKeeps ==
  ASSUME IInv, program' = program, order' = order, ParentsLeft, Parent \in done,
         Refusal(Top.class, Parent) = "none",
         stack' = Append(Front(stack), WithParent(Top, Parent)),
         loaded' = loaded, done' = done, errors' = errors
  PROVE  IInv'
<1> DEFINE f == Top
           g == WithParent(Top, Parent)
           n == Len(stack)
           p == Parent
           c == Top.class
<1>1. /\ program \in Programs /\ stack # <<>> /\ f \in Frame /\ c \in Classes /\ c \notin done
      /\ f.next \in DOMAIN Parents(c) /\ Parents(c)[f.next] = p
      /\ Gathered(f, Met(f))
      /\ \A i \in Met(f) : ParentAt(f, i) \in done /\ AllFields(ParentAt(f, i)) \in Seq(FieldEntry)
  BY ParentFacts
<1>2. /\ p \in Classes /\ loaded[p] \in Entry /\ Sound(p, loaded[p])
  BY DoneFacts
<1>3. /\ program[p].kind \in {"class", "interface"}
      /\ program[p].kind = "class" => /\ ~ Clashes(f.fields, loaded[p].fields)
                                      /\ Undecided(f.class, f.methods, loaded[p].methods) = 0
  BY RefusalFacts
<1>4. /\ g \in Frame /\ g.class = c /\ g.next = f.next + 1
      /\ Met(g) = Met(f) \cup {f.next} /\ Gathered(g, Met(g))
  BY <1>1, <1>2, <1>3, GatheredGrows
<1>5. /\ n \in Nat /\ n # 0 /\ n \in DOMAIN stack /\ DOMAIN stack = 1 .. n /\ f = stack[n]
      /\ Front(stack) \in Seq(Frame) /\ Len(Front(stack)) = n - 1
      /\ \A k \in 1 .. n - 1 : Front(stack)[k] = stack[k]
  BY <1>1, TopFacts
<1> HIDE DEF g
<1>6. /\ stack' \in Seq(Frame) /\ Len(stack') = n /\ DOMAIN stack' = 1 .. n
      /\ stack'[n] = g /\ \A k \in 1 .. n - 1 : stack'[k] = stack[k]
  <2> DEFINE s == Front(stack)
  <2>1. /\ stack' \in Seq(Frame) /\ Len(stack') = Len(s) + 1 /\ DOMAIN stack' = 1 .. Len(s) + 1
        /\ stack'[Len(s) + 1] = g /\ \A k \in 1 .. Len(s) : stack'[k] = s[k]
    <3> HIDE DEF s
    <3>1. stack' = Append(s, g) /\ s \in Seq(Frame)
      BY <1>5 DEF s, g
    <3> QED BY <1>4, <3>1, StackAdds
  <2>2. Len(s) + 1 = n /\ Len(s) = n - 1
    BY <1>5
  <2> QED BY <2>1, <2>2, <1>5
<1>7. f.next + 1 \in 1 .. Len(Parents(c)) + 1
  <2>1. DOMAIN Parents(c) = 1 .. Len(Parents(c)) /\ Len(Parents(c)) \in Nat
    BY <1>1, DeclaredFacts
  <2> QED BY <2>1, <1>1
<1>8. \A k \in DOMAIN stack : stack'[k].class = stack[k].class
  <2> SUFFICES ASSUME NEW k \in DOMAIN stack PROVE stack'[k].class = stack[k].class
    OBVIOUS
  <2>1. k = n \/ k \in 1 .. n - 1
    BY <1>5
  <2> QED BY <2>1, <1>4, <1>5, <1>6
<1>9. Waits(stack, done)
  BY WaitsNow
<1> HIDE DEF n, f, c, p
<1>10. Waits(stack', done')
  <2>1. ASSUME NEW k \in DOMAIN stack'
        PROVE  /\ stack'[k].class \notin done' /\ stack'[k].next \in 1 .. Len(Parents(stack'[k].class)) + 1
               /\ Gathered(stack'[k], Met(stack'[k]))
               /\ \A i \in Met(stack'[k]) : Parents(stack'[k].class)[i] \in done'
    <3>1. CASE k = n
      <4>1. \A i \in Met(f) : Parents(c)[i] \in done
        BY <1>1 DEF ParentAt, c, f
      <4>2. p \in done
        BY DEF p
      <4> QED BY <3>1, <4>1, <4>2, <1>1, <1>4, <1>6, <1>7
    <3>2. CASE k # n
      <4>1. k \in 1 .. n - 1 /\ stack'[k] = stack[k] /\ k \in DOMAIN stack
        BY <3>2, <1>5, <1>6
      <4> QED BY <4>1, <1>9 DEF Waits
    <3> QED BY <3>1, <3>2
  <2>2. ASSUME NEW k \in DOMAIN stack', k < Len(stack')
        PROVE  /\ stack'[k].next \in DOMAIN Parents(stack'[k].class)
               /\ Parents(stack'[k].class)[stack'[k].next] = stack'[k + 1].class
    <3>1. k \in 1 .. n - 1 /\ stack'[k] = stack[k] /\ k \in DOMAIN stack /\ k + 1 \in DOMAIN stack /\ k < Len(stack)
      <4>1. k \in 1 .. n /\ k < n
        BY <2>2, <1>6
      <4>2. k \in 1 .. n - 1 /\ k + 1 \in 1 .. n
        BY <4>1, <1>5
      <4>3. k < Len(stack)
        BY <4>1 DEF n
      <4> QED BY <4>1, <4>2, <4>3, <1>5, <1>6
    <3>2. /\ stack[k].next \in DOMAIN Parents(stack[k].class)
          /\ Parents(stack[k].class)[stack[k].next] = stack[k + 1].class
      BY <3>1, <1>9 DEF Waits
    <3> QED BY <3>1, <3>2, <1>8
  <2>3. ASSUME NEW i \in DOMAIN stack', NEW j \in DOMAIN stack', stack'[i].class = stack'[j].class
        PROVE  i = j
    BY <2>3, <1>5, <1>6, <1>8, <1>9 DEF Waits
  <2> QED BY <2>1, <2>2, <2>3 DEF Waits
<1>11. OnStack' = OnStack
  <2>1. OnStack' = {stack'[k].class : k \in DOMAIN stack}
    BY <1>5, <1>6 DEF OnStack
  <2>2. {stack'[k].class : k \in DOMAIN stack} = {stack[k].class : k \in DOMAIN stack}
    BY <1>8
  <2>3. OnStack = {stack[k].class : k \in DOMAIN stack}
    BY DEF OnStack
  <2> QED BY <2>1, <2>2, <2>3
<1>12. Blamed' /\ Accounted'
  BY <1>11, RestKeeps
<1>13. Flattened'
  <2>1. \A d, x : Sound(d, x)' <=> Sound(d, x)
    BY SoundKept
  <2>2. \A d : AncestorsOf(d)' = AncestorsOf(d) /\ Own(d)' = Own(d)
    BY HierarchyKept
  <2> QED BY <2>1, <2>2 DEF Flattened, IInv
<1>14. StateTyped'
  BY <1>6 DEF IInv, StateTyped
<1> QED BY <1>10, <1>12, <1>13, <1>14, WaitsKept DEF IInv

(* A call that has met all parents.                                          *)
LEMMA LastFacts ==
  ASSUME IInv, stack # <<>>, ~ ParentsLeft
  PROVE  /\ program \in Programs /\ Top \in Frame /\ Top.class \in Classes /\ Top.class \notin done
         /\ Gathered(Top, DOMAIN Parents(Top.class)) /\ Grounded(Top.class)
         /\ AncestorsOf(Top.class) \subseteq done
         /\ \A i \in Bases(Top.class) : AllFields(ParentAt(Top, i)) \in Seq(FieldEntry)
<1> DEFINE f == Top
           c == Top.class
<1>1. /\ f \in Frame /\ c \in Classes /\ c \notin done /\ f.next \in 1 .. Len(Parents(c)) + 1
      /\ Gathered(f, Met(f))
      /\ \A i \in Met(f) : ParentAt(f, i) \in done /\ AllFields(ParentAt(f, i)) \in Seq(FieldEntry)
  BY TopFacts, CallFacts
<1>2. program \in Programs
  BY DEF IInv, StateTyped
<1>3. DOMAIN Parents(c) = 1 .. Len(Parents(c)) /\ Len(Parents(c)) \in Nat
  BY <1>1, <1>2, DeclaredFacts
<1>4. ~ (f.next <= Len(Parents(c)))
  BY DEF ParentsLeft, Parents
<1>5. Met(f) = DOMAIN Parents(c)
  BY <1>1, <1>3, <1>4 DEF Met
<1>6. AncestorsOf(c) \subseteq done
  <2>1. AncestorsOf(c) = UNION {Lineage(p) : p \in ParentsOf(c) \cap Classes}
    BY <1>1, AncestorsUnion
  <2>2. ParentsOf(c) = {ParentAt(f, i) : i \in Met(f)}
    BY <1>1, <1>2, <1>5, DeclaredFacts DEF ParentAt
  <2>3. ASSUME NEW p \in ParentsOf(c) PROVE Lineage(p) \subseteq done
    <3>1. p \in done
      BY <1>1, <2>2
    <3> QED BY <3>1, DoneFacts DEF Lineage
  <2> QED BY <2>1, <2>3
<1>7. Grounded(c)
  <2>1. \A a \in AncestorsOf(c) : a \notin AncestorsOf(a)
    BY <1>6 DEF IInv, Flattened
  <2> QED BY <1>1, <1>6, <2>1 DEF Grounded, Lineage
<1>8. \A i \in Bases(c) : AllFields(ParentAt(f, i)) \in Seq(FieldEntry)
  BY <1>1, <1>5 DEF Bases
<1> QED BY <1>1, <1>2, <1>5, <1>6, <1>7, <1>8

(* Why it fails, if it does.                                                *)
LEMMA FieldFault ==
  ASSUME IInv, stack # <<>>, ~ ParentsLeft, Clashes(Top.fields, Own(Top.class).fields)
  PROVE  Guilty(Top.class, "field")
<1> DEFINE f == Top
           c == Top.class
<1>1. /\ program \in Programs /\ f \in Frame /\ c \in Classes
      /\ Gathered(f, DOMAIN Parents(c)) /\ Grounded(c)
      /\ \A i \in Bases(c) : AllFields(ParentAt(f, i)) \in Seq(FieldEntry)
  BY LastFacts
<1>2. PICK d \in ToSet(f.fields), e \in ToSet(Own(c).fields) : d.name = e.name
  BY ClashElements
<1>3. PICK i \in Bases(c) : d \in ToSet(AllFields(ParentAt(f, i)))
  BY <1>1, <1>2, WholeFields
<1>4. i # 0
  BY <1>1, BasePlaces
<1>5. FieldsAt(c, i) = AllFields(ParentAt(f, i)) /\ FieldsAt(c, 0) = Own(c).fields
  BY <1>4 DEF FieldsAt, ParentAt
<1>6. Clashes(FieldsAt(c, i), FieldsAt(c, 0))
  BY <1>2, <1>3, <1>5, ClashElements
<1> HIDE DEF c
<1>7. Guilty(c, "field")
  BY <1>3, <1>4, <1>6 DEF Guilty
<1> QED BY <1>7 DEF c

LEMMA DutyFault ==
  ASSUME IInv, stack # <<>>, ~ ParentsLeft,
         NEW b, b = Breach(Overridden(Top.methods, Own(Top.class).methods), Top.required)
  PROVE  /\ b \in {"none", "copy", "missing", "signature"}
         /\ b \in {"missing", "signature"} => Guilty(Top.class, b)
<1> DEFINE f == Top
           c == Top.class
           O == Overridden(f.methods, Own(c).methods)
<1>1. /\ program \in Programs /\ f \in Frame /\ c \in Classes
      /\ Gathered(f, DOMAIN Parents(c)) /\ Grounded(c) /\ f.required \in Seq(MethodEntry)
  BY LastFacts DEF Frame
<1>2. O \in Seq(MethodEntry) /\ \A m \in Methods : PlainIn(O, m) = Versions(c, m)
  BY <1>1, WholeMethods
<1> HIDE DEF O
<1>3. /\ b \in {"none", "copy", "missing", "signature"}
      /\ b = "missing" => \E want \in ToSet(f.required) :
           want.name[1] = "" /\ ~ Has(O, want.name)
      /\ b = "signature" => \E want \in ToSet(f.required) :
           want.name[1] = "" /\ Has(O, want.name) /\ O[Named(O, want.name)].sig # want.sig
  <2>1. b = Breach(O, f.required)
    BY DEF O
  <2> QED BY <1>1, <2>1, BreachFacts
<1>4. ASSUME NEW want \in ToSet(f.required), want.name[1] = ""
      PROVE  \E i \in Obliging(c), m \in Methods :
               /\ want.name = Plain(m) /\ Version(i, m) # None
               /\ want.sig = SignatureOf(Version(i, m), m)
  <2>1. want \in MethodEntry
    BY <1>1, ListEntries
  <2>2. want.name = Plain(want.name[2]) /\ want.name[2] \in Methods
    BY <1>4, <2>1, EntryFacts, NameFacts
  <2>3. PICK i \in DOMAIN Parents(c) : Obliges(f, i) /\ want \in Versions(ParentAt(f, i), want.name[2])
    BY <1>1, <1>4 DEF Gathered, DutiesGathered
  <2> DEFINE q == ParentAt(f, i)
  <2>4. q \in Classes /\ q \in ParentsOf(c) /\ program[q].kind = "interface"
    <3>1. q \in Classes
      BY <1>1 DEF Gathered
    <3>2. q \in ParentsOf(c)
      BY <1>1, DeclaredFacts DEF ParentAt
    <3> QED BY <2>3, <3>1, <3>2 DEF Obliges
  <2>5. q \in Obliging(c)
    BY <2>4 DEF Obliging
  <2>6. Version(q, want.name[2]) # None /\ want.sig = SignatureOf(Version(q, want.name[2]), want.name[2])
    BY <2>3 DEF Versions, VersionEntry
  <2> HIDE DEF q
  <2> QED BY <2>2, <2>5, <2>6
<1>5. CASE b = "missing"
  <2>1. PICK want \in ToSet(f.required) : want.name[1] = "" /\ ~ Has(O, want.name)
    BY <1>3, <1>5
  <2>2. PICK i \in Obliging(c), m \in Methods : want.name = Plain(m) /\ Version(i, m) # None
    BY <1>4, <2>1
  <2>3. Version(c, m) = None
    BY <1>2, <2>1, <2>2, HasPlain, VersionSome
  <2> HIDE DEF c
  <2>4. Guilty(c, "missing")
    BY <2>2, <2>3 DEF Guilty
  <2> QED BY <1>3, <1>5, <2>4 DEF c
<1>6. CASE b = "signature"
  <2>1. PICK want \in ToSet(f.required) :
          want.name[1] = "" /\ Has(O, want.name) /\ O[Named(O, want.name)].sig # want.sig
    BY <1>3, <1>6
  <2>2. PICK i \in Obliging(c), m \in Methods :
          /\ want.name = Plain(m) /\ Version(i, m) # None
          /\ want.sig = SignatureOf(Version(i, m), m)
    BY <1>4, <2>1
  <2> DEFINE e == O[Named(O, Plain(m))]
  <2>3. e \in ToSet(O) /\ e.name = Plain(m)
    BY <1>2, <2>1, <2>2, HasNamed
  <2>4. e \in Versions(c, m)
    BY <1>2, <2>3 DEF PlainIn
  <2>5. e.sig # want.sig
    BY <2>1, <2>2
  <2> HIDE DEF e, c
  <2>6. Version(c, m) # None /\ e.sig = SignatureOf(Version(c, m), m)
    BY <2>4 DEF Versions, VersionEntry
  <2>7. Guilty(c, "signature")
    BY <2>2, <2>5, <2>6 DEF Guilty
  <2> QED BY <1>3, <1>6, <2>7 DEF c
<1> QED BY <1>3, <1>5, <1>6

(* It succeeds: what it gathered is kept.                                     *)
LEMMA FinishKeeps ==
  ASSUME IInv, program' = program, order' = order, stack # <<>>, ~ ParentsLeft,
         ~ Clashes(Top.fields, Own(Top.class).fields),
         NEW O, O = Overridden(Top.methods, Own(Top.class).methods), Breach(O, Top.required) = "none",
         loaded' = [loaded EXCEPT ![Top.class] =
                      [fields |-> Top.fields \o Own(Top.class).fields,
                       methods |-> O \o Copies(O, Top.ancestors), ancestors |-> Top.ancestors]],
         done' = done \cup {Top.class}, stack' = Front(stack), errors' = errors
  PROVE  IInv'
<1> DEFINE c == Top.class
           n == Len(stack)
           x == [fields |-> Top.fields \o Own(Top.class).fields,
                 methods |-> O \o Copies(O, Top.ancestors), ancestors |-> Top.ancestors]
<1>1. /\ program \in Programs /\ Top \in Frame /\ c \in Classes /\ c \notin done
      /\ Gathered(Top, DOMAIN Parents(c)) /\ Grounded(c) /\ AncestorsOf(c) \subseteq done
  BY LastFacts
<1>2. x \in Entry /\ Sound(c, x)
  <2>1. \A a \in AncestorsOf(c) : loaded[a] \in Entry /\ Sound(a, loaded[a])
    BY <1>1, DoneFacts
  <2> QED BY <1>1, <2>1, WholeSound
<1> HIDE DEF x
<1>3. loaded' = [loaded EXCEPT ![c] = x]
  BY DEF x
<1>4. c \notin AncestorsOf(c)
  BY <1>1
<1>5. Flattened' /\ loaded' \in [Classes -> Entry] /\ done' \in SUBSET Classes
  BY <1>1, <1>2, <1>3, <1>4, FlattenedKeeps
<1>6. /\ n \in Nat /\ n # 0 /\ n \in DOMAIN stack /\ DOMAIN stack = 1 .. n /\ Top = stack[n]
      /\ stack' \in Seq(Frame) /\ DOMAIN stack' = 1 .. n - 1 /\ Len(stack') = n - 1
      /\ \A k \in 1 .. n - 1 : stack'[k] = stack[k]
  BY TopFacts
<1>7. Waits(stack, done)
  BY WaitsNow
<1>8. \A k \in DOMAIN stack' : k \in DOMAIN stack /\ stack'[k] = stack[k] /\ k # n /\ stack[k].class # c
  <2>1. \A k \in DOMAIN stack' : k \in DOMAIN stack /\ stack'[k] = stack[k] /\ k # n
    BY <1>6
  <2>2. \A k \in DOMAIN stack : stack[k].class = stack[n].class => k = n
    BY <1>6, <1>7 DEF Waits
  <2> HIDE DEF n
  <2> QED BY <2>1, <2>2, <1>6
<1>9. Waits(stack', done')
  <2>1. ASSUME NEW k \in DOMAIN stack'
        PROVE  /\ stack'[k].class \notin done' /\ stack'[k].next \in 1 .. Len(Parents(stack'[k].class)) + 1
               /\ Gathered(stack'[k], Met(stack'[k]))
               /\ \A i \in Met(stack'[k]) : Parents(stack'[k].class)[i] \in done'
    BY <1>7, <1>8 DEF Waits
  <2>2. ASSUME NEW k \in DOMAIN stack', k < Len(stack')
        PROVE  /\ stack'[k].next \in DOMAIN Parents(stack'[k].class)
               /\ Parents(stack'[k].class)[stack'[k].next] = stack'[k + 1].class
    <3>1. k < Len(stack) /\ k + 1 \in DOMAIN stack' /\ k \in DOMAIN stack
      BY <2>2, <1>6
    <3>2. stack'[k] = stack[k] /\ stack'[k + 1] = stack[k + 1]
      BY <3>1, <1>8
    <3> QED BY <3>1, <3>2, <1>7 DEF Waits
  <2>3. ASSUME NEW i \in DOMAIN stack', NEW j \in DOMAIN stack', stack'[i].class = stack'[j].class
        PROVE  i = j
    BY <2>3, <1>7, <1>8 DEF Waits
  <2> QED BY <2>1, <2>2, <2>3 DEF Waits
<1>10. OnStack \subseteq OnStack' \cup done'
  <2> SUFFICES ASSUME NEW k \in DOMAIN stack PROVE stack[k].class \in OnStack' \cup done'
    BY DEF OnStack
  <2>1. CASE k = n
    BY <2>1, <1>6
  <2>2. CASE k # n
    <3>1. k \in DOMAIN stack' /\ stack'[k] = stack[k]
      BY <2>2, <1>6
    <3>2. stack'[k].class \in OnStack'
      BY <3>1 DEF OnStack
    <3> QED BY <3>1, <3>2
  <2> QED BY <2>1, <2>2
<1>11. Blamed' /\ Accounted'
  BY <1>10, RestKeeps
<1>12. StateTyped'
  BY <1>5, <1>6 DEF IInv, StateTyped
<1> QED BY <1>5, <1>9, <1>11, <1>12, WaitsKept DEF IInv
-----------------------------------------------------------------------------
LEMMA EnterKeeps ==
  ASSUME IInv, program' = program, NEW c \in Classes, Enter(c),
         order' \in Seq(Classes), ToSet(order) \subseteq ToSet(order') \cup {c},
         stack # <<>> => /\ Top.next \in DOMAIN Parents(Top.class)
                         /\ Parents(Top.class)[Top.next] = c /\ order' = order
  PROVE  IInv'
<1>1. CASE c \in done /\ UNCHANGED <<loaded, done, stack, errors>>
  <2>1. Flattened'
    <3>1. \A d, x : Sound(d, x)' <=> Sound(d, x)
      BY SoundKept
    <3>2. \A d : AncestorsOf(d)' = AncestorsOf(d) /\ Own(d)' = Own(d)
      BY HierarchyKept
    <3> QED BY <1>1, <3>1, <3>2 DEF Flattened, IInv
  <2>2. Waiting'
    <3>1. Waits(stack', done')
      BY <1>1, WaitsNow
    <3> QED BY <3>1, WaitsKept
  <2>3. Blamed' /\ Accounted'
    <3>1. OnStack' = OnStack
      BY <1>1 DEF OnStack
    <3> QED BY <1>1, <3>1, RestKeeps
  <2>4. StateTyped'
    BY <1>1 DEF IInv, StateTyped
  <2> QED BY <2>1, <2>2, <2>3, <2>4 DEF IInv
<1>2. CASE c \notin done /\ c \in OnStack /\ Fail(Top.class, "cycle")
  <2>1. PICK k \in DOMAIN stack : c = stack[k].class
    BY <1>2 DEF OnStack
  <2>2. stack # <<>>
    BY <2>1
  <2>3. Top.class \in Classes /\ Top = stack[Len(stack)] /\ Len(stack) \in DOMAIN stack
        /\ (k = Len(stack) \/ Len(stack) > k)
    BY <2>1, <2>2, TopFacts, CallFacts
  <2>4. c \in AncestorsOf(Top.class)
    <3>1. c \in ParentsOf(Top.class)
      BY <2>2, <2>3, DeclaredFacts DEF IInv, StateTyped
    <3>2. c \in Up({Top.class})
      BY <2>3, <3>1, UpOne
    <3> QED BY <3>2, AncestorsClosed
  <2>5. Top.class \in AncestorsOf(Top.class)
    <3>1. CASE k = Len(stack)
      BY <3>1, <2>1, <2>3, <2>4
    <3>2. CASE Len(stack) > k
      <4>1. Top.class \in AncestorsOf(c)
        BY <3>2, <2>1, <2>3, Chain
      <4> QED BY <4>1, <2>4, AncestorsAbove
    <3> QED BY <3>1, <3>2, <2>3
  <2>6. Guilty(Top.class, "cycle")
    BY <2>5 DEF Guilty
  <2>7. "cycle" \in Faults \cup {"copy"}
    BY DEF Faults
  <2> QED BY <1>2, <2>2, <2>6, <2>7, FailKeeps
<1>3. CASE /\ c \notin done /\ c \notin OnStack /\ program[c].parents = <<>>
           /\ done' = done \cup {c} /\ UNCHANGED <<loaded, stack, errors>>
  BY <1>3, LeafKeeps
<1>4. CASE /\ c \notin done /\ c \notin OnStack /\ program[c].parents # <<>>
           /\ stack' = Append(stack, NewFrame(c)) /\ UNCHANGED <<loaded, done, errors>>
  BY <1>4, PushKeeps
<1> QED BY <1>1, <1>2, <1>3, <1>4 DEF Enter

LEMMA BeginKeeps == IInv /\ Begin => IInv'
<1> SUFFICES ASSUME IInv, Begin PROVE IInv'
  OBVIOUS
<1>1. /\ stack = <<>> /\ order # <<>> /\ order' = Tail(order) /\ Enter(Head(order)) /\ program' = program
  BY DEF Begin
<1>2. order \in Seq(Classes)
  BY DEF IInv, StateTyped
<1>3. Head(order) \in Classes /\ order' \in Seq(Classes)
  BY <1>1, <1>2, HeadTailProperties
<1>4. ToSet(order) \subseteq ToSet(order') \cup {Head(order)}
  <2>1. ASSUME NEW i \in DOMAIN order PROVE order[i] \in ToSet(order') \cup {Head(order)}
    <3>1. DOMAIN order = 1 .. Len(order) /\ Len(order) \in Nat
      BY <1>2, LenProperties
    <3>2. CASE i = 1
      BY <3>2, <1>2
    <3>3. CASE i # 1
      <4>1. i - 1 \in 1 .. Len(order) - 1
        BY <3>1, <3>3
      <4>2. Len(order') = Len(order) - 1 /\ \A j \in 1 .. Len(order') : order'[j] = order[j + 1]
        BY <1>1, <1>2, HeadTailProperties
      <4>3. DOMAIN order' = 1 .. Len(order')
        BY <1>3, LenProperties
      <4>4. i - 1 \in DOMAIN order' /\ order'[i - 1] = order[i]
        BY <3>1, <4>1, <4>2, <4>3
      <4> QED BY <4>4 DEF ToSet
    <3> QED BY <3>2, <3>3
  <2> QED BY <2>1 DEF ToSet
<1> QED BY <1>1, <1>3, <1>4, EnterKeeps

LEMMA DescendKeeps == IInv /\ Descend => IInv'
<1> SUFFICES ASSUME IInv, Descend PROVE IInv'
  OBVIOUS
<1>1. ParentsLeft /\ Parent \in Classes /\ Enter(Parent) /\ program' = program /\ order' = order
  BY DEF Descend
<1>2. Top.next \in DOMAIN Parents(Top.class) /\ Parents(Top.class)[Top.next] = Parent
  BY <1>1, ParentFacts
<1>3. order' \in Seq(Classes)
  BY <1>1 DEF IInv, StateTyped
<1> QED BY <1>1, <1>2, <1>3, EnterKeeps

LEMMA UnknownParentKeeps == IInv /\ UnknownParent => IInv'
<1> SUFFICES ASSUME IInv, UnknownParent PROVE IInv'
  OBVIOUS
<1>1. /\ ParentsLeft /\ Parent \notin Classes /\ Fail(Top.class, "unknown")
      /\ program' = program /\ order' = order
  BY DEF UnknownParent
<1>2. stack # <<>> /\ Parent \in ParentsOf(Top.class)
  BY <1>1, ParentFacts
<1>3. Guilty(Top.class, "unknown")
  BY <1>1, <1>2 DEF Guilty
<1>4. "unknown" \in Faults \cup {"copy"}
  BY DEF Faults
<1> QED BY <1>1, <1>2, <1>3, <1>4, FailKeeps

LEMMA JoinStepKeeps == IInv /\ Join => IInv'
<1> SUFFICES ASSUME IInv, Join PROVE IInv'
  OBVIOUS
<1>1. ParentsLeft /\ Parent \in done /\ program' = program /\ order' = order
  BY DEF Join
<1> DEFINE r == Refusal(Top.class, Parent)
<1>2. stack # <<>> /\ r \in Faults \cup {"copy", "none"} /\ (r \notin {"copy", "none"} => Guilty(Top.class, r))
  BY <1>1, ParentFacts, RefusalFacts
<1>3. CASE r # "none" /\ Fail(Top.class, r)
  <2>1. r \in Faults \cup {"copy"} /\ (r = "copy" \/ Guilty(Top.class, r))
    BY <1>2, <1>3
  <2> HIDE DEF r
  <2> QED BY <1>1, <1>2, <1>3, <2>1, FailKeeps
<1>4. CASE /\ r = "none" /\ stack' = Append(Front(stack), WithParent(Top, Parent))
           /\ UNCHANGED <<loaded, done, errors>>
  BY <1>1, <1>4, JoinKeeps
<1> QED BY <1>3, <1>4 DEF Join

LEMMA FinishStepKeeps == IInv /\ Finish => IInv'
<1> SUFFICES ASSUME IInv, Finish PROVE IInv'
  OBVIOUS
<1> DEFINE own == Own(Top.class)
           O == Overridden(Top.methods, own.methods)
           b == Breach(O, Top.required)
<1>1. stack # <<>> /\ ~ ParentsLeft /\ program' = program /\ order' = order
  BY DEF Finish
<1>2. \/ Clashes(Top.fields, own.fields) /\ Fail(Top.class, "field")
      \/ ~ Clashes(Top.fields, own.fields) /\ b # "none" /\ Fail(Top.class, b)
      \/ /\ ~ Clashes(Top.fields, own.fields) /\ b = "none"
         /\ loaded' = [loaded EXCEPT ![Top.class] =
                         [fields |-> Top.fields \o own.fields,
                          methods |-> O \o Copies(O, Top.ancestors), ancestors |-> Top.ancestors]]
         /\ done' = done \cup {Top.class} /\ stack' = Front(stack) /\ errors' = errors
  BY DEF Finish
<1>3. CASE Clashes(Top.fields, own.fields) /\ Fail(Top.class, "field")
  <2>1. Guilty(Top.class, "field")
    BY <1>1, <1>3, FieldFault
  <2>2. "field" \in Faults \cup {"copy"}
    BY DEF Faults
  <2> QED BY <1>1, <1>3, <2>1, <2>2, FailKeeps
<1>4. CASE b # "none" /\ Fail(Top.class, b)
  <2>1. b \in {"none", "copy", "missing", "signature"} /\ (b \in {"missing", "signature"} => Guilty(Top.class, b))
    BY <1>1, DutyFault
  <2>2. b \in Faults \cup {"copy"} /\ (b = "copy" \/ Guilty(Top.class, b))
    <3> HIDE DEF b
    <3> QED BY <1>4, <2>1 DEF Faults
  <2> HIDE DEF b
  <2> QED BY <1>1, <1>4, <2>2, FailKeeps
<1>5. CASE /\ ~ Clashes(Top.fields, own.fields) /\ b = "none"
           /\ loaded' = [loaded EXCEPT ![Top.class] =
                           [fields |-> Top.fields \o own.fields,
                            methods |-> O \o Copies(O, Top.ancestors), ancestors |-> Top.ancestors]]
           /\ done' = done \cup {Top.class} /\ stack' = Front(stack) /\ errors' = errors
  BY <1>1, <1>5, FinishKeeps
<1> QED BY <1>2, <1>3, <1>4, <1>5

LEMMA StandsStill ==
  ASSUME IInv, vars' = vars
  PROVE  IInv'
<1>1. /\ program' = program /\ order' = order /\ loaded' = loaded /\ done' = done
      /\ stack' = stack /\ errors' = errors
  BY DEF vars
<1>2. Flattened'
  <2>1. \A d, x : Sound(d, x)' <=> Sound(d, x)
    BY <1>1, SoundKept
  <2>2. \A d : AncestorsOf(d)' = AncestorsOf(d) /\ Own(d)' = Own(d)
    BY <1>1, HierarchyKept
  <2> QED BY <1>1, <2>1, <2>2 DEF Flattened, IInv
<1>3. Waiting'
  <2>1. Waits(stack', done')
    BY <1>1, WaitsNow
  <2> QED BY <1>1, <2>1, WaitsKept
<1>4. Blamed' /\ Accounted'
  <2>1. OnStack' = OnStack
    BY <1>1 DEF OnStack
  <2> QED BY <1>1, <2>1, RestKeeps
<1>5. StateTyped'
  BY <1>1 DEF IInv, StateTyped
<1> QED BY <1>2, <1>3, <1>4, <1>5 DEF IInv

LEMMA StartsRight == Init => IInv
<1> SUFFICES ASSUME Init PROVE IInv
  OBVIOUS
<1>1. /\ program \in Programs /\ order \in Orders /\ loaded = [c \in Classes |-> Own(c)]
      /\ done = {} /\ stack = <<>> /\ errors = {}
  BY DEF Init
<1>2. order \in Seq(Classes) /\ ToSet(order) = Classes
  BY <1>1, ProgramsAssumption
<1>3. ASSUME NEW c \in Classes PROVE Own(c) \in Entry
  <2>1. /\ Own(c).fields \in Seq(FieldEntry) /\ Own(c).methods \in Seq(MethodEntry)
        /\ Own(c) = [fields |-> Own(c).fields, methods |-> Own(c).methods, ancestors |-> {}]
    BY <1>1, OwnFacts
  <2> QED BY <2>1 DEF Entry
<1>4. DOMAIN stack = {} /\ stack \in Seq(Frame)
  BY <1>1, EmptySeq
<1>5. StateTyped
  BY <1>1, <1>2, <1>3, <1>4 DEF StateTyped
<1>6. Flattened
  BY <1>1 DEF Flattened
<1>7. Waiting
  BY <1>4 DEF Waiting
<1>8. Blamed /\ Accounted
  BY <1>1, <1>2 DEF Blamed, Accounted
<1> QED BY <1>5, <1>6, <1>7, <1>8 DEF IInv

LEMMA StepsRight == IInv /\ [Next]_vars => IInv'
<1> SUFFICES ASSUME IInv, [Next]_vars PROVE IInv'
  OBVIOUS
<1>1. CASE Begin
  BY <1>1, BeginKeeps
<1>2. CASE Descend
  BY <1>2, DescendKeeps
<1>3. CASE UnknownParent
  BY <1>3, UnknownParentKeeps
<1>4. CASE Join
  BY <1>4, JoinStepKeeps
<1>5. CASE Finish
  BY <1>5, FinishStepKeeps
<1>6. CASE Stop
  BY <1>6, StandsStill DEF Stop
<1>7. CASE UNCHANGED vars
  BY <1>7, StandsStill
<1> QED BY <1>1, <1>2, <1>3, <1>4, <1>5, <1>6, <1>7 DEF Next

LEMMA AlwaysRight == Spec => []IInv
BY StartsRight, StepsRight, PTL DEF Spec
-----------------------------------------------------------------------------
(* No class is under way twice.                                               *)
LEMMA StackCount == IInv => Cardinality(OnStack) = Len(stack)
<1> SUFFICES ASSUME IInv PROVE Cardinality(OnStack) = Len(stack)
  OBVIOUS
<1> DEFINE n == Len(stack)
           f == [i \in 1 .. n |-> stack[i].class]
<1>1. DOMAIN stack = 1 .. n /\ n \in Nat
  BY LenProperties DEF IInv, StateTyped
<1>2. OnStack = {stack[i].class : i \in 1 .. n}
  BY <1>1 DEF OnStack
<1>3. \A i, j \in 1 .. n : stack[i].class = stack[j].class => i = j
  BY <1>1 DEF IInv, Waiting
<1> HIDE DEF n
<1>4. f \in Bijection(1 .. n, OnStack)
  <2>1. f \in [1 .. n -> OnStack]
    BY <1>2
  <2>2. f \in Injection(1 .. n, OnStack)
    BY <2>1, <1>3 DEF Injection, IsInjective
  <2>3. f \in Surjection(1 .. n, OnStack)
    BY <2>1, <1>2 DEF Surjection
  <2> QED BY <2>2, <2>3 DEF Bijection
<1>5. IsFiniteSet(1 .. n) /\ Cardinality(1 .. n) = n
  <2>1. 1 \in Int /\ n \in Int
    BY <1>1
  <2>2. IsFiniteSet(1 .. n) /\ Cardinality(1 .. n) = IF 1 > n THEN 0 ELSE n - 1 + 1
    BY <2>1, FS_Interval
  <2> QED BY <1>1, <2>2
<1>6. Cardinality(OnStack) = n
  <2> HIDE DEF f
  <2> QED BY <1>4, <1>5, FS_Bijection DEF ExistsBijection
<1> QED BY <1>6 DEF n

LEMMA TypesFollow == IInv => TypeOK
<1> SUFFICES ASSUME IInv PROVE TypeOK
  OBVIOUS
<1>1. done \subseteq Classes
  BY DEF IInv, StateTyped
<1>2. ASSUME NEW c \in Classes
      PROVE  /\ \A f \in ToSet(loaded[c].fields) : f.of \in Classes
             /\ \A m \in ToSet(loaded[c].methods) : m.name \in Names /\ m.body \in Classes
             /\ loaded[c].ancestors \subseteq Classes
  <2>1. /\ loaded[c].fields \in Seq(FieldEntry) /\ loaded[c].methods \in Seq(MethodEntry)
        /\ loaded[c].ancestors \subseteq Classes
    <3>1. loaded[c] \in Entry
      BY DEF IInv, StateTyped
    <3> QED BY <3>1 DEF Entry
  <2>2. ASSUME NEW f \in ToSet(loaded[c].fields) PROVE f.of \in Classes
    <3>1. f \in FieldEntry
      BY <2>1, ListEntries
    <3> QED BY <3>1 DEF FieldEntry
  <2>3. ASSUME NEW m \in ToSet(loaded[c].methods) PROVE m.name \in Names /\ m.body \in Classes
    <3>1. m \in MethodEntry
      BY <2>1, ListEntries
    <3> QED BY <3>1, EntryFacts
  <2> QED BY <2>1, <2>2, <2>3
<1>3. \A i \in DOMAIN stack : stack[i].class \notin done
  BY CallFacts
<1>4. \A e \in errors : e.class \in Classes /\ e.why \in Faults \cup {"copy"}
  BY DEF IInv, StateTyped
<1> QED BY <1>1, <1>2, <1>3, <1>4, StackCount DEF TypeOK

LEMMA MembersFollow == IInv => InheritsMembers
<1> SUFFICES ASSUME IInv PROVE InheritsMembers
  OBVIOUS
<1>1. ASSUME NEW c \in done
      PROVE  /\ loaded[c].methods \in Seq(MethodEntry) /\ loaded[c].fields = AllFields(c)
             /\ TrueCopies(loaded[c].methods)
             /\ \A m \in Methods : PlainIn(loaded[c].methods, m) = Versions(c, m)
             /\ \A a \in AncestorsOf(c), m \in Methods \ {New} :
                  Version(a, m) # None => \E e \in ToSet(loaded[c].methods) : e.name = Qualified(a, m)
  BY DoneFacts DEF Sound, Entry
<1>2. InheritsFields
  BY <1>1 DEF InheritsFields
<1>3. ASSUME NEW c \in done, NEW m \in Methods
      PROVE  IF Version(c, m) = None THEN ~ Has(loaded[c].methods, Plain(m))
             ELSE Has(loaded[c].methods, Plain(m)) /\ Lookup(c, Plain(m)).body = Version(c, m)
  <2> DEFINE list == loaded[c].methods
  <2>1. list \in Seq(MethodEntry) /\ PlainIn(list, m) = Versions(c, m)
    BY <1>1
  <2>2. Has(list, Plain(m)) <=> Version(c, m) # None
    BY <2>1, HasPlain, VersionSome
  <2>3. ASSUME Has(list, Plain(m)) PROVE Lookup(c, Plain(m)).body = Version(c, m)
    <3> DEFINE e == Lookup(c, Plain(m))
    <3>1. e = list[Named(list, Plain(m))]
      BY DEF Lookup
    <3>2. e \in ToSet(list) /\ e.name = Plain(m)
      BY <2>1, <2>3, <3>1, HasNamed
    <3>3. e \in Versions(c, m)
      BY <2>1, <3>2 DEF PlainIn
    <3> QED BY <3>3 DEF Versions, VersionEntry
  <2> QED BY <2>2, <2>3
<1>4. ASSUME NEW c \in done, NEW m \in Methods \ {New}, NEW a \in AncestorsOf(c), Version(a, m) # None
      PROVE  Has(loaded[c].methods, Qualified(a, m)) /\ Lookup(c, Qualified(a, m)).body = Version(a, m)
  <2> DEFINE list == loaded[c].methods
             e == Lookup(c, Qualified(a, m))
  <2>1. list \in Seq(MethodEntry) /\ TrueCopies(list)
    BY <1>1
  <2>2. Has(list, Qualified(a, m))
    <3>1. \E d \in ToSet(list) : d.name = Qualified(a, m)
      BY <1>1, <1>4
    <3> QED BY <2>1, <3>1, HasNamed
  <2>3. e = list[Named(list, Qualified(a, m))]
    BY DEF Lookup
  <2>4. e \in ToSet(list) /\ e.name = Qualified(a, m)
    BY <2>1, <2>2, <2>3, HasNamed
  <2>5. a \in Classes /\ Qualified(a, m)[1] = a /\ Qualified(a, m)[2] = m
    BY AncestorsAbove, NameFacts
  <2> HIDE DEF e
  <2>6. e.body = Version(a, m)
    BY <2>1, <2>4, <2>5 DEF TrueCopies
  <2> QED BY <2>2, <2>6 DEF e
<1>5. InheritsMethods
  BY <1>3 DEF InheritsMethods
<1>6. ReachesAncestors
  BY <1>4 DEF ReachesAncestors
<1> QED BY <1>2, <1>5, <1>6 DEF InheritsMembers

LEMMA FaultsFollow == IInv => FaultsAreReported
<1> SUFFICES ASSUME IInv PROVE FaultsAreReported
  OBVIOUS
<1>1. BlamesFaults
  <2>1. \A c \in done : AncestorsOf(c) \subseteq done /\ \A why \in Faults : ~ Guilty(c, why)
    BY DoneFacts DEF Sound
  <2> QED BY <2>1 DEF BlamesFaults, IInv, Blamed
<1>2. NothingForgotten
  <2> SUFFICES ASSUME Finished, NEW c \in Classes \ done
               PROVE  \E e \in errors : e.class \in {c} \cup AncestorsOf(c)
    BY DEF NothingForgotten
  <2>1. OnStack = {} /\ ToSet(order) = {}
    BY DEF Finished, OnStack, ToSet
  <2>2. \/ c \in done \cup OnStack \cup ToSet(order)
        \/ \E e \in errors : e.class \in Lineage(c)
    BY DEF IInv, Accounted
  <2> QED BY <2>1, <2>2 DEF Lineage
<1> QED BY <1>1, <1>2 DEF FaultsAreReported

(* flatten_class keeps lists of members of classes and methods of the program,   *)
(* and no class is under way twice or after it is flattened.                   *)
THEOREM TypeCorrect == Spec => []TypeOK
BY AlwaysRight, TypesFollow, PTL

(* A flattened class has the fields of its bases and its own, in that order;      *)
(* by a written name it finds its own version or the one it inherits, and by a     *)
(* qualified one its ancestor's: for every program and order of the classes.    *)
THEOREM MembersInherited == Spec => []InheritsMembers
BY AlwaysRight, MembersFollow, PTL

(* A class is flattened only if it and its ancestors are without fault, whoever   *)
(* is blamed, but for a clash of copies, is at fault, and no class is forgotten. *)
THEOREM FaultsReported == Spec => []FaultsAreReported
BY AlwaysRight, FaultsFollow, PTL
=============================================================================
