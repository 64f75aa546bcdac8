-------------------------- MODULE ModuleLoaderProofs --------------------------
(***************************************************************************)
(* Theorems about ModuleLoader, for every library, file system and main file.  *)
(*                                                                         *)
(* At any moment every import the files lead to has been followed, is on the   *)
(* stack, or is led to by one that is; what following an import leaves behind  *)
(* is never taken back; and nothing is asked, read, brought or reported that   *)
(* no import calls for.  With the stack empty the imports that were followed   *)
(* are closed, so they are all there are.                                    *)
(***************************************************************************)
EXTENDS ModuleLoader, SequenceTheorems, FiniteSetTheorems, WellFoundedInduction, TLAPS

(* Every nonempty set of natural numbers has a least element.  A fact about a   *)
(* recursive function is proved from it for every argument: the least argument   *)
(* that fails would have a smaller one that fails.                           *)
LEMMA LeastNatural ==
  ASSUME NEW S \in SUBSET Nat, S # {}
  PROVE  \E n \in S : \A k \in S : n <= k
<1> DEFINE R == OpToRel(<, Nat)
<1>1. IsWellFoundedOn(R, Nat)
  BY NatLessThanWellFounded
<1>2. ASSUME NEW k \in Nat, NEW n \in Nat, k < n
      PROVE  <<k, n>> \in R
  BY <1>2 DEF OpToRel
<1> HIDE DEF R
<1>3. PICK n \in S : \A k \in S : ~ (<<k, n>> \in R)
  BY <1>1, WFMin
<1>4. ASSUME NEW k \in S
      PROVE  n <= k
  <2>1. k \in Nat /\ n \in Nat
    OBVIOUS
  <2>2. ~ (k < n)
    BY <1>2, <1>3, <2>1
  <2> QED BY <2>1, <2>2
<1> QED BY <1>4

(* A nonempty set of natural numbers with an upper bound has a greatest one.     *)
LEMMA GreatestNatural ==
  ASSUME NEW S \in SUBSET Nat, S # {}, NEW b \in Nat, \A k \in S : k <= b
  PROVE  \E n \in S : \A k \in S : k <= n
<1> DEFINE D == {d \in Nat : \E k \in S : d = b - k}
<1>1. D \in SUBSET Nat /\ D # {}
  <2>1. PICK k \in S : TRUE
    OBVIOUS
  <2>2. b - k \in D
    BY <2>1
  <2> QED BY <2>2
<1>2. PICK d \in D : \A e \in D : d <= e
  <2> HIDE DEF D
  <2> QED BY <1>1, LeastNatural
<1>3. PICK n \in S : d = b - n
  BY <1>2
<1>4. ASSUME NEW k \in S
      PROVE  k <= n
  <2>1. b - k \in D
    OBVIOUS
  <2> QED BY <1>2, <1>3, <2>1
<1> QED BY <1>4

(***************************************************************************)
(* The declarations at some positions.                                       *)
(***************************************************************************)

Upto(P, i) == {j \in P : j <= i}

LEMMA UptoFinite ==
  ASSUME NEW P \in SUBSET Nat, IsFiniteSet(P), NEW i
  PROVE  IsFiniteSet(Upto(P, i)) /\ Cardinality(Upto(P, i)) \in Nat
                                 /\ Cardinality(Upto(P, i)) <= Cardinality(P)
<1>1. Upto(P, i) \in SUBSET P
  BY DEF Upto
<1> QED BY <1>1, FS_Subset, FS_CardinalityType

LEMMA UptoNext ==
  ASSUME NEW P \in SUBSET Nat, IsFiniteSet(P), NEW i \in Nat, i # 0
  PROVE  Cardinality(Upto(P, i))
           = IF i \in P THEN Cardinality(Upto(P, i - 1)) + 1 ELSE Cardinality(Upto(P, i - 1))
<1>0. \A j \in P : j \in Nat /\ (j <= i <=> j <= i - 1 \/ j = i)
  OBVIOUS
<1>1. IsFiniteSet(Upto(P, i - 1)) /\ i \notin Upto(P, i - 1)
  <2>1. ~ (i <= i - 1)
    OBVIOUS
  <2> QED BY <2>1, UptoFinite DEF Upto
<1>2. CASE i \in P
  <2>1. Upto(P, i) = Upto(P, i - 1) \cup {i}
    BY <1>0, <1>2 DEF Upto
  <2> QED BY <2>1, <1>1, <1>2, FS_AddElement
<1>3. CASE i \notin P
  <2>1. Upto(P, i) = Upto(P, i - 1)
    BY <1>0, <1>3 DEF Upto
  <2> QED BY <2>1, <1>3
<1> QED BY <1>2, <1>3

LEMMA UptoGrows ==
  ASSUME NEW P \in SUBSET Nat, IsFiniteSet(P), NEW i \in P, NEW j \in P, i < j
  PROVE  Cardinality(Upto(P, i)) < Cardinality(Upto(P, j))
<1>1. Upto(P, i) \cup {j} \in SUBSET Upto(P, j)
  <2>1. \A k \in P : k \in Nat /\ (k <= i => k <= j)
    OBVIOUS
  <2>2. j <= j
    OBVIOUS
  <2> QED BY <2>1, <2>2 DEF Upto
<1>2. IsFiniteSet(Upto(P, i)) /\ Cardinality(Upto(P, i)) \in Nat /\ j \notin Upto(P, i)
  BY UptoFinite DEF Upto
<1>3. Cardinality(Upto(P, i) \cup {j}) = Cardinality(Upto(P, i)) + 1
  BY <1>2, FS_AddElement
<1>4. IsFiniteSet(Upto(P, j)) /\ Cardinality(Upto(P, j)) \in Nat
  BY UptoFinite
<1>5. Cardinality(Upto(P, i) \cup {j}) <= Cardinality(Upto(P, j))
  BY <1>1, <1>4, FS_Subset
<1> QED BY <1>2, <1>3, <1>4, <1>5

LEMMA UptoReaches ==
  ASSUME NEW b \in Nat, NEW P \in SUBSET (1 .. b), NEW k \in 1 .. Cardinality(P)
  PROVE  \E i \in P : Cardinality(Upto(P, i)) = k
<1>1. IsFiniteSet(P) /\ P \in SUBSET Nat /\ Cardinality(P) \in Nat
  <2>1. P \in SUBSET Nat /\ \A x \in P : x <= b
    OBVIOUS
  <2> QED BY <2>1, FS_BoundedSetOfNaturals, FS_CardinalityType
<1> DEFINE Q == {n \in Nat : Cardinality(Upto(P, n)) >= k}
<1>2. b \in Q
  <2>1. Upto(P, b) = P
    <3>1. \A j \in P : j <= b
      OBVIOUS
    <3> QED BY <3>1 DEF Upto
  <2> QED BY <2>1, <1>1
<1>3. PICK n \in Q : \A m \in Q : n <= m
  <2>1. Q \in SUBSET Nat /\ Q # {}
    BY <1>2
  <2> HIDE DEF Q
  <2> QED BY <2>1, LeastNatural
<1>4. n \in Nat /\ Cardinality(Upto(P, n)) >= k
  OBVIOUS
<1>5. n # 0
  <2> SUFFICES ASSUME n = 0 PROVE FALSE
    OBVIOUS
  <2>1. Upto(P, 0) = {}
    <3>1. \A j \in P : ~ (j <= 0)
      OBVIOUS
    <3> QED BY <3>1 DEF Upto
  <2> QED BY <2>1, <1>4, FS_EmptySet
<1>6. n - 1 \notin Q
  <2>1. ~ (n <= n - 1)
    BY <1>4
  <2> HIDE DEF Q
  <2> QED BY <2>1, <1>3
<1>7. Cardinality(Upto(P, n - 1)) < k
  <2>1. n - 1 \in Nat
    BY <1>4, <1>5
  <2>2. Cardinality(Upto(P, n - 1)) \in Nat
    BY <1>1, UptoFinite
  <2> QED BY <2>1, <2>2, <1>6
<1>8. Cardinality(Upto(P, n))
        = IF n \in P THEN Cardinality(Upto(P, n - 1)) + 1 ELSE Cardinality(Upto(P, n - 1))
  BY <1>1, <1>4, <1>5, UptoNext
<1>9. Cardinality(Upto(P, n)) \in Nat /\ Cardinality(Upto(P, n - 1)) \in Nat
  BY <1>1, UptoFinite
<1> QED BY <1>4, <1>7, <1>8, <1>9

(* At lists the declarations at the positions in their order: there is an    *)
(* enumeration of the positions by which it does.                            *)
Lists(f, P) ==
  /\ f \in [1 .. Cardinality(P) -> P]
  /\ \A i \in P : \E k \in 1 .. Cardinality(P) : f[k] = i
  /\ \A k, l \in 1 .. Cardinality(P) : k < l => f[k] < f[l]

LEMMA AtLists ==
  ASSUME NEW S, NEW ds \in Seq(S), NEW P \in SUBSET (DOMAIN ds)
  PROVE  /\ Cardinality(P) \in Nat
         /\ \E f : Lists(f, P) /\ At(ds, P) = [k \in 1 .. Cardinality(P) |-> ds[f[k]]]
<1>1. Len(ds) \in Nat /\ P \in SUBSET (1 .. Len(ds)) /\ P \in SUBSET Nat
  OBVIOUS
<1>2. IsFiniteSet(P) /\ Cardinality(P) \in Nat
  <2>1. \A x \in P : x <= Len(ds)
    OBVIOUS
  <2> QED BY <1>1, <2>1, FS_BoundedSetOfNaturals, FS_CardinalityType
<1> DEFINE N == Cardinality(P)
           f == [k \in 1 .. N |-> CHOOSE i \in P : Cardinality(Upto(P, i)) = k]
<1>3. ASSUME NEW k \in 1 .. N
      PROVE  f[k] \in P /\ Cardinality(Upto(P, f[k])) = k
  <2>1. \E i \in P : Cardinality(Upto(P, i)) = k
    BY <1>1, UptoReaches
  <2> QED BY <2>1
<1>4. At(ds, P) = [k \in 1 .. N |-> ds[f[k]]]
  BY DEF At, Upto
<1> HIDE DEF f
<1>5. f \in [1 .. N -> P]
  <2>1. f = [k \in 1 .. N |-> f[k]]
    BY DEF f
  <2> QED BY <2>1, <1>3
<1>6. ASSUME NEW i \in P, NEW j \in P, Cardinality(Upto(P, i)) = Cardinality(Upto(P, j))
      PROVE  i = j
  <2>1. CASE i < j
    BY <2>1, <1>1, <1>2, <1>6, UptoGrows, UptoFinite
  <2>2. CASE j < i
    BY <2>2, <1>1, <1>2, <1>6, UptoGrows, UptoFinite
  <2> QED BY <2>1, <2>2, <1>1
<1>7. ASSUME NEW i \in P PROVE \E k \in 1 .. N : f[k] = i
  <2>1. Cardinality(Upto(P, i)) \in Nat /\ Cardinality(Upto(P, i)) <= N
    BY <1>1, <1>2, UptoFinite
  <2>2. Cardinality(Upto(P, i)) # 0
    <3>1. i \in Upto(P, i)
      BY <1>1 DEF Upto
    <3> QED BY <3>1, <1>1, <1>2, UptoFinite, FS_EmptySet
  <2>3. Cardinality(Upto(P, i)) \in 1 .. N
    BY <2>1, <2>2, <1>2
  <2> QED BY <2>3, <1>3, <1>6
<1>8. ASSUME NEW k \in 1 .. N, NEW l \in 1 .. N, k < l PROVE f[k] < f[l]
  <2>1. f[k] \in Nat /\ f[l] \in Nat /\ f[k] \in P /\ f[l] \in P
    BY <1>1, <1>3
  <2>2. f[k] # f[l]
    BY <1>3, <1>8
  <2>3. CASE f[l] < f[k]
    <3>1. Cardinality(Upto(P, f[l])) < Cardinality(Upto(P, f[k]))
      BY <2>1, <2>3, <1>1, <1>2, UptoGrows
    <3> QED BY <3>1, <1>3, <1>8
  <2> QED BY <2>1, <2>2, <2>3
<1> QED BY <1>2, <1>4, <1>5, <1>7, <1>8 DEF Lists

(* So it is a sequence, and its members are the declarations there.          *)
LEMMA AtMembers ==
  ASSUME NEW S, NEW ds \in Seq(S), NEW P \in SUBSET (DOMAIN ds)
  PROVE  /\ At(ds, P) \in Seq(S)
         /\ ToSet(At(ds, P)) = {ds[i] : i \in P}
<1>1. PICK f : Lists(f, P) /\ At(ds, P) = [k \in 1 .. Cardinality(P) |-> ds[f[k]]]
  BY AtLists
<1>2. Cardinality(P) \in Nat
  BY AtLists
<1>3. \A k \in 1 .. Cardinality(P) : ds[f[k]] \in S
  BY <1>1 DEF Lists
<1>4. At(ds, P) \in Seq(S) /\ DOMAIN At(ds, P) = 1 .. Cardinality(P)
  BY <1>1, <1>2, <1>3
<1>5. \A k \in 1 .. Cardinality(P) : At(ds, P)[k] \in {ds[i] : i \in P}
  BY <1>1 DEF Lists
<1>6. \A i \in P : \E k \in 1 .. Cardinality(P) : At(ds, P)[k] = ds[i]
  BY <1>1 DEF Lists
<1> QED BY <1>4, <1>5, <1>6 DEF ToSet

-----------------------------------------------------------------------------
(***************************************************************************)
(* The tables.                                                               *)
(***************************************************************************)

LEMMA LastNamedAt ==
  ASSUME NEW ds \in Seq(Declaration), NEW P \in SUBSET (DOMAIN ds), NEW i \in P,
         \A j \in P : j > i => ds[j].name # ds[i].name
  PROVE  LastNamed(At(ds, P), ds[i].name) = ds[i]
<1>1. PICK f : Lists(f, P) /\ At(ds, P) = [k \in 1 .. Cardinality(P) |-> ds[f[k]]]
  BY AtLists
<1>2. Cardinality(P) \in Nat
  BY AtLists
<1>3. PICK k \in 1 .. Cardinality(P) : f[k] = i
  BY <1>1 DEF Lists
<1> DEFINE T == {l \in DOMAIN At(ds, P) : At(ds, P)[l].name = ds[i].name}
<1>4. k \in T /\ At(ds, P)[k] = ds[i]
  BY <1>1, <1>3
<1>5. ASSUME NEW l \in T PROVE l <= k
  <2> SUFFICES ASSUME k < l PROVE FALSE
    BY <1>1, <1>2
  <2>1. l \in 1 .. Cardinality(P) /\ ds[f[l]].name = ds[i].name
    BY <1>1
  <2>2. f[l] \in P /\ f[k] < f[l]
    BY <1>1, <2>1 DEF Lists
  <2>3. f[l] > i
    BY <1>3, <2>2
  <2> QED BY <2>1, <2>2, <2>3
<1>6. \A x \in T : x \in Int
  BY <1>1, <1>2
<1> HIDE DEF T
<1>7. Max(T) = k
  <2>1. k \in T /\ k \in Int /\ \A y \in T : k >= y
    BY <1>4, <1>5, <1>6
  <2>2. \A x \in T : (\A y \in T : x >= y) => x = k
    BY <2>1, <1>6
  <2> QED BY <2>1, <2>2 DEF Max
<1> QED BY <1>4, <1>7 DEF LastNamed, T

(* The declarations of a second list follow those of a first.                *)
LEMMA Appending ==
  ASSUME NEW S, NEW old \in Seq(S), NEW new \in Seq(S)
  PROVE  /\ old \o new \in Seq(S) /\ Len(old \o new) = Len(old) + Len(new)
         /\ DOMAIN (old \o new) = DOMAIN old \cup {Len(old) + i : i \in DOMAIN new}
         /\ \A i \in DOMAIN old : (old \o new)[i] = old[i] /\ i \in 1 .. Len(old)
         /\ \A i \in DOMAIN new : (old \o new)[Len(old) + i] = new[i] /\ i \in 1 .. Len(new)
<1>1. Len(old) \in Nat /\ Len(new) \in Nat
  OBVIOUS
<1>2. old \o new \in Seq(S) /\ Len(old \o new) = Len(old) + Len(new)
  OBVIOUS
<1>3. DOMAIN (old \o new) = 1 .. Len(old) + Len(new)
  BY <1>1, <1>2
<1>4. \A i \in 1 .. Len(old) + Len(new) :
         i \in 1 .. Len(old) \/ (i - Len(old) \in 1 .. Len(new) /\ i = Len(old) + (i - Len(old)))
  BY <1>1
<1>5. \A i \in 1 .. Len(new) : Len(old) + i \in 1 .. Len(old) + Len(new)
  BY <1>1
<1>6. \A i \in 1 .. Len(old) : i \in 1 .. Len(old) + Len(new)
  BY <1>1
<1>7. DOMAIN (old \o new) = DOMAIN old \cup {Len(old) + i : i \in DOMAIN new}
  <2>1. DOMAIN old = 1 .. Len(old) /\ DOMAIN new = 1 .. Len(new)
    OBVIOUS
  <2>2. PICK n, k : n = Len(old) /\ k = Len(new)
    OBVIOUS
  <2>3. 1 .. n + k = 1 .. n \cup {n + i : i \in 1 .. k}
    BY <1>4, <1>5, <1>6, <2>2
  <2> QED BY <1>3, <2>1, <2>2, <2>3
<1> QED BY <1>1, <1>2, <1>7

LEMMA RegisterKeepsCurrent ==
  ASSUME NEW old \in Seq(Declaration), NEW new \in Seq(Declaration), NEW table,
         NEW O \in SUBSET (DOMAIN old), NEW P \in SUBSET (DOMAIN new),
         Current(table, old, O)
  PROVE  Current(Register(table, At(new, P)), old \o new, O \cup {Len(old) + i : i \in P})
<1> DEFINE ds    == old \o new
           later == {Len(old) + i : i \in P}
           names == {new[i].name : i \in P}
           t     == Register(table, At(new, P))
<1>1. \A i \in O : ds[i] = old[i] /\ i \in Nat /\ i <= Len(old)
  BY Appending
<1>2. \A i \in P : ds[Len(old) + i] = new[i] /\ i \in Nat /\ i > 0
  BY Appending
<1>3. Len(old) \in Nat
  OBVIOUS
<1>4. {d.name : d \in ToSet(At(new, P))} = names
  BY AtMembers
<1>5. DOMAIN t = DOMAIN table \cup names
  BY <1>4 DEF Register
<1>6. DOMAIN t = {ds[i].name : i \in O \cup later}
  <2>1. DOMAIN table = {old[i].name : i \in O}
    BY DEF Current
  <2>2. {ds[i].name : i \in O} = {old[i].name : i \in O}
    BY <1>1
  <2>3. {ds[i].name : i \in later} = names
    BY <1>2
  <2> QED BY <1>5, <2>1, <2>2, <2>3
<1>7. \A n \in DOMAIN table \ names : t[n] = table[n]
  BY <1>4, <1>5 DEF Register
<1>8. \A n \in names : t[n] = LastNamed(At(new, P), n)
  BY <1>4, <1>5 DEF Register
<1> HIDE DEF t, ds
<1>9. ASSUME NEW i \in O
      PROVE  \/ t[ds[i].name] = ds[i]
             \/ \E j \in O \cup later : j > i /\ ds[j].name = ds[i].name
  <2>1. CASE \E j \in P : new[j].name = ds[i].name
    <3>1. PICK j \in P : new[j].name = ds[i].name
      BY <2>1
    <3>2. Len(old) + j \in later /\ Len(old) + j > i /\ ds[Len(old) + j].name = ds[i].name
      BY <1>1, <1>2, <1>3, <3>1
    <3> QED BY <3>2
  <2>2. CASE ~ \E j \in P : new[j].name = ds[i].name
    <3>1. ds[i].name \in DOMAIN table \ names
      BY <1>1, <2>2 DEF Current
    <3>2. t[ds[i].name] = table[old[i].name] /\ ds[i] = old[i]
      BY <1>1, <1>7, <3>1
    <3>3. \/ table[old[i].name] = old[i]
          \/ \E j \in O : j > i /\ old[j].name = old[i].name
      BY DEF Current
    <3> QED BY <1>1, <3>2, <3>3
  <2> QED BY <2>1, <2>2
<1>10. ASSUME NEW k \in later
       PROVE  \/ t[ds[k].name] = ds[k]
              \/ \E j \in O \cup later : j > k /\ ds[j].name = ds[k].name
  <2>1. PICK i \in P : k = Len(old) + i
    OBVIOUS
  <2>2. ds[k] = new[i]
    BY <1>2, <2>1
  <2>3. CASE \E j \in P : j > i /\ new[j].name = new[i].name
    <3>1. PICK j \in P : j > i /\ new[j].name = new[i].name
      BY <2>3
    <3>2. Len(old) + j \in later /\ Len(old) + j > k /\ ds[Len(old) + j].name = ds[k].name
      BY <1>2, <1>3, <2>1, <2>2, <3>1
    <3> QED BY <3>2
  <2>4. CASE ~ \E j \in P : j > i /\ new[j].name = new[i].name
    <3>1. LastNamed(At(new, P), new[i].name) = new[i]
      BY <2>4, LastNamedAt
    <3> QED BY <1>8, <2>2, <3>1
  <2> QED BY <2>3, <2>4
<1> QED BY <1>6, <1>9, <1>10 DEF Current, t, ds

(* What a current table has for a name is one of the declarations.           *)
LEMMA CurrentValue ==
  ASSUME NEW ds \in Seq(Declaration), NEW table, NEW P \in SUBSET (DOMAIN ds),
         Current(table, ds, P), NEW n \in DOMAIN table
  PROVE  \E i \in P : ds[i].name = n /\ table[n] = ds[i]
<1> DEFINE Q == {i \in P : ds[i].name = n}
<1>1. Q \in SUBSET Nat /\ Q # {} /\ \A i \in Q : i <= Len(ds)
  BY DEF Current
<1>2. Len(ds) \in Nat
  OBVIOUS
<1> HIDE DEF Q
<1>3. PICK i \in Q : \A j \in Q : j <= i
  BY <1>1, <1>2, GreatestNatural
<1>4. i \in P /\ ds[i].name = n /\ i \in Nat
  BY <1>1 DEF Q
<1>5. ASSUME NEW j \in P, j > i, ds[j].name = ds[i].name PROVE FALSE
  <2>1. j \in Q
    BY <1>4, <1>5 DEF Q
  <2>2. j <= i /\ j \in Nat
    BY <1>1, <1>3, <2>1
  <2> QED BY <2>2, <1>4, <1>5
<1>6. table[ds[i].name] = ds[i]
  BY <1>4, <1>5 DEF Current
<1> QED BY <1>4, <1>6
-----------------------------------------------------------------------------
(***************************************************************************)
(* What links lead to.  In a finite set, as many steps as it has members     *)
(* reach all there is to reach.                                              *)
(***************************************************************************)

LEMMA SpreadType ==
  ASSUME NEW S, NEW links \in [S -> SUBSET S], NEW X \in SUBSET S
  PROVE  Spread(links, X) \in SUBSET S /\ X \in SUBSET Spread(links, X)
<1>1. \A x \in X : links[x] \in SUBSET S
  OBVIOUS
<1> QED BY <1>1 DEF Spread

(* The sets reached, step by step.                                           *)
StepByStep(F, S, links, start, steps) ==
  /\ F \in [0 .. steps -> SUBSET S]
  /\ F[0] = start
  /\ \A n \in 1 .. steps : F[n] = Spread(links, F[n - 1])

LEMMA OneMore ==
  ASSUME NEW X, IsFiniteSet(X), NEW y, y \notin X
  PROVE  Cardinality(X \cup {y}) = Cardinality(X) + 1
BY FS_AddElement

(* The recursion has a solution, of which Following is the last value.       *)
LEMMA FollowingDef ==
  ASSUME NEW S, NEW links \in [S -> SUBSET S], NEW start \in SUBSET S, NEW steps \in Nat
  PROVE  \E F : /\ StepByStep(F, S, links, start, steps)
               /\ Following(links, start, steps) = F[steps]
<1> DEFINE Next1(g, n) == IF n = 0 THEN start ELSE Spread(links, g[n - 1])
           Sat(g, n) == \A j \in 0 .. n : g[j] = Next1(g, j)
           Bad == {n \in 0 .. steps : ~ \E g \in [0 .. n -> SUBSET S] : Sat(g, n)}
<1>1. Bad = {}
  <2> SUFFICES ASSUME Bad # {} PROVE FALSE
    OBVIOUS
  <2>1. PICK n \in Bad : \A k \in Bad : n <= k
    <3>1. Bad \in SUBSET Nat
      OBVIOUS
    <3> HIDE DEF Bad
    <3> QED BY <3>1, LeastNatural
  <2>2. n \in Nat /\ n <= steps
    OBVIOUS
  <2>3. n # 0
    <3> SUFFICES ASSUME n = 0 PROVE FALSE
      OBVIOUS
    <3> DEFINE g == [k \in 0 .. 0 |-> start]
    <3>1. g \in [0 .. n -> SUBSET S] /\ Sat(g, n)
      OBVIOUS
    <3> QED BY <3>1
  <2>4. n - 1 \in 0 .. steps /\ n - 1 \notin Bad
    <3>1. n - 1 \in 0 .. steps /\ ~ (n <= n - 1)
      BY <2>2, <2>3
    <3> HIDE DEF Bad
    <3> QED BY <3>1, <2>1
  <2>5. PICK h \in [0 .. n - 1 -> SUBSET S] : Sat(h, n - 1)
    BY <2>4
  <2> DEFINE g == [k \in 0 .. n |-> Next1(h, k)]
  <2>6. \A k \in 0 .. n - 1 : g[k] = h[k]
    BY <2>2, <2>5
  <2>7. g \in [0 .. n -> SUBSET S]
    <3> SUFFICES ASSUME NEW k \in 0 .. n PROVE Next1(h, k) \in SUBSET S
      OBVIOUS
    <3>1. CASE k = 0
      BY <3>1
    <3>2. CASE k # 0
      <4>1. h[k - 1] \in SUBSET S
        BY <3>2, <2>2, <2>5
      <4>2. Spread(links, h[k - 1]) \in SUBSET S
        BY <4>1, SpreadType
      <4> QED BY <4>2, <3>2
    <3> QED BY <3>1, <3>2
  <2>8. Sat(g, n)
    <3> SUFFICES ASSUME NEW k \in 0 .. n PROVE g[k] = Next1(g, k)
      OBVIOUS
    <3>1. CASE k = 0
      BY <3>1
    <3>2. CASE k # 0
      <4>1. k - 1 \in 0 .. n - 1
        BY <3>2, <2>2
      <4>2. g[k - 1] = h[k - 1]
        BY <4>1, <2>6
      <4>3. g[k] = Spread(links, h[k - 1])
        BY <3>2
      <4> QED BY <4>2, <4>3, <3>2
    <3> QED BY <3>1, <3>2
  <2> QED BY <2>7, <2>8
<1>2. PICK g \in [0 .. steps -> SUBSET S] : Sat(g, steps)
  <2>1. steps \in 0 .. steps /\ steps \notin Bad
    <3> HIDE DEF Bad
    <3> QED BY <1>1
  <2> QED BY <2>1
<1>3. g = [n \in 0 .. steps |-> Next1(g, n)]
  BY <1>2
<1> DEFINE F == CHOOSE F : F = [n \in 0 .. steps |-> Next1(F, n)]
<1>4. F = [n \in 0 .. steps |-> Next1(F, n)] /\ Following(links, start, steps) = F[steps]
  <2>1. F = [n \in 0 .. steps |-> Next1(F, n)]
    BY <1>3
  <2>2. Following(links, start, steps) = F[steps]
    BY DEF Following
  <2> QED BY <2>1, <2>2
<1> HIDE DEF F
<1>5. \A n \in 0 .. steps : F[n] = Next1(F, n)
  BY <1>4
<1> DEFINE Differ == {n \in 0 .. steps : F[n] # g[n]}
<1>6. Differ = {}
  <2> SUFFICES ASSUME Differ # {} PROVE FALSE
    OBVIOUS
  <2>1. PICK n \in Differ : \A k \in Differ : n <= k
    <3>1. Differ \in SUBSET Nat
      OBVIOUS
    <3> HIDE DEF Differ
    <3> QED BY <3>1, LeastNatural
  <2>2. n \in 0 .. steps /\ F[n] # g[n]
    OBVIOUS
  <2>3. n # 0
    BY <2>2, <1>2, <1>5
  <2>4. n - 1 \in 0 .. steps /\ n - 1 \notin Differ
    <3>1. n - 1 \in 0 .. steps /\ ~ (n <= n - 1)
      BY <2>2, <2>3
    <3> HIDE DEF Differ
    <3> QED BY <3>1, <2>1
  <2>5. F[n - 1] = g[n - 1]
    BY <2>4
  <2> QED BY <2>2, <2>3, <2>5, <1>2, <1>5
<1>7. Following(links, start, steps) = g[steps]
  <2>1. steps \in 0 .. steps /\ steps \notin Differ
    <3> HIDE DEF Differ
    <3> QED BY <1>6
  <2> QED BY <2>1, <1>4
<1>8. g[0] = start
  BY <1>2
<1>9. \A n \in 1 .. steps : g[n] = Spread(links, g[n - 1])
  BY <1>2
<1> QED BY <1>7, <1>8, <1>9 DEF StepByStep

(* It has nothing that a closed set with the start in it lacks.              *)
LEMMA FollowingLeast ==
  ASSUME NEW S, NEW links \in [S -> SUBSET S], NEW start \in SUBSET S, NEW steps \in Nat,
         NEW T, start \subseteq T, \A x \in S \cap T : links[x] \subseteq T
  PROVE  Following(links, start, steps) \subseteq T
<1>0. PICK F : StepByStep(F, S, links, start, steps) /\ Following(links, start, steps) = F[steps]
  BY FollowingDef
<1>1. /\ F \in [0 .. steps -> SUBSET S] /\ F[0] = start
      /\ \A n \in 1 .. steps : F[n] = Spread(links, F[n - 1])
      /\ Following(links, start, steps) = F[steps]
  BY <1>0 DEF StepByStep
<1> DEFINE Bad == {n \in 0 .. steps : ~ (F[n] \subseteq T)}
<1>2. Bad = {}
  <2> SUFFICES ASSUME Bad # {} PROVE FALSE
    OBVIOUS
  <2>1. PICK n \in Bad : \A k \in Bad : n <= k
    <3>1. Bad \in SUBSET Nat
      OBVIOUS
    <3> HIDE DEF Bad
    <3> QED BY <3>1, LeastNatural
  <2>2. n \in 0 .. steps /\ ~ (F[n] \subseteq T)
    OBVIOUS
  <2>3. n # 0
    BY <2>2, <1>1
  <2>4. n - 1 \in 0 .. steps /\ n - 1 \notin Bad /\ n \in 1 .. steps
    <3>1. n - 1 \in 0 .. steps /\ ~ (n <= n - 1) /\ n \in 1 .. steps
      BY <2>2, <2>3
    <3> HIDE DEF Bad
    <3> QED BY <3>1, <2>1
  <2>5. F[n - 1] \subseteq T /\ F[n - 1] \subseteq S /\ F[n] = Spread(links, F[n - 1])
    BY <2>4, <1>1
  <2> QED BY <2>2, <2>5 DEF Spread
<1>3. steps \in 0 .. steps /\ steps \notin Bad
  <2> HIDE DEF Bad
  <2> QED BY <1>2
<1> QED BY <1>1, <1>3

(* It has the start and, with a member, what that member links to: as long   *)
(* as a step adds anything, there is a member more than steps were taken.    *)
LEMMA FollowingCloses ==
  ASSUME NEW S, IsFiniteSet(S), NEW links \in [S -> SUBSET S], NEW start \in SUBSET S,
         NEW steps \in Nat, steps >= Cardinality(S)
  PROVE  LET R == Following(links, start, steps)
         IN  R \in SUBSET S /\ start \subseteq R /\ \A x \in R : links[x] \subseteq R
<1>0. PICK F : StepByStep(F, S, links, start, steps) /\ Following(links, start, steps) = F[steps]
  BY FollowingDef
<1>1. /\ F \in [0 .. steps -> SUBSET S] /\ F[0] = start
      /\ \A n \in 1 .. steps : F[n] = Spread(links, F[n - 1])
      /\ Following(links, start, steps) = F[steps]
  BY <1>0 DEF StepByStep
<1> DEFINE Done(n) == start \subseteq F[n] /\ \A x \in F[n] : links[x] \subseteq F[n]
           Fine(n) == start \subseteq F[n] /\ (Done(n) \/ Cardinality(F[n]) >= n)
           Bad == {n \in 0 .. steps : ~ Fine(n)}
<1>00. Cardinality(S) \in Nat
  BY FS_CardinalityType
<1>2. ASSUME NEW n \in 0 .. steps
      PROVE  IsFiniteSet(F[n]) /\ Cardinality(F[n]) \in Nat /\ Cardinality(F[n]) <= Cardinality(S)
                /\ (Cardinality(F[n]) = Cardinality(S) => F[n] = S)
  <2>1. F[n] \in SUBSET S
    BY <1>1
  <2> QED BY <2>1, FS_Subset, FS_CardinalityType
<1>3. Bad = {}
  <2> SUFFICES ASSUME Bad # {} PROVE FALSE
    OBVIOUS
  <2>1. PICK n \in Bad : \A k \in Bad : n <= k
    <3>1. Bad \in SUBSET Nat
      OBVIOUS
    <3> HIDE DEF Bad
    <3> QED BY <3>1, LeastNatural
  <2>2. n \in 0 .. steps /\ ~ Fine(n)
    OBVIOUS
  <2>3. n # 0
    <3> SUFFICES ASSUME n = 0 PROVE FALSE
      OBVIOUS
    <3>1. 0 \in 0 .. steps
      OBVIOUS
    <3>2. Cardinality(F[0]) >= 0
      BY <3>1, <1>2
    <3> QED BY <3>2, <2>2, <1>1
  <2>4. n - 1 \in 0 .. steps /\ n - 1 \notin Bad /\ n \in 1 .. steps
    <3>1. n - 1 \in 0 .. steps /\ ~ (n <= n - 1) /\ n \in 1 .. steps
      BY <2>2, <2>3
    <3> HIDE DEF Bad
    <3> QED BY <3>1, <2>1
  <2>5. Fine(n - 1) /\ F[n - 1] \in SUBSET S /\ F[n] = Spread(links, F[n - 1])
    BY <2>4, <1>1
  <2>6. F[n - 1] \subseteq F[n]
    BY <2>5 DEF Spread
  <2>7. CASE Done(n - 1)
    <3>1. F[n] = F[n - 1]
      BY <2>5, <2>7 DEF Spread
    <3> QED BY <3>1, <2>2, <2>7
  <2>8. CASE ~ Done(n - 1)
    <3>0. PICK x \in F[n - 1] : ~ (links[x] \subseteq F[n - 1])
      BY <2>8, <2>5
    <3>1. PICK y \in links[x] : y \notin F[n - 1]
      BY <3>0
    <3>2. y \in F[n]
      BY <3>1, <2>5 DEF Spread
    <3>3. F[n - 1] \cup {y} \in SUBSET F[n]
      BY <3>2, <2>6
    <3>4. Cardinality(F[n - 1] \cup {y}) = Cardinality(F[n - 1]) + 1
      <4>1. IsFiniteSet(F[n - 1])
        BY <2>4, <1>2
      <4> QED BY <4>1, <3>1, OneMore
    <3>5. Cardinality(F[n - 1] \cup {y}) <= Cardinality(F[n])
      BY <3>3, <2>2, <1>2, FS_Subset
    <3>6. Cardinality(F[n - 1]) >= n - 1
      BY <2>5, <2>8
    <3>7. Cardinality(F[n]) >= n
      BY <3>4, <3>5, <3>6, <2>2, <2>4, <1>2
    <3> QED BY <3>7, <2>2, <2>5, <2>6
  <2> QED BY <2>7, <2>8
<1>4. steps \in 0 .. steps /\ steps \notin Bad
  <2> HIDE DEF Bad
  <2> QED BY <1>3
<1>5. Fine(steps) /\ F[steps] \in SUBSET S
  BY <1>1, <1>4
<1>6. Done(steps)
  <2>1. CASE Cardinality(F[steps]) >= steps
    <3>1. Cardinality(F[steps]) = Cardinality(S)
      BY <2>1, <1>00, <1>2, <1>4
    <3>2. F[steps] = S
      BY <3>1, <1>2, <1>4
    <3> QED BY <3>2
  <2> QED BY <2>1, <1>5
<1> QED BY <1>1, <1>5, <1>6
-----------------------------------------------------------------------------
(***************************************************************************)
(* The closure of a symbol is the least self-contained set of names.         *)
(***************************************************************************)

(* The declaration that is found under its name.                             *)
Found(ds, i) == /\ i \in DOMAIN ds /\ ds[i].kind # "use"
                /\ \A j \in i + 1 .. Len(ds) : DeclName(ds[j]) # DeclName(ds[i])

LEMMA DeclarationFacts ==
  ASSUME NEW d \in Declaration
  PROVE  /\ d.kind \in Kinds /\ d.name \in Names /\ d.mentions \in SUBSET Names /\ d.path \in Paths
         /\ Lower[d.name] \in Names /\ DeclName(d) \in SUBSET Names /\ DeclRefs(d) \in SUBSET Names
         /\ \A r \in Names : Lower[r] \in Names
<1>1. d.kind \in Kinds /\ d.name \in Names /\ d.mentions \in SUBSET Names /\ d.path \in Paths
  BY DEF Declaration
<1>2. \A r \in Names : Lower[r] \in Names
  BY LoaderAssumption
<1>3. DeclName(d) \in SUBSET Names
  BY <1>1, <1>2 DEF DeclName
<1>4. DeclRefs(d) \in SUBSET Names
  BY <1>1, <1>2 DEF DeclRefs
<1> QED BY <1>1, <1>2, <1>3, <1>4

LEMMA IndexHas ==
  ASSUME NEW ds \in Seq(Declaration), NEW names
  PROVE  Index(ds, names) = {i \in DOMAIN ds : Found(ds, i) /\ Lower[ds[i].name] \in names}
BY DEF Index, Found, DeclName

(* Two declarations that are found under one name are one.                   *)
LEMMA FoundOnce ==
  ASSUME NEW ds \in Seq(Declaration), NEW i \in DOMAIN ds, NEW j \in DOMAIN ds,
         Found(ds, i), Found(ds, j), Lower[ds[i].name] = Lower[ds[j].name]
  PROVE  i = j
<1>1. i \in 1 .. Len(ds) /\ j \in 1 .. Len(ds) /\ Len(ds) \in Nat
  OBVIOUS
<1>2. DeclName(ds[i]) = DeclName(ds[j])
  BY DEF Found, DeclName
<1>3. CASE i < j
  <2>1. j \in i + 1 .. Len(ds)
    BY <1>1, <1>3
  <2> QED BY <2>1, <1>2 DEF Found
<1>4. CASE j < i
  <2>1. i \in j + 1 .. Len(ds)
    BY <1>1, <1>4
  <2> QED BY <2>1, <1>2 DEF Found
<1> QED BY <1>1, <1>3, <1>4

(* Every name that is declared is found.                                     *)
LEMMA NameIsFound ==
  ASSUME NEW ds \in Seq(Declaration), NEW n \in NamesOf(ds)
  PROVE  \E i \in DOMAIN ds : Found(ds, i) /\ Lower[ds[i].name] = n
<1> DEFINE Q == {i \in DOMAIN ds : ds[i].kind # "use" /\ Lower[ds[i].name] = n}
<1>1. Q \in SUBSET Nat /\ \A i \in Q : i <= Len(ds)
  OBVIOUS
<1>2. Q # {}
  BY DEF NamesOf, ToSet, DeclName
<1>3. Len(ds) \in Nat
  OBVIOUS
<1> HIDE DEF Q
<1>4. PICK i \in Q : \A j \in Q : j <= i
  BY <1>1, <1>2, <1>3, GreatestNatural
<1>5. i \in DOMAIN ds /\ ds[i].kind # "use" /\ Lower[ds[i].name] = n /\ i \in Nat
  BY <1>1 DEF Q
<1>6. ASSUME NEW j \in i + 1 .. Len(ds), DeclName(ds[j]) = DeclName(ds[i]) PROVE FALSE
  <2>1. j \in DOMAIN ds /\ j > i /\ j \in Nat
    BY <1>3, <1>5
  <2>2. j \in Q
    BY <2>1, <1>5, <1>6 DEF Q, DeclName
  <2> QED BY <2>1, <2>2, <1>4, <1>5
<1> QED BY <1>5, <1>6 DEF Found

LEMMA ClosureFacts ==
  ASSUME NEW ds \in Seq(Declaration), NEW symbol \in Names
  PROVE  /\ \A i \in SymbolClosure(ds, symbol) : i \in DOMAIN ds /\ Found(ds, i)
         /\ Index(ds, {Lower[symbol]}) \subseteq SymbolClosure(ds, symbol)
         /\ \A i \in SymbolClosure(ds, symbol) :
              Index(ds, DeclRefs(ds[i])) \subseteq SymbolClosure(ds, symbol)
         /\ \A T : (/\ Index(ds, {Lower[symbol]}) \subseteq T
                    /\ \A i \in DOMAIN ds \cap T : Index(ds, DeclRefs(ds[i])) \subseteq T)
                      => SymbolClosure(ds, symbol) \subseteq T
<1> DEFINE S     == DOMAIN ds
           links == [i \in S |-> Index(ds, DeclRefs(ds[i]))]
           start == Index(ds, {Lower[symbol]})
           C     == Following(links, start, Len(ds))
<1>1. SymbolClosure(ds, symbol) = C
  BY DEF SymbolClosure
<1>2. \A names : Index(ds, names) \in SUBSET S
  BY DEF Index
<1>3. links \in [S -> SUBSET S] /\ start \in SUBSET S
  BY <1>2
<1>4. S = 1 .. Len(ds) /\ Len(ds) \in Nat
  OBVIOUS
<1>5. IsFiniteSet(S) /\ Len(ds) >= Cardinality(S)
  <2>1. IsFiniteSet(1 .. Len(ds)) /\ Cardinality(1 .. Len(ds)) = Len(ds)
    <3>1. 1 \in Int /\ Len(ds) \in Int
      BY <1>4
    <3>2. /\ IsFiniteSet(1 .. Len(ds))
          /\ Cardinality(1 .. Len(ds)) = IF 1 > Len(ds) THEN 0 ELSE Len(ds) - 1 + 1
      BY <3>1, FS_Interval
    <3> QED BY <3>2, <1>4
  <2> QED BY <2>1, <1>4
<1> HIDE DEF links, start, S
<1>6. C \in SUBSET S /\ start \subseteq C /\ \A x \in C : links[x] \subseteq C
  BY <1>3, <1>4, <1>5, FollowingCloses
<1>7. ASSUME NEW T, start \subseteq T, \A x \in S \cap T : links[x] \subseteq T
      PROVE  C \subseteq T
  BY <1>3, <1>4, <1>7, FollowingLeast
<1>8. \A x \in S : links[x] = Index(ds, DeclRefs(ds[x]))
  BY DEF links
<1> HIDE DEF C
<1>9. \A T : (start \subseteq T /\ \A i \in S \cap T : Index(ds, DeclRefs(ds[i])) \subseteq T)
               => C \subseteq T
  BY <1>7, <1>8
<1>10. \A i \in C : i \in DOMAIN ds /\ Found(ds, i)
  <2> DEFINE T == {i \in S : Found(ds, i)}
  <2>1. \A names : Index(ds, names) \subseteq T
    BY IndexHas DEF S
  <2>2. start \subseteq T
    BY <2>1 DEF start
  <2> HIDE DEF T
  <2>3. C \subseteq T
    BY <2>1, <2>2, <1>9
  <2> QED BY <2>3 DEF T, S
<1>11. \A i \in C : Index(ds, DeclRefs(ds[i])) \subseteq C
  <2> SUFFICES ASSUME NEW i \in C PROVE Index(ds, DeclRefs(ds[i])) \subseteq C
    OBVIOUS
  <2>1. i \in S /\ links[i] \subseteq C
    BY <1>6
  <2> QED BY <2>1, <1>8
<1>12. Index(ds, {Lower[symbol]}) \subseteq C
  BY <1>6 DEF start
<1>13. \A T : (/\ Index(ds, {Lower[symbol]}) \subseteq T
              /\ \A i \in DOMAIN ds \cap T : Index(ds, DeclRefs(ds[i])) \subseteq T)
                => C \subseteq T
  BY <1>9 DEF start, S
<1> QED BY <1>1, <1>10, <1>11, <1>12, <1>13

LEMMA ClosureIsLeast ==
  ASSUME NEW ds \in Seq(Declaration), NEW symbol \in Names
  PROVE  {Lower[ds[i].name] : i \in SymbolClosure(ds, symbol)} = LeastWith(ds, symbol)
<1> DEFINE C   == SymbolClosure(ds, symbol)
           all == NamesOf(ds)
           got == {Lower[ds[i].name] : i \in C}
<1>1. \A i \in C : i \in DOMAIN ds /\ Found(ds, i)
  BY ClosureFacts
<1>2. \A i \in DOMAIN ds : ds[i].kind # "use" => Lower[ds[i].name] \in all
  BY DEF NamesOf, DeclName, ToSet
<1>3. got \in SUBSET all
  BY <1>1, <1>2 DEF Found
<1>4. ASSUME NEW names \in SUBSET all, {Lower[symbol]} \cap all \subseteq names,
             SelfContained(ds, names)
      PROVE  got \subseteq names
  <2> DEFINE T == {i \in DOMAIN ds : Found(ds, i) /\ Lower[ds[i].name] \in names}
  <2>1. Index(ds, {Lower[symbol]}) \subseteq T
    BY <1>2, <1>4, IndexHas DEF Found
  <2>2. ASSUME NEW i \in T PROVE Index(ds, DeclRefs(ds[i])) \subseteq T
    <3>1. i \in DOMAIN ds /\ Found(ds, i) /\ Lower[ds[i].name] \in names
      OBVIOUS
    <3>2. DeclName(ds[i]) \cap names # {}
      BY <3>1 DEF DeclName, Found
    <3>3. (IF ds[i].kind = "enum" THEN {} ELSE {Lower[r] : r \in ds[i].mentions}) \cap all
             \subseteq names
      BY <3>1, <3>2, <1>4 DEF SelfContained, Found
    <3>4. DeclRefs(ds[i]) \cap all \subseteq names
      BY <3>1, <3>3 DEF DeclRefs, Found
    <3>5. ASSUME NEW j \in Index(ds, DeclRefs(ds[i])) PROVE j \in T
      <4>1. j \in DOMAIN ds /\ Found(ds, j) /\ Lower[ds[j].name] \in DeclRefs(ds[i])
        BY <3>5, IndexHas
      <4>2. Lower[ds[j].name] \in all
        BY <4>1, <1>2 DEF Found
      <4> QED BY <4>1, <4>2, <3>4
    <3> QED BY <3>5
  <2>3. \A i \in T : i \in DOMAIN ds /\ Lower[ds[i].name] \in names
    OBVIOUS
  <2> HIDE DEF T
  <2>4. C \subseteq T
    BY <2>1, <2>2, ClosureFacts
  <2> QED BY <2>3, <2>4
<1>5. {Lower[symbol]} \cap all \subseteq got
  <2> SUFFICES ASSUME Lower[symbol] \in all PROVE Lower[symbol] \in got
    OBVIOUS
  <2>1. PICK i \in DOMAIN ds : Found(ds, i) /\ Lower[ds[i].name] = Lower[symbol]
    BY NameIsFound
  <2>2. i \in Index(ds, {Lower[symbol]})
    BY <2>1, IndexHas
  <2>3. i \in C
    BY <2>2, ClosureFacts
  <2> QED BY <2>1, <2>3
<1>6. SelfContained(ds, got)
  <2> SUFFICES ASSUME NEW i \in DOMAIN ds, DeclName(ds[i]) \cap got # {},
                      \A j \in i + 1 .. Len(ds) : DeclName(ds[j]) # DeclName(ds[i])
               PROVE  (IF ds[i].kind = "enum" THEN {} ELSE {Lower[r] : r \in ds[i].mentions}) \cap all
                        \subseteq got
    BY DEF SelfContained
  <2>1. Found(ds, i) /\ Lower[ds[i].name] \in got
    BY DEF Found, DeclName
  <2>2. PICK k \in C : Lower[ds[k].name] = Lower[ds[i].name]
    BY <2>1
  <2>3. i \in C
    BY <2>1, <2>2, <1>1, FoundOnce
  <2>4. (IF ds[i].kind = "enum" THEN {} ELSE {Lower[r] : r \in ds[i].mentions}) = DeclRefs(ds[i])
    BY <2>1 DEF DeclRefs, Found
  <2>5. ASSUME NEW n \in DeclRefs(ds[i]) \cap all PROVE n \in got
    <3>1. PICK j \in DOMAIN ds : Found(ds, j) /\ Lower[ds[j].name] = n
      BY NameIsFound
    <3>2. j \in Index(ds, DeclRefs(ds[i]))
      BY <3>1, IndexHas
    <3>3. j \in C
      BY <3>2, <2>3, ClosureFacts
    <3> QED BY <3>1, <3>3
  <2> QED BY <2>4, <2>5
<1> HIDE DEF got
<1>7. got = {n \in all : \A names \in SUBSET all :
                 ({Lower[symbol]} \cap all \subseteq names /\ SelfContained(ds, names)) => n \in names}
  <2>1. \A n \in got : n \in all /\ \A names \in SUBSET all :
                 ({Lower[symbol]} \cap all \subseteq names /\ SelfContained(ds, names)) => n \in names
    BY <1>3, <1>4
  <2>2. ASSUME NEW n \in all, \A names \in SUBSET all :
                 ({Lower[symbol]} \cap all \subseteq names /\ SelfContained(ds, names)) => n \in names
        PROVE  n \in got
    BY <2>2, <1>3, <1>5, <1>6
  <2> QED BY <2>1, <2>2
<1> QED BY <1>7 DEF got, LeastWith
-----------------------------------------------------------------------------
(***************************************************************************)
(* What paths name, and what an import asks for.                             *)
(***************************************************************************)

LEMMA PathFacts ==
  ASSUME NEW prog \in Programs, NEW p \in Paths, Resolves(prog, p)
  PROVE  /\ ModuleOf(prog, p) \in Paths
         /\ SymbolOf(prog, p) # Whole => SymbolOf(prog, p) \in Names
         /\ \/ Source(prog, ModuleOf(prog, p)) = Unparsable
            \/ Source(prog, ModuleOf(prog, p)) \in Seq(Declaration)
<1>1. CASE Exists(prog, p)
  <2>1. ModuleOf(prog, p) = p /\ SymbolOf(prog, p) = Whole
    BY <1>1 DEF ModuleOf, SymbolOf
  <2>2. Source(prog, p) = Unparsable \/ Source(prog, p) \in Seq(Declaration)
    BY <1>1, LoaderAssumption DEF Source, Exists
  <2> QED BY <2>1, <2>2
<1>2. CASE ~ Exists(prog, p)
  <2>1. Len(p) > 1 /\ Exists(prog, Front(p)) /\ p \in Seq(Names)
    BY <1>2 DEF Resolves, Paths
  <2>2. ModuleOf(prog, p) = Front(p) /\ SymbolOf(prog, p) = Last(p)
    BY <1>2 DEF ModuleOf, SymbolOf
  <2>3. Front(p) \in Paths
    BY <2>1 DEF Front, Paths
  <2>4. Last(p) \in Names
    BY <2>1 DEF Last
  <2>5. Source(prog, Front(p)) = Unparsable \/ Source(prog, Front(p)) \in Seq(Declaration)
    BY <2>1, LoaderAssumption DEF Source, Exists
  <2> QED BY <2>2, <2>3, <2>4, <2>5
<1> QED BY <1>1, <1>2

LEMMA NestedFacts ==
  ASSUME NEW ds \in Seq(Declaration)
  PROVE  Nested(ds) \in Seq(Paths) /\ ToSet(Nested(ds)) = UsesOf(ds)
<1> DEFINE P    == {i \in DOMAIN ds : ds[i].kind = "use"}
           uses == At(ds, P)
<1>1. uses \in Seq(Declaration) /\ ToSet(uses) = {ds[i] : i \in P}
  BY AtMembers
<1>2. Nested(ds) = [k \in DOMAIN uses |-> uses[k].path]
  BY DEF Nested
<1>3. UsesOf(ds) = {ds[i].path : i \in P}
  BY DEF UsesOf, ToSet
<1>4. {ds[i].path : i \in P} = {d.path : d \in ToSet(uses)}
  BY <1>1
<1> HIDE DEF uses
<1>5. DOMAIN uses = 1 .. Len(uses) /\ Len(uses) \in Nat
  BY <1>1
<1>6. \A k \in 1 .. Len(uses) : uses[k].path \in Paths
  BY <1>1, DeclarationFacts
<1>7. Nested(ds) \in Seq(Paths) /\ DOMAIN Nested(ds) = DOMAIN uses
  BY <1>2, <1>5, <1>6
<1>8. ToSet(Nested(ds)) = {d.path : d \in ToSet(uses)}
  BY <1>2, <1>7 DEF ToSet
<1> QED BY <1>3, <1>4, <1>7, <1>8

(* Of a module that is imported whole an import asks for everything, of one  *)
(* that is imported by symbol for what the symbol brings and no imports.     *)
LEMMA WantedFacts ==
  ASSUME NEW ds \in Seq(Declaration), NEW symbol, symbol # Whole => symbol \in Names
  PROVE  /\ Wanted(ds, symbol) \in SUBSET (DOMAIN ds)
         /\ {Lower[ds[i].name] : i \in {j \in Wanted(ds, symbol) : ds[j].kind # "use"}}
              = IF symbol = Whole THEN NamesOf(ds) ELSE LeastWith(ds, symbol)
         /\ {ds[i].path : i \in {j \in Wanted(ds, symbol) : ds[j].kind = "use"}}
              = IF symbol = Whole THEN UsesOf(ds) ELSE {}
<1>1. CASE symbol = Whole
  <2>1. Wanted(ds, symbol) = DOMAIN ds
    BY <1>1 DEF Wanted
  <2>2. {Lower[ds[i].name] : i \in {j \in DOMAIN ds : ds[j].kind # "use"}} = NamesOf(ds)
    BY DEF NamesOf, ToSet, DeclName
  <2>3. {ds[i].path : i \in {j \in DOMAIN ds : ds[j].kind = "use"}} = UsesOf(ds)
    BY DEF UsesOf, ToSet
  <2> QED BY <1>1, <2>1, <2>2, <2>3
<1>2. CASE symbol # Whole
  <2>0. symbol \in Names
    BY <1>2
  <2>1. Wanted(ds, symbol) = SymbolClosure(ds, symbol)
    BY <1>2 DEF Wanted
  <2>2. \A i \in SymbolClosure(ds, symbol) : i \in DOMAIN ds /\ ds[i].kind # "use"
    BY <2>0, ClosureFacts DEF Found
  <2>3. {Lower[ds[i].name] : i \in SymbolClosure(ds, symbol)} = LeastWith(ds, symbol)
    BY <2>0, ClosureIsLeast
  <2>4. {j \in SymbolClosure(ds, symbol) : ds[j].kind # "use"} = SymbolClosure(ds, symbol)
    BY <2>2
  <2>5. {j \in SymbolClosure(ds, symbol) : ds[j].kind = "use"} = {}
    BY <2>2
  <2>6. Wanted(ds, symbol) \in SUBSET (DOMAIN ds)
    BY <2>1, <2>2
  <2>7. {ds[i].path : i \in {j \in Wanted(ds, symbol) : ds[j].kind = "use"}} = {}
    BY <2>1, <2>5
  <2> QED BY <1>2, <2>1, <2>3, <2>4, <2>6, <2>7
<1> QED BY <1>1, <1>2

(* What is appended is asked for, and what is asked for is there already or  *)
(* is appended.                                                              *)
LEMMA FreshFacts ==
  ASSUME NEW ds \in Seq(Declaration), NEW known, NEW m
  PROVE  /\ Fresh(known, m, ds) \in Seq(Declaration)
         /\ \A d \in ToSet(Fresh(known, m, ds)) :
              d \in ToSet(ds) /\ d.kind # "use" /\ d \in Declaration
         /\ \A d \in ToSet(ds) : d.kind # "use" =>
              Key(m, d) \in known \cup {Key(m, e) : e \in ToSet(Fresh(known, m, ds))}
<1> DEFINE First(i) == \A j \in 1 .. i - 1 : ds[j].kind = "use" \/ Key(m, ds[j]) # Key(m, ds[i])
           P == {i \in DOMAIN ds : ds[i].kind # "use" /\ Key(m, ds[i]) \notin known /\ First(i)}
<1>1. Fresh(known, m, ds) = At(ds, P)
  BY DEF Fresh
<1>2. P \in SUBSET (DOMAIN ds)
  OBVIOUS
<1>3. Fresh(known, m, ds) \in Seq(Declaration) /\ ToSet(Fresh(known, m, ds)) = {ds[i] : i \in P}
  <2> HIDE DEF P
  <2> QED BY <1>1, <1>2, AtMembers
<1>4. \A i \in P : ds[i] \in ToSet(ds) /\ ds[i].kind # "use" /\ ds[i] \in Declaration
  BY DEF ToSet
<1>5. ASSUME NEW d \in ToSet(ds), d.kind # "use", Key(m, d) \notin known
      PROVE  \E i \in P : Key(m, ds[i]) = Key(m, d)
  <2> DEFINE Q == {i \in DOMAIN ds : ds[i].kind # "use" /\ Key(m, ds[i]) = Key(m, d)}
  <2>1. Q \in SUBSET Nat /\ Q # {}
    BY <1>5 DEF ToSet
  <2> HIDE DEF Q
  <2>2. PICK i \in Q : \A j \in Q : i <= j
    BY <2>1, LeastNatural
  <2>3. i \in DOMAIN ds /\ ds[i].kind # "use" /\ Key(m, ds[i]) = Key(m, d) /\ i \in Nat
    BY <2>1 DEF Q
  <2>4. First(i)
    <3> SUFFICES ASSUME NEW j \in 1 .. i - 1, ds[j].kind # "use", Key(m, ds[j]) = Key(m, ds[i])
                 PROVE  FALSE
      OBVIOUS
    <3>1. j \in DOMAIN ds /\ j < i /\ j \in Nat
      BY <2>3
    <3>2. j \in Q
      BY <3>1, <2>3 DEF Q
    <3> QED BY <3>1, <3>2, <2>2, <2>3
  <2>5. i \in P
    BY <2>3, <2>4, <1>5
  <2> QED BY <2>3, <2>5
<1> HIDE DEF P
<1> QED BY <1>3, <1>4, <1>5

-----------------------------------------------------------------------------
(***************************************************************************)
(* The imports of a program.                                                 *)
(***************************************************************************)

LEMMA ImageFinite ==
  ASSUME NEW S, IsFiniteSet(S), NEW f
  PROVE  IsFiniteSet({f[x] : x \in S})
<1> DEFINE T == {f[x] : x \in S}
           g == [x \in S |-> f[x]]
<1>1. g \in Surjection(S, T)
  BY DEF Surjection
<1> HIDE DEF g, T
<1>2. IsFiniteSet(T)
  BY <1>1, FS_Surjection
<1> QED BY <1>2 DEF T

LEMMA UsesFacts ==
  ASSUME NEW ds \in Seq(Declaration)
  PROVE  IsFiniteSet(UsesOf(ds)) /\ UsesOf(ds) \in SUBSET Paths
<1> DEFINE P == {i \in DOMAIN ds : ds[i].kind = "use"}
           f == [i \in P |-> ds[i].path]
<1>1. UsesOf(ds) = {f[i] : i \in P}
  BY DEF UsesOf, ToSet
<1>2. \A i \in P : f[i] \in Paths
  BY DeclarationFacts
<1>3. IsFiniteSet(P)
  <2>1. P \in SUBSET Nat /\ (\A i \in P : i <= Len(ds)) /\ Len(ds) \in Nat
    OBVIOUS
  <2> HIDE DEF P
  <2> QED BY <2>1, FS_BoundedSetOfNaturals
<1> HIDE DEF f, P
<1>4. IsFiniteSet(UsesOf(ds))
  BY <1>1, <1>3, ImageFinite
<1> QED BY <1>1, <1>2, <1>4

LEMMA AllImportsFacts ==
  ASSUME NEW prog \in Programs
  PROVE  /\ IsFiniteSet(AllImports(prog)) /\ AllImports(prog) \in SUBSET Paths
         /\ UsesOf(prog.main) \in SUBSET AllImports(prog)
         /\ \A p \in Paths : LeadsTo(prog, p) \in SUBSET AllImports(prog)
<1> DEFINE files == {prog.files[x] : x \in DOMAIN prog.files} \ {Unparsable}
           std   == {Std[m] : m \in DOMAIN Std}
           texts == {prog.main} \cup files \cup std
           f     == [ds \in texts |-> UsesOf(ds)]
<1>1. AllImports(prog) = UNION {f[ds] : ds \in texts}
  BY DEF AllImports
<1>2. \A ds \in texts : ds \in Seq(Declaration) /\ f[ds] = UsesOf(ds)
  BY LoaderAssumption
<1>3. IsFiniteSet(texts)
  <2>1. IsFiniteSet({prog.files[x] : x \in DOMAIN prog.files})
    <3> DEFINE fs == prog.files
    <3>1. IsFiniteSet(DOMAIN fs)
      BY LoaderAssumption
    <3> HIDE DEF fs
    <3>2. IsFiniteSet({fs[x] : x \in DOMAIN fs})
      BY <3>1, ImageFinite
    <3> QED BY <3>2 DEF fs
  <2>2. IsFiniteSet(files)
    <3>1. files \in SUBSET {prog.files[x] : x \in DOMAIN prog.files}
      OBVIOUS
    <3> HIDE DEF files
    <3> QED BY <3>1, <2>1, FS_Subset
  <2>3. IsFiniteSet(std)
    BY LoaderAssumption, ImageFinite
  <2> HIDE DEF files, std
  <2>4. IsFiniteSet({prog.main})
    BY FS_Singleton
  <2>5. IsFiniteSet({prog.main} \cup files)
    BY <2>2, <2>4, FS_Union
  <2> QED BY <2>3, <2>5, FS_Union
<1>4. prog.main \in texts
  OBVIOUS
<1>5. ASSUME NEW p \in Paths, Readable(prog, p)
      PROVE  Source(prog, ModuleOf(prog, p)) \in texts
  <2>1. Exists(prog, ModuleOf(prog, p)) /\ Source(prog, ModuleOf(prog, p)) # Unparsable
    BY <1>5 DEF Readable, Resolves, ModuleOf
  <2> QED BY <2>1 DEF Source, Exists
<1> HIDE DEF texts, f
<1>6. \A ds \in texts : IsFiniteSet(f[ds]) /\ f[ds] \in SUBSET Paths
  BY <1>2, UsesFacts
<1>7. IsFiniteSet(AllImports(prog))
  <2>1. IsFiniteSet({f[ds] : ds \in texts})
    BY <1>3, ImageFinite
  <2>2. \A T \in {f[ds] : ds \in texts} : IsFiniteSet(T)
    BY <1>6
  <2> HIDE DEF f
  <2> QED BY <2>1, <2>2, <1>1, FS_UNION
<1>8. \A ds \in texts : UsesOf(ds) \in SUBSET AllImports(prog)
  BY <1>1, <1>2
<1>9. \A p \in Paths : LeadsTo(prog, p) \in SUBSET AllImports(prog)
  BY <1>5, <1>8 DEF LeadsTo
<1> QED BY <1>1, <1>4, <1>6, <1>7, <1>8, <1>9

(* They are what the files lead to, and no more.                             *)
LEMMA ImportsFromFacts ==
  ASSUME NEW prog \in Programs, NEW start \in SUBSET AllImports(prog)
  PROVE  /\ ImportsFrom(prog, start) \in SUBSET AllImports(prog)
         /\ start \subseteq ImportsFrom(prog, start)
         /\ \A p \in ImportsFrom(prog, start) : LeadsTo(prog, p) \subseteq ImportsFrom(prog, start)
         /\ \A T : (start \subseteq T /\ \A p \in AllImports(prog) \cap T : LeadsTo(prog, p) \subseteq T)
                     => ImportsFrom(prog, start) \subseteq T
<1> DEFINE S     == AllImports(prog)
           links == [p \in S |-> LeadsTo(prog, p)]
           N     == Cardinality(S)
           C     == Following(links, start, N)
<1>1. ImportsFrom(prog, start) = C
  BY DEF ImportsFrom
<1>2. IsFiniteSet(S) /\ N \in Nat /\ N >= Cardinality(S)
  BY AllImportsFacts, FS_CardinalityType
<1>3. links \in [S -> SUBSET S]
  BY AllImportsFacts
<1>4. \A p \in S : links[p] = LeadsTo(prog, p)
  OBVIOUS
<1> HIDE DEF links, N, S
<1>5. start \in SUBSET S
  BY DEF S
<1>6. C \in SUBSET S /\ start \subseteq C /\ \A p \in C : links[p] \subseteq C
  BY <1>2, <1>3, <1>5, FollowingCloses
<1>7. ASSUME NEW T, start \subseteq T, \A p \in S \cap T : LeadsTo(prog, p) \subseteq T
      PROVE  C \subseteq T
  <2>1. \A p \in S \cap T : links[p] \subseteq T
    BY <1>4, <1>7
  <2> QED BY <2>1, <1>2, <1>3, <1>5, <1>7, FollowingLeast
<1> HIDE DEF C
<1>8. \A p \in C : LeadsTo(prog, p) \subseteq C
  <2> SUFFICES ASSUME NEW p \in C PROVE LeadsTo(prog, p) \subseteq C
    OBVIOUS
  <2>1. p \in S /\ links[p] \subseteq C
    BY <1>6
  <2> QED BY <2>1, <1>4
<1> QED BY <1>1, <1>6, <1>7, <1>8 DEF S

LEMMA ImportsFacts ==
  ASSUME NEW prog \in Programs
  PROVE  /\ Imports(prog) \in SUBSET Paths
         /\ UsesOf(prog.main) \subseteq Imports(prog)
         /\ \A p \in Imports(prog) : LeadsTo(prog, p) \subseteq Imports(prog)
         /\ \A T : (UsesOf(prog.main) \subseteq T /\ \A p \in T : LeadsTo(prog, p) \subseteq T)
                     => Imports(prog) \subseteq T
<1>1. UsesOf(prog.main) \in SUBSET AllImports(prog) /\ AllImports(prog) \in SUBSET Paths
  BY AllImportsFacts
<1> QED BY <1>1, ImportsFromFacts DEF Imports
-----------------------------------------------------------------------------
(***************************************************************************)
(* The inductive invariant.                                                  *)
(***************************************************************************)

Readables(prog) == {p \in Imports(prog) : Readable(prog, p)}

(* What following an import leaves behind.                                   *)
Handled(p) ==
  /\ ~ Readable(program, p) => Faults(program, p) \subseteq errors
  /\ Resolves(program, p) /\ SymbolOf(program, p) # Whole
       => <<p, ModuleOf(program, p), SymbolOf(program, p)>> \in requested
  /\ Readable(program, p) =>
       /\ ModuleOf(program, p) \in DOMAIN symbols
       /\ \A n \in Brings(program, p) :
            \E k \in DOMAIN declared : /\ declared[k].from = ModuleOf(program, p)
                                       /\ Lower[declared[k].decl.name] = n

(* Every import the files lead to has been followed, is pending, or is led   *)
(* to by one that is.                                                        *)
Followed(done) ==
  /\ \A p \in done : Handled(p)
  /\ UsesOf(program.main) \subseteq done \cup ToSet(pending)
  /\ \A p \in done : LeadsTo(program, p) \subseteq done \cup ToSet(pending)

OnTheWay == /\ ToSet(pending) \subseteq Imports(program)
            /\ \E done \in SUBSET Imports(program) : Followed(done)

(* Nothing is asked, read, brought or reported that no import calls for.     *)
AskedFor ==
  \A r \in requested : \E p \in Imports(program) :
    /\ Resolves(program, p) /\ SymbolOf(program, p) # Whole
    /\ r = <<p, ModuleOf(program, p), SymbolOf(program, p)>>

ReadRight ==
  \A m \in DOMAIN symbols :
    Source(program, m) # Unparsable /\ symbols[m] = NamesOf(Source(program, m))

BroughtRightly ==
  \A k \in DOMAIN declared : \E p \in Readables(program) :
    /\ declared[k].from = ModuleOf(program, p)
    /\ Lower[declared[k].decl.name] \in Brings(program, p)

BlamedRightly ==
  \A e \in errors : \E p \in Imports(program) : ~ Readable(program, p) /\ e \in Faults(program, p)

InterfacesKnown == interfaces = InterfacesIn(Merged)

IInv ==
  /\ program \in Programs
  /\ TypeOK
  /\ OnTheWay
  /\ AskedFor
  /\ ReadRight
  /\ BroughtRightly
  /\ InterfacesKnown
  /\ phase = "loading" => BlamedRightly
  /\ phase = "loaded" => pending = <<>>
  /\ TablesAreCurrent
  /\ ReportsWhatIsNotThere
  /\ BringsWhatIsReached

LEMMA StackFacts ==
  ASSUME NEW S, NEW s \in Seq(S), s # <<>>
  PROVE  /\ Last(s) \in S /\ Front(s) \in Seq(S)
         /\ ToSet(s) = ToSet(Front(s)) \cup {Last(s)}
<1>1. Len(s) \in Nat /\ Len(s) # 0
  OBVIOUS
<1>2. Last(s) = s[Len(s)] /\ Len(s) \in 1 .. Len(s)
  BY <1>1 DEF Last
<1>3. Front(s) = SubSeq(s, 1, Len(s) - 1) /\ Len(s) - 1 \in 0 .. Len(s)
  BY <1>1 DEF Front
<1>4. /\ Front(s) \in Seq(S) /\ DOMAIN Front(s) = 1 .. Len(s) - 1
      /\ \A i \in 1 .. Len(s) - 1 : Front(s)[i] = s[i]
  BY <1>1, <1>3
<1>5. \A i \in 1 .. Len(s) : i \in 1 .. Len(s) - 1 \/ i = Len(s)
  BY <1>1
<1>6. \A i \in 1 .. Len(s) - 1 : i \in 1 .. Len(s)
  BY <1>1
<1>7. DOMAIN s = 1 .. Len(s)
  OBVIOUS
<1>8. ToSet(s) = ToSet(Front(s)) \cup {Last(s)}
  BY <1>2, <1>4, <1>5, <1>6, <1>7 DEF ToSet
<1> QED BY <1>2, <1>4, <1>8

LEMMA TopOfStack ==
  ASSUME pending \in Seq(Paths), pending # <<>>
  PROVE  Last(pending) \in Paths /\ Last(pending) \in ToSet(pending)
<1>1. PICK s \in Seq(Paths) : s = pending /\ s # <<>>
  OBVIOUS
<1>2. Last(s) \in Paths /\ ToSet(s) = ToSet(Front(s)) \cup {Last(s)}
  BY <1>1, StackFacts
<1> QED BY <1>1, <1>2

LEMMA AppendedMembers ==
  ASSUME NEW S, NEW a \in Seq(S), NEW b \in Seq(S)
  PROVE  ToSet(a \o b) = ToSet(a) \cup ToSet(b)
<1>1. DOMAIN (a \o b) = DOMAIN a \cup {Len(a) + i : i \in DOMAIN b}
  BY Appending
<1>2. \A i \in DOMAIN a : (a \o b)[i] = a[i]
  BY Appending
<1>3. \A i \in DOMAIN b : (a \o b)[Len(a) + i] = b[i]
  BY Appending
<1> DEFINE ab == a \o b
           n  == Len(a)
<1> HIDE DEF ab, n
<1>4. DOMAIN ab = DOMAIN a \cup {n + i : i \in DOMAIN b}
  BY <1>1 DEF ab, n
<1>5. (\A i \in DOMAIN a : ab[i] = a[i]) /\ (\A i \in DOMAIN b : ab[n + i] = b[i])
  BY <1>2, <1>3 DEF ab, n
<1>6. {ab[i] : i \in DOMAIN ab} = {a[i] : i \in DOMAIN a} \cup {b[i] : i \in DOMAIN b}
  BY <1>4, <1>5
<1> QED BY <1>6 DEF ToSet, ab

(* The tables of a list of declarations.                                     *)
ClassesAt(ds) == {i \in DOMAIN ds : IsClass(ds[i])}
EnumsAt(ds) == {i \in DOMAIN ds : IsEnum(ds[i])}

LEMMA TablesFacts ==
  ASSUME NEW ds \in Seq(Declaration), NEW c, NEW e,
         Current(c, ds, ClassesAt(ds)), Current(e, ds, EnumsAt(ds))
  PROVE  /\ \A n \in DOMAIN c : n = c[n].name /\ IsClass(c[n])
         /\ \A n \in DOMAIN e : n = e[n].name /\ IsEnum(e[n])
         /\ InterfacesIn(ds) \subseteq DOMAIN c
         /\ \A n \in DOMAIN c : c[n].kind = "interface" => n \in InterfacesIn(ds)
<1>1. ClassesAt(ds) \in SUBSET (DOMAIN ds) /\ EnumsAt(ds) \in SUBSET (DOMAIN ds)
  BY DEF ClassesAt, EnumsAt
<1>2. \A n \in DOMAIN c : \E i \in ClassesAt(ds) : ds[i].name = n /\ c[n] = ds[i]
  BY <1>1, CurrentValue
<1>3. \A n \in DOMAIN e : \E i \in EnumsAt(ds) : ds[i].name = n /\ e[n] = ds[i]
  BY <1>1, CurrentValue
<1>4. \A i \in DOMAIN ds : ds[i].kind = "interface" => ds[i].name \in InterfacesIn(ds)
  BY DEF InterfacesIn, ToSet
<1>5. \A n \in InterfacesIn(ds) : \E i \in DOMAIN ds : ds[i].kind = "interface" /\ ds[i].name = n
  BY DEF InterfacesIn, ToSet
<1>6. DOMAIN c = {ds[i].name : i \in ClassesAt(ds)}
  BY DEF Current
<1> QED BY <1>2, <1>3, <1>4, <1>5, <1>6 DEF ClassesAt, EnumsAt, IsClass, IsEnum

LEMMA TabulateFacts ==
  ASSUME NEW old \in Seq(Declaration), NEW new \in Seq(Declaration), NEW c, NEW e,
         Current(c, old, ClassesAt(old)), Current(e, old, EnumsAt(old))
  PROVE  /\ Current(Register(c, ClassesIn(new)), old \o new, ClassesAt(old \o new))
         /\ Current(Register(e, EnumsIn(new)), old \o new, EnumsAt(old \o new))
         /\ InterfacesIn(old \o new) = InterfacesIn(old) \cup InterfacesIn(new)
<1>1. DOMAIN (old \o new) = DOMAIN old \cup {Len(old) + i : i \in DOMAIN new}
  BY Appending
<1>2. \A i \in DOMAIN old : (old \o new)[i] = old[i]
  BY Appending
<1>3. \A i \in DOMAIN new : (old \o new)[Len(old) + i] = new[i]
  BY Appending
<1>4. ClassesAt(old \o new) = ClassesAt(old) \cup {Len(old) + i : i \in ClassesAt(new)}
  BY <1>1, <1>2, <1>3 DEF ClassesAt
<1>5. EnumsAt(old \o new) = EnumsAt(old) \cup {Len(old) + i : i \in EnumsAt(new)}
  BY <1>1, <1>2, <1>3 DEF EnumsAt
<1>6. /\ ClassesAt(old) \in SUBSET (DOMAIN old) /\ EnumsAt(old) \in SUBSET (DOMAIN old)
      /\ ClassesAt(new) \in SUBSET (DOMAIN new) /\ EnumsAt(new) \in SUBSET (DOMAIN new)
  BY DEF ClassesAt, EnumsAt
<1>7. ClassesIn(new) = At(new, ClassesAt(new)) /\ EnumsIn(new) = At(new, EnumsAt(new))
  BY DEF ClassesIn, EnumsIn, ClassesAt, EnumsAt
<1>8. Current(Register(c, ClassesIn(new)), old \o new, ClassesAt(old \o new))
  BY <1>4, <1>6, <1>7, RegisterKeepsCurrent
<1>9. Current(Register(e, EnumsIn(new)), old \o new, EnumsAt(old \o new))
  BY <1>5, <1>6, <1>7, RegisterKeepsCurrent
<1>10. ToSet(old \o new) = ToSet(old) \cup ToSet(new)
  BY AppendedMembers
<1> QED BY <1>8, <1>9, <1>10 DEF InterfacesIn

-----------------------------------------------------------------------------
(***************************************************************************)
(* Every step keeps the invariant.                                           *)
(***************************************************************************)

LEMMA InitIInv == Init => IInv
<1> SUFFICES ASSUME Init PROVE IInv
  OBVIOUS
<1>1. program \in Programs /\ program.main \in Seq(Declaration)
  BY LoaderAssumption DEF Init
<1>2. Merged = program.main
  <2>1. [k \in DOMAIN declared |-> declared[k].decl] = <<>>
    BY DEF Init
  <2> QED BY <1>1, <2>1 DEF Merged
<1>3. /\ Current(classes, Merged, ClassesAt(Merged))
      /\ Current(enums, Merged, EnumsAt(Merged))
  <2>1. <<>> \in Seq(Declaration) /\ <<>> \o program.main = program.main
    BY <1>1
  <2>2. ClassesAt(<<>>) = {} /\ EnumsAt(<<>>) = {}
    BY DEF ClassesAt, EnumsAt
  <2>3. Current(<<>>, <<>>, {})
    BY DEF Current
  <2>4. /\ Current(Register(<<>>, ClassesIn(program.main)), <<>> \o program.main,
                   ClassesAt(<<>> \o program.main))
        /\ Current(Register(<<>>, EnumsIn(program.main)), <<>> \o program.main,
                   EnumsAt(<<>> \o program.main))
    BY <1>1, <2>1, <2>2, <2>3, TabulateFacts
  <2> QED BY <1>2, <2>1, <2>4 DEF Init
<1>4. InterfacesKnown
  BY <1>2 DEF Init, InterfacesKnown
<1>5. /\ \A n \in DOMAIN classes : n = classes[n].name /\ IsClass(classes[n])
      /\ \A n \in DOMAIN enums : n = enums[n].name /\ IsEnum(enums[n])
      /\ interfaces \subseteq DOMAIN classes
      /\ \A n \in DOMAIN classes : classes[n].kind = "interface" => n \in interfaces
  BY <1>1, <1>2, <1>3, <1>4, TablesFacts DEF InterfacesKnown
<1>6. TablesAreCurrent
  BY <1>3, <1>5 DEF TablesAreCurrent, ClassesAt, EnumsAt
<1>7. pending \in Seq(Paths) /\ ToSet(pending) = UsesOf(program.main)
  BY <1>1, NestedFacts DEF Init
<1>8. TypeOK
  <2>1. merged = {Key(declared[k].from, declared[k].decl) : k \in DOMAIN declared}
    BY DEF Init
  <2>2. declared \in Seq([from : Paths, decl : Declaration])
    BY DEF Init
  <2> QED BY <1>1, <1>5, <1>7, <2>1, <2>2 DEF Init, TypeOK
<1>9. OnTheWay
  <2>1. ToSet(pending) \subseteq Imports(program)
    BY <1>1, <1>7, ImportsFacts
  <2>2. Followed({})
    BY <1>7 DEF Followed
  <2> QED BY <2>1, <2>2 DEF OnTheWay
<1>10. AskedFor /\ ReadRight /\ BroughtRightly /\ BlamedRightly
  BY DEF Init, AskedFor, ReadRight, BroughtRightly, BlamedRightly
<1>11. ReportsWhatIsNotThere /\ BringsWhatIsReached /\ phase = "loading"
  BY DEF Init, ReportsWhatIsNotThere, BringsWhatIsReached
<1> QED BY <1>1, <1>4, <1>6, <1>8, <1>9, <1>10, <1>11 DEF IInv

(* Nothing that following an import left behind is taken back.               *)
LEMMA HandledStays ==
  ASSUME program' = program, errors \subseteq errors', requested \subseteq requested',
         DOMAIN symbols \subseteq DOMAIN symbols',
         \A k \in DOMAIN declared : k \in DOMAIN declared' /\ declared'[k] = declared[k],
         NEW p, Handled(p)
  PROVE  Handled(p)'
<1>1. (~ Readable(program, p) => Faults(program, p) \subseteq errors)'
  BY DEF Handled
<1>2. (Resolves(program, p) /\ SymbolOf(program, p) # Whole
         => <<p, ModuleOf(program, p), SymbolOf(program, p)>> \in requested)'
  BY DEF Handled
<1>3. (Readable(program, p) => ModuleOf(program, p) \in DOMAIN symbols)'
  BY DEF Handled
<1>4. (Readable(program, p) => \A n \in Brings(program, p) :
            \E k \in DOMAIN declared : /\ declared[k].from = ModuleOf(program, p)
                                       /\ Lower[declared[k].decl.name] = n)'
  <2> SUFFICES ASSUME Readable(program, p), NEW n \in Brings(program, p)
               PROVE  \E k \in DOMAIN declared' : /\ declared'[k].from = ModuleOf(program, p)
                                                  /\ Lower[declared'[k].decl.name] = n
    OBVIOUS
  <2>1. PICK k \in DOMAIN declared : /\ declared[k].from = ModuleOf(program, p)
                                     /\ Lower[declared[k].decl.name] = n
    BY DEF Handled
  <2> QED BY <2>1
<1> QED BY <1>1, <1>2, <1>3, <1>4 DEF Handled

(* A step that handles the top of the stack and pushes what it leads to.     *)
LEMMA OnTheWayStep ==
  ASSUME program \in Programs, OnTheWay, pending \in Seq(Paths), pending # <<>>,
         program' = program, errors \subseteq errors', requested \subseteq requested',
         DOMAIN symbols \subseteq DOMAIN symbols',
         \A k \in DOMAIN declared : k \in DOMAIN declared' /\ declared'[k] = declared[k],
         NEW path, path = Last(pending), Handled(path)',
         ToSet(pending') = ToSet(Front(pending)) \cup LeadsTo(program, path)
  PROVE  OnTheWay'
<1>1. ToSet(pending) = ToSet(Front(pending)) \cup {path}
  BY StackFacts
<1>2. path \in Imports(program) /\ ToSet(pending) \subseteq Imports(program)
  BY <1>1 DEF OnTheWay
<1>3. LeadsTo(program, path) \subseteq Imports(program)
  BY <1>2, ImportsFacts
<1>4. ToSet(pending') \subseteq Imports(program')
  BY <1>1, <1>2, <1>3
<1>5. PICK done \in SUBSET Imports(program) : Followed(done)
  BY DEF OnTheWay
<1> DEFINE now == done \cup {path}
<1>6. \A p \in now : Handled(p)'
  BY <1>5, HandledStays DEF Followed
<1>7. UsesOf(program.main) \subseteq now \cup ToSet(pending')
  BY <1>1, <1>5 DEF Followed
<1>8. \A p \in now : LeadsTo(program, p) \subseteq now \cup ToSet(pending')
  BY <1>1, <1>5 DEF Followed
<1> HIDE DEF now
<1>9. Followed(now)'
  BY <1>6, <1>7, <1>8 DEF Followed
<1>10. now \in SUBSET Imports(program')
  BY <1>2, <1>5 DEF now
<1> QED BY <1>4, <1>9, <1>10 DEF OnTheWay

(* What a step that brings nothing leaves as it is.                          *)
LEMMA NothingBrought ==
  ASSUME IInv, UNCHANGED <<program, symbols, merged, declared, classes, enums, interfaces>>
  PROVE  /\ program' \in Programs /\ ReadRight' /\ BroughtRightly' /\ InterfacesKnown'
         /\ TablesAreCurrent'
<1>1. Merged' = Merged
  BY DEF Merged
<1>2. program' \in Programs
  BY DEF IInv
<1>3. ReadRight'
  BY DEF IInv, ReadRight
<1>4. BroughtRightly'
  BY DEF IInv, BroughtRightly, Readables
<1>5. InterfacesKnown'
  BY <1>1 DEF IInv, InterfacesKnown
<1>6. TablesAreCurrent'
  BY <1>1 DEF IInv, TablesAreCurrent
<1> QED BY <1>2, <1>3, <1>4, <1>5, <1>6

LEMMA UnresolvedIInv ==
  ASSUME IInv, Unresolved
  PROVE  IInv'
<1>1. PICK path \in Paths : path = Last(pending) /\ path \in ToSet(pending)
  <2>1. pending \in Seq(Paths) /\ pending # <<>>
    BY DEF IInv, TypeOK, Unresolved
  <2>2. Last(pending) \in Paths /\ Last(pending) \in ToSet(pending)
    BY <2>1, TopOfStack
  <2> QED BY <2>2
<1>2. /\ program \in Programs /\ program' = program /\ pending \in Seq(Paths) /\ pending # <<>>
      /\ phase = "loading" /\ phase' = "loading" /\ ~ Resolves(program, path)
      /\ pending' = Front(pending) /\ requested' = requested /\ symbols' = symbols
      /\ declared' = declared
      /\ errors' = errors \cup {[kind |-> "unresolved", path |-> path]}
  BY <1>1 DEF IInv, TypeOK, Unresolved, Report
<1>3. ~ Readable(program, path) /\ LeadsTo(program, path) = {}
  BY <1>2 DEF Readable, LeadsTo
<1>4. Faults(program, path) = {[kind |-> "unresolved", path |-> path]}
  BY <1>2 DEF Faults
<1>5. /\ program' \in Programs /\ ReadRight' /\ BroughtRightly' /\ InterfacesKnown'
      /\ TablesAreCurrent'
  BY NothingBrought DEF Unresolved
<1>6. Handled(path)'
  BY <1>2, <1>3, <1>4 DEF Handled, Readable
<1>7. OnTheWay'
  BY <1>1, <1>2, <1>3, <1>6, OnTheWayStep DEF IInv
<1>8. TypeOK'
  <2>1. pending' \in Seq(Paths)
    BY <1>2, StackFacts
  <2>2. \A e \in errors' : e.kind \in {"unresolved", "syntax", "missing"} /\ e.path \in Paths
    BY <1>1, <1>2 DEF IInv, TypeOK
  <2> QED BY <2>1, <2>2, <1>2 DEF IInv, TypeOK, Unresolved
<1>9. BlamedRightly'
  <2>1. path \in Imports(program)
    BY <1>1 DEF IInv, OnTheWay
  <2> QED BY <2>1, <1>2, <1>3, <1>4 DEF IInv, BlamedRightly
<1>10. AskedFor'
  BY <1>2 DEF IInv, AskedFor
<1>11. ReportsWhatIsNotThere' /\ BringsWhatIsReached'
  BY <1>2 DEF ReportsWhatIsNotThere, BringsWhatIsReached
<1> QED BY <1>2, <1>5, <1>7, <1>8, <1>9, <1>10, <1>11 DEF IInv

(* A request names an import whose module is there.                          *)
LEMMA RequestFacts ==
  ASSUME IInv, NEW path \in Paths, path \in Imports(program), Resolves(program, path),
         program' = program, Request(path)
  PROVE  /\ AskedFor' /\ requested \subseteq requested'
         /\ \A r \in requested' : r[1] \in Paths /\ r[2] \in Paths /\ r[3] \in Names
         /\ SymbolOf(program, path) # Whole
              => <<path, ModuleOf(program, path), SymbolOf(program, path)>> \in requested'
<1>1. /\ ModuleOf(program, path) \in Paths
      /\ SymbolOf(program, path) # Whole => SymbolOf(program, path) \in Names
  BY PathFacts DEF IInv
<1>2. \A r \in requested : r[1] \in Paths /\ r[2] \in Paths /\ r[3] \in Names
  BY DEF IInv, TypeOK
<1>3. AskedFor'
  BY DEF Request, IInv, AskedFor
<1>4. \A r \in requested' : r[1] \in Paths /\ r[2] \in Paths /\ r[3] \in Names
  BY <1>1, <1>2 DEF Request
<1> QED BY <1>3, <1>4 DEF Request

LEMMA BrokenIInv ==
  ASSUME IInv, Broken
  PROVE  IInv'
<1>1. PICK path \in Paths : path = Last(pending) /\ path \in ToSet(pending)
  <2>1. pending \in Seq(Paths) /\ pending # <<>>
    BY DEF IInv, TypeOK, Broken
  <2>2. Last(pending) \in Paths /\ Last(pending) \in ToSet(pending)
    BY <2>1, TopOfStack
  <2> QED BY <2>2
<1>2. /\ program \in Programs /\ program' = program /\ pending \in Seq(Paths) /\ pending # <<>>
      /\ phase = "loading" /\ phase' = "loading" /\ Resolves(program, path)
      /\ Source(program, ModuleOf(program, path)) = Unparsable
      /\ pending' = Front(pending) /\ symbols' = symbols /\ declared' = declared
      /\ errors' = errors \cup {[kind |-> "syntax", path |-> ModuleOf(program, path)]}
      /\ Request(path)
  BY <1>1 DEF IInv, TypeOK, Broken, Report
<1>3. ~ Readable(program, path) /\ LeadsTo(program, path) = {}
  BY <1>2 DEF Readable, LeadsTo
<1>4. Faults(program, path) = {[kind |-> "syntax", path |-> ModuleOf(program, path)]}
  BY <1>2, <1>3 DEF Faults
<1>5. /\ program' \in Programs /\ ReadRight' /\ BroughtRightly' /\ InterfacesKnown'
      /\ TablesAreCurrent'
  BY NothingBrought DEF Broken
<1>6. path \in Imports(program)
  BY <1>1 DEF IInv, OnTheWay
<1>7. /\ AskedFor' /\ requested \subseteq requested'
      /\ \A r \in requested' : r[1] \in Paths /\ r[2] \in Paths /\ r[3] \in Names
      /\ SymbolOf(program, path) # Whole
           => <<path, ModuleOf(program, path), SymbolOf(program, path)>> \in requested'
  BY <1>2, <1>6, RequestFacts
<1>8. Handled(path)'
  BY <1>2, <1>3, <1>4, <1>7 DEF Handled
<1>9. OnTheWay'
  BY <1>1, <1>2, <1>3, <1>7, <1>8, OnTheWayStep DEF IInv
<1>10. TypeOK'
  <2>1. pending' \in Seq(Paths)
    BY <1>2, StackFacts
  <2>2. ModuleOf(program, path) \in Paths
    BY <1>2, PathFacts
  <2>3. \A e \in errors' : e.kind \in {"unresolved", "syntax", "missing"} /\ e.path \in Paths
    BY <2>2, <1>2 DEF IInv, TypeOK
  <2> QED BY <2>1, <2>3, <1>2, <1>7 DEF IInv, TypeOK, Broken
<1>11. BlamedRightly'
  BY <1>2, <1>3, <1>4, <1>6 DEF IInv, BlamedRightly
<1>12. ReportsWhatIsNotThere' /\ BringsWhatIsReached'
  BY <1>2 DEF ReportsWhatIsNotThere, BringsWhatIsReached
<1> QED BY <1>2, <1>5, <1>7, <1>9, <1>10, <1>11, <1>12 DEF IInv

(* What was appended, without the modules it came from.                      *)
Entry == [from : Paths, decl : Declaration]
Decls(s) == [k \in DOMAIN s |-> s[k].decl]

LEMMA DeclsType ==
  ASSUME NEW s \in Seq(Entry)
  PROVE  /\ Decls(s) \in Seq(Declaration) /\ Len(Decls(s)) = Len(s) /\ DOMAIN Decls(s) = DOMAIN s
         /\ \A k \in DOMAIN s : Decls(s)[k] = s[k].decl
<1>1. DOMAIN s = 1 .. Len(s) /\ Len(s) \in Nat
  OBVIOUS
<1>2. \A k \in 1 .. Len(s) : s[k] \in Entry
  OBVIOUS
<1>3. \A k \in 1 .. Len(s) : s[k].decl \in Declaration
  BY <1>2 DEF Entry
<1>4. Decls(s) = [k \in 1 .. Len(s) |-> s[k].decl]
  BY <1>1 DEF Decls
<1>5. Decls(s) \in Seq(Declaration)
  BY <1>1, <1>3, <1>4
<1>6. DOMAIN Decls(s) = 1 .. Len(s)
  BY <1>4
<1>7. Len(Decls(s)) = Len(s)
  BY <1>1, <1>5, <1>6
<1> QED BY <1>1, <1>4, <1>5, <1>6, <1>7

LEMMA DeclsAppended ==
  ASSUME NEW s \in Seq(Entry), NEW t \in Seq(Entry)
  PROVE  Decls(s \o t) = Decls(s) \o Decls(t)
<1> DEFINE st == s \o t
           a  == Decls(st)
           b  == Decls(s) \o Decls(t)
<1>1. st \in Seq(Entry) /\ Len(st) = Len(s) + Len(t) /\ Len(s) \in Nat /\ Len(t) \in Nat
  BY Appending
<1>2. DOMAIN st = DOMAIN s \cup {Len(s) + i : i \in DOMAIN t}
  BY Appending
<1>3. \A i \in DOMAIN s : st[i] = s[i]
  BY Appending
<1>4. \A i \in DOMAIN t : st[Len(s) + i] = t[i]
  BY Appending
<1> HIDE DEF st
<1>5. a \in Seq(Declaration) /\ DOMAIN a = DOMAIN st /\ \A k \in DOMAIN st : a[k] = st[k].decl
  BY <1>1, DeclsType
<1>6. /\ Decls(s) \in Seq(Declaration) /\ Len(Decls(s)) = Len(s) /\ DOMAIN Decls(s) = DOMAIN s
      /\ \A k \in DOMAIN s : Decls(s)[k] = s[k].decl
  BY DeclsType
<1>7. /\ Decls(t) \in Seq(Declaration) /\ DOMAIN Decls(t) = DOMAIN t
      /\ \A k \in DOMAIN t : Decls(t)[k] = t[k].decl
  BY DeclsType
<1>8. /\ b \in Seq(Declaration)
      /\ DOMAIN b = DOMAIN Decls(s) \cup {Len(Decls(s)) + i : i \in DOMAIN Decls(t)}
      /\ \A i \in DOMAIN Decls(s) : b[i] = Decls(s)[i]
      /\ \A i \in DOMAIN Decls(t) : b[Len(Decls(s)) + i] = Decls(t)[i]
  <2>1. PICK u \in Seq(Declaration), v \in Seq(Declaration) : u = Decls(s) /\ v = Decls(t)
    BY <1>6, <1>7
  <2>2. /\ u \o v \in Seq(Declaration)
        /\ DOMAIN (u \o v) = DOMAIN u \cup {Len(u) + i : i \in DOMAIN v}
        /\ \A i \in DOMAIN u : (u \o v)[i] = u[i]
        /\ \A i \in DOMAIN v : (u \o v)[Len(u) + i] = v[i]
    BY Appending
  <2> QED BY <2>1, <2>2
<1> HIDE DEF a, b
<1>9. DOMAIN b = DOMAIN s \cup {Len(s) + i : i \in DOMAIN t}
  BY <1>6, <1>7, <1>8
<1>10. DOMAIN a = DOMAIN b
  BY <1>2, <1>5, <1>9
<1>11. \A i \in DOMAIN s : a[i] = b[i]
  BY <1>2, <1>3, <1>5, <1>6, <1>8
<1>12. \A i \in DOMAIN t : a[Len(s) + i] = b[Len(s) + i]
  <2> SUFFICES ASSUME NEW i \in DOMAIN t PROVE a[Len(s) + i] = b[Len(s) + i]
    OBVIOUS
  <2>1. Len(s) + i \in DOMAIN st
    BY <1>2
  <2>2. a[Len(s) + i] = t[i].decl
    BY <2>1, <1>4, <1>5
  <2>3. b[Len(s) + i] = Decls(t)[i]
    BY <1>6, <1>7, <1>8
  <2> QED BY <2>2, <2>3, <1>7
<1>13. \A i \in DOMAIN b : a[i] = b[i]
  BY <1>9, <1>11, <1>12
<1>14. a = b
  <2>1. a = [i \in DOMAIN a |-> a[i]] /\ b = [i \in DOMAIN b |-> b[i]]
    BY <1>5, <1>8
  <2> QED BY <2>1, <1>10, <1>13
<1> QED BY <1>14 DEF a, b, st

LEMMA FromModule ==
  ASSUME NEW m \in Paths, NEW new \in Seq(Declaration),
         NEW more, more = [k \in DOMAIN new |-> [from |-> m, decl |-> new[k]]]
  PROVE  /\ more \in Seq(Entry) /\ DOMAIN more = DOMAIN new /\ Decls(more) = new
         /\ \A k \in DOMAIN new : more[k].from = m /\ more[k].decl = new[k]
<1>1. DOMAIN new = 1 .. Len(new) /\ Len(new) \in Nat
  OBVIOUS
<1>2. \A k \in 1 .. Len(new) : new[k] \in Declaration
  OBVIOUS
<1>3. \A k \in 1 .. Len(new) : [from |-> m, decl |-> new[k]] \in Entry
  BY <1>2 DEF Entry
<1>4. more \in Seq(Entry) /\ DOMAIN more = DOMAIN new
  BY <1>1, <1>3
<1>5. \A k \in DOMAIN new : more[k].from = m /\ more[k].decl = new[k]
  OBVIOUS
<1>6. Decls(more) = [k \in DOMAIN new |-> new[k]]
  BY <1>4, <1>5 DEF Decls
<1>7. new = [k \in DOMAIN new |-> new[k]]
  OBVIOUS
<1> QED BY <1>4, <1>5, <1>6, <1>7

(* A step that appends a list of declarations of a module.                   *)
LEMMA BroughtFacts ==
  ASSUME IInv, NEW m \in Paths, NEW new \in Seq(Declaration), program' = program,
         declared' = declared \o [k \in DOMAIN new |-> [from |-> m, decl |-> new[k]]]
  PROVE  /\ declared' \in Seq([from : Paths, decl : Declaration])
         /\ Merged \in Seq(Declaration) /\ Merged' = Merged \o new
         /\ \A k \in DOMAIN declared : k \in DOMAIN declared' /\ declared'[k] = declared[k]
         /\ \A d \in ToSet(new) :
              \E k \in DOMAIN declared' : declared'[k].from = m /\ declared'[k].decl = d
         /\ \A k \in DOMAIN declared' :
              \/ k \in DOMAIN declared
              \/ declared'[k].from = m /\ declared'[k].decl \in ToSet(new)
<1>1. declared \in Seq(Entry) /\ program.main \in Seq(Declaration)
  BY DEF IInv, TypeOK, Entry
<1>2. PICK more : more = [k \in DOMAIN new |-> [from |-> m, decl |-> new[k]]]
  OBVIOUS
<1>3. /\ more \in Seq(Entry) /\ DOMAIN more = DOMAIN new /\ Decls(more) = new
      /\ \A k \in DOMAIN new : more[k].from = m /\ more[k].decl = new[k]
  BY <1>2, FromModule
<1>4. declared' = declared \o more
  BY <1>2
<1>5. PICK s \in Seq(Entry) : s = declared
  BY <1>1
<1>6. PICK n \in Nat : n = Len(s)
  OBVIOUS
<1>7. /\ s \o more \in Seq(Entry)
      /\ DOMAIN (s \o more) = DOMAIN s \cup {n + i : i \in DOMAIN new}
      /\ \A i \in DOMAIN s : (s \o more)[i] = s[i]
      /\ \A i \in DOMAIN new : (s \o more)[n + i] = more[i]
  BY <1>3, <1>6, Appending
<1>8. PICK t : t = s \o more
  OBVIOUS
<1>9. /\ t \in Seq(Entry) /\ DOMAIN t = DOMAIN s \cup {n + i : i \in DOMAIN new}
      /\ \A i \in DOMAIN s : t[i] = s[i]
      /\ \A i \in DOMAIN new : t[n + i] = more[i]
      /\ declared' = t
  BY <1>4, <1>5, <1>7, <1>8
<1>10. \A k \in DOMAIN declared : k \in DOMAIN declared' /\ declared'[k] = declared[k]
  BY <1>5, <1>9
<1>11. \A d \in ToSet(new) : \E k \in DOMAIN t : t[k].from = m /\ t[k].decl = d
  <2> SUFFICES ASSUME NEW i \in DOMAIN new
               PROVE  \E k \in DOMAIN t : t[k].from = m /\ t[k].decl = new[i]
    BY DEF ToSet
  <2>1. n + i \in DOMAIN t /\ t[n + i] = more[i]
    BY <1>9
  <2> QED BY <2>1, <1>3
<1>12. \A k \in DOMAIN t : k \in DOMAIN s \/ (t[k].from = m /\ t[k].decl \in ToSet(new))
  <2> SUFFICES ASSUME NEW k \in DOMAIN t, k \notin DOMAIN s
               PROVE  t[k].from = m /\ t[k].decl \in ToSet(new)
    OBVIOUS
  <2>1. PICK i \in DOMAIN new : k = n + i
    BY <1>9
  <2>2. t[k] = more[i]
    BY <2>1, <1>9
  <2> QED BY <2>2, <1>3 DEF ToSet
<1>13. Merged = program.main \o Decls(s) /\ Merged' = program.main \o Decls(s \o more)
  BY <1>4, <1>5 DEF Merged, Decls
<1>14. Decls(s) \in Seq(Declaration)
  BY DeclsType
<1>15. Merged \in Seq(Declaration)
  BY <1>1, <1>13, <1>14
<1>16. Merged' = Merged \o new
  <2>1. Decls(s \o more) = Decls(s) \o new
    BY <1>3, DeclsAppended
  <2>2. (program.main \o Decls(s)) \o new = program.main \o (Decls(s) \o new)
    <3>1. PICK a \in Seq(Declaration), b \in Seq(Declaration) : a = program.main /\ b = Decls(s)
      BY <1>1, <1>14
    <3>2. (a \o b) \o new = a \o (b \o new)
      BY ConcatAssociative
    <3> QED BY <3>1, <3>2
  <2> QED BY <2>1, <2>2, <1>13
<1>17. declared' \in Seq([from : Paths, decl : Declaration])
  BY <1>9 DEF Entry
<1>18. \A d \in ToSet(new) :
         \E k \in DOMAIN declared' : declared'[k].from = m /\ declared'[k].decl = d
  BY <1>9, <1>11
<1>19. \A k \in DOMAIN declared' :
         \/ k \in DOMAIN declared
         \/ declared'[k].from = m /\ declared'[k].decl \in ToSet(new)
  BY <1>5, <1>9, <1>12
<1> QED BY <1>10, <1>15, <1>16, <1>17, <1>18, <1>19

(* What a readable import asks for.                                          *)
LEMMA AskedFacts ==
  ASSUME NEW prog \in Programs, NEW path \in Paths, Readable(prog, path),
         NEW m, m = ModuleOf(prog, path), NEW ds, ds = Source(prog, m),
         NEW symbol, symbol = SymbolOf(prog, path),
         NEW asked, asked = At(ds, Wanted(ds, symbol))
  PROVE  /\ m \in Paths /\ ds \in Seq(Declaration) /\ asked \in Seq(Declaration)
         /\ \A n \in Brings(prog, path) :
              \E d \in ToSet(asked) : d.kind # "use" /\ Lower[d.name] = n
         /\ \A d \in ToSet(asked) : d.kind # "use" => Lower[d.name] \in Brings(prog, path)
         /\ Nested(asked) \in Seq(Paths) /\ ToSet(Nested(asked)) = LeadsTo(prog, path)
<1>1. m \in Paths /\ ds \in Seq(Declaration) /\ (symbol # Whole => symbol \in Names)
  <2>1. Resolves(prog, path) /\ ds # Unparsable
    BY DEF Readable
  <2> QED BY <2>1, PathFacts
<1>2. /\ Brings(prog, path) = IF symbol = Whole THEN NamesOf(ds) ELSE LeastWith(ds, symbol)
      /\ LeadsTo(prog, path) = IF symbol = Whole THEN UsesOf(ds) ELSE {}
  BY DEF Brings, LeadsTo
<1>3. PICK W \in SUBSET (DOMAIN ds) : W = Wanted(ds, symbol)
  BY <1>1, WantedFacts
<1>4. /\ {Lower[ds[i].name] : i \in {j \in W : ds[j].kind # "use"}} = Brings(prog, path)
      /\ {ds[i].path : i \in {j \in W : ds[j].kind = "use"}} = LeadsTo(prog, path)
  BY <1>1, <1>2, <1>3, WantedFacts
<1>5. asked \in Seq(Declaration) /\ ToSet(asked) = {ds[i] : i \in W}
  BY <1>1, <1>3, AtMembers
<1>6. /\ \A n \in Brings(prog, path) :
           \E d \in ToSet(asked) : d.kind # "use" /\ Lower[d.name] = n
      /\ \A d \in ToSet(asked) : d.kind # "use" => Lower[d.name] \in Brings(prog, path)
      /\ UsesOf(asked) = LeadsTo(prog, path)
  BY <1>4, <1>5 DEF UsesOf
<1>7. Nested(asked) \in Seq(Paths) /\ ToSet(Nested(asked)) = LeadsTo(prog, path)
  BY <1>5, <1>6, NestedFacts
<1> QED BY <1>1, <1>5, <1>6, <1>7

LEMMA LoadPushes ==
  ASSUME IInv, Load
  PROVE  /\ pending' \in Seq(Paths)
         /\ ToSet(pending') = ToSet(Front(pending)) \cup LeadsTo(program, Last(pending))
<1>1. /\ program \in Programs /\ pending \in Seq(Paths) /\ pending # <<>>
      /\ Readable(program, Last(pending))
  BY DEF IInv, TypeOK, Load, Readable
<1>2. PICK path \in Paths : path = Last(pending)
  BY <1>1, StackFacts
<1>3. PICK m : m = ModuleOf(program, path)
  OBVIOUS
<1>4. PICK ds : ds = Source(program, m)
  OBVIOUS
<1>5. PICK symbol : symbol = SymbolOf(program, path)
  OBVIOUS
<1>6. PICK asked : asked = At(ds, Wanted(ds, symbol))
  OBVIOUS
<1>7. pending' = Front(pending) \o Nested(asked)
  BY <1>2, <1>3, <1>4, <1>5, <1>6 DEF Load
<1>8. Front(pending) \in Seq(Paths)
  BY <1>1, StackFacts
<1>9. Nested(asked) \in Seq(Paths) /\ ToSet(Nested(asked)) = LeadsTo(program, path)
  BY <1>1, <1>2, <1>3, <1>4, <1>5, <1>6, AskedFacts
<1>10. Front(pending) \o Nested(asked) \in Seq(Paths)
  BY <1>8, <1>9
<1>11. ToSet(Front(pending) \o Nested(asked)) = ToSet(Front(pending)) \cup ToSet(Nested(asked))
  BY <1>8, <1>9, AppendedMembers
<1> QED BY <1>2, <1>7, <1>9, <1>10, <1>11

LEMMA LoadIInv ==
  ASSUME IInv, Load
  PROVE  IInv'
<1>1. PICK path \in Paths : path = Last(pending) /\ path \in ToSet(pending)
  <2>1. pending \in Seq(Paths) /\ pending # <<>>
    BY DEF IInv, TypeOK, Load
  <2>2. Last(pending) \in Paths /\ Last(pending) \in ToSet(pending)
    BY <2>1, TopOfStack
  <2> QED BY <2>2
<1>2. PICK m : m = ModuleOf(program, path)
  OBVIOUS
<1>3. PICK ds : ds = Source(program, m)
  OBVIOUS
<1>4. PICK symbol : symbol = SymbolOf(program, path)
  OBVIOUS
<1>5. PICK asked : asked = At(ds, Wanted(ds, symbol))
  OBVIOUS
<1>6. PICK new : new = Fresh(merged, m, asked)
  OBVIOUS
<1>7. /\ program \in Programs /\ program' = program /\ pending \in Seq(Paths) /\ pending # <<>>
      /\ phase = "loading" /\ phase' = "loading" /\ errors' = errors
      /\ Resolves(program, path) /\ ds # Unparsable /\ Request(path)
  BY <1>1, <1>2, <1>3 DEF IInv, TypeOK, Load
<1>8. /\ symbols' = [k \in DOMAIN symbols \cup {m} |->
                        IF k = m THEN UNION {DeclName(d) : d \in ToSet(ds)} ELSE symbols[k]]
      /\ pending' = Front(pending) \o Nested(asked)
      /\ merged' = merged \cup {Key(m, d) : d \in ToSet(new)}
      /\ declared' = declared \o [k \in DOMAIN new |-> [from |-> m, decl |-> new[k]]]
      /\ Tabulate(new)
  BY <1>1, <1>2, <1>3, <1>4, <1>5, <1>6 DEF Load
(* What the import asks for. *)
<1>9. Readable(program, path) /\ path \in Imports(program)
  BY <1>1, <1>2, <1>3, <1>7 DEF IInv, OnTheWay, Readable
<1>10. /\ m \in Paths /\ ds \in Seq(Declaration) /\ asked \in Seq(Declaration)
       /\ \A n \in Brings(program, path) :
            \E d \in ToSet(asked) : d.kind # "use" /\ Lower[d.name] = n
       /\ \A d \in ToSet(asked) : d.kind # "use" => Lower[d.name] \in Brings(program, path)
       /\ Nested(asked) \in Seq(Paths) /\ ToSet(Nested(asked)) = LeadsTo(program, path)
  BY <1>2, <1>3, <1>4, <1>5, <1>7, <1>9, AskedFacts
<1>15. /\ new \in Seq(Declaration)
       /\ \A d \in ToSet(new) : d \in ToSet(asked) /\ d.kind # "use"
       /\ \A d \in ToSet(asked) : d.kind # "use" =>
            Key(m, d) \in merged \cup {Key(m, e) : e \in ToSet(new)}
  BY <1>6, <1>10, FreshFacts
(* What the step does. *)
<1>16. /\ declared' \in Seq([from : Paths, decl : Declaration])
       /\ Merged \in Seq(Declaration) /\ Merged' = Merged \o new
       /\ \A k \in DOMAIN declared : k \in DOMAIN declared' /\ declared'[k] = declared[k]
       /\ \A d \in ToSet(new) :
            \E k \in DOMAIN declared' : declared'[k].from = m /\ declared'[k].decl = d
       /\ \A k \in DOMAIN declared' :
            \/ k \in DOMAIN declared
            \/ declared'[k].from = m /\ declared'[k].decl \in ToSet(new)
  BY <1>7, <1>8, <1>10, <1>15, BroughtFacts
<1>17. /\ AskedFor' /\ requested \subseteq requested'
       /\ \A r \in requested' : r[1] \in Paths /\ r[2] \in Paths /\ r[3] \in Names
       /\ symbol # Whole => <<path, m, symbol>> \in requested'
  BY <1>2, <1>4, <1>7, <1>9, RequestFacts
<1>18. pending' \in Seq(Paths) /\ ToSet(pending') = ToSet(Front(pending)) \cup LeadsTo(program, path)
  BY <1>1, LoadPushes
<1>19. DOMAIN symbols' = DOMAIN symbols \cup {m} /\ symbols'[m] = NamesOf(ds)
         /\ \A k \in DOMAIN symbols \ {m} : symbols'[k] = symbols[k]
  BY <1>8 DEF NamesOf
<1>20. merged' = {Key(declared'[k].from, declared'[k].decl) : k \in DOMAIN declared'}
  <2>1. merged = {Key(declared[k].from, declared[k].decl) : k \in DOMAIN declared}
    BY DEF IInv, TypeOK
  <2>2. \A x \in merged' : \E k \in DOMAIN declared' : x = Key(declared'[k].from, declared'[k].decl)
    <3> SUFFICES ASSUME NEW x \in merged'
                 PROVE  \E k \in DOMAIN declared' : x = Key(declared'[k].from, declared'[k].decl)
      OBVIOUS
    <3>1. CASE x \in merged
      BY <3>1, <2>1, <1>16
    <3>2. CASE x \notin merged
      BY <3>2, <1>8, <1>16
    <3> QED BY <3>1, <3>2
  <2>3. \A k \in DOMAIN declared' : Key(declared'[k].from, declared'[k].decl) \in merged'
    <3> SUFFICES ASSUME NEW k \in DOMAIN declared'
                 PROVE  Key(declared'[k].from, declared'[k].decl) \in merged'
      OBVIOUS
    <3>1. CASE k \in DOMAIN declared
      <4>1. declared'[k] = declared[k]
        BY <3>1, <1>16
      <4>2. Key(declared[k].from, declared[k].decl) \in merged
        BY <3>1, <2>1
      <4> QED BY <4>1, <4>2, <1>8
    <3>2. CASE declared'[k].from = m /\ declared'[k].decl \in ToSet(new)
      <4>1. Key(m, declared'[k].decl) \in merged'
        BY <3>2, <1>8
      <4> QED BY <4>1, <3>2
    <3> QED BY <3>1, <3>2, <1>16
  <2> QED BY <2>2, <2>3
(* The tables. *)
<1>21. /\ Current(classes', Merged', ClassesAt(Merged'))
       /\ Current(enums', Merged', EnumsAt(Merged'))
       /\ interfaces' = InterfacesIn(Merged')
  <2>1. /\ Current(classes, Merged, ClassesAt(Merged)) /\ Current(enums, Merged, EnumsAt(Merged))
        /\ interfaces = InterfacesIn(Merged)
    BY DEF IInv, TablesAreCurrent, InterfacesKnown, ClassesAt, EnumsAt
  <2>2. PICK old \in Seq(Declaration) : old = Merged
    BY <1>16
  <2>3. /\ classes' = Register(classes, ClassesIn(new)) /\ enums' = Register(enums, EnumsIn(new))
        /\ interfaces' = interfaces \cup InterfacesIn(new)
    BY <1>8 DEF Tabulate
  <2>4. /\ Current(classes', old \o new, ClassesAt(old \o new))
        /\ Current(enums', old \o new, EnumsAt(old \o new))
        /\ interfaces' = InterfacesIn(old \o new)
    BY <2>1, <2>2, <2>3, <1>15, TabulateFacts
  <2> QED BY <2>2, <2>4, <1>16
<1>22. Merged' \in Seq(Declaration)
  BY <1>15, <1>16
<1>23. /\ \A n \in DOMAIN classes' : n = classes'[n].name /\ IsClass(classes'[n])
       /\ \A n \in DOMAIN enums' : n = enums'[n].name /\ IsEnum(enums'[n])
       /\ interfaces' \subseteq DOMAIN classes'
       /\ \A n \in DOMAIN classes' : classes'[n].kind = "interface" => n \in interfaces'
  BY <1>21, <1>22, TablesFacts
<1>24. TablesAreCurrent' /\ InterfacesKnown'
  BY <1>21, <1>23 DEF TablesAreCurrent, InterfacesKnown, ClassesAt, EnumsAt
(* The invariant. *)
<1>25. \A k \in DOMAIN symbols' : k \in Paths /\ symbols'[k] \subseteq Names
  <2>1. NamesOf(ds) \subseteq Names
    BY <1>10, DeclarationFacts DEF NamesOf, ToSet
  <2> QED BY <2>1, <1>10, <1>19 DEF IInv, TypeOK
<1>26. TypeOK'
  BY <1>7, <1>16, <1>17, <1>18, <1>20, <1>23, <1>25 DEF IInv, TypeOK
<1>27. Handled(path)'
  <2>1. \A n \in Brings(program, path) :
          \E k \in DOMAIN declared' : declared'[k].from = m /\ Lower[declared'[k].decl.name] = n
    <3> SUFFICES ASSUME NEW n \in Brings(program, path)
                 PROVE  \E k \in DOMAIN declared' :
                          declared'[k].from = m /\ Lower[declared'[k].decl.name] = n
      OBVIOUS
    <3>1. PICK d \in ToSet(asked) : d.kind # "use" /\ Lower[d.name] = n
      BY <1>10
    <3>2. Key(m, d) \in merged'
      BY <3>1, <1>8, <1>15
    <3>3. PICK k \in DOMAIN declared' : Key(m, d) = Key(declared'[k].from, declared'[k].decl)
      BY <3>2, <1>20
    <3> QED BY <3>1, <3>3 DEF Key
  <2> QED BY <2>1, <1>2, <1>4, <1>7, <1>9, <1>17, <1>19 DEF Handled
<1>28. OnTheWay'
  BY <1>1, <1>7, <1>16, <1>17, <1>18, <1>19, <1>27, OnTheWayStep DEF IInv
<1>29. ReadRight'
  BY <1>3, <1>7, <1>19 DEF IInv, ReadRight
<1>30. BroughtRightly'
  <2> SUFFICES ASSUME NEW k \in DOMAIN declared'
               PROVE  \E p \in Readables(program) :
                        /\ declared'[k].from = ModuleOf(program, p)
                        /\ Lower[declared'[k].decl.name] \in Brings(program, p)
    BY <1>7 DEF BroughtRightly
  <2>1. CASE k \in DOMAIN declared
    BY <2>1, <1>16 DEF IInv, BroughtRightly
  <2>2. CASE declared'[k].from = m /\ declared'[k].decl \in ToSet(new)
    <3>1. path \in Readables(program)
      BY <1>9 DEF Readables
    <3>2. Lower[declared'[k].decl.name] \in Brings(program, path)
      BY <2>2, <1>10, <1>15
    <3> QED BY <2>2, <3>1, <3>2, <1>2
  <2> QED BY <2>1, <2>2, <1>16
<1>31. BlamedRightly'
  BY <1>7 DEF IInv, BlamedRightly
<1>32. ReportsWhatIsNotThere' /\ BringsWhatIsReached'
  BY <1>7 DEF ReportsWhatIsNotThere, BringsWhatIsReached
<1> QED BY <1>7, <1>17, <1>24, <1>26, <1>28, <1>29, <1>30, <1>31, <1>32 DEF IInv

LEMMA FinishIInv ==
  ASSUME IInv, Finish
  PROVE  IInv'
<1>1. /\ program \in Programs /\ program' = program /\ pending = <<>> /\ pending' = <<>>
      /\ phase = "loading" /\ phase' = "loaded" /\ requested' = requested
      /\ symbols' = symbols /\ declared' = declared
      /\ errors' = errors \cup {[kind |-> "missing", path |-> r[1]] :
                                  r \in {q \in requested : Missing(q)}}
  BY DEF IInv, Finish
<1>2. /\ program' \in Programs /\ ReadRight' /\ BroughtRightly' /\ InterfacesKnown'
      /\ TablesAreCurrent'
  BY NothingBrought DEF Finish
<1>3. PICK done \in SUBSET Imports(program) : Followed(done)
  BY DEF IInv, OnTheWay
<1>4. ToSet(pending) = {}
  BY <1>1 DEF ToSet
<1>5. done = Imports(program)
  <2>1. UsesOf(program.main) \subseteq done /\ \A p \in done : LeadsTo(program, p) \subseteq done
    BY <1>3, <1>4 DEF Followed
  <2>2. Imports(program) \subseteq done
    BY <2>1, <1>1, ImportsFacts
  <2> QED BY <2>2
<1>6. \A p \in Imports(program) : Handled(p) /\ Handled(p)'
  BY <1>1, <1>3, <1>5, HandledStays DEF Followed
<1>7. OnTheWay'
  <2>1. ToSet(pending') = {}
    BY <1>1 DEF ToSet
  <2>2. Followed(done)'
    BY <1>1, <1>3, <1>4, <1>5, <1>6, <2>1 DEF Followed
  <2>3. done \in SUBSET Imports(program')
    BY <1>1, <1>3
  <2> QED BY <2>1, <2>2, <2>3 DEF OnTheWay
<1>8. TypeOK'
  <2>1. \A r \in requested : r[1] \in Paths
    BY DEF IInv, TypeOK
  <2>2. \A e \in errors' : e.kind \in {"unresolved", "syntax", "missing"} /\ e.path \in Paths
    BY <2>1, <1>1 DEF IInv, TypeOK
  <2> QED BY <2>2, <1>1 DEF IInv, TypeOK, Finish
<1>9. AskedFor'
  BY <1>1 DEF IInv, AskedFor
<1>10. \A p \in Imports(program) : Faults(program, p) \subseteq errors'
  <2> SUFFICES ASSUME NEW p \in Imports(program), NEW e \in Faults(program, p)
               PROVE  e \in errors'
    OBVIOUS
  <2>1. CASE ~ Readable(program, p)
    BY <2>1, <1>1, <1>6 DEF Handled
  <2>2. CASE Readable(program, p)
    <3>1. /\ SymbolOf(program, p) # Whole /\ Resolves(program, p)
          /\ Lower[SymbolOf(program, p)] \notin NamesOf(Source(program, ModuleOf(program, p)))
          /\ e = [kind |-> "missing", path |-> p]
      BY <2>2 DEF Faults, Readable
    <3>2. <<p, ModuleOf(program, p), SymbolOf(program, p)>> \in requested
      BY <3>1, <1>6 DEF Handled
    <3>3. /\ ModuleOf(program, p) \in DOMAIN symbols
          /\ symbols[ModuleOf(program, p)] = NamesOf(Source(program, ModuleOf(program, p)))
      BY <2>2, <1>6 DEF Handled, IInv, ReadRight
    <3>4. Missing(<<p, ModuleOf(program, p), SymbolOf(program, p)>>)
      BY <3>1, <3>3 DEF Missing
    <3> QED BY <3>1, <3>2, <3>4, <1>1
  <2> QED BY <2>1, <2>2
<1>11. \A e \in errors' : \E p \in Imports(program) : e \in Faults(program, p)
  <2> SUFFICES ASSUME NEW e \in errors'
               PROVE  \E p \in Imports(program) : e \in Faults(program, p)
    OBVIOUS
  <2>1. CASE e \in errors
    BY <2>1, <1>1 DEF IInv, BlamedRightly
  <2>2. CASE e \notin errors
    <3>1. PICK r \in requested : Missing(r) /\ e = [kind |-> "missing", path |-> r[1]]
      BY <2>2, <1>1
    <3>2. PICK p \in Imports(program) :
            /\ Resolves(program, p) /\ SymbolOf(program, p) # Whole
            /\ r = <<p, ModuleOf(program, p), SymbolOf(program, p)>>
      BY <3>1 DEF IInv, AskedFor
    <3>3. /\ ModuleOf(program, p) \in DOMAIN symbols
          /\ Lower[SymbolOf(program, p)] \notin symbols[ModuleOf(program, p)]
      BY <3>1, <3>2 DEF Missing
    <3>4. /\ Source(program, ModuleOf(program, p)) # Unparsable
          /\ symbols[ModuleOf(program, p)] = NamesOf(Source(program, ModuleOf(program, p)))
      BY <3>3 DEF IInv, ReadRight
    <3>5. Readable(program, p)
      BY <3>2, <3>4 DEF Readable
    <3>6. Faults(program, p) = {[kind |-> "missing", path |-> p]}
      BY <3>2, <3>3, <3>4, <3>5 DEF Faults
    <3> QED BY <3>1, <3>2, <3>6
  <2> QED BY <2>1, <2>2
<1>12. ReportsWhatIsNotThere'
  <2>1. errors' = UNION {Faults(program, p) : p \in Imports(program)}
    BY <1>10, <1>11
  <2> QED BY <2>1, <1>1 DEF ReportsWhatIsNotThere
<1>13. BringsWhatIsReached'
  <2> DEFINE got == {<<Home(d.from), Lower[d.decl.name]>> : d \in ToSet(declared)}
             due == UNION {{<<Home(ModuleOf(program, p)), n>> : n \in Brings(program, p)} :
                              p \in {q \in Imports(program) : Readable(program, q)}}
  <2>1. ASSUME NEW x \in got PROVE x \in due
    <3>1. PICK k \in DOMAIN declared : x = <<Home(declared[k].from), Lower[declared[k].decl.name]>>
      BY DEF ToSet
    <3>2. PICK p \in Readables(program) :
            /\ declared[k].from = ModuleOf(program, p)
            /\ Lower[declared[k].decl.name] \in Brings(program, p)
      BY DEF IInv, BroughtRightly
    <3> QED BY <3>1, <3>2 DEF Readables
  <2>2. ASSUME NEW x \in due PROVE x \in got
    <3>1. PICK p \in Imports(program) :
            Readable(program, p) /\ x \in {<<Home(ModuleOf(program, p)), n>> : n \in Brings(program, p)}
      OBVIOUS
    <3>2. PICK n \in Brings(program, p) : x = <<Home(ModuleOf(program, p)), n>>
      BY <3>1
    <3>3. PICK k \in DOMAIN declared : /\ declared[k].from = ModuleOf(program, p)
                                       /\ Lower[declared[k].decl.name] = n
      BY <3>1, <1>6 DEF Handled
    <3>4. x = <<Home(declared[k].from), Lower[declared[k].decl.name]>>
      BY <3>2, <3>3
    <3> QED BY <3>4 DEF ToSet
  <2>3. got = due
    BY <2>1, <2>2
  <2> QED BY <2>3, <1>1 DEF BringsWhatIsReached
<1> QED BY <1>1, <1>2, <1>7, <1>8, <1>9, <1>12, <1>13 DEF IInv

LEMMA StutterIInv ==
  ASSUME IInv, UNCHANGED vars
  PROVE  IInv'
<1>1. /\ program' = program /\ pending' = pending /\ requested' = requested /\ symbols' = symbols
      /\ merged' = merged /\ declared' = declared /\ classes' = classes /\ enums' = enums
      /\ interfaces' = interfaces /\ errors' = errors /\ phase' = phase
  BY DEF vars
<1>2. /\ program' \in Programs /\ ReadRight' /\ BroughtRightly' /\ InterfacesKnown'
      /\ TablesAreCurrent'
  BY <1>1, NothingBrought
<1>3. TypeOK'
  BY <1>1 DEF IInv, TypeOK
<1>4. OnTheWay'
  <2>1. PICK done \in SUBSET Imports(program) : Followed(done)
    BY DEF IInv, OnTheWay
  <2>2. Followed(done)'
    BY <1>1, <2>1, HandledStays DEF Followed
  <2> QED BY <1>1, <2>1, <2>2 DEF IInv, OnTheWay
<1>5. AskedFor'
  BY <1>1 DEF IInv, AskedFor
<1>6. phase' = "loading" => BlamedRightly'
  BY <1>1 DEF IInv, BlamedRightly
<1>7. phase' = "loaded" => pending' = <<>>
  BY <1>1 DEF IInv
<1>8. ReportsWhatIsNotThere'
  BY <1>1 DEF IInv, ReportsWhatIsNotThere
<1>9. BringsWhatIsReached'
  BY <1>1 DEF IInv, BringsWhatIsReached
<1> QED BY <1>2, <1>3, <1>4, <1>5, <1>6, <1>7, <1>8, <1>9 DEF IInv

LEMMA NextIInv == IInv /\ [Next]_vars => IInv'
<1> SUFFICES ASSUME IInv, [Next]_vars PROVE IInv'
  OBVIOUS
<1>1. CASE Unresolved
  BY <1>1, UnresolvedIInv
<1>2. CASE Broken
  BY <1>2, BrokenIInv
<1>3. CASE Load
  BY <1>3, LoadIInv
<1>4. CASE Finish
  BY <1>4, FinishIInv
<1>5. CASE UNCHANGED vars
  BY <1>5, StutterIInv
<1> QED BY <1>1, <1>2, <1>3, <1>4, <1>5 DEF Next

LEMMA Invariant == Spec => []IInv
<1>1. Init => IInv
  BY InitIInv
<1>2. IInv /\ [Next]_vars => IInv'
  BY NextIInv
<1> QED BY <1>1, <1>2, PTL DEF Spec

(* Every variable of the loader has the type the code gives it, whatever     *)
(* the files say (semantic/mod.rs:524-669).                                  *)
THEOREM LoaderTypeOK == Spec => []TypeOK
<1>1. IInv => TypeOK
  BY DEF IInv
<1> QED BY <1>1, Invariant, PTL

(* When loading has ended the program has exactly what its imports mean: the *)
(* stack, the order and the module table are not to be seen in the result    *)
(* (semantic/mod.rs:552-651).                                                *)
THEOREM LoaderBringsWhatIsReached == Spec => []BringsWhatIsReached
<1>1. IInv => BringsWhatIsReached
  BY DEF IInv
<1> QED BY <1>1, Invariant, PTL

(* Exactly the imports that lead nowhere are reported, each for its own      *)
(* reason (semantic/mod.rs:559-613, 653-669).                                *)
THEOREM LoaderReportsWhatIsNotThere == Spec => []ReportsWhatIsNotThere
<1>1. IInv => ReportsWhatIsNotThere
  BY DEF IInv
<1> QED BY <1>1, Invariant, PTL

(* After every step the class and enum tables have, for each name, the last  *)
(* declaration that was appended, and the interfaces among them are known    *)
(* (semantic/mod.rs:92-109, 641-647).                                        *)
THEOREM LoaderTablesAreCurrent == Spec => []TablesAreCurrent
<1>1. IInv => TablesAreCurrent
  BY DEF IInv
<1> QED BY <1>1, Invariant, PTL
-----------------------------------------------------------------------------
(***************************************************************************)
(* A module that leads back to itself keeps the loader busy.                 *)
(***************************************************************************)

(* What several imports lead to, one of them leads to.                       *)
LEMMA FromOne ==
  ASSUME NEW prog \in Programs, NEW start \in SUBSET AllImports(prog),
         NEW p \in ImportsFrom(prog, start)
  PROVE  \E q \in start : p \in ImportsFrom(prog, {q})
<1> DEFINE T == UNION {ImportsFrom(prog, {q}) : q \in start}
<1>1. \A q \in start : /\ {q} \subseteq ImportsFrom(prog, {q})
                       /\ \A x \in ImportsFrom(prog, {q}) :
                            LeadsTo(prog, x) \subseteq ImportsFrom(prog, {q})
  BY ImportsFromFacts
<1>2. start \subseteq T
  BY <1>1
<1>3. \A x \in T : LeadsTo(prog, x) \subseteq T
  BY <1>1
<1> HIDE DEF T
<1>4. ImportsFrom(prog, start) \subseteq T
  BY <1>2, <1>3, ImportsFromFacts
<1>5. p \in T
  BY <1>4
<1> QED BY <1>5 DEF T

LEMMA FromNext ==
  ASSUME NEW prog \in Programs, NEW q \in AllImports(prog), NEW p \in ImportsFrom(prog, {q}), p # q
  PROVE  p \in ImportsFrom(prog, LeadsTo(prog, q))
<1> DEFINE R == ImportsFrom(prog, LeadsTo(prog, q))
           T == {q} \cup R
<1>1. LeadsTo(prog, q) \in SUBSET AllImports(prog)
  BY AllImportsFacts
<1>2. LeadsTo(prog, q) \subseteq R /\ \A x \in R : LeadsTo(prog, x) \subseteq R
  BY <1>1, ImportsFromFacts
<1>3. {q} \subseteq T /\ \A x \in T : LeadsTo(prog, x) \subseteq T
  BY <1>2
<1> HIDE DEF T
<1>4. ImportsFrom(prog, {q}) \subseteq T
  BY <1>3, ImportsFromFacts
<1> QED BY <1>4 DEF T

(* Whatever lies on a cycle, something on the stack leads to it.             *)
LoopsPending ==
  \A p \in Imports(program) :
    p \in ImportsFrom(program, LeadsTo(program, p))
      => \E q \in ToSet(pending) : p \in ImportsFrom(program, {q})

Busy == ~ Acyclic(program) => LoopsPending /\ phase = "loading"

LEMMA InitBusy == Init => Busy
<1> SUFFICES ASSUME Init PROVE LoopsPending /\ phase = "loading"
  BY DEF Busy
<1>1. program \in Programs /\ program.main \in Seq(Declaration)
  BY LoaderAssumption DEF Init
<1>2. ToSet(pending) = UsesOf(program.main)
  BY <1>1, NestedFacts DEF Init
<1>3. UsesOf(program.main) \in SUBSET AllImports(program)
  BY <1>1, AllImportsFacts
<1>4. \A p \in Imports(program) : \E q \in ToSet(pending) : p \in ImportsFrom(program, {q})
  BY <1>1, <1>2, <1>3, FromOne DEF Imports
<1> QED BY <1>4 DEF Init, LoopsPending

LEMMA Pushes ==
  ASSUME IInv, Unresolved \/ Broken \/ Load
  PROVE  /\ program' = program /\ phase' = "loading"
         /\ pending \in Seq(Paths) /\ pending # <<>> /\ Last(pending) \in Imports(program)
         /\ ToSet(pending') = ToSet(Front(pending)) \cup LeadsTo(program, Last(pending))
<1>1. /\ program' = program /\ phase' = "loading" /\ pending \in Seq(Paths) /\ pending # <<>>
  BY DEF IInv, TypeOK, Unresolved, Broken, Load
<1>2. Last(pending) \in Imports(program)
  BY <1>1, StackFacts DEF IInv, OnTheWay
<1>3. CASE Unresolved \/ Broken
  <2>1. pending' = Front(pending) /\ LeadsTo(program, Last(pending)) = {}
    BY <1>3 DEF Unresolved, Broken, LeadsTo, Readable
  <2> QED BY <2>1, <1>1, <1>2
<1>4. CASE Load
  BY <1>1, <1>2, <1>4, LoadPushes
<1> QED BY <1>3, <1>4

LEMMA NextBusy == IInv /\ Busy /\ [Next]_vars => Busy'
<1> SUFFICES ASSUME IInv, Busy, [Next]_vars PROVE Busy'
  OBVIOUS
<1>1. CASE Unresolved \/ Broken \/ Load
  <2>1. /\ program' = program /\ phase' = "loading"
        /\ pending \in Seq(Paths) /\ pending # <<>> /\ Last(pending) \in Imports(program)
        /\ ToSet(pending') = ToSet(Front(pending)) \cup LeadsTo(program, Last(pending))
    BY <1>1, Pushes
  <2>2. PICK path : path = Last(pending)
    OBVIOUS
  <2>3. /\ program \in Programs /\ path \in AllImports(program) /\ path \in Paths
        /\ ToSet(pending) = ToSet(Front(pending)) \cup {path}
    <3>1. program \in Programs
      BY DEF IInv
    <3>2. UsesOf(program.main) \in SUBSET AllImports(program)
      BY <3>1, AllImportsFacts
    <3>3. path \in AllImports(program)
      BY <2>1, <2>2, <3>1, <3>2, ImportsFromFacts DEF Imports
    <3>4. path \in Paths
      BY <3>1, <3>3, AllImportsFacts
    <3> QED BY <3>1, <3>3, <3>4, <2>1, <2>2, StackFacts
  <2>4. ASSUME LoopsPending,
               NEW p \in Imports(program), p \in ImportsFrom(program, LeadsTo(program, p))
        PROVE  \E q \in ToSet(pending') : p \in ImportsFrom(program, {q})
    <3>1. PICK q \in ToSet(pending) : p \in ImportsFrom(program, {q})
      BY <2>4 DEF LoopsPending
    <3>2. CASE q \in ToSet(Front(pending))
      BY <3>1, <3>2, <2>1
    <3>3. CASE q = path
      <4>1. p \in ImportsFrom(program, LeadsTo(program, path))
        BY <3>1, <3>3, <2>3, <2>4, FromNext
      <4>2. LeadsTo(program, path) \in SUBSET AllImports(program)
        BY <2>3, AllImportsFacts
      <4>3. \E r \in LeadsTo(program, path) : p \in ImportsFrom(program, {r})
        BY <4>1, <4>2, <2>3, FromOne
      <4> QED BY <4>3, <2>1, <2>2
    <3> QED BY <3>1, <3>2, <3>3, <2>3
  <2> QED BY <2>1, <2>4 DEF Busy, LoopsPending
<1>2. CASE Finish
  <2>1. ToSet(pending) = {} /\ program' = program
    BY <1>2 DEF Finish, ToSet
  <2>2. Acyclic(program)
    BY <2>1 DEF Busy, LoopsPending, Acyclic
  <2> QED BY <2>1, <2>2 DEF Busy
<1>3. CASE UNCHANGED vars
  BY <1>3 DEF vars, Busy, LoopsPending
<1> QED BY <1>1, <1>2, <1>3 DEF Next

(* If a module that is imported whole leads back to itself, the loader never *)
(* comes to an end: its `use` lines are pushed again every time it is met    *)
(* (semantic/mod.rs:630-633, 650).                                           *)
THEOREM LoaderNeverEndsIfCyclic == Spec => NeverEndsIfCyclic
<1>1. Init => Busy
  BY InitBusy
<1>2. IInv /\ Busy /\ [Next]_vars => Busy'
  BY NextBusy
<1>3. Spec => []Busy
  BY <1>1, <1>2, Invariant, PTL DEF Spec
<1>4. ~ Acyclic(program) /\ [Next]_vars => ~ Acyclic(program)'
  BY DEF Next, vars, Unresolved, Broken, Load, Finish
<1>5. Busy /\ ~ Acyclic(program) => phase = "loading"
  BY DEF Busy
<1> QED BY <1>3, <1>4, <1>5, PTL DEF Spec, NeverEndsIfCyclic
=============================================================================
