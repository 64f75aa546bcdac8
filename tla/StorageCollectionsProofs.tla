----------------------- MODULE StorageCollectionsProofs -----------------------
(***************************************************************************)
(* Proofs about StorageCollections, for every set of fields, every width of a  *)
(* word and every layout of structs, where the address rules agree (Sound).    *)
(***************************************************************************)
EXTENDS StorageCollections, TLAPS

-----------------------------------------------------------------------------
(* Division.                                                                *)

LEMMA Divided ==
  ASSUME NEW a \in Nat, NEW n \in Nat \ {0}
  PROVE  /\ a \div n \in Nat /\ a % n \in 0 .. n - 1
         /\ a = n * (a \div n) + (a % n)
<1>1. a \div n \in Nat
  BY SMT
<1>2. a % n \in 0 .. n - 1
  BY SMT
<1>3. a = n * (a \div n) + (a % n)
  BY SMT
<1> QED BY <1>1, <1>2, <1>3

LEMMA DividesEvenly ==
  ASSUME NEW a \in Nat, NEW n \in Nat \ {0}, a % n = 0
  PROVE  a \div n \in Nat /\ a = n * (a \div n)
<1>1. a \div n \in Nat /\ a = n * (a \div n) + (a % n)
  BY Divided
<1>2. n * (a \div n) \in Nat
  BY <1>1, SMT
<1> QED BY <1>1, <1>2

LEMMA Times ==
  ASSUME NEW a \in Nat, NEW b \in Nat, NEW n \in Nat
  PROVE  /\ a * n \in Nat /\ n * a = a * n
         /\ a < b => a * n + n <= b * n
         /\ a <= b => a * n <= b * n
<1>1. PICK c \in Int : c = b - a
  OBVIOUS
<1>2. b * n = a * n + c * n
  BY <1>1, SMT
<1>3. a < b => c * n >= n
  BY <1>1, SMT
<1>4. a <= b => c * n >= 0
  BY <1>1, SMT
<1>5. a * n \in Nat /\ n * a = a * n /\ c * n \in Int
  BY SMT
<1> QED BY <1>2, <1>3, <1>4, <1>5

LEMMA DividedBelow ==
  ASSUME NEW a \in Nat, NEW b \in Nat, NEW n \in Nat \ {0}
  PROVE  /\ a < b * n => a \div n < b
         /\ a >= b * n => a \div n >= b
<1>1. a \div n \in Nat /\ a % n \in 0 .. n - 1 /\ a = n * (a \div n) + (a % n)
  BY Divided
<1>2. a < b * n => a \div n < b
  <2>1. SUFFICES ASSUME b <= a \div n PROVE b * n <= a
    BY <1>1, SMT
  <2>2. b * n <= (a \div n) * n /\ n * (a \div n) = (a \div n) * n
    BY <1>1, <2>1, Times
  <2> QED BY <1>1, <2>2, SMT
<1>3. a >= b * n => a \div n >= b
  <2>1. SUFFICES ASSUME a \div n < b PROVE a < b * n
    BY <1>1, SMT
  <2>2. (a \div n) * n + n <= b * n /\ n * (a \div n) = (a \div n) * n
    BY <1>1, <2>1, Times
  <2> QED BY <1>1, <2>2, SMT
<1> QED BY <1>2, <1>3

(* CeilDiv(a, n) is the least number of n's that hold a.                       *)
LEMMA Ceiling ==
  ASSUME NEW a \in Nat, NEW n \in Nat \ {0}
  PROVE  /\ CeilDiv(a, n) \in Nat /\ a <= CeilDiv(a, n) * n
         /\ \A c \in Nat : a <= c * n => CeilDiv(a, n) <= c
<1> DEFINE d == (a + n - 1) \div n
<1>1. /\ a + n - 1 \in Nat /\ d \in Nat /\ (a + n - 1) % n \in 0 .. n - 1
      /\ a + n - 1 = n * d + ((a + n - 1) % n)
  <2>1. a + n - 1 \in Nat
    OBVIOUS
  <2> QED BY <2>1, Divided
<1>2. n * d = d * n /\ d * n \in Nat
  BY <1>1, Times
<1>3. a <= d * n
  BY <1>1, <1>2
<1>4. ASSUME NEW c \in Nat, a <= c * n
      PROVE  d <= c
  <2>1. (c + 1) * n = c * n + n /\ c * n \in Nat /\ c + 1 \in Nat
    BY SMT
  <2>2. a + n - 1 < (c + 1) * n
    BY <1>4, <2>1
  <2>3. d < c + 1
    BY <1>1, <2>1, <2>2, DividedBelow
  <2> QED BY <1>1, <2>3
<1> QED BY <1>1, <1>3, <1>4 DEF CeilDiv

LEMMA CeilingOfProduct ==
  ASSUME NEW c \in Nat, NEW n \in Nat \ {0}
  PROVE  CeilDiv(c * n, n) = c
<1>1. c * n \in Nat
  BY Times
<1>2. CeilDiv(c * n, n) \in Nat /\ c * n <= CeilDiv(c * n, n) * n /\ CeilDiv(c * n, n) <= c
  BY <1>1, Ceiling
<1>3. CeilDiv(c * n, n) < c => CeilDiv(c * n, n) * n + n <= c * n
  BY <1>2, Times
<1>4. CeilDiv(c * n, n) * n \in Nat
  BY <1>2, Times
<1> QED BY <1>1, <1>2, <1>3, <1>4

-----------------------------------------------------------------------------
(* Addresses.                                                               *)

(* The indices at which f may hold a value.                                  *)
InField(f) ==
  0 .. (IF f \in Dynamic THEN MaxIndex ELSE IF f \in Fixed THEN Count[f] - 1 ELSE 0)

LEMMA Kinds ==
  ASSUME NEW f \in Fields
  PROVE  /\ f \in Dynamic \/ f \in Fixed \/ f \in Plain
         /\ f \in Dynamic => f \notin Fixed /\ f \notin Plain
         /\ f \in Fixed => f \notin Plain
         /\ f \notin Texts
  BY NamesAssumption DEF Fields

LEMMA PartFacts ==
  ASSUME NEW f \in Fields, NEW p \in Parts[f]
  PROVE  /\ p.slot \in Nat /\ p.offset \in Nat /\ p.size \in Nat \ {0}
         /\ p.offset + p.size <= WordBytes
         /\ Size[f] \in Nat \ {0} /\ WordBytes \in Nat \ {0}
         /\ f \notin Structs => p.size = Size[f] /\ Parts[f] = {p}
<1>1. p \in [slot : Nat, offset : Nat, size : Nat \ {0}] /\ p.offset + p.size <= WordBytes
  BY PartsAssumption
<1>2. f \notin Structs => \E q \in Parts[f] : Parts[f] = {q} /\ q.size = Size[f]
  BY PartsAssumption
<1>3. Size[f] \in Nat \ {0} /\ WordBytes \in Nat \ {0}
  BY PartsAssumption, WordAssumption
<1>4. p.slot \in Nat /\ p.offset \in Nat /\ p.size \in Nat \ {0}
  BY <1>1
<1> QED BY <1>1, <1>2, <1>3, <1>4

(* Scalars fill their words.                                                *)
LEMMA ScalarFacts ==
  ASSUME NEW f \in Fields, f \notin Structs
  PROVE  /\ PerWord(Size[f]) \in Nat \ {0} /\ SlotsPer(Size[f]) = 1
         /\ WordBytes = PerWord(Size[f]) * Size[f]
<1> DEFINE n == Size[f]
<1>1. n \in Nat \ {0} /\ WordBytes \in Nat \ {0} /\ WordBytes % n = 0
  BY PartsAssumption, WordAssumption
<1>2. WordBytes = n * (WordBytes \div n) /\ WordBytes \div n \in Nat
  BY <1>1, DividesEvenly
<1>3. n <= WordBytes
  BY <1>1, SMT
<1>4. WordBytes \div n # 0
  BY <1>1, <1>2, SMT
<1>5. CASE n = WordBytes
  <2>1. 1 * n = n
    BY <1>1
  <2>2. CeilDiv(1 * n, n) = 1
    BY <1>1, CeilingOfProduct
  <2> QED BY <1>1, <1>5, <2>1, <2>2 DEF PerWord, SlotsPer
<1>6. CASE n < WordBytes
  <2>1. PerWord(n) = WordBytes \div n /\ SlotsPer(n) = 1
    BY <1>1, <1>6 DEF PerWord, SlotsPer
  <2>2. n * (WordBytes \div n) = (WordBytes \div n) * n
    BY <1>1, <1>2, Times
  <2> QED BY <1>2, <1>4, <2>1, <2>2
<1> QED BY <1>1, <1>3, <1>5, <1>6

(* struct_elem_slots and, where the rules agree, pack_params.                  *)
LEMMA StructFacts ==
  ASSUME NEW f \in Fields, f \in Structs, Agree(f)
  PROVE  /\ ElemSlots(Size[f]) \in Nat \ {0}
         /\ \A p \in Parts[f] : p.slot < ElemSlots(Size[f])
         /\ f \notin Dynamic => Size[f] = ElemSlots(Size[f]) * WordBytes
         /\ f \notin Plain => PerWord(Size[f]) = 1 /\ SlotsPer(Size[f]) = ElemSlots(Size[f])
<1> DEFINE n == Size[f]
<1>1. n \in Nat \ {0} /\ WordBytes \in Nat \ {0}
  BY PartsAssumption, WordAssumption
<1>2. CeilDiv(n, WordBytes) \in Nat /\ n <= CeilDiv(n, WordBytes) * WordBytes
  BY <1>1, Ceiling
<1>3. CeilDiv(n, WordBytes) # 0
  BY <1>1, <1>2, SMT
<1>4. f \notin Dynamic => n = ElemSlots(n) * WordBytes /\ n >= WordBytes
  <2>1. SUFFICES ASSUME f \notin Dynamic
                 PROVE  n = ElemSlots(n) * WordBytes /\ n >= WordBytes
    OBVIOUS
  <2>2. n % WordBytes = 0
    BY <2>1 DEF Agree
  <2>3. n = WordBytes * (n \div WordBytes) /\ n \div WordBytes \in Nat
    BY <1>1, <2>2, DividesEvenly
  <2>4. WordBytes * (n \div WordBytes) = (n \div WordBytes) * WordBytes
    BY <1>1, <2>3, Times
  <2>5. CeilDiv(n, WordBytes) = n \div WordBytes
    BY <1>1, <2>3, <2>4, CeilingOfProduct
  <2>6. n >= WordBytes
    BY <1>1, <2>2, SMT
  <2> QED BY <1>1, <2>3, <2>4, <2>5, <2>6 DEF ElemSlots
<1>5. ASSUME f \notin Plain
      PROVE  PerWord(n) = 1 /\ SlotsPer(n) = ElemSlots(n)
  <2>1. CASE n >= WordBytes
    BY <1>1, <2>1 DEF PerWord, SlotsPer, ElemSlots
  <2>2. CASE n < WordBytes
    <3>1. 2 * n > WordBytes
      BY <1>1, <1>4, <2>2 DEF Agree
    <3>2. WordBytes \div n = 1
      <4>1. WordBytes \div n >= 1
        BY <1>1, <2>2, DividedBelow
      <4>2. WordBytes \div n < 2
        BY <1>1, <3>1, DividedBelow
      <4>3. WordBytes \div n \in Nat
        BY <1>1, Divided
      <4> QED BY <4>1, <4>2, <4>3
    <3> QED BY <1>1, <2>2, <3>2 DEF PerWord, SlotsPer, ElemSlots
  <2> QED BY <1>1, <2>1, <2>2
<1>6. ElemSlots(n) \in Nat \ {0}
  BY <1>1, <1>2, <1>3 DEF ElemSlots
<1>7. \A p \in Parts[f] : p.slot < ElemSlots(n)
  BY DEF Agree
<1> QED BY <1>4, <1>5, <1>6, <1>7

(* Two parts at these places share no byte.                                   *)
Apart(a, p, b, q) ==
  \/ a.region # b.region \/ a.slot # b.slot
  \/ a.offset + p.size <= b.offset \/ b.offset + q.size <= a.offset

LEMMA InFieldFacts ==
  ASSUME NEW f \in Fields, NEW i \in InField(f)
  PROVE  /\ i \in 0 .. MaxIndex /\ i \in Nat
         /\ f \in Fixed => Count[f] \in Nat /\ i < Count[f]
         /\ f \in Plain => i = 0
<1>1. MaxIndex \in Nat /\ \A g \in Fixed : Count[g] \in 0 .. MaxIndex + 1
  BY BoundsAssumption
<1> QED BY <1>1, Kinds DEF InField

(* A part of a value lies in one word.                                       *)
LEMMA PlaceOfPart ==
  ASSUME NEW f \in Fields, NEW i \in InField(f), NEW p \in Parts[f]
  PROVE  /\ At[f][i][p] = PartAt(f, i, p)
         /\ PartAt(f, i, p).region = Region(f)
         /\ PartAt(f, i, p).slot \in Nat /\ PartAt(f, i, p).offset \in Nat
         /\ PartAt(f, i, p).offset + p.size <= WordBytes
<1> DEFINE n == Size[f]
           w == PerWord(n)
<1>1. i \in 0 .. MaxIndex /\ i \in Nat /\ WordBytes \in Nat
  BY InFieldFacts, WordAssumption
<1>2. At[f][i][p] = PartAt(f, i, p)
  BY <1>1 DEF At
<1>3. PartAt(f, i, p).region = Region(f)
  BY Kinds DEF PartAt, Region
<1>4. f \notin Dynamic => Place[f].slot \in Nat /\ Place[f].offset \in Nat
  BY PlaceAssumption, Kinds
<1>5. \A s \in Nat : Slot(f, s) \in Nat
  BY <1>4 DEF Slot
<1>6. CASE f \in Structs
  <2>1. ElemSlots(n) \in Nat
    <3>1. n \in Nat \ {0} /\ WordBytes \in Nat \ {0}
      BY PartsAssumption, WordAssumption
    <3> QED BY <3>1, Ceiling DEF ElemSlots
  <2>2. p.slot + (IF f \in Plain THEN 0 ELSE i * ElemSlots(n)) \in Nat
    BY <1>1, <2>1, PartFacts, Times
  <2> QED BY <1>2, <1>3, <1>5, <1>6, <2>2, PartFacts DEF PartAt
<1>7. CASE f \notin Structs /\ f \in Plain
  <2>1. Place[f].offset + n <= WordBytes
    BY <1>7, PlaceAssumption
  <2> QED BY <1>2, <1>3, <1>4, <1>7, <2>1, PartFacts, Kinds DEF PartAt
<1>8. CASE f \notin Structs /\ f \notin Plain
  <2>1. w \in Nat \ {0} /\ SlotsPer(n) = 1 /\ WordBytes = w * n
    BY <1>8, ScalarFacts
  <2>2. i \div w \in Nat /\ i % w \in 0 .. w - 1
    BY <1>1, <2>1, Divided
  <2>3. n \in Nat /\ p.size = n
    BY <1>8, PartFacts
  <2>4. (i % w) * n \in Nat /\ (i % w) * n + n <= w * n
    BY <2>1, <2>2, <2>3, Times
  <2>5. (i \div w) * SlotsPer(n) \in Nat
    BY <2>1, <2>2
  <2> QED BY <1>2, <1>3, <1>5, <1>8, <2>1, <2>3, <2>4, <2>5 DEF PartAt
<1> QED BY <1>6, <1>7, <1>8

(* No byte belongs to two values of a field, or to two parts of one.           *)
LEMMA ApartInField ==
  ASSUME NEW f \in Fields, Agree(f), NEW i \in InField(f), NEW j \in InField(f),
         NEW p \in Parts[f], NEW q \in Parts[f], i # j \/ p # q
  PROVE  Apart(PartAt(f, i, p), p, PartAt(f, j, q), q)
<1> DEFINE n == Size[f]
           w == PerWord(n)
           e == ElemSlots(n)
<1>1. i \in Nat /\ j \in Nat /\ (f \in Plain => i = j)
  BY InFieldFacts
<1>2. f \notin Dynamic => Place[f].slot \in Nat
  BY PlaceAssumption, Kinds
<1>3. CASE f \in Structs /\ i = j
  <2>1. \/ p.slot # q.slot
        \/ p.offset + p.size <= q.offset \/ q.offset + q.size <= p.offset
    BY <1>3, PartsAssumption
  <2>2. p.slot \in Nat /\ q.slot \in Nat /\ e \in Nat /\ i * e \in Nat
    BY <1>1, <1>3, PartFacts, StructFacts, Times
  <2> QED BY <1>2, <1>3, <2>1, <2>2 DEF Apart, PartAt, Slot
<1>4. CASE f \in Structs /\ i # j
  <2>1. /\ p.slot \in Nat /\ q.slot \in Nat /\ e \in Nat
        /\ p.slot < e /\ q.slot < e /\ f \notin Plain
    BY <1>1, <1>4, PartFacts, StructFacts
  <2>2. i * e \in Nat /\ j * e \in Nat
        /\ (i < j => i * e + e <= j * e) /\ (j < i => j * e + e <= i * e)
    BY <1>1, <2>1, Times
  <2>3. p.slot + i * e # q.slot + j * e
    BY <1>1, <1>4, <2>1, <2>2
  <2>4. Slot(f, p.slot + i * e) # Slot(f, q.slot + j * e)
    BY <1>2, <2>1, <2>2, <2>3 DEF Slot
  <2> QED BY <1>4, <2>1, <2>4 DEF Apart, PartAt
<1>5. CASE f \notin Structs
  <2>1. p = q /\ i # j /\ f \notin Plain /\ p.size = n /\ n \in Nat
    BY <1>1, <1>5, PartFacts
  <2>2. w \in Nat \ {0} /\ SlotsPer(n) = 1
    BY <1>5, ScalarFacts
  <2>3. /\ i \div w \in Nat /\ i % w \in 0 .. w - 1 /\ i = w * (i \div w) + (i % w)
        /\ j \div w \in Nat /\ j % w \in 0 .. w - 1 /\ j = w * (j \div w) + (j % w)
    BY <1>1, <2>2, Divided
  <2>4. CASE i \div w = j \div w
    <3>1. i % w # j % w
      BY <2>1, <2>3, <2>4
    <3>2. /\ (i % w) * n \in Nat /\ (j % w) * n \in Nat
          /\ (i % w < j % w => (i % w) * n + n <= (j % w) * n)
          /\ (j % w < i % w => (j % w) * n + n <= (i % w) * n)
      BY <2>1, <2>2, <2>3, Times
    <3>3. (i % w) * n + n <= (j % w) * n \/ (j % w) * n + n <= (i % w) * n
      BY <2>2, <2>3, <3>1, <3>2
    <3> QED BY <1>5, <2>1, <3>3 DEF Apart, PartAt
  <2>5. CASE i \div w # j \div w
    <3>1. Slot(f, (i \div w) * 1) # Slot(f, (j \div w) * 1)
      BY <1>2, <2>3, <2>5 DEF Slot
    <3> QED BY <1>5, <2>1, <2>2, <3>1 DEF Apart, PartAt
  <2> QED BY <2>4, <2>5
<1> QED BY <1>3, <1>4, <1>5

(* Words of f alone: those of a fixed array, and of a struct in the contract's   *)
(* own slots.                                                               *)
WordsOf(f) ==
  {Place[f].slot + s : s \in 0 .. (IF f \in Fixed THEN CeilWords(f) ELSE ElemSlots(Size[f])) - 1}

LEMMA GivenFacts ==
  ASSUME NEW f \in Fixed \cup Plain
  PROVE  /\ f \in Fields /\ f \notin Dynamic
         /\ Place[f].slot \in Nat /\ Place[f].offset \in Nat
         /\ Given(f).from \in Nat /\ Given(f).to \in Nat
         /\ f \in Fixed => /\ CeilWords(f) \in Nat /\ CeilWords(f) * WordBytes \in Nat
                           /\ Size[f] * Count[f] <= CeilWords(f) * WordBytes
<1>1. f \in Fields /\ f \notin Dynamic
  BY NamesAssumption DEF Fields
<1>2. Place[f].slot \in Nat /\ Place[f].offset \in Nat
  BY PlaceAssumption
<1>3. Size[f] \in Nat \ {0} /\ WordBytes \in Nat \ {0}
  BY <1>1, PartsAssumption, WordAssumption
<1>4. Place[f].slot * WordBytes \in Nat
  BY <1>2, <1>3, Times
<1>5. f \in Fixed => /\ CeilWords(f) \in Nat /\ CeilWords(f) * WordBytes \in Nat
                     /\ Size[f] * Count[f] <= CeilWords(f) * WordBytes
  <2>1. SUFFICES ASSUME f \in Fixed
                 PROVE  /\ CeilWords(f) \in Nat /\ CeilWords(f) * WordBytes \in Nat
                        /\ Size[f] * Count[f] <= CeilWords(f) * WordBytes
    OBVIOUS
  <2>2. Count[f] \in Nat
    BY <2>1, BoundsAssumption
  <2>3. Size[f] * Count[f] \in Nat
    BY <1>3, <2>2, Times
  <2>4. CeilWords(f) \in Nat /\ Size[f] * Count[f] <= CeilWords(f) * WordBytes
    BY <1>3, <2>3, Ceiling DEF CeilWords
  <2> QED BY <1>3, <2>4, Times
<1>6. Given(f).from \in Nat /\ Given(f).to \in Nat
  BY <1>2, <1>3, <1>4, <1>5 DEF Given
<1> QED BY <1>1, <1>2, <1>5, <1>6

(* A byte of f is one of those the layout gave it.                             *)
LEMMA InGiven ==
  ASSUME NEW f \in Fixed \cup Plain, Agree(f), NEW i \in InField(f), NEW p \in Parts[f],
         NEW at, at = PartAt(f, i, p)
  PROVE  /\ Given(f).from <= at.slot * WordBytes + at.offset
         /\ at.slot * WordBytes + at.offset + p.size <= Given(f).to
<1> DEFINE n == Size[f]
           w == PerWord(n)
           e == ElemSlots(n)
           s == Place[f].slot
<1>1. /\ f \in Fields /\ f \notin Dynamic /\ s \in Nat /\ Place[f].offset \in Nat
      /\ i \in Nat /\ WordBytes \in Nat \ {0} /\ n \in Nat \ {0}
      /\ p.slot \in Nat /\ p.offset \in Nat /\ p.size \in Nat \ {0} /\ p.offset + p.size <= WordBytes
  BY GivenFacts, InFieldFacts, PartFacts, WordAssumption
<1>2. CASE f \in Structs
  <2>1. e \in Nat \ {0} /\ p.slot < e /\ n = e * WordBytes
    BY <1>1, <1>2, StructFacts
  <2>2. CASE f \in Plain
    <3>1. at.slot = s + p.slot /\ at.offset = p.offset
      BY <1>1, <1>2, <2>2 DEF PartAt, Slot
    <3>2. p.slot * WordBytes \in Nat /\ p.slot * WordBytes + WordBytes <= e * WordBytes
      BY <1>1, <2>1, Times
    <3>3. (s + p.slot) * WordBytes = s * WordBytes + p.slot * WordBytes /\ s * WordBytes \in Nat
      BY <1>1, SMT
    <3>4. f \notin Fixed /\ Place[f].offset = 0
      BY <1>1, <1>2, <2>2, Kinds DEF Agree
    <3>5. Given(f).from = s * WordBytes /\ Given(f).to = s * WordBytes + e * WordBytes
      BY <2>1, <3>3, <3>4, <1>1, <3>2 DEF Given
    <3>6. at.slot * WordBytes = s * WordBytes + p.slot * WordBytes
      BY <3>1, <3>3
    <3>7. e * WordBytes \in Nat
      BY <1>1, <2>1, Times
    <3> QED BY <1>1, <3>1, <3>2, <3>3, <3>5, <3>6, <3>7
  <2>3. CASE f \in Fixed
    <3>1. i < Count[f] /\ Count[f] \in Nat /\ f \notin Plain
      BY <1>1, <2>3, InFieldFacts, Kinds
    <3>2. at.slot = s + p.slot + i * e /\ at.offset = p.offset
      <4>1. i * e \in Nat
        BY <1>1, <2>1, Times
      <4> QED BY <1>1, <1>2, <3>1, <4>1 DEF PartAt, Slot
    <3>3. i * e \in Nat /\ i * e + e <= Count[f] * e /\ Count[f] * e \in Nat
      BY <1>1, <2>1, <3>1, Times
    <3>4. CeilWords(f) = Count[f] * e
      <4>1. n * Count[f] = (Count[f] * e) * WordBytes
        BY <1>1, <2>1, <3>1, SMT
      <4> QED BY <1>1, <3>3, <4>1, CeilingOfProduct DEF CeilWords
    <3>5. DEFINE k == p.slot + i * e
    <3>6. k \in Nat /\ k < Count[f] * e /\ at.slot = s + k
      BY <1>1, <2>1, <3>2, <3>3
    <3>7. k * WordBytes \in Nat /\ k * WordBytes + WordBytes <= (Count[f] * e) * WordBytes
      <4> HIDE DEF k
      <4> QED BY <1>1, <3>3, <3>6, Times
    <3>8. (s + k) * WordBytes = s * WordBytes + k * WordBytes /\ s * WordBytes \in Nat
      <4> HIDE DEF k
      <4> QED BY <1>1, <3>6, SMT
    <3>9. Given(f).from = s * WordBytes /\ Given(f).to = s * WordBytes + (Count[f] * e) * WordBytes
      BY <2>3, <3>4 DEF Given
    <3> HIDE DEF k
    <3>10. at.slot * WordBytes = s * WordBytes + k * WordBytes
      BY <3>6, <3>8
    <3>11. (Count[f] * e) * WordBytes \in Nat
      BY <1>1, <3>3, Times
    <3> QED BY <1>1, <3>2, <3>7, <3>8, <3>9, <3>10, <3>11
  <2> QED BY <2>2, <2>3
<1>3. CASE f \notin Structs /\ f \in Plain
  <2>1. at.slot = s /\ at.offset = Place[f].offset /\ p.size = n /\ f \notin Fixed
    BY <1>1, <1>3, PartFacts, Kinds DEF PartAt
  <2>2. s * WordBytes \in Nat
    BY <1>1, Times
  <2> QED BY <1>1, <2>1, <2>2 DEF Given
<1>4. CASE f \notin Structs /\ f \in Fixed
  <2>1. i < Count[f] /\ Count[f] \in Nat /\ f \notin Plain /\ p.size = n
    BY <1>1, <1>4, InFieldFacts, Kinds, PartFacts
  <2>2. w \in Nat \ {0} /\ SlotsPer(n) = 1 /\ WordBytes = w * n
    BY <1>1, <1>4, ScalarFacts
  <2>3. i \div w \in Nat /\ i % w \in 0 .. w - 1 /\ i = w * (i \div w) + (i % w)
    BY <1>1, <2>2, Divided
  <2>4. at.slot = s + (i \div w) /\ at.offset = (i % w) * n
    BY <1>1, <1>4, <2>1, <2>2, <2>3 DEF PartAt, Slot
  <2>5. (i \div w) * WordBytes + (i % w) * n = i * n
    <3>1. PICK q \in Nat : q = i \div w
      BY <2>3
    <3>2. PICK r \in Nat : r = i % w
      BY <2>3
    <3>3. q * (w * n) + r * n = (w * q + r) * n
      BY <1>1, <2>2, <3>1, <3>2, SMT
    <3> QED BY <2>2, <2>3, <3>1, <3>2, <3>3
  <2>6. i * n \in Nat /\ i * n + n <= Count[f] * n /\ Count[f] * n = n * Count[f]
    BY <1>1, <2>1, Times
  <2>7. (s + (i \div w)) * WordBytes = s * WordBytes + (i \div w) * WordBytes
        /\ s * WordBytes \in Nat
    BY <1>1, <2>3, SMT
  <2>8. CeilWords(f) * WordBytes \in Nat /\ n * Count[f] <= CeilWords(f) * WordBytes
    BY <1>4, GivenFacts
  <2>9. (i \div w) * WordBytes \in Nat /\ (i % w) * n \in Nat
    BY <1>1, <2>2, <2>3, Times
  <2>10. Given(f).from = s * WordBytes /\ Given(f).to = s * WordBytes + CeilWords(f) * WordBytes
    BY <1>4 DEF Given
  <2>11. at.slot * WordBytes + at.offset = s * WordBytes + i * n
    BY <2>4, <2>5, <2>6, <2>7, <2>9
  <2> QED BY <1>1, <2>1, <2>6, <2>7, <2>8, <2>10, <2>11
<1> QED BY <1>2, <1>3, <1>4

(* The words of f lie in what the layout gave it.                              *)
LEMMA WordsInGiven ==
  ASSUME NEW f \in Fixed \cup Plain, Agree(f), f \in Fixed \/ f \in Structs, NEW s \in WordsOf(f)
  PROVE  /\ s \in Nat /\ s * WordBytes \in Nat
         /\ Given(f).from <= s * WordBytes /\ s * WordBytes + WordBytes <= Given(f).to
<1> DEFINE n == IF f \in Fixed THEN CeilWords(f) ELSE ElemSlots(Size[f])
           b == Place[f].slot
<1>1. PICK k \in 0 .. n - 1 : s = b + k
  BY DEF WordsOf
<1>2. /\ f \in Fields /\ b \in Nat /\ WordBytes \in Nat \ {0} /\ f \notin Dynamic
      /\ f \in Plain => f \notin Fixed
  BY GivenFacts, WordAssumption, Kinds
<1>3. n \in Nat
  BY <1>2, GivenFacts, StructFacts
<1>4. k \in Nat /\ s \in Nat
  BY <1>1, <1>2, <1>3
<1>5. /\ k * WordBytes \in Nat /\ k * WordBytes + WordBytes <= n * WordBytes
      /\ n * WordBytes \in Nat /\ b * WordBytes \in Nat
  <2> HIDE DEF n
  <2> QED BY <1>1, <1>2, <1>3, <1>4, Times
<1>6. s * WordBytes = b * WordBytes + k * WordBytes
  BY <1>1, <1>2, <1>4, SMT
<1>7. Given(f).from = b * WordBytes /\ Given(f).to = b * WordBytes + n * WordBytes
  <2>1. CASE f \in Fixed
    BY <2>1 DEF Given
  <2>2. CASE f \notin Fixed
    <3>1. f \in Plain /\ f \in Structs /\ Place[f].offset = 0 /\ n = ElemSlots(Size[f])
      BY <2>2 DEF Agree
    <3>2. Size[f] = n * WordBytes
      BY <1>2, <3>1, StructFacts
    <3>3. /\ Given(f).from = b * WordBytes + Place[f].offset
          /\ Given(f).to = b * WordBytes + Place[f].offset + Size[f]
      BY <2>2 DEF Given
    <3> HIDE DEF n
    <3> QED BY <1>5, <3>1, <3>2, <3>3
  <2> QED BY <2>1, <2>2
<1> HIDE DEF n, b
<1> QED BY <1>2, <1>4, <1>5, <1>6, <1>7

LEMMA RegionFacts ==
  ASSUME NEW f \in Fields
  PROVE  /\ Region(f) \in Regions
         /\ f \notin Dynamic => Region(f) = Root
         /\ \A g \in Fields : f # g /\ Region(f) = Region(g) => f \in Fixed \cup Plain
         /\ Region(f) \notin Texts
  BY NamesAssumption DEF Region, Regions, Fields

LEMMA GivenApart ==
  ASSUME NEW f \in Fixed \cup Plain, NEW g \in Fixed \cup Plain, f # g
  PROVE  Given(f).to <= Given(g).from \/ Given(g).to <= Given(f).from
  BY PlaceAssumption

(* No byte belongs to two fields.                                            *)
LEMMA ApartFields ==
  ASSUME NEW f \in Fields, NEW g \in Fields, f # g, Agree(f), Agree(g),
         NEW i \in InField(f), NEW j \in InField(g), NEW p \in Parts[f], NEW q \in Parts[g]
  PROVE  Apart(PartAt(f, i, p), p, PartAt(g, j, q), q)
<1> DEFINE a == PartAt(f, i, p)
           b == PartAt(g, j, q)
<1>1. a.region = Region(f) /\ b.region = Region(g)
  BY PlaceOfPart
<1>2. SUFFICES ASSUME a.region = b.region, a.slot = b.slot
               PROVE  a.offset + p.size <= b.offset \/ b.offset + q.size <= a.offset
  BY DEF Apart
<1>3. f \in Fixed \cup Plain /\ g \in Fixed \cup Plain
  BY <1>1, <1>2, RegionFacts
<1>4. /\ a.slot \in Nat /\ a.offset \in Nat /\ b.slot \in Nat /\ b.offset \in Nat
      /\ p.size \in Nat /\ q.size \in Nat /\ WordBytes \in Nat
  BY PlaceOfPart, PartFacts
<1>5. /\ Given(f).from <= a.slot * WordBytes + a.offset
      /\ a.slot * WordBytes + a.offset + p.size <= Given(f).to
  BY <1>3, InGiven
<1>6. /\ Given(g).from <= b.slot * WordBytes + b.offset
      /\ b.slot * WordBytes + b.offset + q.size <= Given(g).to
  BY <1>3, InGiven
<1>7. Given(f).to <= Given(g).from \/ Given(g).to <= Given(f).from
  BY <1>3, GivenApart
<1>8. /\ Given(f).from \in Nat /\ Given(f).to \in Nat
      /\ Given(g).from \in Nat /\ Given(g).to \in Nat
  BY <1>3, GivenFacts
<1>9. PICK m \in Nat : m = a.slot * WordBytes /\ m = b.slot * WordBytes
  BY <1>2, <1>4, Times
<1> HIDE DEF a, b
<1> QED BY <1>4, <1>5, <1>6, <1>7, <1>8, <1>9

(* A word of one field holds no byte of another.                               *)
LEMMA ApartWords ==
  ASSUME NEW f \in Fixed \cup Plain, f \in Fixed \/ f \in Structs, Agree(f), NEW s \in WordsOf(f),
         NEW g \in Fields, f # g, Agree(g), NEW j \in InField(g), NEW q \in Parts[g]
  PROVE  Region(f) # Region(g) \/ PartAt(g, j, q).slot # s
<1> DEFINE b == PartAt(g, j, q)
<1>1. SUFFICES ASSUME Region(f) = Region(g), b.slot = s
               PROVE  FALSE
  OBVIOUS
<1>2. f \in Fields
  BY GivenFacts
<1>3. g \in Fixed \cup Plain
  BY <1>1, <1>2, RegionFacts
<1>4. /\ b.offset \in Nat /\ q.size \in Nat \ {0} /\ b.offset + q.size <= WordBytes
      /\ WordBytes \in Nat
  BY PlaceOfPart, PartFacts
<1>5. /\ s * WordBytes \in Nat
      /\ Given(f).from <= s * WordBytes /\ s * WordBytes + WordBytes <= Given(f).to
  BY WordsInGiven
<1>6. /\ Given(g).from <= b.slot * WordBytes + b.offset
      /\ b.slot * WordBytes + b.offset + q.size <= Given(g).to
  BY <1>3, InGiven
<1>7. Given(f).to <= Given(g).from \/ Given(g).to <= Given(f).from
  BY <1>3, GivenApart
<1>8. /\ Given(f).from \in Nat /\ Given(f).to \in Nat
      /\ Given(g).from \in Nat /\ Given(g).to \in Nat
  BY <1>3, GivenFacts
<1>9. PICK m \in Nat : m = s * WordBytes /\ m = b.slot * WordBytes
  BY <1>1, <1>5
<1> HIDE DEF b
<1> QED BY <1>4, <1>5, <1>6, <1>7, <1>8, <1>9

(* The words of a struct are words of its field, and hold its parts alone.      *)
LEMMA StructWords ==
  ASSUME NEW f \in Fields, f \in Structs, Agree(f), NEW i \in InField(f), NEW p \in Parts[f]
  PROVE  /\ f \notin Dynamic => PartAt(f, i, p).slot \in WordsOf(f)
         /\ \A j \in InField(f), q \in Parts[f] :
              i # j => PartAt(f, j, q).slot # PartAt(f, i, p).slot
<1> DEFINE e == ElemSlots(Size[f])
<1>1. /\ i \in Nat /\ e \in Nat \ {0} /\ p.slot \in Nat /\ p.slot < e
      /\ f \in Fixed => Count[f] \in Nat /\ i < Count[f]
  BY InFieldFacts, StructFacts, PartFacts
<1>2. f \notin Dynamic => Place[f].slot \in Nat
  BY PlaceAssumption, Kinds
<1>3. f \notin Dynamic => PartAt(f, i, p).slot \in WordsOf(f)
  <2>1. SUFFICES ASSUME f \notin Dynamic PROVE PartAt(f, i, p).slot \in WordsOf(f)
    OBVIOUS
  <2>2. CASE f \in Plain
    <3>1. PartAt(f, i, p).slot = Place[f].slot + p.slot
      BY <1>1, <2>1, <2>2 DEF PartAt, Slot
    <3>2. p.slot \in 0 .. e - 1 /\ f \notin Fixed
      BY <1>1, <2>2, Kinds
    <3> QED BY <3>1, <3>2 DEF WordsOf
  <2>3. CASE f \in Fixed
    <3>1. f \notin Plain /\ Size[f] = e * WordBytes /\ WordBytes \in Nat \ {0}
      BY <2>1, <2>3, Kinds, StructFacts, WordAssumption
    <3>2. i * e \in Nat /\ i * e + e <= Count[f] * e /\ Count[f] * e \in Nat
      BY <1>1, <2>3, Times
    <3>3. CeilWords(f) = Count[f] * e
      <4>1. Size[f] * Count[f] = (Count[f] * e) * WordBytes
        BY <1>1, <2>3, <3>1, SMT
      <4> QED BY <3>1, <3>2, <4>1, CeilingOfProduct DEF CeilWords
    <3>4. p.slot + i * e \in 0 .. CeilWords(f) - 1
      BY <1>1, <3>2, <3>3
    <3>5. PartAt(f, i, p).slot = Place[f].slot + (p.slot + i * e)
      BY <2>1, <3>1 DEF PartAt, Slot
    <3> QED BY <2>3, <3>4, <3>5 DEF WordsOf
  <2> QED BY <2>1, <2>2, <2>3, Kinds
<1>4. ASSUME NEW j \in InField(f), NEW q \in Parts[f], i # j
      PROVE  PartAt(f, j, q).slot # PartAt(f, i, p).slot
  <2>1. j \in Nat /\ q.slot \in Nat /\ q.slot < e /\ f \notin Plain
    BY <1>4, InFieldFacts, StructFacts, PartFacts
  <2>2. i * e \in Nat /\ j * e \in Nat
        /\ (i < j => i * e + e <= j * e) /\ (j < i => j * e + e <= i * e)
    BY <1>1, <2>1, Times
  <2>3. p.slot + i * e # q.slot + j * e
    BY <1>1, <1>4, <2>1, <2>2
  <2>4. Slot(f, p.slot + i * e) # Slot(f, q.slot + j * e)
    BY <1>1, <1>2, <2>1, <2>2, <2>3 DEF Slot
  <2> QED BY <2>1, <2>4 DEF PartAt
<1> QED BY <1>3, <1>4

(* delete clears every word of the values it drops, and no other field's.       *)
LEMMA DeletedWords ==
  ASSUME NEW f \in Fields, f \in Plain => f \in Structs, Agree(f),
         NEW n \in Nat, n = Length(f), f \in Plain => n = 1
  PROVE  /\ \A i \in InField(f), p \in Parts[f] :
              i < n => PartAt(f, i, p).slot \in DeletedSlots(f)
         /\ f \notin Dynamic => DeletedSlots(f) \subseteq WordsOf(f)
<1> DEFINE w == PerWord(Size[f])
           e == ElemSlots(Size[f])
           words == CeilDiv(n, w) * SlotsPer(Size[f])
<1>1. CASE f \in Plain
  <2>1. f \in Structs /\ f \notin Dynamic
    BY <1>1, Kinds
  <2>2. DeletedSlots(f) = {At[f][0][p].slot : p \in Parts[f]} /\ 0 \in InField(f)
    BY <1>1, Kinds DEF DeletedSlots, StructSlots, InField
  <2>3. DeletedSlots(f) = {PartAt(f, 0, p).slot : p \in Parts[f]}
    BY <2>2, PlaceOfPart
  <2>4. \A p \in Parts[f] : PartAt(f, 0, p).slot \in WordsOf(f)
    BY <2>1, <2>2, StructWords
  <2> QED BY <1>1, <2>3, <2>4, InFieldFacts
<1>2. CASE f \notin Plain
  <2>1. DeletedSlots(f) = {Slot(f, j) : j \in 0 .. words - 1}
    BY <1>2 DEF DeletedSlots
  <2>2. w \in Nat \ {0} /\ SlotsPer(Size[f]) \in Nat \ {0} /\ Size[f] \in Nat \ {0}
        /\ WordBytes \in Nat \ {0}
    BY <1>2, ScalarFacts, StructFacts, PartsAssumption, WordAssumption
  <2>3. CeilDiv(n, w) \in Nat /\ n <= CeilDiv(n, w) * w
    BY <2>2, Ceiling
  <2>4. words \in Nat
    BY <2>2, <2>3, Times
  <2>5. CASE f \in Structs
    <3>1. w = 1 /\ SlotsPer(Size[f]) = e /\ e \in Nat \ {0}
      BY <1>2, <2>5, StructFacts
    <3>2. words = n * e
      <4>1. CeilDiv(n * 1, 1) = n /\ n * 1 = n
        BY CeilingOfProduct
      <4> QED BY <3>1, <4>1
    <3>3. ASSUME NEW i \in InField(f), NEW p \in Parts[f], i < n
          PROVE  PartAt(f, i, p).slot \in DeletedSlots(f)
      <4>1. i \in Nat /\ p.slot \in Nat /\ p.slot < e
        BY <2>5, InFieldFacts, PartFacts, StructFacts
      <4>2. i * e \in Nat /\ i * e + e <= n * e
        BY <3>1, <3>3, <4>1, Times
      <4>3. p.slot + i * e \in 0 .. words - 1
        <5> HIDE DEF words
        <5> QED BY <2>4, <3>1, <3>2, <4>1, <4>2
      <4>4. PartAt(f, i, p).slot = Slot(f, p.slot + i * e)
        BY <1>2, <2>5 DEF PartAt
      <4> HIDE DEF words
      <4> QED BY <2>1, <4>3, <4>4
    <3>4. f \notin Dynamic => DeletedSlots(f) \subseteq WordsOf(f)
      <4>1. SUFFICES ASSUME f \notin Dynamic PROVE DeletedSlots(f) \subseteq WordsOf(f)
        OBVIOUS
      <4>2. f \in Fixed /\ n = Count[f]
        BY <1>2, <4>1, Kinds DEF Length
      <4>3. Size[f] = e * WordBytes
        BY <2>5, <4>1, StructFacts
      <4>4. CeilWords(f) = n * e
        <5>1. Size[f] * Count[f] = (n * e) * WordBytes
          BY <2>2, <3>1, <4>2, <4>3, SMT
        <5>2. n * e \in Nat
          BY <3>1, Times
        <5> QED BY <2>2, <5>1, <5>2, CeilingOfProduct DEF CeilWords
      <4>5. \A j : Slot(f, j) = Place[f].slot + j
        BY <4>1 DEF Slot
      <4> HIDE DEF words
      <4> QED BY <2>1, <3>2, <4>2, <4>4, <4>5 DEF WordsOf
    <3> QED BY <3>3, <3>4
  <2>6. CASE f \notin Structs
    <3>1. SlotsPer(Size[f]) = 1 /\ WordBytes = w * Size[f]
      BY <2>6, ScalarFacts
    <3>2. words = CeilDiv(n, w)
      BY <2>3, <3>1
    <3>3. ASSUME NEW i \in InField(f), NEW p \in Parts[f], i < n
          PROVE  PartAt(f, i, p).slot \in DeletedSlots(f)
      <4>1. i \in Nat
        BY InFieldFacts
      <4>2. i \div w \in Nat /\ i \div w < CeilDiv(n, w)
        <5>1. CeilDiv(n, w) * w \in Nat
          BY <2>2, <2>3, Times
        <5>2. i < CeilDiv(n, w) * w
          BY <2>3, <3>3, <4>1, <5>1
        <5> QED BY <2>2, <2>3, <4>1, <5>2, Divided, DividedBelow
      <4>3. i \div w \in 0 .. words - 1
        <5> HIDE DEF words
        <5> QED BY <2>3, <3>2, <4>2
      <4>4. PartAt(f, i, p).slot = Slot(f, (i \div w) * SlotsPer(Size[f]))
        BY <1>2, <2>6 DEF PartAt
      <4>5. (i \div w) * SlotsPer(Size[f]) = i \div w
        BY <3>1, <4>2
      <4> HIDE DEF words
      <4> QED BY <2>1, <4>3, <4>4, <4>5
    <3>4. f \notin Dynamic => DeletedSlots(f) \subseteq WordsOf(f)
      <4>1. SUFFICES ASSUME f \notin Dynamic PROVE DeletedSlots(f) \subseteq WordsOf(f)
        OBVIOUS
      <4>2. f \in Fixed /\ n = Count[f]
        BY <1>2, <4>1, Kinds DEF Length
      <4>3. CeilWords(f) \in Nat /\ Size[f] * n <= CeilWords(f) * WordBytes
        BY <4>2, GivenFacts
      <4>4. n <= CeilWords(f) * w
        <5>1. PICK c \in Nat : c = CeilWords(f)
          BY <4>3
        <5>2. c * WordBytes = (c * w) * Size[f] /\ c * w \in Nat
          BY <2>2, <3>1, <5>1, SMT
        <5>3. Size[f] * n = n * Size[f]
          BY <2>2, Times
        <5>4. c * w < n => (c * w) * Size[f] + Size[f] <= n * Size[f]
          BY <2>2, <5>2, Times
        <5>5. n * Size[f] \in Nat /\ (c * w) * Size[f] \in Nat
          BY <2>2, <5>2, Times
        <5> QED BY <2>2, <4>3, <5>1, <5>2, <5>3, <5>4, <5>5
      <4>5. CeilDiv(n, w) <= CeilWords(f)
        BY <2>2, <4>3, <4>4, Ceiling
      <4>6. \A j : Slot(f, j) = Place[f].slot + j
        BY <4>1 DEF Slot
      <4> HIDE DEF words
      <4> QED BY <2>1, <2>3, <3>2, <4>2, <4>3, <4>5, <4>6 DEF WordsOf
    <3> QED BY <3>3, <3>4
  <2> QED BY <2>5, <2>6
<1> QED BY <1>1, <1>2

-----------------------------------------------------------------------------
(* Types.                                                                   *)

Words == [Slots -> [Lanes -> Byte]]

(* What is being evaluated.  An index expression belongs to a dynamic array, and *)
(* no turn or access leaves the indices the array has or had.                  *)
PendingOK ==
  pending # None =>
    /\ pending \in [kind : {"index", "for"}, of : Dynamic \cup Fixed, turns : Nat, at : Nat]
    /\ pending.at <= pending.turns /\ 0 .. pending.turns - 1 \subseteq Reach(pending.of)
    /\ pending.kind = "index" => pending.of \in Dynamic
    /\ pending.kind = "for" => /\ pending.of \notin Structs
                               /\ pending.of \in Fixed => pending.turns = Count[pending.of]

Types ==
  /\ cells \in [Regions -> Words]
  /\ len \in [Dynamic -> Nat] /\ \A f \in Dynamic : len[f] <= MaxLen[f]
  /\ heads \in [Texts -> [long : BOOLEAN, n : 0 .. MaxText, bytes : Seq(Byte)]]
  /\ \A t \in Texts : heads[t].long <=> heads[t].n >= WordBytes
  /\ PendingOK

LEMMA BoundFacts ==
  /\ MaxSlot \in Nat /\ MaxIndex \in Nat /\ MaxText \in Nat
  /\ \A f \in Dynamic : MaxLen[f] \in Nat /\ MaxLen[f] <= MaxIndex + 1
  /\ \A f \in Fixed : Count[f] \in Nat /\ Count[f] <= MaxIndex + 1
  /\ WordBytes \in Nat \ {0} /\ 0 \in Byte /\ Byte \subseteq Nat
<1>1. /\ MaxSlot \in Nat /\ MaxIndex \in Nat /\ MaxText \in Nat
      /\ \A f \in Dynamic : MaxLen[f] \in 0 .. MaxIndex + 1
      /\ \A f \in Fixed : Count[f] \in 0 .. MaxIndex + 1
  BY BoundsAssumption
<1> QED BY <1>1, WordAssumption

LEMMA ReachFacts ==
  ASSUME NEW f \in Fields
  PROVE  /\ Reach(f) \subseteq InField(f) /\ Reach(f) \subseteq Nat
         /\ \A i \in Reach(f), p \in Parts[f] : PartAt(f, i, p).slot \in Slots
         /\ f \in Dynamic => Reach(f) = 0 .. MaxLen[f] - 1
         /\ f \in Fixed => Reach(f) = 0 .. Count[f] - 1
         /\ f \in Plain => Reach(f) = {0}
<1>1. \A i \in Reach(f), p \in Parts[f] : PartAt(f, i, p).slot \in Slots
  BY BoundsAssumption
<1>2. /\ f \in Dynamic => Reach(f) = 0 .. MaxLen[f] - 1
      /\ f \in Fixed => Reach(f) = 0 .. Count[f] - 1
      /\ f \in Plain => Reach(f) = 0 .. 0
  BY Kinds DEF Reach
<1>3. Reach(f) \subseteq InField(f)
  BY <1>2, BoundFacts, Kinds DEF InField
<1>4. Reach(f) \subseteq Nat
  BY <1>3, InFieldFacts
<1> QED BY <1>1, <1>2, <1>3, <1>4

LEMMA LengthFacts ==
  ASSUME NEW f \in Fields, Types
  PROVE  /\ Length(f) \in Nat /\ Indices(f) = 0 .. Length(f) - 1 /\ Indices(f) \subseteq Reach(f)
         /\ f \notin Dynamic => Indices(f) = Reach(f)
         /\ f \in Plain => Length(f) = 1
<1>1. /\ f \in Dynamic => Length(f) = len[f] /\ len[f] \in Nat /\ len[f] <= MaxLen[f]
      /\ f \in Fixed => Length(f) = Count[f]
      /\ f \in Plain => Length(f) = 1
  BY Kinds DEF Length, Types
<1>2. CASE f \in Dynamic
  <2>1. Reach(f) = 0 .. MaxLen[f] - 1 /\ MaxLen[f] \in Nat
    BY <1>2, ReachFacts, BoundFacts
  <2> QED BY <1>1, <1>2, <2>1, Kinds DEF Indices
<1>3. CASE f \in Fixed
  <2>1. Reach(f) = 0 .. Count[f] - 1 /\ Count[f] \in Nat
    BY <1>3, ReachFacts, BoundFacts
  <2> QED BY <1>1, <1>3, <2>1, Kinds DEF Indices
<1>4. CASE f \in Plain
  BY <1>1, <1>4, ReachFacts, Kinds DEF Indices
<1> QED BY <1>2, <1>3, <1>4, Kinds

(* A part's place, in the modelled words.                                      *)
LEMMA Located ==
  ASSUME NEW f \in Fields, NEW i \in Reach(f), NEW p \in Parts[f], NEW at, at = PartAt(f, i, p)
  PROVE  /\ At[f][i][p] = at
         /\ at.region = Region(f) /\ at.region \in Regions /\ at.slot \in Slots
         /\ LanesOf(at, p) \subseteq Lanes /\ at.offset \in LanesOf(at, p)
         /\ at.offset \in Nat /\ p.size \in Nat \ {0}
<1>1. i \in InField(f) /\ at.slot \in Slots
  BY ReachFacts
<1>2. /\ At[f][i][p] = at /\ at.region = Region(f)
      /\ at.offset \in Nat /\ at.offset + p.size <= WordBytes
  BY <1>1, PlaceOfPart
<1>3. p.size \in Nat \ {0} /\ WordBytes \in Nat
  BY PartFacts
<1>4. LanesOf(at, p) \subseteq Lanes /\ at.offset \in LanesOf(at, p)
  BY <1>2, <1>3 DEF LanesOf, Lanes
<1> QED BY <1>1, <1>2, <1>3, <1>4, RegionFacts

(* pk_write and write_slot_packed change the bytes of their part.              *)
LEMMA Written ==
  ASSUME NEW f \in Fields, NEW i \in Reach(f), NEW p \in Parts[f], NEW b \in Byte,
         NEW at, at = PartAt(f, i, p), cells \in [Regions -> Words],
         NEW c, c = WritePart(f, i, p, b)
  PROVE  /\ c \in [Regions -> Words]
         /\ \A r \in Regions, s \in Slots, k \in Lanes :
              c[r][s][k] = IF r = at.region /\ s = at.slot /\ k \in LanesOf(at, p)
                           THEN b ELSE cells[r][s][k]
<1>1. At[f][i][p] = at /\ at.region \in Regions /\ at.slot \in Slots
  BY Located
<1>2. c = [cells EXCEPT ![at.region][at.slot] =
             [k \in Lanes |-> IF k \in LanesOf(at, p) THEN b ELSE @[k]]]
  BY <1>1 DEF WritePart
<1>3. cells[at.region] \in Words /\ cells[at.region][at.slot] \in [Lanes -> Byte]
  BY <1>1 DEF Words
<1> DEFINE word == [k \in Lanes |-> IF k \in LanesOf(at, p) THEN b ELSE cells[at.region][at.slot][k]]
<1>4. word \in [Lanes -> Byte]
  BY <1>3
<1>5. c = [cells EXCEPT ![at.region] = [cells[at.region] EXCEPT ![at.slot] = word]]
  BY <1>1, <1>2
<1>6. [cells[at.region] EXCEPT ![at.slot] = word] \in Words
  <2> HIDE DEF word
  <2> QED BY <1>1, <1>3, <1>4 DEF Words
<1>7. c \in [Regions -> Words]
  <2> HIDE DEF word
  <2> QED BY <1>1, <1>5, <1>6
<1>8. ASSUME NEW r \in Regions, NEW s \in Slots, NEW k \in Lanes
      PROVE  c[r][s][k] = IF r = at.region /\ s = at.slot /\ k \in LanesOf(at, p)
                          THEN b ELSE cells[r][s][k]
  <2>1. c[r][s] = IF r = at.region /\ s = at.slot THEN word ELSE cells[r][s]
    <3> HIDE DEF word
    <3> QED BY <1>1, <1>3, <1>5 DEF Words
  <2> QED BY <2>1
<1> QED BY <1>7, <1>8

(* dsarr_pop, dpk_clear and delete clear whole words.                          *)
LEMMA ZeroedWords ==
  ASSUME cells \in [Regions -> Words], NEW r \in Regions, NEW slots, NEW c, c = Zeroed(r, slots)
  PROVE  /\ c \in [Regions -> Words]
         /\ \A q \in Regions, s \in Slots, k \in Lanes :
              c[q][s][k] = IF q = r /\ s \in slots THEN 0 ELSE cells[q][s][k]
<1> DEFINE w == [s \in Slots |-> IF s \in slots THEN ZeroWord ELSE cells[r][s]]
<1>1. c = [cells EXCEPT ![r] = w]
  BY DEF Zeroed
<1>2. ZeroWord \in [Lanes -> Byte] /\ \A k \in Lanes : ZeroWord[k] = 0
  BY BoundFacts DEF ZeroWord
<1>3. w \in Words
  BY <1>2 DEF Words
<1>4. c \in [Regions -> Words]
  <2> HIDE DEF w
  <2> QED BY <1>1, <1>3
<1>5. ASSUME NEW q \in Regions, NEW s \in Slots, NEW k \in Lanes
      PROVE  c[q][s][k] = IF q = r /\ s \in slots THEN 0 ELSE cells[q][s][k]
  <2>1. c[q] = IF q = r THEN w ELSE cells[q]
    <3> HIDE DEF w
    <3> QED BY <1>1
  <2> QED BY <1>2, <2>1
<1> QED BY <1>4, <1>5

LEMMA RegionNames ==
  /\ \A f \in Fields : Region(f) \in Regions
  /\ Dynamic \subseteq Regions /\ Texts \subseteq Regions
  /\ \A f \in Dynamic : Region(f) = f /\ f \in Fields /\ f \notin Texts /\ f \notin Fixed /\ f \notin Plain
  /\ \A f \in Fixed : f \in Fields /\ f \notin Dynamic /\ f \notin Plain
  /\ \A f \in Plain : f \in Fields /\ f \notin Dynamic /\ f \notin Fixed
  BY NamesAssumption DEF Region, Regions, Fields

LEMMA AccessTyped ==
  ASSUME Types, NEW f \in Fields, NEW upTo \in Nat, 0 .. upTo - 1 \subseteq Reach(f),
         Store(f, upTo) \/ DeleteAt(f, upTo) \/ cells' = cells
  PROVE  cells' \in [Regions -> Words]
<1>1. cells \in [Regions -> Words]
  BY DEF Types
<1>2. CASE Store(f, upTo)
  <2>1. PICK i \in 0 .. upTo - 1, p \in Parts[f], b \in Byte : cells' = WritePart(f, i, p, b)
    BY <1>2 DEF Store
  <2> QED BY <1>1, <2>1, Written
<1>3. CASE DeleteAt(f, upTo)
  <2>1. PICK i \in 0 .. upTo - 1 : cells' = Zeroed(Region(f), StructSlots(f, i))
    BY <1>3 DEF DeleteAt
  <2> QED BY <1>1, <2>1, RegionNames, ZeroedWords
<1> QED BY <1>1, <1>2, <1>3

LEMMA LastFacts ==
  ASSUME Types, NEW f \in Dynamic, len[f] > 0
  PROVE  /\ f \in Fields /\ len[f] - 1 \in Reach(f) /\ len[f] - 1 \in Nat /\ len[f] \in Nat
         /\ f \notin Structs => \E p \in Parts[f] : /\ Parts[f] = {p}
                                                    /\ ZeroLast(f) = WritePart(f, len[f] - 1, p, 0)
         /\ f \in Structs => ZeroLast(f) = Zeroed(f, (len[f] - 1) * ElemSlots(Size[f]) ..
                               (len[f] - 1) * ElemSlots(Size[f]) + ElemSlots(Size[f]) - 1)
<1>1. f \in Fields /\ len[f] \in Nat /\ len[f] <= MaxLen[f]
  BY RegionNames DEF Types
<1>2. len[f] - 1 \in Reach(f) /\ len[f] - 1 \in Nat
  BY <1>1, ReachFacts, BoundFacts
<1>3. ASSUME f \notin Structs
      PROVE  \E p \in Parts[f] : /\ Parts[f] = {p}
                                 /\ ZeroLast(f) = WritePart(f, len[f] - 1, p, 0)
  <2>1. PICK p \in Parts[f] : Parts[f] = {p}
    BY <1>1, <1>3, PartsAssumption
  <2>2. (CHOOSE q \in Parts[f] : TRUE) = p
    BY <2>1
  <2> QED BY <1>3, <2>1, <2>2 DEF ZeroLast
<1>4. f \in Structs => ZeroLast(f) = Zeroed(f, (len[f] - 1) * ElemSlots(Size[f]) ..
                               (len[f] - 1) * ElemSlots(Size[f]) + ElemSlots(Size[f]) - 1)
  BY DEF ZeroLast
<1> QED BY <1>1, <1>2, <1>3, <1>4

LEMMA PendingKept ==
  ASSUME PendingOK, pending' = pending
  PROVE  PendingOK'
  BY DEF PendingOK

LEMMA TypesInit == Init => Types
<1> SUFFICES ASSUME Init PROVE Types
  OBVIOUS
<1>1. cells \in [Regions -> Words]
  BY BoundFacts DEF Init, ZeroWord, Words
<1>2. len \in [Dynamic -> Nat] /\ \A f \in Dynamic : len[f] <= MaxLen[f]
  BY BoundFacts DEF Init
<1>3. /\ heads \in [Texts -> [long : BOOLEAN, n : 0 .. MaxText, bytes : Seq(Byte)]]
      /\ \A t \in Texts : heads[t].long <=> heads[t].n >= WordBytes
  BY BoundFacts DEF Init
<1> QED BY <1>1, <1>2, <1>3 DEF Types, PendingOK, Init

LEMMA TypesArrays ==
  ASSUME Types, NEW f \in Fields
  PROVE  /\ f \in Dynamic /\ Push(f) => Types'
         /\ f \in Dynamic /\ Pop(f) => Types'
         /\ Access(f) => Types'
         /\ Delete(f) => Types'
<1> USE DEF Types
<1>1. cells \in [Regions -> Words] /\ len \in [Dynamic -> Nat] /\ \A g \in Dynamic : len[g] <= MaxLen[g]
  OBVIOUS
<1>2. ASSUME f \in Dynamic, Push(f)
      PROVE  Types'
  <2>1. len[f] \in Nat /\ len[f] < MaxLen[f] /\ len' = [len EXCEPT ![f] = @ + 1]
    BY <1>2 DEF Push
  <2>2. len[f] \in Reach(f) /\ MaxLen[f] \in Nat
    BY <1>2, <2>1, ReachFacts, BoundFacts
  <2>3. cells' \in [Regions -> Words]
    <3>1. CASE f \in Structs
      BY <1>1, <1>2, <3>1 DEF Push
    <3>2. CASE f \notin Structs
      <4>1. PICK p \in Parts[f], b \in Byte : cells' = WritePart(f, len[f], p, b)
        BY <1>2, <3>2 DEF Push
      <4> QED BY <1>1, <2>2, <4>1, Written
    <3> QED BY <3>1, <3>2
  <2>4. len' \in [Dynamic -> Nat] /\ \A g \in Dynamic : len'[g] <= MaxLen[g]
    <3>1. \A g \in Dynamic : len'[g] = IF g = f THEN len[f] + 1 ELSE len[g]
      BY <1>1, <2>1
    <3>2. len[f] + 1 \in Nat /\ len[f] + 1 <= MaxLen[f]
      BY <2>1, <2>2
    <3> QED BY <1>1, <2>1, <3>1, <3>2
  <2> QED BY <1>2, <2>3, <2>4, PendingKept DEF Push
<1>3. ASSUME f \in Dynamic, Pop(f)
      PROVE  Types'
  <2>1. len[f] \in Nat /\ len[f] > 0 /\ len' = [len EXCEPT ![f] = @ - 1] /\ cells' = ZeroLast(f)
    BY <1>3 DEF Pop
  <2>2. cells' \in [Regions -> Words]
    <3>1. CASE f \in Structs
      BY <1>1, <1>3, <2>1, <3>1, LastFacts, RegionNames, ZeroedWords
    <3>2. CASE f \notin Structs
      <4>1. PICK p \in Parts[f] : cells' = WritePart(f, len[f] - 1, p, 0)
        BY <1>3, <2>1, <3>2, LastFacts
      <4> QED BY <1>1, <1>3, <2>1, <4>1, LastFacts, BoundFacts, Written
    <3> QED BY <3>1, <3>2
  <2>3. len' \in [Dynamic -> Nat] /\ \A g \in Dynamic : len'[g] <= MaxLen[g]
    BY <1>1, <1>3, <2>1, BoundFacts
  <2> QED BY <1>3, <2>2, <2>3, PendingKept DEF Pop
<1>4. ASSUME Access(f)
      PROVE  Types'
  <2>1. Length(f) \in Nat /\ 0 .. Length(f) - 1 \subseteq Reach(f)
    BY LengthFacts DEF Types
  <2>2. Store(f, Length(f)) \/ DeleteAt(f, Length(f))
    BY <1>4 DEF Access
  <2>3. cells' \in [Regions -> Words]
    BY <2>1, <2>2, AccessTyped
  <2> QED BY <1>4, <2>3, PendingKept DEF Access
<1>5. ASSUME Delete(f)
      PROVE  Types'
  <2>1. cells' \in [Regions -> Words]
    BY <1>1, <1>5, RegionNames, ZeroedWords DEF Delete
  <2>2. len' \in [Dynamic -> Nat] /\ \A g \in Dynamic : len'[g] <= MaxLen[g]
    BY <1>1, <1>5, BoundFacts DEF Delete
  <2> QED BY <1>5, <2>1, <2>2, PendingKept DEF Delete
<1> QED BY <1>2, <1>3, <1>4, <1>5

LEMMA TypesPending ==
  ASSUME Types
  PROVE  /\ \A f \in Dynamic : BeginIndex(f) => Types'
         /\ \A f \in Dynamic \cup Fixed : BeginFor(f) => Types'
         /\ EndIndex => Types'
         /\ Turn => Types'
         /\ EndFor => Types'
<1> USE DEF Types
<1>1. ASSUME NEW f \in Dynamic, BeginIndex(f)
      PROVE  Types'
  <2>1. pending' = [kind |-> "index", of |-> f, turns |-> len[f], at |-> 0] /\ len[f] \in Nat
    BY <1>1 DEF BeginIndex
  <2>2. f \in Fields /\ Length(f) = len[f]
    BY RegionNames DEF Length
  <2>3. 0 .. len[f] - 1 \subseteq Reach(f)
    BY <2>2, LengthFacts DEF Indices
  <2>4. PendingOK'
    BY <2>1, <2>3 DEF PendingOK
  <2> QED BY <1>1, <2>4 DEF BeginIndex
<1>2. ASSUME NEW f \in Dynamic \cup Fixed, BeginFor(f)
      PROVE  Types'
  <2>1. f \in Fields
    BY RegionNames
  <2>2. Length(f) \in Nat /\ 0 .. Length(f) - 1 \subseteq Reach(f)
    BY <2>1, LengthFacts
  <2>3. pending' = [kind |-> "for", of |-> f, turns |-> Length(f), at |-> 0] /\ f \notin Structs
    BY <1>2 DEF BeginFor
  <2>4. f \in Fixed => Length(f) = Count[f]
    BY RegionNames DEF Length
  <2>5. PendingOK'
    BY <2>2, <2>3, <2>4 DEF PendingOK
  <2> QED BY <1>2, <2>5 DEF BeginFor
<1>3. ASSUME EndIndex
      PROVE  Types'
  <2>1. /\ pending # None /\ pending.kind = "index"
        /\ \/ Store(pending.of, pending.turns) \/ DeleteAt(pending.of, pending.turns)
           \/ cells' = cells
    BY <1>3 DEF EndIndex
  <2>2. pending.of \in Fields /\ pending.turns \in Nat /\ 0 .. pending.turns - 1 \subseteq Reach(pending.of)
    BY <2>1, RegionNames DEF PendingOK
  <2>3. PICK f \in Fields, n \in Nat : f = pending.of /\ n = pending.turns
    BY <2>2
  <2>4. cells' \in [Regions -> Words]
    <3>1. 0 .. n - 1 \subseteq Reach(f)
      BY <2>2, <2>3
    <3>2. Store(f, n) \/ DeleteAt(f, n) \/ cells' = cells
      BY <2>1, <2>3
    <3> QED BY <3>1, <3>2, AccessTyped
  <2> QED BY <1>3, <2>4 DEF EndIndex, PendingOK
<1>4. ASSUME Turn
      PROVE  Types'
  <2>1. /\ pending # None /\ pending.at < pending.turns
        /\ pending' = [pending EXCEPT !.at = @ + 1]
    BY <1>4 DEF Turn
  <2>2. pending \in [kind : {"index", "for"}, of : Dynamic \cup Fixed, turns : Nat, at : Nat]
    BY <2>1 DEF PendingOK
  <2>3. /\ pending' \in [kind : {"index", "for"}, of : Dynamic \cup Fixed, turns : Nat, at : Nat]
        /\ pending'.at <= pending'.turns /\ pending'.of = pending.of
        /\ pending'.kind = pending.kind /\ pending'.turns = pending.turns
    <3>1. PICK k \in {"index", "for"}, g \in Dynamic \cup Fixed, n \in Nat, a \in Nat :
            pending = [kind |-> k, of |-> g, turns |-> n, at |-> a]
      BY <2>2
    <3>2. pending' = [kind |-> k, of |-> g, turns |-> n, at |-> a + 1] /\ a < n
      BY <2>1, <3>1
    <3> QED BY <3>1, <3>2
  <2>4. PendingOK'
    BY <2>1, <2>3 DEF PendingOK
  <2> QED BY <1>4, <2>4 DEF Turn
<1>5. ASSUME EndFor
      PROVE  Types'
  BY <1>5 DEF EndFor, PendingOK
<1> QED BY <1>1, <1>2, <1>3, <1>4, <1>5

(* gum_sstr_store, byte by byte: the text, zeros to the end of its last word,     *)
(* and behind it what releasing the old text left.                            *)
TextWritten(t, n, s) ==
  /\ s \in [1 .. n -> Letter] /\ io' = s
  /\ heads' = [heads EXCEPT ![t] =
       [long |-> n >= WordBytes, n |-> n, bytes |-> IF n < WordBytes THEN s ELSE << >>]]
  /\ \E word \in Words :
       /\ cells' = [cells EXCEPT ![t] = word]
       /\ \A w \in Slots, k \in Lanes :
            word[w][k] = IF n >= WordBytes /\ w < TextWords(n)
                         THEN IF w * WordBytes + k < n THEN s[w * WordBytes + k + 1] ELSE 0
                         ELSE Released(t)[w][k]

LEMMA ReleasedWords ==
  ASSUME Types, NEW t \in Texts
  PROVE  /\ Released(t) \in Words
         /\ \A w \in Slots, k \in Lanes :
              Released(t)[w][k] = IF heads[t].long /\ w < TextWords(heads[t].n) THEN 0
                                  ELSE cells[t][w][k]
<1>1. cells[t] \in Words
  BY RegionNames DEF Types
<1>2. ZeroWord \in [Lanes -> Byte] /\ \A k \in Lanes : ZeroWord[k] = 0
  BY BoundFacts DEF ZeroWord
<1> QED BY <1>1, <1>2 DEF Released, Words

LEMMA TextFits ==
  ASSUME NEW n \in 0 .. MaxText
  PROVE  /\ n \in Nat /\ TextWords(n) \in Nat /\ n <= TextWords(n) * WordBytes
         /\ TextWords(n) <= TextWords(MaxText) /\ TextWords(n) <= TextWords(MaxText + 1)
         /\ TextWords(MaxText + 1) \in Nat /\ n <= TextWords(MaxText + 1) * WordBytes
<1>1. n \in Nat /\ MaxText \in Nat /\ n <= MaxText /\ WordBytes \in Nat \ {0}
  BY BoundFacts
<1>2. /\ TextWords(n) \in Nat /\ n <= TextWords(n) * WordBytes
      /\ \A c \in Nat : n <= c * WordBytes => TextWords(n) <= c
  BY <1>1, Ceiling DEF TextWords
<1>3. TextWords(MaxText) \in Nat /\ MaxText <= TextWords(MaxText) * WordBytes
  BY <1>1, Ceiling DEF TextWords
<1>4. TextWords(MaxText + 1) \in Nat /\ MaxText + 1 <= TextWords(MaxText + 1) * WordBytes
  BY <1>1, Ceiling DEF TextWords
<1>5. TextWords(MaxText) * WordBytes \in Nat /\ TextWords(MaxText + 1) * WordBytes \in Nat
  BY <1>1, <1>3, <1>4, Times
<1>6. n <= TextWords(MaxText) * WordBytes /\ n <= TextWords(MaxText + 1) * WordBytes
  BY <1>1, <1>3, <1>4, <1>5
<1> QED BY <1>1, <1>2, <1>3, <1>4, <1>6

(* What one choice of text and junk makes of storage.                          *)
StoredAs(t, n, s, junk) ==
  LET mem == Masked(s, InMemory(s, junk))
  IN  /\ heads' = [heads EXCEPT ![t] =
            [long |-> n >= WordBytes, n |-> n,
             bytes |-> IF n < WordBytes THEN [k \in 1 .. n |-> mem[k - 1]] ELSE << >>]]
      /\ cells' = [cells EXCEPT ![t] =
            [w \in Slots |-> IF n >= WordBytes /\ w < TextWords(n)
                             THEN [k \in Lanes |-> mem[w * WordBytes + k]]
                             ELSE Released(t)[w]]]
      /\ io' = s

LEMMA StoreTextWrites ==
  ASSUME Types, NEW t \in Texts, StoreText(t)
  PROVE  \E n \in 0 .. MaxText : \E s : TextWritten(t, n, s)
<1>0. PICK n \in 0 .. MaxText : \E s \in [1 .. n -> Letter], junk \in Byte : StoredAs(t, n, s, junk)
  BY DEF StoreText, StoredAs
<1>1. PICK s \in [1 .. n -> Letter], junk \in Byte : StoredAs(t, n, s, junk)
  BY <1>0
<1> DEFINE mem == Masked(s, InMemory(s, junk))
           top == TextWords(MaxText + 1)
           word == [w \in Slots |-> IF n >= WordBytes /\ w < TextWords(n)
                                    THEN [k \in Lanes |-> mem[w * WordBytes + k]]
                                    ELSE Released(t)[w]]
<1>2. /\ n \in Nat /\ WordBytes \in Nat \ {0} /\ top \in Nat /\ n <= top * WordBytes
      /\ TextWords(n) \in Nat /\ TextWords(n) <= top
  BY TextFits, BoundFacts
<1>3. Len(s) = n /\ \A k \in 1 .. n : s[k] \in Byte
  BY <1>2 DEF Letter
<1>4. WordBytes * top = top * WordBytes /\ top * WordBytes \in Nat
  BY <1>2, Times
<1>5. \A k \in 0 .. top * WordBytes - 1 : mem[k] = IF k < n THEN s[k + 1] ELSE 0
  BY <1>2, <1>3, <1>4 DEF Masked, InMemory
<1>6. ASSUME n < WordBytes PROVE [k \in 1 .. n |-> mem[k - 1]] = s
  <2> HIDE DEF mem, top
  <2>1. \A k \in 1 .. n : mem[k - 1] = s[k]
    <3>1. SUFFICES ASSUME NEW k \in 1 .. n PROVE mem[k - 1] = s[k]
      OBVIOUS
    <3>2. k - 1 \in 0 .. top * WordBytes - 1 /\ k - 1 < n /\ k - 1 + 1 = k
      BY <1>2, <1>4
    <3> QED BY <1>5, <3>2
  <2> QED BY <1>1, <2>1
<1>7. ASSUME NEW w \in Slots, NEW k \in Lanes, w < TextWords(n)
      PROVE  mem[w * WordBytes + k] = IF w * WordBytes + k < n THEN s[w * WordBytes + k + 1] ELSE 0
  <2> HIDE DEF mem, top
  <2>1. w \in Nat /\ k \in 0 .. WordBytes - 1
    BY BoundFacts DEF Slots, Lanes
  <2>2. w * WordBytes \in Nat /\ w * WordBytes + WordBytes <= top * WordBytes
    BY <1>2, <1>7, <2>1, Times
  <2>3. w * WordBytes + k \in 0 .. top * WordBytes - 1
    BY <1>2, <1>4, <2>1, <2>2
  <2> QED BY <1>5, <2>3
<1>8. word \in Words /\ \A w \in Slots, k \in Lanes :
        word[w][k] = IF n >= WordBytes /\ w < TextWords(n)
                     THEN IF w * WordBytes + k < n THEN s[w * WordBytes + k + 1] ELSE 0
                     ELSE Released(t)[w][k]
  <2> HIDE DEF mem, top
  <2>1. \A w \in Slots : w \in Nat
    BY BoundFacts DEF Slots
  <2>2. \A w \in Slots, k \in Lanes : w < TextWords(n) => mem[w * WordBytes + k] \in Byte
    <3>1. SUFFICES ASSUME NEW w \in Slots, NEW k \in Lanes, w < TextWords(n)
                   PROVE  mem[w * WordBytes + k] \in Byte
      OBVIOUS
    <3>2. w * WordBytes \in Nat /\ k \in Nat
      BY <1>2, <2>1, Times DEF Lanes
    <3>3. w * WordBytes + k < n => w * WordBytes + k + 1 \in 1 .. n
      BY <1>2, <3>2
    <3> QED BY <1>3, <1>7, <3>1, <3>3, BoundFacts
  <2>3. Released(t) \in Words
    BY ReleasedWords
  <2>4. word \in Words
    BY <2>2, <2>3 DEF Words
  <2> QED BY <1>7, <2>4
<1>9. heads' = [heads EXCEPT ![t] =
       [long |-> n >= WordBytes, n |-> n, bytes |-> IF n < WordBytes THEN s ELSE << >>]]
  BY <1>1, <1>6 DEF StoredAs
<1>10. cells' = [cells EXCEPT ![t] = word]
  BY <1>1 DEF StoredAs
<1>11. TextWritten(t, n, s)
  <2> HIDE DEF word, mem
  <2> QED BY <1>1, <1>8, <1>9, <1>10 DEF TextWritten, StoredAs
<1> QED BY <1>11

LEMMA TypesTexts ==
  ASSUME Types, NEW t \in Texts
  PROVE  /\ StoreText(t) => Types'
         /\ DeleteText(t) => Types'
<1> USE DEF Types
<1>1. ASSUME StoreText(t)
      PROVE  Types'
  <2>1. PICK n \in 0 .. MaxText : \E s : TextWritten(t, n, s)
    BY <1>1, StoreTextWrites
  <2>2. PICK s : TextWritten(t, n, s)
    BY <2>1
  <2>3. PICK word \in Words : cells' = [cells EXCEPT ![t] = word]
    BY <2>2 DEF TextWritten
  <2>4. cells' \in [Regions -> Words]
    BY <2>3, RegionNames
  <2>5. n \in Nat /\ s \in Seq(Byte)
    BY <2>2, TextFits DEF TextWritten, Letter
  <2> DEFINE h == [long |-> n >= WordBytes, n |-> n, bytes |-> IF n < WordBytes THEN s ELSE << >>]
  <2>6. h \in [long : BOOLEAN, n : 0 .. MaxText, bytes : Seq(Byte)] /\ (h.long <=> h.n >= WordBytes)
    <3>1. (n >= WordBytes) \in BOOLEAN /\ (IF n < WordBytes THEN s ELSE << >>) \in Seq(Byte)
      BY <2>5
    <3>2. h.n = n /\ h.long = (n >= WordBytes)
      OBVIOUS
    <3> QED BY <3>1, <3>2
  <2>7. heads' = [heads EXCEPT ![t] = h]
    BY <2>2 DEF TextWritten
  <2>8. /\ heads' \in [Texts -> [long : BOOLEAN, n : 0 .. MaxText, bytes : Seq(Byte)]]
        /\ \A u \in Texts : heads'[u].long <=> heads'[u].n >= WordBytes
    <3> HIDE DEF h
    <3> QED BY <2>6, <2>7
  <2> QED BY <1>1, <2>4, <2>8, PendingKept DEF StoreText
<1>2. ASSUME DeleteText(t)
      PROVE  Types'
  <2>1. Released(t) \in Words
    BY ReleasedWords
  <2>2. cells' \in [Regions -> Words]
    BY <1>2, <2>1, RegionNames DEF DeleteText
  <2> DEFINE h == [long |-> FALSE, n |-> 0, bytes |-> << >>]
  <2>3. h \in [long : BOOLEAN, n : 0 .. MaxText, bytes : Seq(Byte)] /\ (h.long <=> h.n >= WordBytes)
    BY BoundFacts
  <2>4. heads' = [heads EXCEPT ![t] = h]
    BY <1>2 DEF DeleteText
  <2>5. /\ heads' \in [Texts -> [long : BOOLEAN, n : 0 .. MaxText, bytes : Seq(Byte)]]
        /\ \A u \in Texts : heads'[u].long <=> heads'[u].n >= WordBytes
    <3> HIDE DEF h
    <3> QED BY <2>3, <2>4
  <2> QED BY <1>2, <2>2, <2>5, PendingKept DEF DeleteText
<1> QED BY <1>1, <1>2

LEMMA TypesNext == Types /\ [Next]_vars => Types'
<1> SUFFICES ASSUME Types, [Next]_vars PROVE Types'
  OBVIOUS
<1>1. CASE UNCHANGED vars
  BY <1>1, PendingKept DEF vars, Types
<1>2. CASE \E f \in Dynamic : Room(f) /\ Push(f)
  BY <1>2, RegionNames, TypesArrays
<1>3. CASE \E f \in Dynamic : Pop(f) \/ BeginIndex(f)
  BY <1>3, RegionNames, TypesArrays, TypesPending
<1>4. CASE \E f \in Fields : (Room(f) /\ Access(f)) \/ Delete(f)
  BY <1>4, TypesArrays
<1>5. CASE (\E f \in Dynamic \cup Fixed : BeginFor(f)) \/ EndIndex \/ Turn \/ EndFor
  BY <1>5, TypesPending
<1>6. CASE \E t \in Texts : StoreText(t) \/ DeleteText(t)
  BY <1>6, TypesTexts
<1> QED BY <1>1, <1>2, <1>3, <1>4, <1>5, <1>6 DEF Next

LEMMA TypesImply == Types => TypeOK
<1> SUFFICES ASSUME Types PROVE TypeOK
  OBVIOUS
<1>1. \A f \in Dynamic : len[f] \in 0 .. MaxLen[f]
  BY BoundFacts DEF Types
<1>2. \A t \in Texts : heads[t].n \in 0 .. MaxText
  BY DEF Types
<1>3. pending # None => /\ pending.kind \in {"index", "for"} /\ pending.of \in Dynamic \cup Fixed
                        /\ pending.at \in 0 .. pending.turns
  BY DEF Types, PendingOK
<1> QED BY <1>1, <1>2, <1>3 DEF Types, TypeOK, Words

(* The words of storage hold bytes, an array is no longer than its bound, and an *)
(* evaluation stays among the indices it began with.                          *)
THEOREM CollectionsTypeOK == Spec => []TypeOK
<1>1. Init => Types
  BY TypesInit
<1>2. Types /\ [Next]_vars => Types'
  BY TypesNext
<1>3. Types => TypeOK
  BY TypesImply
<1> QED BY <1>1, <1>2, <1>3, PTL DEF Spec

-----------------------------------------------------------------------------
(* Nothing is left behind.                                                   *)

(* Byte k of word s holds part of one of the first n values of f.               *)
Live(f, n, s, k) ==
  \E i \in 0 .. n - 1, p \in Parts[f] :
    PartAt(f, i, p).slot = s /\ k \in LanesOf(PartAt(f, i, p), p)

CleanArray(f, words, n) ==
  \A s \in Slots, k \in Lanes : Live(f, n, s, k) \/ words[s][k] = 0

CleanText(words, head) ==
  \A s \in Slots, k \in Lanes : (head.long /\ s * WordBytes + k < head.n) \/ words[s][k] = 0

Tidy ==
  /\ \A f \in Dynamic : CleanArray(f, cells[f], len[f])
  /\ \A t \in Texts : CleanText(cells[t], heads[t])

(* Nothing shortens an array while the index of an access to it is evaluated.    *)
IndexInv ==
  pending # None /\ pending.kind = "index" => pending.turns <= len[pending.of]

TidyInv == Types /\ IndexInv /\ Tidy

LEMMA QuotientAndRest ==
  ASSUME NEW q \in Nat, NEW n \in Nat \ {0}, NEW r \in 0 .. n - 1
  PROVE  (q * n + r) \div n = q /\ (q * n + r) % n = r /\ q * n + r \in Nat
<1>1. PICK a \in Int : a = q * n + r
  BY SMT
<1>2. a = n * q + r /\ a \in Nat
  BY <1>1, SMT
<1>3. q = a \div n
  BY <1>2, SMT
<1>4. r = a % n
  BY <1>2, SMT
<1> QED BY <1>1, <1>2, <1>3, <1>4

LEMMA TidyImplies == Types /\ Tidy => NothingLeftBehind
<1> SUFFICES ASSUME Types, Tidy, NEW r \in Dynamic \cup Texts, NEW s \in Slots, NEW k \in Lanes,
                    <<s, k>> \notin LiveBytes(r)
             PROVE  cells[r][s][k] = 0
  BY DEF NothingLeftBehind
<1>1. CASE r \in Dynamic
  <2>1. r \in Fields /\ len[r] \in Nat /\ Indices(r) = 0 .. len[r] - 1 /\ Indices(r) \subseteq Reach(r)
    BY <1>1, RegionNames, LengthFacts DEF Length, Types
  <2>2. ~ Live(r, len[r], s, k)
    <3>1. SUFFICES ASSUME NEW i \in 0 .. len[r] - 1, NEW p \in Parts[r],
                          PartAt(r, i, p).slot = s, k \in LanesOf(PartAt(r, i, p), p)
                   PROVE  FALSE
      BY DEF Live
    <3>2. i \in Indices(r) /\ At[r][i][p] = PartAt(r, i, p)
      BY <2>1, Located
    <3> DEFINE bytes(j, q) == LET at == At[r][j][q] IN {<<at.slot, l>> : l \in LanesOf(at, q)}
    <3>3. <<s, k>> \in bytes(i, p)
      BY <3>1, <3>2
    <3>4. LiveBytes(r) = UNION {bytes(j, q) : j \in Indices(r), q \in Parts[r]}
      BY <1>1 DEF LiveBytes
    <3> HIDE DEF bytes
    <3> QED BY <3>1, <3>2, <3>3, <3>4
  <2> QED BY <1>1, <2>2 DEF Tidy, CleanArray
<1>2. CASE r \notin Dynamic
  <2>1. r \in Texts /\ s \in Nat /\ k \in 0 .. WordBytes - 1 /\ WordBytes \in Nat \ {0}
    BY <1>2, BoundFacts DEF Slots, Lanes
  <2>2. s * WordBytes + k \in Nat /\ (s * WordBytes + k) \div WordBytes = s
        /\ (s * WordBytes + k) % WordBytes = k
    BY <2>1, QuotientAndRest
  <2>3. heads[r].n \in Nat
    BY <2>1, BoundFacts DEF Types
  <2>4. ~ (heads[r].long /\ s * WordBytes + k < heads[r].n)
    BY <1>2, <2>2, <2>3 DEF LiveBytes
  <2> QED BY <2>1, <2>4 DEF Tidy, CleanText
<1> QED BY <1>1, <1>2

LEMMA TidyInit == Init => Tidy /\ IndexInv
  BY RegionNames DEF Init, Tidy, CleanArray, CleanText, IndexInv, ZeroWord

(* A statement on one field concerns the bytes of its region.                   *)
LEMMA TidyElsewhere ==
  ASSUME Tidy, NEW f \in Fields, heads' = heads,
         \A r \in Regions, s \in Slots, k \in Lanes :
           r # Region(f) => cells'[r][s][k] = cells[r][s][k],
         \A g \in Dynamic : g # f => len'[g] = len[g],
         f \in Dynamic => CleanArray(f, cells'[f], len'[f])
  PROVE  Tidy'
<1>1. ASSUME NEW g \in Dynamic PROVE CleanArray(g, cells'[g], len'[g])
  <2>1. CASE g = f
    BY <1>1, <2>1
  <2>2. CASE g # f
    <3>1. g # Region(f) /\ g \in Regions
      BY <1>1, <2>2, RegionNames, RegionFacts
    <3> QED BY <1>1, <2>2, <3>1 DEF Tidy, CleanArray
  <2> QED BY <2>1, <2>2
<1>2. ASSUME NEW t \in Texts PROVE CleanText(cells'[t], heads'[t])
  BY <1>2, RegionFacts, RegionNames DEF Tidy, CleanText
<1> QED BY <1>1, <1>2 DEF Tidy

(* More values: more bytes are live.                                         *)
LEMMA LiveGrows ==
  ASSUME NEW f, NEW m \in Nat, NEW n \in Nat, m <= n, NEW s, NEW k, Live(f, m, s, k)
  PROVE  Live(f, n, s, k)
<1>1. 0 .. m - 1 \subseteq 0 .. n - 1
  OBVIOUS
<1> QED BY <1>1 DEF Live

(* A store among the values an array holds.                                   *)
LEMMA TidyAccess ==
  ASSUME Types, Tidy, NEW f \in Fields, NEW upTo \in Nat, 0 .. upTo - 1 \subseteq Reach(f),
         f \in Dynamic => upTo <= len[f],
         Store(f, upTo) \/ DeleteAt(f, upTo), heads' = heads, len' = len
  PROVE  Tidy'
<1>1. cells \in [Regions -> Words]
  BY DEF Types
<1>2. CASE Store(f, upTo)
  <2>1. PICK i \in 0 .. upTo - 1, p \in Parts[f], b \in Byte : cells' = WritePart(f, i, p, b)
    BY <1>2 DEF Store
  <2> DEFINE at == PartAt(f, i, p)
  <2>2. \A r \in Regions, s \in Slots, k \in Lanes :
          cells'[r][s][k] = IF r = at.region /\ s = at.slot /\ k \in LanesOf(at, p)
                            THEN b ELSE cells[r][s][k]
    BY <1>1, <2>1, Written
  <2>3. at.region = Region(f)
    BY <2>1, Located
  <2>4. ASSUME f \in Dynamic PROVE CleanArray(f, cells'[f], len'[f])
    <3>1. SUFFICES ASSUME NEW s \in Slots, NEW k \in Lanes, ~ Live(f, len[f], s, k)
                   PROVE  cells'[f][s][k] = 0
      BY DEF CleanArray
    <3>2. i \in 0 .. len[f] - 1
      BY <2>1, <2>4 DEF Types
    <3>3. ~ (s = at.slot /\ k \in LanesOf(at, p))
      BY <3>1, <3>2 DEF Live
    <3>4. cells'[f][s][k] = cells[f][s][k]
      BY <2>2, <2>4, <3>3, RegionNames
    <3> QED BY <2>4, <3>1, <3>4 DEF Tidy, CleanArray
  <2> QED BY <2>2, <2>3, <2>4, TidyElsewhere
<1>3. CASE DeleteAt(f, upTo)
  <2>1. PICK i \in 0 .. upTo - 1 : cells' = Zeroed(Region(f), StructSlots(f, i))
    BY <1>3 DEF DeleteAt
  <2>2. \A q \in Regions, s \in Slots, k \in Lanes :
          cells'[q][s][k] = IF q = Region(f) /\ s \in StructSlots(f, i) THEN 0 ELSE cells[q][s][k]
    BY <1>1, <2>1, RegionNames, ZeroedWords
  <2>3. f \in Dynamic => CleanArray(f, cells'[f], len'[f])
    BY <2>2, RegionNames DEF Tidy, CleanArray
  <2> QED BY <2>2, <2>3, TidyElsewhere
<1> QED BY <1>2, <1>3

LEMMA TidyPush ==
  ASSUME Types, Tidy, NEW f \in Dynamic, Push(f)
  PROVE  Tidy'
<1>1. f \in Fields /\ len[f] \in Nat /\ len[f] \in Reach(f) /\ len'[f] = len[f] + 1
  <2>1. f \in Fields /\ len[f] \in Nat /\ len[f] < MaxLen[f] /\ len'[f] = len[f] + 1 /\ MaxLen[f] \in Nat
    BY RegionNames, BoundFacts DEF Push, Types
  <2> QED BY <2>1, ReachFacts
<1>2. \A s, k : Live(f, len[f], s, k) => Live(f, len'[f], s, k)
  BY <1>1, LiveGrows
<1>3. heads' = heads /\ \A g \in Dynamic : g # f => len'[g] = len[g]
  BY DEF Push, Types
<1>4. CASE f \in Structs
  <2>1. cells' = cells
    BY <1>4 DEF Push
  <2>2. CleanArray(f, cells'[f], len'[f])
    BY <1>2, <2>1 DEF Tidy, CleanArray
  <2> QED BY <1>1, <1>3, <2>1, <2>2, TidyElsewhere
<1>5. CASE f \notin Structs
  <2>1. PICK p \in Parts[f], b \in Byte : cells' = WritePart(f, len[f], p, b)
    BY <1>5 DEF Push
  <2> DEFINE at == PartAt(f, len[f], p)
  <2>2. \A r \in Regions, s \in Slots, k \in Lanes :
          cells'[r][s][k] = IF r = at.region /\ s = at.slot /\ k \in LanesOf(at, p)
                            THEN b ELSE cells[r][s][k]
    BY <1>1, <2>1, Written DEF Types
  <2>3. at.region = Region(f)
    BY <1>1, Located
  <2>4. CleanArray(f, cells'[f], len'[f])
    <3>1. SUFFICES ASSUME NEW s \in Slots, NEW k \in Lanes, ~ Live(f, len'[f], s, k)
                   PROVE  cells'[f][s][k] = 0
      BY DEF CleanArray
    <3>2. ~ (s = at.slot /\ k \in LanesOf(at, p))
      <4>1. len[f] \in 0 .. len'[f] - 1
        BY <1>1
      <4> QED BY <3>1, <4>1 DEF Live
    <3>3. cells'[f][s][k] = cells[f][s][k]
      BY <2>2, <3>2, RegionNames
    <3> QED BY <1>2, <3>1, <3>3 DEF Tidy, CleanArray
  <2> QED BY <1>1, <1>3, <2>2, <2>3, <2>4, TidyElsewhere
<1> QED BY <1>4, <1>5

(* pop: the bytes of the last value are zeroed, those of no other are.          *)
LEMMA PopZeroes ==
  ASSUME Types, NEW f \in Dynamic, Agree(f), len[f] > 0, cells' = ZeroLast(f)
  PROVE  /\ \A r \in Regions, s \in Slots, k \in Lanes :
              r # f => cells'[r][s][k] = cells[r][s][k]
         /\ \A p \in Parts[f], k \in Lanes :
              k \in LanesOf(PartAt(f, len[f] - 1, p), p)
                => cells'[f][PartAt(f, len[f] - 1, p).slot][k] = 0
         /\ \A s \in Slots, k \in Lanes : cells'[f][s][k] = cells[f][s][k] \/ cells'[f][s][k] = 0
         /\ \A i \in 0 .. len[f] - 2, p \in Parts[f], k \in Lanes :
              k \in LanesOf(PartAt(f, i, p), p)
                => cells'[f][PartAt(f, i, p).slot][k] = cells[f][PartAt(f, i, p).slot][k]
<1> DEFINE last == len[f] - 1
<1>1. /\ f \in Fields /\ f \in Regions /\ Region(f) = f /\ last \in Nat /\ last \in Reach(f)
      /\ cells \in [Regions -> Words] /\ len[f] \in Nat
  BY RegionNames, LastFacts DEF Types
<1>2. 0 .. len[f] - 2 \subseteq Reach(f) /\ Reach(f) \subseteq InField(f)
  <2>1. Reach(f) = 0 .. MaxLen[f] - 1 /\ MaxLen[f] \in Nat /\ len[f] <= MaxLen[f]
    BY <1>1, ReachFacts, BoundFacts DEF Types
  <2> QED BY <1>1, <2>1, ReachFacts
<1>3. CASE f \notin Structs
  <2>1. PICK p \in Parts[f] : Parts[f] = {p} /\ cells' = WritePart(f, last, p, 0)
    BY <1>3, LastFacts
  <2> DEFINE at == PartAt(f, last, p)
  <2>2. \A r \in Regions, s \in Slots, k \in Lanes :
          cells'[r][s][k] = IF r = at.region /\ s = at.slot /\ k \in LanesOf(at, p)
                            THEN 0 ELSE cells[r][s][k]
    BY <1>1, <2>1, Written, BoundFacts
  <2>3. at.region = f /\ at.slot \in Slots
    BY <1>1, Located
  <2>4. ASSUME NEW i \in 0 .. len[f] - 2, NEW q \in Parts[f], NEW k \in Lanes,
               k \in LanesOf(PartAt(f, i, q), q)
        PROVE  cells'[f][PartAt(f, i, q).slot][k] = cells[f][PartAt(f, i, q).slot][k]
    <3>1. i \in Reach(f) /\ i # last /\ i \in InField(f) /\ last \in InField(f)
      BY <1>1, <1>2
    <3>2. Apart(PartAt(f, i, q), q, at, p)
      BY <1>1, <3>1, ApartInField
    <3>3. PartAt(f, i, q).region = f /\ PartAt(f, i, q).slot \in Slots
      BY <1>1, <3>1, Located
    <3>4. /\ PartAt(f, i, q).offset \in Nat /\ at.offset \in Nat /\ p.size \in Nat /\ q.size \in Nat
      BY <1>1, <3>1, Located
    <3>5. ~ (PartAt(f, i, q).slot = at.slot /\ k \in LanesOf(at, p))
      <4> HIDE DEF at
      <4> QED BY <2>3, <2>4, <3>2, <3>3, <3>4 DEF Apart, LanesOf
    <3> QED BY <1>1, <2>2, <3>3, <3>5
  <2> HIDE DEF at
  <2>5. \A q \in Parts[f], k \in Lanes :
              k \in LanesOf(PartAt(f, last, q), q)
                => cells'[f][PartAt(f, last, q).slot][k] = 0
    BY <1>1, <2>1, <2>2, <2>3 DEF at
  <2> QED BY <1>1, <2>2, <2>3, <2>4, <2>5
<1>4. CASE f \in Structs
  <2> DEFINE e == ElemSlots(Size[f])
             slots == last * e .. last * e + e - 1
  <2>1. cells' = Zeroed(f, slots)
    BY <1>4, LastFacts
  <2>2. \A r \in Regions, s \in Slots, k \in Lanes :
          cells'[r][s][k] = IF r = f /\ s \in slots THEN 0 ELSE cells[r][s][k]
    <3> HIDE DEF slots
    <3> QED BY <1>1, <2>1, ZeroedWords
  <2>3. ASSUME NEW i \in Reach(f), NEW p \in Parts[f]
        PROVE  /\ PartAt(f, i, p).slot = p.slot + i * e /\ PartAt(f, i, p).slot \in Slots
               /\ i = last => PartAt(f, i, p).slot \in slots
               /\ i < last => PartAt(f, i, p).slot \notin slots
    <3>1. p.slot \in Nat /\ e \in Nat /\ p.slot < e /\ i \in Nat
      BY <1>1, <1>4, PartFacts, StructFacts, ReachFacts
    <3>2. PartAt(f, i, p).slot = p.slot + i * e
      BY <1>4, RegionNames DEF PartAt, Slot
    <3>3. i * e \in Nat /\ last * e \in Nat /\ (i < last => i * e + e <= last * e)
      BY <1>1, <3>1, Times
    <3>4. PartAt(f, i, p).slot \in Slots
      BY <1>1, ReachFacts
    <3> QED BY <3>1, <3>2, <3>3, <3>4
  <2> HIDE DEF slots
  <2> QED BY <1>1, <1>2, <2>2, <2>3
<1> QED BY <1>3, <1>4

LEMMA TidyPop ==
  ASSUME Types, Tidy, NEW f \in Dynamic, Agree(f), Pop(f)
  PROVE  Tidy'
<1> DEFINE last == len[f] - 1
<1>1. /\ len[f] > 0 /\ len[f] \in Nat /\ cells' = ZeroLast(f) /\ len'[f] = last
      /\ \A g \in Dynamic : g # f => len'[g] = len[g]
      /\ heads' = heads /\ f \in Fields /\ Region(f) = f /\ f \in Regions
  BY RegionNames DEF Pop, Types
<1>2. /\ \A r \in Regions, s \in Slots, k \in Lanes : r # f => cells'[r][s][k] = cells[r][s][k]
      /\ \A p \in Parts[f], k \in Lanes :
           k \in LanesOf(PartAt(f, last, p), p) => cells'[f][PartAt(f, last, p).slot][k] = 0
      /\ \A s \in Slots, k \in Lanes : cells'[f][s][k] = cells[f][s][k] \/ cells'[f][s][k] = 0
  BY <1>1, PopZeroes
<1>3. CleanArray(f, cells'[f], len'[f])
  <2>1. SUFFICES ASSUME NEW s \in Slots, NEW k \in Lanes, ~ Live(f, last, s, k)
                 PROVE  cells'[f][s][k] = 0
    BY <1>1 DEF CleanArray
  <2>2. CASE Live(f, len[f], s, k)
    <3>1. PICK i \in 0 .. len[f] - 1, p \in Parts[f] :
            PartAt(f, i, p).slot = s /\ k \in LanesOf(PartAt(f, i, p), p)
      BY <2>2 DEF Live
    <3>2. i = last
      <4>1. i \notin 0 .. last - 1
        BY <2>1, <3>1 DEF Live
      <4> QED BY <1>1, <4>1
    <3> HIDE DEF last
    <3> QED BY <1>2, <3>1, <3>2
  <2>3. CASE ~ Live(f, len[f], s, k)
    <3>1. cells[f][s][k] = 0
      BY <2>3 DEF Tidy, CleanArray
    <3> QED BY <1>2, <3>1
  <2> QED BY <2>2, <2>3
<1> QED BY <1>1, <1>2, <1>3, TidyElsewhere

LEMMA TidyDelete ==
  ASSUME Types, Tidy, NEW f \in Fields, Agree(f), Delete(f)
  PROVE  Tidy'
<1>1. /\ cells' = Zeroed(Region(f), DeletedSlots(f)) /\ cells \in [Regions -> Words]
      /\ len' = [g \in Dynamic |-> IF g = f THEN 0 ELSE len[g]] /\ heads' = heads
      /\ f \in Plain => f \in Structs
  BY DEF Delete, Types
<1>2. \A r \in Regions, s \in Slots, k \in Lanes :
        cells'[r][s][k] = IF r = Region(f) /\ s \in DeletedSlots(f) THEN 0 ELSE cells[r][s][k]
  BY <1>1, RegionNames, ZeroedWords
<1>3. ASSUME f \in Dynamic PROVE CleanArray(f, cells'[f], len'[f])
  <2>1. SUFFICES ASSUME NEW s \in Slots, NEW k \in Lanes PROVE cells'[f][s][k] = 0
    BY DEF CleanArray
  <2>2. len[f] \in Nat /\ Length(f) = len[f] /\ f \notin Plain /\ Region(f) = f /\ f \in Regions
    BY <1>3, RegionNames DEF Types, Length
  <2>3. 0 .. len[f] - 1 \subseteq InField(f)
    BY <2>2, LengthFacts, ReachFacts
  <2>4. CASE Live(f, len[f], s, k)
    <3>1. PICK i \in 0 .. len[f] - 1, p \in Parts[f] : PartAt(f, i, p).slot = s
      BY <2>4 DEF Live
    <3>2. s \in DeletedSlots(f)
      BY <1>1, <2>2, <2>3, <3>1, DeletedWords
    <3> QED BY <1>2, <2>2, <3>2
  <2>5. CASE ~ Live(f, len[f], s, k)
    <3>1. cells[f][s][k] = 0
      BY <1>3, <2>5 DEF Tidy, CleanArray
    <3> QED BY <1>2, <2>2, <3>1
  <2> QED BY <2>4, <2>5
<1>4. \A g \in Dynamic : g # f => len'[g] = len[g]
  BY <1>1
<1> QED BY <1>1, <1>2, <1>3, <1>4, TidyElsewhere

(* A statement on a text concerns the bytes of its region.                      *)
LEMMA TidyTextElsewhere ==
  ASSUME Types, Tidy, NEW t \in Texts, NEW word, cells' = [cells EXCEPT ![t] = word], len' = len,
         NEW h, heads' = [heads EXCEPT ![t] = h], CleanText(word, h)
  PROVE  Tidy'
<1>1. ASSUME NEW g \in Dynamic PROVE CleanArray(g, cells'[g], len'[g])
  BY <1>1, RegionNames DEF Tidy, Types
<1>2. ASSUME NEW u \in Texts PROVE CleanText(cells'[u], heads'[u])
  BY <1>2, RegionNames DEF Tidy, Types
<1> QED BY <1>1, <1>2 DEF Tidy

(* What releasing a text leaves, if its words were clean: nothing.              *)
LEMMA ReleasedClean ==
  ASSUME Types, Tidy, NEW t \in Texts, NEW s \in Slots, NEW k \in Lanes
  PROVE  Released(t)[s][k] = 0
<1>1. Released(t)[s][k] = IF heads[t].long /\ s < TextWords(heads[t].n) THEN 0 ELSE cells[t][s][k]
  BY ReleasedWords
<1>2. ASSUME heads[t].long, s * WordBytes + k < heads[t].n
      PROVE  s < TextWords(heads[t].n)
  <2>1. heads[t].n \in 0 .. MaxText
    BY DEF Types
  <2>2. PICK n \in 0 .. MaxText : n = heads[t].n
    BY <2>1
  <2>3. n \in Nat /\ TextWords(n) \in Nat /\ n <= TextWords(n) * WordBytes
    BY TextFits
  <2>4. s \in Nat /\ k \in Nat /\ WordBytes \in Nat \ {0}
    BY BoundFacts DEF Slots, Lanes
  <2>5. TextWords(n) <= s => TextWords(n) * WordBytes <= s * WordBytes
    BY <2>3, <2>4, Times
  <2>6. TextWords(n) * WordBytes \in Nat /\ s * WordBytes \in Nat
    BY <2>3, <2>4, Times
  <2>7. ~ (TextWords(n) <= s)
    BY <1>2, <2>2, <2>3, <2>4, <2>5, <2>6
  <2> QED BY <2>2, <2>3, <2>4, <2>7
<1>3. (heads[t].long /\ s * WordBytes + k < heads[t].n) \/ cells[t][s][k] = 0
  BY DEF Tidy, CleanText
<1> QED BY <1>1, <1>2, <1>3

LEMMA TidyTexts ==
  ASSUME Types, Tidy, NEW t \in Texts, StoreText(t) \/ DeleteText(t)
  PROVE  Tidy'
<1>1. CASE StoreText(t)
  <2>1. PICK n \in 0 .. MaxText : \E s : TextWritten(t, n, s)
    BY <1>1, StoreTextWrites
  <2>2. PICK s : TextWritten(t, n, s)
    BY <2>1
  <2>3. PICK word \in Words :
          /\ cells' = [cells EXCEPT ![t] = word]
          /\ \A w \in Slots, k \in Lanes :
               word[w][k] = IF n >= WordBytes /\ w < TextWords(n)
                            THEN IF w * WordBytes + k < n THEN s[w * WordBytes + k + 1] ELSE 0
                            ELSE Released(t)[w][k]
    BY <2>2 DEF TextWritten
  <2> DEFINE h == [long |-> n >= WordBytes, n |-> n, bytes |-> IF n < WordBytes THEN s ELSE << >>]
  <2>4. heads' = [heads EXCEPT ![t] = h] /\ len' = len
    BY <1>1, <2>2 DEF TextWritten, StoreText
  <2>5. CleanText(word, h)
    <3>1. SUFFICES ASSUME NEW w \in Slots, NEW k \in Lanes,
                          ~ (n >= WordBytes /\ w * WordBytes + k < n)
                   PROVE  word[w][k] = 0
      BY DEF CleanText
    <3>2. Released(t)[w][k] = 0
      BY ReleasedClean
    <3> QED BY <2>3, <3>1, <3>2
  <2> HIDE DEF h
  <2> QED BY <2>3, <2>4, <2>5, TidyTextElsewhere
<1>2. CASE DeleteText(t)
  <2> DEFINE h == [long |-> FALSE, n |-> 0, bytes |-> << >>]
  <2>1. /\ cells' = [cells EXCEPT ![t] = Released(t)]
        /\ heads' = [heads EXCEPT ![t] = h] /\ len' = len
    BY <1>2 DEF DeleteText
  <2>2. CleanText(Released(t), h)
    BY ReleasedClean DEF CleanText
  <2> HIDE DEF h
  <2> QED BY <2>1, <2>2, TidyTextElsewhere
<1> QED BY <1>1, <1>2

LEMMA IndexKept ==
  ASSUME Types, IndexInv, [Next]_vars, MayShrink = {}
  PROVE  IndexInv'
<1>1. ASSUME pending' = pending,
             \A f \in Dynamic : len'[f] >= len[f] \/ ~ (pending # None /\ pending.kind = "index" /\ pending.of = f)
      PROVE  IndexInv'
  <2>1. SUFFICES ASSUME pending # None, pending.kind = "index" PROVE pending.turns <= len'[pending.of]
    BY <1>1 DEF IndexInv
  <2>2. PICK f \in Dynamic, n \in Nat : f = pending.of /\ n = pending.turns
    BY <2>1 DEF Types, PendingOK
  <2>3. len'[f] >= len[f] /\ n <= len[f] /\ len[f] \in Nat
    BY <1>1, <2>1, <2>2 DEF IndexInv, Types
  <2>4. n <= len'[f] \/ len'[f] \notin Int
    BY <2>2, <2>3
  <2>5. len' = len \/ len'[f] \in Int
    <3>1. ASSUME NEW g \in Dynamic, Push(g) \/ Pop(g) PROVE len'[f] \in Int
      BY <3>1 DEF Push, Pop, Types
    <3>2. ASSUME NEW g \in Fields, Delete(g) PROVE len'[f] \in Int
      BY <3>2 DEF Delete, Types
    <3>3. ASSUME NEW t \in Texts, StoreText(t) \/ DeleteText(t) PROVE len' = len
      BY <3>3 DEF StoreText, DeleteText
    <3>4. (\E g \in Fields : Access(g)) \/ (\E g \in Dynamic : BeginIndex(g))
            \/ (\E g \in Dynamic \cup Fixed : BeginFor(g))
            \/ EndIndex \/ Turn \/ EndFor \/ UNCHANGED vars => len' = len
      BY DEF Access, BeginIndex, BeginFor, EndIndex, Turn, EndFor, vars
    <3> QED BY <3>1, <3>2, <3>3, <3>4 DEF Next
  <2> QED BY <2>2, <2>3, <2>4, <2>5
<1>2. CASE UNCHANGED vars \/ (\E f \in Fields : Access(f)) \/ (\E t \in Texts : StoreText(t) \/ DeleteText(t))
  <2>1. pending' = pending /\ len' = len
    BY <1>2 DEF vars, Access, StoreText, DeleteText
  <2> QED BY <2>1 DEF IndexInv
<1>3. ASSUME NEW f \in Dynamic, Push(f) PROVE IndexInv'
  BY <1>1, <1>3 DEF Push, Types
<1>4. ASSUME NEW f \in Dynamic, Pop(f) PROVE IndexInv'
  <2>1. ~ (pending # None /\ pending.kind = "index" /\ pending.of = f)
    BY <1>4 DEF Pop, CanShrink
  <2>2. \A g \in Dynamic : g # f => len'[g] = len[g] /\ len[g] \in Nat
    BY <1>4 DEF Pop, Types
  <2>3. pending' = pending
    BY <1>4 DEF Pop
  <2> QED BY <1>1, <2>1, <2>2, <2>3
<1>5. ASSUME NEW f \in Fields, Delete(f) PROVE IndexInv'
  <2>1. ~ (pending # None /\ pending.kind = "index" /\ pending.of = f)
    BY <1>5 DEF Delete, CanShrink
  <2>2. \A g \in Dynamic : g # f => len'[g] = len[g] /\ len[g] \in Nat
    BY <1>5 DEF Delete, Types
  <2>3. pending' = pending
    BY <1>5 DEF Delete
  <2> QED BY <1>1, <2>1, <2>2, <2>3
<1>6. ASSUME NEW f \in Dynamic, BeginIndex(f) PROVE IndexInv'
  BY <1>6 DEF BeginIndex, IndexInv, Types
<1>7. ASSUME NEW f \in Dynamic \cup Fixed, BeginFor(f) PROVE IndexInv'
  BY <1>7 DEF BeginFor, IndexInv
<1>8. CASE Turn
  <2>1. pending # None /\ pending.kind = "for" /\ pending' = [pending EXCEPT !.at = @ + 1]
    BY <1>8 DEF Turn
  <2>2. pending'.kind = "for"
    BY <2>1 DEF Types, PendingOK
  <2> QED BY <2>2 DEF IndexInv
<1>9. CASE EndIndex \/ EndFor
  BY <1>9 DEF EndIndex, EndFor, IndexInv
<1> QED BY <1>2, <1>3, <1>4, <1>5, <1>6, <1>7, <1>8, <1>9 DEF Next

LEMMA TidyNext ==
  ASSUME TidyInv, [Next]_vars, Sound
  PROVE  TidyInv'
<1>1. Types /\ Tidy /\ IndexInv /\ Types' /\ MayShrink = {} /\ \A f \in Fields : Agree(f)
  BY TypesNext DEF TidyInv, Sound
<1>2. IndexInv'
  BY <1>1, IndexKept
<1> SUFFICES Tidy'
  BY <1>1, <1>2 DEF TidyInv
<1>3. ASSUME cells' = cells, len' = len, heads' = heads PROVE Tidy'
  BY <1>1, <1>3 DEF Tidy
<1>4. CASE \E f \in Dynamic : Push(f) \/ Pop(f)
  BY <1>1, <1>4, RegionNames, TidyPush, TidyPop
<1>5. ASSUME NEW f \in Fields, Access(f) PROVE Tidy'
  <2>1. PICK n \in Nat : n = Length(f) /\ 0 .. n - 1 \subseteq Reach(f)
    BY <1>1, LengthFacts
  <2>2. f \in Dynamic => n <= len[f]
    BY <2>1 DEF Length
  <2>3. (Store(f, n) \/ DeleteAt(f, n)) /\ heads' = heads /\ len' = len
    BY <1>5, <2>1 DEF Access
  <2> QED BY <1>1, <2>1, <2>2, <2>3, TidyAccess
<1>6. CASE \E f \in Fields : Delete(f)
  BY <1>1, <1>6, TidyDelete
<1>7. CASE EndIndex
  <2>1. /\ pending # None /\ pending.kind = "index" /\ heads' = heads /\ len' = len
        /\ \/ Store(pending.of, pending.turns) \/ DeleteAt(pending.of, pending.turns)
           \/ cells' = cells
    BY <1>7 DEF EndIndex
  <2>2. PICK f \in Fields, n \in Nat : f = pending.of /\ n = pending.turns
    BY <1>1, <2>1, RegionNames DEF Types, PendingOK
  <2>3. 0 .. n - 1 \subseteq Reach(f) /\ n <= len[f]
    BY <1>1, <2>1, <2>2 DEF Types, PendingOK, IndexInv
  <2>4. Store(f, n) \/ DeleteAt(f, n) \/ cells' = cells
    BY <2>1, <2>2
  <2> QED BY <1>1, <1>3, <2>1, <2>3, <2>4, TidyAccess
<1>8. CASE \/ \E f \in Dynamic : BeginIndex(f)
           \/ \E f \in Dynamic \cup Fixed : BeginFor(f)
           \/ Turn \/ EndFor \/ UNCHANGED vars
  BY <1>3, <1>8 DEF BeginIndex, BeginFor, Turn, EndFor, vars
<1>9. CASE \E t \in Texts : StoreText(t) \/ DeleteText(t)
  BY <1>1, <1>9, TidyTexts
<1> QED BY <1>1, <1>4, <1>5, <1>6, <1>7, <1>8, <1>9 DEF Next

(* Whatever statements run, in whatever order, and whatever an array or a text    *)
(* held before: its words hold nothing but its present values.  Without          *)
(* MayShrink = {} a store whose index expression popped the array lands behind    *)
(* its end; without the half word, dpk_clear leaves structs standing.            *)
THEOREM CollectionsLeaveNothingBehind ==
  ASSUME Sound
  PROVE  Spec => []NothingLeftBehind
<1>1. Init => TidyInv
  BY TypesInit, TidyInit DEF TidyInv
<1>2. TidyInv /\ [Next]_vars => TidyInv'
  BY TidyNext
<1>3. TidyInv => NothingLeftBehind
  BY TidyImplies DEF TidyInv
<1> QED BY <1>1, <1>2, <1>3, PTL DEF Spec

-----------------------------------------------------------------------------
(* What storage holds, as values.                                            *)

PartIn(c, at, p) ==
  LET word == c[at.region][at.slot]
  IN  IF \A k \in LanesOf(at, p) : word[k] = word[at.offset] THEN word[at.offset] ELSE -1

Value(c, f, i) == [p \in Parts[f] |-> PartIn(c, At[f][i][p], p)]
SeqOf(c, f, n) == [i \in 1 .. n |-> Value(c, f, i - 1)]
LengthIn(l, f) == IF f \in Dynamic THEN l[f] ELSE IF f \in Fixed THEN Count[f] ELSE 1
Lengths == {l \in [Dynamic -> Nat] : \A f \in Dynamic : l[f] <= MaxLen[f]}

LEMMA LengthInFacts ==
  ASSUME NEW l \in Lengths, NEW f \in Fields
  PROVE  LengthIn(l, f) \in Nat /\ 0 .. LengthIn(l, f) - 1 \subseteq Reach(f)
<1>1. CASE f \in Dynamic
  <2>1. Reach(f) = 0 .. MaxLen[f] - 1 /\ MaxLen[f] \in Nat /\ l[f] \in Nat /\ l[f] <= MaxLen[f]
    BY <1>1, ReachFacts, BoundFacts DEF Lengths
  <2> QED BY <1>1, <2>1 DEF LengthIn
<1>2. CASE f \in Fixed
  <2>1. Reach(f) = 0 .. Count[f] - 1 /\ Count[f] \in Nat /\ f \notin Dynamic
    BY <1>2, ReachFacts, BoundFacts, Kinds
  <2> QED BY <1>2, <2>1 DEF LengthIn
<1>3. CASE f \in Plain
  <2>1. Reach(f) = {0} /\ f \notin Dynamic /\ f \notin Fixed
    BY <1>3, ReachFacts, Kinds
  <2> QED BY <2>1 DEF LengthIn
<1> QED BY <1>1, <1>2, <1>3, Kinds

LEMMA ValueReads ==
  ASSUME NEW c, NEW f \in Fields, NEW i \in Reach(f)
  PROVE  /\ Value(c, f, i) = [p \in Parts[f] |-> Value(c, f, i)[p]]
         /\ \A p \in Parts[f] : Value(c, f, i)[p] = PartIn(c, PartAt(f, i, p), p)
<1>1. \A p \in Parts[f] : At[f][i][p] = PartAt(f, i, p)
  BY Located
<1> QED BY <1>1 DEF Value

LEMMA ContentsNow == Contents = [f \in Fields |-> SeqOf(cells, f, LengthIn(len, f))]
<1>1. \A f, i : ValueOf(f, i) = Value(cells, f, i)
  BY DEF ValueOf, ReadPart, PartIn, Value
<1>2. \A f : Length(f) = LengthIn(len, f)
  BY DEF Length, LengthIn
<1>3. \A f \in Fields : [i \in 1 .. Length(f) |-> ValueOf(f, i - 1)] = SeqOf(cells, f, LengthIn(len, f))
  BY <1>1, <1>2 DEF SeqOf
<1> QED BY <1>3 DEF Contents

LEMMA ContentsNext == Contents' = [f \in Fields |-> SeqOf(cells', f, LengthIn(len', f))]
<1>1. \A f, i : ValueOf(f, i)' = Value(cells', f, i)
  BY DEF ValueOf, ReadPart, PartIn, Value
<1>2. \A f : Length(f)' = LengthIn(len', f)
  BY DEF Length, LengthIn
<1>3. \A f \in Fields : [i \in 1 .. Length(f)' |-> ValueOf(f, i - 1)'] = SeqOf(cells', f, LengthIn(len', f))
  BY <1>1, <1>2 DEF SeqOf
<1> QED BY <1>3 DEF Contents

LEMMA ReadPartIs ==
  ASSUME NEW f \in Fields, NEW i \in Reach(f), NEW p \in Parts[f]
  PROVE  ReadPart(f, i, p) = PartIn(cells, PartAt(f, i, p), p)
<1>1. At[f][i][p] = PartAt(f, i, p)
  BY Located
<1> QED BY <1>1 DEF ReadPart, PartIn

SameBytes(c, d, at, p) ==
  \A k \in LanesOf(at, p) : d[at.region][at.slot][k] = c[at.region][at.slot][k]

LEMMA SamePart ==
  ASSUME NEW c, NEW d, NEW f \in Fields, NEW i \in Reach(f), NEW p \in Parts[f],
         SameBytes(c, d, PartAt(f, i, p), p)
  PROVE  PartIn(d, PartAt(f, i, p), p) = PartIn(c, PartAt(f, i, p), p)
<1>1. PartAt(f, i, p).offset \in LanesOf(PartAt(f, i, p), p)
  BY Located
<1> QED BY <1>1 DEF PartIn, SameBytes

(* pk_write and write_slot_packed change one part.                              *)
LEMMA StoreEffect ==
  ASSUME Types, Sound, NEW f \in Fields, NEW i \in Reach(f), NEW p \in Parts[f], NEW b \in Byte,
         NEW c, c = WritePart(f, i, p, b),
         NEW g \in Fields, NEW j \in Reach(g), NEW q \in Parts[g]
  PROVE  PartIn(c, PartAt(g, j, q), q)
           = IF g = f /\ j = i /\ q = p THEN b ELSE PartIn(cells, PartAt(g, j, q), q)
<1> DEFINE a == PartAt(f, i, p)
           d == PartAt(g, j, q)
<1>1. \A r \in Regions, s \in Slots, k \in Lanes :
        c[r][s][k] = IF r = a.region /\ s = a.slot /\ k \in LanesOf(a, p) THEN b ELSE cells[r][s][k]
  BY Written DEF Types
<1>2. /\ d.region \in Regions /\ d.slot \in Slots /\ LanesOf(d, q) \subseteq Lanes
      /\ d.offset \in Nat /\ q.size \in Nat /\ a.offset \in Nat /\ p.size \in Nat
  BY Located
<1>3. CASE g = f /\ j = i /\ q = p
  <2>1. \A k \in LanesOf(d, q) : c[d.region][d.slot][k] = b
    BY <1>1, <1>2, <1>3
  <2>2. PartIn(c, d, q) = b
    <3>1. d.offset \in LanesOf(d, q)
      BY Located
    <3> HIDE DEF d
    <3> QED BY <2>1, <3>1 DEF PartIn
  <2> QED BY <1>3, <2>2
<1>4. CASE ~ (g = f /\ j = i /\ q = p)
  <2>1. Agree(f) /\ Agree(g) /\ i \in InField(f) /\ j \in InField(g)
    BY ReachFacts DEF Sound
  <2>2. Apart(d, q, a, p)
    <3>1. CASE g = f
      <4>1. j # i \/ q # p
        BY <1>4, <3>1
      <4> QED BY <2>1, <3>1, <4>1, ApartInField
    <3>2. CASE g # f
      BY <2>1, <3>2, ApartFields
    <3> QED BY <3>1, <3>2
  <2>3. SameBytes(cells, c, d, q)
    <3> HIDE DEF a, d
    <3>1. SUFFICES ASSUME NEW k \in LanesOf(d, q)
                   PROVE  ~ (d.region = a.region /\ d.slot = a.slot /\ k \in LanesOf(a, p))
      BY <1>1, <1>2 DEF SameBytes
    <3> QED BY <1>2, <2>2 DEF Apart, LanesOf
  <2>4. PartIn(c, d, q) = PartIn(cells, d, q)
    BY <2>3, SamePart
  <2> QED BY <1>4, <2>4
<1> QED BY <1>3, <1>4

(* Clearing words zeroes the parts in them.                                    *)
LEMMA ZeroEffect ==
  ASSUME Types, NEW r \in Regions, NEW slots, NEW c, c = Zeroed(r, slots),
         NEW g \in Fields, NEW j \in Reach(g), NEW q \in Parts[g]
  PROVE  PartIn(c, PartAt(g, j, q), q)
           = IF Region(g) = r /\ PartAt(g, j, q).slot \in slots THEN 0
             ELSE PartIn(cells, PartAt(g, j, q), q)
<1> DEFINE d == PartAt(g, j, q)
<1>1. \A x \in Regions, s \in Slots, k \in Lanes :
        c[x][s][k] = IF x = r /\ s \in slots THEN 0 ELSE cells[x][s][k]
  BY ZeroedWords DEF Types
<1>2. d.region = Region(g) /\ d.region \in Regions /\ d.slot \in Slots /\ LanesOf(d, q) \subseteq Lanes
  BY Located
<1>3. CASE Region(g) = r /\ d.slot \in slots
  <2>1. \A k \in LanesOf(d, q) : c[d.region][d.slot][k] = 0
    <3> HIDE DEF d
    <3> QED BY <1>1, <1>2, <1>3
  <2>2. PartIn(c, d, q) = 0
    <3>1. d.offset \in LanesOf(d, q)
      BY Located
    <3> HIDE DEF d
    <3> QED BY <2>1, <3>1 DEF PartIn
  <2> QED BY <1>3, <2>2
<1>4. CASE ~ (Region(g) = r /\ d.slot \in slots)
  <2>1. SameBytes(cells, c, d, q)
    <3> HIDE DEF d
    <3> QED BY <1>1, <1>2, <1>4 DEF SameBytes
  <2>2. PartIn(c, d, q) = PartIn(cells, d, q)
    BY <2>1, SamePart
  <2> QED BY <1>4, <2>2
<1> QED BY <1>3, <1>4

(* Behind its end an array reads as zero.                                      *)
LEMMA BehindEnd ==
  ASSUME Types, Tidy, NEW f \in Dynamic, Agree(f), NEW i \in Reach(f), i >= len[f], NEW p \in Parts[f]
  PROVE  PartIn(cells, PartAt(f, i, p), p) = 0
<1> DEFINE at == PartAt(f, i, p)
<1>1. f \in Fields /\ Region(f) = f /\ len[f] \in Nat /\ i \in Nat
  BY RegionNames, ReachFacts DEF Types
<1>2. /\ at.region = f /\ at.slot \in Slots /\ LanesOf(at, p) \subseteq Lanes
      /\ at.offset \in Nat /\ p.size \in Nat
  BY <1>1, Located
<1>3. ASSUME NEW k \in LanesOf(at, p)
      PROVE  cells[at.region][at.slot][k] = 0
  <2>1. ~ Live(f, len[f], at.slot, k)
    <3>1. SUFFICES ASSUME NEW j \in 0 .. len[f] - 1, NEW q \in Parts[f],
                          PartAt(f, j, q).slot = at.slot, k \in LanesOf(PartAt(f, j, q), q)
                   PROVE  FALSE
      BY DEF Live
    <3>2. j \in Reach(f) /\ j # i
      <4>1. 0 .. len[f] - 1 \subseteq Reach(f)
        BY <1>1, LengthFacts DEF Length
      <4> QED BY <1>1, <4>1
    <3>3. Apart(PartAt(f, j, q), q, at, p)
      BY <1>1, <3>2, ReachFacts, ApartInField
    <3>4. PartAt(f, j, q).region = f /\ PartAt(f, j, q).offset \in Nat /\ q.size \in Nat
      BY <1>1, <3>2, Located
    <3> HIDE DEF at
    <3> QED BY <1>2, <1>3, <3>1, <3>3, <3>4 DEF Apart, LanesOf
  <2> HIDE DEF at
  <2> QED BY <1>2, <1>3, <2>1 DEF Tidy, CleanArray
<1>4. at.offset \in LanesOf(at, p)
  BY <1>1, Located
<1>5. PartIn(cells, at, p) = 0
  <2> HIDE DEF at
  <2> QED BY <1>3, <1>4 DEF PartIn
<1> QED BY <1>5

-----------------------------------------------------------------------------
(* Storage implements sequences and values.                                   *)

LEMMA SeqOfFacts ==
  ASSUME NEW c, NEW f \in Fields, NEW n \in Nat
  PROVE  /\ SeqOf(c, f, n) = [i \in 1 .. n |-> SeqOf(c, f, n)[i]]
         /\ DOMAIN SeqOf(c, f, n) = 1 .. n /\ Len(SeqOf(c, f, n)) = n
         /\ \A i \in 1 .. n : SeqOf(c, f, n)[i] = Value(c, f, i - 1)
  BY DEF SeqOf

LEMMA SameSeq ==
  ASSUME NEW c, NEW d, NEW f \in Fields, NEW n \in Nat, 0 .. n - 1 \subseteq Reach(f),
         \A i \in 0 .. n - 1, p \in Parts[f] :
           PartIn(d, PartAt(f, i, p), p) = PartIn(c, PartAt(f, i, p), p)
  PROVE  SeqOf(d, f, n) = SeqOf(c, f, n)
<1>1. ASSUME NEW i \in 1 .. n
      PROVE  Value(d, f, i - 1) = Value(c, f, i - 1)
  <2>1. PICK j \in Reach(f) : j = i - 1 /\ j \in 0 .. n - 1
    OBVIOUS
  <2>2. ASSUME NEW p \in Parts[f] PROVE Value(d, f, j)[p] = Value(c, f, j)[p]
    <3>1. /\ Value(d, f, j)[p] = PartIn(d, PartAt(f, j, p), p)
          /\ Value(c, f, j)[p] = PartIn(c, PartAt(f, j, p), p)
      BY ValueReads
    <3>2. PartIn(d, PartAt(f, j, p), p) = PartIn(c, PartAt(f, j, p), p)
      BY <2>1
    <3> QED BY <3>1, <3>2
  <2>3. /\ Value(d, f, j) = [p \in Parts[f] |-> Value(d, f, j)[p]]
        /\ Value(c, f, j) = [p \in Parts[f] |-> Value(c, f, j)[p]]
    BY ValueReads
  <2> QED BY <2>1, <2>2, <2>3
<1> QED BY <1>1 DEF SeqOf

(* The values of f, and that a step leaves those of all other fields alone.       *)
Held(f) == SeqOf(cells, f, LengthIn(len, f))
LeavesOthers(f) ==
  /\ \A t \in Texts : cells'[t] = cells[t]
  /\ \A g \in Fields : g # f =>
       SeqOf(cells', g, LengthIn(len', g)) = SeqOf(cells, g, LengthIn(len, g))

(* A statement on one field, if what it makes of its values is allowed.          *)
LEMMA StatementStep ==
  ASSUME NEW f \in Fields, io' = None, heads' = heads, Walk' = Walk, LeavesOthers(f),
         NEW old, old = Held(f),
         NEW new, new = SeqOf(cells', f, LengthIn(len', f)),
         \/ Values!Assign(f, old, new) \/ Values!Reset(f, old, new) \/ Values!Clear(f, old, new)
         \/ f \in Dynamic /\ (Values!Push(f, old, new) \/ Values!Pop(old, new))
  PROVE  Values!Next
<1>1. /\ Contents = [g \in Fields |-> SeqOf(cells, g, LengthIn(len, g))]
      /\ Contents' = [g \in Fields |-> SeqOf(cells', g, LengthIn(len', g))]
  BY ContentsNow, ContentsNext
<1>2. Contents[f] = old /\ Contents'[f] = new /\ \A g \in Fields : g # f => Contents'[g] = Contents[g]
  BY <1>1 DEF Held, LeavesOthers
<1>3. Strings' = Strings
  BY DEF Strings, TextOf, LeavesOthers
<1>4. Walk' = Walk
  OBVIOUS
<1>5. CASE old = new
  <2>1. Contents' = Contents
    BY <1>1, <1>2, <1>5
  <2> QED BY <1>3, <1>4, <2>1 DEF Values!Next, Values!Pause
<1>6. CASE old # new
  <2>1. {g \in Fields : Contents'[g] # Contents[g]} = {f}
    BY <1>2, <1>6
  <2>2. Values!Fields = Fields
    BY DEF Values!Fields, Fields
  <2>3. Values!Statement
    BY <1>2, <1>3, <1>4, <2>1, <2>2 DEF Values!Statement
  <2> QED BY <2>3 DEF Values!Next
<1> QED BY <1>5, <1>6

LEMMA SameTexts ==
  ASSUME Types, Types', NEW r \in Regions \ Texts,
         \A q \in Regions, s \in Slots, k \in Lanes : q # r => cells'[q][s][k] = cells[q][s][k],
         NEW t \in Texts
  PROVE  cells'[t] = cells[t]
<1>1. t \in Regions /\ t # r /\ cells'[t] \in Words /\ cells[t] \in Words
  BY RegionNames DEF Types
<1>2. \A s \in Slots : cells'[t][s] = cells[t][s]
  <2>1. SUFFICES ASSUME NEW s \in Slots PROVE cells'[t][s] = cells[t][s]
    OBVIOUS
  <2>2. cells'[t][s] \in [Lanes -> Byte] /\ cells[t][s] \in [Lanes -> Byte]
    BY <1>1 DEF Words
  <2> QED BY <1>1, <2>2
<1> QED BY <1>1, <1>2 DEF Words

(* What a step that touches no word of the other fields leaves alone.             *)
Touches(f) ==
  /\ \A r \in Regions, s \in Slots, k \in Lanes :
       r # Region(f) => cells'[r][s][k] = cells[r][s][k]
  /\ \A g \in Dynamic : g # f => len'[g] = len[g]
  /\ \A g \in Fields : g # f =>
       \A j \in Reach(g), q \in Parts[g] :
         PartIn(cells', PartAt(g, j, q), q) = PartIn(cells, PartAt(g, j, q), q)

LEMMA TouchLeaves ==
  ASSUME Types, Types', NEW f \in Fields, Touches(f)
  PROVE  LeavesOthers(f)
<1>1. len \in Lengths
  BY DEF Types, Lengths
<1>2. \A t \in Texts : cells'[t] = cells[t]
  <2>1. Region(f) \in Regions \ Texts
    BY RegionFacts, NamesAssumption DEF Region, Fields
  <2>2. \A q \in Regions, s \in Slots, k \in Lanes :
          q # Region(f) => cells'[q][s][k] = cells[q][s][k]
    BY DEF Touches
  <2> QED BY <2>1, <2>2, SameTexts
<1>3. ASSUME NEW g \in Fields, g # f
      PROVE  SeqOf(cells', g, LengthIn(len', g)) = SeqOf(cells, g, LengthIn(len, g))
  <2>1. LengthIn(len, g) \in Nat /\ 0 .. LengthIn(len, g) - 1 \subseteq Reach(g)
    BY <1>1, LengthInFacts
  <2>2. LengthIn(len', g) = LengthIn(len, g)
    BY <1>3 DEF LengthIn, Touches
  <2>3. \A j \in 0 .. LengthIn(len, g) - 1, q \in Parts[g] :
          PartIn(cells', PartAt(g, j, q), q) = PartIn(cells, PartAt(g, j, q), q)
    BY <1>3, <2>1 DEF Touches
  <2>4. SeqOf(cells', g, LengthIn(len, g)) = SeqOf(cells, g, LengthIn(len, g))
    BY <2>1, <2>3, SameSeq
  <2> QED BY <2>2, <2>4
<1> QED BY <1>2, <1>3 DEF LeavesOthers

LEMMA StoreTouches ==
  ASSUME Types, Sound, NEW f \in Fields, NEW i \in Reach(f), NEW p \in Parts[f], NEW b \in Byte,
         cells' = WritePart(f, i, p, b), \A g \in Dynamic : g # f => len'[g] = len[g]
  PROVE  Touches(f)
<1>1. \A q \in Regions, s \in Slots, k \in Lanes :
        q # Region(f) => cells'[q][s][k] = cells[q][s][k]
  <2>1. PartAt(f, i, p).region = Region(f)
    BY Located
  <2> QED BY <2>1, Written DEF Types
<1>2. ASSUME NEW g \in Fields, g # f, NEW j \in Reach(g), NEW q \in Parts[g]
      PROVE  PartIn(cells', PartAt(g, j, q), q) = PartIn(cells, PartAt(g, j, q), q)
  BY <1>2, StoreEffect
<1> QED BY <1>1, <1>2 DEF Touches

LEMMA ZeroTouches ==
  ASSUME Types, NEW f \in Fields, NEW slots, cells' = Zeroed(Region(f), slots),
         \A g \in Dynamic : g # f => len'[g] = len[g],
         \A g \in Fields : g # f =>
           \A j \in Reach(g), q \in Parts[g] :
             Region(f) # Region(g) \/ PartAt(g, j, q).slot \notin slots
  PROVE  Touches(f)
<1>1. \A q \in Regions, s \in Slots, k \in Lanes :
        q # Region(f) => cells'[q][s][k] = cells[q][s][k]
  BY RegionFacts, ZeroedWords DEF Types
<1>2. ASSUME NEW g \in Fields, g # f, NEW j \in Reach(g), NEW q \in Parts[g]
      PROVE  PartIn(cells', PartAt(g, j, q), q) = PartIn(cells, PartAt(g, j, q), q)
  <2>1. Region(f) \in Regions
    BY RegionFacts
  <2>2. PartIn(cells', PartAt(g, j, q), q)
           = IF Region(g) = Region(f) /\ PartAt(g, j, q).slot \in slots THEN 0
             ELSE PartIn(cells, PartAt(g, j, q), q)
    BY <2>1, ZeroEffect
  <2> QED BY <1>2, <2>2
<1> QED BY <1>1, <1>2 DEF Touches

(* One value, from its parts.                                                 *)
LEMMA ValueIs ==
  ASSUME NEW c, NEW f \in Fields, NEW i \in Reach(f), NEW v,
         v = [p \in Parts[f] |-> v[p]],
         \A p \in Parts[f] : PartIn(c, PartAt(f, i, p), p) = v[p]
  PROVE  Value(c, f, i) = v
<1>1. /\ Value(c, f, i) = [p \in Parts[f] |-> Value(c, f, i)[p]]
      /\ \A p \in Parts[f] : Value(c, f, i)[p] = PartIn(c, PartAt(f, i, p), p)
  BY ValueReads
<1> QED BY <1>1

LEMMA HeldFacts ==
  ASSUME Types, NEW f \in Fields
  PROVE  /\ LengthIn(len, f) \in Nat /\ 0 .. LengthIn(len, f) - 1 \subseteq Reach(f)
         /\ Held(f) = [j \in 1 .. LengthIn(len, f) |-> Held(f)[j]]
         /\ DOMAIN Held(f) = 1 .. LengthIn(len, f) /\ Len(Held(f)) = LengthIn(len, f)
         /\ \A j \in 1 .. LengthIn(len, f) : Held(f)[j] = Value(cells, f, j - 1)
<1>1. len \in Lengths
  BY DEF Types, Lengths
<1>2. LengthIn(len, f) \in Nat /\ 0 .. LengthIn(len, f) - 1 \subseteq Reach(f)
  BY <1>1, LengthInFacts
<1> QED BY <1>2, SeqOfFacts DEF Held

(* A store to a part of a value.                                              *)
LEMMA StoreStep ==
  ASSUME Types, Types', Sound, NEW f \in Fields, NEW upTo \in Nat, upTo <= LengthIn(len, f),
         Store(f, upTo), len' = len
  PROVE  LeavesOthers(f) /\ Values!Assign(f, Held(f), SeqOf(cells', f, LengthIn(len', f)))
<1>1. PICK i \in 0 .. upTo - 1, p \in Parts[f], b \in Byte : cells' = WritePart(f, i, p, b)
  BY DEF Store
<1> DEFINE n == LengthIn(len, f)
           new == SeqOf(cells', f, n)
<1>2. i \in 0 .. n - 1 /\ i \in Reach(f) /\ n \in Nat /\ 0 .. n - 1 \subseteq Reach(f)
  BY HeldFacts
<1>3. LeavesOthers(f)
  BY <1>1, <1>2, StoreTouches, TouchLeaves
<1>4. ASSUME NEW j \in Reach(f), NEW q \in Parts[f]
      PROVE  PartIn(cells', PartAt(f, j, q), q)
               = IF j = i /\ q = p THEN b ELSE PartIn(cells, PartAt(f, j, q), q)
  <2>1. \A g \in Fields : \A k \in Reach(g), r \in Parts[g] :
          PartIn(cells', PartAt(g, k, r), r)
            = IF g = f /\ k = i /\ r = p THEN b ELSE PartIn(cells, PartAt(g, k, r), r)
    BY <1>1, <1>2, StoreEffect
  <2> QED BY <2>1
<1>5. /\ Held(f) = [j \in 1 .. n |-> Held(f)[j]] /\ DOMAIN Held(f) = 1 .. n
      /\ \A j \in 1 .. n : Held(f)[j] = Value(cells, f, j - 1)
  BY HeldFacts
<1>6. new = [j \in 1 .. n |-> new[j]] /\ \A j \in 1 .. n : new[j] = Value(cells', f, j - 1)
  BY <1>2, SeqOfFacts
<1>7. ASSUME NEW j \in 1 .. n
      PROVE  new[j] = IF j = i + 1 THEN [Held(f)[j] EXCEPT ![p] = b] ELSE Held(f)[j]
  <2>1. PICK k \in Reach(f) : k = j - 1 /\ (k = i <=> j = i + 1)
    BY <1>2
  <2>2. /\ Value(cells, f, k) = [q \in Parts[f] |-> Value(cells, f, k)[q]]
        /\ \A q \in Parts[f] : Value(cells, f, k)[q] = PartIn(cells, PartAt(f, k, q), q)
    BY ValueReads
  <2> DEFINE v == Value(cells, f, k)
             w == IF k = i THEN [v EXCEPT ![p] = b] ELSE v
  <2>3. w = [q \in Parts[f] |-> w[q]]
    BY <2>2
  <2>4. ASSUME NEW q \in Parts[f] PROVE PartIn(cells', PartAt(f, k, q), q) = w[q]
    <3>1. w[q] = IF k = i /\ q = p THEN b ELSE v[q]
      BY <2>2
    <3> QED BY <1>4, <2>2, <3>1
  <2>5. Value(cells', f, k) = w
    <3> HIDE DEF w
    <3> QED BY <2>3, <2>4, ValueIs
  <2>6. Held(f)[j] = v /\ new[j] = Value(cells', f, k)
    BY <1>5, <1>6, <2>1
  <2> HIDE DEF v, new, n
  <2> QED BY <2>1, <2>5, <2>6
<1>8. Values!Assign(f, Held(f), new)
  <2> HIDE DEF new, n
  <2>1. i + 1 \in 1 .. n
    BY <1>2
  <2>2. new = [Held(f) EXCEPT ![i + 1] = [Held(f)[i + 1] EXCEPT ![p] = b]]
    BY <1>5, <1>6, <1>7, <2>1
  <2>3. new = [Held(f) EXCEPT ![i + 1][p] = b]
    BY <1>5, <2>1, <2>2
  <2> QED BY <1>5, <2>1, <2>3 DEF Values!Assign
<1> QED BY <1>3, <1>8

LEMMA StructWordsElsewhere ==
  ASSUME Sound, NEW f \in Fields, f \in Structs \/ f \in Fixed, NEW slots,
         f \notin Dynamic => slots \subseteq WordsOf(f),
         NEW g \in Fields, g # f, NEW j \in Reach(g), NEW q \in Parts[g]
  PROVE  Region(f) # Region(g) \/ PartAt(g, j, q).slot \notin slots
<1>1. CASE f \in Dynamic
  BY <1>1, RegionFacts, RegionNames
<1>2. CASE f \notin Dynamic
  <2>1. f \in Fixed \cup Plain /\ Agree(f) /\ Agree(g) /\ j \in InField(g)
    BY <1>2, Kinds, ReachFacts DEF Sound
  <2> QED BY <1>2, <2>1, ApartWords
<1> QED BY <1>1, <1>2

(* delete of one struct of an array.                                          *)
LEMMA DeleteAtStep ==
  ASSUME Types, Types', Sound, NEW f \in Fields, NEW upTo \in Nat, upTo <= LengthIn(len, f),
         DeleteAt(f, upTo), len' = len
  PROVE  LeavesOthers(f) /\ Values!Reset(f, Held(f), SeqOf(cells', f, LengthIn(len', f)))
<1>1. /\ f \in Structs \ Plain
      /\ \E i \in 0 .. upTo - 1 : cells' = Zeroed(Region(f), StructSlots(f, i))
  BY DEF DeleteAt
<1>2. PICK i \in 0 .. upTo - 1 : cells' = Zeroed(Region(f), StructSlots(f, i))
  BY <1>1
<1> DEFINE n == LengthIn(len, f)
           new == SeqOf(cells', f, n)
           slots == StructSlots(f, i)
<1>3. i \in 0 .. n - 1 /\ i \in Reach(f) /\ n \in Nat /\ 0 .. n - 1 \subseteq Reach(f)
  BY HeldFacts
<1>4. slots = {PartAt(f, i, p).slot : p \in Parts[f]} /\ Agree(f) /\ Reach(f) \subseteq InField(f)
  BY <1>3, Located, ReachFacts DEF StructSlots, Sound
<1>5. LeavesOthers(f)
  <2>1. f \notin Dynamic => slots \subseteq WordsOf(f)
    BY <1>1, <1>3, <1>4, StructWords
  <2> HIDE DEF slots
  <2>2. \A g \in Fields : g # f =>
           \A j \in Reach(g), q \in Parts[g] :
             Region(f) # Region(g) \/ PartAt(g, j, q).slot \notin slots
    BY <1>1, <2>1, StructWordsElsewhere
  <2>3. Touches(f)
    BY <1>2, <2>2, ZeroTouches DEF slots
  <2> QED BY <2>3, TouchLeaves
<1>6. ASSUME NEW k \in Reach(f), NEW q \in Parts[f]
      PROVE  PartIn(cells', PartAt(f, k, q), q)
               = IF k = i THEN 0 ELSE PartIn(cells, PartAt(f, k, q), q)
  <2>1. PartIn(cells', PartAt(f, k, q), q)
          = IF Region(f) = Region(f) /\ PartAt(f, k, q).slot \in slots THEN 0
            ELSE PartIn(cells, PartAt(f, k, q), q)
    BY <1>2, RegionFacts, ZeroEffect
  <2>2. k = i => PartAt(f, k, q).slot \in slots
    BY <1>4
  <2>3. k # i => PartAt(f, k, q).slot \notin slots
    BY <1>1, <1>3, <1>4, StructWords
  <2> HIDE DEF slots
  <2> QED BY <2>1, <2>2, <2>3
<1>7. /\ Held(f) = [j \in 1 .. n |-> Held(f)[j]] /\ DOMAIN Held(f) = 1 .. n
      /\ \A j \in 1 .. n : Held(f)[j] = Value(cells, f, j - 1)
  BY HeldFacts
<1>8. new = [j \in 1 .. n |-> new[j]] /\ \A j \in 1 .. n : new[j] = Value(cells', f, j - 1)
  BY <1>3, SeqOfFacts
<1>9. ASSUME NEW j \in 1 .. n
      PROVE  new[j] = IF j = i + 1 THEN Values!Zero(f) ELSE Held(f)[j]
  <2>1. PICK k \in Reach(f) : k = j - 1 /\ (k = i <=> j = i + 1)
    BY <1>3
  <2>2. /\ Value(cells, f, k) = [q \in Parts[f] |-> Value(cells, f, k)[q]]
        /\ \A q \in Parts[f] : Value(cells, f, k)[q] = PartIn(cells, PartAt(f, k, q), q)
    BY ValueReads
  <2> DEFINE v == Value(cells, f, k)
             w == IF k = i THEN Values!Zero(f) ELSE v
  <2>3. w = [q \in Parts[f] |-> w[q]] /\ \A q \in Parts[f] : w[q] = IF k = i THEN 0 ELSE v[q]
    BY <2>2 DEF Values!Zero
  <2>4. Value(cells', f, k) = w
    <3> HIDE DEF w, v
    <3>1. \A q \in Parts[f] : PartIn(cells', PartAt(f, k, q), q) = w[q]
      BY <1>6, <2>2, <2>3 DEF v
    <3> QED BY <2>3, <3>1, ValueIs
  <2>5. Held(f)[j] = v /\ new[j] = Value(cells', f, k)
    BY <1>7, <1>8, <2>1
  <2> HIDE DEF v, new, n
  <2> QED BY <2>1, <2>4, <2>5
<1>10. Values!Reset(f, Held(f), new)
  <2> HIDE DEF new, n, slots
  <2>1. i + 1 \in 1 .. n
    BY <1>3
  <2>2. new = [Held(f) EXCEPT ![i + 1] = Values!Zero(f)]
    BY <1>7, <1>8, <1>9, <2>1
  <2> QED BY <1>7, <2>1, <2>2 DEF Values!Reset
<1> QED BY <1>5, <1>10

(* A value all of whose parts read zero.                                      *)
LEMMA ValueIsZero ==
  ASSUME NEW c, NEW f \in Fields, NEW i \in Reach(f),
         \A p \in Parts[f] : PartIn(c, PartAt(f, i, p), p) = 0
  PROVE  Value(c, f, i) = Values!Zero(f)
<1>1. /\ Values!Zero(f) = [p \in Parts[f] |-> Values!Zero(f)[p]]
      /\ \A p \in Parts[f] : Values!Zero(f)[p] = 0
  BY DEF Values!Zero
<1> QED BY <1>1, ValueIs

(* delete of a field.                                                        *)
LEMMA DeleteStep ==
  ASSUME Types, Types', Sound, NEW f \in Fields, Delete(f)
  PROVE  LeavesOthers(f) /\ Values!Clear(f, Held(f), SeqOf(cells', f, LengthIn(len', f)))
<1>1. /\ cells' = Zeroed(Region(f), DeletedSlots(f))
      /\ f \in Plain => f \in Structs
      /\ len' = [g \in Dynamic |-> IF g = f THEN 0 ELSE len[g]]
  BY DEF Delete
<1> DEFINE n == LengthIn(len, f)
<1>2. /\ n \in Nat /\ n = Length(f) /\ 0 .. n - 1 \subseteq Reach(f) /\ Agree(f)
      /\ (f \in Plain => n = 1) /\ Reach(f) \subseteq InField(f)
  BY LengthFacts, HeldFacts, ReachFacts DEF Length, LengthIn, Sound
<1>3. /\ \A i \in InField(f), p \in Parts[f] : i < n => PartAt(f, i, p).slot \in DeletedSlots(f)
      /\ f \notin Dynamic => DeletedSlots(f) \subseteq WordsOf(f)
  BY <1>1, <1>2, DeletedWords
<1>4. LeavesOthers(f)
  <2>1. f \in Structs \/ f \in Fixed \/ f \in Dynamic
    BY <1>1, Kinds
  <2>2. \A g \in Fields : g # f =>
           \A j \in Reach(g), q \in Parts[g] :
             Region(f) # Region(g) \/ PartAt(g, j, q).slot \notin DeletedSlots(f)
    <3>1. CASE f \in Dynamic
      BY <3>1, RegionFacts, RegionNames
    <3>2. CASE f \notin Dynamic
      BY <1>3, <2>1, <3>2, StructWordsElsewhere
    <3> QED BY <3>1, <3>2
  <2>3. Touches(f)
    BY <1>1, <2>2, ZeroTouches
  <2> QED BY <2>3, TouchLeaves
<1>5. ASSUME NEW i \in 0 .. n - 1
      PROVE  Value(cells', f, i) = Values!Zero(f)
  <2>1. i \in Reach(f) /\ i \in InField(f) /\ i < n
    BY <1>2
  <2>2. ASSUME NEW p \in Parts[f] PROVE PartIn(cells', PartAt(f, i, p), p) = 0
    <3>1. PartAt(f, i, p).slot \in DeletedSlots(f)
      BY <1>3, <2>1
    <3> QED BY <1>1, <2>1, <3>1, RegionFacts, ZeroEffect
  <2> QED BY <2>1, <2>2, ValueIsZero
<1>6. CASE f \in Dynamic
  <2>1. LengthIn(len', f) = 0
    BY <1>1, <1>6 DEF LengthIn
  <2>2. SeqOf(cells', f, 0) = << >>
    BY DEF SeqOf
  <2>3. Values!Clear(f, Held(f), << >>)
    BY <1>6 DEF Values!Clear
  <2> QED BY <1>4, <2>1, <2>2, <2>3
<1>7. CASE f \notin Dynamic
  <2>1. LengthIn(len', f) = n
    BY <1>7 DEF LengthIn
  <2>2. SeqOf(cells', f, n) = [i \in 1 .. n |-> Values!Zero(f)]
    <3>1. ASSUME NEW j \in 1 .. n PROVE Value(cells', f, j - 1) = Values!Zero(f)
      <4>1. PICK i \in 0 .. n - 1 : i = j - 1
        BY <1>2
      <4> QED BY <1>5, <4>1
    <3> HIDE DEF n
    <3> QED BY <3>1 DEF SeqOf
  <2>3. DOMAIN Held(f) = 1 .. n
    BY HeldFacts
  <2> HIDE DEF n
  <2>4. Values!Clear(f, Held(f), SeqOf(cells', f, n))
    BY <1>7, <2>2, <2>3 DEF Values!Clear
  <2> QED BY <1>4, <2>1, <2>4
<1> QED BY <1>6, <1>7

Runs(s, n) == s = [j \in 1 .. n |-> s[j]]

LEMMA Appended ==
  ASSUME NEW n \in Nat, NEW s, Runs(s, n), NEW v, NEW r, Runs(r, n + 1),
         \A j \in 1 .. n : r[j] = s[j], r[n + 1] = v
  PROVE  r = Append(s, v)
<1> DEFINE S == {s[j] : j \in 1 .. n} \cup {v}
<1>1. s \in Seq(S) /\ v \in S /\ Len(s) = n
  <2>1. \A j \in 1 .. n : s[j] \in S
    OBVIOUS
  <2> HIDE DEF S
  <2>2. s \in [1 .. n -> S] /\ DOMAIN s = 1 .. n
    BY <2>1 DEF Runs
  <2> QED BY <2>2 DEF S
<1> HIDE DEF S
<1>2. /\ Append(s, v) \in Seq(S) /\ Len(Append(s, v)) = n + 1
      /\ \A j \in 1 .. n : Append(s, v)[j] = s[j]
      /\ Append(s, v)[n + 1] = v
  BY <1>1
<1>3. Append(s, v) = [j \in 1 .. n + 1 |-> Append(s, v)[j]]
  <2> DEFINE t == Append(s, v)
  <2>1. t \in Seq(S) /\ Len(t) = n + 1
    BY <1>2
  <2>2. t = [j \in 1 .. n + 1 |-> t[j]]
    <3> HIDE DEF t
    <3> QED BY <2>1
  <2> QED BY <2>2
<1>4. ASSUME NEW j \in 1 .. n + 1 PROVE Append(s, v)[j] = r[j]
  <2>1. j \in 1 .. n \/ j = n + 1
    OBVIOUS
  <2>2. CASE j \in 1 .. n
    <3>1. r[j] = s[j] /\ Append(s, v)[j] = s[j]
      BY <1>2, <2>2
    <3> QED BY <3>1
  <2>3. CASE j = n + 1
    BY <1>2, <2>3
  <2> QED BY <2>1, <2>2, <2>3
<1> QED BY <1>3, <1>4 DEF Runs

LEMMA Shortened ==
  ASSUME NEW n \in Nat \ {0}, NEW s, Runs(s, n), NEW r, Runs(r, n - 1), \A j \in 1 .. n - 1 : r[j] = s[j]
  PROVE  s # << >> /\ Len(s) = n /\ r = SubSeq(s, 1, n - 1)
<1> DEFINE S == {s[j] : j \in 1 .. n}
<1>1. s \in Seq(S) /\ Len(s) = n
  <2>1. \A j \in 1 .. n : s[j] \in S
    OBVIOUS
  <2> HIDE DEF S
  <2>2. s \in [1 .. n -> S] /\ DOMAIN s = 1 .. n
    BY <2>1 DEF Runs
  <2> QED BY <2>2 DEF S
<1> HIDE DEF S
<1>2. s # << >>
  BY <1>1
<1>3. /\ Len(SubSeq(s, 1, n - 1)) = n - 1 /\ SubSeq(s, 1, n - 1) \in Seq(S)
      /\ \A j \in 1 .. n - 1 : SubSeq(s, 1, n - 1)[j] = s[j]
  BY <1>1
<1> DEFINE t == SubSeq(s, 1, n - 1)
<1>4. t = [j \in 1 .. n - 1 |-> t[j]]
  BY <1>3
<1>5. \A j \in 1 .. n - 1 : t[j] = r[j]
  BY <1>3
<1>6. r = t
  <2> HIDE DEF t
  <2> QED BY <1>4, <1>5 DEF Runs
<1> QED BY <1>1, <1>2, <1>6

(* push: the values that were there, and one more.                              *)
LEMMA PushStep ==
  ASSUME Types, Types', Tidy, Sound, NEW f \in Dynamic, Push(f)
  PROVE  LeavesOthers(f) /\ Values!Push(f, Held(f), SeqOf(cells', f, LengthIn(len', f)))
<1>0. PICK n \in Nat, m \in Nat : n = len[f] /\ m = n + 1
  BY DEF Types
<1> DEFINE new == SeqOf(cells', f, m)
<1>1. /\ f \in Fields /\ Agree(f) /\ n < MaxLen[f] /\ MaxLen[f] \in Nat
      /\ \A g \in Dynamic : g # f => len'[g] = len[g]
      /\ len'[f] = m /\ LengthIn(len, f) = n /\ LengthIn(len', f) = m
  BY <1>0, RegionNames, BoundFacts DEF Push, Types, LengthIn, Sound
<1>2. n \in Reach(f) /\ 0 .. n \subseteq Reach(f)
  BY <1>1, ReachFacts
<1>3. /\ Held(f) = [j \in 1 .. n |-> Held(f)[j]]
      /\ \A j \in 1 .. n : Held(f)[j] = Value(cells, f, j - 1)
  BY <1>1, HeldFacts
<1>4. new = [j \in 1 .. m |-> new[j]] /\ \A j \in 1 .. m : new[j] = Value(cells', f, j - 1)
  <2>1. new = [j \in 1 .. m |-> new[j]]
    BY DEF SeqOf
  <2>2. \A j \in 1 .. m : new[j] = Value(cells', f, j - 1)
    BY DEF SeqOf
  <2> QED BY <2>1, <2>2
<1>5. SUFFICES ASSUME NEW v \in [Parts[f] -> Byte], f \in Structs => v = Values!Zero(f),
                      LeavesOthers(f), Value(cells', f, n) = v,
                      \A i \in 0 .. n - 1 : Value(cells', f, i) = Value(cells, f, i)
               PROVE  Values!Push(f, Held(f), new)
  <2>1. CASE f \in Structs
    <3>1. cells' = cells
      BY <2>1 DEF Push
    <3>2. Touches(f)
      BY <1>1, <3>1 DEF Touches
    <3>3. Value(cells', f, n) = Values!Zero(f)
      <4>1. \A p \in Parts[f] : PartIn(cells, PartAt(f, n, p), p) = 0
        BY <1>0, <1>1, <1>2, BehindEnd
      <4> QED BY <1>1, <1>2, <3>1, <4>1, ValueIsZero
    <3>4. Values!Zero(f) \in [Parts[f] -> Byte]
      BY BoundFacts DEF Values!Zero
    <3>5. LeavesOthers(f)
      BY <1>1, <3>2, TouchLeaves
    <3>6. \A i \in 0 .. n - 1 : Value(cells', f, i) = Value(cells, f, i)
      BY <3>1
    <3>7. Values!Push(f, Held(f), new)
      <4> HIDE DEF new
      <4> QED BY <1>5, <3>3, <3>4, <3>5, <3>6
    <3> HIDE DEF new
    <3> QED BY <1>1, <3>5, <3>7 DEF new
  <2>2. CASE f \notin Structs
    <3>1. PICK p \in Parts[f], b \in Byte : cells' = WritePart(f, n, p, b)
      BY <1>0, <2>2 DEF Push
    <3>2. Parts[f] = {p}
      BY <1>1, <2>2, PartsAssumption
    <3>3. LeavesOthers(f)
      BY <1>1, <1>2, <3>1, StoreTouches, TouchLeaves
    <3>4. \A g \in Fields : \A k \in Reach(g), r \in Parts[g] :
            PartIn(cells', PartAt(g, k, r), r)
              = IF g = f /\ k = n /\ r = p THEN b ELSE PartIn(cells, PartAt(g, k, r), r)
      BY <1>1, <1>2, <3>1, StoreEffect
    <3> DEFINE v == [q \in Parts[f] |-> b]
    <3>5. Value(cells', f, n) = v /\ v \in [Parts[f] -> Byte]
      <4>1. v = [q \in Parts[f] |-> v[q]]
        OBVIOUS
      <4>2. \A q \in Parts[f] : PartIn(cells', PartAt(f, n, q), q) = v[q]
        BY <1>1, <1>2, <3>2, <3>4
      <4>3. v \in [Parts[f] -> Byte]
        OBVIOUS
      <4>4. f \in Fields /\ n \in Reach(f)
        BY <1>1, <1>2
      <4> HIDE DEF v
      <4>5. Value(cells', f, n) = v
        BY <4>1, <4>2, <4>4, ValueIs
      <4> QED BY <4>3, <4>5
    <3>6. ASSUME NEW i \in 0 .. n - 1 PROVE Value(cells', f, i) = Value(cells, f, i)
      <4>1. i \in Reach(f) /\ i # n
        BY <1>1, <1>2
      <4>2. Value(cells, f, i) = [q \in Parts[f] |-> Value(cells, f, i)[q]]
        BY <1>1, <4>1, ValueReads
      <4>3. \A q \in Parts[f] : Value(cells, f, i)[q] = PartIn(cells, PartAt(f, i, q), q)
        BY <1>1, <4>1, ValueReads
      <4>4. \A q \in Parts[f] : PartIn(cells', PartAt(f, i, q), q) = Value(cells, f, i)[q]
        BY <1>1, <3>4, <4>1, <4>3
      <4> QED BY <1>1, <4>1, <4>2, <4>4, ValueIs
    <3>7. Values!Push(f, Held(f), new)
      <4> HIDE DEF new, v
      <4> QED BY <1>5, <2>2, <3>3, <3>5, <3>6
    <3> HIDE DEF new
    <3> QED BY <1>1, <3>3, <3>7 DEF new
  <2> QED BY <2>1, <2>2
<1>6. \A j \in 1 .. n : new[j] = Held(f)[j]
  <2>1. SUFFICES ASSUME NEW j \in 1 .. n PROVE new[j] = Held(f)[j]
    OBVIOUS
  <2>2. PICK i \in 0 .. n - 1 : i = j - 1
    BY <1>1
  <2> HIDE DEF new
  <2>3. Value(cells', f, i) = Value(cells, f, i) /\ j \in 1 .. m
    BY <1>0, <1>5, <2>2
  <2> QED BY <1>3, <1>4, <2>2, <2>3
<1>7. new[m] = v
  <2>1. m - 1 = n /\ m \in 1 .. m
    BY <1>0
  <2> HIDE DEF new
  <2> QED BY <1>4, <1>5, <2>1
<1>8. new = Append(Held(f), v)
  <2> HIDE DEF new
  <2>1. Runs(new, n + 1) /\ new[n + 1] = v
    BY <1>0, <1>4, <1>7 DEF Runs
  <2>2. Runs(Held(f), n)
    BY <1>3 DEF Runs
  <2> QED BY <1>6, <2>1, <2>2, Appended
<1> HIDE DEF new
<1> QED BY <1>5, <1>8 DEF Values!Push

(* pop: the values that were there, but for the last.                           *)
LEMMA PopStep ==
  ASSUME Types, Types', Sound, NEW f \in Dynamic, Pop(f)
  PROVE  LeavesOthers(f) /\ Values!Pop(Held(f), SeqOf(cells', f, LengthIn(len', f)))
<1>0. PICK n \in Nat \ {0}, m \in Nat : n = len[f] /\ m = n - 1
  BY DEF Types, Pop
<1> DEFINE new == SeqOf(cells', f, m)
<1>1. /\ f \in Fields /\ Agree(f) /\ cells' = ZeroLast(f)
      /\ \A g \in Dynamic : g # f => len'[g] = len[g]
      /\ len'[f] = m /\ LengthIn(len, f) = n /\ LengthIn(len', f) = m
      /\ Region(f) = f
  BY <1>0, RegionNames, BoundFacts DEF Pop, Types, LengthIn, Sound
<1>2. /\ \A r \in Regions, s \in Slots, k \in Lanes :
           r # f => cells'[r][s][k] = cells[r][s][k]
      /\ \A i \in 0 .. n - 2, p \in Parts[f], k \in Lanes :
           k \in LanesOf(PartAt(f, i, p), p)
             => cells'[f][PartAt(f, i, p).slot][k] = cells[f][PartAt(f, i, p).slot][k]
  BY <1>0, <1>1, PopZeroes
<1>3. /\ Held(f) = [j \in 1 .. n |-> Held(f)[j]] /\ 0 .. n - 1 \subseteq Reach(f)
      /\ \A j \in 1 .. n : Held(f)[j] = Value(cells, f, j - 1)
  BY <1>1, HeldFacts
<1>4. new = [j \in 1 .. m |-> new[j]] /\ \A j \in 1 .. m : new[j] = Value(cells', f, j - 1)
  <2>1. f \in Fields
    BY <1>1
  <2>2. new = [j \in 1 .. m |-> new[j]]
    BY DEF SeqOf
  <2>3. \A j \in 1 .. m : new[j] = Value(cells', f, j - 1)
    BY <2>1, SeqOfFacts
  <2> QED BY <2>2, <2>3
<1>5. LeavesOthers(f)
  <2>1. ASSUME NEW g \in Fields, g # f, NEW j \in Reach(g), NEW q \in Parts[g]
        PROVE  PartIn(cells', PartAt(g, j, q), q) = PartIn(cells, PartAt(g, j, q), q)
    <3>1. /\ PartAt(g, j, q).region \in Regions /\ PartAt(g, j, q).region # f
          /\ PartAt(g, j, q).slot \in Slots
          /\ LanesOf(PartAt(g, j, q), q) \subseteq Lanes
      BY <1>1, <2>1, Located, RegionFacts, RegionNames
    <3>2. SameBytes(cells, cells', PartAt(g, j, q), q)
      BY <1>2, <3>1 DEF SameBytes
    <3> QED BY <3>2, SamePart
  <2>2. Touches(f)
    BY <1>1, <1>2, <2>1 DEF Touches
  <2> QED BY <1>1, <2>2, TouchLeaves
<1>6. ASSUME NEW j \in 1 .. m PROVE new[j] = Held(f)[j]
  <2>1. PICK i \in 0 .. n - 2 : i = j - 1
    BY <1>0
  <2>2. i \in Reach(f) /\ j \in 1 .. n
    BY <1>0, <1>3
  <2>3. Value(cells, f, i) = [q \in Parts[f] |-> Value(cells, f, i)[q]]
    BY <1>1, <2>2, ValueReads
  <2>4. \A q \in Parts[f] : Value(cells, f, i)[q] = PartIn(cells, PartAt(f, i, q), q)
    BY <1>1, <2>2, ValueReads
  <2>5. ASSUME NEW q \in Parts[f]
        PROVE  PartIn(cells', PartAt(f, i, q), q) = PartIn(cells, PartAt(f, i, q), q)
    <3>1. /\ PartAt(f, i, q).region = f /\ LanesOf(PartAt(f, i, q), q) \subseteq Lanes
      BY <1>1, <2>2, Located
    <3>2. SameBytes(cells, cells', PartAt(f, i, q), q)
      BY <1>2, <3>1 DEF SameBytes
    <3> QED BY <1>1, <2>2, <3>2, SamePart
  <2>6. Value(cells', f, i) = Value(cells, f, i)
    <3>1. \A q \in Parts[f] : PartIn(cells', PartAt(f, i, q), q) = Value(cells, f, i)[q]
      BY <2>4, <2>5
    <3> QED BY <1>1, <2>2, <2>3, <3>1, ValueIs
  <2> HIDE DEF new
  <2> QED BY <1>3, <1>4, <2>1, <2>2, <2>6
<1>7. Held(f) # << >> /\ Len(Held(f)) = n /\ new = SubSeq(Held(f), 1, n - 1)
  <2> HIDE DEF new
  <2>1. Runs(new, n - 1) /\ \A j \in 1 .. n - 1 : new[j] = Held(f)[j]
    BY <1>0, <1>4, <1>6 DEF Runs
  <2>2. Runs(Held(f), n)
    BY <1>3 DEF Runs
  <2> QED BY <2>1, <2>2, Shortened
<1>8. Values!Pop(Held(f), new)
  <2> HIDE DEF new
  <2> QED BY <1>7 DEF Values!Pop
<1> QED BY <1>1, <1>5, <1>8

(* gum_sstr_load, of a text with this head and these words.                      *)
TextFrom(head, words) ==
  IF head.long
  THEN [k \in 1 .. head.n |-> words[(k - 1) \div WordBytes][(k - 1) % WordBytes]]
  ELSE head.bytes

LEMMA TextReads ==
  ASSUME NEW t
  PROVE  TextOf(t) = TextFrom(heads[t], cells[t]) /\ TextOf(t)' = TextFrom(heads'[t], cells'[t])
  BY DEF TextOf, TextFrom

(* What a statement on a text leaves alone.                                    *)
LEMMA TextStep ==
  ASSUME Types, NEW t \in Texts, NEW word, cells' = [cells EXCEPT ![t] = word],
         NEW h, heads' = [heads EXCEPT ![t] = h], UNCHANGED <<len, pending>>,
         io' \in Seq(Byte), TextOf(t)' = io'
  PROVE  Values!Next
<1>1. Walk' = Walk
  BY DEF Walk
<1>2. ASSUME NEW g \in Fields
      PROVE  SeqOf(cells', g, LengthIn(len', g)) = SeqOf(cells, g, LengthIn(len, g))
  <2>1. LengthIn(len, g) \in Nat /\ 0 .. LengthIn(len, g) - 1 \subseteq Reach(g)
    BY HeldFacts
  <2>2. ASSUME NEW j \in Reach(g), NEW q \in Parts[g]
        PROVE  PartIn(cells', PartAt(g, j, q), q) = PartIn(cells, PartAt(g, j, q), q)
    <3>1. PartAt(g, j, q).region \in Regions /\ PartAt(g, j, q).region # t
      BY Located, RegionFacts
    <3>2. SameBytes(cells, cells', PartAt(g, j, q), q)
      BY <3>1 DEF Types, SameBytes
    <3> QED BY <3>2, SamePart
  <2>3. \A j \in 0 .. LengthIn(len, g) - 1, q \in Parts[g] :
          PartIn(cells', PartAt(g, j, q), q) = PartIn(cells, PartAt(g, j, q), q)
    BY <2>1, <2>2
  <2>4. SeqOf(cells', g, LengthIn(len, g)) = SeqOf(cells, g, LengthIn(len, g))
    BY <2>1, <2>3, SameSeq
  <2> QED BY <2>4
<1>3. Contents' = Contents
  BY <1>2, ContentsNow, ContentsNext
<1>4. ASSUME NEW u \in Texts, u # t PROVE TextOf(u)' = TextOf(u)
  <2>1. cells'[u] = cells[u] /\ heads'[u] = heads[u]
    BY <1>4, RegionNames DEF Types
  <2> QED BY <2>1, TextReads
<1>5. Strings' = [Strings EXCEPT ![t] = io']
  <2>1. Strings' = [u \in Texts |-> TextOf(u)']
    BY DEF Strings
  <2>2. \A u \in Texts : TextOf(u)' = IF u = t THEN io' ELSE TextOf(u)
    BY <1>4
  <2>3. Strings' = [u \in Texts |-> IF u = t THEN io' ELSE TextOf(u)]
    BY <2>1, <2>2
  <2> QED BY <2>3 DEF Strings
<1>6. Values!Write(t)
  BY <1>1, <1>3, <1>5 DEF Values!Write
<1> QED BY <1>6 DEF Values!Next

LEMMA StoreTextStep ==
  ASSUME Types, NEW t \in Texts, StoreText(t)
  PROVE  Values!Next
<1>1. PICK n \in 0 .. MaxText : \E s : TextWritten(t, n, s)
  BY StoreTextWrites
<1>2. PICK s : TextWritten(t, n, s)
  BY <1>1
<1> DEFINE h == [long |-> n >= WordBytes, n |-> n, bytes |-> IF n < WordBytes THEN s ELSE << >>]
<1>3. PICK word \in Words :
        /\ cells' = [cells EXCEPT ![t] = word]
        /\ \A w \in Slots, k \in Lanes :
             word[w][k] = IF n >= WordBytes /\ w < TextWords(n)
                          THEN IF w * WordBytes + k < n THEN s[w * WordBytes + k + 1] ELSE 0
                          ELSE Released(t)[w][k]
  BY <1>2 DEF TextWritten
<1>4. /\ heads' = [heads EXCEPT ![t] = h] /\ UNCHANGED <<len, pending>> /\ io' = s
      /\ s \in [1 .. n -> Letter]
  BY <1>2 DEF TextWritten, StoreText
<1>5. /\ n \in Nat /\ WordBytes \in Nat \ {0} /\ TextWords(n) \in Nat
      /\ n <= TextWords(n) * WordBytes /\ TextWords(n) <= MaxSlot + 1 /\ MaxSlot \in Nat
      /\ TextWords(MaxText) \in Nat
  <2>1. MaxText \in 0 .. MaxText /\ TextWords(MaxText) <= MaxSlot + 1
    BY BoundsAssumption
  <2>2. TextWords(MaxText) \in Nat
    BY <2>1, TextFits
  <2> QED BY <2>1, <2>2, TextFits, BoundFacts
<1>6. s \in Seq(Byte)
  <2>1. s \in [1 .. n -> Byte]
    BY <1>4 DEF Letter
  <2> QED BY <1>5, <2>1
<1>7. TextOf(t)' = s
  <2>1. heads'[t] = h /\ cells'[t] = word
    BY <1>3, <1>4, RegionNames DEF Types
  <2>2. TextOf(t)' = TextFrom(h, word)
    <3> HIDE DEF h
    <3> QED BY <2>1, TextReads
  <2>3. CASE n < WordBytes
    <3>1. ~ (n >= WordBytes) /\ h.long = (n >= WordBytes)
      BY <1>5, <2>3
    <3>2. h.bytes = s
      BY <2>3
    <3> HIDE DEF h
    <3> QED BY <2>2, <3>1, <3>2 DEF TextFrom
  <2>4. CASE n >= WordBytes
    <3>1. h.long /\ h.n = n
      BY <2>4
    <3>2. ASSUME NEW k \in 1 .. n
          PROVE  word[(k - 1) \div WordBytes][(k - 1) % WordBytes] = s[k]
      <4>1. PICK j \in 0 .. n - 1 : j = k - 1
        BY <1>5
      <4>2. PICK q \in Nat, r \in 0 .. WordBytes - 1 :
              /\ q = j \div WordBytes /\ r = j % WordBytes /\ j = WordBytes * q + r
        <5>1. j \in Nat
          OBVIOUS
        <5>2. /\ j \div WordBytes \in Nat /\ j % WordBytes \in 0 .. WordBytes - 1
              /\ j = WordBytes * (j \div WordBytes) + (j % WordBytes)
          BY <1>5, <5>1, Divided
        <5> QED BY <5>2
      <4>3. q < TextWords(n)
        <5>1. j \in Nat /\ TextWords(n) * WordBytes \in Nat
          BY <1>5, Times
        <5>2. j < TextWords(n) * WordBytes
          BY <1>5, <5>1
        <5> QED BY <1>5, <4>2, <5>1, <5>2, DividedBelow
      <4>4. q \in Slots /\ r \in Lanes
        BY <1>5, <4>3 DEF Slots, Lanes
      <4>5. q * WordBytes + r = j /\ q * WordBytes + r + 1 = k
        <5>1. WordBytes * q = q * WordBytes /\ q * WordBytes \in Nat
          BY <1>5, Times
        <5> QED BY <4>1, <4>2, <5>1
      <4>6. word[q][r] = s[k]
        <5>1. q * WordBytes + r < n
          BY <4>5
        <5>2. word[q][r] = s[q * WordBytes + r + 1]
          BY <1>3, <2>4, <4>3, <4>4, <5>1
        <5> QED BY <4>5, <5>2
      <4> QED BY <4>1, <4>2, <4>6
    <3> HIDE DEF h
    <3>3. TextOf(t)' = [k \in 1 .. n |-> s[k]]
      BY <2>2, <3>1, <3>2 DEF TextFrom
    <3> QED BY <1>4, <3>3
  <2> QED BY <1>5, <2>3, <2>4
<1> HIDE DEF h
<1> QED BY <1>3, <1>4, <1>6, <1>7, TextStep

LEMMA DeleteTextStep ==
  ASSUME Types, NEW t \in Texts, DeleteText(t)
  PROVE  Values!Next
<1> DEFINE h == [long |-> FALSE, n |-> 0, bytes |-> << >>]
<1>1. /\ cells' = [cells EXCEPT ![t] = Released(t)] /\ heads' = [heads EXCEPT ![t] = h]
      /\ UNCHANGED <<len, pending>> /\ io' = << >>
  BY DEF DeleteText
<1>2. heads'[t] = h
  BY <1>1 DEF Types
<1>3. TextOf(t)' = << >>
  BY <1>2 DEF TextOf
<1>4. << >> \in Seq(Byte)
  OBVIOUS
<1> HIDE DEF h
<1> QED BY <1>1, <1>3, <1>4, TextStep

LEMMA InitRefines == Init => Values!Init
<1>1. SUFFICES ASSUME Init PROVE Values!Init
  OBVIOUS
<1>2. /\ cells = [r \in Regions |-> [s \in Slots |-> ZeroWord]] /\ len = [f \in Dynamic |-> 0]
      /\ heads = [t \in Texts |-> [long |-> FALSE, n |-> 0, bytes |-> << >>]]
      /\ pending = None /\ io = None /\ Types
  BY <1>1, TypesInit DEF Init
<1>3. Strings = [t \in Texts |-> << >>]
  <2>1. \A t \in Texts : TextOf(t) = << >>
    BY <1>2 DEF TextOf
  <2> QED BY <2>1 DEF Strings
<1>4. Walk = None
  BY <1>2 DEF Walk
<1>5. ASSUME NEW f \in Fields
      PROVE  Held(f) = IF f \in Dynamic THEN << >>
                       ELSE [i \in 1 .. IF f \in Fixed THEN Count[f] ELSE 1 |-> Values!Zero(f)]
  <2>1. PICK n \in Nat : n = LengthIn(len, f) /\ 0 .. n - 1 \subseteq Reach(f)
    BY <1>2, HeldFacts
  <2>2. ASSUME NEW j \in 1 .. n PROVE Value(cells, f, j - 1) = Values!Zero(f)
    <3>1. PICK i \in Reach(f) : i = j - 1
      BY <2>1
    <3>2. ASSUME NEW p \in Parts[f] PROVE PartIn(cells, PartAt(f, i, p), p) = 0
      <4> DEFINE at == PartAt(f, i, p)
      <4>1. /\ at.region \in Regions /\ at.slot \in Slots
            /\ LanesOf(at, p) \subseteq Lanes /\ at.offset \in LanesOf(at, p)
        BY Located
      <4>2. \A k \in LanesOf(at, p) : cells[at.region][at.slot][k] = 0
        <5> HIDE DEF at
        <5> QED BY <1>2, <4>1 DEF ZeroWord
      <4> HIDE DEF at
      <4>3. PartIn(cells, at, p) = 0
        BY <4>1, <4>2 DEF PartIn
      <4> QED BY <4>3 DEF at
    <3> QED BY <3>1, <3>2, ValueIsZero
  <2>3. Held(f) = [j \in 1 .. n |-> Values!Zero(f)]
    BY <2>1, <2>2 DEF Held, SeqOf
  <2>4. CASE f \in Dynamic
    <3>1. n = 0
      BY <1>2, <2>1, <2>4 DEF LengthIn
    <3>2. [j \in 1 .. 0 |-> Values!Zero(f)] = << >>
      OBVIOUS
    <3> QED BY <2>3, <2>4, <3>1, <3>2
  <2>5. CASE f \notin Dynamic
    <3>1. n = IF f \in Fixed THEN Count[f] ELSE 1
      BY <2>1, <2>5 DEF LengthIn
    <3> QED BY <2>3, <2>5, <3>1
  <2> QED BY <2>4, <2>5
<1>6. Contents = [f \in Fields |-> Held(f)]
  BY ContentsNow DEF Held
<1>7. Values!Fields = Fields
  BY DEF Values!Fields, Fields
<1> QED BY <1>2, <1>3, <1>4, <1>5, <1>6, <1>7 DEF Values!Init

LEMMA ContentsAre ==
  ASSUME NEW f \in Fields
  PROVE  Contents[f] = Held(f)
  BY ContentsNow DEF Held

LEMMA SameContents ==
  ASSUME UNCHANGED <<cells, len, heads>>
  PROVE  Contents' = Contents /\ Strings' = Strings
<1>1. Contents' = Contents
  BY ContentsNow, ContentsNext
<1>2. Strings' = Strings
  BY TextReads DEF Strings
<1> QED BY <1>1, <1>2

(* for-in: the start, one turn, the end.                                        *)
LEMMA ForStep ==
  ASSUME Types, Types', Tidy, Sound, (\E f \in Dynamic \cup Fixed : BeginFor(f)) \/ Turn \/ EndFor
  PROVE  Values!Next
<1>1. ASSUME NEW f \in Dynamic \cup Fixed, BeginFor(f) PROVE Values!Next
  <2>1. /\ pending = None /\ pending' = [kind |-> "for", of |-> f, turns |-> Length(f), at |-> 0]
        /\ io' = None /\ UNCHANGED <<cells, len, heads>> /\ f \in Fields
    BY <1>1, RegionNames DEF BeginFor
  <2>2. Length(f) = LengthIn(len, f) /\ Length(f) = Len(Contents[f]) /\ Length(f) \in Nat
    BY <2>1, HeldFacts, ContentsAre DEF Length, LengthIn
  <2>3. pending' # None /\ pending'.kind = "for"
    BY <2>1, <2>2, NamesAssumption
  <2>4. Walk = None /\ Walk' = [of |-> f, turns |-> Len(Contents[f]), at |-> 0]
    BY <2>1, <2>2, <2>3 DEF Walk
  <2>5. Values!BeginWalk(f)
    BY <2>1, <2>4, SameContents DEF Values!BeginWalk
  <2> QED BY <1>1, <2>5 DEF Values!Next
<1>2. CASE Turn
  <2>1. PICK f \in Dynamic \cup Fixed, n \in Nat, i \in Nat :
          /\ pending = [kind |-> "for", of |-> f, turns |-> n, at |-> i] /\ pending # None
          /\ i < n /\ 0 .. n - 1 \subseteq Reach(f) /\ (f \in Fixed => n = Count[f])
    BY <1>2 DEF Turn, Types, PendingOK
  <2>2. /\ pending' = [kind |-> "for", of |-> f, turns |-> n, at |-> i + 1]
        /\ UNCHANGED <<cells, len, heads>> /\ f \in Fields /\ i \in Reach(f) /\ Agree(f)
    BY <1>2, <2>1, RegionNames DEF Turn, Sound
  <2>3. pending' # None
    BY <2>2, NamesAssumption
  <2>4. /\ Walk = [of |-> f, turns |-> n, at |-> i] /\ Walk' = [of |-> f, turns |-> n, at |-> i + 1]
        /\ Walk # None
    BY <2>1, <2>2, <2>3, NamesAssumption DEF Walk
  <2>5. PICK p \in Parts[f] : io' = <<ReadPart(f, i, p)>>
    BY <1>2, <2>1 DEF Turn
  <2>6. ReadPart(f, i, p) = PartIn(cells, PartAt(f, i, p), p)
    BY <2>2, ReadPartIs
  <2>7. Len(Contents[f]) = LengthIn(len, f) /\ LengthIn(len, f) \in Nat
    BY <2>2, HeldFacts, ContentsAre
  <2>8. ReadPart(f, i, p) = IF i < Len(Contents[f]) THEN Contents[f][i + 1][p] ELSE 0
    <3>1. CASE i < LengthIn(len, f)
      <4>1. PICK j \in 1 .. LengthIn(len, f) : j = i + 1 /\ j - 1 = i
        BY <2>7, <3>1
      <4>2. Held(f)[j] = Value(cells, f, i)
        BY <2>2, <4>1, HeldFacts
      <4>3. Value(cells, f, i)[p] = PartIn(cells, PartAt(f, i, p), p)
        BY <2>2, ValueReads
      <4> QED BY <2>2, <2>6, <2>7, <3>1, <4>1, <4>2, <4>3, ContentsAre
    <3>2. CASE ~ (i < LengthIn(len, f))
      <4>1. f \in Dynamic
        BY <2>1, <3>2, Kinds DEF LengthIn
      <4>2. i >= len[f]
        BY <2>7, <3>2, <4>1 DEF LengthIn
      <4>3. PartIn(cells, PartAt(f, i, p), p) = 0
        BY <2>2, <4>1, <4>2, BehindEnd
      <4> QED BY <2>6, <2>7, <3>2, <4>3
    <3> QED BY <3>1, <3>2
  <2>9. Values!Turn
    <3>1. Walk.of = f /\ Walk.turns = n /\ Walk.at = i /\ Walk' = [Walk EXCEPT !.at = @ + 1]
      BY <2>4
    <3> QED BY <2>1, <2>2, <2>4, <2>5, <2>8, <3>1, SameContents DEF Values!Turn
  <2> QED BY <2>9 DEF Values!Next
<1>3. CASE EndFor
  <2>1. /\ pending # None /\ pending.kind = "for" /\ pending' = None /\ io' = None
        /\ UNCHANGED <<cells, len, heads>>
    BY <1>3 DEF EndFor
  <2>2. Walk \in [of : Dynamic \cup Fixed, turns : Nat, at : Nat]
    BY <2>1 DEF Walk, Types, PendingOK
  <2>3. Walk # None /\ Walk' = None
    BY <2>1, <2>2, NamesAssumption DEF Walk
  <2>4. Values!EndWalk
    BY <2>1, <2>3, SameContents DEF Values!EndWalk
  <2> QED BY <2>4 DEF Values!Next
<1> QED BY <1>1, <1>2, <1>3

(* A statement that leaves io at None and no for-in changed.                     *)
LEMMA AccessStep ==
  ASSUME Types, Types', Sound, NEW f \in Fields, NEW upTo \in Nat, upTo <= LengthIn(len, f),
         Store(f, upTo) \/ DeleteAt(f, upTo), len' = len, heads' = heads, io' = None, Walk' = Walk
  PROVE  Values!Next
<1>1. CASE Store(f, upTo)
  <2>1. LeavesOthers(f) /\ Values!Assign(f, Held(f), SeqOf(cells', f, LengthIn(len', f)))
    BY <1>1, StoreStep
  <2> QED BY <2>1, StatementStep
<1>2. CASE DeleteAt(f, upTo)
  <2>1. LeavesOthers(f) /\ Values!Reset(f, Held(f), SeqOf(cells', f, LengthIn(len', f)))
    BY <1>2, DeleteAtStep
  <2> QED BY <2>1, StatementStep
<1> QED BY <1>1, <1>2

LEMMA NextRefines ==
  ASSUME TidyInv, TidyInv', Sound, [Next]_vars
  PROVE  [Values!Next]_<<Contents, Strings, Walk, io>>
<1>1. Types /\ Types' /\ Tidy /\ IndexInv
  BY DEF TidyInv
<1>2. CASE UNCHANGED vars
  <2>1. UNCHANGED <<cells, len, heads, pending, io>>
    BY <1>2 DEF vars
  <2>2. Walk' = Walk
    BY <2>1 DEF Walk
  <2> QED BY <2>1, <2>2, SameContents
<1>3. ASSUME pending' = pending PROVE Walk' = Walk
  BY <1>3 DEF Walk
<1>4. ASSUME NEW f \in Dynamic, Push(f) PROVE Values!Next
  <2>1. LeavesOthers(f) /\ Values!Push(f, Held(f), SeqOf(cells', f, LengthIn(len', f)))
    BY <1>1, <1>4, PushStep
  <2>2. f \in Fields /\ io' = None /\ heads' = heads /\ Walk' = Walk
    BY <1>3, <1>4, RegionNames DEF Push
  <2> QED BY <2>1, <2>2, StatementStep
<1>5. ASSUME NEW f \in Dynamic, Pop(f) PROVE Values!Next
  <2>1. LeavesOthers(f) /\ Values!Pop(Held(f), SeqOf(cells', f, LengthIn(len', f)))
    BY <1>1, <1>5, PopStep
  <2>2. f \in Fields /\ io' = None /\ heads' = heads /\ Walk' = Walk
    BY <1>3, <1>5, RegionNames DEF Pop
  <2> QED BY <2>1, <2>2, StatementStep
<1>6. ASSUME NEW f \in Dynamic, BeginIndex(f) PROVE Values!Next
  <2>1. /\ pending = None /\ pending'.kind = "index" /\ io' = None /\ UNCHANGED <<cells, len, heads>>
    BY <1>6 DEF BeginIndex
  <2>2. Walk = None /\ Walk' = None
    BY <2>1 DEF Walk
  <2> QED BY <2>1, <2>2, SameContents DEF Values!Next, Values!Pause
<1>7. ASSUME NEW f \in Fields, Access(f) PROVE Values!Next
  <2>1. PICK n \in Nat : n = Length(f) /\ n = LengthIn(len, f)
    BY <1>1, HeldFacts DEF Length, LengthIn
  <2>2. /\ Store(f, n) \/ DeleteAt(f, n)
        /\ len' = len /\ heads' = heads /\ io' = None /\ Walk' = Walk
    BY <1>3, <1>7, <2>1 DEF Access
  <2> QED BY <1>1, <2>1, <2>2, AccessStep
<1>8. ASSUME NEW f \in Fields, Delete(f) PROVE Values!Next
  <2>1. LeavesOthers(f) /\ Values!Clear(f, Held(f), SeqOf(cells', f, LengthIn(len', f)))
    BY <1>1, <1>8, DeleteStep
  <2>2. io' = None /\ heads' = heads /\ Walk' = Walk
    BY <1>3, <1>8 DEF Delete
  <2> QED BY <2>1, <2>2, StatementStep
<1>9. CASE EndIndex
  <2>1. /\ pending # None /\ pending.kind = "index" /\ pending' = None /\ io' = None
        /\ UNCHANGED <<len, heads>>
        /\ \/ Store(pending.of, pending.turns) \/ DeleteAt(pending.of, pending.turns)
           \/ cells' = cells
    BY <1>9 DEF EndIndex
  <2>2. Walk = None /\ Walk' = None
    BY <2>1 DEF Walk
  <2>3. PICK f \in Dynamic, n \in Nat : f = pending.of /\ n = pending.turns /\ f \in Fields
    BY <1>1, <2>1, RegionNames DEF Types, PendingOK
  <2>4. n <= LengthIn(len, f)
    BY <1>1, <2>1, <2>3 DEF IndexInv, LengthIn
  <2>5. CASE cells' = cells
    <3>1. UNCHANGED <<cells, len, heads>>
      BY <2>1, <2>5
    <3> QED BY <2>1, <2>2, <3>1, SameContents DEF Values!Next, Values!Pause
  <2>6. CASE Store(f, n) \/ DeleteAt(f, n)
    BY <1>1, <2>1, <2>2, <2>3, <2>4, <2>6, AccessStep
  <2> QED BY <2>1, <2>3, <2>5, <2>6
<1>10. CASE (\E f \in Dynamic \cup Fixed : BeginFor(f)) \/ Turn \/ EndFor
  BY <1>1, <1>10, ForStep
<1>11. CASE \E t \in Texts : StoreText(t) \/ DeleteText(t)
  BY <1>1, <1>11, StoreTextStep, DeleteTextStep
<1> QED BY <1>2, <1>4, <1>5, <1>6, <1>7, <1>8, <1>9, <1>10, <1>11 DEF Next

(* Where the address rules agree and nothing shortens an array under its own      *)
(* index expression, what gumc makes of words, offsets, masks and lengths is      *)
(* plain values, sequences and texts: every statement reads and changes what it    *)
(* names and nothing else, at every width of a word and for every set of fields.   *)
THEOREM CollectionsAreValues ==
  ASSUME Sound
  PROVE  Spec => ValuesSpec
<1>1. Init => TidyInv
  BY TypesInit, TidyInit DEF TidyInv
<1>2. TidyInv /\ [Next]_vars => TidyInv'
  BY TidyNext
<1>3. TidyInv /\ TidyInv' /\ [Next]_vars => [Values!Next]_<<Contents, Strings, Walk, io>>
  BY NextRefines
<1> QED BY <1>1, <1>2, <1>3, InitRefines, PTL DEF Spec, ValuesSpec, Values!Spec

=============================================================================
