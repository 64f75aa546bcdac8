------------------------ MODULE CheckedArithmeticProofs ------------------------
(***************************************************************************)
(* For every word size, width, literal and scale: a local's word is always a   *)
(* value of its type.  The invariant carries the range from a statement's      *)
(* operands to its result, so it holds of the pending statement too.          *)
(***************************************************************************)
EXTENDS CheckedArithmetic, TLAPS

USE DEF Words, Top

-----------------------------------------------------------------------------
(* Arithmetic on words.                                                     *)
LEMMA TopFacts == Word \in Nat /\ Word > 2 /\ Top \in Nat /\ Word = 2 * Top /\ Top >= 2
  BY WidthAssumption, SMT DEF Top

LEMMA ModRange == ASSUME NEW a \in Int, NEW n \in Nat, n > 0 PROVE a % n \in 0 .. n - 1
  BY SMT

LEMMA DivRange == ASSUME NEW a \in Nat, NEW n \in Nat, n > 0 PROVE a \div n \in 0 .. a
  BY SMT

LEMMA DivHalf == ASSUME NEW a \in Nat, NEW n \in Nat, n > 1 PROVE 2 * (a \div n) <= a
  BY SMT

LEMMA WrapInWords == ASSUME NEW n \in Int PROVE Wrap(n) \in Words
  BY TopFacts, ModRange DEF Wrap

(* In the window of one word on each side, Wrap is one subtraction.          *)
LEMMA WrapNear ==
  ASSUME NEW n \in Int, -Word <= n, n < 2 * Word
  PROVE  Wrap(n) = IF n < 0 THEN n + Word ELSE IF n < Word THEN n ELSE n - Word
  BY TopFacts, SMT DEF Wrap

LEMMA AsIntRange == ASSUME NEW a \in Words PROVE AsInt(a) \in -Top .. Top - 1
  BY TopFacts DEF AsInt, Negative

LEMMA AsIntOfWrap == ASSUME NEW n \in -Top .. Top - 1 PROVE AsInt(Wrap(n)) = n
  BY TopFacts, WrapNear DEF AsInt, Negative

LEMMA AddSubMulInWords ==
  ASSUME NEW a \in Words, NEW b \in Words
  PROVE  Add(a, b) \in Words /\ Sub(a, b) \in Words /\ Mul(a, b) \in Words
<1>1. a + b \in Int /\ a - b \in Int /\ a * b \in Int
  BY TopFacts
<1> QED BY <1>1, WrapInWords DEF Add, Sub, Mul

LEMMA SizeFacts ==
  ASSUME NEW a \in Words
  PROVE  Size(a) \in 0 .. Top /\ Size(a) = IF AsInt(a) < 0 THEN -AsInt(a) ELSE AsInt(a)
  BY TopFacts, WrapNear DEF Size, Sub, AsInt, Negative

LEMMA DivInWords == ASSUME NEW a \in Words, NEW b \in Words PROVE Div(a, b) \in 0 .. a
  BY TopFacts, DivRange DEF Div

LEMMA ModInWords == ASSUME NEW a \in Words, NEW b \in Words PROVE Mod(a, b) \in 0 .. a
<1>1. CASE b = 0
  BY <1>1, TopFacts DEF Mod
<1>2. CASE b # 0
  <2>1. a % b \in Nat /\ a % b <= a
    BY <1>2, TopFacts, SMT
  <2> QED BY <1>2, <2>1, TopFacts DEF Mod
<1> QED BY <1>1, <1>2

(* A negated magnitude is the negative number, where there is one.            *)
LEMMA AsIntOfNegated ==
  ASSUME NEW m \in 0 .. Top
  PROVE  Sub(0, m) \in Words /\ AsInt(Sub(0, m)) = -m
  BY TopFacts, WrapNear DEF Sub, AsInt, Negative

LEMMA AsIntOfSmall == ASSUME NEW m \in 0 .. Top - 1 PROVE m \in Words /\ AsInt(m) = m
  BY TopFacts DEF AsInt, Negative

-----------------------------------------------------------------------------
(* Types.                                                                   *)
LEMMA TypeFacts ==
  ASSUME NEW t \in Types
  PROVE  /\ t.size \in Nat /\ 2 <= t.size /\ t.size <= Word
         /\ t.size \div 2 \in Nat /\ t.size = 2 * (t.size \div 2)
         /\ t.kind \in {"uint", "int", "fixed", "bool"}
         /\ t.size = Word => t.size \div 2 = Top
<1>1. t.size \in {Word, Narrow, 2} /\ t.kind \in {"uint", "int", "fixed", "bool"}
  BY DEF Types, Numeric, Integral, Uint, Sint, Fixed, Bool
<1>2. Word \in Nat /\ Narrow \in Nat /\ 2 <= Narrow /\ Narrow < Word /\ Word % 2 = 0 /\ Narrow % 2 = 0
  BY WidthAssumption
<1>3. \A n \in {Word, Narrow, 2} :
        n \in Nat /\ 2 <= n /\ n <= Word /\ n \div 2 \in Nat /\ n = 2 * (n \div 2)
  BY <1>2, SMT
<1> QED BY <1>1, <1>3

LEMMA Bounds ==
  ASSUME NEW t \in Types
  PROVE  /\ Low(t) \in Int /\ High(t) \in Int
         /\ Signed(t) => Low(t) \in -Top .. -1 /\ High(t) \in 0 .. Top - 1 /\ Low(t) = -(High(t) + 1)
         /\ ~Signed(t) => Low(t) = 0 /\ High(t) \in 1 .. Word - 1
<1>1. t.size \div 2 <= Top
  BY TypeFacts, TopFacts
<1> QED BY <1>1, TypeFacts, TopFacts DEF Low, High

(* A result is a value of type t, if it is a value at all.                   *)
Fits(r, t) == r.panic = "none" => r.word \in Words /\ Decoded(r.word, t) \in Values(t)

(* The Yul word w is a value of t.                                           *)
Holds(w, t) == w \in Words /\ Decoded(w, t) \in Values(t)

LEMMA MaskedHolds ==
  ASSUME NEW w \in Words, NEW t \in Types
  PROVE  Holds(Masked(w, t), t)
<1>1. w % t.size \in 0 .. t.size - 1
  BY TypeFacts, TopFacts, ModRange
<1>2. CASE Signed(t) /\ w % t.size >= t.size \div 2
  BY <1>1, <1>2, TypeFacts, TopFacts DEF Masked, Holds, Decoded, AsInt, Negative, Values, Low, High
<1>3. CASE Signed(t) /\ w % t.size < t.size \div 2
  BY <1>1, <1>3, TypeFacts, TopFacts DEF Masked, Holds, Decoded, AsInt, Negative, Values, Low, High
<1>4. CASE ~Signed(t)
  BY <1>1, <1>4, TypeFacts, TopFacts DEF Masked, Holds, Decoded, Values, Low, High
<1> QED BY <1>1, <1>2, <1>3, <1>4, TypeFacts

LEMMA ResultForms ==
  /\ \A r : Yields(r).word = r /\ Yields(r).panic = "none"
  /\ \A why : Panics(why).panic = why
  /\ \A r : \A ok \in BOOLEAN :
       /\ YieldsIf(ok, r).panic = IF ok THEN "none" ELSE "overflow"
       /\ ok => YieldsIf(ok, r).word = r
  BY DEF Yields, Panics, YieldsIf

-----------------------------------------------------------------------------
(* The unsigned helpers.                                                    *)
LEMMA UnsignedFits ==
  ASSUME NEW t \in Types, ~Signed(t), NEW a \in Words, NEW b \in Words
  PROVE  /\ Fits(CheckedAdd(a, b, MaxWord(t)), t)
         /\ Fits(CheckedMul(a, b, MaxWord(t)), t)
         /\ a <= High(t) => Fits(CheckedSub(a, b), t)
         /\ a <= High(t) => Fits(NonZero(b, Div(a, b)), t)
         /\ a <= High(t) \/ b <= High(t) => Fits(NonZero(b, Mod(a, b)), t)
<1>1. Low(t) = 0 /\ High(t) \in 1 .. Word - 1 /\ \A w : Decoded(w, t) = w
  BY Bounds DEF Decoded
<1>2. \A w : w \in 0 .. High(t) => w \in Words /\ Decoded(w, t) \in Values(t)
  BY <1>1, TopFacts DEF Values
<1>3. Add(a, b) \in Words /\ Sub(a, b) \in Words /\ Mul(a, b) \in Words
  BY AddSubMulInWords
<1>4. Fits(CheckedAdd(a, b, MaxWord(t)), t)
  BY <1>1, <1>2, <1>3, TopFacts DEF CheckedAdd, YieldsIf, Yields, Panics, Fits, MaxWord
<1>5. Fits(CheckedMul(a, b, MaxWord(t)), t)
  BY <1>1, <1>2, <1>3, TopFacts DEF CheckedMul, YieldsIf, Yields, Panics, Fits, MaxWord
<1>6. ASSUME a <= High(t) PROVE Fits(CheckedSub(a, b), t)
  <2>1. b <= a => Sub(a, b) \in 0 .. High(t)
    BY <1>1, <1>6, TopFacts, WrapNear DEF Sub
  <2> QED BY <1>2, <2>1 DEF CheckedSub, YieldsIf, Yields, Panics, Fits
<1>7. ASSUME a <= High(t) PROVE Fits(NonZero(b, Div(a, b)), t)
  <2>1. Div(a, b) \in 0 .. a
    BY DivInWords
  <2>2. Div(a, b) \in 0 .. High(t)
    BY <1>1, <1>7, <2>1, TopFacts
  <2> QED BY <1>2, <2>2 DEF NonZero, Yields, Panics, Fits
<1>8. ASSUME a <= High(t) \/ b <= High(t) PROVE Fits(NonZero(b, Mod(a, b)), t)
  <2>1. CASE b = 0
    BY <2>1 DEF NonZero, Panics, Fits
  <2>2. CASE b # 0
    <3>1. a % b \in 0 .. b - 1
      BY <2>2, TopFacts, ModRange
    <3>2. Mod(a, b) \in 0 .. High(t)
      BY <1>1, <1>8, <2>2, <3>1, ModInWords, TopFacts DEF Mod
    <3> QED BY <1>2, <3>2 DEF NonZero, Yields, Panics, Fits
  <2> QED BY <2>1, <2>2
<1> QED BY <1>4, <1>5, <1>6, <1>7, <1>8

-----------------------------------------------------------------------------
(* The signed helpers.                                                      *)
LEMMA SignedBounds ==
  ASSUME NEW t \in Types, Signed(t)
  PROVE  AsInt(MinWord(t)) = Low(t) /\ AsInt(MaxWord(t)) = High(t)
<1>1. Low(t) \in -Top .. Top - 1 /\ High(t) \in 0 .. Top - 1
  BY Bounds, TopFacts
<1> QED BY <1>1, AsIntOfWrap, AsIntOfSmall DEF MinWord, MaxWord

LEMMA InBoundsFits ==
  ASSUME NEW t \in Types, Signed(t), NEW r \in Words,
         InBounds(r, MinWord(t), MaxWord(t))
  PROVE  Decoded(r, t) \in Values(t)
  BY SignedBounds, AsIntRange, Bounds, TopFacts DEF InBounds, Less, Decoded, Values

LEMMA SignedCheckedFits ==
  ASSUME NEW t \in Types, Signed(t), NEW a \in Words, NEW b \in Words
  PROVE  /\ Fits(CheckedSAdd(a, b, MinWord(t), MaxWord(t)), t)
         /\ Fits(CheckedSSubN(a, b, MinWord(t), MaxWord(t)), t)
         /\ Fits(CheckedSMul(a, b, MinWord(t), MaxWord(t)), t)
         /\ t.size = Word => Fits(CheckedSSub(a, b), t)
<1>1. Add(a, b) \in Words /\ Sub(a, b) \in Words /\ Mul(a, b) \in Words
  BY AddSubMulInWords
<1>2. Fits(CheckedSAdd(a, b, MinWord(t), MaxWord(t)), t)
  BY <1>1, InBoundsFits DEF CheckedSAdd, YieldsIf, Yields, Panics, Fits
<1>3. Fits(CheckedSSubN(a, b, MinWord(t), MaxWord(t)), t)
  BY <1>1, InBoundsFits DEF CheckedSSubN, CheckedSSub, YieldsIf, Yields, Panics, Fits
<1>4. Fits(CheckedSMul(a, b, MinWord(t), MaxWord(t)), t)
  BY <1>1, InBoundsFits DEF CheckedSMul, YieldsIf, Yields, Panics, Fits
<1>5. ASSUME t.size = Word PROVE Fits(CheckedSSub(a, b), t)
  <2>1. Decoded(Sub(a, b), t) \in Values(t)
    BY <1>1, <1>5, AsIntRange, TypeFacts, TopFacts DEF Decoded, Values, Low, High
  <2> QED BY <1>1, <2>1 DEF CheckedSSub, YieldsIf, Yields, Panics, Fits
<1> QED BY <1>2, <1>3, <1>4, <1>5

(* The magnitude of a quotient, and its sign.                                *)
LEMMA SDivFacts ==
  ASSUME NEW a \in Words, NEW b \in Words, b # 0
  PROVE  /\ SDiv(a, b) \in Words
         /\ ~(AsInt(a) < 0 /\ AsInt(b) < 0) =>
              /\ AsInt(a) >= 0 => AsInt(SDiv(a, b)) \in -AsInt(a) .. AsInt(a)
              /\ AsInt(a) < 0 => AsInt(SDiv(a, b)) \in AsInt(a) .. 0
         /\ AsInt(a) < 0 /\ AsInt(b) < -1 =>
              AsInt(SDiv(a, b)) \in 0 .. -AsInt(a) /\ 2 * AsInt(SDiv(a, b)) <= -AsInt(a)
         /\ AsInt(a) < 0 /\ AsInt(b) < 0 /\ -1 <= AsInt(b) /\ -Top < AsInt(a) =>
              AsInt(SDiv(a, b)) \in 0 .. -AsInt(a)
<1> DEFINE m == Div(Size(a), Size(b))
<1>1. Size(a) \in 0 .. Top /\ Size(b) \in 1 .. Top
  BY SizeFacts, AsIntRange, TopFacts DEF AsInt
<1>2. Size(a) \in Words /\ Size(b) \in Words
  BY <1>1, TopFacts
<1>3. m \in 0 .. Size(a)
  BY <1>2, DivInWords
<1>4. Size(b) > 1 => 2 * m <= Size(a)
  BY <1>1, DivHalf DEF Div
<1>6. m \in 0 .. Top /\ m \in Words
  BY <1>1, <1>3, TopFacts
<1>7. Sub(0, m) \in Words /\ AsInt(Sub(0, m)) = -m
  BY <1>6, AsIntOfNegated
<1>8. m < Top => AsInt(m) = m
  BY <1>6, AsIntOfSmall, TopFacts
<1>9. SDiv(a, b) = IF Negative(a) = Negative(b) THEN m ELSE Sub(0, m)
  BY DEF SDiv
<1>10. /\ Size(a) = IF AsInt(a) < 0 THEN -AsInt(a) ELSE AsInt(a)
       /\ Size(b) = IF AsInt(b) < 0 THEN -AsInt(b) ELSE AsInt(b)
  BY SizeFacts
<1>11. /\ AsInt(a) \in -Top .. Top - 1 /\ AsInt(b) \in -Top .. Top - 1
       /\ Negative(a) = (AsInt(a) < 0) /\ Negative(b) = (AsInt(b) < 0)
  BY AsIntRange, TopFacts DEF AsInt, Negative
<1> HIDE DEF m
<1>12. SDiv(a, b) \in Words
  BY <1>6, <1>7, <1>9
<1>13. CASE AsInt(a) >= 0
  BY <1>1, <1>3, <1>6, <1>7, <1>8, <1>9, <1>10, <1>11, <1>12, <1>13, TopFacts
<1>14. CASE AsInt(a) < 0 /\ AsInt(b) >= 0
  BY <1>1, <1>3, <1>6, <1>7, <1>8, <1>9, <1>10, <1>11, <1>12, <1>14, TopFacts
<1>15. CASE AsInt(a) < 0 /\ AsInt(b) < -1
  BY <1>1, <1>3, <1>4, <1>6, <1>7, <1>8, <1>9, <1>10, <1>11, <1>12, <1>15, TopFacts
<1>16. CASE AsInt(a) < 0 /\ AsInt(b) < 0 /\ -1 <= AsInt(b)
  BY <1>1, <1>3, <1>6, <1>7, <1>8, <1>9, <1>10, <1>11, <1>12, <1>16, TopFacts
<1> QED BY <1>11, <1>13, <1>14, <1>15, <1>16

(* Only the least value over minus one leaves the type.                      *)
LEMMA SDivFits ==
  ASSUME NEW t \in Types, Signed(t), NEW a \in Words, NEW b \in Words,
         AsInt(a) \in Values(t),
         ~(AsInt(a) < 0 /\ AsInt(a) = Low(t) /\ AsInt(b) = -1)
  PROVE  Fits(NonZero(b, SDiv(a, b)), t)
<1>1. CASE b = 0
  BY <1>1 DEF NonZero, Panics, Fits
<1>2. CASE b # 0
  <2>1. Low(t) \in -Top .. -1 /\ High(t) \in 0 .. Top - 1 /\ Low(t) = -(High(t) + 1)
    BY Bounds
  <2>2. Values(t) = Low(t) .. High(t) /\ AsInt(a) \in Int /\ AsInt(b) \in Int
    BY AsIntRange, TopFacts DEF Values
  <2>3. SDiv(a, b) \in Words /\ AsInt(SDiv(a, b)) \in Int
    BY <1>2, SDivFacts, AsIntRange, TopFacts
  <2>4. CASE ~(AsInt(a) < 0 /\ AsInt(b) < 0)
    <3>1. CASE AsInt(a) >= 0
      <4>1. AsInt(SDiv(a, b)) \in -AsInt(a) .. AsInt(a)
        BY <1>2, <2>4, <3>1, SDivFacts
      <4> QED BY <2>1, <2>2, <2>3, <3>1, <4>1, TopFacts DEF NonZero, Yields, Panics, Fits, Decoded
    <3>2. CASE AsInt(a) < 0
      <4>1. AsInt(SDiv(a, b)) \in AsInt(a) .. 0
        BY <1>2, <2>4, <3>2, SDivFacts
      <4> QED BY <2>1, <2>2, <2>3, <3>2, <4>1, TopFacts DEF NonZero, Yields, Panics, Fits, Decoded
    <3> QED BY <2>2, <3>1, <3>2
  <2>5. CASE AsInt(a) < 0 /\ AsInt(b) < -1
    <3>1. AsInt(SDiv(a, b)) \in 0 .. -AsInt(a) /\ 2 * AsInt(SDiv(a, b)) <= -AsInt(a)
      BY <1>2, <2>5, SDivFacts
    <3> QED BY <2>1, <2>2, <2>3, <3>1, TopFacts DEF NonZero, Yields, Panics, Fits, Decoded
  <2>6. CASE AsInt(a) < 0 /\ AsInt(b) < 0 /\ -1 <= AsInt(b)
    <3>1. \A n \in Int : n < 0 /\ -1 <= n => n = -1
      OBVIOUS
    <3>2. AsInt(a) # Low(t)
      BY <2>2, <2>6, <3>1
    <3>3. Low(t) < AsInt(a) /\ -Top < AsInt(a)
      BY <2>1, <2>2, <3>2, TopFacts
    <3>4. AsInt(SDiv(a, b)) \in 0 .. -AsInt(a)
      BY <1>2, <2>6, <3>3, SDivFacts
    <3> QED BY <2>1, <2>2, <2>3, <3>3, <3>4, TopFacts DEF NonZero, Yields, Panics, Fits, Decoded
  <2> QED BY <2>2, <2>4, <2>5, <2>6
<1> QED BY <1>1, <1>2

(* A remainder is no larger than the dividend, and smaller than the divisor.   *)
LEMMA SModFits ==
  ASSUME NEW t \in Types, Signed(t), NEW a \in Words, NEW b \in Words,
         AsInt(a) \in Values(t) \/ (AsInt(a) >= 0 /\ AsInt(b) \in Values(t))
  PROVE  Fits(NonZero(b, SMod(a, b)), t)
<1> DEFINE m == Mod(Size(a), Size(b))
<1>1. CASE b = 0
  BY <1>1 DEF NonZero, Panics, Fits
<1>2. CASE b # 0
  <2>1. Size(a) \in 0 .. Top /\ Size(b) \in 1 .. Top
    BY <1>2, SizeFacts, AsIntRange, TopFacts DEF AsInt
  <2>2. Size(a) \in Words /\ Size(b) \in Words
    BY <2>1, TopFacts
  <2>3. m \in 0 .. Size(a)
    BY <2>2, ModInWords
  <2>4. m \in 0 .. Size(b) - 1
    BY <2>1, TopFacts, ModRange DEF Mod
  <2>5. m \in 0 .. Top - 1 /\ m \in 0 .. Top
    BY <2>1, <2>3, <2>4, TopFacts
  <2>6. m \in Words /\ AsInt(m) = m /\ Sub(0, m) \in Words /\ AsInt(Sub(0, m)) = -m
    BY <2>5, AsIntOfSmall, AsIntOfNegated
  <2>7. SMod(a, b) = IF Negative(a) THEN Sub(0, m) ELSE m
    BY DEF SMod
  <2>8. /\ Size(a) = IF AsInt(a) < 0 THEN -AsInt(a) ELSE AsInt(a)
        /\ Size(b) = IF AsInt(b) < 0 THEN -AsInt(b) ELSE AsInt(b)
        /\ AsInt(a) \in Int /\ AsInt(b) \in Int
    BY SizeFacts, AsIntRange, TopFacts
  <2>9. Low(t) \in -Top .. -1 /\ High(t) \in 0 .. Top - 1 /\ Low(t) = -(High(t) + 1)
        /\ Values(t) = Low(t) .. High(t)
    BY Bounds DEF Values
  <2> HIDE DEF m
  <2>10. SMod(a, b) \in Words /\ AsInt(SMod(a, b)) \in Low(t) .. High(t)
    <3>1. CASE AsInt(a) < 0
      <4>0. Negative(a)
        BY <3>1, TopFacts DEF AsInt
      <4>1. Low(t) <= AsInt(a) /\ Size(a) = -AsInt(a)
        BY <2>8, <2>9, <3>1
      <4>2. -m \in Low(t) .. High(t)
        BY <2>3, <2>8, <2>9, <4>1, TopFacts
      <4> QED BY <2>6, <2>7, <4>0, <4>2
    <3>2. CASE AsInt(a) >= 0
      <4>0. ~Negative(a)
        BY <3>2, TopFacts DEF AsInt
      <4>1. Size(a) = AsInt(a)
        BY <2>8, <3>2
      <4>2. m \in Low(t) .. High(t)
        <5>1. CASE AsInt(a) \in Values(t)
          BY <2>3, <2>8, <2>9, <4>1, <5>1, TopFacts
        <5>2. CASE AsInt(b) \in Values(t)
          <6>1. Size(b) <= High(t) + 1
            BY <2>8, <2>9, <5>2, TopFacts
          <6> QED BY <2>1, <2>4, <2>9, <6>1, TopFacts
        <5> QED BY <5>1, <5>2
      <4> QED BY <2>6, <2>7, <4>0, <4>2
    <3> QED BY <2>8, <3>1, <3>2
  <2> QED BY <2>9, <2>10 DEF NonZero, Yields, Panics, Fits, Decoded
<1> QED BY <1>1, <1>2

-----------------------------------------------------------------------------
(* Fixed point: whatever muldiv computes is a word, and its sign is tested.    *)
LEMMA MulInWords == ASSUME NEW a \in Int, NEW b \in Int PROVE Mul(a, b) \in Words
  BY WrapInWords DEF Mul

LEMMA OddInverseInWords == ASSUME NEW d \in Words PROVE OddInverse(d) \in Words
<1>1. \A n \in Int : Better(n, d) \in Words
  <2> TAKE n \in Int
  <2>1. Mul(d, n) \in Words
    BY MulInWords, TopFacts
  <2>2. Sub(2, Mul(d, n)) \in Words
    BY <2>1, WrapInWords, TopFacts DEF Sub
  <2> QED BY <2>2, MulInWords, TopFacts DEF Better
<1>2. FlipTwo(Mul(3, d)) \in Int
  <2>1. Mul(3, d) \in Int
    BY MulInWords, TopFacts
  <2> QED BY <2>1 DEF FlipTwo
<1>3. Words \subseteq Int
  BY TopFacts
<1> QED BY <1>1, <1>2, <1>3 DEF OddInverse

LEMMA LongDivideInWords ==
  ASSUME NEW x \in Words, NEW y \in Words, NEW d \in Words, d > 0,
         NEW p1 \in Words, NEW p0 \in Words
  PROVE  LongDivide(x, y, d, p1, p0) \in Words
<1> DEFINE rem  == MulMod(x, y, d)
           high == Sub(p1, Flag(rem > p0))
           low  == Sub(p0, rem)
           twos == LowestBit(d)
           up   == Add(Div(Sub(0, twos), twos), 1)
<1>1. \E u \in Powers : d % u = 0 /\ (d \div u) % 2 = 1
  BY PowersAssumption, TopFacts
<1>2. twos \in 1 .. Word
  BY <1>1 DEF LowestBit, Powers
<1>3. x * y \in Int /\ d \in Nat
  BY TopFacts
<1>4. rem \in Int
  BY <1>3, ModRange, TopFacts DEF MulMod
<1>5. high \in Words /\ low \in Words
  BY <1>4, WrapInWords, TopFacts DEF Sub, Flag
<1>6. Sub(0, twos) \in Nat
  BY <1>2, WrapInWords, TopFacts DEF Sub
<1>7. Div(Sub(0, twos), twos) \in Int /\ Div(low, twos) \in Int
  BY <1>2, <1>5, <1>6, DivRange, TopFacts DEF Div
<1>8. up \in Words
  BY <1>7, WrapInWords DEF Add
<1>9. Mul(high, up) \in Words
  BY <1>5, <1>8, AddSubMulInWords
<1>10. Add(Div(low, twos), Mul(high, up)) \in Words
  BY <1>7, <1>9, WrapInWords, TopFacts DEF Add
<1>11. Div(d, twos) \in Words
  BY <1>2, DivRange, TopFacts DEF Div
<1> HIDE DEF rem, high, low, twos, up
<1>12. Mul(Add(Div(low, twos), Mul(high, up)), OddInverse(Div(d, twos))) \in Words
  BY <1>10, <1>11, OddInverseInWords, AddSubMulInWords
<1> QED BY <1>12 DEF LongDivide, rem, high, low, twos, up

LEMMA MulDivInWords ==
  ASSUME NEW x \in Words, NEW y \in Words, NEW d \in Words
  PROVE  MulDiv(x, y, d).panic = "none" => MulDiv(x, y, d).word \in Words
<1> DEFINE mm == MulMod(x, y, Word - 1)
           p0 == Mul(x, y)
           p1 == Sub(Sub(mm, p0), Flag(mm < p0))
<1>1. p0 \in Words
  BY AddSubMulInWords
<1>2. mm \in Int
  <2>1. x * y \in Int /\ Word - 1 \in Nat /\ Word - 1 > 0
    BY TopFacts
  <2> QED BY <2>1, ModRange DEF MulMod
<1>3. p1 \in Words
  BY <1>1, <1>2, WrapInWords, TopFacts DEF Sub, Flag
<1> HIDE DEF mm, p0, p1
<1>4. MulDiv(x, y, d) =
        CASE p1 = 0 /\ d = 0  -> Panics("zero")
          [] p1 = 0 /\ d # 0  -> Yields(Div(p0, d))
          [] p1 # 0 /\ d <= p1 -> Panics("overflow")
          [] p1 # 0 /\ d > p1  -> Yields(LongDivide(x, y, d, p1, p0))
  BY DEF MulDiv, mm, p0, p1
<1>5. CASE p1 = 0 /\ d = 0
  BY <1>4, <1>5 DEF Panics
<1>6. CASE p1 = 0 /\ d # 0
  <2>1. Div(p0, d) \in Words
    BY <1>1, DivInWords, TopFacts
  <2> QED BY <1>4, <1>6, <2>1 DEF Yields
<1>7. CASE p1 # 0 /\ d <= p1
  <2>1. ~(d > p1)
    BY <1>3, <1>7, TopFacts
  <2> QED BY <1>4, <1>7, <2>1 DEF Panics
<1>8. CASE p1 # 0 /\ d > p1
  <2>1. ~(d <= p1) /\ d > 0
    BY <1>3, <1>8, TopFacts
  <2>2. LongDivide(x, y, d, p1, p0) \in Words
    BY <1>1, <1>3, <2>1, LongDivideInWords
  <2> QED BY <1>4, <1>8, <2>1, <2>2 DEF Yields
<1>9. d <= p1 \/ d > p1
  BY <1>3, TopFacts
<1> QED BY <1>5, <1>6, <1>7, <1>8, <1>9

(* A full-width signed type has every word among its values.                  *)
LEMMA FullWidth ==
  ASSUME NEW t \in Types, Signed(t), t.size = Word, NEW w \in Words
  PROVE  Decoded(w, t) \in Values(t)
  BY AsIntRange, TypeFacts, TopFacts DEF Decoded, Values, Low, High

LEMMA WadFits ==
  ASSUME NEW a \in Words, NEW b \in Words
  PROVE  Fits(WadMul(a, b), Fixed) /\ Fits(WadDiv(a, b), Fixed)
<1>1. Size(a) \in Words /\ Size(b) \in Words /\ Wad \in Words
  BY SizeFacts, TopFacts, LiteralAssumption
<1>2. Fixed \in Types /\ Signed(Fixed) /\ Fixed.size = Word
  BY DEF Types, Numeric, Fixed, Signed
<1>3. ASSUME NEW mag, mag.panic = "none" => mag.word \in Words
      PROVE  Fits(WithSign(a, b, mag), Fixed)
  <2>1. ASSUME mag.panic = "none" PROVE Sub(0, mag.word) \in Words
    <3>1. 0 \in Words /\ mag.word \in Words
      BY <1>3, <2>1, TopFacts
    <3> QED BY <3>1, AddSubMulInWords
  <2> QED BY <1>2, <1>3, <2>1, FullWidth DEF WithSign, YieldsIf, Yields, Panics, Fits
<1> QED BY <1>1, <1>3, MulDivInWords DEF WadMul, WadDiv

-----------------------------------------------------------------------------
(* The statement's operands.                                                *)
LEMMA OperandFacts ==
  ASSUME TypeOK, InRange, NEW o \in Operands
  PROVE  /\ WordOf(o) \in Words /\ TypeOf(o, typ) \in Types
         /\ ValueOf(o) \in Values(TypeOf(o, typ))
         /\ IsLiteral(o) => WordOf(o) = o.n /\ ValueOf(o) = o.n /\ TypeOf(o, typ) = Uint(Word)
<1>1. CASE IsLiteral(o)
  <2>1. o.n \in Literals
    BY <1>1 DEF Operands, Locals, IsLiteral
  <2>2. o.n \in Words
    BY <2>1, LiteralAssumption
  <2>3. Uint(Word) \in Types /\ ~Signed(Uint(Word)) /\ Uint(Word).size = Word
    BY DEF Types, Numeric, Integral, Uint, Signed
  <2> QED BY <1>1, <2>2, <2>3, TopFacts DEF WordOf, TypeOf, ValueOf, Decoded, Values, Low, High
<1>2. CASE ~IsLiteral(o)
  <2>1. o.at \in Locals
    BY <1>2 DEF Operands, Locals, IsLiteral
  <2> QED BY <1>2, <2>1 DEF TypeOK, InRange, WordOf, TypeOf, ValueOf
<1> QED BY <1>1, <1>2

(* Where operands do not mix, signed code reads the numbers they stand for.    *)
LEMMA ReadsRight ==
  ASSUME TypeOK, InRange, NEW s \in Statements, ~Mixes(s, typ),
         Signed(TypeOf(Leader(s), typ)), NEW o \in {s.l, s.r}
  PROVE  AsInt(WordOf(o)) = ValueOf(o)
<1>1. s.l \in Operands /\ s.r \in Operands
  BY DEF Statements
<1>2. CASE Signed(TypeOf(o, typ))
  BY <1>2 DEF ValueOf, Decoded
<1>3. CASE ~Signed(TypeOf(o, typ))
  <2>1. Leader(s) \in {s.l, s.r} /\ Leader(s) # o
    BY <1>3 DEF Leader
  <2>2. ~Signed(Uint(Word))
    BY DEF Signed, Uint
  <2>3. ~IsLiteral(Leader(s))
    BY <1>1, <2>1, <2>2, OperandFacts
  <2>4. IsLiteral(o) /\ o.n <= High(Sint(Word))
    BY <1>1, <1>3, <2>1, <2>3 DEF Mixes
  <2>5. High(Sint(Word)) = Top - 1
    BY DEF High, Sint, Signed
  <2>6. o.n \in Words
    BY <1>1, <2>4, OperandFacts
  <2>7. AsInt(o.n) = o.n
    BY <2>4, <2>5, <2>6, AsIntOfSmall, TopFacts
  <2> QED BY <1>1, <2>4, <2>7, OperandFacts
<1> QED BY <1>2, <1>3

-----------------------------------------------------------------------------
(* What a statement evaluates to fits the type the checker gives it.          *)
LEMMA TypeNames ==
  /\ Fixed \in Types /\ Bool \in Types /\ Uint(Word) \in Types /\ Sint(Word) \in Types
  /\ Signed(Fixed) /\ Signed(Sint(Word)) /\ ~Signed(Bool) /\ ~Signed(Uint(Word))
  /\ Fixed.size = Word /\ Sint(Word).size = Word /\ Uint(Word).size = Word /\ Bool.size = 2
  BY DEF Types, Numeric, Integral, Uint, Sint, Fixed, Bool, Signed

LEMMA ArithFits ==
  ASSUME Careless = {}, TypeOK, InRange, NEW s \in Statements, s.op \in ArithOps,
         Runs(s, typ, ValueOf(s.l), ValueOf(s.r))
  PROVE  LET a == WordOf(s.l)
             b == WordOf(s.r)
             t == TypeOf(Leader(s), typ)
         IN /\ Signed(t) => Fits(SignedOp(s, a, b, t), t)
            /\ ~Signed(t) => Fits(UnsignedOp(s, a, b, t), t)
<1> DEFINE a == WordOf(s.l)
           b == WordOf(s.r)
           t == TypeOf(Leader(s), typ)
<1>1. s.l \in Operands /\ s.r \in Operands /\ Leader(s) \in {s.l, s.r}
  BY DEF Statements, Leader
<1>2. a \in Words /\ b \in Words /\ t \in Types
  BY <1>1, OperandFacts
<1>3. ~Mixes(s, typ) /\ ~OutgrowsType(s, typ) /\ ~DividesLow(s, typ, ValueOf(s.l), ValueOf(s.r))
  BY DEF Runs, Accepted
<1>4. Leader(s) # s.l =>
        /\ Leader(s) = s.r /\ ValueOf(s.l) = s.l.n /\ a = s.l.n
        /\ s.op \in {"-", "/"} => ~(s.l.n > High(t))
  BY <1>1, <1>3, OperandFacts DEF Leader, OutgrowsType
<1>5. ValueOf(Leader(s)) \in Values(t)
  BY <1>1, OperandFacts
<1>6. ASSUME Signed(t) PROVE Fits(SignedOp(s, a, b, t), t)
  <2>1. AsInt(a) = ValueOf(s.l) /\ AsInt(b) = ValueOf(s.r)
    BY <1>3, <1>6, ReadsRight
  <2>2. Leader(s) = s.l => AsInt(a) \in Values(t)
    BY <1>5, <2>1
  <2>3. Leader(s) # s.l => AsInt(a) >= 0 /\ AsInt(b) \in Values(t)
    BY <1>2, <1>4, <1>5, <2>1, TopFacts
  <2>4. Leader(s) # s.l /\ s.op = "/" => AsInt(a) \in Values(t)
    BY <1>2, <1>4, <1>6, <2>1, <2>3, Bounds, TopFacts DEF Values
  <2>5. CASE s.op = "+"
    BY <1>2, <1>6, <2>5, SignedCheckedFits DEF SignedOp
  <2>6. CASE s.op = "-"
    BY <1>2, <1>6, <2>6, SignedCheckedFits DEF SignedOp
  <2>7. CASE s.op \in {"*", "/"} /\ BothFixed(s, typ)
    <3>1. t = Fixed
      BY <1>1, <2>7 DEF BothFixed
    <3>2. Fits(WadMul(a, b), t) /\ Fits(WadDiv(a, b), t)
      BY <1>2, <3>1, WadFits
    <3> QED BY <2>7, <3>2 DEF SignedOp
  <2>8. CASE s.op = "*" /\ ~BothFixed(s, typ)
    BY <1>2, <1>6, <2>8, SignedCheckedFits DEF SignedOp
  <2>9. CASE s.op = "/" /\ ~BothFixed(s, typ)
    <3>1. AsInt(a) \in Values(t)
      BY <2>2, <2>4, <2>9
    <3>2. Leader(s) # s.l => ~(AsInt(a) < 0)
      BY <1>2, <2>3, TopFacts, AsIntRange
    <3>3. Leader(s) = s.l => ~(AsInt(a) < 0 /\ AsInt(a) = Low(t) /\ AsInt(b) = -1)
      BY <1>3, <2>1, <2>9 DEF DividesLow
    <3>4. Fits(NonZero(b, SDiv(a, b)), t)
      BY <1>2, <1>6, <3>1, <3>2, <3>3, SDivFits
    <3> QED BY <2>9, <3>4 DEF SignedOp
  <2>10. CASE s.op = "%"
    BY <1>2, <1>6, <2>2, <2>3, <2>10, SModFits DEF SignedOp
  <2> QED BY <2>5, <2>6, <2>7, <2>8, <2>9, <2>10 DEF ArithOps
<1>7. ASSUME ~Signed(t) PROVE Fits(UnsignedOp(s, a, b, t), t)
  <2>1. Low(t) = 0 /\ High(t) \in Nat
    BY <1>2, <1>7, Bounds, TopFacts
  <2>2. Leader(s) = s.l => a <= High(t)
    BY <1>2, <1>5, <1>7, <2>1, TopFacts DEF ValueOf, Decoded, Values
  <2>3. Leader(s) # s.l => b <= High(t)
    BY <1>2, <1>4, <1>5, <1>7, <2>1, TopFacts DEF ValueOf, Decoded, Values
  <2>4. s.op \in {"-", "/"} => a <= High(t)
    BY <1>2, <1>4, <2>1, <2>2, TopFacts
  <2>5. a <= High(t) \/ b <= High(t)
    BY <2>2, <2>3
  <2>6. CASE s.op \in {"+", "*"}
    BY <1>2, <1>7, <2>6, UnsignedFits DEF UnsignedOp
  <2>7. CASE s.op = "-"
    BY <1>2, <1>7, <2>4, <2>7, UnsignedFits DEF UnsignedOp
  <2>8. CASE s.op = "/"
    BY <1>2, <1>7, <2>4, <2>8, UnsignedFits DEF UnsignedOp
  <2>9. CASE s.op = "%"
    BY <1>2, <1>7, <2>5, <2>9, UnsignedFits DEF UnsignedOp
  <2> QED BY <2>6, <2>7, <2>8, <2>9 DEF ArithOps
<1> QED BY <1>6, <1>7

LEMMA EvaluatedFits ==
  ASSUME Careless = {}, TypeOK, InRange, NEW s \in Statements,
         Runs(s, typ, ValueOf(s.l), ValueOf(s.r))
  PROVE  Fits(Evaluated(s), ResultType(s, typ)) /\ ResultType(s, typ) \in Types
<1> DEFINE a == WordOf(s.l)
           b == WordOf(s.r)
           t == TypeOf(Leader(s), typ)
           T == ResultType(s, typ)
<1>1. s.l \in Operands /\ s.r \in Operands /\ Leader(s) \in {s.l, s.r} /\ s.op \in Ops
  BY DEF Statements, Leader
<1>2. a \in Words /\ b \in Words /\ t \in Types /\ TypeOf(s.l, typ) \in Types
  BY <1>1, OperandFacts
<1>3. ~Mixes(s, typ) /\ ~SaturatesPart(s, typ) /\ OperandsFit(s, typ)
  BY DEF Runs, Accepted
<1>4. \A c : Fits(Yields(Flag(c)), Bool)
  <2>1. \A c : Flag(c) \in {0, 1}
    BY DEF Flag
  <2>2. Values(Bool) = 0 .. 1
    BY TypeNames DEF Values, Low, High
  <2> QED BY <2>1, <2>2, TypeNames, TopFacts DEF Fits, Yields, Decoded
<1>5. CASE Folds(s)
  <2>1. T = Uint(Word)
    BY <1>1, <1>5, OperandFacts DEF Folds, ResultType, CompareOps, LogicOps
  <2>2. Folded(s) \in Words
    BY <1>5, FoldAssumption, TopFacts DEF Folds
  <2>3. Values(Uint(Word)) = Words
    BY TypeNames, TopFacts DEF Values, Low, High
  <2>4. Fits(Yields(Folded(s)), T)
    BY <2>1, <2>2, <2>3, TypeNames DEF Fits, Yields, Decoded
  <2> QED BY <1>5, <2>1, <2>4, TypeNames DEF Evaluated, Folds, ArithOps, CompareOps
<1>6. CASE ~Folds(s) /\ s.op \in ArithOps
  <2>1. T = t
    BY <1>6 DEF ResultType, ArithOps, CompareOps, LogicOps
  <2>2. Evaluated(s) = IF Signed(t) THEN SignedOp(s, a, b, t) ELSE UnsignedOp(s, a, b, t)
    BY <1>6 DEF Evaluated, ArithOps, CompareOps
  <2> QED BY <1>2, <1>6, <2>1, <2>2, ArithFits
<1>7. CASE s.op \in CompareOps \cup LogicOps \cup {"not"}
  <2>1. T = Bool /\ ~Folds(s)
    BY <1>7 DEF ResultType, Folds, CompareOps, LogicOps
  <2>2. \E c : Evaluated(s) = Yields(Flag(c))
    BY <1>7, <2>1 DEF Evaluated, ArithOps, CompareOps, LogicOps
  <2> QED BY <1>4, <2>1, <2>2, TypeNames
<1>8. CASE s.op = "neg"
  <2>1. Evaluated(s) = Yields(Sub(0, a)) /\ Sub(0, a) \in Words
    <3>1. Evaluated(s) = Yields(Sub(0, a))
      BY <1>8 DEF Evaluated, Folds, ArithOps, CompareOps
    <3>2. 0 \in Words
      BY TopFacts
    <3> QED BY <1>2, <3>1, <3>2, AddSubMulInWords
  <2>2. T \in {Sint(Word), Fixed}
    <3>1. TypeOf(s.l, typ) # Bool
      BY <1>1, <1>3, <1>8, OperandFacts DEF Mixes, Bool, Uint
    <3> QED BY <1>2, <1>8, <3>1 DEF ResultType, CompareOps, LogicOps, Types, Numeric
  <2> QED BY <2>1, <2>2, FullWidth, TypeNames DEF Fits, Yields
<1>9. CASE s.op = "saturate"
  <2>1. T = Uint(Word)
    BY <1>3, <1>9 DEF SaturatesPart
  <2>2. Evaluated(s) = SatAdd(a, b)
    BY <1>9 DEF Evaluated, Folds, ArithOps, CompareOps
  <2>3. Values(Uint(Word)) = Words /\ Add(a, b) \in Words /\ Word - 1 \in Words
    BY <1>2, AddSubMulInWords, TypeNames, TopFacts DEF Values, Low, High
  <2> QED BY <2>1, <2>2, <2>3, TypeNames DEF SatAdd, Fits, Yields, Decoded
<1> QED BY <1>1, <1>5, <1>6, <1>7, <1>8, <1>9 DEF Ops, UnaryOps

-----------------------------------------------------------------------------
(* A statement that panics says zero or overflow.                            *)
Codes == {"none", "zero", "overflow"}

LEMMA PanicCodes ==
  ASSUME Careless = {}, TypeOK, InRange, NEW s \in Statements,
         Runs(s, typ, ValueOf(s.l), ValueOf(s.r))
  PROVE  Evaluated(s).panic \in Codes
<1> DEFINE a == WordOf(s.l)
           b == WordOf(s.r)
           t == TypeOf(Leader(s), typ)
<1>1. /\ \A r : Yields(r).panic \in Codes
      /\ Panics("zero").panic \in Codes /\ Panics("overflow").panic \in Codes
      /\ \A ok, r : YieldsIf(ok, r).panic \in Codes
      /\ \A c, r : NonZero(c, r).panic \in Codes
  BY DEF Yields, Panics, YieldsIf, NonZero, Codes
<1>2. \A x, y, d : x \in Words /\ y \in Words /\ d \in Words => MulDiv(x, y, d).panic \in Codes
  <2> TAKE x, y, d
  <2> HAVE x \in Words /\ y \in Words /\ d \in Words
  <2> DEFINE p0 == Mul(x, y)
             p1 == Sub(Sub(MulMod(x, y, Word - 1), p0), Flag(MulMod(x, y, Word - 1) < p0))
  <2>1. p1 \in Words
    <3>1. p0 \in Words
      BY AddSubMulInWords
    <3>2. x * y \in Int /\ Word - 1 \in Nat /\ Word - 1 > 0
      BY TopFacts
    <3>3. MulMod(x, y, Word - 1) \in Int
      BY <3>2, ModRange DEF MulMod
    <3> QED BY <3>1, <3>3, WrapInWords, TopFacts DEF Sub, Flag
  <2>2. d <= p1 \/ d > p1
    BY <2>1, TopFacts
  <2> HIDE DEF p1
  <2>3. MulDiv(x, y, d) =
        CASE p1 = 0 /\ d = 0  -> Panics("zero")
          [] p1 = 0 /\ d # 0  -> Yields(Div(p0, d))
          [] p1 # 0 /\ d <= p1 -> Panics("overflow")
          [] p1 # 0 /\ d > p1  -> Yields(LongDivide(x, y, d, p1, p0))
    BY DEF MulDiv, p1
  <2> QED BY <1>1, <2>2, <2>3
<1>3. a \in Words /\ b \in Words /\ Wad \in Words /\ Size(a) \in Words /\ Size(b) \in Words
  BY OperandFacts, SizeFacts, TopFacts, LiteralAssumption DEF Statements
<1>4. \A mag : mag.panic \in Codes => WithSign(a, b, mag).panic \in Codes
  BY <1>1 DEF WithSign
<1>5. WadMul(a, b).panic \in Codes /\ WadDiv(a, b).panic \in Codes
  BY <1>2, <1>3, <1>4 DEF WadMul, WadDiv
<1>6. s.op \in ArithOps => SignedOp(s, a, b, t).panic \in Codes
  BY <1>1, <1>5 DEF SignedOp, CheckedSAdd, CheckedSSub, CheckedSSubN, CheckedSMul, ArithOps
<1>7. s.op \in ArithOps => UnsignedOp(s, a, b, t).panic \in Codes
  BY <1>1 DEF UnsignedOp, CheckedAdd, CheckedSub, CheckedMul, ArithOps
<1>8. s.op \in Ops
  BY DEF Statements
<1>9. CASE s.op \in ArithOps
  BY <1>1, <1>6, <1>7, <1>9 DEF Evaluated, ArithOps, CompareOps
<1>10. CASE s.op \notin ArithOps
  BY <1>1, <1>8, <1>10 DEF Evaluated, Ops, ArithOps, CompareOps, LogicOps, UnaryOps, Folds, SatAdd
<1> QED BY <1>9, <1>10

(* A value of a type is one of any type it may be assigned to unmasked.       *)
LEMMA Widens ==
  ASSUME NEW t \in Types, NEW u \in Types, Assignable(t, u), u.size <= t.size,
         {u, t} # {Uint(Word), Fixed}, NEW w \in Words, Decoded(w, u) \in Values(u)
  PROVE  Decoded(w, t) \in Values(t)
<1>1. CASE t = u
  BY <1>1
<1>2. CASE t.kind = u.kind /\ t.kind \in {"uint", "int"}
  <2>1. Signed(t) = Signed(u)
    BY <1>2 DEF Signed
  <2>2. Decoded(w, t) = Decoded(w, u)
    BY <2>1 DEF Decoded
  <2>3. u.size \div 2 <= t.size \div 2
    BY TypeFacts
  <2>4. Values(u) \subseteq Values(t)
    BY <2>1, <2>3, TypeFacts DEF Values, Low, High
  <2> QED BY <2>2, <2>4
<1> QED BY <1>1, <1>2 DEF Assignable

-----------------------------------------------------------------------------
(* The pending statement was accepted for the values the locals still have.    *)
PendingRuns == stmt # NoStatement => Runs(stmt, typ, ValueOf(stmt.l), ValueOf(stmt.r))

Inv == TypeOK /\ InRange /\ PendingRuns

LEMMA InitInv == Init => Inv
<1> SUFFICES ASSUME Init PROVE Inv
  OBVIOUS
<1>1. TypeOK /\ stmt = NoStatement
  BY DEF Init, TypeOK
<1>2. \A x \in Locals : word[x] \in Words /\ typ[x] \in Types /\ word[x] = Masked(word[x], typ[x])
  BY DEF Init
<1>3. InRange
  BY <1>2, MaskedHolds DEF InRange, Holds
<1> QED BY <1>1, <1>3 DEF Inv, PendingRuns

LEMMA NextInv == ASSUME Careless = {}, Inv, [Next]_vars PROVE Inv'
<1> USE DEF Inv
<1>1. CASE Fetch
  <2>1. stmt' \in Statements /\ typ' = typ /\ word' = word /\ panic' = panic
    BY <1>1 DEF Fetch
  <2>2. TypeOK' /\ InRange'
    BY <2>1 DEF TypeOK, InRange
  <2>3. PendingRuns'
    BY <1>1, <2>1 DEF Fetch, PendingRuns, ValueOf, WordOf
  <2> QED BY <2>2, <2>3
<1>2. CASE Store
  <2> DEFINE e == Evaluated(stmt)
             t == ResultType(stmt, typ)
             w == IF stmt.how = "declare" THEN Masked(e.word, typ["x"]) ELSE e.word
  <2>1. stmt \in Statements /\ Runs(stmt, typ, ValueOf(stmt.l), ValueOf(stmt.r))
    BY <1>2 DEF Store, TypeOK, PendingRuns
  <2>2. t \in Types /\ e.word \in Words /\ Decoded(e.word, t) \in Values(t)
    BY <1>2, <2>1, EvaluatedFits DEF Store, Fits
  <2>3. typ["x"] \in Types /\ "x" \in Locals
    BY DEF TypeOK, Locals
  <2>4. Holds(w, typ["x"])
    <3>1. CASE stmt.how = "declare"
      BY <2>2, <2>3, <3>1, MaskedHolds
    <3>2. CASE stmt.how # "declare"
      <4>1. stmt.how = "assign"
        BY <2>1, <3>2 DEF Statements
      <4>2. Assignable(typ["x"], t) /\ ~Narrows(stmt, typ) /\ {t, typ["x"]} # {Uint(Word), Fixed}
        BY <2>1 DEF Runs, Accepted, Mixes
      <4>3. t.size <= typ["x"].size
        BY <2>2, <2>3, <4>1, <4>2, TypeFacts DEF Narrows
      <4> QED BY <2>2, <2>3, <3>2, <4>2, <4>3, Widens DEF Holds
    <3> QED BY <3>1, <3>2
  <2>5. word' = [word EXCEPT !["x"] = w] /\ typ' = typ /\ panic' = panic /\ stmt' = NoStatement
    BY <1>2 DEF Store
  <2> HIDE DEF w
  <2>6. TypeOK'
    BY <2>3, <2>4, <2>5 DEF TypeOK, Holds
  <2>7. InRange'
    BY <2>3, <2>4, <2>5 DEF TypeOK, InRange, Holds
  <2> QED BY <2>5, <2>6, <2>7 DEF PendingRuns
<1>3. CASE Revert
  <2>1. typ' = typ /\ word' = word /\ stmt' = NoStatement /\ panic' = Evaluated(stmt).panic
    BY <1>3 DEF Revert
  <2>2. panic' \in {"none", "zero", "overflow"}
    <3>1. stmt \in Statements /\ Runs(stmt, typ, ValueOf(stmt.l), ValueOf(stmt.r))
      BY <1>3 DEF Revert, TypeOK, PendingRuns
    <3> QED BY <2>1, <3>1, PanicCodes DEF Codes
  <2>3. TypeOK' /\ InRange' /\ PendingRuns'
    BY <2>1, <2>2 DEF TypeOK, InRange, PendingRuns
  <2> QED BY <2>3
<1>4. CASE UNCHANGED vars
  BY <1>4 DEF vars, TypeOK, InRange, PendingRuns, ValueOf, WordOf
<1> QED BY <1>1, <1>2, <1>3, <1>4 DEF Next

(* The locals are words, and the panic codes those of the helpers.            *)
THEOREM ArithmeticTypeOK == ASSUME Careless = {} PROVE Spec => []TypeOK
<1>1. Inv /\ [Next]_vars => Inv'
  BY NextInv
<1>2. Inv => TypeOK
  BY DEF Inv
<1> QED BY <1>1, <1>2, InitInv, PTL DEF Spec

(* Whatever the program computes, every local's word is a value of its type.  *)
THEOREM StaysInRange == ASSUME Careless = {} PROVE Spec => []InRange
<1>1. Inv /\ [Next]_vars => Inv'
  BY NextInv
<1>2. Inv => InRange
  BY DEF Inv
<1> QED BY <1>1, <1>2, InitInv, PTL DEF Spec

-----------------------------------------------------------------------------
(* r is the word for n, if n is a value of t, and a panic if it is not.        *)
ExactOrPanics(r, t, n) ==
  /\ r.panic = "none" <=> n \in Values(t)
  /\ r.panic = "none" => Decoded(r.word, t) = n

(* checked_add, checked_sub and their signed forms let a result through        *)
(* exactly when it is a value of the type, and then it is the exact one.       *)
THEOREM SumsAreExact ==
  ASSUME NEW t \in Types, NEW a \in Words, NEW b \in Words,
         Decoded(a, t) \in Values(t), Decoded(b, t) \in Values(t)
  PROVE  /\ ~Signed(t) => /\ ExactOrPanics(CheckedAdd(a, b, MaxWord(t)), t, a + b)
                          /\ ExactOrPanics(CheckedSub(a, b), t, a - b)
         /\ Signed(t) =>
              /\ ExactOrPanics(CheckedSAdd(a, b, MinWord(t), MaxWord(t)), t, AsInt(a) + AsInt(b))
              /\ ExactOrPanics(CheckedSSubN(a, b, MinWord(t), MaxWord(t)), t, AsInt(a) - AsInt(b))
              /\ t.size = Word => ExactOrPanics(CheckedSSub(a, b), t, AsInt(a) - AsInt(b))
<1>1. ASSUME ~Signed(t)
      PROVE  /\ ExactOrPanics(CheckedAdd(a, b, MaxWord(t)), t, a + b)
             /\ ExactOrPanics(CheckedSub(a, b), t, a - b)
  <2>1. Low(t) = 0 /\ High(t) \in 1 .. Word - 1 /\ a \in 0 .. High(t) /\ b \in 0 .. High(t)
    BY <1>1, Bounds DEF Decoded, Values
  <2>2. Add(a, b) = IF a + b < Word THEN a + b ELSE a + b - Word
    BY <2>1, WrapNear, TopFacts DEF Add
  <2>3. Sub(a, b) = IF a - b < 0 THEN a - b + Word ELSE a - b
    BY <2>1, WrapNear, TopFacts DEF Sub
  <2>4. ExactOrPanics(CheckedAdd(a, b, MaxWord(t)), t, a + b)
    BY <1>1, <2>1, <2>2, TopFacts
       DEF ExactOrPanics, CheckedAdd, YieldsIf, Yields, Panics, MaxWord, Decoded, Values
  <2>5. ExactOrPanics(CheckedSub(a, b), t, a - b)
    BY <1>1, <2>1, <2>3, TopFacts
       DEF ExactOrPanics, CheckedSub, YieldsIf, Yields, Panics, Decoded, Values
  <2> QED BY <2>4, <2>5
<1>2. ASSUME Signed(t)
      PROVE  /\ ExactOrPanics(CheckedSAdd(a, b, MinWord(t), MaxWord(t)), t, AsInt(a) + AsInt(b))
             /\ ExactOrPanics(CheckedSSubN(a, b, MinWord(t), MaxWord(t)), t, AsInt(a) - AsInt(b))
             /\ t.size = Word => ExactOrPanics(CheckedSSub(a, b), t, AsInt(a) - AsInt(b))
  <2>1. /\ Low(t) \in -Top .. -1 /\ High(t) \in 0 .. Top - 1
        /\ AsInt(a) \in Low(t) .. High(t) /\ AsInt(b) \in Low(t) .. High(t)
        /\ t.size = Word => Low(t) = -Top /\ High(t) = Top - 1
    BY <1>2, Bounds, TypeFacts, TopFacts DEF Decoded, Values, Low, High
  <2>2. Add(a, b) \in Words /\ Sub(a, b) \in Words
    BY AddSubMulInWords
  <2>3. Add(a, b) = IF a + b < Word THEN a + b ELSE a + b - Word
    BY WrapNear, TopFacts DEF Add
  <2>4. Sub(a, b) = IF a - b < 0 THEN a - b + Word ELSE a - b
    BY WrapNear, TopFacts DEF Sub
  (* The sign test fails just when the sum leaves the word.                   *)
  <2>5. /\ (Negative(a) # Negative(Add(a, b)) /\ Negative(b) # Negative(Add(a, b)))
             => AsInt(a) + AsInt(b) \notin -Top .. Top - 1
        /\ ~(Negative(a) # Negative(Add(a, b)) /\ Negative(b) # Negative(Add(a, b)))
             => AsInt(Add(a, b)) = AsInt(a) + AsInt(b)
    BY <2>2, <2>3, TopFacts DEF AsInt, Negative
  <2>6. /\ (Negative(a) # Negative(b) /\ Negative(a) # Negative(Sub(a, b)))
             => AsInt(a) - AsInt(b) \notin -Top .. Top - 1
        /\ ~(Negative(a) # Negative(b) /\ Negative(a) # Negative(Sub(a, b)))
             => AsInt(Sub(a, b)) = AsInt(a) - AsInt(b)
    BY <2>2, <2>4, TopFacts DEF AsInt, Negative
  <2>7. \A r \in Words : InBounds(r, MinWord(t), MaxWord(t)) <=> AsInt(r) \in Low(t) .. High(t)
    BY <1>2, <2>1, SignedBounds, AsIntRange, TopFacts DEF InBounds, Less
  <2>8. AsInt(Add(a, b)) \in -Top .. Top - 1 /\ AsInt(Sub(a, b)) \in -Top .. Top - 1
    BY <2>2, AsIntRange
  <2>9. ExactOrPanics(CheckedSAdd(a, b, MinWord(t), MaxWord(t)), t, AsInt(a) + AsInt(b))
    BY <1>2, <2>1, <2>2, <2>5, <2>7, TopFacts
       DEF ExactOrPanics, CheckedSAdd, YieldsIf, Yields, Panics, Decoded, Values
  <2>10. ExactOrPanics(CheckedSSubN(a, b, MinWord(t), MaxWord(t)), t, AsInt(a) - AsInt(b))
    BY <1>2, <2>1, <2>2, <2>6, <2>7, TopFacts
       DEF ExactOrPanics, CheckedSSubN, CheckedSSub, YieldsIf, Yields, Panics, Decoded, Values
  <2>11. t.size = Word => ExactOrPanics(CheckedSSub(a, b), t, AsInt(a) - AsInt(b))
    BY <1>2, <2>1, <2>2, <2>6, <2>8, TopFacts
       DEF ExactOrPanics, CheckedSSub, YieldsIf, Yields, Panics, Decoded, Values
  <2> QED BY <2>9, <2>10, <2>11
<1> QED BY <1>1, <1>2
=============================================================================
