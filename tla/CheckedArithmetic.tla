--------------------------- MODULE CheckedArithmetic ---------------------------
(***************************************************************************)
(* Arithmetic as the emitted Yul does it: machine words, the checked_*       *)
(* helpers of yul.rs, and the choice between them by translate_binary_op.     *)
(***************************************************************************)
EXTENDS NumericTypes

CONSTANT FoldLimit   \* values of the u128 in which the compiler folds literals

ASSUME FoldAssumption == FoldLimit \in 1 .. Word

VARIABLES
  typ,    \* types of the locals
  word,   \* the words that hold them
  stmt,   \* the statement that is next
  panic   \* why the method panicked

vars == <<typ, word, stmt, panic>>

-----------------------------------------------------------------------------
(* The EVM's words.                                                         *)
Words == 0 .. Word - 1
Top   == Word \div 2

Wrap(n)     == n % Word
Add(a, b)   == Wrap(a + b)
Sub(a, b)   == Wrap(a - b)
Mul(a, b)   == Wrap(a * b)
Div(a, b)   == IF b = 0 THEN 0 ELSE a \div b
Mod(a, b)   == IF b = 0 THEN 0 ELSE a % b
MulMod(a, b, n) == (a * b) % n
Negative(a) == a >= Top
AsInt(a)    == IF Negative(a) THEN a - Word ELSE a
Less(a, b)  == AsInt(a) < AsInt(b)   \* slt
Size(a)     == IF Negative(a) THEN Sub(0, a) ELSE a
SDiv(a, b)  ==
  IF Negative(a) = Negative(b) THEN Div(Size(a), Size(b)) ELSE Sub(0, Div(Size(a), Size(b)))
SMod(a, b)  ==
  IF Negative(a) THEN Sub(0, Mod(Size(a), Size(b))) ELSE Mod(Size(a), Size(b))
Flag(b)     == IF b THEN 1 ELSE 0

-----------------------------------------------------------------------------
(* The helpers yield a word or revert with a panic code.                      *)
Yields(r)  == [word |-> r, panic |-> "none"]
Panics(why) == [word |-> 0, panic |-> why]
YieldsIf(ok, r) == IF ok THEN Yields(r) ELSE Panics("overflow")

MinWord(t) == Wrap(Low(t))
MaxWord(t) == High(t)

(* Slip: an unsigned result needs no second test, for u256 has no max.        *)
AddWithoutMax(a, b, max) ==
  LET r == Add(a, b) IN YieldsIf(a <= r, r)

CheckedAdd(a, b, max) ==
  LET r == Add(a, b) IN YieldsIf(a <= r /\ r <= max, r)

CheckedSub(a, b) == YieldsIf(b <= a, Sub(a, b))

CheckedMul(a, b, max) ==
  LET r == Mul(a, b) IN YieldsIf((a = 0 \/ Div(r, a) = b) /\ r <= max, r)

InBounds(r, min, max) == ~Less(r, min) /\ ~Less(max, r)

(* and(xor(a, r), xor(b, r)) has the sign bit: r has neither operand's sign.   *)
CheckedSAdd(a, b, min, max) ==
  LET r == Add(a, b)
      wraps == Negative(a) # Negative(r) /\ Negative(b) # Negative(r)
  IN YieldsIf(~wraps /\ InBounds(r, min, max), r)

CheckedSSub(a, b) ==
  LET r == Sub(a, b)
      wraps == Negative(a) # Negative(b) /\ Negative(a) # Negative(r)
  IN YieldsIf(~wraps, r)

CheckedSSubN(a, b, min, max) ==
  LET r == CheckedSSub(a, b)
  IN IF r.panic # "none" THEN r ELSE YieldsIf(InBounds(r.word, min, max), r.word)

(* Slip: the test by division, without the one product it does not catch.      *)
SMulByDivision(a, b, min, max) ==
  LET r == Mul(a, b) IN
  YieldsIf((a = 0 \/ SDiv(r, a) = b) /\ InBounds(r, min, max), r)

CheckedSMul(a, b, min, max) ==
  LET r == Mul(a, b)
      lost == a # 0 /\ ((a = Word - 1 /\ b = Top) \/ SDiv(r, a) # b)
  IN YieldsIf(~lost /\ InBounds(r, min, max), r)

(* Slip: the code of a failed bounds check.                                  *)
NonZeroAsBounds(b, r) == IF b = 0 THEN Panics("bounds") ELSE Yields(r)

NonZero(b, r) == IF b = 0 THEN Panics("zero") ELSE Yields(r)

SatAdd(a, b) == LET r == Add(a, b) IN Yields(IF r < a THEN Word - 1 ELSE r)

-----------------------------------------------------------------------------
(* gum_muldiv: x * y / d over the two-word product p1, p0.                    *)
Powers == {t \in 1 .. Word : Word % t = 0}   \* of two, for Word is one

ASSUME PowersAssumption == \A d \in 1 .. Word - 1 : \E t \in Powers : d % t = 0 /\ (d \div t) % 2 = 1

LowestBit(d) == CHOOSE t \in Powers : d % t = 0 /\ (d \div t) % 2 = 1

FlipTwo(n) == IF n % 4 >= 2 THEN n - 2 ELSE n + 2   \* xor(n, 2)

(* A Newton step doubles the bits of n that are d's inverse.                  *)
Better(n, d) == Mul(n, Sub(2, Mul(d, n)))

OddInverse(d) ==
  Better(Better(Better(Better(Better(Better(FlipTwo(Mul(3, d)), d), d), d), d), d), d)

LongDivide(x, y, d, p1, p0) ==
  LET rem  == MulMod(x, y, d)
      high == Sub(p1, Flag(rem > p0))
      low  == Sub(p0, rem)
      twos == LowestBit(d)
      up   == Add(Div(Sub(0, twos), twos), 1)   \* Word / twos
  IN Mul(Add(Div(low, twos), Mul(high, up)), OddInverse(Div(d, twos)))   \* or, of disjoint bits

MulDiv(x, y, d) ==
  LET mm == MulMod(x, y, Word - 1)
      p0 == Mul(x, y)
      p1 == Sub(Sub(mm, p0), Flag(mm < p0))
  IN CASE p1 = 0 /\ d = 0  -> Panics("zero")
       [] p1 = 0 /\ d # 0  -> Yields(Div(p0, d))
       [] p1 # 0 /\ d <= p1 -> Panics("overflow")
       [] p1 # 0 /\ d > p1  -> Yields(LongDivide(x, y, d, p1, p0))

(* gum_wad_signed: muldiv of the magnitudes, and the sign put back.           *)
WithSign(a, b, mag) ==
  IF mag.panic # "none" THEN mag
  ELSE IF Negative(a) = Negative(b) THEN YieldsIf(mag.word <= Top - 1, mag.word)
  ELSE YieldsIf(mag.word <= Top, Sub(0, mag.word))

WadMul(a, b) == WithSign(a, b, MulDiv(Size(a), Size(b), Wad))
WadDiv(a, b) == WithSign(a, b, MulDiv(Size(a), Wad, Size(b)))
-----------------------------------------------------------------------------
(* translate_binary_op: the code of a statement's operator.                   *)
WordOf(o) == IF IsLiteral(o) THEN o.n ELSE word[o.at]

Signs(s) == Signed(TypeOf(Leader(s), typ))

(* const_fold: u128 arithmetic on two literals, when the result is a u128.     *)
Folded(s) ==
  CASE s.op = "+" -> s.l.n + s.r.n
    [] s.op = "-" -> s.l.n - s.r.n
    [] s.op = "*" -> s.l.n * s.r.n

Folds(s) ==
  /\ s.op \in {"+", "-", "*"} /\ IsLiteral(s.l) /\ IsLiteral(s.r)
  /\ s.l.n < FoldLimit /\ s.r.n < FoldLimit
  /\ Folded(s) \in 0 .. FoldLimit - 1

UnsignedOp(s, a, b, t) ==
  CASE s.op = "+" -> CheckedAdd(a, b, MaxWord(t))
    [] s.op = "-" -> CheckedSub(a, b)
    [] s.op = "*" -> CheckedMul(a, b, MaxWord(t))
    [] s.op = "/" -> NonZero(b, Div(a, b))
    [] s.op = "%" -> NonZero(b, Mod(a, b))

SignedOp(s, a, b, t) ==
  CASE s.op = "+" -> CheckedSAdd(a, b, MinWord(t), MaxWord(t))
    [] s.op = "-" -> IF t.size = Word THEN CheckedSSub(a, b)
                     ELSE CheckedSSubN(a, b, MinWord(t), MaxWord(t))
    [] s.op = "*" -> IF BothFixed(s, typ) THEN WadMul(a, b)
                     ELSE CheckedSMul(a, b, MinWord(t), MaxWord(t))
    [] s.op = "/" -> IF BothFixed(s, typ) THEN WadDiv(a, b) ELSE NonZero(b, SDiv(a, b))
    [] s.op = "%" -> NonZero(b, SMod(a, b))

Compared(s, a, b) ==
  CASE s.op = "<"  -> IF Signs(s) THEN Less(a, b) ELSE a < b
    [] s.op = "<=" -> IF Signs(s) THEN ~Less(b, a) ELSE a <= b
    [] s.op = "==" -> a = b

Evaluated(s) ==
  LET a == WordOf(s.l)
      b == WordOf(s.r)
      t == TypeOf(Leader(s), typ)
  IN CASE Folds(s)               -> Yields(Folded(s))
       [] ~Folds(s) /\ s.op \in ArithOps ->
            IF Signed(t) THEN SignedOp(s, a, b, t) ELSE UnsignedOp(s, a, b, t)
       [] s.op \in CompareOps    -> Yields(Flag(Compared(s, a, b)))
       [] s.op = "&&"            -> Yields(Flag(a = 1 /\ b = 1))   \* and, or of two bits
       [] s.op = "||"            -> Yields(Flag(a = 1 \/ b = 1))
       [] s.op = "not"           -> Yields(Flag(a = 0))
       [] s.op = "neg"           -> Yields(Sub(0, a))
       [] s.op = "saturate"      -> SatAdd(a, b)

(* mask_to_width: and of the low bits, or signextend of them.                 *)
Masked(w, t) ==
  LET low == w % t.size
  IN IF Signed(t) /\ low >= t.size \div 2 THEN low + (Word - t.size) ELSE low

-----------------------------------------------------------------------------
Decoded(w, t) == IF Signed(t) THEN AsInt(w) ELSE w

ValueOf(o) == Decoded(WordOf(o), TypeOf(o, typ))

(* Parameters are masked as they are decoded.                                *)
Init ==
  /\ typ \in [Locals -> Types]
  /\ word \in {w \in [Locals -> Words] : \A x \in Locals : w[x] = Masked(w[x], typ[x])}
  /\ stmt = NoStatement
  /\ panic = "none"

Fetch ==
  /\ stmt = NoStatement /\ panic = "none"
  /\ stmt' \in Statements
  /\ Runs(stmt', typ, ValueOf(stmt'.l), ValueOf(stmt'.r))
  /\ UNCHANGED <<typ, word, panic>>

(* VarDecl masks, Assignment does not.                                       *)
Store ==
  /\ stmt # NoStatement /\ Evaluated(stmt).panic = "none"
  /\ word' = [word EXCEPT !["x"] =
                IF stmt.how = "declare" THEN Masked(Evaluated(stmt).word, typ["x"])
                ELSE Evaluated(stmt).word]
  /\ stmt' = NoStatement
  /\ UNCHANGED <<typ, panic>>

Revert ==
  /\ stmt # NoStatement /\ Evaluated(stmt).panic # "none"
  /\ panic' = Evaluated(stmt).panic
  /\ stmt' = NoStatement
  /\ UNCHANGED <<typ, word>>

Next == Fetch \/ Store \/ Revert

Spec == Init /\ [][Next]_vars

-----------------------------------------------------------------------------
TypeOK ==
  /\ typ \in [Locals -> Types]
  /\ word \in [Locals -> Words]
  /\ stmt \in Statements \cup {NoStatement}
  /\ panic \in {"none", "zero", "overflow"}

(* SPEC.md 119-128: a local's word is a value of its type, so the next         *)
(* statement, a comparison or a store may take it as it is.                   *)
InRange == \A x \in Locals : Decoded(word[x], typ[x]) \in Values(typ[x])

(* SPEC.md 548-605: every statement yields the exact result, rounded toward    *)
(* zero and kept to the type, or panics; and the panic says why.              *)
Exact == INSTANCE ExactArithmetic WITH value <- [x \in Locals |-> Decoded(word[x], typ[x])]
ComputesExactly == Exact!Spec
=============================================================================
