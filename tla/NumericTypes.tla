------------------------------ MODULE NumericTypes ------------------------------
(***************************************************************************)
(* gum's number types and the statements over them that the type checker     *)
(* accepts (semantic/mod.rs).  Two widths stand for the six of each kind.     *)
(* The statements are x = l op r and its relatives: l and r are the locals    *)
(* x and y or a literal.                                                   *)
(***************************************************************************)
EXTENDS Integers

CONSTANTS
  Word,      \* values of a machine word, 2^256 in the EVM
  Narrow,    \* values of the types narrower than a word
  Wad,       \* the fixed-point 1.0
  Literals,  \* number literals in the program
  Careless   \* what its statements do that the emitted code does not check

ASSUME WidthAssumption ==
  /\ Word \in Nat /\ Narrow \in Nat /\ 2 <= Narrow /\ Narrow < Word
  /\ Word % 2 = 0 /\ Narrow % 2 = 0

ASSUME LiteralAssumption == Literals \subseteq 0 .. Word - 1 /\ Wad \in 1 .. Word - 1

ASSUME CarelessAssumption == Careless \subseteq {"mix", "literal", "narrow", "saturate", "divide"}

Uint(n) == [kind |-> "uint", size |-> n]
Sint(n) == [kind |-> "int", size |-> n]
Fixed   == [kind |-> "fixed", size |-> Word]   \* f32 and f64
Bool    == [kind |-> "bool", size |-> 2]

Integral == {Uint(Narrow), Uint(Word), Sint(Narrow), Sint(Word)}
Numeric  == Integral \cup {Fixed}
Types    == Numeric \cup {Bool}

Signed(t) == t.kind \in {"int", "fixed"}
Low(t)    == IF Signed(t) THEN -(t.size \div 2) ELSE 0
High(t)   == IF Signed(t) THEN t.size \div 2 - 1 ELSE t.size - 1
Values(t) == Low(t) .. High(t)

(* An expression of type u may be stored in a t.  A literal is a u256.        *)
Assignable(t, u) ==
  \/ t = u
  \/ t.kind = u.kind /\ t.kind \in {"uint", "int"}
  \/ {t, u} = {Uint(Word), Fixed}

-----------------------------------------------------------------------------
Locals     == {"x", "y"}
ArithOps   == {"+", "-", "*", "/", "%"}
CompareOps == {"<", "<=", "=="}
LogicOps   == {"&&", "||"}
UnaryOps   == {"neg", "not"}   \* of l
Ops        == ArithOps \cup CompareOps \cup LogicOps \cup UnaryOps \cup {"saturate"}

Operands == [at : Locals, n : {0}] \cup [at : {"literal"}, n : Literals]
IsLiteral(o) == o.at = "literal"

(* how: x = e, or the declaration T x = e.  saturate is (l + r).saturate().   *)
Statements ==
  {s \in [op : Ops, l : Operands, r : Operands, how : {"assign", "declare"}] :
     s.op \in UnaryOps => s.r = s.l}
NoStatement == [op |-> "none"]

TypeOf(o, typ) == IF IsLiteral(o) THEN Uint(Word) ELSE typ[o.at]

(* The operand whose type the operator is compiled for.                      *)
Leader(s) == IF IsLiteral(s.l) /\ ~IsLiteral(s.r) THEN s.r ELSE s.l

BothFixed(s, typ) == TypeOf(s.l, typ) = Fixed /\ TypeOf(s.r, typ) = Fixed

ResultType(s, typ) ==
  CASE s.op \in CompareOps \cup LogicOps \cup {"not"} -> Bool
    [] s.op = "neg" -> IF TypeOf(s.l, typ) \in Integral THEN Sint(Word) ELSE TypeOf(s.l, typ)
    [] OTHER -> TypeOf(Leader(s), typ)

OperandsFit(s, typ) ==
  LET l == TypeOf(s.l, typ)
      r == TypeOf(s.r, typ)
  IN CASE s.op \in ArithOps   -> l \in Numeric /\ r \in Numeric
       [] s.op \in CompareOps -> Assignable(l, r) \/ Assignable(r, l)
       [] s.op \in LogicOps   -> l = Bool /\ r = Bool
       [] s.op = "saturate"   -> l \in Integral /\ r \in Integral
       [] s.op = "not"        -> l = Bool
       [] s.op = "neg"        -> TRUE

(* Statements that are accepted and compiled to code that may miss the mark.   *)
(* check_fixed_point_math: its verdict is dropped, except on what is returned. *)
ScalesAgree(s, typ) ==
  (TypeOf(s.l, typ) = Fixed) # (TypeOf(s.r, typ) = Fixed) => IsLiteral(s.l) \/ IsLiteral(s.r)

(* Mixes: a signed operand meets an unsigned one, a fixed-point value an       *)
(* integer, or a value changes its kind.                                     *)
Mixes(s, typ) ==
  LET Sign(o)  == Signed(TypeOf(o, typ))
      Small(o) == IsLiteral(o) /\ o.n <= High(Sint(Word))
  IN \/ Sign(s.l) # Sign(s.r) /\ ~Small(s.l) /\ ~Small(s.r)
     \/ s.op \in ArithOps /\ ~ScalesAgree(s, typ)
     \/ s.op = "neg" /\ TypeOf(s.l, typ) \in {Uint(Word), Bool} /\ ~Small(s.l)
     \/ {ResultType(s, typ), typ["x"]} = {Uint(Word), Fixed}

(* A literal on the left takes the right operand's type, fit or not.          *)
OutgrowsType(s, typ) ==
  /\ s.op \in {"-", "/"}
  /\ Leader(s) # s.l
  /\ s.l.n > High(TypeOf(s.r, typ))

Narrows(s, typ) == s.how = "assign" /\ ResultType(s, typ).size > typ["x"].size

SaturatesPart(s, typ) == s.op = "saturate" /\ ResultType(s, typ) # Uint(Word)

Accepted(s, typ) ==
  /\ OperandsFit(s, typ)
  /\ Assignable(typ["x"], ResultType(s, typ))
  /\ "mix" \in Careless \/ ~Mixes(s, typ)
  /\ "literal" \in Careless \/ ~OutgrowsType(s, typ)
  /\ "narrow" \in Careless \/ ~Narrows(s, typ)
  /\ "saturate" \in Careless \/ ~SaturatesPart(s, typ)

(* MIN / -1 and -MIN, for operands that are l and r.                         *)
DividesLow(s, typ, l, r) ==
  \/ s.op = "/" /\ ~BothFixed(s, typ) /\ l < 0 /\ l = Low(TypeOf(s.l, typ)) /\ r = -1
  \/ s.op = "neg" /\ l = Low(Sint(Word))

Runs(s, typ, l, r) == Accepted(s, typ) /\ ("divide" \in Careless \/ ~DividesLow(s, typ, l, r))
=============================================================================
