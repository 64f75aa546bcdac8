---------------------------- MODULE ExactArithmetic ----------------------------
(***************************************************************************)
(* What gum promises of its arithmetic (SPEC.md, "Arithmetic semantics"): a   *)
(* statement computes on whole numbers and yields the exact result of its      *)
(* type, or the method panics.  A declaration brings the value into the type   *)
(* of the local, as a conversion does.                                       *)
(***************************************************************************)
EXTENDS NumericTypes

VARIABLES
  typ,    \* types of the locals
  value,  \* their values
  stmt,   \* the statement that is next
  panic   \* why the method panicked

vars == <<typ, value, stmt, panic>>

Value(o) == IF IsLiteral(o) THEN o.n ELSE value[o.at]

(* Rounds toward zero; the remainder has the sign of the dividend.            *)
Quotient(a, b) ==
  LET q == (IF a < 0 THEN -a ELSE a) \div (IF b < 0 THEN -b ELSE b)
  IN IF (a < 0) = (b < 0) THEN q ELSE -q

Remainder(a, b) == a - b * Quotient(a, b)

Truth(b) == IF b THEN 1 ELSE 0

(* The number in type t that agrees with n modulo the type's size.            *)
Converted(n, t) == ((n - Low(t)) % t.size) + Low(t)

Exact(s) ==
  LET l == Value(s.l)
      r == Value(s.r)
      both == BothFixed(s, typ)
  IN CASE s.op = "+"  -> l + r
       [] s.op = "-"  -> l - r
       [] s.op = "*"  -> IF both THEN Quotient(l * r, Wad) ELSE l * r
       [] s.op = "/"  -> IF both THEN Quotient(l * Wad, r) ELSE Quotient(l, r)
       [] s.op = "%"  -> Remainder(l, r)
       [] s.op = "<"  -> Truth(l < r)
       [] s.op = "<=" -> Truth(l <= r)
       [] s.op = "==" -> Truth(l = r)
       [] s.op = "&&" -> Truth(l = 1 /\ r = 1)
       [] s.op = "||" -> Truth(l = 1 \/ r = 1)
       [] s.op = "not" -> Truth(l = 0)
       [] s.op = "neg" -> -l
       [] s.op = "saturate" ->
            IF l + r > High(ResultType(s, typ)) THEN High(ResultType(s, typ)) ELSE l + r

DividesByZero(s) == s.op \in {"/", "%"} /\ Value(s.r) = 0

Init ==
  /\ typ \in [Locals -> Types]
  /\ value \in {v \in [Locals -> Int] : \A x \in Locals : v[x] \in Values(typ[x])}
  /\ stmt = NoStatement
  /\ panic = "none"

Fetch ==
  /\ stmt = NoStatement /\ panic = "none"
  /\ stmt' \in Statements
  /\ Runs(stmt', typ, Value(stmt'.l), Value(stmt'.r))
  /\ UNCHANGED <<typ, value, panic>>

Compute ==
  /\ ~DividesByZero(stmt)
  /\ Exact(stmt) \in Values(ResultType(stmt, typ))
  /\ value' = [value EXCEPT !["x"] =
                 IF stmt.how = "declare" THEN Converted(Exact(stmt), typ["x"]) ELSE Exact(stmt)]
  /\ stmt' = NoStatement
  /\ UNCHANGED <<typ, panic>>

(* A fixed-point division by zero may go by the name of an overflow.          *)
Panic ==
  /\ \/ DividesByZero(stmt) /\ panic' = "zero"
     \/ DividesByZero(stmt) /\ BothFixed(stmt, typ) /\ stmt.op = "/" /\ panic' = "overflow"
     \/ /\ ~DividesByZero(stmt)
        /\ Exact(stmt) \notin Values(ResultType(stmt, typ))
        /\ panic' = "overflow"
  /\ stmt' = NoStatement
  /\ UNCHANGED <<typ, value>>

Next == Fetch \/ (stmt # NoStatement /\ (Compute \/ Panic))

Spec == Init /\ [][Next]_vars
=============================================================================
