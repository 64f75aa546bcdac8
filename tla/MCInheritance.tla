----------------------------- MODULE MCInheritance -----------------------------
(***************************************************************************)
(* Programs of four classes: chains and diamonds, with fields of one name;    *)
(* contracts, generic classes and interfaces among them; cycles and unknown     *)
(* parents; constructors.  Parents are declared before or after their children. *)
(***************************************************************************)
EXTENDS Inheritance

Shape(kinds, parents, fields, methods) ==
  [c \in Classes |-> [kind |-> kinds[c], parents |-> parents[c], fields |-> fields[c],
                      methods |-> methods[c]]]

AllPlain == [c \in Classes |-> "class"]
NoFields == [c \in Classes |-> <<>>]
NoMethods == [c \in Classes |-> <<>>]
F == [method |-> "f", sig |-> "s"]
G == [method |-> "f", sig |-> "t"]
Ctor == [method |-> "new", sig |-> "s"]

Upward(lists) == [A : {<<>>}, B : {<<>>, <<"A">>}, C : {<<>>, <<"A">>, <<"B">>, <<"A", "B">>, <<"B", "A">>},
                  D : lists]
OneOrTwo(S) == {<<>>} \cup {<<x>> : x \in S} \cup {<<x, y>> : x \in S, y \in S}

(* Every field is named after its class, but one name may be used twice.       *)
FieldNames ==
  {NoFields} \cup {[c \in Classes |-> IF c \in S THEN <<"x">> ELSE <<c>>] :
                     S \in {T \in SUBSET Classes : Cardinality(T) \in {0, 2}}}

Families ==
  {Shape(AllPlain, parents, NoFields, methods) :
     parents \in Upward(OneOrTwo({"A", "B", "C"})), methods \in [Classes -> {<<>>, <<F>>}]}

Records ==
  {Shape(AllPlain, parents, fields, NoMethods) :
     parents \in Upward(OneOrTwo({"A", "B", "C"})), fields \in FieldNames}

Mixed ==
  {Shape([A |-> a, B |-> b, C |-> "class", D |-> "contract"], parents, NoFields,
         [m EXCEPT !["A"] = <<F>>, !["D"] = <<>>]) :
     a \in Kinds, b \in {"class", "interface"}, parents \in Upward({<<"C">>, <<"A", "C">>}),
     m \in [Classes -> {<<>>, <<F>>, <<G>>}]}

Tangled ==
  {Shape(AllPlain, [parents EXCEPT !["D"] = <<>>], NoFields, methods) :
     parents \in [Classes -> {<<>>, <<"A">>, <<"B">>, <<"C">>, <<"nowhere">>, <<"B", "C">>, <<"C", "A">>}],
     methods \in [Classes -> {<<F>>}]}

Constructed ==
  {Shape(AllPlain, parents, NoFields, methods) :
     parents \in Upward({<<"C">>}), methods \in [Classes -> {<<>>, <<Ctor>>, <<F, Ctor>>}]}

MCClasses == {"A", "B", "C", "D"}
MCPrograms == Families \cup Records \cup Mixed \cup Tangled \cup Constructed
MCOrders == {<<"A", "B", "C", "D">>, <<"D", "C", "B", "A">>}
=============================================================================
