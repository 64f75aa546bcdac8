---------------------------- MODULE MCAbiCodec -----------------------------
(***************************************************************************)
(* Crossings for TLC: words of two bytes of 32 values, an enum of two      *)
(* variants, and every shape of type the codec has a helper for, by every  *)
(* route.                                                                  *)
(***************************************************************************)
EXTENDS AbiCodec

Wide == [k |-> "uint", w |-> 2]
Narrow == [k |-> "uint", w |-> 1]
Signed1 == [k |-> "int", w |-> 1]
Flag == [k |-> "enum", w |-> 1]
Text == [k |-> "text"]
Bytes1 == [k |-> "bytes", w |-> 1]
Arr(t) == [k |-> "array", of |-> t]
Fix(t, n) == [k |-> "fixed", of |-> t, n |-> n]
Struct(fs) == [k |-> "struct", fields |-> fs]

Point == Struct(<<Narrow, Wide, Flag>>)      \* packed as Wide, Narrow, Flag
Note == Struct(<<Narrow, Text, Flag, Arr(Narrow)>>)

One(t, v) == [types |-> <<t>>, values |-> <<v>>]
Two(t, v, u, x) == [types |-> <<t, u>>, values |-> <<v, x>>]

Pieces1 ==
  {One(Narrow, 7), One(Wide, 1000), One(Signed1, Base ^ 2 - 3), One(Flag, 1),
   One(Text, <<1, 2, 3>>), One(Text, <<>>),
   One(Arr(Narrow), <<4, 5, 6>>), One(Arr(Wide), <<>>), One(Arr(Flag), <<1, 0>>),
   One(Fix(Narrow, 3), <<4, 5, 6>>), One(Fix(Flag, 2), <<0, 1>>),
   One(Arr(Text), <<<<1>>, <<2, 3>>>>), One(Fix(Text, 2), <<<<9>>, <<>>>>),
   One(Arr(Arr(Narrow)), <<<<1, 2>>, <<3>>>>), One(Arr(Arr(Text)), <<<<<<1>>>>, <<>>>>),
   One(Arr(Arr(Point)), <<<<<<5, 900, 1>>>>, <<>>>>), One(Fix(Arr(Wide), 2), <<<<700>>, <<>>>>),
   One(Arr(Fix(Narrow, 2)), <<<<1, 2>>, <<3, 4>>>>),
   One(Point, <<5, 900, 1>>), One(Arr(Point), <<<<5, 900, 1>>, <<6, 8, 0>>>>),
   One(Fix(Point, 2), <<<<5, 900, 1>>, <<6, 8, 0>>>>),
   One(Note, <<5, <<1>>, 1, <<8, 9>>>>)}
Pairs ==
  {Two(Text, <<1>>, Wide, 600), Two(Point, <<5, 900, 1>>, Text, <<7>>),
   Two(Arr(Narrow), <<4, 5>>, Note, <<5, <<1>>, 1, <<8>>>>), Two(Fix(Narrow, 2), <<4, 5>>, Narrow, 7)}
Rejected == {One(Struct(<<Point, Text>>), <<<<5, 900, 1>>, <<1>>>>), One(Arr(Note), <<>>)}

By(route, cs) == {[route |-> route, types |-> c.types, values |-> c.values] : c \in cs}
MCCrossings == By("call", Pieces1 \cup Pairs \cup Rejected) \cup By("deploy", Pieces1 \cup Pairs)
               \cup By("return", Pieces1 \cup Rejected) \cup By("locals", Pieces1 \cup Pairs)

\* Locals that a try may assign and no signature could carry.
MCLocals == By("locals", {One(Bytes1, 9), Two(Bytes1, 9, Wide, 600),
                          One(Struct(<<Point, Text>>), <<<<5, 900, 1>>, <<1>>>>)}
                         \cup Pieces1)
MCAltered == {0, 1, 2, 3, 4, 6, 31, 33, 511, 1022, 1023}
=============================================================================
