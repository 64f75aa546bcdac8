--------------------------- MODULE MCMethodBodies ---------------------------
(***************************************************************************)
(* Bodies of one compound statement over single simple ones, with a simple    *)
(* statement before or after it, of one compound inside another, and of calls  *)
(* of the version f replaced and payments to a stored account.  g writes,      *)
(* calls out and may call f back.                                           *)
(***************************************************************************)
EXTENDS MethodBodies

Op(o)       == [op |-> o]
SetTo(v)    == [op |-> "set", to |-> v]
CallOf(m)   == [op |-> "call", to |-> m, as |-> "self"]
Super       == [op |-> "call", to |-> "g", as |-> "super"]
Qualified   == [op |-> "call", to |-> "g", as |-> "qualified"]
IfOf(c, a, b)  == [op |-> "if", cond |-> c, then |-> a, else |-> b]
WhileOf(c, a)  == [op |-> "while", cond |-> c, body |-> a]
ForOf(a)       == [op |-> "for", body |-> a]
MatchOf(a, b)  == [op |-> "match", arms |-> <<[variant |-> 0, body |-> a],
                                              [variant |-> 1, body |-> b]>>]
TryOf(a, b)    == [op |-> "try", body |-> a, catch |-> b]

Simple == {SetTo(0), SetTo(1), Op("read"), CallOf("g"), Op("return"), Op("revert")}
One(ss) == {<<s>> : s \in ss}

(* Compounds over blocks bs.  Where the else branch may be another block, the   *)
(* condition is one of conds.                                               *)
Compounds(bs, conds) ==
  {IfOf(c, a, <<>>) : c \in {"param", "field"}, a \in bs}
  \cup {IfOf(c, a, b) : c \in conds, a \in bs, b \in bs}
  \cup {WhileOf(c, a) : c \in {"param", "field"}, a \in bs}
  \cup {ForOf(a) : a \in bs}
  \cup {MatchOf(a, b) : a \in bs, b \in bs}
  \cup {TryOf(a, b) : a \in bs, b \in bs}

Around(cs, ss) == One(cs) \cup {<<c, s>> : c \in cs, s \in ss} \cup {<<s, c>> : s \in ss, c \in cs}

Flat == Around(Compounds(One(Simple), {"param"}), {SetTo(1), Op("return")})

(* A compound inside another.                                               *)
Inner == Compounds(One({SetTo(1), Op("external"), Op("return")}) \cup {<<SetTo(1), CallOf("g")>>},
                   {"param"})
Nested(c) == {IfOf("param", <<c>>, <<Op("return")>>), WhileOf("field", <<SetTo(0), c>>),
              MatchOf(<<Op("read")>>, <<c, Op("return")>>), TryOf(<<c>>, <<Op("read")>>),
              TryOf(<<Op("external")>>, <<c>>)}
Deep == Around(UNION {Nested(c) : c \in Inner}, {Op("return")})

(* f overrides g.                                                           *)
Above == {Super, Qualified, Op("pay")}
Overriding == Around(Compounds(One(Above \cup {Op("read")}), {"param"}),
                     {Super, SetTo(1), Op("external")})

(* Constructors, with const in place of the other statements.                 *)
ConstBlocks(ss) == One(ss \cup {Op("const")}) \cup {<<s, Op("const")>> : s \in ss}
Constructors(ss) == Around(Compounds(ConstBlocks(ss), {"param"}), {SetTo(1), Op("const")})

MCBodies   == Flat \cup Deep \cup Overriding \cup Constructors({SetTo(1), Op("revert")})
MCHelpers  == {<<Op("read")>>, <<SetTo(1), Op("return")>>, <<CallOf("f"), Op("external")>>}

OutHelpers == {<<SetTo(1), Op("return")>>, <<Op("external")>>}

ElseBodies == {<<SetTo(1), c>> : c \in Compounds(One(Simple), {"field"})}
CreateBodies == One(Compounds(One({Op("read"), Op("create")}), {"param"}))

SuperBodies == {<<Super>>, <<Op("read"), Super>>, <<SetTo(1), Super>>}
SelfBodies  == {<<CallOf("g")>>, <<SetTo(1), CallOf("g")>>}
PayBodies   == {<<Op("pay")>>}

(* Their blocks, and what is left of them after a statement.                   *)
Pieces == {<<>>} \cup One(Simple \cup Above \cup {Op("external"), Op("create"), Op("const")})
          \cup {<<SetTo(1), CallOf("g")>>} \cup ConstBlocks({SetTo(1), Op("revert")})
          \cup One(Inner) \cup {<<SetTo(0), c>> : c \in Inner} \cup {<<c, Op("return")>> : c \in Inner}

Everything == Pieces \cup MCHelpers \cup CreateBodies \cup ElseBodies
              \cup SuperBodies \cup SelfBodies \cup PayBodies
              \cup One(Compounds(One(Simple), {"field"})) \cup MCBodies
MCCode == Everything

(* No name mutability.rs knows; a helper called get; one called pay.             *)
Plain == [m \in Methods |-> "plain"]
GetsG == [Plain EXCEPT !["g"] = "get"]
PaysG == [Plain EXCEPT !["g"] = "pay"]

(* The theorems' hypotheses are met by the bodies of the passing run.             *)
ASSUME PassingBodies == Bodies = MCBodies => NoCreate /\ Ordered
=============================================================================
