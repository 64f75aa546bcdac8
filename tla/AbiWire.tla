------------------------------ MODULE AbiWire -------------------------------
(***************************************************************************)
(* What crosses between contracts, as the ABI defines it: words, types and *)
(* values, the encoding of a tuple, and the reading of one by a decoder    *)
(* that looks at nothing outside the data.  The reference for AbiCodec.    *)
(***************************************************************************)
EXTENDS Naturals, Sequences, SequencesExt

CONSTANTS
  W,         \* bytes in a word
  Base,      \* values of a byte
  Variants   \* variants of the enum

Word == Base ^ W
Sum(s) == FoldLeft(LAMBDA a, b : a + b, 0, s)
Bytes(v, n) == [i \in 1..n |-> (v \div Base ^ (n - i)) % Base]
Number(bs) == FoldLeft(LAMBDA a, b : a * Base + b, 0, bs)
Zeros(n) == [i \in 1..n |-> 0]
Up(n) == W * ((n + W - 1) \div W)
SignExtended(w, v) == IF v >= Base ^ w \div 2 THEN v + Word - Base ^ w ELSE v

(* A type is [k, w] for a scalar of w bytes ("uint", "int", "bytes",       *)
(* "enum"), [k |-> "text"], [k, of] for "array", [k, of, n] for "fixed" or *)
(* [k, fields] for "struct".  A value is a word or a sequence of values.   *)

Parts(t, n) == IF t.k = "struct" THEN t.fields ELSE [i \in 1..n |-> t.of]

RECURSIVE Dynamic(_)
Dynamic(t) ==
  \/ t.k \in {"text", "array"}
  \/ t.k = "fixed" /\ Dynamic(t.of)
  \/ t.k = "struct" /\ \E i \in DOMAIN t.fields : Dynamic(t.fields[i])

RECURSIVE HeadSize(_)
HeadSize(t) ==
  IF Dynamic(t) \/ t.k \notin {"fixed", "struct"} THEN W
  ELSE LET ps == Parts(t, IF t.k = "fixed" THEN t.n ELSE 0) IN Sum([i \in DOMAIN ps |-> HeadSize(ps[i])])
HeadAt(ts, i) == Sum([j \in 1..(i - 1) |-> HeadSize(ts[j])])

\* A tuple is its heads and then its tails; the head of a dynamic part is the
\* offset of its tail from the start of the tuple.
RECURSIVE Enc(_, _)
EncTuple(ts, vs) ==
  LET e == [i \in DOMAIN ts |-> Enc(ts[i], vs[i])]
      tail(i) == HeadAt(ts, Len(ts) + 1)
                 + Sum([j \in 1..(i - 1) |-> IF Dynamic(ts[j]) THEN Len(e[j]) ELSE 0])
  IN FlattenSeq([i \in DOMAIN ts |-> IF Dynamic(ts[i]) THEN Bytes(tail(i), W) ELSE e[i]])
     \o FlattenSeq([i \in DOMAIN ts |-> IF Dynamic(ts[i]) THEN e[i] ELSE <<>>])
Enc(t, v) ==
  CASE t.k = "text"  -> Bytes(Len(v), W) \o v \o Zeros(Up(Len(v)) - Len(v))
    [] t.k = "array" -> Bytes(Len(v), W) \o EncTuple(Parts(t, Len(v)), v)
    [] t.k \in {"fixed", "struct"} -> EncTuple(Parts(t, Len(v)), v)
    [] t.k = "bytes" -> Bytes(v * Base ^ (W - t.w), W)
    [] OTHER         -> Bytes(v, W)

\* Reading: {v}, or {} when the data does not hold a value there.
At(bs, off) == Number(SubSeq(bs, off + 1, off + W))
Scalar(t, x) ==
  CASE t.k = "enum"  -> IF x < Variants THEN {x} ELSE {}
    [] t.k = "int"   -> {SignExtended(t.w, x % Base ^ t.w)}
    [] t.k = "bytes" -> {x \div Base ^ (W - t.w)}
    [] OTHER         -> {x % Base ^ t.w}

RECURSIVE Dec(_, _, _)
DecTuple(ts, bs, off) ==
  IF off + HeadAt(ts, Len(ts) + 1) > Len(bs) THEN {}
  ELSE LET at(i) == off + HeadAt(ts, i)
           read == [i \in DOMAIN ts |-> Dec(ts[i], bs, IF Dynamic(ts[i]) THEN off + At(bs, at(i)) ELSE at(i))]
       IN IF \E i \in DOMAIN ts : read[i] = {} THEN {}
          ELSE {[i \in DOMAIN ts |-> CHOOSE v \in read[i] : TRUE]}
Dec(t, bs, off) ==
  IF off + W > Len(bs) THEN {}
  ELSE LET n == At(bs, off)
       IN CASE t.k = "text"   -> IF off + W + n > Len(bs) THEN {} ELSE {SubSeq(bs, off + W + 1, off + W + n)}
            [] t.k = "array"  -> IF n > Len(bs) THEN {} ELSE DecTuple(Parts(t, n), bs, off + W)
            [] t.k = "fixed"  -> DecTuple(Parts(t, t.n), bs, off)
            [] t.k = "struct" -> DecTuple(t.fields, bs, off)
            [] OTHER          -> Scalar(t, n)
=============================================================================
