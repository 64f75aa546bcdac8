------------------------------ MODULE AbiCodec ------------------------------
(***************************************************************************)
(* The ABI codec of gumc: the helpers the compiler emits to carry values   *)
(* between the memory of one contract and the data another one receives.   *)
(* The wire has the head/tail form of Solidity; the memory of gum packs    *)
(* the elements of an array and the fields of a struct, the widest first.  *)
(*                                                                         *)
(* A behaviour is one crossing: the types are checked, the sender encodes  *)
(* its arguments, the data may arrive cut short or altered (any program    *)
(* may be the other end), and the receiver decodes or reverts.  A word has *)
(* W bytes of Base values (32 of 256 in the EVM).                          *)
(***************************************************************************)
EXTENDS AbiWire

CONSTANTS
  MemoryTop,  \* memory a call can pay for, in bytes
  Selector,   \* bytes of a selector
  Crossings,  \* the records [route, types, values] to carry
  Altered     \* what a word of the data may be changed to

ASSUME WordAssumption ==
  /\ W \in Nat \ {0, 1}
  /\ Base \in Nat \ {0, 1}
  /\ MemoryTop \in Nat
  /\ MemoryTop < Base ^ W
ASSUME CrossingAssumption ==
  \A c \in Crossings : /\ c.route \in {"call", "deploy", "return", "locals"}
                       /\ Len(c.types) = Len(c.values)
ASSUME AlteredAssumption == Altered \subseteq 0..(Base ^ W - 1)

VARIABLES
  crossing,   \* what is carried, and by which route
  dirty,      \* the sender's memory above its free pointer holds old data
  phase,      \* "declared", "checked", "encoded", "altered", "sent", "done" or "refused"
  data,       \* the bytes on their way
  outcome     \* what the receiver holds: [ok, values]
vars == <<crossing, dirty, phase, data, outcome>>

Plus(a, b) == (a + b) % Word

---------------------------------------------------------------------------
(* Types: what may cross, and what the compiler has a helper for.         *)

IsScalar(t) == t.k \in {"uint", "int", "bytes", "enum"}
IsStruct(t) == t.k = "struct"
IsArray(t) == t.k \in {"array", "fixed"}

RECURSIVE AbiIsDynamic(_)
AbiIsDynamic(t) ==
  \/ t.k \in {"text", "array"}
  \/ t.k = "fixed" /\ AbiIsDynamic(t.of)
  \/ t.k = "struct" /\ \E i \in DOMAIN t.fields : AbiIsDynamic(t.fields[i])

\* Bytes a value takes in gum memory; a bytesN is held in a whole word, and a
\* fixed array that is a field starts and ends on one.
RECURSIVE SizeOf(_)
FieldWidth(t) == IF t.k = "fixed" THEN Up(SizeOf(t)) ELSE SizeOf(t)
SizeOf(t) ==
  CASE t.k \in {"uint", "int", "enum"} -> t.w
    [] t.k = "fixed"                   -> t.n * SizeOf(t.of)
    [] t.k = "struct"                  -> Sum([i \in DOMAIN t.fields |-> FieldWidth(t.fields[i])])
    [] OTHER                           -> W

\* The packer puts the widest field first, equals in the order declared.
MemoryField(t, i) ==
  LET w(j) == FieldWidth(t.fields[j])
      before == {j \in DOMAIN t.fields : w(j) > w(i) \/ (w(j) = w(i) /\ j < i)}
  IN Sum([j \in DOMAIN t.fields |-> IF j \in before THEN w(j) ELSE 0])

\* The checker's rules on what may cross.
RECURSIVE AbiElemOk(_)
AbiElemOk(t) ==
  \/ t.k \in {"uint", "int", "enum", "text"}
  \/ IsArray(t) /\ AbiElemOk(t.of)
  \/ /\ IsStruct(t)
     /\ \A i \in DOMAIN t.fields : t.fields[i].k \in {"uint", "int", "enum"}

AbiDynStructOk(t) ==
  LET f == t.fields
      carries(i) == f[i].k = "text" \/ (IsArray(f[i]) /\ AbiElemOk(f[i].of))
  IN /\ \A i \in DOMAIN f : carries(i) \/ f[i].k \in {"uint", "int", "enum"}
     /\ \E i \in DOMAIN f : carries(i)

Accepted(t) ==
  /\ IsStruct(t) => AbiElemOk(t) \/ AbiDynStructOk(t)
  /\ IsArray(t) => AbiElemOk(t.of)

\* The types the compiler finds a helper for; the others fall through to the
\* code for scalars.
StaticStruct(t) == IsStruct(t) /\ \A i \in DOMAIN t.fields : IsScalar(t.fields[i])

RECURSIVE HasCodec(_)
HasCodec(t) ==
  \/ t.k = "text"
  \/ t.k = "array" /\ (StaticStruct(t.of) \/ IsScalar(t.of) \/ HasCodec(t.of))
  \/ t.k = "fixed" /\ IF AbiIsDynamic(t.of) THEN HasCodec(t.of)
                      ELSE StaticStruct(t.of) \/ IsScalar(t.of)

StructCodec(t) ==
  /\ IsStruct(t)
  /\ \A i \in DOMAIN t.fields :
       IsScalar(t.fields[i]) \/ (AbiIsDynamic(t.fields[i]) /\ HasCodec(t.fields[i]))

Carried(t) == HasCodec(t) \/ StructCodec(t)

RECURSIVE AbiHeadBytes(_)
AbiHeadBytes(t) ==
  CASE AbiIsDynamic(t)  -> W
    [] t.k = "fixed"    -> t.n * AbiHeadBytes(t.of)
    [] StaticStruct(t)  -> W * Len(t.fields)
    [] OTHER            -> W

\* Where the heads of a sequence of types start, and their total.
HeadsBefore(ts, i) == Sum([j \in 1..(i - 1) |-> AbiHeadBytes(ts[j])])
Heads(ts) == HeadsBefore(ts, Len(ts) + 1)

---------------------------------------------------------------------------
(* Memory: bytes 1..MemoryTop, the free pointer and whether all was paid.  *)

Fresh(old) ==
  [bytes |-> [a \in 1..MemoryTop |-> IF old THEN Base - 1 ELSE 0], free |-> 1, paid |-> TRUE]
RECURSIVE Write(_, _, _)
Write(m, a, bs) ==
  IF bs = <<>> THEN m ELSE Write([m EXCEPT !.bytes[a] = Head(bs)], a + 1, Tail(bs))
Store(m, a, v) == Write(m, a, Bytes(v, W))
Part(m, a, n) == [i \in 1..n |-> IF a + i - 1 \in 1..MemoryTop THEN m.bytes[a + i - 1] ELSE 0]
Load(m, a) == Number(Part(m, a, W))
Revert(m) == [m EXCEPT !.paid = FALSE]
Allocate(m, n) == IF m.free + n > MemoryTop - W THEN Revert(m) ELSE [m EXCEPT !.free = @ + n]
\* A text's length sits in the high bytes of its first word.
TextHeader(n) == n * Base ^ (W - 1)
TextLen(m, p) == Load(m, p) \div Base ^ (W - 1)
Signed(t, v) == IF t.k = "int" THEN SignExtended(t.w, v) ELSE v

---------------------------------------------------------------------------
(* Values in memory, as stores to their fields and elements leave them.  A *)
(* variable holds a scalar itself, and the address of anything else.       *)
(* Inside an array or a struct a text or an array is an address, and what  *)
(* has a fixed size is inline.                                             *)

Fields(t, p) == [i \in DOMAIN t.fields |-> [t |-> t.fields[i], a |-> p + MemoryField(t, i)]]
Elements(t, n, p, stride) == [i \in 1..n |-> [t |-> t, a |-> p + (i - 1) * stride]]
Pieces(t, n, p) == IF IsStruct(t) THEN Fields(t, p) ELSE Elements(t.of, n, p, SizeOf(t.of))
Inline(t) == t.k \in {"fixed", "struct"}

RECURSIVE Built(_, _, _)
RECURSIVE BuiltIn(_, _, _, _)
Built(t, v, m) ==        \* the memory with the value at m.free
  LET p == m.free IN
  CASE t.k = "text"  -> Write(Store(Allocate(m, W + Len(v)), p, TextHeader(Len(v))), p + W, v)
    [] t.k = "array" -> LET n == Len(v) * SizeOf(t.of)
                        IN BuiltIn(Pieces(t, Len(v), p + W), v, 1, Store(Allocate(m, W + n), p, n))
    [] OTHER         -> BuiltIn(Pieces(t, Len(v), p), v, 1, Allocate(m, SizeOf(t)))
BuiltIn(pieces, v, i, m) ==
  IF i > Len(pieces) THEN m
  ELSE LET s == pieces[i]
       IN BuiltIn(pieces, v, i + 1,
            CASE IsScalar(s.t) -> Write(m, s.a, Bytes(v[i], SizeOf(s.t)))
              [] Inline(s.t)   -> BuiltIn(Pieces(s.t, Len(v[i]), s.a), v[i], 1, m)
              [] OTHER         -> Store(Built(s.t, v[i], m), s.a, m.free))

\* The value a variable holds, read as the language reads it.
RECURSIVE Held(_, _, _)
Held(t, x, m) ==
  LET in(s) == IF IsScalar(s.t) THEN Signed(s.t, Number(Part(m, s.a, SizeOf(s.t))))
               ELSE Held(s.t, IF Inline(s.t) THEN s.a ELSE Load(m, s.a), m)
      all(pieces) == [i \in DOMAIN pieces |-> in(pieces[i])]
  IN CASE IsScalar(t)   -> x
       [] t.k = "text"  -> Part(m, x + W, TextLen(m, x))
       [] t.k = "array" -> all(Pieces(t, Load(m, x) \div SizeOf(t.of), x + W))
       [] OTHER         -> all(Pieces(t, IF IsStruct(t) THEN 0 ELSE t.n, x))

---------------------------------------------------------------------------
(* Encoding.  The codec takes every dynamic part for an address.  Put      *)
(* writes the wire form of what is at address p to address dst and says    *)
(* how many bytes it took; Size says it beforehand.                        *)

Stride(t) == IF AbiIsDynamic(t) THEN W ELSE SizeOf(t)
Slots(t, n, p) == IF IsStruct(t) THEN Fields(t, p) ELSE Elements(t.of, n, p, Stride(t.of))
WireHeads(t, n) == IF IsStruct(t) THEN Heads(t.fields) ELSE n * AbiHeadBytes(t.of)
Count(t, p, m) == IF t.k = "fixed" THEN t.n ELSE Load(m, p) \div Stride(t.of)

\* Slip: the last word of a text copied unmasked.
PutTextWhole(dst, p, m) ==
  LET n == TextLen(m, p)
  IN [took |-> W + Up(n), m |-> Write(Store(m, dst, n), dst + W, Part(m, p + W, Up(n)))]

\* A text is copied a word at a time, the last one masked.
PutText(dst, p, m) ==
  LET n == TextLen(m, p)
  IN [took |-> W + Up(n), m |-> Write(Store(m, dst, n), dst + W, Part(m, p + W, n) \o Zeros(Up(n) - n))]

RECURSIVE Put(_, _, _, _)
RECURSIVE PutIn(_, _, _, _, _, _)
Put(t, dst, p, m) ==
  CASE t.k = "text"  -> PutText(dst, p, m)
    [] t.k = "array" -> LET n == Count(t, p, m)
                            r == PutIn(Slots(t, n, p + W), 1, dst + W, 0, WireHeads(t, n), Store(m, dst, n))
                        IN [took |-> W + r.took, m |-> r.m]
    [] OTHER         -> LET n == IF IsStruct(t) THEN 0 ELSE t.n
                        IN PutIn(Slots(t, n, p), 1, dst, 0, WireHeads(t, n), m)
PutIn(slots, i, base, head, cur, m) ==     \* offsets count from base
  IF i > Len(slots) THEN [took |-> cur, m |-> m]
  ELSE LET s == slots[i]
           h == head + AbiHeadBytes(s.t)
           tail == Put(s.t, base + cur, Load(m, s.a), Store(m, base + head, cur))
       IN CASE IsScalar(s.t) ->
                 PutIn(slots, i + 1, base, h, cur, Store(m, base + head, Number(Part(m, s.a, SizeOf(s.t)))))
            [] AbiIsDynamic(s.t) -> PutIn(slots, i + 1, base, h, cur + tail.took, tail.m)
            [] OTHER -> PutIn(slots, i + 1, base, h, cur, Put(s.t, base + head, s.a, m).m)

RECURSIVE Size(_, _, _)
Size(t, p, m) ==
  LET n == IF IsStruct(t) THEN 0 ELSE Count(t, p, m)
      slots == Slots(t, n, IF t.k = "array" THEN p + W ELSE p)
      tails == [i \in DOMAIN slots |->
                  IF AbiIsDynamic(slots[i].t) THEN Size(slots[i].t, Load(m, slots[i].a), m) ELSE 0]
  IN IF t.k = "text" THEN W + Up(TextLen(m, p))
     ELSE (IF t.k = "array" THEN W ELSE 0) + WireHeads(t, n) + Sum(tails)

\* A text argument, or a text returned, is copied as it is: the bytes between
\* its end and the next word are not written.
PutRaw(dst, p, m) ==
  LET n == TextLen(m, p)
  IN [took |-> W + Up(n), m |-> Write(Store(m, dst, n), dst + W, Part(m, p + W, n))]

ArgTail(t, dst, p, m) == IF t.k = "text" THEN PutRaw(dst, p, m) ELSE Put(t, dst, p, m)

\* abi_arg_blob_src: the heads of all arguments, then the tails in order.
RECURSIVE BlobFrom(_, _, _, _, _, _)
BlobFrom(ts, xs, i, blob, tail, m) ==
  IF i > Len(ts) THEN m
  ELSE LET at == blob + HeadsBefore(ts, i)
           r == ArgTail(ts[i], blob + tail, xs[i], Store(m, at, tail))
       IN IF AbiIsDynamic(ts[i]) /\ Carried(ts[i]) THEN BlobFrom(ts, xs, i + 1, blob, tail + r.took, r.m)
          ELSE BlobFrom(ts, xs, i + 1, blob, tail,
                        IF Carried(ts[i]) THEN Put(ts[i], at, xs[i], m).m ELSE Store(m, at, xs[i]))

BlobSize(ts, xs, m) ==
  Heads(ts) + Sum([i \in DOMAIN ts |-> IF AbiIsDynamic(ts[i]) /\ Carried(ts[i]) THEN Size(ts[i], xs[i], m) ELSE 0])

ArgBlob(ts, xs, m) ==
  LET n == BlobSize(ts, xs, m)
  IN Part(BlobFrom(ts, xs, 1, m.free, Heads(ts), Allocate(m, n)), m.free, n)

\* What an entry point hands back: one value.
Aligned(t, x) == IF t.k = "bytes" THEN x * Base ^ (W - t.w) ELSE x
Masked(t, x) == IF t.k \in {"uint", "int"} THEN Signed(t, x % Base ^ t.w) ELSE x

Returned(t, x, m) ==
  LET out == m.free
      sz == IF AbiIsDynamic(t) THEN Size(t, x, m) ELSE AbiHeadBytes(t)
      room == Allocate(m, W + sz)
  IN IF ~Carried(t) THEN Bytes(Aligned(t, Masked(t, x)), W)
     ELSE IF AbiIsDynamic(t) THEN Part(ArgTail(t, out + W, x, Store(room, out, W)).m, out, W + sz)
     ELSE Part(Put(t, out, x, room).m, out, sz)

---------------------------------------------------------------------------
(* Decoding.  d is what arrived: its bytes and its limit.  Beyond it       *)
(* calldata reads as zeros; a buffer in memory has other memory around it. *)

ByteAt(d, p) ==
  IF d.inMemory THEN LET q == p % Word IN IF q < Len(d.bytes) THEN d.bytes[q + 1] ELSE Base - 1
  ELSE IF p < Len(d.bytes) THEN d.bytes[p + 1] ELSE 0
Slice(d, p, n) == [i \in 1..n |-> ByteAt(d, p + i - 1)]
WordAt(d, p) == Number(Slice(d, p, W))
Limit(d) == Len(d.bytes)

\* No gas pays for a text too long for its header.
CopyText(d, from, n, m) ==
  LET room == Allocate(m, W + n)
  IN IF n >= Base \/ ~room.paid THEN Revert(m)
     ELSE Write(Store(room, m.free, TextHeader(n)), m.free + W, Slice(d, from, n))

\* Slip: the length tested without the word that holds it.
DecodeTextLong(d, off, m) ==
  LET n == WordAt(d, off)
  IN IF Plus(off, W) > Limit(d) \/ Plus(off, n) > Limit(d) THEN Revert(m)
     ELSE CopyText(d, Plus(off, W), n, m)

DecodeText(d, off, m) ==
  LET n == WordAt(d, off)
  IN IF Plus(off, W) > Limit(d) \/ Plus(Plus(off, W), n) > Limit(d) THEN Revert(m)
     ELSE CopyText(d, Plus(off, W), n, m)

\* The enums of a struct are tested on every route, those of an array only in
\* calldata.
TestsEnum(t, d) == IsStruct(t) \/ ~d.inMemory

\* The parts of an array start after its length, and their offsets count from
\* there.  An array may claim no more elements than there are heads for.
\* Slip: the offsets of an array counted from its length.
BodyAtLength(t, off) == off
Body(t, off) == IF t.k = "array" THEN Plus(off, W) ELSE off
Fits(t, n, d, off) ==
  IF t.k = "array" THEN /\ Body(t, off) <= Limit(d)
                        /\ n <= (Limit(d) - Body(t, off)) \div AbiHeadBytes(t.of)
  ELSE Plus(off, WireHeads(t, n)) <= Limit(d)

\* Room for the decoded value, a row of scalars rounded up to words.
Room(t, n, m) ==
  LET row == IF IsScalar(t.of) THEN Up(n * SizeOf(t.of)) ELSE n * Stride(t.of)
  IN CASE t.k = "array" -> Store(Allocate(m, W + row), m.free, n * Stride(t.of))
       [] t.k = "fixed" -> Allocate(m, row)
       [] OTHER         -> Allocate(m, SizeOf(t))

RECURSIVE Decode(_, _, _, _)
RECURSIVE DecodeIn(_, _, _, _, _, _, _)
Decode(t, d, off, m) ==      \* memory afterwards; the value is at m.free
  LET n == CASE t.k = "array" -> WordAt(d, off) [] t.k = "fixed" -> t.n [] OTHER -> 0
      to == IF t.k = "array" THEN m.free + W ELSE m.free
  IN IF t.k = "text" THEN DecodeText(d, off, m)
     ELSE IF ~Fits(t, n, d, off) \/ ~Room(t, n, m).paid THEN Revert(m)
     ELSE DecodeIn(Slots(t, n, to), 1, d, Body(t, off), 0, TestsEnum(t, d), Room(t, n, m))
DecodeIn(slots, i, d, base, head, tests, m) ==
  IF i > Len(slots) \/ ~m.paid THEN m
  ELSE LET s == slots[i]
           at == Plus(base, head)
           x == WordAt(d, at)
           r == Decode(s.t, d, IF AbiIsDynamic(s.t) THEN Plus(base, x) ELSE at, m)
       IN DecodeIn(slots, i + 1, d, base, head + AbiHeadBytes(s.t), tests,
            CASE IsScalar(s.t) ->
                   IF s.t.k = "enum" /\ tests /\ x >= Variants THEN Revert(m)
                   ELSE Write(m, s.a, Bytes(x % Base ^ SizeOf(s.t), SizeOf(s.t)))
              [] AbiIsDynamic(s.t) -> IF x > Limit(d) THEN Revert(m) ELSE Store(r, s.a, m.free)
              [] OTHER -> Write(r, s.a, Part(r, m.free, SizeOf(s.t))))

\* One argument: what its variable holds and the memory afterwards.
Fetched(route, t, d, start, at, m) ==
  LET x == WordAt(d, at)
      shifted == IF t.k = "bytes" THEN x \div Base ^ (W - t.w) ELSE Masked(t, x)
      ptr(after) == [x |-> m.free, m |-> after]
  IN CASE t.k = "text" /\ route = "call" ->     \* the head and the length are taken as they come
            LET from == Plus(start, x) IN ptr(CopyText(d, Plus(from, W), WordAt(d, from), m))
       [] Carried(t) -> ptr(Decode(t, d, IF AbiIsDynamic(t) THEN Plus(start, x) ELSE at, m))
       [] t.k = "enum" /\ route \in {"call", "deploy"} -> [x |-> x, m |-> IF x < Variants THEN m ELSE Revert(m)]
       [] IsScalar(t) /\ route = "return" -> [x |-> x, m |-> m]
       [] IsScalar(t) -> [x |-> shifted, m |-> m]
       [] SizeOf(t) <= W \/ route \in {"return", "locals"} -> [x |-> x, m |-> m]
       [] OTHER -> ptr(Write(Allocate(m, SizeOf(t)), m.free, Slice(d, at, SizeOf(t))))

\* What is left when the frame reverts.
Refused == [ok |-> FALSE, values |-> <<>>]

\* The bytes an argument moves the next one's head by.
Consumed(t, route) == IF Carried(t) \/ SizeOf(t) <= W \/ route \in {"return", "locals"}
                      THEN AbiHeadBytes(t) ELSE SizeOf(t)

RECURSIVE FetchFrom(_, _, _, _, _, _, _, _)
FetchFrom(route, ts, i, d, start, at, xs, m) ==
  IF i > Len(ts) \/ ~m.paid THEN [xs |-> xs, m |-> m]
  ELSE LET f == Fetched(route, ts[i], d, start, at, m)
       IN FetchFrom(route, ts, i + 1, d, start, at + Consumed(ts[i], route), Append(xs, f.x), f.m)

\* Slip: the values decoded before the frame reverted are kept.
ReceivedSoFar(route, ts, bytes) ==
  LET start == IF route = "call" THEN Selector ELSE 0
      d == [bytes |-> bytes, inMemory |-> route # "call"]
      r == FetchFrom(route, ts, 1, d, start, start, <<>>, Fresh(FALSE))
  IN IF Len(bytes) < start + Heads(ts) THEN Refused
     ELSE [ok |-> r.m.paid, values |-> [i \in DOMAIN r.xs |-> Held(ts[i], r.xs[i], r.m)]]

\* Every test of an entry point or of a wrapper, then the values.
Received(route, ts, bytes) ==
  LET d == [bytes |-> bytes, inMemory |-> route # "call"]
      start == IF route = "call" THEN Selector ELSE 0
      r == FetchFrom(route, ts, 1, d, start, start, <<>>, Fresh(FALSE))
  IN IF Len(bytes) < start + Heads(ts) \/ ~r.m.paid THEN Refused
     ELSE [ok |-> TRUE, values |-> [i \in DOMAIN ts |-> Held(ts[i], r.xs[i], r.m)]]

---------------------------------------------------------------------------
Init ==
  /\ crossing \in Crossings
  /\ dirty \in BOOLEAN
  /\ phase = "declared"
  /\ data = <<>>
  /\ outcome = Refused

Types == crossing.types

\* The compiler checks a signature; what a try captures has none.
Check ==
  /\ phase = "declared"
  /\ phase' = IF crossing.route = "locals" \/ \A i \in DOMAIN Types : Accepted(Types[i])
              THEN "checked" ELSE "refused"
  /\ UNCHANGED <<crossing, dirty, data, outcome>>

\* The sender holds the values in variables and encodes them.
RECURSIVE Variables(_, _, _, _, _)
Variables(ts, vs, i, xs, m) ==
  IF i > Len(ts) THEN [xs |-> xs, m |-> m]
  ELSE LET b == Built(ts[i], vs[i], m)
       IN IF IsScalar(ts[i]) THEN Variables(ts, vs, i + 1, Append(xs, vs[i]), m)
          ELSE Variables(ts, vs, i + 1, Append(xs, m.free), b)

Encode ==
  /\ phase = "checked"
  /\ LET s == Variables(Types, crossing.values, 1, <<>>, Fresh(dirty))
     IN data' = CASE crossing.route = "call"   -> Zeros(Selector) \o ArgBlob(Types, s.xs, s.m)
                  [] crossing.route = "return" -> Returned(Types[1], s.xs[1], s.m)
                  [] OTHER                     -> ArgBlob(Types, s.xs, s.m)
  /\ phase' = "encoded"
  /\ UNCHANGED <<crossing, dirty, outcome>>

Deliver ==
  /\ phase \in {"encoded", "altered"}
  /\ phase' = "sent"
  /\ UNCHANGED <<crossing, dirty, data, outcome>>

\* The other end need not be gum code: it may send another word, and less.  The
\* captures of a try travel between two frames of one contract.
Foreign == crossing.route # "locals" /\ ~dirty
Args == IF crossing.route = "call" THEN Selector ELSE 0
Alter ==
  /\ phase = "encoded" /\ Foreign
  /\ \E i \in 0..((Len(data) - Args) \div W - 1), v \in Altered :
       data' = LET at == Args + i * W
               IN SubSeq(data, 1, at) \o Bytes(v, W) \o SubSeq(data, at + W + 1, Len(data))
  /\ phase' = "altered"
  /\ UNCHANGED <<crossing, dirty, outcome>>
Cut ==
  /\ phase \in {"encoded", "altered"} /\ Foreign
  /\ \E n \in Args..(Len(data) - 1) : data' = SubSeq(data, 1, n)
  /\ phase' = "sent"
  /\ UNCHANGED <<crossing, dirty, outcome>>

Accept ==
  /\ phase = "sent"
  /\ outcome' = Received(crossing.route, Types, data)
  /\ phase' = "done"
  /\ UNCHANGED <<crossing, dirty, data>>

Next == Check \/ Encode \/ Deliver \/ Alter \/ Cut \/ Accept

Spec == Init /\ [][Next]_vars

---------------------------------------------------------------------------
(* Properties.                                                             *)

\* A type as the published ABI describes it, and as the selector hashes it.
RECURSIVE Described(_)
Described(t) ==
  CASE t.k = "enum"   -> [k |-> "uint", w |-> 1]
    [] t.k = "struct" -> [t EXCEPT !.fields = [i \in DOMAIN @ |-> Described(@[i])]]
    [] IsArray(t)     -> [t EXCEPT !.of = Described(@)]
    [] OTHER          -> t

Wire == SubSeq(data, Args + 1, Len(data))
Outer(k) == \E i \in DOMAIN Types : Types[i].k = k

\* Memory is made of bytes, and a receiver that reverts is left with nothing.
TypeOK ==
  /\ phase \in {"declared", "checked", "encoded", "altered", "sent", "done", "refused"}
  /\ \A i \in DOMAIN data : data[i] \in 0..(Base - 1)
  /\ Len(outcome.values) = IF outcome.ok THEN Len(Types) ELSE 0

\* What is encoded is the ABI's own encoding of the values for the signature
\* the contract publishes, byte for byte: offsets count from where the ABI says
\* they do, fields are in declared order although memory packs them by width,
\* and the size computed beforehand is the size written.  The one freedom is
\* the padding of a text that is itself an argument, which holds what the
\* memory held before.
EncodesCanonically ==
  phase = "encoded" =>
    LET signature == [i \in DOMAIN Types |-> Described(Types[i])]
    IN IF dirty /\ Outer("text")
       THEN DecTuple(signature, Wire, 0) = DecTuple(signature, EncTuple(signature, crossing.values), 0)
       ELSE Wire = EncTuple(signature, crossing.values)

\* Where the data holds values for the signature, whoever sent it and however
\* its parts are laid out, the receiver accepts it and holds those values.  A
\* narrow scalar returned by a call is not masked, and can differ.
ReadsWhatIsThere ==
  LET there == DecTuple(Types, Wire, 0)
      raw == crossing.route = "return" /\ IsScalar(Types[1])
  IN phase = "done" /\ there # {} /\ ~raw => outcome.ok /\ {outcome.values} = there

\* Where it does not, the receiver reverts: no bytes from beyond the data, no
\* length the data cannot back and no enum without its variant come out of the
\* decoder.  The code tests less than that for a text that is itself an
\* argument of an entry, for an enum a call brings back, for an array of enums
\* in memory, and for the head of an argument near the end of the number range.
RECURSIVE EnumRow(_)
EnumRow(t) == IsArray(t) /\ (t.of.k = "enum" \/ EnumRow(t.of))
Untested ==
  \/ crossing.route = "call" /\ Outer("text")
  \/ crossing.route = "return" /\ Outer("enum")
  \/ /\ crossing.route # "call"
     /\ \E i \in DOMAIN Types : LET t == Types[i]
                              IN EnumRow(t) \/ (IsStruct(t) /\ \E j \in DOMAIN t.fields : EnumRow(t.fields[j]))
  \/ \E i \in DOMAIN Types : AbiIsDynamic(Types[i]) /\ At(Wire, HeadAt(Types, i)) > Word \div 2
RefusesWhatIsNot ==
  phase = "done" /\ DecTuple(Types, Wire, 0) = {} => ~outcome.ok \/ Untested

\* The locals a try block assigned hold, after it, what it left in them.
TryKeepsLocals ==
  phase = "done" /\ crossing.route = "locals" => outcome = [ok |-> TRUE, values |-> crossing.values]
=============================================================================
