-------------------------- MODULE StorageCollections --------------------------
(***************************************************************************)
(* The code gumc emits for fields that live in storage words: packed arrays, *)
(* arrays of structs, struct fields, storage strings, `delete` and for-in     *)
(* over them (codegen/yul.rs, tr_storage.rs, tr_methodcall.rs, tr_field.rs,    *)
(* translator.rs).                                                          *)
(*                                                                         *)
(* A word is WordBytes lanes and a scalar of n bytes repeats one Byte n times: *)
(* these operations cannot get wrong which value it is, only where its bytes   *)
(* go.  keccak256 is a region of its own for every field.  A statement that    *)
(* reverts leaves storage as it was: here it does not happen.                *)
(***************************************************************************)
EXTENDS Integers, Sequences, FiniteSets

CONSTANTS
  WordBytes,    \* bytes in a storage word
  Dynamic,      \* [T] and Vec(T) fields, HashMap(K, [T]) entries
  Fixed,        \* [T; N] fields
  Plain,        \* fields of one value
  Texts,        \* String and Bytes fields and HashMap entries
  Structs,      \* those fields whose values are structs
  Parts,        \* field -> its value's parts, [slot, offset, size] in a struct
  Size,         \* field -> bytes of a value, the sum over its parts
  Count,        \* field of Fixed -> N
  Place,        \* field of Fixed or Plain -> its [slot, offset] in the contract
  MayShrink,    \* arrays that the index expression of an access to them may pop
  Byte,         \* contents of a byte
  MaxLen,       \* dynamic array -> values it is let grow to
  MaxText,      \* bytes a text is let grow to
  MaxSlot,      \* last word modelled of each region
  MaxIndex,     \* last index into an array
  MaxBusy,      \* fields that hold anything at one time
  Root,         \* the region of the contract's own slots
  None

Fields == Dynamic \cup Fixed \cup Plain
Regions == Dynamic \cup Texts \cup {Root}
Slots == 0 .. MaxSlot

CeilDiv(a, b) == (a + b - 1) \div b

(* field_byte_width of [T; N], in words.                                     *)
CeilWords(f) == CeilDiv(Size[f] * Count[f], WordBytes)
Lanes == 0 .. WordBytes - 1

ASSUME WordAssumption == WordBytes \in Nat \ {0} /\ 0 \in Byte /\ Byte \subseteq Nat
(* A name is that of one field.                                             *)
ASSUME NamesAssumption ==
  /\ Dynamic \cap Fixed = {} /\ Dynamic \cap Plain = {} /\ Fixed \cap Plain = {}
  /\ Texts \cap Fields = {} /\ Root \notin Dynamic \cup Texts
  /\ None \notin [of : Dynamic \cup Fixed, turns : Nat, at : Nat]
  /\ None \notin [kind : {"index", "for"}, of : Dynamic \cup Fixed, turns : Nat, at : Nat]
(* Scalars are 1, 2, 4, 8, 16 or 32 bytes wide; struct parts do not straddle.   *)
ASSUME PartsAssumption ==
  \A f \in Fields :
    /\ Size[f] \in Nat \ {0}
    /\ \A p \in Parts[f] : /\ p \in [slot : Nat, offset : Nat, size : Nat \ {0}]
                          /\ p.offset + p.size <= WordBytes
    /\ \A p, q \in Parts[f] :
         \/ p = q \/ p.slot # q.slot
         \/ p.offset + p.size <= q.offset \/ q.offset + q.size <= p.offset
    /\ f \notin Structs => /\ WordBytes % Size[f] = 0
                         /\ \E p \in Parts[f] : Parts[f] = {p} /\ p.size = Size[f]
(* What the layout engine gives each field of its own: no byte to two fields    *)
(* (LayoutDisjoint of StorageLayoutProofs).                                  *)
Given(f) ==
  IF f \in Fixed THEN [from |-> Place[f].slot * WordBytes,
                      to |-> Place[f].slot * WordBytes + CeilWords(f) * WordBytes]
  ELSE [from |-> Place[f].slot * WordBytes + Place[f].offset,
        to |-> Place[f].slot * WordBytes + Place[f].offset + Size[f]]
ASSUME PlaceAssumption ==
  /\ Place \in [Fixed \cup Plain -> [slot : Nat, offset : Nat]]
  /\ \A f \in Plain \ Structs : Place[f].offset + Size[f] <= WordBytes
  /\ \A f, g \in Fixed \cup Plain :
      f # g => Given(f).to <= Given(g).from \/ Given(g).to <= Given(f).from

VARIABLES
  cells,    \* region -> slot in it -> the word there
  len,      \* dynamic array -> the length in its own slot
  heads,    \* text -> the word in its own slot: long form?, length, bytes
  pending,  \* the for-in or the access whose index is being evaluated, or None
  io        \* the text last written, or the value the for-in is at

vars == <<cells, len, heads, pending, io>>

-----------------------------------------------------------------------------
(* Addresses.                                                               *)

(* pack_params: values to a word, words to a value.                          *)
PerWord(n)  == IF n >= WordBytes THEN 1 ELSE WordBytes \div n
SlotsPer(n) == IF n >= WordBytes THEN CeilDiv(n, WordBytes) ELSE 1

(* struct_elem_slots: a struct in an array owns whole words.                  *)
ElemSlots(n) == IF n < WordBytes THEN 1 ELSE CeilDiv(n, WordBytes)

Region(f)  == IF f \in Dynamic THEN f ELSE Root
Slot(f, s) == IF f \in Dynamic THEN s ELSE Place[f].slot + s

(* Where part p of value i of f is: region, word and byte in it.  A struct      *)
(* field is addressed from its slot alone.                                   *)
PartAt(f, i, p) ==
  IF f \in Structs
  THEN [region |-> Region(f), offset |-> p.offset,
        slot   |-> Slot(f, p.slot + IF f \in Plain THEN 0 ELSE i * ElemSlots(Size[f]))]
  ELSE IF f \in Plain
  THEN [region |-> Root, offset |-> Place[f].offset, slot |-> Place[f].slot]
  ELSE [region |-> Region(f), offset |-> (i % PerWord(Size[f])) * Size[f],
        slot   |-> Slot(f, (i \div PerWord(Size[f])) * SlotsPer(Size[f]))]
At == [f \in Fields |-> [i \in 0 .. MaxIndex |-> [p \in Parts[f] |-> PartAt(f, i, p)]]]

LanesOf(at, p) == at.offset .. at.offset + p.size - 1

(* pk_read, read_slot_packed.  No value is -1: bytes of two values.            *)
ReadPart(f, i, p) ==
  LET at == At[f][i][p]
      word == cells[at.region][at.slot]
  IN  IF \A k \in LanesOf(at, p) : word[k] = word[at.offset] THEN word[at.offset] ELSE -1

(* Slip: the other bytes of the word are not read back.                       *)
WriteAlone(f, i, p, b) ==
  LET at == At[f][i][p]
  IN  [cells EXCEPT ![at.region][at.slot] =
         [k \in Lanes |-> IF k \in LanesOf(at, p) THEN b ELSE 0]]

(* pk_write, write_slot_packed: the other bytes of the word stay.             *)
WritePart(f, i, p, b) ==
  LET at == At[f][i][p]
  IN  [cells EXCEPT ![at.region][at.slot] =
         [k \in Lanes |-> IF k \in LanesOf(at, p) THEN b ELSE @[k]]]

ZeroWord == [k \in Lanes |-> 0]
Zeroed(r, slots) ==
  [cells EXCEPT ![r] = [s \in Slots |-> IF s \in slots THEN ZeroWord ELSE @[s]]]

Length(f) == IF f \in Dynamic THEN len[f] ELSE IF f \in Fixed THEN Count[f] ELSE 1
Indices(f) == 0 .. Length(f) - 1
ValueOf(f, i) == [p \in Parts[f] |-> ReadPart(f, i, p)]

TextWords(n) == CeilDiv(n, WordBytes)

(* What the bounds let a field hold is in the modelled words.                  *)
Reach(f) == 0 .. (IF f \in Dynamic THEN MaxLen[f] ELSE IF f \in Fixed THEN Count[f] ELSE 1) - 1
ASSUME BoundsAssumption ==
  /\ MaxSlot \in Nat /\ MaxIndex \in Nat /\ MaxText \in Nat
  /\ \A f \in Dynamic : MaxLen[f] \in 0 .. MaxIndex + 1
  /\ \A f \in Fixed : Count[f] \in 0 .. MaxIndex + 1
  /\ \A f \in Fields : \A i \in Reach(f), p \in Parts[f] : PartAt(f, i, p).slot \in Slots
  /\ TextWords(MaxText) <= MaxSlot + 1

(* The words of struct i of f: sarr_base and the slots its parts span.        *)
StructSlots(f, i) == {At[f][i][p].slot : p \in Parts[f]}

-----------------------------------------------------------------------------
(* Statements on arrays, structs and packed fields.                          *)

Init ==
  /\ cells = [r \in Regions |-> [s \in Slots |-> ZeroWord]]
  /\ len = [f \in Dynamic |-> 0]
  /\ heads = [t \in Texts |-> [long |-> FALSE, n |-> 0, bytes |-> << >>]]
  /\ pending = None /\ io = None

(* Whether the index expression of an access to f may run a statement that     *)
(* shortens f.                                                              *)
CanShrink(f) ==
  pending # None /\ pending.kind = "index" /\ pending.of = f => f \in MayShrink

(* arr.push(v): dpk_push writes behind the last value, then counts it.  A       *)
(* struct array's push() takes no argument and only counts.                  *)
Push(f) ==
  /\ len[f] < MaxLen[f] /\ len' = [len EXCEPT ![f] = @ + 1]
  /\ IF f \in Structs
     THEN cells' = cells
     ELSE \E p \in Parts[f], b \in Byte : cells' = WritePart(f, len[f], p, b)
  /\ io' = None /\ UNCHANGED <<heads, pending>>

(* Slip: only the length changes.                                           *)
LeaveLast(f) == cells

ZeroLast(f) ==
  LET last == len[f] - 1
      es == ElemSlots(Size[f])
  IN  IF f \in Structs
      THEN Zeroed(f, last * es .. last * es + es - 1)
      ELSE WritePart(f, last, CHOOSE p \in Parts[f] : TRUE, 0)

(* Slip: the emptiness test is missing.                                      *)
PopAny(f) ==
  /\ CanShrink(f)
  /\ cells' = IF len[f] > 0 THEN ZeroLast(f) ELSE cells
  /\ len' = [len EXCEPT ![f] = @ - 1]
  /\ io' = None /\ UNCHANGED <<heads, pending>>

(* arr.pop(): dpk_pop and dsarr_pop zero the last value.                      *)
Pop(f) ==
  /\ len[f] > 0 /\ CanShrink(f)
  /\ cells' = ZeroLast(f) /\ len' = [len EXCEPT ![f] = @ - 1]
  /\ io' = None /\ UNCHANGED <<heads, pending>>

(* delete arr: dpk_clear, and the unrolled form for a fixed array, count words  *)
(* by pack_params, whatever the values are.  delete of a struct field zeroes    *)
(* the words its parts span.                                                *)
DeletedSlots(f) ==
  IF f \in Plain THEN StructSlots(f, 0)
  ELSE LET words == CeilDiv(Length(f), PerWord(Size[f])) * SlotsPer(Size[f])
       IN  {Slot(f, j) : j \in 0 .. words - 1}

Delete(f) ==
  /\ f \in Plain => f \in Structs
  /\ CanShrink(f)
  /\ cells' = Zeroed(Region(f), DeletedSlots(f))
  /\ len' = [g \in Dynamic |-> IF g = f THEN 0 ELSE len[g]]
  /\ io' = None /\ UNCHANGED <<heads, pending>>

(* f = v, f.part = v, arr[i] = v, arr[i].part = v, for an i below upTo; a     *)
(* scalar's delete assigns zero.                                            *)
Store(f, upTo) ==
  \E i \in 0 .. upTo - 1, p \in Parts[f], b \in Byte : cells' = WritePart(f, i, p, b)

(* delete arr[i], of structs.                                               *)
DeleteAt(f, upTo) ==
  /\ f \in Structs \ Plain
  /\ \E i \in 0 .. upTo - 1 : cells' = Zeroed(Region(f), StructSlots(f, i))

Access(f) ==
  /\ Store(f, Length(f)) \/ DeleteAt(f, Length(f))
  /\ io' = None /\ UNCHANGED <<len, heads, pending>>

(* arr[i] with an index that runs statements: Yul evaluates arguments from the  *)
(* last to the first, so pk_get, pk_set and sarr_base are handed the length     *)
(* read before the index is known.                                          *)
BeginIndex(f) ==
  /\ pending = None
  /\ pending' = [kind |-> "index", of |-> f, turns |-> len[f], at |-> 0]
  /\ io' = None /\ UNCHANGED <<cells, len, heads>>

(* The access, unless it only reads.                                        *)
EndIndex ==
  /\ pending # None /\ pending.kind = "index"
  /\ \/ Store(pending.of, pending.turns) \/ DeleteAt(pending.of, pending.turns)
     \/ cells' = cells
  /\ pending' = None /\ io' = None /\ UNCHANGED <<len, heads>>

(* for x in arr: storage_for_loop reads the length once.                      *)
BeginFor(f) ==
  /\ pending = None /\ f \notin Structs
  /\ pending' = [kind |-> "for", of |-> f, turns |-> Length(f), at |-> 0]
  /\ io' = None /\ UNCHANGED <<cells, len, heads>>

Turn ==
  /\ pending # None /\ pending.kind = "for" /\ pending.at < pending.turns
  /\ \E p \in Parts[pending.of] : io' = <<ReadPart(pending.of, pending.at, p)>>
  /\ pending' = [pending EXCEPT !.at = @ + 1]
  /\ UNCHANGED <<cells, len, heads>>

(* No turn is left, or the body returns.                                     *)
EndFor ==
  /\ pending # None /\ pending.kind = "for"
  /\ pending' = None /\ io' = None /\ UNCHANGED <<cells, len, heads>>

-----------------------------------------------------------------------------
(* Storage strings: fewer than WordBytes bytes live beside the length in the   *)
(* text's own slot, more in the words of its region.                         *)

(* A text holds no zero byte, the better to tell it from released words.        *)
Letter == Byte \ {0}

(* gum_sstr_clear, and the start of gum_sstr_store.                          *)
Released(t) ==
  [s \in Slots |-> IF heads[t].long /\ s < TextWords(heads[t].n) THEN ZeroWord
                   ELSE cells[t][s]]

(* Memory behind a text of the length of s holds whatever it held: junk.       *)
(* gum_sstr_store masks what it takes from the last word.                     *)
InMemory(s, junk) == [k \in 0 .. WordBytes * TextWords(MaxText + 1) - 1 |->
                        IF k < Len(s) THEN s[k + 1] ELSE junk]
Masked(s, mem) == [k \in DOMAIN mem |-> IF k < Len(s) THEN mem[k] ELSE 0]

StoreText(t) ==
  \E n \in 0 .. MaxText : \E s \in [1 .. n -> Letter], junk \in Byte :
    LET mem == Masked(s, InMemory(s, junk))
    IN  /\ heads' = [heads EXCEPT ![t] =
              [long |-> n >= WordBytes, n |-> n,
               bytes |-> IF n < WordBytes THEN [k \in 1 .. n |-> mem[k - 1]] ELSE << >>]]
        /\ cells' = [cells EXCEPT ![t] =
              [w \in Slots |-> IF n >= WordBytes /\ w < TextWords(n)
                               THEN [k \in Lanes |-> mem[w * WordBytes + k]]
                               ELSE Released(t)[w]]]
        /\ io' = s /\ UNCHANGED <<len, pending>>

DeleteText(t) ==
  /\ cells' = [cells EXCEPT ![t] = Released(t)]
  /\ heads' = [heads EXCEPT ![t] = [long |-> FALSE, n |-> 0, bytes |-> << >>]]
  /\ io' = << >> /\ UNCHANGED <<len, pending>>

(* gum_sstr_load                                                            *)
TextOf(t) ==
  IF heads[t].long
  THEN [k \in 1 .. heads[t].n |-> cells[t][(k - 1) \div WordBytes][(k - 1) % WordBytes]]
  ELSE heads[t].bytes

-----------------------------------------------------------------------------
(* A statement touches one field and, at worst, one whose words it overruns:    *)
(* no more than MaxBusy fields need hold anything at once.                     *)
Empty(f) ==
  IF f \in Texts THEN heads[f].n = 0
  ELSE /\ f \in Dynamic => len[f] = 0
       /\ \A i \in Indices(f), p \in Parts[f] : ReadPart(f, i, p) = 0
Room(f) ==
  Cardinality({g \in (Fields \cup Texts) \ {f} : ~Empty(g)}) < MaxBusy

Next ==
  \/ \E f \in Dynamic : Room(f) /\ Push(f)
  \/ \E f \in Dynamic : Pop(f) \/ BeginIndex(f)
  \/ \E f \in Fields : Room(f) /\ Access(f)
  \/ \E f \in Fields : Delete(f)
  \/ \E f \in Dynamic \cup Fixed : BeginFor(f)
  \/ EndIndex \/ Turn \/ EndFor
  \/ \E t \in Texts : Room(t) /\ StoreText(t)
  \/ \E t \in Texts : DeleteText(t)

Spec == Init /\ [][Next]_vars

-----------------------------------------------------------------------------
(* Where the address rules agree: a struct fits the words struct_elem_slots     *)
(* counts, an array of structs is not cleared by the rule for packed values,     *)
(* and a struct in the contract's own slots fills its words.                   *)
Agree(f) ==
  f \in Structs =>
    /\ \A p \in Parts[f] : p.slot < ElemSlots(Size[f])
    /\ f \in Dynamic => 2 * Size[f] > WordBytes
    /\ f \notin Dynamic => Size[f] % WordBytes = 0
    /\ f \in Plain => Place[f].offset = 0
Sound == MayShrink = {} /\ \A f \in Fields : Agree(f)

(* Properties.                                                              *)

TypeOK ==
  /\ cells \in [Regions -> [Slots -> [Lanes -> Byte]]]
  /\ \A f \in Dynamic : len[f] \in 0 .. MaxLen[f]
  /\ \A t \in Texts : heads[t].n \in 0 .. MaxText
  /\ pending # None =>
       /\ pending.kind \in {"index", "for"} /\ pending.of \in Dynamic \cup Fixed
       /\ pending.at \in 0 .. pending.turns

(* Every byte that holds part of a value, or of a text in its long form.      *)
LiveBytes(r) ==
  IF r \in Dynamic
  THEN UNION {LET at == At[r][i][p] IN {<<at.slot, k>> : k \in LanesOf(at, p)} :
                i \in Indices(r), p \in Parts[r]}
  ELSE IF heads[r].long THEN {<<k \div WordBytes, k % WordBytes>> : k \in 0 .. heads[r].n - 1}
  ELSE {}

(* Nothing is left in a region behind the values that an array or a text holds *)
(* now.  push() on a struct array relies on it: it writes nothing, "the slots   *)
(* are already zero, never written, or cleared by a prior pop" (STORAGE.md).    *)
NothingLeftBehind ==
  \A r \in Dynamic \cup Texts, s \in Slots, k \in Lanes :
    <<s, k>> \notin LiveBytes(r) => cells[r][s][k] = 0

(* Storage implements plain sequences and values: no statement reads, drops,    *)
(* adds or changes anything but what it names.                               *)
Walk ==
  IF pending # None /\ pending.kind = "for"
  THEN [of |-> pending.of, turns |-> pending.turns, at |-> pending.at] ELSE None

Contents == [f \in Fields |-> [i \in 1 .. Length(f) |-> ValueOf(f, i - 1)]]
Strings  == [t \in Texts |-> TextOf(t)]

Values == INSTANCE StoredValues WITH seqs <- Contents, texts <- Strings, walk <- Walk

ValuesSpec == Values!Spec

=============================================================================
