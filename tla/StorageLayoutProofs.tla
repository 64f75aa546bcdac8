------------------------- MODULE StorageLayoutProofs -------------------------
(***************************************************************************)
(* Proofs about StorageLayout, for every set of fields and widths.          *)
(*                                                                         *)
(* NoOverlap is not inductive: that a newcomer does not land on a placed    *)
(* field depends on what the packers' cursors mean.  The inductive          *)
(* invariant says it: everything placed by the fresh packer lies below its   *)
(* cursor; everything placed by the locked packer lies below append; and a  *)
(* slot with a high-water mark is used by nothing above the mark.           *)
(***************************************************************************)
EXTENDS StorageLayout, TLAPS

Locking   == pc \in {"check", "pin", "place"}

(* The loops run over the fields of their keyspace.                         *)
TodoInv ==
  /\ pc \in {"check", "pin", "place", "fresh"} => todo \subseteq Persistent(src)
  /\ pc = "transient" => todo \subseteq Transient(src)

(* pack_storage_fields: what it placed ends below its cursor.               *)
CursorInv ==
  /\ pc = "fresh" => \A f \in Fields : Placed(layout, f) =>
       End(layout[f]) <= cursor.slot * 32 + cursor.used
  /\ pc = "transient" => \A f \in Fields : Placed(tlayout, f) =>
       End(tlayout[f]) <= cursor.slot * 32 + cursor.used

(* allocate_storage: append is past the committed fields and the newcomers. *)
AppendInv ==
  /\ Locking => \A f \in Fields : Placed(lock, f) =>
       lock[f].slot + Spanned(lock[f]) <= append
  /\ pc = "check" => layout = NoLayout /\ high = NoHigh
  /\ pc = "place" => \A f \in Fields : Placed(layout, f) => End(layout[f]) <= 32 * append

(* The slot s holds some byte of l.                                         *)
Touches(l, s) == Start(l) < 32 * (s + 1) /\ 32 * s < End(l)

(* pack_storage_fields_locked: high-water marks.                            *)
HighInv ==
  /\ pc = "pin" =>
       /\ \A f \in Fields : Placed(layout, f) => layout[f] = lock[f]
       /\ \A f \in Fields, s \in Nat :
            Placed(layout, f) /\ Touches(layout[f], s) => s \in DOMAIN high
  /\ pc \in {"pin", "place"} =>
       /\ high = [s \in DOMAIN high |-> high[s]]
       /\ \A s \in DOMAIN high : s < append
       /\ \A s \in DOMAIN high, f \in Fields : Placed(layout, f) =>
            \/ Start(layout[f]) >= 32 * (s + 1)
            \/ End(layout[f]) <= 32 * s + high[s]
            \/ high[s] = 32

(* Transient fields are laid out last.                                      *)
TransientEmpty == pc \in {"check", "pin", "place", "fresh"} => tlayout = NoLayout

LayoutPart == CursorInv /\ AppendInv /\ HighInv /\ TransientEmpty /\ NoOverlap

LayInv == TypeOK /\ TodoInv /\ LayoutPart

-----------------------------------------------------------------------------
(* Arithmetic of slots.                                                     *)

(* CeilWords rounds a byte count up to whole words.                         *)
LEMMA CeilWordsBounds ==
  ASSUME NEW n \in Nat
  PROVE  /\ CeilWords(n) \in Nat
         /\ n <= 32 * CeilWords(n)
         /\ 32 * CeilWords(n) <= n + 31
BY DEF CeilWords

(* The slots a location spans cover it, and none of them lies wholly beyond. *)
LEMMA SpannedBounds ==
  ASSUME NEW l \in Loc
  PROVE  /\ Spanned(l) \in Nat \ {0}
         /\ Start(l) \in Nat /\ End(l) \in Nat /\ Start(l) < End(l)
         /\ End(l) <= 32 * (l.slot + Spanned(l))
         /\ 32 * (l.slot + Spanned(l)) <= End(l) + 31
         /\ \A s \in Nat : Touches(l, s) => s \in SlotsOf(l)
         /\ SlotsOf(l) \subseteq Nat
         /\ \A s \in SlotsOf(l) : s < l.slot + Spanned(l)
<1>1. l.slot \in Nat /\ l.offset \in Nat /\ l.size \in Nat /\ l.size > 0
  BY DEF Loc
<1>2. DEFINE n == l.offset + l.size
<1>3. n \in Nat /\ n > 0
  BY <1>1
<1>4. CeilWords(n) \in Nat /\ n <= 32 * CeilWords(n) /\ 32 * CeilWords(n) <= n + 31
  BY <1>3, CeilWordsBounds
<1>5. Spanned(l) = CeilWords(n)
  BY <1>3, <1>4 DEF Spanned
<1> HIDE DEF n
<1>6. End(l) = l.slot * 32 + n
  BY <1>1 DEF End, n
<1>7. QED
  BY <1>1, <1>3, <1>4, <1>5, <1>6 DEF Start, End, Touches, SlotsOf, n

(* In a slot it spans, the bytes a location uses reach its end or the slot's. *)
LEMMA UsedInReaches ==
  ASSUME NEW l \in Loc, NEW s \in SlotsOf(l)
  PROVE  /\ UsedIn(l, s) \in Int /\ UsedIn(l, s) > 0
         /\ \/ End(l) <= 32 * s + UsedIn(l, s) /\ UsedIn(l, s) <= 32
            \/ UsedIn(l, s) = 32
BY SpannedBounds DEF UsedIn, SlotsOf, Loc, End

-----------------------------------------------------------------------------
(* Types.                                                                   *)

(* A field some loop has yet to place has one of the declared widths.       *)
LEMMA TodoWidth ==
  ASSUME TypeOK, TodoInv, pc \in {"check", "pin", "place", "fresh", "transient"},
         NEW f \in todo
  PROVE  f \in Fields /\ f \in Nat /\ src[f].width \in Nat \ {0}
BY WidthsAssumption, FieldsAssumption DEF TypeOK, TodoInv, Persistent, Transient, Decl

(* The values a compiler starts from are well typed.                        *)
LEMMA StartValues ==
  /\ NoLayout \in [Fields -> LocOrNone]
  /\ NoSource \in [Fields -> Decl]
  /\ DOMAIN NoHigh = {}
  /\ TopOfSlot0 \in [slot : Nat, used : 0 .. 32]
<1>1. [kind |-> "none", width |-> 0] \in Decl
  BY DEF Decl
<1>2. QED
  BY <1>1 DEF NoLayout, NoSource, NoHigh, TopOfSlot0, LocOrNone

(* What allocate_storage and the packers assign has the types TypeOK gives.  *)
LEMMA TypeInit == Init => TypeOK /\ TodoInv
<1> SUFFICES ASSUME Init PROVE TypeOK /\ TodoInv
  OBVIOUS
<1>1. \A s \in DOMAIN high : high[s] \in 0 .. 32
  BY StartValues DEF Init
<1>2. QED
  BY <1>1, StartValues DEF Init, TypeOK, TodoInv

LEMMA ExitTypes ==
  ASSUME TypeOK, Exit, lockFile' \in {"absent", "with", "without", "corrupt"},
         lock' \in [Fields -> LocOrNone], built' \in [Fields -> LocOrNone],
         live' \in [Fields -> LocOrNone]
  PROVE  TypeOK' /\ TodoInv'
<1>1. \A s \in DOMAIN high' : high'[s] \in 0 .. 32
  BY StartValues DEF Exit
<1>2. QED
  BY <1>1, StartValues DEF Exit, TypeOK, TodoInv

LEMMA TypeStep == TypeOK /\ TodoInv /\ [Next]_vars => TypeOK' /\ TodoInv'
<1> SUFFICES ASSUME TypeOK, TodoInv, [Next]_vars PROVE TypeOK' /\ TodoInv'
  OBVIOUS
<1>1. \A lay \in [Fields -> LocOrNone], f \in Fields : Placed(lay, f) => lay[f] \in Loc
  BY DEF Placed, LocOrNone
<1>2. CASE UNCHANGED vars
  BY <1>2 DEF vars, TypeOK, TodoInv
<1>3. CASE \E s \in [Fields -> Decl], p \in BOOLEAN : BeginCompile(s, p)
  <2> PICK s \in [Fields -> Decl], p \in BOOLEAN : BeginCompile(s, p)
    BY <1>3
  <2>1. append' \in Nat
    <3>1. CommittedEnds \subseteq Nat
      BY <1>1, SpannedBounds DEF CommittedEnds, Loc, TypeOK
    <3>2. QED
      BY <3>1 DEF BeginCompile
  <2>2. Persistent(s) \subseteq Fields
    BY DEF Persistent
  <2>3. QED
    BY StartValues, <2>1, <2>2 DEF BeginCompile, TypeOK, TodoInv
<1>4. CASE \E f \in Fields : PackLarge(f) \/ PackSmall(f)
  <2> PICK f \in Fields : PackLarge(f) \/ PackSmall(f)
    BY <1>4
  <2>1. /\ f \in todo /\ pc \in {"fresh", "transient"}
    BY DEF PackLarge, PackSmall, Widest
  <2>2. src[f].width \in Nat \ {0}
    BY <2>1, TodoWidth
  <2>3. PICK l \in Loc : Assign(f, l)
    <3>1. cursor.slot \in Nat /\ cursor.used \in Nat
      BY DEF TypeOK
    <3>2. CASE PackLarge(f)
      <4> DEFINE n == IF cursor.used > 0 THEN cursor.slot + 1 ELSE cursor.slot
      <4>1. [slot |-> n, offset |-> 0, size |-> src[f].width] \in Loc
        BY <2>2, <3>1 DEF Loc
      <4>2. QED
        BY <3>2, <4>1 DEF PackLarge
    <3>3. CASE PackSmall(f)
      <4> DEFINE fits == cursor.used + src[f].width <= 32
      <4> DEFINE n == IF fits THEN cursor.slot ELSE cursor.slot + 1
      <4> DEFINE u == IF fits THEN cursor.used ELSE 0
      <4>1. [slot |-> n, offset |-> u, size |-> src[f].width] \in Loc
        BY <2>2, <3>1 DEF Loc
      <4>2. QED
        BY <3>3, <4>1 DEF PackSmall
    <3>4. QED
      BY <3>2, <3>3
  <2>4. cursor' \in [slot : Nat, used : 0 .. 32]
    <3>1. CeilWords(src[f].width) \in Nat
      BY <2>2, CeilWordsBounds
    <3>2. cursor.slot \in Nat /\ cursor.used \in 0 .. 32
      BY DEF TypeOK
    <3>3. QED
      BY <2>2, <3>1, <3>2 DEF PackLarge, PackSmall
  <2>5. QED
    BY <2>3, <2>4 DEF Assign, TypeOK, TodoInv, LocOrNone
<1>5. CASE BeginTransient \/ EndTransient \/ CheckRemoved \/ PinDone
  <2>1. Transient(src) \subseteq Fields
    BY DEF Transient
  <2>2. QED
    BY <1>5, <2>1, StartValues
       DEF BeginTransient, EndTransient, CheckRemoved, PinDone, compileVars, TypeOK, TodoInv
<1>6. CASE \E f \in Fields : Pin(f)
  <2> PICK f \in Fields : Pin(f)
    BY <1>6
  <2>1. lock[f] \in Loc
    BY <1>1 DEF Pin, TypeOK
  <2>2. DOMAIN high' \subseteq Nat
    BY <2>1, SpannedBounds DEF Pin, TypeOK
  <2>3. \A s \in DOMAIN high' : high'[s] \in 0 .. 32
    BY <2>1, UsedInReaches DEF Pin, TypeOK
  <2>4. layout' \in [Fields -> LocOrNone] /\ todo' \subseteq todo
    BY <2>1 DEF Pin, TypeOK, LocOrNone
  <2>5. QED
    BY <2>2, <2>3, <2>4 DEF Pin, TypeOK, TodoInv
<1>7. CASE \E f \in Fields : PlaceLarge(f) \/ PlaceInGap(f) \/ PlaceAppended(f)
  <2> PICK f \in Fields : PlaceLarge(f) \/ PlaceInGap(f) \/ PlaceAppended(f)
    BY <1>7
  <2>1. f \in todo /\ pc = "place"
    BY DEF PlaceLarge, PlaceInGap, PlaceAppended, NextNewcomer
  <2>2. src[f].width \in Nat \ {0}
    BY <2>1, TodoWidth
  <2>3. layout' \in [Fields -> LocOrNone]
    <3>1. CASE PlaceLarge(f) \/ PlaceAppended(f)
      <4>1. [slot |-> append, offset |-> 0, size |-> src[f].width] \in Loc
        BY <2>2 DEF Loc, TypeOK
      <4>2. QED
        BY <3>1, <4>1 DEF PlaceLarge, PlaceAppended, TypeOK, LocOrNone
    <3>2. CASE PlaceInGap(f)
      <4>1. \A s \in DOMAIN high :
              [slot |-> s, offset |-> high[s], size |-> src[f].width] \in Loc
        BY <2>2 DEF Loc, TypeOK
      <4>2. QED
        BY <3>2, <4>1 DEF PlaceInGap, Gaps, TypeOK, LocOrNone
    <3>3. QED
      BY <3>1, <3>2
  <2>4. DOMAIN high' \subseteq Nat /\ append' \in Nat
    <3>1. CeilWords(src[f].width) \in Nat /\ append \in Nat /\ DOMAIN high \subseteq Nat
      BY <2>2, CeilWordsBounds DEF TypeOK
    <3>2. CASE PlaceLarge(f)
      BY <3>1, <3>2 DEF PlaceLarge
    <3>3. CASE PlaceInGap(f)
      BY <3>1, <3>3 DEF PlaceInGap
    <3>4. CASE PlaceAppended(f)
      BY <3>1, <3>4 DEF PlaceAppended
    <3>5. QED
      BY <3>2, <3>3, <3>4
  <2>5. \A s \in DOMAIN high' : high'[s] \in 0 .. 32
    <3>1. CASE PlaceLarge(f)
      BY <3>1 DEF PlaceLarge, TypeOK
    <3>2. CASE PlaceInGap(f)
      <4>1. PICK r \in Gaps(src[f].width) : high' = [high EXCEPT ![r] = high[r] + src[f].width]
        BY <3>2 DEF PlaceInGap
      <4>2. r \in DOMAIN high /\ 32 - high[r] >= src[f].width
        BY <4>1 DEF Gaps
      <4>3. high[r] \in 0 .. 32
        BY <4>2 DEF TypeOK
      <4>4. high[r] + src[f].width \in 0 .. 32
        BY <2>2, <4>2, <4>3
      <4>5. QED
        BY <4>1, <4>2, <4>4 DEF TypeOK
    <3>3. CASE PlaceAppended(f)
      BY <2>2, <3>3 DEF PlaceAppended, TypeOK
    <3>4. QED
      BY <3>1, <3>2, <3>3
  <2>6. QED
    BY <2>3, <2>4, <2>5 DEF PlaceLarge, PlaceInGap, PlaceAppended, TypeOK, TodoInv
<1>8. CASE RejectRemoved \/ BuildFails \/ Emit \/ \E f \in Fields : RejectResized(f)
  BY <1>8, ExitTypes DEF RejectRemoved, BuildFails, Emit, RejectResized, TypeOK
<1>9. CASE \E o \in {"untouched", "cut"} : SaveFails(o)
  BY <1>9, StartValues, ExitTypes DEF SaveFails, TypeOK
<1>10. CASE Save \/ Upgrade \/ RestoreLock
  BY <1>10 DEF Save, Upgrade, RestoreLock, compileVars, TypeOK, TodoInv
<1>11. QED
  BY <1>2, <1>3, <1>4, <1>5, <1>6, <1>7, <1>8, <1>9, <1>10 DEF Next, Compile

(* Type correctness, for every set of fields and widths.                    *)
THEOREM TypeCorrect == Spec => []TypeOK
<1>1. TypeOK /\ TodoInv /\ [Next]_vars => TypeOK' /\ TodoInv'
  BY TypeStep
<1>2. QED
  BY TypeInit, <1>1, PTL DEF Spec

-----------------------------------------------------------------------------
(* No two fields share a byte.                                              *)

(* Every location of a well-typed layout is a location.                     *)
LEMMA PlacedLoc ==
  ASSUME NEW lay \in [Fields -> LocOrNone], NEW f \in Fields, Placed(lay, f)
  PROVE  /\ lay[f] \in Loc
         /\ lay[f].slot \in Nat /\ lay[f].offset \in Nat
         /\ lay[f].size \in Nat /\ lay[f].size > 0
         /\ Start(lay[f]) \in Nat /\ End(lay[f]) \in Nat
         /\ Start(lay[f]) < End(lay[f])
<1>1. lay[f] \in Loc
  BY DEF Placed, LocOrNone
<1>2. QED
  BY <1>1, SpannedBounds DEF Loc

(* A field put beside the others keeps the layout free of overlaps.         *)
LEMMA AddDisjoint ==
  ASSUME NEW lay \in [Fields -> LocOrNone], Disjoint(lay),
         NEW f \in Fields, NEW l \in Loc,
         \A g \in Fields : g # f /\ Placed(lay, g) =>
            End(lay[g]) <= Start(l) \/ End(l) <= Start(lay[g])
  PROVE  Disjoint([lay EXCEPT ![f] = l])
<1>1. Start(l) \in Nat /\ End(l) \in Nat
  BY SpannedBounds
<1>2. \A g \in Fields : Placed(lay, g) => Start(lay[g]) \in Nat /\ End(lay[g]) \in Nat
  BY PlacedLoc
<1>3. \A g \in Fields : g # f /\ Placed(lay, g) => ~Overlap(lay[g], l) /\ ~Overlap(l, lay[g])
  BY <1>1, <1>2 DEF Overlap
<1>4. QED
  BY <1>3 DEF Disjoint, Placed

(* An unassigned layout has no overlap.                                     *)
LEMMA EmptyDisjoint == Disjoint(NoLayout)
BY DEF Disjoint, NoLayout, Placed

(* The four numbers a record of a location carries.                         *)
LEMMA NewLoc ==
  ASSUME NEW s \in Nat, NEW u \in Nat, NEW w \in Nat \ {0}
  PROVE  /\ [slot |-> s, offset |-> u, size |-> w] \in Loc
         /\ Start([slot |-> s, offset |-> u, size |-> w]) = 32 * s + u
         /\ End([slot |-> s, offset |-> u, size |-> w]) = 32 * s + u + w
BY DEF Loc, Start, End

LEMMA LayoutInit == Init => LayoutPart
BY EmptyDisjoint DEF Init, LayoutPart, TransientEmpty, CursorInv, AppendInv, HighInv, NoOverlap,
                     Locking, NoLayout, Placed

(* pack_storage_fields: the next field starts at or after the cursor, and the *)
(* cursor moves past its end.                                               *)
LEMMA PackStep ==
  ASSUME LayInv, NEW f \in Fields, PackLarge(f) \/ PackSmall(f)
  PROVE  LayoutPart'
<1> DEFINE old == cursor.slot * 32 + cursor.used
<1>1. TypeOK /\ TodoInv /\ CursorInv /\ TransientEmpty /\ NoOverlap
  BY DEF LayInv, LayoutPart
<1>2. f \in todo /\ pc \in {"fresh", "transient"}
  BY DEF PackLarge, PackSmall, Widest
<1>3. src[f].width \in Nat \ {0}
  BY <1>1, <1>2, TodoWidth
<1>4. cursor.slot \in Nat /\ cursor.used \in 0 .. 32
  BY <1>1 DEF TypeOK
<1>5. PICK l \in Loc : /\ Assign(f, l)
                       /\ old <= Start(l)
                       /\ End(l) <= cursor'.slot * 32 + cursor'.used
                       /\ cursor'.slot * 32 + cursor'.used \in Nat
  <2>1. CASE PackLarge(f)
    <3> DEFINE n == IF cursor.used > 0 THEN cursor.slot + 1 ELSE cursor.slot
    <3>1. n \in Nat /\ old <= 32 * n
      BY <1>4
    <3>2. CeilWords(src[f].width) \in Nat /\ src[f].width <= 32 * CeilWords(src[f].width)
      BY <1>3, CeilWordsBounds
    <3>3. cursor' = [slot |-> n + CeilWords(src[f].width), used |-> 0]
      BY <2>1 DEF PackLarge
    <3>4. Assign(f, [slot |-> n, offset |-> 0, size |-> src[f].width])
      BY <2>1 DEF PackLarge
    <3> HIDE DEF n
    <3> DEFINE l == [slot |-> n, offset |-> 0, size |-> src[f].width]
    <3>5. l \in Loc /\ Start(l) = 32 * n /\ End(l) = 32 * n + src[f].width
      BY <1>3, <3>1, NewLoc
    <3>6. cursor'.slot * 32 + cursor'.used = 32 * n + 32 * CeilWords(src[f].width)
      BY <3>1, <3>2, <3>3
    <3> HIDE DEF l
    <3>7. /\ old <= Start(l)
          /\ End(l) <= cursor'.slot * 32 + cursor'.used
          /\ cursor'.slot * 32 + cursor'.used \in Nat
      BY <1>3, <3>1, <3>2, <3>5, <3>6
    <3>8. QED
      BY <3>4, <3>5, <3>7 DEF l
  <2>2. CASE PackSmall(f)
    <3> DEFINE fits == cursor.used + src[f].width <= 32
    <3> DEFINE n == IF fits THEN cursor.slot ELSE cursor.slot + 1
    <3> DEFINE u == IF fits THEN cursor.used ELSE 0
    <3>1. n \in Nat /\ u \in Nat /\ old <= 32 * n + u
      BY <1>3, <1>4
    <3>2. cursor' = [slot |-> n, used |-> u + src[f].width]
      BY <2>2 DEF PackSmall
    <3>3. Assign(f, [slot |-> n, offset |-> u, size |-> src[f].width])
      BY <2>2 DEF PackSmall
    <3> HIDE DEF n, u
    <3> DEFINE l == [slot |-> n, offset |-> u, size |-> src[f].width]
    <3>4. l \in Loc /\ Start(l) = 32 * n + u /\ End(l) = 32 * n + u + src[f].width
      BY <1>3, <3>1, NewLoc
    <3>5. cursor'.slot * 32 + cursor'.used = 32 * n + (u + src[f].width)
      BY <1>3, <3>1, <3>2
    <3> HIDE DEF l
    <3>6. /\ old <= Start(l)
          /\ End(l) <= cursor'.slot * 32 + cursor'.used
          /\ cursor'.slot * 32 + cursor'.used \in Nat
      BY <1>3, <3>1, <3>4, <3>5
    <3>7. QED
      BY <3>3, <3>4, <3>6 DEF l
  <2>3. QED
    BY <2>1, <2>2
<1>6. old \in Nat
  BY <1>4
<1> HIDE DEF old
<1>7. \A lay \in [Fields -> LocOrNone] : \A g \in Fields :
        Placed(lay, g) => Start(lay[g]) \in Nat /\ End(lay[g]) \in Nat
  BY PlacedLoc
<1>8. Start(l) \in Nat /\ End(l) \in Nat /\ Start(l) < End(l)
  BY SpannedBounds
<1>9. CASE pc = "fresh"
  <2>1. \A g \in Fields : Placed(layout, g) => End(layout[g]) <= old
    BY <1>1, <1>9 DEF CursorInv, old
  <2>2. layout' = [layout EXCEPT ![f] = l] /\ tlayout' = tlayout /\ pc' = "fresh"
    BY <1>5, <1>9 DEF Assign
  <2>3. Disjoint(layout')
    <3>1. layout \in [Fields -> LocOrNone] /\ Disjoint(layout)
      BY <1>1 DEF TypeOK, NoOverlap
    <3>2. \A g \in Fields : g # f /\ Placed(layout, g) => End(layout[g]) <= Start(l)
      BY <1>5, <1>6, <1>7, <1>8, <2>1, <3>1
    <3>3. QED
      BY <2>2, <3>1, <3>2, AddDisjoint
  <2>4. CursorInv'
    <3>1. \A g \in Fields : Placed(layout', g) =>
            End(layout'[g]) <= cursor'.slot * 32 + cursor'.used
      BY <1>1, <1>5, <1>6, <1>7, <1>8, <2>1, <2>2 DEF TypeOK, Placed
    <3>2. QED
      BY <3>1, <2>2 DEF CursorInv
  <2>5. QED
    BY <1>1, <1>5, <2>2, <2>3, <2>4
       DEF Assign, LayoutPart, TransientEmpty, AppendInv, HighInv, NoOverlap, Locking
<1>10. CASE pc = "transient"
  <2>1. \A g \in Fields : Placed(tlayout, g) => End(tlayout[g]) <= old
    BY <1>1, <1>10 DEF CursorInv, old
  <2>2. tlayout' = [tlayout EXCEPT ![f] = l] /\ layout' = layout /\ pc' = "transient"
    BY <1>5, <1>10 DEF Assign
  <2>3. Disjoint(tlayout')
    <3>1. tlayout \in [Fields -> LocOrNone] /\ Disjoint(tlayout)
      BY <1>1 DEF TypeOK, NoOverlap
    <3>2. \A g \in Fields : g # f /\ Placed(tlayout, g) => End(tlayout[g]) <= Start(l)
      BY <1>5, <1>6, <1>7, <1>8, <2>1, <3>1
    <3>3. QED
      BY <2>2, <3>1, <3>2, AddDisjoint
  <2>4. CursorInv'
    <3>1. \A g \in Fields : Placed(tlayout', g) =>
            End(tlayout'[g]) <= cursor'.slot * 32 + cursor'.used
      BY <1>1, <1>5, <1>6, <1>7, <1>8, <2>1, <2>2 DEF TypeOK, Placed
    <3>2. QED
      BY <3>1, <2>2 DEF CursorInv
  <2>5. QED
    BY <1>1, <1>5, <2>2, <2>3, <2>4
       DEF Assign, LayoutPart, TransientEmpty, AppendInv, HighInv, NoOverlap, Locking
<1>11. QED
  BY <1>2, <1>9, <1>10

(* pack_storage_fields_locked, first loop: a pinned field raises the marks of *)
(* the slots it touches at least to where it ends.                          *)
LEMMA PinStep ==
  ASSUME LayInv, NEW f \in Fields, Pin(f)
  PROVE  LayoutPart'
<1> DEFINE l == lock[f]
<1>1. TypeOK /\ TodoInv /\ AppendInv /\ HighInv /\ TransientEmpty /\ NoOverlap
  BY DEF LayInv, LayoutPart
<1>2. pc = "pin" /\ pc' = "pin" /\ lock' = lock /\ append' = append
  BY DEF Pin
<1>3. l \in Loc /\ Placed(lock, f)
  BY <1>1, PlacedLoc DEF Pin, TypeOK
<1>4. layout' = [layout EXCEPT ![f] = l] /\ layout \in [Fields -> LocOrNone]
  BY <1>1 DEF Pin, TypeOK
<1>5. \A g \in Fields : Placed(layout', g) => layout'[g] = lock'[g] /\ Placed(lock, g)
  BY <1>1, <1>2, <1>3, <1>4 DEF HighInv, Placed
<1>6. Disjoint(layout')
  BY <1>1, <1>2, <1>5 DEF NoOverlap, Disjoint
<1>7. /\ DOMAIN high' = DOMAIN high \cup SlotsOf(l)
      /\ high' = [s \in DOMAIN high' |-> high'[s]]
  BY DEF Pin
<1>8. \A s \in SlotsOf(l) : high'[s] >= (IF UsedIn(l, s) < 32 THEN UsedIn(l, s) ELSE 32)
  <2>1. SUFFICES ASSUME NEW s \in SlotsOf(l)
                 PROVE  high'[s] >= (IF UsedIn(l, s) < 32 THEN UsedIn(l, s) ELSE 32)
    OBVIOUS
  <2>2. UsedIn(l, s) \in Int
    BY <1>3, UsedInReaches
  <2>3. s \in DOMAIN high => high[s] \in Nat
    BY <1>1 DEF TypeOK
  <2>4. QED
    BY <2>2, <2>3 DEF Pin
<1>9. \A s \in DOMAIN high : high'[s] >= high[s]
  <2>1. SUFFICES ASSUME NEW s \in DOMAIN high PROVE high'[s] >= high[s]
    OBVIOUS
  <2>2. high[s] \in Nat
    BY <1>1 DEF TypeOK
  <2>3. s \in SlotsOf(l) => UsedIn(l, s) \in Int
    BY <1>3, UsedInReaches
  <2>4. QED
    BY <2>2, <2>3 DEF Pin
<1>10. \A s \in DOMAIN high' : high'[s] \in 0 .. 32 /\ s \in Nat
  BY <1>1, TypeStep DEF Next, Compile, TypeOK
<1>11. SlotsOf(l) \subseteq Nat /\ \A s \in SlotsOf(l) : s < append
  <2>1. l.slot + Spanned(l) <= append /\ append \in Nat
    BY <1>1, <1>2, <1>3 DEF AppendInv, Locking, TypeOK
  <2>2. l.slot + Spanned(l) \in Nat
    BY <1>3, SpannedBounds DEF Loc
  <2>3. QED
    BY <1>3, <2>1, <2>2, SpannedBounds
<1>12. \A g \in Fields, s \in Nat :
         Placed(layout', g) /\ Touches(layout'[g], s) => s \in DOMAIN high'
  BY <1>1, <1>2, <1>3, <1>4, <1>7, SpannedBounds DEF HighInv, Placed
<1>13. \A s \in DOMAIN high', g \in Fields : Placed(layout', g) =>
         \/ Start(layout'[g]) >= 32 * (s + 1)
         \/ End(layout'[g]) <= 32 * s + high'[s]
         \/ high'[s] = 32
  <2> SUFFICES ASSUME NEW s \in DOMAIN high', NEW g \in Fields, Placed(layout', g)
               PROVE  \/ Start(layout'[g]) >= 32 * (s + 1)
                      \/ End(layout'[g]) <= 32 * s + high'[s]
                      \/ high'[s] = 32
    OBVIOUS
  <2>1. high'[s] \in 0 .. 32 /\ s \in Nat
    BY <1>10
  <2>2. Start(layout'[g]) \in Nat /\ End(layout'[g]) \in Nat
    <3>1. lock \in [Fields -> LocOrNone] /\ Placed(lock, g)
      BY <1>1, <1>5 DEF TypeOK
    <3>2. layout'[g] = lock[g]
      BY <1>2, <1>5
    <3>3. QED
      BY <3>1, <3>2, PlacedLoc
  <2>3. CASE s \in SlotsOf(l) /\ g = f
    <3>1. \/ End(l) <= 32 * s + UsedIn(l, s) /\ UsedIn(l, s) <= 32
          \/ UsedIn(l, s) = 32
      BY <1>3, <2>3, UsedInReaches
    <3>2. UsedIn(l, s) \in Int /\ layout'[g] = l
      BY <1>3, <1>4, <2>3, UsedInReaches
    <3>3. high'[s] >= (IF UsedIn(l, s) < 32 THEN UsedIn(l, s) ELSE 32)
      BY <1>8, <2>3
    <3> HIDE DEF l
    <3>4. QED
      BY <2>1, <2>2, <3>1, <3>2, <3>3
  <2>4. CASE ~Touches(layout'[g], s)
    BY <2>1, <2>2, <2>4 DEF Touches
  <2>5. CASE s \in DOMAIN high /\ g # f
    <3>1. layout'[g] = layout[g] /\ Placed(layout, g)
      BY <1>4, <2>5 DEF Placed
    <3>2. \/ Start(layout[g]) >= 32 * (s + 1)
          \/ End(layout[g]) <= 32 * s + high[s]
          \/ high[s] = 32
      BY <1>1, <1>2, <2>5, <3>1 DEF HighInv
    <3>3. high[s] \in 0 .. 32 /\ high'[s] >= high[s]
      BY <1>1, <1>9, <2>5 DEF TypeOK
    <3>4. QED
      BY <2>1, <2>2, <3>1, <3>2, <3>3
  <2>6. g = f => layout'[g] = l
    BY <1>4
  <2>7. g # f => layout'[g] = layout[g] /\ Placed(layout, g)
    BY <1>4 DEF Placed
  <2>8. g = f /\ Touches(l, s) => s \in SlotsOf(l)
    BY <1>3, <2>1, SpannedBounds
  <2>9. g # f /\ Touches(layout[g], s) => s \in DOMAIN high
    BY <1>1, <1>2, <2>1, <2>7 DEF HighInv
  <2>10. QED
    BY <2>3, <2>4, <2>5, <2>6, <2>7, <2>8, <2>9
<1>14. HighInv'
  <2>1. \A s \in DOMAIN high' : s < append'
    BY <1>1, <1>2, <1>7, <1>11 DEF HighInv
  <2>2. QED
    BY <1>2, <1>5, <1>7, <1>12, <1>13, <2>1 DEF HighInv
<1>15. QED
  BY <1>1, <1>2, <1>6, <1>14
     DEF Pin, LayoutPart, TransientEmpty, CursorInv, AppendInv, NoOverlap, Locking

(* The second loop starts: what was pinned lies below append.               *)
LEMMA PinDoneStep ==
  ASSUME LayInv, PinDone
  PROVE  LayoutPart'
<1>1. TypeOK /\ AppendInv /\ HighInv /\ TransientEmpty /\ NoOverlap
  BY DEF LayInv, LayoutPart
<1>2. pc = "pin" /\ pc' = "place" /\ lock' = lock /\ append' = append /\ high' = high
      /\ layout' = layout
  BY DEF PinDone, compileVars
<1>3. \A f \in Fields : Placed(layout', f) => End(layout'[f]) <= 32 * append'
  <2> SUFFICES ASSUME NEW f \in Fields, Placed(layout, f)
               PROVE  End(layout[f]) <= 32 * append
    BY <1>2
  <2>1. layout[f] = lock[f] /\ Placed(lock, f)
    BY <1>1, <1>2 DEF HighInv, Placed
  <2>2. lock[f] \in Loc
    BY <1>1, <2>1, PlacedLoc DEF TypeOK
  <2>3. lock[f].slot + Spanned(lock[f]) <= append
    BY <1>1, <1>2, <2>1 DEF AppendInv, Locking
  <2>4. /\ End(lock[f]) <= 32 * (lock[f].slot + Spanned(lock[f]))
        /\ lock[f].slot + Spanned(lock[f]) \in Nat /\ append \in Nat /\ End(lock[f]) \in Nat
    BY <1>1, <2>2, SpannedBounds DEF TypeOK, Loc
  <2>5. QED
    BY <2>1, <2>3, <2>4
<1>4. AppendInv'
  BY <1>1, <1>2, <1>3 DEF AppendInv, Locking
<1>5. HighInv'
  BY <1>1, <1>2 DEF HighInv
<1>6. QED
  BY <1>1, <1>2, <1>4, <1>5 DEF PinDone, compileVars, LayoutPart, TransientEmpty, CursorInv, NoOverlap

(* pack_storage_fields_locked, second loop: a newcomer takes bytes above the  *)
(* mark of its slot, or slots at append.                                    *)
LEMMA PlaceStep ==
  ASSUME LayInv, NEW f \in Fields, PlaceLarge(f) \/ PlaceInGap(f) \/ PlaceAppended(f)
  PROVE  LayoutPart'
<1> DEFINE w == src[f].width
<1>1. TypeOK /\ TodoInv /\ AppendInv /\ HighInv /\ TransientEmpty /\ NoOverlap
  BY DEF LayInv, LayoutPart
<1>2. /\ pc = "place" /\ pc' = "place" /\ f \in todo /\ lock' = lock
      /\ tlayout' = tlayout /\ built' = built /\ live' = live
  BY DEF PlaceLarge, PlaceInGap, PlaceAppended, NextNewcomer
<1>3. w \in Nat \ {0} /\ append \in Nat
  BY <1>1, <1>2, TodoWidth DEF TypeOK
<1>4. layout \in [Fields -> LocOrNone] /\ Disjoint(layout)
  BY <1>1 DEF TypeOK, NoOverlap
<1>5. \A g \in Fields : Placed(layout, g) =>
        /\ Start(layout[g]) \in Nat /\ End(layout[g]) \in Nat
        /\ End(layout[g]) <= 32 * append
  BY <1>1, <1>2, <1>4, PlacedLoc DEF AppendInv
<1>6. \A s \in DOMAIN high : s \in Nat /\ high[s] \in 0 .. 32 /\ s < append
  BY <1>1, <1>2 DEF TypeOK, HighInv
<1>7. \A s \in DOMAIN high, g \in Fields : Placed(layout, g) =>
         \/ Start(layout[g]) >= 32 * (s + 1)
         \/ End(layout[g]) <= 32 * s + high[s]
         \/ high[s] = 32
  BY <1>1, <1>2 DEF HighInv
<1>8. high = [s \in DOMAIN high |-> high[s]]
  BY <1>1, <1>2 DEF HighInv
<1> DEFINE
      Room(l) ==
        /\ layout' = [layout EXCEPT ![f] = l]
        /\ End(l) <= 32 * append'
        /\ \A g \in Fields : Placed(layout, g) =>
             End(layout[g]) <= Start(l) \/ End(l) <= Start(layout[g])
        /\ \A s \in DOMAIN high' : \/ Start(l) >= 32 * (s + 1)
                                   \/ End(l) <= 32 * s + high'[s]
      Marks ==
        /\ append' \in Nat /\ append' >= append
        /\ \A s \in DOMAIN high' : s \in Nat /\ s < append' /\ high'[s] \in 0 .. 32
        /\ \A s \in DOMAIN high : s \in DOMAIN high' /\ high'[s] >= high[s]
        /\ \A s \in DOMAIN high' : s \notin DOMAIN high => s = append
        /\ high' = [s \in DOMAIN high' |-> high'[s]]
<1>9. SUFFICES (\E l \in Loc : Room(l)) /\ Marks
  <2> PICK l \in Loc : Room(l)
    BY <1>9
  <2>1. Disjoint(layout')
    BY <1>4, AddDisjoint
  <2>2. \A g \in Fields : Placed(layout', g) => End(layout'[g]) <= 32 * append'
    BY <1>3, <1>4, <1>5, <1>9 DEF Placed
  <2>3. \A s \in DOMAIN high', g \in Fields : Placed(layout', g) =>
           \/ Start(layout'[g]) >= 32 * (s + 1)
           \/ End(layout'[g]) <= 32 * s + high'[s]
           \/ high'[s] = 32
    <3> SUFFICES ASSUME NEW s \in DOMAIN high', NEW g \in Fields, Placed(layout', g)
                 PROVE  \/ Start(layout'[g]) >= 32 * (s + 1)
                        \/ End(layout'[g]) <= 32 * s + high'[s]
                        \/ high'[s] = 32
      OBVIOUS
    <3>1. CASE g = f
      BY <1>4, <3>1
    <3>2. CASE g # f
      <4>1. layout'[g] = layout[g] /\ Placed(layout, g)
        BY <1>4, <3>2 DEF Placed
      <4>2. Start(layout[g]) \in Nat /\ End(layout[g]) \in Nat /\ End(layout[g]) <= 32 * append
        BY <1>5, <4>1
      <4>3. s \in Nat /\ high'[s] \in 0 .. 32
        BY <1>9
      <4>4. CASE s \in DOMAIN high
        <5>1. \/ Start(layout[g]) >= 32 * (s + 1)
              \/ End(layout[g]) <= 32 * s + high[s]
              \/ high[s] = 32
          BY <1>7, <4>1, <4>4
        <5>2. high[s] \in 0 .. 32 /\ high'[s] >= high[s]
          BY <1>6, <1>9, <4>4
        <5>3. QED
          BY <4>1, <4>2, <4>3, <5>1, <5>2
      <4>5. CASE s \notin DOMAIN high
        BY <1>3, <1>9, <4>1, <4>2, <4>3, <4>5
      <4>6. QED
        BY <4>4, <4>5
    <3>3. QED
      BY <3>1, <3>2
  <2>4. HighInv'
    BY <1>2, <1>9, <2>3 DEF HighInv
  <2>5. AppendInv'
    <3>1. \A g \in Fields : Placed(lock, g) => lock[g].slot + Spanned(lock[g]) \in Nat
      BY <1>1, PlacedLoc, SpannedBounds DEF TypeOK, Loc
    <3>2. \A g \in Fields : Placed(lock, g) => lock[g].slot + Spanned(lock[g]) <= append
      BY <1>1, <1>2 DEF AppendInv, Locking
    <3>3. \A g \in Fields : Placed(lock, g) => lock[g].slot + Spanned(lock[g]) <= append'
      BY <1>3, <1>9, <3>1, <3>2
    <3>4. QED
      BY <1>2, <2>2, <3>3 DEF AppendInv, Locking
  <2>6. QED
    BY <1>1, <1>2, <2>1, <2>4, <2>5 DEF LayoutPart, TransientEmpty, CursorInv, NoOverlap
<1> HIDE DEF w, Room, Marks
<1>10. CASE PlaceLarge(f) \/ PlaceAppended(f)
  <2> DEFINE l == [slot |-> append, offset |-> 0, size |-> w]
  <2>1. l \in Loc /\ Start(l) = 32 * append /\ End(l) = 32 * append + w
    BY <1>3, NewLoc
  <2>2. layout' = [layout EXCEPT ![f] = l]
    BY <1>10 DEF PlaceLarge, PlaceAppended, w
  <2> HIDE DEF l
  <2>3. \A g \in Fields : Placed(layout, g) => End(layout[g]) <= Start(l)
    BY <1>5, <2>1
  <2>4. CASE PlaceLarge(f)
    <3>1. high' = high /\ append' = append + CeilWords(w)
      BY <2>4 DEF PlaceLarge, w
    <3>2. CeilWords(w) \in Nat /\ w <= 32 * CeilWords(w)
      BY <1>3, CeilWordsBounds
    <3>3. append' \in Nat /\ append' >= append /\ End(l) <= 32 * append'
      BY <1>3, <2>1, <3>1, <3>2
    <3>4. \A s \in DOMAIN high : s < append'
      BY <1>3, <1>6, <3>3
    <3>5. \A s \in DOMAIN high : Start(l) >= 32 * (s + 1)
      BY <1>3, <1>6, <2>1
    <3>6. Room(l)
      BY <2>2, <2>3, <3>1, <3>3, <3>5 DEF Room
    <3>7. Marks
      BY <1>6, <1>8, <3>1, <3>3, <3>4 DEF Marks
    <3>8. QED
      BY <2>1, <3>6, <3>7
  <2>5. CASE PlaceAppended(f)
    <3>1. /\ high' = [s \in DOMAIN high \cup {append} |-> IF s = append THEN w ELSE high[s]]
          /\ append' = append + 1 /\ w <= 32
      BY <2>5 DEF PlaceAppended, w
    <3>2. append' \in Nat /\ append' >= append /\ End(l) <= 32 * append'
      BY <1>3, <2>1, <3>1
    <3>3. \A s \in DOMAIN high' : s \in Nat /\ s < append' /\ high'[s] \in 0 .. 32
      BY <1>3, <1>6, <3>1
    <3>4. \A s \in DOMAIN high : s \in DOMAIN high' /\ high'[s] = high[s] /\ s # append
      BY <1>3, <1>6, <3>1
    <3>5. \A s \in DOMAIN high' : \/ Start(l) >= 32 * (s + 1)
                                  \/ End(l) <= 32 * s + high'[s]
      BY <1>3, <1>6, <2>1, <3>1
    <3>6. /\ \A s \in DOMAIN high' : s \notin DOMAIN high => s = append
          /\ high' = [s \in DOMAIN high' |-> high'[s]]
          /\ \A s \in DOMAIN high : s \in DOMAIN high' /\ high'[s] >= high[s]
      BY <1>6, <3>1, <3>4
    <3>7. Room(l)
      BY <2>2, <2>3, <3>2, <3>5 DEF Room
    <3>8. Marks
      BY <3>2, <3>3, <3>6 DEF Marks
    <3>9. QED
      BY <2>1, <3>7, <3>8
  <2>6. QED
    BY <1>10, <2>4, <2>5
<1>11. CASE PlaceInGap(f)
  <2>1. PICK r \in Gaps(w) :
          /\ layout' = [layout EXCEPT ![f] = [slot |-> r, offset |-> high[r], size |-> w]]
          /\ high' = [high EXCEPT ![r] = high[r] + w]
    BY <1>11 DEF PlaceInGap, w
  <2>2. r \in DOMAIN high /\ 32 - high[r] >= w
    BY <2>1 DEF Gaps
  <2>3. r \in Nat /\ high[r] \in 0 .. 32 /\ r < append
    BY <1>6, <2>2
  <2> DEFINE l == [slot |-> r, offset |-> high[r], size |-> w]
  <2>4. l \in Loc /\ Start(l) = 32 * r + high[r] /\ End(l) = 32 * r + high[r] + w
    <3>1. high[r] \in Nat
      BY <2>3
    <3>2. QED
      BY <1>3, <2>3, <3>1, NewLoc
  <2>5. layout' = [layout EXCEPT ![f] = l]
    BY <2>1 DEF l
  <2> HIDE DEF l
  <2>6. append' = append /\ DOMAIN high' = DOMAIN high /\ high'[r] = high[r] + w
        /\ (\A s \in DOMAIN high : s # r => high'[s] = high[s])
        /\ high' = [s \in DOMAIN high' |-> high'[s]]
    BY <1>8, <1>11, <2>1, <2>2 DEF PlaceInGap
  <2>7. End(l) <= 32 * append /\ End(l) <= 32 * r + 32
    BY <1>3, <2>2, <2>3, <2>4
  <2>8. \A g \in Fields : Placed(layout, g) =>
           End(layout[g]) <= Start(l) \/ End(l) <= Start(layout[g])
    <3> SUFFICES ASSUME NEW g \in Fields, Placed(layout, g)
                 PROVE  End(layout[g]) <= Start(l) \/ End(l) <= Start(layout[g])
      OBVIOUS
    <3>1. \/ Start(layout[g]) >= 32 * (r + 1)
          \/ End(layout[g]) <= 32 * r + high[r]
          \/ high[r] = 32
      BY <1>7, <2>2
    <3>2. high[r] # 32
      BY <1>3, <2>2, <2>3
    <3>3. Start(layout[g]) \in Nat /\ End(layout[g]) \in Nat
      BY <1>5
    <3>4. QED
      BY <1>3, <2>3, <2>4, <2>7, <3>1, <3>2, <3>3
  <2>9. \A s \in DOMAIN high : s \in Nat /\ s < append /\ high'[s] \in 0 .. 32 /\ high'[s] >= high[s]
    BY <1>3, <1>6, <2>2, <2>3, <2>6
  <2>10. \A s \in DOMAIN high : \/ Start(l) >= 32 * (s + 1)
                                \/ End(l) <= 32 * s + high'[s]
    <3> SUFFICES ASSUME NEW s \in DOMAIN high
                 PROVE  Start(l) >= 32 * (s + 1) \/ End(l) <= 32 * s + high'[s]
      OBVIOUS
    <3>1. s \in Nat /\ high'[s] \in Nat
      BY <2>9
    <3>2. CASE s = r
      BY <1>3, <2>3, <2>4, <2>6, <3>2
    <3>3. CASE s > r
      BY <1>3, <2>2, <2>3, <2>4, <3>1, <3>3
    <3>4. CASE s < r
      BY <1>3, <2>3, <2>4, <3>1, <3>4
    <3>5. QED
      BY <2>3, <3>1, <3>2, <3>3, <3>4
  <2>11. Room(l)
    BY <2>5, <2>6, <2>7, <2>8, <2>10 DEF Room
  <2>12. Marks
    BY <1>3, <2>6, <2>9 DEF Marks
  <2>13. QED
    BY <2>4, <2>11, <2>12
<1>12. QED
  BY <1>10, <1>11

(* Loading the manifest: append is past every committed field.              *)
LEMMA BeginStep ==
  ASSUME LayInv, NEW s \in [Fields -> Decl], NEW p \in BOOLEAN, BeginCompile(s, p)
  PROVE  LayoutPart'
<1>1. TypeOK /\ NoOverlap
  BY DEF LayInv, LayoutPart
<1>2. /\ layout' = NoLayout /\ tlayout' = NoLayout /\ high' = NoHigh
      /\ pc' \in {"laid", "check", "fresh"}
      /\ lock' = lock /\ built' = built /\ live' = live
  BY DEF BeginCompile
<1>3. \A f \in Fields : Placed(lock, f) => lock[f].slot + Spanned(lock[f]) <= append'
  BY DEF BeginCompile, CommittedEnds
<1>4. AppendInv'
  BY <1>2, <1>3 DEF AppendInv, Locking
<1>5. CursorInv' /\ HighInv'
  BY <1>2 DEF CursorInv, HighInv, NoLayout, Placed
<1>6. NoOverlap'
  BY <1>1, <1>2, EmptyDisjoint DEF NoOverlap
<1>7. QED
  BY <1>2, <1>4, <1>5, <1>6 DEF LayoutPart, TransientEmpty

(* The end of a compile: all that is left is the manifest, the build and the *)
(* deployed layout.                                                         *)
LEMMA ExitStep ==
  ASSUME Exit, Disjoint(lock'), Disjoint(built'), Disjoint(live')
  PROVE  LayoutPart'
<1>1. /\ pc' = "idle" /\ layout' = NoLayout /\ tlayout' = NoLayout
  BY DEF Exit
<1>2. QED
  BY <1>1, EmptyDisjoint
     DEF LayoutPart, TransientEmpty, CursorInv, AppendInv, HighInv, NoOverlap, Locking

(* Steps of the compile that place nothing.                                 *)
LEMMA PassStep ==
  ASSUME LayInv, BeginTransient \/ EndTransient \/ CheckRemoved
  PROVE  LayoutPart'
<1>1. TypeOK /\ CursorInv /\ AppendInv /\ HighInv /\ TransientEmpty /\ NoOverlap
  BY DEF LayInv, LayoutPart
<1>2. /\ lock' = lock /\ layout' = layout /\ tlayout' = tlayout
      /\ high' = high /\ append' = append /\ built' = built /\ live' = live
  BY DEF BeginTransient, EndTransient, CheckRemoved, compileVars
<1>3. NoOverlap'
  BY <1>1, <1>2 DEF NoOverlap
<1>4. CASE BeginTransient
  <2>1. pc' = "transient" /\ cursor' = TopOfSlot0
    BY <1>4 DEF BeginTransient
  <2>2. AppendInv' /\ HighInv'
    BY <2>1 DEF AppendInv, HighInv, Locking
  <2>3. CASE \A f \in Fields : ~Placed(tlayout, f)
    BY <1>2, <1>3, <2>1, <2>2, <2>3 DEF LayoutPart, TransientEmpty, CursorInv
  <2>4. tlayout = NoLayout
    BY <1>1, <1>4 DEF TransientEmpty, BeginTransient
  <2>5. QED
    BY <2>3, <2>4 DEF NoLayout, Placed
<1>5. CASE EndTransient
  <2>1. pc' = "laid"
    BY <1>5 DEF EndTransient
  <2>2. QED
    BY <1>3, <2>1 DEF LayoutPart, TransientEmpty, CursorInv, AppendInv, HighInv, Locking
<1>6. CASE CheckRemoved
  <2>1. pc = "check" /\ pc' = "pin" /\ DOMAIN high = {} /\ layout = NoLayout
    BY <1>1, <1>6, StartValues DEF CheckRemoved, AppendInv
  <2>2. AppendInv'
    BY <1>1, <1>2, <2>1 DEF AppendInv, Locking
  <2>3. HighInv'
    <3>1. high = [s \in DOMAIN high |-> high[s]]
      BY <1>1, <2>1 DEF AppendInv, NoHigh
    <3>2. QED
      BY <1>2, <2>1, <3>1 DEF HighInv, NoLayout, Placed
  <2>4. QED
    BY <1>1, <1>2, <1>3, <2>1, <2>2, <2>3 DEF LayoutPart, TransientEmpty, CursorInv
<1>7. QED
  BY <1>4, <1>5, <1>6

(* Every step of the compiler, the author and the proxy keeps the layout     *)
(* invariant.                                                               *)
LEMMA LayoutStep == LayInv /\ [Next]_vars => LayInv'
<1> SUFFICES ASSUME LayInv, [Next]_vars PROVE LayoutPart'
  BY TypeStep DEF LayInv
<1>1. NoOverlap
  BY DEF LayInv, LayoutPart
<1>2. CASE UNCHANGED vars
  BY <1>2 DEF vars, LayInv, LayoutPart, TransientEmpty, CursorInv, AppendInv, HighInv, NoOverlap,
              Locking
<1>3. CASE \E s \in [Fields -> Decl], p \in BOOLEAN : BeginCompile(s, p)
  BY <1>3, BeginStep
<1>4. CASE \E f \in Fields : PackLarge(f) \/ PackSmall(f)
  BY <1>4, PackStep
<1>5. CASE BeginTransient \/ EndTransient \/ CheckRemoved
  BY <1>5, PassStep
<1>6. CASE PinDone
  BY <1>6, PinDoneStep
<1>7. CASE \E f \in Fields : Pin(f)
  BY <1>7, PinStep
<1>8. CASE \E f \in Fields : PlaceLarge(f) \/ PlaceInGap(f) \/ PlaceAppended(f)
  BY <1>8, PlaceStep
<1>9. CASE RejectRemoved \/ (\E f \in Fields : RejectResized(f)) \/ BuildFails \/ Emit
  BY <1>1, <1>9, ExitStep DEF RejectRemoved, RejectResized, BuildFails, Emit, NoOverlap
<1>10. CASE \E o \in {"untouched", "cut"} : SaveFails(o)
  BY <1>1, <1>10, ExitStep, EmptyDisjoint DEF SaveFails, NoOverlap
<1>11. CASE Save
  <2>1. pc' = "saved" /\ lock' = layout /\ UNCHANGED <<built, live, compileVars>>
    BY <1>11 DEF Save
  <2>2. QED
    BY <1>1, <2>1
       DEF compileVars, LayoutPart, TransientEmpty, CursorInv, AppendInv, HighInv, NoOverlap, Locking
<1>12. CASE Upgrade \/ RestoreLock
  <2>1. /\ pc = "idle" /\ pc' = "idle" /\ lock' \in {lock, built} /\ built' = built
        /\ live' \in {live, built} /\ UNCHANGED compileVars
    BY <1>12 DEF Upgrade, RestoreLock
  <2>2. QED
    BY <1>1, <2>1
       DEF compileVars, LayoutPart, TransientEmpty, CursorInv, AppendInv, HighInv, NoOverlap, Locking
<1>13. QED
  BY <1>2, <1>3, <1>4, <1>5, <1>6, <1>7, <1>8, <1>9, <1>10, <1>11, <1>12 DEF Next, Compile

(* No two fields share a byte, whatever the fields, their widths and the      *)
(* history of compiles, rejections and upgrades.                             *)
THEOREM LayoutDisjoint == Spec => []NoOverlap
<1>1. Init => LayInv
  BY TypeInit, LayoutInit DEF LayInv
<1>2. LayInv /\ [Next]_vars => LayInv'
  BY LayoutStep
<1>3. LayInv => NoOverlap
  BY DEF LayInv, LayoutPart
<1>4. QED
  BY <1>1, <1>2, <1>3, PTL DEF Spec

-----------------------------------------------------------------------------
(* Fields and slots.                                                        *)

(* Every layout, the last build's too, keeps its fields within slots.         *)
AlignInv == WithinSlots /\ Aligned(built)

(* A location the generated code can address.                               *)
Fitting(l) == IF l.size <= 32 THEN l.offset + l.size <= 32 ELSE l.offset = 0

LEMMA EmptyAligned == Aligned(NoLayout)
BY DEF Aligned, NoLayout, Placed

LEMMA AddAligned ==
  ASSUME NEW lay \in [Fields -> LocOrNone], Aligned(lay), NEW f \in Fields, NEW l, Fitting(l)
  PROVE  Aligned([lay EXCEPT ![f] = l])
BY DEF Aligned, Placed, Fitting

(* Either packer gives a field of at most a word what is left of one slot,    *)
(* and a wider one slots of its own.                                        *)
LEMMA PlacedFits ==
  ASSUME TypeOK, TodoInv, NEW f \in Fields
  PROVE  /\ PackLarge(f) \/ PackSmall(f) => \E l : Fitting(l) /\ Assign(f, l)
         /\ PlaceLarge(f) \/ PlaceInGap(f) \/ PlaceAppended(f) =>
              \E l : Fitting(l) /\ layout' = [layout EXCEPT ![f] = l]
<1> DEFINE w == src[f].width
<1>1. ASSUME f \in todo, pc \in {"check", "pin", "place", "fresh", "transient"}
      PROVE  w \in Nat \ {0}
  BY <1>1, TodoWidth
<1>2. ASSUME PackLarge(f) PROVE \E l : Fitting(l) /\ Assign(f, l)
  <2> DEFINE n == IF cursor.used > 0 THEN cursor.slot + 1 ELSE cursor.slot
  <2>1. Assign(f, [slot |-> n, offset |-> 0, size |-> w]) /\ w > 32 /\ w \in Nat
    BY <1>1, <1>2 DEF PackLarge, Widest
  <2>2. Fitting([slot |-> n, offset |-> 0, size |-> w])
    BY <2>1 DEF Fitting
  <2>3. QED
    BY <2>1, <2>2
<1>3. ASSUME PackSmall(f) PROVE \E l : Fitting(l) /\ Assign(f, l)
  <2> DEFINE fits == cursor.used + w <= 32
             n == IF fits THEN cursor.slot ELSE cursor.slot + 1
             u == IF fits THEN cursor.used ELSE 0
  <2>1. Assign(f, [slot |-> n, offset |-> u, size |-> w]) /\ w <= 32 /\ w \in Nat
    BY <1>1, <1>3 DEF PackSmall, Widest
  <2>2. u + w <= 32
    BY <2>1 DEF TypeOK
  <2>3. Fitting([slot |-> n, offset |-> u, size |-> w])
    BY <2>1, <2>2 DEF Fitting
  <2>4. QED
    BY <2>1, <2>3
<1>4. ASSUME PlaceLarge(f) PROVE \E l : Fitting(l) /\ layout' = [layout EXCEPT ![f] = l]
  <2>1. layout' = [layout EXCEPT ![f] = [slot |-> append, offset |-> 0, size |-> w]]
        /\ w > 32 /\ w \in Nat
    BY <1>1, <1>4 DEF PlaceLarge, NextNewcomer
  <2>2. Fitting([slot |-> append, offset |-> 0, size |-> w])
    BY <2>1 DEF Fitting
  <2>3. QED
    BY <2>1, <2>2
<1>5. ASSUME PlaceAppended(f) PROVE \E l : Fitting(l) /\ layout' = [layout EXCEPT ![f] = l]
  <2>1. layout' = [layout EXCEPT ![f] = [slot |-> append, offset |-> 0, size |-> w]]
        /\ w <= 32 /\ w \in Nat
    BY <1>1, <1>5 DEF PlaceAppended, NextNewcomer
  <2>2. Fitting([slot |-> append, offset |-> 0, size |-> w])
    BY <2>1 DEF Fitting
  <2>3. QED
    BY <2>1, <2>2
<1>6. ASSUME PlaceInGap(f) PROVE \E l : Fitting(l) /\ layout' = [layout EXCEPT ![f] = l]
  <2>1. PICK s \in Gaps(w) : layout' = [layout EXCEPT ![f] = [slot |-> s, offset |-> high[s], size |-> w]]
    BY <1>6 DEF PlaceInGap
  <2>2. w \in Nat /\ w <= 32
    BY <1>1, <1>6 DEF PlaceInGap, NextNewcomer
  <2>3. high[s] \in 0 .. 32 /\ high[s] + w <= 32
    BY <2>2 DEF Gaps, TypeOK
  <2>4. Fitting([slot |-> s, offset |-> high[s], size |-> w])
    BY <2>2, <2>3 DEF Fitting
  <2>5. QED
    BY <2>1, <2>4
<1>7. QED
  BY <1>2, <1>3, <1>4, <1>5, <1>6

LEMMA AlignStep == TypeOK /\ TodoInv /\ AlignInv /\ [Next]_vars => AlignInv'
<1> SUFFICES ASSUME TypeOK, TodoInv, AlignInv, [Next]_vars PROVE AlignInv'
  OBVIOUS
<1> USE DEF AlignInv, WithinSlots
<1>1. /\ layout \in [Fields -> LocOrNone] /\ tlayout \in [Fields -> LocOrNone]
      /\ lock \in [Fields -> LocOrNone]
  BY DEF TypeOK
<1>2. CASE UNCHANGED vars
  BY <1>2 DEF vars, Aligned, Placed
<1>3. CASE \E s \in [Fields -> Decl], p \in BOOLEAN : BeginCompile(s, p)
  BY <1>3, EmptyAligned DEF BeginCompile
<1>4. ASSUME NEW f \in Fields, PackLarge(f) \/ PackSmall(f) PROVE AlignInv'
  <2>1. PICK l : Fitting(l) /\ Assign(f, l)
    BY <1>4, PlacedFits
  <2>2. Aligned([layout EXCEPT ![f] = l]) /\ Aligned([tlayout EXCEPT ![f] = l])
    BY <1>1, <2>1, AddAligned
  <2>3. QED
    BY <2>1, <2>2 DEF Assign
<1>5. ASSUME NEW f \in Fields, Pin(f) PROVE AlignInv'
  <2>1. layout' = [layout EXCEPT ![f] = lock[f]] /\ Placed(lock, f)
        /\ UNCHANGED <<lock, tlayout, built, live>>
    BY <1>5 DEF Pin
  <2>2. Fitting(lock[f])
    BY <2>1 DEF Aligned, Fitting
  <2>3. QED
    BY <1>1, <2>1, <2>2, AddAligned
<1>6. ASSUME NEW f \in Fields, PlaceLarge(f) \/ PlaceInGap(f) \/ PlaceAppended(f)
      PROVE  AlignInv'
  <2>1. PICK l : Fitting(l) /\ layout' = [layout EXCEPT ![f] = l]
    BY <1>6, PlacedFits
  <2>2. UNCHANGED <<lock, tlayout, built, live>>
    BY <1>6 DEF PlaceLarge, PlaceInGap, PlaceAppended
  <2>3. QED
    BY <1>1, <2>1, <2>2, AddAligned
<1>7. CASE \/ RejectRemoved \/ (\E f \in Fields : RejectResized(f)) \/ BuildFails \/ Emit
           \/ \E o \in {"untouched", "cut"} : SaveFails(o)
  BY <1>7, EmptyAligned DEF RejectRemoved, RejectResized, BuildFails, Emit, SaveFails, Exit
<1>8. CASE \/ BeginTransient \/ EndTransient \/ CheckRemoved \/ PinDone \/ Save
           \/ Upgrade \/ RestoreLock
  BY <1>8 DEF BeginTransient, EndTransient, CheckRemoved, PinDone, Save, Upgrade, RestoreLock,
              compileVars
<1>9. QED
  BY <1>2, <1>3, <1>4, <1>5, <1>6, <1>7, <1>8 DEF Next, Compile

(* A field of at most a word lies in one slot and a wider one starts one, in   *)
(* the manifest, in every layout computed, and in the contract that is live.  *)
THEOREM StaysWithinSlots == Spec => []WithinSlots
<1>1. Init => TypeOK /\ TodoInv /\ AlignInv
  BY TypeInit, EmptyAligned DEF Init, AlignInv, WithinSlots
<1>2. TypeOK /\ TodoInv /\ AlignInv /\ [Next]_vars => TypeOK' /\ TodoInv' /\ AlignInv'
  BY TypeStep, AlignStep
<1>3. AlignInv => WithinSlots
  BY DEF AlignInv
<1>4. QED
  BY <1>1, <1>2, <1>3, PTL DEF Spec

-----------------------------------------------------------------------------
(***************************************************************************)
(* What the manifest guarantees a proxy's state, proved for a contract the   *)
(* author never takes out of the source (MayDrop = FALSE): the manifest      *)
(* commits every field of the last build, so an upgrade moves none.          *)
(*                                                                         *)
(* The argument follows the manifest through one compile.  Every placed      *)
(* field of lock is either still to be pinned or already in layout at its    *)
(* committed location; so when the loops are done layout extends lock; Save  *)
(* then makes layout the manifest, and Emit makes it the build.              *)
(***************************************************************************)

(* A compile of a present contract is running, with a manifest that parses. *)
Compiling == pc # "idle"

(* The pins made so far, and those still to come, cover the manifest.       *)
PinInv ==
  /\ pc = "pin" => \A f \in Fields : Placed(lock, f) => f \in todo \/ layout[f] = lock[f]
  /\ pc \in {"place", "fresh", "transient", "laid", "saved"} => Extends(layout, lock)
  /\ pc = "place" => \A f \in todo : ~Placed(lock, f)
  /\ pc = "fresh" => lock = NoLayout
  /\ pc = "saved" => lock = layout

(* The manifest holds the contract as soon as one compile has saved it.     *)
FileInv ==
  /\ lockFile # "without"
  /\ lockFile # "with" => lock = NoLayout
  /\ Compiling => present /\ lockFile # "corrupt"

CoverInv == TypeOK /\ TodoInv /\ PinInv /\ FileInv /\ LockCoversBuilds

LEMMA CoverInit == Init => CoverInv
BY TypeInit DEF Init, CoverInv, PinInv, FileInv, LockCoversBuilds, Compiling, Extends,
                NoLayout, Placed

(* The manifest keeps covering the builds through a step of a compile that   *)
(* touches none of them.                                                    *)
LEMMA CoverFrame ==
  ASSUME CoverInv, TypeOK', TodoInv', PinInv',
         UNCHANGED <<lockFile, lock, built, live>>,
         present' = present, pc # "idle"
  PROVE  CoverInv'
BY DEF CoverInv, FileInv, LockCoversBuilds, Compiling, Extends, Placed

(* A compile that ends before Save, or after it, leaves the manifest alone.  *)
LEMMA CoverExit ==
  ASSUME TypeOK', TodoInv', Exit, FileInv, lockFile' = lockFile, lock' = lock,
         LockCoversBuilds'
  PROVE  CoverInv'
<1>1. pc' = "idle"
  BY DEF Exit
<1>2. QED
  BY <1>1 DEF CoverInv, PinInv, FileInv, Compiling

LEMMA CoverStep ==
  ASSUME MayDrop = FALSE
  PROVE  CoverInv /\ [Next]_vars => CoverInv'
<1> SUFFICES ASSUME CoverInv, [Next]_vars PROVE CoverInv'
  OBVIOUS
<1>1. TypeOK' /\ TodoInv'
  BY TypeStep DEF CoverInv
<1>2. TypeOK /\ TodoInv /\ PinInv /\ FileInv /\ LockCoversBuilds
  BY DEF CoverInv
<1>3. CASE UNCHANGED vars
  BY <1>1, <1>2, <1>3
     DEF vars, CoverInv, PinInv, FileInv, LockCoversBuilds, Compiling, Extends, Placed
<1>4. CASE \E s \in [Fields -> Decl], p \in BOOLEAN : BeginCompile(s, p)
  <2> PICK s \in [Fields -> Decl], p \in BOOLEAN : BeginCompile(s, p)
    BY <1>4
  <2>1. /\ p = TRUE /\ present' = TRUE /\ lockFile # "corrupt"
        /\ UNCHANGED <<lockFile, lock, built, live>>
        /\ pc' = IF lockFile = "with" THEN "check" ELSE "fresh"
    BY DEF BeginCompile
  <2>2. PinInv'
    <3>1. lockFile # "with" => lock = NoLayout
      BY <1>2 DEF FileInv
    <3>2. QED
      BY <2>1, <3>1 DEF PinInv, Extends, NoLayout, Placed
  <2>3. QED
    BY <1>1, <1>2, <2>1, <2>2
       DEF CoverInv, FileInv, LockCoversBuilds, Compiling, Extends, Placed
<1>5. CASE \E f \in Fields : PackLarge(f) \/ PackSmall(f)
  <2> PICK f \in Fields : PackLarge(f) \/ PackSmall(f)
    BY <1>5
  <2>1. PICK l : Assign(f, l) /\ pc \in {"fresh", "transient"}
    BY DEF PackLarge, PackSmall
  <2>2. PinInv'
    BY <1>2, <2>1 DEF Assign, PinInv, Extends, NoLayout, Placed
  <2>3. QED
    BY <1>1, <2>1, <2>2, CoverFrame DEF Assign
<1>6. CASE BeginTransient \/ EndTransient
  <2>1. PinInv'
    BY <1>2, <1>6 DEF BeginTransient, EndTransient, compileVars, PinInv, Extends, Placed
  <2>2. QED
    BY <1>1, <1>6, <2>1, CoverFrame DEF BeginTransient, EndTransient, compileVars
<1>7. CASE CheckRemoved
  <2>1. PinInv'
    BY <1>2, <1>7 DEF CheckRemoved, RemovedField, compileVars, PinInv
  <2>2. QED
    BY <1>1, <1>7, <2>1, CoverFrame DEF CheckRemoved, compileVars
<1>8. CASE \E f \in Fields : Pin(f)
  <2> PICK f \in Fields : Pin(f)
    BY <1>8
  <2>1. PinInv'
    BY <1>2 DEF Pin, PinInv, TypeOK
  <2>2. QED
    BY <1>1, <2>1, CoverFrame DEF Pin
<1>9. CASE PinDone
  <2>1. PinInv'
    BY <1>2, <1>9 DEF PinDone, compileVars, PinInv, Extends
  <2>2. QED
    BY <1>1, <1>9, <2>1, CoverFrame DEF PinDone, compileVars
<1>10. CASE \E f \in Fields : PlaceLarge(f) \/ PlaceInGap(f) \/ PlaceAppended(f)
  <2> PICK f \in Fields : PlaceLarge(f) \/ PlaceInGap(f) \/ PlaceAppended(f)
    BY <1>10
  <2>1. /\ pc = "place" /\ f \in todo /\ todo' = todo \ {f} /\ pc' = pc /\ lock' = lock
    BY DEF PlaceLarge, PlaceInGap, PlaceAppended, NextNewcomer
  <2>2. \E l : layout' = [layout EXCEPT ![f] = l]
    <3>1. CASE PlaceInGap(f)
      BY <3>1 DEF PlaceInGap
    <3>2. CASE PlaceLarge(f) \/ PlaceAppended(f)
      BY <3>2 DEF PlaceLarge, PlaceAppended
    <3>3. QED
      BY <3>1, <3>2
  <2>3. PinInv'
    BY <1>2, <2>1, <2>2 DEF PinInv, Extends, TypeOK, Placed
  <2>4. UNCHANGED <<lockFile, lock, built, live>> /\ present' = present
    BY DEF PlaceLarge, PlaceInGap, PlaceAppended
  <2>5. QED
    BY <1>1, <2>1, <2>3, <2>4, CoverFrame
<1>11. CASE RejectRemoved \/ (\E f \in Fields : RejectResized(f)) \/ BuildFails
  <2>1. Exit /\ UNCHANGED <<lockFile, lock, built, live>>
    BY <1>11 DEF RejectRemoved, RejectResized, BuildFails
  <2>2. LockCoversBuilds'
    BY <1>2, <2>1 DEF LockCoversBuilds, Extends, Placed
  <2>3. QED
    BY <1>1, <1>2, <2>1, <2>2, CoverExit
<1>12. CASE \E o \in {"untouched", "cut"} : SaveFails(o)
  <2>1. Exit /\ pc = "laid" /\ UNCHANGED <<built, live>>
    BY <1>12 DEF SaveFails
  <2>2. pc' = "idle"
    BY <2>1 DEF Exit
  <2>3. \/ lockFile' = lockFile /\ lock' = lock
        \/ lockFile' = "corrupt" /\ lock' = NoLayout
    BY <1>12 DEF SaveFails
  <2>4. LockCoversBuilds'
    BY <1>2, <2>1, <2>3 DEF LockCoversBuilds, Extends, Placed
  <2>5. FileInv' /\ PinInv'
    BY <1>2, <2>2, <2>3 DEF FileInv, PinInv, Compiling
  <2>6. QED
    BY <1>1, <2>4, <2>5 DEF CoverInv
<1>13. CASE Save
  <2>1. /\ pc = "laid" /\ pc' = "saved" /\ lock' = layout /\ layout' = layout
        /\ present = TRUE /\ present' = TRUE /\ lockFile' = "with" /\ lockFile # "corrupt"
        /\ built' = built /\ live' = live
    BY <1>2, <1>13 DEF Save, compileVars, FileInv, Compiling
  <2>2. Extends(layout, lock) /\ Extends(lock, built) /\ Extends(built, live)
    BY <1>2, <2>1 DEF PinInv, LockCoversBuilds
  <2>3. LockCoversBuilds'
    BY <2>1, <2>2 DEF LockCoversBuilds, Extends, Placed
  <2>4. PinInv' /\ FileInv'
    BY <2>1 DEF PinInv, FileInv, Compiling, Extends
  <2>5. QED
    BY <1>1, <2>3, <2>4 DEF CoverInv
<1>14. CASE Emit
  <2>1. /\ pc = "saved" /\ Exit /\ UNCHANGED <<lockFile, lock, live>>
        /\ built' = layout
    BY <1>2, <1>14 DEF Emit, FileInv, Compiling
  <2>2. lock = layout /\ lockFile # "corrupt" /\ Extends(lock, built) /\ Extends(built, live)
    BY <1>2, <2>1 DEF PinInv, LockCoversBuilds, FileInv, Compiling
  <2>3. LockCoversBuilds'
    BY <2>1, <2>2 DEF LockCoversBuilds, Extends, Placed
  <2>4. QED
    BY <1>1, <1>2, <2>1, <2>3, CoverExit
<1>15. CASE Upgrade \/ RestoreLock
  <2>1. pc = "idle" /\ pc' = "idle" /\ built' = built
    BY <1>15 DEF Upgrade, RestoreLock
  <2>2. LockCoversBuilds'
    BY <1>2, <1>15 DEF Upgrade, RestoreLock, LockCoversBuilds, Extends, Placed, compileVars
  <2>3. FileInv' /\ PinInv'
    BY <1>2, <1>15, <2>1 DEF Upgrade, RestoreLock, FileInv, PinInv, Compiling
  <2>4. QED
    BY <1>1, <2>2, <2>3 DEF CoverInv
<1>16. QED
  BY <1>3, <1>4, <1>5, <1>6, <1>7, <1>8, <1>9, <1>10, <1>11, <1>12, <1>13, <1>14, <1>15
     DEF Next, Compile

(* Only an upgrade changes what is live, and it puts the last build there.   *)
LEMMA OnlyUpgrade == [Next]_vars => live' = live \/ live' = built
BY DEF Next, Compile, vars, BeginCompile, PackLarge, PackSmall, Assign, BeginTransient,
       EndTransient, CheckRemoved, RejectRemoved, RejectResized, Pin, PinDone, PlaceLarge,
       PlaceInGap, PlaceAppended, Save, SaveFails, BuildFails, Emit, Upgrade, RestoreLock

(* The manifest on disk never falls behind the last build, nor the build      *)
(* behind the proxy.                                                        *)
THEOREM ManifestCovers ==
  ASSUME MayDrop = FALSE
  PROVE  Spec => []LockCoversBuilds
<1>1. CoverInv /\ [Next]_vars => CoverInv'
  BY CoverStep
<1>2. CoverInv => LockCoversBuilds
  BY DEF CoverInv
<1>3. QED
  BY CoverInit, <1>1, <1>2, PTL DEF Spec

(* An upgrade keeps every live field at its slot, offset and size.            *)
THEOREM UpgradesKeepFields ==
  ASSUME MayDrop = FALSE
  PROVE  Spec => UpgradeKeepsFields
<1>1. CoverInv /\ [Next]_vars => CoverInv'
  BY CoverStep
<1>2. CoverInv /\ [Next]_vars =>
        [\A f \in Fields : Placed(live, f) => live'[f] = live[f]]_vars
  BY OnlyUpgrade DEF CoverInv, LockCoversBuilds, Extends
<1>3. QED
  BY CoverInit, <1>1, <1>2, PTL DEF Spec, UpgradeKeepsFields
=============================================================================
