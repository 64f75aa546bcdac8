---------------------------- MODULE StorageLayout ----------------------------
(***************************************************************************)
(* How gumc gives a contract's fields their storage slots, and how the      *)
(* --lock manifest keeps those slots stable while the source evolves        *)
(* (gumc/src/codegen/layout.rs, EvmYulBackend::generate).                   *)
(*                                                                         *)
(* One behaviour is a sequence of compiles of one contract.  The author may *)
(* rewrite the source before each one; a compile loads the manifest, lays   *)
(* the fields out one loop iteration at a time, writes the manifest back,   *)
(* and only then generates code, which may still fail.  What it emits can   *)
(* be put behind the proxy at any later moment.                             *)
(***************************************************************************)
EXTENDS Integers

CONSTANTS
  Fields,    \* field names; a name is a number, its rank in name order
  Widths,    \* the byte widths field_byte_width may return
  Kinds,     \* which of "storage" and "transient" a field may be declared
  MayDrop,   \* may the author compile a source without this contract?
  NoLoc      \* the field has no location

ASSUME FieldsAssumption == Fields \subseteq Nat
ASSUME WidthsAssumption == Widths \subseteq Nat \ {0}
ASSUME KindsAssumption  == Kinds \subseteq {"storage", "transient"}
ASSUME DropAssumption   == MayDrop \in BOOLEAN

VARIABLES
  lockFile,  \* the manifest on disk, and whether it has an entry for the contract
  lock,      \* the locations that entry commits
  src,       \* the declarations being compiled
  present,   \* does the source being compiled hold the contract at all?
  pc,        \* where generate() stands
  todo,      \* fields the current loop has not reached
  layout,    \* persistent locations assigned so far
  tlayout,   \* transient locations assigned so far
  high,      \* high_water: bytes used at the bottom of a committed or new slot
  append,    \* first slot beyond everything committed or appended
  cursor,    \* pack_storage_fields' slot and used
  built,     \* layout of the last bytecode emitted (its manifest is in version control)
  live       \* layout of the bytecode behind the proxy

vars == <<lockFile, lock, src, present, pc, todo, layout, tlayout, high,
          append, cursor, built, live>>

compileVars == <<src, present, todo, layout, tlayout, high, append, cursor>>

-----------------------------------------------------------------------------
(* Locations.  A byte of storage has the address slot * 32 + offset.        *)

Word == 32

Loc == [slot : Nat, offset : Nat, size : Nat \ {0}]

NoLayout == [f \in Fields |-> NoLoc]

CeilWords(n) == (n + 31) \div 32

Start(l) == l.slot * 32 + l.offset
End(l)   == l.slot * 32 + l.offset + l.size

Placed(lay, f) == lay[f] # NoLoc

(* Number of slots a location touches, at least one.                        *)
Spanned(l) == IF CeilWords(l.offset + l.size) = 0 THEN 1
              ELSE CeilWords(l.offset + l.size)

SlotsOf(l) == l.slot .. (l.slot + Spanned(l) - 1)

(* Slip: the offset of the last slot's bytes is forgotten.                  *)
UsedInWithoutOffset(l, s) == IF s + 1 = l.slot + Spanned(l)
                             THEN l.size - (s - l.slot) * 32
                             ELSE 32

(* Bytes that l uses of its slot s: all of it, except in the last one.      *)
UsedIn(l, s) == IF s + 1 = l.slot + Spanned(l)
                THEN (l.offset + l.size) - (s - l.slot) * 32
                ELSE 32

Overlap(a, b) == Start(a) < End(b) /\ Start(b) < End(a)

Disjoint(lay) ==
  \A f, g \in Fields :
     f # g /\ Placed(lay, f) /\ Placed(lay, g) => ~Overlap(lay[f], lay[g])

-----------------------------------------------------------------------------
(* Declarations.  "none" stands for a name the contract does not declare,   *)
(* and for a const field, which owns no slot.                               *)

Decl == [kind : {"none"}, width : {0}] \cup [kind : Kinds, width : Widths]

Persistent(s) == {f \in Fields : s[f].kind = "storage"}
Transient(s)  == {f \in Fields : s[f].kind = "transient"}

(* size_sorted_indices: the widest field first.  Ties go by declaration      *)
(* order, which is the author's choice, so any of the widest may be next.   *)
Widest(f) == /\ f \in todo
             /\ \A g \in todo : src[g].width <= src[f].width

(* newcomers.sort_by: the widest first, ties by name.                       *)
NextNewcomer(f) ==
  /\ f \in todo
  /\ \A g \in todo : \/ src[g].width < src[f].width
                     \/ src[g].width = src[f].width /\ f <= g

(* One past the last slot of every committed field, and 0.                   *)
CommittedEnds ==
  {0} \cup {lock[f].slot + Spanned(lock[f]) : f \in {g \in Fields : Placed(lock, g)}}

-----------------------------------------------------------------------------

NoSource  == [f \in Fields |-> [kind |-> "none", width |-> 0]]
NoHigh    == [s \in {} |-> 0]
TopOfSlot0 == [slot |-> 0, used |-> 0]

Init ==
  /\ lockFile = "absent"
  /\ lock = NoLayout
  /\ pc = "idle"
  /\ src = NoSource
  /\ present = FALSE
  /\ todo = {}
  /\ layout = NoLayout
  /\ tlayout = NoLayout
  /\ high = NoHigh
  /\ append = 0
  /\ cursor = TopOfSlot0
  /\ built = NoLayout
  /\ live = NoLayout

(* The compiler process ends: all it computed is forgotten.                 *)
Exit ==
  /\ pc' = "idle"
  /\ src' = NoSource
  /\ present' = FALSE
  /\ todo' = {}
  /\ layout' = NoLayout
  /\ tlayout' = NoLayout
  /\ high' = NoHigh
  /\ append' = 0
  /\ cursor' = TopOfSlot0

(* gumc contract.gum --lock layout.json: the manifest is loaded (a manifest  *)
(* that does not parse stops the compile here) and the layout engine starts *)
(* on the contract, with the locked packer if the manifest knows it.        *)
BeginCompile(s, p) ==
  /\ pc = "idle"
  /\ lockFile # "corrupt"
  /\ p \/ (MayDrop /\ \A f \in Fields : s[f].kind = "none")
  /\ src' = s
  /\ present' = p
  /\ layout' = NoLayout
  /\ tlayout' = NoLayout
  /\ high' = NoHigh
  /\ append' \in {n \in CommittedEnds : \A m \in CommittedEnds : m <= n}
  /\ cursor' = TopOfSlot0
  /\ todo' = Persistent(s)
  /\ pc' = IF ~p THEN "laid" ELSE IF lockFile = "with" THEN "check" ELSE "fresh"
  /\ UNCHANGED <<lockFile, lock, built, live>>

-----------------------------------------------------------------------------
(* pack_storage_fields, for the persistent fields of a contract the lock    *)
(* does not know (pc = "fresh") and for transient fields (pc = "transient"). *)

(* Record where f goes, in the keyspace of the pass.                        *)
Assign(f, l) ==
  /\ layout'  = IF pc = "fresh" THEN [layout EXCEPT ![f] = l] ELSE layout
  /\ tlayout' = IF pc = "transient" THEN [tlayout EXCEPT ![f] = l] ELSE tlayout
  /\ todo' = todo \ {f}
  /\ UNCHANGED <<lockFile, lock, src, present, pc, high, append, built, live>>

PackLarge(f) ==
  LET w == src[f].width
      s == IF cursor.used > 0 THEN cursor.slot + 1 ELSE cursor.slot
  IN /\ pc \in {"fresh", "transient"}
     /\ Widest(f)
     /\ w > 32
     /\ Assign(f, [slot |-> s, offset |-> 0, size |-> w])
     /\ cursor' = [slot |-> s + CeilWords(w), used |-> 0]

PackSmall(f) ==
  LET w    == src[f].width
      fits == cursor.used + w <= 32
      s    == IF fits THEN cursor.slot ELSE cursor.slot + 1
      u    == IF fits THEN cursor.used ELSE 0
  IN /\ pc \in {"fresh", "transient"}
     /\ Widest(f)
     /\ w <= 32
     /\ Assign(f, [slot |-> s, offset |-> u, size |-> w])
     /\ cursor' = [slot |-> s, used |-> u + w]

(* The persistent fields are placed; allocate_storage packs the transient    *)
(* ones next, from slot 0 of their own keyspace.                            *)
BeginTransient ==
  /\ pc \in {"fresh", "place"}
  /\ todo = {}
  /\ pc' = "transient"
  /\ todo' = Transient(src)
  /\ cursor' = TopOfSlot0
  /\ UNCHANGED <<lockFile, lock, src, present, layout, tlayout, high, append, built, live>>

EndTransient ==
  /\ pc = "transient"
  /\ todo = {}
  /\ pc' = "laid"
  /\ UNCHANGED <<lockFile, lock, built, live, compileVars>>

-----------------------------------------------------------------------------
(* pack_storage_fields_locked.                                              *)

RemovedField == \E f \in Fields : Placed(lock, f) /\ f \notin todo

(* A committed field the source no longer declares is a compile error, and   *)
(* so is one whose width changed.                                           *)
CheckRemoved ==
  /\ pc = "check"
  /\ ~RemovedField
  /\ pc' = "pin"
  /\ UNCHANGED <<lockFile, lock, built, live, compileVars>>

RejectRemoved ==
  /\ pc = "check"
  /\ RemovedField
  /\ Exit
  /\ UNCHANGED <<lockFile, lock, built, live>>

RejectResized(f) ==
  /\ pc = "pin"
  /\ f \in todo /\ Placed(lock, f)
  /\ lock[f].size # src[f].width
  /\ Exit
  /\ UNCHANGED <<lockFile, lock, built, live>>

(* Slip: the width of a committed field is not compared.                    *)
PinResized(f) ==
  /\ pc = "pin"
  /\ f \in todo /\ Placed(lock, f)
  /\ layout' = [layout EXCEPT ![f] = [lock[f] EXCEPT !.size = src[f].width]]
  /\ todo' = todo \ {f}
  /\ UNCHANGED <<lockFile, lock, src, present, pc, tlayout, high, append, cursor, built, live>>

(* A committed field keeps its location, and raises the high-water mark of   *)
(* every slot it touches.                                                   *)
Pin(f) ==
  /\ pc = "pin"
  /\ f \in todo /\ Placed(lock, f)
  /\ lock[f].size = src[f].width
  /\ layout' = [layout EXCEPT ![f] = lock[f]]
  /\ high' = [s \in DOMAIN high \cup SlotsOf(lock[f]) |->
                LET old == IF s \in DOMAIN high THEN high[s] ELSE 0
                    new == IF s \in SlotsOf(lock[f])
                           THEN IF UsedIn(lock[f], s) < 32 THEN UsedIn(lock[f], s) ELSE 32
                           ELSE 0
                IN IF old >= new THEN old ELSE new]
  /\ todo' = todo \ {f}
  /\ UNCHANGED <<lockFile, lock, src, present, pc, tlayout, append, cursor, built, live>>

PinDone ==
  /\ pc = "pin"
  /\ \A f \in todo : ~Placed(lock, f)
  /\ pc' = "place"
  /\ UNCHANGED <<lockFile, lock, built, live, compileVars>>

(* Slip: any slot that is not full is a gap.                                *)
GapsNotFull(w) == {s \in DOMAIN high : high[s] < 32}

(* Slots with room for w more bytes above their high-water mark.            *)
Gaps(w) == {s \in DOMAIN high : 32 - high[s] >= w}

PlaceLarge(f) ==
  LET w == src[f].width IN
  /\ pc = "place"
  /\ NextNewcomer(f)
  /\ w > 32
  /\ layout' = [layout EXCEPT ![f] = [slot |-> append, offset |-> 0, size |-> w]]
  /\ append' = append + CeilWords(w)
  /\ todo' = todo \ {f}
  /\ UNCHANGED <<lockFile, lock, src, present, pc, tlayout, high, cursor, built, live>>

PlaceInGap(f) ==
  LET w == src[f].width IN
  /\ pc = "place"
  /\ NextNewcomer(f)
  /\ w <= 32
  /\ \E s \in Gaps(w) :
       /\ \A r \in Gaps(w) : s <= r
       /\ layout' = [layout EXCEPT ![f] = [slot |-> s, offset |-> high[s], size |-> w]]
       /\ high' = [high EXCEPT ![s] = high[s] + w]
  /\ todo' = todo \ {f}
  /\ UNCHANGED <<lockFile, lock, src, present, pc, tlayout, append, cursor, built, live>>

PlaceAppended(f) ==
  LET w == src[f].width IN
  /\ pc = "place"
  /\ NextNewcomer(f)
  /\ w <= 32
  /\ Gaps(w) = {}
  /\ layout' = [layout EXCEPT ![f] = [slot |-> append, offset |-> 0, size |-> w]]
  /\ high' = [s \in DOMAIN high \cup {append} |-> IF s = append THEN w ELSE high[s]]
  /\ append' = append + 1
  /\ todo' = todo \ {f}
  /\ UNCHANGED <<lockFile, lock, src, present, pc, tlayout, cursor, built, live>>

-----------------------------------------------------------------------------
(* The manifest is written before any code is generated.                    *)

Save ==
  /\ pc = "laid"
  /\ lock' = layout
  /\ lockFile' = IF present THEN "with" ELSE "without"
  /\ pc' = "saved"
  /\ UNCHANGED <<built, live, compileVars>>

(* Slip: the result of fs::write is not looked at.                          *)
SaveErrorIgnored(outcome) ==
  /\ pc = "laid"
  /\ outcome \in {"untouched", "cut"}
  /\ pc' = "saved"
  /\ UNCHANGED <<lockFile, lock, built, live, compileVars>>

(* fs::write fails, or gumc dies in it: the file is untouched, or cut short. *)
SaveFails(outcome) ==
  /\ pc = "laid"
  /\ outcome \in {"untouched", "cut"}
  /\ Exit
  /\ lockFile' = IF outcome = "cut" THEN "corrupt" ELSE lockFile
  /\ lock' = IF outcome = "cut" THEN NoLayout ELSE lock
  /\ UNCHANGED <<built, live>>

(* build_contract_object or solc rejects the program: no bytecode.          *)
BuildFails ==
  /\ pc = "saved"
  /\ Exit
  /\ UNCHANGED <<lockFile, lock, built, live>>

Emit ==
  /\ pc = "saved"
  /\ Exit
  /\ built' = IF present THEN layout ELSE built
  /\ UNCHANGED <<lockFile, lock, live>>

-----------------------------------------------------------------------------
(* The author: put the last build behind the proxy; bring a cut manifest    *)
(* back from version control, where it sits beside the last build.          *)

Upgrade ==
  /\ pc = "idle"
  /\ live' = built
  /\ UNCHANGED <<lockFile, lock, pc, built, compileVars>>

RestoreLock ==
  /\ pc = "idle"
  /\ lockFile = "corrupt"
  /\ lock' = built
  /\ lockFile' = IF built = NoLayout THEN "absent" ELSE "with"
  /\ UNCHANGED <<pc, built, live, compileVars>>

Compile ==
  \/ \E s \in [Fields -> Decl], p \in BOOLEAN : BeginCompile(s, p)
  \/ \E f \in Fields : PackLarge(f) \/ PackSmall(f)
  \/ BeginTransient \/ EndTransient
  \/ CheckRemoved \/ RejectRemoved \/ PinDone
  \/ \E f \in Fields : RejectResized(f) \/ Pin(f)
  \/ \E f \in Fields : PlaceLarge(f) \/ PlaceInGap(f) \/ PlaceAppended(f)
  \/ Save \/ (\E o \in {"untouched", "cut"} : SaveFails(o)) \/ BuildFails \/ Emit

Next == Compile \/ Upgrade \/ RestoreLock

Spec == Init /\ [][Next]_vars

-----------------------------------------------------------------------------
(* Properties.                                                              *)

LocOrNone == Loc \cup {NoLoc}

(* Every variable has the shape the compiler gives it.                      *)
TypeOK ==
  /\ lockFile \in {"absent", "with", "without", "corrupt"}
  /\ lock \in [Fields -> LocOrNone]
  /\ src \in [Fields -> Decl]
  /\ present \in BOOLEAN
  /\ pc \in {"idle", "check", "pin", "place", "fresh", "transient", "laid", "saved"}
  /\ todo \subseteq Fields
  /\ layout \in [Fields -> LocOrNone]
  /\ tlayout \in [Fields -> LocOrNone]
  /\ DOMAIN high \subseteq Nat
  /\ \A s \in DOMAIN high : high[s] \in 0 .. 32
  /\ append \in Nat
  /\ cursor \in [slot : Nat, used : 0 .. 32]
  /\ built \in [Fields -> LocOrNone]
  /\ live \in [Fields -> LocOrNone]

(* No two fields ever share a byte: not in the layout being computed, in     *)
(* either keyspace, not in the manifest, and not in a contract that was      *)
(* built or deployed.  Newcomers squeezed above the high-water marks of      *)
(* committed slots, and fields appended after them, are where this could go  *)
(* wrong (pack_storage_fields_locked).                                      *)
NoOverlap ==
  /\ Disjoint(lock)
  /\ Disjoint(layout)
  /\ Disjoint(tlayout)
  /\ Disjoint(built)
  /\ Disjoint(live)

(* A field of at most one word lies inside one slot, and a wider one starts  *)
(* on a slot boundary: generated code reads the first with one sload and a   *)
(* shift, and indexes the second from its slot number.                      *)
Aligned(lay) ==
  \A f \in Fields : Placed(lay, f) =>
     IF lay[f].size <= 32 THEN lay[f].offset + lay[f].size <= 32
                          ELSE lay[f].offset = 0
WithinSlots == Aligned(lock) /\ Aligned(layout) /\ Aligned(tlayout) /\ Aligned(live)

(* Upgrading the proxy never moves or drops a field that is live, however    *)
(* many rejected, failed and interrupted compiles lie between two upgrades   *)
(* ("Committed fields keep their exact slot and offset", STORAGE.md).       *)
UpgradeKeepsFields ==
  [][\A f \in Fields : Placed(live, f) => live'[f] = live[f]]_vars

(* The manifest on disk commits at least what the last build was laid out    *)
(* with, and the last build at least what is live: a compile that was        *)
(* rejected after writing the manifest may leave it ahead, never behind.     *)
Extends(a, b) == \A f \in Fields : Placed(b, f) => a[f] = b[f]
LockCoversBuilds ==
  /\ lockFile # "corrupt" => Extends(lock, built)
  /\ Extends(built, live)
=============================================================================
