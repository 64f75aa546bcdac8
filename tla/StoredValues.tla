----------------------------- MODULE StoredValues -----------------------------
(***************************************************************************)
(* What a contract's storage promises its author: a plain field is a value,  *)
(* an array field a sequence of values, a text field a sequence of bytes,     *)
(* and a statement about one field changes that field alone.                 *)
(***************************************************************************)
EXTENDS Integers, Sequences

CONSTANTS
  Dynamic,   \* [T] fields
  Fixed,     \* [T; N] fields
  Plain,     \* fields of one value
  Texts,     \* String and Bytes fields
  Structs,   \* those of Dynamic, Fixed and Plain whose values are structs
  Parts,     \* field -> the parts of one of its values; a scalar has one
  Count,     \* field of Fixed -> N
  Byte,      \* what a part or a byte of a text may hold
  None

VARIABLES
  seqs,      \* field -> its values, in order; one for a plain field
  texts,     \* text -> its bytes
  walk,      \* the for-in statement that is running, or None
  io         \* the text last written, or the value the for-in is at

Fields == Dynamic \cup Fixed \cup Plain

Zero(f) == [p \in Parts[f] |-> 0]

Init ==
  /\ seqs = [f \in Fields |->
               IF f \in Dynamic THEN << >>
               ELSE [i \in 1 .. IF f \in Fixed THEN Count[f] ELSE 1 |-> Zero(f)]]
  /\ texts = [t \in Texts |-> << >>]
  /\ walk = None /\ io = None

(* What a statement may make of the values `old` of field f.                   *)
(* push(v) appends v; push() appends a struct all of whose fields are zero.   *)
Push(f, old, new) ==
  \E v \in [Parts[f] -> Byte] : (f \in Structs => v = Zero(f)) /\ new = Append(old, v)

Pop(old, new) == old # << >> /\ new = SubSeq(old, 1, Len(old) - 1)

Assign(f, old, new) ==
  \E i \in DOMAIN old, p \in Parts[f], b \in Byte : new = [old EXCEPT ![i][p] = b]

Reset(f, old, new) == \E i \in DOMAIN old : new = [old EXCEPT ![i] = Zero(f)]

Clear(f, old, new) ==
  new = IF f \in Dynamic THEN << >> ELSE [i \in DOMAIN old |-> Zero(f)]

(* A statement changes one field.                                            *)
Statement ==
  \E changed \in {{f \in Fields : seqs'[f] # seqs[f]}} :
    \E f \in changed : \E old \in {seqs[f]}, new \in {seqs'[f]} :
      /\ changed = {f}
      /\ \/ Assign(f, old, new) \/ Reset(f, old, new) \/ Clear(f, old, new)
         \/ f \in Dynamic /\ (Push(f, old, new) \/ Pop(old, new))
      /\ io' = None /\ UNCHANGED <<texts, walk>>

Write(t) ==
  /\ io' \in Seq(Byte) /\ texts' = [texts EXCEPT ![t] = io']
  /\ UNCHANGED <<seqs, walk>>

(* for x in f: as many turns as f had values at the start; a turn past the    *)
(* present end, which a body that pops can cause, sees zero.                 *)
BeginWalk(f) ==
  /\ walk = None /\ walk' = [of |-> f, turns |-> Len(seqs[f]), at |-> 0]
  /\ io' = None /\ UNCHANGED <<seqs, texts>>

Turn ==
  /\ walk # None
  /\ walk.at < walk.turns /\ walk' = [walk EXCEPT !.at = @ + 1]
  /\ \E p \in Parts[walk.of] :
       io' = <<IF walk.at < Len(seqs[walk.of])
               THEN seqs[walk.of][walk.at + 1][p] ELSE 0>>
  /\ UNCHANGED <<seqs, texts>>

EndWalk == walk # None /\ walk' = None /\ io' = None /\ UNCHANGED <<seqs, texts>>

Pause == io' = None /\ UNCHANGED <<seqs, texts, walk>>

Next ==
  \/ Statement
  \/ \E t \in Texts : Write(t)
  \/ \E f \in Dynamic \cup Fixed : BeginWalk(f)
  \/ Turn \/ EndWalk \/ Pause

Spec == Init /\ [][Next]_<<seqs, texts, walk, io>>

=============================================================================
