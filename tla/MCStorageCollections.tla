------------------------- MODULE MCStorageCollections -------------------------
(***************************************************************************)
(* Words of two bytes.  xs packs two values to a word; ps holds structs of     *)
(* three bytes in two words, qs structs of one byte; fs packs three bytes in    *)
(* two words; gs and hs are arrays of two three-byte structs each; v and w      *)
(* share a word; t is a text.                                               *)
(***************************************************************************)
EXTENDS StorageCollections

CONSTANTS xs, ps, qs, fs, gs, hs, v, w, t

Part(s, o, n) == [slot |-> s, offset |-> o, size |-> n]

MCSize == [f \in Fields |-> IF f \in {ps, gs, hs} THEN 3 ELSE 1]
MCParts == [f \in Fields |->
  IF f \in {ps, gs, hs} THEN {Part(0, 0, 1), Part(1, 0, 2)} ELSE {Part(0, 0, 1)}]
MCMaxLen == [f \in Dynamic |-> IF f = xs THEN 3 ELSE 2]
MCCount == [f \in Fixed |-> IF f = fs THEN 3 ELSE 2]

(* The contract's own slots as StorageLayout hands them out to v, w and fs, or  *)
(* to gs and hs, each fixed array N * size_of rounded up to whole words.       *)
MCPlace == [f \in Fixed \cup Plain |->
  CASE f = v  -> [slot |-> 0, offset |-> 1]
    [] f = fs -> [slot |-> 1, offset |-> 0]
    [] f = hs -> [slot |-> 3, offset |-> 0]
    [] OTHER  -> [slot |-> 0, offset |-> 0]]

(* What the theorems assume holds here, and fails where gs is a field.          *)
ASSUME Sound <=> gs \notin Fields

=============================================================================
