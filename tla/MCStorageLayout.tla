--------------------------- MODULE MCStorageLayout ---------------------------
(* Instances of StorageLayout for TLC.                                      *)
EXTENDS StorageLayout

MCTwoFields == 1 .. 2
MCFields    == 1 .. 3

(* half a word, a whole word, and a struct that ends mid-slot                *)
MCWidths    == {16, 32, 40}
MCFewWidths == {16, 40}

=============================================================================
