-------------------------- MODULE MCCheckedArithmetic --------------------------
(***************************************************************************)
(* Words of four bits, narrow types of three, 1.0 written as 6: a product of   *)
(* two fixed-point values needs its upper word from 4 * 4 on, 6 has an even    *)
(* and an odd factor, and literals fold below 8.                             *)
(***************************************************************************)
EXTENDS CheckedArithmetic

MCLiterals == {0, 3, 7}
MCCareless == {}
=============================================================================
