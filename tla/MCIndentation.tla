----------------------------- MODULE MCIndentation -----------------------------
(* Every file of up to five lines, in four columns.                          *)
EXTENDS Indentation

MCIndents == 0 .. 3
=============================================================================
