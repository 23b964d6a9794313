----------------------------- MODULE MCItemBank -----------------------------
(* An instance of ItemBank for TLC.                                        *)
EXTENDS ItemBank, TLC

CONSTANTS i1, secretary, writer, second, third

AllUsers == {secretary, writer, second, third}
AConflict == {<<secretary, i1>>}
Symmetry == Permutations({second, third})
=============================================================================
