----------------------------- MODULE MCSitting -----------------------------
(* Instances of Sitting for TLC: one request at a time with a rich         *)
(* configuration, and two requests at a time with a small one.             *)
EXTENDS Sitting, TLC

\* Nothing tells requests apart, nor subjects.
Symmetry == Permutations(Requests) \cup Permutations(Subjects)
=============================================================================
