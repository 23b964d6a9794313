---------------------------- MODULE MCAuditChain ----------------------------
(* Instances of AuditChain for TLC.                                        *)
EXTENDS AuditChain, TLC

WorkerSymmetry == Permutations(Workers)
=============================================================================
