----------------------------- MODULE MCCtrlStore ------------------------------
(* Instances of CtrlStore for TLC: two keys of the yaml namespace, one of   *)
(* the properties namespace, two values.                                    *)
EXTENDS CtrlStore, TLC

CONSTANTS k1, k2, p1, v1, v2

MCKeys == {k1, k2}
MCPropertyKeys == {p1}
MCValues == {v1, v2}

Symmetry == Permutations(MCKeys) \cup Permutations(MCValues)

=============================================================================
