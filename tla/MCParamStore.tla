----------------------------- MODULE MCParamStore -----------------------------
(* Two values, one key, two member names, small contents. *)
EXTENDS ParamCompare, TLC

CONSTANTS x1, x2, k1

MCObjects == {x1, x2}
MCKeys    == {k1}
MCNames   == {1, 2}
MCInputs  == {[T |-> "bool", is |-> 1], [T |-> "int", is |-> 2],
              [T |-> "double", is |-> 3], [T |-> "string", is |-> 1]}
MCVectors == {<<>>, <<1>>, <<2, 2>>, <<3>>}
MCIndex   == -1..1

MCSymmetry == Permutations(MCObjects)

=============================================================================
