----------------------------- MODULE MCParamServer -----------------------------
(* Instances of ParamServer for TLC. *)
EXTENDS ParamServer

CONSTANTS k1, r1, r2

MCKeys == {k1}
MCCallers == {r1, r2}

\* The key is in every release.
MCReleaseKeys == [ns \in 1..NumNs |-> [v \in 0..MaxRelease |-> {k1}]]

None == {}

=============================================================================
