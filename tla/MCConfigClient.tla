---------------------------- MODULE MCConfigClient ----------------------------
(***************************************************************************)
(* Instances of ConfigClient for TLC.                                      *)
(***************************************************************************)
EXTENDS ConfigClient

CONSTANTS k1, k2

MCKeys == {k1, k2}

\* Release 1 adds k2 to the first namespace and drops k1 from the others.
MCReleaseKeys ==
    [ns \in 1..NumNs |-> [v \in 0..MaxRelease |->
        IF ns = 1 THEN (IF v = 0 THEN {k1} ELSE {k1, k2})
                  ELSE (IF v = 0 THEN {k1, k2} ELSE {k2})]]

None == {}

\* The first of the two namespaces is a properties file.
FirstIsProperties == {1}

=============================================================================
