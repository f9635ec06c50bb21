---------------------------- MODULE MCConfigReader ----------------------------
(* Instances of OpenApiClient with readers for TLC. *)
EXTENDS ConfigReader, TLC

CONSTANTS o1, o2, c1, c2, c3, v1, v2, p1, p2

MCOperators == {o1, o2}
MCContents  == {v1, v2}

\* c1 and c3 end with ".yaml", c2 is shorter than that, c3 is too long for all
\* calls of an operator but a public creation.
MCConfigs    == {c1, c2, c3}
MCYamlNames  == {c1, c3}
MCShortNames == {c2}
MCLongNames  == {c3}

\* v1 has all that getConfigNoBufferInnerByYAML logs, v2 is no YAML.
MCFleet     == {v1}
MCMalformed == {v2}

MCBefore == v1

MCPart == (v1 :> p1) @@ (v2 :> p2)

MCSizes == {200, 201, 267}

Symmetry == Permutations(MCOperators)

=============================================================================
