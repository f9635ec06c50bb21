------------------------------ MODULE ParamCompare ------------------------------
(***************************************************************************)
(* What walks a whole value of ParamStore: operator==, and the type        *)
(* invariant.                                                              *)
(***************************************************************************)
EXTENDS ParamStore

\* The caller's values and those of the container, and all that is in them; no
\* value is deeper than there were calls.
Roots == {val[x] : x \in Objects} \cup {params[k] : k \in DOMAIN params}

Elements(S) == UNION {{v.elems[i] : i \in DOMAIN v.elems} : v \in S}

Inside(S) ==
    LET at[depth \in Nat] == IF depth = 0 THEN S ELSE Elements(at[depth - 1]) IN at

Held == UNION {Inside(Roots)[depth] : depth \in 0..MaxSteps}

-----------------------------------------------------------------------------
\* The place of a member in a struct, which is ordered by name.
Place(v, n) == Cardinality({m \in DOMAIN v.elems : m < n})

SameContent_Prefix(eq, v, w) ==
    CASE v.type = "Array"  -> /\ Len(v.elems) = Len(w.elems)
                              /\ \A i \in DOMAIN v.elems : eq[<<v.elems[i], w.elems[i]>>]
      [] v.type = "Struct" ->
             /\ Cardinality(DOMAIN v.elems) <= Cardinality(DOMAIN w.elems)
             /\ \A m \in DOMAIN v.elems, n \in DOMAIN w.elems :
                   Place(v, m) = Place(w, n) => eq[<<v.elems[m], w.elems[n]>>]
      [] OTHER -> v.atom = w.atom

\* Of two values of one type.  The members of two structs are compared in the
\* order of their names, without the names.
SameContent(eq, v, w) ==
    CASE v.type = "Array"  -> /\ Len(v.elems) = Len(w.elems)
                              /\ \A i \in DOMAIN v.elems : eq[<<v.elems[i], w.elems[i]>>]
      [] v.type = "Struct" ->
             /\ Cardinality(DOMAIN v.elems) = Cardinality(DOMAIN w.elems)
             /\ \A m \in DOMAIN v.elems, n \in DOMAIN w.elems :
                   Place(v, m) = Place(w, n) => eq[<<v.elems[m], w.elems[n]>>]
      [] OTHER -> v.atom = w.atom

\* operator== on a set of values that has the elements of each.
Equality(S) ==
    LET eq[p \in S \X S] == p[1].type = p[2].type /\ SameContent(eq, p[1], p[2]) IN eq

-----------------------------------------------------------------------------
Types == Scalars \cup {"Invalid", "Array", "Struct"}

\* A value has a type, and content where the type has some.
WellFormed(v) ==
    /\ v.type \in Types
    /\ v.type \in {"Array", "Struct"} \/ v.elems = <<>>
    /\ v.type = "Array" => v = NullArray \/ DOMAIN v.elems = 1..Len(v.elems)
    /\ v.type = "Struct" => DOMAIN v.elems \subseteq Names

(* Every value of the caller and of the container is well formed, and so   *)
(* are its elements, down to a depth of one for each call that changed a   *)
(* value; only a value of the caller is ever an array without memory       *)
(* (xmlrpcvalue.cpp assertArray): no copy of one is stored.                *)
TypeOK ==
    /\ DOMAIN val = Objects /\ DOMAIN params \subseteq Keys /\ DOMAIN last = DOMAIN params
    /\ \A v \in Held : WellFormed(v)
    /\ \A v \in Elements(Held) \cup {params[k] : k \in DOMAIN params} : Usable(v)
    /\ Inside(Roots)[steps + 1] = {}
    /\ steps \in 0..MaxSteps

Compared == {v \in Roots : Usable(v)}

(* operator== (xmlrpcvalue.cpp 56-100), which walks two containers in step, *)
(* is an equivalence on whatever values the caller can build: no NaN among  *)
(* the doubles, which equals nothing.                                       *)
EqIsEquivalence ==
    LET eq == Equality(Held) IN
    /\ \A v \in Compared : eq[<<v, v>>]
    /\ \A v, w \in Compared : eq[<<v, w>>] => eq[<<w, v>>]
    /\ \A v, w, u \in Compared : eq[<<v, w>>] /\ eq[<<w, u>>] => eq[<<v, u>>]

=============================================================================
