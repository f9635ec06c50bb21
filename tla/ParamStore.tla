------------------------------- MODULE ParamStore -------------------------------
(***************************************************************************)
(* Generic values: XmlRpcValue, a tagged union with its own memory, and    *)
(* RosStoreContainer, a map from keys to such values that is written and   *)
(* read with static types.  One caller works on a few values and on one    *)
(* container.  ParamCompare compares values, and says which are well       *)
(* formed.                                                                 *)
(*                                                                         *)
(* A value is its type, the content of a scalar as a number (a double in   *)
(* halves, a string or a time by its number), and its elements: a sequence *)
(* for an array, a function on member names, which are numbers because     *)
(* their order matters, for a struct.                                      *)
(***************************************************************************)
EXTENDS Integers, Sequences, FiniteSets

CONSTANTS
    Objects,     \* the caller's values
    Keys,        \* keys of the container
    Names,       \* names of struct members
    Inputs,      \* static type and content of the scalars the caller uses
    Vectors,     \* contents of vectors
    Index,       \* indices and sizes the caller uses, negative ones among them
    MaxSteps     \* bound: calls that change a value

ASSUME NamesAssumption == Names \subseteq Nat /\ IsFiniteSet(Names)
ASSUME IndexAssumption == Index \subseteq Int
ASSUME BoundAssumption == MaxSteps \in Nat

VARIABLES
    val,      \* the caller's values
    params,   \* g_params
    last,     \* history: what a key was set to, and with which static type
    op,       \* history: the last call, its object, whether it threw, its result
    steps

vars == <<val, params, last, op, steps>>

Scalars == {"Boolean", "Int", "Double", "String", "DateTime", "Base64"}

Value(type, atom, elems) == [type |-> type, atom |-> atom, elems |-> elems]
Invalid      == Value("Invalid", 0, <<>>)
Scalar(t, a) == Value(t, a, <<>>)
Array(s)     == Value("Array", 0, s)
Struct(f)    == Value("Struct", 0, f)

\* The type says array and the pointer is null: every use but destruction and
\* assignment to it is undefined, and the caller makes none.
NullArray  == Value("Array", -1, <<>>)
Usable(v)  == v # NullArray

-----------------------------------------------------------------------------
(* XmlRpcValue.  An accessor yields the value as it is afterwards, and      *)
(* whether it threw.                                                        *)

Fine(v)  == [val |-> v, threw |-> FALSE]
Throw(v) == [val |-> v, threw |-> TRUE]

\* assertTypeOrInvalid: an invalid value becomes the zero of the type.
AsScalar(v, t) ==
    IF v.type = "Invalid" THEN Fine(Scalar(t, 0))
    ELSE IF v.type = t THEN Fine(v) ELSE Throw(v)

AsArray_Resizes(v, size) ==
    CASE v.type = "Invalid" /\ size < 0  -> Throw(NullArray)
      [] v.type = "Invalid" /\ size >= 0 -> Fine(Array([i \in 1..size |-> Invalid]))
      [] v.type = "Array" /\ size >= 0 -> Fine([v EXCEPT !.elems =
             [i \in 1..size |-> IF i <= Len(@) THEN @[i] ELSE Invalid]])
      [] OTHER -> Throw(v)

\* assertArray.  The type is set before the memory is asked for, and a negative
\* size is a very large one.
AsArray(v, size) ==
    CASE v.type = "Invalid" /\ size < 0  -> Throw(NullArray)
      [] v.type = "Invalid" /\ size >= 0 -> Fine(Array([i \in 1..size |-> Invalid]))
      [] v.type = "Array" -> Fine([v EXCEPT !.elems =
                                    @ \o [i \in 1..(size - Len(@)) |-> Invalid]])
      [] OTHER -> Throw(v)

\* assertStruct.
AsStruct(v) ==
    IF v.type = "Invalid" THEN Fine(Struct(<<>>))
    ELSE IF v.type = "Struct" THEN Fine(v) ELSE Throw(v)

\* The accessors of a constant value: which of them answer.
ReadsScalar(v, t)  == v.type = t
ReadsElement(v, i) == v.type = "Array" /\ i \in 0..(Len(v.elems) - 1)
HasMember(v, name) == v.type = "Struct" /\ name \in DOMAIN v.elems

SetMember(v, name, w) ==
    [v EXCEPT !.elems = [n \in DOMAIN @ \cup {name} |-> IF n = name THEN w ELSE @[n]]]

-----------------------------------------------------------------------------
(* Static types of the container.                                          *)

TagOf == [bool |-> "Boolean", int |-> "Int", double |-> "Double", string |-> "String"]
StaticTypes == DOMAIN TagOf

ASSUME InputsAssumption ==
    /\ Inputs \subseteq [T : StaticTypes, is : Int]
    /\ \A in \in Inputs : in.T = "bool" => in.is \in {0, 1}
ASSUME VectorsAssumption == Vectors \subseteq Seq(Int)

\* xml_castable, for float as for double.
Castable(T, type) ==
    IF T = "string" THEN type = "String" ELSE type \in {"Boolean", "Int", "Double"}

Halves(v) == IF v.type = "Double" THEN v.atom ELSE 2 * v.atom

\* xml_cast: towards zero for an int, whether it is not zero for a bool.  The
\* numbers are small; a double beyond an int's range is undefined.
Cast(T, v) ==
    CASE T = "string" -> v.atom
      [] T = "double" -> Halves(v)
      [] T = "int"    -> IF Halves(v) >= 0 THEN Halves(v) \div 2
                                           ELSE -((-Halves(v)) \div 2)
      [] T = "bool"   -> IF Halves(v) = 0 THEN 0 ELSE 1

-----------------------------------------------------------------------------
Init ==
    /\ val = [x \in Objects |-> Invalid]
    /\ params = <<>>
    /\ last = <<>>
    /\ op = [name |-> "none", threw |-> FALSE]
    /\ steps = 0

Done(name, x, threw) == op' = [name |-> name, on |-> x, threw |-> threw]

Local(name, x, v, threw) ==
    /\ steps' = steps + 1
    /\ val' = [val EXCEPT ![x] = v]
    /\ Done(name, x, threw)
    /\ UNCHANGED <<params, last>>

\* operator= and clear.  A value assigned to itself stays; what an assignment of
\* a value to an element of itself or back reads is freed, and the caller makes
\* none.
Assign(x, y) == Usable(val[y]) /\ Local("assign", x, val[y], FALSE)

AssignScalar(x, in) == Local("assign", x, Scalar(TagOf[in.T], in.is), FALSE)

Clear_KeepsMemory(x) == Local("assign", x, [val[x] EXCEPT !.type = "Invalid"], FALSE)

\* invalidate.
Clear(x) == Local("assign", x, Invalid, FALSE)

\* The conversions to a reference.
Convert(x, t) ==
    /\ Usable(val[x])
    /\ LET r == AsScalar(val[x], t) IN Local("access", x, r.val, r.threw)

\* setSize, and begin and end.
SetSize(x, size) ==
    /\ Usable(val[x])
    /\ LET r == AsArray(val[x], size) IN Local("access", x, r.val, r.threw)

Begin(x) ==
    /\ Usable(val[x])
    /\ LET r == AsStruct(val[x]) IN Local("access", x, r.val, r.threw)

\* x[i] = w, where w is a scalar or a copy of another object.
SetElement(x, i, w) ==
    /\ Usable(val[x])
    /\ LET r == AsArray(val[x], i + 1) IN
       IF r.threw THEN Local("access", x, r.val, TRUE)
       ELSE IF i < 0 THEN Local("access", x, r.val, TRUE)
       ELSE Local("access", x, [r.val EXCEPT !.elems[i + 1] = w], FALSE)

\* x[name] = w.
SetNamed(x, name, w) ==
    /\ Usable(val[x])
    /\ LET r == AsStruct(val[x]) IN
       Local("access", x, IF r.threw THEN r.val ELSE SetMember(r.val, name, w), r.threw)

\* x[name] of a constant x: a member that is not there is made.
ReadNamed(x, name) ==
    /\ Usable(val[x])
    /\ LET v == val[x] IN
       IF v.type # "Struct" THEN Local("access", x, v, TRUE)
       ELSE Local("access", x,
                  IF HasMember(v, name) THEN v ELSE SetMember(v, name, Invalid), FALSE)

-----------------------------------------------------------------------------
(* RosStoreContainer.                                                      *)

Put(f, key, v) == [k \in DOMAIN f \cup {key} |-> IF k = key THEN v ELSE f[k]]

Store(key, v, shape, T, content) ==
    /\ steps' = steps + 1
    /\ params' = Put(params, key, v)
    /\ last' = Put(last, key, [shape |-> shape, T |-> T, content |-> content])
    /\ Done("set", key, FALSE)
    /\ UNCHANGED val

\* set of an int, a double, a string or a char array.
SetScalar(key, in) ==
    /\ in.T # "bool"
    /\ Store(key, Scalar(TagOf[in.T], in.is), "scalar", in.T, in.is)

\* setVecImpl.
SetVec(key, T, vec) ==
    LET empty == AsArray(Invalid, Len(vec)).val IN
    Store(key, [empty EXCEPT !.elems =
                  [i \in DOMAIN @ |-> Scalar(TagOf[T], vec[i])]], "vec", T, vec)

SetMap_NoBegin(key, T, map) ==
    LET empty == IF map = <<>> THEN Invalid ELSE AsStruct(Invalid).val IN
    Store(key, [empty EXCEPT !.elems =
                  [n \in DOMAIN map |-> Scalar(TagOf[T], map[n])]], "map", T, map)

\* setMapImpl.
SetMap(key, T, map) ==
    LET empty == AsStruct(Invalid).val IN
    Store(key, [empty EXCEPT !.elems =
                  [n \in DOMAIN map |-> Scalar(TagOf[T], map[n])]], "map", T, map)

\* setMapImpl and setVecImpl of values; what they hold fits no static type or several.
SetValues(key, x) ==
    /\ Usable(val[x])
    /\ val[x].type \in {"Struct", "Array"}
    /\ Store(key, val[x], "values", "none", <<>>)

\* A get changes nothing that is kept; two in a row tell no more than one.
Got(key, shape, T, ok, content) ==
    /\ op.name # "get"
    /\ op' = [name |-> "get", on |-> key, threw |-> FALSE, shape |-> shape, T |-> T,
              ok |-> ok, content |-> content]
    /\ UNCHANGED <<val, params, last, steps>>

\* get_ of a key that was never set: the caller's variable stays, whatever its type.
GetAbsent(key) ==
    /\ key \notin DOMAIN params
    /\ Got(key, "absent", "none", FALSE, <<>>)

Holds(key, type) == params[key].type = type

\* get of a scalar, into a variable that holds old.
GetScalar(key, T, old) ==
    /\ T # "bool" /\ key \in DOMAIN params
    /\ IF Holds(key, TagOf[T])
         THEN Got(key, "scalar", T, TRUE, params[key].atom)
         ELSE Got(key, "scalar", T, FALSE, old)

Fits(T, v) == Castable(T, v.type)

\* get of a vector: the variable is resized first, and what was read before an
\* element that does not fit stays.
GetVec(key, T, old) ==
    /\ key \in DOMAIN params
    /\ IF ~Holds(key, "Array")
         THEN Got(key, "vec", T, FALSE, old)
         ELSE LET elems == params[key].elems
                  good == {n \in 0..Len(elems) : \A i \in 1..n : Fits(T, elems[i])}
                  n == CHOOSE k \in good : \A l \in good : l <= k IN
              Got(key, "vec", T, n = Len(elems),
                  [i \in DOMAIN elems |-> IF i <= n THEN Cast(T, elems[i])
                                          ELSE IF i <= Len(old) THEN old[i] ELSE 0])

\* get of a map: members are added to those the variable has, up to the first
\* that does not fit.
GetMap(key, T, old) ==
    /\ key \in DOMAIN params
    /\ IF ~Holds(key, "Struct")
         THEN Got(key, "map", T, FALSE, old)
         ELSE LET elems == params[key].elems
                  read == {n \in DOMAIN elems :
                             \A m \in DOMAIN elems : m <= n => Fits(T, elems[m])} IN
              Got(key, "map", T, read = DOMAIN elems,
                  [n \in DOMAIN old \cup read |->
                     IF n \in read THEN Cast(T, elems[n]) ELSE old[n]])

-----------------------------------------------------------------------------
Contents(T) == {in.is : in \in {j \in Inputs : j.T = T}}

VectorsOf(T) == {vec \in Vectors : \A i \in DOMAIN vec : vec[i] \in Contents(T)}

MapsOf(T) == UNION {[m -> Contents(T)] : m \in SUBSET Names}

Operands(x) ==
    {Scalar(TagOf[in.T], in.is) : in \in Inputs}
        \cup {val[y] : y \in {z \in Objects : z # x /\ Usable(val[z])}}

Next ==
    \/ /\ steps < MaxSteps
       /\ \/ \E x, y \in Objects : Assign(x, y)
          \/ \E x \in Objects, in \in Inputs : AssignScalar(x, in)
          \/ \E x \in Objects : Clear(x)
          \/ \E x \in Objects, t \in Scalars : Convert(x, t)
          \/ \E x \in Objects, i \in Index : SetSize(x, i)
          \/ \E x \in Objects : Begin(x)
          \/ \E x \in Objects, i \in Index : \E w \in Operands(x) : SetElement(x, i, w)
          \/ \E x \in Objects, n \in Names : \E w \in Operands(x) : SetNamed(x, n, w)
          \/ \E x \in Objects, n \in Names : ReadNamed(x, n)
          \/ \E key \in Keys, in \in Inputs : SetScalar(key, in)
          \/ \E key \in Keys, T \in StaticTypes : \E vec \in VectorsOf(T) : SetVec(key, T, vec)
          \/ \E key \in Keys, T \in StaticTypes : \E map \in MapsOf(T) : SetMap(key, T, map)
          \/ \E key \in Keys, x \in Objects : SetValues(key, x)
    \/ \E key \in Keys : GetAbsent(key)
    \/ \E key \in Keys, T \in StaticTypes : GetScalar(key, T, 0)
    \/ \E key \in Keys, T \in StaticTypes : \E old \in VectorsOf(T) : GetVec(key, T, old)
    \/ \E key \in Keys, T \in StaticTypes : \E old \in MapsOf(T) : GetMap(key, T, old)

Spec == Init /\ [][Next]_vars

-----------------------------------------------------------------------------
(* A checked accessor (xmlrpcvalue.cpp 161-221) adds to a value and takes   *)
(* nothing from it: what a constant access would have answered before, it   *)
(* answers after, whatever was called in between; and a call that throws    *)
(* leaves a value that was valid as it was.                                 *)
AccessOnlyAdds ==
    [][op'.name = "access" =>
         LET x == op'.on  v == val[x]  w == val'[x] IN
         v.type # "Invalid" =>
             /\ w.type = v.type
             /\ \A t \in Scalars : ReadsScalar(v, t) => ReadsScalar(w, t)
             /\ \A i \in Index : ReadsElement(v, i) => ReadsElement(w, i)
             /\ \A n \in Names : HasMember(v, n) => HasMember(w, n)
             /\ op'.threw => w = v]_vars

\* Each static type holds every value of the ones before it.
Wider(T) == CASE T = "bool" -> {"bool", "int", "double"}
              [] T = "int" -> {"int", "double"}
              [] OTHER -> {T}

SameNumber(S, a, T, b) ==
    LET half(U, c) == IF U \in {"double", "string"} THEN c ELSE 2 * c IN
    half(S, a) = half(T, b)

(* What was set is what is got (param.h 154-334): a get of the same shape   *)
(* and of the same static type, or for a vector or a map of a wider one,    *)
(* answers true; a vector comes back with its size, whatever the caller's   *)
(* variable held before, and a map with every member that was set.          *)
RoundTrip ==
    [][op'.name = "get" =>
         LET key == op'.on IN
         \/ key \notin DOMAIN last
         \/ op'.shape # last[key].shape
         \/ op'.T \notin (IF op'.shape = "scalar" THEN {last[key].T} ELSE Wider(last[key].T))
         \/ LET set == last[key].content  got == op'.content IN
            /\ op'.ok
            /\ IF op'.shape = "scalar" THEN got = set
               ELSE /\ DOMAIN set \subseteq DOMAIN got
                    /\ op'.shape = "vec" => DOMAIN got = DOMAIN set
                    /\ \A i \in DOMAIN set :
                          SameNumber(last[key].T, set[i], op'.T, got[i])]_vars

=============================================================================
