---------------------------- MODULE ParamStore_proofs ----------------------------
(***************************************************************************)
(* Proofs about generic values and their container, for all objects, keys, *)
(* names and contents.  For what a call does to a value it is looked at    *)
(* one level deep: its elements may be anything.  For operator==, and for  *)
(* the types, values are followed down, level by level: no call makes a    *)
(* value more than one level deeper than those there were.                 *)
(***************************************************************************)
EXTENDS ParamCompare, SequenceTheorems, FiniteSetTheorems, TLAPS

\* A value has the three parts of a value, and the elements of an array are a
\* sequence.
IsValue(v) == v = Value(v.type, v.atom, v.elems)

Listed(s) == s \in Seq({s[i] : i \in DOMAIN s})

Shaped(v) == IsValue(v) /\ (v.type = "Array" => Listed(v.elems))

ValInv ==
    /\ val = [x \in Objects |-> val[x]]
    /\ \A x \in Objects : Shaped(val[x])

-----------------------------------------------------------------------------
(* Sequences and values.                                                   *)

LEMMA Listing ==
    ASSUME NEW S, NEW s \in Seq(S)
    PROVE  Listed(s)
<1>1. Len(s) \in Nat /\ DOMAIN s = 1..Len(s)
  OBVIOUS
<1>2. s = [i \in 1..Len(s) |-> s[i]]
  OBVIOUS
<1>3. \A i \in 1..Len(s) : s[i] \in {s[j] : j \in DOMAIN s}
  BY <1>1, Zenon
<1>4. [i \in 1..Len(s) |-> s[i]] \in Seq({s[j] : j \in DOMAIN s})
  BY <1>1, <1>3
<1> QED BY <1>2, <1>4, Zenon DEF Listed

LEMMA ListedLen ==
    ASSUME NEW s, Listed(s)
    PROVE  Len(s) \in Nat /\ DOMAIN s = 1..Len(s)
BY DEF Listed

\* The parts of a value that was made.
LEMMA Parts ==
    \A t, a, e : /\ Value(t, a, e).type = t /\ Value(t, a, e).atom = a
                /\ Value(t, a, e).elems = e /\ IsValue(Value(t, a, e))
BY DEF Value, IsValue

\* A value whose elements are replaced.
LEMMA Replaced ==
    ASSUME NEW v, IsValue(v), NEW e
    PROVE  [v EXCEPT !.elems = e] = Value(v.type, v.atom, e)
BY DEF IsValue, Value

\* Padding makes a sequence of a given length, or leaves it alone.
LEMMA ShortPad ==
    ASSUME NEW S, NEW s \in Seq(S), NEW size \in Int, size <= Len(s)
    PROVE  s \o [i \in 1..(size - Len(s)) |-> Invalid] = s
<1>1. 1..(size - Len(s)) = {}
  OBVIOUS
<1>2. [i \in 1..(size - Len(s)) |-> Invalid] = <<>>
  BY <1>1
<1> QED BY <1>2, ConcatEmptySeq

LEMMA LongPad ==
    ASSUME NEW S, NEW s \in Seq(S), NEW size \in Int, size > Len(s)
    PROVE  /\ s \o [i \in 1..(size - Len(s)) |-> Invalid] \in Seq(S \cup {Invalid})
           /\ Len(s \o [i \in 1..(size - Len(s)) |-> Invalid]) = size
<1> DEFINE pad == [i \in 1..(size - Len(s)) |-> Invalid]
<1>1. pad \in Seq(S \cup {Invalid}) /\ Len(pad) = size - Len(s) /\ Len(s) \in Nat
  OBVIOUS
<1>2. s \in Seq(S \cup {Invalid})
  OBVIOUS
<1> HIDE DEF pad
<1>3. s \o pad \in Seq(S \cup {Invalid}) /\ Len(s \o pad) = Len(s) + Len(pad)
  BY <1>1, <1>2
<1>4. Len(s \o pad) = size
  BY <1>1, <1>3
<1> QED BY <1>3, <1>4 DEF pad

LEMMA Padded ==
    ASSUME NEW s, Listed(s), NEW size \in Int,
           NEW p, p = s \o [i \in 1..(size - Len(s)) |-> Invalid]
    PROVE  /\ Listed(p) /\ Len(p) >= Len(s) /\ Len(p) >= size
           /\ size <= Len(s) => p = s
<1> DEFINE S == {s[i] : i \in DOMAIN s}
<1>1. s \in Seq(S) /\ Len(s) \in Nat
  BY ListedLen, Zenon DEF Listed
<1> HIDE DEF S
<1>2. CASE size <= Len(s)
  <2>1. p = s
    BY <1>1, <1>2, ShortPad
  <2>2. Len(s) >= Len(s) /\ Len(s) >= size
    BY <1>1, <1>2
  <2> QED BY <2>1, <2>2, Zenon
<1>3. CASE size > Len(s)
  <2>1. p \in Seq(S \cup {Invalid}) /\ Len(p) = size
    BY <1>1, <1>3, LongPad, Zenon
  <2>2. Listed(p)
    BY <2>1, Listing, Zenon
  <2> QED BY <1>1, <1>3, <2>1, <2>2
<1>4. size <= Len(s) \/ size > Len(s)
  BY <1>1
<1> QED BY <1>2, <1>3, <1>4, Zenon

LEMMA Blank ==
    ASSUME NEW size \in Int
    PROVE  Listed([i \in 1..size |-> Invalid])
<1>1. CASE size >= 0
  <2>1. [i \in 1..size |-> Invalid] \in Seq({Invalid})
    BY <1>1
  <2> QED BY <2>1, Listing, Zenon
<1>2. CASE size < 0
  <2>1. [i \in 1..size |-> Invalid] = <<>> /\ <<>> \in Seq({Invalid})
    BY <1>2
  <2> QED BY <2>1, Listing, Zenon
<1> QED BY <1>1, <1>2

-----------------------------------------------------------------------------
(* Accesses.                                                               *)

\* What an access may do to a value: the body of AccessOnlyAdds.
Keeps(v, w, threw) ==
    v.type # "Invalid" =>
        /\ w.type = v.type
        /\ \A t \in Scalars : ReadsScalar(v, t) => ReadsScalar(w, t)
        /\ \A i \in Index : ReadsElement(v, i) => ReadsElement(w, i)
        /\ \A n \in Names : HasMember(v, n) => HasMember(w, n)
        /\ threw => w = v

LEMMA KeepsItself ==
    ASSUME NEW v, NEW threw
    PROVE  Keeps(v, v, threw)
BY Zenon DEF Keeps

LEMMA KeepsLonger ==
    ASSUME NEW v, NEW w, NEW threw, v.type = "Array", w.type = "Array",
           Listed(v.elems), Listed(w.elems), Len(v.elems) <= Len(w.elems),
           threw => w = v
    PROVE  Keeps(v, w, threw)
<1>1. \A t \in Scalars : ReadsScalar(v, t) => ReadsScalar(w, t)
  BY Zenon DEF ReadsScalar
<1>2. ASSUME NEW i \in Index, ReadsElement(v, i) PROVE ReadsElement(w, i)
  <2>1. i \in 0..(Len(v.elems) - 1) /\ Len(v.elems) \in Nat /\ Len(w.elems) \in Nat
    BY <1>2, ListedLen, Zenon DEF ReadsElement
  <2>2. i \in 0..(Len(w.elems) - 1)
    BY <2>1
  <2> QED BY <2>2, Zenon DEF ReadsElement
<1>3. \A n \in Names : ~HasMember(v, n)
  BY DEF HasMember
<1> QED BY <1>1, <1>2, <1>3, Zenon DEF Keeps

LEMMA AsScalarKeeps ==
    ASSUME NEW v, Shaped(v), NEW t, t # "Array", NEW r, r = AsScalar(v, t)
    PROVE  Shaped(r.val) /\ Keeps(v, r.val, r.threw)
<1>1. CASE v.type = "Invalid"
  <2>1. r.val = Value(t, 0, <<>>)
    BY <1>1 DEF AsScalar, Fine, Scalar
  <2>2. r.val.type = t /\ IsValue(r.val)
    BY <2>1, Parts
  <2> QED BY <1>1, <2>2, Zenon DEF Shaped, Keeps
<1>2. CASE v.type # "Invalid"
  <2>1. r.val = v
    BY <1>2 DEF AsScalar, Fine, Throw
  <2> QED BY <2>1, KeepsItself, Zenon
<1> QED BY <1>1, <1>2

LEMMA AsStructKeeps ==
    ASSUME NEW v, Shaped(v), NEW r, r = AsStruct(v)
    PROVE  /\ Shaped(r.val) /\ Keeps(v, r.val, r.threw)
           /\ r.threw \in BOOLEAN /\ (r.threw <=> v.type \notin {"Invalid", "Struct"})
           /\ v.type = "Struct" => r.val = v
           /\ ~r.threw => r.val.type = "Struct"
<1>1. CASE v.type = "Invalid"
  <2>1. r.val = Value("Struct", 0, <<>>) /\ r.threw = FALSE
    BY <1>1 DEF AsStruct, Fine, Struct
  <2>2. r.val.type = "Struct" /\ IsValue(r.val)
    BY <2>1, Parts
  <2>3. Shaped(r.val)
    BY <2>2 DEF Shaped
  <2>4. v.type # "Struct" /\ (r.threw <=> v.type \notin {"Invalid", "Struct"})
    BY <1>1, <2>1
  <2> QED BY <1>1, <2>1, <2>2, <2>3, <2>4, Zenon DEF Keeps
<1>2. CASE v.type # "Invalid"
  <2>1. r.val = v /\ r.threw = (v.type # "Struct")
    BY <1>2 DEF AsStruct, Fine, Throw
  <2>2. Keeps(v, r.val, r.threw) /\ Shaped(r.val)
    BY <2>1, KeepsItself, Zenon
  <2>3. r.threw <=> v.type \notin {"Invalid", "Struct"}
    BY <1>2, <2>1
  <2> QED BY <1>2, <2>1, <2>2, <2>3
<1> QED BY <1>1, <1>2

LEMMA AsArrayKeeps ==
    ASSUME NEW v, Shaped(v), NEW size \in Int, NEW r, r = AsArray(v, size)
    PROVE  /\ Shaped(r.val) /\ Keeps(v, r.val, r.threw) /\ r.threw \in BOOLEAN
           /\ v.type = "Array" /\ size <= Len(v.elems) => r.val = v
           /\ ~r.threw => r.val.type = "Array" /\ Len(r.val.elems) >= size
           /\ v.type = "Array" => Len(v.elems) <= Len(r.val.elems)
<1>1. CASE v.type = "Invalid" /\ size < 0
  <2>1. r = Throw(NullArray)
    BY <1>1 DEF AsArray
  <2>2. r.val = Value("Array", -1, <<>>) /\ r.threw = TRUE
    BY <2>1 DEF Throw, NullArray
  <2>3. Listed(<<>>)
    BY Listing, EmptySeq
  <2>4. Shaped(r.val)
    <3>1. IsValue(r.val) /\ r.val.elems = <<>>
      BY <2>2, Parts
    <3> QED BY <2>3, <3>1, Zenon DEF Shaped
  <2>5. v.type # "Array" /\ Keeps(v, r.val, r.threw)
    BY <1>1 DEF Keeps
  <2> QED BY <2>2, <2>4, <2>5
<1>2. CASE v.type = "Invalid" /\ size >= 0
  <2> DEFINE blank == [i \in 1..size |-> Invalid]
  <2>1. r = Fine(Array(blank))
    BY <1>2 DEF AsArray
  <2>2. r.val = Value("Array", 0, blank) /\ r.threw = FALSE
    BY <2>1 DEF Fine, Array
  <2>3. Listed(blank) /\ Len(blank) = size
    <3>1. Len(blank) = size
      BY <1>2
    <3> QED BY <3>1, Blank, Zenon
  <2> HIDE DEF blank
  <2>4. r.val.type = "Array" /\ r.val.elems = blank /\ IsValue(r.val)
    BY <2>2, Parts
  <2>5. Shaped(r.val)
    BY <2>3, <2>4, Zenon DEF Shaped
  <2>6. v.type # "Array" /\ Keeps(v, r.val, r.threw)
    BY <1>2 DEF Keeps
  <2>7. Len(r.val.elems) >= size
    BY <2>3, <2>4
  <2> QED BY <2>2, <2>4, <2>5, <2>6, <2>7
<1>3. CASE v.type = "Array"
  <2> DEFINE p == v.elems \o [i \in 1..(size - Len(v.elems)) |-> Invalid]
  <2>1. r = Fine([v EXCEPT !.elems = p])
    BY <1>3 DEF AsArray
  <2>2. Listed(v.elems) /\ IsValue(v)
    BY <1>3, Zenon DEF Shaped
  <2>3. /\ Listed(p) /\ Len(p) >= Len(v.elems) /\ Len(p) >= size
        /\ size <= Len(v.elems) => p = v.elems
    BY <2>2, Padded
  <2> HIDE DEF p
  <2>4. r.val = Value(v.type, v.atom, p) /\ r.threw = FALSE
    <3>1. r.val = [v EXCEPT !.elems = p] /\ r.threw = FALSE
      BY <2>1 DEF Fine
    <3> QED BY <2>2, <3>1, Replaced, Zenon
  <2>5. r.val.type = "Array" /\ r.val.elems = p /\ IsValue(r.val)
    BY <1>3, <2>4, Parts
  <2>6. Shaped(r.val)
    BY <2>3, <2>5, Zenon DEF Shaped
  <2>7. Keeps(v, r.val, r.threw)
    <3>1. Len(v.elems) <= Len(p)
      BY <2>2, <2>3, ListedLen
    <3> QED BY <1>3, <2>2, <2>3, <2>4, <2>5, <3>1, KeepsLonger, Zenon
  <2>8. size <= Len(v.elems) => r.val = v
    BY <2>2, <2>3, <2>4, Zenon DEF IsValue
  <2>9. Len(r.val.elems) >= size /\ Len(v.elems) <= Len(r.val.elems)
    BY <2>2, <2>3, <2>5, ListedLen
  <2> QED BY <2>4, <2>5, <2>6, <2>7, <2>8, <2>9
<1>4. CASE v.type \notin {"Invalid", "Array"}
  <2>1. r.val = v /\ r.threw = TRUE
    BY <1>4 DEF AsArray, Throw
  <2> QED BY <1>4, <2>1, KeepsItself
<1> QED BY <1>1, <1>2, <1>3, <1>4

\* An element that is replaced, a member that is added or replaced.
WithElement(v, k, w) == [v EXCEPT !.elems[k] = w]

LEMMA ElementSet ==
    ASSUME NEW v, Shaped(v), v.type = "Array", NEW k \in 1..Len(v.elems), NEW w
    PROVE  /\ Shaped(WithElement(v, k, w)) /\ WithElement(v, k, w).type = "Array"
           /\ Len(WithElement(v, k, w).elems) = Len(v.elems)
<1> DEFINE r == WithElement(v, k, w)
           e == [v.elems EXCEPT ![k] = w]
<1>1. IsValue(v) /\ Listed(v.elems)
  BY Zenon DEF Shaped
<1>2. r = [v EXCEPT !.elems = e]
  BY DEF WithElement
<1> HIDE DEF r
<1>3. Listed(e) /\ Len(e) = Len(v.elems)
  <2> DEFINE S == {v.elems[i] : i \in DOMAIN v.elems} \cup {w}
  <2>1. v.elems \in Seq(S)
    BY <1>1 DEF Listed
  <2> HIDE DEF S
  <2>2. w \in S
    BY DEF S
  <2>3. e \in Seq(S) /\ Len(e) = Len(v.elems)
    BY <2>1, <2>2
  <2> HIDE DEF e
  <2> QED BY <2>3, Listing, Zenon
<1> HIDE DEF e
<1>4. r = Value(v.type, v.atom, e)
  BY <1>1, <1>2, Replaced, Zenon
<1>5. r.type = "Array" /\ r.elems = e /\ IsValue(r)
  <2> DEFINE u == Value(v.type, v.atom, e)
  <2>1. u.type = v.type /\ u.elems = e /\ IsValue(u)
    BY Parts
  <2> HIDE DEF u
  <2>2. r = u
    BY <1>4 DEF u
  <2> QED BY <2>1, <2>2, Zenon
<1>6. Shaped(r)
  BY <1>3, <1>5 DEF Shaped
<1> QED BY <1>3, <1>5, <1>6, Zenon DEF r

LEMMA MemberSet ==
    ASSUME NEW v, Shaped(v), v.type = "Struct", NEW name, NEW w,
           NEW r, r = SetMember(v, name, w)
    PROVE  Shaped(r) /\ Keeps(v, r, FALSE)
<1> DEFINE e == [n \in DOMAIN v.elems \cup {name} |-> IF n = name THEN w ELSE v.elems[n]]
<1>1. IsValue(v)
  BY Zenon DEF Shaped
<1>2. r = [v EXCEPT !.elems = e]
  BY DEF SetMember
<1>3. DOMAIN v.elems \subseteq DOMAIN e
  OBVIOUS
<1> HIDE DEF e
<1>4. r = Value(v.type, v.atom, e)
  BY <1>1, <1>2, Replaced, Zenon
<1>5. r.type = "Struct" /\ r.elems = e /\ IsValue(r)
  <2> DEFINE u == Value(v.type, v.atom, e)
  <2>1. u.type = v.type /\ u.elems = e /\ IsValue(u)
    BY Parts
  <2> HIDE DEF u
  <2>2. r = u
    BY <1>4 DEF u
  <2> QED BY <2>1, <2>2, Zenon
<1>6. Shaped(r)
  BY <1>5 DEF Shaped
<1>7. \A t \in Scalars : ReadsScalar(v, t) => ReadsScalar(r, t)
  BY <1>5, Zenon DEF ReadsScalar
<1>8. \A i \in Index : ~ReadsElement(v, i)
  BY DEF ReadsElement
<1>9. \A n \in Names : HasMember(v, n) => HasMember(r, n)
  BY <1>3, <1>5, Zenon DEF HasMember
<1> QED BY <1>5, <1>6, <1>7, <1>8, <1>9, Zenon DEF Keeps

-----------------------------------------------------------------------------
(* The calls.                                                              *)

OnlyAdds == op'.name = "access" => Keeps(val[op'.on], val'[op'.on], op'.threw)

LEMMA LocalWrites ==
    ASSUME ValInv, NEW name, NEW x \in Objects, NEW v, NEW threw, Shaped(v),
           Local(name, x, v, threw)
    PROVE  /\ ValInv' /\ val'[x] = v
           /\ op'.name = name /\ op'.on = x /\ op'.threw = threw
<1>1. val' = [val EXCEPT ![x] = v] /\ val = [y \in Objects |-> val[y]]
  BY Zenon DEF Local, ValInv
<1>2. val' = [y \in Objects |-> IF y = x THEN v ELSE val[y]]
  BY <1>1
<1>3. val' = [y \in Objects |-> val'[y]]
  BY <1>2
<1>4. \A y \in Objects : val'[y] = IF y = x THEN v ELSE val[y]
  BY <1>2
<1>5. \A y \in Objects : Shaped(val'[y])
  BY <1>4, Zenon DEF ValInv
<1>6. op'.name = name /\ op'.on = x /\ op'.threw = threw
  BY DEF Local, Done
<1> QED BY <1>3, <1>4, <1>5, <1>6, Zenon DEF ValInv

LEMMA AccessStep ==
    ASSUME ValInv, NEW x \in Objects, NEW v, NEW threw, Shaped(v),
           Keeps(val[x], v, threw), Local("access", x, v, threw)
    PROVE  ValInv' /\ OnlyAdds
BY LocalWrites, Zenon DEF OnlyAdds

LEMMA AssignStep ==
    ASSUME ValInv, NEW x \in Objects, NEW v, Shaped(v), Local("assign", x, v, FALSE)
    PROVE  ValInv' /\ OnlyAdds
<1>1. ValInv' /\ op'.name = "assign"
  BY LocalWrites, Zenon
<1> QED BY <1>1 DEF OnlyAdds

LEMMA ScalarShaped ==
    ASSUME NEW t, NEW a
    PROVE  Shaped(Scalar(t, a)) /\ Shaped(Invalid)
<1>1. Listed(<<>>)
  BY Listing, EmptySeq
<1>2. IsValue(Value(t, a, <<>>)) /\ IsValue(Value("Invalid", 0, <<>>))
  BY Parts
<1>3. Value(t, a, <<>>).elems = <<>> /\ Value("Invalid", 0, <<>>).elems = <<>>
  BY Parts
<1> QED BY <1>1, <1>2, <1>3, Zenon DEF Shaped, Scalar, Invalid

LEMMA ConvertStep ==
    ASSUME ValInv, NEW x \in Objects, NEW t \in Scalars, Convert(x, t)
    PROVE  ValInv' /\ OnlyAdds
<1> DEFINE r == AsScalar(val[x], t)
<1>1. Local("access", x, r.val, r.threw) /\ Shaped(val[x])
  BY Zenon DEF Convert, ValInv
<1>2. t # "Array"
  BY DEF Scalars
<1>3. Shaped(r.val) /\ Keeps(val[x], r.val, r.threw)
  BY <1>1, <1>2, AsScalarKeeps, Zenon
<1> HIDE DEF r
<1> QED BY <1>1, <1>3, AccessStep, Zenon

LEMMA SetSizeStep ==
    ASSUME ValInv, NEW x \in Objects, NEW size \in Int, SetSize(x, size)
    PROVE  ValInv' /\ OnlyAdds
<1> DEFINE r == AsArray(val[x], size)
<1>1. Local("access", x, r.val, r.threw) /\ Shaped(val[x])
  BY Zenon DEF SetSize, ValInv
<1>2. Shaped(r.val) /\ Keeps(val[x], r.val, r.threw)
  BY <1>1, AsArrayKeeps, Zenon
<1> HIDE DEF r
<1> QED BY <1>1, <1>2, AccessStep, Zenon

LEMMA BeginStep ==
    ASSUME ValInv, NEW x \in Objects, Begin(x)
    PROVE  ValInv' /\ OnlyAdds
<1> DEFINE r == AsStruct(val[x])
<1>1. Local("access", x, r.val, r.threw) /\ Shaped(val[x])
  BY Zenon DEF Begin, ValInv
<1>2. Shaped(r.val) /\ Keeps(val[x], r.val, r.threw)
  BY <1>1, AsStructKeeps, Zenon
<1> HIDE DEF r
<1> QED BY <1>1, <1>2, AccessStep, Zenon

LEMMA SetElementStep ==
    ASSUME ValInv, NEW x \in Objects, NEW i \in Int, NEW w, SetElement(x, i, w)
    PROVE  ValInv' /\ OnlyAdds
<1> DEFINE v == val[x]
           r == AsArray(v, i + 1)
<1>1. Shaped(v)
  BY Zenon DEF ValInv
<1>2. IF r.threw THEN Local("access", x, r.val, TRUE)
      ELSE IF i < 0 THEN Local("access", x, r.val, TRUE)
      ELSE Local("access", x, [r.val EXCEPT !.elems[i + 1] = w], FALSE)
  BY Zenon DEF SetElement
<1>3. i + 1 \in Int
  OBVIOUS
<1>4. /\ Shaped(r.val) /\ Keeps(v, r.val, r.threw) /\ r.threw \in BOOLEAN
      /\ v.type = "Array" /\ i + 1 <= Len(v.elems) => r.val = v
      /\ ~r.threw => r.val.type = "Array" /\ Len(r.val.elems) >= i + 1
      /\ v.type = "Array" => Len(v.elems) <= Len(r.val.elems)
  BY <1>1, <1>3, AsArrayKeeps, Zenon
<1> HIDE DEF r
<1>5. CASE r.threw
  <2>1. Local("access", x, r.val, TRUE)
    BY <1>2, <1>5, Zenon
  <2>2. Keeps(v, r.val, TRUE)
    BY <1>4, <1>5, Zenon DEF Keeps
  <2> QED BY <1>4, <2>1, <2>2, AccessStep, Zenon
<1>6. CASE ~r.threw /\ i < 0
  <2>1. Local("access", x, r.val, TRUE)
    BY <1>2, <1>6, Zenon
  <2>2. Keeps(v, r.val, TRUE)
    <3>1. CASE v.type = "Invalid"
      BY <3>1, Zenon DEF Keeps
    <3>2. CASE v.type # "Invalid"
      <4>1. v.type = "Array"
        BY <1>4, <1>6, <3>2, Zenon DEF Keeps
      <4>2. Len(v.elems) \in Nat
        BY <1>1, <4>1, ListedLen, Zenon DEF Shaped
      <4>3. i + 1 <= Len(v.elems)
        BY <1>6, <4>2
      <4> QED BY <1>4, <4>1, <4>3, KeepsItself, Zenon
    <3> QED BY <3>1, <3>2
  <2> QED BY <1>4, <2>1, <2>2, AccessStep, Zenon
<1>7. CASE ~r.threw /\ ~(i < 0)
  <2> DEFINE u == r.val
             z == WithElement(u, i + 1, w)
  <2>1. Local("access", x, z, FALSE)
    BY <1>2, <1>7, Zenon DEF WithElement
  <2>2. Shaped(u) /\ u.type = "Array" /\ Len(u.elems) >= i + 1
    BY <1>4, <1>7, Zenon
  <2>3. i + 1 \in 1..Len(u.elems)
    <3>1. Len(u.elems) \in Nat
      BY <2>2, ListedLen, Zenon DEF Shaped
    <3> QED BY <1>7, <2>2, <3>1
  <2> HIDE DEF u
  <2>4. Shaped(z) /\ z.type = "Array" /\ Len(z.elems) = Len(u.elems)
    BY <2>2, <2>3, ElementSet, Zenon
  <2> HIDE DEF z
  <2>5. Keeps(v, z, FALSE)
    <3>1. CASE v.type = "Invalid"
      BY <3>1, Zenon DEF Keeps
    <3>2. CASE v.type # "Invalid"
      <4>1. v.type = "Array"
        BY <1>4, <1>7, <3>2, Zenon DEF Keeps
      <4>2. Len(v.elems) <= Len(z.elems)
        BY <1>4, <2>4, <4>1, Zenon DEF u
      <4>3. Listed(v.elems) /\ Listed(z.elems)
        BY <1>1, <2>4, <4>1, Zenon DEF Shaped
      <4> QED BY <2>4, <4>1, <4>2, <4>3, KeepsLonger, Zenon
    <3> QED BY <3>1, <3>2
  <2> QED BY <2>1, <2>4, <2>5, AccessStep, Zenon
<1> QED BY <1>5, <1>6, <1>7

LEMMA SetNamedStep ==
    ASSUME ValInv, NEW x \in Objects, NEW name, NEW w, SetNamed(x, name, w)
    PROVE  ValInv' /\ OnlyAdds
<1> DEFINE v == val[x]
           r == AsStruct(v)
<1>1. Shaped(v)
  BY Zenon DEF ValInv
<1>2. Local("access", x, IF r.threw THEN r.val ELSE SetMember(r.val, name, w), r.threw)
  BY Zenon DEF SetNamed
<1>3. /\ Shaped(r.val) /\ Keeps(v, r.val, r.threw)
      /\ r.threw \in BOOLEAN /\ (r.threw <=> v.type \notin {"Invalid", "Struct"})
      /\ v.type = "Struct" => r.val = v
      /\ ~r.threw => r.val.type = "Struct"
  BY <1>1, AsStructKeeps, Zenon
<1> HIDE DEF r
<1>4. CASE r.threw
  <2>1. Local("access", x, r.val, r.threw)
    BY <1>2, <1>4, Zenon
  <2> QED BY <1>3, <2>1, AccessStep, Zenon
<1>5. CASE ~r.threw
  <2> DEFINE z == SetMember(r.val, name, w)
  <2>1. Local("access", x, z, r.threw)
    BY <1>2, <1>5, Zenon
  <2>2. Shaped(z) /\ Keeps(r.val, z, FALSE)
    BY <1>3, <1>5, MemberSet, Zenon
  <2> HIDE DEF z
  <2>3. Keeps(v, z, r.threw)
    <3>1. CASE v.type = "Invalid"
      BY <3>1, Zenon DEF Keeps
    <3>2. CASE v.type # "Invalid"
      <4>1. r.val = v
        BY <1>3, <1>5, <3>2
      <4> QED BY <1>5, <2>2, <4>1, Zenon DEF Keeps
    <3> QED BY <3>1, <3>2
  <2> QED BY <2>1, <2>2, <2>3, AccessStep, Zenon
<1> QED BY <1>4, <1>5

LEMMA ReadNamedStep ==
    ASSUME ValInv, NEW x \in Objects, NEW name, ReadNamed(x, name)
    PROVE  ValInv' /\ OnlyAdds
<1> DEFINE v == val[x]
           z == SetMember(v, name, Invalid)
<1>1. Shaped(v)
  BY Zenon DEF ValInv
<1>2. IF v.type # "Struct" THEN Local("access", x, v, TRUE)
      ELSE Local("access", x, IF HasMember(v, name) THEN v ELSE z, FALSE)
  BY Zenon DEF ReadNamed
<1>3. Keeps(v, v, TRUE) /\ Keeps(v, v, FALSE)
  BY KeepsItself, Zenon
<1>4. CASE v.type # "Struct"
  BY <1>1, <1>2, <1>3, <1>4, AccessStep, Zenon
<1>5. CASE v.type = "Struct" /\ HasMember(v, name)
  BY <1>1, <1>2, <1>3, <1>5, AccessStep, Zenon
<1>6. CASE v.type = "Struct" /\ ~HasMember(v, name)
  <2>1. Shaped(z) /\ Keeps(v, z, FALSE)
    BY <1>1, <1>6, MemberSet, Zenon
  <2>2. Local("access", x, z, FALSE)
    BY <1>2, <1>6, Zenon
  <2> HIDE DEF z
  <2> QED BY <2>1, <2>2, AccessStep, Zenon
<1> QED BY <1>4, <1>5, <1>6, Zenon

LEMMA ValInit == Init => ValInv
<1> SUFFICES ASSUME Init PROVE ValInv
  OBVIOUS
<1>1. val = [x \in Objects |-> Invalid]
  BY DEF Init
<1>2. \A x \in Objects : val[x] = Invalid
  BY <1>1
<1>3. val = [x \in Objects |-> val[x]]
  BY <1>1
<1>4. Shaped(Invalid)
  BY ScalarShaped, Zenon
<1> QED BY <1>2, <1>3, <1>4, Zenon DEF ValInv

\* Calls on the container leave the caller's values alone.
LEMMA ContainerStep ==
    ASSUME ValInv, val' = val, op'.name \in {"set", "get"}
    PROVE  ValInv' /\ OnlyAdds
<1>1. ValInv'
  BY DEF ValInv
<1>2. op'.name # "access"
  OBVIOUS
<1> QED BY <1>1, <1>2 DEF OnlyAdds

LEMMA StoreWrites ==
    ASSUME NEW key, NEW v, NEW shape, NEW T, NEW content, Store(key, v, shape, T, content)
    PROVE  /\ val' = val /\ op'.name = "set"
           /\ params' = Put(params, key, v)
           /\ last' = Put(last, key, [shape |-> shape, T |-> T, content |-> content])
BY DEF Store, Done

LEMMA GotWrites ==
    ASSUME NEW key, NEW shape, NEW T, NEW ok, NEW content, Got(key, shape, T, ok, content)
    PROVE  /\ val' = val /\ params' = params /\ last' = last
           /\ op'.name = "get" /\ op'.on = key /\ op'.shape = shape /\ op'.T = T
           /\ op'.ok = ok /\ op'.content = content
BY DEF Got

LEMMA ValNext == ValInv /\ [Next]_vars => ValInv' /\ (OnlyAdds \/ UNCHANGED vars)
<1> SUFFICES ASSUME ValInv, [Next]_vars PROVE ValInv' /\ (OnlyAdds \/ UNCHANGED vars)
  OBVIOUS
<1>1. ASSUME NEW x \in Objects, NEW y \in Objects, Assign(x, y)
      PROVE  ValInv' /\ OnlyAdds
  <2>1. Shaped(val[y]) /\ Local("assign", x, val[y], FALSE)
    BY <1>1, Zenon DEF ValInv, Assign
  <2> QED BY <2>1, AssignStep, Zenon
<1>2. ASSUME NEW x \in Objects, NEW in \in Inputs, AssignScalar(x, in)
      PROVE  ValInv' /\ OnlyAdds
  <2>1. Local("assign", x, Scalar(TagOf[in.T], in.is), FALSE)
    BY <1>2, Zenon DEF AssignScalar
  <2> QED BY <2>1, ScalarShaped, AssignStep, Zenon
<1>3. ASSUME NEW x \in Objects, Clear(x) PROVE ValInv' /\ OnlyAdds
  <2>1. Local("assign", x, Invalid, FALSE)
    BY <1>3, Zenon DEF Clear
  <2> QED BY <2>1, ScalarShaped, AssignStep, Zenon
<1>4. ASSUME NEW x \in Objects, NEW i \in Index, SetSize(x, i) PROVE ValInv' /\ OnlyAdds
  <2>1. i \in Int
    BY IndexAssumption, Zenon
  <2> QED BY <1>4, <2>1, SetSizeStep, Zenon
<1>5. ASSUME NEW x \in Objects, NEW i \in Index, NEW w, SetElement(x, i, w)
      PROVE  ValInv' /\ OnlyAdds
  <2>1. i \in Int
    BY IndexAssumption, Zenon
  <2> QED BY <1>5, <2>1, SetElementStep, Zenon
<1>6. ASSUME NEW key, NEW v, NEW shape, NEW T, NEW content, Store(key, v, shape, T, content)
      PROVE  ValInv' /\ OnlyAdds
  <2>1. val' = val /\ op'.name = "set"
    BY <1>6, StoreWrites, Zenon
  <2> QED BY <2>1, ContainerStep
<1>7. ASSUME NEW key, NEW shape, NEW T, NEW ok, NEW content, Got(key, shape, T, ok, content)
      PROVE  ValInv' /\ OnlyAdds
  <2>1. val' = val /\ op'.name = "get"
    BY <1>7, GotWrites, Zenon
  <2> QED BY <2>1, ContainerStep
<1>8. ASSUME NEW key, NEW in, SetScalar(key, in) PROVE ValInv' /\ OnlyAdds
  BY <1>6, <1>8, Zenon DEF SetScalar
<1>9. ASSUME NEW key, NEW T, NEW vec, SetVec(key, T, vec) PROVE ValInv' /\ OnlyAdds
  BY <1>6, <1>9, Zenon DEF SetVec
<1>10. ASSUME NEW key, NEW T, NEW map, SetMap(key, T, map) PROVE ValInv' /\ OnlyAdds
  BY <1>6, <1>10, Zenon DEF SetMap
<1>11. ASSUME NEW key, NEW x, SetValues(key, x) PROVE ValInv' /\ OnlyAdds
  BY <1>6, <1>11, Zenon DEF SetValues
<1>12. ASSUME NEW key, GetAbsent(key) PROVE ValInv' /\ OnlyAdds
  BY <1>7, <1>12, Zenon DEF GetAbsent
<1>13. ASSUME NEW key, NEW T, GetScalar(key, T, 0) PROVE ValInv' /\ OnlyAdds
  BY <1>7, <1>13, Zenon DEF GetScalar
<1>14. ASSUME NEW key, NEW T, NEW old, GetVec(key, T, old) PROVE ValInv' /\ OnlyAdds
  BY <1>7, <1>14, Zenon DEF GetVec
<1>15. ASSUME NEW key, NEW T, NEW old, GetMap(key, T, old) PROVE ValInv' /\ OnlyAdds
  BY <1>7, <1>15, Zenon DEF GetMap
<1>16. CASE UNCHANGED vars
  <2>1. val' = val
    BY <1>16 DEF vars
  <2> QED BY <1>16, <2>1 DEF ValInv
<1> QED
  BY <1>1, <1>2, <1>3, <1>4, <1>5, <1>8, <1>9, <1>10, <1>11, <1>12, <1>13, <1>14,
     <1>15, <1>16, ConvertStep, BeginStep, SetNamedStep, ReadNamedStep, Zenon
  DEF Next

\* A checked accessor takes nothing from a value it finds valid, and leaves it
\* as it was when it throws (xmlrpcvalue.cpp 161-221).
THEOREM AccessesOnlyAdd == Spec => AccessOnlyAdds
<1>1. ValInv /\ [Next]_vars /\ ValInv' => (OnlyAdds \/ UNCHANGED vars)
  BY ValNext, Zenon
<1>2. OnlyAdds =>
        (op'.name = "access" =>
           LET x == op'.on  v == val[x]  w == val'[x] IN
           v.type # "Invalid" =>
             /\ w.type = v.type
             /\ \A t \in Scalars : ReadsScalar(v, t) => ReadsScalar(w, t)
             /\ \A i \in Index : ReadsElement(v, i) => ReadsElement(w, i)
             /\ \A n \in Names : HasMember(v, n) => HasMember(w, n)
             /\ op'.threw => w = v)
  BY Zenon DEF OnlyAdds, Keeps
<1>3. ValInv /\ [Next]_vars => ValInv'
  BY ValNext, Zenon
<1> QED BY <1>1, <1>2, <1>3, ValInit, PTL DEF Spec, AccessOnlyAdds

-----------------------------------------------------------------------------
(* What is set is what is got.                                             *)

\* What a key holds is what it was last set to.
HeldAs(v, l) ==
    \/ /\ l.shape = "scalar" /\ l.T \in StaticTypes
       /\ v = Scalar(TagOf[l.T], l.content)
    \/ /\ l.shape = "vec" /\ l.T \in StaticTypes
       /\ l.content \in Seq(Contents(l.T))
       /\ v = Array([i \in DOMAIN l.content |-> Scalar(TagOf[l.T], l.content[i])])
    \/ /\ l.shape = "map" /\ l.T \in StaticTypes
       /\ l.content \in [DOMAIN l.content -> Contents(l.T)]
       /\ v = Struct([n \in DOMAIN l.content |-> Scalar(TagOf[l.T], l.content[n])])
    \/ l.shape = "values"

StoredInv ==
    /\ DOMAIN last = DOMAIN params
    /\ \A key \in DOMAIN params : HeldAs(params[key], last[key])

\* An answer that is the one RoundTrip asks for: its body.
Right(key, shape, T, ok, got) ==
    \/ key \notin DOMAIN last
    \/ shape # last[key].shape
    \/ T \notin (IF shape = "scalar" THEN {last[key].T} ELSE Wider(last[key].T))
    \/ LET set == last[key].content IN
       /\ ok
       /\ IF shape = "scalar" THEN got = set
          ELSE /\ DOMAIN set \subseteq DOMAIN got
               /\ shape = "vec" => DOMAIN got = DOMAIN set
               /\ \A i \in DOMAIN set : SameNumber(last[key].T, set[i], T, got[i])

AnswersRight ==
    op'.name = "get" => Right(op'.on, op'.shape, op'.T, op'.ok, op'.content)

LEMMA Putting ==
    ASSUME StoredInv, NEW key, NEW v, NEW l, HeldAs(v, l),
           params' = Put(params, key, v), last' = Put(last, key, l)
    PROVE  StoredInv'
<1>1. DOMAIN params' = DOMAIN params \cup {key} /\ DOMAIN last' = DOMAIN last \cup {key}
  BY DEF Put
<1>2. \A k \in DOMAIN params' : params'[k] = IF k = key THEN v ELSE params[k]
  BY DEF Put
<1>3. \A k \in DOMAIN last' : last'[k] = IF k = key THEN l ELSE last[k]
  BY DEF Put
<1>4. DOMAIN last' = DOMAIN params'
  BY <1>1 DEF StoredInv
<1>5. ASSUME NEW k \in DOMAIN params' PROVE HeldAs(params'[k], last'[k])
  <2>1. CASE k = key
    BY <1>2, <1>3, <1>4, <2>1, Zenon
  <2>2. CASE k # key
    <3>1. k \in DOMAIN params
      BY <1>1, <2>2
    <3> QED BY <1>2, <1>3, <1>4, <2>2, <3>1, Zenon DEF StoredInv
  <2> QED BY <2>1, <2>2
<1> QED BY <1>4, <1>5, Zenon DEF StoredInv

LEMMA Storing ==
    ASSUME StoredInv, NEW key, NEW v, NEW shape, NEW T, NEW content,
           Store(key, v, shape, T, content),
           HeldAs(v, [shape |-> shape, T |-> T, content |-> content])
    PROVE  StoredInv' /\ AnswersRight
<1> DEFINE l == [shape |-> shape, T |-> T, content |-> content]
<1>1. params' = Put(params, key, v) /\ last' = Put(last, key, l) /\ op'.name = "set"
  BY StoreWrites, Zenon
<1> HIDE DEF l
<1>2. StoredInv'
  BY <1>1, Putting, Zenon DEF l
<1>3. op'.name # "get"
  BY <1>1
<1> QED BY <1>2, <1>3 DEF AnswersRight

LEMMA ContentsAre ==
    ASSUME NEW T
    PROVE  /\ Contents(T) \subseteq Int
           /\ T = "bool" => Contents(T) \subseteq {0, 1}
<1>1. \A in \in Inputs : in.is \in Int /\ (in.T = "bool" => in.is \in {0, 1})
  BY InputsAssumption
<1> QED BY <1>1 DEF Contents

LEMMA SetScalarStep ==
    ASSUME StoredInv, NEW key, NEW in \in Inputs, SetScalar(key, in)
    PROVE  StoredInv' /\ AnswersRight
<1>1. Store(key, Scalar(TagOf[in.T], in.is), "scalar", in.T, in.is)
  BY Zenon DEF SetScalar
<1>2. in.T \in StaticTypes
  BY InputsAssumption
<1>3. HeldAs(Scalar(TagOf[in.T], in.is), [shape |-> "scalar", T |-> in.T, content |-> in.is])
  BY <1>2 DEF HeldAs
<1> QED BY <1>1, <1>3, Storing, Zenon

\* The array and the struct the sets begin with.
LEMMA EmptyArray ==
    ASSUME NEW n \in Nat, NEW e
    PROVE  /\ AsArray(Invalid, n).val.elems = [i \in 1..n |-> Invalid]
           /\ [AsArray(Invalid, n).val EXCEPT !.elems = e] = Array(e)
<1> DEFINE v == AsArray(Invalid, n).val
<1>1. v = Array([i \in 1..n |-> Invalid])
  <2>1. Invalid.type = "Invalid"
    BY DEF Invalid, Value
  <2> QED BY <2>1 DEF AsArray, Fine
<1> HIDE DEF v
<1>2. v.elems = [i \in 1..n |-> Invalid] /\ [v EXCEPT !.elems = e] = Array(e)
  BY <1>1 DEF Array, Value
<1> QED BY <1>2, Zenon DEF v

LEMMA EmptyStruct ==
    ASSUME NEW e
    PROVE  [AsStruct(Invalid).val EXCEPT !.elems = e] = Struct(e)
<1> DEFINE v == AsStruct(Invalid).val
<1>1. v = Struct(<<>>)
  <2>1. Invalid.type = "Invalid"
    BY DEF Invalid, Value
  <2> QED BY <2>1 DEF AsStruct, Fine
<1> HIDE DEF v
<1>2. [v EXCEPT !.elems = e] = Struct(e)
  BY <1>1 DEF Struct, Value
<1> QED BY <1>2, Zenon DEF v

LEMMA VectorsAre ==
    ASSUME NEW T, NEW vec \in VectorsOf(T)
    PROVE  vec \in Seq(Contents(T)) /\ Len(vec) \in Nat /\ DOMAIN vec = 1..Len(vec)
<1>1. vec \in Seq(Int) /\ \A i \in DOMAIN vec : vec[i] \in Contents(T)
  BY VectorsAssumption DEF VectorsOf
<1> HIDE DEF Contents
<1> QED BY <1>1

LEMMA MapsAre ==
    ASSUME NEW T, NEW map \in MapsOf(T)
    PROVE  map \in [DOMAIN map -> Contents(T)]
BY Zenon DEF MapsOf

LEMMA SetVecStores ==
    ASSUME NEW key, NEW T, NEW vec \in VectorsOf(T), SetVec(key, T, vec)
    PROVE  Store(key, Array([i \in DOMAIN vec |-> Scalar(TagOf[T], vec[i])]), "vec", T, vec)
<1> DEFINE e == [i \in DOMAIN vec |-> Scalar(TagOf[T], vec[i])]
           v == AsArray(Invalid, Len(vec)).val
           d == [i \in DOMAIN v.elems |-> Scalar(TagOf[T], vec[i])]
<1>1. Store(key, [v EXCEPT !.elems = d], "vec", T, vec)
  BY Zenon DEF SetVec
<1>2. Len(vec) \in Nat /\ DOMAIN vec = 1..Len(vec)
  BY VectorsAre, Zenon
<1>3. v.elems = [i \in 1..Len(vec) |-> Invalid]
  BY <1>2, EmptyArray, Zenon
<1> HIDE DEF v
<1>4. DOMAIN v.elems = DOMAIN vec
  BY <1>2, <1>3
<1>5. d = e
  BY <1>4, Zenon
<1> HIDE DEF d, e
<1>6. [v EXCEPT !.elems = e] = Array(e)
  BY <1>2, EmptyArray, Zenon DEF v
<1>7. Store(key, Array(e), "vec", T, vec)
  BY <1>1, <1>5, <1>6, Zenon
<1> QED BY <1>7, Zenon DEF e

LEMMA SetVecStep ==
    ASSUME StoredInv, NEW key, NEW T \in StaticTypes, NEW vec \in VectorsOf(T),
           SetVec(key, T, vec)
    PROVE  StoredInv' /\ AnswersRight
<1> DEFINE e == [i \in DOMAIN vec |-> Scalar(TagOf[T], vec[i])]
           l == [shape |-> "vec", T |-> T, content |-> vec]
<1>1. vec \in Seq(Contents(T)) /\ Len(vec) \in Nat /\ DOMAIN vec = 1..Len(vec)
  BY VectorsAre, Zenon
<1>2. Store(key, Array(e), "vec", T, vec)
  BY SetVecStores, Zenon
<1>3. HeldAs(Array(e), l)
  <2>1. l.shape = "vec" /\ l.T = T /\ l.content = vec
    OBVIOUS
  <2> HIDE DEF l
  <2> QED BY <1>1, <2>1, Zenon DEF HeldAs
<1> HIDE DEF e
<1> QED BY <1>2, <1>3, Storing, Zenon

LEMMA SetMapStep ==
    ASSUME StoredInv, NEW key, NEW T \in StaticTypes, NEW map \in MapsOf(T),
           SetMap(key, T, map)
    PROVE  StoredInv' /\ AnswersRight
<1> DEFINE e == [n \in DOMAIN map |-> Scalar(TagOf[T], map[n])]
           l == [shape |-> "map", T |-> T, content |-> map]
<1>1. Store(key, [AsStruct(Invalid).val EXCEPT !.elems = e], "map", T, map)
  BY Zenon DEF SetMap
<1>2. HeldAs(Struct(e), l)
  <2>1. l.shape = "map" /\ l.T = T /\ l.content = map
    OBVIOUS
  <2>2. map \in [DOMAIN map -> Contents(T)]
    BY MapsAre, Zenon
  <2> HIDE DEF l
  <2> QED BY <2>1, <2>2, Zenon DEF HeldAs
<1> HIDE DEF e
<1>3. Store(key, Struct(e), "map", T, map)
  BY <1>1, EmptyStruct, Zenon
<1> QED BY <1>2, <1>3, Storing, Zenon

LEMMA SetValuesStep ==
    ASSUME StoredInv, NEW key, NEW x, SetValues(key, x)
    PROVE  StoredInv' /\ AnswersRight
<1>1. Store(key, val[x], "values", "none", <<>>)
  BY Zenon DEF SetValues
<1>2. HeldAs(val[x], [shape |-> "values", T |-> "none", content |-> <<>>])
  BY DEF HeldAs
<1> QED BY <1>1, <1>2, Storing, Zenon

\* A number read with the type it was written with, or a wider one.
LEMMA Casting ==
    ASSUME NEW S \in StaticTypes, NEW T \in Wider(S), NEW a \in Int,
           S = "bool" => a \in {0, 1}
    PROVE  LET v == Scalar(TagOf[S], a) IN Fits(T, v) /\ SameNumber(S, a, T, Cast(T, v))
<1> DEFINE v == Scalar(TagOf[S], a)
<1>1. v.type = TagOf[S] /\ v.atom = a
  BY DEF Scalar, Value
<1> HIDE DEF v
<1>2. S \in {"bool", "int", "double", "string"}
  BY DEF StaticTypes, TagOf
<1>3. CASE S = "bool"
  <2>1. v.type = "Boolean" /\ a \in {0, 1}
    BY <1>1, <1>3 DEF TagOf
  <2>2. T \in {"bool", "int", "double"}
    BY <1>3 DEF Wider
  <2>3. Halves(v) = 2 * a
    BY <1>1, <2>1 DEF Halves
  <2>4. Fits(T, v)
    BY <2>1, <2>2 DEF Fits, Castable
  <2>5. SameNumber(S, a, T, Cast(T, v))
    BY <1>3, <2>1, <2>2, <2>3 DEF SameNumber, Cast
  <2> QED BY <2>4, <2>5 DEF v
<1>4. CASE S = "int"
  <2>1. v.type = "Int"
    BY <1>1, <1>4 DEF TagOf
  <2>2. T \in {"int", "double"}
    BY <1>4 DEF Wider
  <2>3. Halves(v) = 2 * a
    BY <1>1, <2>1 DEF Halves
  <2>4. Fits(T, v)
    BY <2>1, <2>2 DEF Fits, Castable
  <2>5. SameNumber(S, a, T, Cast(T, v))
    BY <1>4, <2>1, <2>2, <2>3 DEF SameNumber, Cast
  <2> QED BY <2>4, <2>5 DEF v
<1>5. CASE S = "double"
  <2>1. v.type = "Double"
    BY <1>1, <1>5 DEF TagOf
  <2>2. T = "double"
    BY <1>5 DEF Wider
  <2>3. Halves(v) = a
    BY <1>1, <2>1 DEF Halves
  <2>4. Fits(T, v)
    BY <2>1, <2>2 DEF Fits, Castable
  <2>5. SameNumber(S, a, T, Cast(T, v))
    BY <1>5, <2>1, <2>2, <2>3 DEF SameNumber, Cast
  <2> QED BY <2>4, <2>5 DEF v
<1>6. CASE S = "string"
  <2>1. v.type = "String"
    BY <1>1, <1>6 DEF TagOf
  <2>2. T = "string"
    BY <1>6 DEF Wider
  <2>4. Fits(T, v)
    BY <2>1, <2>2 DEF Fits, Castable
  <2>5. SameNumber(S, a, T, Cast(T, v))
    BY <1>1, <1>6, <2>2 DEF SameNumber, Cast
  <2> QED BY <2>4, <2>5 DEF v
<1> QED BY <1>2, <1>3, <1>4, <1>5, <1>6

\* The same, for everything a vector or a map was set to.
LEMMA CastingAll ==
    ASSUME NEW S \in StaticTypes, NEW T \in Wider(S), NEW a \in Contents(S)
    PROVE  /\ Fits(T, Scalar(TagOf[S], a))
           /\ SameNumber(S, a, T, Cast(T, Scalar(TagOf[S], a)))
<1>1. a \in Int /\ (S = "bool" => a \in {0, 1})
  BY ContentsAre
<1> QED BY <1>1, Casting

LEMMA Answering ==
    ASSUME StoredInv, NEW key, NEW shape, NEW T, NEW ok, NEW content,
           Got(key, shape, T, ok, content), Right(key, shape, T, ok, content)
    PROVE  StoredInv' /\ AnswersRight
<1>1. /\ params' = params /\ last' = last
      /\ op'.name = "get" /\ op'.on = key /\ op'.shape = shape /\ op'.T = T
      /\ op'.ok = ok /\ op'.content = content
  BY GotWrites, Zenon
<1>2. StoredInv'
  BY <1>1 DEF StoredInv
<1>3. AnswersRight
  BY <1>1, Zenon DEF AnswersRight
<1> QED BY <1>2, <1>3

LEMMA GetAbsentStep ==
    ASSUME StoredInv, NEW key, GetAbsent(key)
    PROVE  StoredInv' /\ AnswersRight
<1>1. Got(key, "absent", "none", FALSE, <<>>) /\ key \notin DOMAIN last
  BY Zenon DEF GetAbsent, StoredInv
<1> QED BY <1>1, Answering, Zenon DEF Right

LEMMA GetScalarStep ==
    ASSUME StoredInv, NEW key, NEW T, NEW old, GetScalar(key, T, old)
    PROVE  StoredInv' /\ AnswersRight
<1> DEFINE v == params[key]
           l == last[key]
<1>1. /\ key \in DOMAIN params
      /\ IF v.type = TagOf[T] THEN Got(key, "scalar", T, TRUE, v.atom)
                              ELSE Got(key, "scalar", T, FALSE, old)
  BY Zenon DEF GetScalar, Holds
<1>2. HeldAs(v, l)
  BY <1>1, Zenon DEF StoredInv
<1>3. CASE l.shape = "scalar" /\ l.T = T
  <2>1. v = Scalar(TagOf[T], l.content)
    BY <1>2, <1>3 DEF HeldAs
  <2>2. v.type = TagOf[T] /\ v.atom = l.content
    BY <2>1 DEF Scalar, Value
  <2>3. Got(key, "scalar", T, TRUE, l.content)
    BY <1>1, <2>2, Zenon
  <2>4. Right(key, "scalar", T, TRUE, l.content)
    BY Zenon DEF Right
  <2> QED BY <2>3, <2>4, Answering, Zenon
<1>4. CASE l.shape # "scalar" \/ l.T # T
  <2>1. \A ok, got : Right(key, "scalar", T, ok, got)
    BY <1>4 DEF Right
  <2>2. \E ok, got : Got(key, "scalar", T, ok, got)
    BY <1>1, Zenon
  <2> QED BY <2>1, <2>2, Answering, Zenon
<1> QED BY <1>3, <1>4

LEMMA Largest ==
    ASSUME NEW m \in Nat
    PROVE  (CHOOSE k \in 0..m : \A l \in 0..m : l <= k) = m
<1>1. m \in 0..m /\ \A l \in 0..m : l <= m
  OBVIOUS
<1>2. \A k \in 0..m : (\A l \in 0..m : l <= k) => k = m
  BY <1>1
<1> QED BY <1>1, <1>2

LEMMA GetVecStep ==
    ASSUME StoredInv, NEW key, NEW T, NEW old, GetVec(key, T, old)
    PROVE  StoredInv' /\ AnswersRight
<1> DEFINE v == params[key]
           l == last[key]
           elems == v.elems
           good == {n \in 0..Len(elems) : \A i \in 1..n : Fits(T, elems[i])}
           n == CHOOSE k \in good : \A j \in good : j <= k
           read == [i \in DOMAIN elems |-> IF i <= n THEN Cast(T, elems[i])
                                           ELSE IF i <= Len(old) THEN old[i] ELSE 0]
<1>1. /\ key \in DOMAIN params
      /\ IF v.type # "Array" THEN Got(key, "vec", T, FALSE, old)
                             ELSE Got(key, "vec", T, n = Len(elems), read)
  BY Zenon DEF GetVec, Holds
<1> HIDE DEF v, read, n
<1>2. HeldAs(v, l)
  BY <1>1, Zenon DEF StoredInv, v
<1>3. CASE l.shape = "vec" /\ T \in Wider(l.T)
  <2> DEFINE S == l.T
             set == l.content
  <2>1. /\ S \in StaticTypes /\ set \in Seq(Contents(S))
        /\ v = Array([i \in DOMAIN set |-> Scalar(TagOf[S], set[i])])
    BY <1>2, <1>3 DEF HeldAs
  <2>2. v.type = "Array" /\ elems = [i \in DOMAIN set |-> Scalar(TagOf[S], set[i])]
    BY <2>1 DEF Array, Value
  <2>3. Len(set) \in Nat /\ DOMAIN set = 1..Len(set)
    BY <2>1
  <2> HIDE DEF elems
  <2>4. Len(elems) = Len(set) /\ DOMAIN elems = DOMAIN set
    BY <2>2, <2>3
  <2>5. \A i \in DOMAIN set : elems[i] = Scalar(TagOf[S], set[i])
    BY <2>2, Zenon
  <2>6. \A i \in DOMAIN set : set[i] \in Contents(S)
    BY <2>1, <2>3
  <2>7. \A i \in DOMAIN set : Fits(T, elems[i]) /\ SameNumber(S, set[i], T, Cast(T, elems[i]))
    BY <1>3, <2>1, <2>5, <2>6, CastingAll, Zenon
  <2>8. good = 0..Len(set)
    BY <2>3, <2>4, <2>7
  <2>9. n = Len(set)
    <3> HIDE DEF good
    <3>1. n = CHOOSE k \in 0..Len(set) : \A j \in 0..Len(set) : j <= k
      BY <2>8, Zenon DEF n
    <3> QED BY <2>3, <3>1, Largest
  <2>10. \A i \in DOMAIN set : i <= n
    BY <2>3, <2>9
  <2>11. DOMAIN read = DOMAIN set /\ \A i \in DOMAIN set : read[i] = Cast(T, elems[i])
    BY <2>4, <2>10 DEF read
  <2>12. Got(key, "vec", T, n = Len(elems), read)
    BY <1>1, <2>2, Zenon
  <2>13. n = Len(elems)
    BY <2>4, <2>9
  <2>14. Right(key, "vec", T, n = Len(elems), read)
    <3>1. DOMAIN set \subseteq DOMAIN read /\ DOMAIN read = DOMAIN set
      BY <2>11
    <3>2. \A i \in DOMAIN set : SameNumber(S, set[i], T, read[i])
      BY <2>7, <2>11, Zenon
    <3> QED BY <2>13, <3>1, <3>2 DEF Right
  <2> QED BY <2>12, <2>14, Answering, Zenon
<1>4. CASE l.shape # "vec" \/ T \notin Wider(l.T)
  <2>1. \A ok, got : Right(key, "vec", T, ok, got)
    BY <1>4 DEF Right
  <2>2. \E ok, got : Got(key, "vec", T, ok, got)
    BY <1>1, Zenon
  <2> QED BY <2>1, <2>2, Answering, Zenon
<1> QED BY <1>3, <1>4

LEMMA GetMapStep ==
    ASSUME StoredInv, NEW key, NEW T, NEW old, GetMap(key, T, old)
    PROVE  StoredInv' /\ AnswersRight
<1> DEFINE v == params[key]
           l == last[key]
           elems == v.elems
           read == {n \in DOMAIN elems : \A m \in DOMAIN elems : m <= n => Fits(T, elems[m])}
           got == [n \in DOMAIN old \cup read |->
                     IF n \in read THEN Cast(T, elems[n]) ELSE old[n]]
<1>1. /\ key \in DOMAIN params
      /\ IF v.type # "Struct" THEN Got(key, "map", T, FALSE, old)
                              ELSE Got(key, "map", T, read = DOMAIN elems, got)
  BY Zenon DEF GetMap, Holds
<1> HIDE DEF v, got
<1>2. HeldAs(v, l)
  BY <1>1, Zenon DEF StoredInv, v
<1>3. CASE l.shape = "map" /\ T \in Wider(l.T)
  <2> DEFINE S == l.T
             set == l.content
  <2>1. /\ S \in StaticTypes /\ set \in [DOMAIN set -> Contents(S)]
        /\ v = Struct([n \in DOMAIN set |-> Scalar(TagOf[S], set[n])])
    BY <1>2, <1>3 DEF HeldAs
  <2>2. v.type = "Struct" /\ elems = [n \in DOMAIN set |-> Scalar(TagOf[S], set[n])]
    BY <2>1 DEF Struct, Value
  <2> HIDE DEF elems
  <2>3. DOMAIN elems = DOMAIN set
    BY <2>2
  <2>4. \A n \in DOMAIN set : elems[n] = Scalar(TagOf[S], set[n])
    BY <2>2, Zenon
  <2>5. \A n \in DOMAIN set : set[n] \in Contents(S)
    BY <2>1
  <2>6. \A n \in DOMAIN set : Fits(T, elems[n]) /\ SameNumber(S, set[n], T, Cast(T, elems[n]))
    BY <1>3, <2>1, <2>4, <2>5, CastingAll, Zenon
  <2>7. read = DOMAIN elems
    BY <2>3, <2>6
  <2> HIDE DEF read
  <2>8. /\ DOMAIN set \subseteq DOMAIN got
        /\ \A n \in DOMAIN set : got[n] = Cast(T, elems[n])
    BY <2>3, <2>7 DEF got
  <2>9. Got(key, "map", T, read = DOMAIN elems, got)
    BY <1>1, <2>2, Zenon
  <2>10. Right(key, "map", T, read = DOMAIN elems, got)
    <3>1. \A n \in DOMAIN set : SameNumber(S, set[n], T, got[n])
      BY <2>6, <2>8, Zenon
    <3> QED BY <2>7, <2>8, <3>1 DEF Right
  <2> QED BY <2>9, <2>10, Answering, Zenon
<1>4. CASE l.shape # "map" \/ T \notin Wider(l.T)
  <2>1. \A ok, content : Right(key, "map", T, ok, content)
    BY <1>4 DEF Right
  <2>2. \E ok, content : Got(key, "map", T, ok, content)
    BY <1>1, Zenon
  <2> QED BY <2>1, <2>2, Answering, Zenon
<1> QED BY <1>3, <1>4

LEMMA StoredInit == Init => StoredInv
BY DEF Init, StoredInv

\* Calls on the caller's values leave the container alone.
LEMMA LocalLeaves ==
    ASSUME StoredInv, NEW name, NEW x, NEW v, NEW threw, name # "get",
           Local(name, x, v, threw)
    PROVE  StoredInv' /\ AnswersRight
<1>1. params' = params /\ last' = last /\ op'.name = name
  BY DEF Local, Done
<1> QED BY <1>1 DEF StoredInv, AnswersRight

LEMMA StoredNext ==
    StoredInv /\ [Next]_vars => StoredInv' /\ (AnswersRight \/ UNCHANGED vars)
<1> SUFFICES ASSUME StoredInv, [Next]_vars PROVE StoredInv' /\ (AnswersRight \/ UNCHANGED vars)
  OBVIOUS
<1>1. "assign" # "get" /\ "access" # "get"
  OBVIOUS
<1>2. ASSUME NEW x, NEW y, Assign(x, y) PROVE StoredInv' /\ AnswersRight
  BY <1>1, <1>2, LocalLeaves, Zenon DEF Assign
<1>3. ASSUME NEW x, NEW in, AssignScalar(x, in) PROVE StoredInv' /\ AnswersRight
  BY <1>1, <1>3, LocalLeaves, Zenon DEF AssignScalar
<1>4. ASSUME NEW x, Clear(x) PROVE StoredInv' /\ AnswersRight
  BY <1>1, <1>4, LocalLeaves, Zenon DEF Clear
<1>5. ASSUME NEW x, NEW t, Convert(x, t) PROVE StoredInv' /\ AnswersRight
  BY <1>1, <1>5, LocalLeaves, Zenon DEF Convert
<1>6. ASSUME NEW x, NEW i, SetSize(x, i) PROVE StoredInv' /\ AnswersRight
  BY <1>1, <1>6, LocalLeaves, Zenon DEF SetSize
<1>7. ASSUME NEW x, Begin(x) PROVE StoredInv' /\ AnswersRight
  BY <1>1, <1>7, LocalLeaves, Zenon DEF Begin
<1>8. ASSUME NEW x, NEW i, NEW w, SetElement(x, i, w) PROVE StoredInv' /\ AnswersRight
  BY <1>1, <1>8, LocalLeaves, Zenon DEF SetElement
<1>9. ASSUME NEW x, NEW n, NEW w, SetNamed(x, n, w) PROVE StoredInv' /\ AnswersRight
  BY <1>1, <1>9, LocalLeaves, Zenon DEF SetNamed
<1>10. ASSUME NEW x, NEW n, ReadNamed(x, n) PROVE StoredInv' /\ AnswersRight
  BY <1>1, <1>10, LocalLeaves, Zenon DEF ReadNamed
<1>11. CASE UNCHANGED vars
  BY <1>11 DEF StoredInv, vars
<1> QED
  BY <1>2, <1>3, <1>4, <1>5, <1>6, <1>7, <1>8, <1>9, <1>10, <1>11, SetScalarStep,
     SetVecStep, SetMapStep, SetValuesStep, GetAbsentStep, GetScalarStep, GetVecStep,
     GetMapStep, Zenon DEF Next

\* A get with the static type of the last set, or for a vector or a map with a
\* wider one, answers true and with what was set (param.h 154-334).
THEOREM WhatIsSetIsGot == Spec => RoundTrip
<1>1. StoredInv /\ [Next]_vars => (AnswersRight \/ UNCHANGED vars)
  BY StoredNext, Zenon
<1>2. AnswersRight =>
        (op'.name = "get" =>
           LET key == op'.on IN
           \/ key \notin DOMAIN last
           \/ op'.shape # last[key].shape
           \/ op'.T \notin (IF op'.shape = "scalar" THEN {last[key].T} ELSE Wider(last[key].T))
           \/ LET set == last[key].content  got == op'.content IN
              /\ op'.ok
              /\ IF op'.shape = "scalar" THEN got = set
                 ELSE /\ DOMAIN set \subseteq DOMAIN got
                      /\ op'.shape = "vec" => DOMAIN got = DOMAIN set
                      /\ \A i \in DOMAIN set :
                            SameNumber(last[key].T, set[i], op'.T, got[i]))
  BY Zenon DEF AnswersRight, Right
<1>3. StoredInv /\ [Next]_vars => StoredInv'
  BY StoredNext, Zenon
<1> QED BY <1>1, <1>2, <1>3, StoredInit, PTL DEF Spec, RoundTrip

-----------------------------------------------------------------------------
(* Numbers, and what a recursion over them defines.                        *)

\* Induction over the numbers, for a set of them.
LEMMA NatInSet ==
    ASSUME NEW T, 0 \in T, \A n \in Nat : n \in T => n + 1 \in T
    PROVE  \A n \in Nat : n \in T
<1> DEFINE R == {p \in Nat \X Nat : p[1] < p[2]}
<1>1. SUFFICES ASSUME Nat \ T # {} PROVE FALSE
  OBVIOUS
<1>2. IsWellFoundedOn(R, Nat)
  BY NatLessThanWellFounded DEF OpToRel
<1>3. \A x, y \in Nat : x < y => <<x, y>> \in R
  OBVIOUS
<1> HIDE DEF R
<1>4. PICK x \in Nat \ T : \A y \in Nat \ T : <<y, x>> \notin R
  <2>1. Nat \ T \subseteq Nat
    OBVIOUS
  <2> QED
    BY <1>1, <1>2, <2>1, WFMin
<1>5. x # 0
  OBVIOUS
<1>6. x - 1 \in Nat /\ x - 1 < x /\ (x - 1) + 1 = x
  BY <1>5
<1>7. x - 1 \notin T
  BY <1>6
<1> QED
  BY <1>3, <1>4, <1>6, <1>7

\* What Inside yields, one depth after the other.
LEMMA InsideDef ==
    ASSUME NEW S
    PROVE  /\ Inside(S)[0] = S
           /\ \A d \in Nat : Inside(S)[d + 1] = Elements(Inside(S)[d])
<1> DEFINE Step(g, d) == IF d = 0 THEN S ELSE Elements(g[d - 1])
           Upto(n, g) == g = [d \in 0..n |-> Step(g, d)]
           T == {n \in Nat : \E g : Upto(n, g)}
<1>1. \A n \in Nat : n \in T
  <2>1. 0 \in T
    <3>1. Upto(0, [d \in 0..0 |-> S])
      OBVIOUS
    <3> QED
      BY <3>1
  <2>2. ASSUME NEW n \in Nat, n \in T
        PROVE  n + 1 \in T
    <3>1. PICK g : Upto(n, g)
      BY <2>2
    <3> DEFINE h == [d \in 0..(n + 1) |-> Step(g, d)]
    <3>2. \A d \in 0..n : h[d] = g[d]
      BY <3>1
    <3>3. \A d \in 0..(n + 1) : Step(g, d) = Step(h, d)
      <4> SUFFICES ASSUME NEW d \in 0..(n + 1), d # 0 PROVE g[d - 1] = h[d - 1]
        OBVIOUS
      <4>1. d - 1 \in 0..n
        OBVIOUS
      <4> QED
        BY <3>2, <4>1
    <3>4. h = [d \in 0..(n + 1) |-> Step(h, d)]
      BY <3>3
    <3>5. Upto(n + 1, h)
      BY <3>4
    <3> HIDE DEF h, Upto
    <3> QED
      BY <3>5
  <2> HIDE DEF T
  <2> QED
    BY <2>1, <2>2, NatInSet
<1>2. ASSUME NEW n \in Nat, NEW m \in Nat, n <= m, NEW g, Upto(n, g), NEW h, Upto(m, h)
      PROVE  \A d \in Nat : d <= n => g[d] = h[d]
  <2> DEFINE U == {d \in Nat : d <= n => g[d] = h[d]}
  <2>1. 0 \in U
    <3>1. g[0] = S /\ h[0] = S
      BY <1>2
    <3> QED
      BY <3>1
  <2>2. ASSUME NEW d \in Nat, d \in U
        PROVE  d + 1 \in U
    <3> SUFFICES ASSUME d + 1 <= n PROVE g[d + 1] = h[d + 1]
      OBVIOUS
    <3>1. g[d] = h[d]
      BY <2>2
    <3>2. d + 1 \in 0..n /\ d + 1 \in 0..m /\ d + 1 # 0 /\ (d + 1) - 1 = d
      BY <1>2
    <3>3. g[d + 1] = Elements(g[d]) /\ h[d + 1] = Elements(h[d])
      BY <1>2, <3>2
    <3> QED
      BY <3>1, <3>3
  <2>3. \A d \in Nat : d \in U
    <3> HIDE DEF U
    <3> QED
      BY <2>1, <2>2, NatInSet
  <2> QED
    BY <2>3
<1> DEFINE G(n) == CHOOSE g : Upto(n, g)
           F == [d \in Nat |-> G(d)[d]]
<1>3. \A n \in Nat : Upto(n, G(n))
  <2> HIDE DEF Upto
  <2> QED
    BY <1>1
<1>4. ASSUME NEW d \in Nat
      PROVE  F[d] = Step(F, d)
  <2>1. F[d] = Step(G(d), d)
    <3>1. Upto(d, G(d))
      BY <1>3
    <3> HIDE DEF G
    <3> QED
      BY <3>1
  <2>2. ASSUME d # 0
        PROVE  G(d)[d - 1] = F[d - 1]
    <3>1. d - 1 \in Nat /\ d - 1 <= d /\ d - 1 <= d - 1
      BY <2>2
    <3>2. Upto(d, G(d)) /\ Upto(d - 1, G(d - 1))
      BY <1>3, <3>1
    <3> HIDE DEF G, Upto
    <3>3. G(d - 1)[d - 1] = G(d)[d - 1]
      BY <1>2, <3>1, <3>2
    <3> QED
      BY <3>1, <3>3
  <2> HIDE DEF F, G
  <2> QED
    BY <2>1, <2>2
<1>5. F = [d \in Nat |-> Step(F, d)]
  <2> HIDE DEF Step, G
  <2> QED
    BY <1>4
<1>6. Inside(S) = [d \in Nat |-> Step(Inside(S), d)]
  <2> HIDE DEF F
  <2> QED
    BY <1>5 DEF Inside
<1>7. \A d \in Nat : Inside(S)[d] = Step(Inside(S), d)
  <2> HIDE DEF F
  <2> QED
    BY <1>6
<1>8. ASSUME NEW d \in Nat
      PROVE  Inside(S)[d + 1] = Elements(Inside(S)[d])
  <2>1. d + 1 \in Nat /\ d + 1 # 0 /\ (d + 1) - 1 = d
    OBVIOUS
  <2>2. Inside(S)[d + 1] = Step(Inside(S), d + 1)
    BY <1>7, <2>1
  <2> HIDE DEF F
  <2> QED
    BY <2>1, <2>2
<1> QED
  BY <1>7, <1>8

-----------------------------------------------------------------------------
(* How deep values are.                                                    *)

LEMMA ElementsOf ==
    ASSUME NEW S
    PROVE  /\ \A v \in S : \A i \in DOMAIN v.elems : v.elems[i] \in Elements(S)
           /\ \A e \in Elements(S) : \E v \in S : \E i \in DOMAIN v.elems : e = v.elems[i]
  BY DEF Elements

LEMMA ElementsGrow ==
    ASSUME NEW S, NEW T, S \subseteq T
    PROVE  Elements(S) \subseteq Elements(T)
  BY DEF Elements

\* What has no elements.
Plain == [type : Types, atom : Int, elems : {<<>>}] \ {NullArray}

LEMMA PlainEmpty == Elements(Plain) = {}
<1>1. \A v \in Plain : DOMAIN v.elems = {}
  BY DEF Plain
<1> QED
  BY <1>1, ElementsOf

LEMMA InsideEnds ==
    ASSUME NEW S, NEW n \in Nat, Inside(S)[n] = {}
    PROVE  \A d \in Nat : Inside(S)[n + d] = {}
<1> DEFINE T == {d \in Nat : Inside(S)[n + d] = {}}
<1>1. 0 \in T
  OBVIOUS
<1>2. ASSUME NEW d \in Nat, d \in T
      PROVE  d + 1 \in T
  <2>1. n + d \in Nat /\ n + (d + 1) = (n + d) + 1
    OBVIOUS
  <2>2. Inside(S)[(n + d) + 1] = Elements(Inside(S)[n + d])
    BY <2>1, InsideDef
  <2>3. Elements({}) = {}
    BY DEF Elements
  <2> QED
    BY <1>2, <2>1, <2>2, <2>3
<1>3. \A d \in Nat : d \in T
  <2> HIDE DEF T
  <2> QED
    BY <1>1, <1>2, NatInSet
<1> QED
  BY <1>3

\* One more value, made of those there are, of their elements and of what has
\* none, is one level deeper at most.
LEMMA InsideGrows ==
    ASSUME NEW R, NEW Q, NEW n, Q \subseteq R \cup {n},
           Elements({n}) \subseteq Elements(R) \cup (R \ {NullArray}) \cup Plain
    PROVE  /\ Inside(Q)[1] \subseteq Inside(R)[1] \cup (R \ {NullArray}) \cup Plain
           /\ \A d \in Nat : Inside(Q)[d + 2] \subseteq Inside(R)[d + 2] \cup Inside(R)[d + 1]
<1>1. Inside(Q)[1] = Elements(Q) /\ Inside(R)[1] = Elements(R)
  <2>1. 0 \in Nat /\ 0 + 1 = 1
    OBVIOUS
  <2> QED
    BY <2>1, InsideDef
<1>2. Inside(Q)[1] \subseteq Inside(R)[1] \cup (R \ {NullArray}) \cup Plain
  <2>1. Elements(Q) \subseteq Elements(R) \cup Elements({n})
    BY DEF Elements
  <2> QED
    BY <1>1, <2>1
<1>3. \A S, T : Elements(S \cup T) = Elements(S) \cup Elements(T)
  BY DEF Elements
<1> DEFINE U == {d \in Nat : Inside(Q)[d + 2] \subseteq Inside(R)[d + 2] \cup Inside(R)[d + 1]}
<1>4. 0 \in U
  <2>1. 0 + 2 = 2 /\ 0 + 1 = 1 /\ 1 + 1 = 2 /\ 1 \in Nat /\ 0 \in Nat
    OBVIOUS
  <2>2. Inside(Q)[2] = Elements(Inside(Q)[1]) /\ Inside(R)[2] = Elements(Inside(R)[1])
    BY <2>1, InsideDef
  <2>3. Elements(Inside(Q)[1])
          \subseteq Elements(Inside(R)[1] \cup (R \ {NullArray}) \cup Plain)
    BY <1>2, ElementsGrow
  <2>4. Elements(Inside(R)[1] \cup (R \ {NullArray}) \cup Plain)
          = Elements(Inside(R)[1]) \cup Elements(R \ {NullArray}) \cup {}
    <3>1. Elements((Inside(R)[1] \cup (R \ {NullArray})) \cup Plain)
            = Elements(Inside(R)[1] \cup (R \ {NullArray})) \cup Elements(Plain)
      BY <1>3, Zenon
    <3>2. Elements(Inside(R)[1] \cup (R \ {NullArray}))
            = Elements(Inside(R)[1]) \cup Elements(R \ {NullArray})
      BY <1>3, Zenon
    <3> QED
      BY <3>1, <3>2, PlainEmpty, Zenon
  <2>5. Elements(R \ {NullArray}) \subseteq Elements(R)
    BY ElementsGrow
  <2> QED
    BY <1>1, <2>1, <2>2, <2>3, <2>4, <2>5
<1>5. ASSUME NEW d \in Nat, d \in U
      PROVE  d + 1 \in U
  <2>1. /\ d + 1 \in Nat /\ d + 2 \in Nat /\ (d + 1) + 1 = d + 2 /\ (d + 2) + 1 = (d + 1) + 2
    OBVIOUS
  <2>2. /\ Inside(Q)[(d + 1) + 2] = Elements(Inside(Q)[d + 2])
        /\ Inside(R)[(d + 1) + 2] = Elements(Inside(R)[d + 2])
        /\ Inside(R)[(d + 1) + 1] = Elements(Inside(R)[d + 1])
    BY <2>1, InsideDef
  <2>3. Elements(Inside(Q)[d + 2]) \subseteq Elements(Inside(R)[d + 2] \cup Inside(R)[d + 1])
    BY <1>5, ElementsGrow
  <2> QED
    BY <1>3, <2>1, <2>2, <2>3
<1>6. \A d \in Nat : d \in U
  <2> HIDE DEF U
  <2> QED
    BY <1>4, <1>5, NatInSet
<1> QED
  BY <1>2, <1>6

-----------------------------------------------------------------------------
\* A value is in order: one level of it.
Whole(v) == Shaped(v) /\ WellFormed(v)

\* Values of this depth at most, in order at every level.
Deep(R, depth) ==
    /\ \A d \in Nat : \A v \in Inside(R)[d] : Whole(v)
    /\ \A d \in Nat : NullArray \notin Inside(R)[d + 1]
    /\ Inside(R)[depth + 1] = {}

LEMMA PlainWhole == \A v \in Plain : Whole(v) /\ v # NullArray
<1> SUFFICES ASSUME NEW v \in Plain PROVE Whole(v)
  BY DEF Plain
<1>1. v.elems = <<>> /\ v.type \in Types /\ IsValue(v)
  BY DEF Plain, IsValue, Value
<1>2. Listed(<<>>) /\ DOMAIN <<>> = {} /\ Len(<<>>) = 0
  BY DEF Listed
<1>3. 1..0 = {}
  OBVIOUS
<1> QED
  BY <1>1, <1>2, <1>3 DEF Whole, Shaped, WellFormed

LEMMA DeepStep ==
    ASSUME NEW R, NEW k \in Nat, Deep(R, k), NEW n, Whole(n),
           Elements({n}) \subseteq Elements(R) \cup (R \ {NullArray}) \cup Plain,
           NEW Q, Q \subseteq R \cup {n}
    PROVE  Deep(Q, k + 1)
<1>1. /\ Inside(Q)[1] \subseteq Inside(R)[1] \cup (R \ {NullArray}) \cup Plain
      /\ \A d \in Nat : Inside(Q)[d + 2] \subseteq Inside(R)[d + 2] \cup Inside(R)[d + 1]
  BY InsideGrows
<1>2. Inside(Q)[0] = Q /\ Inside(R)[0] = R
  BY InsideDef
<1>3. ASSUME NEW d \in Nat
      PROVE  \/ d = 0
             \/ d = 1
             \/ \E e \in Nat : d = e + 2 /\ d = (e + 1) + 1 /\ e + 1 \in Nat
  <2>1. CASE d >= 2
    <3>1. d - 2 \in Nat /\ d = (d - 2) + 2 /\ d = ((d - 2) + 1) + 1 /\ (d - 2) + 1 \in Nat
      BY <2>1
    <3> QED
      BY <3>1
  <2> QED
    BY <2>1
<1>4. ASSUME NEW d \in Nat, NEW v \in Inside(Q)[d]
      PROVE  Whole(v)
  <2>1. CASE d = 0
    BY <1>2, <1>4, <2>1 DEF Deep
  <2>2. CASE d = 1
    BY <1>1, <1>2, <1>4, <2>2, PlainWhole DEF Deep
  <2>3. CASE \E e \in Nat : d = e + 2 /\ d = (e + 1) + 1 /\ e + 1 \in Nat
    BY <1>1, <1>4, <2>3 DEF Deep
  <2> QED
    BY <1>3, <2>1, <2>2, <2>3
<1>5. ASSUME NEW d \in Nat
      PROVE  NullArray \notin Inside(Q)[d + 1]
  <2>1. CASE d = 0
    <3>1. d + 1 = 1
      BY <2>1
    <3>2. NullArray \notin Inside(R)[1]
      BY <2>1, <3>1 DEF Deep
    <3> QED
      BY <1>1, <3>1, <3>2, PlainWhole
  <2>2. CASE d # 0
    <3>1. d - 1 \in Nat /\ (d - 1) + 2 = d + 1 /\ (d - 1) + 1 = d
      BY <2>2
    <3>2. Inside(Q)[d + 1] \subseteq Inside(R)[d + 1] \cup Inside(R)[(d - 1) + 1]
      BY <1>1, <3>1
    <3>3. NullArray \notin Inside(R)[d + 1] /\ NullArray \notin Inside(R)[(d - 1) + 1]
      BY <3>1 DEF Deep
    <3> QED
      BY <3>2, <3>3
  <2> QED
    BY <2>1, <2>2
<1>6. Inside(Q)[(k + 1) + 1] = {}
  <2>1. k + 2 = (k + 1) + 1 /\ k + 1 \in Nat
    OBVIOUS
  <2>2. Inside(R)[k + 1] = {} /\ Inside(R)[k + 2] = {}
    BY <2>1, InsideEnds DEF Deep
  <2> QED
    BY <1>1, <2>1, <2>2
<1> QED
  BY <1>4, <1>5, <1>6 DEF Deep

-----------------------------------------------------------------------------
(* operator==, one level after the other.                                  *)

\* Sets of values, each with the elements of the next.
Ranked(N, L) ==
    /\ N \in Nat /\ L[0] = {}
    /\ \A d \in Nat : d < N =>
         /\ L[d] \subseteq L[d + 1]
         /\ \A v \in L[d + 1] : Whole(v) /\ \A i \in DOMAIN v.elems : v.elems[i] \in L[d]

LEMMA ArrayPlaces ==
    ASSUME NEW v, Whole(v), NEW w, Whole(w), v.type = "Array", w.type = "Array",
           Len(v.elems) = Len(w.elems)
    PROVE  DOMAIN v.elems = DOMAIN w.elems
<1>1. DOMAIN v.elems = 1..Len(v.elems) /\ DOMAIN w.elems = 1..Len(w.elems)
  BY DEF Whole, Shaped, Listed
<1> QED
  BY <1>1

\* What operator== says of two values depends on what it says of their elements.
LEMMA SameContentOf ==
    ASSUME NEW f, NEW g, NEW v, NEW w, Whole(v), Whole(w), v.type = w.type,
           \A i \in DOMAIN v.elems, j \in DOMAIN w.elems :
               f[<<v.elems[i], w.elems[j]>>] = g[<<v.elems[i], w.elems[j]>>]
    PROVE  SameContent(f, v, w) <=> SameContent(g, v, w)
<1>1. CASE v.type = "Array"
  <2>1. SameContent(f, v, w) <=> /\ Len(v.elems) = Len(w.elems)
                                 /\ \A i \in DOMAIN v.elems : f[<<v.elems[i], w.elems[i]>>]
    BY <1>1 DEF SameContent
  <2>2. SameContent(g, v, w) <=> /\ Len(v.elems) = Len(w.elems)
                                 /\ \A i \in DOMAIN v.elems : g[<<v.elems[i], w.elems[i]>>]
    BY <1>1 DEF SameContent
  <2>3. Len(v.elems) = Len(w.elems) => DOMAIN v.elems = DOMAIN w.elems
    BY <1>1, ArrayPlaces
  <2> QED
    BY <2>1, <2>2, <2>3
<1>2. CASE v.type = "Struct"
  <2>1. SameContent(f, v, w) <=>
          /\ Cardinality(DOMAIN v.elems) = Cardinality(DOMAIN w.elems)
          /\ \A m \in DOMAIN v.elems, n \in DOMAIN w.elems :
                Place(v, m) = Place(w, n) => f[<<v.elems[m], w.elems[n]>>]
    BY <1>2 DEF SameContent
  <2>2. SameContent(g, v, w) <=>
          /\ Cardinality(DOMAIN v.elems) = Cardinality(DOMAIN w.elems)
          /\ \A m \in DOMAIN v.elems, n \in DOMAIN w.elems :
                Place(v, m) = Place(w, n) => g[<<v.elems[m], w.elems[n]>>]
    BY <1>2 DEF SameContent
  <2> QED
    BY <2>1, <2>2
<1>3. CASE v.type \notin {"Array", "Struct"}
  BY <1>3 DEF SameContent
<1> QED
  BY <1>1, <1>2, <1>3

LEMMA RankedGrows ==
    ASSUME NEW N, NEW L, Ranked(N, L), NEW d \in Nat, d < N
    PROVE  /\ L[d] \subseteq L[d + 1]
           /\ \A v \in L[d + 1] : Whole(v) /\ \A i \in DOMAIN v.elems : v.elems[i] \in L[d]
  BY DEF Ranked

\* The recursion of operator== comes to its end.
LEMMA EqualityDef ==
    ASSUME NEW N, NEW L, Ranked(N, L)
    PROVE  \A v, w \in L[N] :
             Equality(L[N])[<<v, w>>] <=>
                 v.type = w.type /\ SameContent(Equality(L[N]), v, w)
<1> DEFINE Body(f, p) == p[1].type = p[2].type /\ SameContent(f, p[1], p[2])
           Over(S, f) == f = [p \in S \X S |-> Body(f, p)]
           T == {d \in Nat : d <= N => \E f : Over(L[d], f)}
<1>0. N \in Nat
  BY DEF Ranked
<1>1. 0 \in T
  <2>1. L[0] = {}
    BY DEF Ranked
  <2>2. Over(L[0], [p \in {} |-> TRUE])
    BY <2>1
  <2> QED
    BY <2>2
<1>2. ASSUME NEW d \in Nat, d \in T
      PROVE  d + 1 \in T
  <2> SUFFICES ASSUME d + 1 <= N PROVE \E f : Over(L[d + 1], f)
    OBVIOUS
  <2>1. d < N /\ d <= N
    BY <1>0
  <2>2. PICK f : Over(L[d], f)
    BY <1>2, <2>1
  <2> DEFINE g == [p \in L[d + 1] \X L[d + 1] |-> Body(f, p)]
  <2>3. L[d] \subseteq L[d + 1]
    BY <2>1, RankedGrows
  <2>4. ASSUME NEW v \in L[d], NEW w \in L[d]
        PROVE  f[<<v, w>>] = g[<<v, w>>]
    <3>1. <<v, w>> \in L[d] \X L[d] /\ <<v, w>> \in L[d + 1] \X L[d + 1]
      BY <2>3
    <3>2. f[<<v, w>>] = Body(f, <<v, w>>)
      <4> HIDE DEF Body
      <4> QED
        BY <2>2, <3>1
    <3>3. g[<<v, w>>] = Body(f, <<v, w>>)
      <4> HIDE DEF Body
      <4> QED
        BY <3>1
    <3> HIDE DEF Body, g
    <3> QED
      BY <3>2, <3>3
  <2>5. ASSUME NEW p \in L[d + 1] \X L[d + 1]
        PROVE  Body(f, p) = Body(g, p)
    <3>1. p[1] \in L[d + 1] /\ p[2] \in L[d + 1]
      OBVIOUS
    <3>2. /\ Whole(p[1]) /\ Whole(p[2])
          /\ \A i \in DOMAIN p[1].elems : p[1].elems[i] \in L[d]
          /\ \A i \in DOMAIN p[2].elems : p[2].elems[i] \in L[d]
      BY <2>1, <3>1, RankedGrows
    <3> HIDE DEF g
    <3>3. p[1].type = p[2].type =>
            (SameContent(f, p[1], p[2]) <=> SameContent(g, p[1], p[2]))
      BY <2>4, <3>2, SameContentOf
    <3> QED
      BY <3>3
  <2>6. Over(L[d + 1], g)
    <3> HIDE DEF Body
    <3> QED
      BY <2>5
  <2> HIDE DEF g, Over
  <2> QED
    BY <2>6
<1>3. \E f : Over(L[N], f)
  <2>1. \A n \in Nat : n \in T
    <3> HIDE DEF T
    <3> QED
      BY <1>1, <1>2, NatInSet
  <2> HIDE DEF Over
  <2> QED
    BY <1>0, <2>1
<1>4. Over(L[N], Equality(L[N]))
  BY <1>3 DEF Equality
<1>5. ASSUME NEW v \in L[N], NEW w \in L[N]
      PROVE  Equality(L[N])[<<v, w>>] = Body(Equality(L[N]), <<v, w>>)
  <2>1. <<v, w>> \in L[N] \X L[N]
    OBVIOUS
  <2> HIDE DEF Body
  <2> QED
    BY <1>4, <2>1
<1>6. ASSUME NEW v \in L[N], NEW w \in L[N]
      PROVE  Body(Equality(L[N]), <<v, w>>)
               <=> v.type = w.type /\ SameContent(Equality(L[N]), v, w)
  OBVIOUS
<1>7. ASSUME NEW v \in L[N], NEW w \in L[N]
      PROVE  Equality(L[N])[<<v, w>>]
               <=> v.type = w.type /\ SameContent(Equality(L[N]), v, w)
  <2> HIDE DEF Body
  <2>1. Equality(L[N])[<<v, w>>] <=> Body(Equality(L[N]), <<v, w>>)
    BY <1>5
  <2> QED
    BY <1>6, <2>1
<1> QED
  BY <1>7, Zenon

LEMMA RankedBelow ==
    ASSUME NEW N, NEW L, Ranked(N, L)
    PROVE  \A d \in Nat : d <= N => L[d] \subseteq L[N]
<1> DEFINE T == {k \in Nat : k <= N => \A d \in Nat : d <= k => L[d] \subseteq L[k]}
<1>0. N \in Nat
  BY DEF Ranked
<1>1. 0 \in T
  OBVIOUS
<1>2. ASSUME NEW k \in Nat, k \in T
      PROVE  k + 1 \in T
  <2> SUFFICES ASSUME k + 1 <= N, NEW d \in Nat, d <= k + 1 PROVE L[d] \subseteq L[k + 1]
    OBVIOUS
  <2>1. k < N /\ k <= N
    BY <1>0
  <2>2. L[k] \subseteq L[k + 1]
    BY <2>1, RankedGrows
  <2>3. CASE d <= k
    BY <1>2, <2>1, <2>2, <2>3
  <2>4. CASE d = k + 1
    BY <2>4
  <2> QED
    BY <2>3, <2>4
<1>3. \A k \in Nat : k \in T
  <2> HIDE DEF T
  <2> QED
    BY <1>1, <1>2, NatInSet
<1> QED
  BY <1>0, <1>3

\* The place of a member tells which member it is, and every place is taken.
LEMMA PlacesTaken ==
    ASSUME NEW v, DOMAIN v.elems \subseteq Nat, IsFiniteSet(DOMAIN v.elems)
    PROVE  /\ \A m, n \in DOMAIN v.elems : Place(v, m) = Place(v, n) => m = n
           /\ \A n \in DOMAIN v.elems : Place(v, n) \in 0..(Cardinality(DOMAIN v.elems) - 1)
           /\ \A k \in 0..(Cardinality(DOMAIN v.elems) - 1) :
                 \E n \in DOMAIN v.elems : Place(v, n) = k
<1> DEFINE D == DOMAIN v.elems
           Below(n) == {m \in D : m < n}
           c == Cardinality(D)
           f == [n \in D |-> Place(v, n)]
<1>0. D \subseteq Nat /\ IsFiniteSet(D) /\ c \in Nat
  BY FS_CardinalityType
<1>1. \A n : Place(v, n) = Cardinality(Below(n))
  BY DEF Place
<1> HIDE DEF D
<1>2. ASSUME NEW n \in D
      PROVE  IsFiniteSet(Below(n)) /\ Cardinality(Below(n)) \in 0..(c - 1)
  <2>1. IsFiniteSet(D \ {n}) /\ Cardinality(D \ {n}) = c - 1
    BY <1>0, FS_RemoveElement
  <2>2. Below(n) \in SUBSET (D \ {n})
    BY <1>0
  <2>3. IsFiniteSet(Below(n)) /\ Cardinality(Below(n)) <= c - 1
    <3> HIDE DEF Below, c
    <3> QED
      BY <2>1, <2>2, FS_Subset
  <2>4. Cardinality(Below(n)) \in Nat
    BY <2>3, FS_CardinalityType
  <2> HIDE DEF Below, c
  <2> QED
    BY <1>0, <2>3, <2>4
<1>3. ASSUME NEW m \in D, NEW n \in D, m < n
      PROVE  Cardinality(Below(m)) # Cardinality(Below(n))
  <2>1. Below(m) \in SUBSET Below(n) /\ m \in Below(n) /\ m \notin Below(m)
    BY <1>0, <1>3
  <2>2. IsFiniteSet(Below(n))
    BY <1>2
  <2> HIDE DEF Below
  <2> QED
    BY <2>1, <2>2, FS_Subset
<1>4. ASSUME NEW m \in D, NEW n \in D, m # n
      PROVE  Place(v, m) # Place(v, n)
  <2>1. m < n \/ n < m
    BY <1>0, <1>4
  <2> HIDE DEF Below
  <2> QED
    BY <1>1, <1>3, <2>1
<1>5. f \in Injection(D, 0..(c - 1))
  <2>1. f \in [D -> 0..(c - 1)]
    <3> HIDE DEF Below, c
    <3> QED
      BY <1>1, <1>2
  <2>2. IsInjective(f)
    BY <1>4 DEF IsInjective
  <2> HIDE DEF f
  <2> QED
    BY <2>1, <2>2 DEF Injection
<1>6. IsFiniteSet(0..(c - 1)) /\ Cardinality(0..(c - 1)) = c
  <2>1. c - 1 \in Int /\ 0 \in Int
    BY <1>0
  <2>2. IsFiniteSet(0..(c - 1))
        /\ Cardinality(0..(c - 1)) = IF 0 > c - 1 THEN 0 ELSE (c - 1) - 0 + 1
    <3> HIDE DEF c
    <3> QED
      BY <2>1, FS_Interval
  <2> HIDE DEF c
  <2> QED
    BY <1>0, <2>2
<1>7. f \in Surjection(D, 0..(c - 1))
  <2>1. c = Cardinality(D)
    OBVIOUS
  <2> HIDE DEF f, c
  <2> QED
    BY <1>5, <1>6, <2>1, FS_Injection
<1>8. \A k \in 0..(c - 1) : \E n \in D : Place(v, n) = k
  <2>1. \A k \in 0..(c - 1) : \E n \in D : f[n] = k
    <3> HIDE DEF f, c
    <3> QED
      BY <1>7 DEF Surjection
  <2>2. \A n \in D : f[n] = Place(v, n)
    OBVIOUS
  <2> HIDE DEF f, c
  <2> QED
    BY <2>1, <2>2
<1>9. \A n \in D : Place(v, n) \in 0..(c - 1)
  <2> HIDE DEF Below, c
  <2> QED
    BY <1>1, <1>2
<1> QED
  BY <1>4, <1>8, <1>9 DEF D

LEMMA MemberPlaces ==
    ASSUME NEW v, Whole(v), v.type = "Struct"
    PROVE  DOMAIN v.elems \subseteq Nat /\ IsFiniteSet(DOMAIN v.elems)
<1>1. DOMAIN v.elems \subseteq Names
  BY DEF Whole, WellFormed
<1> QED
  BY <1>1, NamesAssumption, FS_Subset

\* operator== of two arrays, of two structs and of two values without elements.
LEMMA SameContentCases ==
    ASSUME NEW eq, NEW v, NEW w
    PROVE  /\ v.type = "Array" =>
                (SameContent(eq, v, w) <=>
                    /\ Len(v.elems) = Len(w.elems)
                    /\ \A i \in DOMAIN v.elems : eq[<<v.elems[i], w.elems[i]>>])
           /\ v.type = "Struct" =>
                (SameContent(eq, v, w) <=>
                    /\ Cardinality(DOMAIN v.elems) = Cardinality(DOMAIN w.elems)
                    /\ \A m \in DOMAIN v.elems, n \in DOMAIN w.elems :
                          Place(v, m) = Place(w, n) => eq[<<v.elems[m], w.elems[n]>>])
           /\ v.type \notin {"Array", "Struct"} =>
                (SameContent(eq, v, w) <=> v.atom = w.atom)
<1>1. ASSUME v.type = "Array"
      PROVE  SameContent(eq, v, w) <=>
                /\ Len(v.elems) = Len(w.elems)
                /\ \A i \in DOMAIN v.elems : eq[<<v.elems[i], w.elems[i]>>]
  BY <1>1 DEF SameContent
<1>2. ASSUME v.type = "Struct"
      PROVE  SameContent(eq, v, w) <=>
                /\ Cardinality(DOMAIN v.elems) = Cardinality(DOMAIN w.elems)
                /\ \A m \in DOMAIN v.elems, n \in DOMAIN w.elems :
                      Place(v, m) = Place(w, n) => eq[<<v.elems[m], w.elems[n]>>]
  BY <1>2 DEF SameContent
<1>3. ASSUME v.type \notin {"Array", "Struct"}
      PROVE  SameContent(eq, v, w) <=> v.atom = w.atom
  BY <1>3 DEF SameContent
<1> QED
  BY <1>1, <1>2, <1>3

\* If a relation is reflexive, symmetric or transitive on elements, so is
\* SameContent on what they are elements of.
LEMMA SameContentReflexive ==
    ASSUME NEW eq, NEW v, Whole(v), \A i \in DOMAIN v.elems : eq[<<v.elems[i], v.elems[i]>>]
    PROVE  SameContent(eq, v, v)
<1>1. v.type = "Struct" => \A m, n \in DOMAIN v.elems : Place(v, m) = Place(v, n) => m = n
  BY MemberPlaces, PlacesTaken
<1> QED
  BY <1>1, SameContentCases

LEMMA SameContentSymmetric ==
    ASSUME NEW eq, NEW v, Whole(v), NEW w, Whole(w), v.type = w.type,
           \A i \in DOMAIN v.elems, j \in DOMAIN w.elems :
               eq[<<v.elems[i], w.elems[j]>>] => eq[<<w.elems[j], v.elems[i]>>],
           SameContent(eq, v, w)
    PROVE  SameContent(eq, w, v)
<1>1. CASE v.type = "Array"
  <2>1. /\ Len(v.elems) = Len(w.elems)
        /\ \A i \in DOMAIN v.elems : eq[<<v.elems[i], w.elems[i]>>]
    BY <1>1, SameContentCases
  <2>2. DOMAIN v.elems = DOMAIN w.elems
    BY <1>1, <2>1, ArrayPlaces
  <2>3. /\ Len(w.elems) = Len(v.elems)
        /\ \A i \in DOMAIN w.elems : eq[<<w.elems[i], v.elems[i]>>]
    BY <2>1, <2>2
  <2> QED
    BY <1>1, <2>3, SameContentCases
<1>2. CASE v.type = "Struct"
  <2>1. /\ Cardinality(DOMAIN v.elems) = Cardinality(DOMAIN w.elems)
        /\ \A m \in DOMAIN v.elems, n \in DOMAIN w.elems :
              Place(v, m) = Place(w, n) => eq[<<v.elems[m], w.elems[n]>>]
    BY <1>2, SameContentCases
  <2>2. /\ Cardinality(DOMAIN w.elems) = Cardinality(DOMAIN v.elems)
        /\ \A n \in DOMAIN w.elems, m \in DOMAIN v.elems :
              Place(w, n) = Place(v, m) => eq[<<w.elems[n], v.elems[m]>>]
    BY <2>1
  <2> QED
    BY <1>2, <2>2, SameContentCases
<1>3. CASE v.type \notin {"Array", "Struct"}
  BY <1>3, SameContentCases
<1> QED
  BY <1>1, <1>2, <1>3

LEMMA SameContentTransitive ==
    ASSUME NEW eq, NEW v, Whole(v), NEW w, Whole(w), NEW u, Whole(u),
           v.type = w.type, w.type = u.type,
           \A i \in DOMAIN v.elems, j \in DOMAIN w.elems, k \in DOMAIN u.elems :
               eq[<<v.elems[i], w.elems[j]>>] /\ eq[<<w.elems[j], u.elems[k]>>]
               => eq[<<v.elems[i], u.elems[k]>>],
           SameContent(eq, v, w), SameContent(eq, w, u)
    PROVE  SameContent(eq, v, u)
<1>1. CASE v.type = "Array"
  <2>1. /\ Len(v.elems) = Len(w.elems) /\ Len(w.elems) = Len(u.elems)
        /\ \A i \in DOMAIN v.elems : eq[<<v.elems[i], w.elems[i]>>]
        /\ \A i \in DOMAIN w.elems : eq[<<w.elems[i], u.elems[i]>>]
    BY <1>1, SameContentCases
  <2>2. DOMAIN v.elems = DOMAIN w.elems /\ DOMAIN w.elems = DOMAIN u.elems
    BY <1>1, <2>1, ArrayPlaces
  <2>3. /\ Len(v.elems) = Len(u.elems)
        /\ \A i \in DOMAIN v.elems : eq[<<v.elems[i], u.elems[i]>>]
    BY <2>1, <2>2
  <2> QED
    BY <1>1, <2>3, SameContentCases
<1>2. CASE v.type = "Struct"
  <2>1. /\ Cardinality(DOMAIN v.elems) = Cardinality(DOMAIN w.elems)
        /\ Cardinality(DOMAIN w.elems) = Cardinality(DOMAIN u.elems)
        /\ \A m \in DOMAIN v.elems, n \in DOMAIN w.elems :
              Place(v, m) = Place(w, n) => eq[<<v.elems[m], w.elems[n]>>]
        /\ \A m \in DOMAIN w.elems, n \in DOMAIN u.elems :
              Place(w, m) = Place(u, n) => eq[<<w.elems[m], u.elems[n]>>]
    BY <1>2, SameContentCases
  <2>2. ASSUME NEW m \in DOMAIN v.elems, NEW n \in DOMAIN u.elems, Place(v, m) = Place(u, n)
        PROVE  eq[<<v.elems[m], u.elems[n]>>]
    <3>1. Place(v, m) \in 0..(Cardinality(DOMAIN v.elems) - 1)
      BY <1>2, MemberPlaces, PlacesTaken
    <3>2. PICK l \in DOMAIN w.elems : Place(w, l) = Place(v, m)
      <4>1. Place(v, m) \in 0..(Cardinality(DOMAIN w.elems) - 1)
        BY <2>1, <3>1
      <4> QED
        BY <1>2, <4>1, MemberPlaces, PlacesTaken
    <3>3. eq[<<v.elems[m], w.elems[l]>>] /\ eq[<<w.elems[l], u.elems[n]>>]
      BY <2>1, <2>2, <3>2
    <3> QED
      BY <3>3
  <2> QED
    BY <1>2, <2>1, <2>2, SameContentCases
<1>3. CASE v.type \notin {"Array", "Struct"}
  BY <1>3, SameContentCases
<1> QED
  BY <1>1, <1>2, <1>3

\* operator== is an equivalence on values of any depth.
LEMMA EqualityOfRanked ==
    ASSUME NEW N, NEW L, Ranked(N, L)
    PROVE  /\ \A v \in L[N] : Equality(L[N])[<<v, v>>]
           /\ \A v, w \in L[N] : Equality(L[N])[<<v, w>>] => Equality(L[N])[<<w, v>>]
           /\ \A v, w, u \in L[N] :
                Equality(L[N])[<<v, w>>] /\ Equality(L[N])[<<w, u>>]
                => Equality(L[N])[<<v, u>>]
<1> DEFINE eq == Equality(L[N])
           OnAll(d) == /\ \A v \in L[d] : eq[<<v, v>>]
                       /\ \A v, w \in L[d] : eq[<<v, w>>] => eq[<<w, v>>]
                       /\ \A v, w, u \in L[d] :
                            eq[<<v, w>>] /\ eq[<<w, u>>] => eq[<<v, u>>]
           T == {d \in Nat : d <= N => OnAll(d)}
<1>0. N \in Nat /\ L[0] = {}
  BY DEF Ranked
<1>1. 0 \in T
  BY <1>0
<1>2. \A v, w \in L[N] : eq[<<v, w>>] <=> v.type = w.type /\ SameContent(eq, v, w)
  BY EqualityDef, Zenon
<1> HIDE DEF eq
<1>3. ASSUME NEW d \in Nat, d \in T
      PROVE  d + 1 \in T
  <2> SUFFICES ASSUME d + 1 <= N PROVE OnAll(d + 1)
    OBVIOUS
  <2>1. d < N /\ d <= N /\ d + 1 \in Nat
    BY <1>0
  <2>2. OnAll(d)
    BY <1>3, <2>1
  <2>3. \A v \in L[d + 1] : Whole(v) /\ \A i \in DOMAIN v.elems : v.elems[i] \in L[d]
    BY <2>1, RankedGrows
  <2>4. L[d + 1] \subseteq L[N]
    BY <2>1, RankedBelow
  <2>5. ASSUME NEW v \in L[d + 1]
        PROVE  eq[<<v, v>>]
    <3>1. Whole(v) /\ \A i \in DOMAIN v.elems : eq[<<v.elems[i], v.elems[i]>>]
      BY <2>2, <2>3
    <3>2. SameContent(eq, v, v)
      BY <3>1, SameContentReflexive
    <3> QED
      BY <1>2, <2>4, <3>2
  <2>6. ASSUME NEW v \in L[d + 1], NEW w \in L[d + 1], eq[<<v, w>>]
        PROVE  eq[<<w, v>>]
    <3>1. v.type = w.type /\ SameContent(eq, v, w)
      BY <1>2, <2>4, <2>6
    <3>2. /\ Whole(v) /\ Whole(w)
          /\ \A i \in DOMAIN v.elems, j \in DOMAIN w.elems :
                eq[<<v.elems[i], w.elems[j]>>] => eq[<<w.elems[j], v.elems[i]>>]
      BY <2>2, <2>3
    <3>3. SameContent(eq, w, v)
      BY <3>1, <3>2, SameContentSymmetric
    <3> QED
      BY <1>2, <2>4, <3>1, <3>3
  <2>7. ASSUME NEW v \in L[d + 1], NEW w \in L[d + 1], NEW u \in L[d + 1],
               eq[<<v, w>>], eq[<<w, u>>]
        PROVE  eq[<<v, u>>]
    <3>1. /\ v.type = w.type /\ SameContent(eq, v, w)
          /\ w.type = u.type /\ SameContent(eq, w, u)
      BY <1>2, <2>4, <2>7
    <3>2. /\ Whole(v) /\ Whole(w) /\ Whole(u)
          /\ \A i \in DOMAIN v.elems, j \in DOMAIN w.elems, k \in DOMAIN u.elems :
                eq[<<v.elems[i], w.elems[j]>>] /\ eq[<<w.elems[j], u.elems[k]>>]
                => eq[<<v.elems[i], u.elems[k]>>]
      BY <2>2, <2>3
    <3>3. SameContent(eq, v, u)
      BY <3>1, <3>2, SameContentTransitive
    <3> QED
      BY <1>2, <2>4, <3>1, <3>3
  <2> QED
    BY <2>5, <2>6, <2>7
<1>4. \A d \in Nat : d \in T
  <2> HIDE DEF T
  <2> QED
    BY <1>1, <1>3, NatInSet
<1>5. OnAll(N)
  BY <1>0, <1>4
<1> QED
  BY <1>5 DEF eq

\* operator== on all that is in some values.
LEMMA EqualityOfDeep ==
    ASSUME NEW R, NEW depth \in Nat, Deep(R, depth), NEW n \in Nat, depth <= n,
           NEW H, H = UNION {Inside(R)[d] : d \in 0..n}
    PROVE  /\ \A v \in H : Equality(H)[<<v, v>>]
           /\ \A v, w \in H : Equality(H)[<<v, w>>] => Equality(H)[<<w, v>>]
           /\ \A v, w, u \in H :
                Equality(H)[<<v, w>>] /\ Equality(H)[<<w, u>>] => Equality(H)[<<v, u>>]
<1> DEFINE From(d) == {k \in 0..n : k + d >= n + 1}
           L == [d \in 0..(n + 1) |-> UNION {Inside(R)[k] : k \in From(d)}]
<1>1. L[0] = {}
  BY DEF L
<1>2. L[n + 1] = H
  <2>1. From(n + 1) = 0..n /\ n + 1 \in 0..(n + 1)
    OBVIOUS
  <2> QED
    BY <2>1
<1>3. Inside(R)[n + 1] = {}
  <2>1. n - depth \in Nat /\ (depth + 1) + (n - depth) = n + 1 /\ depth + 1 \in Nat
    OBVIOUS
  <2>2. Inside(R)[depth + 1] = {}
    BY DEF Deep
  <2> QED
    BY <2>1, <2>2, InsideEnds
<1>4. ASSUME NEW d \in Nat, d < n + 1
      PROVE  /\ L[d] \subseteq L[d + 1]
             /\ \A v \in L[d + 1] : Whole(v) /\ \A i \in DOMAIN v.elems : v.elems[i] \in L[d]
  <2>1. /\ L[d] = UNION {Inside(R)[k] : k \in From(d)}
        /\ L[d + 1] = UNION {Inside(R)[k] : k \in From(d + 1)}
    BY <1>4
  <2>2. From(d) \subseteq From(d + 1)
    BY <1>4
  <2>3. ASSUME NEW v \in L[d + 1]
        PROVE  Whole(v) /\ \A i \in DOMAIN v.elems : v.elems[i] \in L[d]
    <3>1. PICK k \in From(d + 1) : v \in Inside(R)[k]
      BY <2>1, <2>3
    <3>2. k \in Nat /\ k + 1 \in Nat /\ (k + 1) + d >= n + 1 /\ k <= n
      BY <1>4
    <3>3. Whole(v)
      BY <3>1, <3>2 DEF Deep
    <3>4. ASSUME NEW i \in DOMAIN v.elems
          PROVE  v.elems[i] \in L[d]
      <4>1. v.elems[i] \in Elements(Inside(R)[k])
        BY <3>1, <3>4, ElementsOf
      <4>2. v.elems[i] \in Inside(R)[k + 1]
        BY <3>2, <4>1, InsideDef
      <4>3. k + 1 # n + 1
        BY <1>3, <4>2
      <4>4. k + 1 \in From(d)
        BY <3>2, <4>3
      <4> QED
        BY <2>1, <4>2, <4>4
    <3> QED
      BY <3>3, <3>4
  <2> QED
    BY <2>1, <2>2, <2>3
<1>5. Ranked(n + 1, L)
  <2> HIDE DEF L
  <2> QED
    BY <1>1, <1>4 DEF Ranked
<1> HIDE DEF L
<1> QED
  BY <1>2, <1>5, EqualityOfRanked

-----------------------------------------------------------------------------
(* What a call makes of the values there are.                              *)

\* What a new value may be put together from: a copy of what there is, or what
\* has no elements.
Stock(R) == Elements(R) \cup (R \ {NullArray}) \cup Plain

Made(R, n) == Whole(n) /\ \A i \in DOMAIN n.elems : n.elems[i] \in Stock(R)

LEMMA MadeDeep ==
    ASSUME NEW R, NEW k \in Nat, Deep(R, k), NEW n, Made(R, n), NEW Q, Q \subseteq R \cup {n}
    PROVE  Deep(Q, k + 1)
<1>1. Whole(n)
  BY DEF Made
<1>2. Elements({n}) \subseteq Elements(R) \cup (R \ {NullArray}) \cup Plain
  BY ElementsOf DEF Made, Stock
<1> QED
  BY <1>1, <1>2, DeepStep

LEMMA DeepWhole ==
    ASSUME NEW R, NEW k, Deep(R, k)
    PROVE  \A v \in R : Whole(v)
<1>1. 0 \in Nat /\ Inside(R)[0] = R
  BY InsideDef
<1> QED
  BY <1>1, Zenon DEF Deep

\* A value there is, one without elements, an array and a struct.
LEMMA MadeOne ==
    ASSUME NEW R, NEW v \in R, Whole(v)
    PROVE  Made(R, v)
<1>1. \A i \in DOMAIN v.elems : v.elems[i] \in Elements(R)
  BY ElementsOf, Zenon
<1> QED
  BY <1>1 DEF Made, Stock

LEMMA MadePlain ==
    ASSUME NEW R, NEW v \in Plain
    PROVE  Made(R, v)
<1>1. Whole(v)
  BY PlainWhole
<1>2. DOMAIN v.elems = {}
  BY DEF Plain
<1> QED
  BY <1>1, <1>2 DEF Made

LEMMA PlainOnes ==
    /\ \A t \in Scalars, a \in Int : Scalar(t, a) \in Plain
    /\ Invalid \in Plain /\ Struct(<<>>) \in Plain
<1>1. ASSUME NEW t \in Scalars, NEW a \in Int
      PROVE  Scalar(t, a) \in Plain
  BY DEF Scalar, Value, Plain, NullArray, Types, Scalars
<1>2. Invalid \in Plain /\ Struct(<<>>) \in Plain
  BY DEF Invalid, Struct, Value, Plain, NullArray, Types
<1> QED
  BY <1>1, <1>2

LEMMA MadeArray ==
    ASSUME NEW R, NEW a, NEW s, Listed(s), \A i \in DOMAIN s : s[i] \in Stock(R)
    PROVE  Made(R, Value("Array", a, s))
<1> DEFINE v == Value("Array", a, s)
<1>1. v.type = "Array" /\ v.elems = s /\ IsValue(v)
  BY Parts
<1>2. DOMAIN s = 1..Len(s)
  BY ListedLen
<1> HIDE DEF v
<1>3. Shaped(v)
  BY <1>1 DEF Shaped
<1>4. WellFormed(v)
  BY <1>1, <1>2 DEF WellFormed, Types
<1> QED
  BY <1>1, <1>3, <1>4 DEF Made, Whole, v

LEMMA MadeStruct ==
    ASSUME NEW R, NEW a, NEW f, DOMAIN f \subseteq Names, \A n \in DOMAIN f : f[n] \in Stock(R)
    PROVE  Made(R, Value("Struct", a, f))
<1> DEFINE v == Value("Struct", a, f)
<1>1. v.type = "Struct" /\ v.elems = f /\ IsValue(v)
  BY Parts
<1> HIDE DEF v
<1>2. Shaped(v)
  BY <1>1 DEF Shaped
<1>3. WellFormed(v)
  BY <1>1 DEF WellFormed, Types
<1> QED
  BY <1>1, <1>2, <1>3 DEF Made, Whole, v

LEMMA MadeNullArray ==
    ASSUME NEW R
    PROVE  Made(R, NullArray)
<1>1. Listed(<<>>) /\ DOMAIN <<>> = {}
  BY DEF Listed
<1> QED
  BY <1>1, MadeArray DEF NullArray

\* The accessors.
LEMMA AsScalarMade ==
    ASSUME NEW R, NEW v \in R, Whole(v), NEW t \in Scalars
    PROVE  Made(R, AsScalar(v, t).val)
<1>1. CASE v.type = "Invalid"
  <2>1. AsScalar(v, t).val = Scalar(t, 0)
    BY <1>1 DEF AsScalar, Fine
  <2>2. Scalar(t, 0) \in Plain
    BY PlainOnes
  <2> QED
    BY <2>1, <2>2, MadePlain
<1>2. CASE v.type # "Invalid"
  <2>1. AsScalar(v, t).val = v
    BY <1>2 DEF AsScalar, Fine, Throw
  <2> QED
    BY <2>1, MadeOne
<1> QED
  BY <1>1, <1>2

LEMMA AsStructMade ==
    ASSUME NEW R, NEW v \in R, Whole(v)
    PROVE  Made(R, AsStruct(v).val)
<1>1. CASE v.type = "Invalid"
  <2>1. AsStruct(v).val = Struct(<<>>)
    BY <1>1 DEF AsStruct, Fine
  <2> QED
    BY <2>1, PlainOnes, MadePlain
<1>2. CASE v.type # "Invalid"
  <2>1. AsStruct(v).val = v
    BY <1>2 DEF AsStruct, Fine, Throw
  <2> QED
    BY <2>1, MadeOne
<1> QED
  BY <1>1, <1>2

LEMMA SeqElements ==
    ASSUME NEW T, NEW s \in Seq(T)
    PROVE  \A i \in DOMAIN s : s[i] \in T
  OBVIOUS

\* What a sequence is, and what it was padded with.
OnlyMore(s, p) == \A i \in DOMAIN p : p[i] = Invalid \/ \E j \in DOMAIN s : p[i] = s[j]

LEMMA PaddedWith ==
    ASSUME NEW s, Listed(s), NEW size \in Int,
           NEW p, p = s \o [i \in 1..(size - Len(s)) |-> Invalid]
    PROVE  OnlyMore(s, p)
<1>1. Len(s) \in Nat /\ DOMAIN s = 1..Len(s) /\ s \in Seq({s[i] : i \in DOMAIN s})
  BY ListedLen DEF Listed
<1>2. CASE size <= Len(s)
  <2>1. p = s
    BY <1>2, Padded
  <2> QED
    BY <2>1 DEF OnlyMore
<1>3. CASE size > Len(s)
  <2> DEFINE S == {s[i] : i \in DOMAIN s}
  <2>1. p \in Seq(S \cup {Invalid})
    BY <1>1, <1>3, LongPad, Zenon
  <2>2. \A i \in DOMAIN p : p[i] \in S \cup {Invalid}
    BY <2>1, SeqElements, Zenon
  <2> QED
    BY <2>2 DEF OnlyMore
<1>4. size <= Len(s) \/ size > Len(s)
  BY <1>1
<1> QED
  BY <1>2, <1>3, <1>4, Zenon

LEMMA AsArrayMade ==
    ASSUME NEW R, NEW v \in R, Whole(v), NEW size \in Int
    PROVE  Made(R, AsArray(v, size).val)
<1>1. CASE v.type = "Invalid" /\ size < 0
  <2>1. AsArray(v, size).val = NullArray
    BY <1>1 DEF AsArray, Throw
  <2> QED
    BY <2>1, MadeNullArray
<1>2. CASE v.type = "Invalid" /\ size >= 0
  <2> DEFINE blank == [i \in 1..size |-> Invalid]
  <2>1. AsArray(v, size).val = Value("Array", 0, blank)
    BY <1>2 DEF AsArray, Fine, Array
  <2>2. Listed(blank)
    BY Blank
  <2>3. \A i \in DOMAIN blank : blank[i] \in Stock(R)
    BY PlainOnes DEF Stock
  <2> HIDE DEF blank
  <2> QED
    BY <2>1, <2>2, <2>3, MadeArray
<1>3. CASE v.type = "Array"
  <2> DEFINE p == v.elems \o [i \in 1..(size - Len(v.elems)) |-> Invalid]
  <2>1. AsArray(v, size).val = [v EXCEPT !.elems = p]
    BY <1>3 DEF AsArray, Fine
  <2>2. Listed(v.elems) /\ IsValue(v)
    BY <1>3, Zenon DEF Whole, Shaped
  <2>3. Listed(p)
    BY <2>2, Padded
  <2> HIDE DEF p
  <2>4. OnlyMore(v.elems, p)
    <3>1. p = v.elems \o [i \in 1..(size - Len(v.elems)) |-> Invalid]
      BY DEF p
    <3> QED
      BY <2>2, <3>1, PaddedWith, Zenon
  <2>5. AsArray(v, size).val = Value("Array", v.atom, p)
    BY <1>3, <2>1, <2>2, Replaced, Zenon
  <2>6. \A j \in DOMAIN v.elems : v.elems[j] \in Stock(R)
    BY ElementsOf DEF Stock
  <2>7. Invalid \in Stock(R)
    BY PlainOnes DEF Stock
  <2>8. \A i \in DOMAIN p : p[i] \in Stock(R)
    BY <2>4, <2>6, <2>7, Zenon DEF OnlyMore
  <2> QED
    BY <2>3, <2>5, <2>8, MadeArray
<1>4. CASE v.type \notin {"Invalid", "Array"}
  <2>1. AsArray(v, size).val = v
    BY <1>4 DEF AsArray, Throw
  <2> QED
    BY <2>1, MadeOne
<1> QED
  BY <1>1, <1>2, <1>3, <1>4

LEMMA ElementMade ==
    ASSUME NEW R, NEW v, Made(R, v), v.type = "Array", NEW k \in 1..Len(v.elems),
           NEW w \in Stock(R)
    PROVE  Made(R, WithElement(v, k, w))
<1> DEFINE r == WithElement(v, k, w)
           e == [v.elems EXCEPT ![k] = w]
<1>1. Shaped(v) /\ IsValue(v) /\ \A i \in DOMAIN v.elems : v.elems[i] \in Stock(R)
  BY Zenon DEF Made, Whole, Shaped
<1>2. r = Value("Array", v.atom, e)
  <2>1. r = [v EXCEPT !.elems = e]
    BY DEF WithElement
  <2> HIDE DEF r, e
  <2> QED
    BY <1>1, <2>1, Replaced, Zenon
<1>3. Shaped(r) /\ r.type = "Array"
  BY <1>1, ElementSet, Zenon
<1> HIDE DEF r
<1>4. \A i \in DOMAIN e : e[i] \in Stock(R)
  BY <1>1
<1>5. r.elems = e
  <2> HIDE DEF e
  <2> QED
    BY <1>2, Parts
<1> HIDE DEF e
<1>6. Listed(e)
  BY <1>3, <1>5 DEF Shaped
<1> QED
  BY <1>2, <1>4, <1>6, MadeArray DEF r

LEMMA MemberMade ==
    ASSUME NEW R, NEW v, Made(R, v), v.type = "Struct", NEW name \in Names, NEW w \in Stock(R)
    PROVE  Made(R, SetMember(v, name, w))
<1> DEFINE e == [n \in DOMAIN v.elems \cup {name} |-> IF n = name THEN w ELSE v.elems[n]]
<1>1. IsValue(v) /\ \A i \in DOMAIN v.elems : v.elems[i] \in Stock(R)
  BY Zenon DEF Made, Whole, Shaped
<1>2. DOMAIN v.elems \subseteq Names
  BY DEF Made, Whole, WellFormed
<1>3. SetMember(v, name, w) = [v EXCEPT !.elems = e]
  BY DEF SetMember
<1>4. DOMAIN e \subseteq Names /\ \A n \in DOMAIN e : e[n] \in Stock(R)
  BY <1>1, <1>2
<1> HIDE DEF e
<1>5. SetMember(v, name, w) = Value("Struct", v.atom, e)
  BY <1>1, <1>3, Replaced, Zenon
<1> QED
  BY <1>4, <1>5, MadeStruct

-----------------------------------------------------------------------------
(* The calls keep every value in order.                                    *)

CompareInv ==
    /\ val = [x \in Objects |-> val[x]]
    /\ DOMAIN params \subseteq Keys /\ DOMAIN last = DOMAIN params
    /\ \A k \in DOMAIN params : Usable(params[k])
    /\ Deep(Roots, steps)
    /\ steps \in 0..MaxSteps

LEMMA CompareInit == Init => CompareInv
<1> SUFFICES ASSUME Init PROVE CompareInv
  OBVIOUS
<1>1. /\ val = [x \in Objects |-> Invalid] /\ params = <<>> /\ last = <<>> /\ steps = 0
  BY DEF Init
<1>2. DOMAIN params = {} /\ DOMAIN last = {}
  BY <1>1
<1>3. Roots \subseteq {Invalid}
  BY <1>1, <1>2 DEF Roots
<1>4. Deep(Roots, 0)
  <2>1. /\ Inside(Roots)[0] = Roots
        /\ \A d \in Nat : Inside(Roots)[d + 1] = Elements(Inside(Roots)[d])
    BY InsideDef
  <2>2. Elements(Roots) = {}
    <3>1. \A v \in Roots : DOMAIN v.elems = {}
      BY <1>3 DEF Invalid, Value
    <3> QED
      BY <3>1, ElementsOf
  <2>3. Inside(Roots)[0 + 1] = {}
    BY <2>1, <2>2, Zenon
  <2>4. 0 + 1 = 1 /\ 1 \in Nat
    OBVIOUS
  <2>5. \A d \in Nat : Inside(Roots)[1 + d] = {}
    BY <2>3, <2>4, InsideEnds
  <2>6. \A d \in Nat : Inside(Roots)[d + 1] = {}
    <3>1. \A d \in Nat : d + 1 = 1 + d
      OBVIOUS
    <3> QED
      BY <2>5, <3>1
  <2>7. ASSUME NEW d \in Nat, NEW v \in Inside(Roots)[d]
        PROVE  Whole(v)
    <3>1. CASE d = 0
      BY <1>3, <2>1, <2>7, <3>1, PlainOnes, PlainWhole
    <3>2. CASE d # 0
      <4>1. d - 1 \in Nat /\ (d - 1) + 1 = d
        BY <3>2
      <4> QED
        BY <2>6, <2>7, <4>1
    <3> QED
      BY <3>1, <3>2
  <2> QED
    BY <2>3, <2>6, <2>7 DEF Deep
<1>5. val = [x \in Objects |-> val[x]]
  BY <1>1
<1>6. 0 \in 0..MaxSteps
  BY BoundAssumption
<1> QED
  BY <1>1, <1>2, <1>4, <1>5, <1>6 DEF CompareInv

\* Each call adds one value to those there are.
LEMMA RootsAre ==
    /\ \A x \in Objects : val[x] \in Roots
    /\ \A k \in DOMAIN params : params[k] \in Roots
BY DEF Roots

LEMMA LocalKeeps ==
    ASSUME CompareInv, steps < MaxSteps, NEW name, NEW x \in Objects, NEW v, Made(Roots, v),
           NEW threw, Local(name, x, v, threw)
    PROVE  CompareInv'
<1>1. /\ steps' = steps + 1 /\ params' = params /\ last' = last
      /\ val' = [val EXCEPT ![x] = v] /\ val = [y \in Objects |-> val[y]]
  BY DEF Local, CompareInv
<1>2. /\ val' = [y \in Objects |-> val'[y]]
      /\ \A y \in Objects : val'[y] = v \/ val'[y] = val[y]
  <2>1. val' = [y \in Objects |-> IF y = x THEN v ELSE val[y]]
    BY <1>1
  <2> QED
    BY <2>1
<1>3. Roots' \subseteq Roots \cup {v}
  BY <1>1, <1>2 DEF Roots
<1>4. steps \in Nat /\ Deep(Roots, steps) /\ steps + 1 \in 0..MaxSteps
  BY BoundAssumption DEF CompareInv
<1>5. Deep(Roots', steps + 1)
  BY <1>3, <1>4, MadeDeep
<1> QED
  BY <1>1, <1>2, <1>4, <1>5 DEF CompareInv

LEMMA StoreKeeps ==
    ASSUME CompareInv, steps < MaxSteps, NEW key \in Keys, NEW v, Made(Roots, v), Usable(v),
           NEW shape, NEW T, NEW content, Store(key, v, shape, T, content)
    PROVE  CompareInv'
<1> DEFINE l == [shape |-> shape, T |-> T, content |-> content]
<1>1. /\ steps' = steps + 1 /\ val' = val
      /\ params' = Put(params, key, v) /\ last' = Put(last, key, l)
  BY DEF Store
<1> HIDE DEF l
<1>2. /\ DOMAIN params' = DOMAIN params \cup {key} /\ DOMAIN last' = DOMAIN last \cup {key}
      /\ \A k \in DOMAIN params' : params'[k] = v \/ (k \in DOMAIN params /\ params'[k] = params[k])
  BY <1>1 DEF Put
<1>3. Roots' \subseteq Roots \cup {v}
  BY <1>1, <1>2 DEF Roots
<1>4. steps \in Nat /\ Deep(Roots, steps) /\ steps + 1 \in 0..MaxSteps
  BY BoundAssumption DEF CompareInv
<1>5. Deep(Roots', steps + 1)
  BY <1>3, <1>4, MadeDeep
<1>6. \A k \in DOMAIN params' : Usable(params'[k])
  BY <1>2 DEF CompareInv
<1>7. DOMAIN params' \subseteq Keys /\ DOMAIN last' = DOMAIN params'
  BY <1>2 DEF CompareInv
<1> QED
  BY <1>1, <1>4, <1>5, <1>6, <1>7 DEF CompareInv

LEMMA SameKeeps ==
    ASSUME CompareInv, UNCHANGED <<val, params, last, steps>>
    PROVE  CompareInv'
<1>1. val' = val /\ params' = params /\ last' = last /\ steps' = steps
  OBVIOUS
<1>2. Roots' = Roots
  BY <1>1 DEF Roots
<1> QED
  BY <1>1, <1>2 DEF CompareInv

\* The values in order that a call finds.
LEMMA ValuesWhole ==
    ASSUME CompareInv
    PROVE  \A x \in Objects : val[x] \in Roots /\ Whole(val[x])
BY RootsAre, DeepWhole, Zenon DEF CompareInv

LEMMA InputScalars == \A in \in Inputs : Scalar(TagOf[in.T], in.is) \in Plain
<1>1. \A in \in Inputs : in.T \in StaticTypes /\ in.is \in Int
  BY InputsAssumption
<1>2. \A T \in StaticTypes : TagOf[T] \in Scalars
  BY DEF StaticTypes, TagOf, Scalars
<1> QED
  BY <1>1, <1>2, PlainOnes, Zenon

LEMMA ContentScalars ==
    ASSUME NEW T \in StaticTypes
    PROVE  \A a \in Contents(T) : Scalar(TagOf[T], a) \in Plain
<1>1. TagOf[T] \in Scalars
  BY DEF StaticTypes, TagOf, Scalars
<1> QED
  BY <1>1, ContentsAre, PlainOnes

LEMMA OperandStock ==
    ASSUME NEW x, NEW w \in Operands(x)
    PROVE  w \in Stock(Roots)
<1>1. CASE \E in \in Inputs : w = Scalar(TagOf[in.T], in.is)
  BY <1>1, InputScalars DEF Stock
<1>2. CASE \E y \in Objects : w = val[y] /\ Usable(val[y])
  BY <1>2, RootsAre DEF Stock, Usable
<1> QED
  BY <1>1, <1>2 DEF Operands

LEMMA SetElementKeeps ==
    ASSUME CompareInv, steps < MaxSteps, NEW x \in Objects, NEW i \in Int,
           NEW w \in Operands(x), SetElement(x, i, w)
    PROVE  CompareInv'
<1> DEFINE v == val[x]
           r == AsArray(v, i + 1)
<1>1. v \in Roots /\ Whole(v)
  BY ValuesWhole
<1>2. IF r.threw THEN Local("access", x, r.val, TRUE)
      ELSE IF i < 0 THEN Local("access", x, r.val, TRUE)
      ELSE Local("access", x, [r.val EXCEPT !.elems[i + 1] = w], FALSE)
  BY Zenon DEF SetElement
<1>3. i + 1 \in Int
  OBVIOUS
<1>4. Made(Roots, r.val)
  BY <1>1, <1>3, AsArrayMade, Zenon
<1>5. ~r.threw => r.val.type = "Array" /\ Len(r.val.elems) >= i + 1
  BY <1>1, <1>3, AsArrayKeeps, Zenon DEF Whole
<1> HIDE DEF r
<1>6. CASE r.threw \/ i < 0
  <2>1. Local("access", x, r.val, TRUE)
    BY <1>2, <1>6, Zenon
  <2> QED BY <1>4, <2>1, LocalKeeps, Zenon
<1>7. CASE ~r.threw /\ ~(i < 0)
  <2> DEFINE u == r.val
             z == WithElement(u, i + 1, w)
  <2>1. Local("access", x, z, FALSE)
    BY <1>2, <1>7, Zenon DEF WithElement
  <2>2. Made(Roots, u) /\ Shaped(u) /\ u.type = "Array" /\ Len(u.elems) >= i + 1
    BY <1>4, <1>5, <1>7, Zenon DEF Made, Whole
  <2>3. i + 1 \in 1..Len(u.elems)
    <3>1. Len(u.elems) \in Nat
      BY <2>2, ListedLen, Zenon DEF Shaped
    <3> QED BY <1>7, <2>2, <3>1
  <2> HIDE DEF u
  <2>4. Made(Roots, z)
    BY <2>2, <2>3, OperandStock, ElementMade, Zenon
  <2> HIDE DEF z
  <2> QED BY <2>1, <2>4, LocalKeeps, Zenon
<1> QED BY <1>6, <1>7

LEMMA SetNamedKeeps ==
    ASSUME CompareInv, steps < MaxSteps, NEW x \in Objects, NEW name \in Names,
           NEW w \in Operands(x), SetNamed(x, name, w)
    PROVE  CompareInv'
<1> DEFINE v == val[x]
           r == AsStruct(v)
<1>1. v \in Roots /\ Whole(v)
  BY ValuesWhole
<1>2. Local("access", x, IF r.threw THEN r.val ELSE SetMember(r.val, name, w), r.threw)
  BY Zenon DEF SetNamed
<1>3. Made(Roots, r.val)
  BY <1>1, AsStructMade, Zenon
<1>4. ~r.threw => r.val.type = "Struct"
  BY <1>1, AsStructKeeps, Zenon DEF Whole
<1> HIDE DEF r
<1>5. CASE r.threw
  <2>1. Local("access", x, r.val, r.threw)
    BY <1>2, <1>5, Zenon
  <2> QED BY <1>3, <2>1, LocalKeeps, Zenon
<1>6. CASE ~r.threw
  <2> DEFINE z == SetMember(r.val, name, w)
  <2>1. Local("access", x, z, r.threw)
    BY <1>2, <1>6, Zenon
  <2>2. Made(Roots, z)
    BY <1>3, <1>4, <1>6, OperandStock, MemberMade, Zenon
  <2> HIDE DEF z
  <2> QED BY <2>1, <2>2, LocalKeeps, Zenon
<1> QED BY <1>5, <1>6

LEMMA ReadNamedKeeps ==
    ASSUME CompareInv, steps < MaxSteps, NEW x \in Objects, NEW name \in Names,
           ReadNamed(x, name)
    PROVE  CompareInv'
<1> DEFINE v == val[x]
           z == SetMember(v, name, Invalid)
<1>1. Made(Roots, v)
  BY ValuesWhole, MadeOne, Zenon
<1>2. IF v.type # "Struct" THEN Local("access", x, v, TRUE)
      ELSE Local("access", x, IF HasMember(v, name) THEN v ELSE z, FALSE)
  BY Zenon DEF ReadNamed
<1>3. CASE v.type # "Struct" \/ HasMember(v, name)
  <2>1. Local("access", x, v, TRUE) \/ Local("access", x, v, FALSE)
    BY <1>2, <1>3, Zenon
  <2> QED BY <1>1, <2>1, LocalKeeps, Zenon
<1>4. CASE v.type = "Struct" /\ ~HasMember(v, name)
  <2>1. Local("access", x, z, FALSE)
    BY <1>2, <1>4, Zenon
  <2>2. Invalid \in Stock(Roots)
    BY PlainOnes, Zenon DEF Stock
  <2>3. Made(Roots, z)
    BY <1>1, <1>4, <2>2, MemberMade, Zenon
  <2> HIDE DEF z
  <2> QED BY <2>1, <2>3, LocalKeeps, Zenon
<1> QED BY <1>3, <1>4, Zenon

LEMMA PlainUsable == \A v \in Plain : Usable(v)
BY DEF Plain, Usable

LEMMA SetScalarKeeps ==
    ASSUME CompareInv, steps < MaxSteps, NEW key \in Keys, NEW in \in Inputs, SetScalar(key, in)
    PROVE  CompareInv'
<1> DEFINE v == Scalar(TagOf[in.T], in.is)
<1>1. Store(key, v, "scalar", in.T, in.is)
  BY Zenon DEF SetScalar
<1>2. v \in Plain
  BY InputScalars, Zenon
<1> HIDE DEF v
<1>3. Made(Roots, v) /\ Usable(v)
  BY <1>2, MadePlain, PlainUsable, Zenon
<1> QED BY <1>1, <1>3, StoreKeeps, Zenon

LEMMA SetVecKeeps ==
    ASSUME CompareInv, steps < MaxSteps, NEW key \in Keys, NEW T \in StaticTypes,
           NEW vec \in VectorsOf(T), SetVec(key, T, vec)
    PROVE  CompareInv'
<1> DEFINE e == [i \in DOMAIN vec |-> Scalar(TagOf[T], vec[i])]
<1>1. vec \in Seq(Contents(T)) /\ Len(vec) \in Nat /\ DOMAIN vec = 1..Len(vec)
  BY VectorsAre, Zenon
<1>2. Store(key, Array(e), "vec", T, vec)
  BY <1>1, SetVecStores, Zenon
<1>3. \A i \in DOMAIN vec : Scalar(TagOf[T], vec[i]) \in Plain
  BY <1>1, SeqElements, ContentScalars, Zenon
<1>4. e \in Seq(Plain)
  <2> HIDE DEF Plain
  <2> QED BY <1>1, <1>3
<1>5. Listed(e) /\ \A i \in DOMAIN e : e[i] \in Stock(Roots)
  <2> HIDE DEF e
  <2> QED BY <1>4, Listing, SeqElements, Zenon DEF Stock
<1> HIDE DEF e
<1>6. Made(Roots, Array(e))
  BY <1>5, MadeArray, Zenon DEF Array
<1>7. Usable(Array(e))
  BY DEF Usable, Array, NullArray, Value
<1> QED BY <1>2, <1>6, <1>7, StoreKeeps, Zenon

LEMMA SetMapKeeps ==
    ASSUME CompareInv, steps < MaxSteps, NEW key \in Keys, NEW T \in StaticTypes,
           NEW map \in MapsOf(T), SetMap(key, T, map)
    PROVE  CompareInv'
<1> DEFINE e == [n \in DOMAIN map |-> Scalar(TagOf[T], map[n])]
<1>1. Store(key, [AsStruct(Invalid).val EXCEPT !.elems = e], "map", T, map)
  BY Zenon DEF SetMap
<1>2. map \in [DOMAIN map -> Contents(T)] /\ DOMAIN map \subseteq Names
  BY DEF MapsOf
<1>3. \A n \in DOMAIN map : Scalar(TagOf[T], map[n]) \in Plain
  BY <1>2, ContentScalars, Zenon
<1>4. DOMAIN e \subseteq Names /\ \A n \in DOMAIN e : e[n] \in Stock(Roots)
  BY <1>2, <1>3, Zenon DEF Stock
<1> HIDE DEF e
<1>5. Store(key, Struct(e), "map", T, map)
  BY <1>1, EmptyStruct, Zenon
<1>6. Made(Roots, Struct(e))
  BY <1>4, MadeStruct, Zenon DEF Struct
<1>7. Usable(Struct(e))
  BY DEF Usable, Struct, NullArray, Value
<1> QED BY <1>5, <1>6, <1>7, StoreKeeps, Zenon

LEMMA SetValuesKeeps ==
    ASSUME CompareInv, steps < MaxSteps, NEW key \in Keys, NEW x \in Objects,
           SetValues(key, x)
    PROVE  CompareInv'
<1>1. Store(key, val[x], "values", "none", <<>>) /\ Usable(val[x])
  BY Zenon DEF SetValues
<1>2. Made(Roots, val[x])
  BY ValuesWhole, MadeOne, Zenon
<1> QED BY <1>1, <1>2, StoreKeeps, Zenon

LEMMA CompareNext == CompareInv /\ [Next]_vars => CompareInv'
<1> SUFFICES ASSUME CompareInv, [Next]_vars PROVE CompareInv'
  OBVIOUS
<1> DEFINE More == steps < MaxSteps
<1>1. ASSUME More, NEW x \in Objects, NEW y \in Objects, Assign(x, y) PROVE CompareInv'
  <2>1. Local("assign", x, val[y], FALSE)
    BY <1>1, Zenon DEF Assign
  <2>2. Made(Roots, val[y])
    BY ValuesWhole, MadeOne, Zenon
  <2> QED BY <1>1, <2>1, <2>2, LocalKeeps, Zenon
<1>2. ASSUME More, NEW x \in Objects, NEW in \in Inputs, AssignScalar(x, in) PROVE CompareInv'
  <2>1. Local("assign", x, Scalar(TagOf[in.T], in.is), FALSE)
    BY <1>2, Zenon DEF AssignScalar
  <2>2. Made(Roots, Scalar(TagOf[in.T], in.is))
    BY InputScalars, MadePlain, Zenon
  <2> QED BY <1>2, <2>1, <2>2, LocalKeeps, Zenon
<1>3. ASSUME More, NEW x \in Objects, Clear(x) PROVE CompareInv'
  <2>1. Local("assign", x, Invalid, FALSE)
    BY <1>3, Zenon DEF Clear
  <2>2. Made(Roots, Invalid)
    BY PlainOnes, MadePlain, Zenon
  <2> QED BY <1>3, <2>1, <2>2, LocalKeeps, Zenon
<1>4. ASSUME More, NEW x \in Objects, NEW t \in Scalars, Convert(x, t) PROVE CompareInv'
  <2> DEFINE r == AsScalar(val[x], t)
  <2>1. Local("access", x, r.val, r.threw)
    BY <1>4, Zenon DEF Convert
  <2>2. Made(Roots, r.val)
    BY ValuesWhole, AsScalarMade, Zenon
  <2> HIDE DEF r
  <2> QED BY <1>4, <2>1, <2>2, LocalKeeps, Zenon
<1>5. ASSUME More, NEW x \in Objects, NEW size \in Index, SetSize(x, size) PROVE CompareInv'
  <2> DEFINE r == AsArray(val[x], size)
  <2>1. Local("access", x, r.val, r.threw) /\ size \in Int
    BY <1>5, IndexAssumption, Zenon DEF SetSize
  <2>2. Made(Roots, r.val)
    BY <2>1, ValuesWhole, AsArrayMade, Zenon
  <2> HIDE DEF r
  <2> QED BY <1>5, <2>1, <2>2, LocalKeeps, Zenon
<1>6. ASSUME More, NEW x \in Objects, Begin(x) PROVE CompareInv'
  <2> DEFINE r == AsStruct(val[x])
  <2>1. Local("access", x, r.val, r.threw)
    BY <1>6, Zenon DEF Begin
  <2>2. Made(Roots, r.val)
    BY ValuesWhole, AsStructMade, Zenon
  <2> HIDE DEF r
  <2> QED BY <1>6, <2>1, <2>2, LocalKeeps, Zenon
<1>7. ASSUME More, NEW x \in Objects, NEW i \in Index, NEW w \in Operands(x), SetElement(x, i, w)
      PROVE  CompareInv'
  <2>1. i \in Int
    BY IndexAssumption, Zenon
  <2> QED BY <1>7, <2>1, SetElementKeeps, Zenon
<1>8. ASSUME NEW key, NEW shape, NEW T, NEW ok, NEW content, Got(key, shape, T, ok, content)
      PROVE  CompareInv'
  BY <1>8, SameKeeps, Zenon DEF Got
<1>9. ASSUME NEW key, GetAbsent(key) PROVE CompareInv'
  BY <1>8, <1>9, Zenon DEF GetAbsent
<1>10. ASSUME NEW key, NEW T, GetScalar(key, T, 0) PROVE CompareInv'
  BY <1>8, <1>10, Zenon DEF GetScalar
<1>11. ASSUME NEW key, NEW T, NEW old, GetVec(key, T, old) PROVE CompareInv'
  BY <1>8, <1>11, Zenon DEF GetVec
<1>12. ASSUME NEW key, NEW T, NEW old, GetMap(key, T, old) PROVE CompareInv'
  BY <1>8, <1>12, Zenon DEF GetMap
<1>13. CASE UNCHANGED vars
  BY <1>13, SameKeeps DEF vars
<1> QED
  BY <1>1, <1>2, <1>3, <1>4, <1>5, <1>6, <1>7, <1>9, <1>10, <1>11, <1>12, <1>13,
     SetNamedKeeps, ReadNamedKeeps, SetScalarKeeps, SetVecKeeps, SetMapKeeps,
     SetValuesKeeps, Zenon DEF Next

-----------------------------------------------------------------------------
LEMMA CompareInvTypeOK == CompareInv => TypeOK
<1> SUFFICES ASSUME CompareInv PROVE TypeOK
  OBVIOUS
<1>1. /\ DOMAIN val = Objects /\ DOMAIN params \subseteq Keys /\ DOMAIN last = DOMAIN params
      /\ \A k \in DOMAIN params : Usable(params[k])
      /\ Deep(Roots, steps) /\ steps \in 0..MaxSteps
  <2>1. \A f : f = [x \in Objects |-> f[x]] => DOMAIN f = Objects
    OBVIOUS
  <2> QED BY <2>1, Zenon DEF CompareInv
<1>2. \A v \in Held : \E d \in Nat : v \in Inside(Roots)[d]
  <2>1. 0..MaxSteps \subseteq Nat
    OBVIOUS
  <2> QED BY <2>1, Zenon DEF Held
<1>3. \A v \in Held : WellFormed(v)
  BY <1>1, <1>2, Zenon DEF Deep, Whole
<1>4. ASSUME NEW e \in Elements(Held) PROVE Usable(e)
  <2>1. PICK v \in Held : \E i \in DOMAIN v.elems : e = v.elems[i]
    BY <1>4, ElementsOf, Zenon
  <2>2. PICK d \in Nat : v \in Inside(Roots)[d]
    BY <1>2
  <2>3. e \in Inside(Roots)[d + 1]
    <3>1. e \in Elements(Inside(Roots)[d])
      BY <2>1, <2>2, ElementsOf
    <3>2. Inside(Roots)[d + 1] = Elements(Inside(Roots)[d])
      BY InsideDef
    <3> QED BY <3>1, <3>2
  <2> QED BY <1>1, <2>3, Zenon DEF Deep, Usable
<1>5. Inside(Roots)[steps + 1] = {}
  BY <1>1, Zenon DEF Deep
<1> QED BY <1>1, <1>3, <1>4, <1>5, Zenon DEF TypeOK

\* Every value of the caller and of the container, and all that is in them, is
\* well formed, no deeper than there were calls, and only a value of the caller
\* is ever an array without memory (xmlrpcvalue.cpp 161-221, param.h 154-334).
THEOREM CompareTypeCorrect == Spec => []TypeOK
BY CompareInit, CompareNext, CompareInvTypeOK, PTL DEF Spec

LEMMA CompareInvEq == CompareInv => EqIsEquivalence
<1> SUFFICES ASSUME CompareInv PROVE EqIsEquivalence
  OBVIOUS
<1>1. Deep(Roots, steps) /\ steps \in Nat /\ steps <= MaxSteps /\ MaxSteps \in Nat
  BY BoundAssumption DEF CompareInv
<1>2. Held = UNION {Inside(Roots)[d] : d \in 0..MaxSteps}
  BY DEF Held
<1>3. /\ \A v \in Held : Equality(Held)[<<v, v>>]
      /\ \A v, w \in Held : Equality(Held)[<<v, w>>] => Equality(Held)[<<w, v>>]
      /\ \A v, w, u \in Held :
           Equality(Held)[<<v, w>>] /\ Equality(Held)[<<w, u>>] => Equality(Held)[<<v, u>>]
  BY <1>1, <1>2, EqualityOfDeep
<1>4. Compared \subseteq Held
  <2>1. Inside(Roots)[0] = Roots /\ 0 \in 0..MaxSteps
    BY <1>1, InsideDef
  <2> QED BY <2>1, Zenon DEF Compared, Held
<1> QED BY <1>3, <1>4, Zenon DEF EqIsEquivalence

\* operator== is reflexive, symmetric and transitive on whatever values the
\* caller and the container can hold, however deep (xmlrpcvalue.cpp 56-100).
THEOREM EqualityIsEquivalence == Spec => []EqIsEquivalence
BY CompareInit, CompareNext, CompareInvEq, PTL DEF Spec

=============================================================================
