--------------------------- MODULE MCInitializers ---------------------------
(***************************************************************************)
(* Small declarations for Initializers: every way to put up to three       *)
(* members side by side, and objects with nested structures, unions,       *)
(* arrays, bit-fields and unnamed members, each with all initializers of   *)
(* up to three elements from an alphabet made for its type.                *)
(***************************************************************************)
EXTENDS Initializers

CharT == Primitive("Integer", 1)
ShortT == Primitive("Integer", 2)
IntT == Primitive("Integer", 4)
LongT == Primitive("Integer", 8)
FloatT == Primitive("Sse", 4)
DoubleT == Primitive("Sse", 8)
LongDoubleT == Primitive("X87", 16)

Field(name, t) == [name |-> name, type |-> t, width |-> NoWidth]

Bits(name, t, width) == [name |-> name, type |-> t, width |-> width]

Struct(specs) == [isUnion |-> FALSE, packed |-> FALSE, specs |-> specs]

Union(specs) == [isUnion |-> TRUE, packed |-> FALSE, specs |-> specs]

Packed(specs) == [isUnion |-> FALSE, packed |-> TRUE, specs |-> specs]

(* A complete record type, laid out at once.                               *)
Laid(decl) ==
    LET c == FoldLeft(LAMBDA c, s : WithMember(c, s, decl.isUnion, decl.packed), EmptyCursor,
                      decl.specs)
    IN  RecordType(c.members, decl.isUnion, decl.packed, SizeOf(c, decl.isUnion))

-----------------------------------------------------------------------------
(* Member lists for the layout and the classification.                     *)

Mixed == Laid(Struct(<<Field("x", FloatT), Field("y", CharT)>>))

OrdinaryTypes == {CharT, ShortT, IntT, LongDoubleT, DoubleT, PointerType, Mixed, ArrayOf(FloatT, 3)}

BitFieldShapes == {<<IntT, 5>>, <<IntT, 30>>, <<CharT, 6>>, <<LongT, 40>>, <<ShortT, 9>>}

UnnamedShapes == {<<IntT, 0>>, <<CharT, 3>>, <<LongT, 33>>}

MemberName == <<"a", "b", "d">>

SpecsAt(i) ==
    {Field(MemberName[i], t) : t \in OrdinaryTypes}
        \cup {Bits(MemberName[i], b[1], b[2]) : b \in BitFieldShapes}
        \cup {Bits(Unnamed, b[1], b[2]) : b \in UnnamedShapes}

MemberLists ==
    {<<x, y>> : x \in SpecsAt(1), y \in SpecsAt(2)}
        \cup {<<x, y, z>> : x \in SpecsAt(1), y \in SpecsAt(2) \ {Field("b", DoubleT)},
                            z \in SpecsAt(3) \ {Field("d", PointerType), Bits("d", ShortT, 9)}}

(* Member lists with an error.                                             *)
RefusedLists ==
    {<<Field("a", IntT), Field("a", CharT)>>,
     <<Field("a", IncompleteArray(IntT)), Field("b", CharT)>>,
     <<Field("a", IncompleteRecord(FALSE))>>,
     <<Bits("a", IntT, 33)>>, <<Bits("a", IntT, 0)>>, <<Bits("a", FloatT, 3)>>,
     <<Field("a", ArrayOf(LongT, 50)), Field("b", CharT)>>,
     <<Field("a", ArrayOf(CharT, 51)), Bits("b", IntT, 3)>>}

TooLarge == Union(<<Field("a", ArrayOf(LongT, 51))>>)

Layouts ==
    {[isUnion |-> u, packed |-> p, specs |-> s] : u \in BOOLEAN, p \in BOOLEAN, s \in MemberLists}
        \cup {Struct(s) : s \in RefusedLists}
        \cup {Struct(<<Field("a", ShortT), Field("b", IncompleteArray(IntT))>>), TooLarge}
        \cup {Union(<<Field("a", ArrayOf(IntT, 0)), Bits(Unnamed, t, w)>>) :
                 t \in {CharT, IntT}, w \in {0, 3}}
        \cup {Struct(<<f, Field(Unnamed, Mixed), Bits("b", LongT, 40), Field("d", t)>>) :
                 f \in SpecsAt(1), t \in {CharT, DoubleT}}

-----------------------------------------------------------------------------
(* Objects.  A structure with the one member "only" stands for that type.  *)

Pair == Laid(Struct(<<Field("x", IntT), Field("y", CharT)>>))

Only(t) == Struct(<<Field("only", t)>>)

Objects ==
    {Struct(<<Field("c", CharT), Field("in", Pair), Field("s", ShortT)>>),
     Struct(<<Field("w", IntT),
              Field("u", Laid(Union(<<Field("i", Pair), Field("l", LongT)>>))),
              Field("z", CharT)>>),
     Struct(<<Field(Unnamed, Laid(Struct(<<Field("x", IntT), Field("y", CharT)>>))),
              Field("s", ArrayOf(CharT, 3))>>),
     Struct(<<Bits("k", IntT, 3), Bits(Unnamed, IntT, 2), Bits("l", IntT, 28), Field("c", CharT)>>),
     Struct(<<Field("p", PointerType), Field("d", LongDoubleT), Field("c", CharT)>>),
     Packed(<<Field("c", CharT), Field("l", LongT), Field("in", Pair)>>),
     Union(<<Field("in", Pair), Field("l", LongT)>>),
     Only(ArrayOf(ArrayOf(ShortT, 2), 2)),
     Only(ArrayOf(Pair, 2)),
     Only(ArrayOf(ArrayOf(CharT, 3), 2)),
     Only(ArrayOf(CharT, 4)),
     Only(ArrayOf(IntT, 3))}

Declared == Layouts \cup Objects

-----------------------------------------------------------------------------
(* Initializers.                                                           *)

RECURSIVE Names(_)
Names(t) ==
    UNION {IF t.members[i].name # Unnamed THEN {t.members[i].name} ELSE Names(t.members[i].type)
               : i \in DOMAIN t.members}

Steps(t) ==
    CASE t.kind = "record" -> {[kind |-> "member", name |-> n] : n \in Names(t)}
      [] t.kind = "array" -> {[kind |-> "index", index |-> i] : i \in 0 .. t.count - 1}
      [] OTHER -> {}

TargetOf(t, designator) == SlotOnPath(Place(t, 0), DesignatorPath(t, designator)).type

Designators(t) ==
    {<<s>> : s \in Steps(t)}
        \cup UNION {{<<s, r>> : r \in Steps(TargetOf(t, <<s>>))} : s \in Steps(t)}

RECURSIVE HasUnits(_, _)
HasUnits(t, unit) ==
    CASE t.kind = "array" -> t.elem = unit \/ HasUnits(t.elem, unit)
      [] t.kind = "record" -> \E i \in DOMAIN t.members : HasUnits(t.members[i].type, unit)
      [] OTHER -> FALSE

Literals(t, k) ==
    {[kind |-> "string", v |-> k, unit |-> u, units |-> n] :
        u \in {x \in {CharT, IntT} : HasUnits(t, x)}, n \in {2, 4}}

Braced(k, n) == ListOf([i \in 1 .. n |-> Positional(Scalar(10 * k + i))])

Values(t, k) == {Scalar(k), Braced(k, 1), Braced(k, 2)} \cup Literals(t, k)

(* The element at position k of a list for the type.                       *)
Alphabet(t, k) ==
    {Positional(v) : v \in Values(t, k)}
        \cup {[designator |-> d, value |-> Scalar(k)] : d \in Designators(t)}
        \cup {[designator |-> d, value |-> Braced(k, 2)] :
                 d \in {x \in Designators(t) : IsAggregate(TargetOf(t, x))}}
        \cup {[designator |-> d, value |-> [kind |-> "record", v |-> k, type |-> Pair]] :
                 d \in {x \in Designators(t) : TargetOf(t, x) = Pair}}

Lists(t) ==
    {<<x>> : x \in Alphabet(t, 1)}
        \cup {<<x, y>> : x \in Alphabet(t, 1), y \in Alphabet(t, 2)}
        \cup {<<x, y, z>> : x \in Alphabet(t, 1), y \in Alphabet(t, 2), z \in Alphabet(t, 3)}

Flat(n) == [i \in 1 .. n |-> Positional(Scalar(i))]

ObjectOf(t) == IF t.members[1].name = "only" THEN t.members[1].type ELSE t

(* Whether an element without braces enters a part of the object that an   *)
(* earlier element has initialized, or initializes a part of a union of    *)
(* which an earlier element has initialized another member: the            *)
(* initializers that this compiler and C disagree on.                      *)
Reentered(target, path, touched) ==
    \E e \in {SubSeq(path, 1, n) : n \in Len(target) .. Len(path) - 1}, q \in touched :
        IsPrefix(e, q) \/ IsPrefix(q, e)

SizeOnPath(t, path) == SlotOnPath(Place(t, 0), path).type.size

ArmChanged(t, target, path, touched) ==
    \E arm \in ArmsLeft(t, path, touched) : SizeOnPath(t, arm) # SizeOnPath(t, target)

RECURSIVE Reenters(_, _, _, _, _), ReentersAt(_, _, _, _, _, _)
ReentersAt(t, elements, k, target, path, touched) ==
    \/ Reentered(target, path, touched)
    \/ ArmChanged(t, target, path, touched)
    \/ Reenters(t, elements, k + 1,
                Successor(t, IF IsDesignated(elements[k]) THEN target ELSE path),
                touched \cup {path})

Reenters(t, elements, k, cursorAt, touched) ==
    LET target == IF IsDesignated(elements[k]) THEN DesignatorPath(t, elements[k].designator)
                  ELSE cursorAt
    IN  /\ k <= Len(elements) /\ target # <<>>
        /\ ReentersAt(t, elements, k, target, Descended(t, target, elements[k].value), touched)

Agreed(t, list) == ~Reenters(t, list, 1, <<1>>, {})

(* Of an array without a bound, a list places whole elements only: an      *)
(* element that is an aggregate has braces and one designator.             *)
WholeElements(elem, list) ==
    IsAggregate(elem) =>
        \A k \in DOMAIN list : IsList(list[k].value) /\ Len(list[k].designator) <= 1

BareStrings(t) ==
    IF t.kind = "array" /\ t.elem \in {CharT, IntT}
    THEN {[kind |-> "string", v |-> 1, unit |-> t.elem, units |-> n] : n \in 1 .. 5}
    ELSE {}

ObjectsOfType(t) ==
    {[type |-> t, value |-> ListOf(l)] : l \in {x \in Lists(t) : Agreed(t, x)}}
        \cup {[type |-> t, value |-> s] : s \in BareStrings(t)}

ObjectsWithoutBound(t) ==
    {[type |-> IncompleteArray(t.elem), value |-> ListOf(l)] :
            l \in {x \in Lists(t) : WholeElements(t.elem, x) /\ Agreed(ArrayOf(t.elem, 5), x)}}
        \cup {[type |-> IncompleteArray(t.elem), value |-> s] : s \in BareStrings(t)}

(* A record made only for its layout has one initializer, of scalars, when *)
(* it is not packed.                                                       *)
InitialisersFor(r) ==
    LET t == ObjectOf(r)
    IN  IF r.members = <<>> THEN {}
        ELSE IF r.members[1].name = "a" /\ Len(r.members) = 3
        THEN IF r.packed THEN {} ELSE {[type |-> r, value |-> ListOf(Flat(3))]}
        ELSE IF r.members[1].name \in {"a", "b", "d"} THEN {}
        ELSE IF t.kind = "array" THEN ObjectsOfType(t) \cup ObjectsWithoutBound(t)
        ELSE ObjectsOfType(t)

=============================================================================
