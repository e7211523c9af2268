--------------------------- MODULE Initializers ---------------------------
(***************************************************************************)
(* The initial value of an object, from its declaration to the bytes: the  *)
(* record that it is made of is laid out, an array without a bound gets    *)
(* one, and the initializer becomes data words (an object with static      *)
(* storage) or a plan of stores that the generated code executes (a local  *)
(* object).  src/src/semantic_analyzer/InitializerLowering.cpp and the two *)
(* sinks of AggregateInitSinks.cpp.                                        *)
(*                                                                         *)
(* Memory is modelled bit by bit.  Bit j of the value v is Bit(v, j), and  *)
(* a local object begins as Garbage.                                       *)
(***************************************************************************)
EXTENDS AggregateInit, SysVClassify, SequencesExt

CONSTANT InitialisersOf(_)   \* for a record type, objects made of it: [type, value]

VARIABLES object,   \* the type of the object and its initializer
          plan,     \* the stores of a local object: StructFieldInit
          image     \* the bits of the object

vars == <<layoutVars, object, plan, image>>

Bit(v, j) == IF v = 0 THEN 0 ELSE 1000 * v + j

Garbage == -1

Filled(t, b) == [i \in 0 .. 8 * t.size - 1 |-> b]

-----------------------------------------------------------------------------
(* What happens to the declaration before its initializer is lowered.      *)

Scalar(v) == [kind |-> "scalar", v |-> v]

Positional(value) == [designator |-> <<>>, value |-> value]

ListOf(elements) == [kind |-> "list", elements |-> elements]

(* braceListFromCodeUnits, after fitCodeUnits has cut the null.            *)
UnitList(t, literal) ==
    ListOf([i \in 1 .. IF t.complete /\ literal.units > t.count THEN t.count ELSE literal.units |->
                Positional(Scalar(UnitValue(literal, i)))])

(* rewriteCharArrayStringInitializer.  NoValue is an error.                *)
Rewritten(t, value) ==
    LET literal == LiteralOf(value)
        fits == ~t.complete \/ literal.units - 1 <= t.count
    IN  IF \/ IsCharArrayString(t, value)
           \/ IsWideString(t, literal) /\ t.elem = literal.unit
        THEN IF fits THEN UnitList(t, literal) ELSE NoValue
        ELSE IF IsWideString(t, literal) /\ ~(IsAggregate(t.elem) /\ IsList(value)) THEN NoValue
        ELSE value

(* incompleteArrayBoundFromInitializer: an element for each initializer,   *)
(* wherever a designator puts it.  NoBound is an error.                    *)
NoBound == -1

InitializerBound(elements) ==
    LET index[k \in 1 .. Len(elements)] ==
            IF IsDesignated(elements[k]) THEN elements[k].designator[1].index
            ELSE IF k = 1 THEN 0 ELSE index[k - 1] + 1
        indices == {index[k] : k \in 1 .. Len(elements)}
    IN  IF \E k \in DOMAIN elements : /\ IsDesignated(elements[k])
                                      /\ elements[k].designator[1].kind # "index"
        THEN NoBound
        ELSE 1 + CHOOSE i \in indices : \A j \in indices : j <= i

Bounded(t, value) == ArrayOf(t.elem, InitializerBound(value.elements))

-----------------------------------------------------------------------------
(* FieldPlanSink.  A store writes `size` bytes at `offset`, or inserts a   *)
(* bit-field into the unit of that size.                                   *)

Store(slot, v) ==
    [offset |-> slot.offset, size |-> slot.type.size, width |-> slot.width,
     shift |-> slot.shift, v |-> v]

(* forEachRepresentationUnit: words, then four bytes, then bytes.          *)
RepresentationUnits(size, offset) ==
    LET words == size \div 8
        four == IF size % 8 >= 4 THEN 1 ELSE 0
        bytes == (size % 8) - 4 * four
        zero(o, s) == [offset |-> offset + o, size |-> s, width |-> 0, shift |-> 0, v |-> 0]
    IN  [i \in 1 .. words |-> zero(8 * (i - 1), 8)]
            \o [i \in 1 .. four |-> zero(8 * words, 4)]
            \o [i \in 1 .. bytes |-> zero(8 * words + 4 * four + i - 1, 1)]

FieldPlan(told) ==
    FlattenSeq([k \in DOMAIN told |->
        IF /\ told[k].how = "unwritten" /\ told[k].slot.width = 0
           /\ IsAggregate(told[k].slot.type)
        THEN RepresentationUnits(told[k].slot.type.size, told[k].slot.offset)
        ELSE <<Store(told[k].slot, told[k].value)>>])

(* emitStructFieldInits; emitBitFieldInsert reads and writes one unit.     *)
Stored(bits, store) ==
    LET first == 8 * store.offset + store.shift
        length == IF store.width = 0 THEN 8 * store.size
                  ELSE IF store.shift + store.width > 8 * store.size
                  THEN 8 * store.size - store.shift ELSE store.width
    IN  [b \in DOMAIN bits |-> IF b \in first .. first + length - 1
                               THEN Bit(store.v, b - first) ELSE bits[b]]

-----------------------------------------------------------------------------
(* DataWordSink.  A word holds bits, or the address of an object, which    *)
(* the linker fills in and which no bits can be stored beside.             *)

EmptyWord == [symbolic |-> FALSE, bits |-> [b \in 0 .. 63 |-> 0]]

NumericBits(word) == IF word.symbolic THEN EmptyWord.bits ELSE word.bits

(* storeBitsAt: a store that crosses a word boundary is split.             *)
StoreBitsAt(words, offset, v, size) ==
    LET first == 8 * offset
        end == 8 * (offset + size)
    IN  [w \in DOMAIN words |->
            IF 64 * w <= first \/ 64 * (w - 1) >= end THEN words[w]
            ELSE [symbolic |-> FALSE,
                  bits |-> [b \in 0 .. 63 |->
                      IF 64 * (w - 1) + b \in first .. end - 1
                      THEN Bit(v, 64 * (w - 1) + b - first)
                      ELSE NumericBits(words[w])[b]]]]

StoreAddressAt(words, offset, v) ==
    [words EXCEPT ![(offset \div 8) + 1] =
        [symbolic |-> TRUE, bits |-> [b \in 0 .. 63 |-> Bit(v, b)]]]

StoreBitField(words, slot, v) ==
    LET first == 8 * slot.offset + slot.shift
        shift == first % 64
    IN  [words EXCEPT ![(first \div 64) + 1] =
            [symbolic |-> FALSE,
             bits |-> [b \in 0 .. 63 |-> IF b \in shift .. shift + slot.width - 1
                                         THEN Bit(v, b - shift) ELSE NumericBits(@)[b]]]]

ToldWord(words, said) ==
    CASE said.how = "unwritten" ->
             IF said.slot.width > 0 THEN words
             ELSE StoreBitsAt(words, said.slot.offset, 0, said.slot.type.size)
      [] said.how = "integer" ->
             StoreBitsAt(words, said.slot.offset, said.value, said.slot.type.size)
      [] said.how = "scalar" ->
             IF said.slot.type.kind = "pointer"
             THEN StoreAddressAt(words, said.slot.offset, said.value)
             ELSE IF said.slot.width > 0 THEN StoreBitField(words, said.slot, said.value)
             ELSE StoreBitsAt(words, said.slot.offset, said.value, said.slot.type.size)

(* lowerStaticAggregateInit: the image of the object in .data.             *)
DataWords(t, told) ==
    LET words == FoldLeft(ToldWord, [w \in 1 .. (t.size + 7) \div 8 |-> EmptyWord], told)
    IN  [b \in 0 .. 8 * t.size - 1 |-> words[(b \div 64) + 1].bits[b % 64]]

-----------------------------------------------------------------------------
(* From the declaration to the object.                                     *)

Init ==
    /\ LayoutInit
    /\ object = [type |-> record, unsized |-> FALSE, written |-> NoValue, value |-> NoValue]
    /\ plan = <<>>
    /\ image = <<>>

Layout == LayoutNext /\ UNCHANGED <<object, plan, image>>

Declare ==
    /\ stage = "complete"
    /\ \E o \in InitialisersOf(record) :
           object' = [type |-> o.type, unsized |-> ~o.type.complete,
                      written |-> o.value, value |-> o.value]
    /\ stage' = "declared"
    /\ UNCHANGED <<declared, cursor, next, record, plan, image>>

(* analyzeInitializedDeclarator: the string literal is rewritten, then an  *)
(* array without a bound gets its size.                                    *)
SizeFromInitializer ==
    LET value == Rewritten(object.type, object.value)
        bound == InitializerBound(value.elements)
    IN  /\ stage = "declared"
        /\ IF value = NoValue THEN stage' = "rejected" /\ UNCHANGED object
           ELSE IF object.type.complete
           THEN stage' = "sized" /\ object' = [object EXCEPT !.value = value]
           ELSE IF bound = NoBound THEN stage' = "rejected" /\ UNCHANGED object
           ELSE /\ stage' = "sized"
                /\ object' = [object EXCEPT !.type = Bounded(@, value), !.value = value]
        /\ UNCHANGED <<declared, cursor, next, record, plan, image>>

Walked == WalkAggregateInit(object.type, object.value, 0, Silent)

(* The whole of a record has no constant to be folded to.                  *)
Constant(told) ==
    \A k \in DOMAIN told : told[k].how = "scalar" => told[k].slot.type.kind # "record"

LowerStaticInit ==
    /\ stage = "sized"
    /\ \E walked \in {Walked} :
           IF walked.ok /\ Constant(walked.told)
           THEN stage' = "static" /\ image' = DataWords(object.type, walked.told)
           ELSE stage' = "rejected" /\ UNCHANGED image
    /\ UNCHANGED <<declared, cursor, next, record, object, plan>>

LowerLocalInitializer ==
    /\ stage = "sized"
    /\ \E walked \in {Walked} :
           IF walked.ok
           THEN /\ stage' = "planned"
                /\ plan' = FieldPlan(walked.told)
                /\ image' = Filled(object.type, Garbage)
           ELSE stage' = "rejected" /\ UNCHANGED <<plan, image>>
    /\ UNCHANGED <<declared, cursor, next, record, object>>

EmitStructFieldInits ==
    /\ stage = "planned"
    /\ stage' = "local"
    /\ image' = FoldLeft(Stored, image, plan)
    /\ UNCHANGED <<declared, cursor, next, record, object, plan>>

Next ==
    \/ Layout
    \/ Declare
    \/ SizeFromInitializer
    \/ LowerStaticInit
    \/ LowerLocalInitializer
    \/ EmitStructFieldInits

Spec == Init /\ [][Next]_vars

-----------------------------------------------------------------------------
(* The initial value by the rules of C (6.7.9), told as one cursor that    *)
(* moves over the subobjects of the object between two braces.  An element *)
(* goes to the subobject at the cursor, or to the designated one, and from *)
(* there into its first parts until it fits; the cursor then stands behind *)
(* what the element initialized.  After a designated object it stands      *)
(* behind all of that object, which is the rule that                       *)
(* test/src/functionalTest/DesignatedInitResumeTest.cpp:71 states.         *)

UnitsFit(t, value) ==
    \/ IsCharArrayString(t, value)
    \/ IsWideString(t, LiteralOf(value)) /\ t.elem = LiteralOf(value).unit

Fits(t, value) ==
    \/ ~IsAggregate(t)
    \/ IsList(value)
    \/ UnitsFit(t, value)
    \/ value.kind = "record" /\ value.type = t

RECURSIVE Descended(_, _, _), Successor(_, _), Initial(_, _, _, _)

Descended(t, path, value) ==
    IF Fits(SlotOnPath(Place(t, 0), path).type, value) THEN path
    ELSE Descended(t, Append(path, 1), value)

Behind(t, container, front, i) ==
    IF ~IsUnion(container) /\ i < SlotCount(container) THEN Append(front, i + 1)
    ELSE Successor(t, front)

Successor(t, path) ==
    LET front == SubSeq(path, 1, Len(path) - 1)
    IN  IF path = <<>> THEN <<>>
        ELSE Behind(t, SlotOnPath(Place(t, 0), front).type, front, path[Len(path)])

Wrong == [ok |-> FALSE, bits |-> <<>>]

Right(bits) == [ok |-> TRUE, bits |-> bits]

BitsOf(slot) ==
    LET first == 8 * slot.offset + slot.shift
    IN  first .. first + (IF slot.width = 0 THEN 8 * slot.type.size ELSE slot.width) - 1

Written(bits, slot, v) ==
    [b \in DOMAIN bits |-> IF b \in BitsOf(slot)
                           THEN Bit(v, b - (8 * slot.offset + slot.shift)) ELSE bits[b]]

UnitsWritten(bits, slot, literal) ==
    LET n == IF literal.units > slot.type.count THEN slot.type.count ELSE literal.units
    IN  IF literal.units - 1 > slot.type.count THEN Wrong
        ELSE Right(FoldLeft(LAMBDA b, i : Written(b, SlotAt(slot.type, slot.offset, i),
                                                  UnitValue(literal, i)),
                            Written(bits, slot, 0), [i \in 1 .. n |-> i]))

Misfits(t, value) ==
    \/ value = NoValue
    \/ value.kind = "string" /\ t.kind \notin {"pointer", "array"}
    \/ value.kind = "record" /\ t # value.type

ValueWritten(bits, slot, value) ==
    IF Misfits(slot.type, value) THEN Wrong
    ELSE IF UnitsFit(slot.type, value) THEN UnitsWritten(bits, slot, LiteralOf(value))
    ELSE IF IsList(value)
    THEN Initial(slot.type, slot.offset, value.elements, Written(bits, slot, 0))
    ELSE Right(Written(bits, slot, value.v))

(* The unions on a path, each by the path to it, of which the elements     *)
(* before have initialized another member than the one on the path.        *)
ArmsLeft(t, path, done) ==
    {arm \in {SubSeq(path, 1, n) : n \in 0 .. Len(path) - 1} :
        /\ IsUnion(SlotOnPath(Place(t, 0), arm).type)
        /\ \E d \in done : /\ Len(d) > Len(arm) /\ IsPrefix(arm, d)
                           /\ d[Len(arm) + 1] # path[Len(arm) + 1]}

(* A union that changes its member is initialized anew.                    *)
Cleared(bits, slots) ==
    [b \in DOMAIN bits |-> IF \E slot \in slots : b \in BitsOf(slot) THEN 0 ELSE bits[b]]

(* One element that initializes the subobject on the path.  `at` is the    *)
(* result so far, the path at the cursor (<<>> is the end of the object)   *)
(* and the paths that were initialized.                                    *)
ElementAt(t, base, at, element, target, path) ==
    LET slot == SlotOnPath(Place(t, base), path)
        arms == ArmsLeft(t, path, at.done)
        bits == Cleared(at.result.bits, {SlotOnPath(Place(t, base), a) : a \in arms})
        value == IF IsAggregate(slot.type) THEN element.value ELSE Unbraced(element.value)
    IN  [result |-> ValueWritten(bits, slot, value),
         cursor |-> Successor(t, IF IsDesignated(element) THEN target ELSE path),
         done |-> {d \in at.done : \A a \in arms : ~IsPrefix(a, d)} \cup {path}]

NextElement(t, base, at, element, target) ==
    IF ~at.result.ok \/ target = <<>> THEN [at EXCEPT !.result = Wrong]
    ELSE ElementAt(t, base, at, element, target, Descended(t, target, element.value))

(* The bits after a list of elements for the object at `base`.             *)
Initial(t, base, elements, before) ==
    LET begin == [result |-> Right(before), cursor |-> <<1>>, done |-> {}]
        step(at, e) ==
            NextElement(t, base, at, e,
                        IF IsDesignated(e) THEN DesignatorPath(t, e.designator) ELSE at.cursor)
    IN  FoldLeft(step, begin, elements).result

InitialOf(t, value) ==
    IF ~UnitsFit(t, value) /\ ~IsList(value) THEN Wrong
    ELSE ValueWritten(Filled(t, 0), Place(t, 0), value)

(* An array without a bound has room for a string with its null, or is the *)
(* smallest that all elements fit.                                         *)
MaxElements == 8

SizedType ==
    LET sized(n) == ArrayOf(object.type.elem, n)
        fits(n) == n = MaxElements \/ InitialOf(sized(n), object.written).ok
    IN  IF ~object.unsized THEN object.type
        ELSE IF UnitsFit(object.type, object.written) THEN sized(LiteralOf(object.written).units)
        ELSE sized(CHOOSE n \in 1 .. MaxElements : fits(n) /\ \A m \in 1 .. n - 1 : ~fits(m))

Expected == InitialOf(SizedType, object.written)

(* Every bit of the object, its padding included, has the value that C     *)
(* gives it, whether the object was written into .data or by the stores of *)
(* the plan, and an initializer is refused only when C refuses it.         *)
InitialisedAsC ==
    /\ stage \in {"static", "local"} => Expected = Right(image)
    /\ stage = "rejected" /\ Constant(Walked.told) => ~Expected.ok

=============================================================================
