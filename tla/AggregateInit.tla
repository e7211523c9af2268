--------------------------- MODULE AggregateInit ---------------------------
(***************************************************************************)
(* Which subobject each element of a brace-enclosed initializer goes to:   *)
(* the walk of src/src/semantic_analyzer/AggregateInitWalk.cpp over the    *)
(* type and the list, with the designators of AggregateDesignatorPath.cpp. *)
(* The walk speaks to a sink; here it leaves the sequence of what it said, *)
(* which the sinks of Initializers turn into stores and into data words.   *)
(*                                                                         *)
(* An element is [designator, value]; a value is a scalar or a record      *)
(* expression, a string literal or a list of elements.  Members and array  *)
(* elements are counted from 1.                                            *)
(***************************************************************************)
EXTENDS RecordLayout, FiniteSets

Place(t, offset) == [type |-> t, offset |-> offset, width |-> 0, shift |-> 0]

MemberSlot(t, i, base) ==
    [type |-> t.members[i].type, offset |-> base + t.members[i].offset,
     width |-> t.members[i].width, shift |-> t.members[i].shift]

SlotCount(t) == IF t.kind = "array" THEN t.count ELSE Len(t.members)

SlotAt(t, base, i) ==
    IF t.kind = "array" THEN Place(t.elem, base + (i - 1) * t.elem.size)
    ELSE MemberSlot(t, i, base)

(* What the sink was told, and whether it still listens (sink.ok()).       *)
Silent == [ok |-> TRUE, told |-> <<>>]

Failed(out) == [out EXCEPT !.ok = FALSE]

Tell(out, how, slot, value) ==
    [out EXCEPT !.told = Append(@, [how |-> how, slot |-> slot, value |-> value])]

OnUnwritten(out, slot) == Tell(out, "unwritten", slot, 0)

(* checkAssign: a record expression goes to a record of its own type only, *)
(* and a string literal to a pointer only.                                 *)
AssignableTo(t, value) ==
    CASE value.kind = "record" -> t = value.type
      [] value.kind = "string" -> t.kind = "pointer"
      [] value.kind = "scalar" -> t.kind # "record"

PlaceScalar(out, slot, value) ==
    IF AssignableTo(slot.type, value) THEN Tell(out, "scalar", slot, value.v) ELSE Failed(out)

-----------------------------------------------------------------------------
(* String literals.                                                        *)

IsList(value) == value.kind = "list"

IsDesignated(element) == element.designator # <<>>

NoValue == [kind |-> "none"]

(* charArrayStringLiteral: a literal, bare or alone in braces.             *)
LiteralOf(value) ==
    CASE value.kind = "string" -> value
      [] IsList(value) /\ Len(value.elements) = 1 /\ ~IsDesignated(value.elements[1])
             /\ value.elements[1].value.kind = "string" -> value.elements[1].value
      [] OTHER -> NoValue

IsCharacter(t) == t.kind = "primitive" /\ t.class = "Integer" /\ t.size = 1

IsCharArrayString(t, value) ==
    /\ LiteralOf(value).kind = "string" /\ LiteralOf(value).unit.size = 1
    /\ t.kind = "array" /\ IsCharacter(t.elem)

IsWideString(t, value) == t.kind = "array" /\ value.kind = "string" /\ value.unit.size # 1

(* placeCharArrayBytes and placeWideArrayUnits: the code units with their  *)
(* terminating null, which alone may be cut off, then zeros.  Unit i of    *)
(* the literal v is the value 100 * v + i, the null is 0.                  *)
UnitValue(literal, i) == IF i = literal.units THEN 0 ELSE 100 * literal.v + i

PlaceUnits(out, slot, literal) ==
    LET n == slot.type.count
        unit(i) == SlotAt(slot.type, slot.offset, i)
        units == [i \in 1 .. n |->
                     IF i <= literal.units
                     THEN [how |-> "integer", slot |-> unit(i), value |-> UnitValue(literal, i)]
                     ELSE [how |-> "unwritten", slot |-> unit(i), value |-> 0]]
    IN  IF \/ literal.unit.size # 1 /\ literal.unit # slot.type.elem
           \/ literal.units - 1 > n
        THEN Failed(out)
        ELSE [out EXCEPT !.told = @ \o units]

-----------------------------------------------------------------------------
(* Designators.                                                            *)

(* lookupMemberPath looks into unnamed records too.                        *)
RECURSIVE MemberPath(_, _)
MemberPath(t, name) ==
    LET n == Len(t.members)
        into(i) == IF t.members[i].name = Unnamed /\ t.members[i].type.kind = "record"
                   THEN MemberPath(t.members[i].type, name) ELSE <<>>
        found == {i \in 1 .. n : t.members[i].name = name \/ into(i) # <<>>}
        first == CHOOSE i \in found : \A j \in found : i <= j
    IN  IF t.kind # "record" \/ found = {} THEN <<>>
        ELSE IF t.members[first].name = name THEN <<first>> ELSE <<first>> \o into(first)

(* The slot at the end of a path of members and elements.                  *)
RECURSIVE SlotOnPath(_, _)
SlotOnPath(slot, path) ==
    IF path = <<>> THEN slot
    ELSE SlotOnPath(SlotAt(slot.type, slot.offset, Head(path)), Tail(path))

(* resolveDesignator: a step is the name of a member or the index of an    *)
(* element, which must be inside the array.  <<>> is an error.             *)
StepPath(t, step) ==
    CASE step.kind = "member" -> MemberPath(t, step.name)
      [] step.kind = "index" -> IF t.kind = "array" /\ step.index \in 0 .. t.count - 1
                                THEN <<step.index + 1>> ELSE <<>>

JoinedPath(path, further) == IF further = <<>> THEN <<>> ELSE path \o further

DesignatorPath(t, steps) ==
    LET path[n \in 0 .. Len(steps)] ==
            IF n <= 1 THEN StepPath(t, steps[1])
            ELSE IF path[n - 1] = <<>> THEN <<>>
            ELSE JoinedPath(path[n - 1],
                            StepPath(SlotOnPath(Place(t, 0), path[n - 1]).type, steps[n]))
    IN  path[Len(steps)]

\* mutant of AdvancePath: goes on into the next member of a union.
AdvancePathInUnion(t, path) ==
    LET container(i) == SlotOnPath(Place(t, 0), SubSeq(path, 1, i - 1)).type
        open == {i \in DOMAIN path : path[i] < SlotCount(container(i))}
        i == CHOOSE i \in open : \A j \in open : j <= i
    IN  IF open = {} THEN <<>> ELSE Append(SubSeq(path, 1, i - 1), path[i] + 1)

(* advanceDesignatorPath: the innermost container on the path that has a   *)
(* further slot; a union never has.                                        *)
AdvancePath(t, path) ==
    LET container(i) == SlotOnPath(Place(t, 0), SubSeq(path, 1, i - 1)).type
        open == {i \in DOMAIN path : ~IsUnion(container(i)) /\ path[i] < SlotCount(container(i))}
        i == CHOOSE i \in open : \A j \in open : j <= i
    IN  IF open = {} THEN <<>> ELSE Append(SubSeq(path, 1, i - 1), path[i] + 1)

-----------------------------------------------------------------------------
(* The walk.  An operator that consumes elements is told where they begin, *)
(* and what was said to the sink so far, and returns where it stopped.     *)

RECURSIVE WalkAggregateInit(_, _, _, _), PlaceAt(_, _, _), FillFromStream(_, _, _, _),
          FillSlots(_, _, _, _, _), FillSiblings(_, _, _, _, _, _), FillFromPath(_, _, _, _, _),
          WalkSlots(_, _, _, _, _), WalkUnion(_, _, _, _, _)

At(ei, out) == [ei |-> ei, out |-> out]

Ahead(elements, at) == elements[at.ei].value

(* Where a stream of undesignated elements ends.                           *)
IsBarrier(elements, at) == at.ei > Len(elements) \/ IsDesignated(elements[at.ei])

(* The value in the braces around a scalar, which may not hold two.        *)
RECURSIVE Unbraced(_)
Unbraced(value) ==
    IF ~IsList(value) THEN value
    ELSE IF Len(value.elements) > 1 THEN NoValue
    ELSE Unbraced(value.elements[1].value)

PlaceUnbraced(slot, value, out) ==
    IF value = NoValue THEN Failed(out) ELSE PlaceScalar(out, slot, value)

(* An array of unknown size has no first subobject.                        *)
FirstSubobject(t, base, value, out) ==
    IF SlotCount(t) = 0 THEN (IF t.kind = "array" THEN Failed(out) ELSE out)
    ELSE PlaceAt(SlotAt(t, base, 1), value, out)

IsString(t, value) == IsCharArrayString(t, value) \/ IsWideString(t, value)

PlaceAt(slot, value, out) ==
    IF ~out.ok THEN out
    ELSE IF IsString(slot.type, value) THEN PlaceUnits(out, slot, LiteralOf(value))
    ELSE IF ~IsAggregate(slot.type) THEN PlaceUnbraced(slot, Unbraced(value), out)
    ELSE IF IsList(value) THEN WalkAggregateInit(slot.type, value, slot.offset, out)
    ELSE IF slot.type.kind = "record" /\ AssignableTo(slot.type, value)
    THEN PlaceScalar(out, slot, value)
    ELSE FirstSubobject(slot.type, slot.offset, value, out)

(* fillFromStream: as many elements as the object takes, braces elided.    *)
FillFromStream(t, base, elements, at) ==
    LET first == SlotAt(t, base, 1)
        unwritten == OnUnwritten(at.out, Place(t, base))
    IN  IF ~at.out.ok THEN at
        ELSE IF IsBarrier(elements, at) /\ (IsUnion(t) \/ ~IsAggregate(t)) THEN At(at.ei, unwritten)
        ELSE IF IsUnion(t) /\ IsList(Ahead(elements, at))
        THEN At(at.ei + 1, WalkAggregateInit(t, Ahead(elements, at), base, at.out))
        ELSE IF IsUnion(t) /\ IsAggregate(first.type)
        THEN FillFromStream(first.type, first.offset, elements, At(at.ei, unwritten))
        ELSE IF IsUnion(t) THEN At(at.ei + 1, PlaceAt(first, Ahead(elements, at), unwritten))
        ELSE IF /\ IsAggregate(t)
                /\ \/ IsBarrier(elements, at)
                   \/ ~IsString(t, Ahead(elements, at)) /\ ~IsList(Ahead(elements, at))
        THEN FillSlots(t, base, elements, at, 1)
        ELSE At(at.ei + 1, PlaceAt(Place(t, base), Ahead(elements, at), at.out))

(* What an undesignated element does to the next slot of an aggregate.     *)
TakeElement(slot, elements, at) ==
    IF IsAggregate(slot.type) /\ ~IsList(Ahead(elements, at))
    THEN FillFromStream(slot.type, slot.offset, elements, at)
    ELSE At(at.ei + 1,
            IF IsAggregate(slot.type)
            THEN WalkAggregateInit(slot.type, Ahead(elements, at), slot.offset, at.out)
            ELSE PlaceAt(slot, Ahead(elements, at), at.out))

(* fillSlottedFromStream: once the stream has ended, the slots that are    *)
(* left are unwritten.                                                     *)
FillSlots(t, base, elements, at, i) ==
    IF t.kind = "array" /\ t.count = 0 THEN At(at.ei, Failed(at.out))
    ELSE IF i > SlotCount(t) \/ ~at.out.ok THEN at
    ELSE FillSlots(t, base, elements,
                   IF IsBarrier(elements, at)
                   THEN At(at.ei, OnUnwritten(at.out, SlotAt(t, base, i)))
                   ELSE TakeElement(SlotAt(t, base, i), elements, at),
                   i + 1)

(* The loops of fillFromPath: the slots from the i-th to the last take     *)
(* elements for as long as there are undesignated ones.  A slot that takes *)
(* none, a record without members, is left out.                            *)
FillSiblings(t, base, i, last, elements, at) ==
    LET slot == SlotAt(t, base, i)
    IN  IF i > last \/ ~at.out.ok \/ IsBarrier(elements, at) THEN at
        ELSE FillSiblings(t, base, i + 1, last, elements,
                          IF IsAggregate(slot.type)
                          THEN FillFromStream(slot.type, slot.offset, elements, at)
                          ELSE At(at.ei + 1, PlaceAt(slot, Ahead(elements, at), at.out)))

(* fillFromPath: from the slot at the end of the path on, then from the    *)
(* slots that follow the path's in each enclosing container; not in the    *)
(* other members of a union.                                               *)
FillFromPath(t, base, path, elements, at) ==
    LET i == Head(path)
        last == IF IsUnion(t) THEN i ELSE SlotCount(t)
        slot == SlotAt(t, base, i)
    IN  IF path = <<>> \/ ~at.out.ok THEN at
        ELSE FillSiblings(t, base, IF Len(path) = 1 THEN i ELSE i + 1, last, elements,
                          FillFromPath(slot.type, slot.offset, Tail(path), elements, at))

(* applyDesignator: the designated object, then the elements that follow.  *)
PlaceDesignated(dest, value, out) ==
    CASE IsList(value) /\ IsAggregate(dest.type) ->
             WalkAggregateInit(dest.type, value, dest.offset, out)
      [] IsList(value) /\ ~IsAggregate(dest.type) -> Failed(out)
      [] ~IsList(value) ->
             PlaceAt(dest, value, IF IsAggregate(dest.type) THEN OnUnwritten(out, dest) ELSE out)

ApplyOnPath(t, base, path, elements, at) ==
    IF path = <<>> THEN At(at.ei + 1, Failed(at.out))
    ELSE FillFromPath(t, base, AdvancePath(t, path), elements,
                      At(at.ei + 1, PlaceDesignated(SlotOnPath(Place(t, base), path),
                                                    Ahead(elements, at), at.out)))

ApplyDesignator(t, base, elements, at) ==
    ApplyOnPath(t, base, DesignatorPath(t, elements[at.ei].designator), elements, at)

(* walkSlottedAggregate: after a designator only its own path goes on.     *)
WalkSlots(t, base, elements, positional, at) ==
    IF t.kind = "array" /\ t.count = 0 THEN Failed(at.out)
    ELSE IF at.ei > Len(elements) \/ ~at.out.ok THEN at.out
    ELSE IF IsDesignated(elements[at.ei])
    THEN WalkSlots(t, base, elements, SlotCount(t) + 1, ApplyDesignator(t, base, elements, at))
    ELSE IF positional > SlotCount(t) THEN Failed(at.out)
    ELSE WalkSlots(t, base, elements, positional + 1,
                   TakeElement(SlotAt(t, base, positional), elements, at))

(* The union's part of walkAggregateInit: one positional initializer, for  *)
(* the first member, or any number of designated ones.                     *)
WalkUnion(t, base, elements, used, at) ==
    LET first == SlotAt(t, base, 1)
    IN  IF at.ei > Len(elements) \/ ~at.out.ok THEN at.out
        ELSE IF IsDesignated(elements[at.ei])
        THEN WalkUnion(t, base, elements, TRUE, ApplyDesignator(t, base, elements, at))
        ELSE IF used THEN Failed(at.out)
        ELSE WalkUnion(t, base, elements, TRUE,
                       IF IsAggregate(first.type)
                       THEN FillFromStream(first.type, first.offset, elements, at)
                       ELSE At(at.ei + 1, PlaceAt(first, Ahead(elements, at), at.out)))

WalkAggregateInit(t, list, base, out) ==
    LET zeroed == At(1, OnUnwritten(out, Place(t, base)))
    IN  IF ~out.ok THEN out
        ELSE IF \/ IsCharArrayString(t, list)
                \/ IsWideString(t, LiteralOf(list)) /\ ~IsAggregate(t.elem)
        THEN PlaceUnits(out, Place(t, base), LiteralOf(list))
        ELSE IF IsUnion(t) THEN WalkUnion(t, base, list.elements, FALSE, zeroed)
        ELSE WalkSlots(t, base, list.elements, 1, zeroed)

=============================================================================
