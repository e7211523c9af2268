--------------------------- MODULE RecordLayout ---------------------------
(***************************************************************************)
(* How the members of a structure or a union get their places:             *)
(* layoutRecordMembers of src/src/types/TypeLayout.cpp, one action per     *)
(* turn of its loop, the completion of the record, and the late            *)
(* __attribute__((packed)) that lays the finished record out again.        *)
(*                                                                         *)
(* A type is a record with its size and alignment in bytes.  Every type    *)
(* that a specifier of the source can build is built here from primitive   *)
(* types and pointers, which the model takes from its constants.           *)
(***************************************************************************)
EXTENDS Integers, Sequences

CONSTANT Declarations,  \* the member lists of records: [isUnion, packed, specs]
         MaxInt         \* stands for INT_MAX

VARIABLES declared,   \* the declaration whose members are being laid out
          cursor,     \* LayoutCursor: members, bitOffset, maxAlign, maxSize
          next,       \* the next member of the declaration
          record,     \* the record type, complete or not
          stage       \* "members", "complete" or "refused"

layoutVars == <<declared, cursor, next, record, stage>>

NoWidth == -1

Unnamed == ""

(* What the declarations write of their members: names, types and widths.  *)
MembersWritten == UNION {{d.specs[i] : i \in DOMAIN d.specs} : d \in Declarations}

MemberNames == {s.name : s \in MembersWritten}

MemberTypes == {s.type : s \in MembersWritten}

Specifiers == [name : MemberNames, type : MemberTypes, width : Nat \cup {NoWidth}]

Alignments == {1, 2, 4, 8, 16}

ASSUME DeclarationsAssumption ==
    Declarations \subseteq [isUnion : BOOLEAN, packed : BOOLEAN, specs : Seq(Specifiers)]

(* Primitive::getAlignment knows no other alignment, an integer's is its   *)
(* size, and an array or a record has one of its parts'.  Only void has no *)
(* size, and it is no integer.                                             *)
ASSUME TypesAssumption ==
    \A t \in MemberTypes :
        /\ t.size \in Nat
        /\ t.align \in Alignments
        /\ t.kind = "primitive" /\ t.class = "Integer" => t.size = t.align

ASSUME MaxIntAssumption == MaxInt \in Nat

-----------------------------------------------------------------------------
(* Types.                                                                  *)

Primitive(class, size) ==
    [kind |-> "primitive", class |-> class, size |-> size, align |-> size, complete |-> TRUE]

PointerType == [kind |-> "pointer", class |-> "Integer", size |-> 8, align |-> 8, complete |-> TRUE]

ArrayOf(elem, count) ==
    [kind |-> "array", elem |-> elem, count |-> count, size |-> count * elem.size,
     align |-> elem.align, complete |-> TRUE]

IncompleteArray(elem) == [ArrayOf(elem, 0) EXCEPT !.complete = FALSE]

(* typeAlignment: the unnamed bit-fields are not among the members.        *)
AlignmentOf(members, packed) ==
    IF packed THEN 1
    ELSE CHOOSE a \in {1} \cup {members[i].type.align : i \in DOMAIN members} :
             \A i \in DOMAIN members : members[i].type.align <= a

RecordType(members, isUnion, packed, size) ==
    [kind |-> "record", members |-> members, isUnion |-> isUnion, packed |-> packed,
     size |-> size, align |-> AlignmentOf(members, packed), complete |-> TRUE]

IncompleteRecord(isUnion) ==
    [RecordType(<<>>, isUnion, FALSE, 0) EXCEPT !.complete = FALSE]

IsAggregate(t) == t.kind \in {"array", "record"}

IsUnion(t) == t.kind = "record" /\ t.isUnion

-----------------------------------------------------------------------------
(* The layout of one member.  A member's width is that of a bit-field and  *)
(* 0 for any other member; a specifier's width is NoWidth for the latter.  *)

AlignUp(offset, alignment) ==
    IF alignment <= 1 \/ offset % alignment = 0
    THEN offset
    ELSE offset + (alignment - (offset % alignment))

EmptyCursor == [members |-> <<>>, bitOffset |-> 0, maxAlign |-> 1, maxSize |-> 0]

Member(name, type, offset, width, shift) ==
    [name |-> name, type |-> type, offset |-> offset, width |-> width, shift |-> shift]

\* mutant of OrdinaryStructMember: begins in the byte a bit-field ends in.
OrdinaryStructMemberEarly(c, spec, align) ==
    LET offset == AlignUp(c.bitOffset \div 8, align)
    IN  [c EXCEPT !.members = Append(@, Member(spec.name, spec.type, offset, 0, 0)),
                  !.bitOffset = (offset + spec.type.size) * 8]

OrdinaryStructMember(c, spec, align) ==
    LET offset == AlignUp((c.bitOffset + 7) \div 8, align)
    IN  [c EXCEPT !.members = Append(@, Member(spec.name, spec.type, offset, 0, 0)),
                  !.bitOffset = (offset + spec.type.size) * 8]

OrdinaryUnionMember(c, spec) ==
    [c EXCEPT !.members = Append(@, Member(spec.name, spec.type, 0, 0, 0)),
              !.maxSize = IF spec.type.size > @ THEN spec.type.size ELSE @]

\* mutant of BitFieldStart: a full unit does not end.
BitFieldStartAnywhere(bitOffset, spec, align) ==
    IF spec.width = 0 THEN AlignUp(bitOffset, align * 8) ELSE bitOffset

(* A bit-field that would cross a unit of its type starts the next one; a  *)
(* width of zero ends the current unit and places nothing.                 *)
BitFieldStart(bitOffset, spec, align) ==
    IF spec.width = 0 \/ (bitOffset % (spec.type.size * 8)) + spec.width > spec.type.size * 8
    THEN AlignUp(bitOffset, align * 8)
    ELSE bitOffset

BitFieldStructMember(c, spec, align) ==
    LET start == BitFieldStart(c.bitOffset, spec, align)
        unit == spec.type.size * 8
        field == Member(spec.name, spec.type, (start \div unit) * spec.type.size,
                        spec.width, start % unit)
    IN  [c EXCEPT !.members = IF spec.width = 0 \/ spec.name = Unnamed THEN @ ELSE Append(@, field),
                  !.bitOffset = start + spec.width]

BitFieldUnionMember(c, spec) ==
    [c EXCEPT !.members = IF spec.width = 0 \/ spec.name = Unnamed THEN @
                          ELSE Append(@, Member(spec.name, spec.type, 0, spec.width, 0)),
              !.maxSize = IF spec.type.size > @ THEN spec.type.size ELSE @]

WithMember(c, spec, isUnion, packed) ==
    LET align == IF packed THEN 1 ELSE spec.type.align
        noted == [c EXCEPT !.maxAlign = IF align > @ THEN align ELSE @]
    IN  CASE spec.width = NoWidth /\ isUnion -> OrdinaryUnionMember(noted, spec)
          [] spec.width = NoWidth /\ ~isUnion -> OrdinaryStructMember(noted, spec, align)
          [] spec.width # NoWidth /\ isUnion -> BitFieldUnionMember(noted, spec)
          [] spec.width # NoWidth /\ ~isUnion -> BitFieldStructMember(noted, spec, align)

(* The diagnostics of a member: completeMemberError, uniqueMemberNameError *)
(* and bitFieldUnitBits.  Only the last member of a structure that already *)
(* has one may be an array without a bound.                                *)
MemberRefused(c, spec, isUnion, isLast) ==
    LET flexibleArray == /\ ~isUnion /\ isLast /\ c.members # <<>>
                         /\ spec.type.kind = "array"
    IN  \/ ~spec.type.complete /\ ~flexibleArray
        \/ spec.name # Unnamed /\ \E i \in DOMAIN c.members : c.members[i].name = spec.name
        \/ /\ spec.width # NoWidth
           /\ \/ spec.type.kind # "primitive" \/ spec.type.class # "Integer"
              \/ spec.width = 0 /\ spec.name # Unnamed
              \/ spec.type.size > 8
              \/ spec.width > spec.type.size * 8

(* fitsIntError: what a structure is told in bytes of an ordinary member   *)
(* and in bits of a bit-field must be an int.                              *)
DoesNotFit(c, spec, isUnion, packed) ==
    LET align == IF packed THEN 1 ELSE spec.type.align
    IN  /\ ~isUnion
        /\ \/ /\ spec.width = NoWidth
              /\ OrdinaryStructMember(c, spec, align).bitOffset > MaxInt * 8
           \/ spec.width > 0 /\ BitFieldStart(c.bitOffset, spec, align) > MaxInt

SizeOf(c, isUnion) ==
    AlignUp(IF isUnion THEN c.maxSize ELSE (c.bitOffset + 7) \div 8, c.maxAlign)

(* memberSpecs: what is left of a complete record's declaration.           *)
MemberSpecs(t) ==
    [i \in DOMAIN t.members |->
        [name |-> t.members[i].name, type |-> t.members[i].type,
         width |-> IF t.members[i].width = 0 THEN NoWidth ELSE t.members[i].width]]

-----------------------------------------------------------------------------
(* layoutRecordMembers, one member at a time.                              *)

LayoutInit ==
    /\ declared \in Declarations
    /\ cursor = EmptyCursor
    /\ next = 1
    /\ record = IncompleteRecord(declared.isUnion)
    /\ stage = "members"

NextRefused ==
    \/ MemberRefused(cursor, declared.specs[next], declared.isUnion, next = Len(declared.specs))
    \/ DoesNotFit(cursor, declared.specs[next], declared.isUnion, declared.packed)

LayoutMember ==
    /\ stage = "members" /\ next <= Len(declared.specs)
    /\ ~NextRefused
    /\ cursor' = WithMember(cursor, declared.specs[next], declared.isUnion, declared.packed)
    /\ next' = next + 1
    /\ UNCHANGED <<declared, record, stage>>

(* An error leaves the record as it was.                                   *)
RefuseMember ==
    /\ stage = "members" /\ next <= Len(declared.specs)
    /\ NextRefused
    /\ stage' = "refused"
    /\ UNCHANGED <<declared, cursor, next, record>>

CompleteRecord ==
    /\ stage = "members" /\ next > Len(declared.specs)
    /\ IF SizeOf(cursor, declared.isUnion) > MaxInt
       THEN stage' = "refused" /\ UNCHANGED record
       ELSE /\ stage' = "complete"
            /\ record' = RecordType(cursor.members, declared.isUnion, declared.packed,
                                    SizeOf(cursor, declared.isUnion))
    /\ UNCHANGED <<declared, cursor, next>>

(* applyPacked on a complete record: the members that it kept are laid out *)
(* again without padding.                                                  *)
ApplyPacked ==
    /\ stage = "complete" /\ ~record.packed
    /\ declared' = [isUnion |-> record.isUnion, packed |-> TRUE, specs |-> MemberSpecs(record)]
    /\ cursor' = EmptyCursor
    /\ next' = 1
    /\ stage' = "members"
    /\ UNCHANGED record

LayoutNext == LayoutMember \/ RefuseMember \/ CompleteRecord \/ ApplyPacked

LayoutSpec == LayoutInit /\ [][LayoutNext]_layoutVars

-----------------------------------------------------------------------------
(* Properties.                                                             *)

(* The bits of the object that a member owns.                              *)
FirstBit(m) == m.offset * 8 + m.shift

EndBit(m) == IF m.width = 0 THEN (m.offset + m.type.size) * 8 ELSE FirstBit(m) + m.width

Apart(members) ==
    \A j \in DOMAIN members : \A i \in 1 .. j - 1 : EndBit(members[i]) <= FirstBit(members[j])

(* What the users of a complete record rely on: its members do not share a *)
(* bit unless it is a union, all lie inside of it, and those that are no   *)
(* bit-fields begin where their type may, in every element of an array of  *)
(* such records too, unless it is packed.                                  *)
Holds(t) ==
    /\ t.isUnion \/ Apart(t.members)
    /\ \A i \in DOMAIN t.members : EndBit(t.members[i]) <= t.size * 8
    /\ \A i \in DOMAIN t.members :
           ~t.packed /\ t.members[i].width = 0 =>
               t.members[i].offset % t.members[i].type.align = 0
    /\ t.size % t.align = 0

(* No two members of a structure share a bit, in whatever order bit-fields *)
(* of different types, zero widths and ordinary members follow each other: *)
(* each one begins where the ones before it have ended, and none reaches   *)
(* past what the cursor has handed out.  A record that has been completed, *)
(* packed late or refused when it was to be packed holds its members.      *)
FieldsApart ==
    /\ ~declared.isUnion =>
           /\ Apart(cursor.members)
           /\ \A j \in DOMAIN cursor.members : EndBit(cursor.members[j]) <= cursor.bitOffset
    /\ record.complete => Holds(record)

(* The System V rules, stated without arithmetic on a cursor: a member     *)
(* starts at the first bit, past the ones before it, that its alignment    *)
(* allows, and a bit-field may not lie across a boundary of its own type;  *)
(* packed members need no more than a byte, packed bit-fields not even     *)
(* that.                                                                   *)
AbiAllows(bit, spec, packed) ==
    CASE spec.width = NoWidth -> bit % (8 * (IF packed THEN 1 ELSE spec.type.align)) = 0
      [] spec.width = 0 -> bit % (8 * spec.type.align) = 0
      [] OTHER -> packed \/ bit \div (8 * spec.type.size)
                             = (bit + spec.width - 1) \div (8 * spec.type.size)

AbiStart(after, spec, packed) ==
    CHOOSE b \in after .. after + 128 :
        AbiAllows(b, spec, packed) /\ \A x \in after .. b - 1 : ~AbiAllows(x, spec, packed)

AbiWidth(spec) == IF spec.width = NoWidth THEN 8 * spec.type.size ELSE spec.width

AbiStarts(decl) ==
    LET start[i \in 1 .. Len(decl.specs)] ==
            IF decl.isUnion THEN 0
            ELSE AbiStart(IF i = 1 THEN 0 ELSE start[i - 1] + AbiWidth(decl.specs[i - 1]),
                          decl.specs[i], decl.packed)
    IN  start

AbiExtents(decl) ==
    LET start == AbiStarts(decl)
    IN  [i \in 1 .. Len(decl.specs) |-> <<start[i], start[i] + AbiWidth(decl.specs[i])>>]

(* What becomes a member: unnamed bit-fields take room and nothing else,   *)
(* an unnamed member of another kind is an anonymous structure or union.   *)
IsPlaced(spec) == spec.name # Unnamed \/ spec.width = NoWidth

PlacedSpecs(decl) == {i \in DOMAIN decl.specs : IsPlaced(decl.specs[i])}

AbiPlaced(decl) ==
    LET extents == AbiExtents(decl)
        placed[n \in 0 .. Len(decl.specs)] ==
            IF n = 0 THEN <<>>
            ELSE IF IsPlaced(decl.specs[n]) THEN Append(placed[n - 1], extents[n])
            ELSE placed[n - 1]
    IN  placed

(* The layout of the host's gcc, which the code of this compiler is linked *)
(* with: the bits of every member, and a size that is the smallest         *)
(* multiple of the alignment that holds all of them.  Unnamed bit-fields   *)
(* have no alignment.                                                      *)
LayoutOfHost(decl, t) ==
    LET extents == AbiExtents(decl)
        alignments == {1} \cup {decl.specs[i].type.align : i \in PlacedSpecs(decl)}
        align == IF decl.packed THEN 1
                 ELSE CHOOSE a \in alignments : \A b \in alignments : b <= a
        bytes == {0} \cup {(extents[i][2] + 7) \div 8 : i \in DOMAIN extents}
        end == CHOOSE a \in bytes : \A b \in bytes : b <= a
    IN  /\ [i \in DOMAIN t.members |-> <<FirstBit(t.members[i]), EndBit(t.members[i])>>]
             = AbiPlaced(decl)[Len(decl.specs)]
        /\ t.size = CHOOSE s \in end .. end + align - 1 : s % align = 0
        /\ t.align = align

(* Where this compiler is known to differ from it: an unnamed bit-field    *)
(* aligned more strictly than every member; bit-fields of packed records   *)
(* that lie across a unit of their type, are empty or share a union; and   *)
(* an empty bit-field in a union of nothing that has a size.               *)
HostDiffers(decl) ==
    \/ /\ ~decl.packed
       /\ \E i \in DOMAIN decl.specs \ PlacedSpecs(decl) : \A j \in PlacedSpecs(decl) :
              decl.specs[j].type.align < decl.specs[i].type.align
    \/ /\ decl.packed
       /\ \E i \in DOMAIN decl.specs :
              /\ decl.specs[i].width # NoWidth
              /\ \/ decl.isUnion \/ decl.specs[i].width = 0
                 \/ LET extent == AbiExtents(decl)[i]
                        unit == 8 * decl.specs[i].type.size
                    IN  extent[1] \div unit # (extent[2] - 1) \div unit
    \/ /\ decl.isUnion
       /\ \E i \in DOMAIN decl.specs : decl.specs[i].width = 0
       /\ \A i \in DOMAIN decl.specs : AbiWidth(decl.specs[i]) = 0

(* Everywhere else a record is laid out as the host lays it out.  A record *)
(* that was packed late has the layout of a packed record of the members   *)
(* that it kept.                                                           *)
LayoutAsAbi ==
    stage = "complete" /\ ~HostDiffers(declared) => LayoutOfHost(declared, record)

=============================================================================
