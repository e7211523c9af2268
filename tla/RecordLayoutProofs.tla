------------------------ MODULE RecordLayoutProofs ------------------------
(***************************************************************************)
(* RecordLayout places the members of a structure apart from each other,   *)
(* and a complete record holds its members: for every list of members of   *)
(* any types and widths, refused or not, packed at once, late or never.    *)
(*                                                                         *)
(* The argument.  A structure's cursor is never moved back, and a member   *)
(* begins at or after it (StructCursor); a union's cursor keeps the size   *)
(* of the largest member (UnionCursor).  All alignments are powers of two, *)
(* so that the strictest one, to which the size is rounded, is a multiple  *)
(* of every other.                                                         *)
(*                                                                         *)
(* A record is laid out as the host does it (LaidOutAsHost).  The cursor   *)
(* keeps pace with the host's places, which are given by recursion on the  *)
(* list of members: after each one the members so far have the bits of the *)
(* host, the cursor is where the host is, and the strictest alignment and  *)
(* the largest size are those of the members read (AsHost).  What is left  *)
(* is arithmetic: the first place that the rules allow is the one that     *)
(* rounding up gives.                                                      *)
(***************************************************************************)
EXTENDS RecordLayout, WellFoundedInduction, TLAPS

Members == [name : MemberNames, type : MemberTypes, offset : Nat, width : Nat, shift : Nat]

Records ==
    [kind : {"record"}, members : Seq(Members), isUnion : BOOLEAN, packed : BOOLEAN,
     size : Nat, align : Alignments, complete : BOOLEAN]

Cursors == [members : Seq(Members), bitOffset : Nat, maxAlign : Alignments, maxSize : Nat]

TypeOK ==
    /\ declared \in [isUnion : BOOLEAN, packed : BOOLEAN, specs : Seq(Specifiers)]
    /\ cursor \in Cursors
    /\ next \in Nat \ {0}
    /\ record \in Records
    /\ stage \in {"members", "complete", "refused"}

StructCursor(c) ==
    /\ Apart(c.members)
    /\ \A j \in DOMAIN c.members : EndBit(c.members[j]) <= c.bitOffset

UnionCursor(c) == \A j \in DOMAIN c.members : EndBit(c.members[j]) <= c.maxSize * 8

Aligned(members) ==
    \A i \in DOMAIN members : members[i].width = 0 => members[i].offset % members[i].type.align = 0

AlignsWithin(members, a) == \A i \in DOMAIN members : members[i].type.align <= a

(* What the cursor of a structure or a union satisfies between members.    *)
Fit(c, isUnion, packed) ==
    /\ c \in Cursors
    /\ IF isUnion THEN UnionCursor(c) ELSE StructCursor(c)
    /\ ~packed => Aligned(c.members) /\ AlignsWithin(c.members, c.maxAlign)

Inv ==
    /\ TypeOK
    /\ Fit(cursor, declared.isUnion, declared.packed)
    /\ record.complete => Holds(record)

-----------------------------------------------------------------------------
(* Rounding up.                                                            *)

LEMMA TypesAre ==
    ASSUME NEW t \in MemberTypes
    PROVE  /\ t.size \in Nat
           /\ t.align \in Alignments
           /\ t.kind = "primitive" /\ t.class = "Integer" => t.size >= 1 /\ t.size = t.align
BY TypesAssumption DEF Alignments

(* AlignUp gives a multiple of the alignment that is no smaller; eight     *)
(* times an alignment is one in bits.                                      *)
LEMMA AlignUpRounds ==
    ASSUME NEW o \in Nat, NEW a \in Alignments
    PROVE  /\ AlignUp(o, a) \in Nat /\ AlignUp(o, a) >= o /\ AlignUp(o, a) % a = 0
           /\ AlignUp(o, a * 8) \in Nat /\ AlignUp(o, a * 8) >= o
BY DEF AlignUp, Alignments

(* Of two alignments the larger is a multiple of the smaller.              *)
LEMMA AlignmentsDivide ==
    ASSUME NEW n \in Nat, NEW a \in Alignments, NEW b \in Alignments, n % b = 0, a <= b
    PROVE  n % a = 0
BY DEF Alignments

(* A place counted in units of size bytes and bits within the unit.        *)
LEMMA UnitAndShift ==
    ASSUME NEW start \in Nat, NEW size \in 1 .. 8
    PROVE  /\ (start \div (size * 8)) * size \in Nat
           /\ start % (size * 8) \in Nat
           /\ ((start \div (size * 8)) * size) * 8 + (start % (size * 8)) = start
<1> DEFINE Placed(unit) ==
        /\ (start \div (unit * 8)) * unit \in Nat
        /\ start % (unit * 8) \in Nat
        /\ ((start \div (unit * 8)) * unit) * 8 + (start % (unit * 8)) = start
<1>1. Placed(1) OBVIOUS
<1>2. Placed(2) OBVIOUS
<1>3. Placed(3) OBVIOUS
<1>4. Placed(4) OBVIOUS
<1>5. Placed(5) OBVIOUS
<1>6. Placed(6) OBVIOUS
<1>7. Placed(7) OBVIOUS
<1>8. Placed(8) OBVIOUS
<1>9. size \in {1, 2, 3, 4, 5, 6, 7, 8} OBVIOUS
<1>10. Placed(size)
  <2> HIDE DEF Placed
  <2> QED BY <1>1, <1>2, <1>3, <1>4, <1>5, <1>6, <1>7, <1>8, <1>9
<1> QED BY <1>10

(* The alignment of a record is 1 or that of its most strictly aligned     *)
(* member.                                                                 *)
LEMMA StrictestAlignment ==
    ASSUME NEW members \in Seq(Members)
    PROVE  /\ AlignmentOf(members, TRUE) = 1
           /\ AlignmentOf(members, FALSE) \in {1} \cup {members[i].type.align : i \in DOMAIN members}
           /\ AlignmentOf(members, FALSE) \in Alignments
           /\ \A i \in DOMAIN members : members[i].type.align <= AlignmentOf(members, FALSE)
<1> DEFINE As == {1} \cup {members[i].type.align : i \in DOMAIN members}
           Strictest(a) == \A i \in DOMAIN members : members[i].type.align <= a
<1>1. ASSUME NEW i \in DOMAIN members PROVE members[i].type.align \in Alignments
  <2>1. members[i] \in Members OBVIOUS
  <2>2. members[i].type \in MemberTypes BY <2>1 DEF Members
  <2> QED BY <2>2, TypesAre
<1>2. \E a \in As : Strictest(a)
  <2> \A i \in DOMAIN members : members[i].type.align \in As OBVIOUS
  <2>1. CASE 16 \in As
    <3>1. Strictest(16) BY <1>1 DEF Alignments
    <3> QED BY <2>1, <3>1
  <2>2. CASE 16 \notin As /\ 8 \in As
    <3>1. Strictest(8) BY <1>1, <2>2 DEF Alignments
    <3> QED BY <2>2, <3>1
  <2>3. CASE 16 \notin As /\ 8 \notin As /\ 4 \in As
    <3>1. ASSUME NEW i \in DOMAIN members PROVE members[i].type.align <= 4
      BY <1>1, <2>3 DEF Alignments
    <3> QED BY <2>3, <3>1
  <2>4. CASE 16 \notin As /\ 8 \notin As /\ 4 \notin As /\ 2 \in As
    <3>1. Strictest(2) BY <1>1, <2>4 DEF Alignments
    <3> QED BY <2>4, <3>1
  <2>5. CASE 16 \notin As /\ 8 \notin As /\ 4 \notin As /\ 2 \notin As
    BY <1>1, <2>5 DEF Alignments
  <2> QED BY <2>1, <2>2, <2>3, <2>4, <2>5
<1>3. AlignmentOf(members, FALSE) = CHOOSE a \in As : Strictest(a)
  BY DEF AlignmentOf
<1>4. (CHOOSE a \in As : Strictest(a)) \in As /\ Strictest(CHOOSE a \in As : Strictest(a))
  <2> HIDE DEF As, Strictest
  <2> QED BY <1>2
<1>5. As \subseteq Alignments BY <1>1 DEF Alignments
<1> QED BY <1>3, <1>4, <1>5 DEF AlignmentOf

-----------------------------------------------------------------------------
(* Placing one member.                                                     *)

LEMMA MemberIs ==
    ASSUME NEW spec \in Specifiers, NEW offset \in Nat, NEW width \in Nat, NEW shift \in Nat
    PROVE  Member(spec.name, spec.type, offset, width, shift) \in Members
BY DEF Specifiers, Members, Member

LEMMA AppendedMember ==
    ASSUME NEW ms \in Seq(Members), NEW m \in Members
    PROVE  /\ Append(ms, m) \in Seq(Members)
           /\ DOMAIN Append(ms, m) = 1 .. Len(ms) + 1
           /\ DOMAIN ms = 1 .. Len(ms) /\ Len(ms) \in Nat
           /\ Append(ms, m)[Len(ms) + 1] = m
           /\ \A i \in 1 .. Len(ms) : Append(ms, m)[i] = ms[i]
OBVIOUS

LEMMA MemberBits ==
    ASSUME NEW m \in Members
    PROVE  FirstBit(m) \in Nat /\ EndBit(m) \in Nat
BY TypesAre DEF Members, FirstBit, EndBit

(* A member that begins at or after the end of all others extends the      *)
(* structure.                                                              *)
LEMMA Extended ==
    ASSUME NEW c \in Cursors, StructCursor(c),
           NEW m \in Members, c.bitOffset <= FirstBit(m),
           NEW d, d.members = Append(c.members, m), d.bitOffset \in Nat,
           EndBit(m) <= d.bitOffset, c.bitOffset <= d.bitOffset
    PROVE  StructCursor(d)
<1> DEFINE ms == c.members  n == Len(c.members)
<1>1. ms \in Seq(Members) /\ c.bitOffset \in Nat BY DEF Cursors
<1>2. /\ DOMAIN d.members = 1 .. n + 1 /\ DOMAIN ms = 1 .. n /\ n \in Nat
      /\ d.members[n + 1] = m
      /\ \A i \in 1 .. n : d.members[i] = ms[i]
  BY <1>1, AppendedMember
<1>3. \A i \in 1 .. n : ms[i] \in Members BY <1>1
<1>4. \A i \in 1 .. n : EndBit(ms[i]) \in Nat /\ EndBit(ms[i]) <= c.bitOffset
  BY <1>2, <1>3, MemberBits DEF StructCursor
<1>5. EndBit(m) \in Nat /\ FirstBit(m) \in Nat BY MemberBits
<1>6. ASSUME NEW j \in 1 .. n + 1, NEW i \in 1 .. j - 1
      PROVE  EndBit(d.members[i]) <= FirstBit(d.members[j])
  <2>1. i \in 1 .. n BY <1>2
  <2>2. CASE j = n + 1 BY <1>1, <1>2, <1>4, <1>5, <2>1, <2>2
  <2>3. CASE j # n + 1 BY <1>2, <2>3, <2>1 DEF StructCursor, Apart
  <2> QED BY <2>2, <2>3
<1>7. ASSUME NEW j \in 1 .. n + 1 PROVE EndBit(d.members[j]) <= d.bitOffset BY <1>2, <1>1, <1>4
<1> QED BY <1>2, <1>6, <1>7 DEF StructCursor, Apart

(* What a further member does to the other parts of the invariant.         *)
LEMMA AlignedAppend ==
    ASSUME NEW ms \in Seq(Members), NEW m \in Members, NEW a \in Nat, NEW b \in Nat,
           Aligned(ms), AlignsWithin(ms, a), a <= b,
           m.type.align <= b, m.width = 0 => m.offset % m.type.align = 0
    PROVE  Aligned(Append(ms, m)) /\ AlignsWithin(Append(ms, m), b)
<1> DEFINE ns == Append(ms, m)  n == Len(ms)
<1>1. /\ DOMAIN ns = 1 .. n + 1 /\ DOMAIN ms = 1 .. n /\ n \in Nat
      /\ ns[n + 1] = m
      /\ \A i \in 1 .. n : ns[i] = ms[i]
  BY AppendedMember
<1>2. ASSUME NEW i \in DOMAIN ns
      PROVE  (ns[i].width = 0 => ns[i].offset % ns[i].type.align = 0) /\ ns[i].type.align <= b
  <2>1. CASE i = n + 1 BY <1>1, <2>1
  <2>2. CASE i # n + 1
    <3>1. i \in DOMAIN ms BY <1>1, <2>2
    <3>2. ms[i] \in Members /\ ms[i].type \in MemberTypes
      <4>1. ms[i] \in Members BY <3>1
      <4> QED BY <4>1 DEF Members
    <3>3. ms[i].type.align \in Nat BY <3>2, TypesAre DEF Alignments
    <3> QED BY <1>1, <3>1, <3>3 DEF Aligned, AlignsWithin
  <2> QED BY <2>1, <2>2
<1> QED BY <1>2 DEF Aligned, AlignsWithin

LEMMA SpecifierIs ==
    ASSUME NEW spec \in Specifiers
    PROVE  /\ spec.type \in MemberTypes
           /\ spec.type.size \in Nat /\ spec.type.align \in Alignments
           /\ spec.width \in Nat \cup {NoWidth}
BY TypesAre DEF Specifiers

(* An ordinary member of a structure.                                      *)
LEMMA OrdinaryStructPlaced ==
    ASSUME NEW c, NEW spec \in Specifiers, NEW packed \in BOOLEAN, Fit(c, FALSE, packed),
           NEW align \in Alignments, ~packed => align = spec.type.align /\ align <= c.maxAlign
    PROVE  Fit(OrdinaryStructMember(c, spec, align), FALSE, packed)
<1> DEFINE offset == AlignUp((c.bitOffset + 7) \div 8, align)
           m == Member(spec.name, spec.type, offset, 0, 0)
           size == spec.type.size
           d == OrdinaryStructMember(c, spec, align)
<1>1. /\ c \in Cursors /\ StructCursor(c)
      /\ c.members \in Seq(Members) /\ c.bitOffset \in Nat /\ c.maxAlign \in Alignments
  BY DEF Fit, Cursors
<1>2. size \in Nat BY SpecifierIs
<1>3. /\ (c.bitOffset + 7) \div 8 \in Nat
      /\ c.bitOffset <= ((c.bitOffset + 7) \div 8) * 8
  BY <1>1
<1>4. offset \in Nat /\ c.bitOffset <= offset * 8 /\ offset % align = 0
  <2> DEFINE whole == (c.bitOffset + 7) \div 8
  <2>1. whole \in Nat BY <1>3
  <2>2. AlignUp(whole, align) \in Nat /\ AlignUp(whole, align) >= whole
        /\ AlignUp(whole, align) % align = 0
    <3> HIDE DEF whole
    <3> QED BY <2>1, AlignUpRounds
  <2>3. c.bitOffset <= whole * 8 BY <1>3
  <2> HIDE DEF whole
  <2>4. c.bitOffset <= AlignUp(whole, align) * 8 BY <1>1, <2>1, <2>2, <2>3
  <2> QED BY <2>2, <2>4 DEF whole
<1> HIDE DEF offset
<1>5. m \in Members BY <1>4, MemberIs
<1>6. FirstBit(m) = offset * 8 /\ EndBit(m) = (offset + size) * 8
  BY <1>2, <1>4 DEF Member, FirstBit, EndBit
<1>7. /\ d = [c EXCEPT !.members = Append(c.members, m), !.bitOffset = (offset + size) * 8]
      /\ Append(c.members, m) \in Seq(Members)
  BY <1>1, <1>5, AppendedMember DEF OrdinaryStructMember, offset, Cursors
<1>8. /\ d \in Cursors
      /\ d.members = Append(c.members, m) /\ d.bitOffset = (offset + size) * 8
      /\ d.maxAlign = c.maxAlign
  <2> DEFINE ms == Append(c.members, m)  b == (offset + size) * 8
  <2>1. ms \in Seq(Members) /\ b \in Nat BY <1>2, <1>4, <1>7
  <2>2. d = [c EXCEPT !.members = ms, !.bitOffset = b] BY <1>7
  <2> HIDE DEF ms, b, d
  <2>3. c \in Cursors BY <1>1
  <2>4. d \in Cursors BY <2>1, <2>2, <2>3 DEF Cursors
  <2>5. d.members = ms /\ d.bitOffset = b /\ d.maxAlign = c.maxAlign
    BY <2>2, <2>3 DEF Cursors
  <2> QED BY <2>4, <2>5 DEF ms, b
<1>10. StructCursor(d)
  <2>1. (offset + size) * 8 \in Nat /\ c.bitOffset <= (offset + size) * 8 BY <1>1, <1>2, <1>4
  <2> HIDE DEF m, d
  <2> QED BY <1>1, <1>4, <1>5, <1>6, <1>8, <2>1, Extended
<1>11. ASSUME ~packed PROVE Aligned(d.members) /\ AlignsWithin(d.members, d.maxAlign)
  <2>1. Aligned(c.members) /\ AlignsWithin(c.members, c.maxAlign) BY <1>11 DEF Fit
  <2>2. m.type.align <= c.maxAlign /\ m.offset % m.type.align = 0
    BY <1>4, <1>11 DEF Member
  <2>3. c.maxAlign \in Nat BY <1>1 DEF Alignments
  <2> HIDE DEF m, d
  <2> QED BY <1>1, <1>5, <1>8, <2>1, <2>2, <2>3, AlignedAppend
<1> QED BY <1>8, <1>10, <1>11 DEF Fit

(* A bit-field of a structure, which a width of zero or no name leaves out *)
(* of the members.                                                         *)
LEMMA BitFieldStructPlaced ==
    ASSUME NEW c, NEW spec \in Specifiers, NEW packed \in BOOLEAN, Fit(c, FALSE, packed),
           NEW align \in Alignments, ~packed => align = spec.type.align /\ align <= c.maxAlign,
           spec.width \in Nat, spec.type.size \in 1 .. 8
    PROVE  Fit(BitFieldStructMember(c, spec, align), FALSE, packed)
<1> DEFINE size == spec.type.size
           start == BitFieldStart(c.bitOffset, spec, align)
           offset == (start \div (size * 8)) * size
           shift == start % (size * 8)
           m == Member(spec.name, spec.type, offset, spec.width, shift)
           left == spec.width = 0 \/ spec.name = Unnamed
           ms == IF left THEN c.members ELSE Append(c.members, m)
           b == start + spec.width
           d == BitFieldStructMember(c, spec, align)
<1>1. /\ c \in Cursors /\ StructCursor(c)
      /\ c.members \in Seq(Members) /\ c.bitOffset \in Nat /\ c.maxAlign \in Alignments
  BY DEF Fit, Cursors
<1>2. start \in Nat /\ c.bitOffset <= start
  <2>1. AlignUp(c.bitOffset, align * 8) \in Nat /\ c.bitOffset <= AlignUp(c.bitOffset, align * 8)
    BY <1>1, AlignUpRounds
  <2>2. start = c.bitOffset \/ start = AlignUp(c.bitOffset, align * 8) BY DEF BitFieldStart
  <2> QED BY <1>1, <2>1, <2>2
<1>3. offset \in Nat /\ shift \in Nat /\ offset * 8 + shift = start
  <2> HIDE DEF start
  <2> QED BY <1>2, UnitAndShift
<1>4. d = [c EXCEPT !.members = ms, !.bitOffset = b] BY DEF BitFieldStructMember
<1> HIDE DEF start, offset, shift
<1>5. m \in Members BY <1>3, MemberIs
<1>6. ms \in Seq(Members) /\ b \in Nat /\ c.bitOffset <= b
  BY <1>1, <1>2, <1>5, AppendedMember
<1>7. /\ d \in Cursors
      /\ d.members = ms /\ d.bitOffset = b /\ d.maxAlign = c.maxAlign
  <2> HIDE DEF ms, b, d
  <2>1. d \in Cursors BY <1>1, <1>4, <1>6 DEF Cursors
  <2>2. d.members = ms /\ d.bitOffset = b /\ d.maxAlign = c.maxAlign
    BY <1>1, <1>4 DEF Cursors
  <2> QED BY <2>1, <2>2
<1> HIDE DEF d
<1>8. CASE left
  <2>1. d.members = c.members BY <1>7, <1>8
  <2>2. ASSUME NEW j \in DOMAIN c.members PROVE EndBit(c.members[j]) <= d.bitOffset
    <3>1. c.members[j] \in Members BY <1>1
    <3>2. EndBit(c.members[j]) \in Nat BY <3>1, MemberBits
    <3>3. EndBit(c.members[j]) <= c.bitOffset BY <1>1 DEF StructCursor
    <3> HIDE DEF b
    <3> QED BY <1>1, <1>6, <1>7, <3>2, <3>3
  <2>3. StructCursor(d) BY <1>1, <2>1, <2>2 DEF StructCursor
  <2>4. ~packed => Aligned(d.members) /\ AlignsWithin(d.members, d.maxAlign)
    BY <1>7, <2>1 DEF Fit
  <2> QED BY <1>7, <2>3, <2>4 DEF Fit, d
<1>9. CASE ~left
  <2>1. d.members = Append(c.members, m) BY <1>7, <1>9
  <2>2. m.offset = offset /\ m.shift = shift /\ m.width = spec.width /\ m.type = spec.type
    BY DEF Member
  <2>3. spec.width # 0 BY <1>9
  <2>4. FirstBit(m) = start /\ EndBit(m) = b
    BY <1>3, <2>2, <2>3 DEF FirstBit, EndBit
  <2>5. StructCursor(d)
    <3>1. d.bitOffset \in Nat /\ EndBit(m) <= d.bitOffset /\ c.bitOffset <= d.bitOffset
      BY <1>6, <1>7, <2>4
    <3> HIDE DEF m, b
    <3> QED BY <1>1, <1>2, <1>5, <2>1, <2>4, <3>1, Extended
  <2>6. ASSUME ~packed PROVE Aligned(d.members) /\ AlignsWithin(d.members, d.maxAlign)
    <3>1. Aligned(c.members) /\ AlignsWithin(c.members, c.maxAlign) BY <2>6 DEF Fit
    <3>2. m.type.align <= c.maxAlign /\ (m.width = 0 => m.offset % m.type.align = 0)
      BY <2>2, <2>3, <2>6
    <3>3. c.maxAlign \in Nat BY <1>1 DEF Alignments
    <3> HIDE DEF m
    <3> QED BY <1>1, <1>5, <1>7, <2>1, <3>1, <3>2, <3>3, AlignedAppend
  <2> QED BY <1>7, <2>5, <2>6 DEF Fit, d
<1> QED BY <1>8, <1>9

(* A member of a union, whichever way it is placed, or one that is left    *)
(* out of the members.                                                     *)
LEMMA UnionPlaced ==
    ASSUME NEW c, NEW packed \in BOOLEAN, Fit(c, TRUE, packed),
           NEW m \in Members, ~packed => m.type.align <= c.maxAlign,
           m.offset = 0, m.shift = 0, m.width <= m.type.size * 8,
           NEW d \in Cursors, d.members \in {c.members, Append(c.members, m)},
           c.maxSize <= d.maxSize, m.type.size <= d.maxSize, d.maxAlign = c.maxAlign
    PROVE  Fit(d, TRUE, packed)
<1> DEFINE size == m.type.size
           max == d.maxSize
           ms == d.members
<1>1. /\ c \in Cursors /\ UnionCursor(c)
      /\ c.members \in Seq(Members) /\ c.maxSize \in Nat /\ c.maxAlign \in Alignments
  BY DEF Fit, Cursors
<1>2. size \in Nat /\ m.type.align \in Alignments /\ m.width \in Nat BY TypesAre DEF Members
<1>3. max \in Nat BY DEF Cursors
<1>4. EndBit(m) \in Nat /\ EndBit(m) <= size * 8
  BY <1>2 DEF EndBit, FirstBit
<1> HIDE DEF max, ms
<1>5. c.maxSize <= max /\ size <= max /\ d.maxSize = max /\ d.members = ms BY DEF max, ms
<1>6. ASSUME NEW j \in DOMAIN c.members
       PROVE  EndBit(c.members[j]) \in Nat /\ EndBit(c.members[j]) <= max * 8
  <2>1. c.members[j] \in Members BY <1>1
  <2>2. EndBit(c.members[j]) \in Nat BY <2>1, MemberBits
  <2>3. EndBit(c.members[j]) <= c.maxSize * 8 BY <1>1 DEF UnionCursor
  <2> QED BY <1>1, <1>3, <1>5, <2>2, <2>3
<1>7. CASE ms = c.members BY <1>5, <1>6, <1>7 DEF UnionCursor, Fit
<1>8. CASE ms = Append(c.members, m)
  <2> DEFINE n == Len(c.members)
  <2>1. /\ DOMAIN ms = 1 .. n + 1 /\ DOMAIN c.members = 1 .. n /\ n \in Nat
        /\ ms[n + 1] = m
        /\ \A i \in 1 .. n : ms[i] = c.members[i]
    BY <1>1, <1>8, AppendedMember
  <2>2. ASSUME NEW j \in DOMAIN ms PROVE EndBit(ms[j]) <= max * 8
    <3>1. CASE j = n + 1 BY <1>2, <1>3, <1>4, <1>5, <2>1, <3>1
    <3>2. CASE j # n + 1 BY <2>1, <3>2, <1>6
    <3> QED BY <3>1, <3>2
  <2>3. UnionCursor(d) BY <1>5, <2>2 DEF UnionCursor
  <2>4. ASSUME ~packed PROVE Aligned(d.members) /\ AlignsWithin(d.members, d.maxAlign)
    BY <2>4, <1>2, <1>1, <1>5, <1>8, AlignedAppend DEF Fit, Alignments
  <2> QED BY <2>3, <2>4 DEF Fit
<1> QED BY <1>5, <1>7, <1>8

(* One turn of the loop keeps what the cursor satisfies.                   *)
LEMMA MemberPlaced ==
    ASSUME NEW c, NEW spec \in Specifiers, NEW isUnion \in BOOLEAN, NEW packed \in BOOLEAN,
           NEW isLast \in BOOLEAN, Fit(c, isUnion, packed), ~MemberRefused(c, spec, isUnion, isLast)
    PROVE  Fit(WithMember(c, spec, isUnion, packed), isUnion, packed)
<1> DEFINE align == IF packed THEN 1 ELSE spec.type.align
           a == IF align > c.maxAlign THEN align ELSE c.maxAlign
           noted == [c EXCEPT !.maxAlign = IF align > @ THEN align ELSE @]
<1>1. /\ c \in Cursors
      /\ c.members \in Seq(Members) /\ c.bitOffset \in Nat /\ c.maxAlign \in Alignments
  BY DEF Fit, Cursors
<1>2. spec.type.size \in Nat /\ spec.type.align \in Alignments /\ spec.width \in Nat \cup {NoWidth}
  BY SpecifierIs
<1>3. align \in Alignments /\ (~packed => align = spec.type.align) BY <1>2 DEF Alignments
<1>4. a \in Alignments /\ a \in Nat /\ align <= a /\ c.maxAlign <= a
  BY <1>1, <1>3 DEF Alignments
<1>5. noted = [c EXCEPT !.maxAlign = a] OBVIOUS
<1> HIDE DEF a, align
<1>6. noted \in Cursors BY <1>1, <1>4, <1>5 DEF Cursors
<1>7. /\ noted.members = c.members /\ noted.bitOffset = c.bitOffset
      /\ noted.maxSize = c.maxSize /\ noted.maxAlign = a
  BY <1>1, <1>5 DEF Cursors
<1> HIDE DEF noted
<1>8. Fit(noted, isUnion, packed)
  <2>1. ASSUME ~packed PROVE Aligned(c.members) /\ AlignsWithin(c.members, a)
    <3>1. Aligned(c.members) /\ AlignsWithin(c.members, c.maxAlign) BY <2>1 DEF Fit
    <3>2. ASSUME NEW i \in DOMAIN c.members PROVE c.members[i].type.align <= a
      <4>1. c.members[i] \in Members BY <1>1
      <4>2. c.members[i].type \in MemberTypes BY <4>1 DEF Members
      <4>3. c.members[i].type.align \in Nat BY <4>2, TypesAre DEF Alignments
      <4>4. c.members[i].type.align <= c.maxAlign BY <3>1 DEF AlignsWithin
      <4>5. c.maxAlign \in Nat BY <1>1 DEF Alignments
      <4> QED BY <1>4, <4>3, <4>4, <4>5
    <3> QED BY <3>1, <3>2 DEF AlignsWithin
  <2>2. UnionCursor(c) => UnionCursor(noted) BY <1>7 DEF UnionCursor
  <2>3. StructCursor(c) => StructCursor(noted) BY <1>7 DEF StructCursor
  <2> QED BY <1>6, <1>7, <2>1, <2>2, <2>3 DEF Fit
<1>9. ~packed => align = spec.type.align /\ align <= noted.maxAlign BY <1>3, <1>4, <1>7
<1>10. ASSUME spec.width # NoWidth
       PROVE  spec.width \in Nat /\ spec.type.size \in 1 .. 8 /\ spec.width <= spec.type.size * 8
  BY <1>10, SpecifierIs, TypesAre, <1>2 DEF MemberRefused
<1>11. CASE spec.width = NoWidth /\ isUnion
  <2>1. WithMember(c, spec, isUnion, packed) = OrdinaryUnionMember(noted, spec)
    BY <1>11 DEF WithMember, noted, align
  <2>2. Fit(OrdinaryUnionMember(noted, spec), TRUE, packed)
    <3> DEFINE m == Member(spec.name, spec.type, 0, 0, 0)
               ms == Append(noted.members, m)
               max == IF spec.type.size > noted.maxSize THEN spec.type.size ELSE noted.maxSize
               d == OrdinaryUnionMember(noted, spec)
    <3>1. d = [noted EXCEPT !.members = ms, !.maxSize = max] BY DEF OrdinaryUnionMember
    <3>2. 0 \in Nat /\ 0 <= spec.type.size * 8 BY <1>2, <1>10, <1>11
    <3>3. m \in Members BY <3>2, MemberIs
    <3>4. m.type = spec.type /\ m.offset = 0 /\ m.shift = 0 /\ m.width = 0 BY DEF Member
    <3> HIDE DEF m
    <3>5. ms \in {noted.members, Append(noted.members, m)} OBVIOUS
    <3>6. ms \in Seq(Members) BY <1>1, <1>7, <3>3, <3>5, AppendedMember
    <3>7. max \in Nat /\ noted.maxSize <= max /\ spec.type.size <= max
      BY <1>2, <1>6 DEF Cursors
    <3> HIDE DEF ms, max, d
    <3>8. d \in Cursors BY <1>6, <3>1, <3>6, <3>7 DEF Cursors
    <3>9. d.members = ms /\ d.maxSize = max /\ d.maxAlign = noted.maxAlign
      BY <1>6, <3>1 DEF Cursors
    <3>10. ~packed => m.type.align <= noted.maxAlign BY <1>9, <3>4
    <3>11. Fit(noted, TRUE, packed) BY <1>8, <1>11
    <3>12. Fit(d, TRUE, packed)
      BY <3>2, <3>3, <3>4, <3>5, <3>7, <3>8, <3>9, <3>10, <3>11, UnionPlaced
    <3> QED BY <3>12 DEF d
  <2> QED BY <1>11, <2>1, <2>2
<1>12. CASE spec.width # NoWidth /\ isUnion
  <2>1. WithMember(c, spec, isUnion, packed) = BitFieldUnionMember(noted, spec)
    BY <1>12 DEF WithMember, noted, align
  <2>2. Fit(BitFieldUnionMember(noted, spec), TRUE, packed)
    <3> DEFINE m == Member(spec.name, spec.type, 0, spec.width, 0)
               ms == IF spec.width = 0 \/ spec.name = Unnamed THEN noted.members
                     ELSE Append(noted.members, m)
               max == IF spec.type.size > noted.maxSize THEN spec.type.size ELSE noted.maxSize
               d == BitFieldUnionMember(noted, spec)
    <3>1. d = [noted EXCEPT !.members = ms, !.maxSize = max] BY DEF BitFieldUnionMember
    <3>2. spec.width \in Nat /\ spec.width <= spec.type.size * 8 BY <1>2, <1>10, <1>12
    <3>3. m \in Members BY <3>2, MemberIs
    <3>4. m.type = spec.type /\ m.offset = 0 /\ m.shift = 0 /\ m.width = spec.width BY DEF Member
    <3> HIDE DEF m
    <3>5. ms \in {noted.members, Append(noted.members, m)} OBVIOUS
    <3>6. ms \in Seq(Members) BY <1>1, <1>7, <3>3, <3>5, AppendedMember
    <3>7. max \in Nat /\ noted.maxSize <= max /\ spec.type.size <= max
      BY <1>2, <1>6 DEF Cursors
    <3> HIDE DEF ms, max, d
    <3>8. d \in Cursors BY <1>6, <3>1, <3>6, <3>7 DEF Cursors
    <3>9. d.members = ms /\ d.maxSize = max /\ d.maxAlign = noted.maxAlign
      BY <1>6, <3>1 DEF Cursors
    <3>10. ~packed => m.type.align <= noted.maxAlign BY <1>9, <3>4
    <3>11. Fit(noted, TRUE, packed) BY <1>8, <1>12
    <3>12. Fit(d, TRUE, packed)
      BY <3>2, <3>3, <3>4, <3>5, <3>7, <3>8, <3>9, <3>10, <3>11, UnionPlaced
    <3> QED BY <3>12 DEF d
  <2> QED BY <1>12, <2>1, <2>2
<1>13. CASE spec.width = NoWidth /\ ~isUnion
  BY <1>13, <1>8, <1>3, <1>9, OrdinaryStructPlaced DEF WithMember, noted, align
<1>14. CASE spec.width # NoWidth /\ ~isUnion
  BY <1>14, <1>8, <1>3, <1>9, <1>10, BitFieldStructPlaced DEF WithMember, noted, align
<1> QED BY <1>11, <1>12, <1>13, <1>14

-----------------------------------------------------------------------------
(* Completing a record, and taking its members apart again.                *)

LEMMA CompletedHolds ==
    ASSUME NEW c, NEW isUnion \in BOOLEAN, NEW packed \in BOOLEAN, Fit(c, isUnion, packed),
           NEW r, r = RecordType(c.members, isUnion, packed, SizeOf(c, isUnion))
    PROVE  r \in Records /\ Holds(r)
<1> DEFINE ms == c.members
           size == SizeOf(c, isUnion)
           align == AlignmentOf(ms, packed)
           bytes == IF isUnion THEN c.maxSize ELSE (c.bitOffset + 7) \div 8
<1>1. /\ c \in Cursors /\ ms \in Seq(Members) /\ c.bitOffset \in Nat /\ c.maxSize \in Nat
      /\ c.maxAlign \in Alignments
  BY DEF Fit, Cursors
<1>2. bytes \in Nat BY <1>1
<1>3. size \in Nat /\ bytes <= size /\ size % c.maxAlign = 0
  <2>1. size = AlignUp(bytes, c.maxAlign) BY DEF SizeOf
  <2> HIDE DEF bytes, size
  <2> QED BY <1>1, <1>2, <2>1, AlignUpRounds
<1>4. align \in Alignments BY <1>1, StrictestAlignment DEF Alignments
<1>5. r = [kind |-> "record", members |-> ms, isUnion |-> isUnion, packed |-> packed,
           size |-> size, align |-> align, complete |-> TRUE]
  BY DEF RecordType
<1> HIDE DEF size, align
<1>6. r \in Records BY <1>1, <1>3, <1>4, <1>5 DEF Records
<1>7. /\ r.members = ms /\ r.isUnion = isUnion /\ r.packed = packed
      /\ r.size = size /\ r.align = align
  BY <1>5
<1>8. isUnion \/ Apart(ms) BY DEF Fit, StructCursor
<1>9. ASSUME NEW i \in DOMAIN ms PROVE EndBit(ms[i]) <= size * 8
  <2>1. ms[i] \in Members BY <1>1
  <2>2. EndBit(ms[i]) \in Nat BY <2>1, MemberBits
  <2>3. CASE isUnion
    <3>1. EndBit(ms[i]) <= c.maxSize * 8 BY <2>3 DEF Fit, UnionCursor
    <3>2. bytes = c.maxSize BY <2>3
    <3> HIDE DEF bytes
    <3> QED BY <1>1, <1>3, <2>2, <3>1, <3>2
  <2>4. CASE ~isUnion
    <3>1. EndBit(ms[i]) <= c.bitOffset BY <2>4 DEF Fit, StructCursor
    <3>2. bytes \in Nat /\ c.bitOffset <= bytes * 8 BY <1>1, <2>4
    <3> HIDE DEF bytes
    <3> QED BY <1>1, <1>3, <2>2, <3>1, <3>2
  <2> QED BY <2>3, <2>4
<1>10. ASSUME NEW i \in DOMAIN ms, ~packed, ms[i].width = 0
       PROVE  ms[i].offset % ms[i].type.align = 0
  BY <1>10 DEF Fit, Aligned
<1>11. size % align = 0
  <2>1. CASE packed
    <3>1. align = 1 BY <1>1, <2>1, StrictestAlignment DEF align
    <3> QED BY <1>3, <3>1
  <2>2. CASE ~packed
    <3>1. align \in {1} \cup {ms[i].type.align : i \in DOMAIN ms}
      BY <1>1, <2>2, StrictestAlignment DEF align
    <3>2. align <= c.maxAlign BY <1>1, <2>2, <3>1 DEF Alignments, Fit, AlignsWithin
    <3> QED BY <1>1, <1>3, <1>4, <3>2, AlignmentsDivide
  <2> QED BY <2>1, <2>2
<1> QED BY <1>6, <1>7, <1>8, <1>9, <1>10, <1>11 DEF Holds

LEMMA EmptyCursorFits ==
    ASSUME NEW isUnion \in BOOLEAN, NEW packed \in BOOLEAN
    PROVE  Fit(EmptyCursor, isUnion, packed)
BY DEF EmptyCursor, Cursors, Alignments, Fit, UnionCursor, StructCursor, Apart, Aligned,
   AlignsWithin

LEMMA IncompleteIs ==
    ASSUME NEW isUnion \in BOOLEAN
    PROVE  IncompleteRecord(isUnion) \in Records /\ ~IncompleteRecord(isUnion).complete
<1> DEFINE none == <<>>
           align == AlignmentOf(none, FALSE)
<1>1. none \in Seq(Members) OBVIOUS
<1>2. align \in Alignments BY <1>1, StrictestAlignment
<1>3. IncompleteRecord(isUnion)
        = [[kind |-> "record", members |-> none, isUnion |-> isUnion, packed |-> FALSE,
            size |-> 0, align |-> align, complete |-> TRUE] EXCEPT !.complete = FALSE]
  BY Zenon DEF IncompleteRecord, RecordType
<1> HIDE DEF align, none
<1>4. IncompleteRecord(isUnion)
        = [kind |-> "record", members |-> none, isUnion |-> isUnion, packed |-> FALSE,
           size |-> 0, align |-> align, complete |-> FALSE]
  BY <1>3
<1> QED BY <1>1, <1>2, <1>4 DEF Records

(* The members that a record kept are specifiers again.                    *)
LEMMA KeptAreSpecifiers ==
    ASSUME NEW t \in Records
    PROVE  MemberSpecs(t) \in Seq(Specifiers)
<1> DEFINE ms == t.members
           spec(i) == [name |-> ms[i].name, type |-> ms[i].type,
                       width |-> IF ms[i].width = 0 THEN NoWidth ELSE ms[i].width]
<1>1. ms \in Seq(Members) BY DEF Records
<1>2. DOMAIN ms = 1 .. Len(ms) /\ Len(ms) \in Nat BY <1>1
<1>3. ASSUME NEW i \in DOMAIN ms PROVE spec(i) \in Specifiers
  <2>1. ms[i] \in Members BY <1>1
  <2> QED BY <2>1 DEF Members, Specifiers
<1>4. MemberSpecs(t) = [i \in 1 .. Len(ms) |-> spec(i)] BY <1>2 DEF MemberSpecs
<1> HIDE DEF spec, ms
<1>5. [i \in 1 .. Len(ms) |-> spec(i)] \in [1 .. Len(ms) -> Specifiers] BY <1>2, <1>3
<1> QED BY <1>2, <1>4, <1>5

-----------------------------------------------------------------------------
(* The invariant.                                                          *)

LEMMA InitInv == LayoutInit => Inv
BY DeclarationsAssumption, IncompleteIs, EmptyCursorFits DEF LayoutInit, TypeOK, Fit, Inv

LEMMA NextInv == Inv /\ [LayoutNext]_layoutVars => Inv'
<1> SUFFICES ASSUME Inv, [LayoutNext]_layoutVars PROVE Inv'
  OBVIOUS
<1>1. TypeOK /\ Fit(cursor, declared.isUnion, declared.packed) /\ (record.complete => Holds(record))
  BY DEF Inv
<1>2. /\ declared.isUnion \in BOOLEAN /\ declared.packed \in BOOLEAN
      /\ declared.specs \in Seq(Specifiers)
      /\ record \in Records /\ next \in Nat \ {0}
  BY <1>1 DEF TypeOK
<1>3. CASE LayoutMember
  <2> DEFINE spec == declared.specs[next]
             isLast == next = Len(declared.specs)
  <2>1. /\ next <= Len(declared.specs) /\ ~NextRefused
        /\ cursor' = WithMember(cursor, spec, declared.isUnion, declared.packed)
        /\ next' = next + 1 /\ declared' = declared /\ record' = record /\ stage' = stage
    BY <1>3 DEF LayoutMember
  <2>2. spec \in Specifiers BY <1>2, <2>1
  <2>3. ~MemberRefused(cursor, spec, declared.isUnion, isLast) BY <2>1 DEF NextRefused
  <2>4. Fit(cursor', declared.isUnion, declared.packed)
    <3>1. isLast \in BOOLEAN OBVIOUS
    <3> HIDE DEF spec, isLast
    <3>2. Fit(WithMember(cursor, spec, declared.isUnion, declared.packed),
              declared.isUnion, declared.packed)
      BY <1>1, <1>2, <2>2, <2>3, <3>1, MemberPlaced
    <3> QED BY <2>1, <3>2
  <2>5. next' \in Nat \ {0} BY <1>2, <2>1
  <2>6. cursor' \in Cursors BY <2>4 DEF Fit
  <2>7. TypeOK' BY <1>1, <2>1, <2>5, <2>6 DEF TypeOK
  <2> QED BY <1>1, <2>1, <2>4, <2>7 DEF Inv
<1>4. CASE RefuseMember BY <1>4, <1>1 DEF RefuseMember, TypeOK, Inv
<1>5. CASE CompleteRecord
  <2> DEFINE r == RecordType(cursor.members, declared.isUnion, declared.packed,
                             SizeOf(cursor, declared.isUnion))
  <2>1. /\ UNCHANGED <<declared, cursor, next>>
        /\ stage' \in {"complete", "refused"}
        /\ record' = record \/ record' = r
    BY <1>5 DEF CompleteRecord
  <2>2. r \in Records /\ Holds(r) BY <1>1, <1>2, CompletedHolds
  <2> HIDE DEF r
  <2>3. record' \in Records /\ (record'.complete => Holds(record')) BY <1>1, <1>2, <2>1, <2>2
  <2>4. TypeOK' BY <1>1, <2>1, <2>3 DEF TypeOK
  <2> QED BY <1>1, <2>1, <2>3, <2>4 DEF Inv
<1>6. CASE ApplyPacked
  BY <1>6, <1>2, KeptAreSpecifiers, EmptyCursorFits, <1>1 DEF ApplyPacked, Records, Fit,
     TypeOK, Inv
<1>7. CASE UNCHANGED layoutVars BY <1>1, <1>7 DEF TypeOK, layoutVars, Inv
<1> QED BY <1>3, <1>4, <1>5, <1>6, <1>7 DEF LayoutNext

(* The inductive invariant of the layout holds in every reachable state.   *)
THEOREM InvHolds == LayoutSpec => []Inv
BY InitInv, NextInv, PTL DEF LayoutSpec

(* The declaration, the cursor and the record keep their types.            *)
THEOREM TypeCorrect == LayoutSpec => []TypeOK
<1>1. Inv => TypeOK BY DEF Inv
<1> QED BY <1>1, InvHolds, PTL

(* layoutRecordMembers gives the members of a structure bits of their own, *)
(* and a record that has been completed, packed late or not, holds all of  *)
(* its members, each where its type may be, for any declaration.           *)
THEOREM MembersApart == LayoutSpec => []FieldsApart
<1>1. Inv => FieldsApart
  BY DEF Inv, Fit, StructCursor, FieldsApart
<1> QED BY <1>1, InvHolds, PTL

-----------------------------------------------------------------------------
(* The first place that the System V rules allow.                          *)

(* A set of numbers has a least one, by which recursion is well-founded.   *)
LEMMA Least ==
    ASSUME NEW S, S \subseteq Nat, S # {}
    PROVE  \E m \in S : \A k \in S : m <= k
<1> DEFINE R == OpToRel(<, Nat)
<1>1. IsWellFoundedOn(R, Nat) BY NatLessThanWellFounded
<1>2. \A i, j \in Nat : i < j => <<i, j>> \in R BY DEF OpToRel
<1> HIDE DEF R
<1>3. \E m \in S : \A k \in S : ~ (<<k, m>> \in R) BY <1>1, WFMin, Zenon
<1>4. PICK m \in S : \A k \in S : ~ (<<k, m>> \in R) BY <1>3, Zenon
<1>5. \A k \in S : ~ (k < m) BY <1>2, <1>4, Zenon
<1>6. \A k \in S : k \in Nat /\ m \in Nat OBVIOUS
<1> QED BY <1>4, <1>5, <1>6, SMT

(* The first place that is allowed is the one that AbiStart chooses.       *)
LEMMA FirstAllowed ==
    ASSUME NEW after \in Nat, NEW spec \in Specifiers, NEW packed \in BOOLEAN,
           NEW b \in after .. after + 128, AbiAllows(b, spec, packed),
           \A x \in after .. b - 1 : ~AbiAllows(x, spec, packed)
    PROVE  AbiStart(after, spec, packed) = b
<1> DEFINE First(a) == AbiAllows(a, spec, packed) /\ \A x \in after .. a - 1 : ~AbiAllows(x, spec, packed)
           s == AbiStart(after, spec, packed)
<1>1. s = CHOOSE a \in after .. after + 128 : First(a) BY DEF AbiStart
<1>2. First(b) OBVIOUS
<1> HIDE DEF First, s
<1>3. s \in after .. after + 128 /\ First(s) BY <1>1, <1>2
<1>4. AbiAllows(s, spec, packed) /\ \A x \in after .. s - 1 : ~AbiAllows(x, spec, packed)
  BY <1>3 DEF First
<1>5. ~ (b < s) BY <1>3, <1>4
<1>6. ~ (s < b) BY <1>3, <1>4
<1>7. s = b BY <1>3, <1>5, <1>6
<1> QED BY <1>7 DEF s

(* Rounding up gives the first multiple.                                   *)
LEMMA FirstMultiple ==
    ASSUME NEW o \in Nat, NEW a \in Alignments
    PROVE  /\ AlignUp(o, a * 8) \in o .. o + 128 /\ AlignUp(o, a * 8) % (8 * a) = 0
           /\ \A x \in o .. AlignUp(o, a * 8) - 1 : x % (8 * a) # 0
BY DEF AlignUp, Alignments

(* Rounding up to bytes first makes no difference.                         *)
LEMMA BytesFirst ==
    ASSUME NEW o \in Nat, NEW a \in Alignments
    PROVE  AlignUp((o + 7) \div 8, a) * 8 = AlignUp(o, a * 8)
BY DEF AlignUp, Alignments

(* A field lies in one unit if it ends in the unit it begins in.           *)
LEMMA InOneUnit ==
    ASSUME NEW x \in Nat, NEW a \in {1, 2, 4, 8}, NEW w \in 1 .. 8 * a
    PROVE  x \div (8 * a) = (x + w - 1) \div (8 * a) <=> ~ ((x % (a * 8)) + w > a * 8)
OBVIOUS

(* The next unit is the first place for a field that would cross its end.  *)
LEMMA NextUnit ==
    ASSUME NEW o \in Nat, NEW a \in {1, 2, 4, 8}, NEW w \in 1 .. 8 * a,
           (o % (a * 8)) + w > a * 8
    PROVE  /\ (AlignUp(o, a * 8) % (a * 8)) + w <= a * 8
           /\ \A x \in o .. AlignUp(o, a * 8) - 1 : (x % (a * 8)) + w > a * 8
BY DEF AlignUp

(* The places and the members of a declaration, one member at a time.      *)
LEMMA StartsAre ==
    ASSUME NEW decl, Len(decl.specs) \in Nat
    PROVE  \A i \in 1 .. Len(decl.specs) :
               AbiStarts(decl)[i] =
                   IF decl.isUnion THEN 0
                   ELSE AbiStart(IF i = 1 THEN 0
                                 ELSE AbiStarts(decl)[i - 1] + AbiWidth(decl.specs[i - 1]),
                                 decl.specs[i], decl.packed)
<1> DEFINE n == Len(decl.specs)
           Body(f, i) == IF decl.isUnion THEN 0
                         ELSE AbiStart(IF i = 1 THEN 0 ELSE f[i - 1] + AbiWidth(decl.specs[i - 1]),
                                       decl.specs[i], decl.packed)
           Rec(f, k) == f = [i \in 1 .. k |-> Body(f, i)]
           Without == {k \in 0 .. n : ~ \E f : Rec(f, k)}
<1>1. Without = {}
  <2> SUFFICES ASSUME Without # {} PROVE FALSE OBVIOUS
  <2>1. Without \subseteq Nat OBVIOUS
  <2>2. PICK m \in Without : \A k \in Without : m <= k
    <3> HIDE DEF Without
    <3> QED BY <2>1, Least
  <2>3. m \in 0 .. n /\ ~ \E f : Rec(f, m) BY <2>2
  <2>4. m # 0
    <3> DEFINE e == [i \in 1 .. 0 |-> 0]
    <3>1. e = [i \in 1 .. 0 |-> Body(e, i)] OBVIOUS
    <3>2. Rec(e, 0) BY <3>1
    <3> QED BY <2>3, <3>2
  <2>5. m \in 1 .. n /\ m - 1 \in 0 .. n /\ m \in Nat BY <2>3, <2>4
  <2>6. m - 1 \notin Without
    <3> HIDE DEF Without
    <3> QED BY <2>2, <2>5
  <2>7. PICK f : Rec(f, m - 1) BY <2>5, <2>6
  <2> DEFINE g == [i \in 1 .. m |-> IF i < m THEN f[i] ELSE Body(f, m)]
  <2>8. ASSUME NEW i \in 1 .. m PROVE g[i] = Body(g, i)
    <3>1. i # 1 => g[i - 1] = f[i - 1] BY <2>5
    <3>2. Body(g, i) = Body(f, i)
      <4> HIDE DEF g
      <4> QED BY <3>1, Zenon
    <3>3. g[i] = Body(f, i)
      <4> HIDE DEF Body
      <4>1. CASE i < m BY <2>5, <4>1, <2>7
      <4>2. CASE ~ (i < m) BY <2>5, <4>2
      <4> QED BY <4>1, <4>2
    <3> QED BY <3>2, <3>3
  <2>9. Rec(g, m)
    <3>1. g = [i \in 1 .. m |-> g[i]] OBVIOUS
    <3> HIDE DEF g, Body
    <3> QED BY <2>8, <3>1
  <2> QED BY <2>3, <2>9
<1>2. \E f : Rec(f, n)
  <2>1. n \notin Without /\ n \in 0 .. n BY <1>1
  <2> HIDE DEF Rec
  <2> QED BY <2>1
<1>3. AbiStarts(decl) = CHOOSE f : Rec(f, n) BY DEF AbiStarts
<1>4. Rec(AbiStarts(decl), n)
  <2> HIDE DEF Rec
  <2> QED BY <1>2, <1>3
<1>5. \A i \in 1 .. n : AbiStarts(decl)[i] = Body(AbiStarts(decl), i)
  <2> HIDE DEF Body
  <2> QED BY <1>4
<1> QED BY <1>5

LEMMA PlacedAre ==
    ASSUME NEW decl, Len(decl.specs) \in Nat
    PROVE  \A k \in 0 .. Len(decl.specs) :
               AbiPlaced(decl)[k] =
                   IF k = 0 THEN <<>>
                   ELSE IF IsPlaced(decl.specs[k])
                        THEN Append(AbiPlaced(decl)[k - 1], AbiExtents(decl)[k])
                   ELSE AbiPlaced(decl)[k - 1]
<1> DEFINE n == Len(decl.specs)
           Body(f, k) == IF k = 0 THEN <<>>
                         ELSE IF IsPlaced(decl.specs[k]) THEN Append(f[k - 1], AbiExtents(decl)[k])
                         ELSE f[k - 1]
           Rec(f, m) == f = [k \in 0 .. m |-> Body(f, k)]
           Without == {m \in 0 .. n : ~ \E f : Rec(f, m)}
<1>1. Without = {}
  <2> SUFFICES ASSUME Without # {} PROVE FALSE OBVIOUS
  <2>1. Without \subseteq Nat OBVIOUS
  <2>2. PICK m \in Without : \A k \in Without : m <= k
    <3> HIDE DEF Without
    <3> QED BY <2>1, Least
  <2>3. m \in 0 .. n /\ ~ \E f : Rec(f, m) BY <2>2
  <2>4. m # 0
    <3> DEFINE e == [k \in 0 .. 0 |-> <<>>]
    <3>1. \A k \in 0 .. 0 : Body(e, k) = <<>> OBVIOUS
    <3>2. e = [k \in 0 .. 0 |-> Body(e, k)]
      <4> HIDE DEF Body
      <4> QED BY <3>1
    <3>3. Rec(e, 0) BY <3>2
    <3> HIDE DEF Rec
    <3> QED BY <2>3, <3>3
  <2>5. m \in 1 .. n /\ m - 1 \in 0 .. n /\ m \in Nat BY <2>3, <2>4
  <2>6. m - 1 \notin Without
    <3> HIDE DEF Without
    <3> QED BY <2>2, <2>5
  <2>7. PICK f : Rec(f, m - 1) BY <2>5, <2>6
  <2> DEFINE g == [k \in 0 .. m |-> IF k < m THEN f[k] ELSE Body(f, m)]
  <2>8. ASSUME NEW k \in 0 .. m PROVE g[k] = Body(g, k)
    <3>1. k # 0 => g[k - 1] = f[k - 1] BY <2>5
    <3>2. Body(g, k) = Body(f, k)
      <4> HIDE DEF g
      <4> QED BY <3>1, Zenon
    <3>3. g[k] = Body(f, k)
      <4> HIDE DEF Body
      <4>1. CASE k < m BY <2>5, <4>1, <2>7
      <4>2. CASE ~ (k < m) BY <2>5, <4>2
      <4> QED BY <4>1, <4>2
    <3> QED BY <3>2, <3>3
  <2>9. Rec(g, m)
    <3>1. g = [k \in 0 .. m |-> g[k]] OBVIOUS
    <3> HIDE DEF g, Body
    <3> QED BY <2>8, <3>1
  <2> HIDE DEF Rec
  <2> QED BY <2>3, <2>9
<1>2. \E f : Rec(f, n)
  <2>1. n \notin Without /\ n \in 0 .. n BY <1>1
  <2> HIDE DEF Rec
  <2> QED BY <2>1
<1>3. AbiPlaced(decl) = CHOOSE f : Rec(f, n) BY DEF AbiPlaced
<1>4. Rec(AbiPlaced(decl), n)
  <2> HIDE DEF Rec
  <2> QED BY <1>2, <1>3
<1>5. \A k \in 0 .. n : AbiPlaced(decl)[k] = Body(AbiPlaced(decl), k)
  <2> HIDE DEF Body
  <2> QED BY <1>4
<1> QED BY <1>5

-----------------------------------------------------------------------------
(* The invariant of the layout of the host.                                *)

DeclarationsRead == [isUnion : BOOLEAN, packed : BOOLEAN, specs : Seq(Specifiers)]

IsMaximum(a, S) == a \in S /\ \A b \in S : b <= a

MemberExtents(members) == [k \in DOMAIN members |-> <<FirstBit(members[k]), EndBit(members[k])>>]

(* A bit-field that has not been refused.                                  *)
FieldOk(spec) ==
    spec.width # NoWidth =>
        /\ spec.type.kind = "primitive" /\ spec.type.class = "Integer"
        /\ spec.type.size <= 8 /\ spec.width <= spec.type.size * 8
        /\ spec.width = 0 => spec.name = Unnamed

Sizes(decl, n) == {0} \cup {decl.specs[i].type.size : i \in 1 .. n}

Aligns(decl, n) == {1} \cup {decl.specs[i].type.align : i \in 1 .. n}

PlacedAligns(decl, n) ==
    {decl.specs[i].type.align : i \in {j \in 1 .. n : IsPlaced(decl.specs[j])}}

(* After n members the cursor is where the host is.                        *)
AsHost(c, decl, n) ==
    /\ MemberExtents(c.members) = AbiPlaced(decl)[n]
    /\ ~decl.isUnion =>
           /\ c.bitOffset = IF n = 0 THEN 0 ELSE AbiExtents(decl)[n][2]
           /\ \A i \in 1 .. n : AbiExtents(decl)[i][2] \in 0 .. c.bitOffset
    /\ decl.isUnion => IsMaximum(c.maxSize, Sizes(decl, n))
    /\ IF decl.packed THEN c.maxAlign = 1 ELSE IsMaximum(c.maxAlign, Aligns(decl, n))
    /\ {c.members[k].type.align : k \in DOMAIN c.members} = PlacedAligns(decl, n)
    /\ \A i \in 1 .. n : FieldOk(decl.specs[i])

(* Between members the cursor is at the host's place.                      *)
HostInv ==
    stage = "members" =>
        /\ next - 1 \in 0 .. Len(declared.specs)
        /\ ~HostDiffers(declared) => AsHost(cursor, declared, next - 1)

LEMMA FieldIs ==
    ASSUME NEW spec \in Specifiers, FieldOk(spec), spec.width # NoWidth
    PROVE  /\ spec.type.size = spec.type.align /\ spec.type.size \in {1, 2, 4, 8}
           /\ spec.width \in 0 .. 8 * spec.type.size
BY SpecifierIs, TypesAre DEF FieldOk, Alignments

(* Where the code puts an ordinary member of a structure.                  *)
LEMMA OrdinaryStart ==
    ASSUME NEW after \in Nat, NEW spec \in Specifiers, NEW packed \in BOOLEAN,
           spec.width = NoWidth,
           NEW align, align = IF packed THEN 1 ELSE spec.type.align
    PROVE  AbiStart(after, spec, packed) = AlignUp((after + 7) \div 8, align) * 8
<1> DEFINE b == AlignUp(after, align * 8)
<1>1. align \in Alignments BY SpecifierIs DEF Alignments
<1>2. /\ b \in after .. after + 128 /\ b % (8 * align) = 0
      /\ \A x \in after .. b - 1 : x % (8 * align) # 0
  BY <1>1, FirstMultiple
<1>3. AlignUp((after + 7) \div 8, align) * 8 = b BY <1>1, BytesFirst
<1> HIDE DEF b
<1>4. \A x : AbiAllows(x, spec, packed) <=> x % (8 * align) = 0 BY DEF AbiAllows, NoWidth
<1>5. AbiStart(after, spec, packed) = b BY <1>2, <1>4, FirstAllowed
<1> QED BY <1>3, <1>5

(* Where it puts a bit-field, or goes on after one that is empty.          *)
LEMMA FieldStart ==
    ASSUME NEW after \in Nat, NEW spec \in Specifiers, FieldOk(spec), spec.width # NoWidth
    PROVE  AbiStart(after, spec, FALSE) = BitFieldStart(after, spec, spec.type.align)
<1> DEFINE a == spec.type.size  w == spec.width
           up == AlignUp(after, a * 8)
           start == BitFieldStart(after, spec, spec.type.align)
<1>1. spec.type.align = a /\ a \in {1, 2, 4, 8} /\ w \in 0 .. 8 * a BY FieldIs
<1>2. a \in Alignments BY <1>1 DEF Alignments
<1>3. /\ up \in after .. after + 128 /\ up % (8 * a) = 0
      /\ \A x \in after .. up - 1 : x % (8 * a) # 0
  BY <1>2, FirstMultiple
<1>4. start = IF w = 0 \/ (after % (a * 8)) + w > a * 8 THEN up ELSE after
  BY <1>1 DEF BitFieldStart
<1>5. CASE w = 0
  <2>1. \A x : AbiAllows(x, spec, FALSE) <=> x % (8 * a) = 0
    BY <1>1, <1>5 DEF AbiAllows, NoWidth
  <2>2. start = up BY <1>4, <1>5
  <2> HIDE DEF up, start, a, w
  <2>3. AbiStart(after, spec, FALSE) = up BY <1>3, <2>1, FirstAllowed
  <2> QED BY <2>2, <2>3 DEF start
<1>6. CASE w # 0
  <2>1. w \in 1 .. 8 * a BY <1>1, <1>6
  <2>2. \A x \in Nat : AbiAllows(x, spec, FALSE) <=> ~ ((x % (a * 8)) + w > a * 8)
    <3> TAKE x \in Nat
    <3>1. AbiAllows(x, spec, FALSE) <=> x \div (8 * a) = (x + w - 1) \div (8 * a)
      BY <1>6 DEF AbiAllows
    <3> HIDE DEF a, w
    <3> QED BY <1>1, <2>1, <3>1, InOneUnit
  <2> HIDE DEF a, w
  <2>3. CASE (after % (a * 8)) + w > a * 8
    <3>1. /\ ~ ((up % (a * 8)) + w > a * 8)
          /\ \A x \in after .. up - 1 : (x % (a * 8)) + w > a * 8
      <4>1. /\ (up % (a * 8)) + w <= a * 8
            /\ \A x \in after .. up - 1 : (x % (a * 8)) + w > a * 8
        BY <1>1, <2>1, <2>3, NextUnit
      <4>2. up % (a * 8) \in Nat /\ w \in Nat /\ a \in Nat
        <5> HIDE DEF up
        <5>1. up \in Nat BY <1>3
        <5> QED BY <1>1, <2>1, <5>1
      <4> HIDE DEF up
      <4> QED BY <4>1, <4>2
    <3>2. start = up BY <1>4, <2>3
    <3> HIDE DEF up, start
    <3>3. up \in Nat /\ \A x \in after .. up - 1 : x \in Nat BY <1>3
    <3>4. AbiAllows(up, spec, FALSE) /\ \A x \in after .. up - 1 : ~AbiAllows(x, spec, FALSE)
      BY <2>2, <3>1, <3>3
    <3>5. AbiStart(after, spec, FALSE) = up BY <1>3, <3>4, FirstAllowed
    <3> QED BY <3>2, <3>5 DEF start
  <2>4. CASE ~ ((after % (a * 8)) + w > a * 8)
    <3>1. AbiAllows(after, spec, FALSE) BY <2>2, <2>4
    <3>2. after \in after .. after + 128 /\ after .. after - 1 = {} OBVIOUS
    <3>3. AbiStart(after, spec, FALSE) = after BY <3>1, <3>2, FirstAllowed
    <3>4. start = after BY <1>4, <1>6, <2>4
    <3> QED BY <3>3, <3>4
  <2> QED BY <2>3, <2>4
<1> QED BY <1>5, <1>6

(* A packed bit-field that lies in one unit of its type begins at once.    *)
LEMMA PackedFieldStart ==
    ASSUME NEW after \in Nat, NEW spec \in Specifiers, FieldOk(spec),
           spec.width # NoWidth, spec.width # 0
    PROVE  /\ AbiStart(after, spec, TRUE) = after
           /\ after \div (8 * spec.type.size) = (after + spec.width - 1) \div (8 * spec.type.size)
                  => BitFieldStart(after, spec, 1) = after
<1> DEFINE a == spec.type.size  w == spec.width
<1>1. a \in {1, 2, 4, 8} /\ w \in 1 .. 8 * a BY FieldIs
<1>2. AbiAllows(after, spec, TRUE) BY DEF AbiAllows
<1>3. after \in after .. after + 128 /\ after .. after - 1 = {} OBVIOUS
<1>4. AbiStart(after, spec, TRUE) = after BY <1>2, <1>3, FirstAllowed
<1>5. BitFieldStart(after, spec, 1)
        = IF w = 0 \/ (after % (a * 8)) + w > a * 8 THEN AlignUp(after, 1 * 8) ELSE after
  BY DEF BitFieldStart
<1> HIDE DEF a, w
<1>6. after \div (8 * a) = (after + w - 1) \div (8 * a) => ~ ((after % (a * 8)) + w > a * 8)
  BY <1>1, InOneUnit
<1>7. w # 0 BY <1>1
<1> QED BY <1>4, <1>5, <1>6, <1>7 DEF a, w

(* A bit-field that is not refused fits its type.                          *)
LEMMA NotRefused ==
    ASSUME NEW spec \in Specifiers, NEW c, NEW isUnion, NEW isLast,
           ~MemberRefused(c, spec, isUnion, isLast)
    PROVE  FieldOk(spec)
BY SpecifierIs DEF FieldOk, MemberRefused

(* The member that a specifier becomes, if it becomes one.                 *)
PlacedAt(members, before, spec, first, end) ==
    IF IsPlaced(spec)
    THEN \E m \in Members :
             /\ members = Append(before, m) /\ m.type = spec.type
             /\ FirstBit(m) = first /\ EndBit(m) = end
    ELSE members = before

NotedAlign(c, align) == IF align > c.maxAlign THEN align ELSE c.maxAlign

LEMMA NotedCursor ==
    ASSUME NEW c \in Cursors, NEW align \in Alignments
    PROVE  LET noted == [c EXCEPT !.maxAlign = IF align > @ THEN align ELSE @]
           IN  /\ noted \in Cursors /\ noted.maxAlign = NotedAlign(c, align)
               /\ noted.members = c.members /\ noted.bitOffset = c.bitOffset
               /\ noted.maxSize = c.maxSize
BY DEF Cursors, NotedAlign

(* A packed bit-field that does not lie across a unit of its type.         *)
InUnit(spec, start) ==
    /\ spec.width # 0
    /\ start \div (8 * spec.type.size)
         = ((start + AbiWidth(spec)) - 1) \div (8 * spec.type.size)

(* A member of a structure gets the bits that the host gives it.           *)
LEMMA StructStep ==
    ASSUME NEW c \in Cursors, NEW spec \in Specifiers, NEW packed \in BOOLEAN, FieldOk(spec),
           packed /\ spec.width # NoWidth => InUnit(spec, AbiStart(c.bitOffset, spec, packed))
    PROVE  LET d == WithMember(c, spec, FALSE, packed)
               start == AbiStart(c.bitOffset, spec, packed)
               align == IF packed THEN 1 ELSE spec.type.align
           IN  /\ start \in Nat /\ start >= c.bitOffset
               /\ d.bitOffset = start + AbiWidth(spec)
               /\ d.maxAlign = NotedAlign(c, align)
               /\ PlacedAt(d.members, c.members, spec, start, start + AbiWidth(spec))
<1> DEFINE align == IF packed THEN 1 ELSE spec.type.align
           start == AbiStart(c.bitOffset, spec, packed)
           noted == [c EXCEPT !.maxAlign = IF align > @ THEN align ELSE @]
           d == WithMember(c, spec, FALSE, packed)
           size == spec.type.size
           w == spec.width
<1>1. align \in Alignments BY SpecifierIs DEF Alignments
<1>2. /\ noted \in Cursors /\ noted.maxAlign = NotedAlign(c, align)
      /\ noted.members = c.members /\ noted.bitOffset = c.bitOffset
  BY <1>1, NotedCursor
<1>3. c.bitOffset \in Nat /\ c.members \in Seq(Members) BY DEF Cursors
<1>4. size \in Nat BY SpecifierIs
<1>5. CASE w = NoWidth
  <2> DEFINE offset == AlignUp((c.bitOffset + 7) \div 8, align)
             m == Member(spec.name, spec.type, offset, 0, 0)
  <2>1. d = OrdinaryStructMember(noted, spec, align) BY <1>5 DEF WithMember
  <2>2. start = offset * 8 BY <1>3, <1>5, OrdinaryStart
  <2>3. offset \in Nat /\ offset * 8 >= c.bitOffset
    <3>1. (c.bitOffset + 7) \div 8 \in Nat /\ ((c.bitOffset + 7) \div 8) * 8 >= c.bitOffset BY <1>3
    <3> DEFINE whole == (c.bitOffset + 7) \div 8
    <3>2. whole \in Nat /\ whole * 8 >= c.bitOffset BY <3>1
    <3> HIDE DEF whole
    <3>3. AlignUp(whole, align) \in Nat /\ AlignUp(whole, align) >= whole BY <1>1, <3>2, AlignUpRounds
    <3>4. AlignUp(whole, align) * 8 >= c.bitOffset BY <1>3, <3>2, <3>3
    <3> QED BY <3>3, <3>4 DEF whole
  <2>4. d = [noted EXCEPT !.members = Append(noted.members, m), !.bitOffset = (offset + size) * 8]
    BY <1>2, <2>1 DEF OrdinaryStructMember
  <2> HIDE DEF offset
  <2>5. m \in Members /\ m.type = spec.type /\ FirstBit(m) = offset * 8
        /\ EndBit(m) = (offset + size) * 8
    BY <1>4, <2>3, MemberIs DEF Member, FirstBit, EndBit
  <2>6. AbiWidth(spec) = 8 * size BY <1>5 DEF AbiWidth
  <2>7. (offset + size) * 8 = start + AbiWidth(spec)
    BY <1>4, <2>2, <2>3, <2>6
  <2> HIDE DEF m, noted, d, size
  <2>8. /\ d.bitOffset = (offset + size) * 8 /\ d.maxAlign = noted.maxAlign
        /\ d.members = Append(c.members, m)
    BY <1>2, <2>4 DEF Cursors
  <2>9. IsPlaced(spec) BY <1>5 DEF IsPlaced, w
  <2>10. PlacedAt(d.members, c.members, spec, start, start + AbiWidth(spec))
    BY <2>2, <2>5, <2>7, <2>8, <2>9, Zenon DEF PlacedAt
  <2>11. start \in Nat /\ start >= c.bitOffset BY <2>2, <2>3
  <2> QED BY <1>2, <2>7, <2>8, <2>10, <2>11 DEF d
<1>6. CASE w # NoWidth
  <2> DEFINE unit == size * 8
             m == Member(spec.name, spec.type, (start \div unit) * size, w, start % unit)
  <2>1. d = BitFieldStructMember(noted, spec, align) BY <1>6 DEF WithMember
  <2>2. size = spec.type.align /\ size \in {1, 2, 4, 8} /\ w \in 0 .. 8 * size BY <1>6, FieldIs
  <2>3. start = BitFieldStart(c.bitOffset, spec, align)
    <3>1. CASE packed
      <4>1. packed = TRUE /\ align = 1 /\ w # 0 BY <1>6, <3>1 DEF InUnit
      <4>2. start = c.bitOffset BY <1>3, <1>6, <4>1, PackedFieldStart
      <4>3. start \div (8 * size) = ((start + w) - 1) \div (8 * size)
        BY <1>6, <4>1 DEF AbiWidth, InUnit
      <4>4. (start + w) - 1 = start + w - 1 BY <1>3, <2>2, <4>2
      <4>5. start \div (8 * size) = (start + w - 1) \div (8 * size)
        <5> HIDE DEF size, w
        <5> QED BY <4>3, <4>4, Zenon
      <4>6. BitFieldStart(c.bitOffset, spec, 1) = c.bitOffset
        BY <1>3, <1>6, <4>1, <4>2, <4>5, PackedFieldStart
      <4> QED BY <4>1, <4>2, <4>6
    <3>2. CASE ~packed BY <3>2, <1>3, <1>6, FieldStart
    <3> QED BY <3>1, <3>2
  <2>4. start \in Nat /\ start >= c.bitOffset
    <3>1. AlignUp(c.bitOffset, align * 8) \in Nat /\ AlignUp(c.bitOffset, align * 8) >= c.bitOffset
      BY <1>1, <1>3, AlignUpRounds
    <3>2. start = AlignUp(c.bitOffset, align * 8) \/ start = c.bitOffset
      BY <2>3 DEF BitFieldStart
    <3> QED BY <1>3, <3>1, <3>2
  <2>5. BitFieldStart(noted.bitOffset, spec, align) = start BY <1>2, <2>3
  <2>6. d = [noted EXCEPT !.members = IF w = 0 \/ spec.name = Unnamed THEN @ ELSE Append(@, m),
                          !.bitOffset = start + w]
    BY <2>1, <2>5 DEF BitFieldStructMember
  <2>7. /\ (start \div unit) * size \in Nat /\ start % unit \in Nat
        /\ ((start \div unit) * size) * 8 + (start % unit) = start
    <3> HIDE DEF size
    <3>1. size \in 1 .. 8 BY <2>2
    <3> QED BY <2>4, <3>1, UnitAndShift
  <2>8. w \in Nat BY <2>2
  <2>9. m \in Members /\ m.type = spec.type BY <2>7, <2>8, MemberIs DEF Member
  <2>10. FirstBit(m) = start /\ (w # 0 => EndBit(m) = start + w)
    <3> DEFINE at == (start \div unit) * size  shift == start % unit
    <3>1. at \in Nat /\ shift \in Nat /\ at * 8 + shift = start BY <2>7
    <3>2. m = Member(spec.name, spec.type, at, w, shift) OBVIOUS
    <3> HIDE DEF at, shift, m
    <3>3. m.offset = at /\ m.shift = shift /\ m.width = w BY <3>2 DEF Member
    <3> QED BY <3>1, <3>3 DEF FirstBit, EndBit
  <2> HIDE DEF m, noted, d, size, unit
  <2>11. /\ d.bitOffset = start + w /\ d.maxAlign = noted.maxAlign
         /\ d.members = IF w = 0 \/ spec.name = Unnamed THEN c.members ELSE Append(c.members, m)
    BY <1>2, <2>6 DEF Cursors
  <2>12. AbiWidth(spec) = w BY <1>6 DEF AbiWidth
  <2>13. IsPlaced(spec) => w # 0 /\ spec.name # Unnamed
    BY <1>6 DEF IsPlaced, FieldOk
  <2>14. ~IsPlaced(spec) => w = 0 \/ spec.name = Unnamed BY <1>6 DEF IsPlaced
  <2>15. CASE IsPlaced(spec)
    BY <2>10, <2>11, <2>12, <2>13, <2>15, <2>9, <1>2, <2>4 DEF PlacedAt, d
  <2>16. CASE ~IsPlaced(spec) BY <2>11, <2>14, <2>16, <1>2, <2>4, <2>12 DEF PlacedAt, d
  <2> QED BY <2>15, <2>16
<1> QED BY <1>5, <1>6

(* So does a member of a union, which grows to its largest member.         *)
LEMMA UnionStep ==
    ASSUME NEW c \in Cursors, NEW spec \in Specifiers, NEW packed \in BOOLEAN, FieldOk(spec),
           NEW align, align = IF packed THEN 1 ELSE spec.type.align
    PROVE  LET d == WithMember(c, spec, TRUE, packed)
           IN  /\ d.maxSize = IF spec.type.size > c.maxSize THEN spec.type.size ELSE c.maxSize
               /\ d.maxAlign = NotedAlign(c, align)
               /\ PlacedAt(d.members, c.members, spec, 0, AbiWidth(spec))
<1> DEFINE noted == [c EXCEPT !.maxAlign = IF align > @ THEN align ELSE @]
           d == WithMember(c, spec, TRUE, packed)
           size == spec.type.size
           w == spec.width
           max == IF size > c.maxSize THEN size ELSE c.maxSize
<1>1. align \in Alignments BY SpecifierIs DEF Alignments
<1>2. /\ noted \in Cursors /\ noted.maxAlign = NotedAlign(c, align)
      /\ noted.members = c.members /\ noted.maxSize = c.maxSize
  BY <1>1, NotedCursor
<1>3. c.members \in Seq(Members) BY DEF Cursors
<1>4. size \in Nat BY SpecifierIs
<1>5. CASE w = NoWidth
  <2> DEFINE m == Member(spec.name, spec.type, 0, 0, 0)
  <2>1. d = OrdinaryUnionMember(noted, spec) BY <1>5 DEF WithMember
  <2>2. d = [noted EXCEPT !.members = Append(noted.members, m), !.maxSize = max]
    BY <1>2, <2>1 DEF OrdinaryUnionMember
  <2>3. m \in Members /\ m.type = spec.type /\ FirstBit(m) = 0 /\ EndBit(m) = size * 8
    BY <1>4, MemberIs DEF Member, FirstBit, EndBit
  <2>4. AbiWidth(spec) = size * 8 BY <1>4, <1>5 DEF AbiWidth
  <2>5. IsPlaced(spec) BY <1>5 DEF IsPlaced
  <2> HIDE DEF m, noted, d, size, max
  <2>6. d.maxSize = max /\ d.maxAlign = noted.maxAlign /\ d.members = Append(c.members, m)
    BY <1>2, <2>2 DEF Cursors
  <2>7. PlacedAt(d.members, c.members, spec, 0, AbiWidth(spec))
    BY <2>3, <2>4, <2>5, <2>6, Zenon DEF PlacedAt
  <2> QED BY <1>2, <2>6, <2>7 DEF d, max, size
<1>6. CASE w # NoWidth
  <2> DEFINE m == Member(spec.name, spec.type, 0, w, 0)
  <2>1. d = BitFieldUnionMember(noted, spec) BY <1>6 DEF WithMember
  <2>2. d = [noted EXCEPT !.members = IF w = 0 \/ spec.name = Unnamed THEN noted.members
                                      ELSE Append(noted.members, m),
                          !.maxSize = max]
    BY <1>2, <2>1 DEF BitFieldUnionMember
  <2>3. w \in Nat BY <1>6, SpecifierIs
  <2>4. m \in Members /\ m.type = spec.type /\ FirstBit(m) = 0 /\ (w # 0 => EndBit(m) = w)
    BY <2>3, MemberIs DEF Member, FirstBit, EndBit
  <2>5. AbiWidth(spec) = w BY <1>6 DEF AbiWidth
  <2>6. IsPlaced(spec) => w # 0 /\ spec.name # Unnamed
    BY <1>6 DEF IsPlaced, FieldOk
  <2>7. ~IsPlaced(spec) => w = 0 \/ spec.name = Unnamed BY <1>6 DEF IsPlaced
  <2> HIDE DEF m, noted, d, size, max
  <2>8. /\ d.maxSize = max /\ d.maxAlign = noted.maxAlign
        /\ d.members = IF w = 0 \/ spec.name = Unnamed THEN c.members ELSE Append(c.members, m)
    BY <1>2, <2>2 DEF Cursors
  <2>9. CASE IsPlaced(spec) BY <2>4, <2>5, <2>6, <2>8, <2>9, <1>2 DEF PlacedAt, d, max, size
  <2>10. CASE ~IsPlaced(spec) BY <2>7, <2>8, <2>10, <1>2 DEF PlacedAt, d, max, size
  <2> QED BY <2>9, <2>10
<1> QED BY <1>5, <1>6

LEMMA MaximumGrows ==
    ASSUME NEW S, S \subseteq Nat, NEW a, IsMaximum(a, S), NEW b \in Nat
    PROVE  IsMaximum(IF b > a THEN b ELSE a, S \cup {b})
BY DEF IsMaximum

(* The host's place for member n + 1, from where it is after n.            *)
LEMMA HostStarts ==
    ASSUME NEW decl \in DeclarationsRead,
           NEW n \in Nat, n < Len(decl.specs), NEW c \in Cursors, AsHost(c, decl, n)
    PROVE  LET start == AbiStarts(decl)[n + 1]
           IN  /\ AbiExtents(decl)[n + 1] = <<start, start + AbiWidth(decl.specs[n + 1])>>
               /\ AbiPlaced(decl)[n + 1] = IF IsPlaced(decl.specs[n + 1])
                                           THEN Append(AbiPlaced(decl)[n], AbiExtents(decl)[n + 1])
                                           ELSE AbiPlaced(decl)[n]
               /\ decl.isUnion => start = 0
               /\ ~decl.isUnion => start = AbiStart(c.bitOffset, decl.specs[n + 1], decl.packed)
<1> DEFINE len == Len(decl.specs)
           starts == AbiStarts(decl)
<1>1. len \in Nat BY DEF DeclarationsRead
<1>2. n + 1 \in 1 .. len /\ n + 1 \in 0 .. len /\ (n + 1) - 1 = n /\ n + 1 # 0 BY <1>1
<1>3. \A i \in 1 .. len : AbiExtents(decl)[i] = <<starts[i], starts[i] + AbiWidth(decl.specs[i])>>
  BY DEF AbiExtents
<1>4. AbiPlaced(decl)[n + 1] = IF IsPlaced(decl.specs[n + 1])
                               THEN Append(AbiPlaced(decl)[n], AbiExtents(decl)[n + 1])
                               ELSE AbiPlaced(decl)[n]
  BY <1>1, <1>2, PlacedAre
<1>5. starts[n + 1] = IF decl.isUnion THEN 0
                      ELSE AbiStart(IF n + 1 = 1 THEN 0 ELSE starts[n] + AbiWidth(decl.specs[n]),
                                    decl.specs[n + 1], decl.packed)
  BY <1>1, <1>2, StartsAre
<1>6. ASSUME ~decl.isUnion
      PROVE  (IF n + 1 = 1 THEN 0 ELSE starts[n] + AbiWidth(decl.specs[n])) = c.bitOffset
  <2>1. c.bitOffset = IF n = 0 THEN 0 ELSE AbiExtents(decl)[n][2] BY <1>6 DEF AsHost
  <2>2. CASE n = 0 BY <2>1, <2>2
  <2>3. CASE n # 0
    <3>1. n \in 1 .. len /\ n + 1 # 1 BY <1>1, <1>2, <2>3
    <3>2. AbiExtents(decl)[n] = <<starts[n], starts[n] + AbiWidth(decl.specs[n])>> BY <1>3, <3>1
    <3> HIDE DEF starts
    <3>3. AbiExtents(decl)[n][2] = starts[n] + AbiWidth(decl.specs[n]) BY <3>2
    <3> QED BY <2>1, <2>3, <3>1, <3>3
  <2> QED BY <2>2, <2>3
<1> HIDE DEF len
<1>7. ~decl.isUnion => starts[n + 1] = AbiStart(c.bitOffset, decl.specs[n + 1], decl.packed)
  BY <1>5, <1>6
<1>8. decl.isUnion => starts[n + 1] = 0 BY <1>5
<1> QED BY <1>2, <1>3, <1>4, <1>7, <1>8

(* What a member that is placed, or not, does to the lists of members.     *)
LEMMA PlacedGrows ==
    ASSUME NEW ms, NEW before \in Seq(Members), NEW spec, NEW first, NEW end,
           PlacedAt(ms, before, spec, first, end)
    PROVE  /\ MemberExtents(ms) = IF IsPlaced(spec) THEN Append(MemberExtents(before), <<first, end>>)
                                  ELSE MemberExtents(before)
           /\ {ms[k].type.align : k \in DOMAIN ms}
                = {before[k].type.align : k \in DOMAIN before}
                      \cup (IF IsPlaced(spec) THEN {spec.type.align} ELSE {})
<1>1. CASE ~IsPlaced(spec) BY <1>1 DEF PlacedAt
<1>2. CASE IsPlaced(spec)
  <2>1. PICK m \in Members : /\ ms = Append(before, m) /\ m.type = spec.type
                             /\ FirstBit(m) = first /\ EndBit(m) = end
    BY <1>2 DEF PlacedAt
  <2> DEFINE n == Len(before)
  <2>2. /\ DOMAIN ms = 1 .. n + 1 /\ DOMAIN before = 1 .. n /\ n \in Nat
        /\ ms[n + 1] = m
        /\ \A i \in 1 .. n : ms[i] = before[i]
    BY <2>1, AppendedMember
  <2> HIDE DEF n
  <2>3. MemberExtents(ms) = Append(MemberExtents(before), <<first, end>>)
    <3> DEFINE xs == MemberExtents(before)
               Pair(k) == <<FirstBit(ms[k]), EndBit(ms[k])>>
    <3>1. xs = [k \in 1 .. n |-> <<FirstBit(before[k]), EndBit(before[k])>>]
      BY <2>2 DEF MemberExtents
    <3>2. \A k \in 1 .. n : xs[k] = Pair(k) BY <2>2, <3>1
    <3>3. Pair(n + 1) = <<first, end>> BY <2>1, <2>2
    <3>4. MemberExtents(ms) = [k \in 1 .. n + 1 |-> Pair(k)] BY <2>2 DEF MemberExtents
    <3>5. xs \in Seq({Pair(k) : k \in 1 .. n}) /\ Len(xs) = n
      <4> HIDE DEF Pair
      <4>1. xs = [k \in 1 .. n |-> Pair(k)] BY <3>1, <3>2
      <4> HIDE DEF xs
      <4> QED BY <2>2, <4>1
    <3> HIDE DEF xs, Pair
    <3>6. Append(xs, <<first, end>>) = [k \in 1 .. n + 1 |-> IF k = n + 1 THEN <<first, end>> ELSE xs[k]]
      BY <2>2, <3>5
    <3>7. \A k \in 1 .. n + 1 : Pair(k) = IF k = n + 1 THEN <<first, end>> ELSE xs[k]
      BY <2>2, <3>2, <3>3
    <3>8. MemberExtents(ms) = Append(xs, <<first, end>>) BY <3>4, <3>6, <3>7
    <3> QED BY <3>8 DEF xs
  <2>4. {ms[k].type.align : k \in DOMAIN ms}
          = {before[k].type.align : k \in DOMAIN before} \cup {spec.type.align}
    BY <2>1, <2>2
  <2> QED BY <1>2, <2>3, <2>4
<1> QED BY <1>1, <1>2

LEMMA SpecsGrow ==
    ASSUME NEW decl, NEW n \in Nat, NEW spec, spec = decl.specs[n + 1]
    PROVE  /\ Sizes(decl, n + 1) = Sizes(decl, n) \cup {spec.type.size}
           /\ Aligns(decl, n + 1) = Aligns(decl, n) \cup {spec.type.align}
           /\ PlacedAligns(decl, n + 1)
                = PlacedAligns(decl, n) \cup (IF IsPlaced(spec) THEN {spec.type.align} ELSE {})
<1>1. 1 .. n + 1 = (1 .. n) \cup {n + 1} OBVIOUS
<1>2. Sizes(decl, n + 1) = Sizes(decl, n) \cup {spec.type.size} BY <1>1 DEF Sizes
<1>3. Aligns(decl, n + 1) = Aligns(decl, n) \cup {spec.type.align} BY <1>1 DEF Aligns
<1>4. PlacedAligns(decl, n + 1)
        = PlacedAligns(decl, n) \cup (IF IsPlaced(spec) THEN {spec.type.align} ELSE {})
  <2> DEFINE P(k) == {j \in 1 .. k : IsPlaced(decl.specs[j])}
  <2>1. P(n + 1) = P(n) \cup (IF IsPlaced(spec) THEN {n + 1} ELSE {}) BY <1>1
  <2>2. /\ PlacedAligns(decl, n + 1) = {decl.specs[i].type.align : i \in P(n + 1)}
        /\ PlacedAligns(decl, n) = {decl.specs[i].type.align : i \in P(n)}
    BY DEF PlacedAligns
  <2> HIDE DEF P
  <2> QED BY <2>1, <2>2
<1> QED BY <1>2, <1>3, <1>4

(* One more member, and code and host are at the same place again.         *)
LEMMA HostStep ==
    ASSUME NEW decl \in DeclarationsRead, ~HostDiffers(decl),
           NEW n \in Nat, n < Len(decl.specs), NEW c \in Cursors, AsHost(c, decl, n),
           NEW isLast \in BOOLEAN, ~MemberRefused(c, decl.specs[n + 1], decl.isUnion, isLast)
    PROVE  AsHost(WithMember(c, decl.specs[n + 1], decl.isUnion, decl.packed), decl, n + 1)
<1> DEFINE spec == decl.specs[n + 1]
           e == AbiExtents(decl)
           start == AbiStarts(decl)[n + 1]
           end == start + AbiWidth(spec)
           align == IF decl.packed THEN 1 ELSE spec.type.align
           d == WithMember(c, spec, decl.isUnion, decl.packed)
<1>1. /\ decl.isUnion \in BOOLEAN /\ decl.packed \in BOOLEAN
      /\ Len(decl.specs) \in Nat /\ DOMAIN decl.specs = 1 .. Len(decl.specs)
      /\ n + 1 \in DOMAIN decl.specs
      /\ spec \in Specifiers BY DEF DeclarationsRead
<1>2. /\ e[n + 1] = <<start, end>>
      /\ AbiPlaced(decl)[n + 1] = IF IsPlaced(spec) THEN Append(AbiPlaced(decl)[n], <<start, end>>)
                                  ELSE AbiPlaced(decl)[n]
      /\ decl.isUnion => start = 0
      /\ ~decl.isUnion => start = AbiStart(c.bitOffset, spec, decl.packed)
  BY <1>1, HostStarts
<1>3. FieldOk(spec) BY <1>1, NotRefused
<1>4. /\ c.members \in Seq(Members) /\ c.bitOffset \in Nat /\ c.maxSize \in Nat
      /\ c.maxAlign \in Nat /\ align \in Nat /\ spec.type.size \in Nat
      /\ spec.type.align \in Nat /\ AbiWidth(spec) \in Nat
  <2> HIDE DEF spec
  <2>1. /\ spec.type.size \in Nat /\ spec.type.align \in Nat
        /\ spec.width \in Nat \cup {NoWidth}
    BY <1>1, SpecifierIs DEF Alignments
  <2>2. AbiWidth(spec) \in Nat BY <2>1 DEF AbiWidth
  <2>3. align \in Nat BY <2>1
  <2> HIDE DEF align
  <2> QED BY <2>1, <2>2, <2>3 DEF Cursors, Alignments
<1>5. decl.packed /\ spec.width # NoWidth =>
          /\ ~decl.isUnion /\ spec.width # 0
          /\ start \div (8 * spec.type.size) = (end - 1) \div (8 * spec.type.size)
  <2>1. e[n + 1][1] = start /\ e[n + 1][2] = end
    <3> HIDE DEF e, start, end
    <3> QED BY <1>2
  <2> HIDE DEF start, end
  <2> QED BY <1>1, <2>1 DEF HostDiffers
<1> HIDE DEF spec, e, start, d
<1>6. /\ d.maxAlign = NotedAlign(c, align)
      /\ PlacedAt(d.members, c.members, spec, start, end)
      /\ ~decl.isUnion => start \in Nat /\ start >= c.bitOffset /\ d.bitOffset = end
      /\ decl.isUnion =>
             d.maxSize = IF spec.type.size > c.maxSize THEN spec.type.size ELSE c.maxSize
  <2>1. CASE decl.isUnion
    <3>1. decl.isUnion = TRUE BY <1>1, <2>1
    <3>2. start = 0 /\ end = AbiWidth(spec) BY <1>2, <1>4, <2>1
    <3>3. d = WithMember(c, spec, TRUE, decl.packed) BY <3>1 DEF d
    <3>4. /\ d.maxSize = IF spec.type.size > c.maxSize THEN spec.type.size ELSE c.maxSize
          /\ d.maxAlign = NotedAlign(c, align)
          /\ PlacedAt(d.members, c.members, spec, 0, AbiWidth(spec))
      BY ZenonT(30), <1>1, <1>3, <3>3, UnionStep
    <3> HIDE DEF align, end
    <3> QED BY <2>1, <3>2, <3>4
  <2>2. CASE ~decl.isUnion
    <3>1. decl.isUnion = FALSE BY <1>1, <2>2
    <3>2. start = AbiStart(c.bitOffset, spec, decl.packed) BY <1>2, <2>2
    <3>3. d = WithMember(c, spec, FALSE, decl.packed) BY <3>1 DEF d
    <3>4. decl.packed /\ spec.width # NoWidth => InUnit(spec, start)
      <4> HIDE DEF align
      <4> QED BY <1>5 DEF InUnit
    <3>5. /\ start \in Nat /\ start >= c.bitOffset
          /\ d.bitOffset = start + AbiWidth(spec)
          /\ d.maxAlign = NotedAlign(c, align)
          /\ PlacedAt(d.members, c.members, spec, start, start + AbiWidth(spec))
      <4> DEFINE packed == decl.packed
                 given == AbiStart(c.bitOffset, spec, packed)
                 aligned == IF packed THEN 1 ELSE spec.type.align
                 grown == WithMember(c, spec, FALSE, packed)
      <4>1. packed \in BOOLEAN BY <1>1
      <4>2. packed /\ spec.width # NoWidth => InUnit(spec, given) BY <3>2, <3>4
      <4>3. start = given /\ align = aligned /\ d = grown BY <3>2, <3>3
      <4>4. /\ given \in Nat /\ given >= c.bitOffset
            /\ grown.bitOffset = given + AbiWidth(spec)
            /\ grown.maxAlign = NotedAlign(c, aligned)
            /\ PlacedAt(grown.members, c.members, spec, given, given + AbiWidth(spec))
        <5> HIDE DEF packed
        <5> QED BY <1>1, <1>3, <4>1, <4>2, StructStep
      <4> HIDE DEF align, end, packed, given, aligned, grown
      <4> QED BY <4>3, <4>4
    <3> HIDE DEF align
    <3> QED BY <2>2, <3>5
  <2> QED BY <2>1, <2>2
<1>7. /\ Sizes(decl, n + 1) = Sizes(decl, n) \cup {spec.type.size}
      /\ Aligns(decl, n + 1) = Aligns(decl, n) \cup {spec.type.align}
      /\ PlacedAligns(decl, n + 1)
           = PlacedAligns(decl, n) \cup (IF IsPlaced(spec) THEN {spec.type.align} ELSE {})
  BY SpecsGrow DEF spec
<1>8. 1 .. n + 1 = (1 .. n) \cup {n + 1} OBVIOUS
<1>9. MemberExtents(d.members) = AbiPlaced(decl)[n + 1]
  <2>1. MemberExtents(c.members) = AbiPlaced(decl)[n] BY DEF AsHost
  <2>2. MemberExtents(d.members) = IF IsPlaced(spec)
                                   THEN Append(MemberExtents(c.members), <<start, end>>)
                                   ELSE MemberExtents(c.members)
    <3> HIDE DEF end
    <3> QED BY <1>4, <1>6, PlacedGrows
  <2> QED BY <1>2, <2>1, <2>2
<1>10. {d.members[k].type.align : k \in DOMAIN d.members} = PlacedAligns(decl, n + 1)
  <2>1. {c.members[k].type.align : k \in DOMAIN c.members} = PlacedAligns(decl, n) BY DEF AsHost
  <2>2. {d.members[k].type.align : k \in DOMAIN d.members}
          = {c.members[k].type.align : k \in DOMAIN c.members}
                \cup (IF IsPlaced(spec) THEN {spec.type.align} ELSE {})
    <3> HIDE DEF end
    <3> QED BY <1>4, <1>6, PlacedGrows
  <2> QED BY <1>7, <2>1, <2>2
<1>11. ASSUME ~decl.isUnion
       PROVE  /\ d.bitOffset = IF n + 1 = 0 THEN 0 ELSE e[n + 1][2]
              /\ \A i \in 1 .. n + 1 : e[i][2] \in 0 .. d.bitOffset
  <2>1. \A i \in 1 .. n : e[i][2] \in 0 .. c.bitOffset BY <1>11 DEF AsHost, e
  <2>2. e[n + 1][2] = end
    <3> HIDE DEF end
    <3> QED BY <1>2
  <2>3. end \in Nat /\ c.bitOffset <= end /\ d.bitOffset = end BY <1>4, <1>6, <1>11
  <2> HIDE DEF end
  <2>4. ASSUME NEW i \in 1 .. n + 1 PROVE e[i][2] \in 0 .. d.bitOffset
    BY SMTT(30), <2>2, <2>3, <1>8, <2>1, <1>4
  <2>5. n + 1 # 0 OBVIOUS
  <2> QED BY <2>2, <2>3, <2>4, <2>5
<1>12. ASSUME decl.isUnion PROVE IsMaximum(d.maxSize, Sizes(decl, n + 1))
  <2>1. IsMaximum(c.maxSize, Sizes(decl, n)) BY <1>12 DEF AsHost
  <2>2. Sizes(decl, n) \subseteq Nat BY <1>1, SpecifierIs DEF DeclarationsRead, Sizes
  <2> DEFINE max == IF spec.type.size > c.maxSize THEN spec.type.size ELSE c.maxSize
  <2>3. IsMaximum(max, Sizes(decl, n) \cup {spec.type.size})
    BY <1>4, <2>1, <2>2, MaximumGrows
  <2>4. d.maxSize = max BY <1>6, <1>12
  <2> HIDE DEF max
  <2> QED BY <1>7, <2>3, <2>4
<1>13. IF decl.packed THEN d.maxAlign = 1 ELSE IsMaximum(d.maxAlign, Aligns(decl, n + 1))
  <2>1. CASE decl.packed BY <2>1, <1>6 DEF AsHost, NotedAlign
  <2>2. CASE ~decl.packed
    <3>1. IsMaximum(c.maxAlign, Aligns(decl, n)) /\ align = spec.type.align BY <2>2 DEF AsHost
    <3>2. Aligns(decl, n) \subseteq Nat
      <4>1. ASSUME NEW i \in 1 .. n PROVE decl.specs[i].type.align \in Nat
        <5>1. i \in DOMAIN decl.specs /\ decl.specs \in Seq(Specifiers) BY <1>1 DEF DeclarationsRead
        <5>2. decl.specs[i] \in Specifiers BY <5>1
        <5> QED BY SMTT(30), <5>2, SpecifierIs DEF Alignments
      <4> QED BY <4>1 DEF Aligns
    <3>3. d.maxAlign = IF spec.type.align > c.maxAlign THEN spec.type.align ELSE c.maxAlign
      BY <1>6, <3>1 DEF NotedAlign
    <3> DEFINE max == IF spec.type.align > c.maxAlign THEN spec.type.align ELSE c.maxAlign
    <3>5. IsMaximum(max, Aligns(decl, n) \cup {spec.type.align})
      BY <1>4, <3>1, <3>2, MaximumGrows
    <3>6. d.maxAlign = max BY <3>3
    <3> HIDE DEF max
    <3>4. IsMaximum(d.maxAlign, Aligns(decl, n + 1)) BY <1>7, <3>5, <3>6
    <3> QED BY <2>2, <3>4
  <2> QED BY <2>1, <2>2
<1>14. \A i \in 1 .. n + 1 : FieldOk(decl.specs[i]) BY <1>3, <1>8 DEF AsHost, spec
<1>15. AsHost(d, decl, n + 1) BY <1>9, <1>10, <1>11, <1>12, <1>13, <1>14 DEF AsHost, e
<1> QED BY <1>15 DEF d, spec

LEMMA HostBegins ==
    ASSUME NEW decl \in DeclarationsRead
    PROVE  AsHost(EmptyCursor, decl, 0)
BY PlacedAre DEF DeclarationsRead, EmptyCursor, MemberExtents, PlacedAligns, Sizes, Aligns,
   IsMaximum, AsHost

LEMMA ChosenMaximum ==
    ASSUME NEW S, S \subseteq Nat, NEW a, IsMaximum(a, S)
    PROVE  (CHOOSE x \in S : \A b \in S : b <= x) = a
<1> DEFINE Top(x) == \A b \in S : b <= x
           m == CHOOSE x \in S : Top(x)
<1>1. a \in S /\ Top(a) BY DEF IsMaximum
<1>2. m \in S /\ Top(m)
  <2> HIDE DEF Top
  <2> QED BY <1>1
<1>3. m <= a /\ a <= m /\ a \in Nat /\ m \in Nat
  <2> HIDE DEF m
  <2> QED BY <1>1, <1>2
<1>4. m = a
  <2> HIDE DEF m
  <2> QED BY <1>3
<1> QED BY <1>4

(* The size is the smallest multiple of the alignment that is not less.    *)
LEMMA RoundedUp ==
    ASSUME NEW o \in Nat, NEW a \in Alignments
    PROVE  (CHOOSE s \in o .. o + a - 1 : s % a = 0) = AlignUp(o, a)
<1> DEFINE up == AlignUp(o, a)
           m == CHOOSE s \in o .. o + a - 1 : s % a = 0
<1>1. up \in o .. o + a - 1 /\ up % a = 0 BY DEF AlignUp, Alignments
<1> HIDE DEF up
<1>2. m \in o .. o + a - 1 /\ m % a = 0 BY <1>1
<1> HIDE DEF m
<1>3. m = up BY <1>1, <1>2 DEF Alignments
<1> QED BY <1>3 DEF m, up

LEMMA RoundedSame ==
    ASSUME NEW a \in Alignments, NEW end \in Nat, NEW size \in Nat,
           end <= size, size <= AlignUp(end, a)
    PROVE  AlignUp(size, a) = AlignUp(end, a)
BY DEF AlignUp, Alignments

LEMMA RoundedAtLeast ==
    ASSUME NEW a \in Alignments, NEW end \in Nat, end >= 1
    PROVE  AlignUp(end, a) >= a
BY DEF AlignUp, Alignments

Bytes(decl) ==
    {0} \cup {(AbiExtents(decl)[i][2] + 7) \div 8 : i \in DOMAIN AbiExtents(decl)}

SpecsRead(decl) ==
    /\ Len(decl.specs) \in Nat /\ DOMAIN decl.specs = 1 .. Len(decl.specs)
    /\ DOMAIN AbiExtents(decl) = 1 .. Len(decl.specs)
    /\ \A i \in 1 .. Len(decl.specs) :
           /\ decl.specs[i] \in Specifiers
           /\ decl.specs[i].type.size \in Nat /\ decl.specs[i].type.align \in Alignments
           /\ decl.specs[i].type.align \in Nat
           /\ AbiWidth(decl.specs[i]) \in Nat

LEMMA SpecsAreRead ==
    ASSUME NEW decl \in DeclarationsRead
    PROVE  SpecsRead(decl)
<1>1. decl.specs \in Seq(Specifiers) BY DEF DeclarationsRead
<1>2. Len(decl.specs) \in Nat /\ DOMAIN decl.specs = 1 .. Len(decl.specs) BY <1>1
<1>3. DOMAIN AbiExtents(decl) = 1 .. Len(decl.specs) BY DEF AbiExtents
<1>4. ASSUME NEW i \in 1 .. Len(decl.specs)
      PROVE  /\ decl.specs[i] \in Specifiers
             /\ decl.specs[i].type.size \in Nat /\ decl.specs[i].type.align \in Alignments
             /\ decl.specs[i].type.align \in Nat
             /\ AbiWidth(decl.specs[i]) \in Nat
  <2> DEFINE spec == decl.specs[i]
  <2>1. spec \in Specifiers BY <1>1, <1>2
  <2> HIDE DEF spec
  <2>2. /\ spec.type.size \in Nat /\ spec.type.align \in Alignments
        /\ spec.width \in Nat \cup {NoWidth}
    BY <2>1, SpecifierIs
  <2>3. spec.type.align \in Nat BY <2>2 DEF Alignments
  <2>4. AbiWidth(spec) \in Nat BY <2>2 DEF AbiWidth
  <2> QED BY <2>1, <2>2, <2>3, <2>4 DEF spec
<1> QED BY <1>2, <1>3, <1>4 DEF SpecsRead

(* The alignment of the record is the host's, and the cursor has noted     *)
(* none that is stricter.                                                  *)
LEMMA HostAlignment ==
    ASSUME NEW decl \in DeclarationsRead, ~HostDiffers(decl), NEW c \in Cursors,
           AsHost(c, decl, Len(decl.specs)), ~decl.packed
    PROVE  /\ IsMaximum(AlignmentOf(c.members, FALSE), {1} \cup PlacedAligns(decl, Len(decl.specs)))
           /\ c.maxAlign = AlignmentOf(c.members, FALSE)
<1> DEFINE n == Len(decl.specs)
           ms == c.members
           a == AlignmentOf(ms, FALSE)
<1>1. SpecsRead(decl) BY SpecsAreRead
<1>2. ms \in Seq(Members) /\ c.maxAlign \in Nat BY DEF Cursors, Alignments
<1>3. /\ a \in {1} \cup {ms[k].type.align : k \in DOMAIN ms} /\ a \in Alignments
      /\ \A k \in DOMAIN ms : ms[k].type.align <= a
  BY <1>2, StrictestAlignment
<1>4. {ms[k].type.align : k \in DOMAIN ms} = PlacedAligns(decl, n) BY DEF AsHost
<1>5. IsMaximum(c.maxAlign, Aligns(decl, n)) BY DEF AsHost
<1> HIDE DEF a, n, ms
<1>6. a \in Nat /\ 1 <= a BY <1>3 DEF Alignments
<1>7. \A b \in PlacedAligns(decl, n) : b <= a BY <1>3, <1>4
<1>8. IsMaximum(a, {1} \cup PlacedAligns(decl, n)) BY <1>3, <1>4, <1>6, <1>7 DEF IsMaximum
<1>9. ASSUME NEW i \in 1 .. n PROVE decl.specs[i].type.align <= a
  <2>1. CASE IsPlaced(decl.specs[i]) BY <2>1, <1>7 DEF PlacedAligns
  <2>2. CASE ~IsPlaced(decl.specs[i])
    <3>1. i \in DOMAIN decl.specs \ PlacedSpecs(decl)
      BY <1>1, <2>2 DEF SpecsRead, PlacedSpecs, n
    <3>2. PICK j \in PlacedSpecs(decl) :
              ~ (decl.specs[j].type.align < decl.specs[i].type.align)
      BY <3>1 DEF HostDiffers
    <3>3. j \in 1 .. n /\ IsPlaced(decl.specs[j]) BY <1>1, <3>2 DEF PlacedSpecs, SpecsRead, n
    <3>4. decl.specs[j].type.align \in PlacedAligns(decl, n) BY <3>3 DEF PlacedAligns
    <3>5. decl.specs[j].type.align <= a BY <1>7, <3>4
    <3>6. decl.specs[i].type.align \in Nat /\ decl.specs[j].type.align \in Nat
      BY <1>1, <3>3 DEF SpecsRead, n
    <3> QED BY <1>6, <3>2, <3>5, <3>6
  <2> QED BY <2>1, <2>2
<1>10. a \in Aligns(decl, n) /\ \A b \in Aligns(decl, n) : b <= a
  BY <1>3, <1>4, <1>6, <1>9 DEF PlacedAligns, Aligns
<1>11. c.maxAlign <= a /\ a <= c.maxAlign BY <1>5, <1>10 DEF IsMaximum
<1>12. c.maxAlign = a BY <1>2, <1>6, <1>11
<1> QED BY <1>8, <1>12 DEF a, n, ms

(* A structure ends in the byte that its last member ends in.              *)
LEMMA StructEnd ==
    ASSUME NEW decl \in DeclarationsRead, NEW c \in Cursors,
           AsHost(c, decl, Len(decl.specs)), ~decl.isUnion
    PROVE  IsMaximum((c.bitOffset + 7) \div 8, Bytes(decl)) /\ Bytes(decl) \subseteq Nat
<1> DEFINE n == Len(decl.specs)
           e == AbiExtents(decl)
           end == (c.bitOffset + 7) \div 8
<1>1. n \in Nat /\ DOMAIN e = 1 .. n BY SpecsAreRead DEF SpecsRead
<1>2. c.bitOffset \in Nat BY DEF Cursors
<1>3. /\ c.bitOffset = IF n = 0 THEN 0 ELSE e[n][2]
      /\ \A i \in 1 .. n : e[i][2] \in 0 .. c.bitOffset
  BY DEF AsHost
<1>4. Bytes(decl) = {0} \cup {(e[i][2] + 7) \div 8 : i \in 1 .. n} BY <1>1 DEF Bytes
<1> HIDE DEF n, e
<1>5. end \in Nat /\ 0 <= end BY <1>2
<1>6. ASSUME NEW i \in 1 .. n PROVE (e[i][2] + 7) \div 8 \in Nat /\ (e[i][2] + 7) \div 8 <= end
  <2> DEFINE x == e[i][2]
  <2>1. x \in 0 .. c.bitOffset BY <1>3
  <2> HIDE DEF x
  <2>2. (x + 7) \div 8 \in Nat /\ (x + 7) \div 8 <= end BY <1>2, <2>1
  <2> QED BY <2>2 DEF x
<1>7. end \in Bytes(decl)
  <2>1. CASE n = 0 BY <1>3, <2>1, <1>4
  <2>2. CASE n # 0
    <3>1. n \in 1 .. n /\ c.bitOffset = e[n][2] BY <1>1, <1>3, <2>2
    <3>2. end = (e[n][2] + 7) \div 8 BY <3>1
    <3> HIDE DEF end
    <3> QED BY <1>4, <3>1, <3>2
  <2> QED BY <2>1, <2>2
<1> HIDE DEF end
<1>8. \A b \in Bytes(decl) : b \in Nat /\ b <= end BY <1>4, <1>5, <1>6
<1> QED BY <1>7, <1>8 DEF IsMaximum, end

(* A union ends where its longest member does, or in the padding behind.   *)
LEMMA UnionEnd ==
    ASSUME NEW decl \in DeclarationsRead, ~HostDiffers(decl), NEW c \in Cursors,
           AsHost(c, decl, Len(decl.specs)), decl.isUnion
    PROVE  /\ Bytes(decl) \subseteq Nat
           /\ \E end \in Nat : /\ IsMaximum(end, Bytes(decl))
                               /\ end <= c.maxSize /\ c.maxSize <= AlignUp(end, c.maxAlign)
<1> DEFINE n == Len(decl.specs)
           e == AbiExtents(decl)
           byte(i) == (AbiWidth(decl.specs[i]) + 7) \div 8
<1>1. /\ n \in Nat /\ DOMAIN e = 1 .. n /\ DOMAIN decl.specs = 1 .. n
      /\ \A i \in 1 .. n :
             /\ decl.specs[i] \in Specifiers
             /\ decl.specs[i].type.size \in Nat /\ decl.specs[i].type.align \in Nat
             /\ AbiWidth(decl.specs[i]) \in Nat
  BY SpecsAreRead DEF SpecsRead
<1>2. c.maxSize \in Nat /\ c.maxAlign \in Alignments BY DEF Cursors
<1>3. /\ IsMaximum(c.maxSize, Sizes(decl, n))
      /\ ~decl.packed => IsMaximum(c.maxAlign, Aligns(decl, n))
      /\ \A i \in 1 .. n : FieldOk(decl.specs[i])
  BY DEF AsHost
<1>4. ASSUME NEW i \in 1 .. n PROVE (e[i][2] + 7) \div 8 = byte(i)
  <2>1. AbiStarts(decl)[i] = 0 BY <1>1, StartsAre
  <2>2. e[i] = <<AbiStarts(decl)[i], AbiStarts(decl)[i] + AbiWidth(decl.specs[i])>>
    BY <1>1 DEF AbiExtents
  <2>3. e[i][2] = AbiWidth(decl.specs[i])
    <3> HIDE DEF e
    <3> QED BY <1>1, <2>1, <2>2
  <2> QED BY <2>3
<1>5. Bytes(decl) = {0} \cup {byte(i) : i \in 1 .. n}
  <2> HIDE DEF byte
  <2> QED BY <1>1, <1>4 DEF Bytes
<1> HIDE DEF n, e
<1>6. ASSUME NEW i \in 1 .. n
      PROVE  /\ byte(i) \in Nat /\ byte(i) <= decl.specs[i].type.size
             /\ decl.specs[i].width = NoWidth => byte(i) = decl.specs[i].type.size
             /\ AbiWidth(decl.specs[i]) # 0 => byte(i) >= 1
  <2> DEFINE size == decl.specs[i].type.size  w == AbiWidth(decl.specs[i])
  <2>1. w \in 0 .. 8 * size /\ (decl.specs[i].width = NoWidth => w = 8 * size)
    BY <1>1, <1>3, FieldIs DEF AbiWidth
  <2>2. size \in Nat BY <1>1
  <2> HIDE DEF size, w
  <2>3. /\ (w + 7) \div 8 \in Nat /\ (w + 7) \div 8 <= size
        /\ w = 8 * size => (w + 7) \div 8 = size
        /\ w # 0 => (w + 7) \div 8 >= 1
    BY <2>1, <2>2
  <2> QED BY <2>1, <2>3 DEF size, w
<1> HIDE DEF byte
<1>7. \A i \in 1 .. n : decl.specs[i].type.size <= c.maxSize BY <1>3 DEF IsMaximum, Sizes
<1>8. Bytes(decl) \subseteq Nat /\ \A b \in Bytes(decl) : b <= c.maxSize
  <2>1. ASSUME NEW i \in 1 .. n PROVE byte(i) \in Nat /\ byte(i) <= c.maxSize
    BY <1>1, <1>6, <1>7, <1>2
  <2> QED BY <1>2, <1>5, <2>1
<1>9. PICK end \in Bytes(decl) : \A b \in Bytes(decl) : b <= end
  <2> DEFINE T == {c.maxSize - b : b \in Bytes(decl)}
  <2>1. T \subseteq Nat /\ T # {}
    <3>1. \A b \in Bytes(decl) : c.maxSize - b \in Nat BY <1>2, <1>8
    <3>2. 0 \in Bytes(decl) BY <1>5
    <3> QED BY <3>1, <3>2
  <2>2. PICK t \in T : \A x \in T : t <= x
    <3> HIDE DEF T
    <3> QED BY <2>1, Least
  <2>3. PICK end \in Bytes(decl) : t = c.maxSize - end OBVIOUS
  <2>4. ASSUME NEW b \in Bytes(decl) PROVE b <= end
    <3>1. c.maxSize - b \in T OBVIOUS
    <3>2. c.maxSize - end <= c.maxSize - b BY <2>2, <2>3, <3>1
    <3>3. b \in Nat /\ end \in Nat BY <1>8
    <3> QED BY <1>2, <3>2, <3>3
  <2> QED BY <2>4
<1>10. end \in Nat /\ end <= c.maxSize BY <1>8, <1>9
<1>11. AlignUp(end, c.maxAlign) \in Nat /\ AlignUp(end, c.maxAlign) >= end
  BY <1>2, <1>10, AlignUpRounds
<1>12. ASSUME NEW i \in 1 .. n PROVE decl.specs[i].type.size <= AlignUp(end, c.maxAlign)
  <2> DEFINE up == AlignUp(end, c.maxAlign)
  <2>1. CASE decl.specs[i].width = NoWidth
    <3>1. byte(i) = decl.specs[i].type.size /\ byte(i) \in Bytes(decl) BY <1>5, <1>6, <2>1
    <3>2. decl.specs[i].type.size <= end BY <1>9, <3>1
    <3> HIDE DEF up
    <3> QED BY <1>1, <1>10, <1>11, <3>2 DEF up
  <2>2. CASE decl.specs[i].width # NoWidth
    <3>1. ~decl.packed BY <1>1, <2>2 DEF HostDiffers
    <3>2. decl.specs[i].type.align <= c.maxAlign
      BY <1>3, <3>1 DEF IsMaximum, Aligns
    <3>3. decl.specs[i].type.size = decl.specs[i].type.align BY <1>1, <1>3, <2>2, FieldIs
    <3>4. PICK j \in 1 .. n : AbiWidth(decl.specs[j]) # 0
      BY <1>1, <2>2 DEF HostDiffers, AbiWidth
    <3>5. byte(j) >= 1 /\ byte(j) \in Nat /\ byte(j) \in Bytes(decl) BY <1>5, <1>6, <3>4
    <3>6. byte(j) <= end BY <1>9, <3>5
    <3>7. end >= 1 BY <1>10, <3>5, <3>6
    <3>8. up >= c.maxAlign BY <1>2, <1>10, <3>7, RoundedAtLeast
    <3>9. c.maxAlign \in Nat BY <1>2 DEF Alignments
    <3> HIDE DEF up
    <3> QED BY <1>1, <1>11, <3>2, <3>3, <3>8, <3>9 DEF up
  <2> QED BY <2>1, <2>2
<1>13. c.maxSize <= AlignUp(end, c.maxAlign) BY <1>3, <1>10, <1>11, <1>12 DEF IsMaximum, Sizes
<1>14. IsMaximum(end, Bytes(decl)) BY <1>9 DEF IsMaximum
<1> QED BY <1>8, <1>10, <1>13, <1>14

(* When all members have been placed the record is as the host makes it.   *)
LEMMA HostLayout ==
    ASSUME NEW decl \in DeclarationsRead, ~HostDiffers(decl), NEW c \in Cursors,
           AsHost(c, decl, Len(decl.specs)),
           NEW t, t = RecordType(c.members, decl.isUnion, decl.packed, SizeOf(c, decl.isUnion))
    PROVE  LayoutOfHost(decl, t)
<1> DEFINE n == Len(decl.specs)
           e == AbiExtents(decl)
           alignments == {1} \cup {decl.specs[i].type.align : i \in PlacedSpecs(decl)}
           align == IF decl.packed THEN 1
                    ELSE CHOOSE a \in alignments : \A b \in alignments : b <= a
           end == CHOOSE a \in Bytes(decl) : \A b \in Bytes(decl) : b <= a
           size == SizeOf(c, decl.isUnion)
<1>1. t.members = c.members /\ t.size = size /\ t.align = AlignmentOf(c.members, decl.packed)
  BY Zenon DEF RecordType
<1>2. /\ c.members \in Seq(Members) /\ c.maxAlign \in Alignments
      /\ c.bitOffset \in Nat /\ c.maxSize \in Nat
  BY DEF Cursors
<1>3. decl.isUnion \in BOOLEAN /\ decl.packed \in BOOLEAN BY DEF DeclarationsRead
<1>4. MemberExtents(t.members) = AbiPlaced(decl)[n] BY <1>1 DEF AsHost
<1>5. align = t.align /\ align = c.maxAlign
  <2>1. CASE decl.packed BY <1>3, <2>1, <1>2, StrictestAlignment, <1>1 DEF AsHost
  <2>2. CASE ~decl.packed
    <3> DEFINE a == AlignmentOf(c.members, FALSE)
    <3>1. IsMaximum(a, {1} \cup PlacedAligns(decl, n)) /\ c.maxAlign = a
      BY <2>2, HostAlignment
    <3>2. alignments = {1} \cup PlacedAligns(decl, n)
      BY SpecsAreRead DEF PlacedSpecs, SpecsRead, PlacedAligns
    <3>3. alignments \subseteq Nat BY SpecsAreRead DEF PlacedSpecs, SpecsRead
    <3>4. (CHOOSE x \in alignments : \A b \in alignments : b <= x) = a
      <4> HIDE DEF alignments, a
      <4> QED BY <3>1, <3>2, <3>3, ChosenMaximum
    <3>5. t.align = a BY <1>3, <2>2, <1>1
    <3> HIDE DEF alignments, a
    <3> QED BY <2>2, <3>1, <3>4, <3>5
  <2> QED BY <2>1, <2>2
<1> HIDE DEF align
<1>6. end \in Nat /\ size = AlignUp(end, align)
  <2>1. CASE decl.isUnion
    <3>1. PICK m \in Nat : /\ IsMaximum(m, Bytes(decl)) /\ m <= c.maxSize
                           /\ c.maxSize <= AlignUp(m, c.maxAlign)
      BY <2>1, UnionEnd
    <3>2. Bytes(decl) \subseteq Nat BY <2>1, UnionEnd
    <3>3. end = m BY <3>1, <3>2, ChosenMaximum
    <3>4. size = AlignUp(c.maxSize, c.maxAlign) BY <2>1 DEF SizeOf
    <3>5. AlignUp(c.maxSize, c.maxAlign) = AlignUp(m, c.maxAlign) BY <1>2, <3>1, RoundedSame
    <3> HIDE DEF end, size
    <3> QED BY <1>5, <3>1, <3>3, <3>4, <3>5
  <2>2. CASE ~decl.isUnion
    <3> DEFINE m == (c.bitOffset + 7) \div 8
    <3>1. IsMaximum(m, Bytes(decl)) /\ Bytes(decl) \subseteq Nat BY <2>2, StructEnd
    <3>2. size = AlignUp(m, c.maxAlign) BY <2>2 DEF SizeOf
    <3>3. m \in Nat BY <1>2
    <3> HIDE DEF m
    <3>4. end = m BY <3>1, ChosenMaximum
    <3> HIDE DEF end, size
    <3> QED BY <1>5, <3>2, <3>3, <3>4
  <2> QED BY <2>1, <2>2
<1> HIDE DEF end, size
<1>7. align \in Alignments BY <1>2, <1>5
<1>8. t.size = CHOOSE s \in end .. end + align - 1 : s % align = 0
  BY <1>6, <1>7, RoundedUp, <1>1
<1>9. /\ [i \in DOMAIN t.members |-> <<FirstBit(t.members[i]), EndBit(t.members[i])>>]
           = AbiPlaced(decl)[Len(decl.specs)]
      /\ t.align = align
  BY <1>4, <1>5 DEF MemberExtents
<1> QED BY <1>8, <1>9, Zenon DEF LayoutOfHost, end, align, Bytes

LEMMA InitHost == LayoutInit => HostInv /\ LayoutAsAbi
BY DeclarationsAssumption, SpecsAreRead, HostBegins DEF LayoutInit, DeclarationsRead,
   SpecsRead, HostInv, LayoutAsAbi

LEMMA NextHost ==
    TypeOK /\ HostInv /\ LayoutAsAbi /\ [LayoutNext]_layoutVars => HostInv' /\ LayoutAsAbi'
<1> SUFFICES ASSUME TypeOK, HostInv, LayoutAsAbi, [LayoutNext]_layoutVars
             PROVE  HostInv' /\ LayoutAsAbi'
  OBVIOUS
<1>1. declared \in DeclarationsRead BY DEF TypeOK, DeclarationsRead
<1>2. cursor \in Cursors /\ record \in Records /\ next \in Nat \ {0} BY DEF TypeOK
<1>3. SpecsRead(declared) BY <1>1, SpecsAreRead
<1>4. Len(declared.specs) \in Nat BY <1>3 DEF SpecsRead
<1>5. CASE LayoutMember
  <2> DEFINE n == next - 1
             isLast == next = Len(declared.specs)
  <2>1. /\ stage = "members" /\ next <= Len(declared.specs) /\ ~NextRefused
        /\ cursor' = WithMember(cursor, declared.specs[next], declared.isUnion, declared.packed)
        /\ next' = next + 1 /\ declared' = declared /\ record' = record /\ stage' = stage
    BY <1>5 DEF LayoutMember
  <2>2. n \in Nat /\ n + 1 = next /\ n < Len(declared.specs) /\ next' - 1 = n + 1
        /\ n + 1 \in 0 .. Len(declared.specs)
    BY <1>2, <1>4, <2>1
  <2>3. isLast \in BOOLEAN /\ ~MemberRefused(cursor, declared.specs[next], declared.isUnion, isLast)
    BY <2>1 DEF NextRefused
  <2>4. ASSUME ~HostDiffers(declared) PROVE AsHost(cursor', declared, n + 1)
    <3>1. AsHost(cursor, declared, n) BY <2>1, <2>4 DEF HostInv
    <3> HIDE DEF n, isLast
    <3> QED BY <1>1, <1>2, <2>1, <2>2, <2>3, <2>4, <3>1, HostStep
  <2> HIDE DEF n
  <2>5. HostInv' BY <2>1, <2>2, <2>4 DEF HostInv
  <2> QED BY <2>1, <2>5 DEF LayoutAsAbi
<1>6. CASE RefuseMember BY <1>6 DEF RefuseMember, HostInv, LayoutAsAbi
<1>7. CASE CompleteRecord
  <2> DEFINE t == RecordType(cursor.members, declared.isUnion, declared.packed,
                             SizeOf(cursor, declared.isUnion))
  <2>1. /\ stage = "members" /\ next > Len(declared.specs)
        /\ stage' # "members" /\ declared' = declared
        /\ stage' = "complete" => record' = t
    BY <1>7 DEF CompleteRecord
  <2>2. next - 1 = Len(declared.specs) BY <1>2, <1>4, <2>1 DEF HostInv
  <2>3. ASSUME ~HostDiffers(declared) PROVE LayoutOfHost(declared, t)
    BY <2>1, <2>2, <2>3, <1>1, <1>2, HostLayout DEF HostInv
  <2> HIDE DEF t
  <2> QED BY <2>1, <2>3 DEF HostInv, LayoutAsAbi
<1>8. CASE ApplyPacked
  <2>1. /\ declared' = [isUnion |-> record.isUnion, packed |-> TRUE, specs |-> MemberSpecs(record)]
        /\ cursor' = EmptyCursor /\ next' = 1 /\ stage' = "members"
    BY <1>8 DEF ApplyPacked
  <2>2. record.isUnion \in BOOLEAN /\ MemberSpecs(record) \in Seq(Specifiers)
    BY <1>2, KeptAreSpecifiers DEF Records
  <2>3. declared' \in DeclarationsRead BY <2>1, <2>2 DEF DeclarationsRead
  <2>4. AsHost(EmptyCursor, declared', 0) BY <2>3, HostBegins
  <2>5. Len(declared'.specs) \in Nat BY <2>3, SpecsAreRead DEF SpecsRead
  <2>6. next' - 1 = 0 BY <2>1
  <2> QED BY <2>1, <2>4, <2>5, <2>6 DEF HostInv, LayoutAsAbi
<1>9. CASE UNCHANGED layoutVars
  BY <1>9 DEF layoutVars, HostInv, LayoutAsAbi
<1> QED BY <1>5, <1>6, <1>7, <1>8, <1>9 DEF LayoutNext

(* Wherever this compiler is not known to differ from the host, a record   *)
(* that is complete has the members, the size and the alignment that the   *)
(* System V rules give it, for any declaration, packed late or not.        *)
THEOREM LaidOutAsHost == LayoutSpec => []LayoutAsAbi
<1>1. LayoutSpec => []TypeOK BY TypeCorrect
<1> QED BY <1>1, InitHost, NextHost, PTL DEF LayoutSpec

=============================================================================
