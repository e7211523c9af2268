--------------------------- MODULE SysVClassify ---------------------------
(***************************************************************************)
(* How a value is passed: the classification of a type by eightbytes of    *)
(* the System V ABI, as src/src/types/SysVClassify.cpp computes it by one  *)
(* descent through the type, and as the ABI defines it, from the scalars   *)
(* that lie in each eightbyte.                                             *)
(***************************************************************************)
EXTENDS RecordLayout, FiniteSets

NoClass == "NoClass"

MaxClassifyBytes == 64

IsX87(class) == class \in {"X87", "X87Up", "ComplexX87"}

(* merge: how two fields share an eightbyte.                               *)
MergeClass(a, b) ==
    CASE a = b -> a
      [] a # b /\ a = NoClass -> b
      [] a # b /\ b = NoClass -> a
      [] a # b /\ NoClass \notin {a, b} ->
             IF "Memory" \in {a, b} THEN "Memory"
             ELSE IF "Integer" \in {a, b} THEN "Integer"
             ELSE IF IsX87(a) \/ IsX87(b) THEN "Memory"
             ELSE "Sse"

Merged(p, q) == <<MergeClass(p[1], q[1]), MergeClass(p[2], q[2])>>

None == <<NoClass, NoClass>>

InMemory == <<"Memory", NoClass>>

(* The class of the low and of the high eightbyte that a scalar of `size`  *)
(* bytes at `offset` is given.                                             *)
ClassifyScalar(t, offset) ==
    CASE t.class = "X87" -> <<"X87", "X87Up">>
      [] t.class = "Sse" \/ t.kind = "pointer" ->
             IF offset < 8 THEN <<t.class, NoClass>> ELSE <<NoClass, t.class>>
      [] t.class = "Integer" /\ t.kind = "primitive" ->
             <<IF offset < 8 THEN "Integer" ELSE NoClass,
               IF offset + t.size > 8 THEN "Integer" ELSE NoClass>>

\* mutant of ClassifyBitField: only the eightbyte it begins in.
ClassifyBitFieldStart(m, offset) ==
    LET first == offset + m.offset + (m.shift \div 8)
    IN  <<IF first < 8 THEN "Integer" ELSE NoClass, IF first >= 8 THEN "Integer" ELSE NoClass>>

ClassifyBitField(m, offset) ==
    LET first == offset + m.offset + (m.shift \div 8)
        last == offset + m.offset + ((m.shift + m.width - 1) \div 8)
    IN  <<IF first < 8 THEN "Integer" ELSE NoClass, IF last >= 8 THEN "Integer" ELSE NoClass>>

RECURSIVE ClassifyInto(_, _), ClassifyParts(_, _, _, _)

(* The parts from the i-th on, merged into what the earlier ones gave; the *)
(* loops of the code end at the first part that is in memory.              *)
ClassifyParts(t, offset, i, sofar) ==
    IF i > (IF t.kind = "array" THEN t.count ELSE Len(t.members)) \/ sofar[1] = "Memory" THEN sofar
    ELSE IF t.kind = "array"
    THEN ClassifyParts(t, offset, i + 1,
             Merged(sofar, ClassifyInto(t.elem, offset + (i - 1) * t.elem.size)))
    ELSE LET m == t.members[i]
         IN  IF m.width > 0
             THEN ClassifyParts(t, offset, i + 1, Merged(sofar, ClassifyBitField(m, offset)))
             ELSE IF m.offset % m.type.align # 0 THEN <<"Memory", sofar[2]>>
             ELSE ClassifyParts(t, offset, i + 1,
                      Merged(sofar, ClassifyInto(m.type, offset + m.offset)))

ClassifyInto(t, offset) ==
    CASE ~IsAggregate(t) -> ClassifyScalar(t, offset)
      [] IsAggregate(t) /\ ~t.complete -> None
      [] IsAggregate(t) /\ t.complete /\ t.size > MaxClassifyBytes -> InMemory
      [] IsAggregate(t) /\ t.complete /\ t.size <= MaxClassifyBytes ->
             ClassifyParts(t, offset, 1, None)

PostMerge(size, classes) ==
    LET lo == IF \/ classes[2] = "Memory"
                 \/ classes[2] = "X87Up" /\ classes[1] # "X87"
                 \/ size > 16
              THEN "Memory" ELSE classes[1]
    IN  <<lo, IF lo = "Memory" THEN "Memory" ELSE classes[2]>>

(* The eightbytes in which the value travels; none for a value that        *)
(* travels in memory, nor for one that has no content.                     *)
Classify(t) ==
    LET classes == PostMerge(t.size, ClassifyInto(t, 0))
    IN  [memory |-> classes[1] = "Memory",
         eightbytes |-> CASE classes[1] \in {"Memory", NoClass} -> <<>>
                          [] classes[1] \notin {"Memory", NoClass} /\ classes[2] = NoClass ->
                                 <<classes[1]>>
                          [] classes[1] \notin {"Memory", NoClass} /\ classes[2] # NoClass ->
                                 classes]

-----------------------------------------------------------------------------
(* The scalars of a type: where each begins, where it ends, what it is.    *)
RECURSIVE Scalars(_, _)
Scalars(t, offset) ==
    IF t.kind = "array"
    THEN UNION {Scalars(t.elem, offset + (i - 1) * t.elem.size) : i \in 1 .. t.count}
    ELSE IF t.kind = "record"
    THEN UNION {IF t.members[i].width = 0
                THEN Scalars(t.members[i].type, offset + t.members[i].offset)
                ELSE {[first |-> (offset * 8 + FirstBit(t.members[i])) \div 8,
                       last |-> (offset * 8 + EndBit(t.members[i]) - 1) \div 8,
                       class |-> "Integer", align |-> 1]} : i \in DOMAIN t.members}
    ELSE {[first |-> offset, last |-> offset + t.size - 1, class |-> t.class, align |-> t.align]}

(* A record travels as the ABI says: in memory when it is longer than two  *)
(* eightbytes, when a member is not aligned or when a long double shares   *)
(* its place with anything but an integer in the low half; otherwise each  *)
(* eightbyte is an integer one if any integer lies in it.  Records whose   *)
(* first eightbyte holds nothing that has a name are left out, and packed  *)
(* ones that end in an array without a bound, which are put in memory for  *)
(* the alignment of elements that are not there.                           *)
ClassifiedAsAbi ==
    LET scalars == Scalars(record, 0)
        in(k) == {s.class : s \in {x \in scalars : x.first < 8 * k /\ x.last >= 8 * k - 8}}
        x87(k) == "X87" \in in(k)
        memory == \/ record.size > 16
                  \/ \E s \in scalars : s.first % s.align # 0
                  \/ x87(1) /\ \E s \in scalars : s.class # "X87"
        class(k) == IF "Integer" \in in(k) THEN "Integer"
                    ELSE IF x87(k) THEN (IF k = 1 THEN "X87" ELSE "X87Up")
                    ELSE "Sse"
        flexible == \E i \in DOMAIN record.members : ~record.members[i].type.complete
    IN  stage = "complete" /\ in(1) # {} /\ ~(record.packed /\ flexible) =>
            Classify(record) =
                [memory |-> memory,
                 eightbytes |-> IF memory THEN <<>>
                                ELSE IF in(2) = {} THEN <<class(1)>>
                                ELSE <<class(1), class(2)>>]

=============================================================================
