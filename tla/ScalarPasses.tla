----------------------------- MODULE ScalarPasses -----------------------------
(***************************************************************************)
(* The passes over the linear body of a procedure (IrPasses.cpp): constant *)
(* folding, copy propagation, dead temporaries, value numbering, sharing   *)
(* of constants and forwarding of stored values to loads.  Each walks the  *)
(* body once with what it knows so far, and keeps that knowledge over a    *)
(* label only when nothing but the instruction above leads there.          *)
(***************************************************************************)
EXTENDS FlowGraph, MachineWords

LOCAL INSTANCE Functions
LOCAL INSTANCE FiniteSetsExt

Nothing == <<>>
Drop(facts, S) == Restrict(facts, DOMAIN facts \ S)
Knows(facts, id) == id \in DOMAIN facts
Note(facts, id, what) == (id :> what) @@ facts

(* dropSame, killCopy: nothing is a copy of id, nor id of anything. *)
Forget(copies, id) ==
    Restrict(copies, {x \in DOMAIN copies \ {id} : copies[x] # id})
ForgetAll(copies, ids) ==
    Restrict(copies, {x \in DOMAIN copies \ ids : copies[x] \notin ids})

(* labelPredCounts: ways into a label, falling into it being one. *)
FallsInto(body, i) ==
    \A j \in 1..(i - 1) : LeavesForGood(body[j]) => \E k \in j..(i - 1) : body[k].op = "Label"
LabelPredCount(body, label) ==
    Cardinality({i \in DOMAIN body : body[i] = LabelI(label) /\ FallsInto(body, i)})
        + Cardinality({i \in DOMAIN body : body[i].op = "Jump" /\ body[i].arg0 = label})
(* Whether the facts at the end of the instruction above still hold after  *)
(* this label.                                                             *)
OnlyFallenInto(body, label, fall) == fall /\ LabelPredCount(body, label) = 1

StillFalls(fall, inst) == fall /\ ~LeavesForGood(inst)

(* --- foldConstants ------------------------------------------------------- *)

(* tryAlgebraicIdentity. *)
AlgebraicIdentity(proc, inst, known) ==
    LET is(id, v) == Knows(known, id) /\ known[id] = v
        a == inst.arg0
        b == inst.arg1
        copyOf(id) == AssignI(id, inst.result)
        zero == ConstantI(0, inst.result)
    IN  CASE IsVolatile(proc, a) \/ IsVolatile(proc, b) -> inst
          [] inst.op \in {"Add", "Sub"} /\ is(b, 0) -> copyOf(a)
          [] inst.op = "Add" /\ is(a, 0) -> copyOf(b)
          [] inst.op = "Sub" /\ a = b -> zero
          [] inst.op = "Mul" /\ (is(a, 0) \/ is(b, 0)) -> zero
          [] inst.op \in {"Mul", "Div"} /\ is(b, 1) -> copyOf(a)
          [] inst.op = "Mul" /\ is(a, 1) -> copyOf(b)
          [] OTHER -> inst

(* tryFold: the instruction itself when nothing folds. *)
TryFold(proc, inst, known) ==
    LET constant(id) == Knows(known, id) /\ Foldable(proc, id)
        left == known[inst.arg0]
        right == known[inst.arg1]
    IN  CASE ~Foldable(proc, inst.result) -> inst
          [] inst.op \in BinaryOps /\ constant(inst.arg0) /\ constant(inst.arg1)
                /\ (inst.op = "Div" => Divides(left, right)) ->
                ConstantI(Compute(inst.op, left, right), inst.result)
          [] inst.op \in BinaryOps -> AlgebraicIdentity(proc, inst, known)
          [] inst.op = "UnaryMinus" /\ constant(inst.arg0) -> ConstantI(Wrap(-left), inst.result)
          [] OTHER -> inst

(* defBefore: the last instruction in the text above that has id as its    *)
(* result; 0 for none.                                                     *)
DefBefore(body, id, i) == Max({0} \cup {j \in 1..(i - 1) : body[j].result = id})

WritesMemory(inst) == inst.op \in {"Call", "LvalueAssign"}

UnchangedBetween(body, inner, outer, ids) ==
    \A j \in (inner + 1)..(outer - 1) : ~WritesMemory(body[j]) /\ Defs(body[j]) \cap ids = {}

(* The operand of an addition known to be constant, if just one is; a      *)
(* subtraction only counts with the constant on the right.                 *)
ConstantOperand(inst, known) ==
    LET left == Knows(known, inst.arg0)
        right == Knows(known, inst.arg1)
    IN  IF inst.op \notin {"Add", "Sub"} \/ left = right \/ (inst.op = "Sub" /\ left)
        THEN NoSymbol ELSE IF right THEN inst.arg1 ELSE inst.arg0
OtherOperand(inst, id) == IF inst.arg1 = id THEN inst.arg0 ELSE inst.arg1

UseCount(body, id) ==
    Cardinality({<<i, field>> \in (DOMAIN body) \X (DOMAIN Blank) :
                    field \in UseFields(body[i]) /\ body[i][field] = id})

(* combineConst: (v + c1) + c2 becomes v + c, the sum written into the     *)
(* only definition of c2; nothing happens when a sum does not fit.  pair    *)
(* has the addition (of c2, at i), the one inside (of c1, at) and the       *)
(* readings of the constants that matter.                                  *)
Amount(op, bits) == IF op = "Sub" THEN -Signed(bits) ELSE Signed(bits)

TotalOf(pair) ==
    IF pair.inner.op = pair.outer.op THEN Signed(pair.bits1) + Signed(pair.bits2)
    ELSE Amount(pair.inner.op, pair.bits1) + Amount(pair.outer.op, pair.bits2)

SumFits(pair, total) ==
    /\ FitsSigned(total)
    /\ pair.inner.op # pair.outer.op =>
          /\ FitsSigned(Amount(pair.inner.op, pair.bits1))
          /\ FitsSigned(Amount(pair.outer.op, pair.bits2))
          /\ total < 0 => FitsSigned(-total)

Mergeable(proc, body, pair) ==
    LET variable == OtherOperand(pair.inner, pair.c1)
    IN  /\ \A id \in {pair.outer.arg0, pair.outer.arg1, pair.inner.arg0, pair.inner.arg1} :
              ~IsVolatile(proc, id)
        /\ pair.inner.result # variable
        /\ UnchangedBetween(body, pair.at, pair.i, {variable, pair.c1})
        /\ Foldable(proc, pair.outer.result) /\ Foldable(proc, pair.inner.result)
        /\ SameKind(proc, pair.outer.result, pair.inner.result)

Merged(acc, pair, total) ==
    LET inst == pair.outer
        variable == OtherOperand(pair.inner, pair.c1)
        alike == pair.inner.op = inst.op
        reaching == DefBefore(acc.body, pair.c2, pair.i)
        bits == Wrap(IF alike \/ total > 0 THEN total ELSE -total)
        op == IF alike THEN inst.op ELSE IF total < 0 THEN "Sub" ELSE "Add"
        rewrites == UseCount(acc.body, pair.c2) = 1 /\ reaching # 0
                      /\ acc.body[reaching].op = "AssignConstant"
    IN  CASE ~alike /\ total = 0 ->
                [acc EXCEPT !.body[pair.i] = AssignI(variable, inst.result), !.changed = TRUE]
          [] (alike \/ total # 0) /\ rewrites ->
                [acc EXCEPT !.body[reaching].imm = bits,
                            !.body[pair.i] = Binary(op, variable, pair.c2, inst.result),
                            !.known = Note(@, pair.c2, bits), !.changed = TRUE]
          [] OTHER -> acc

MergeIfSound(proc, acc, pair) ==
    IF Mergeable(proc, acc.body, pair) /\ SumFits(pair, TotalOf(pair))
    THEN Merged(acc, pair, TotalOf(pair)) ELSE acc

CombineWith(proc, acc, i, c2, at) ==
    LET c1 == ConstantOperand(acc.body[at], acc.known)
    IN  IF at = 0 \/ c1 = NoSymbol THEN acc
        ELSE MergeIfSound(proc, acc,
                [outer |-> acc.body[i], inner |-> acc.body[at], i |-> i, at |-> at,
                 c1 |-> c1, c2 |-> c2, bits1 |-> acc.known[c1], bits2 |-> acc.known[c2]])

CombineConst(proc, acc, i) ==
    LET c2 == ConstantOperand(acc.body[i], acc.known)
    IN  IF c2 = NoSymbol THEN acc
        ELSE CombineWith(proc, acc, i, c2,
                         DefBefore(acc.body, OtherOperand(acc.body[i], c2), i))

(* sameRoot: copies are followed to where they come from.  Roots are kept  *)
(* resolved, so one look-up does.                                          *)
SameRoot(same, id) == IF Knows(same, id) THEN same[id] ELSE id

(* pendingFromCompare: the operands of a comparison whose outcome is known. *)
PendingCompare(proc, inst, known, same) ==
    LET constant(id) == Knows(known, id) /\ Foldable(proc, id)
        a == inst.arg0
        b == inst.arg1
        comparable == Foldable(proc, a) /\ Foldable(proc, b) /\ SameKind(proc, a, b)
    IN  CASE inst.op = "ZeroCompare" /\ constant(a) -> <<known[a], 0>>
          [] inst.op = "ValueCompare" /\ comparable /\ SameRoot(same, a) = SameRoot(same, b) ->
                <<0, 0>>
          [] inst.op = "ValueCompare" /\ comparable /\ constant(a) /\ constant(b) ->
                <<known[a], known[b]>>
          [] OTHER -> Nothing

(* What is known after an instruction: constants and copies, none of them  *)
(* of a value whose address an instruction above has taken.                *)
KnownAfter(proc, inst, known, escaped) ==
    LET value == IF inst.op = "AssignConstant" THEN inst.imm ELSE known[inst.arg0]
        constant == inst.op = "AssignConstant"
                    \/ (inst.op = "Assign" /\ Knows(known, inst.arg0) /\ Foldable(proc, inst.arg0))
    IN  IF constant /\ inst.result \notin escaped /\ Foldable(proc, inst.result)
        THEN Note(known, inst.result, value) ELSE Drop(known, Defs(inst))

SameAfter(proc, inst, same, escaped) ==
    LET rest == ForgetAll(same, Defs(inst))
        copies == /\ inst.op = "Assign" /\ {inst.arg0, inst.result} \cap escaped = {}
                  /\ Foldable(proc, inst.arg0) /\ Foldable(proc, inst.result)
    IN  IF copies THEN Note(rest, inst.result, SameRoot(rest, inst.arg0)) ELSE rest

FoldLabel(acc, source, i) ==
    LET keep == OnlyFallenInto(source, source[i].arg0, acc.fall)
    IN  [acc EXCEPT !.known = IF keep THEN @ ELSE Nothing, !.same = IF keep THEN @ ELSE Nothing,
                    !.pending = Nothing, !.fall = TRUE]

(* What a decided comparison leaves over: nothing of it, and of its jump    *)
(* only one that is taken.                                                 *)
DroppedWhenDecided(taken, i) == IF taken THEN {i - 1} ELSE {i - 1, i}

Rewritten(proc, acc, i, folded) ==
    IF folded = acc.body[i] THEN CombineConst(proc, acc, i)
    ELSE [acc EXCEPT !.body[i] = folded, !.changed = TRUE]

Learn(proc, acc, inst) ==
    LET base == AddressOfBase(inst)
        escaped == acc.escaped \cup ({base} \ {NoSymbol})
    IN  [acc EXCEPT !.escaped = escaped,
                    !.known = KnownAfter(proc, inst, Drop(@, {base}), escaped),
                    !.same = SameAfter(proc, inst, Forget(@, base), escaped)]

(* acc.pending is about the comparison right above. *)
Decide(proc, acc, inst, i) ==
    LET decided == inst.op = "Jump" /\ inst.cond # "UNCONDITIONAL" /\ acc.pending # Nothing
        taken == Holds(inst.cond, acc.pending[1], acc.pending[2])
        after == IF decided /\ taken THEN JumpI(inst.arg0) ELSE inst
        gone == IF decided THEN DroppedWhenDecided(taken, i) ELSE {}
    IN  [acc EXCEPT !.body[i] = after, !.drop = @ \cup gone,
                    !.pending = PendingCompare(proc, inst, acc.known, acc.same),
                    !.fall = IF i \in gone THEN @ ELSE StillFalls(@, after),
                    !.changed = @ \/ decided, !.controlFlow = @ \/ decided]

LearnAndDecide(proc, acc, i) == Decide(proc, Learn(proc, acc, acc.body[i]), acc.body[i], i)
FoldInstruction(proc, acc, i) ==
    LearnAndDecide(proc, Rewritten(proc, acc, i, TryFold(proc, acc.body[i], acc.known)), i)

WithoutDropped(proc, end) ==
    [proc |-> [proc EXCEPT !.body = KeepAt(end.body, DOMAIN end.body \ end.drop)],
     changed |-> end.changed, controlFlow |-> end.controlFlow]

FoldConstants(proc) ==
    WithoutDropped(proc,
        Walk(LAMBDA acc, i : IF proc.body[i].op = "Label" THEN FoldLabel(acc, proc.body, i)
                             ELSE FoldInstruction(proc, acc, i),
             [body |-> proc.body, known |-> Nothing, same |-> Nothing, escaped |-> {},
              pending |-> Nothing, drop |-> {}, fall |-> TRUE,
              changed |-> FALSE, controlFlow |-> FALSE],
             Places(proc.body)))

(* --- copyPropagate -------------------------------------------------------- *)

(* rewriteValueUses: operands replaced by what they are copies of; what    *)
(* changes in place or gives its address away keeps its name.              *)
RewriteUses(inst, copy) ==
    LET fields == IF inst.op \in {"AddressOf", "Inc"} THEN {} ELSE UseFields(inst)
        rewritten(field) == IF field \in fields /\ Knows(copy, inst[field])
                            THEN copy[inst[field]] ELSE inst[field]
    IN  [inst EXCEPT !.arg0 = rewritten("arg0"), !.arg1 = rewritten("arg1"),
                     !.result = rewritten("result")]

EligibleCopy(proc, inst, taken) ==
    /\ inst.op = "Assign" /\ {inst.arg0, inst.result} \cap taken = {}
    /\ IsTemp(proc, inst.arg0) /\ IsTemp(proc, inst.result)
    /\ SameKind(proc, inst.arg0, inst.result)

CopyPropagate(proc) ==
    LET taken == AddressTaken(proc.body)
        copiesAfter(inst, copy) ==
            LET rest == ForgetAll(copy, Defs(inst))
            IN  IF inst.op = "Call" THEN Nothing
                ELSE IF EligibleCopy(proc, inst, taken)
                THEN Note(rest, inst.result, SameRoot(rest, inst.arg0)) ELSE rest
        step(acc, inst) ==
            LET rewritten == RewriteUses(inst, acc.copy)
                keep == OnlyFallenInto(proc.body, inst.arg0, acc.fall)
            IN  IF inst.op = "Label"
                THEN [body |-> Append(acc.body, inst), fall |-> TRUE,
                      copy |-> IF keep THEN acc.copy ELSE Nothing]
                ELSE [body |-> Append(acc.body, rewritten),
                      fall |-> StillFalls(acc.fall, rewritten),
                      copy |-> copiesAfter(rewritten, acc.copy)]
    IN  [proc EXCEPT !.body =
            Walk(step, [body |-> <<>>, copy |-> Nothing, fall |-> TRUE], proc.body).body]

(* --- eliminateDeadTemps ----------------------------------------------------- *)

(* Division stays: it may trap.  A volatile operand stays as well.          *)
IsDead(proc, body, live, i) ==
    LET inst == body[i]
    IN  /\ inst.op \in PureOps \ {"Div"} /\ Known(proc, inst.result)
        /\ \A id \in {inst.arg0, inst.arg1, inst.result} : ~IsVolatile(proc, id)
        /\ inst.result \notin live[i] \cup AddressTaken(body)

WithoutDead(proc, body, live) ==
    KeepAt(body, {i \in DOMAIN body : ~IsDead(proc, body, live, i)})
Settle(acc, next) == [body |-> next, done |-> next = acc.body]
OnlyLocalsOf(proc, body) ==
    LET remaining == UNION {Mentions(body[i]) : i \in DOMAIN body} \cup AddressTaken(body)
        stays(id) == IsVolatile(proc, id) \/ id \in remaining
    IN  [proc EXCEPT !.body = body, !.locals = SelectSeq(@, stays)]
EliminateDeadTemps(proc) ==
    OnlyLocalsOf(proc,
        Walk(LAMBDA acc, inst : IF acc.done THEN acc
                    ELSE Settle(acc, WithoutDead(proc, acc.body, LiveAfter(acc.body))),
             [body |-> proc.body, done |-> FALSE], proc.body).body)

(* --- valueNumber ------------------------------------------------------------- *)

(* number maps an expression over stable operands to the temporary that    *)
(* has its value.                                                          *)
KillNumbers(number, ids) ==
    Restrict(number, {key \in DOMAIN number :
                         {key[2], key[3], number[key]} \cap ids = {}})
SameNumbers(left, right) ==
    Restrict(left, {key \in DOMAIN left : Knows(right, key) /\ left[key] = right[key]})

Numberable(proc, inst, taken) ==
    LET stable(id) == id = NoSymbol \/ (Known(proc, id) /\ ~IsVolatile(proc, id) /\ id \notin taken)
    IN  /\ inst.op \in BinaryOps \cup {"UnaryMinus"}
        /\ IsTemp(proc, inst.result) /\ stable(inst.result)
        /\ stable(inst.arg0) /\ stable(inst.arg1)

(* At a label with two ways in, both already walked, the expressions that  *)
(* have the same temporary on both survive.                                *)
NumbersAtLabel(body, label, acc) ==
    LET incoming == IF Knows(acc.reached, label) THEN acc.reached[label] ELSE <<>>
        joins == LabelPredCount(body, label) = 2 /\ incoming # <<>>
                   /\ Len(incoming) + (IF acc.fall THEN 1 ELSE 0) = 2
    IN  CASE OnlyFallenInto(body, label, acc.fall) -> acc.number
          [] joins /\ acc.fall -> SameNumbers(acc.number, incoming[1])
          [] joins /\ ~acc.fall -> SameNumbers(incoming[1], incoming[2])
          [] OTHER -> Nothing

ValueNumber(proc) ==
    LET taken == AddressTaken(proc.body)
        numbered(inst, acc) ==
            LET key == <<inst.op, inst.arg0, inst.arg1>>
                rest == KillNumbers(acc.number, Defs(inst))
                found == Knows(rest, key) /\ SameKind(proc, rest[key], inst.result)
                fresh == ~found /\ inst.result \notin {inst.arg0, inst.arg1}
            IN  IF ~Numberable(proc, inst, taken)
                THEN [inst |-> inst, number |-> IF inst.op = "Call" THEN Nothing ELSE rest]
                ELSE [inst |-> IF found THEN AssignI(rest[key], inst.result) ELSE inst,
                      number |-> IF fresh THEN Note(rest, key, inst.result) ELSE rest]
        reachedAfter(inst, acc, number) ==
            IF inst.op # "Jump" THEN acc.reached
            ELSE Note(acc.reached, inst.arg0,
                      Append(IF Knows(acc.reached, inst.arg0) THEN acc.reached[inst.arg0] ELSE <<>>,
                             number))
        step(acc, inst) ==
            LET now == numbered(inst, acc)
            IN  IF inst.op = "Label"
                THEN [acc EXCEPT !.body = Append(@, inst), !.fall = TRUE,
                                 !.number = NumbersAtLabel(proc.body, inst.arg0, acc)]
                ELSE [body |-> Append(acc.body, now.inst), number |-> now.number,
                      reached |-> reachedAfter(inst, acc, now.number),
                      fall |-> StillFalls(acc.fall, inst)]
    IN  [proc EXCEPT !.body = Walk(step, [body |-> <<>>, number |-> Nothing,
                                              reached |-> Nothing, fall |-> TRUE], proc.body).body]

(* --- reuseAssignConstants ------------------------------------------------------ *)

(* live maps a constant of a kind to the temporary that holds it, alias a  *)
(* temporary to the one read in its place.                                 *)
ReuseAssignConstants(proc) ==
    LET taken == AddressTaken(proc.body)
        reusable(inst) == inst.op = "AssignConstant" /\ IsTemp(proc, inst.result)
                            /\ Foldable(proc, inst.result) /\ inst.result \notin taken
        holding(live, ids) == Restrict(live, {c \in DOMAIN live : live[c] \notin ids})
        shared(inst, acc) ==
            LET key == <<inst.imm, proc.values[inst.result].kind>>
                live == holding(acc.live, Defs(inst))
                alias == ForgetAll(acc.alias, Defs(inst))
            IN  CASE ~reusable(inst) -> [inst |-> inst, live |-> live, alias |-> alias]
                  [] reusable(inst) /\ Knows(live, key) ->
                        [inst |-> AssignI(live[key], inst.result), live |-> live,
                         alias |-> Note(alias, inst.result, live[key])]
                  [] OTHER -> [inst |-> inst, live |-> Note(live, key, inst.result),
                               alias |-> alias]
        step(acc, inst) ==
            LET now == shared(RewriteUses(inst, acc.alias), acc)
                keep == OnlyFallenInto(proc.body, inst.arg0, acc.fall)
            IN  IF inst.op = "Label"
                THEN [body |-> Append(acc.body, inst), fall |-> TRUE,
                      live |-> IF keep THEN acc.live ELSE Nothing,
                      alias |-> IF keep THEN acc.alias ELSE Nothing]
                ELSE [body |-> Append(acc.body, now.inst), live |-> now.live, alias |-> now.alias,
                      fall |-> StillFalls(acc.fall, inst)]
    IN  [proc EXCEPT !.body = Walk(step, [body |-> <<>>, live |-> Nothing, alias |-> Nothing,
                                              fall |-> TRUE], proc.body).body]
=============================================================================
