---------------------------- MODULE CodeGeneration ----------------------------
(***************************************************************************)
(* Lowering of a checked syntax tree to instructions                       *)
(* (CodeGeneratingVisitor_Expressions.cpp, _Control.cpp, _Calls.cpp,       *)
(* _Lvalue.cpp), for the part of C that has integers, pointers to them,    *)
(* volatile, calls of functions by their names, and every statement.       *)
(*                                                                         *)
(* A tree is a record with its kind in k.  The state g of the visitor is   *)
(* the procedure so far, with the result symbol and the address of the     *)
(* expression visited last.  Temporaries and labels are numbered in the    *)
(* order of their emission.                                                *)
(***************************************************************************)
EXTENDS Ir

(* --- trees ---------------------------------------------------------------- *)

Var(id) == [k |-> "var", id |-> id]
Num(v) == [k |-> "num", v |-> v]
Bin(op, l, r) == [k |-> "bin", op |-> op, l |-> l, r |-> r]
Cmp(cond, l, r) == [k |-> "cmp", cond |-> cond, l |-> l, r |-> r]
Neg(e) == [k |-> "neg", e |-> e]
NotE(e) == [k |-> "not", e |-> e]
Both(l, r) == [k |-> "and", l |-> l, r |-> r]
Either(l, r) == [k |-> "or", l |-> l, r |-> r]
Cond(c, l, r) == [k |-> "cond", c |-> c, l |-> l, r |-> r]
Addr(id) == [k |-> "addr", id |-> id]
At(e) == [k |-> "deref", e |-> e]
Set(l, r) == [k |-> "assign", l |-> l, r |-> r]
Change(op, l, r) == [k |-> "update", op |-> op, l |-> l, r |-> r]
Pre(l, step) == [k |-> "prefix", l |-> l, step |-> step]
Post(l, step) == [k |-> "postfix", l |-> l, step |-> step]
CallOf(f, args) == [k |-> "call", f |-> f, args |-> args, void |-> FALSE]
VoidCall(f, args) == [CallOf(f, args) EXCEPT !.void = TRUE]

Do(e) == [k |-> "expression", e |-> e]
Block(s) == [k |-> "block", s |-> s]
If(c, s, otherwise) == [k |-> "if", c |-> c, s |-> s, otherwise |-> otherwise]
While(c, s) == [k |-> "while", c |-> c, s |-> s]
DoWhile(s, c) == [k |-> "dowhile", c |-> c, s |-> s]
For(init, c, step, s) == [k |-> "for", init |-> init, c |-> c, step |-> step, s |-> s]
Switch(e, arms) == [k |-> "switch", e |-> e, arms |-> arms]
Case(v, s) == [default |-> FALSE, v |-> v, s |-> s]
Default(s) == [default |-> TRUE, v |-> 0, s |-> s]
Break == [k |-> "break"]
Continue == [k |-> "continue"]
Goto(name) == [k |-> "goto", name |-> name]
Labeled(name, s) == [k |-> "label", name |-> name, s |-> s]
ReturnE(e) == [k |-> "return", e |-> e]
ReturnV == [k |-> "returnvoid"]

(* --- the visitor ----------------------------------------------------------- *)

Put(g, inst) == [g EXCEPT !.body = Append(@, inst)]
PutAll(g, insts) == [g EXCEPT !.body = @ \o insts]
Yields(g, id) == [g EXCEPT !.result = id]

Temp(g, kind) ==
    [g EXCEPT !.locals = Append(@, g.freshId), !.freshId = @ + 1, !.result = g.freshId,
              !.values = (g.freshId :> [kind |-> kind, temp |-> TRUE, volatile |-> FALSE]) @@ @]

(* An int result with the qualifiers of an operand: promotion and the usual *)
(* conversions keep the left operand's type as it is.                      *)
TempLike(g, id) ==
    LET t == Temp(g, "int")
    IN  [t EXCEPT !.values[t.result].volatile = id \in DOMAIN g.values /\ g.values[id].volatile]

(* n labels, g.freshLabel onwards. *)
TakeLabels(g, n) == [g EXCEPT !.freshLabel = @ + n]

Pointee(g, id) == IF id \in g.pointsToPointer THEN "pointer" ELSE "int"

(* emitLvalueStore: what is assigned through a pointer goes to memory.      *)
StoreBack(g, target, lvalue) ==
    IF target.k = "deref" THEN Put(g, StoreI(g.result, lvalue)) ELSE g

(* A truth value: 0 unless jumped over to 1. *)
ZeroOrOne(g, truthy, result) ==
    PutAll(g, <<ConstantI(0, result), JumpI(truthy + 1), LabelI(truthy),
                ConstantI(1, result), LabelI(truthy + 1)>>)

RECURSIVE Visit(_, _), VisitAll(_, _, _)

JumpOn(g, cond, label) == PutAll(g, <<Plain("ZeroCompare", g.result), JumpIf(cond, label)>>)
Test(g, e, cond, label) == JumpOn(Visit(g, e), cond, label)

VisitBinary(g, e) ==
    LET l == Visit(g, e.l)
        r == Visit(l, e.r)
        t == TempLike(r, l.result)
    IN  Put(t, Binary(e.op, l.result, r.result, t.result))

VisitComparison(g, e) ==
    LET l == Visit(g, e.l)
        r == Visit(l, e.r)
        t == Temp(TakeLabels(r, 2), "int")
    IN  ZeroOrOne(PutAll(t, <<CompareI(l.result, r.result), JumpIf(e.cond, r.freshLabel)>>),
                  r.freshLabel, t.result)

VisitNot(g, e) ==
    LET o == Visit(g, e.e)
        t == Temp(TakeLabels(o, 2), "int")
    IN  ZeroOrOne(PutAll(t, <<Plain("ZeroCompare", o.result), JumpIf("IF_EQUAL", o.freshLabel)>>),
                  o.freshLabel, t.result)

(* && and ||: the value that leaves early is there before the left test.    *)
VisitLogical(g, e) ==
    LET early == IF e.k = "and" THEN 0 ELSE 1
        out == IF e.k = "and" THEN "IF_EQUAL" ELSE "IF_NOT_EQUAL"
        l == Visit(TakeLabels(g, 1), e.l)
        t == Temp(l, "int")
        tested == PutAll(t, <<ConstantI(early, t.result), Plain("ZeroCompare", l.result),
                              JumpIf(out, g.freshLabel)>>)
        r == Test(tested, e.r, out, g.freshLabel)
    IN  Yields(PutAll(r, <<ConstantI(1 - early, t.result), LabelI(g.freshLabel)>>), t.result)

VisitConditional(g, e) ==
    LET falsy == g.freshLabel
        l == Visit(Test(TakeLabels(g, 2), e.c, "IF_EQUAL", falsy), e.l)
        t == TempLike(l, l.result)
        r == Visit(PutAll(t, <<AssignI(l.result, t.result), JumpI(falsy + 1), LabelI(falsy)>>), e.r)
    IN  Yields(PutAll(r, <<AssignI(r.result, t.result), LabelI(falsy + 1)>>), t.result)

VisitAssignment(g, e) ==
    LET l == Visit(g, e.l)
        r == Visit(l, e.r)
        inst == IF e.k = "assign" THEN AssignI(r.result, l.result)
                ELSE Binary(e.op, l.result, r.result, l.result)
    IN  StoreBack(Yields(Put(r, inst), l.result), e.l, l.lvalue)

VisitPrefix(g, e) ==
    LET l == Visit(g, e.l) IN StoreBack(Put(l, IncI(l.result, e.step)), e.l, l.lvalue)

VisitPostfix(g, e) ==
    LET l == Visit(g, e.l)
        t == TempLike(l, l.result)
        stepped == PutAll(t, <<AssignI(l.result, t.result), IncI(l.result, e.step)>>)
    IN  Yields(StoreBack(Yields(stepped, l.result), e.l, l.lvalue), t.result)

VisitCall(g, e) ==
    LET target == Temp(g, "pointer")
        args == VisitAll(Put(target, [Unary("FunctionAddress", NoSymbol, target.result) EXCEPT !.imm = e.f]),
                         e.args, <<>>)
        called == PutAll(args.g, [i \in DOMAIN args.ids |-> Plain("Argument", args.ids[i])]
                                    \o <<[Plain("Call", NoSymbol) EXCEPT !.imm = e.f]>>)
        t == Temp(called, "int")
    IN  IF e.void THEN called ELSE Put(t, RetrieveI(t.result))

Visit(g, e) ==
    CASE e.k = "var" -> Yields(g, e.id)
      [] e.k = "num" -> LET t == Temp(g, "int") IN Put(t, ConstantI(e.v, t.result))
      [] e.k = "bin" -> VisitBinary(g, e)
      [] e.k = "cmp" -> VisitComparison(g, e)
      [] e.k = "neg" -> LET o == Visit(g, e.e)
                            t == TempLike(o, o.result)
                        IN  Put(t, Unary("UnaryMinus", o.result, t.result))
      [] e.k = "not" -> VisitNot(g, e)
      [] e.k \in {"and", "or"} -> VisitLogical(g, e)
      [] e.k = "cond" -> VisitConditional(g, e)
      [] e.k = "addr" -> LET t == Temp(g, "pointer") IN Put(t, Unary("AddressOf", e.id, t.result))
      [] e.k = "deref" -> LET p == Visit(g, e.e)
                              t == Temp(p, Pointee(g, p.result))
                          IN  [Put(t, Unary("Dereference", p.result, t.result)) EXCEPT !.lvalue = p.result]
      [] e.k \in {"assign", "update"} -> VisitAssignment(g, e)
      [] e.k = "prefix" -> VisitPrefix(g, e)
      [] e.k = "postfix" -> VisitPostfix(g, e)
      [] e.k = "call" -> VisitCall(g, e)

VisitAll(g, es, ids) ==
    IF es = <<>> THEN [g |-> g, ids |-> ids]
    ELSE LET first == Visit(g, Head(es)) IN VisitAll(first, Tail(es), Append(ids, first.result))

(* --- statements: out and again are where break and continue lead ----------- *)

RECURSIVE Lower(_, _, _, _), LowerAll(_, _, _, _)

AfterThen(g, s, falsy, out, again) ==
    IF s.otherwise = <<>> THEN Put(g, LabelI(falsy))
    ELSE Put(Lower(PutAll(g, <<JumpI(falsy + 1), LabelI(falsy)>>), Block(s.otherwise), out, again),
             LabelI(falsy + 1))
LowerIf(g, s, out, again) ==
    AfterThen(Lower(Test(TakeLabels(g, 2), s.c, "IF_EQUAL", g.freshLabel), s.s, out, again),
              s, g.freshLabel, out, again)

(* While and for: a loop of the latter continues before its step.           *)
LoopBody(g, s, entry, next) ==
    Lower(Test(Put(g, LabelI(entry)), s.c, "IF_EQUAL", entry + 1), s.s, entry + 1, next)
LoopBack(g, entry) == PutAll(g, <<JumpI(entry), LabelI(entry + 1)>>)
LowerWhile(g, s) ==
    LET entry == g.freshLabel IN LoopBack(LoopBody(TakeLabels(g, 3), s, entry, entry), entry)
LowerFor(g, s) ==
    LET entry == g.freshLabel
    IN  LoopBack(Visit(Put(LoopBody(Visit(TakeLabels(g, 3), s.init), s, entry, entry + 2),
                           LabelI(entry + 2)),
                       s.step),
                 entry)

LowerDoWhile(g, s) ==
    LET entry == g.freshLabel
        again == LabelI(entry + 1)
    IN  Put(Test(Put(Lower(Put(TakeLabels(g, 3), LabelI(entry)), s.s, entry + 2, entry + 1), again),
                 s.c, "IF_NOT_EQUAL", entry),
            LabelI(entry + 2))

(* The tests of a switch, then its body with a label at each case: exit     *)
(* and the labels of the arms follow each other.                           *)
SwitchOn(g, subject, s, exit, again) ==
    LET default == {i \in DOMAIN s.arms : s.arms[i].default}
        test(i) == IF s.arms[i].default THEN <<>>
                   ELSE <<ConstantI(s.arms[i].v, g.result), CompareI(subject, g.result),
                          JumpIf("IF_EQUAL", exit + i)>>
        tests == FlattenSeq([i \in DOMAIN s.arms |-> test(i)])
        otherwise == IF default = {} THEN exit ELSE exit + (CHOOSE i \in default : TRUE)
        arm(a, i) == Lower(Put(a, LabelI(exit + i)), s.arms[i].s, exit, again)
    IN  Put(Walk(arm, PutAll(g, tests \o <<JumpI(otherwise)>>), Places(s.arms)), LabelI(exit))
TestedFor(g, s, exit, again) == SwitchOn(Temp(g, "int"), g.result, s, exit, again)
LowerSwitch(g, s, again) ==
    TestedFor(Visit(TakeLabels(g, Len(s.arms) + 1), s.e), s, g.freshLabel, again)

ReturnResult(g) == Put(g, Plain("Return", g.result))

Lower(g, s, out, again) ==
    CASE s.k = "expression" -> Visit(g, s.e)
      [] s.k = "block" -> LowerAll(g, s.s, out, again)
      [] s.k = "if" -> LowerIf(g, s, out, again)
      [] s.k = "while" -> LowerWhile(g, s)
      [] s.k = "for" -> LowerFor(g, s)
      [] s.k = "dowhile" -> LowerDoWhile(g, s)
      [] s.k = "switch" -> LowerSwitch(g, s, again)
      [] s.k = "break" -> Put(g, JumpI(out))
      [] s.k = "continue" -> Put(g, JumpI(again))
      [] s.k = "goto" -> Put(g, JumpI(s.name))
      [] s.k = "label" -> Lower(Put(g, LabelI(s.name)), s.s, out, again)
      [] s.k = "return" -> ReturnResult(Visit(g, s.e))
      [] s.k = "returnvoid" -> Put(g, ReturnNothing)

LowerAll(g, ss, out, again) ==
    IF ss = <<>> THEN g ELSE LowerAll(Lower(g, Head(ss), out, again), Tail(ss), out, again)

(* The visitor before the first statement, and the procedure it leaves.    *)
Entered(f, freshId, freshLabel) ==
    [body |-> <<>>, values |-> f.values, locals |-> f.locals, freshId |-> freshId,
     freshLabel |-> freshLabel, result |-> NoSymbol, lvalue |-> NoSymbol,
     pointsToPointer |-> f.pointsToPointer]
Left(f, g) ==
    [name |-> f.name, arguments |-> f.arguments, locals |-> g.locals, values |-> g.values, body |-> g.body,
     home |-> <<>>, freshId |-> g.freshId, freshLabel |-> g.freshLabel]

(* A function definition: f has its number, its formals, its locals, what  *)
(* is known of them, which of them point to pointers, and its statements.  *)
(* Ids and labels from freshId and freshLabel are unused.                  *)
Generate(f, freshId, freshLabel) ==
    Left(f, LowerAll(Entered(f, freshId, freshLabel), f.statements, NoSymbol, NoSymbol))
=============================================================================
