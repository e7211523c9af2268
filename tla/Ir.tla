--------------------------------- MODULE Ir ---------------------------------
(***************************************************************************)
(* The intermediate representation between the code generator and the      *)
(* register cache: instructions over symbol ids, procedures, and what an   *)
(* instruction uses and defines (codegen/Instruction.h, Instruction.cpp,   *)
(* SymbolRefs.cpp, IrBuilders.h).                                          *)
(*                                                                         *)
(* Ids are natural numbers handed out by the string table; labels have     *)
(* numbers of their own.  A constant is kept as its value in imm instead   *)
(* of the id of its text.  The operators the passes treat like Add (And,   *)
(* Or, Xor, Shl, Shr), like UnaryMinus (UnaryNot, Widen, Bswap, Ctz) and   *)
(* like Div (Mod) are represented by them; variable arguments, aggregates  *)
(* and alloca are left out.                                                *)
(***************************************************************************)
EXTENDS Integers, FiniteSets, Sequences, SequencesExt

(* FoldLeft, one element after the other: each result is there before the  *)
(* next step is taken, which spares TLC a step inside a step inside a step.*)
Walk(step(_, _), start, seq) ==
    LET upTo[i \in 0..Len(seq)] ==
            IF i = 0 THEN start
            ELSE LET before == upTo[i - 1]
                 IN  IF before = before THEN step(before, seq[i]) ELSE before
    IN  upTo[Len(seq)]

(* The places of a sequence, in order, and its elements at some of them. *)
Places(seq) == [i \in DOMAIN seq |-> i]
KeepAt(seq, places) == FlattenSeq([i \in DOMAIN seq |-> IF i \in places THEN <<seq[i]>> ELSE <<>>])

(* The elements of a set in order; Before is strict and total on it. *)
Sorted(S, Before(_, _)) ==
    [i \in 1..Cardinality(S) |-> CHOOSE x \in S : Cardinality({y \in S : Before(y, x)}) = i - 1]
Ascending(S) == Sorted(S, LAMBDA x, y : x < y)

NoSymbol == 0

Blank == [op |-> "VoidReturn", arg0 |-> NoSymbol, arg1 |-> NoSymbol,
          result |-> NoSymbol, imm |-> 0, cond |-> "UNCONDITIONAL"]

Binary(op, left, right, result) ==
    [Blank EXCEPT !.op = op, !.arg0 = left, !.arg1 = right, !.result = result]
Unary(op, arg, result) == [Blank EXCEPT !.op = op, !.arg0 = arg, !.result = result]
AssignI(source, result) == Unary("Assign", source, result)
ConstantI(value, result) == [Blank EXCEPT !.op = "AssignConstant", !.imm = value, !.result = result]
StoreI(source, pointer) == Unary("LvalueAssign", source, pointer)
IncI(id, step) == [Blank EXCEPT !.op = "Inc", !.arg0 = id, !.imm = step]
Plain(op, id) == [Blank EXCEPT !.op = op, !.arg0 = id]
LabelI(label) == Plain("Label", label)
JumpI(label) == Plain("Jump", label)
JumpIf(cond, label) == [JumpI(label) EXCEPT !.cond = cond, !.imm = 1]
CompareI(left, right) == Binary("ValueCompare", left, right, NoSymbol)
RetrieveI(result) == [Blank EXCEPT !.op = "Retrieve", !.result = result]
ReturnNothing == Blank

BinaryOps == {"Add", "Sub", "Mul", "Div"}
UnaryOps == {"UnaryMinus", "Assign", "AddressOf", "Dereference"}
(* The expressions the passes may compute elsewhere or not at all. *)
PureOps == BinaryOps \cup UnaryOps \cup {"AssignConstant", "FunctionAddress"}

Ops == PureOps \cup {"Inc", "ValueCompare", "ZeroCompare", "LvalueAssign", "Jump", "Label",
                     "Argument", "Call", "Retrieve", "Return", "VoidReturn"}

Conditions == {"UNCONDITIONAL", "IF_EQUAL", "IF_NOT_EQUAL", "IF_BELOW", "IF_ABOVE_OR_EQUAL"}

Instructions ==
    [op : Ops, arg0 : Nat, arg1 : Nat, result : Nat, imm : Int, cond : Conditions]

(* InstructionClass::Terminator. *)
TransfersControl(inst) == inst.op \in {"Jump", "Return", "VoidReturn"}
LeavesForGood(inst) == TransfersControl(inst) /\ inst.cond = "UNCONDITIONAL"

(* collectSymbolRefs: the fields that name what an instruction reads. *)
UseFields(inst) ==
    CASE inst.op \in BinaryOps \cup {"ValueCompare"} -> {"arg0", "arg1"}
      [] inst.op \in UnaryOps \cup {"Inc", "ZeroCompare", "Argument", "Return"} -> {"arg0"}
      [] inst.op = "LvalueAssign" -> {"arg0", "result"}
      [] OTHER -> {}

Uses(inst) == {inst[field] : field \in UseFields(inst)} \ {NoSymbol}

Defs(inst) ==
    (CASE inst.op \in PureOps \cup {"Retrieve"} -> {inst.result}
       [] inst.op = "Inc" -> {inst.arg0}
       [] OTHER -> {}) \ {NoSymbol}

Mentions(inst) == Uses(inst) \cup Defs(inst)
AddressOfBase(inst) == IF inst.op = "AddressOf" THEN inst.arg0 ELSE NoSymbol
AddressTaken(body) == {AddressOfBase(body[i]) : i \in DOMAIN body} \ {NoSymbol}

(* A procedure: its formals and locals in frame order, what is known of    *)
(* each (Value), its linear body, and where packing put each value.        *)
Known(proc, id) == id \in DOMAIN proc.values
IsTemp(proc, id) == Known(proc, id) /\ proc.values[id].temp
IsVolatile(proc, id) == Known(proc, id) /\ proc.values[id].volatile
(* Type, size and extension of two values agree. *)
SameKind(proc, left, right) ==
    Known(proc, left) /\ Known(proc, right) /\ proc.values[left].kind = proc.values[right].kind
(* isFoldableInteger: pointers fold as well, wide values do not. *)
Foldable(proc, id) == Known(proc, id) /\ ~IsVolatile(proc, id) /\ proc.values[id].kind # "wide"

Labels(body) == {body[i].arg0 : i \in {j \in DOMAIN body : body[j].op = "Label"}}
=============================================================================
