------------------------------ MODULE IrMachine ------------------------------
(***************************************************************************)
(* What a unit of procedures means, whatever registers and words they are  *)
(* given: the run of its first procedure from given arguments, as the      *)
(* calls of functions elsewhere, the accesses of volatile objects and the  *)
(* result somebody else can see.  The reference the passes are held        *)
(* against.                                                                *)
(*                                                                         *)
(* A value is a word, the address of an object or Junk, what an object     *)
(* holds before it is written.  A run that divides by zero, follows        *)
(* anything but an address, or decides on Junk ends "undefined": what the  *)
(* source leaves undefined the passes may change.                          *)
(*                                                                         *)
(* An object is a number: the id of a global, or that of a value of a      *)
(* procedure with the procedure and the depth of its call before it.  What *)
(* is seen of an address is the place of its object among those exposed so *)
(* far, so a call and its copy, whose objects have other names, look the   *)
(* same.                                                                   *)
(***************************************************************************)
EXTENDS Ir, MachineWords

CONSTANT Fuel       \* bound on the instructions of a run

ASSUME FuelAssumption == Fuel \in Nat

Junk == -1
Span == 1000        \* more than there are ids
AddressFor(object) == Span + object
Target(v) == v - Span
IsAddress(v) == v >= Span

(* Fewer than ten procedures. *)
Owner(depth, k) == (depth * 10 + k) * Span
Object(proc, m, id) == IF Known(proc, id) THEN m.owner + id ELSE id
ProcedureOf(unit, object) == unit[(object \div Span) % 10]

(* Where an object lives: its word of the frame once the frame is packed.  *)
Cell(unit, object) ==
    LET id == object % Span
        home == IF object < Span THEN <<>> ELSE ProcedureOf(unit, object).home
    IN  IF id \in DOMAIN home THEN -(object - id + home[id]) ELSE object

(* callers: what the procedures that wait for this one go on with. *)
Start(unit, input) ==
    LET owner == Owner(1, 1)
        object(id) == IF Known(unit[1], id) THEN owner + id ELSE id
    IN  [proc |-> 1, owner |-> owner, pc |-> 1, flags |-> <<Junk, Junk>>, arguments |-> <<>>,
         callers |-> <<>>, end |-> "running", retrieved |-> Junk,
         cells |-> [c \in {object(id) : id \in DOMAIN input} |-> input[c % Span]],
         exposed |-> Ascending({id \in DOMAIN input : ~Known(unit[1], id)}), trace |-> <<>>]

Content(unit, m, object) ==
    LET c == Cell(unit, object) IN IF c \in DOMAIN m.cells THEN m.cells[c] ELSE Junk

(* A volatile object has another value each time it is looked at.  A        *)
(* temporary of a volatile type is no object.                              *)
VolatileObject(unit, object) ==
    LET id == object % Span
    IN  object > Span /\ IsVolatile(ProcedureOf(unit, object), id)
                      /\ ~IsTemp(ProcedureOf(unit, object), id)

Read(unit, m, object) ==
    LET v == Content(unit, m, object)
        drifted == IF v \in Word THEN Wrap(v + Len(m.trace)) ELSE v
    IN  IF VolatileObject(unit, object) THEN [m |-> [m EXCEPT !.trace = Append(@, <<"read", v>>)], v |-> drifted]
        ELSE [m |-> m, v |-> v]

Write(unit, m, object, v) ==
    [m EXCEPT !.cells = (Cell(unit, object) :> v) @@ @,
              !.trace = IF VolatileObject(unit, object) THEN Append(@, <<"write", v>>) ELSE @]

(* Everything a function elsewhere can get at, in the order in which it is *)
(* found.                                                                  *)
RECURSIVE Exposed(_, _, _, _)
Exposed(unit, m, given, objects) ==
    LET all == given \o [k \in DOMAIN objects |-> Content(unit, m, objects[k])]
        leads == {k \in DOMAIN all : IsAddress(all[k]) /\ Target(all[k]) \notin ToSet(objects)}
    IN  IF leads = {} THEN objects
        ELSE Exposed(unit, m, given,
                     Append(objects, Target(all[CHOOSE k \in leads : \A l \in leads : k <= l])))

(* What somebody elsewhere sees of a value and of the memory. *)
Seen(v, exposed) ==
    IF IsAddress(v) THEN Span + (CHOOSE k \in DOMAIN exposed : exposed[k] = Target(v)) ELSE v
Snapshot(unit, m, exposed) ==
    [k \in DOMAIN exposed |-> Seen(Content(unit, m, exposed[k]), exposed)]
SeenAll(values, exposed) == [k \in DOMAIN values |-> Seen(values[k], exposed)]

(* A call of a function elsewhere: it sees its arguments and what it can   *)
(* reach, and leaves other words in all of it.                             *)
Touched(unit, m, f, exposed) ==
    LET changed(v) == IF IsAddress(v) THEN v ELSE IF v = Junk THEN 3 ELSE Wrap(v + Len(m.trace) + 1)
        cells == [c \in {Cell(unit, exposed[k]) : k \in DOMAIN exposed} |->
                    changed(IF c \in DOMAIN m.cells THEN m.cells[c] ELSE Junk)]
    IN  [m EXCEPT !.trace = Append(@, <<"call", f, SeenAll(m.arguments, exposed), Snapshot(unit, m, exposed)>>),
                  !.cells = cells @@ @, !.exposed = exposed, !.arguments = <<>>,
                  !.retrieved = Wrap(Len(m.trace) + 2), !.pc = @ + 1]
External(unit, m, f) == Touched(unit, m, f, Exposed(unit, m, m.arguments, m.exposed))

(* A call of procedure k of the unit, whose formals are objects of their   *)
(* own that the arguments are written to, and the return from one.         *)
EnterWith(unit, m, k, owner) ==
    LET formals == unit[k].arguments
        pass(n, i) == Write(unit, n, owner + formals[i], m.arguments[i])
    IN  [Walk(pass, m, Places(formals)) EXCEPT
            !.callers = Append(@, [proc |-> m.proc, owner |-> m.owner, pc |-> m.pc + 1]),
            !.proc = k, !.owner = owner, !.pc = 1, !.arguments = <<>>]
Enter(unit, m, k) == EnterWith(unit, m, k, Owner(Len(m.callers) + 2, k))
Leave(m, v) ==
    [m EXCEPT !.proc = Last(m.callers).proc, !.owner = Last(m.callers).owner,
              !.pc = Last(m.callers).pc, !.callers = Front(@), !.retrieved = v]

Undefined(m) == [m EXCEPT !.end = "undefined"]
Onward(m) == [m EXCEPT !.pc = @ + 1]

Computed(op, l, r) == IF l \in Word /\ r \in Word THEN Compute(op, l, r) ELSE Junk

JumpTo(proc, m, label) ==
    [m EXCEPT !.pc = CHOOSE i \in DOMAIN proc.body : proc.body[i] = LabelI(label)]

Finished(unit, m, v, exposed) ==
    [m EXCEPT !.end = "returned", !.trace = Append(@, <<"return", Seen(v, exposed), Snapshot(unit, m, exposed)>>)]
Return(unit, m, v) ==
    IF m.callers # <<>> THEN Leave(m, v)
    ELSE Finished(unit, m, v, Exposed(unit, m, <<v>>, m.exposed))

Call(unit, m, f) ==
    LET known == {k \in DOMAIN unit : unit[k].name = f}
    IN  IF known = {} THEN External(unit, m, f) ELSE Enter(unit, m, CHOOSE k \in known : TRUE)

(* One instruction, its operands read from left to right. *)
Execute(unit, proc, m) ==
    LET inst == proc.body[m.pc]
        read(n, id) == Read(unit, n, Object(proc, m, id))
        first == read(m, inst.arg0)
        second == read(first.m, inst.arg1)
        pointer == read(first.m, inst.result)
        through == Read(unit, first.m, Target(first.v))
        decided == inst.cond = "UNCONDITIONAL" \/ Junk \notin ToSet(m.flags)
        result(n, v) == Onward(Write(unit, n, Object(proc, m, inst.result), v))
    IN  CASE inst.op = "Label" -> Onward(m)
          [] inst.op = "AssignConstant" -> result(m, inst.imm)
          [] inst.op = "FunctionAddress" -> result(m, inst.imm)
          [] inst.op = "AddressOf" -> result(m, AddressFor(Object(proc, m, inst.arg0)))
          [] inst.op = "Assign" -> result(first.m, first.v)
          [] inst.op = "UnaryMinus" ->
                result(first.m, IF first.v \in Word THEN Wrap(-first.v) ELSE Junk)
          [] inst.op = "Div" /\ ~(first.v \in Word /\ second.v \in Word /\ Divides(first.v, second.v)) ->
                Undefined(m)
          [] inst.op \in BinaryOps -> result(second.m, Computed(inst.op, first.v, second.v))
          [] inst.op = "Inc" ->
                Onward(Write(unit, first.m, Object(proc, m, inst.arg0),
                             IF first.v \in Word THEN Wrap(first.v + inst.imm) ELSE Junk))
          [] inst.op = "Dereference" ->
                IF IsAddress(first.v) THEN result(through.m, through.v) ELSE Undefined(m)
          [] inst.op = "LvalueAssign" ->
                IF IsAddress(pointer.v) THEN Onward(Write(unit, pointer.m, Target(pointer.v), first.v))
                ELSE Undefined(m)
          [] inst.op = "ZeroCompare" -> Onward([first.m EXCEPT !.flags = <<first.v, 0>>])
          [] inst.op = "ValueCompare" -> Onward([second.m EXCEPT !.flags = <<first.v, second.v>>])
          [] inst.op = "Jump" ->
                IF ~decided THEN Undefined(m)
                ELSE IF inst.cond = "UNCONDITIONAL" \/ Holds(inst.cond, m.flags[1], m.flags[2])
                THEN JumpTo(proc, m, inst.arg0) ELSE Onward(m)
          [] inst.op = "Argument" -> Onward([first.m EXCEPT !.arguments = Append(@, first.v)])
          [] inst.op = "Call" -> Call(unit, m, inst.imm)
          [] inst.op = "Retrieve" -> result(m, m.retrieved)
          [] inst.op = "Return" ->
                IF first.v = Junk THEN Undefined(m) ELSE Return(unit, first.m, first.v)
          [] inst.op = "VoidReturn" -> Return(unit, m, 0)

RECURSIVE Go(_, _, _)
Go(unit, m, n) ==
    IF m.end # "running" \/ n = 0 THEN m
    ELSE IF m.pc \notin DOMAIN unit[m.proc].body THEN Undefined(m)
    ELSE Go(unit, Execute(unit, unit[m.proc], m), n - 1)

(* How a run ends and what was seen of it.  One that goes on for longer    *)
(* than n instructions is left "running".                                  *)
Meaning(unit, input, n) ==
    LET m == Go(unit, Start(unit, input), n) IN [end |-> m.end, trace |-> m.trace]
=============================================================================
