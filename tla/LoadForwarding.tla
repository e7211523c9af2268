---------------------------- MODULE LoadForwarding ----------------------------
(***************************************************************************)
(* forwardLocalLoads of IrPasses.cpp: a load through a pointer known to    *)
(* point at a local object reads the value last stored there instead.      *)
(* addrOf says what a value may ever point to, escaped which objects are   *)
(* reachable by code that is not this procedure's; the walk keeps what     *)
(* each value points to now and which value each object has.               *)
(***************************************************************************)
EXTENDS ScalarPasses

LOCAL INSTANCE Functions

IdsOf(body) == UNION {Mentions(body[i]) : i \in DOMAIN body}

Targets(addrOf, id) == IF Knows(addrOf, id) THEN addrOf[id] ELSE {}

(* addTarget and copyTargets, until nothing grows.  A store is not         *)
(* followed: what it stores escapes.                                       *)
PointerTargets(body) ==
    LET ids == IdsOf(body)
        adds(addrOf, inst) ==
            CASE inst.op = "AddressOf" -> {inst.arg0}
              [] inst.op = "Assign" -> addrOf[inst.arg0]
              [] inst.op = "Dereference" -> UNION {addrOf[object] : object \in addrOf[inst.arg0]}
              [] OTHER -> {}
        round(addrOf) ==
            [id \in ids |-> ids \cap (addrOf[id] \cup
                UNION {adds(addrOf, body[i]) : i \in {j \in DOMAIN body : id \in Defs(body[j])}})]
        grow[addrOf \in [ids -> SUBSET ids]] ==
            LET next == round(addrOf) IN IF next = addrOf THEN addrOf ELSE grow[next]
    IN  grow[[id \in ids |-> {}]]

(* escapes: a pointer kept by anything but a known value gives its object  *)
(* away, and so do the volatile ones, and what an escaped object holds.    *)
EscapedObjects(proc, addrOf) ==
    LET body == proc.body
        given(inst) ==
            CASE inst.op = "Assign" -> IF Known(proc, inst.result) THEN {} ELSE {inst.arg0}
              [] inst.op \in {"AddressOf", "Dereference"} -> {}
              [] inst.op = "LvalueAssign" -> {inst.arg0}
              [] OTHER -> Mentions(inst)
        first == UNION {Targets(addrOf, id) : id \in UNION {given(body[i]) : i \in DOMAIN body}}
        holds == [id \in DOMAIN addrOf \cup first |-> Targets(addrOf, id)]
        volatile == {id \in DOMAIN proc.values : IsVolatile(proc, id)}
    IN  Closure(holds, first \cup (volatile \cap DOMAIN holds)) \cup volatile

(* The walk keeps pointsTo and, per object, the id of the value it has      *)
(* (StoreSlots): reading that value instead is reading the object.          *)
Forwarded(proc, known, id) ==
    IF Knows(known.valueOf, id) /\ SameKind(proc, known.valueOf[id], id)
    THEN known.valueOf[id] ELSE id

PointAs(pointsTo, from, to) ==
    IF Knows(pointsTo, from) THEN Note(pointsTo, to, pointsTo[from]) ELSE Drop(pointsTo, {to})

(* kill and remember: the object's old value is forgotten, and the new one *)
(* noted when only this procedure can reach it.                            *)
Remembered(proc, objects, valueOf, object, stored) ==
    LET rest == Forget(valueOf, object)
        root == SameRoot(rest, stored)
    IN  IF object \in objects /\ Known(proc, object) /\ SameKind(proc, root, object)
        THEN Note(rest, object, root) ELSE rest

(* leak: all an argument can reach. *)
Leaked(addrOf, pointsTo, id) ==
    LET held(x) == Targets(addrOf, x) \cup (IF Knows(pointsTo, x) THEN {pointsTo[x]} ELSE {})
        ids == DOMAIN addrOf \cup DOMAIN pointsTo \cup UNION {held(x) : x \in DOMAIN addrOf \cup DOMAIN pointsTo}
    IN  Closure([x \in ids \cup {id} |-> held(x)], held(id))

LeakArgument(addrOf, acc, id) ==
    LET gone == Leaked(addrOf, acc.pointsTo, id)
    IN  [acc EXCEPT !.escaped = @ \cup gone, !.valueOf = Drop(@, gone), !.pointsTo = Drop(@, gone)]

(* What a call may have changed: all that has escaped. *)
AfterCall(acc) ==
    LET kept(facts) == Restrict(facts, {x \in DOMAIN facts : {x, facts[x]} \cap acc.escaped = {}})
    IN  [acc EXCEPT !.pointsTo = kept(@), !.valueOf = kept(@)]

Objects(addrOf, escaped) == (UNION {addrOf[id] : id \in DOMAIN addrOf}) \ escaped

StoreThrough(proc, addrOf, acc, inst) ==
    LET object == acc.pointsTo[inst.result]
    IN  IF ~Knows(acc.pointsTo, inst.result) THEN [acc EXCEPT !.pointsTo = Nothing, !.valueOf = Nothing]
        ELSE [acc EXCEPT !.pointsTo = PointAs(@, inst.arg0, object),
                         !.valueOf = Remembered(proc, Objects(addrOf, acc.escaped), @, object, inst.arg0)]

(* A load through a known pointer, of the value when that is known as well. *)
ForwardsValue(proc, acc, inst) ==
    /\ Knows(acc.pointsTo, inst.arg0) /\ Knows(acc.valueOf, acc.pointsTo[inst.arg0])
    /\ SameKind(proc, acc.valueOf[acc.pointsTo[inst.arg0]], inst.result)
Loaded(proc, acc, inst, forwards) ==
    LET object == acc.pointsTo[inst.arg0]
        value == acc.valueOf[object]
        from == IF forwards /\ Knows(acc.pointsTo, value) THEN value ELSE object
    IN  <<IF forwards THEN AssignI(value, inst.result) ELSE inst,
          [acc EXCEPT !.pointsTo = IF Knows(@, inst.arg0) /\ Knows(@, from)
                                   THEN PointAs(@, from, inst.result) ELSE @]>>

RewriteOthers(proc, acc, inst) ==
    LET rewritten(id) == IF id \in Defs(inst) THEN id ELSE Forwarded(proc, acc, id)
    IN  IF inst.op \in {"Jump", "FunctionAddress", "AssignConstant"} THEN inst
        ELSE [inst EXCEPT !.arg0 = rewritten(@), !.arg1 = rewritten(@)]

(* The rewritten instruction and what is known after it; now is inst with   *)
(* its operand forwarded.                                                  *)
Forward(proc, addrOf, acc, inst, now) ==
    CASE inst.op = "AddressOf" ->
            <<inst, [acc EXCEPT !.pointsTo = Note(@, inst.result, inst.arg0)]>>
      [] inst.op = "Assign" ->
            <<now, [acc EXCEPT
                !.pointsTo = PointAs(@, now.arg0, now.result),
                !.valueOf = Remembered(proc, Objects(addrOf, acc.escaped), @, now.result, now.arg0)]>>
      [] inst.op = "LvalueAssign" -> <<now, StoreThrough(proc, addrOf, acc, now)>>
      [] inst.op = "Dereference" -> Loaded(proc, acc, inst, ForwardsValue(proc, acc, inst))
      [] inst.op = "Argument" -> <<inst, LeakArgument(addrOf, acc, inst.arg0)>>
      [] inst.op = "Call" -> <<inst, AfterCall(acc)>>
      [] OTHER -> <<RewriteOthers(proc, acc, inst),
                    [acc EXCEPT !.valueOf = ForgetAll(@, Defs(inst))]>>

Emitted(inst, next) == [next[2] EXCEPT !.fall = StillFalls(@, inst), !.body = Append(@, next[1])]

ForwardLabel(body, acc, inst) ==
    LET keep == OnlyFallenInto(body, inst.arg0, acc.fall)
    IN  [acc EXCEPT !.fall = TRUE, !.body = Append(@, inst),
                    !.pointsTo = IF keep THEN @ ELSE Nothing, !.valueOf = IF keep THEN @ ELSE Nothing]

ForwardAlong(proc, addrOf, escapedAtAll) ==
    [proc EXCEPT !.body =
        Walk(LAMBDA acc, inst :
                IF inst.op = "Label" THEN ForwardLabel(proc.body, acc, inst)
                ELSE Emitted(inst, Forward(proc, addrOf, acc, inst,
                                           [inst EXCEPT !.arg0 = Forwarded(proc, acc, @)])),
             [pointsTo |-> Nothing, valueOf |-> Nothing, escaped |-> escapedAtAll,
              fall |-> TRUE, body |-> <<>>], proc.body).body]
ForwardWithin(proc, everywhere, escapedAtAll) ==
    ForwardAlong(proc, [id \in DOMAIN everywhere |-> everywhere[id] \ escapedAtAll], escapedAtAll)
ForwardGiven(proc, everywhere) == ForwardWithin(proc, everywhere, EscapedObjects(proc, everywhere))
ForwardLocalLoads(proc) == ForwardGiven(proc, PointerTargets(proc.body))
=============================================================================
