------------------------------- MODULE Inliner -------------------------------
(***************************************************************************)
(* Calls of functions of the same translation unit replaced by copies of   *)
(* their bodies (codegen/IrInline.cpp).                                    *)
(*                                                                         *)
(* A unit is the sequence of its procedures, a function is known by its    *)
(* number (the imm of a Call).  Variable arguments, alloca, setjmp, calls  *)
(* through pointers and results in memory are left out.                    *)
(***************************************************************************)
EXTENDS Ir

(* InlineCaps: calleeInsts and callerInsts in instructions that are no     *)
(* label, perCaller and total in calls replaced.                           *)
CONSTANT InlineCaps

ASSUME InlineCapsAssumption ==
    InlineCaps \in [{"calleeInsts", "callerInsts", "perCaller", "total"} -> Nat]

NonLabelCount(insts) == Cardinality({i \in DOMAIN insts : insts[i].op # "Label"})

(* The procedure a Call reaches, as a set of at most one. *)
Called(unit, inst) == {k \in DOMAIN unit : inst.op = "Call" /\ unit[k].name = inst.imm}
CalleesOf(unit, body) == UNION {Called(unit, body[i]) : i \in DOMAIN body}

CalleeIsEmpty(callee) == \A i \in DOMAIN callee.body : callee.body[i].op \in {"Label", "VoidReturn"}
SkipEmpty(unit, callee) ==
    CalleeIsEmpty(callee) \/ \E k \in CalleesOf(unit, callee.body) : CalleeIsEmpty(unit[k])

(* callIsEligible: the size of the caller is that before its first splice. *)
CallIsEligible(caller, callee, args, counts, calleeFinished) ==
    /\ calleeFinished /\ callee.name # caller.name
    /\ NonLabelCount(callee.body) <= InlineCaps.calleeInsts
    /\ NonLabelCount(caller.body) + NonLabelCount(callee.body) <= InlineCaps.callerInsts
    /\ counts.onCaller < InlineCaps.perCaller /\ counts.inUnit < InlineCaps.total
    /\ args = Len(callee.arguments)

AllDefs(body) == UNION {Defs(body[i]) : i \in DOMAIN body}
AllMentions(body) == UNION {Mentions(body[i]) : i \in DOMAIN body}
HasOp(body, ops) == \E i \in DOMAIN body : body[i].op \in ops

(* The formal may go by the name of the actual: nothing in the copy changes *)
(* either while the other is still to be read.                             *)
FormalCanShareActual(callee, formal, actual, caller) ==
    LET private == DOMAIN callee.values
    IN  /\ formal \notin AllDefs(callee.body) \cup AddressTaken(callee.body)
        /\ actual \in AllMentions(callee.body) => actual \in private
        /\ IsVolatile(callee, formal) => IsVolatile(caller, actual)
        /\ ~(IsTemp(caller, actual) /\ HasOp(callee.body, {"Label"}))
        /\ \/ IsTemp(caller, actual) /\ actual \notin AddressTaken(caller.body)
           \/ ~HasOp(callee.body, {"LvalueAssign", "Call"}) /\ AllDefs(callee.body) \subseteq private

(* rewriteInstructionIds. *)
Renamed(inst, ids, labels) ==
    LET new(id) == IF id \in DOMAIN ids THEN ids[id] ELSE id
    IN  IF inst.op \in {"Label", "Jump"} THEN [inst EXCEPT !.arg0 = labels[inst.arg0]]
        ELSE [inst EXCEPT !.arg0 = new(@), !.arg1 = new(@), !.result = new(@)]

(* A return leaves the copy by its end; result is NoSymbol when the caller *)
(* does not want one.                                                      *)
Cloned(inst, ids, labels, result, cont) ==
    IF inst.op \notin {"Return", "VoidReturn"} THEN <<Renamed(inst, ids, labels)>>
    ELSE IF inst.op = "Return" /\ result # NoSymbol
    THEN <<AssignI(Renamed(inst, ids, labels).arg0, result), JumpI(cont)>>
    ELSE <<JumpI(cont)>>

(* cloneCalleeBody: the caller with the private values of the callee that  *)
(* have no name of the caller's to go by, and the copy with the            *)
(* assignments that pass the arguments before it.                          *)
CloneAs(caller, callee, passed, ids, labels, own, result, cont) ==
    [caller |-> [caller EXCEPT !.locals = @ \o [k \in DOMAIN own |-> ids[own[k]]],
                               !.values = [id \in {ids[own[k]] : k \in DOMAIN own} |->
                                              callee.values[CHOOSE o \in DOMAIN ids : ids[o] = id]] @@ @,
                               !.freshId = @ + Len(own), !.freshLabel = cont + 1],
     copy |-> passed
              \o FlattenSeq([i \in DOMAIN callee.body |->
                                Cloned(callee.body[i], ids, labels, result, cont)])
              \o <<LabelI(cont)>>]

CloneWith(caller, callee, actuals, result, apart, own) ==
    LET formals == callee.arguments
        ids == [id \in ToSet(own) |-> caller.freshId + (CHOOSE k \in DOMAIN own : own[k] = id) - 1]
               @@ [f \in ToSet(formals) |-> actuals[CHOOSE k \in DOMAIN formals : formals[k] = f]]
        names == Ascending(Labels(callee.body))
        labels == [l \in ToSet(names) |->
                      caller.freshLabel + (CHOOSE k \in DOMAIN names : names[k] = l) - 1]
        passed == [k \in DOMAIN apart |-> AssignI(actuals[apart[k]], ids[formals[apart[k]]])]
    IN  CloneAs(caller, callee, passed, ids, labels, own, result, caller.freshLabel + Len(names))

CloneCalleeBody(caller, callee, actuals, result) ==
    LET shares(k) == FormalCanShareActual(callee, callee.arguments[k], actuals[k], caller)
        apart == SelectSeq(Places(callee.arguments), LAMBDA k : ~shares(k))
    IN  CloneWith(caller, callee, actuals, result, apart,
                  [k \in DOMAIN apart |-> callee.arguments[apart[k]]] \o callee.locals)

(* --- inlineInto --------------------------------------------------------------- *)

(* The arguments before a call and the use of its result belong to it. *)
SiteBegin(body, call) ==
    CHOOSE b \in 1..call :
        /\ \A i \in b..(call - 1) : body[i].op = "Argument"
        /\ b = 1 \/ body[b - 1].op # "Argument"
SiteEnd(body, call) ==
    IF call < Len(body) /\ body[call + 1].op = "Retrieve" THEN call + 1 ELSE call

(* One site: the text since the last one, then the call or the copy.  With *)
(* size, the instructions of the caller so far, grows what may not.        *)
SpliceCopy(acc, kept, cloned, removed) ==
    [acc EXCEPT !.caller = cloned.caller, !.out = @ \o kept \o cloned.copy,
                !.size = @ + NonLabelCount(cloned.copy) - removed,
                !.counts.onCaller = @ + 1, !.counts.inUnit = @ + 1]

Splice(unit, acc, kept, site, callees, finished) ==
    LET call == CHOOSE i \in DOMAIN site : site[i].op = "Call"
        actuals == [k \in 1..(call - 1) |-> site[k].arg0]
        result == IF call < Len(site) THEN Last(site).result ELSE NoSymbol
        taken == {k \in callees :
                     /\ ~SkipEmpty(unit, unit[k])
                     /\ CallIsEligible(acc.caller, unit[k], Len(actuals), acc.counts, k \in finished)
                     /\ acc.size + NonLabelCount(unit[k].body) <= InlineCaps.callerInsts}
    IN  IF taken = {} THEN [acc EXCEPT !.out = @ \o kept \o site]
        ELSE SpliceCopy(acc, kept,
                        CloneCalleeBody(acc.caller, unit[CHOOSE k \in taken : TRUE], actuals, result),
                        NonLabelCount(site))

VisitSite(unit, acc, body, begin, end, callees, finished) ==
    [Splice(unit, acc, SubSeq(body, acc.cursor, begin - 1), SubSeq(body, begin, end), callees, finished)
        EXCEPT !.cursor = end + 1]

(* state: the unit, the procedures finished, the calls replaced, and the   *)
(* callers with one replaced.                                              *)
InlineInto(state, k) ==
    LET body == state.unit[k].body
        calls == SelectSeq(Places(body), LAMBDA i : body[i].op = "Call")
        visit(acc, i) == VisitSite(state.unit, acc, body, SiteBegin(body, i), SiteEnd(body, i),
                                   Called(state.unit, body[i]), state.finished)
        done == Walk(visit, [caller |-> state.unit[k], out |-> <<>>, cursor |-> 1,
                             size |-> NonLabelCount(body),
                             counts |-> [onCaller |-> 0, inUnit |-> state.inlined]], calls)
        after == [state EXCEPT !.finished = @ \cup {k}]
    IN  IF done.counts.onCaller = 0 THEN after
        ELSE [after EXCEPT !.unit[k] = [done.caller EXCEPT
                               !.body = done.out \o SubSeq(body, done.cursor, Len(body))],
                           !.inlined = done.counts.inUnit, !.dirty = @ \cup {k}]

(* --- inlineProcedures: callees first ------------------------------------------ *)

RECURSIVE VisitPostOrder(_, _, _)
VisitPostOrder(unit, acc, k) ==
    LET body == unit[k].body
        follow(a, i) == IF Called(unit, body[i]) \subseteq a.seen THEN a
                        ELSE VisitPostOrder(unit, a, CHOOSE j \in Called(unit, body[i]) : TRUE)
        after == Walk(follow, [acc EXCEPT !.seen = @ \cup {k}], Places(body))
    IN  [after EXCEPT !.order = Append(@, k)]

PostOrder(unit) ==
    LET visit(acc, k) == IF k \in acc.seen THEN acc ELSE VisitPostOrder(unit, acc, k)
    IN  Walk(visit, [seen |-> {}, order |-> <<>>], Places(unit)).order

InlineProcedures(unit) ==
    Walk(InlineInto, [unit |-> unit, finished |-> {}, inlined |-> 0, dirty |-> {}], PostOrder(unit))
=============================================================================
