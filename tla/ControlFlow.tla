----------------------------- MODULE ControlFlow -----------------------------
(***************************************************************************)
(* One procedure body on its way through the control flow parts: the code  *)
(* generator appends instructions and labels in any order a source can ask *)
(* for (goto, switch and code after a return included), the body is        *)
(* sealed, its blocks are cleaned (applyCfgPasses), and its loops get      *)
(* preheaders.                                                             *)
(***************************************************************************)
EXTENDS FlowGraph

CONSTANTS
    Ordinary,       \* instructions other than labels and transfers it may hold
    Transfers,      \* jumps and returns it may hold
    LabelIds,       \* the labels of the source, 1..n, in textual order
    FreshLabel,     \* the first label handed out by internFresh
    MaxLength       \* bound on the length of the generated body

ASSUME LabelsAssumption == LabelIds \subseteq Nat \ {0} /\ FreshLabel \in Nat \ {0} /\
                           \A l \in LabelIds : l < FreshLabel
ASSUME InstructionsAssumption ==
    /\ Ordinary \cup Transfers \subseteq Instructions
    /\ \A inst \in Ordinary : ~TransfersControl(inst) /\ inst.op # "Label"
    /\ \A inst \in Transfers : TransfersControl(inst) /\ (inst.op = "Jump" => inst.arg0 \in LabelIds)

VARIABLES
    body,           \* the instructions now
    source,         \* the instructions as they were sealed
    stage           \* "generate", then "sealed", "cleaned", "preheaders"

vars == <<body, source, stage>>

Init == body = <<>> /\ source = <<>> /\ stage = "generate"

(* CodeGeneratingVisitor::emit. *)
Emit(inst) ==
    /\ stage = "generate" /\ Len(body) < MaxLength
    /\ body' = Append(body, inst)
    /\ UNCHANGED <<source, stage>>

EmitLabel(label) ==
    /\ label \notin Labels(body) /\ \A l \in LabelIds : l < label => l \in Labels(body)
    /\ Emit(LabelI(label))

JumpTargets(insts) == {insts[i].arg0 : i \in {j \in DOMAIN insts : insts[j].op = "Jump"}}

(* sealProcedure, when the source defines every label it jumps to; after a *)
(* test and its jump the code generator always emits one more label.       *)
EndsInTest(insts) == insts # <<>> /\ TransfersControl(Last(insts)) /\ ~LeavesForGood(Last(insts))

Seal ==
    /\ stage = "generate" /\ JumpTargets(body) \subseteq Labels(body) /\ ~EndsInTest(body)
    /\ body' = Sealed(body) /\ source' = body' /\ stage' = "sealed"

CleanBlocks ==
    /\ stage = "sealed"
    /\ body' = ApplyCfgPasses(body, 1) /\ stage' = "cleaned"
    /\ UNCHANGED source

(* insertPreheaders, for every loop whose header has a label. *)
InsertPreheaders ==
    /\ stage = "cleaned"
    /\ LET cfg == BuildCfg(body)
           headers == {cfg[l.header].label : l \in NaturalLoops(cfg)} \ {NoSymbol}
       IN  body' = FlattenCfg(InsertPreheadersFor(cfg, headers, FreshLabel).cfg)
    /\ stage' = "preheaders"
    /\ UNCHANGED source

Done == stage = "preheaders" /\ UNCHANGED vars

Next ==
    \/ \E inst \in Ordinary \cup Transfers : Emit(inst)
    \/ \E label \in LabelIds : EmitLabel(label)
    \/ Seal \/ CleanBlocks \/ InsertPreheaders \/ Done

Spec == Init /\ [][Next]_vars

(***************************************************************************)
(* Properties.  They compare the data flow algorithms with what they stand *)
(* for: paths through the instructions of the body.                        *)
(***************************************************************************)

Complete == stage # "generate"

(* Instructions that may be executed right after instruction i. *)
Follows(insts, i) ==
    LET next == {i + 1} \cap DOMAIN insts
        target == {j \in DOMAIN insts : insts[j] = LabelI(insts[i].arg0)}
    IN  CASE insts[i].op = "Jump" -> target \cup (IF LeavesForGood(insts[i]) THEN {} ELSE next)
          [] TransfersControl(insts[i]) -> {}
          [] OTHER -> next

(* A path from just after i to a use of id with no definition before it.   *)
NeededAfter(insts, i, id) ==
    LET reads(j) == id \in Uses(insts[j]) \cup CallUses(insts, j)
        onward == [j \in DOMAIN insts |->
                      IF reads(j) \/ id \in Defs(insts[j]) THEN {} ELSE Follows(insts, j)]
    IN  \E j \in Closure(onward, Follows(insts, i)) : reads(j)

(* Liveness.cpp: what it reports live after an instruction is what some    *)
(* path still reads, through every shape of loop and past calls, neither   *)
(* less (a value the register cache then drops) nor more.                  *)
LivenessExact ==
    Complete =>
        LET live == LiveAfter(body)
            ids == UNION {Mentions(body[i]) : i \in DOMAIN body}
        IN  /\ Len(live) = Len(body)
            /\ \A i \in DOMAIN body : ~TransfersControl(body[i]) =>
                   live[i] = {id \in ids : NeededAfter(body, i, id)}

(* Loops.cpp: a block dominates another exactly when every path from the   *)
(* entry to the other goes through it.                                     *)
DominatorsExact ==
    Complete =>
        LET cfg == BuildCfg(body)
            dom == Dominators(cfg)
            avoiding(d) == Closure([b \in DOMAIN cfg |-> IF b = d THEN {} ELSE CfgSuccessors(cfg, b)],
                                   {1} \ {d})
        IN  \A b \in ReachableFromEntry(cfg), d \in DOMAIN cfg :
                d \in dom[b] <=> b \notin avoiding(d) \/ b = d

(* A natural loop of cleaned blocks is entered at its header only: what is *)
(* moved into the preheader runs before anything in the loop.              *)
LoopsEnteredAtHeader ==
    stage \in {"cleaned", "preheaders"} =>
        LET cfg == BuildCfg(body)
            pred == CfgPredecessors(cfg)
        IN  \A loop \in NaturalLoops(cfg) : \A b \in loop.blocks \ {loop.header} :
                b # 1 /\ pred[b] \subseteq loop.blocks

(* After insertPreheaders, every loop with a labelled header has a block   *)
(* of its own to put invariant code in.                                    *)
PreheadersFound ==
    stage = "preheaders" =>
        LET cfg == BuildCfg(body)
        IN  \A loop \in NaturalLoops(cfg) :
                cfg[loop.header].label # NoSymbol => HasPreheader(cfg, loop)

(* The instruction reached from i by labels and jumps alone; 0 when they   *)
(* go round for ever.                                                      *)
Settled(insts, i) ==
    LET passes(j) == insts[j].op = "Label" \/ (insts[j].op = "Jump" /\ LeavesForGood(insts[j]))
        onward == [j \in DOMAIN insts |-> IF passes(j) THEN Follows(insts, j) ELSE {}]
        ends == {j \in Closure(onward, {i}) : ~passes(j)}
    IN  IF ends = {} THEN 0 ELSE CHOOSE j \in ends : TRUE

(* Cfg.cpp, Preheader.cpp: threading jumps, dropping what is unreachable   *)
(* and adding preheaders changes no path: run side by side from the entry, *)
(* the body and its source meet the same instructions and the same tests   *)
(* with the same outcomes.                                                 *)
SamePaths ==
    Complete =>
        LET same(p) == \/ p = <<0, 0>>
                       \/ /\ p[1] # 0 /\ p[2] # 0
                          /\ [source[p[1]] EXCEPT !.arg0 = 0] = [body[p[2]] EXCEPT !.arg0 = 0]
                          /\ source[p[1]].op # "Jump" => source[p[1]] = body[p[2]]
            taken(insts, i) == {j \in Follows(insts, i) : j # i + 1 \/ insts[i].op # "Jump"}
            go(insts, i, jump) ==
                IF insts[i].op # "Jump" THEN i + 1
                ELSE IF jump THEN CHOOSE j \in DOMAIN insts : insts[j] = LabelI(insts[i].arg0)
                ELSE i + 1
            after(p) == IF ~same(p) \/ p = <<0, 0>> \/ LeavesForGood(source[p[1]]) THEN {}
                        ELSE {<<Settled(source, go(source, p[1], jump)),
                                Settled(body, go(body, p[2], jump))>> : jump \in BOOLEAN}
            next == [p \in (0..Len(source)) \X (0..Len(body)) |-> after(p)]
        IN  \A p \in Closure(next, {<<Settled(source, 1), Settled(body, 1)>>}) : same(p)
=============================================================================
