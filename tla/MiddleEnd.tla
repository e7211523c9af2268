------------------------------ MODULE MiddleEnd ------------------------------
(***************************************************************************)
(* The functions of a translation unit on their way from the code          *)
(* generator to the register cache: lowered (CodeGeneratingVisitor), run   *)
(* through the passes in the order of runIrPasses, and given words of the  *)
(* frame (generateIr).                                                     *)
(***************************************************************************)
EXTENDS CodeGeneration, Inliner, LoopPasses, LoadForwarding, IrMachine

CONSTANTS
    Units,          \* the units compiled: their functions, as checked syntax trees
    Inputs,         \* what arguments and globals may hold when the first function is called
    FirstId,        \* ids and labels from these on are unused;
    FirstLabel,
    Spacing,        \* each function takes its own from so many of both
    FoldLimit       \* foldToFixpoint gives up after so many rounds; 8 in the code

ASSUME MiddleEndAssumption ==
    FirstId \in Nat /\ FirstLabel \in Nat /\ Spacing \in Nat /\ FoldLimit \in Nat \ {0}

VARIABLES
    functions,      \* the syntax trees
    procedures,     \* their instructions and their frames
    stage,          \* what happens next
    round,          \* rounds of folding since the last other pass
    meaning         \* what the code the generator made does on each input

vars == <<functions, procedures, stage, round, meaning>>

OptimizationLevel == 1

IdFor(k) == FirstId + (k - 1) * Spacing
LabelFor(k) == FirstLabel + (k - 1) * Spacing
InEach(Pass(_)) == [k \in DOMAIN procedures |-> Pass(procedures[k])]

Init ==
    /\ functions \in Units
    /\ procedures = [k \in DOMAIN functions |->
                       Left(functions[k], Entered(functions[k], IdFor(k), LabelFor(k)))]
    /\ stage = "generate" /\ round = 0 /\ meaning = <<>>

GenerateCode ==
    /\ stage = "generate"
    /\ procedures' = [k \in DOMAIN functions |-> Generate(functions[k], IdFor(k), LabelFor(k))]
    /\ stage' = "seal"
    /\ UNCHANGED <<functions, round, meaning>>

SealedProcedure(proc) == [proc EXCEPT !.body = Sealed(@)]

Seal ==
    /\ stage = "seal"
    /\ procedures' = InEach(SealedProcedure)
    /\ meaning' = [input \in Inputs |-> Meaning(procedures', input, Fuel)]
    /\ stage' = "clean"
    /\ UNCHANGED <<functions, round>>

Cleaned(proc) == [proc EXCEPT !.body = ApplyCfgPasses(@, OptimizationLevel)]

CleanBlocks ==
    /\ stage = "clean"
    /\ procedures' = InEach(Cleaned) /\ stage' = "inline"
    /\ UNCHANGED <<functions, round, meaning>>

CleanedCallers(inlined) ==
    [k \in DOMAIN procedures |-> IF k \in inlined.dirty THEN Cleaned(inlined.unit[k]) ELSE inlined.unit[k]]

InlineCalls ==
    /\ stage = "inline"
    /\ procedures' = CleanedCallers(InlineProcedures(procedures)) /\ stage' = "fold1"
    /\ UNCHANGED <<functions, round, meaning>>

(* foldToFixpoint is run three times; this is one of its rounds. *)
AfterFolding == [fold1 |-> "deadTemps", fold2 |-> "share", fold3 |-> "forward"]

Taken(folded) == IF folded.controlFlow THEN Cleaned(folded.proc) ELSE folded.proc

TakeFolded(folded) ==
    LET last == (\A k \in DOMAIN folded : ~folded[k].changed) \/ round + 1 = FoldLimit
    IN  /\ procedures' = [k \in DOMAIN folded |-> Taken(folded[k])]
        /\ round' = IF last THEN 0 ELSE round + 1
        /\ stage' = IF last THEN AfterFolding[stage] ELSE stage

FoldOnce ==
    /\ stage \in DOMAIN AfterFolding
    /\ TakeFolded(InEach(FoldConstants))
    /\ UNCHANGED <<functions, meaning>>

DropDeadTemps ==
    /\ stage = "deadTemps"
    /\ procedures' = InEach(EliminateDeadTemps) /\ stage' = "loops"
    /\ UNCHANGED <<functions, round, meaning>>

CleanedIf(changed, reduced) ==
    IF changed \/ reduced.changed THEN Cleaned(reduced.proc) ELSE reduced.proc
ReducedAfter(hoisted) == CleanedIf(hoisted.changed, StrengthReduce(hoisted.proc))
LoopsOptimized(proc) == ReducedAfter(HoistLoopInvariants(proc))

OptimizeLoops ==
    /\ stage = "loops"
    /\ procedures' = InEach(LoopsOptimized)
    /\ stage' = "fold2"
    /\ UNCHANGED <<functions, round, meaning>>

Shared(proc) == CopyPropagate(ValueNumber(ReuseAssignConstants(proc)))

ShareValues ==
    /\ stage = "share"
    /\ procedures' = InEach(Shared) /\ stage' = "fold3"
    /\ UNCHANGED <<functions, round, meaning>>

LoadsForwarded(proc) == EliminateDeadTemps(ForwardLocalLoads(proc))

ForwardLoads ==
    /\ stage = "forward"
    /\ procedures' = InEach(LoadsForwarded) /\ stage' = "pack"
    /\ UNCHANGED <<functions, round, meaning>>

Packed(proc) == [proc EXCEPT !.home = PackFrameValues(proc)]

PackFrame ==
    /\ stage = "pack"
    /\ procedures' = InEach(Packed) /\ stage' = "packed"
    /\ UNCHANGED <<functions, round, meaning>>

Done == stage = "packed" /\ UNCHANGED vars

Next ==
    \/ GenerateCode \/ Seal \/ CleanBlocks \/ InlineCalls \/ FoldOnce \/ DropDeadTemps
    \/ OptimizeLoops \/ ShareValues \/ ForwardLoads \/ PackFrame \/ Done

Spec == Init /\ [][Next]_vars

(***************************************************************************)
(* Properties                                                              *)
(***************************************************************************)

(* IrPasses.cpp, IrInline.cpp, Licm.cpp, StrengthReduce.cpp,               *)
(* FrameLayout.cpp: whatever the passes have made of a unit, and wherever  *)
(* its values live in the frames, its first function calls the same        *)
(* functions elsewhere with the same arguments and the same memory to see, *)
(* touches volatile objects in the same order, and returns the same, on    *)
(* every input on which the source is defined.                             *)
BehaviourKept ==
    \A input \in DOMAIN meaning :
        meaning[input].end = "returned" => Meaning(procedures, input, 2 * Fuel) = meaning[input]

(* IrPasses.cpp:482 of foldConstants: "Sound because facts only flow         *)
(* forward: a symbol cannot be aliased before its AddressOf is reached".   *)
(* The first folding, by itself, changes nothing anybody can see.          *)
FoldingSound == stage = "deadTemps" => BehaviourKept

(* What an instruction writes shares no word with what is live after it. *)
NoneOverwritten(proc, live) ==
    LET words(id) == proc.home[id]..(proc.home[id] + Words(proc.values[id].kind) - 1)
        mine == DOMAIN proc.home
    IN  \A i \in DOMAIN proc.body :
            \A written \in Defs(proc.body[i]) \cap mine :
                \A other \in ((live[i] \cup AddressTaken(proc.body)) \cap mine) \ {written} :
                    words(written) \cap words(other) = {}

(* FrameLayout.cpp looks at the text only: of two values that share a word *)
(* of the frame one is never written while the other is still to be read.  *)
SlotsDisjoint ==
    stage = "packed" =>
        \A k \in DOMAIN procedures : NoneOverwritten(procedures[k], LiveAfter(procedures[k].body))
=============================================================================
