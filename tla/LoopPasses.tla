------------------------------ MODULE LoopPasses ------------------------------
(***************************************************************************)
(* The passes over the natural loops of a procedure: code that computes    *)
(* the same on every turn goes to the preheader (Licm.cpp), and a product  *)
(* of a counter and something invariant becomes a value that is bumped     *)
(* along with the counter (StrengthReduce.cpp).                            *)
(***************************************************************************)
EXTENDS ScalarPasses

LOCAL INSTANCE FiniteSetsExt

(* --- LoopFacts.cpp -------------------------------------------------------- *)

(* buildUseDefIndex.  It is not brought up to date while instructions move. *)
UseDefIndex(cfg) ==
    LET ids(b) == UNION {Mentions(cfg[b].insts[i]) : i \in DOMAIN cfg[b].insts}
        all == UNION {ids(b) : b \in DOMAIN cfg}
        places(id, Refs(_)) ==
            {<<b, i>> \in (DOMAIN cfg) \X (1..Max({0} \cup {Len(cfg[c].insts) : c \in DOMAIN cfg})) :
                i \in DOMAIN cfg[b].insts /\ id \in Refs(cfg[b].insts[i])}
        blocks(ps) == {p[1] : p \in ps}
    IN  [defCount |-> [id \in all |-> Cardinality(places(id, Defs))],
         defBlocks |-> [id \in all |-> blocks(places(id, Defs))],
         useBlocks |-> [id \in all |-> blocks(places(id, Uses))],
         addressTaken |-> AddressTaken(FlattenCfg(cfg)),
         indirectWrite |-> {b \in DOMAIN cfg : \E i \in DOMAIN cfg[b].insts : WritesMemory(cfg[b].insts[i])}]

BlocksOf(places, id) == IF Knows(places, id) THEN places[id] ELSE {}
DefInLoop(index, loop, id) == BlocksOf(index.defBlocks, id) \cap loop.blocks # {}
LoopHasIndirectWrite(index, loop) == index.indirectWrite \cap loop.blocks # {}

AppendBeforeTerminator(block, insts) ==
    IF EndsWithTransfer(block)
    THEN [block EXCEPT !.insts = Front(@) \o insts \o <<Last(@)>>]
    ELSE [block EXCEPT !.insts = @ \o insts]

(* Inner loops before the loops around them. *)
InnerFirst(loops) ==
    LET size(l) == Cardinality(l.blocks)
        before(x, y) == size(x) < size(y) \/ (size(x) = size(y) /\ x.header < y.header)
    IN  Sorted(loops, before)

(* --- Licm.cpp ------------------------------------------------------------- *)

(* isLicmPureOp: what may run when the loop would not have run it. *)
LicmPureOps == PureOps \ {"Div", "AddressOf", "Dereference"}

OperandsInvariant(proc, inst, loop, index, invariant) ==
    \A id \in Uses(inst) :
        /\ Known(proc, id) /\ ~IsVolatile(proc, id) /\ id \notin index.addressTaken
        /\ ~DefInLoop(index, loop, id) \/ id \in invariant
        /\ LoopHasIndirectWrite(index, loop) => IsTemp(proc, id)

NoWriteSeen(proc, cfg, loop, index) == FALSE
(* loopWritesAddressedObject: a direct write a load might see. *)
LoopWritesAddressedObject(proc, cfg, loop, index) ==
    \E b \in loop.blocks : \E i \in DOMAIN cfg[b].insts : \E id \in Defs(cfg[b].insts[i]) :
        id \in index.addressTaken \/ ~Known(proc, id)

(* A path from the header out of the loop around the block of the load.     *)
LoadCanBeSkipped(cfg, loop, loadBlock) ==
    LET onward == [b \in DOMAIN cfg |-> IF b = loadBlock \/ b \notin loop.blocks THEN {}
                                        ELSE CfgSuccessors(cfg, b)]
    IN  loadBlock # loop.header /\ ~(Closure(onward, {loop.header}) \subseteq loop.blocks)

IsHoistable(proc, cfg, inst, loop, block, index, invariant) ==
    LET load == inst.op = "Dereference"
    IN  /\ load => /\ ~LoopHasIndirectWrite(index, loop)
                   /\ ~LoopWritesAddressedObject(proc, cfg, loop, index)
                   /\ ~LoadCanBeSkipped(cfg, loop, block)
        /\ inst.op \in LicmPureOps \cup {"Dereference"}
        /\ IsTemp(proc, inst.result) /\ ~IsVolatile(proc, inst.result)
        /\ inst.result \notin index.addressTaken
        /\ index.defCount[inst.result] = 1
        /\ BlocksOf(index.useBlocks, inst.result) \subseteq loop.blocks
        /\ OperandsInvariant(proc, inst, loop, index, invariant)

(* Headers that may be given a preheader: jumps can be led around them.     *)
Labelled(cfg, loop) == cfg[loop.header].label # NoSymbol

WithPreheaders(proc, cfg, loops) ==
    LET need == {cfg[l.header].label : l \in
                    {m \in loops : Labelled(cfg, m) /\ ~HasPreheader(cfg, m)}}
    IN  InsertPreheadersFor(cfg, need, proc.freshLabel)

(* One walk over the blocks of a loop: what is hoistable leaves its block   *)
(* for the preheader, and what depends on it may follow.                    *)
Take(acc, hoistable, inst) ==
    IF hoistable THEN [acc EXCEPT !.moved = Append(@, inst), !.invariant = @ \cup {inst.result}]
    ELSE [acc EXCEPT !.kept = Append(@, inst)]
Replaced(acc, b) == [acc EXCEPT !.cfg[b].insts = acc.kept]
HoistFrom(proc, loop, index, cfg, acc, b) ==
    Replaced(Walk(LAMBDA a, inst :
                     Take(a, IsHoistable(proc, cfg, inst, loop, b, index, a.invariant), inst),
                  [acc EXCEPT !.kept = <<>>], cfg[b].insts), b)
MoveTo(pre, acc) == [acc EXCEPT !.cfg[pre] = AppendBeforeTerminator(@, acc.moved)]
HoistRound(proc, loop, index, acc) ==
    MoveTo(PreheaderIndex(acc.cfg, loop),
           Walk(LAMBDA a, b : HoistFrom(proc, loop, index, acc.cfg, a, b),
                [acc EXCEPT !.moved = <<>>], Ascending(loop.blocks)))

(* pinHoisted: what has moved lives across the loop and is no temporary    *)
(* any more.                                                               *)
LeftTemporary(values, ids) == values
Pinned(values, ids) ==
    [id \in DOMAIN values |->
        IF id \in ids THEN [values[id] EXCEPT !.temp = FALSE] ELSE values[id]]

(* hoistLoopInvariants.  The index is the one from before the first move.   *)
PinInvariant(acc) == [acc EXCEPT !.pinned = @ \cup acc.invariant]
HoistFromLoop(proc, index, acc, loop) ==
    IF ~HasPreheader(acc.cfg, loop) THEN acc
    ELSE PinInvariant(
            Walk(LAMBDA a, i : IF a.moved = <<>> THEN a ELSE HoistRound(proc, loop, index, a),
                 HoistRound(proc, loop, index, [acc EXCEPT !.invariant = {}]), proc.body))

HoistFromLoops(proc, cfg, index) ==
    Walk(LAMBDA acc, loop : HoistFromLoop(proc, index, acc, loop),
         [cfg |-> cfg, kept |-> <<>>, moved |-> <<>>, invariant |-> {}, pinned |-> {}],
         InnerFirst(NaturalLoops(cfg)))

(* Loops with something to hoist. *)
LoopsToHoistFrom(proc, cfg, index) ==
    {loop \in NaturalLoops(cfg) : \E b \in loop.blocks : \E i \in DOMAIN cfg[b].insts :
        IsHoistable(proc, cfg, cfg[b].insts[i], loop, b, index, {})}

HoistedInto(proc, source, fresh, done) ==
    [proc |-> [proc EXCEPT !.body = FlattenCfg(done.cfg), !.freshLabel = fresh,
                           !.values = Pinned(@, done.pinned)],
     changed |-> done.cfg # source]
HoistWith(proc, source, prepared) ==
    HoistedInto(proc, source, prepared.fresh,
                HoistFromLoops(proc, prepared.cfg, UseDefIndex(prepared.cfg)))
HoistLoopInvariants(proc) ==
    LET source == BuildCfg(proc.body)
    IN  IF ~HasBackwardJump(proc.body) THEN [proc |-> proc, changed |-> FALSE]
        ELSE HoistWith(proc, source,
                WithPreheaders(proc, source, LoopsToHoistFrom(proc, source, UseDefIndex(source))))

(* --- StrengthReduce.cpp ----------------------------------------------------- *)

(* isInvariant. *)
IsInvariant(proc, index, loop, id) ==
    /\ ~DefInLoop(index, loop, id) /\ Known(proc, id) /\ ~IsVolatile(proc, id)
    /\ LoopHasIndirectWrite(index, loop) => id \notin index.addressTaken

(* simpleStep: a counter goes up or down by a number (by = NoSymbol) or by  *)
(* a value; anything else is no step.                                       *)
SimpleStep(inst, iv) ==
    LET other == OtherOperand(inst, iv)
        adds == inst.op = "Add" /\ inst.result = iv /\ iv \in {inst.arg0, inst.arg1}
        subtracts == inst.op = "Sub" /\ inst.result = iv /\ inst.arg0 = iv
    IN  CASE inst.op = "Inc" -> [down |-> inst.imm < 0, imm |-> IF inst.imm < 0 THEN -inst.imm ELSE inst.imm,
                                 by |-> NoSymbol]
          [] (adds \/ subtracts) /\ other # iv -> [down |-> subtracts, imm |-> 0, by |-> other]
          [] OTHER -> Nothing

(* simpleIvs: values the loop changes in one place only, by a steady step,  *)
(* once on every turn.                                                      *)
ChangedAt(cfg, loop, id) ==
    {<<b, i>> \in {<<b, i>> \in loop.blocks \X (1..Len(FlattenCfg(cfg))) : i \in DOMAIN cfg[b].insts} :
        id \in Defs(cfg[b].insts[i])}

OnEveryTurn(dom, loops, loop, b) ==
    /\ \A latch \in loop.latches : b \in dom[latch]
    /\ \A other \in loops : b \in other.blocks => Cardinality(other.blocks) >= Cardinality(loop.blocks)

SteadyStep(proc, loop, index, id, step) ==
    /\ step # Nothing
    /\ LoopHasIndirectWrite(index, loop) => id \notin index.addressTaken
    /\ step.by # NoSymbol => IsInvariant(proc, index, loop, step.by)

IvsAmong(proc, cfg, loop, index, places, dom, loops) ==
    LET step(id, place) == SimpleStep(cfg[place[1]].insts[place[2]], id)
        simple(id, place) == /\ OnEveryTurn(dom, loops, loop, place[1])
                             /\ SteadyStep(proc, loop, index, id, step(id, place))
        ivs == {id \in DOMAIN places : Cardinality(places[id]) = 1 /\ \A p \in places[id] : simple(id, p)}
    IN  [id \in ivs |-> LET place == CHOOSE p \in places[id] : TRUE
                         IN  [block |-> place[1], at |-> place[2], step |-> step(id, place)]]

SimpleIvs(proc, cfg, loop, index) ==
    LET changed == {id \in DOMAIN index.defBlocks : Known(proc, id) /\ DefInLoop(index, loop, id)}
    IN  IvsAmong(proc, cfg, loop, index, [id \in changed |-> ChangedAt(cfg, loop, id)],
                 Dominators(cfg), NaturalLoops(cfg))

(* reducibleMuls: products of a counter and an invariant factor, by pair.   *)
FactorPair(proc, loop, index, ivs, inst) ==
    CASE Knows(ivs, inst.arg0) /\ IsInvariant(proc, index, loop, inst.arg1) -> <<inst.arg0, inst.arg1>>
      [] Knows(ivs, inst.arg1) /\ IsInvariant(proc, index, loop, inst.arg0) -> <<inst.arg1, inst.arg0>>
      [] OTHER -> Nothing

NoteSite(groups, ivs, pair, site) ==
    LET same == {k \in DOMAIN groups : groups[k].iv = pair[1] /\ groups[k].factor = pair[2]}
    IN  IF pair = Nothing THEN groups
        ELSE IF same = {}
        THEN Append(groups, [iv |-> pair[1], factor |-> pair[2], update |-> ivs[pair[1]], sites |-> {site}])
        ELSE [k \in DOMAIN groups |-> IF k \in same THEN [groups[k] EXCEPT !.sites = @ \cup {site}]
                                      ELSE groups[k]]

MulsOver(proc, cfg, loop, index, ivs) ==
    LET visit(groups, site) ==
            LET inst == cfg[site[1]].insts[site[2]]
            IN  IF inst.op = "Mul" /\ Known(proc, inst.result)
                THEN NoteSite(groups, ivs, FactorPair(proc, loop, index, ivs, inst), site) ELSE groups
        sites(b) == [i \in DOMAIN cfg[b].insts |-> <<b, i>>]
        blocks == Ascending(loop.blocks)
    IN  Walk(visit, <<>>, FlattenSeq([k \in DOMAIN blocks |-> sites(blocks[k])]))
ReducibleMuls(proc, cfg, loop, index) ==
    MulsOver(proc, cfg, loop, index, SimpleIvs(proc, cfg, loop, index))

(* pinTemp: a new named value of the frame. *)
PinTemp(proc) ==
    [proc EXCEPT !.locals = Append(@, proc.freshId), !.freshId = @ + 1,
                 !.values = Note(@, proc.freshId, [kind |-> "int", temp |-> FALSE, volatile |-> FALSE])]

(* rewriteGroups, for one pair: the preheader computes the first product    *)
(* and how far it goes on a turn, the sites read it, and it is moved along  *)
(* right after its counter.  acc.bumps collects what is to be inserted.     *)
RewriteGroup(acc, pre, group) ==
    LET step == group.update.step
        derived == acc.proc.freshId
        constant == derived + 1
        product == IF step.by # NoSymbol THEN derived + 1 ELSE derived + 2
        first == Binary("Mul", group.iv, group.factor, derived)
        ahead == CASE step.by # NoSymbol -> <<Binary("Mul", step.by, group.factor, product), first>>
                   [] step.by = NoSymbol /\ step.imm > 1 ->
                        <<ConstantI(step.imm, constant), Binary("Mul", constant, group.factor, product), first>>
                   [] OTHER -> <<first>>
        amount == IF Len(ahead) = 1 THEN group.factor ELSE product
        bump == Binary(IF step.down THEN "Sub" ELSE "Add", derived, amount, derived)
        pinned == Walk(LAMBDA p, i : PinTemp(p), acc.proc, ahead)
        site(b, i) == IF <<b, i>> \in group.sites THEN AssignI(derived, acc.cfg[b].insts[i].result)
                      ELSE acc.cfg[b].insts[i]
        rewritten == [b \in DOMAIN acc.cfg |->
                        [acc.cfg[b] EXCEPT !.insts = [i \in DOMAIN @ |-> site(b, i)]]]
    IN  [proc |-> pinned,
         cfg |-> [rewritten EXCEPT ![pre] = AppendBeforeTerminator(@, ahead)],
         bumps |-> IF step.by # NoSymbol \/ step.imm # 0
                   THEN Append(acc.bumps, [block |-> group.update.block, at |-> group.update.at, inst |-> bump])
                   ELSE acc.bumps]

(* insertLatchEdits: from the last place to the first.                      *)
InsertBumps(cfg, bumps) ==
    LET later(x, y) == x.block > y.block \/ (x.block = y.block /\ x.at > y.at)
        insert(c, bump) == [c EXCEPT ![bump.block].insts = InsertAt(@, bump.at + 1, bump.inst)]
    IN  Walk(insert, cfg, SortSeq(bumps, later))

(* One loop, when it has a preheader to start the products in. *)
Bumped(end) == [proc |-> end.proc, cfg |-> InsertBumps(end.cfg, end.bumps)]
ReduceGroups(acc, pre, groups) ==
    IF groups = <<>> \/ pre = 0 THEN acc
    ELSE Bumped(Walk(LAMBDA a, group : RewriteGroup(a, pre, group),
                     [proc |-> acc.proc, cfg |-> acc.cfg, bumps |-> <<>>], groups))
ReduceLoop(acc, loop) ==
    ReduceGroups(acc, PreheaderIndex(acc.cfg, loop),
                 ReducibleMuls(acc.proc, acc.cfg, loop, UseDefIndex(acc.cfg)))

LoopsToReduce(proc, cfg, index) ==
    {loop \in NaturalLoops(cfg) : ReducibleMuls(proc, cfg, loop, index) # <<>>}

ReducedInto(source, done) ==
    [proc |-> [done.proc EXCEPT !.body = FlattenCfg(done.cfg)], changed |-> done.cfg # source]
ReduceWith(proc, source, prepared) ==
    ReducedInto(source,
        Walk(ReduceLoop, [proc |-> [proc EXCEPT !.freshLabel = prepared.fresh], cfg |-> prepared.cfg],
             InnerFirst(NaturalLoops(prepared.cfg))))
StrengthReduce(proc) ==
    LET source == BuildCfg(proc.body)
    IN  IF ~HasBackwardJump(proc.body) THEN [proc |-> proc, changed |-> FALSE]
        ELSE ReduceWith(proc, source,
                WithPreheaders(proc, source, LoopsToReduce(proc, source, UseDefIndex(source))))
=============================================================================
