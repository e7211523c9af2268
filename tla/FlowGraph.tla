------------------------------ MODULE FlowGraph ------------------------------
(***************************************************************************)
(* Control flow of a procedure body: the blocks (Cfg.cpp), which values    *)
(* are live where (Liveness.cpp), dominators and natural loops (Loops.cpp),*)
(* preheaders (Preheader.cpp, LoopFacts.cpp) and the layout of the frame   *)
(* (FrameLayout.cpp).  Blocks and instructions are numbered from 1.        *)
(***************************************************************************)
EXTENDS Ir


(* --- Cfg.cpp ----------------------------------------------------------- *)

NoBlock == [label |-> NoSymbol, insts |-> <<>>]

Flushed(acc) ==
    IF acc.current = NoBlock THEN acc.done ELSE Append(acc.done, acc.current)

AddToBlock(acc, inst) ==
    LET block == [acc.current EXCEPT !.insts = Append(@, inst)]
    IN  IF inst.op = "Label"
        THEN [done |-> Flushed(acc), current |-> [NoBlock EXCEPT !.label = inst.arg0]]
        ELSE IF TransfersControl(inst)
        THEN [done |-> Append(acc.done, block), current |-> NoBlock]
        ELSE [acc EXCEPT !.current = block]

BuildCfg(body) == Flushed(Walk(AddToBlock, [done |-> <<>>, current |-> NoBlock], body))

BlockText(block) ==
    (IF block.label = NoSymbol THEN <<>> ELSE <<LabelI(block.label)>>) \o block.insts

FlattenCfg(cfg) == FlattenSeq([b \in DOMAIN cfg |-> BlockText(cfg[b])])

(* blockIndexWithLabel. *)
BlocksLabelled(cfg, label) == {b \in DOMAIN cfg : cfg[b].label = label}

EndsWithTransfer(block) == block.insts # <<>> /\ TransfersControl(Last(block.insts))
EndsForGood(block) == block.insts # <<>> /\ LeavesForGood(Last(block.insts))

CfgSuccessors(cfg, b) ==
    LET next == {b + 1} \cap DOMAIN cfg
        last == Last(cfg[b].insts)
    IN  IF ~EndsWithTransfer(cfg[b]) THEN next
        ELSE IF last.op # "Jump" THEN {}
        ELSE BlocksLabelled(cfg, last.arg0) \cup (IF LeavesForGood(last) THEN {} ELSE next)

PredecessorsAbove(cfg) ==
    [b \in DOMAIN cfg |-> {p \in DOMAIN cfg : p < b /\ b \in CfgSuccessors(cfg, p)}]
CfgPredecessors(cfg) ==
    Walk(LAMBDA acc, b : Append(acc, {p \in DOMAIN cfg : b \in CfgSuccessors(cfg, p)}),
         <<>>, Places(cfg))

(* The blocks on some path from those in start along next. *)
Closure(next, start) ==
    LET grow[S \in SUBSET DOMAIN next] ==
            LET onward == UNION {next[a] : a \in S}
                T == {b \in DOMAIN next : b \in S \/ b \in onward}
            IN  IF T = S THEN S ELSE grow[T]
    IN  grow[start]

ReachableFromEntry(cfg) ==
    IF cfg = <<>> THEN {} ELSE Closure([b \in DOMAIN cfg |-> CfgSuccessors(cfg, b)], {1})

(* Labels of blocks that only jump elsewhere; a cycle of them is left.     *)
OnlyOneJump(block) ==
    block.label # NoSymbol /\ Len(block.insts) = 1 /\ block.insts[1].op = "Jump"
IsTrampoline(block) == OnlyOneJump(block) /\ LeavesForGood(block.insts[1])

ThreadJumps(cfg) ==
    LET trampolines == {cfg[b].label : b \in {c \in DOMAIN cfg : IsTrampoline(cfg[c])}}
        to(label) == cfg[CHOOSE b \in BlocksLabelled(cfg, label) : TRUE].insts[1].arg0
        most == Cardinality(trampolines)
        finalTarget(label) ==
            LET after[hops \in 0..most] ==
                    IF hops = 0 THEN label
                    ELSE LET target == after[hops - 1]
                         IN  IF target \in trampolines THEN to(target) ELSE target
            IN  IF after[most] \in trampolines THEN label ELSE after[most]
        threaded(inst) ==
            IF inst.op = "Jump" THEN [inst EXCEPT !.arg0 = finalTarget(@)] ELSE inst
    IN  [b \in DOMAIN cfg |-> [cfg[b] EXCEPT !.insts = [i \in DOMAIN @ |-> threaded(@[i])]]]

EliminateUnreachable(cfg) == KeepAt(cfg, ReachableFromEntry(cfg))

EliminateJumpToNext(cfg) ==
    LET jumpsToNext(b) ==
            /\ b + 1 \in DOMAIN cfg /\ cfg[b].insts # <<>> /\ cfg[b + 1].label # NoSymbol
            /\ Last(cfg[b].insts) = JumpI(cfg[b + 1].label)
    IN  [b \in DOMAIN cfg |->
            IF jumpsToNext(b) THEN [cfg[b] EXCEPT !.insts = Front(@)] ELSE cfg[b]]

(* sealProcedure. *)
Sealed(body) ==
    IF body = <<>> \/ ~TransfersControl(Last(body)) THEN Append(body, ReturnNothing) ELSE body

(* applyCfgPasses. *)
RemoveDetours(cfg, optLevel) ==
    IF optLevel >= 1 THEN EliminateUnreachable(ThreadJumps(cfg)) ELSE cfg
ApplyCfgPasses(body, optLevel) ==
    FlattenCfg(EliminateJumpToNext(RemoveDetours(BuildCfg(body), optLevel)))

(* --- Liveness.cpp ------------------------------------------------------ *)

(* extraCallUses: the arguments written since the call before, which are   *)
(* read when the call is emitted.                                          *)
CallUses(body, i) ==
    LET earlier == {j \in 1..(i - 1) : body[j].op = "Call"}
        from == IF earlier = {} THEN 1 ELSE Max(earlier) + 1
    IN  IF body[i].op # "Call" THEN {}
        ELSE UNION {Uses(body[j]) : j \in {k \in from..i : body[k].op = "Argument"}}

(* Body index of the first instruction of block b, its label not counted. *)
BlockStart(cfg, b) ==
    Len(FlattenCfg(SubSeq(cfg, 1, b - 1))) + (IF cfg[b].label = NoSymbol THEN 1 ELSE 2)

LiveBefore(body, i, after) == (after \ Defs(body[i])) \cup Uses(body[i]) \cup CallUses(body, i)

(* Gen and kill of a run of instructions, first to last. *)
GenKill(body, from, to) ==
    Walk(LAMBDA acc, i :
            [gen |-> acc.gen \cup ((Uses(body[i]) \cup CallUses(body, i)) \ acc.kill),
             kill |-> acc.kill \cup Defs(body[i])],
         [gen |-> {}, kill |-> {}], [k \in 1..(to - from + 1) |-> from + k - 1])
GenKills(cfg, body) ==
    Walk(LAMBDA acc, b :
            LET start == BlockStart(cfg, b)
            IN  Append(acc, GenKill(body, start, start + Len(cfg[b].insts) - 1)),
         <<>>, Places(cfg))

LiveOutForward(cfg, liveIn, b) == UNION {liveIn[s] : s \in {t \in CfgSuccessors(cfg, b) : t > b}}
LiveOut(cfg, liveIn, b) == UNION {liveIn[s] : s \in CfgSuccessors(cfg, b)}

(* solveLiveness: rounds over the blocks, from the last, until none        *)
(* changes.                                                                *)
LivenessRound(cfg, sets, ids, before) ==
    Walk(LAMBDA live, b :
            [live EXCEPT ![b] =
                ids \cap (sets[b].gen \cup (LiveOut(cfg, live, b) \ sets[b].kill))],
         before, Reverse(Places(cfg)))
SolveLiveness(cfg, sets, ids) ==
    LET solve[live \in [DOMAIN cfg -> SUBSET ids]] ==
            LET next == LivenessRound(cfg, sets, ids, live)
            IN  IF next = live THEN live ELSE solve[next]
    IN  solve[[b \in DOMAIN cfg |-> {}]]
LiveIn(cfg, body) ==
    SolveLiveness(cfg, GenKills(cfg, body), UNION {Mentions(body[i]) : i \in DOMAIN body})

(* walkBackward: what is live after each instruction of the body, and at   *)
(* a label what is live in its block.                                      *)
LiveAlong(body, first, last, out) ==
    Walk(LAMBDA acc, i : [live |-> LiveBefore(body, i, acc.live), at |-> <<acc.live>> \o acc.at],
         [live |-> out, at |-> <<>>], [k \in 1..(last - first + 1) |-> last - k + 1]).at
LiveThrough(cfg, body, liveIn) ==
    LET labelled(b) == IF cfg[b].label = NoSymbol THEN <<>> ELSE <<liveIn[b]>>
        within(b, start) ==
            LiveAlong(body, start, start + Len(cfg[b].insts) - 1, LiveOut(cfg, liveIn, b))
    IN  FlattenSeq([b \in DOMAIN cfg |-> labelled(b) \o within(b, BlockStart(cfg, b))])
LiveAfter(body) ==
    LET cfg == BuildCfg(body) IN LiveThrough(cfg, body, LiveIn(cfg, body))

(* --- FrameLayout.cpp ---------------------------------------------------- *)

Words(kind) == IF kind = "wide" THEN 2 ELSE 1

(* noteLive: every place that names the id, and the call an argument of it *)
(* belongs to.                                                             *)
LiveRange(body, id) ==
    {i \in DOMAIN body : id \in Mentions(body[i]) \cup CallUses(body, i)}

(* firstFit: the first run of words whose last users are over by then.     *)
FirstFit(occupied, words, first) ==
    LET fits == {s \in 1..(Len(occupied) - words + 1) :
                    \A w \in 0..(words - 1) : occupied[s + w] < first}
    IN  IF fits = {} THEN Len(occupied) + 1 ELSE Min(fits)

(* packFrameValues: named and address-taken values get words of their own, *)
(* the other temporaries share, in the order of their first mention.       *)
PackFrameValues(proc) ==
    LET body == proc.body
        words(id) == Words(proc.values[id].kind)
        taken == AddressTaken(body)
        pinned(id) == ~IsTemp(proc, id) \/ id \in taken
        pinnedIds == SelectSeq(proc.locals, pinned)
        interval(id) == [id |-> id, first |-> Min(LiveRange(body, id)),
                         last |-> Max(LiveRange(body, id))]
        sharing == {interval(id) : id \in {l \in ToSet(proc.locals) :
                                              ~pinned(l) /\ LiveRange(body, l) # {}}}
        before(x, y) == x.first < y.first \/ (x.first = y.first /\ x.id < y.id)
        forever == Len(body) + 1
        pin(acc, id) ==
            [home |-> (id :> Len(acc.occupied) + 1) @@ acc.home,
             occupied |-> acc.occupied \o [w \in 1..words(id) |-> forever]]
        place(acc, x) ==
            LET slot == FirstFit(acc.occupied, words(x.id), x.first)
                size == Max({Len(acc.occupied), slot + words(x.id) - 1})
            IN  [home |-> (x.id :> slot) @@ acc.home,
                 occupied |-> [w \in 1..size |->
                                 IF w \in slot..(slot + words(x.id) - 1) THEN x.last
                                 ELSE acc.occupied[w]]]
    IN  Walk(place, Walk(pin, [home |-> <<>>, occupied |-> <<>>], pinnedIds),
                 Sorted(sharing, before)).home

(* --- Loops.cpp ----------------------------------------------------------- *)

HasBackwardJump(body) ==
    \E i, j \in DOMAIN body : /\ j < i /\ body[i].op = "Jump"
                              /\ body[j] = LabelI(body[i].arg0)

(* dominators: rounds over the blocks but the entry until none changes.    *)
SolveDominators(pred) ==
    LET meet(dom, b) ==
            IF pred[b] = {} THEN dom
            ELSE [dom EXCEPT ![b] = {b} \cup {d \in DOMAIN pred : \A p \in pred[b] : d \in dom[p]}]
        round(dom) == Walk(meet, dom, [k \in 1..(Len(pred) - 1) |-> k + 1])
        solve[dom \in [DOMAIN pred -> SUBSET DOMAIN pred]] ==
            LET next == round(dom) IN IF next = dom THEN dom ELSE solve[next]
    IN  solve[[b \in DOMAIN pred |-> IF b = 1 THEN {1} ELSE DOMAIN pred]]
AmongReachable(dom, reachable) == [b \in DOMAIN dom |-> IF b \in reachable THEN dom[b] ELSE {}]
Dominators(cfg) == AmongReachable(SolveDominators(CfgPredecessors(cfg)), ReachableFromEntry(cfg))

(* loopBlocks: backwards from the latch, as far as the header. *)
LoopBlocks(pred, header, latch) ==
    Closure([b \in DOMAIN pred |-> IF b = header THEN {} ELSE pred[b]], {header, latch})

(* The edges back: from a block to one that dominates it. *)
EdgesUpwards(pred, dom, h) == {n \in pred[h] : h <= n}
Latches(pred, dom, h) == {n \in pred[h] : h \in dom[n]}

(* One loop per header, with all its latches. *)
LoopsAlong(pred, dom) ==
    LET loop(h, latches) == [header |-> h, latches |-> latches,
                             blocks |-> UNION {LoopBlocks(pred, h, n) : n \in latches}]
    IN  {loop(h, Latches(pred, dom, h)) : h \in {b \in DOMAIN pred : Latches(pred, dom, b) # {}}}
NaturalLoops(cfg) == LoopsAlong(CfgPredecessors(cfg), Dominators(cfg))
LoopLabelled(cfg, label) == CHOOSE l \in NaturalLoops(cfg) : cfg[l.header].label = label

(* preheaderIndex: the one reachable entry, if it leads nowhere else; 0    *)
(* stands for none.                                                        *)
Entries(pred, dom, loop) == {p \in pred[loop.header] \ loop.latches : p \in dom[loop.header]}
OnlyEntry(cfg, loop, entries) ==
    LET fits(p) == p \notin loop.blocks /\ CfgSuccessors(cfg, p) = {loop.header}
    IN  IF Cardinality(entries) = 1 /\ \A p \in entries : fits(p)
        THEN CHOOSE p \in entries : TRUE ELSE 0
PreheaderIndex(cfg, loop) ==
    OnlyEntry(cfg, loop, Entries(CfgPredecessors(cfg), Dominators(cfg), loop))
HasPreheader(cfg, loop) == PreheaderIndex(cfg, loop) # 0

(* --- Preheader.cpp, LoopFacts.cpp ------------------------------------------ *)

InsertBlock(cfg, at, block) == SubSeq(cfg, 1, at - 1) \o <<block>> \o SubSeq(cfg, at, Len(cfg))

(* A latch above the header that falls into it is made to jump, so that    *)
(* what is put before the header is not on its way.                        *)
NeverFallsThrough(cfg, loop) == FALSE
FallsThroughToHeader(cfg, loop) ==
    loop.header - 1 \in loop.latches /\ ~EndsForGood(cfg[loop.header - 1])

LatchApart(cfg, loop, fresh) ==
    LET label == cfg[loop.header].label
        latch == loop.header - 1
        apart == InsertBlock(cfg, loop.header, [label |-> fresh, insts |-> <<JumpI(label)>>])
        leaping == [cfg EXCEPT ![latch].insts = Append(@, JumpI(label))]
    IN  IF ~FallsThroughToHeader(cfg, loop) THEN [cfg |-> cfg, loop |-> loop, fresh |-> fresh]
        ELSE IF EndsWithTransfer(cfg[latch])
        THEN [cfg |-> apart, loop |-> LoopLabelled(apart, label), fresh |-> fresh + 1]
        ELSE [cfg |-> leaping, loop |-> loop, fresh |-> fresh]

(* insertOne: fresh is the first unused label; returns the next as well.   *)
EnterThrough(at) ==
    LET cfg == at.cfg
        loop == at.loop
        label == cfg[loop.header].label
        enters(inst) == inst.op = "Jump" /\ inst.arg0 = label
        led(inst) == IF enters(inst) THEN [inst EXCEPT !.arg0 = at.fresh] ELSE inst
        retarget(b) == IF b \in loop.latches THEN cfg[b]
                       ELSE [cfg[b] EXCEPT !.insts = [i \in DOMAIN @ |-> led(@[i])]]
    IN  [cfg |-> InsertBlock([b \in DOMAIN cfg |-> retarget(b)], loop.header,
                             [label |-> at.fresh, insts |-> <<>>]),
         fresh |-> at.fresh + 1]
InsertPreheader(cfg, loop, fresh) ==
    IF loop.header # 1 /\ cfg[loop.header].label = NoSymbol THEN [cfg |-> cfg, fresh |-> fresh]
    ELSE EnterThrough(LatchApart(cfg, loop, fresh))

(* insertPreheadersFor: the loops with these headers, the last one first.  *)
InsertUnlessThere(acc, loop) ==
    IF HasPreheader(acc.cfg, loop) THEN acc ELSE InsertPreheader(acc.cfg, loop, acc.fresh)
HeadersLastFirst(cfg, loops) ==
    LET order == Sorted({l.header : l \in loops}, LAMBDA x, y : x > y)
    IN  [i \in DOMAIN order |-> cfg[order[i]].label]
InsertPreheadersFor(cfg, need, fresh) ==
    Walk(LAMBDA acc, label : InsertUnlessThere(acc, LoopLabelled(acc.cfg, label)),
         [cfg |-> cfg, fresh |-> fresh],
         HeadersLastFirst(cfg, {l \in NaturalLoops(cfg) : cfg[l.header].label \in need}))
=============================================================================
