---------------------------- MODULE LrAutomaton ----------------------------
(***************************************************************************)
(* The generator of the parser's tables (src/src/parser): the grammar, its *)
(* FIRST table, the canonical collection of LALR(1) or LR(1) item sets and *)
(* the actions and gotos read off it.                                      *)
(*                                                                         *)
(* A core is <<rule, dot>>.  An item set is held as                        *)
(*   kernel    its items with the dot moved, core -> lookaheads            *)
(*   expanded  the nonterminals whose rules the closure adds with the dot  *)
(*             in front: closeItemSet gives all of one nonterminal's rules *)
(*             the same lookaheads, so they are kept once.                 *)
(* Symbols are names; a rule is <<left hand side, right hand side>>.  The  *)
(* code numbers rules and terminals by the names of the nonterminals, here *)
(* they keep the order of the file: a number only tells one from another.  *)
(***************************************************************************)
EXTENDS Integers, Sequences, FiniteSets, SequencesExt

END == "<end>"                      \* Token::END
START == "<__start__>"
Inherited == "#"                    \* the lookaheads of the item the closure started from

Lhs(rule) == rule[1]
Rhs(rule) == rule[2]

\* The value f itself; TLC computes it here once, whole.
Tab(f) == CHOOSE v \in {f} : v = v
At(looks, key) == IF key \in DOMAIN looks THEN looks[key] ELSE {}
Merged(one, other) ==
    Tab([key \in DOMAIN one \cup DOMAIN other |-> At(one, key) \cup At(other, key)])

(***************************************************************************)
(* BNFFileReader, GrammarBuilder and Grammar: definitions is the file, a   *)
(* sequence of <<nonterminal, alternatives>>.  A symbol with a rule is a   *)
(* nonterminal; the first one defined is what the top rule, added last,    *)
(* produces.                                                               *)
(***************************************************************************)
ReadRules(definitions) ==
    FlattenSeq([d \in DOMAIN definitions |->
        [a \in DOMAIN definitions[d][2] |-> <<definitions[d][1], definitions[d][2][a]>>]])

\* The symbols in the order of the places where they first appear.
Ranked(rank) == [k \in 1..Cardinality(DOMAIN rank) |-> CHOOSE x \in DOMAIN rank : rank[x] = k - 1]
Ordered(place) ==
    Ranked(Tab([x \in DOMAIN place |-> Cardinality({y \in DOMAIN place : place[y] < place[x]})]))
DefinedAt(rules) ==
    Tab([n \in {Lhs(rules[r]) : r \in DOMAIN rules} |-> Min({r \in DOMAIN rules : Lhs(rules[r]) = n})])
\* The place of a symbol in the right hand sides, Width places to a rule.
Width == 16
ProducedAt(rules, symbols) ==
    Tab([x \in symbols |->
            Min(UNION {{r * Width + i : i \in {j \in DOMAIN Rhs(rules[r]) : Rhs(rules[r])[j] = x}} :
                          r \in DOMAIN rules})])
Nonterminals(rules) == Ordered(DefinedAt(rules))
Terminals(rules, nonterminals) ==
    Ordered(ProducedAt(rules, UNION {Range(Rhs(rules[r])) : r \in DOMAIN rules} \ Range(nonterminals)))
WithTopRule(rules, nonterminals) == Append(rules, <<START, <<Head(nonterminals)>>>>)

(***************************************************************************)
(* FirstTable: no production is empty, so FIRST of a rule is FIRST of the  *)
(* symbol it begins with.                                                  *)
(***************************************************************************)
FirstOf(first, symbol) == IF symbol \in DOMAIN first THEN first[symbol] ELSE {symbol}

RECURSIVE GrowFirst(_, _)
GrowFirst(corners, first) ==
    LET grown == [n \in DOMAIN first |-> first[n] \cup UNION {FirstOf(first, s) : s \in corners[n]}]
    IN IF grown = first THEN first ELSE GrowFirst(corners, grown)
FirstTable(corners) == GrowFirst(corners, [n \in DOMAIN corners |-> {}])

(***************************************************************************)
(* What closeItemSet passes from an item to the rules of the symbol after  *)
(* its dot: FIRST of the symbol after that one, or the item's lookaheads.  *)
(***************************************************************************)
Propagated(first, rhs, dot, looks) ==
    IF dot + 1 < Len(rhs) THEN FirstOf(first, rhs[dot + 2]) ELSE looks

\* The lookaheads the rules of `from` pass to those of n they begin with.
Passed(rules, first, from, n) ==
    UNION {Propagated(first, Rhs(rules[r]), 0, {Inherited}) :
              r \in {q \in DOMAIN rules : Lhs(rules[q]) = from /\ Head(Rhs(rules[q])) = n}}

Filled(looks, given) ==
    IF Inherited \in looks THEN (looks \ {Inherited}) \cup given ELSE looks

\* The worklist of closeItemSet: a nonterminal whose lookaheads grew is expanded again.
RECURSIVE Spread(_, _, _)
Spread(passed, looks, work) ==
    IF work = {} THEN looks
    ELSE LET from == CHOOSE n \in work : TRUE
             sent == Tab([n \in DOMAIN passed[from] |-> Filled(passed[from][n], looks[from])])
             grown == {n \in DOMAIN sent : n \notin DOMAIN looks \/ ~(sent[n] \subseteq looks[n])}
         IN Spread(passed, Merged(looks, [n \in grown |-> sent[n]]), (work \ {from}) \cup grown)

CornersOf(rules, nonterminals) ==
    Tab([n \in Range(nonterminals) |-> {Head(Rhs(rules[r])) : r \in {q \in DOMAIN rules : Lhs(rules[q]) = n}}])
PassedBy(rules, first, corners) ==
    Tab([n \in DOMAIN corners |-> [m \in corners[n] \cap DOMAIN corners |-> Passed(rules, first, n, m)]])

\* A grammar with what the construction looks up: FIRST, the rules that begin
\* with a symbol, and what the closure adds for each nonterminal.
Indexed(rules, nonterminals, terminals, first, corners, passed) ==
    [rules |-> rules, nonterminals |-> nonterminals, terminals |-> Append(terminals, END),
     first |-> first, corners |-> corners,
     by |-> Tab([X \in UNION {Range(Rhs(rules[r])) : r \in DOMAIN rules} |->
                    {r \in DOMAIN rules : Head(Rhs(rules[r])) = X /\ Lhs(rules[r]) # START}]),
     spread |-> Tab([n \in DOMAIN corners |-> Spread(passed, n :> {Inherited}, {n})])]

WithFirst(rules, nonterminals, corners, first) ==
    Indexed(WithTopRule(rules, nonterminals), nonterminals, Terminals(rules, nonterminals), first,
            corners, PassedBy(rules, first, corners))
WithCorners(rules, nonterminals, corners) ==
    WithFirst(rules, nonterminals, corners, FirstTable(corners))
Grammar(rules) == WithCorners(rules, Nonterminals(rules), CornersOf(rules, Nonterminals(rules)))

TopRule(grammar) == Len(grammar.rules)
IsTerminal(grammar, symbol) == symbol \notin DOMAIN grammar.first

(***************************************************************************)
(* LR1Item and closeItemSet.                                               *)
(***************************************************************************)
HasNext(grammar, core) == core[2] < Len(Rhs(grammar.rules[core[1]]))
NextSymbol(grammar, core) == Rhs(grammar.rules[core[1]])[core[2] + 1]
Advance(core) == <<core[1], core[2] + 1>>

Seeds(grammar, kernel) ==
    LET ahead == {c \in DOMAIN kernel : HasNext(grammar, c) /\ ~IsTerminal(grammar, NextSymbol(grammar, c))}
    IN [n \in {NextSymbol(grammar, c) : c \in ahead} |->
            UNION {Propagated(grammar.first, Rhs(grammar.rules[c[1]]), c[2], kernel[c]) :
                      c \in {d \in ahead : NextSymbol(grammar, d) = n}}]
Expanded(grammar, seeds) ==
    [n \in UNION {DOMAIN grammar.spread[s] : s \in DOMAIN seeds} |->
        UNION {Filled(grammar.spread[s][n], seeds[s]) : s \in {t \in DOMAIN seeds : n \in DOMAIN grammar.spread[t]}}]
Closed(grammar, kernel) ==
    [kernel |-> kernel, expanded |-> Tab(Expanded(grammar, Tab(Seeds(grammar, kernel))))]

\* Every item of a set, core -> lookaheads.
Items(grammar, set) ==
    Tab([core \in DOMAIN set.kernel \cup {<<r, 0>> : r \in {q \in DOMAIN grammar.rules :
                                                Lhs(grammar.rules[q]) \in DOMAIN set.expanded}} |->
            IF core \in DOMAIN set.kernel THEN set.kernel[core]
            ELSE set.expanded[Lhs(grammar.rules[core[1]])]])

(***************************************************************************)
(* gotoAllFrom: the closed item set each symbol leads to.                  *)
(***************************************************************************)
GotoSymbols(grammar, set) ==
    {NextSymbol(grammar, c) : c \in {d \in DOMAIN set.kernel : HasNext(grammar, d)}}
        \cup UNION {grammar.corners[n] : n \in DOMAIN set.expanded}
Moved(grammar, set, symbol, begun) ==
    Tab([core \in {Advance(c) : c \in {d \in DOMAIN set.kernel : HasNext(grammar, d)
                                                              /\ NextSymbol(grammar, d) = symbol}}
                  \cup {<<r, 1>> : r \in begun} |->
            IF core[2] = 1 /\ core[1] \in begun THEN set.expanded[Lhs(grammar.rules[core[1]])]
            ELSE set.kernel[<<core[1], core[2] - 1>>]])
Goto(grammar, set, symbol) ==
    Closed(grammar, Moved(grammar, set, symbol,
        {r \in grammar.by[symbol] : Lhs(grammar.rules[r]) \in DOMAIN set.expanded}))
GotoAllFrom(grammar, set) == Tab([X \in GotoSymbols(grammar, set) |-> Goto(grammar, set, X)])

(***************************************************************************)
(* computeLALR1 and computeLR1: one step takes the first state of the      *)
(* worklist.  A goto set is a known state when the cores (LALR) or the     *)
(* items (LR) agree; into a state of the same cores the lookaheads are     *)
(* merged, and a state that gained some is processed again.                *)
(***************************************************************************)
Signature(kind, set) == IF kind = "LALR1" THEN DOMAIN set.kernel ELSE set.kernel
MergedSet(one, other) ==
    [kernel |-> Merged(one.kernel, other.kernel), expanded |-> Merged(one.expanded, other.expanded)]

InOrder(grammar, symbols) ==
    SelectSeq(grammar.nonterminals, LAMBDA x : x \in symbols)
        \o SelectSeq(grammar.terminals, LAMBDA x : x \in symbols)
Known(signatures, signature) == {i \in DOMAIN signatures : signatures[i] = signature}
Position(seq, x) == CHOOSE i \in DOMAIN seq : seq[i] = x
Targets(sets, gotos, known, fresh) ==
    [X \in DOMAIN gotos |-> IF known[X] = {} THEN Len(sets) + Position(fresh, X)
                                             ELSE CHOOSE i \in known[X] : TRUE]
Arrived(sets, gotos, target) ==
    [i \in 1..(Len(sets) + Cardinality({X \in DOMAIN target : target[X] > Len(sets)})) |->
        LET into == {X \in DOMAIN target : target[X] = i}
        IN IF into = {} THEN sets[i]
           ELSE LET X == CHOOSE Y \in into : TRUE
                IN IF i > Len(sets) THEN gotos[X] ELSE MergedSet(sets[i], gotos[X])]
\* mutant of Requeued: a state that gained lookaheads is not processed again
OnlyNewQueued(queue, sets, arrived, order, target) ==
    queue \o SelectSeq([k \in DOMAIN order |-> target[order[k]]], LAMBDA i : ~Contains(queue, i) /\ i > Len(sets))
\* mutant of Requeued: every state reached is processed again
AllQueued(queue, sets, arrived, order, target) ==
    queue \o SelectSeq([k \in DOMAIN order |-> target[order[k]]], LAMBDA i : ~Contains(queue, i))
Requeued(queue, sets, arrived, order, target) ==
    queue \o SelectSeq([k \in DOMAIN order |-> target[order[k]]],
                       LAMBDA i : ~Contains(queue, i) /\ (i > Len(sets) \/ arrived[i] # sets[i]))
Linked(collection, order, target, arrived) ==
    [sets |-> arrived,
     gotos |-> [i \in DOMAIN arrived |-> IF i = Head(collection.queue) THEN target
                                         ELSE IF i \in DOMAIN collection.gotos THEN collection.gotos[i] ELSE <<>>],
     queue |-> Requeued(Tail(collection.queue), collection.sets, arrived, order, target)]
Placed(collection, gotos, order, target) ==
    Linked(collection, order, target, Tab(Arrived(collection.sets, gotos, target)))
Directed(collection, gotos, order, known) ==
    Placed(collection, gotos, order,
           Tab(Targets(collection.sets, gotos, known, SelectSeq(order, LAMBDA X : known[X] = {}))))
Entered(grammar, kind, collection, gotos, signatures) ==
    Directed(collection, gotos, InOrder(grammar, DOMAIN gotos),
             Tab([X \in DOMAIN gotos |-> Known(signatures, Signature(kind, gotos[X]))]))
ProcessState(grammar, kind, collection) ==
    Entered(grammar, kind, collection, GotoAllFrom(grammar, collection.sets[Head(collection.queue)]),
            Tab([i \in DOMAIN collection.sets |-> Signature(kind, collection.sets[i])]))

InitialSet(grammar) == Closed(grammar, <<TopRule(grammar), 0>> :> {END})
InitialCollection(grammar) == [sets |-> <<InitialSet(grammar)>>, gotos |-> <<<<>>>>, queue |-> <<1>>]

\* The whole loop, 2^depth states at a time.
RECURSIVE Collect(_, _, _, _)
Collect(grammar, kind, collection, depth) ==
    IF collection.queue = <<>> THEN collection
    ELSE IF depth = 0 THEN Tab(ProcessState(grammar, kind, collection))
    ELSE Collect(grammar, kind, Collect(grammar, kind, collection, depth - 1), depth - 1)

(***************************************************************************)
(* computeActionTable and computeGotoTable.  An action is <<"shift",       *)
(* state>>, <<"reduce", rule>> or <<"accept", 0>>; the set of the actions  *)
(* an item set asks for at a terminal has more than one element where      *)
(* addAction throws.                                                       *)
(***************************************************************************)
ShiftsOf(grammar, items, target) ==
    {<<NextSymbol(grammar, c), <<"shift", target[NextSymbol(grammar, c)]>>>> :
        c \in {d \in DOMAIN items : HasNext(grammar, d) /\ IsTerminal(grammar, NextSymbol(grammar, d))}}
Completed(grammar, items) == {c \in DOMAIN items : ~HasNext(grammar, c)}
AcceptsTop(grammar, items, c) == c[1] = TopRule(grammar) /\ END \in items[c]
ReducesOf(grammar, items) ==
    UNION {IF AcceptsTop(grammar, items, c) THEN {<<END, <<"accept", 0>>>>}
           ELSE {<<t, <<"reduce", c[1]>>>> : t \in items[c]} : c \in Completed(grammar, items)}

ActionsOf(asked) == Tab([t \in {ask[1] : ask \in asked} |-> {ask[2] : ask \in {a \in asked : a[1] = t}}])
AskedIn(grammar, items, target) == ShiftsOf(grammar, items, target) \cup ReducesOf(grammar, items)
ActionTable(grammar, collection) ==
    Tab([i \in DOMAIN collection.sets |->
            ActionsOf(Tab(AskedIn(grammar, Items(grammar, collection.sets[i]), collection.gotos[i])))])
\* mutant of Conflicting: two reductions are taken for one action
OnlyKindsConflict(asked) ==
    \E i \in DOMAIN asked : \E t \in DOMAIN asked[i] : Cardinality({a[1] : a \in asked[i][t]}) > 1
Conflicting(asked) == \E i \in DOMAIN asked : \E t \in DOMAIN asked[i] : Cardinality(asked[i][t]) > 1
Decided(asked) ==
    Tab([i \in DOMAIN asked |-> Tab([t \in DOMAIN asked[i] |-> CHOOSE a \in asked[i][t] : TRUE])])
GotoTable(grammar, collection) ==
    Tab([i \in DOMAIN collection.gotos |->
            [n \in DOMAIN collection.gotos[i] \cap DOMAIN grammar.first |-> collection.gotos[i][n]]])

=============================================================================
