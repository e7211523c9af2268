--------------------------- MODULE TableGenerator ---------------------------
(***************************************************************************)
(* generateParsingTable (src/src/parser) as a process: the canonical       *)
(* collection is built one state of the worklist at a time, the actions    *)
(* are read off the item sets (which fails where two of them disagree) and *)
(* the table is compiled into the arrays the parser looks cells up in.     *)
(***************************************************************************)
EXTENDS LrAutomaton

CONSTANTS
    Files,          \* the grammar files: sequences of <<nonterminal, alternatives>>
    Kinds,          \* the kinds of automaton, a subset of {"LALR1", "LR1"}
    WordLength      \* the longest word the tables are tried on

VARIABLES
    grammar,        \* Grammar
    kind,           \* AutomatonKind
    collection,     \* CanonicalCollection: item sets, computed gotos, worklist
    table,          \* ParsingTable, once compiled
    phase           \* "collect", "compile", then "generated" or "conflict"

vars == <<grammar, kind, collection, table, phase>>

NoTable == [states |-> 0]

(***************************************************************************)
(* ParsingTableAccess::compile.  A symbol's id is its place in the grammar,*)
(* nonterminals first; an array has one row per state and one column per   *)
(* id from the least to the greatest that occurs.                          *)
(***************************************************************************)
Id(symbol) ==
    IF IsTerminal(grammar, symbol)
    THEN Len(grammar.nonterminals) + Position(grammar.terminals, symbol) - 1
    ELSE Position(grammar.nonterminals, symbol) - 1

Cells(rows) == {<<i, symbol>> \in (DOMAIN rows) \X Range(grammar.nonterminals \o grammar.terminals) :
                    symbol \in DOMAIN rows[i]}
ColumnIds(rows) == {Id(cell[2]) : cell \in Cells(rows)}
Array(rows, least, columns, empty) ==
    LET index(cell) == (cell[1] - 1) * columns + Id(cell[2]) - least
        written == {index(cell) : cell \in Cells(rows)}
        at(i) == CHOOSE cell \in Cells(rows) : index(cell) = i
    IN Tab([i \in 0..(Len(rows) * columns - 1) |->
                IF i \in written THEN rows[at(i)[1]][at(i)[2]] ELSE empty])
Columns(ids) == IF ids = {} THEN 0 ELSE Max(ids) - Min(ids) + 1
Least(ids) == IF ids = {} THEN 0 ELSE Min(ids)

Compiled(actions, gotos, terminals, nonterminals) ==
    [states |-> Len(actions),
     minTerminal |-> Least(terminals), terminalColumns |-> Columns(terminals),
     minNonterminal |-> Least(nonterminals), nonterminalColumns |-> Columns(nonterminals),
     cells |-> Array(actions, Least(terminals), Columns(terminals), <<"empty", 0>>),
     gotos |-> Array(gotos, Least(nonterminals), Columns(nonterminals), 0)]
Compile(actions, gotos) == Compiled(actions, gotos, ColumnIds(actions), ColumnIds(gotos))

\* ParsingTable::cell and go_to.
\* mutant of Cell: the last column is taken to be out of range
CellButLast(state, symbol) ==
    LET column == Id(symbol) - table.minTerminal
    IN IF column \in 0..(table.terminalColumns - 2)
       THEN table.cells[(state - 1) * table.terminalColumns + column] ELSE <<"empty", 0>>
Cell(state, symbol) ==
    LET column == Id(symbol) - table.minTerminal
    IN IF column \in 0..(table.terminalColumns - 1)
       THEN table.cells[(state - 1) * table.terminalColumns + column] ELSE <<"empty", 0>>
GoTo(state, nonterminal) ==
    table.gotos[(state - 1) * table.nonterminalColumns + Id(nonterminal) - table.minNonterminal]

(***************************************************************************)
(* The generator.                                                          *)
(***************************************************************************)
Init ==
    /\ grammar \in {Grammar(ReadRules(file)) : file \in Files}
    /\ kind \in Kinds
    /\ collection = InitialCollection(grammar)
    /\ table = NoTable
    /\ phase = "collect"

\* computeLALR1 or computeLR1: one state of the worklist.
CollectState ==
    /\ phase = "collect" /\ collection.queue # <<>>
    /\ collection' = ProcessState(grammar, kind, collection)
    /\ UNCHANGED <<grammar, kind, table, phase>>

Collected ==
    /\ phase = "collect" /\ collection.queue = <<>>
    /\ phase' = "compile"
    /\ UNCHANGED <<grammar, kind, collection, table>>

\* computeActionTable throws at the second action for a state and a terminal.
Conflict ==
    /\ phase = "compile" /\ Conflicting(ActionTable(grammar, collection))
    /\ phase' = "conflict"
    /\ UNCHANGED <<grammar, kind, collection, table>>

CompileTable ==
    /\ phase = "compile" /\ ~Conflicting(ActionTable(grammar, collection))
    /\ table' = Compile(Decided(ActionTable(grammar, collection)), GotoTable(grammar, collection))
    /\ phase' = "generated"
    /\ UNCHANGED <<grammar, kind, collection>>

Finished == phase \in {"generated", "conflict"} /\ UNCHANGED vars

Next == CollectState \/ Collected \/ Conflict \/ CompileTable \/ Finished

Spec == Init /\ [][Next]_vars

(***************************************************************************)
(* The loop of runLrParse on a word: shift, reduce, accept or error.       *)
(***************************************************************************)
Shifted(stack, state) == Append(stack, state)
RECURSIVE Accepts(_, _)
Accepts(stack, word) ==
    LET action == Cell(Last(stack), Head(word))
        rule == grammar.rules[action[2]]
        popped == SubSeq(stack, 1, Len(stack) - Len(Rhs(rule)))
    IN \/ action[1] = "accept"
       \/ action[1] = "shift" /\ Accepts(Shifted(stack, action[2]), Tail(word))
       \/ action[1] = "reduce" /\ Accepts(Shifted(popped, GoTo(Last(popped), Lhs(rule))), word)

(***************************************************************************)
(* References: canonical LR(1) item sets by their textbook definition, and *)
(* the language of the grammar up to a length.                             *)
(***************************************************************************)
\* An item here is <<rule, dot, lookahead>>, a state a set of items.
After(item) == SubSeq(Rhs(grammar.rules[item[1]]), item[2] + 1, Len(Rhs(grammar.rules[item[1]])))
Begins(item) ==
    IF Len(After(item)) = 1 THEN {item[3]} ELSE FirstOf(grammar.first, After(item)[2])
Predicted(item) ==
    IF After(item) = <<>> THEN {}
    ELSE {<<r, 0, t>> : r \in {q \in DOMAIN grammar.rules : Lhs(grammar.rules[q]) = Head(After(item))},
                        t \in Begins(item)}
RECURSIVE Closure(_)
Closure(items) ==
    LET more == items \cup UNION {Predicted(item) : item \in items}
    IN IF more = items THEN items ELSE Closure(more)
Successors(items) ==
    {Closure({<<i[1], i[2] + 1, i[3]>> : i \in {j \in items : After(j) # <<>> /\ Head(After(j)) = X}}) :
        X \in {Head(After(i)) : i \in {j \in items : After(j) # <<>>}}}
RECURSIVE Reached(_)
Reached(states) ==
    LET more == states \cup UNION {Successors(s) : s \in states}
    IN IF more = states THEN states ELSE Reached(more)
CanonicalStates == Reached({Closure({<<TopRule(grammar), 0, END>>})})

CoreOf(items) == {<<i[1], i[2]>> : i \in items}
MergedStates(states) ==
    IF kind = "LR1" THEN states
    ELSE {UNION {s \in states : CoreOf(s) = core} : core \in {CoreOf(s) : s \in states}}
Triples(items) == UNION {{<<core[1], core[2], t>> : t \in items[core]} : core \in DOMAIN items}

RECURSIVE Concatenations(_, _)
Concatenations(language, rhs) ==
    IF rhs = <<>> THEN {<<>>}
    ELSE {w \in {u \o v : u \in language[Head(rhs)], v \in Concatenations(language, Tail(rhs))} :
             Len(w) <= WordLength}
RECURSIVE Words(_)
Words(language) ==
    LET more == Tab([symbol \in DOMAIN language |->
                    IF IsTerminal(grammar, symbol) THEN {<<symbol>>}
                    ELSE UNION {Concatenations(language, Rhs(grammar.rules[r])) :
                                   r \in {q \in DOMAIN grammar.rules : Lhs(grammar.rules[q]) = symbol}}])
    IN IF more = language THEN language ELSE Words(more)
Language == Words([symbol \in Range(grammar.nonterminals \o grammar.terminals) |-> {}])[grammar.nonterminals[1]]

(***************************************************************************)
(* Properties.                                                             *)
(***************************************************************************)
\* When the worklist of computeLALR1 is empty, the states are those of the
\* canonical LR(1) automaton merged by their cores, with exactly the union of
\* their lookaheads: no gain of lookaheads was left unpropagated, none invented.
\* computeLR1 ends with the canonical automaton itself.
StatesExact ==
    phase # "collect" =>
        /\ {Triples(Items(grammar, set)) : set \in Range(collection.sets)} = MergedStates(CanonicalStates)
        /\ Len(collection.sets) = Cardinality(MergedStates(CanonicalStates))

\* A table that was generated accepts exactly the words of the grammar's language.
AcceptsLanguage ==
    phase = "generated" =>
        \A length \in 1..WordLength :
            {word \in [1..length -> Range(grammar.terminals) \ {END}] : Accepts(<<1>>, Append(word, END))}
                = {word \in Language : Len(word) = length}

\* The generator refuses a grammar exactly when two items of one state of that
\* automaton ask for different actions at a terminal.
Demands(state, terminal) ==
    {<<"shift", 0>> : i \in {j \in state : After(j) # <<>> /\ Head(After(j)) = terminal}}
        \cup {<<"reduce", i[1]>> : i \in {j \in state : After(j) = <<>> /\ j[3] = terminal}}
Ambiguous ==
    \E state \in MergedStates(CanonicalStates), terminal \in Range(grammar.terminals) :
        Cardinality(Demands(state, terminal)) > 1
RefusesAmbiguous ==
    phase \in {"generated", "conflict"} => ((phase = "conflict") = Ambiguous)

\* The worklist runs dry: a step that does not find a new state or a new
\* lookahead leaves one state fewer to process, and nothing found is ever lost.
SizeOf(set) ==
    FoldSet(LAMBDA key, n : n + Cardinality(set.kernel[key]), 0, DOMAIN set.kernel)
        + FoldSet(LAMBDA key, n : n + Cardinality(set.expanded[key]), 0, DOMAIN set.expanded)
Found(sets) == FoldFunction(LAMBDA set, n : n + SizeOf(set), 0, sets)
WorklistAdvances ==
    [][collection' # collection =>
        /\ \A i \in DOMAIN collection.sets :
               Triples(collection.sets[i].kernel) \subseteq Triples(collection'.sets[i].kernel)
        /\ \/ Found(collection'.sets) > Found(collection.sets)
           \/ /\ Found(collection'.sets) = Found(collection.sets)
              /\ Len(collection'.queue) < Len(collection.queue)]_vars
=============================================================================
