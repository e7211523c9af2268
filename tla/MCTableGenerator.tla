-------------------------- MODULE MCTableGenerator --------------------------
(***************************************************************************)
(* Small grammars over S, A and B: S takes two to four alternatives of a   *)
(* set in which the same nonterminal stands in different contexts, so that *)
(* LR(1) states differ in their lookaheads only, merging them may or may   *)
(* not lead to a conflict, lookaheads reach a state after it was processed,*)
(* and some grammars are ambiguous.                                        *)
(***************************************************************************)
EXTENDS TableGenerator

StartRules == {<<"A", "a">>, <<"b", "A", "c">>, <<"B", "c">>, <<"b", "b", "B", "a">>, <<"S", "A">>, <<"a", "S">>, <<"B">>}
ARules == {<< <<"d">> >>, << <<"d">>, <<"d", "A">> >>, << <<"B">>, <<"A", "b">> >>}
BRules == {<< <<"d">> >>, << <<"d", "d">>, <<"a">> >>}

AsSequence(set) == FoldSet(LAMBDA rule, sequence : Append(sequence, rule), <<>>, set)
MCFiles ==
    {<< <<"S", AsSequence(rules)>>, <<"A", a>>, <<"B", b>> >> :
        rules \in {set \in SUBSET StartRules : Cardinality(set) \in 2..4}, a \in ARules, b \in BRules}
MCKinds == {"LALR1", "LR1"}
=============================================================================
