------------------------------ MODULE CGrammar ------------------------------
(***************************************************************************)
(* The grammar the compiler's tables are generated from                    *)
(* (src/resources/configuration/grammar.bnf), production by production in  *)
(* the order of the file, in the form LrAutomaton reads: a sequence of     *)
(* <<nonterminal, alternatives>>; and the tables the generator makes of it *)
(* (the files the build writes beside grammar.bnf and the compiler reads). *)
(***************************************************************************)
EXTENDS LrAutomaton

\* Translation units, declarations, types and declarators.
DeclarationRules == <<
    <<"<translation_unit>", << <<"<external_decl>">>, <<"<translation_unit>", "<external_decl>">> >>>>,
    <<"<external_decl>", << <<"<function_definition>">>, <<"<decl>">> >>>>,
    <<"<function_definition>", << <<"<decl_specs>", "<declarator>", "<decl_list>", "<compound_stat>">>,
        <<"<declarator>", "<decl_list>", "<compound_stat>">>,
        <<"<decl_specs>", "<declarator>", "<compound_stat>">>, <<"<declarator>", "<compound_stat>">> >>>>,
    <<"<decl>", << <<"<decl_specs>", "<init_declarator_list>", ";">>, <<"<decl_specs>", ";">> >>>>,
    <<"<decl_list>", << <<"<decl>">>, <<"<decl_list>", "<decl>">> >>>>,
    <<"<decl_specs>", << <<"<storage_class_spec>", "<decl_specs>">>, <<"<storage_class_spec>">>,
        <<"<type_spec>", "<decl_specs>">>, <<"<type_spec>">>, <<"<type_qualifier>", "<decl_specs>">>,
        <<"<type_qualifier>">>, <<"<function_spec>", "<decl_specs>">>, <<"<function_spec>">> >>>>,
    <<"<storage_class_spec>", << <<"auto">>, <<"register">>, <<"static">>, <<"extern">>, <<"typedef">> >>>>,
    <<"<function_spec>", << <<"inline">>, <<"noreturn">> >>>>,
    <<"<type_spec>", << <<"void">>, <<"char">>, <<"short">>, <<"int">>, <<"long">>, <<"float">>,
        <<"double">>, <<"signed">>, <<"unsigned">>, <<"typedef_name">>, <<"<struct_or_union_spec>">>,
        <<"<enum_spec>">>, <<"typeof", "(", "<type_name>", ")">>,
        <<"typeof", "(", "<assignment_exp>", ")">>, <<"bool">>, <<"_Complex">> >>>>,
    <<"<type_qualifier>", << <<"const">>, <<"volatile">>, <<"restrict">> >>>>,
    <<"<struct_or_union_spec>", << <<"<struct_or_union>", "id", "{", "<struct_decl_list>", "}">>,
        <<"<struct_or_union>", "{", "<struct_decl_list>", "}">>, <<"<struct_or_union>", "id">> >>>>,
    <<"<struct_or_union>", << <<"struct">>, <<"union">> >>>>,
    <<"<struct_decl_list>", << <<"<struct_decl>">>, <<"<struct_decl_list>", "<struct_decl>">> >>>>,
    <<"<init_declarator_list>", << <<"<init_declarator>">>,
        <<"<init_declarator_list>", ",", "<init_declarator>">> >>>>,
    <<"<init_declarator>", << <<"<declarator>">>, <<"<declarator>", "=", "<initializer>">> >>>>,
    <<"<struct_decl>", << <<"<spec_qualifier_list>", "<struct_declarator_list>", ";">>,
        <<"<spec_qualifier_list>", ";">> >>>>,
    <<"<spec_qualifier_list>", << <<"<type_spec>", "<spec_qualifier_list>">>, <<"<type_spec>">>,
        <<"<type_qualifier>", "<spec_qualifier_list>">>, <<"<type_qualifier>">> >>>>,
    <<"<struct_declarator_list>", << <<"<struct_declarator>">>,
        <<"<struct_declarator_list>", ",", "<struct_declarator>">> >>>>,
    <<"<struct_declarator>", << <<"<declarator>">>, <<"<declarator>", ":", "<conditional_exp>">>,
        <<":", "<conditional_exp>">> >>>>,
    <<"<enum_spec>", << <<"enum", "id", "{", "<enumerator_list>", "}">>,
        <<"enum", "{", "<enumerator_list>", "}">>, <<"enum", "id">> >>>>,
    <<"<enumerator_list>", << <<"<enumerator>">>, <<"<enumerator_list>", ",", "<enumerator>">>,
        <<"<enumerator_list>", ",">> >>>>,
    <<"<enumerator>", << <<"id">>, <<"id", "=", "<conditional_exp>">> >>>>,
    <<"<declarator>", << <<"<pointer>", "<direct_declarator>">>, <<"<direct_declarator>">> >>>>,
    <<"<direct_declarator>", << <<"id">>, <<"(", "<declarator>", ")">>,
        <<"<direct_declarator>", "[", "<conditional_exp>", "]">>, <<"<direct_declarator>", "[", "]">>,
        <<"<direct_declarator>", "[", "<type_qualifier_list>", "]">>,
        <<"<direct_declarator>", "[", "<type_qualifier_list>", "<conditional_exp>", "]">>,
        <<"<direct_declarator>", "(", "<param_type_list>", ")">>,
        <<"<direct_declarator>", "(", "<id_list>", ")">>, <<"<direct_declarator>", "(", ")">> >>>>,
    <<"<pointer>", << <<"*", "<type_qualifier_list>">>, <<"*">>,
        <<"*", "<type_qualifier_list>", "<pointer>">>, <<"*", "<pointer>">> >>>>,
    <<"<type_qualifier_list>", << <<"<type_qualifier>">>, <<"<type_qualifier_list>", "<type_qualifier>">> >>>>,
    <<"<param_type_list>", << <<"<param_list>">>, <<"<param_list>", ",", "...">> >>>>,
    <<"<param_list>", << <<"<param_decl>">>, <<"<param_list>", ",", "<param_decl>">> >>>>,
    <<"<param_decl>", << <<"<decl_specs>", "<declarator>">>, <<"<decl_specs>", "<abstract_declarator>">>,
        <<"<decl_specs>">> >>>>,
    <<"<id_list>", << <<"id">>, <<"<id_list>", ",", "id">> >>>>,
    <<"<initializer>", << <<"<assignment_exp>">>, <<"{", "<initializer_list>", "}">>,
        <<"{", "<initializer_list>", ",", "}">> >>>>,
    <<"<designator>", << <<".", "id">>, <<"[", "<conditional_exp>", "]">> >>>>,
    <<"<designator_list>", << <<"<designator>">>, <<"<designator_list>", "<designator>">> >>>>,
    <<"<designation>", << <<"<designator_list>", "=">> >>>>,
    <<"<initializer_list>", << <<"<initializer>">>, <<"<designation>", "<initializer>">>,
        <<"<initializer_list>", ",", "<initializer>">>,
        <<"<initializer_list>", ",", "<designation>", "<initializer>">> >>>>,
    <<"<type_name>", << <<"<spec_qualifier_list>", "<abstract_declarator>">>, <<"<spec_qualifier_list>">> >>>>,
    <<"<abstract_declarator>", << <<"<pointer>">>, <<"<pointer>", "<direct_abstract_declarator>">>,
        <<"<direct_abstract_declarator>">> >>>>,
    <<"<direct_abstract_declarator>", << <<"(", "<abstract_declarator>", ")">>,
        <<"<direct_abstract_declarator>", "[", "<conditional_exp>", "]">>,
        <<"[", "<conditional_exp>", "]">>, <<"<direct_abstract_declarator>", "[", "]">>, <<"[", "]">>,
        <<"<direct_abstract_declarator>", "[", "<type_qualifier_list>", "]">>,
        <<"[", "<type_qualifier_list>", "]">>,
        <<"<direct_abstract_declarator>", "[", "<type_qualifier_list>", "<conditional_exp>", "]">>,
        <<"[", "<type_qualifier_list>", "<conditional_exp>", "]">>,
        <<"<direct_abstract_declarator>", "(", "<param_type_list>", ")">>,
        <<"(", "<param_type_list>", ")">>, <<"<direct_abstract_declarator>", "(", ")">>, <<"(", ")">> >>>> >>

\* Statements: an if without else may only end an unmatched one.
StatementRules == <<
    <<"<stat>", << <<"<matched>">>, <<"<unmatched>">> >>>>,
    <<"<matched>", << <<"if", "(", "<exp>", ")", "<matched>", "else", "<matched>">>,
        <<"switch", "(", "<exp>", ")", "<matched>">>, <<"<labeled_stat_matched>">>,
        <<"<iteration_stat_matched>">>, <<"<exp_stat>">>, <<"<compound_stat>">>, <<"<jump_stat>">> >>>>,
    <<"<unmatched>", << <<"if", "(", "<exp>", ")", "<stat>">>,
        <<"if", "(", "<exp>", ")", "<matched>", "else", "<unmatched>">>,
        <<"switch", "(", "<exp>", ")", "<unmatched>">>, <<"<labeled_stat_unmatched>">>,
        <<"<iteration_stat_unmatched>">> >>>>,
    <<"<labeled_stat_matched>", << <<"id", ":", "<matched>">>,
        <<"case", "<conditional_exp>", ":", "<matched>">>, <<"default", ":", "<matched>">> >>>>,
    <<"<labeled_stat_unmatched>", << <<"id", ":", "<unmatched>">>,
        <<"case", "<conditional_exp>", ":", "<unmatched>">>, <<"default", ":", "<unmatched>">> >>>>,
    <<"<exp_stat>", << <<"<exp>", ";">>, <<";">> >>>>,
    <<"<compound_stat>", << <<"{", "<block_item_list>", "}">>, <<"{", "}">> >>>>,
    <<"<block_item_list>", << <<"<block_item>">>, <<"<block_item_list>", "<block_item>">> >>>>,
    <<"<block_item>", << <<"<decl>">>, <<"<stat>">> >>>>,
    <<"<iteration_stat_matched>", << <<"while", "(", "<exp>", ")", "<matched>">>,
        <<"do", "<matched>", "while", "(", "<exp>", ")", ";">>,
        <<"for", "(", "<exp>", ";", "<exp>", ";", "<exp>", ")", "<matched>">>,
        <<"for", "(", "<exp>", ";", "<exp>", ";", ")", "<matched>">>,
        <<"for", "(", "<exp>", ";", ";", "<exp>", ")", "<matched>">>,
        <<"for", "(", "<exp>", ";", ";", ")", "<matched>">>,
        <<"for", "(", ";", "<exp>", ";", "<exp>", ")", "<matched>">>,
        <<"for", "(", ";", "<exp>", ";", ")", "<matched>">>,
        <<"for", "(", ";", ";", "<exp>", ")", "<matched>">>, <<"for", "(", ";", ";", ")", "<matched>">>,
        <<"for", "(", "<decl>", "<exp>", ";", "<exp>", ")", "<matched>">>,
        <<"for", "(", "<decl>", "<exp>", ";", ")", "<matched>">>,
        <<"for", "(", "<decl>", ";", "<exp>", ")", "<matched>">>,
        <<"for", "(", "<decl>", ";", ")", "<matched>">> >>>>,
    <<"<iteration_stat_unmatched>", << <<"while", "(", "<exp>", ")", "<unmatched>">>,
        <<"do", "<unmatched>", "while", "(", "<exp>", ")", ";">>,
        <<"for", "(", "<exp>", ";", "<exp>", ";", "<exp>", ")", "<unmatched>">>,
        <<"for", "(", "<exp>", ";", "<exp>", ";", ")", "<unmatched>">>,
        <<"for", "(", "<exp>", ";", ";", "<exp>", ")", "<unmatched>">>,
        <<"for", "(", "<exp>", ";", ";", ")", "<unmatched>">>,
        <<"for", "(", ";", "<exp>", ";", "<exp>", ")", "<unmatched>">>,
        <<"for", "(", ";", "<exp>", ";", ")", "<unmatched>">>,
        <<"for", "(", ";", ";", "<exp>", ")", "<unmatched>">>, <<"for", "(", ";", ";", ")", "<unmatched>">>,
        <<"for", "(", "<decl>", "<exp>", ";", "<exp>", ")", "<unmatched>">>,
        <<"for", "(", "<decl>", "<exp>", ";", ")", "<unmatched>">>,
        <<"for", "(", "<decl>", ";", "<exp>", ")", "<unmatched>">>,
        <<"for", "(", "<decl>", ";", ")", "<unmatched>">> >>>>,
    <<"<jump_stat>", << <<"goto", "id", ";">>, <<"continue", ";">>, <<"break", ";">>,
        <<"return", "<exp>", ";">>, <<"return", ";">> >>>> >>

\* Expressions, one nonterminal per precedence.
ExpressionRules == <<
    <<"<exp>", << <<"<assignment_exp>">>, <<"<exp>", ",", "<assignment_exp>">> >>>>,
    <<"<assignment_exp>", << <<"<conditional_exp>">>, <<"<unary_exp>", "=", "<assignment_exp>">>,
        <<"<unary_exp>", "*=", "<assignment_exp>">>, <<"<unary_exp>", "/=", "<assignment_exp>">>,
        <<"<unary_exp>", "%=", "<assignment_exp>">>, <<"<unary_exp>", "+=", "<assignment_exp>">>,
        <<"<unary_exp>", "-=", "<assignment_exp>">>, <<"<unary_exp>", "<<=", "<assignment_exp>">>,
        <<"<unary_exp>", ">>=", "<assignment_exp>">>, <<"<unary_exp>", "&=", "<assignment_exp>">>,
        <<"<unary_exp>", "^=", "<assignment_exp>">>, <<"<unary_exp>", "|=", "<assignment_exp>">> >>>>,
    <<"<conditional_exp>", << <<"<logical_or_exp>">>,
        <<"<logical_or_exp>", "?", "<exp>", ":", "<conditional_exp>">> >>>>,
    <<"<logical_or_exp>", << <<"<logical_and_exp>">>, <<"<logical_or_exp>", "||", "<logical_and_exp>">> >>>>,
    <<"<logical_and_exp>", << <<"<inclusive_or_exp>">>, <<"<logical_and_exp>", "&&", "<inclusive_or_exp>">> >>>>,
    <<"<inclusive_or_exp>", << <<"<exclusive_or_exp>">>, <<"<inclusive_or_exp>", "|", "<exclusive_or_exp>">> >>>>,
    <<"<exclusive_or_exp>", << <<"<and_exp>">>, <<"<exclusive_or_exp>", "^", "<and_exp>">> >>>>,
    <<"<and_exp>", << <<"<equality_exp>">>, <<"<and_exp>", "&", "<equality_exp>">> >>>>,
    <<"<equality_exp>", << <<"<relational_exp>">>, <<"<equality_exp>", "==", "<relational_exp>">>,
        <<"<equality_exp>", "!=", "<relational_exp>">> >>>>,
    <<"<relational_exp>", << <<"<shift_expression>">>, <<"<relational_exp>", "<", "<shift_expression>">>,
        <<"<relational_exp>", ">", "<shift_expression>">>,
        <<"<relational_exp>", "<=", "<shift_expression>">>,
        <<"<relational_exp>", ">=", "<shift_expression>">> >>>>,
    <<"<shift_expression>", << <<"<additive_exp>">>, <<"<shift_expression>", "<<", "<additive_exp>">>,
        <<"<shift_expression>", ">>", "<additive_exp>">> >>>>,
    <<"<additive_exp>", << <<"<mult_exp>">>, <<"<additive_exp>", "+", "<mult_exp>">>,
        <<"<additive_exp>", "-", "<mult_exp>">> >>>>,
    <<"<mult_exp>", << <<"<cast_exp>">>, <<"<mult_exp>", "*", "<cast_exp>">>,
        <<"<mult_exp>", "/", "<cast_exp>">>, <<"<mult_exp>", "%", "<cast_exp>">> >>>>,
    <<"<cast_exp>", << <<"<unary_exp>">>, <<"(", "<type_name>", ")", "<cast_exp>">> >>>>,
    <<"<unary_exp>", << <<"<postfix_exp>">>, <<"++", "<unary_exp>">>, <<"--", "<unary_exp>">>,
        <<"&", "<cast_exp>">>, <<"*", "<cast_exp>">>, <<"+", "<cast_exp>">>, <<"-", "<cast_exp>">>,
        <<"~", "<cast_exp>">>, <<"!", "<cast_exp>">>, <<"sizeof", "<unary_exp>">>,
        <<"sizeof", "(", "<type_name>", ")">> >>>>,
    <<"<postfix_exp>", << <<"<primary_exp>">>, <<"<postfix_exp>", "[", "<exp>", "]">>,
        <<"<postfix_exp>", "(", "<argument_exp_list>", ")">>, <<"<postfix_exp>", "(", ")">>,
        <<"<postfix_exp>", ".", "id">>, <<"<postfix_exp>", "->", "id">>, <<"<postfix_exp>", "++">>,
        <<"<postfix_exp>", "--">>, <<"(", "<type_name>", ")", "{", "<initializer_list>", "}">>,
        <<"(", "<type_name>", ")", "{", "<initializer_list>", ",", "}">> >>>>,
    <<"<primary_exp>", << <<"id">>, <<"<const>">>, <<"string">>, <<"(", "<exp>", ")">>, <<"nullptr">>,
        <<"true">>, <<"false">>, <<"_Generic", "(", "<assignment_exp>", ",", "<generic_assoc_list>", ")">> >>>>,
    <<"<generic_assoc_list>", << <<"<generic_association>">>,
        <<"<generic_assoc_list>", ",", "<generic_association>">> >>>>,
    <<"<generic_association>", << <<"<type_name>", ":", "<assignment_exp>">>,
        <<"default", ":", "<assignment_exp>">> >>>>,
    <<"<argument_exp_list>", << <<"<assignment_exp>">>, <<"<argument_exp_list>", ",", "<assignment_exp>">> >>>>,
    <<"<const>", << <<"int_const">>, <<"char_const">>, <<"float_const">>, <<"enumeration_const">> >>>> >>

\* The tables.
TablesOf(grammar, collection) ==
    [rules |-> grammar.rules, terminals |-> Range(grammar.terminals),
     actions |-> Decided(ActionTable(grammar, collection)), gotos |-> GotoTable(grammar, collection)]
GeneratedFrom(grammar) == TablesOf(grammar, Tab(Collect(grammar, "LALR1", InitialCollection(grammar), 13)))
Generated == Tab(GeneratedFrom(Tab(Grammar(ReadRules(DeclarationRules \o StatementRules \o ExpressionRules)))))
=============================================================================
