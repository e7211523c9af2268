---------------------------- MODULE TreeBuilder -----------------------------
(***************************************************************************)
(* The creators of the syntax tree (src/src/ast: the CSNB_ files and       *)
(* ContextualSyntaxNodeBuilder).  A reduction runs the creator bound to    *)
(* its production, which pops the parts of the node from typed stacks and  *)
(* pushes the node.  Nothing but the agreement of the grammar with the     *)
(* creators makes the values on top the ones of the production.            *)
(*                                                                         *)
(* A creator is [takes, gives, adds]: the stacks popped, in order, the     *)
(* stacks a value is pushed on, and the stack whose top, a list, is added  *)
(* to.                                                                     *)
(***************************************************************************)
EXTENDS Integers, Sequences, SequencesExt

Stacks ==
    {"terminal", "typeSpecifier", "storageSpecifier", "functionSpecifier", "typeQualifier", "typeQualifierList",
     "specifiers", "pointer", "directDeclarator", "declarator", "initializedDeclarator", "initializedDeclarators",
     "formalArgument", "formalArguments", "argumentsDeclaration", "declaration", "declarationList", "constant",
     "expression", "arguments", "association", "associations", "initializers", "designator", "statement",
     "statements", "isUnion", "members", "structDeclarators", "external"}
\* popInitializerList, addInitializerElement and takePendingDesignator do with nothing.
Tolerant == {"initializers", "designator"}

Makes(stack, takes) == [takes |-> takes, gives |-> <<stack>>, adds |-> ""]
Drops(takes) == [takes |-> takes, gives |-> <<>>, adds |-> ""]
AddsTo(stack, takes) == [takes |-> takes, gives |-> <<>>, adds |-> stack]
Tokens(n) == [i \in 1..n |-> "terminal"]
doNothing == Drops(<<>>)

(***************************************************************************)
(* CSNB_Types.cpp.                                                         *)
(***************************************************************************)
TypeCreators == [
    keywordType |-> Makes("typeSpecifier", <<"terminal">>),
    typedefName |-> Makes("typeSpecifier", <<"terminal">>),
    qualifier |-> Makes("typeQualifier", <<"terminal">>),
    functionSpecifier |-> Makes("functionSpecifier", <<"terminal">>),
    storageClass |-> Makes("storageSpecifier", <<"terminal">>),
    typedefStorageClass |-> Makes("storageSpecifier", <<"terminal">>)]

SpecifierCreators == [
    typeQualifierList |-> Makes("typeQualifierList", <<"typeQualifier">>),
    addTypeQualifierToList |-> AddsTo("typeQualifierList", <<"typeQualifier">>),
    declarationTypeSpecifier |-> Makes("specifiers", <<"typeSpecifier">>),
    addDeclarationTypeSpecifier |-> Makes("specifiers", <<"specifiers", "typeSpecifier">>),
    declarationStorageClassSpecifier |-> Makes("specifiers", <<"storageSpecifier">>),
    addDeclarationStorageClassSpecifier |-> Makes("specifiers", <<"specifiers", "storageSpecifier">>),
    declarationTypeQualifier |-> Makes("specifiers", <<"typeQualifier">>),
    addDeclarationTypeQualifier |-> Makes("specifiers", <<"specifiers", "typeQualifier">>),
    functionSpecifierOnly |-> Makes("specifiers", <<"functionSpecifier">>),
    addDeclarationFunctionSpecifier |-> Makes("specifiers", <<"specifiers", "functionSpecifier">>),
    specQualifierListTypeName |-> Makes("typeSpecifier", <<"specifiers">>)]

(***************************************************************************)
(* CSNB_Declarators.cpp.  An abstract declarator has an anonymous          *)
(* identifier pushed for it, which the same creator pops again.            *)
(***************************************************************************)
DeclaratorCreators == [
    identifierDeclarator |-> Makes("directDeclarator", <<"terminal">>),
    parenthesizedDeclarator |-> Makes("directDeclarator", <<"terminal", "terminal", "declarator">>),
    arrayDeclarator |-> Makes("directDeclarator", <<"terminal", "terminal", "directDeclarator", "expression">>),
    arrayDeclaratorQualified |->
        Makes("directDeclarator", <<"typeQualifierList", "terminal", "terminal", "directDeclarator", "expression">>),
    abstractArrayDeclarator |-> Makes("directDeclarator", <<"terminal", "terminal", "directDeclarator">>),
    abstractArrayDeclaratorQualified |->
        Makes("directDeclarator", <<"typeQualifierList", "terminal", "terminal", "directDeclarator">>),
    abstractArrayOnlySized |-> Makes("directDeclarator", <<"terminal", "terminal", "expression">>),
    abstractArrayOnlyUnsized |-> Makes("directDeclarator", <<"terminal", "terminal">>),
    abstractArrayOnlyQualifiedSized |->
        Makes("directDeclarator", <<"typeQualifierList", "terminal", "terminal", "expression">>),
    abstractArrayOnlyQualifiedUnsized |-> Makes("directDeclarator", <<"typeQualifierList", "terminal", "terminal">>),
    abstractFuncOnly |-> Makes("directDeclarator", <<"terminal", "terminal", "argumentsDeclaration">>),
    abstractNoargOnly |-> Makes("directDeclarator", <<"terminal", "terminal">>),
    functionDeclarator |->
        Makes("directDeclarator", <<"terminal", "terminal", "argumentsDeclaration", "directDeclarator">>),
    noargFunctionDeclarator |-> Makes("directDeclarator", <<"terminal", "terminal", "directDeclarator">>),
    pointerToDeclarator |-> Makes("declarator", <<"directDeclarator", "pointer">>),
    declarator |-> Makes("declarator", <<"directDeclarator">>),
    abstractPointerDeclarator |-> Makes("declarator", <<"pointer">>)]

ParameterCreators == [
    parameterDeclaration |-> Makes("formalArgument", <<"declarator", "specifiers">>),
    abstractParameterDeclaration |-> Makes("formalArgument", <<"specifiers", "declarator">>),
    parameterBaseTypeDeclaration |-> Makes("formalArgument", <<"specifiers">>),
    formalArguments |-> Makes("formalArguments", <<"formalArgument">>),
    addFormalArgument |-> Makes("formalArguments", <<"terminal", "formalArguments", "formalArgument">>),
    formalArgumentsDeclaration |-> Makes("argumentsDeclaration", <<"formalArguments">>),
    formalArgumentsWithVararg |-> Makes("argumentsDeclaration", <<"terminal", "terminal", "formalArguments">>),
    pointer |-> Makes("pointer", <<"terminal">>),
    pointerToPointer |-> AddsTo("pointer", <<"terminal">>),
    qualifiedPointer |-> Makes("pointer", <<"terminal", "typeQualifierList">>),
    qualifiedPointerToPointer |-> AddsTo("pointer", <<"terminal", "typeQualifierList">>)]

(***************************************************************************)
(* CSNB_Declarations.cpp.                                                  *)
(***************************************************************************)
InitializerCreators == [
    braceInitializer |-> Makes("expression", <<"terminal", "initializers", "terminal">>),
    braceInitializerTrailingComma |-> Makes("expression", <<"terminal", "terminal", "initializers", "terminal">>),
    initializerListFirst |-> Makes("initializers", <<"expression">>),
    designatedInitializerListFirst |-> Makes("initializers", <<"expression", "designator">>),
    initializerListAppend |-> AddsTo("initializers", <<"terminal", "expression">>),
    designatedInitializerListAppend |-> AddsTo("initializers", <<"terminal", "expression", "designator">>),
    memberDesignator |-> Makes("designator", <<"terminal", "terminal">>),
    arrayDesignator |-> Makes("designator", <<"terminal", "expression", "terminal">>),
    designatorListAppend |-> Makes("designator", <<"designator", "designator">>),
    designation |-> Drops(<<"terminal">>)]

DeclarationCreators == [
    initializedDeclarator |-> Makes("initializedDeclarator", <<"declarator">>),
    initializedDeclaratorWithInitializer |->
        Makes("initializedDeclarator", <<"terminal", "declarator", "expression">>),
    initializedDeclaratorList |-> Makes("initializedDeclarators", <<"initializedDeclarator">>),
    addToInitializedDeclaratorList |->
        Makes("initializedDeclarators", <<"terminal", "initializedDeclarators", "initializedDeclarator">>),
    initializedDeclaration |-> Makes("declaration", <<"terminal", "specifiers", "initializedDeclarators">>),
    declaration |-> Makes("declaration", <<"terminal", "specifiers">>),
    declarationList |-> Makes("declarationList", <<"declaration">>),
    addDeclarationToList |-> Makes("declarationList", <<"declarationList", "declaration">>),
    functionDefinition |-> Makes("external", <<"specifiers", "declarator", "statement">>),
    defaultReturnTypeFunctionDefinition |-> Makes("external", <<"declarator", "statement">>),
    externalDeclaration |-> Makes("external", <<"declaration">>),
    addToTranslationUnit |-> Drops(<<"external">>)]

(***************************************************************************)
(* The creators of enumerations, structures and unions, written out in     *)
(* ContextualSyntaxNodeBuilder.cpp.                                        *)
(***************************************************************************)
EnumCreators == [
    enumerator |-> Drops(<<"terminal">>),
    enumeratorWithValue |-> Drops(<<"expression", "terminal", "terminal">>),
    separator |-> Drops(<<"terminal">>),
    taggedEnum |-> Makes("typeSpecifier", Tokens(4)),
    enumBody |-> Makes("typeSpecifier", Tokens(3)),
    enumTag |-> Makes("typeSpecifier", Tokens(2))]

RecordCreators == [
    structOrUnion |-> [takes |-> <<"terminal">>, gives |-> <<"isUnion", "members", "structDeclarators">>, adds |-> ""],
    taggedRecord |-> Makes("typeSpecifier", Tokens(3) \o <<"members", "structDeclarators", "isUnion">>),
    recordBody |-> Makes("typeSpecifier", Tokens(2) \o <<"members", "structDeclarators", "isUnion">>),
    recordTag |-> Makes("typeSpecifier", <<"terminal", "isUnion", "members", "structDeclarators">>),
    structDeclarator |-> AddsTo("structDeclarators", <<"declarator">>),
    bitField |-> AddsTo("structDeclarators", <<"expression", "terminal", "declarator">>),
    unnamedBitField |-> AddsTo("structDeclarators", <<"expression", "terminal">>),
    structMembers |-> AddsTo("members", <<"terminal", "specifiers">>),
    anonymousMember |-> AddsTo("members", <<"terminal", "specifiers">>)]

(***************************************************************************)
(* CSNB_Expressions.cpp.                                                   *)
(***************************************************************************)
ExpressionCreators == [
    parenthesizedExpression |-> Drops(<<"terminal", "terminal">>),
    constant |-> Makes("constant", <<"terminal">>),
    identifierExpression |-> Makes("expression", <<"terminal">>),
    constantExpression |-> Makes("expression", <<"constant">>),
    literalExpression |-> Makes("expression", <<"terminal">>),
    arrayAccess |-> Makes("expression", <<"terminal", "terminal", "expression", "expression">>),
    functionCall |-> Makes("expression", <<"terminal", "terminal", "expression", "arguments">>),
    noargFunctionCall |-> Makes("expression", <<"terminal", "terminal", "expression">>),
    memberAccess |-> Makes("expression", <<"terminal", "terminal", "expression">>),
    unaryExpression |-> Makes("expression", <<"terminal", "expression">>),
    typeofTypeName |-> Makes("typeSpecifier", Tokens(3) \o <<"typeSpecifier">>),
    typeofExpression |-> Makes("typeSpecifier", <<"terminal", "expression", "terminal", "terminal">>)]

SelectionCreators == [
    genericAssociationTyped |-> Makes("association", <<"expression", "terminal", "typeSpecifier">>),
    genericAssociationDefault |-> Makes("association", <<"expression", "terminal", "terminal">>),
    genericAssocListFirst |-> Makes("associations", <<"association">>),
    genericAssocListAppend |-> AddsTo("associations", <<"terminal", "association">>),
    genericSelection |->
        Makes("expression", <<"terminal", "associations", "terminal", "expression", "terminal", "terminal">>),
    sizeofTypeExpression |-> Makes("expression", <<"terminal", "terminal", "typeSpecifier", "terminal">>),
    typeNameWithAbstractDeclarator |-> Makes("typeSpecifier", <<"declarator", "specifiers">>),
    typeCast |-> Makes("expression", <<"terminal", "expression", "terminal", "typeSpecifier">>),
    compoundLiteral |-> Makes("expression", <<"terminal", "initializers">> \o Tokens(3) \o <<"typeSpecifier">>),
    compoundLiteralTrailingComma |->
        Makes("expression", <<"terminal", "terminal", "initializers">> \o Tokens(3) \o <<"typeSpecifier">>)]

CombiningCreators == [
    binaryExpression |-> Makes("expression", <<"expression", "expression", "terminal">>),
    conditionalExpression |-> Makes("expression", <<"terminal", "terminal", "expression", "expression", "expression">>),
    createActualArgumentsList |-> Makes("arguments", <<"expression">>),
    addToActualArgumentsList |-> AddsTo("arguments", <<"terminal", "expression">>)]

(***************************************************************************)
(* CSNB_Statements.cpp and forLoop.  A loop over a declaration has one     *)
(* semicolon less: the declaration has popped its own.                     *)
(***************************************************************************)
\* mutant of ForLoop: the declaration is taken to leave its semicolon
ForLoopOfFive(init, hasClause, hasIncrement) ==
    Makes("statement", Tokens(5)
        \o [i \in 1..((IF hasIncrement THEN 1 ELSE 0) + (IF hasClause THEN 1 ELSE 0)) |-> "expression"]
        \o (IF init = "None" THEN <<>> ELSE <<init>>) \o <<"statement">>)
ForLoop(init, hasClause, hasIncrement) ==
    Makes("statement", Tokens(IF init = "declaration" THEN 4 ELSE 5)
        \o [i \in 1..((IF hasIncrement THEN 1 ELSE 0) + (IF hasClause THEN 1 ELSE 0)) |-> "expression"]
        \o (IF init = "None" THEN <<>> ELSE <<init>>) \o <<"statement">>)

StatementCreators == [
    ifStatement |-> Makes("statement", Tokens(3) \o <<"expression", "statement">>),
    ifElseStatement |-> Makes("statement", Tokens(4) \o <<"statement", "statement", "expression">>),
    whileLoopStatement |-> Makes("statement", Tokens(3) \o <<"expression", "statement">>),
    switchStatement |-> Makes("statement", Tokens(3) \o <<"statement", "expression">>),
    namedLabel |-> Makes("statement", <<"terminal", "terminal", "statement">>),
    caseLabel |-> Makes("statement", <<"terminal", "terminal", "statement", "expression">>),
    defaultLabel |-> Makes("statement", <<"terminal", "terminal", "statement">>),
    gotoStatement |-> Makes("statement", Tokens(3)),
    loopJumpStatement |-> Makes("statement", Tokens(2)),
    doWhileLoopStatement |-> Makes("statement", Tokens(5) \o <<"expression", "statement">>),
    statementList |-> Makes("statements", <<"statement">>),
    addToStatementList |-> AddsTo("statements", <<"statement">>),
    returnExpressionStatement |-> Makes("statement", <<"terminal", "terminal", "expression">>),
    returnVoidStatement |-> Makes("statement", Tokens(2)),
    emptyCompound |-> Makes("statement", Tokens(2)),
    blockItemListCompound |-> Makes("statement", <<"terminal", "terminal", "statements">>),
    blockItemDeclaration |-> Makes("statement", <<"declaration">>),
    expressionStatement |-> Makes("statement", <<"terminal", "expression">>),
    emptyStatement |-> Makes("statement", <<"terminal">>)]

(***************************************************************************)
(* bind: the creator of every production, in the order of CGrammar.  The   *)
(* productions of K&R functions report an error, as does one that has no   *)
(* creator.                                                                *)
(***************************************************************************)
unsupported == "unsupported"

DeclarationBindings == <<
    <<"<translation_unit>", <<"addToTranslationUnit", "addToTranslationUnit">>>>,
    <<"<external_decl>", <<"doNothing", "externalDeclaration">>>>,
    <<"<function_definition>", <<unsupported, unsupported, "functionDefinition", "defaultReturnTypeFunctionDefinition">>>>,
    <<"<decl>", <<"initializedDeclaration", "declaration">>>>,
    <<"<decl_list>", <<"declarationList", "addDeclarationToList">>>>,
    <<"<decl_specs>", <<"addDeclarationStorageClassSpecifier", "declarationStorageClassSpecifier",
        "addDeclarationTypeSpecifier", "declarationTypeSpecifier", "addDeclarationTypeQualifier",
        "declarationTypeQualifier", "addDeclarationFunctionSpecifier", "functionSpecifierOnly">>>>,
    <<"<storage_class_spec>", [i \in 1..4 |-> "storageClass"] \o <<"typedefStorageClass">>>>,
    <<"<function_spec>", [i \in 1..2 |-> "functionSpecifier"]>>,
    <<"<type_spec>", [i \in 1..9 |-> "keywordType"] \o <<"typedefName", "doNothing", "doNothing", "typeofTypeName",
        "typeofExpression", "keywordType", "keywordType">>>>,
    <<"<type_qualifier>", [i \in 1..3 |-> "qualifier"]>>,
    <<"<struct_or_union_spec>", <<"taggedRecord", "recordBody", "recordTag">>>>,
    <<"<struct_or_union>", <<"structOrUnion", "structOrUnion">>>>,
    <<"<struct_decl_list>", <<"doNothing", "doNothing">>>>,
    <<"<init_declarator_list>", <<"initializedDeclaratorList", "addToInitializedDeclaratorList">>>>,
    <<"<init_declarator>", <<"initializedDeclarator", "initializedDeclaratorWithInitializer">>>>,
    <<"<struct_decl>", <<"structMembers", "anonymousMember">>>>,
    <<"<spec_qualifier_list>", <<"addDeclarationTypeSpecifier", "declarationTypeSpecifier",
        "addDeclarationTypeQualifier", "declarationTypeQualifier">>>>,
    <<"<struct_declarator_list>", <<"doNothing", "separator">>>>,
    <<"<struct_declarator>", <<"structDeclarator", "bitField", "unnamedBitField">>>>,
    <<"<enum_spec>", <<"taggedEnum", "enumBody", "enumTag">>>>,
    <<"<enumerator_list>", <<"doNothing", "separator", "separator">>>>,
    <<"<enumerator>", <<"enumerator", "enumeratorWithValue">>>>,
    <<"<declarator>", <<"pointerToDeclarator", "declarator">>>>,
    <<"<direct_declarator>", <<"identifierDeclarator", "parenthesizedDeclarator", "arrayDeclarator",
        "abstractArrayDeclarator", "abstractArrayDeclaratorQualified", "arrayDeclaratorQualified",
        "functionDeclarator", unsupported, "noargFunctionDeclarator">>>>,
    <<"<pointer>", <<"qualifiedPointer", "pointer", "qualifiedPointerToPointer", "pointerToPointer">>>>,
    <<"<type_qualifier_list>", <<"typeQualifierList", "addTypeQualifierToList">>>>,
    <<"<param_type_list>", <<"formalArgumentsDeclaration", "formalArgumentsWithVararg">>>>,
    <<"<param_list>", <<"formalArguments", "addFormalArgument">>>>,
    <<"<param_decl>", <<"parameterDeclaration", "abstractParameterDeclaration", "parameterBaseTypeDeclaration">>>>,
    <<"<id_list>", <<unsupported, unsupported>>>> >>

InitializerBindings == <<
    <<"<initializer>", <<"doNothing", "braceInitializer", "braceInitializerTrailingComma">>>>,
    <<"<designator>", <<"memberDesignator", "arrayDesignator">>>>,
    <<"<designator_list>", <<"doNothing", "designatorListAppend">>>>,
    <<"<designation>", <<"designation">>>>,
    <<"<initializer_list>", <<"initializerListFirst", "designatedInitializerListFirst", "initializerListAppend",
        "designatedInitializerListAppend">>>>,
    <<"<type_name>", <<"typeNameWithAbstractDeclarator", "specQualifierListTypeName">>>>,
    <<"<abstract_declarator>", <<"abstractPointerDeclarator", "pointerToDeclarator", "declarator">>>>,
    <<"<direct_abstract_declarator>", <<"parenthesizedDeclarator", "arrayDeclarator", "abstractArrayOnlySized",
        "abstractArrayDeclarator", "abstractArrayOnlyUnsized", "abstractArrayDeclaratorQualified",
        "abstractArrayOnlyQualifiedUnsized", "arrayDeclaratorQualified", "abstractArrayOnlyQualifiedSized",
        "functionDeclarator", "abstractFuncOnly", "noargFunctionDeclarator", "abstractNoargOnly">>>> >>

\* bindBoth: the matched and the unmatched form of a statement have one creator.
ForLoops == <<
    ForLoop("expression", TRUE, TRUE), ForLoop("expression", TRUE, FALSE), ForLoop("expression", FALSE, TRUE),
    ForLoop("expression", FALSE, FALSE), ForLoop("None", TRUE, TRUE), ForLoop("None", TRUE, FALSE),
    ForLoop("None", FALSE, TRUE), ForLoop("None", FALSE, FALSE), ForLoop("declaration", TRUE, TRUE),
    ForLoop("declaration", TRUE, FALSE), ForLoop("declaration", FALSE, TRUE), ForLoop("declaration", FALSE, FALSE)>>
ForNames == <<"forETT", "forETF", "forEFT", "forEFF", "forNTT", "forNTF", "forNFT", "forNFF",
              "forDTT", "forDTF", "forDFT", "forDFF">>
ForCreators == [name \in Range(ForNames) |-> ForLoops[CHOOSE i \in DOMAIN ForNames : ForNames[i] = name]]
IterationCreators == <<"whileLoopStatement", "doWhileLoopStatement">> \o ForNames
LabelCreators == <<"namedLabel", "caseLabel", "defaultLabel">>

StatementBindings == <<
    <<"<stat>", <<"doNothing", "doNothing">>>>,
    <<"<matched>", <<"ifElseStatement", "switchStatement">> \o [i \in 1..5 |-> "doNothing"]>>,
    <<"<unmatched>", <<"ifStatement", "ifElseStatement", "switchStatement", "doNothing", "doNothing">>>>,
    <<"<labeled_stat_matched>", LabelCreators>>,
    <<"<labeled_stat_unmatched>", LabelCreators>>,
    <<"<exp_stat>", <<"expressionStatement", "emptyStatement">>>>,
    <<"<compound_stat>", <<"blockItemListCompound", "emptyCompound">>>>,
    <<"<block_item_list>", <<"statementList", "addToStatementList">>>>,
    <<"<block_item>", <<"blockItemDeclaration", "doNothing">>>>,
    <<"<iteration_stat_matched>", IterationCreators>>,
    <<"<iteration_stat_unmatched>", IterationCreators>>,
    <<"<jump_stat>", <<"gotoStatement", "loopJumpStatement", "loopJumpStatement", "returnExpressionStatement",
        "returnVoidStatement">>>> >>

\* A level of the precedences: one production passes on, the others combine.
Combining(n) == <<"doNothing">> \o [i \in 1..n |-> "binaryExpression"]
ExpressionBindings == <<
    <<"<exp>", Combining(1)>>,
    <<"<assignment_exp>", Combining(11)>>,
    <<"<conditional_exp>", <<"doNothing", "conditionalExpression">>>>,
    <<"<logical_or_exp>", Combining(1)>>,
    <<"<logical_and_exp>", Combining(1)>>,
    <<"<inclusive_or_exp>", Combining(1)>>,
    <<"<exclusive_or_exp>", Combining(1)>>,
    <<"<and_exp>", Combining(1)>>,
    <<"<equality_exp>", Combining(2)>>,
    <<"<relational_exp>", Combining(4)>>,
    <<"<shift_expression>", Combining(2)>>,
    <<"<additive_exp>", Combining(2)>>,
    <<"<mult_exp>", Combining(3)>>,
    <<"<cast_exp>", <<"doNothing", "typeCast">>>>,
    <<"<unary_exp>", <<"doNothing">> \o [i \in 1..9 |-> "unaryExpression"] \o <<"sizeofTypeExpression">>>>,
    <<"<postfix_exp>", <<"doNothing", "arrayAccess", "functionCall", "noargFunctionCall", "memberAccess",
        "memberAccess", "unaryExpression", "unaryExpression", "compoundLiteral", "compoundLiteralTrailingComma">>>>,
    <<"<primary_exp>", <<"identifierExpression", "constantExpression", "literalExpression",
        "parenthesizedExpression", "literalExpression", "literalExpression", "literalExpression",
        "genericSelection">>>>,
    <<"<generic_assoc_list>", <<"genericAssocListFirst", "genericAssocListAppend">>>>,
    <<"<generic_association>", <<"genericAssociationTyped", "genericAssociationDefault">>>>,
    <<"<argument_exp_list>", <<"createActualArgumentsList", "addToActualArgumentsList">>>>,
    <<"<const>", <<"constant", "constant", "constant", unsupported>>>> >>

Bindings == DeclarationBindings \o InitializerBindings \o StatementBindings \o ExpressionBindings
\* creators_: the name of the creator of each rule
CreatorNames == FlattenSeq([b \in DOMAIN Bindings |-> Bindings[b][2]])

\* The creator of a name, from the file that has it.
CreatorsByName == <<TypeCreators, SpecifierCreators, DeclaratorCreators, ParameterCreators, InitializerCreators,
                    DeclarationCreators, EnumCreators, RecordCreators, ExpressionCreators, SelectionCreators,
                    CombiningCreators, StatementCreators, ForCreators>>
CreatorNamed(name) ==
    IF name \in {"doNothing", unsupported} THEN doNothing
    ELSE CreatorsByName[CHOOSE c \in DOMAIN CreatorsByName : name \in DOMAIN CreatorsByName[c]][name]
Creators == [r \in DOMAIN CreatorNames |-> CreatorNamed(CreatorNames[r])]

=============================================================================
