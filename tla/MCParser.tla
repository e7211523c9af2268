------------------------------ MODULE MCParser ------------------------------
(***************************************************************************)
(* The parser with the tables of the compiler's own grammar, over programs *)
(* made of the constructs that declare, hide and use names, and over a     *)
(* program for every other production.                                     *)
(***************************************************************************)
EXTENDS CGrammar, Parser

MCRules == Generated.rules
MCActions == Generated.actions
MCGotos == Generated.gotos

\* There is a creator for every production, and the creators know no other stacks.
ASSUME CreatorsFollowTheGrammar ==
    LET productions == DeclarationRules \o StatementRules \o ExpressionRules
    IN /\ [d \in DOMAIN productions |-> <<productions[d][1], Len(productions[d][2])>>]
            = [d \in DOMAIN Bindings |-> <<Bindings[d][1], Len(Bindings[d][2])>>]
       /\ \A c \in Range(Creators) : Range(c.takes \o c.gives) \subseteq Stacks /\ c.adds \in Stacks \cup {""}

(***************************************************************************)
(* Words.  A name is written with its role; (+ and {+ open a scope of C,   *)
(* )- and }- close one; }n closes a body of n members.                     *)
(***************************************************************************)
Names == {"T", "U", "v", "w", "f", "g", "h", "u", "S", "E", "m", "n"}
Roles == {"type", "value", "typedef", "object", "enumerator", "tag", "tagged", "name"}
Named == [p \in Names \X Roles |-> p[1] \o ":" \o p[2]]
Plain(text) == [text |-> text, role |-> "", body |-> <<>>]
Brackets ==
    [text |-> [w \in {"(+", "{+", ")-", "}-"} |-> IF w = "(+" THEN "(" ELSE IF w = "{+" THEN "{" ELSE IF w = ")-" THEN ")" ELSE "}"],
     role |-> [w \in {"(+", "{+", ")-", "}-"} |-> IF w \in {"(+", "{+"} THEN "open" ELSE "close"]]
Closers == [w \in {"}1", "}2", "}4", "}1packed", "}2packed"} |->
               <<IF w \in {"}1", "}1packed"} THEN 1 ELSE IF w = "}4" THEN 4 ELSE 2, w \in {"}1packed", "}2packed"}>>]
Vocabulary ==
    Tab([w \in Generated.terminals \cup {"packed"} |-> Plain(w)]
        @@ [w \in DOMAIN Brackets.text |-> [text |-> Brackets.text[w], role |-> Brackets.role[w], body |-> <<>>]]
        @@ [w \in DOMAIN Closers |-> [text |-> "}", role |-> "", body |-> Closers[w]]]
        @@ [w \in Range(Named) |-> LET p == CHOOSE q \in DOMAIN Named : Named[q] = w
                                   IN [text |-> p[1], role |-> p[2], body |-> <<>>]]
        @@ "wrong" :> [text |-> "v", role |-> "wrong", body |-> <<>>])
MCWords == Vocabulary
MCEnd == END

Typedef == <<"typedef", "int", "T:typedef", ";">>
Function == <<"int", "f:object", "(+", "void", ")", "{">>
Openings == {
    Typedef \o Function,
    Typedef \o <<"int", "f:object", "(+", "T:type", "T:object", ")", "{">>,
    Typedef \o <<"int", "f:object", "(+", "int", "v:object", ",", "T:type", "w:object", ")", "{">>,
    Typedef \o <<"int", "g:object", "(+", "int", "T:object", ")-", ";">> \o Function,
    Typedef \o <<"enum", "{", "v:enumerator", "=", "sizeof", "(", "T:type", ")", ",", "w:enumerator", "}2", ";">> \o Function,
    Typedef \o <<"int", "f:object", "(+", "int", "(", "*", "T:object", ")", "(+", "int", ")-", ")", "{">>,
    <<"int", "T:object", ";">> \o Function}
ScopingItems == {
    <<"int", "T:object", ";">>,
    <<"typedef", "char", "T:typedef", ";">>,
    <<"T:type", "v:object", ";">>,
    <<"T:type", "*", "v:object", ";">>,
    <<"T:value", "*", "T:value", ";">>,
    <<"(", "T:type", ")", "+", "v:value", ";">>,
    <<"(", "T:value", ")", "+", "int_const", ";">>,
    <<"v:value", "=", "sizeof", "(", "T:type", ")", ";">>,
    <<"{+", "int", "T:object", ";", "T:value", "++", ";", "}-">>,
    <<"{+", "typedef", "char", "T:typedef", ";", "T:type", "v:object", ";", "}-">>,
    <<"if", "(", "T:value", ")", "{+", "typedef", "char", "T:typedef", ";", "}-", "else", "T:value", "--", ";">>,
    <<"struct", "S:tagged", "{", "T:type", "T:name", ";", "}1", "w:object", ";", "w:value", ".", "T:name", ";">>,
    <<"enum", "{", "v:enumerator", "}1", ";", "v:value", ";">>,
    <<"{+", "enum", "{", "v:enumerator", "}1", ";", "v:value", ";", "}-">>,
    <<"{+", "int", "v:object", ";", "v:value", ";", "}-", "v:value", ";">>,
    <<"extern", "int", "g:object", "(+", "int", "T:object", ")-", ";">>,
    <<"return", "v:value", "+", "int_const", ";">>}
Scoping == {[opening |-> opening, items |-> ScopingItems, most |-> 3, closing |-> <<"}-">>] : opening \in Openings}

\* The other productions of declarations and of functions.
Externals == {
    <<"struct", "S:tagged", "{", "T:type", "m:name", ";", "}1", "v:object", ";">>,
    <<"struct", "packed", "S:tagged", "{", "int", "m:name", ";", "}1packed", "v:object", ";">>,
    <<"union", "{", "unsigned", "int", "m:name", ";", "const", "n:name", ";", "}2packed", "packed", "w:object", ";">>,
    <<"struct", "S:tagged", "{", "int", "m:name", ":", "int_const", ",", ":", "int_const", ",", "n:name", ";",
      "const", "T:type", "T:name", ";", "}4", ";">>,
    <<"struct", "{", "struct", "{", "int", "m:name", ";", "}1", ";", "int", "n:name", ";", "}2", "u:object",
      ";">>,
    <<"struct", "packed", "{", "struct", "{", "int", "m:name", ";", "}1", "m:name", ",", "n:name", ";",
      "}2packed", "v:object", ";">>,
    <<"struct", "{", "struct", "{", "int", "m:name", ";", "}1packed", "packed", "n:name", ";", "}1",
      "w:object", ";">>,
    <<"struct", "{", "int", "m:name", "[", "sizeof", "(", "struct", "packed", "{", "int", "m:name", ",",
      "n:name", ";", "}2packed", ")", "]", ";", "}1", "h:object", ";">>,
    <<"struct", "S:tagged", "{", "struct", "S:tag", "*", "m:name", ";", "T:type", "(", "*", "n:name", ")", "(",
      "T:type", "T:name", ")", ";", "}2", "*", "g:object", ";">>,
    <<"enum", "E:tagged", "{", "v:enumerator", "=", "int_const", ",", "w:enumerator", ",", "}2", "u:object",
      ";", "enum", "E:tag", "*", "h:object", ";">>,
    <<"enum", "{", "v:enumerator", "=", "sizeof", "(", "enum", "{", "w:enumerator", "}1", ")", ",",
      "u:enumerator", "}2", ";">>,
    <<"enum", "{", "n:enumerator", "=", "sizeof", "(", "struct", "{", "int", "m:name", ";", "}1", ")", "}1",
      ";">>,
    <<"struct", "{", "enum", "{", "v:enumerator", ",", "w:enumerator", "}2", "m:name", ";", "T:type", "n:name",
      ";", "}2", "g:object", ";">>,
    <<"static", "const", "int", "v:object", "=", "int_const", ",", "*", "const", "u:object", ",", "*", "*", "const",
      "*", "w:object", "=", "&",
      "v:value", ";">>,
    <<"extern", "int", "h:object", "(+", "int", ",", "T:type", "*", ",", "T:type", "[", "]", ",", "const",
      "T:type", "v:object", ",", "...", ")-", ";">>,
    <<"T:type", "(", "*", "g:object", "(", "void", ")", ")", "(", "int", ")", ";">>,
    <<"int", "u:object", "[", "const", "]", ";">>,
    <<"int", "n:object", "[", "const", "volatile", "int_const", "]", ",", "m:object", "[", "]", ",",
      "w:object", "[", "int_const", "]", ",", "(", "v:object", ")", ";">>,
    <<"long", "u:object", "=", "{", "int_const", ",", "{", "int_const", ",", "}", ",", "[", "int_const", "]",
      "=", "int_const", ",", ".", "m:name", ".", "n:name", "=", "{", ".", "m:name", "=", "int_const", "}", "}",
      ";">>,
    <<"typeof", "(", "T:type", ")", "v:object", ";">>,
    <<"typeof", "(", "int_const", ")", "w:object", ";">>,
    <<"inline", "h:object", "(", ")", "{", "}">>,
    <<"g:object", "(", ")", "{", "}">>}
Declarations == {
    <<"typedef", "unsigned", "char", "U:typedef", ";">>,
    <<"register", "signed", "short", "w:object", ";">>,
    <<"auto", "double", "u:object", ";">>,
    <<"noreturn", "void", "g:object", "(+", "volatile", "restrict", "T:type", "T:object", ")-", ";">>,
    <<"float", "_Complex", "u:object", ";">>,
    <<"static", "bool", "h:object", ";">>,
    <<"const", "w:object", ";">>,
    <<"inline", "w:object", ";">>,
    <<"register", "v:object", ";">>}
Expressions == {
    <<"v:value", "=", "v:value", "*", "v:value", "/", "v:value", "%", "v:value", "+", "v:value", "-",
      "v:value", "<<", "v:value", ">>", "v:value", "<", "v:value", ">", "v:value", "<=", "v:value", ">=",
      "v:value", "==", "v:value", "!=", "v:value", "&", "v:value", "^", "v:value", "|", "v:value", "&&",
      "v:value", "||", "v:value", ";">>,
    <<"v:value", "*=", "v:value", "/=", "v:value", "%=", "v:value", "+=", "v:value", "-=", "v:value", "<<=",
      "v:value", ">>=", "v:value", "&=", "v:value", "^=", "v:value", "|=", "v:value", "?", "v:value", ",",
      "v:value", ":", "v:value", ",", "v:value", ";">>,
    <<"++", "v:value", ",", "--", "v:value", ",", "&", "v:value", ",", "*", "v:value", ",", "+", "v:value",
      ",", "-", "v:value", ",", "~", "v:value", ",", "!", "v:value", ",", "sizeof", "v:value", ";">>,
    <<"f:value", "(", "v:value", ",", "(", "v:value", ")", ")", ",", "f:value", "(", ")", ",", "v:value", "[",
      "v:value", "]", ",", "v:value", ".", "m:name", ",", "v:value", "->", "n:name", ",", "v:value", "++", ",",
      "v:value", "--", ";">>,
    <<"char_const", ",", "float_const", ",", "string", ",", "nullptr", ",", "true", ",", "false", ";">>,
    <<"(", "T:type", "*", ")", "v:value", ",", "(", "T:type", "[", "]", ")", "{", "int_const", ",", "}", ",",
      "(", "struct", "S:tag", ")", "{", "[", "int_const", "]", ".", "m:name", "=", "v:value", ",", "v:value",
      ",", ".", "n:name", "=", "int_const", "}", ";">>,
    <<"_Generic", "(", "v:value", ",", "T:type", ":", "v:value", ",", "default", ":", "int_const", ",", "int",
      "(", "*", ")", "(", ")", ":", "v:value", ")", ";">>,
    <<"sizeof", "(", "T:type", "(", ")", ")", ",", "sizeof", "(", "int", "(", "T:type", ")", ")", ",",
      "sizeof", "(", "int", "*", "(", "*", ")", "(", "T:type", ",", "...", ")", ")", ";">>,
    <<"sizeof", "(", "T:type", "[", "int_const", "]", ")", ",", "sizeof", "(", "int", "[", "const", "]", ")",
      ",", "sizeof", "(", "int", "[", "const", "int_const", "]", ")", ";">>,
    <<"sizeof", "(", "T:type", "(", "*", ")", "[", "]", ")", ",", "sizeof", "(", "int", "(", "*", ")", "[",
      "const", "]", ")", ",", "sizeof", "(", "int", "(", "*", ")", "[", "const", "int_const", "]", ")", ",",
      "sizeof", "(", "int", "*", "const", "*", "(", "*", ")", "[", "int_const", "]", ")", ";">>}
Statements == {
    <<"if", "(", "v:value", ")", "v:value", "++", ";", "else", "{", "}">>,
    <<"if", "(", "v:value", ")", "if", "(", "v:value", ")", ";", "else", ";", "else", "if", "(", "v:value",
      ")", ";">>,
    <<"switch", "(", "v:value", ")", "{", "case", "int_const", ":", ";", "case", "int_const", "?", "v:value",
      ":", "v:value", ":", "if", "(", "v:value", ")", ";", "default", ":", "break", ";", "default", ":", "if",
      "(", "v:value", ")", ";", "}">>,
    <<"switch", "(", "v:value", ")", "if", "(", "v:value", ")", ";">>,
    <<"m:name", ":", "goto", "m:name", ";">>,
    <<"m:name", ":", "if", "(", "v:value", ")", "return", ";">>,
    <<"while", "(", "v:value", ")", "continue", ";">>,
    <<"while", "(", "v:value", ")", "if", "(", "v:value", ")", ";">>,
    <<"do", ";", "while", "(", "v:value", ")", ";">>,
    <<"do", "if", "(", "v:value", ")", ";", "while", "(", "v:value", ")", ";">>,
    <<"return", "v:value", ";">>}
Loops ==
    {<<"for", "(+">> \o from \o while \o next \o body :
        from \in {<<";">>, <<"v:value", "=", "int_const", ";">>, <<"int", "w:object", "=", "int_const", ";">>},
        while \in {<<";">>, <<"v:value", ";">>}, next \in {<<")">>, <<"v:value", "++", ")">>},
        body \in {<<"{", ";", "}-">>, <<"if", "(", "v:value", ")", "{", "}-">>}}
Productions == {
    [opening |-> Typedef, items |-> Externals \cup Declarations, most |-> 2, closing |-> <<>>],
    [opening |-> Typedef \o <<"struct", "S:tagged", "{", "int", "m:name", ";", "}1", ";">>
                 \o Function \o <<"int", "v:object", ";">>,
     items |-> Expressions \cup Statements \cup Loops, most |-> 1, closing |-> <<"}-">>]}

\* Programs that are not C, or that the compiler does not take.
Refused == {
    <<"int", "f:object", "(", "wrong", ")", "int", "v:object", ";", "{", "}">>,
    <<"int", "f:object", "(", "wrong", ",", "wrong", ")", ";">>,
    <<"int", "f:object", "(", ")", "int", "wrong", ";", "{", "}">>,
    <<"f:object", "(", ")", "int", "wrong", ";", "int", "w:object", ";", "{", "}">>,
    <<"int", "wrong", "wrong", ";">>,
    <<"enum", "{", "v:enumerator", ",", "v:enumerator", "}2", ";">>,
    <<"enum", "{", "v:enumerator", "}1", ";", "int", "v:object", ";">>,
    <<"enum", "{", "v:enumerator", "}1", ";", "int", "v:object", "(", "void", ")", "{", "}">>}
Wrong == {[opening |-> opening, items |-> {}, most |-> 0, closing |-> <<>>] : opening \in Refused}

MCPrograms == Scoping \cup Productions \cup Wrong

=============================================================================
