------------------------------- MODULE Parser -------------------------------
(***************************************************************************)
(* The parser of the compiler (src/src/ast/LR1Parser.cpp, runLrParse): a   *)
(* loop that shifts and reduces by the generated tables, with the token    *)
(* stream in front of it and the builder of the tree behind it.  The       *)
(* builder declares names in the session while the stream classifies names *)
(* by it, one token ahead.                                                 *)
(*                                                                         *)
(* The source is written by the environment, item by item.  It is written  *)
(* with the meaning C gives to every name in it, by scopes of its own that *)
(* the compiler never sees.                                                *)
(***************************************************************************)
EXTENDS TokenStream, TreeBuilder, FiniteSets

CONSTANTS
    Rules,                  \* <<left hand side, right hand side>>, numbered as in the tables
    Actions, Gotos,         \* the generated tables, by state
    Programs,               \* [opening, items, most, closing]: sequences of words, items a set of them
    Words,                  \* word -> [text, role, size, packed]
    End                     \* the end of the input

VARIABLES
    lexical,                \* LexicalSession
    tags,                   \* ParseEnvironment: recordTags_, enumTags_: tag -> site
    tokens,                 \* TokenStream
    parseStack,             \* sequence of [state, from]: from is the first token of the symbol
    operands,               \* the stacks of AbstractSyntaxTreeBuilderContext
    outcome,                \* parsing, accepted, rejected (syntax), failed (a creator), broken (underflow)
    source                  \* [program, left, scopes, at, valid]: what is written, and what it means in C

vars == <<lexical, tags, tokens, parseStack, operands, outcome, source>>

Outcomes == {"parsing", "accepted", "rejected", "failed", "broken"}

(***************************************************************************)
(* The environment: C's own scopes.  An ordinary name is declared from its *)
(* declarator on, a tag from its first mention; the kind tells a typedef   *)
(* from an object and an enumerator.                                       *)
(***************************************************************************)
NewScope == [ordinary |-> NoNames, tag |-> NoNames]
Visible(scopes, space, name) == {i \in DOMAIN scopes : name \in DOMAIN scopes[i][space]}
Meaning(scopes, space, name) ==
    IF Visible(scopes, space, name) = {} THEN [kind |-> "none", site |-> NoSite]
    ELSE scopes[Max(Visible(scopes, space, name))][space][name]
Declares == {"typedef", "object", "enumerator"}
DeclareIn(scopes, space, name, kind, site) ==
    WithTop(scopes, [Last(scopes) EXCEPT ![space] = With(@, name, [kind |-> kind, site |-> site])])

\* The scopes after a word.
ScopesAfter(scopes, word, at) ==
    CASE word.role = "open" -> Append(scopes, NewScope)
      [] word.role = "close" -> Front(scopes)
      [] word.role \in Declares -> DeclareIn(scopes, "ordinary", word.text, word.role, at)
      [] word.role = "tag" /\ Visible(scopes, "tag", word.text) = {} -> DeclareIn(scopes, "tag", word.text, "tag", at)
      [] word.role = "tagged" /\ word.text \notin DOMAIN Last(scopes).tag -> DeclareIn(scopes, "tag", word.text, "tag", at)
      [] OTHER -> scopes
\* What the word has to be for the program to be C.
Right(scopes, word) ==
    CASE word.role = "type" -> Meaning(scopes, "ordinary", word.text).kind = "typedef"
      [] word.role = "value" -> Meaning(scopes, "ordinary", word.text).kind \in {"object", "enumerator"}
      [] word.role \in Declares -> word.text \notin DOMAIN Last(scopes).ordinary
      [] word.role = "wrong" -> FALSE
      [] OTHER -> TRUE
\* The declaration the name means: an object is not told from another one.
Meant(scopes, word) ==
    CASE word.role = "type" -> Meaning(scopes, "ordinary", word.text).site
      [] word.role = "value" /\ Meaning(scopes, "ordinary", word.text).kind = "enumerator" ->
            Meaning(scopes, "ordinary", word.text).site
      [] word.role \in {"tag", "tagged"} -> Meaning(scopes, "tag", word.text).site
      [] OTHER -> NoSite
Stamped(scopes, word, at) ==
    [text |-> word.text, name |-> word.role \notin {"", "open", "close"}, symbol |-> word.text, at |-> at,
     class |-> IF word.role = "type" THEN "typedef_name" ELSE "id", meant |-> Meant(scopes, word),
     body |-> word.body]

Put(text, word) ==
    LET at == text.at + 1
        after == ScopesAfter(text.scopes, word, at)
    IN [at |-> at, scopes |-> after, valid |-> text.valid /\ Right(text.scopes, word),
        written |-> Append(text.written, Stamped(after, word, at))]
Written(scopes, at, words) ==
    FoldLeft(Put, [at |-> at, scopes |-> scopes, valid |-> TRUE, written |-> <<>>],
             [i \in DOMAIN words |-> Words[words[i]]])

(***************************************************************************)
(* The stacks of the builder.  A terminal is the token; a node has the     *)
(* place of its first token, the tokens of the names it declares and what  *)
(* the names in it were taken to mean and should.                          *)
(***************************************************************************)
NoToken == [text |-> "", name |-> FALSE, symbol |-> "", at |-> 0, class |-> "id", meant |-> NoSite, body |-> <<>>]
NewNode(from) ==
    [from |-> from, names |-> <<>>, typedef |-> FALSE, untagged |-> FALSE,
     site |-> NoSite, meant |-> NoSite, body |-> <<>>, written |-> <<>>]
PlaceOf(stack, value) == IF stack = "terminal" THEN value.at ELSE value.from

Uses(creator, stack) == Cardinality({i \in DOMAIN creator.takes : creator.takes[i] = stack})
\* topOf and popFrom throw when the stack is empty.
Underflows(creator) ==
    \/ \E s \in Range(creator.takes) \ Tolerant : Uses(creator, s) > Len(operands[s])
    \/ creator.adds \in Stacks \ Tolerant /\ operands[creator.adds] = <<>>
TakenAt(creator, i) ==
    LET s == creator.takes[i]
        k == Cardinality({j \in 1..i : creator.takes[j] = s})
    IN IF k <= Len(operands[s]) THEN operands[s][Len(operands[s]) + 1 - k] ELSE NewNode(0)
Taken(creator) == [i \in DOMAIN creator.takes |-> TakenAt(creator, i)]
Popped(creator) ==
    [s \in Stacks |-> SubSeq(operands[s], 1, Len(operands[s]) - Uses(creator, s))]

(***************************************************************************)
(* The node a creator makes.  A name is the token identifierDeclarator     *)
(* takes; declarators and lists of them pass their names on.               *)
(***************************************************************************)
Naming == {"directDeclarator", "declarator", "initializedDeclarator", "initializedDeclarators"}
Specifying == {"typeSpecifier", "storageSpecifier", "specifiers"}
NamesIn(creator, taken) ==
    FlattenSeq([i \in DOMAIN taken |-> IF creator.takes[i] \in Naming THEN taken[i].names ELSE <<>>])
Specified(creator, taken) == {taken[i] : i \in {j \in DOMAIN taken : creator.takes[j] \in Specifying}}
Bodies == {"taggedRecord", "recordBody", "taggedEnum", "enumBody"}

Site(tag, kind) == IF tag \in DOMAIN tags[kind] THEN tags[kind][tag] ELSE NoSite
\* ensureRecordTag: the first mention of a tag makes the record, wherever it is; it is known by what it was meant to be.
RecordTag(tag) == IF tag.text \in DOMAIN tags.records THEN tags.records[tag.text] ELSE tag.meant
SiteFor(name, taken) ==
    CASE name = "typedefName" -> LookupTypedef(lexical, taken[1].text)
      [] name = "identifierExpression" -> InnermostEnumerator(lexical, taken[1].text)
      [] name = "recordTag" -> RecordTag(taken[1])
      [] name \in {"taggedRecord"} -> RecordTag(taken[3])
      [] name = "enumTag" -> Site(taken[1].text, "enums")
      [] name = "taggedEnum" -> taken[3].at
      [] OTHER -> NoSite
MeantFor(name, taken) ==
    CASE name \in {"typedefName", "identifierExpression", "recordTag", "enumTag"} -> taken[1].meant
      [] name \in {"taggedRecord", "taggedEnum"} -> taken[3].meant
      [] OTHER -> NoSite
MembersIn(creator, taken) ==
    LET i == CHOOSE j \in DOMAIN taken : creator.takes[j] = "members" IN taken[i].names
BodyOf(name, creator, taken) ==
    CASE name \in {"taggedRecord", "recordBody"} -> <<Len(MembersIn(creator, taken)), PackedRecord(lexical)>>
      [] name \in {"taggedEnum", "enumBody"} -> <<Len(ClosedBody(lexical)), FALSE>>
      [] OTHER -> <<>>
Node(name, creator, taken, from) ==
    [from |-> from,
     names |-> IF name = "identifierDeclarator" THEN <<taken[1]>> ELSE NamesIn(creator, taken),
     typedef |-> name = "typedefStorageClass" \/ \E s \in Specified(creator, taken) : s.typedef,
     untagged |-> name = "recordBody" \/ \E s \in Specified(creator, taken) : s.untagged,
     site |-> SiteFor(name, taken), meant |-> MeantFor(name, taken),
     body |-> BodyOf(name, creator, taken), written |-> IF name \in Bodies THEN taken[1].body ELSE <<>>]

(***************************************************************************)
(* The stacks after a creator.  The members of one line of a record wait   *)
(* as its declarators until the line is reduced.                           *)
(***************************************************************************)
Waiting == Last(operands["structDeclarators"]).names
AddedBy(name, creator, taken) ==
    CASE name = "structDeclarator" -> NamesIn(creator, taken)
      [] name = "bitField" -> NamesIn(creator, taken)
      [] name = "unnamedBitField" -> <<NoToken>>
      [] name = "structMembers" -> Waiting
      [] name = "anonymousMember" /\ taken[2].untagged -> <<NoToken>>
      [] OTHER -> <<>>
AddedTo(list, names, from) ==
    IF list = <<>> THEN <<[NewNode(from) EXCEPT !.names = names]>>
    ELSE WithTop(list, [Last(list) EXCEPT !.names = @ \o names])
Drained(name, list) ==
    IF name = "structMembers" THEN WithTop(list, [Last(list) EXCEPT !.names = <<>>]) ELSE list
OperandsAfter(name, creator, taken, popped, from) ==
    [s \in Stacks |->
        IF s \in Range(creator.gives) THEN Append(popped[s], Node(name, creator, taken, from))
        ELSE IF s = creator.adds THEN AddedTo(popped[s], AddedBy(name, creator, taken), from)
        ELSE IF s = "structDeclarators" THEN Drained(name, popped[s])
        ELSE popped[s]]
\* popStructDeclaratorList throws when members of the record still wait.
Undrained(name) == name \in {"taggedRecord", "recordBody", "recordTag"} /\ Waiting # <<>>

(***************************************************************************)
(* ParseEnvironment: what the creators declare.                            *)
(***************************************************************************)
\* mutant of DeclareObject: the objects of a declaration do not hide typedefs
DeclareUnhidden(session, token) == AddType(session, token.text, token.at)
DeclareObject(session, token) ==
    AddType(IF HasTypedef(session, token.text) THEN AddIdentifierShadow(session, token.text) ELSE session,
            token.text, token.at)
RegisterInitializedDeclaration(session, specifiers, names) ==
    FoldLeft(LAMBDA s, token : IF specifiers.typedef THEN AddTypedef(s, token.text, token.at) ELSE DeclareObject(s, token),
             TakeLatePacked(session), names)
\* maybeRegisterParameterShadow and maybeDefineParameter
DeclareParameter(session, names) ==
    IF names = <<>> THEN session
    ELSE AddPendingType(IF HasTypedef(session, names[1].text) THEN AddPendingParameterShadow(session, names[1].text)
                        ELSE session, names[1].text, names[1].at)
EnumeratorToken(name, taken) == IF name = "enumerator" THEN taken[1] ELSE taken[3]

Declared(session, name, creator, taken) ==
    CASE name = "structOrUnion" -> BeginRecord(session)
      [] name \in {"taggedRecord", "recordBody"} -> ConsumePacked(session)
      [] name = "recordTag" -> AbandonRecord(session)
      [] name \in {"enumerator", "enumeratorWithValue"} ->
            AddEnumerator(session, EnumeratorToken(name, taken).text, EnumeratorToken(name, taken).at)
      [] name \in {"taggedEnum", "enumBody"} -> CloseBody(session)
      [] name = "parameterDeclaration" -> DeclareParameter(session, NamesIn(creator, taken))
      [] name = "initializedDeclaration" ->
            RegisterInitializedDeclaration(session, taken[2], NamesIn(creator, taken))
      [] name \in {"functionDefinition", "defaultReturnTypeFunctionDefinition"} ->
            AddType(session, NamesIn(creator, taken)[1].text, NamesIn(creator, taken)[1].at)
      [] OTHER -> session
TagsAfter(name, taken) ==
    CASE name = "recordTag" -> [tags EXCEPT !.records = With(@, taken[1].text, RecordTag(taken[1]))]
      [] name = "taggedRecord" -> [tags EXCEPT !.records = With(@, taken[3].text, RecordTag(taken[3]))]
      [] name = "taggedEnum" -> [tags EXCEPT !.enums = With(@, taken[3].text, taken[3].at)]
      [] OTHER -> tags

\* A creator reports an error, and the parse ends.
Fails(name, creator, taken) ==
    CASE name = unsupported -> TRUE
      [] name \in {"enumerator", "enumeratorWithValue"} ->
            ~EnumeratorAllowed(lexical, EnumeratorToken(name, taken).text)
      [] name = "typedefName" -> ~HasTypedef(lexical, taken[1].text)
      [] name \in {"initializedDeclaration", "functionDefinition", "defaultReturnTypeFunctionDefinition"} ->
            \E token \in Range(NamesIn(creator, taken)) : token.text \in DOMAIN Last(lexical.enums)
      [] OTHER -> FALSE

(***************************************************************************)
(* runLrParse.                                                             *)
(***************************************************************************)
Top == Last(parseStack).state
Seen == Refreshed(lexical, tokens)           \* getCurrentToken, at the head of the loop
Asked == IF Seen.current.symbol \in DOMAIN Actions[Top] THEN Actions[Top][Seen.current.symbol] ELSE <<"error", 0>>
\* The current token was scanned.
Reading == outcome = "parsing" /\ tokens.current # NoToken

Start ==
    /\ outcome = "parsing" /\ tokens.current = NoToken /\ CanScan(tokens.input)
    /\ LET started == Started(lexical, tokens.input)
       IN lexical' = started.session /\ tokens' = started.stream
    /\ UNCHANGED <<tags, parseStack, operands, outcome, source>>

\* applyShift, when the token after the current one is there to be scanned.
Shift ==
    /\ Reading /\ Asked[1] = "shift" /\ CanScan(tokens.input)
    /\ LET consumed == Consumed(lexical, Seen)
       IN lexical' = consumed.session /\ tokens' = consumed.stream
    /\ parseStack' = Append(parseStack, [state |-> Asked[2], from |-> Seen.current.at])
    /\ operands' = [operands EXCEPT !["terminal"] = Append(@, Seen.current)]
    /\ UNCHANGED <<tags, outcome, source>>

\* applyReduce: the stack first, then the creator of the production.
Rest(rule) == SubSeq(parseStack, 1, Len(parseStack) - Len(Rules[rule][2]))
ReducedStack(rule) ==
    Append(Rest(rule), [state |-> Gotos[Last(Rest(rule)).state][Rules[rule][1]],
                        from |-> parseStack[Len(parseStack) - Len(Rules[rule][2]) + 1].from])
Made(rule, name, creator, taken) ==
    IF Undrained(name)
    THEN outcome' = "broken" /\ lexical' = Settled(lexical) /\ UNCHANGED <<tags, operands>>
    ELSE IF Fails(name, creator, taken)
    THEN outcome' = "failed" /\ lexical' = Settled(lexical) /\ UNCHANGED <<tags, operands>>
    ELSE /\ operands' = OperandsAfter(name, creator, taken, Popped(creator), Last(ReducedStack(rule)).from)
         /\ lexical' = Declared(Settled(lexical), name, creator, taken)
         /\ tags' = TagsAfter(name, taken)
         /\ UNCHANGED outcome
Reduce ==
    /\ Reading /\ Asked[1] = "reduce"
    /\ parseStack' = ReducedStack(Asked[2])
    /\ tokens' = Seen
    /\ IF Underflows(Creators[Asked[2]])
       THEN outcome' = "broken" /\ lexical' = Settled(lexical) /\ UNCHANGED <<tags, operands>>
       ELSE Made(Asked[2], CreatorNames[Asked[2]], Creators[Asked[2]], Taken(Creators[Asked[2]]))
    /\ UNCHANGED source

Accept ==
    /\ Reading /\ Asked[1] = "accept"
    /\ outcome' = "accepted"
    /\ UNCHANGED <<lexical, tags, tokens, parseStack, operands, source>>

Reject ==
    /\ Reading /\ Asked[1] = "error"
    /\ outcome' = "rejected"
    /\ UNCHANGED <<lexical, tags, tokens, parseStack, operands, source>>

(***************************************************************************)
(* The scanner has to wait for the source: the environment writes the next *)
(* item, one that is C where it stands, or what closes the program.        *)
(***************************************************************************)
Wanted == outcome = "parsing" /\ source.left >= 0 /\ ~CanScan(tokens.input)
          /\ (Reading => Asked[1] = "shift")
Write(words, left) ==
    LET text == Written(source.scopes, source.at, words)
    IN /\ text.valid
       /\ tokens' = [tokens EXCEPT !.input = @ \o text.written]
       /\ source' = [source EXCEPT !.left = left, !.scopes = text.scopes, !.at = text.at]
       /\ UNCHANGED <<lexical, tags, parseStack, operands, outcome>>
WriteItem ==
    /\ Wanted /\ source.left > 0
    /\ \E words \in source.program.items : Write(words, source.left - 1)
WriteClosing ==
    /\ Wanted
    /\ Write(source.program.closing \o <<End>>, -1)

Init ==
    /\ lexical = NewSession
    /\ tags = [records |-> NoNames, enums |-> NoNames]
    /\ parseStack = <<[state |-> 1, from |-> 0]>>
    /\ operands = [s \in Stacks |-> <<>>]
    /\ outcome = "parsing"
    /\ \E program \in Programs :
         LET text == Written(<<NewScope>>, 0, program.opening)
         IN /\ source = [program |-> program, left |-> program.most, scopes |-> text.scopes, at |-> text.at,
                         valid |-> text.valid]
            /\ tokens = [current |-> NoToken, input |-> text.written, context |-> "AsType", specifier |-> "None"]

Next == Start \/ Shift \/ Reduce \/ Accept \/ Reject \/ WriteItem \/ WriteClosing

Spec == Init /\ [][Next]_vars

-----------------------------------------------------------------------------
(***************************************************************************)
(* Properties.                                                             *)
(***************************************************************************)

(***************************************************************************)
(* Every name of a program that is C is read as what it means where it     *)
(* stands: as a typedef name or an identifier, as the typedef, the         *)
(* enumerator or the record of the declaration in scope; and such a        *)
(* program is never refused.  The names are classified a token ahead of    *)
(* the reductions that declare and hide them (TokenStream::consume,        *)
(* ParseEnvironment::registerInitializedDeclaration).                      *)
(***************************************************************************)
NamesAsDeclared ==
    /\ \A t \in Range(operands["terminal"]) : source.valid /\ t.name => t.symbol = t.class
    /\ \A s \in {"typeSpecifier", "expression"} : \A v \in Range(operands[s]) : source.valid => v.site = v.meant
    /\ source.valid => outcome \in {"parsing", "accepted"}

(***************************************************************************)
(* A reduction takes no value that belongs to a symbol before its own, and *)
(* leaves of its own production at most one value on a stack and no        *)
(* terminal: what the creators pop is what the productions pushed          *)
(* (AbstractSyntaxTreeBuilderContext's underflow only tells when a stack   *)
(* has nothing left at all).                                               *)
(***************************************************************************)
Before(stack, values, from) ==
    SelectSeq([i \in DOMAIN values |-> PlaceOf(stack, values[i])], LAMBDA place : place < from)
Since(stack, values, from) == {i \in DOMAIN values : PlaceOf(stack, values[i]) >= from}
OwnOnly(before, after, from) ==
    \A s \in Stacks :
        /\ Before(s, after[s], from) = Before(s, before[s], from)
        /\ Cardinality(Since(s, after[s], from)) <= (IF s = "terminal" THEN 0 ELSE 1)
OperandsOwn ==
    [][Len(parseStack') <= Len(parseStack) /\ parseStack' # parseStack /\ outcome' # "failed"
       => outcome' = "parsing" /\ OwnOnly(operands, operands', Last(parseStack').from)]_vars

(***************************************************************************)
(* Between two external declarations the builder's stacks are empty, no    *)
(* record is open, no parameter waits for a body and the session is back   *)
(* in its first scope.                                                     *)
(***************************************************************************)
BetweenDeclarations ==
    Len(parseStack) = 2 /\ operands["external"] = <<>> /\ Gotos[1]["<translation_unit>"] = Top
NothingLeftOver ==
    BetweenDeclarations =>
        /\ \A s \in Stacks : operands[s] = <<>>
        /\ Len(lexical.names) = 1 /\ Len(lexical.types) = 1 /\ Len(lexical.enums) = 1
        /\ lexical.bodies = <<>> /\ lexical.braces = <<>> /\ lexical.packed.frames = <<>>
        /\ lexical.pendingShadows = {} /\ lexical.pendingTypes = NoNames

(***************************************************************************)
(* A structure, union or enumeration has the members written between its   *)
(* own braces, and it is packed if the attribute stands right behind its   *)
(* keyword or its closing brace, however records are nested or follow one  *)
(* another (RecordPacked, structMemberLists, the enum bodies).             *)
(***************************************************************************)
BodiesAsWritten ==
    \A v \in Range(operands["typeSpecifier"]) : v.body = v.written

=============================================================================
