---------------------------- MODULE TokenStream -----------------------------
(***************************************************************************)
(* One token of lookahead between the scanner and the parser               *)
(* (src/src/parser/TokenStream.cpp): a name is classified as typedef_name  *)
(* or id when it becomes current, and again whenever the tables of the     *)
(* session have changed since; consuming a token has the effects of its    *)
(* braces and semicolons on the session.                                   *)
(*                                                                         *)
(* A token is [text, name, symbol, at, ...]: name tells identifiers from   *)
(* the other tokens, symbol is the terminal it is classified as.  A stream *)
(* has the current token, the input that is not yet scanned, the role the  *)
(* next name has (context) and what follows enum, struct and union         *)
(* (specifier).                                                            *)
(***************************************************************************)
EXTENDS LexicalSession

(***************************************************************************)
(* roleAfterId: the role a token gives to the name after it.               *)
(***************************************************************************)
ExpressionCues ==
    {"return", "else", "goto", "sizeof", "case", "++", "--", "+", "-", "&", "!", "~",
     "=", "+=", "-=", "*=", "/=", "%=", "<<=", ">>=", "&=", "^=", "|=",
     "==", "!=", "<", ">", "<=", ">=", "<<", ">>", "/", "%", "^", "|", "&&", "||", "?", "[",
     "id", "int_const", "char_const", "float_const", "string", "enumeration_const"}
IdentifierRoles ==
    {"struct", "union", "enum", ".", "->", "*", "typedef_name",
     "int", "char", "void", "short", "long", "signed", "unsigned", "float", "double"}
TypeRestarts == {";", "{", "}", ")", "]", "(", ","}
RoleAfter(symbol, context) ==
    IF symbol \in ExpressionCues \cup IdentifierRoles THEN "AsIdentifier"
    ELSE IF symbol \in TypeRestarts THEN "AsType"
    ELSE context

(***************************************************************************)
(* classifyAndStamp; the symbol of a token that is no name is its text.    *)
(***************************************************************************)
IsType(session, context, name) ==
    context = "AsType" /\ HasTypedef(session, name) /\ ~IsIdentifierShadow(session, name)
Classified(session, context, token) ==
    IF ~token.name THEN token
    ELSE [token EXCEPT !.symbol = IF IsType(session, context, token.text) THEN "typedef_name" ELSE "id"]
\* getCurrentToken
Refreshed(session, stream) ==
    IF session.changed THEN [stream EXCEPT !.current = Classified(session, stream.context, @)] ELSE stream
Settled(session) == [session EXCEPT !.changed = FALSE]

(***************************************************************************)
(* SpecifierLookahead::consume: what follows enum, struct and union up to  *)
(* a brace tells which body the brace opens.                               *)
(***************************************************************************)
SpecifierAfter(specifier, token) ==
    CASE token.text = "enum" -> "AfterEnum"
      [] token.text \in {"struct", "union"} -> "AfterRecord"
      [] token.text = "}" -> specifier
      [] token.symbol = "id" /\ specifier = "AfterEnum" -> "AfterEnumTag"
      [] token.symbol = "id" /\ specifier = "AfterRecord" -> "AfterRecordTag"
      [] OTHER -> "None"
BraceOf(specifier) ==
    IF specifier \in {"AfterEnum", "AfterEnumTag"} THEN "EnumBody"
    ELSE IF specifier \in {"AfterRecord", "AfterRecordTag"} THEN "Record"
    ELSE "Block"
SessionAfter(session, specifier, token) ==
    CASE token.text = "{" -> OpenBrace(session, BraceOf(specifier))
      [] token.text = "}" -> CloseBrace(session)
      [] token.text = ";" -> EndDeclarators(session)
      [] OTHER -> session

(***************************************************************************)
(* TokenFilter drops attributes while it scans and notes the packed ones,  *)
(* and the words struct and union, in the session.                         *)
(***************************************************************************)
IsPackedAttribute(token) == token.text = "packed"
RECURSIVE Scanned(_, _)
Scanned(session, input) ==
    IF IsPackedAttribute(Head(input)) THEN Scanned(NotePacked(session), Tail(input))
    ELSE [token |-> Head(input), input |-> Tail(input),
          session |-> IF Head(input).text \in {"struct", "union"} THEN NoteStructOrUnionToken(session) ELSE session]
\* The next token can be scanned: an attribute is dropped, what follows it is needed too.
CanScan(input) == \E i \in DOMAIN input : ~IsPackedAttribute(input[i])

(***************************************************************************)
(* consume: the current token is taken, its effects on the role of names   *)
(* and on the session happen, and only then the next token is scanned and  *)
(* classified.                                                             *)
(***************************************************************************)
Installed(scan, context, specifier) ==
    [session |-> Settled(scan.session),
     stream |-> [current |-> Classified(scan.session, context, scan.token), input |-> scan.input,
                 context |-> context, specifier |-> specifier]]
Consumed(session, stream) ==
    Installed(Scanned(SessionAfter(session, stream.specifier, stream.current), stream.input),
              RoleAfter(stream.current.symbol, stream.context),
              SpecifierAfter(stream.specifier, stream.current))
\* The constructor scans the first token, in a type position.
Started(session, input) == Installed(Scanned(session, input), "AsType", "None")

=============================================================================
