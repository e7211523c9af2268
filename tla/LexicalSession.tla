--------------------------- MODULE LexicalSession ---------------------------
(***************************************************************************)
(* What the scanner and the parser share while a translation unit is read  *)
(* (src/src/scanner: LexicalSession, IdentifierTable, ParseTypeTable,      *)
(* EnumConstantRegistry): which names are typedef names, objects and       *)
(* enumerators in the scopes that are open, and the packed attributes of   *)
(* the records that are.  A type or a value is the place (site) of the     *)
(* declaration that gave it.                                               *)
(*                                                                         *)
(* A session has                                                           *)
(*   names          scopes of [typedefs, shadows]: a shadow hides a typedef*)
(*   pendingShadows parameters that wait for the scope of a body           *)
(*   changed        the revision differs from the one last classified with *)
(*   types, pendingTypes, enums   scopes of objects and of enumerators     *)
(*   bodies, braces the enum bodies and the braces that are open           *)
(*   packed         [frames, late, afterStructOrUnion, justCompleted]      *)
(***************************************************************************)
EXTENDS Integers, Sequences, FiniteSets, FiniteSetsExt, SequencesExt, TLC

NoNames == <<>>                              \* a table without entries
NoSite == 0

EmptyScope == [typedefs |-> NoNames, shadows |-> {}]
NewSession ==
    [names |-> <<EmptyScope>>, pendingShadows |-> {}, changed |-> FALSE,
     types |-> <<NoNames>>, pendingTypes |-> NoNames, enums |-> <<NoNames>>, bodies |-> <<>>, braces |-> <<>>,
     packed |-> [frames |-> <<>>, late |-> FALSE, afterStructOrUnion |-> FALSE, justCompleted |-> FALSE]]

With(scope, name, site) == name :> site @@ scope
WithTop(stack, value) == Append(Front(stack), value)

(***************************************************************************)
(* IdentifierTable.                                                        *)
(***************************************************************************)
\* mutant of AddTypedef: the token that is waiting keeps its class
AddTypedefQuietly(session, name, site) ==
    [session EXCEPT !.names = WithTop(@, [typedefs |-> With(Last(@).typedefs, name, site),
                                          shadows |-> Last(@).shadows \ {name}])]
AddTypedef(session, name, site) ==
    [session EXCEPT !.names = WithTop(@, [typedefs |-> With(Last(@).typedefs, name, site),
                                          shadows |-> Last(@).shadows \ {name}]),
                    !.changed = TRUE]
AddIdentifierShadow(session, name) ==
    [session EXCEPT !.names = WithTop(@, [Last(@) EXCEPT !.shadows = @ \cup {name}]), !.changed = TRUE]
AddPendingParameterShadow(session, name) == [session EXCEPT !.pendingShadows = @ \cup {name}]

TypedefScopes(session, name) == {i \in DOMAIN session.names : name \in DOMAIN session.names[i].typedefs}
ShadowScopes(session, name) == {i \in DOMAIN session.names : name \in session.names[i].shadows}
HasTypedef(session, name) == TypedefScopes(session, name) # {}
LookupTypedef(session, name) ==
    IF HasTypedef(session, name) THEN session.names[Max(TypedefScopes(session, name))].typedefs[name] ELSE NoSite
\* In one scope the shadow is found before the typedef.
IsIdentifierShadow(session, name) ==
    \E i \in ShadowScopes(session, name) : \A j \in TypedefScopes(session, name) : j <= i

EnterNames(session) ==
    [session EXCEPT !.names = Append(@, [typedefs |-> NoNames, shadows |-> session.pendingShadows]),
                    !.pendingShadows = {}, !.changed = TRUE]
LeaveNames(session) ==
    IF Len(session.names) > 1 THEN [session EXCEPT !.names = Front(@), !.changed = TRUE] ELSE session

(***************************************************************************)
(* ParseTypeTable and EnumConstantRegistry.                                *)
(***************************************************************************)
PopScope(scopes) == IF Len(scopes) > 1 THEN Front(scopes) ELSE scopes
Depths(scopes, name) == {i \in DOMAIN scopes : name \in DOMAIN scopes[i]}

AddType(session, name, site) == [session EXCEPT !.types = WithTop(@, With(Last(@), name, site))]
AddPendingType(session, name, site) == [session EXCEPT !.pendingTypes = With(@, name, site)]
EnterTypes(session) == [session EXCEPT !.types = Append(@, session.pendingTypes), !.pendingTypes = NoNames]
\* A pending parameter lies deeper than every scope; a name that is not bound, at -1.
TypeDepth(session, name) ==
    IF name \in DOMAIN session.pendingTypes THEN Len(session.types) ELSE Max({-1} \cup {i - 1 : i \in Depths(session.types, name)})
EnumDepth(session, name) == Max({-1} \cup {i - 1 : i \in Depths(session.enums, name)})
\* innermostOrdinary: the site of the enumerator an expression means, if it means one.
InnermostEnumerator(session, name) ==
    IF EnumDepth(session, name) > TypeDepth(session, name)
    THEN session.enums[EnumDepth(session, name) + 1][name] ELSE NoSite

\* addEnumerator: refused when the scope has an enumerator or an object of the name.
EnumeratorAllowed(session, name) ==
    name \notin DOMAIN Last(session.enums) /\ name \notin DOMAIN Last(session.types)
AddEnumerator(session, name, site) ==
    [session EXCEPT !.enums = WithTop(@, With(Last(@), name, site)),
                    !.bodies = IF @ = <<>> THEN @ ELSE WithTop(@, Append(Last(@), name))]
OpenBody(session) == [session EXCEPT !.bodies = Append(@, <<>>)]
ClosedBody(session) == IF session.bodies = <<>> THEN <<>> ELSE Last(session.bodies)
CloseBody(session) == [session EXCEPT !.bodies = IF @ = <<>> THEN @ ELSE Front(@)]

(***************************************************************************)
(* RecordPacked: an attribute is scanned one token ahead of the parse, so  *)
(* what it belongs to is told by what was scanned and reduced before it.   *)
(***************************************************************************)
NoteStructOrUnionToken(session) == [session EXCEPT !.packed.afterStructOrUnion = TRUE]
BeginRecord(session) ==
    [session EXCEPT !.packed = [frames |-> Append(@.frames, @.late), late |-> FALSE,
                                afterStructOrUnion |-> FALSE, justCompleted |-> FALSE]]
\* mutant of NotePacked: an attribute after the keyword goes to the record around it
PackedNowhereLate(session) ==
    IF session.packed.justCompleted THEN [session EXCEPT !.packed.late = TRUE]
    ELSE IF session.packed.frames # <<>> THEN [session EXCEPT !.packed.frames = WithTop(@, TRUE)]
    ELSE session
NotePacked(session) ==
    IF session.packed.afterStructOrUnion \/ session.packed.justCompleted THEN [session EXCEPT !.packed.late = TRUE]
    ELSE IF session.packed.frames # <<>> THEN [session EXCEPT !.packed.frames = WithTop(@, TRUE)]
    ELSE session
PackedRecord(session) == Last(session.packed.frames)
ConsumePacked(session) == [session EXCEPT !.packed.frames = Front(@), !.packed.justCompleted = TRUE]
\* mutant of AbandonRecord: the frame of a mere mention stays
AbandonRecordLate(session) ==
    [session EXCEPT !.packed.afterStructOrUnion = FALSE, !.packed.justCompleted = FALSE]
AbandonRecord(session) ==
    [session EXCEPT !.packed = [frames |-> IF @.frames = <<>> THEN @.frames ELSE Front(@.frames), late |-> @.late,
                                afterStructOrUnion |-> FALSE, justCompleted |-> FALSE]]
TakeLatePacked(session) == [session EXCEPT !.packed.late = FALSE]

(***************************************************************************)
(* LexicalSession: braces and the end of a declaration.                    *)
(***************************************************************************)
EnterRecord(session) == EnterTypes(EnterNames(session))
EnterBlock(session) == [EnterRecord(session) EXCEPT !.enums = Append(@, NoNames)]
LeaveRecord(session) == [LeaveNames(session) EXCEPT !.types = PopScope(@)]
LeaveBlock(session) == [LeaveRecord(session) EXCEPT !.enums = PopScope(@)]

BraceFrames == {"Block", "Record", "EnumBody"}
Opened(session, frame) ==
    CASE frame = "Block" -> EnterBlock(session)
      [] frame = "Record" -> EnterRecord(session)
      [] frame = "EnumBody" -> OpenBody(session)
OpenBrace(session, frame) == [Opened(session, frame) EXCEPT !.braces = Append(@, frame)]
CloseBrace(session) ==
    IF session.braces = <<>> \/ Last(session.braces) = "Block"
    THEN [LeaveBlock(session) EXCEPT !.braces = IF @ = <<>> THEN @ ELSE Front(@)]
    ELSE IF Last(session.braces) = "Record"
    THEN [LeaveRecord(session) EXCEPT !.braces = Front(@)]
    ELSE [session EXCEPT !.braces = Front(@)]
EndDeclarators(session) == [session EXCEPT !.pendingShadows = {}, !.pendingTypes = NoNames]

=============================================================================
